---------------------------- MODULE MariiaProofs ----------------------------
(***************************************************************************)
(* The server of project/mariia, for any number of descriptors, nicknames, *)
(* channels and mode strings: the sets of descriptors that a channel keeps *)
(* and the list of names that a client keeps stay in step, and the         *)
(* channels implement Membership.                                          *)
(***************************************************************************)
EXTENDS Mariia, ListLemmas, FiniteSetTheorems

(* The Clients, as far as TypeOK is about them.                            *)
ClientsOK ==
  /\ clients \subseteq open /\ open \subseteq Fd
  /\ cl \in [Fd -> ClientRec]
  /\ \A c \in Fd \ clients : cl[c] = NoClient
  /\ \A c \in clients : Listed(c) <= MAXCHANNELS
  /\ users \subseteq Nick
  /\ turn \in clients \cup {None}

(* A Channel as it may be while the descriptors S have a client.           *)
Good(r, S) ==
  /\ r \in ChannelRec
  /\ r.members = {} => r = NoChannel
  /\ r.members \subseteq S /\ IsFiniteSet(r.members)
  /\ r.operators \subseteq r.members
  /\ r.invited \subseteq S \ r.members
  /\ r.limit # 0 => Cardinality(r.members) <= r.limit

ChannelsOK == ch \in [Low -> ChannelRec] /\ \A n \in Low : Good(ch[n], clients)

(* The list that `s` is of a client's channels names the channel n.        *)
Names(s, n) == \E i \in 1 .. Len(s) : lower[s[i]] = n

(* Whoever is in the set of a channel has the channel in its list, and has *)
(* registered.                                                             *)
ListCovers ==
  \A c \in clients, n \in Low :
    c \in ch[n].members => Names(cl[c].channels, n) /\ cl[c].registered

MariiaInv == ClientsOK /\ ChannelsOK /\ ListCovers

-----------------------------------------------------------------------------
(* What is done to a Channel.                                              *)

LEMMA ChannelParts ==
  ASSUME NEW r \in ChannelRec
  PROVE  /\ r.members \in SUBSET Fd /\ r.operators \in SUBSET Fd /\ r.invited \in SUBSET Fd
         /\ r.modes \in SUBSET {"i", "t"} /\ r.key \in Key \cup {""}
         /\ r.limit \in Limit \cup {0} /\ r.limit \in Int /\ r.topic \in Topic \cup {""}
<1>1. r.limit \in Limit \cup {0}
  BY DEF ChannelRec
<1>2. Limit \subseteq Int
  BY MariiaAssumption, Zenon
<1>3. ASSUME NEW l \in Limit \cup {0}
      PROVE  l \in Int
  BY <1>2
<1> QED
  BY <1>1, <1>3 DEF ChannelRec

LEMMA BlankIsGood == ASSUME NEW S PROVE Good(NoChannel, S)
BY FS_EmptySet DEF Good, NoChannel, ChannelRec

LEMMA NewIsGood ==
  ASSUME NEW S \in SUBSET Fd, NEW c \in S, NEW k \in Key \cup {""}
  PROVE  Good(NewChannel(c, k), S) /\ NewChannel(c, k).members = {c}
BY FS_Singleton DEF Good, NewChannel, NoChannel, ChannelRec

LEMMA EnteredIsGood ==
  ASSUME NEW S \in SUBSET Fd, NEW r, Good(r, S), NEW c \in S \ r.members,
         r.limit # 0 => Cardinality(r.members) # r.limit
  PROVE  LET q == [r EXCEPT !.members = @ \cup {c}, !.invited = @ \ {c}]
         IN  Good(q, S) /\ q.members = r.members \cup {c}
<1> DEFINE q == [r EXCEPT !.members = @ \cup {c}, !.invited = @ \ {c}]
<1>1. r \in ChannelRec /\ r.limit \in Int
  BY ChannelParts DEF Good
<1>2. /\ q \in ChannelRec /\ q.members = r.members \cup {c} /\ q.operators = r.operators
      /\ q.invited = r.invited \ {c} /\ q.limit = r.limit
  BY <1>1 DEF ChannelRec
<1>3. /\ IsFiniteSet(r.members \cup {c}) /\ Cardinality(r.members) \in Nat
      /\ Cardinality(r.members \cup {c}) = Cardinality(r.members) + 1
  BY FS_AddElement, FS_CardinalityType DEF Good
<1>4. r.limit # 0 => Cardinality(r.members \cup {c}) <= r.limit
  BY <1>1, <1>3 DEF Good
<1> HIDE DEF q
<1>5. Good(q, S)
  BY <1>2, <1>3, <1>4 DEF Good
<1> QED
  BY <1>2, <1>5 DEF q

(* Whoever leaves takes everything along: what is left is good without it. *)
LEMMA LeftIsGood ==
  ASSUME NEW S \in SUBSET Fd, NEW r, Good(r, S), NEW c
  PROVE  LET q == OrDeleted(removeMember(r, c))
         IN  Good(q, S \ {c}) /\ q.members = r.members \ {c}
<1> DEFINE q == removeMember(r, c)
<1>1. r \in ChannelRec /\ r.limit \in Int
  BY ChannelParts DEF Good
<1>2. /\ q \in ChannelRec /\ q.members = r.members \ {c} /\ q.operators = r.operators \ {c}
      /\ q.invited = r.invited \ {c} /\ q.limit = r.limit
  BY <1>1 DEF ChannelRec, removeMember
<1>3. /\ IsFiniteSet(r.members \ {c})
      /\ Cardinality(r.members \ {c}) \in Nat /\ Cardinality(r.members) \in Nat
      /\ Cardinality(r.members \ {c}) <= Cardinality(r.members)
  <2>1. IsFiniteSet(r.members)
    BY DEF Good
  <2>2. r.members \ {c} \in SUBSET r.members
    OBVIOUS
  <2> QED
    BY <2>1, <2>2, FS_Subset, FS_CardinalityType
<1>4. r.limit # 0 => Cardinality(r.members \ {c}) <= r.limit
  BY <1>1, <1>3 DEF Good
<1> HIDE DEF q
<1>5. CASE q.members = {}
  <2>1. OrDeleted(q) = NoChannel /\ NoChannel.members = {}
    BY <1>5 DEF OrDeleted, NoChannel
  <2> QED
    BY <1>2, <1>5, <2>1, BlankIsGood DEF q
<1>6. CASE q.members # {}
  <2>1. OrDeleted(q) = q
    BY <1>6 DEF OrDeleted
  <2>2. Good(q, S \ {c})
    BY <1>2, <1>3, <1>4, <1>6 DEF Good
  <2> QED
    BY <1>2, <2>1, <2>2 DEF q
<1> QED
  BY <1>5, <1>6

LEMMA GrowsGood ==
  ASSUME NEW S, NEW T, S \subseteq T, NEW r, Good(r, S)
  PROVE  Good(r, T)
BY DEF Good

LEMMA InvitedIsGood ==
  ASSUME NEW S \in SUBSET Fd, NEW r, Good(r, S), r.members # {}, NEW c \in S \ r.members
  PROVE  LET q == [r EXCEPT !.invited = @ \cup {c}]
         IN  Good(q, S) /\ q.members = r.members
<1> DEFINE q == [r EXCEPT !.invited = @ \cup {c}]
<1>1. /\ q \in ChannelRec /\ q.members = r.members /\ q.operators = r.operators
      /\ q.invited = r.invited \cup {c} /\ q.limit = r.limit
  BY DEF Good, ChannelRec
<1> HIDE DEF q
<1>2. Good(q, S)
  BY <1>1 DEF Good
<1> QED
  BY <1>1, <1>2 DEF q

LEMMA NamedIsGood ==
  ASSUME NEW S, NEW r, Good(r, S), r.members # {}, NEW t \in Topic \cup {""}
  PROVE  LET q == [r EXCEPT !.topic = t]
         IN  Good(q, S) /\ q.members = r.members
<1> DEFINE q == [r EXCEPT !.topic = t]
<1>1. /\ q \in ChannelRec /\ q.members = r.members /\ q.operators = r.operators
      /\ q.invited = r.invited /\ q.limit = r.limit
  BY DEF Good, ChannelRec
<1> HIDE DEF q
<1>2. Good(q, S)
  BY <1>1 DEF Good
<1> QED
  BY <1>1, <1>2 DEF q

LEMMA ToldIsGood ==
  ASSUME NEW S, NEW r, Good(r, S), r.members # {},
         NEW m, m.mode \in {"i", "t"}
  PROVE  Good(handleModeIT(r, m), S) /\ handleModeIT(r, m).members = r.members
<1> DEFINE q == handleModeIT(r, m)
<1>1. /\ q \in ChannelRec /\ q.members = r.members /\ q.operators = r.operators
      /\ q.invited = r.invited /\ q.limit = r.limit
  BY DEF Good, ChannelRec, handleModeIT
<1> HIDE DEF q
<1>2. Good(q, S)
  BY <1>1 DEF Good
<1> QED
  BY <1>1, <1>2 DEF q

LEMMA KeyedIsGood ==
  ASSUME NEW S, NEW r, Good(r, S), r.members # {}, NEW m, m.add => m.arg \in Key
  PROVE  Good(handleModeK(r, m), S) /\ handleModeK(r, m).members = r.members
<1> DEFINE q == handleModeK(r, m)
<1>1. /\ q \in ChannelRec /\ q.members = r.members /\ q.operators = r.operators
      /\ q.invited = r.invited /\ q.limit = r.limit
  BY DEF Good, ChannelRec, handleModeK
<1> HIDE DEF q
<1>2. Good(q, S)
  BY <1>1 DEF Good
<1> QED
  BY <1>1, <1>2 DEF q

LEMMA LimitedIsGood ==
  ASSUME NEW S, NEW r, Good(r, S), r.members # {}, NEW m, m.add => m.arg \in Limit
  PROVE  Good(handleModeL(r, m), S) /\ handleModeL(r, m).members = r.members
<1> DEFINE q(l) == [r EXCEPT !.limit = l]
<1>1. ASSUME NEW l \in Limit \cup {0}, l # 0 => Cardinality(r.members) <= l
      PROVE  Good(q(l), S) /\ q(l).members = r.members
  <2>1. /\ q(l) \in ChannelRec /\ q(l).members = r.members /\ q(l).operators = r.operators
        /\ q(l).invited = r.invited /\ q(l).limit = l
    BY <1>1 DEF Good, ChannelRec
  <2> HIDE DEF q
  <2>2. Good(q(l), S)
    BY <1>1, <2>1 DEF Good
  <2> QED
    BY <2>1, <2>2
<1>2. \/ handleModeL(r, m) = r
      \/ handleModeL(r, m) = q(0)
      \/ m.add /\ handleModeL(r, m) = q(m.arg) /\ ~(m.arg < Cardinality(r.members))
  BY Zenon DEF handleModeL
<1> HIDE DEF q
<1>3. Cardinality(r.members) \in Int
  BY FS_CardinalityType DEF Good
<1>4. m.add => m.arg \in Int
  <2>1. Limit \subseteq Int
    BY MariiaAssumption, Zenon
  <2> QED
    BY <2>1
<1>5. CASE m.add /\ handleModeL(r, m) = q(m.arg) /\ ~(m.arg < Cardinality(r.members))
  BY <1>1, <1>3, <1>4, <1>5
<1>6. CASE handleModeL(r, m) = q(0)
  BY <1>1, <1>6
<1> QED
  BY <1>2, <1>5, <1>6

LEMMA RunIsGood ==
  ASSUME NEW S, NEW r, Good(r, S), r.members # {}, NEW m
  PROVE  Good(handleModeO(r, m), S) /\ handleModeO(r, m).members = r.members
<1> DEFINE q(O) == [r EXCEPT !.operators = O]
<1>1. ASSUME NEW O \in SUBSET r.members
      PROVE  Good(q(O), S) /\ q(O).members = r.members
  <2>1. /\ q(O) \in ChannelRec /\ q(O).members = r.members /\ q(O).operators = O
        /\ q(O).invited = r.invited /\ q(O).limit = r.limit
    BY DEF Good, ChannelRec
  <2> HIDE DEF q
  <2>2. Good(q(O), S)
    BY <2>1 DEF Good
  <2> QED
    BY <2>1, <2>2
<1>2. r.operators \subseteq r.members
  BY DEF Good
<1>3. \/ handleModeO(r, m) = r
      \/ handleModeO(r, m) = q(r.operators \ {findClient(m.arg)})
      \/ /\ handleModeO(r, m) = q(r.operators \cup {findClient(m.arg)})
         /\ findClient(m.arg) \in r.members
  BY Zenon DEF handleModeO
<1> HIDE DEF q
<1>4. CASE handleModeO(r, m) = q(r.operators \ {findClient(m.arg)})
  BY <1>1, <1>2, <1>4
<1>5. CASE /\ handleModeO(r, m) = q(r.operators \cup {findClient(m.arg)})
           /\ findClient(m.arg) \in r.members
  BY <1>1, <1>2, <1>5
<1> QED
  BY <1>3, <1>4, <1>5

(* One letter of a mode string.                                            *)
LEMMA LetterIsGood ==
  ASSUME NEW S, NEW r, Good(r, S), r.members # {},
         NEW ms \in ModeCmds, NEW i \in 1 .. Len(ms)
  PROVE  Good(Apply(r, ms[i]), S) /\ Apply(r, ms[i]).members = r.members
<1> DEFINE m == ms[i]
<1>1. /\ m.mode \in {"i", "t", "k", "l", "o"}
      /\ m.add /\ m.mode = "k" => m.arg \in Key
      /\ m.add /\ m.mode = "l" => m.arg \in Limit
  BY MariiaAssumption, Zenon
<1> HIDE DEF m
<1>2. CASE m.mode \in {"i", "t"}
  <2>1. Apply(r, m) = handleModeIT(r, m)
    BY <1>2 DEF Apply
  <2> QED
    BY <1>2, <2>1, ToldIsGood DEF m
<1>3. CASE m.mode = "k"
  <2>1. Apply(r, m) = handleModeK(r, m)
    BY <1>3 DEF Apply
  <2> QED
    BY <1>1, <1>3, <2>1, KeyedIsGood DEF m
<1>4. CASE m.mode = "l"
  <2>1. Apply(r, m) = handleModeL(r, m)
    BY <1>4 DEF Apply
  <2> QED
    BY <1>1, <1>4, <2>1, LimitedIsGood DEF m
<1>5. CASE m.mode = "o"
  <2>1. Apply(r, m) = handleModeO(r, m)
    BY <1>5 DEF Apply
  <2> QED
    BY <2>1, RunIsGood DEF m
<1> QED
  BY <1>1, <1>2, <1>3, <1>4, <1>5

(* All letters: by induction over them.                                    *)
LEMMA SetIsGood ==
  ASSUME NEW S, NEW r, Good(r, S), r.members # {}, NEW ms \in ModeCmds
  PROVE  Good(ApplyAll(r, ms), S) /\ ApplyAll(r, ms).members = r.members
<1> DEFINE N == Len(ms)
           C == {q \in ChannelRec : Good(q, S) /\ q.members = r.members}
           G == [p \in C \X (1 .. N) |-> Apply(p[1], ms[p[2]])]
           Solves(f) == f = [i \in 0 .. N |-> IF i = 0 THEN r ELSE Apply(f[i - 1], ms[i])]
           made == CHOOSE f : Solves(f)
<1>1. N \in Nat
  BY MariiaAssumption, Zenon
<1>2. r \in C
  BY DEF Good
<1>3. ASSUME NEW q \in C, NEW i \in 1 .. N
      PROVE  Apply(q, ms[i]) \in C
  <2>1. q.members # {} /\ Good(q, S)
    OBVIOUS
  <2>2. Good(Apply(q, ms[i]), S) /\ Apply(q, ms[i]).members = q.members
    BY <2>1, LetterIsGood
  <2> QED
    BY <2>2 DEF Good
<1>4. G \in [C \X (1 .. N) -> C]
  <2>1. \A p \in C \X (1 .. N) : p[1] \in C /\ p[2] \in 1 .. N
    OBVIOUS
  <2> HIDE DEF C, N
  <2> QED
    BY <1>3, <2>1
<1> HIDE DEF N, C
<1>5. PICK f : Iterates(f, C, r, N, G)
  <2> HIDE DEF G
  <2> QED
    BY <1>1, <1>2, <1>4, Recursion, Zenon
<1>6. Solves(f)
  <2>1. ASSUME NEW i \in 0 .. N
        PROVE  f[i] = IF i = 0 THEN r ELSE Apply(f[i - 1], ms[i])
    <3>1. CASE i # 0
      <4>1. i \in 1 .. N /\ i - 1 \in 0 .. N
        BY <1>1, <3>1
      <4>2. <<f[i - 1], i>> \in C \X (1 .. N)
        BY <1>5, <4>1 DEF Iterates
      <4>3. f[i] = G[<<f[i - 1], i>>]
        BY <1>5, <4>1 DEF Iterates
      <4> QED
        BY <3>1, <4>2, <4>3
    <3> QED
      BY <1>5, <3>1 DEF Iterates
  <2> QED
    BY <1>5, <2>1 DEF Iterates
<1> HIDE DEF Solves
<1>7. Solves(made)
  BY <1>6, Zenon
<1>8. \A i \in 0 .. N : i \in {j \in 0 .. N : made[j] \in C}
  <2> HIDE DEF made
  <2> DEFINE T == {j \in 0 .. N : made[j] \in C}
  <2>1. /\ made[0] = r
        /\ \A i \in 1 .. N : made[i] = Apply(made[i - 1], ms[i])
    BY <1>1, <1>7 DEF Solves
  <2>2. 0 \in T
    BY <1>1, <1>2, <2>1
  <2>3. \A i \in 1 .. N : i - 1 \in T => i \in T
    BY <1>1, <1>3, <2>1
  <2> HIDE DEF T
  <2>4. \A i \in 0 .. N : i \in T
    BY <1>1, <2>2, <2>3, Induction
  <2> QED
    BY <2>4 DEF T
<1>9. ApplyAll(r, ms) = made[N]
  BY DEF ApplyAll, Solves, N
<1> QED
  BY <1>1, <1>8, <1>9 DEF C
-----------------------------------------------------------------------------
(* What is done to a Client, and to the state.                             *)

LEMMA Lowered == \A n \in ChName : lower[n] \in Low /\ lower[n] \in ChName /\ lower[lower[n]] = lower[n]
BY MariiaAssumption, Zenon DEF Low

LEMMA LowIsLow == \A n \in Low : n \in ChName /\ lower[n] = n
BY Lowered DEF Low

LEMMA ClientParts ==
  ASSUME NEW r \in ClientRec
  PROVE  /\ r.nick \in Nick \cup {""} /\ r.user \in BOOLEAN /\ r.logged \in BOOLEAN
         /\ r.registered \in BOOLEAN /\ r.modes \in SUBSET UserMode /\ r.quit \in BOOLEAN
         /\ r.channels \in Seq(ChName)
BY Zenon DEF ClientRec

LEMMA ListChanged ==
  ASSUME NEW r \in ClientRec, NEW s \in Seq(ChName)
  PROVE  LET q == [r EXCEPT !.channels = s]
         IN  q \in ClientRec /\ q.channels = s /\ q.registered = r.registered
<1> DEFINE Lists == Seq(ChName)
<1> HIDE DEF Lists
<1>1. r \in [nick : Nick \cup {""}, user : BOOLEAN, logged : BOOLEAN, registered : BOOLEAN,
             modes : SUBSET UserMode, quit : BOOLEAN, channels : Lists]
  BY Zenon DEF ClientRec, Lists
<1>2. s \in Lists
  BY DEF Lists
<1> DEFINE q == [r EXCEPT !.channels = s]
<1>3. /\ q.channels = s /\ q.registered = r.registered
      /\ q \in [nick : Nick \cup {""}, user : BOOLEAN, logged : BOOLEAN, registered : BOOLEAN,
             modes : SUBSET UserMode, quit : BOOLEAN, channels : Lists]
  BY <1>1, <1>2
<1> QED
  BY <1>3, Zenon DEF ClientRec, Lists

LEMMA NoClientIsRec == NoClient \in ClientRec /\ NoClient.channels = <<>> /\ Len(NoClient.channels) = 0
BY DEF NoClient, ClientRec

LEMMA Found ==
  ASSUME ClientsOK, NEW w, Named(w) # {}
  PROVE  findClient(w) \in clients
<1>1. Fd \subseteq Nat
  BY MariiaAssumption, Zenon
<1>2. Named(w) \in SUBSET Nat
  BY <1>1 DEF ClientsOK, Named
<1>3. Min(Named(w)) \in Named(w)
  BY <1>2, MinIsLeast
<1> QED
  BY <1>3 DEF findClient, Named

(* The channels are left alone, and so is the list of the one client,      *)
(* which does not become unregistered.                                     *)
LEMMA ClientSteps ==
  ASSUME MariiaInv, NEW c \in clients, NEW q \in ClientRec, q.channels = cl[c].channels,
         cl[c].registered => q.registered,
         cl' = [cl EXCEPT ![c] = q], users' \subseteq Nick, turn' \in clients \cup {None},
         UNCHANGED <<clients, open, ch>>
  PROVE  MariiaInv'
<1>1. c \in Fd
  BY DEF MariiaInv, ClientsOK
<1>2. /\ cl' \in [Fd -> ClientRec]
      /\ \A d \in Fd : /\ cl'[d].channels = cl[d].channels
                       /\ cl[d].registered => cl'[d].registered
  BY <1>1 DEF MariiaInv, ClientsOK
<1>3. \A d \in Fd \ clients : cl'[d] = cl[d]
  BY <1>1
<1>4. ClientsOK'
  BY <1>2, <1>3 DEF MariiaInv, ClientsOK, Listed
<1>5. ChannelsOK'
  BY DEF MariiaInv, ChannelsOK
<1>6. ListCovers'
  BY <1>2 DEF MariiaInv, ListCovers, ClientsOK, Names
<1> QED
  BY <1>4, <1>5, <1>6 DEF MariiaInv

(* One channel changes, and the list of one client with it: nobody else    *)
(* comes on the channel, and the list still names what it should.          *)
LEMMA ChannelSteps ==
  ASSUME MariiaInv, NEW c \in clients, NEW n \in Low, NEW r, Good(r, clients),
         r.members \subseteq ch[n].members \cup {c},
         NEW s \in Seq(ChName), Len(s) <= MAXCHANNELS,
         \A m \in Low \ {n} : Names(cl[c].channels, m) => Names(s, m),
         c \in r.members => Names(s, n) /\ cl[c].registered,
         ch' = [ch EXCEPT ![n] = r], cl' = [cl EXCEPT ![c].channels = s],
         UNCHANGED <<clients, open, users, turn>>
  PROVE  MariiaInv'
<1>1. c \in Fd
  BY DEF MariiaInv, ClientsOK
<1>2. /\ cl' \in [Fd -> ClientRec] /\ cl'[c].channels = s
      /\ cl'[c].registered = cl[c].registered
      /\ \A d \in Fd \ {c} : cl'[d] = cl[d]
  <2>1. cl[c] \in ClientRec /\ cl'[c] = [cl[c] EXCEPT !.channels = s]
    BY <1>1 DEF MariiaInv, ClientsOK
  <2>2. LET q == [cl[c] EXCEPT !.channels = s]
        IN  q \in ClientRec /\ q.channels = s /\ q.registered = cl[c].registered
    BY <2>1, ListChanged, Zenon
  <2>3. /\ cl'[c] \in ClientRec /\ cl'[c].channels = s
        /\ cl'[c].registered = cl[c].registered
    BY <2>1, <2>2, Zenon
  <2> QED
    BY <1>1, <2>3 DEF MariiaInv, ClientsOK
<1>3. ClientsOK'
  BY <1>1, <1>2 DEF MariiaInv, ClientsOK, Listed
<1>4. ch'[n] = r /\ \A m \in Low \ {n} : ch'[m] = ch[m]
  BY DEF MariiaInv, ChannelsOK
<1>5. ChannelsOK'
  BY <1>4 DEF MariiaInv, ChannelsOK, Good
<1>6. ASSUME NEW d \in clients, NEW m \in Low, d \in ch'[m].members
      PROVE  Names(cl'[d].channels, m) /\ cl'[d].registered
  <2>1. d \in Fd
    BY DEF MariiaInv, ClientsOK
  <2>2. CASE d = c /\ m = n
    BY <1>2, <1>4, <1>6, <2>2
  <2>3. CASE d = c /\ m # n
    <3>1. d \in ch[m].members
      BY <1>4, <1>6, <2>3
    <3>2. Names(cl[c].channels, m) /\ cl[c].registered
      BY <2>3, <3>1 DEF MariiaInv, ListCovers
    <3> QED
      BY <1>2, <2>3, <3>2
  <2>4. CASE d # c
    <3>1. d \in ch[m].members
      BY <1>4, <1>6, <2>4
    <3>2. Names(cl[d].channels, m) /\ cl[d].registered /\ cl'[d] = cl[d]
      BY <1>2, <2>1, <2>4, <3>1 DEF MariiaInv, ListCovers
    <3> QED
      BY <3>2
  <2> QED
    BY <2>2, <2>3, <2>4
<1>7. ListCovers'
  BY <1>6 DEF ListCovers, Names
<1> QED
  BY <1>3, <1>5, <1>7 DEF MariiaInv

(* One channel changes, and not its members.                               *)
LEMMA ModeSteps ==
  ASSUME MariiaInv, NEW n \in Low, NEW r, Good(r, clients), r.members = ch[n].members,
         ch' = [ch EXCEPT ![n] = r], UNCHANGED <<clients, open, cl, users, turn>>
  PROVE  MariiaInv'
<1>1. ClientsOK'
  BY DEF MariiaInv, ClientsOK, Listed
<1>2. ch'[n] = r /\ \A m \in Low \ {n} : ch'[m] = ch[m]
  BY DEF MariiaInv, ChannelsOK
<1>3. ChannelsOK'
  BY <1>2 DEF MariiaInv, ChannelsOK, Good
<1>4. \A m \in Low : ch'[m].members = ch[m].members
  BY <1>2
<1>5. ListCovers'
  BY <1>4 DEF MariiaInv, ListCovers, Names
<1> QED
  BY <1>1, <1>3, <1>5 DEF MariiaInv
-----------------------------------------------------------------------------
(* Each action keeps the invariant.                                        *)

LEMMA MariiaInit == Init => MariiaInv
<1> SUFFICES ASSUME Init
             PROVE  MariiaInv
  OBVIOUS
<1>1. cl \in [Fd -> ClientRec] /\ \A c \in Fd : cl[c] = NoClient
  BY NoClientIsRec DEF Init
<1>2. ClientsOK
  BY <1>1 DEF Init, ClientsOK
<1>3. ASSUME NEW n \in Low
      PROVE  ch[n] \in ChannelRec /\ Good(ch[n], clients)
  <2>1. ch[n] = NoChannel
    BY DEF Init
  <2> QED
    BY <2>1, BlankIsGood DEF Good
<1>4. ChannelsOK
  BY <1>3 DEF Init, ChannelsOK
<1>5. ListCovers
  BY DEF Init, ListCovers
<1> QED
  BY <1>2, <1>4, <1>5 DEF MariiaInv

LEMMA AcceptKeeps ==
  ASSUME MariiaInv, NEW c \in Fd, Accept(c)
  PROVE  MariiaInv'
<1> USE DEF MariiaInv
<1>1. cl[c] = NoClient
  BY DEF ClientsOK, Accept
<1>2. ClientsOK'
  <2>1. MAXCHANNELS \in Nat
    BY MariiaAssumption, Zenon
  <2>2. Listed(c) = 0
    BY <1>1, NoClientIsRec DEF Listed
  <2>3. \A d \in clients' : Listed(d) <= MAXCHANNELS
    BY <2>1, <2>2 DEF ClientsOK, Accept
  <2> QED
    BY <2>3 DEF ClientsOK, Accept, Listed
<1>3. ChannelsOK'
  BY GrowsGood DEF ChannelsOK, Accept
<1>4. \A n \in Low : ch[n].members \subseteq clients
  BY DEF ChannelsOK, Good
<1>5. c \notin clients
  BY DEF ClientsOK, Accept
<1>6. ListCovers'
  BY <1>4, <1>5 DEF ListCovers, Accept, Names
<1> QED
  BY <1>2, <1>3, <1>6

LEMMA checkRegistrationKeeps ==
  ASSUME MariiaInv, NEW c \in clients, NEW r \in ClientRec, r.channels = cl[c].channels,
         ~cl[c].registered, checkRegistration(c, r)
  PROVE  MariiaInv'
<1> DEFINE complete == r.logged /\ r.nick # "" /\ r.user
           taken == r.nick \in users /\ \E d \in clients \ {c} : cl[d].nick = r.nick
           q == [r EXCEPT !.registered = complete /\ ~taken, !.quit = complete /\ taken]
<1>1. /\ cl' = [cl EXCEPT ![c] = q]
      /\ users' = IF complete THEN users \cup {r.nick} ELSE users
      /\ UNCHANGED <<clients, open, ch, turn>>
  BY DEF checkRegistration, Only
<1>2. complete => r.nick \in Nick
  BY ClientParts
<1>3. complete \in BOOLEAN /\ taken \in BOOLEAN
  OBVIOUS
<1>4. q \in ClientRec /\ q.channels = cl[c].channels
  <2> HIDE DEF complete, taken
  <2> QED
    BY <1>3, Zenon DEF ClientRec
<1> HIDE DEF q, complete
<1>5. users' \subseteq Nick /\ turn' \in clients \cup {None}
  BY <1>1, <1>2 DEF MariiaInv, ClientsOK
<1> QED
  BY <1>1, <1>4, <1>5, ClientSteps

(* What a client does about itself.                                        *)
LEMMA OwnKeeps ==
  ASSUME MariiaInv, NEW c \in Fd,
         \/ Pass(c) \/ WrongPass(c) \/ processQuit(c)
         \/ \E w \in Nick : Nickname(c, w) \/ processNick(c, w)
         \/ \E ms \in SUBSET UserMode : User(c, ms)
         \/ \E m \in UserMode, add \in BOOLEAN : changeMode(c, m, add)
  PROVE  MariiaInv'
<1>1. c \in clients
  BY DEF Pass, WrongPass, processQuit, Nickname, processNick, User, changeMode,
         Unregistered, Ready, Heard
<1>2. cl[c] \in ClientRec /\ users \subseteq Nick /\ turn \in clients \cup {None}
  BY <1>1 DEF MariiaInv, ClientsOK
<1>3. CASE Pass(c)
  <2> DEFINE r == [cl[c] EXCEPT !.logged = TRUE]
  <2>1. r \in ClientRec /\ r.channels = cl[c].channels
    BY <1>2, Zenon DEF ClientRec
  <2>2. ~cl[c].registered /\ checkRegistration(c, r)
    BY <1>3 DEF Pass, Unregistered
  <2> QED
    BY <1>1, <2>1, <2>2, checkRegistrationKeeps
<1>4. CASE WrongPass(c)
  <2> DEFINE r == [cl[c] EXCEPT !.quit = TRUE]
  <2>1. /\ r \in ClientRec /\ r.channels = cl[c].channels
        /\ r.registered = cl[c].registered
    BY <1>2, Zenon DEF ClientRec
  <2>2. cl' = [cl EXCEPT ![c] = r] /\ UNCHANGED <<clients, open, ch, users, turn>>
    BY <1>4 DEF WrongPass, Only
  <2> QED
    BY <1>1, <1>2, <2>1, <2>2, ClientSteps
<1>5. ASSUME NEW w \in Nick, Nickname(c, w)
      PROVE  MariiaInv'
  <2> DEFINE r == [cl[c] EXCEPT !.nick = w]
  <2>1. /\ r \in ClientRec /\ r.channels = cl[c].channels
        /\ r.registered = cl[c].registered
    BY <1>2, Zenon DEF ClientRec
  <2>2. ~cl[c].registered /\ checkRegistration(c, r)
    BY <1>5 DEF Nickname, Unregistered
  <2> QED
    BY <1>1, <2>1, <2>2, checkRegistrationKeeps
<1>6. ASSUME NEW w \in Nick, processNick(c, w)
      PROVE  MariiaInv'
  <2> DEFINE r == [cl[c] EXCEPT !.nick = w]
  <2>1. /\ r \in ClientRec /\ r.channels = cl[c].channels
        /\ r.registered = cl[c].registered
    BY <1>2, Zenon DEF ClientRec
  <2>2. cl' = [cl EXCEPT ![c] = r] /\ UNCHANGED <<clients, open, ch, users, turn>>
    BY <1>6 DEF processNick, Only
  <2> QED
    BY <1>1, <1>2, <2>1, <2>2, ClientSteps
<1>7. ASSUME NEW ms \in SUBSET UserMode, User(c, ms)
      PROVE  MariiaInv'
  <2> DEFINE r == [cl[c] EXCEPT !.user = TRUE, !.modes = @ \cup ms]
  <2>1. r \in ClientRec /\ r.channels = cl[c].channels
    <3>1. cl[c].modes \cup ms \in SUBSET UserMode
      BY <1>2, ClientParts
    <3> QED
      BY <1>2, <3>1, Zenon DEF ClientRec
  <2>2. ~cl[c].registered /\ checkRegistration(c, r)
    BY <1>7 DEF User, Unregistered
  <2> QED
    BY <1>1, <2>1, <2>2, checkRegistrationKeeps
<1>8. ASSUME NEW m \in UserMode, NEW add \in BOOLEAN, changeMode(c, m, add)
      PROVE  MariiaInv'
  <2> DEFINE r == [cl[c] EXCEPT !.modes = IF add THEN @ \cup {m} ELSE @ \ {m}]
  <2>1. /\ r \in ClientRec /\ r.channels = cl[c].channels
        /\ r.registered = cl[c].registered
    <3>1. (IF add THEN cl[c].modes \cup {m} ELSE cl[c].modes \ {m}) \in SUBSET UserMode
      BY <1>2, ClientParts
    <3> QED
      BY <1>2, <3>1, Zenon DEF ClientRec
  <2>2. cl' = [cl EXCEPT ![c] = r] /\ UNCHANGED <<clients, open, ch, users, turn>>
    BY <1>8 DEF changeMode, Only
  <2> QED
    BY <1>1, <1>2, <2>1, <2>2, ClientSteps
<1>9. CASE processQuit(c)
  <2> DEFINE r == [cl[c] EXCEPT !.quit = TRUE]
  <2>1. /\ r \in ClientRec /\ r.channels = cl[c].channels
        /\ r.registered = cl[c].registered
    BY <1>2, Zenon DEF ClientRec
  <2>2. cl' = [cl EXCEPT ![c] = r] /\ turn' = c /\ UNCHANGED <<clients, open, ch, users>>
    BY <1>9 DEF processQuit, Only
  <2> QED
    BY <1>1, <1>2, <2>1, <2>2, ClientSteps
<1> QED
  BY <1>3, <1>4, <1>5, <1>6, <1>7, <1>8, <1>9

LEMMA EndOfInputKeeps ==
  ASSUME MariiaInv, EndOfInput
  PROVE  MariiaInv'
BY DEF EndOfInput, Only, MariiaInv, ClientsOK, ChannelsOK, ListCovers, Listed

(* Whoever comes on a channel has a place left in its list, gets the       *)
(* channel's name there, and keeps the others.                             *)
LEMMA Entered ==
  ASSUME MariiaInv, NEW c \in clients, cl[c].registered,
         NEW n \in ChName, Listed(c) # MAXCHANNELS,
         NEW e \in {n, lower[n]}, NEW r, Good(r, clients),
         r.members \subseteq ch[lower[n]].members \cup {c},
         ch' = [ch EXCEPT ![lower[n]] = r],
         cl' = [cl EXCEPT ![c].channels = Append(@, e)],
         UNCHANGED <<clients, open, users, turn>>
  PROVE  MariiaInv'
<1> DEFINE old == cl[c].channels
           s == Append(old, e)
<1>1. lower[n] \in Low /\ e \in ChName /\ lower[e] = lower[n]
  BY Lowered
<1>2. cl[c] \in ClientRec /\ Listed(c) <= MAXCHANNELS
  BY DEF MariiaInv, ClientsOK
<1>3. old \in Seq(ChName)
  BY <1>2, ClientParts
<1>4. /\ s \in Seq(ChName) /\ Len(s) = Len(old) + 1 /\ Len(old) \in Nat
      /\ s[Len(s)] = e /\ \A i \in 1 .. Len(old) : s[i] = old[i]
  BY <1>1, <1>3, AppendProperties, LenProperties
<1>5. Len(s) <= MAXCHANNELS
  <2>1. MAXCHANNELS \in Nat
    BY MariiaAssumption, Zenon
  <2> QED
    BY <1>2, <1>4, <2>1 DEF Listed
<1>6. cl' = [cl EXCEPT ![c].channels = s]
  OBVIOUS
<1> HIDE DEF s
<1>7. Names(s, lower[n])
  BY <1>1, <1>4 DEF Names
<1>8. \A m \in Low : Names(old, m) => Names(s, m)
  BY <1>4 DEF Names
<1> QED
  BY <1>1, <1>4, <1>5, <1>6, <1>7, <1>8, ChannelSteps

LEMMA CreateKeeps ==
  ASSUME MariiaInv, NEW c \in Fd, NEW n \in ChName, NEW k \in Key \cup {""},
         createAndJoinNewChannel(c, n, k)
  PROVE  MariiaInv'
<1>1. c \in clients /\ clients \in SUBSET Fd
  BY DEF createAndJoinNewChannel, Ready, Heard, MariiaInv, ClientsOK
<1>2. Good(NewChannel(c, k), clients) /\ NewChannel(c, k).members = {c}
  BY <1>1, NewIsGood
<1>3. UNCHANGED <<clients, open, users, turn>> /\ cl[c].registered
  BY DEF createAndJoinNewChannel, Ready, Only
<1> QED
  BY <1>1, <1>2, <1>3, Entered DEF createAndJoinNewChannel

LEMMA JoinKeeps ==
  ASSUME MariiaInv, NEW c \in Fd, NEW n \in ChName, NEW k \in Key \cup {""},
         joinExistingChannel(c, n, k)
  PROVE  MariiaInv'
<1> DEFINE old == ch[lower[n]]
           r == [old EXCEPT !.members = @ \cup {c}, !.invited = @ \ {c}]
<1>1. c \in clients \ old.members /\ clients \in SUBSET Fd
  BY DEF joinExistingChannel, Ready, Heard, IsMember, MariiaInv, ClientsOK
<1>2. lower[n] \in Low /\ Good(old, clients)
  BY Lowered DEF MariiaInv, ChannelsOK
<1>3. old.limit # 0 => Cardinality(old.members) # old.limit
  BY DEF joinExistingChannel, HasRoom
<1>4. Good(r, clients) /\ r.members = old.members \cup {c}
  <2> HIDE DEF old
  <2> QED
    BY <1>1, <1>2, <1>3, EnteredIsGood
<1>5. ch' = [ch EXCEPT ![lower[n]] = r] /\ UNCHANGED <<clients, open, users, turn>>
  BY DEF joinExistingChannel, Only
<1>6. /\ cl' = [cl EXCEPT ![c].channels = Append(@, lower[n])] /\ Listed(c) # MAXCHANNELS
      /\ cl[c].registered
  BY DEF joinExistingChannel, Ready
<1> HIDE DEF r
<1> QED
  BY <1>1, <1>4, <1>5, <1>6, Entered

(* PART and KICK: the client's list may go on naming the channel, no       *)
(* member's list may stop to.                                              *)
LEMMA RemovedKeeps ==
  ASSUME MariiaInv, NEW d \in clients, NEW n \in Low, removeClientFromChannel(d, n)
  PROVE  MariiaInv'
<1> DEFINE r == OrDeleted(removeMember(ch[n], d))
           old == cl[d].channels
           s == RemoveFirst(old, n)
<1>1. clients \in SUBSET Fd /\ cl[d] \in ClientRec /\ Len(old) <= MAXCHANNELS
  BY DEF MariiaInv, ClientsOK, Listed
<1>2. Good(r, clients \ {d}) /\ r.members = ch[n].members \ {d}
  BY <1>1, LeftIsGood DEF MariiaInv, ChannelsOK
<1>3. Good(r, clients)
  BY <1>2, GrowsGood
<1>4. old \in Seq(ChName)
  BY <1>1, ClientParts
<1>5. /\ s \in Seq(ChName) /\ Len(s) <= Len(old)
      /\ \A j \in 1 .. Len(old) : old[j] # n => \E k \in 1 .. Len(s) : s[k] = old[j]
  BY <1>4, FirstRemoved
<1>6. Len(s) <= MAXCHANNELS
  <2>1. MAXCHANNELS \in Nat
    BY MariiaAssumption, Zenon
  <2> QED
    BY <1>1, <1>4, <1>5, <2>1, LenProperties
<1>7. /\ ch' = [ch EXCEPT ![n] = r] /\ cl' = [cl EXCEPT ![d].channels = s]
      /\ UNCHANGED <<clients, open, users, turn>>
  BY DEF removeClientFromChannel, Only
<1> HIDE DEF r, s
<1>8. ASSUME NEW m \in Low \ {n}, Names(old, m)
      PROVE  Names(s, m)
  <2>1. PICK i \in 1 .. Len(old) : lower[old[i]] = m
    BY <1>8 DEF Names
  <2>2. old[i] # n
    BY <2>1, LowIsLow
  <2> QED
    BY <1>5, <2>1, <2>2 DEF Names
<1> QED
  BY <1>2, <1>3, <1>5, <1>6, <1>7, <1>8, ChannelSteps

LEMMA PartKeeps ==
  ASSUME MariiaInv, NEW c \in Fd, NEW n \in ChName, processPart(c, n)
  PROVE  MariiaInv'
BY Lowered, RemovedKeeps DEF processPart, Ready, Heard

LEMMA KickKeeps ==
  ASSUME MariiaInv, NEW c \in Fd, NEW n \in ChName, NEW w \in Nick, processKick(c, n, w)
  PROVE  MariiaInv'
<1>1. findClient(w) \in clients
  BY Found DEF processKick, MariiaInv
<1> QED
  BY <1>1, Lowered, RemovedKeeps DEF processKick

LEMMA InviteKeeps ==
  ASSUME MariiaInv, NEW c \in Fd, NEW w \in Nick, NEW n \in ChName, processInvite(c, w, n)
  PROVE  MariiaInv'
<1> DEFINE old == ch[lower[n]]
           r == [old EXCEPT !.invited = @ \cup {findClient(w)}]
<1>1. findClient(w) \in clients /\ clients \in SUBSET Fd
  BY Found DEF processInvite, MariiaInv, ClientsOK
<1>2. lower[n] \in Low /\ Good(old, clients)
  BY Lowered DEF MariiaInv, ChannelsOK
<1>3. c \in old.members /\ findClient(w) \notin old.members
  BY DEF processInvite, IsMember
<1>4. ch' = [ch EXCEPT ![lower[n]] = r] /\ UNCHANGED <<clients, open, cl, users, turn>>
  BY DEF processInvite, Only
<1>5. Good(r, clients) /\ r.members = old.members
  <2> HIDE DEF old
  <2> QED
    BY <1>1, <1>2, <1>3, InvitedIsGood
<1> HIDE DEF r
<1> QED
  BY <1>2, <1>4, <1>5, ModeSteps

LEMMA TopicKeeps ==
  ASSUME MariiaInv, NEW c \in Fd, NEW n \in ChName, NEW t \in Topic \cup {""},
         processTopic(c, n, t)
  PROVE  MariiaInv'
<1> DEFINE old == ch[lower[n]]
           r == [old EXCEPT !.topic = t]
<1>1. lower[n] \in Low /\ Good(old, clients)
  BY Lowered DEF MariiaInv, ChannelsOK
<1>2. c \in old.members
  BY DEF processTopic, IsMember
<1>3. ch' = [ch EXCEPT ![lower[n]] = r] /\ UNCHANGED <<clients, open, cl, users, turn>>
  BY DEF processTopic, Only
<1>4. Good(r, clients) /\ r.members = old.members
  <2> HIDE DEF old
  <2> QED
    BY <1>1, <1>2, NamedIsGood
<1> HIDE DEF r
<1> QED
  BY <1>1, <1>3, <1>4, ModeSteps

LEMMA ModeKeeps ==
  ASSUME MariiaInv, NEW c \in Fd, NEW n \in ChName, NEW ms \in ModeCmds,
         processChannelMode(c, n, ms)
  PROVE  MariiaInv'
<1> DEFINE old == ch[lower[n]]
           r == ApplyAll(old, ms)
<1>1. lower[n] \in Low /\ Good(old, clients)
  BY Lowered DEF MariiaInv, ChannelsOK
<1>2. c \in old.members
  BY DEF processChannelMode, IsMember
<1>3. ch' = [ch EXCEPT ![lower[n]] = r] /\ UNCHANGED <<clients, open, cl, users, turn>>
  BY DEF processChannelMode, Only
<1>4. Good(r, clients) /\ r.members = old.members
  <2> HIDE DEF old
  <2> QED
    BY <1>1, <1>2, SetIsGood
<1> HIDE DEF r
<1> QED
  BY <1>1, <1>3, <1>4, ModeSteps

(* The end of a client: every channel is left, whatever its list says.     *)
LEMMA GoneKeeps ==
  ASSUME MariiaInv, NEW c \in clients, turn = None, removeClient(c),
         clients \ {c} \subseteq open', open' \subseteq open
  PROVE  MariiaInv'
<1>1. clients \in SUBSET Fd /\ clients' = clients \ {c} /\ turn' = None
  BY DEF removeClient, MariiaInv, ClientsOK
<1>2. ASSUME NEW n \in Low
      PROVE  /\ ch'[n] = OrDeleted(removeMember(ch[n], c))
             /\ ch'[n].members = ch[n].members \ {c}
             /\ Good(ch'[n], clients')
  <2>1. ch'[n] = OrDeleted(removeMember(ch[n], c))
    BY DEF removeClient
  <2>2. Good(ch[n], clients)
    BY DEF MariiaInv, ChannelsOK
  <2>3. /\ Good(OrDeleted(removeMember(ch[n], c)), clients \ {c})
        /\ OrDeleted(removeMember(ch[n], c)).members = ch[n].members \ {c}
    BY <1>1, <2>2, LeftIsGood
  <2> QED
    BY <1>1, <2>1, <2>3
<1>3. /\ cl' = [cl EXCEPT ![c] = NoClient] /\ cl' \in [Fd -> ClientRec]
      /\ cl'[c] = NoClient /\ \A d \in Fd \ {c} : cl'[d] = cl[d]
  BY <1>1, NoClientIsRec DEF removeClient, MariiaInv, ClientsOK
<1>4. ClientsOK'
  BY <1>1, <1>3 DEF removeClient, MariiaInv, ClientsOK, Listed
<1>5. ChannelsOK'
  BY <1>2 DEF removeClient, ChannelsOK, Good
<1>6. ListCovers'
  BY <1>1, <1>2, <1>3 DEF MariiaInv, ListCovers, Names
<1> QED
  BY <1>4, <1>5, <1>6 DEF MariiaInv

LEMMA EndKeeps ==
  ASSUME MariiaInv, NEW c \in Fd, Close(c) \/ Hangup(c)
  PROVE  MariiaInv'
<1>1. c \in clients /\ turn = None /\ removeClient(c)
  BY DEF Close, Hangup
<1>2. clients \ {c} \subseteq open' /\ open' \subseteq open
  BY DEF Close, Hangup, MariiaInv, ClientsOK
<1> QED
  BY <1>1, <1>2, GoneKeeps

LEMMA MariiaStep == MariiaInv /\ [Next]_vars => MariiaInv'
<1> SUFFICES ASSUME MariiaInv, [Next]_vars
             PROVE  MariiaInv'
  OBVIOUS
<1>1. ASSUME NEW c \in Fd, ClientStep(c)
      PROVE  MariiaInv'
  BY <1>1, AcceptKeeps, OwnKeeps, EndKeeps DEF ClientStep
<1>2. ASSUME NEW c \in Fd, NEW n \in ChName, ChannelStep(c, n)
      PROVE  MariiaInv'
  BY <1>2, CreateKeeps, JoinKeeps, PartKeeps, KickKeeps, InviteKeeps, TopicKeeps, ModeKeeps
     DEF ChannelStep
<1>3. CASE EndOfInput
  BY <1>3, EndOfInputKeeps
<1>4. CASE UNCHANGED vars
  BY <1>4 DEF vars, MariiaInv, ClientsOK, ChannelsOK, ListCovers, Listed
<1> QED
  BY <1>1, <1>2, <1>3, <1>4 DEF Next

-----------------------------------------------------------------------------
(* Who is told of a QUIT.                                                  *)

LEMMA WhoIsTold ==
  ASSUME [Next]_vars
  PROVE  told' = told \/ told' = {} \/ \E c \in Fd : told' = sharingChannelsFds(c)
<1>1. CASE UNCHANGED vars
  BY <1>1 DEF vars
<1>2. ASSUME NEW c \in Fd, ClientStep(c)
      PROVE  told' = {} \/ told' = sharingChannelsFds(c)
  BY <1>2 DEF ClientStep, Accept, Pass, WrongPass, processQuit, Close, Hangup, Nickname,
              processNick, User, changeMode, checkRegistration, Only
<1>3. ASSUME NEW c \in Fd, NEW n \in ChName, ChannelStep(c, n)
      PROVE  told' = {}
  BY <1>3 DEF ChannelStep, createAndJoinNewChannel, joinExistingChannel, processPart,
              processKick, processInvite, processTopic, processChannelMode,
              removeClientFromChannel, Only
<1>4. CASE EndOfInput
  BY <1>4 DEF EndOfInput, Only
<1> QED
  BY <1>1, <1>2, <1>3, <1>4, Zenon DEF Next

LEMMA ToldAreFds ==
  ASSUME MariiaInv, NEW c \in Fd
  PROVE  sharingChannelsFds(c) \subseteq Fd
<1>1. cl[c].channels \in Seq(ChName)
  BY ClientParts DEF MariiaInv, ClientsOK
<1>2. \A n \in Range(cl[c].channels) : n \in ChName
  BY <1>1 DEF Range
<1>3. \A n \in Range(cl[c].channels) : ch[lower[n]].members \subseteq Fd
  BY <1>2, Lowered, ChannelParts DEF MariiaInv, ChannelsOK
<1> QED
  BY <1>3 DEF sharingChannelsFds

(* The list of names that QUIT walks covers the channels of the sets.      *)
LEMMA ListReachesAll ==
  ASSUME MariiaInv, NEW c \in clients, NEW n \in Low, c \in ch[n].members
  PROVE  ch[n].members \ {c} \subseteq sharingChannelsFds(c) /\ cl[c].registered
<1>1. PICK i \in 1 .. Len(cl[c].channels) : lower[cl[c].channels[i]] = n
  BY DEF MariiaInv, ListCovers, Names
<1>2. cl[c].channels \in Seq(ChName)
  <2>1. cl[c] \in ClientRec
    BY DEF MariiaInv, ClientsOK
  <2> QED
    BY <2>1, ClientParts
<1>3. cl[c].channels[i] \in Range(cl[c].channels)
  BY <1>1, <1>2, LenProperties DEF Range
<1> QED
  BY <1>1, <1>3 DEF sharingChannelsFds, MariiaInv, ListCovers

(* A step that makes the registered client c quit or go tells those.       *)
LEMMA WhoGoesIsTold ==
  ASSUME MariiaInv, [Next]_vars, NEW c \in clients, cl[c].registered, ~cl[c].quit,
         c \notin clients' \/ cl'[c].quit
  PROVE  told' = sharingChannelsFds(c)
<1>1. c \in Fd /\ cl \in [Fd -> ClientRec]
  BY DEF MariiaInv, ClientsOK
<1>2. ASSUME UNCHANGED <<clients, cl>>
      PROVE  FALSE
  BY <1>2
<1>3. ASSUME NEW d \in Fd, UNCHANGED clients, NEW q, d # c, cl' = [cl EXCEPT ![d] = q]
      PROVE  FALSE
  BY <1>1, <1>3
<1>4. ASSUME NEW d \in Fd, UNCHANGED clients, NEW q, q.quit = cl[d].quit,
             cl' = [cl EXCEPT ![d] = q]
      PROVE  FALSE
  BY <1>1, <1>4
<1>5. ASSUME NEW d \in Fd, ClientStep(d)
      PROVE  told' = sharingChannelsFds(c)
  <2>1. CASE Accept(d)
    BY <2>1 DEF Accept
  <2>2. ASSUME Unregistered(d), UNCHANGED clients, NEW q, cl' = [cl EXCEPT ![d] = q]
        PROVE  FALSE
    BY <1>3, <2>2 DEF Unregistered
  <2>3. ~(\/ Pass(d) \/ WrongPass(d)
          \/ \E w \in Nick : Nickname(d, w)
          \/ \E ms \in SUBSET UserMode : User(d, ms))
    BY <2>2 DEF Pass, WrongPass, Nickname, User, checkRegistration, Only
  <2>4. CASE processQuit(d)
    BY <1>3, <2>4 DEF processQuit, Only
  <2>5. CASE \/ \E w \in Nick : processNick(d, w)
             \/ \E m \in UserMode, add \in BOOLEAN : changeMode(d, m, add)
    <3>1. UNCHANGED clients /\ \E q : q.quit = cl[d].quit /\ cl' = [cl EXCEPT ![d] = q]
      BY <1>1, <2>5 DEF processNick, changeMode, Only, ClientRec
    <3> QED
      BY <1>4, <3>1
  <2>6. CASE Close(d) \/ Hangup(d)
    BY <1>1, <2>6 DEF Close, Hangup, removeClient
  <2> QED
    BY <1>5, <2>1, <2>3, <2>4, <2>5, <2>6, Zenon DEF ClientStep
<1>6. ASSUME NEW d \in Fd, NEW n \in ChName, ChannelStep(d, n)
      PROVE  FALSE
  <2>1. /\ UNCHANGED clients
        /\ UNCHANGED cl \/ \E e \in Fd : \E s : cl' = [cl EXCEPT ![e].channels = s]
    <3>1. ASSUME NEW w \in Nick, processKick(d, n, w)
          PROVE  findClient(w) \in Fd
      BY <3>1, Found DEF processKick, MariiaInv, ClientsOK
    <3> QED
      BY <1>6, <3>1 DEF ChannelStep, createAndJoinNewChannel, joinExistingChannel, processPart,
              processKick, processInvite, processTopic, processChannelMode,
              removeClientFromChannel, Only
  <2>2. ASSUME NEW e \in Fd, NEW s, cl' = [cl EXCEPT ![e].channels = s]
        PROVE  FALSE
    <3>1. [cl[e] EXCEPT !.channels = s].quit = cl[e].quit
      BY <1>1 DEF ClientRec
    <3> QED
      BY <1>4, <2>1, <2>2, <3>1
  <2> QED
    BY <1>2, <2>1, <2>2
<1>7. CASE EndOfInput \/ UNCHANGED vars
  BY <1>7 DEF EndOfInput, Only, vars
<1> QED
  BY <1>5, <1>6, <1>7, Zenon DEF Next

-----------------------------------------------------------------------------
(* What the runs check.                                                    *)

(* In every reachable state of mariia every client, channel and list is    *)
(* well formed (TypeOK), no list longer than the limit.                    *)
THEOREM MariiaTypes == Spec => []TypeOK
<1>1. MariiaInv /\ told \subseteq Fd => TypeOK
  BY DEF MariiaInv, ClientsOK, ChannelsOK, Good, TypeOK
<1>2. Init => told \subseteq Fd
  BY DEF Init
<1>3. ASSUME MariiaInv, told \subseteq Fd, [Next]_vars
      PROVE  told' \subseteq Fd
  BY <1>3, WhoIsTold, ToldAreFds
<1>4. MariiaInv /\ told \subseteq Fd /\ [Next]_vars => (told \subseteq Fd)'
  BY <1>3
<1> QED
  BY <1>1, <1>2, <1>4, MariiaInit, MariiaStep, PTL DEF Spec

(* mariia: an operator of a channel is on it, an invited client is         *)
(* connected and not yet in, whatever descriptors are used again           *)
(* (NothingInherited).                                                     *)
THEOREM NothingIsInherited == Spec => []NothingInherited
<1>1. MariiaInv => NothingInherited
  BY DEF MariiaInv, ChannelsOK, Good, NothingInherited
<1> QED
  BY <1>1, MariiaInit, MariiaStep, PTL DEF Spec

(* mariia: no channel has more members than its limit, whatever +l was     *)
(* given and whoever joined since (WithinLimit).                           *)
THEOREM LimitIsKept == Spec => []WithinLimit
<1>1. MariiaInv => WithinLimit
  BY DEF MariiaInv, ChannelsOK, Good, WithinLimit
<1> QED
  BY <1>1, MariiaInit, MariiaStep, PTL DEF Spec

(* mariia: whoever is on a channel with a client when it quits or hangs up *)
(* is told so in that step, however the channel was spelt when either came *)
(* on it (QuitReachesAll).                                                 *)
THEOREM QuitReachesEveryone == Spec => QuitReachesAll
<1> DEFINE Tells ==
      \A c \in clients : ~cl[c].quit /\ (c \notin clients' \/ cl'[c].quit)
        => \A n \in Low : c \in ch[n].members => ch[n].members \ {c} \subseteq told'
<1>1. MariiaInv /\ [Next]_vars => [Tells]_vars
  BY ListReachesAll, WhoGoesIsTold
<1> QED
  BY <1>1, MariiaInit, MariiaStep, PTL DEF Spec, QuitReachesAll
-----------------------------------------------------------------------------
(* The refinement: every step is one of Membership, or stutters there.     *)

LEMMA RoomsInit == Init => Rooms!Init
<1>1. Init => \A n \in Low : ch[n].members = {}
  <2>1. NoChannel.members = {}
    BY DEF NoChannel
  <2>2. Init => \A n \in Low : ch[n] = NoChannel
    BY DEF Init
  <2> QED
    BY <2>1, <2>2
<1> QED
  BY <1>1 DEF Init, Rooms!Init

(* The members as Membership sees them.                                    *)
LEMMA SameRooms ==
  ASSUME ChannelsOK, UNCHANGED clients, ch' \in [Low -> ChannelRec],
         \A n \in Low : ch'[n].members = ch[n].members
  PROVE  UNCHANGED Rooms!vars
BY DEF Rooms!vars

LEMMA OwnRooms ==
  ASSUME MariiaInv, NEW c \in Fd,
         \/ Pass(c) \/ WrongPass(c) \/ processQuit(c)
         \/ \E w \in Nick : Nickname(c, w) \/ processNick(c, w)
         \/ \E ms \in SUBSET UserMode : User(c, ms)
         \/ \E m \in UserMode, add \in BOOLEAN : changeMode(c, m, add)
  PROVE  UNCHANGED Rooms!vars
<1>1. UNCHANGED <<clients, ch>>
  BY DEF Pass, WrongPass, processQuit, Nickname, processNick, User, changeMode,
         checkRegistration, Only
<1> QED
  BY <1>1 DEF Rooms!vars

LEMMA EnterRooms ==
  ASSUME MariiaInv, NEW c \in clients, NEW n \in Low, c \notin ch[n].members, NEW r,
         r.members = ch[n].members \cup {c}, ch' = [ch EXCEPT ![n] = r], UNCHANGED clients
  PROVE  Rooms!Enter(c, n)
BY DEF MariiaInv, ChannelsOK, Rooms!Enter

LEMMA LeaveRooms ==
  ASSUME MariiaInv, MariiaInv', NEW d \in Fd, NEW n \in Low, removeClientFromChannel(d, n)
  PROVE  Rooms!Leave \/ UNCHANGED Rooms!vars
<1> DEFINE old == [m \in Low |-> ch[m].members]
           new == [m \in Low |-> ch'[m].members]
<1>1. clients' = clients /\ ch' = [ch EXCEPT ![n] = OrDeleted(removeMember(ch[n], d))]
  BY DEF removeClientFromChannel, Only
<1>2. OrDeleted(removeMember(ch[n], d)).members = ch[n].members \ {d}
  <2>1. Good(ch[n], clients) /\ clients \in SUBSET Fd
    BY DEF MariiaInv, ChannelsOK, ClientsOK
  <2> QED
    BY <2>1, LeftIsGood
<1>3. \A m \in Low : ch'[m].members \subseteq ch[m].members
  BY <1>1, <1>2 DEF MariiaInv, ChannelsOK
<1>4. new \in [Low -> SUBSET Fd]
  BY DEF MariiaInv, ChannelsOK, Good, ChannelRec
<1>5. CASE new = old
  BY <1>1, <1>5 DEF Rooms!vars
<1>6. CASE new # old
  BY <1>1, <1>3, <1>4, <1>6 DEF Rooms!Leave
<1> QED
  BY <1>5, <1>6

LEMMA GoneRooms ==
  ASSUME MariiaInv, NEW c \in clients, removeClient(c)
  PROVE  Rooms!Disconnect({c})
<1>1. ASSUME NEW n \in Low
      PROVE  ch'[n].members = ch[n].members \ {c}
  <2>1. ch'[n] = OrDeleted(removeMember(ch[n], c))
    BY DEF removeClient
  <2>2. Good(ch[n], clients) /\ clients \in SUBSET Fd
    BY DEF MariiaInv, ChannelsOK, ClientsOK
  <2> QED
    BY <2>1, <2>2, LeftIsGood
<1> QED
  BY <1>1 DEF removeClient, Rooms!Disconnect

LEMMA ClientRooms ==
  ASSUME MariiaInv, NEW c \in Fd, ClientStep(c)
  PROVE  Rooms!Next \/ UNCHANGED Rooms!vars
<1>1. CASE Accept(c)
  <2>1. Rooms!Connect(c)
    BY <1>1 DEF Accept, Rooms!Connect, MariiaInv, ClientsOK
  <2> QED
    BY <2>1 DEF Rooms!Next
<1>2. CASE Close(c) \/ Hangup(c)
  <2>1. c \in clients /\ removeClient(c)
    BY <1>2 DEF Close, Hangup
  <2>2. Rooms!Disconnect({c})
    BY <2>1, GoneRooms
  <2> QED
    BY <2>2 DEF Rooms!Next
<1> QED
  BY <1>1, <1>2, OwnRooms DEF ClientStep

LEMMA ChannelRooms ==
  ASSUME MariiaInv, MariiaInv', NEW c \in Fd, NEW n \in ChName, ChannelStep(c, n)
  PROVE  Rooms!Next \/ UNCHANGED Rooms!vars
<1> DEFINE old == ch[lower[n]]
<1>1. lower[n] \in Low /\ Good(old, clients) /\ clients \in SUBSET Fd
  BY Lowered DEF MariiaInv, ChannelsOK, ClientsOK
<1>2. ASSUME Rooms!Enter(c, lower[n])
      PROVE  Rooms!Next
  BY <1>1, <1>2 DEF Rooms!Next
<1>3. ASSUME NEW r, r.members = old.members, ch' = [ch EXCEPT ![lower[n]] = r],
             UNCHANGED clients
      PROVE  UNCHANGED Rooms!vars
  BY <1>1, <1>3 DEF MariiaInv, ChannelsOK, Rooms!vars
<1>4. ASSUME NEW k \in Key \cup {""}, createAndJoinNewChannel(c, n, k)
      PROVE  Rooms!Enter(c, lower[n])
  <2>1. c \in clients /\ old = NoChannel /\ UNCHANGED clients
    BY <1>4 DEF createAndJoinNewChannel, Ready, Heard, Exists, Only
  <2>2. /\ ch' = [ch EXCEPT ![lower[n]] = NewChannel(c, k)]
        /\ NewChannel(c, k).members = old.members \cup {c} /\ c \notin old.members
    <3>1. NewChannel(c, k).members = {c} /\ NoChannel.members = {}
      BY DEF NewChannel, NoChannel
    <3> QED
      BY <1>4, <2>1, <3>1 DEF createAndJoinNewChannel
  <2> QED
    BY <1>1, <2>1, <2>2, EnterRooms
<1>5. ASSUME NEW k \in Key \cup {""}, joinExistingChannel(c, n, k)
      PROVE  Rooms!Enter(c, lower[n])
  <2> DEFINE r == [old EXCEPT !.members = @ \cup {c}, !.invited = @ \ {c}]
  <2>1. c \in clients /\ c \notin old.members /\ UNCHANGED clients
    BY <1>5 DEF joinExistingChannel, Ready, Heard, IsMember, Only
  <2>2. ch' = [ch EXCEPT ![lower[n]] = r]
    BY <1>5 DEF joinExistingChannel
  <2>3. r.members = old.members \cup {c}
    <3> HIDE DEF old
    <3> QED
      BY <1>1 DEF Good, ChannelRec
  <2> HIDE DEF r
  <2> QED
    BY <1>1, <2>1, <2>2, <2>3, EnterRooms
<1>6. ASSUME NEW d \in Fd, removeClientFromChannel(d, lower[n])
      PROVE  Rooms!Next \/ UNCHANGED Rooms!vars
  BY <1>1, <1>6, LeaveRooms DEF Rooms!Next
<1>7. ASSUME NEW w \in Nick, processKick(c, n, w)
      PROVE  Rooms!Next \/ UNCHANGED Rooms!vars
  <2>1. findClient(w) \in Fd
    BY <1>1, <1>7, Found DEF processKick, MariiaInv
  <2> QED
    BY <1>6, <1>7, <2>1 DEF processKick
<1>8. ASSUME NEW w \in Nick, processInvite(c, w, n)
      PROVE  UNCHANGED Rooms!vars
  <2> DEFINE r == [old EXCEPT !.invited = @ \cup {findClient(w)}]
  <2>1. ch' = [ch EXCEPT ![lower[n]] = r] /\ UNCHANGED clients
    BY <1>8 DEF processInvite, Only
  <2>2. r.members = old.members
    <3> HIDE DEF old
    <3> QED
      BY <1>1 DEF Good, ChannelRec
  <2> HIDE DEF r
  <2> QED
    BY <1>3, <2>1, <2>2
<1>9. ASSUME NEW t \in Topic \cup {""}, processTopic(c, n, t)
      PROVE  UNCHANGED Rooms!vars
  <2> DEFINE r == [old EXCEPT !.topic = t]
  <2>1. ch' = [ch EXCEPT ![lower[n]] = r] /\ UNCHANGED clients
    BY <1>9 DEF processTopic, Only
  <2>2. r.members = old.members
    <3> HIDE DEF old
    <3> QED
      BY <1>1 DEF Good, ChannelRec
  <2> HIDE DEF r
  <2> QED
    BY <1>3, <2>1, <2>2
<1>10. ASSUME NEW ms \in ModeCmds, processChannelMode(c, n, ms)
       PROVE  UNCHANGED Rooms!vars
  <2> DEFINE r == ApplyAll(old, ms)
  <2>1. ch' = [ch EXCEPT ![lower[n]] = r] /\ UNCHANGED clients
    BY <1>10 DEF processChannelMode, Only
  <2>2. c \in old.members
    BY <1>10 DEF processChannelMode, IsMember
  <2>3. r.members = old.members
    <3> HIDE DEF old
    <3> QED
      BY <1>1, <2>2, SetIsGood
  <2> HIDE DEF r
  <2> QED
    BY <1>3, <2>1, <2>3
<1>11. ASSUME processPart(c, n)
       PROVE  Rooms!Next \/ UNCHANGED Rooms!vars
  BY <1>6, <1>11 DEF processPart
<1> HIDE DEF old
<1> QED
  BY <1>2, <1>4, <1>5, <1>7, <1>8, <1>9, <1>10, <1>11, Zenon DEF ChannelStep

LEMMA RoomsStep ==
  MariiaInv /\ MariiaInv' /\ [Next]_vars => [Rooms!Next]_(Rooms!vars)
<1> SUFFICES ASSUME MariiaInv, MariiaInv', [Next]_vars
             PROVE  Rooms!Next \/ UNCHANGED Rooms!vars
  OBVIOUS
<1>1. CASE EndOfInput
  BY <1>1 DEF EndOfInput, Only, Rooms!vars
<1>2. CASE UNCHANGED vars
  BY <1>2 DEF vars, Rooms!vars
<1> QED
  BY <1>1, <1>2, ClientRooms, ChannelRooms DEF Next

(* mariia implements Membership: only the connected come on channels, and  *)
(* who goes leaves all of them in that step (RoomsSpec).                   *)
THEOREM MariiaImplementsMembership == Spec => RoomsSpec
BY RoomsInit, MariiaInit, MariiaStep, RoomsStep, PTL DEF Spec, Rooms!Spec, RoomsSpec

(* ... so nobody is on a channel of mariia who is not connected.           *)
THEOREM MariiaMembersConnected == Spec => []Rooms!Inside
<1>1. MariiaInv => Rooms!Inside
  BY DEF MariiaInv, ChannelsOK, Good, Rooms!Inside
<1> QED
  BY <1>1, MariiaInit, MariiaStep, PTL DEF Spec
=============================================================================
