----------------------------- MODULE BorisProofs -----------------------------
(***************************************************************************)
(* The clients and channels of boris, for any number of clients and        *)
(* channels, any settings and any bounds: its states are well formed, its  *)
(* nicknames unique, and its channels keep the promise of Membership.      *)
(***************************************************************************)
EXTENDS Boris, TLAPS

ClientsGood ==
  /\ on \subseteq Cli /\ cl \in [Cli -> ClientRec]
  /\ \A c \in Cli \ on : cl[c] = NoClient

(* A channel without members is none, and the members are connected.       *)
ChannelsGood ==
  /\ ch \in [ChName -> ChannelRec]
  /\ \A n \in ChName : ch[n].members = {} => ch[n] = NoChannel
  /\ \A n \in ChName : ch[n].members \subseteq on

PhaseGood == status \in {-1, 0, 1} /\ phase \in {"loop", "send", "boot", "down"}

BorisInv == ClientsGood /\ NickUnique /\ ChannelsGood /\ PhaseGood

LEMMA InvIsTypeOK == BorisInv => TypeOK
BY DEF BorisInv, ClientsGood, ChannelsGood, PhaseGood, TypeOK, chs
-----------------------------------------------------------------------------
(* Clients.                                                                *)
LEMMA ZeroIdle == 0 \in 0 .. MaxIdle
<1>1. MaxIdle \in Nat
  BY BorisAssumption
<1> QED
  BY <1>1

LEMMA NoClientIsRec == NoClient \in ClientRec /\ NoClient.nick = ""
BY ZeroIdle, Zenon DEF NoClient, ClientRec

LEMMA ClientParts ==
  ASSUME NEW r \in ClientRec
  PROVE  /\ r.nick \in Nick \cup {""} /\ r.idle \in 0 .. MaxIdle /\ r.invited \in SUBSET ChName
         /\ r.flags \in SUBSET ({"PASS_ENTERED", "ACTIVE", "IRC_OPERATOR"} \cup UserFlag)
BY Zenon DEF ClientRec

LEMMA FlagsReplaced ==
  ASSUME NEW r \in ClientRec,
         NEW F \in SUBSET ({"PASS_ENTERED", "ACTIVE", "IRC_OPERATOR"} \cup UserFlag)
  PROVE  [r EXCEPT !.flags = F] \in ClientRec /\ [r EXCEPT !.flags = F].nick = r.nick
BY Zenon DEF ClientRec

LEMMA InvitedReplaced ==
  ASSUME NEW r \in ClientRec, NEW I \in SUBSET ChName
  PROVE  [r EXCEPT !.invited = I] \in ClientRec /\ [r EXCEPT !.invited = I].nick = r.nick
BY Zenon DEF ClientRec

LEMMA NickReplaced ==
  ASSUME NEW r \in ClientRec, NEW w \in Nick \cup {""}
  PROVE  [r EXCEPT !.nick = w] \in ClientRec /\ [r EXCEPT !.nick = w].nick = w
BY Zenon DEF ClientRec

LEMMA UserReplaced ==
  ASSUME NEW r \in ClientRec
  PROVE  [r EXCEPT !.user = TRUE] \in ClientRec /\ [r EXCEPT !.user = TRUE].nick = r.nick
BY Zenon DEF ClientRec

LEMMA IdleReplaced ==
  ASSUME NEW r \in ClientRec, NEW i \in 0 .. MaxIdle
  PROVE  [r EXCEPT !.idle = i] \in ClientRec /\ [r EXCEPT !.idle = i].nick = r.nick
BY Zenon DEF ClientRec

LEMMA AskedReplaced ==
  ASSUME NEW r \in ClientRec, NEW b \in BOOLEAN
  PROVE  [r EXCEPT !.asked = b] \in ClientRec /\ [r EXCEPT !.asked = b].nick = r.nick
BY Zenon DEF ClientRec

LEMMA HeardIs ==
  ASSUME BorisInv, NEW c \in on
  PROVE  c \in Cli /\ cl[c] \in ClientRec /\ Heard(c) \in ClientRec /\ Heard(c).nick = cl[c].nick
<1>1. c \in Cli /\ cl[c] \in ClientRec
  BY DEF BorisInv, ClientsGood
<1> QED
  BY <1>1, ZeroIdle, Zenon DEF Heard, ClientRec

LEMMA connectClientIs ==
  ASSUME NEW r \in ClientRec
  PROVE  connectClient(r) \in ClientRec /\ connectClient(r).nick = r.nick
<1>1. r.flags \cup {"ACTIVE"} \in SUBSET ({"PASS_ENTERED", "ACTIVE", "IRC_OPERATOR"} \cup UserFlag)
  BY ClientParts
<1> QED
  BY <1>1, FlagsReplaced DEF connectClient

(* What a command may make of the Client of c.                             *)
Becomes(c, q) ==
  /\ q \in ClientRec /\ cl' = [cl EXCEPT ![c] = q]
  /\ q.nick \in {cl[c].nick, ""} \/ isNicknameFree(q.nick)

(* The clients are those there were, and one of them has changed.          *)
ClientChanges == UNCHANGED on /\ \E c \in on : \E q : Becomes(c, q)

LEMMA SameNick ==
  ASSUME BorisInv, NEW c \in on, NEW q \in ClientRec, q.nick = cl[c].nick,
         cl' = [cl EXCEPT ![c] = q], UNCHANGED on
  PROVE  ClientChanges
BY DEF ClientChanges, Becomes

LEMMA NicksKept ==
  ASSUME NickUnique, \A d \in on' : d \in on /\ cl'[d].nick = cl[d].nick
  PROVE  NickUnique'
<1> SUFFICES ASSUME NEW d \in on', cl'[d].nick # ""
             PROVE  /\ lower[cl'[d].nick] # lower[serverName]
                    /\ \A e \in on' \ {d} :
                         cl'[e].nick # "" => lower[cl'[e].nick] # lower[cl'[d].nick]
  BY DEF NickUnique
<1>1. d \in on /\ cl'[d].nick = cl[d].nick
  OBVIOUS
<1>2. lower[cl'[d].nick] # lower[serverName]
  BY <1>1 DEF NickUnique
<1>3. ASSUME NEW e \in on' \ {d}, cl'[e].nick # ""
      PROVE  lower[cl'[e].nick] # lower[cl'[d].nick]
  <2>1. e \in on \ {d} /\ cl'[e].nick = cl[e].nick
    OBVIOUS
  <2> QED
    BY <1>1, <1>3, <2>1 DEF NickUnique
<1> QED
  BY <1>2, <1>3

LEMMA OnlyHeard ==
  ASSUME BorisInv, NEW c \in on, cl' = [cl EXCEPT ![c] = Heard(c)], UNCHANGED on
  PROVE  ClientChanges
BY HeardIs, SameNick

LEMMA ClientChanged ==
  ASSUME BorisInv, ClientChanges
  PROVE  (ClientsGood /\ NickUnique)'
<1>1. PICK c \in on : \E q : Becomes(c, q)
  BY DEF ClientChanges
<1>2. PICK q : Becomes(c, q)
  BY <1>1
<1>3. c \in Cli /\ cl'[c] = q /\ \A d \in Cli \ {c} : cl'[d] = cl[d]
  BY <1>2 DEF Becomes, BorisInv, ClientsGood
<1>4. ClientsGood'
  BY <1>2, <1>3 DEF Becomes, ClientChanges, BorisInv, ClientsGood
<1>5. \A d \in on \ {c} : cl'[d] = cl[d]
  BY <1>3 DEF BorisInv, ClientsGood
<1>6. q.nick # "" => /\ lower[q.nick] # lower[serverName]
                     /\ \A d \in on \ {c} : cl[d].nick # "" => lower[cl[d].nick] # lower[q.nick]
  <2>1. CASE q.nick = cl[c].nick
    BY <2>1 DEF BorisInv, NickUnique
  <2>2. CASE isNicknameFree(q.nick)
    BY <2>2 DEF isNicknameFree
  <2> QED
    BY <1>2, <2>1, <2>2 DEF Becomes
<1>7. ASSUME NEW d \in on', cl'[d].nick # ""
      PROVE  /\ lower[cl'[d].nick] # lower[serverName]
             /\ \A e \in on' \ {d} : cl'[e].nick # "" => lower[cl'[e].nick] # lower[cl'[d].nick]
  <2>1. on' = on
    BY DEF ClientChanges
  <2>2. CASE d = c
    BY <1>3, <1>5, <1>6, <1>7, <2>1, <2>2
  <2>3. CASE d # c
    <3>1. d \in on \ {c} /\ cl'[d] = cl[d] /\ cl[d].nick # ""
      BY <1>5, <1>7, <2>1, <2>3
    <3>2. /\ lower[cl[d].nick] # lower[serverName]
          /\ \A e \in on \ {d} : cl[e].nick # "" => lower[cl[e].nick] # lower[cl[d].nick]
      BY <3>1 DEF BorisInv, NickUnique
    <3>3. cl'[c].nick # "" => lower[cl'[c].nick] # lower[cl[d].nick]
      BY <1>3, <1>6, <3>1
    <3> QED
      BY <1>3, <1>5, <2>1, <3>1, <3>2, <3>3
  <2> QED
    BY <2>2, <2>3
<1> QED
  BY <1>4, <1>7 DEF NickUnique
-----------------------------------------------------------------------------
(* Channels.                                                               *)
LEMMA Bounds ==
  /\ UMAX \in 0 .. UMAX /\ 0 \in 0 .. MaxOpers /\ 1 \in 0 .. MaxOpers
  /\ 0 \in 0 .. MaxEntries
<1>1. UMAX \in Nat /\ MaxOpers \in Nat \ {0} /\ MaxEntries \in Nat
  BY BorisAssumption
<1> QED
  BY <1>1

LEMMA NoChannelIsRec == NoChannel \in ChannelRec /\ NoChannel.members = {}
<1>1. /\ [a \in Addr |-> 0] \in [Addr -> 0 .. MaxOpers]
      /\ [a \in Addr |-> 0] \in [Addr -> 0 .. MaxEntries]
      /\ [m \in Mask |-> 0] \in [Mask -> 0 .. MaxEntries]
  BY Bounds
<1> QED
  BY <1>1, Bounds, Zenon DEF NoChannel, ChannelRec

LEMMA ChannelParts ==
  ASSUME NEW r \in ChannelRec
  PROVE  /\ r.members \in SUBSET Cli /\ r.flags \in SUBSET Flag
         /\ r.oper \in [Addr -> 0 .. MaxOpers]
         /\ r.speaker \in [Addr -> 0 .. MaxEntries]
         /\ r.ban \in [Mask -> 0 .. MaxEntries]
BY Zenon DEF ChannelRec

LEMMA MembersReplaced ==
  ASSUME NEW r \in ChannelRec, NEW T \in SUBSET Cli
  PROVE  [r EXCEPT !.members = T] \in ChannelRec /\ [r EXCEPT !.members = T].members = T
BY Zenon DEF ChannelRec

LEMMA OperReplaced ==
  ASSUME NEW r \in ChannelRec, NEW f \in [Addr -> 0 .. MaxOpers]
  PROVE  [r EXCEPT !.oper = f] \in ChannelRec /\ [r EXCEPT !.oper = f].members = r.members
BY Zenon DEF ChannelRec

LEMMA SpeakerReplaced ==
  ASSUME NEW r \in ChannelRec, NEW f \in [Addr -> 0 .. MaxEntries]
  PROVE  [r EXCEPT !.speaker = f] \in ChannelRec /\ [r EXCEPT !.speaker = f].members = r.members
BY Zenon DEF ChannelRec

LEMMA BanReplaced ==
  ASSUME NEW r \in ChannelRec, NEW f \in [Mask -> 0 .. MaxEntries]
  PROVE  [r EXCEPT !.ban = f] \in ChannelRec /\ [r EXCEPT !.ban = f].members = r.members
BY Zenon DEF ChannelRec

LEMMA FlagReplaced ==
  ASSUME NEW r \in ChannelRec, NEW F \in SUBSET Flag
  PROVE  [r EXCEPT !.flags = F] \in ChannelRec /\ [r EXCEPT !.flags = F].members = r.members
BY Zenon DEF ChannelRec

LEMMA KeyReplaced ==
  ASSUME NEW r \in ChannelRec, NEW k \in Key \cup {""}
  PROVE  [r EXCEPT !.key = k] \in ChannelRec /\ [r EXCEPT !.key = k].members = r.members
BY Zenon DEF ChannelRec

LEMMA LimitReplaced ==
  ASSUME NEW r \in ChannelRec, NEW l \in 0 .. UMAX
  PROVE  [r EXCEPT !.limit = l] \in ChannelRec /\ [r EXCEPT !.limit = l].members = r.members
BY Zenon DEF ChannelRec

LEMMA TopicReplaced ==
  ASSUME NEW r \in ChannelRec, NEW w \in Topic \cup {""}
  PROVE  [r EXCEPT !.topic = w] \in ChannelRec /\ [r EXCEPT !.topic = w].members = r.members
BY Zenon DEF ChannelRec

(* One entry more or less, as the lists of operators, speakers and bans    *)
(* have them.                                                              *)
LEMMA OneMoreOrLess ==
  ASSUME NEW x \in Nat, NEW y \in 0 .. x, NEW add \in BOOLEAN, add => y < x
  PROVE  (IF add THEN y + 1 ELSE IF y > 0 THEN y - 1 ELSE 0) \in 0 .. x
OBVIOUS

LEMMA NewChannelIs ==
  ASSUME NEW c \in Cli
  PROVE  NewChannel(c) \in ChannelRec /\ NewChannel(c).members = {c}
<1> DEFINE q == [NoChannel EXCEPT !.members = {c}]
           f == [q.oper EXCEPT ![c] = 1]
<1>1. NewChannel(c) = [q EXCEPT !.oper = f]
  BY NoChannelIsRec, Zenon DEF NewChannel, ChannelRec
<1>2. q \in ChannelRec /\ q.members = {c}
  BY NoChannelIsRec, MembersReplaced
<1> HIDE DEF q
<1>3. f \in [Addr -> 0 .. MaxOpers]
  BY <1>2, ChannelParts, Bounds
<1> HIDE DEF f
<1> QED
  BY <1>1, <1>2, <1>3, OperReplaced

LEMMA deleteClientIs ==
  ASSUME NEW r \in ChannelRec, NEW S
  PROVE  deleteClient(r, S) \in ChannelRec /\ deleteClient(r, S).members = r.members \ S
<1> DEFINE q == [r EXCEPT !.members = @ \ S]
           f == [a \in Addr |-> IF a \in S /\ r.oper[a] > 0 THEN r.oper[a] - 1 ELSE r.oper[a]]
<1>1. r.members \ S \in SUBSET Cli /\ r.oper \in [Addr -> 0 .. MaxOpers]
  BY ChannelParts
<1>2. f \in [Addr -> 0 .. MaxOpers]
  <2>1. MaxOpers \in Nat
    BY BorisAssumption
  <2> QED
    BY <1>1, <2>1
<1>3. deleteClient(r, S) = [q EXCEPT !.oper = f]
  BY Zenon DEF deleteClient, ChannelRec
<1> HIDE DEF f
<1>4. q \in ChannelRec /\ q.members = r.members \ S
  BY <1>1, MembersReplaced
<1> HIDE DEF q
<1> QED
  BY <1>2, <1>3, <1>4, OperReplaced

LEMMA DepartedIs ==
  ASSUME NEW r \in ChannelRec, NEW c \in Cli, NEW heir \in Cli, IsHeir(heir, r, c)
  PROVE  /\ Departed(r, c, heir) \in ChannelRec
         /\ Departed(r, c, heir).members = r.members \ {c}
<1> DEFINE f == [r.oper EXCEPT ![heir] = IF Inherits(r, c) THEN @ + 1 ELSE @]
           q == [r EXCEPT !.oper = f]
<1>1. r.oper \in [Addr -> 0 .. MaxOpers] /\ heir \in Addr
  BY ChannelParts DEF Addr
<1>2. (IF Inherits(r, c) THEN r.oper[heir] + 1 ELSE r.oper[heir]) \in 0 .. MaxOpers
  <2>1. Inherits(r, c) => r.oper[heir] = 0
    BY <1>1 DEF IsHeir, Inherits
  <2> QED
    BY <1>1, <2>1, Bounds
<1>3. f \in [Addr -> 0 .. MaxOpers]
  BY <1>1, <1>2
<1>4. Departed(r, c, heir) = deleteClient(q, {c})
  BY DEF Departed
<1> HIDE DEF f
<1>5. q \in ChannelRec /\ q.members = r.members
  BY <1>3, OperReplaced
<1> HIDE DEF q
<1> QED
  BY <1>4, <1>5, deleteClientIs

LEMMA deleteEmptyChannelIs ==
  ASSUME NEW f \in [ChName -> ChannelRec], ch' = deleteEmptyChannel(f),
         \A n \in ChName : f[n].members \subseteq on'
  PROVE  ChannelsGood' /\ \A n \in ChName : ch'[n].members = f[n].members
<1>1. \A n \in ChName : ch'[n] = IF f[n].members = {} THEN NoChannel ELSE f[n]
  BY DEF deleteEmptyChannel
<1>2. ch' \in [ChName -> ChannelRec]
  BY NoChannelIsRec DEF deleteEmptyChannel
<1> QED
  BY <1>1, <1>2, NoChannelIsRec DEF ChannelsGood

(* One channel with members becomes r.                                     *)
LEMMA ChannelChanged ==
  ASSUME BorisInv, NEW n \in ChName, NEW r \in ChannelRec, r.members # {},
         r.members \subseteq on, ch' = [ch EXCEPT ![n] = r], UNCHANGED on
  PROVE  ChannelsGood'
BY DEF BorisInv, ChannelsGood
-----------------------------------------------------------------------------
(* Refinement: what a step does to the clients and to the members, in the  *)
(* terms of Membership.                                                    *)
RoomsStep == Rooms!Next \/ UNCHANGED Rooms!vars

In == [n \in ChName |-> ch[n].members]

(* What every step of boris is to be shown.                                *)
StepGood == BorisInv' /\ RoomsStep

LEMMA InOn ==
  ASSUME BorisInv
  PROVE  In \in [ChName -> SUBSET on] /\ on \subseteq Cli
BY DEF BorisInv, ClientsGood, ChannelsGood, In

LEMMA StaysTheSame ==
  ASSUME UNCHANGED on, In' = In
  PROVE  RoomsStep
BY DEF RoomsStep, Rooms!vars, In

LEMMA OnlyLeaves ==
  ASSUME BorisInv, UNCHANGED on, \A n \in ChName : In'[n] \subseteq In[n]
  PROVE  RoomsStep
<1>1. In \in [ChName -> SUBSET Cli] /\ In' \in [ChName -> SUBSET Cli]
  BY InOn DEF In
<1>2. CASE In' = In
  BY <1>2, StaysTheSame
<1>3. CASE In' # In
  <2>1. Rooms!Leave
    BY <1>1, <1>3 DEF Rooms!Leave, In
  <2> QED
    BY <2>1 DEF RoomsStep, Rooms!Next
<1> QED
  BY <1>2, <1>3

LEMMA OneEnters ==
  ASSUME BorisInv, UNCHANGED on, NEW c \in on, NEW n \in ChName,
         In' = [In EXCEPT ![n] = @ \cup {c}]
  PROVE  RoomsStep
<1>1. In \in [ChName -> SUBSET Cli] /\ c \in Cli
  BY InOn
<1>2. CASE c \in In[n]
  BY <1>1, <1>2, StaysTheSame
<1>3. CASE c \notin In[n]
  <2>1. Rooms!Enter(c, n)
    BY <1>3 DEF Rooms!Enter, In
  <2> QED
    BY <1>1, <2>1 DEF RoomsStep, Rooms!Next
<1> QED
  BY <1>2, <1>3

LEMMA Deleted ==
  ASSUME BorisInv, NEW S \in SUBSET on, on' = on \ S,
         \A n \in ChName : In'[n] = In[n] \ S
  PROVE  RoomsStep
<1>1. In \in [ChName -> SUBSET Cli] /\ S \in SUBSET Cli
  BY InOn
<1>2. In' = [n \in ChName |-> In[n] \ S]
  BY DEF In
<1>3. CASE S = {}
  <2>1. In' = In
    BY <1>2, <1>3 DEF In
  <2> QED
    BY <1>3, <2>1, StaysTheSame
<1>4. CASE S # {}
  <2>1. Rooms!Disconnect(S)
    BY <1>2, <1>4 DEF Rooms!Disconnect, In
  <2> QED
    BY <1>1, <2>1 DEF RoomsStep, Rooms!Next
<1> QED
  BY <1>3, <1>4
-----------------------------------------------------------------------------
(* The kinds of steps.                                                     *)
LEMMA ClientCommand ==
  ASSUME BorisInv, ClientChanges, PhaseGood', UNCHANGED ch
  PROVE  StepGood
<1>1. ChannelsGood' /\ UNCHANGED on
  BY DEF ClientChanges, BorisInv, ChannelsGood
<1> QED
  BY <1>1, ClientChanged, StaysTheSame DEF StepGood, BorisInv, In

LEMMA ChannelCommand ==
  ASSUME BorisInv, ClientChanges, PhaseGood', NEW c \in on, NEW n \in ChName,
         NEW r \in ChannelRec, r.members # {}, ch' = [ch EXCEPT ![n] = r],
         r.members \subseteq ch[n].members \/ r.members = ch[n].members \cup {c}
  PROVE  StepGood
<1>1. UNCHANGED on /\ ch \in [ChName -> ChannelRec] /\ ch[n].members \subseteq on
  BY DEF ClientChanges, BorisInv, ChannelsGood
<1>2. r.members \subseteq on
  BY <1>1
<1>3. BorisInv'
  BY <1>1, <1>2, ClientChanged, ChannelChanged DEF BorisInv
<1>4. In' = [In EXCEPT ![n] = r.members] /\ In[n] = ch[n].members
  BY <1>1 DEF In
<1>5. CASE r.members \subseteq ch[n].members
  <2>1. \A m \in ChName : In'[m] \subseteq In[m]
    BY <1>4, <1>5, InOn
  <2> QED
    BY <1>1, <1>3, <2>1, OnlyLeaves DEF StepGood
<1>6. CASE r.members = ch[n].members \cup {c}
  <2>1. In' = [In EXCEPT ![n] = @ \cup {c}]
    BY <1>4, <1>6
  <2> QED
    BY <1>1, <1>3, <2>1, OneEnters DEF StepGood
<1> QED
  BY <1>5, <1>6

LEMMA Leaving ==
  ASSUME BorisInv, ClientChanges, PhaseGood', NEW f \in [ChName -> ChannelRec],
         ch' = deleteEmptyChannel(f), \A n \in ChName : f[n].members \subseteq ch[n].members
  PROVE  StepGood
<1>1. UNCHANGED on /\ \A n \in ChName : ch[n].members \subseteq on
  BY DEF ClientChanges, BorisInv, ChannelsGood
<1>2. ChannelsGood' /\ \A n \in ChName : ch'[n].members = f[n].members
  BY <1>1, deleteEmptyChannelIs
<1>3. \A n \in ChName : In'[n] \subseteq In[n]
  BY <1>2 DEF In
<1> QED
  BY <1>1, <1>2, <1>3, ClientChanged, OnlyLeaves DEF StepGood, BorisInv

LEMMA AllGone ==
  ASSUME BorisInv, NEW p \in {"loop", "boot", "down"}, Gone(p)
  PROVE  StepGood
<1>1. on' = {} /\ (\A n \in ChName : ch'[n] = NoChannel) /\ cl' = [c \in Cli |-> NoClient]
      /\ ch' = [n \in ChName |-> NoChannel] /\ phase' = p /\ UNCHANGED status
  BY DEF Gone
<1>2. BorisInv'
  BY <1>1, NoClientIsRec, NoChannelIsRec
     DEF BorisInv, ClientsGood, NickUnique, ChannelsGood, PhaseGood
<1>3. \A n \in ChName : In'[n] = In[n] \ on
  BY <1>1, InOn, NoChannelIsRec DEF In
<1> QED
  BY <1>1, <1>2, <1>3, Deleted DEF StepGood

LEMMA QuitGood ==
  ASSUME BorisInv, NEW c \in Cli, NEW heirs \in Heirs, Quit(c, heirs)
  PROVE  StepGood
<1> DEFINE f == [n \in ChName |->
                   IF c \in ch[n].members THEN Departed(ch[n], c, heirs[n]) ELSE ch[n]]
<1>1. /\ c \in on /\ on' = on \ {c} /\ cl' = [cl EXCEPT ![c] = NoClient]
      /\ UNCHANGED <<status, phase>> /\ ch' = deleteEmptyChannel(f)
  BY DEF Quit
<1>2. ASSUME NEW n \in ChName
      PROVE  f[n] \in ChannelRec /\ f[n].members = ch[n].members \ {c}
  <2>1. ch[n] \in ChannelRec /\ heirs[n] \in Cli /\ IsHeir(heirs[n], ch[n], c)
    BY DEF BorisInv, ChannelsGood, Heirs, Quit
  <2>2. /\ Departed(ch[n], c, heirs[n]) \in ChannelRec
        /\ Departed(ch[n], c, heirs[n]).members = ch[n].members \ {c}
    BY <2>1, DepartedIs
  <2> QED
    BY <2>1, <2>2
<1>3. f \in [ChName -> ChannelRec]
  BY <1>2
<1> HIDE DEF f
<1>4. \A n \in ChName : f[n].members \subseteq on'
  BY <1>1, <1>2 DEF BorisInv, ChannelsGood
<1>5. ChannelsGood' /\ \A n \in ChName : ch'[n].members = f[n].members
  BY <1>1, <1>3, <1>4, deleteEmptyChannelIs
<1>6. ClientsGood' /\ NickUnique' /\ PhaseGood'
  <2>1. ClientsGood'
    BY <1>1, NoClientIsRec DEF BorisInv, ClientsGood
  <2>2. \A d \in on' : d \in on /\ cl'[d] = cl[d]
    BY <1>1 DEF BorisInv, ClientsGood
  <2>3. NickUnique'
    BY <2>2, NicksKept DEF BorisInv
  <2>4. PhaseGood'
    BY <1>1 DEF BorisInv, PhaseGood
  <2> QED
    BY <2>1, <2>3, <2>4
<1>7. \A n \in ChName : In'[n] = In[n] \ {c}
  BY <1>2, <1>5 DEF In
<1> QED
  BY <1>1, <1>5, <1>6, <1>7, Deleted DEF StepGood, BorisInv
-----------------------------------------------------------------------------
(* The commands that change a Client and nothing else.                     *)
LEMMA LoginGood ==
  ASSUME BorisInv, NEW c \in Cli,
         \/ Pass(c) \/ UserCmd(c) \/ NickEmpty(c) \/ Answer(c)
         \/ \E n \in Nick : NickCmd(c, n)
         \/ \E o \in opers : Oper(c, o)
         \/ \E f \in UserModes, add \in BOOLEAN : ModeUser(c, f, add)
  PROVE  StepGood
<1> DEFINE h == Heard(c)
           Flags == SUBSET ({"PASS_ENTERED", "ACTIVE", "IRC_OPERATOR"} \cup UserFlag)
<1>1. c \in on /\ UNCHANGED <<on, ch, status, phase>>
  BY DEF Pass, UserCmd, NickEmpty, Answer, NickCmd, Oper, ModeUser, Ready, Only
<1>2. h \in ClientRec /\ h.nick = cl[c].nick /\ h.flags \in Flags
  BY <1>1, HeardIs, ClientParts
<1> HIDE DEF h
<1>3. ASSUME NEW F \in Flags, cl' = [cl EXCEPT ![c] = [h EXCEPT !.flags = F]]
      PROVE  ClientChanges
  BY <1>1, <1>2, <1>3, FlagsReplaced, SameNick
<1>4. ASSUME Pass(c)
      PROVE  ClientChanges
  <2>1. cl' = [cl EXCEPT ![c] = [h EXCEPT !.flags = h.flags \cup {"PASS_ENTERED"}]]
    BY <1>4 DEF Pass, h
  <2> QED
    BY <1>2, <1>3, <2>1
<1>5. ASSUME UserCmd(c)
      PROVE  ClientChanges
  <2> DEFINE q == [h EXCEPT !.user = TRUE]
  <2>1. cl' = [cl EXCEPT ![c] = connectClient(q)]
    BY <1>5 DEF UserCmd, h
  <2>2. q \in ClientRec /\ q.nick = cl[c].nick
    BY <1>2, UserReplaced
  <2> HIDE DEF q
  <2> QED
    BY <1>1, <2>1, <2>2, connectClientIs, SameNick
<1>6. ASSUME NickEmpty(c)
      PROVE  ClientChanges
  <2>1. cl' = [cl EXCEPT ![c] = [h EXCEPT !.nick = ""]]
    BY <1>6 DEF NickEmpty, h
  <2>2. [h EXCEPT !.nick = ""] \in ClientRec /\ [h EXCEPT !.nick = ""].nick = ""
    BY <1>2, NickReplaced
  <2> QED
    BY <1>1, <2>1, <2>2 DEF ClientChanges, Becomes
<1>7. ASSUME Answer(c)
      PROVE  ClientChanges
  BY <1>1, <1>7, OnlyHeard DEF Answer
<1>8. ASSUME NEW n \in Nick, NickCmd(c, n)
      PROVE  ClientChanges
  <2> DEFINE q == [h EXCEPT !.nick = n]
  <2>1. cl' = [cl EXCEPT ![c] = connectClient(q)] /\ (n = cl[c].nick \/ isNicknameFree(n))
    BY <1>8 DEF NickCmd, h
  <2>2. q \in ClientRec /\ q.nick = n
    BY <1>2, NickReplaced
  <2> HIDE DEF q
  <2>3. connectClient(q) \in ClientRec /\ connectClient(q).nick = n
    BY <2>2, connectClientIs
  <2> QED
    BY <1>1, <2>1, <2>3 DEF ClientChanges, Becomes
<1>9. ASSUME NEW o \in opers, Oper(c, o)
      PROVE  ClientChanges
  <2>1. cl' = [cl EXCEPT ![c] = [h EXCEPT !.flags = h.flags \cup {"IRC_OPERATOR"}]]
    BY <1>9 DEF Oper, h
  <2> QED
    BY <1>2, <1>3, <2>1
<1>10. ASSUME NEW f \in UserModes, NEW add \in BOOLEAN, ModeUser(c, f, add)
       PROVE  ClientChanges
  <2> DEFINE F == IF add THEN h.flags \cup {f} ELSE h.flags \ {f}
  <2>1. cl' = [cl EXCEPT ![c] = [h EXCEPT !.flags = F]]
    BY <1>10 DEF ModeUser, h
  <2>2. f \in UserFlag
    BY BorisAssumption
  <2>3. F \in Flags
    BY <1>2, <2>2
  <2> HIDE DEF F
  <2> QED
    BY <1>3, <2>1, <2>3
<1>11. PhaseGood'
  BY <1>1 DEF BorisInv, PhaseGood
<1>12. ClientChanges
  BY <1>4, <1>5, <1>6, <1>7, <1>8, <1>9, <1>10
<1> QED
  BY <1>1, <1>11, <1>12, ClientCommand

(* A step that changes the status or the phase only.                       *)
LEMMA StatusOnly ==
  ASSUME BorisInv, UNCHANGED <<on, cl, ch>>, PhaseGood'
  PROVE  StepGood
<1>1. BorisInv'
  BY DEF BorisInv, ClientsGood, NickUnique, ChannelsGood
<1> QED
  BY <1>1, StaysTheSame DEF StepGood, In

(* Silence and RESTART.                                                    *)
LEMMA ClientLoopGood ==
  ASSUME BorisInv, NEW c \in Cli, Restart(c) \/ Tick(c) \/ Ask(c)
  PROVE  StepGood
<1>1. c \in on /\ UNCHANGED <<on, ch, phase>>
  BY DEF Restart, Tick, Ask, Ready, Only
<1>2. PhaseGood'
  BY DEF BorisInv, PhaseGood, Restart, Tick, Ask, Only
<1>3. cl[c] \in ClientRec
  BY <1>1, HeardIs
<1>4. ASSUME Restart(c)
      PROVE  ClientChanges
  BY <1>1, <1>4, OnlyHeard DEF Restart
<1>5. ASSUME Tick(c)
      PROVE  ClientChanges
  <2>1. cl' = [cl EXCEPT ![c] = [cl[c] EXCEPT !.idle = cl[c].idle + 1]] /\ cl[c].idle < MaxIdle
    BY <1>5 DEF Tick
  <2>2. MaxIdle \in Nat /\ cl[c].idle \in 0 .. MaxIdle
    BY <1>3, ClientParts, BorisAssumption
  <2>3. cl[c].idle + 1 \in 0 .. MaxIdle
    BY <2>1, <2>2
  <2> QED
    BY <1>1, <1>3, <2>1, <2>3, IdleReplaced, SameNick
<1>6. ASSUME Ask(c)
      PROVE  ClientChanges
  <2>1. cl' = [cl EXCEPT ![c] = [cl[c] EXCEPT !.asked = TRUE]]
    BY <1>6 DEF Ask
  <2>2. /\ [cl[c] EXCEPT !.asked = TRUE] \in ClientRec
        /\ [cl[c] EXCEPT !.asked = TRUE].nick = cl[c].nick
    BY <1>3, AskedReplaced
  <2> QED
    BY <1>1, <2>1, <2>2, SameNick
<1>7. ClientChanges
  BY <1>4, <1>5, <1>6
<1> QED
  BY <1>1, <1>2, <1>7, ClientCommand

LEMMA AcceptGood ==
  ASSUME BorisInv, NEW c \in Cli, Accept(c)
  PROVE  StepGood
<1>1. c \notin on /\ on' = on \cup {c} /\ UNCHANGED <<cl, ch, status, phase>>
  BY DEF Accept
<1>2. BorisInv'
  <2>1. ClientsGood' /\ ChannelsGood' /\ PhaseGood'
    BY <1>1 DEF BorisInv, ClientsGood, ChannelsGood, PhaseGood
  <2>2. cl[c].nick = ""
    BY <1>1, NoClientIsRec DEF BorisInv, ClientsGood
  <2>3. NickUnique'
    BY <1>1, <2>2 DEF BorisInv, NickUnique
  <2> QED
    BY <2>1, <2>3 DEF BorisInv
<1>3. Rooms!Connect(c)
  BY <1>1 DEF Rooms!Connect
<1> QED
  BY <1>2, <1>3 DEF StepGood, RoomsStep, Rooms!Next

LEMMA ClientStepGood ==
  ASSUME BorisInv, NEW c \in Cli, ClientStep(c)
  PROVE  StepGood
<1>1. CASE Accept(c)
  BY <1>1, AcceptGood
<1>2. CASE \/ Pass(c) \/ UserCmd(c) \/ NickEmpty(c) \/ Answer(c)
           \/ \E n \in Nick : NickCmd(c, n)
           \/ \E o \in opers : Oper(c, o)
           \/ \E f \in UserModes, add \in BOOLEAN : ModeUser(c, f, add)
  BY <1>2, LoginGood
<1>3. CASE Undefined(c)
  BY <1>3, AllGone DEF Undefined
<1>4. CASE Restart(c) \/ Tick(c) \/ Ask(c)
  BY <1>4, ClientLoopGood
<1>6. CASE Blocks(c)
  <2>1. UNCHANGED <<on, cl, ch>> /\ PhaseGood'
    BY <1>6 DEF Blocks, BorisInv, PhaseGood
  <2> QED
    BY <2>1, StatusOnly
<1>5. CASE \E heirs \in Heirs : Quit(c, heirs) \/ Silence(c, heirs)
  BY <1>5, QuitGood DEF Silence
<1> QED
  BY <1>1, <1>2, <1>3, <1>4, <1>5, <1>6 DEF ClientStep
-----------------------------------------------------------------------------
(* The commands on channels.                                               *)
LEMMA ChannelIs ==
  ASSUME BorisInv, NEW n \in ChName
  PROVE  /\ ch[n] \in ChannelRec /\ ch[n].members \subseteq on
         /\ n \in chs <=> ch[n].members # {}
BY NoChannelIsRec DEF BorisInv, ChannelsGood, chs

LEMMA JoinNewGood ==
  ASSUME BorisInv, NEW c \in Cli, NEW n \in ChName, NEW k \in Key \cup {""}, JoinNew(c, n, k)
  PROVE  StepGood
<1> DEFINE q == NewChannel(c)
           r == [q EXCEPT !.key = k]
<1>1. /\ c \in on /\ n \notin chs /\ ch' = [ch EXCEPT ![n] = r]
      /\ cl' = [cl EXCEPT ![c] = Heard(c)] /\ UNCHANGED <<on, status, phase>>
  BY DEF JoinNew, Ready, Only
<1>2. q \in ChannelRec /\ q.members = {c}
  BY NewChannelIs
<1> HIDE DEF q
<1>3. r \in ChannelRec /\ r.members = {c}
  BY <1>2, KeyReplaced
<1> HIDE DEF r
<1>4. ch[n].members = {}
  BY <1>1, ChannelIs
<1>5. ClientChanges
  BY <1>1, OnlyHeard
<1>6. PhaseGood'
  BY <1>1 DEF BorisInv, PhaseGood
<1> QED
  BY <1>1, <1>3, <1>4, <1>5, <1>6, ChannelCommand, Zenon

LEMMA JoinOldGood ==
  ASSUME BorisInv, NEW c \in Cli, NEW n \in ChName, NEW k \in Key \cup {""}, JoinOld(c, n, k)
  PROVE  StepGood
<1> DEFINE I == IF "i" \in ch[n].flags THEN Heard(c).invited \ {n} ELSE Heard(c).invited
           M == IF isBanned(c, n) THEN ch[n].members ELSE ch[n].members \cup {c}
<1>1. /\ c \in on /\ n \in chs /\ ch' = [ch EXCEPT ![n] = [ch[n] EXCEPT !.members = M]]
      /\ cl' = [cl EXCEPT ![c] = [Heard(c) EXCEPT !.invited = I]]
      /\ UNCHANGED <<on, status, phase>>
  BY DEF JoinOld, Ready, Only
<1>2. I \in SUBSET ChName
  BY <1>1, HeardIs, ClientParts
<1>3. ch[n] \in ChannelRec /\ ch[n].members # {} /\ ch[n].members \in SUBSET Cli
  BY <1>1, ChannelIs, ChannelParts
<1>4. M \in SUBSET Cli /\ M # {} /\ (M = ch[n].members \/ M = ch[n].members \cup {c})
  BY <1>3
<1> HIDE DEF I, M
<1>5. /\ [Heard(c) EXCEPT !.invited = I] \in ClientRec
      /\ [Heard(c) EXCEPT !.invited = I].nick = cl[c].nick
  BY <1>1, <1>2, HeardIs, InvitedReplaced
<1>6. ClientChanges /\ PhaseGood'
  BY <1>1, <1>5, SameNick DEF BorisInv, PhaseGood
<1>7. [ch[n] EXCEPT !.members = M] \in ChannelRec /\ [ch[n] EXCEPT !.members = M].members = M
  BY <1>3, <1>4, MembersReplaced
<1> QED
  BY <1>1, <1>4, <1>6, <1>7, ChannelCommand

LEMMA PartGood ==
  ASSUME BorisInv, NEW c \in Cli, NEW n \in ChName, NEW heir \in Cli, Part(c, n, heir)
  PROVE  StepGood
<1> DEFINE r == Departed(ch[n], c, heir)
<1>1. /\ c \in on /\ IsHeir(heir, ch[n], c) /\ ch' = deleteEmptyChannel([ch EXCEPT ![n] = r])
      /\ cl' = [cl EXCEPT ![c] = Heard(c)] /\ UNCHANGED <<on, status, phase>>
  BY DEF Part, Ready, Only
<1>2. r \in ChannelRec /\ r.members = ch[n].members \ {c}
  BY <1>1, ChannelIs, DepartedIs
<1> HIDE DEF r
<1>3. /\ [ch EXCEPT ![n] = r] \in [ChName -> ChannelRec]
      /\ \A m \in ChName : [ch EXCEPT ![n] = r][m].members \subseteq ch[m].members
  BY <1>2 DEF BorisInv, ChannelsGood
<1>4. ClientChanges /\ PhaseGood'
  BY <1>1, OnlyHeard DEF BorisInv, PhaseGood
<1> QED
  BY <1>1, <1>3, <1>4, Leaving

LEMMA KickGood ==
  ASSUME BorisInv, NEW c \in Cli, NEW ns, NEW ts, Kick(c, ns, ts)
  PROVE  StepGood
<1> DEFINE f == [n \in ChName |-> IF n \in Reached(c, ns) THEN deleteClient(ch[n], Hit(n, ts))
                                                      ELSE ch[n]]
<1>1. /\ c \in on /\ ch' = deleteEmptyChannel(f) /\ phase' \in {"loop", "down"}
      /\ cl' = [cl EXCEPT ![c] = Heard(c)] /\ UNCHANGED <<on, status>>
  BY DEF Kick, Ready
<1>2. ASSUME NEW n \in ChName
      PROVE  f[n] \in ChannelRec /\ f[n].members \subseteq ch[n].members
  BY ChannelIs, deleteClientIs
<1>3. f \in [ChName -> ChannelRec]
  BY <1>2
<1> HIDE DEF f
<1>4. ClientChanges /\ PhaseGood'
  BY <1>1, OnlyHeard DEF BorisInv, PhaseGood
<1> QED
  BY <1>1, <1>2, <1>3, <1>4, Leaving

(* INVITE changes two Clients, or one of them twice.                       *)
LEMMA InviteGood ==
  ASSUME BorisInv, NEW c \in Cli, NEW n \in ChName, NEW w \in Nick, Invite(c, w, n)
  PROVE  StepGood
<1> DEFINE f == [cl EXCEPT ![c] = Heard(c)]
<1>1. c \in on /\ UNCHANGED <<on, ch, status, phase>>
  BY DEF Invite, Ready, Only
<1>2. PICK t \in on : cl' = [f EXCEPT ![t].invited = @ \cup {n}]
  BY DEF Invite, Named
<1>3. /\ f \in [Cli -> ClientRec] /\ (\A d \in Cli : f[d].nick = cl[d].nick)
      /\ (\A d \in Cli \ on : f[d] = NoClient) /\ t \in Cli
  BY <1>1, HeardIs DEF BorisInv, ClientsGood
<1> HIDE DEF f
<1> DEFINE I == f[t].invited \cup {n}
           q == [f[t] EXCEPT !.invited = I]
<1>4. cl' = [f EXCEPT ![t] = q]
  BY <1>2
<1>5. I \in SUBSET ChName
  BY <1>3, ClientParts
<1> HIDE DEF I
<1>6. q \in ClientRec /\ q.nick = cl[t].nick
  BY <1>3, <1>5, InvitedReplaced
<1> HIDE DEF q
<1>7. /\ cl' \in [Cli -> ClientRec] /\ (\A d \in Cli : cl'[d].nick = cl[d].nick)
      /\ (\A d \in Cli \ on : cl'[d] = NoClient)
  BY <1>3, <1>4, <1>6
<1>8. ClientsGood' /\ ChannelsGood' /\ PhaseGood'
  BY <1>1, <1>7 DEF BorisInv, ClientsGood, ChannelsGood, PhaseGood
<1>9. NickUnique'
  <2>1. \A d \in on : cl'[d].nick = cl[d].nick
    BY <1>7 DEF BorisInv, ClientsGood
  <2> QED
    BY <1>1, <2>1, NicksKept DEF BorisInv
<1> QED
  BY <1>1, <1>8, <1>9, StaysTheSame DEF StepGood, BorisInv, In

(* TOPIC and MODE: the members stay.                                       *)
LEMMA MemberGood ==
  ASSUME BorisInv, NEW c \in Cli, NEW n \in ChName, Member(c, n), NEW r \in ChannelRec,
         r.members = ch[n].members, ch' = [ch EXCEPT ![n] = r]
  PROVE  StepGood
<1>1. /\ c \in on /\ r.members # {} /\ cl' = [cl EXCEPT ![c] = Heard(c)]
      /\ UNCHANGED <<on, status, phase>>
  BY DEF Member, Ready, Only
<1>2. ClientChanges /\ PhaseGood'
  BY <1>1, OnlyHeard DEF BorisInv, PhaseGood
<1> QED
  BY <1>1, <1>2, ChannelCommand

LEMMA TopicGood ==
  ASSUME BorisInv, NEW c \in Cli, NEW n \in ChName, NEW t \in Topic, TopicCmd(c, n, t)
  PROVE  StepGood
<1>1. Member(c, n) /\ ch' = [ch EXCEPT ![n] = [ch[n] EXCEPT !.topic = t]]
  BY DEF TopicCmd
<1>2. ch[n] \in ChannelRec /\ t \in Topic \cup {""}
  BY ChannelIs
<1> QED
  BY <1>1, <1>2, TopicReplaced, MemberGood

LEMMA ModeFlagGood ==
  ASSUME BorisInv, NEW c \in Cli, NEW n \in ChName, NEW f \in Flag, NEW add \in BOOLEAN,
         ModeFlag(c, n, f, add)
  PROVE  StepGood
<1> DEFINE F == IF add THEN ch[n].flags \cup {f} ELSE ch[n].flags \ {f}
<1>1. Member(c, n) /\ ch' = [ch EXCEPT ![n] = [ch[n] EXCEPT !.flags = F]]
  BY DEF ModeFlag
<1>2. ch[n] \in ChannelRec /\ F \in SUBSET Flag
  BY ChannelIs, ChannelParts
<1> HIDE DEF F
<1> QED
  BY <1>1, <1>2, FlagReplaced, MemberGood

LEMMA ModeKeyGood ==
  ASSUME BorisInv, NEW c \in Cli, NEW n \in ChName, NEW k \in Key, ModeKey(c, n, k)
  PROVE  StepGood
<1>1. Member(c, n) /\ ch' = [ch EXCEPT ![n] = [ch[n] EXCEPT !.key = k]]
  BY DEF ModeKey
<1>2. ch[n] \in ChannelRec /\ k \in Key \cup {""}
  BY ChannelIs
<1> QED
  BY <1>1, <1>2, KeyReplaced, MemberGood

LEMMA ModeLimitGood ==
  ASSUME BorisInv, NEW c \in Cli, NEW n \in ChName, NEW l \in Number \cup {UMAX},
         ModeLimit(c, n, l)
  PROVE  StepGood
<1> DEFINE u == l % (UMAX + 1)
<1>1. Member(c, n) /\ ch' = [ch EXCEPT ![n] = [ch[n] EXCEPT !.limit = u]]
  BY DEF ModeLimit
<1>2. u \in 0 .. UMAX
  <2>1. UMAX \in Nat /\ Number \subseteq Int
    BY BorisAssumption
  <2>2. l \in Int
    BY <2>1
  <2> QED
    BY <2>1, <2>2
<1> HIDE DEF u
<1>3. ch[n] \in ChannelRec
  BY ChannelIs
<1> QED
  BY <1>1, <1>2, <1>3, LimitReplaced, MemberGood

LEMMA ModeBanGood ==
  ASSUME BorisInv, NEW c \in Cli, NEW n \in ChName, NEW m \in Mask, NEW add \in BOOLEAN,
         ModeBan(c, n, m, add)
  PROVE  StepGood
<1> DEFINE x == ch[n].ban[m]
           f == [ch[n].ban EXCEPT ![m] = IF add THEN x + 1 ELSE IF x > 0 THEN x - 1 ELSE 0]
<1>1. Member(c, n) /\ ch' = [ch EXCEPT ![n] = [ch[n] EXCEPT !.ban = f]] /\ (add => x < MaxEntries)
  BY DEF ModeBan
<1>2. ch[n] \in ChannelRec /\ ch[n].ban \in [Mask -> 0 .. MaxEntries]
  BY ChannelIs, ChannelParts
<1>3. f \in [Mask -> 0 .. MaxEntries]
  <2>1. MaxEntries \in Nat /\ x \in 0 .. MaxEntries
    BY <1>2, BorisAssumption
  <2> QED
    BY <1>1, <1>2, <2>1, OneMoreOrLess
<1> HIDE DEF f
<1> QED
  BY <1>1, <1>2, <1>3, BanReplaced, MemberGood

LEMMA ModeOperGood ==
  ASSUME BorisInv, NEW c \in Cli, NEW n \in ChName, NEW w \in Name, NEW add \in BOOLEAN,
         ModeOper(c, n, w, add)
  PROVE  StepGood
<1>1. PICK t \in Named(w) :
        /\ add => ch[n].oper[t] < MaxOpers
        /\ ch' = [ch EXCEPT ![n].oper[t] = IF add THEN @ + 1 ELSE IF @ > 0 THEN @ - 1 ELSE 0]
  BY DEF ModeOper
<1> DEFINE x == ch[n].oper[t]
           f == [ch[n].oper EXCEPT ![t] = IF add THEN x + 1 ELSE IF x > 0 THEN x - 1 ELSE 0]
<1>2. Member(c, n) /\ ch' = [ch EXCEPT ![n] = [ch[n] EXCEPT !.oper = f]] /\ (add => x < MaxOpers)
  BY <1>1 DEF ModeOper
<1>3. ch[n] \in ChannelRec /\ ch[n].oper \in [Addr -> 0 .. MaxOpers] /\ t \in Addr
  BY ChannelIs, ChannelParts DEF Named, Addr, BorisInv, ClientsGood
<1>4. f \in [Addr -> 0 .. MaxOpers]
  <2>1. MaxOpers \in Nat /\ x \in 0 .. MaxOpers
    BY <1>3, BorisAssumption
  <2> QED
    BY <1>2, <1>3, <2>1, OneMoreOrLess
<1> HIDE DEF f
<1> QED
  BY <1>2, <1>3, <1>4, OperReplaced, MemberGood

LEMMA ModeSpeakGood ==
  ASSUME BorisInv, NEW c \in Cli, NEW n \in ChName, NEW w \in Name, NEW add \in BOOLEAN,
         ModeSpeak(c, n, w, add)
  PROVE  StepGood
<1>1. PICK t \in Named(w) :
        /\ add => ch[n].speaker[t] < MaxEntries
        /\ ch' = [ch EXCEPT ![n].speaker[t] = IF add THEN @ + 1 ELSE IF @ > 0 THEN @ - 1 ELSE 0]
  BY DEF ModeSpeak
<1> DEFINE x == ch[n].speaker[t]
           f == [ch[n].speaker EXCEPT ![t] = IF add THEN x + 1 ELSE IF x > 0 THEN x - 1 ELSE 0]
<1>2. Member(c, n) /\ ch' = [ch EXCEPT ![n] = [ch[n] EXCEPT !.speaker = f]]
      /\ (add => x < MaxEntries)
  BY <1>1 DEF ModeSpeak
<1>3. ch[n] \in ChannelRec /\ ch[n].speaker \in [Addr -> 0 .. MaxEntries] /\ t \in Addr
  BY ChannelIs, ChannelParts DEF Named, Addr, BorisInv, ClientsGood
<1>4. f \in [Addr -> 0 .. MaxEntries]
  <2>1. MaxEntries \in Nat /\ x \in 0 .. MaxEntries
    BY <1>3, BorisAssumption
  <2> QED
    BY <1>2, <1>3, <2>1, OneMoreOrLess
<1> HIDE DEF f
<1> QED
  BY <1>2, <1>3, <1>4, SpeakerReplaced, MemberGood

LEMMA ChannelStepGood ==
  ASSUME BorisInv, NEW c \in Cli, NEW n \in ChName, ChannelStep(c, n)
  PROVE  StepGood
<1>1. CASE \E k \in Key \cup {""} : JoinNew(c, n, k) \/ JoinOld(c, n, k)
  BY <1>1, JoinNewGood, JoinOldGood
<1>2. CASE \E h \in Cli : Part(c, n, h)
  BY <1>2, PartGood
<1>3. CASE \E w \in Nick : Invite(c, w, n)
  BY <1>3, InviteGood
<1>4. CASE \E t \in Topic : TopicCmd(c, n, t)
  BY <1>4, TopicGood
<1>5. CASE ModeChannel(c, n)
  <2>1. CASE \E f \in Flag, add \in BOOLEAN : ModeFlag(c, n, f, add)
    BY <2>1, ModeFlagGood
  <2>2. CASE \E k \in Key : ModeKey(c, n, k)
    BY <2>2, ModeKeyGood
  <2>3. CASE \E l \in Number \cup {UMAX} : ModeLimit(c, n, l)
    BY <2>3, ModeLimitGood
  <2>4. CASE \E m \in Mask, add \in BOOLEAN : ModeBan(c, n, m, add)
    BY <2>4, ModeBanGood
  <2>5. CASE \E w \in Name, add \in BOOLEAN : ModeOper(c, n, w, add) \/ ModeSpeak(c, n, w, add)
    BY <2>5, ModeOperGood, ModeSpeakGood
  <2> QED
    BY <1>5, <2>1, <2>2, <2>3, <2>4, <2>5 DEF ModeChannel
<1> QED
  BY <1>1, <1>2, <1>3, <1>4, <1>5 DEF ChannelStep
-----------------------------------------------------------------------------
LEMMA EveryStepGood == BorisInv /\ [Next]_vars => StepGood
<1> SUFFICES ASSUME BorisInv, [Next]_vars
             PROVE  StepGood
  OBVIOUS
<1>1. CASE \E c \in Cli, ns \in Lists, ts \in Targets : Kick(c, ns, ts)
  BY <1>1, KickGood
<1>2. CASE LoopEnd
  BY <1>2, AllGone DEF LoopEnd
<1>3. CASE (\E s \in Signals : Interrupt(s)) \/ Unblocks \/ Boot \/ UNCHANGED vars
  <2>1. UNCHANGED <<on, cl, ch>> /\ PhaseGood'
    BY <1>3 DEF Interrupt, Unblocks, Boot, vars, BorisInv, PhaseGood
  <2> QED
    BY <2>1, StatusOnly
<1> QED
  BY <1>1, <1>2, <1>3, ClientStepGood, ChannelStepGood DEF Next

LEMMA BorisInit == Init => BorisInv
BY NoClientIsRec, NoChannelIsRec
   DEF Init, BorisInv, ClientsGood, NickUnique, ChannelsGood, PhaseGood

LEMMA Invariant == Spec => []BorisInv
<1>1. BorisInv /\ [Next]_vars => BorisInv'
  BY EveryStepGood DEF StepGood
<1> QED
  BY <1>1, BorisInit, PTL DEF Spec

(* The states of boris are well formed (TypeOK): an operator who leaves    *)
(* and a list of operators that keeps addresses do not spoil its counts.   *)
THEOREM BorisTypeCorrect == Spec => []TypeOK
BY Invariant, InvIsTypeOK, PTL

(* A nickname is of one client, whatever the case, and never the server's  *)
(* (NickUnique).                                                           *)
THEOREM BorisNicksDiffer == Spec => []NickUnique
<1>1. BorisInv => NickUnique
  BY DEF BorisInv
<1> QED
  BY <1>1, Invariant, PTL

(* Every command, silence and restart of boris is a step of Membership or  *)
(* changes nothing of it (RoomsSpec).                                      *)
THEOREM BorisKeepsRooms == Spec => RoomsSpec
<1>1. Init => Rooms!Init
  BY NoChannelIsRec DEF Init, Rooms!Init
<1>2. BorisInv /\ [Next]_vars => [Rooms!Next]_Rooms!vars
  BY EveryStepGood DEF StepGood, RoomsStep
<1> QED
  BY <1>1, <1>2, Invariant, PTL DEF Spec, RoomsSpec, Rooms!Spec

(* ... so nobody is on a channel of boris who is not connected.            *)
THEOREM BorisMembersConnected == Spec => []Rooms!Inside
<1>1. BorisInv => Rooms!Inside
  BY DEF BorisInv, ChannelsGood, Rooms!Inside
<1> QED
  BY <1>1, Invariant, PTL
=============================================================================
