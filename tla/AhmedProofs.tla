----------------------------- MODULE AhmedProofs -----------------------------
(***************************************************************************)
(* The server of AhmedFatir, for any number of descriptors, nicknames,     *)
(* channels and mode strings: nicknames are unique although clients are    *)
(* renamed at any time, the login is noticed whichever command ends it,    *)
(* and the copies on a channel keep different nicknames although they are  *)
(* not renamed and not always removed.                                     *)
(***************************************************************************)
EXTENDS Ahmed, ListLemmas

(* The Clients, as far as TypeOK is about them.                            *)
ClientsOK ==
  /\ clients \subseteq Fd /\ cl \in [Fd -> ClientRec]
  /\ \A c \in Fd \ clients : cl[c] = NoClient

(* Before PASS there is no USER, so that PASS never ends a login: it is    *)
(* the one command of the three that does not look whether it does.        *)
PassFirst == \A c \in clients : ~cl[c].registered => ~cl[c].user

AhmedInv == ClientsOK /\ PassFirst /\ NickUnique /\ LoginComplete

LEMMA ClientParts ==
  ASSUME NEW r \in ClientRec
  PROVE  /\ r.nick \in Nick \cup {"", "*"} /\ r.user \in BOOLEAN
         /\ r.registered \in BOOLEAN /\ r.logedin \in BOOLEAN
         /\ r.invites \in [ChName -> 0 .. MaxInvites]
BY Zenon DEF ClientRec

LEMMA NoClientIsRec ==
  /\ NoClient \in ClientRec /\ NoClient.nick = "" /\ ~NoClient.user
  /\ ~NoClient.registered /\ ~NoClient.logedin
<1>1. [n \in ChName |-> 0] \in [ChName -> 0 .. MaxInvites]
  <2>1. MaxInvites \in Nat
    BY AhmedAssumption
  <2> QED
    BY <2>1
<1>2. NoClient \in ClientRec
  BY <1>1, Zenon DEF NoClient, ClientRec
<1> QED
  BY <1>2 DEF NoClient

(* The records that the commands make of a client's.                       *)
LEMMA Authenticated ==
  ASSUME NEW r \in ClientRec
  PROVE  LET q == [r EXCEPT !.registered = TRUE]
         IN  /\ q \in ClientRec /\ q.nick = r.nick /\ q.user = r.user
             /\ q.registered = TRUE /\ q.logedin = r.logedin
BY Zenon DEF ClientRec

LEMMA Starred ==
  ASSUME NEW r \in ClientRec
  PROVE  LET q == [r EXCEPT !.nick = "*"]
         IN  /\ q \in ClientRec /\ q.nick = "*" /\ q.user = r.user
             /\ q.registered = r.registered /\ q.logedin = r.logedin
BY Zenon DEF ClientRec

LEMMA UserNamed ==
  ASSUME NEW r \in ClientRec, NEW b \in BOOLEAN
  PROVE  LET q == [r EXCEPT !.user = TRUE, !.logedin = b]
         IN  /\ q \in ClientRec /\ q.nick = r.nick /\ q.user = TRUE
             /\ q.registered = r.registered /\ q.logedin = b
BY Zenon DEF ClientRec

LEMMA Invited ==
  ASSUME NEW r \in ClientRec, NEW v \in [ChName -> 0 .. MaxInvites]
  PROVE  LET q == [r EXCEPT !.invites = v]
         IN  /\ q \in ClientRec /\ q.nick = r.nick /\ q.user = r.user
             /\ q.registered = r.registered /\ q.logedin = r.logedin
BY Zenon DEF ClientRec
-----------------------------------------------------------------------------
(* What is asked of a record that replaces the one of c.                   *)
Fits(c, q) ==
  /\ q \in ClientRec
  /\ ~q.registered => ~q.user
  /\ q.nick \in {cl[c].nick, "", "*"} \/ ~nickNameInUse(q.nick)
  /\ q.logedin => q.registered /\ q.user /\ q.nick # ""
  /\ q.registered /\ q.user /\ q.nick \notin {"", "*"} => q.logedin

LEMMA OneChanges ==
  ASSUME AhmedInv, NEW c \in clients, NEW q, Fits(c, q),
         cl' = [cl EXCEPT ![c] = q], UNCHANGED clients
  PROVE  AhmedInv'
<1>1. c \in Fd /\ cl'[c] = q /\ \A d \in Fd \ {c} : cl'[d] = cl[d]
  BY DEF AhmedInv, ClientsOK
<1>2. ClientsOK'
  BY <1>1 DEF AhmedInv, ClientsOK, Fits
<1>3. PassFirst' /\ LoginComplete'
  BY <1>1 DEF AhmedInv, ClientsOK, Fits, PassFirst, LoginComplete
<1>4. NickUnique'
  <2>1. \A d \in clients \ {c} : d \in Fd /\ cl'[d] = cl[d]
    BY <1>1 DEF AhmedInv, ClientsOK
  <2>2. \A d \in clients \ {c} : q.nick \in {"", "*"} \/ cl[d].nick # q.nick
    <3>1. CASE q.nick = cl[c].nick
      BY <3>1 DEF AhmedInv, NickUnique
    <3>2. CASE q.nick # cl[c].nick
      BY <3>2 DEF Fits, nickNameInUse
    <3> QED
      BY <3>1, <3>2
  <2>3. \A d, e \in clients \ {c} : cl[d].nick = cl[e].nick /\ cl[d].nick \notin {"", "*"} => d = e
    BY DEF AhmedInv, NickUnique
  <2>4. SUFFICES ASSUME NEW d \in clients, NEW e \in clients, cl'[d].nick = cl'[e].nick,
                        cl'[d].nick \notin {"", "*"}
                 PROVE  d = e
    BY DEF NickUnique
  <2>5. CASE d # c /\ e # c
    BY <2>1, <2>3, <2>4, <2>5
  <2>6. CASE d = c \/ e = c
    BY <1>1, <2>1, <2>2, <2>4, <2>6
  <2> QED
    BY <2>5, <2>6
<1> QED
  BY <1>2, <1>3, <1>4 DEF AhmedInv

(* A record with the same names and the same progress fits.                *)
LEMMA SameFits ==
  ASSUME AhmedInv, NEW c \in clients, NEW q \in ClientRec, q.nick = cl[c].nick,
         q.user = cl[c].user, q.registered = cl[c].registered, q.logedin = cl[c].logedin
  PROVE  Fits(c, q)
BY DEF AhmedInv, PassFirst, LoginComplete, Fits

LEMMA RecordIs ==
  ASSUME AhmedInv, NEW c \in clients
  PROVE  c \in Fd /\ cl[c] \in ClientRec
BY DEF AhmedInv, ClientsOK

LEMMA NothingChanges ==
  ASSUME AhmedInv, UNCHANGED <<clients, cl>>
  PROVE  AhmedInv'
BY DEF AhmedInv, ClientsOK, PassFirst, NickUnique, LoginComplete

LEMMA OneRemoved ==
  ASSUME AhmedInv, NEW c \in clients, RemoveClient(c)
  PROVE  AhmedInv'
<1>1. clients' = clients \ {c} /\ cl' = [cl EXCEPT ![c] = NoClient]
  BY DEF RemoveClient
<1>2. ClientsOK'
  BY <1>1, NoClientIsRec DEF AhmedInv, ClientsOK
<1>3. \A d \in clients' : d \in clients /\ cl'[d] = cl[d]
  BY <1>1 DEF AhmedInv, ClientsOK
<1>4. PassFirst' /\ NickUnique'
  BY <1>3 DEF AhmedInv, PassFirst, NickUnique
<1>5. LoginComplete'
  BY <1>3 DEF AhmedInv, LoginComplete
<1> QED
  BY <1>2, <1>4, <1>5 DEF AhmedInv

LEMMA AllRemoved ==
  ASSUME Down
  PROVE  AhmedInv'
<1>1. clients' = {} /\ cl' = [c \in Fd |-> NoClient]
  BY DEF Down
<1> QED
  BY <1>1, NoClientIsRec DEF AhmedInv, ClientsOK, PassFirst, NickUnique, LoginComplete
-----------------------------------------------------------------------------
LEMMA ClientStepKeeps ==
  ASSUME AhmedInv, NEW c \in Fd, ClientStep(c)
  PROVE  AhmedInv'
<1>1. CASE accept_new_client(c)
  <2>1. c \notin clients /\ clients' = clients \cup {c} /\ cl' = cl /\ cl[c] = NoClient
    BY <1>1 DEF accept_new_client, AhmedInv, ClientsOK
  <2> QED
    BY <2>1, NoClientIsRec DEF AhmedInv, ClientsOK, PassFirst, NickUnique, LoginComplete
<1>2. CASE client_authen(c)
  <2> DEFINE q == [cl[c] EXCEPT !.registered = TRUE]
  <2>1. c \in clients /\ ~cl[c].registered /\ cl' = [cl EXCEPT ![c] = q] /\ UNCHANGED clients
    BY <1>2 DEF client_authen
  <2>2. q \in ClientRec /\ q.nick = cl[c].nick /\ q.user = cl[c].user
        /\ q.registered = TRUE /\ q.logedin = cl[c].logedin
    BY <2>1, RecordIs, Authenticated
  <2> HIDE DEF q
  <2>3. Fits(c, q)
    BY <2>1, <2>2 DEF Fits, AhmedInv, PassFirst, LoginComplete
  <2> QED
    BY <2>1, <2>3, OneChanges
<1>3. CASE set_username(c)
  <2> DEFINE b == cl[c].logedin \/ cl[c].nick \notin {"", "*"}
             q == [cl[c] EXCEPT !.user = TRUE, !.logedin = b]
  <2>1. /\ c \in clients /\ cl[c].registered
        /\ cl' = [cl EXCEPT ![c].user = TRUE, ![c].logedin = @ \/ cl[c].nick \notin {"", "*"}]
        /\ UNCHANGED clients
    BY <1>3 DEF set_username
  <2>2. cl' = [cl EXCEPT ![c] = q]
    BY <2>1, RecordIs, Zenon DEF AhmedInv, ClientsOK, ClientRec
  <2>3. b \in BOOLEAN
    BY <2>1, RecordIs, ClientParts, Zenon
  <2>4. cl[c].logedin => cl[c].nick # ""
    BY <2>1 DEF AhmedInv, LoginComplete
  <2>5. b => cl[c].nick # ""
    BY <2>4, Zenon
  <2>6. cl[c].nick \notin {"", "*"} => b
    OBVIOUS
  <2> HIDE DEF b
  <2>7. cl[c] \in ClientRec
    BY <2>1, RecordIs
  <2>8. q \in ClientRec /\ q.nick = cl[c].nick /\ q.user = TRUE
        /\ q.registered = cl[c].registered /\ q.logedin = b
    BY <2>3, <2>7, UserNamed, Zenon
  <2> HIDE DEF q
  <2>9. Fits(c, q)
    BY <2>1, <2>5, <2>6, <2>8 DEF Fits
  <2> QED
    BY <2>1, <2>2, <2>9, OneChanges
<1>4. ASSUME NEW w \in Nick \cup {"*"}, NickTaken(c, w)
      PROVE  AhmedInv'
  <2> DEFINE q == [cl[c] EXCEPT !.nick = "*"]
  <2>1. c \in clients /\ cl[c].nick = "" /\ cl' = [cl EXCEPT ![c] = q] /\ UNCHANGED clients
    BY <1>4 DEF NickTaken
  <2>2. q \in ClientRec /\ q.nick = "*" /\ q.user = cl[c].user
        /\ q.registered = cl[c].registered /\ q.logedin = cl[c].logedin
    BY <2>1, RecordIs, Starred
  <2> HIDE DEF q
  <2>3. Fits(c, q)
    BY <2>1, <2>2 DEF Fits, AhmedInv, PassFirst, LoginComplete
  <2> QED
    BY <2>1, <2>3, OneChanges
<1>5. ASSUME NEW w \in Nick \cup {"*"}, set_nickname(c, w)
      PROVE  AhmedInv'
  <2> DEFINE b == LoginByNick(cl[c], w)
             q == [cl[c] EXCEPT !.logedin = b, !.nick = w]
  <2>1. /\ c \in clients /\ cl[c].registered /\ (nickNameInUse(w) => cl[c].nick = w)
        /\ cl' = [cl EXCEPT ![c].logedin = b, ![c].nick = w]
        /\ UNCHANGED clients
    BY <1>5 DEF set_nickname
  <2>2. cl' = [cl EXCEPT ![c] = q]
    BY <2>1, RecordIs, Zenon DEF AhmedInv, ClientsOK, ClientRec
  <2>3. /\ cl[c].nick \in Nick \cup {"", "*"} /\ cl[c].user \in BOOLEAN
        /\ cl[c].logedin \in BOOLEAN
    BY <2>1, RecordIs, ClientParts
  <2>4. b \in BOOLEAN
    BY <2>3, Zenon DEF LoginByNick
  <2>5. /\ cl[c].logedin => cl[c].user
        /\ cl[c].user /\ cl[c].nick \notin {"", "*"} => cl[c].logedin
    BY <2>1 DEF AhmedInv, LoginComplete
  <2>6. b => cl[c].user
    BY <2>5, Zenon DEF LoginByNick
  <2>7. cl[c].user /\ w # "*" => b
    BY <2>5, Zenon DEF LoginByNick
  <2> HIDE DEF b
  <2>8. q \in ClientRec /\ q.nick = w /\ q.user = cl[c].user
        /\ q.registered = cl[c].registered /\ q.logedin = b
    <3>1. w \in Nick \cup {"", "*"} /\ cl[c] \in ClientRec
      BY <2>1, RecordIs
    <3> QED
      BY <2>4, <3>1, Zenon DEF ClientRec
  <2> HIDE DEF q
  <2>9. w # ""
    BY AhmedAssumption
  <2>10. Fits(c, q)
    BY <2>1, <2>6, <2>7, <2>8, <2>9 DEF Fits
  <2> QED
    BY <2>1, <2>2, <2>10, OneChanges
<1>6. CASE TooManyKeys(c) \/ QuitThenPass(c)
  BY <1>6, AllRemoved DEF TooManyKeys, QuitThenPass
<1>7. CASE Hangup(c) \/ Quit(c)
  BY <1>7, OneRemoved DEF Hangup, Quit
<1> QED
  BY <1>1, <1>2, <1>3, <1>4, <1>5, <1>6, <1>7 DEF ClientStep

(* On channels a client gains and loses invitations and nothing else.      *)
LEMMA InvitesChange ==
  ASSUME AhmedInv, NEW t \in clients, NEW n \in ChName, NEW x \in 0 .. MaxInvites,
         cl' = [cl EXCEPT ![t].invites[n] = x], UNCHANGED clients
  PROVE  AhmedInv'
<1> DEFINE v == [cl[t].invites EXCEPT ![n] = x]
           q == [cl[t] EXCEPT !.invites = v]
<1>1. cl[t] \in ClientRec /\ cl' = [cl EXCEPT ![t] = q]
  BY RecordIs
<1>2. v \in [ChName -> 0 .. MaxInvites]
  BY <1>1, ClientParts
<1> HIDE DEF v
<1>3. q \in ClientRec /\ q.nick = cl[t].nick /\ q.user = cl[t].user
      /\ q.registered = cl[t].registered /\ q.logedin = cl[t].logedin
  BY <1>1, <1>2, Invited
<1> HIDE DEF q
<1> QED
  BY <1>1, <1>3, SameFits, OneChanges

LEMMA InvitesOf ==
  ASSUME AhmedInv, NEW t \in clients, NEW n \in ChName
  PROVE  /\ cl[t].invites[n] \in 0 .. MaxInvites
         /\ cl[t].invites[n] > 0 => cl[t].invites[n] - 1 \in 0 .. MaxInvites
         /\ cl[t].invites[n] < MaxInvites => cl[t].invites[n] + 1 \in 0 .. MaxInvites
<1>1. cl[t].invites[n] \in 0 .. MaxInvites
  BY RecordIs, ClientParts
<1>2. MaxInvites \in Nat
  BY AhmedAssumption
<1> QED
  BY <1>1, <1>2

LEMMA ChannelStepKeeps ==
  ASSUME AhmedInv, NEW c \in Fd, NEW n \in ChName, ChannelStep(c, n)
  PROVE  AhmedInv'
<1>1. CASE NotExistCh(c, n) \/ \E ms \in ModeCmds : mode_command(c, n, ms)
  BY <1>1, NothingChanges DEF NotExistCh, mode_command
<1>2. ASSUME NEW k \in Key \cup {""}, ExistCh(c, n, k)
      PROVE  AhmedInv'
  <2>1. c \in clients /\ UNCHANGED clients
    BY <1>2 DEF ExistCh, Ready
  <2>2. cl[c].invites[n] \in 0 .. MaxInvites
    BY <2>1, InvitesOf
  <2>3. CASE Chan(n).invite
    <3>1. cl[c].invites[n] - 1 \in 0 .. MaxInvites
      BY <1>2, <2>1, <2>3, InvitesOf DEF ExistCh, Joinable
    <3>2. cl' = [cl EXCEPT ![c].invites[n] = cl[c].invites[n] - 1]
      BY <1>2, <2>3 DEF ExistCh
    <3> QED
      BY <2>1, <3>1, <3>2, InvitesChange
  <2>4. CASE ~Chan(n).invite
    <3>1. cl' = [cl EXCEPT ![c].invites[n] = cl[c].invites[n]]
      BY <1>2, <2>4 DEF ExistCh
    <3> QED
      BY <2>1, <2>2, <3>1, InvitesChange
  <2> QED
    BY <2>3, <2>4
<1>3. CASE Part(c, n)
  BY <1>3, NothingChanges, AllRemoved DEF Part
<1>4. ASSUME NEW w \in Nick \cup {"*"}, Invite(c, w, n)
      PROVE  AhmedInv'
  <2>1. CASE Down
    BY <2>1, AllRemoved
  <2>2. CASE ~Down
    <3>1. PICK t \in clients : /\ cl[t].invites[n] < MaxInvites
                               /\ cl' = [cl EXCEPT ![t].invites[n] = @ + 1]
                               /\ UNCHANGED clients
      BY <1>4, <2>2 DEF Invite
    <3>2. cl[t].invites[n] + 1 \in 0 .. MaxInvites
      BY <3>1, InvitesOf
    <3> QED
      BY <3>1, <3>2, InvitesChange
  <2> QED
    BY <2>1, <2>2
<1>5. ASSUME NEW w \in Nick, NEW i \in Position, Kick(c, n, w, i)
      PROVE  AhmedInv'
  BY <1>5, NothingChanges, AllRemoved DEF Kick
<1>6. ASSUME NEW t \in Topic, TopicCmd(c, n, t)
      PROVE  AhmedInv'
  BY <1>6, NothingChanges DEF TopicCmd
<1> QED
  BY <1>1, <1>2, <1>3, <1>4, <1>5, <1>6 DEF ChannelStep
-----------------------------------------------------------------------------
(* The copies on a channel, and what finds and removes them.               *)

Copies == Seq(Copy)

ChannelRec == [name : ChName, clients : Copies, admins : Copies, invite : BOOLEAN,
               topicOps : BOOLEAN, key : Key \cup {""}, limit : Limit \cup {0},
               topic : Topic \cup {""}]

Differ(s) == \A j, k \in 1 .. Len(s) : s[j].nick = s[k].nick => j = k
Apart(s, t) == \A j \in 1 .. Len(s), k \in 1 .. Len(t) : s[j].nick # t[k].nick
Among(t, s) == \A k \in 1 .. Len(t) : \E j \in 1 .. Len(s) : t[k] = s[j]

(* A channel whose copies all have different nicknames.                    *)
Good(h) == /\ h \in ChannelRec
           /\ Differ(h.clients) /\ Differ(h.admins) /\ Apart(h.clients, h.admins)

LEMMA CopiesAre ==
  ASSUME NEW s \in Copies
  PROVE  Len(s) \in Nat /\ \A i \in 1 .. Len(s) : s[i] \in Copy
BY LenProperties, ElementOfSeq DEF Copies

LEMMA FoundByFd ==
  ASSUME NEW s \in Copies, NEW f
  PROVE  /\ byFd(s, f) \in 0 .. Len(s)
         /\ byFd(s, f) # 0 => byFd(s, f) \in 1 .. Len(s)
<1> DEFINE I == {i \in 1 .. Len(s) : s[i].fd = f}
<1>1. byFd(s, f) = IF I # {} THEN Min(I) ELSE 0
  BY DEF byFd, SelectInSeq
<1>2. I \in SUBSET Nat /\ Len(s) \in Nat
  BY CopiesAre
<1>3. I # {} => Min(I) \in I
  <2> HIDE DEF I
  <2> QED
    BY <1>2, MinIsLeast
<1> QED
  BY <1>1, <1>2, <1>3

LEMMA FoundByNick ==
  ASSUME NEW s \in Copies, NEW w
  PROVE  /\ byNick(s, w) \in 0 .. Len(s)
         /\ byNick(s, w) # 0 => byNick(s, w) \in 1 .. Len(s)
         /\ byNick(s, w) = 0 => \A i \in 1 .. Len(s) : s[i].nick # w
<1> DEFINE I == {i \in 1 .. Len(s) : s[i].nick = w}
<1>1. byNick(s, w) = IF I # {} THEN Min(I) ELSE 0
  BY DEF byNick, SelectInSeq
<1>2. I \in SUBSET Nat /\ Len(s) \in Nat
  BY CopiesAre
<1>3. I # {} => Min(I) \in I
  <2> HIDE DEF I
  <2> QED
    BY <1>2, MinIsLeast
<1>4. I # {} => Min(I) # 0
  BY <1>2, <1>3
<1> QED
  BY <1>1, <1>2, <1>3, <1>4

(* Erasing one copy leaves the others as they are.                         *)
LEMMA Erased ==
  ASSUME NEW s \in Copies, NEW i \in 1 .. Len(s)
  PROVE  LET t == RemoveAt(s, i)
         IN  /\ t \in Copies /\ Among(t, s)
             /\ Differ(s) => Differ(t) /\ \A k \in 1 .. Len(t) : t[k].nick # s[i].nick
<1> DEFINE t == RemoveAt(s, i)
<1>1. Len(s) \in Nat
  BY CopiesAre
<1>2. /\ t \in Copies /\ Len(t) = Len(s) - 1
      /\ \A j \in 1 .. Len(t) : t[j] = IF j < i THEN s[j] ELSE s[j + 1]
  BY Removed DEF Copies
<1> HIDE DEF t
<1>3. ASSUME NEW j \in 1 .. Len(t)
      PROVE  j \in 1 .. Len(s) /\ j + 1 \in 1 .. Len(s)
  BY <1>1, <1>2
<1>4. Among(t, s)
  BY <1>2, <1>3 DEF Among
<1>5. ASSUME Differ(s), NEW j \in 1 .. Len(t), NEW k \in 1 .. Len(t), t[j].nick = t[k].nick
      PROVE  j = k
  <2>1. /\ j \in 1 .. Len(s) /\ j + 1 \in 1 .. Len(s)
        /\ k \in 1 .. Len(s) /\ k + 1 \in 1 .. Len(s)
    BY <1>3
  <2>2. CASE j < i /\ k < i
    BY <1>2, <1>5, <2>1, <2>2 DEF Differ
  <2>3. CASE ~(j < i) /\ ~(k < i)
    <3>1. s[j + 1].nick = s[k + 1].nick
      BY <1>2, <1>5, <2>3
    <3>2. j + 1 = k + 1
      BY <1>5, <2>1, <3>1 DEF Differ
    <3> QED
      BY <3>2
  <2>4. CASE j < i /\ ~(k < i)
    <3>1. s[j].nick = s[k + 1].nick
      BY <1>2, <1>5, <2>4
    <3>2. j = k + 1
      BY <1>5, <2>1, <3>1 DEF Differ
    <3> QED
      BY <2>4, <3>2
  <2>5. CASE ~(j < i) /\ k < i
    <3>1. s[j + 1].nick = s[k].nick
      BY <1>2, <1>5, <2>5
    <3>2. j + 1 = k
      BY <1>5, <2>1, <3>1 DEF Differ
    <3> QED
      BY <2>5, <3>2
  <2> QED
    BY <2>2, <2>3, <2>4, <2>5
<1>6. Differ(s) => Differ(t)
  BY <1>5 DEF Differ
<1>7. ASSUME Differ(s), NEW k \in 1 .. Len(t)
      PROVE  t[k].nick # s[i].nick
  BY <1>2, <1>3, <1>7 DEF Differ
<1> QED
  BY <1>2, <1>4, <1>6, <1>7 DEF t

LEMMA WithoutOne ==
  ASSUME NEW s \in Copies, NEW f
  PROVE  LET t == without(s, f)
         IN  t \in Copies /\ Among(t, s) /\ (Differ(s) => Differ(t))
<1>1. Among(s, s)
  BY DEF Among
<1>2. CASE byFd(s, f) = 0
  BY <1>1, <1>2 DEF without
<1>3. CASE byFd(s, f) # 0
  BY <1>3, FoundByFd, Erased DEF without
<1> QED
  BY <1>2, <1>3

LEMMA StillApart ==
  ASSUME NEW s, NEW t, NEW u, NEW v, Apart(s, t), Among(u, s), Among(v, t)
  PROVE  Apart(u, v)
<1> SUFFICES ASSUME NEW j \in 1 .. Len(u), NEW k \in 1 .. Len(v)
             PROVE  u[j].nick # v[k].nick
  BY DEF Apart
<1>1. PICK p \in 1 .. Len(s) : u[j] = s[p]
  BY DEF Among
<1>2. PICK q \in 1 .. Len(t) : v[k] = t[q]
  BY DEF Among
<1> QED
  BY <1>1, <1>2 DEF Apart

LEMMA AmongItself == ASSUME NEW s PROVE Among(s, s)
BY DEF Among

(* A copy with a new nickname at the end.                                  *)
LEMMA Appended ==
  ASSUME NEW s \in Copies, Differ(s), NEW e \in Copy,
         \A i \in 1 .. Len(s) : s[i].nick # e.nick
  PROVE  LET t == Append(s, e)
         IN  /\ t \in Copies /\ Differ(t) /\ Len(t) = Len(s) + 1
             /\ \A k \in 1 .. Len(t) : t[k] = e \/ \E j \in 1 .. Len(s) : t[k] = s[j]
<1> DEFINE t == Append(s, e)
<1>1. /\ t \in Copies /\ Len(t) = Len(s) + 1 /\ t[Len(s) + 1] = e
      /\ \A i \in 1 .. Len(s) : t[i] = s[i]
  BY AppendProperties DEF Copies
<1>2. Len(s) \in Nat
  BY CopiesAre
<1> HIDE DEF t
<1>3. \A k \in 1 .. Len(t) : k \in 1 .. Len(s) \/ k = Len(s) + 1
  BY <1>1, <1>2
<1>4. Differ(t)
  BY <1>1, <1>3 DEF Differ
<1> QED
  BY <1>1, <1>3, <1>4 DEF t
-----------------------------------------------------------------------------
(* What is done to a channel.                                              *)

LEMMA ChannelParts ==
  ASSUME NEW h \in ChannelRec
  PROVE  /\ h.name \in ChName /\ h.clients \in Copies /\ h.admins \in Copies
         /\ h.invite \in BOOLEAN /\ h.topicOps \in BOOLEAN /\ h.key \in Key \cup {""}
         /\ h.limit \in Limit \cup {0} /\ h.topic \in Topic \cup {""}
BY Zenon DEF ChannelRec

LEMMA ClientsChanged ==
  ASSUME NEW h \in ChannelRec, NEW s \in Copies
  PROVE  LET q == [h EXCEPT !.clients = s]
         IN  q \in ChannelRec /\ q.name = h.name /\ q.clients = s /\ q.admins = h.admins
BY Zenon DEF ChannelRec

LEMMA AdminsChanged ==
  ASSUME NEW h \in ChannelRec, NEW s \in Copies
  PROVE  LET q == [h EXCEPT !.admins = s]
         IN  q \in ChannelRec /\ q.name = h.name /\ q.clients = h.clients /\ q.admins = s
BY Zenon DEF ChannelRec

LEMMA FewerIsGood ==
  ASSUME NEW h, Good(h), NEW f
  PROVE  /\ LET q == [h EXCEPT !.clients = without(@, f)] IN Good(q) /\ q.name = h.name
         /\ LET q == [h EXCEPT !.admins = without(@, f)] IN Good(q) /\ q.name = h.name
<1> DEFINE c == without(h.clients, f)
           a == without(h.admins, f)
           p == [h EXCEPT !.clients = c]
           q == [h EXCEPT !.admins = a]
<1>1. h \in ChannelRec /\ h.clients \in Copies /\ h.admins \in Copies
  BY ChannelParts DEF Good
<1>2. /\ c \in Copies /\ Among(c, h.clients) /\ Differ(c)
      /\ a \in Copies /\ Among(a, h.admins) /\ Differ(a)
  BY <1>1, WithoutOne DEF Good
<1>3. Apart(c, h.admins) /\ Apart(h.clients, a)
  BY <1>2, AmongItself, StillApart DEF Good
<1> HIDE DEF c, a
<1>4. Good(p) /\ p.name = h.name
  <2>1. p \in ChannelRec /\ p.name = h.name /\ p.clients = c /\ p.admins = h.admins
    BY <1>1, <1>2, ClientsChanged
  <2> QED
    BY <1>2, <1>3, <2>1 DEF Good
<1>5. Good(q) /\ q.name = h.name
  <2>1. q \in ChannelRec /\ q.name = h.name /\ q.clients = h.clients /\ q.admins = a
    BY <1>1, <1>2, AdminsChanged
  <2> QED
    BY <1>2, <1>3, <2>1 DEF Good
<1> QED
  BY <1>4, <1>5 DEF c, a

LEMMA DroppedIsGood ==
  ASSUME NEW h, Good(h), NEW f
  PROVE  /\ Good(dropAdmin(h, f)) /\ dropAdmin(h, f).name = h.name
         /\ Good(dropClient(h, f)) /\ dropClient(h, f).name = h.name
BY FewerIsGood DEF dropAdmin, dropClient

LEMMA NewIsGood ==
  ASSUME NEW n \in ChName, NEW c, copyOf(c) \in Copy
  PROVE  Good(NewChannel(n, c)) /\ NewChannel(n, c).name = n
<1> DEFINE a == <<copyOf(c)>>
<1>1. a \in Copies /\ Len(a) = 1 /\ <<>> \in Copies /\ Len(<<>>) = 0
  BY DEF Copies
<1>2. Differ(a) /\ Differ(<<>>) /\ Apart(<<>>, a)
  BY <1>1 DEF Differ, Apart
<1> HIDE DEF a
<1>3. /\ NewChannel(n, c) \in ChannelRec /\ NewChannel(n, c).name = n
      /\ NewChannel(n, c).clients = <<>> /\ NewChannel(n, c).admins = a
  <2> DEFINE q(x, y) == [name |-> n, clients |-> x, admins |-> y, invite |-> FALSE,
                         topicOps |-> FALSE, key |-> "", limit |-> 0, topic |-> ""]
  <2>1. \A x, y \in Copies : /\ q(x, y) \in ChannelRec /\ q(x, y).name = n
                             /\ q(x, y).clients = x /\ q(x, y).admins = y
    BY DEF ChannelRec
  <2>2. NewChannel(n, c) = q(<<>>, a)
    BY Zenon DEF NewChannel, a
  <2> HIDE DEF q
  <2> QED
    BY <1>1, <2>1, <2>2
<1> QED
  BY <1>2, <1>3 DEF Good

(* Whoever comes in is not yet on the channel by nickname.                 *)
LEMMA JoinedIsGood ==
  ASSUME NEW h, Good(h), NEW e \in Copy, ~InChannel(h, e.nick)
  PROVE  LET q == [h EXCEPT !.clients = Append(@, e)] IN Good(q) /\ q.name = h.name
<1> DEFINE s == Append(h.clients, e)
           q == [h EXCEPT !.clients = s]
<1>1. h \in ChannelRec /\ h.clients \in Copies /\ h.admins \in Copies
  BY ChannelParts DEF Good
<1>2. /\ \A i \in 1 .. Len(h.clients) : h.clients[i].nick # e.nick
      /\ \A i \in 1 .. Len(h.admins) : h.admins[i].nick # e.nick
  BY <1>1, FoundByNick DEF InChannel
<1>3. /\ s \in Copies /\ Differ(s)
      /\ \A k \in 1 .. Len(s) : s[k] = e \/ \E j \in 1 .. Len(h.clients) : s[k] = h.clients[j]
  BY <1>1, <1>2, Appended DEF Good
<1> HIDE DEF s
<1>4. Apart(s, h.admins)
  BY <1>2, <1>3 DEF Apart, Good
<1>5. q \in ChannelRec /\ q.name = h.name /\ q.clients = s /\ q.admins = h.admins
  BY <1>1, <1>3, ClientsChanged
<1> HIDE DEF q
<1>6. Good(q) /\ q.name = h.name
  BY <1>3, <1>4, <1>5 DEF Good
<1> QED
  BY <1>6 DEF q, s

-----------------------------------------------------------------------------
(* MODE.                                                                   *)

LEMMA SettingIsGood ==
  ASSUME NEW h, Good(h)
  PROVE  /\ \A b \in BOOLEAN :
              Good([h EXCEPT !.invite = b]) /\ [h EXCEPT !.invite = b].name = h.name
         /\ \A b \in BOOLEAN :
              Good([h EXCEPT !.topicOps = b]) /\ [h EXCEPT !.topicOps = b].name = h.name
         /\ \A k \in Key \cup {""} :
              Good([h EXCEPT !.key = k]) /\ [h EXCEPT !.key = k].name = h.name
         /\ \A l \in Limit \cup {0} :
              Good([h EXCEPT !.limit = l]) /\ [h EXCEPT !.limit = l].name = h.name
         /\ \A t \in Topic \cup {""} :
              Good([h EXCEPT !.topic = t]) /\ [h EXCEPT !.topic = t].name = h.name
<1>1. h \in ChannelRec
  BY DEF Good
<1>2. ASSUME NEW q \in ChannelRec, q.name = h.name, q.clients = h.clients, q.admins = h.admins
      PROVE  Good(q) /\ q.name = h.name
  BY <1>2 DEF Good
<1>3. ASSUME NEW b \in BOOLEAN
      PROVE  LET q == [h EXCEPT !.invite = b] IN Good(q) /\ q.name = h.name
  <2> DEFINE q == [h EXCEPT !.invite = b]
  <2>1. q \in ChannelRec /\ q.name = h.name /\ q.clients = h.clients /\ q.admins = h.admins
    BY <1>1, Zenon DEF ChannelRec
  <2> QED
    BY <1>2, <2>1, Zenon
<1>4. ASSUME NEW b \in BOOLEAN
      PROVE  LET q == [h EXCEPT !.topicOps = b] IN Good(q) /\ q.name = h.name
  <2> DEFINE q == [h EXCEPT !.topicOps = b]
  <2>1. q \in ChannelRec /\ q.name = h.name /\ q.clients = h.clients /\ q.admins = h.admins
    BY <1>1, Zenon DEF ChannelRec
  <2> QED
    BY <1>2, <2>1, Zenon
<1>5. ASSUME NEW k \in Key \cup {""}
      PROVE  LET q == [h EXCEPT !.key = k] IN Good(q) /\ q.name = h.name
  <2> DEFINE q == [h EXCEPT !.key = k]
  <2>1. q \in ChannelRec /\ q.name = h.name /\ q.clients = h.clients /\ q.admins = h.admins
    BY <1>1, Zenon DEF ChannelRec
  <2> QED
    BY <1>2, <2>1, Zenon
<1>6. ASSUME NEW l \in Limit \cup {0}
      PROVE  LET q == [h EXCEPT !.limit = l] IN Good(q) /\ q.name = h.name
  <2> DEFINE q == [h EXCEPT !.limit = l]
  <2>1. q \in ChannelRec /\ q.name = h.name /\ q.clients = h.clients /\ q.admins = h.admins
    BY <1>1, Zenon DEF ChannelRec
  <2> QED
    BY <1>2, <2>1, Zenon
<1>7. ASSUME NEW t \in Topic \cup {""}
      PROVE  LET q == [h EXCEPT !.topic = t] IN Good(q) /\ q.name = h.name
  <2> DEFINE q == [h EXCEPT !.topic = t]
  <2>1. q \in ChannelRec /\ q.name = h.name /\ q.clients = h.clients /\ q.admins = h.admins
    BY <1>1, Zenon DEF ChannelRec
  <2> QED
    BY <1>2, <2>1, Zenon
<1> QED
  BY <1>3, <1>4, <1>5, <1>6, <1>7

(* A copy changes sides: nobody else there has its nickname.               *)
LEMMA MovedIsGood ==
  ASSUME NEW h, Good(h)
  PROVE  /\ \A p \in 1 .. Len(h.clients) :
              LET q == [h EXCEPT !.admins = Append(@, h.clients[p]), !.clients = RemoveAt(@, p)]
              IN  Good(q) /\ q.name = h.name
         /\ \A p \in 1 .. Len(h.admins) :
              LET q == [h EXCEPT !.clients = Append(@, h.admins[p]), !.admins = RemoveAt(@, p)]
              IN  Good(q) /\ q.name = h.name
<1>1. h \in ChannelRec /\ h.clients \in Copies /\ h.admins \in Copies
  BY ChannelParts DEF Good
<1>2. /\ \A i \in 1 .. Len(h.clients) : h.clients[i] \in Copy
      /\ \A i \in 1 .. Len(h.admins) : h.admins[i] \in Copy
  BY <1>1, CopiesAre
<1>3. ASSUME NEW p \in 1 .. Len(h.clients)
      PROVE  LET q == [h EXCEPT !.admins = Append(@, h.clients[p]), !.clients = RemoveAt(@, p)]
             IN  Good(q) /\ q.name = h.name
  <2> DEFINE e == h.clients[p]
             s == RemoveAt(h.clients, p)
             t == Append(h.admins, e)
             q == [h EXCEPT !.admins = t, !.clients = s]
  <2>1. /\ s \in Copies /\ Among(s, h.clients) /\ Differ(s)
        /\ \A k \in 1 .. Len(s) : s[k].nick # e.nick
    BY <1>1, Erased DEF Good
  <2>2. /\ t \in Copies /\ Differ(t)
        /\ \A k \in 1 .. Len(t) : t[k] = e \/ \E j \in 1 .. Len(h.admins) : t[k] = h.admins[j]
    BY <1>1, <1>2, Appended DEF Good, Apart
  <2> HIDE DEF s, t
  <2>3. Apart(s, h.admins)
    BY <2>1, AmongItself, StillApart DEF Good
  <2>4. Apart(s, t)
    BY <2>1, <2>2, <2>3 DEF Apart
  <2>5. q \in ChannelRec /\ q.name = h.name /\ q.clients = s /\ q.admins = t
    BY <1>1, <2>1, <2>2, Zenon DEF ChannelRec
  <2> HIDE DEF q
  <2>6. Good(q) /\ q.name = h.name
    BY <2>1, <2>2, <2>4, <2>5 DEF Good
  <2> QED
    BY <2>6 DEF q, s, t
<1>4. ASSUME NEW p \in 1 .. Len(h.admins)
      PROVE  LET q == [h EXCEPT !.clients = Append(@, h.admins[p]), !.admins = RemoveAt(@, p)]
             IN  Good(q) /\ q.name = h.name
  <2> DEFINE e == h.admins[p]
             s == Append(h.clients, e)
             t == RemoveAt(h.admins, p)
             q == [h EXCEPT !.clients = s, !.admins = t]
  <2>1. /\ t \in Copies /\ Among(t, h.admins) /\ Differ(t)
        /\ \A k \in 1 .. Len(t) : t[k].nick # e.nick
    BY <1>1, Erased DEF Good
  <2>2. /\ s \in Copies /\ Differ(s)
        /\ \A k \in 1 .. Len(s) : s[k] = e \/ \E j \in 1 .. Len(h.clients) : s[k] = h.clients[j]
    BY <1>1, <1>2, Appended DEF Good, Apart
  <2> HIDE DEF s, t
  <2>3. Apart(h.clients, t)
    BY <2>1, AmongItself, StillApart DEF Good
  <2>4. Apart(s, t)
    <3> SUFFICES ASSUME NEW k \in 1 .. Len(s), NEW l \in 1 .. Len(t)
                 PROVE  s[k].nick # t[l].nick
      BY DEF Apart
    <3>1. CASE s[k] = e
      BY <2>1, <3>1
    <3>2. ASSUME NEW j \in 1 .. Len(h.clients), s[k] = h.clients[j]
          PROVE  s[k].nick # t[l].nick
      BY <2>3, <3>2 DEF Apart
    <3> QED
      BY <2>2, <3>1, <3>2
  <2>5. q \in ChannelRec /\ q.name = h.name /\ q.clients = s /\ q.admins = t
    BY <1>1, <2>1, <2>2, Zenon DEF ChannelRec
  <2> HIDE DEF q
  <2>6. Good(q) /\ q.name = h.name
    BY <2>1, <2>2, <2>4, <2>5 DEF Good
  <2> QED
    BY <2>6 DEF q, s, t
<1> QED
  BY <1>3, <1>4

(* One letter of a mode string.                                            *)
LEMMA LetterIsGood ==
  ASSUME NEW h, Good(h), NEW ms \in ModeCmds, NEW i \in 1 .. Len(ms)
  PROVE  Good(Apply(h, ms[i])) /\ Apply(h, ms[i]).name = h.name
<1> DEFINE m == ms[i]
<1>1. /\ m.mode \in {"i", "t", "k", "l", "o"} /\ m.add \in BOOLEAN
      /\ m.add /\ m.mode = "k" => m.arg \in Key
      /\ m.add /\ m.mode = "l" => m.arg \in Limit
  BY AhmedAssumption, Zenon
<1> HIDE DEF m
<1>2. h \in ChannelRec /\ h.clients \in Copies /\ h.admins \in Copies /\ h.key \in Key \cup {""}
  BY ChannelParts DEF Good
<1>3. CASE m.mode = "i"
  <2>1. Apply(h, m) = [h EXCEPT !.invite = m.add]
    BY <1>3 DEF Apply, invite_only
  <2>2. Good([h EXCEPT !.invite = m.add]) /\ [h EXCEPT !.invite = m.add].name = h.name
    BY <1>1, SettingIsGood, Zenon
  <2> QED
    BY <2>1, <2>2, Zenon DEF m
<1>4. CASE m.mode = "t"
  <2>1. Apply(h, m) = [h EXCEPT !.topicOps = m.add]
    BY <1>4 DEF Apply, topic_restriction
  <2>2. Good([h EXCEPT !.topicOps = m.add]) /\ [h EXCEPT !.topicOps = m.add].name = h.name
    BY <1>1, SettingIsGood, Zenon
  <2> QED
    BY <2>1, <2>2, Zenon DEF m
<1>5. CASE m.mode = "k"
  <2> DEFINE k == IF m.add THEN m.arg ELSE IF h.key = m.arg THEN "" ELSE h.key
  <2>1. Apply(h, m) = [h EXCEPT !.key = k]
    BY <1>5 DEF Apply, password_mode
  <2>2. k \in Key \cup {""}
    BY <1>1, <1>2, <1>5
  <2> HIDE DEF k
  <2>3. Good([h EXCEPT !.key = k]) /\ [h EXCEPT !.key = k].name = h.name
    BY <2>2, SettingIsGood, Zenon
  <2> QED
    BY <2>1, <2>3, Zenon DEF m
<1>6. CASE m.mode = "l"
  <2> DEFINE l == IF m.add THEN m.arg ELSE 0
  <2>1. Apply(h, m) = [h EXCEPT !.limit = l]
    BY <1>6 DEF Apply, channel_limit
  <2>2. l \in Limit \cup {0}
    BY <1>1, <1>6
  <2> HIDE DEF l
  <2>3. Good([h EXCEPT !.limit = l]) /\ [h EXCEPT !.limit = l].name = h.name
    BY <2>2, SettingIsGood, Zenon
  <2> QED
    BY <2>1, <2>3, Zenon DEF m
<1>7. CASE m.mode = "o"
  <2> DEFINE p == byNick(h.clients, m.arg)
             a == byNick(h.admins, m.arg)
  <2>1. \/ Apply(h, m) = h
        \/ p # 0 /\ Apply(h, m) = [h EXCEPT !.admins = Append(@, h.clients[p]),
                                            !.clients = RemoveAt(@, p)]
        \/ a # 0 /\ Apply(h, m) = [h EXCEPT !.clients = Append(@, h.admins[a]),
                                            !.admins = RemoveAt(@, a)]
    BY <1>7, Zenon DEF Apply, operator_privilege
  <2>2. (p # 0 => p \in 1 .. Len(h.clients)) /\ (a # 0 => a \in 1 .. Len(h.admins))
    BY <1>2, FoundByNick
  <2> HIDE DEF p, a, m
  <2> DEFINE promoted(k) == [h EXCEPT !.admins = Append(@, h.clients[k]),
                                      !.clients = RemoveAt(@, k)]
             demoted(k) == [h EXCEPT !.clients = Append(@, h.admins[k]),
                                     !.admins = RemoveAt(@, k)]
  <2>3. /\ \A k \in 1 .. Len(h.clients) : Good(promoted(k)) /\ promoted(k).name = h.name
        /\ \A k \in 1 .. Len(h.admins) : Good(demoted(k)) /\ demoted(k).name = h.name
    BY MovedIsGood, Zenon
  <2>4. Apply(h, m) = h \/ (p # 0 /\ Apply(h, m) = promoted(p)) \/ (a # 0 /\ Apply(h, m) = demoted(a))
    BY <2>1, Zenon
  <2> HIDE DEF promoted, demoted
  <2>5. Good(Apply(h, m)) /\ Apply(h, m).name = h.name
    BY <2>2, <2>3, <2>4
  <2> QED
    BY <2>5 DEF m
<1> QED
  BY <1>1, <1>3, <1>4, <1>5, <1>6, <1>7

(* All letters: by induction over them.                                    *)
LEMMA ModedIsGood ==
  ASSUME NEW h, Good(h), NEW ms \in ModeCmds
  PROVE  Good(ApplyAll(h, ms)) /\ ApplyAll(h, ms).name = h.name
<1> DEFINE N == Len(ms)
           C == {q \in ChannelRec : Good(q) /\ q.name = h.name}
           G == [p \in C \X (1 .. N) |-> Apply(p[1], ms[p[2]])]
           Solves(f) == f = [i \in 0 .. N |-> IF i = 0 THEN h ELSE Apply(f[i - 1], ms[i])]
           made == CHOOSE f : Solves(f)
<1>1. N \in Nat
  BY AhmedAssumption, Zenon
<1>2. h \in C
  BY DEF Good
<1>3. ASSUME NEW q \in C, NEW i \in 1 .. N
      PROVE  Apply(q, ms[i]) \in C
  <2>1. Good(Apply(q, ms[i])) /\ Apply(q, ms[i]).name = q.name
    BY LetterIsGood
  <2> QED
    BY <2>1 DEF Good
<1>4. G \in [C \X (1 .. N) -> C]
  <2>1. \A p \in C \X (1 .. N) : p[1] \in C /\ p[2] \in 1 .. N
    OBVIOUS
  <2> HIDE DEF C, N
  <2> QED
    BY <1>3, <2>1
<1> HIDE DEF N, C
<1>5. PICK f : Iterates(f, C, h, N, G)
  <2> HIDE DEF G
  <2> QED
    BY <1>1, <1>2, <1>4, Recursion, Zenon
<1>6. Solves(f)
  <2>1. ASSUME NEW i \in 0 .. N
        PROVE  f[i] = IF i = 0 THEN h ELSE Apply(f[i - 1], ms[i])
    <3>1. CASE i # 0
      <4>1. i \in 1 .. N /\ i - 1 \in 0 .. N
        BY <1>1, <3>1
      <4>2. <<f[i - 1], i>> \in C \X (1 .. N)
        BY <1>5, <4>1 DEF Iterates
      <4>3. f[i] = G[<<f[i - 1], i>>]
        BY <1>5, <4>1 DEF Iterates
      <4> QED
        BY <3>1, <4>2, <4>3
    <3> QED
      BY <1>5, <3>1 DEF Iterates
  <2> QED
    BY <1>5, <2>1 DEF Iterates
<1> HIDE DEF Solves
<1>7. Solves(made)
  BY <1>6, Zenon
<1>8. \A i \in 0 .. N : i \in {j \in 0 .. N : made[j] \in C}
  <2> HIDE DEF made
  <2> DEFINE T == {j \in 0 .. N : made[j] \in C}
  <2>1. /\ made[0] = h
        /\ \A i \in 1 .. N : made[i] = Apply(made[i - 1], ms[i])
    BY <1>1, <1>7 DEF Solves
  <2>2. 0 \in T
    BY <1>1, <1>2, <2>1
  <2>3. \A i \in 1 .. N : i - 1 \in T => i \in T
    BY <1>1, <1>3, <2>1
  <2> HIDE DEF T
  <2>4. \A i \in 0 .. N : i \in T
    BY <1>1, <2>2, <2>3, Induction
  <2> QED
    BY <2>4 DEF T
<1>9. ApplyAll(h, ms) = made[N]
  BY DEF ApplyAll, Solves, N
<1> QED
  BY <1>1, <1>8, <1>9 DEF C
-----------------------------------------------------------------------------
(* The vector of channels: every one good, no two of one name.             *)

Vector(s) ==
  /\ s \in Seq(ChannelRec)
  /\ \A i \in 1 .. Len(s) : Good(s[i])
  /\ \A i, j \in 1 .. Len(s) : s[i].name = s[j].name => i = j

LEMMA ChannelsAre ==
  ASSUME NEW s, Vector(s)
  PROVE  Len(s) \in Nat /\ DOMAIN s = 1 .. Len(s) /\ \A i \in 1 .. Len(s) : s[i] \in ChannelRec
BY LenProperties, ElementOfSeq DEF Vector

LEMMA FoundByName ==
  ASSUME Vector(channels), NEW n
  PROVE  /\ Exists(n) => /\ GetChannel(n) \in 1 .. Len(channels)
                         /\ Chan(n) = channels[GetChannel(n)] /\ Good(Chan(n))
         /\ ~Exists(n) => \A i \in 1 .. Len(channels) : channels[i].name # n
<1> DEFINE I == {i \in 1 .. Len(channels) : channels[i].name = n}
<1>1. GetChannel(n) = IF I # {} THEN Min(I) ELSE 0
  BY DEF GetChannel, SelectInSeq
<1>2. I \in SUBSET Nat /\ Len(channels) \in Nat
  BY ChannelsAre
<1>3. I # {} => Min(I) \in I
  <2> HIDE DEF I
  <2> QED
    BY <1>2, MinIsLeast
<1>4. Exists(n) => GetChannel(n) \in 1 .. Len(channels)
  BY <1>1, <1>2, <1>3 DEF Exists
<1>5. ~Exists(n) => I = {}
  BY <1>1, <1>2, <1>3 DEF Exists
<1> QED
  BY <1>4, <1>5 DEF Chan, Vector

LEMMA OneReplaced ==
  ASSUME NEW s, Vector(s), NEW i \in 1 .. Len(s), NEW h, Good(h), h.name = s[i].name
  PROVE  Vector([s EXCEPT ![i] = h])
<1> DEFINE t == [s EXCEPT ![i] = h]
<1>1. h \in ChannelRec /\ s \in Seq(ChannelRec)
  BY DEF Good, Vector
<1>2. /\ t \in Seq(ChannelRec) /\ Len(t) = Len(s)
      /\ \A j \in 1 .. Len(t) : t[j] = IF j = i THEN h ELSE s[j]
  BY <1>1, ExceptSeq
<1> HIDE DEF t
<1> QED
  BY <1>2 DEF Vector, t

LEMMA OneAdded ==
  ASSUME NEW s, Vector(s), NEW h, Good(h), \A i \in 1 .. Len(s) : s[i].name # h.name
  PROVE  Vector(Append(s, h))
<1> DEFINE t == Append(s, h)
<1>1. h \in ChannelRec /\ s \in Seq(ChannelRec) /\ Len(s) \in Nat
  BY ChannelsAre DEF Good, Vector
<1>2. /\ t \in Seq(ChannelRec) /\ Len(t) = Len(s) + 1 /\ t[Len(s) + 1] = h
      /\ \A i \in 1 .. Len(s) : t[i] = s[i]
  BY <1>1, AppendProperties
<1> HIDE DEF t
<1>3. \A k \in 1 .. Len(t) : k \in 1 .. Len(s) \/ k = Len(s) + 1
  BY <1>1, <1>2
<1>4. Vector(t)
  BY <1>2, <1>3 DEF Vector
<1> QED
  BY <1>4 DEF t

LEMMA OneErased ==
  ASSUME NEW s, Vector(s), NEW i \in 1 .. Len(s)
  PROVE  Vector(RemoveAt(s, i))
<1> DEFINE t == RemoveAt(s, i)
           place(j) == IF j < i THEN j ELSE j + 1
<1>1. s \in Seq(ChannelRec) /\ Len(s) \in Nat
  BY ChannelsAre DEF Vector
<1>2. /\ t \in Seq(ChannelRec) /\ Len(t) = Len(s) - 1
      /\ \A j \in 1 .. Len(t) : t[j] = IF j < i THEN s[j] ELSE s[j + 1]
  BY <1>1, Removed
<1> HIDE DEF t
<1>3. \A j \in 1 .. Len(t) : place(j) \in 1 .. Len(s) /\ t[j] = s[place(j)]
  BY <1>1, <1>2
<1>4. \A j, k \in 1 .. Len(t) : place(j) = place(k) => j = k
  BY <1>1, <1>2
<1> HIDE DEF place
<1>5. Vector(t)
  BY <1>2, <1>3, <1>4 DEF Vector
<1> QED
  BY <1>5 DEF t

(* QUIT's own loop: whichever channels it passes.                          *)
LEMMA QuitIsVector ==
  ASSUME NEW s, Vector(s), NEW c
  PROVE  Vector(QuitChannels(s, c))
<1> DEFINE erased == CHOOSE f : f = [i \in 0 .. Len(s) |->
                       /\ i > 0 /\ ~f[i - 1]
                       /\ IsOn(s[i], c) /\ GetClientsNumber(dropClient(s[i], c)) = 0]
           t == [i \in DOMAIN s |-> IF erased[i - 1] THEN s[i] ELSE dropClient(s[i], c)]
<1>1. QuitChannels(s, c) = t
  BY Zenon DEF QuitChannels
<1> HIDE DEF erased
<1>2. /\ Len(s) \in Nat /\ DOMAIN s = 1 .. Len(s)
      /\ \A i \in 1 .. Len(s) : Good(s[i]) /\ Good(dropClient(s[i], c))
                                /\ dropClient(s[i], c).name = s[i].name
  BY ChannelsAre, DroppedIsGood DEF Vector
<1>3. \A i \in 1 .. Len(s) : Good(t[i]) /\ t[i].name = s[i].name
  BY <1>2
<1>4. DOMAIN t = 1 .. Len(s)
  BY <1>2
<1> HIDE DEF t
<1>5. \A i \in 1 .. Len(s) : t[i] \in ChannelRec
  BY <1>3 DEF Good
<1>6. t \in Seq(ChannelRec) /\ Len(t) = Len(s)
  <2>1. t \in [1 .. Len(s) -> ChannelRec]
    BY <1>1, <1>4, <1>5 DEF t
  <2> QED
    BY <1>2, <2>1, SeqDef, LenProperties
<1>7. Vector(t)
  BY <1>3, <1>6 DEF Vector
<1> QED
  BY <1>1, <1>7

(* RmChannels: by induction over the channels, each of which is left under *)
(* its own name or left out.                                               *)
LEMMA RmIsVector ==
  ASSUME NEW s, Vector(s), NEW c
  PROVE  Vector(RmChannels(s, c))
<1> DEFINE N == Len(s)
           C == Seq(ChannelRec)
           next(t, i) == IF GetClientsNumber(dropClient(s[i], c)) = 0 THEN t
                         ELSE Append(t, dropClient(s[i], c))
           G == [p \in C \X (1 .. N) |-> next(p[1], p[2])]
           Solves(f) == f = [i \in 0 .. N |-> IF i = 0 THEN <<>> ELSE next(f[i - 1], i)]
           left == CHOOSE f : Solves(f)
<1>1. N \in Nat
  BY ChannelsAre
<1>2. <<>> \in C
  OBVIOUS
<1>3. ASSUME NEW i \in 1 .. N
      PROVE  /\ Good(s[i]) /\ Good(dropClient(s[i], c))
             /\ dropClient(s[i], c).name = s[i].name /\ dropClient(s[i], c) \in ChannelRec
  BY DroppedIsGood DEF Vector, Good
<1>4. ASSUME NEW t \in C, NEW i \in 1 .. N
      PROVE  next(t, i) \in C
  BY <1>3, AppendProperties
<1>5. G \in [C \X (1 .. N) -> C]
  <2>1. \A p \in C \X (1 .. N) : p[1] \in C /\ p[2] \in 1 .. N
    OBVIOUS
  <2> HIDE DEF C, N, next
  <2> QED
    BY <1>4, <2>1
<1> HIDE DEF N, C
<1>6. PICK f : Iterates(f, C, <<>>, N, G)
  <2> HIDE DEF G
  <2> QED
    BY <1>1, <1>2, <1>5, Recursion, Zenon
<1>7. Solves(f)
  <2>1. ASSUME NEW i \in 0 .. N
        PROVE  f[i] = IF i = 0 THEN <<>> ELSE next(f[i - 1], i)
    <3> HIDE DEF next
    <3>1. CASE i # 0
      <4>1. i \in 1 .. N /\ i - 1 \in 0 .. N
        BY <1>1, <3>1
      <4>2. <<f[i - 1], i>> \in C \X (1 .. N)
        BY <1>6, <4>1 DEF Iterates
      <4>3. f[i] = G[<<f[i - 1], i>>]
        BY <1>6, <4>1 DEF Iterates
      <4> QED
        BY <3>1, <4>2, <4>3
    <3> QED
      BY <1>6, <3>1 DEF Iterates
  <2> QED
    BY <1>6, <2>1 DEF Iterates
<1>8. Solves(left)
  <2> HIDE DEF Solves
  <2> QED
    BY <1>7, Zenon
<1>9. left[0] = <<>> /\ \A i \in 1 .. N : left[i] = next(left[i - 1], i)
  <2> HIDE DEF left, next
  <2> QED
    BY <1>1, <1>8
<1> DEFINE Named(t, i) == \A k \in 1 .. Len(t) : \E j \in 1 .. i : t[k].name = s[j].name
           T == {i \in 0 .. N : Vector(left[i]) /\ Named(left[i], i)}
<1> HIDE DEF left, Solves, G
<1>10. 0 \in T
  <2>1. Len(<<>>) = 0
    OBVIOUS
  <2>2. Vector(<<>>)
    BY <2>1 DEF Vector
  <2> QED
    BY <1>1, <1>9, <2>1, <2>2
<1>11. ASSUME NEW i \in 1 .. N, i - 1 \in T
       PROVE  i \in T
  <2> DEFINE old == left[i - 1]
             h == dropClient(s[i], c)
  <2>1. Vector(old) /\ Named(old, i - 1) /\ i \in 0 .. N /\ Len(old) \in Nat
    BY <1>1, <1>11, ChannelsAre
  <2>2. CASE GetClientsNumber(h) = 0
    <3>1. left[i] = old
      BY <1>9, <2>2
    <3>2. Named(old, i)
      BY <1>1, <2>1
    <3> QED
      BY <2>1, <3>1, <3>2
  <2>3. CASE GetClientsNumber(h) # 0
    <3>1. left[i] = Append(old, h)
      BY <1>9, <2>3
    <3>2. \A k \in 1 .. Len(old) : old[k].name # h.name
      <4>1. ASSUME NEW k \in 1 .. Len(old), old[k].name = h.name
            PROVE  FALSE
        <5>1. PICK j \in 1 .. i - 1 : old[k].name = s[j].name
          BY <2>1
        <5>2. j \in 1 .. N
          BY <1>1
        <5>3. s[j].name = s[i].name
          BY <1>3, <4>1, <5>1
        <5>4. j = i
          BY <5>2, <5>3 DEF Vector, N
        <5> QED
          BY <5>1, <5>4
      <4> QED
        BY <4>1
    <3>3. Vector(Append(old, h))
      <4> HIDE DEF old, h
      <4> QED
        BY <1>3, <2>1, <3>2, OneAdded DEF h
    <3>4. Named(Append(old, h), i)
      <4>1. /\ Len(Append(old, h)) = Len(old) + 1 /\ Append(old, h)[Len(old) + 1] = h
            /\ \A k \in 1 .. Len(old) : Append(old, h)[k] = old[k]
        BY <1>3, <2>1, AppendProperties DEF Vector
      <4> HIDE DEF old, h
      <4>2. ASSUME NEW k \in 1 .. Len(old) + 1
            PROVE  \E j \in 1 .. i : Append(old, h)[k].name = s[j].name
        <5>1. CASE k = Len(old) + 1
          <6>1. Append(old, h)[k].name = s[i].name
            BY <1>3, <4>1, <5>1 DEF h
          <6> QED
            BY <1>1, <6>1
        <5>2. CASE k # Len(old) + 1
          BY <1>1, <2>1, <4>1, <5>2
        <5> QED
          BY <5>1, <5>2
      <4> QED
        BY <4>1, <4>2
    <3> HIDE DEF Named
    <3> QED
      BY <2>1, <3>1, <3>3, <3>4
  <2> QED
    BY <2>2, <2>3
<1> HIDE DEF T
<1>12. \A i \in 0 .. N : i \in T
  BY <1>1, <1>10, <1>11, Induction
<1>13. Vector(left[N])
  BY <1>1, <1>12 DEF T
<1>14. RmChannels(s, c) = left[N]
  BY DEF RmChannels, left, Solves, N
<1> QED
  BY <1>13, <1>14

-----------------------------------------------------------------------------
(* Each action keeps the vector so.                                        *)

FullInv == AhmedInv /\ Vector(channels) /\ up \in BOOLEAN

LEMMA NoChannels == Vector(<<>>)
<1>1. <<>> \in Seq(ChannelRec) /\ Len(<<>>) = 0
  OBVIOUS
<1> QED
  BY <1>1 DEF Vector

LEMMA DownIsVector == ASSUME Down PROVE Vector(channels')
BY NoChannels DEF Down

(* What a logged-in client puts on a channel.                              *)
LEMMA CopyIs ==
  ASSUME AhmedInv, NEW c \in Fd, Ready(c)
  PROVE  copyOf(c) \in Copy /\ copyOf(c).nick = cl[c].nick
<1>1. c \in clients /\ cl[c] \in ClientRec /\ cl[c].nick \notin {"", "*"}
  BY RecordIs DEF Ready
<1>2. cl[c].nick \in Nick
  BY <1>1, ClientParts
<1> QED
  BY <1>2 DEF copyOf, Copy

(* A channel that is replaced by a good one of its name.                   *)
LEMMA ReplacedIsVector ==
  ASSUME Vector(channels), NEW n \in ChName, Exists(n),
         NEW h, Good(h), h.name = Chan(n).name
  PROVE  Vector([channels EXCEPT ![GetChannel(n)] = h])
BY FoundByName, OneReplaced

LEMMA NewChannelKeeps ==
  ASSUME FullInv, NEW c \in Fd, NEW n \in ChName, NotExistCh(c, n)
  PROVE  Vector(channels')
<1>1. ~Exists(n) /\ channels' = Append(channels, NewChannel(n, c)) /\ Ready(c)
  BY DEF NotExistCh
<1>2. Good(NewChannel(n, c)) /\ NewChannel(n, c).name = n
  BY <1>1, CopyIs, NewIsGood DEF FullInv
<1>3. \A i \in 1 .. Len(channels) : channels[i].name # n
  BY <1>1, FoundByName DEF FullInv
<1>4. Vector(Append(channels, NewChannel(n, c)))
  BY <1>2, <1>3, OneAdded DEF FullInv
<1> QED
  BY <1>1, <1>4

LEMMA ExistChKeeps ==
  ASSUME FullInv, NEW c \in Fd, NEW n \in ChName, NEW k \in Key \cup {""}, ExistCh(c, n, k)
  PROVE  Vector(channels')
<1> DEFINE e == copyOf(c)
           old == Chan(n)
           h == [old EXCEPT !.clients = Append(@, e)]
           new == [channels EXCEPT ![GetChannel(n)].clients = Append(@, e)]
<1>1. Ready(c) /\ Exists(n) /\ ~InChannel(old, cl[c].nick)
  BY DEF ExistCh, Joinable
<1>2. e \in Copy /\ e.nick = cl[c].nick
  BY <1>1, CopyIs DEF FullInv
<1>3. Good(old) /\ old = channels[GetChannel(n)]
  BY <1>1, FoundByName DEF FullInv
<1>4. Good(h) /\ h.name = old.name
  <2> HIDE DEF old, e
  <2> QED
    BY <1>1, <1>2, <1>3, JoinedIsGood
<1>5. channels' = new \/ channels' = channels
  BY DEF ExistCh
<1>6. new = [channels EXCEPT ![GetChannel(n)] = h]
  BY <1>3, Zenon
<1> HIDE DEF h, new, old
<1>7. Vector(new)
  BY <1>1, <1>4, <1>6, ReplacedIsVector DEF FullInv, old
<1> QED
  BY <1>5, <1>7 DEF FullInv

LEMMA PartKeeps ==
  ASSUME FullInv, NEW c \in Fd, NEW n \in ChName, Part(c, n)
  PROVE  Vector(channels')
<1>1. Exists(n)
  BY DEF Part
<1>2. /\ Good(Chan(n)) /\ GetChannel(n) \in 1 .. Len(channels) /\ Vector(channels)
  BY <1>1, FoundByName DEF FullInv
<1> DEFINE h == dropAdmin(Chan(n), GetClientInChannel(Chan(n), cl[c].nick).fd)
<1>3. Good(h) /\ h.name = Chan(n).name
  BY <1>2, DroppedIsGood
<1>4. \/ Down
      \/ channels' = RemoveAt(channels, GetChannel(n))
      \/ channels' = [channels EXCEPT ![GetChannel(n)] = h]
  BY DEF Part
<1> HIDE DEF h
<1> QED
  BY <1>1, <1>2, <1>3, <1>4, DownIsVector, OneErased, ReplacedIsVector

LEMMA KickKeeps ==
  ASSUME FullInv, NEW c \in Fd, NEW n \in ChName, NEW w \in Nick, NEW i \in Position,
         Kick(c, n, w, i)
  PROVE  Vector(channels')
<1>1. Exists(n)
  BY DEF Kick
<1>2. Good(Chan(n)) /\ GetChannel(n) \in 1 .. Len(channels) /\ Vector(channels)
  BY <1>1, FoundByName DEF FullInv
<1> DEFINE h == dropAdmin(Chan(n), GetClientInChannel(Chan(n), w).fd)
           kicked == [channels EXCEPT ![GetChannel(n)] = h]
<1>3. Good(h) /\ h.name = Chan(n).name
  BY <1>2, DroppedIsGood
<1>4. \/ Down
      \/ channels' = RemoveAt(kicked, i + 1) /\ ~(i >= Len(channels))
      \/ channels' = kicked
  BY DEF Kick
<1> HIDE DEF h
<1>5. Vector(kicked)
  BY <1>1, <1>2, <1>3, ReplacedIsVector
<1>6. Len(kicked) = Len(channels) /\ Len(channels) \in Nat
  <2>1. channels \in Seq(ChannelRec) /\ h \in ChannelRec
    BY <1>2, <1>3 DEF Vector, Good
  <2> QED
    BY <1>2, <2>1, ExceptSeq, ChannelsAre
<1>7. i \in Nat
  BY AhmedAssumption, Zenon
<1> HIDE DEF kicked
<1>8. CASE channels' = RemoveAt(kicked, i + 1) /\ ~(i >= Len(channels))
  <2>1. i + 1 \in 1 .. Len(kicked)
    BY <1>6, <1>7, <1>8
  <2> QED
    BY <1>5, <1>8, <2>1, OneErased
<1> QED
  BY <1>4, <1>5, <1>8, DownIsVector

LEMMA ModeKeeps ==
  ASSUME FullInv, NEW c \in Fd, NEW n \in ChName, NEW ms \in ModeCmds, mode_command(c, n, ms)
  PROVE  Vector(channels')
<1>1. Exists(n)
  BY DEF mode_command
<1>2. Good(Chan(n)) /\ Chan(n) = channels[GetChannel(n)] /\ Vector(channels)
  BY <1>1, FoundByName DEF FullInv
<1> DEFINE h == ApplyAll(Chan(n), ms)
<1>3. Good(h) /\ h.name = Chan(n).name
  BY <1>2, ModedIsGood
<1>4. channels' = [channels EXCEPT ![GetChannel(n)] = h]
  BY <1>2, Zenon DEF mode_command
<1> HIDE DEF h
<1> QED
  BY <1>1, <1>2, <1>3, <1>4, ReplacedIsVector

LEMMA TopicKeeps ==
  ASSUME FullInv, NEW c \in Fd, NEW n \in ChName, NEW t \in Topic, TopicCmd(c, n, t)
  PROVE  Vector(channels')
<1> DEFINE old == Chan(n)
           h == [old EXCEPT !.topic = t]
<1>1. Exists(n)
  BY DEF TopicCmd
<1>2. Good(old) /\ old = channels[GetChannel(n)] /\ Vector(channels)
  BY <1>1, FoundByName DEF FullInv
<1>3. Good(h) /\ h.name = old.name
  <2> HIDE DEF old
  <2>1. Good(old) /\ t \in Topic \cup {""}
    BY <1>2
  <2>2. \A u \in Topic \cup {""} :
           Good([old EXCEPT !.topic = u]) /\ [old EXCEPT !.topic = u].name = old.name
    BY <2>1, SettingIsGood
  <2> QED
    BY <2>1, <2>2
<1>4. channels' = [channels EXCEPT ![GetChannel(n)] = h]
  BY <1>2, Zenon DEF TopicCmd
<1> HIDE DEF h
<1> QED
  BY <1>1, <1>2, <1>3, <1>4, ReplacedIsVector

LEMMA UpKeeps ==
  ASSUME up \in BOOLEAN, [Next]_vars
  PROVE  up' \in BOOLEAN
<1>1. Down => up' = FALSE
  BY DEF Down
<1>2. ASSUME NEW c \in Fd, ClientStep(c)
      PROVE  up' \in BOOLEAN
  BY <1>1, <1>2 DEF ClientStep, accept_new_client, client_authen, set_username, NickTaken,
     set_nickname, TooManyKeys, Hangup, Quit, QuitThenPass, RemoveClient
<1>3. ASSUME NEW c \in Fd, NEW n \in ChName, ChannelStep(c, n)
      PROVE  up' \in BOOLEAN
  BY <1>1, <1>3 DEF ChannelStep, NotExistCh, ExistCh, Part, Invite, Kick, mode_command, TopicCmd
<1> QED
  BY <1>1, <1>2, <1>3 DEF Next, SignalHandler, vars

LEMMA VectorKeeps ==
  ASSUME FullInv, [Next]_vars
  PROVE  Vector(channels')
<1>1. ASSUME NEW c \in Fd, ClientStep(c)
      PROVE  Vector(channels')
  <2>1. CASE Hangup(c)
    BY <2>1, RmIsVector DEF Hangup, FullInv
  <2>2. CASE Quit(c)
    BY <2>2, RmIsVector, QuitIsVector DEF Quit, FullInv
  <2>3. CASE TooManyKeys(c) \/ QuitThenPass(c)
    BY <2>3, DownIsVector DEF TooManyKeys, QuitThenPass
  <2>4. CASE channels' = channels
    BY <2>4 DEF FullInv
  <2> QED
    BY <1>1, <2>1, <2>2, <2>3, <2>4
       DEF ClientStep, accept_new_client, client_authen, set_username, NickTaken, set_nickname
<1>2. ASSUME NEW c \in Fd, NEW n \in ChName, ChannelStep(c, n)
      PROVE  Vector(channels')
  <2>1. ASSUME NEW w \in Nick \cup {"*"}, Invite(c, w, n)
        PROVE  Vector(channels')
    BY <2>1, DownIsVector DEF Invite, FullInv
  <2> QED
    BY <1>2, <2>1, NewChannelKeeps, ExistChKeeps, PartKeeps, KickKeeps, ModeKeeps, TopicKeeps
       DEF ChannelStep
<1>3. CASE SignalHandler
  BY <1>3, DownIsVector DEF SignalHandler
<1>4. CASE UNCHANGED vars
  BY <1>4 DEF vars, FullInv
<1> QED
  BY <1>1, <1>2, <1>3, <1>4 DEF Next

-----------------------------------------------------------------------------
LEMMA AhmedInvariant == Spec => []AhmedInv
<1>1. Init => AhmedInv
  BY NoClientIsRec DEF Init, AhmedInv, ClientsOK, PassFirst, NickUnique, LoginComplete
<1>2. AhmedInv /\ [Next]_vars => AhmedInv'
  <2> SUFFICES ASSUME AhmedInv, [Next]_vars
               PROVE  AhmedInv'
    OBVIOUS
  <2>1. CASE SignalHandler
    BY <2>1, AllRemoved DEF SignalHandler
  <2>2. CASE UNCHANGED vars
    BY <2>2, NothingChanges DEF vars
  <2> QED
    BY <2>1, <2>2, ClientStepKeeps, ChannelStepKeeps DEF Next
<1> QED
  BY <1>1, <1>2, PTL DEF Spec

(* Two clients never have the same nickname, but for "*" (NickUnique).     *)
THEOREM AhmedNicksDiffer == Spec => []NickUnique
<1>1. AhmedInv => NickUnique
  BY DEF AhmedInv
<1> QED
  BY <1>1, AhmedInvariant, PTL

(* A client is logged in exactly when PASS, NICK and USER have gone well,  *)
(* whichever of them was the last (LoginComplete).                         *)
THEOREM LoginsAreComplete == Spec => []LoginComplete
<1>1. AhmedInv => LoginComplete
  BY DEF AhmedInv
<1> QED
  BY <1>1, AhmedInvariant, PTL

LEMMA FullInvariant == Spec => []FullInv
<1> DEFINE Rest == Vector(channels) /\ up \in BOOLEAN
<1>1. Init => Rest
  BY NoChannels DEF Init
<1>2. AhmedInv /\ Rest /\ [Next]_vars => Rest'
  BY VectorKeeps, UpKeeps DEF FullInv
<1>3. FullInv <=> AhmedInv /\ Rest
  BY DEF FullInv
<1> HIDE DEF Rest
<1> QED
  BY <1>1, <1>2, <1>3, AhmedInvariant, PTL DEF Spec

(* Every client, channel and copy of AhmedFatir's server is well formed,   *)
(* and no two channels have the same name (TypeOK).                        *)
THEOREM AhmedTypes == Spec => []TypeOK
<1>1. ASSUME FullInv, NEW i \in DOMAIN channels
      PROVE  /\ channels[i].name \in ChName
             /\ ToSet(channels[i].clients) \cup ToSet(channels[i].admins) \subseteq Copy
             /\ channels[i].invite \in BOOLEAN /\ channels[i].topicOps \in BOOLEAN
             /\ channels[i].key \in Key \cup {""} /\ channels[i].limit \in Limit \cup {0}
             /\ channels[i].topic \in Topic \cup {""}
             /\ \A j \in DOMAIN channels : channels[j].name = channels[i].name => i = j
  <2>1. DOMAIN channels = 1 .. Len(channels) /\ channels[i] \in ChannelRec
    BY <1>1, ChannelsAre DEF FullInv
  <2>2. ASSUME NEW s \in Copies
        PROVE  ToSet(s) \subseteq Copy
    BY CopiesAre, LenProperties DEF ToSet, Copies
  <2>3. ToSet(channels[i].clients) \cup ToSet(channels[i].admins) \subseteq Copy
    BY <2>1, <2>2, ChannelParts
  <2> QED
    BY <1>1, <2>1, <2>3, ChannelParts DEF FullInv, Vector
<1>2. FullInv => TypeOK
  BY <1>1 DEF FullInv, AhmedInv, ClientsOK, TypeOK
<1> QED
  BY <1>2, FullInvariant, PTL

(* All copies on a channel have different nicknames, although clients are  *)
(* renamed and copies of the gone stay: what goes by nickname on a channel *)
(* means one copy (CopiesDiffer).                                          *)
THEOREM CopiesHaveOwnNicks == Spec => []CopiesDiffer
<1>1. ASSUME FullInv, NEW i \in DOMAIN channels
      PROVE  LET h == channels[i].clients \o channels[i].admins
             IN  \A j, k \in DOMAIN h : h[j].nick = h[k].nick => j = k
  <2> DEFINE s == channels[i].clients
             t == channels[i].admins
             h == s \o t
  <2>1. Good(channels[i])
    BY <1>1, ChannelsAre DEF FullInv, Vector
  <2>2. s \in Copies /\ t \in Copies /\ Differ(s) /\ Differ(t) /\ Apart(s, t)
    BY <2>1, ChannelParts DEF Good
  <2> HIDE DEF s, t
  <2>3. Len(s) \in Nat /\ Len(t) \in Nat
    BY <2>2, CopiesAre
  <2>4. /\ DOMAIN h = 1 .. Len(s) + Len(t)
        /\ \A j \in 1 .. Len(s) + Len(t) : h[j] = IF j <= Len(s) THEN s[j] ELSE t[j - Len(s)]
    BY <2>2, <2>3, ConcatProperties, LenProperties DEF Copies
  <2> HIDE DEF h
  <2>5. ASSUME NEW j \in DOMAIN h, NEW k \in DOMAIN h, h[j].nick = h[k].nick
        PROVE  j = k
    <3>1. CASE j <= Len(s) /\ k <= Len(s)
      BY <2>2, <2>3, <2>4, <2>5, <3>1 DEF Differ
    <3>2. CASE ~(j <= Len(s)) /\ ~(k <= Len(s))
      <4>1. j - Len(s) \in 1 .. Len(t) /\ k - Len(s) \in 1 .. Len(t)
        BY <2>3, <2>4, <3>2
      <4>2. j - Len(s) = k - Len(s)
        BY <2>2, <2>4, <2>5, <3>2, <4>1 DEF Differ
      <4> QED
        BY <2>3, <2>4, <4>2
    <3>3. CASE j <= Len(s) /\ ~(k <= Len(s))
      <4>1. j \in 1 .. Len(s) /\ k - Len(s) \in 1 .. Len(t)
        BY <2>3, <2>4, <3>3
      <4> QED
        BY <2>2, <2>4, <2>5, <3>3, <4>1 DEF Apart
    <3>4. CASE ~(j <= Len(s)) /\ k <= Len(s)
      <4>1. k \in 1 .. Len(s) /\ j - Len(s) \in 1 .. Len(t)
        BY <2>3, <2>4, <3>4
      <4> QED
        BY <2>2, <2>4, <2>5, <3>4, <4>1 DEF Apart
    <3> QED
      BY <3>1, <3>2, <3>3, <3>4
  <2> QED
    BY <2>5 DEF h, s, t
<1>2. FullInv => CopiesDiffer
  BY <1>1 DEF CopiesDiffer
<1> QED
  BY <1>2, FullInvariant, PTL
=============================================================================
