---------------------------- MODULE ShibRCProofs ----------------------------
(***************************************************************************)
(* The passes and the login of ShibRC, for any number of descriptors and   *)
(* addresses, any configuration and any bounds.                            *)
(***************************************************************************)
EXTENDS ShibRC, TLAPS

(* The two parts of LoginProved.  The second is what makes it safe that    *)
(* the end of the stage REGISTER overwrites the status without a look at   *)
(* it.                                                                     *)
UsersProved ==
  \A c \in users :
    cl[c].status \in {"REGISTER", "ONLINE"} => password = "" \/ c \in proved

StageProved == cur # None /\ last = "REGISTER" => password = "" \/ cur \in proved

(* The members of a channel that may not exist; they are users.            *)
MembersOf(r) == IF r = None THEN {} ELSE r.members
MembersOn == \A n \in ChName : MembersOf(ch[n]) \subseteq users

ShibInv == TypeOK /\ UsersProved /\ StageProved /\ MembersOn
-----------------------------------------------------------------------------
(* What a command may do to the users: change what is known of them.       *)
SameUsers ==
  /\ cl' \in [Fd -> UserRec \cup {None}]
  /\ users' = users
  /\ \A d \in users : cl'[d].addr = cl[d].addr

LEMMA UserIsRec ==
  ASSUME TypeOK, NEW d \in users
  PROVE  d \in Fd /\ cl[d] \in UserRec
BY DEF TypeOK, users

LEMMA UserChanged ==
  ASSUME TypeOK, NEW d \in users, NEW r \in UserRec, r.addr = cl[d].addr,
         cl' = [cl EXCEPT ![d] = r]
  PROVE  SameUsers
BY ShibAssumption DEF TypeOK, users, SameUsers

LEMMA NoUserChanged ==
  ASSUME TypeOK, UNCHANGED cl
  PROVE  SameUsers
BY DEF TypeOK, users, SameUsers

LEMMA ChannelIsRec ==
  ASSUME TypeOK, NEW n \in channels
  PROVE  n \in ChName /\ ch[n] \in ChannelRec
BY DEF TypeOK, channels

LEMMA NewChannelIsRec == NewChannel \in ChannelRec /\ NewChannel.members = {}
<1>1. /\ {} \in SUBSET Fd /\ [c \in Fd |-> {}] \in [Fd -> SUBSET (Give \cup {"O", "o"})]
      /\ {"n"} \in SUBSET (Toggle \cup {"n", "k", "l"})
  OBVIOUS
<1>2. [a \in Addr |-> 0] \in [Addr -> 0 .. MaxInvited]
  BY ShibAssumption
<1> QED
  BY <1>1, <1>2, Zenon DEF NewChannel, ChannelRec

LEMMA MembersReplaced ==
  ASSUME NEW r \in ChannelRec, NEW T \in SUBSET Fd
  PROVE  [r EXCEPT !.members = T] \in ChannelRec /\ [r EXCEPT !.members = T].members = T
BY Zenon DEF ChannelRec

(* What a command may do to the channels.                                  *)
GoodChannels == ch' \in [ChName -> ChannelRec \cup {None}] /\ MembersOn'

(* A command of c on one channel brings c on it or nobody.                 *)
SetsChannel(c, n) ==
  \E r \in ChannelRec \cup {None} :
    /\ ch' = [ch EXCEPT ![n] = r]
    /\ MembersOf(r) \subseteq MembersOf(ch[n]) \/ MembersOf(r) = MembersOf(ch[n]) \cup {c}

LEMMA ChannelChanged ==
  ASSUME TypeOK, MembersOn, SameUsers, NEW c \in users, NEW n \in ChName, SetsChannel(c, n)
  PROVE  GoodChannels
BY DEF TypeOK, MembersOn, MembersOf, SetsChannel, SameUsers, GoodChannels

LEMMA SetsRec ==
  ASSUME NEW c, NEW n \in ChName, NEW r \in ChannelRec, ch' = [ch EXCEPT ![n] = r],
         r.members \subseteq MembersOf(ch[n]) \/ r.members = MembersOf(ch[n]) \cup {c}
  PROVE  SetsChannel(c, n)
BY ShibAssumption DEF SetsChannel, MembersOf

LEMMA NoChannelChanged ==
  ASSUME TypeOK, MembersOn, SameUsers, UNCHANGED ch
  PROVE  GoodChannels
BY DEF TypeOK, MembersOn, MembersOf, SameUsers, GoodChannels

LEMMA WithoutUsersIs ==
  ASSUME TypeOK, NEW S, NEW n \in ChName
  PROVE  /\ WithoutUsers(ch, S)[n] \in ChannelRec \cup {None}
         /\ MembersOf(WithoutUsers(ch, S)[n]) = MembersOf(ch[n]) \ S
<1>1. CASE ch[n] = None
  BY <1>1 DEF WithoutUsers, MembersOf
<1>2. CASE ch[n] # None
  <2>1. ch[n] \in ChannelRec
    BY <1>2, ChannelIsRec DEF channels
  <2>2. ch[n].members \ S \in SUBSET Fd
    BY <2>1 DEF ChannelRec
  <2>3. CASE ch[n].members \cap S # {} /\ ch[n].members \subseteq S
    BY <1>2, <2>3 DEF WithoutUsers, MembersOf
  <2>4. CASE ~(ch[n].members \cap S # {} /\ ch[n].members \subseteq S)
    <3>1. WithoutUsers(ch, S)[n] = [ch[n] EXCEPT !.members = @ \ S]
      BY <1>2, <2>4 DEF WithoutUsers
    <3> QED
      BY <1>2, <2>1, <2>2, <3>1, MembersReplaced, ShibAssumption DEF MembersOf
  <2> QED
    BY <2>3, <2>4
<1> QED
  BY <1>1, <1>2

(* What every command leaves alone, and keeps.                             *)
LEMMA CommandKeeps ==
  ASSUME TypeOK, NEW c \in Fd, cur = c, up, UNCHANGED <<todo, cur, last, up>>,
         SameUsers, GoodChannels, proved' \subseteq users, nickChannel' \in BOOLEAN
  PROVE  TypeOK'
<1>1. cur # None
  BY ShibAssumption
<1>2. \A x, y \in users' : cl'[x].addr = cl'[y].addr => x = y
  BY DEF TypeOK, SameUsers
<1> QED
  BY <1>1, <1>2 DEF TypeOK, SameUsers, GoodChannels

LEMMA Author ==
  ASSUME TypeOK, NEW c \in Fd, cur = c
  PROVE  c \in users /\ c # None /\ last \in Status \ {"DELETE"}
BY ShibAssumption DEF TypeOK

(* A command that ends no stage but by DELETE.                             *)
LEMMA PlainCommand ==
  ASSUME ShibInv, NEW c \in Fd, cur = c, up, UNCHANGED <<todo, cur, last, up, proved>>,
         SameUsers, GoodChannels, nickChannel' \in BOOLEAN,
         \A d \in users : cl'[d].status \in {cl[d].status, "DELETE"}
  PROVE  ShibInv'
<1>1. TypeOK'
  BY CommandKeeps DEF ShibInv, TypeOK
<1>2. UsersProved'
  BY DEF ShibInv, UsersProved, SameUsers
<1>3. StageProved'
  BY DEF ShibInv, StageProved
<1> QED
  BY <1>1, <1>2, <1>3 DEF ShibInv, GoodChannels

LEMMA UserCommand ==
  ASSUME ShibInv, NEW c \in Fd, cur = c, up,
         UNCHANGED <<todo, cur, last, up, proved, ch, nickChannel>>,
         NEW d \in users, NEW r \in UserRec, r.addr = cl[d].addr,
         r.status \in {cl[d].status, "DELETE"}, cl' = [cl EXCEPT ![d] = r]
  PROVE  ShibInv'
<1>1. SameUsers
  BY UserChanged DEF ShibInv
<1>2. GoodChannels
  BY <1>1, NoChannelChanged DEF ShibInv
<1>3. \A x \in users : cl'[x].status \in {cl[x].status, "DELETE"}
  BY DEF ShibInv, TypeOK, users
<1>4. nickChannel' \in BOOLEAN
  BY DEF ShibInv, TypeOK
<1> QED
  BY <1>1, <1>2, <1>3, <1>4, PlainCommand

LEMMA ChannelCommand ==
  ASSUME ShibInv, NEW c \in Fd, cur = c, up, UNCHANGED <<todo, cur, last, up, proved, cl>>,
         nickChannel' \in BOOLEAN, SameUsers => GoodChannels
  PROVE  ShibInv'
<1>1. SameUsers
  BY NoUserChanged DEF ShibInv
<1> QED
  BY <1>1, PlainCommand

LEMMA UserParts ==
  ASSUME NEW r \in UserRec
  PROVE  /\ \A s \in Status : /\ [r EXCEPT !.status = s] \in UserRec
                              /\ [r EXCEPT !.status = s].addr = r.addr
                              /\ [r EXCEPT !.status = s].status = s
         /\ \A w \in Nick : /\ [r EXCEPT !.nick = w] \in UserRec
                            /\ [r EXCEPT !.nick = w].addr = r.addr
                            /\ [r EXCEPT !.nick = w].status = r.status
         /\ \A b \in BOOLEAN : /\ [r EXCEPT !.real = b] \in UserRec
                               /\ [r EXCEPT !.real = b].addr = r.addr
                               /\ [r EXCEPT !.real = b].status = r.status
         /\ \A m \in SUBSET (UserMode \cup {"o"}) :
              /\ [r EXCEPT !.mode = m] \in UserRec
              /\ [r EXCEPT !.mode = m].addr = r.addr
              /\ [r EXCEPT !.mode = m].status = r.status
         /\ r.mode \in SUBSET (UserMode \cup {"o"}) /\ r.status \in Status
BY Zenon DEF UserRec
-----------------------------------------------------------------------------
(* The commands of the login.                                              *)
LEMMA CAPKeeps ==
  ASSUME ShibInv, NEW c \in Fd, CAP(c)
  PROVE  ShibInv'
<1>1. up /\ cur = c /\ UNCHANGED <<todo, cur, last, up, ch, nickChannel>>
  BY DEF CAP, Executes
<1>2. c \in users /\ c # None /\ cl[c] \in UserRec /\ last # "REGISTER"
  <2>1. last \in Status \ {"DELETE"} /\ "CAP" \in admitted(last)
    BY <1>1, Author DEF CAP, Executes, ShibInv
  <2> QED
    BY <1>1, <2>1, Author, UserIsRec DEF admitted, ShibInv
<1>3. cl' = [cl EXCEPT ![c] = [cl[c] EXCEPT !.status = "PASSWORD"]]
  BY DEF CAP
<1>4. "PASSWORD" \in Status
  BY DEF Status
<1>5. SameUsers
  BY <1>2, <1>3, <1>4, UserParts, UserChanged DEF ShibInv
<1>6. GoodChannels
  BY <1>1, <1>5, NoChannelChanged DEF ShibInv
<1>7. proved' = proved \ {c}
  BY DEF CAP
<1>8. TypeOK'
  BY <1>1, <1>5, <1>6, <1>7, CommandKeeps DEF ShibInv, TypeOK
<1>9. UsersProved'
  <2>1. cl'[c].status = "PASSWORD" /\ \A d \in users \ {c} : cl'[d] = cl[d]
    BY <1>2, <1>3, <1>4, UserParts DEF ShibInv, TypeOK, users
  <2> QED
    BY <1>5, <1>7, <2>1 DEF ShibInv, UsersProved, SameUsers
<1>10. StageProved'
  BY <1>1, <1>2 DEF StageProved
<1> QED
  BY <1>6, <1>8, <1>9, <1>10 DEF ShibInv, GoodChannels

LEMMA PASSKeeps ==
  ASSUME ShibInv, NEW c \in Fd, NEW w \in Word, PASS(c, w)
  PROVE  ShibInv'
<1>1. up /\ cur = c /\ UNCHANGED <<todo, cur, last, up, ch, nickChannel>>
  BY DEF PASS, Executes
<1>2. c \in users /\ cl[c] \in UserRec
  BY <1>1, Author, UserIsRec DEF ShibInv
<1>3. cl' = [cl EXCEPT ![c] = [cl[c] EXCEPT !.status = "REGISTER"]]
  BY DEF PASS
<1>4. "REGISTER" \in Status
  BY DEF Status
<1>5. SameUsers
  BY <1>2, <1>3, <1>4, UserParts, UserChanged DEF ShibInv
<1>6. GoodChannels
  BY <1>1, <1>5, NoChannelChanged DEF ShibInv
<1>7. proved' = proved \cup {c}
  BY DEF PASS
<1>8. TypeOK'
  BY <1>1, <1>2, <1>5, <1>6, <1>7, CommandKeeps DEF ShibInv, TypeOK
<1>9. UsersProved'
  <2>1. \A d \in users \ {c} : cl'[d] = cl[d]
    BY <1>2, <1>3 DEF ShibInv, TypeOK, users
  <2> QED
    BY <1>5, <1>7, <2>1 DEF ShibInv, UsersProved, SameUsers
<1>10. StageProved'
  BY <1>1, <1>7 DEF StageProved
<1> QED
  BY <1>6, <1>8, <1>9, <1>10 DEF ShibInv, GoodChannels

(* One user is another record, with the same address.                      *)
ChangesOne ==
  \E d \in users, r \in UserRec :
    /\ r.addr = cl[d].addr /\ r.status \in {cl[d].status, "DELETE"}
    /\ cl' = [cl EXCEPT ![d] = r]

(* The commands that change something else of a user.                      *)
LEMMA UserCommandIs ==
  ASSUME ShibInv, NEW c \in Fd,
         \/ QUIT(c) \/ OPER(c)
         \/ \E w \in Nick : NICK(c, w)
         \/ \E real \in BOOLEAN : USER(c, real)
         \/ \E d \in Fd : KILL(c, d)
         \/ \E d \in Fd, f \in UserMode \cup {"o"}, add \in BOOLEAN : MODE_user(c, d, f, add)
  PROVE  ChangesOne
<1>1. c \in users
  BY Author DEF ShibInv, QUIT, OPER, NICK, USER, KILL, MODE_user, Online, Executes
<1>2. \A d \in users : cl[d] \in UserRec
  BY UserIsRec DEF ShibInv
<1>3. "DELETE" \in Status
  BY DEF Status
<1>4. ASSUME NEW d \in users, cl' = [cl EXCEPT ![d].status = "DELETE"]
      PROVE  ChangesOne
  BY <1>2, <1>3, <1>4, UserParts DEF ChangesOne
<1>5. ASSUME NEW d \in users, NEW m \in SUBSET (UserMode \cup {"o"}),
             cl' = [cl EXCEPT ![d] = [cl[d] EXCEPT !.mode = m]]
      PROVE  ChangesOne
  BY <1>2, <1>5, UserParts DEF ChangesOne
<1>6. CASE QUIT(c)
  BY <1>1, <1>4, <1>6 DEF QUIT
<1>7. CASE OPER(c)
  <2>1. cl[c].mode \cup {"o"} \in SUBSET (UserMode \cup {"o"})
    BY <1>1, <1>2, UserParts
  <2> QED
    BY <1>1, <1>5, <1>7, <2>1 DEF OPER
<1>8. ASSUME NEW w \in Nick, NICK(c, w)
      PROVE  ChangesOne
  <2> DEFINE r == [cl[c] EXCEPT !.nick = w]
  <2>1. cl' = [cl EXCEPT ![c] = r]
    BY <1>8 DEF NICK
  <2>2. r \in UserRec /\ r.addr = cl[c].addr /\ r.status = cl[c].status
    BY <1>1, <1>2, <1>8, UserParts
  <2> HIDE DEF r
  <2> QED
    BY <1>1, <2>1, <2>2 DEF ChangesOne
<1>9. ASSUME NEW real \in BOOLEAN, USER(c, real)
      PROVE  ChangesOne
  BY <1>1, <1>2, <1>9, UserParts DEF USER, ChangesOne
<1>10. ASSUME NEW d \in Fd, KILL(c, d)
      PROVE  ChangesOne
  BY <1>4, <1>10 DEF KILL
<1>11. ASSUME NEW d \in Fd, NEW f \in UserMode \cup {"o"}, NEW add \in BOOLEAN,
              MODE_user(c, d, f, add)
       PROVE  ChangesOne
  <2>1. d \in users /\ cl' = [cl EXCEPT ![d].mode = IF add THEN @ \cup {f} ELSE @ \ {f}]
    BY <1>11 DEF MODE_user
  <2>2. cl[d].mode \cup {f} \in SUBSET (UserMode \cup {"o"})
        /\ cl[d].mode \ {f} \in SUBSET (UserMode \cup {"o"})
    BY <1>2, <2>1, UserParts
  <2>3. CASE add
    BY <1>5, <2>1, <2>2, <2>3
  <2>4. CASE ~add
    BY <1>5, <2>1, <2>2, <2>4
  <2> QED
    BY <2>3, <2>4
<1> QED
  BY <1>6, <1>7, <1>8, <1>9, <1>10, <1>11

LEMMA UserCommandsKeep ==
  ASSUME ShibInv, NEW c \in Fd,
         \/ QUIT(c) \/ OPER(c)
         \/ \E w \in Nick : NICK(c, w)
         \/ \E real \in BOOLEAN : USER(c, real)
         \/ \E d \in Fd : KILL(c, d)
         \/ \E d \in Fd, f \in UserMode \cup {"o"}, add \in BOOLEAN : MODE_user(c, d, f, add)
  PROVE  ShibInv'
<1>1. up /\ cur = c /\ UNCHANGED <<todo, cur, last, up, proved, ch, nickChannel>>
  BY DEF QUIT, OPER, NICK, USER, KILL, MODE_user, Online, Executes
<1> QED
  BY <1>1, UserCommandIs, UserCommand DEF ChangesOne
-----------------------------------------------------------------------------
(* The commands on channels.                                               *)
LEMMA ChannelParts ==
  ASSUME NEW r \in ChannelRec
  PROVE  /\ r.members \in SUBSET Fd /\ r.mode \in SUBSET (Toggle \cup {"n", "k", "l"})
         /\ r.userMode \in [Fd -> SUBSET (Give \cup {"O", "o"})]
         /\ r.invited \in [Addr -> 0 .. MaxInvited]
BY Zenon DEF ChannelRec

LEMMA OneLess ==
  ASSUME NEW x \in 0 .. MaxInvited
  PROVE  /\ (IF x > 0 THEN x - 1 ELSE 0) \in 0 .. MaxInvited
         /\ x < MaxInvited => x + 1 \in 0 .. MaxInvited
<1>1. MaxInvited \in Nat
  BY ShibAssumption
<1> QED
  BY <1>1

LEMMA UserModeReplaced ==
  ASSUME NEW r \in ChannelRec, NEW u \in [Fd -> SUBSET (Give \cup {"O", "o"})]
  PROVE  [r EXCEPT !.userMode = u] \in ChannelRec /\ [r EXCEPT !.userMode = u].members = r.members
BY Zenon DEF ChannelRec

LEMMA InvitedReplaced ==
  ASSUME NEW r \in ChannelRec, NEW v \in [Addr -> 0 .. MaxInvited]
  PROVE  [r EXCEPT !.invited = v] \in ChannelRec /\ [r EXCEPT !.invited = v].members = r.members
BY Zenon DEF ChannelRec

LEMMA ModeReplaced ==
  ASSUME NEW r \in ChannelRec, NEW m \in SUBSET (Toggle \cup {"n", "k", "l"})
  PROVE  [r EXCEPT !.mode = m] \in ChannelRec /\ [r EXCEPT !.mode = m].members = r.members
BY Zenon DEF ChannelRec

LEMMA KeyReplaced ==
  ASSUME NEW r \in ChannelRec, NEW k \in Key \cup {""}
  PROVE  [r EXCEPT !.key = k] \in ChannelRec /\ [r EXCEPT !.key = k].members = r.members
BY Zenon DEF ChannelRec

LEMMA LimitReplaced ==
  ASSUME NEW r \in ChannelRec, NEW l \in Limit \cup {0}
  PROVE  [r EXCEPT !.limit = l] \in ChannelRec /\ [r EXCEPT !.limit = l].members = r.members
BY Zenon DEF ChannelRec

LEMMA JoinEmptySets ==
  ASSUME ShibInv, NEW c \in Fd, NEW n \in ChName, JoinEmpty(c, n)
  PROVE  SetsChannel(c, n)
<1> DEFINE r == IF n \in channels THEN ch[n] ELSE NewChannel
           q == [r EXCEPT !.members = {c}]
           z == [r EXCEPT !.members = {c}, !.userMode[c] = {"O"}]
<1>1. r \in ChannelRec
  BY ChannelIsRec, NewChannelIsRec DEF ShibInv
<1>2. ch' = [ch EXCEPT ![n] = z] /\ MembersOf(ch[n]) = {}
  BY DEF JoinEmpty, MembersOf, channels
<1> HIDE DEF r
<1>3. q \in ChannelRec /\ q.members = {c}
  BY <1>1, MembersReplaced
<1>4. z = [q EXCEPT !.userMode = [q.userMode EXCEPT ![c] = {"O"}]]
  BY <1>1, Zenon DEF ChannelRec
<1>5. [q.userMode EXCEPT ![c] = {"O"}] \in [Fd -> SUBSET (Give \cup {"O", "o"})]
  BY <1>3, ChannelParts
<1> HIDE DEF q
<1>6. z \in ChannelRec /\ z.members = {c}
  BY <1>3, <1>4, <1>5, UserModeReplaced
<1> HIDE DEF z
<1> QED
  BY <1>2, <1>6, SetsRec

LEMMA ExistingRec ==
  ASSUME ShibInv, NEW n \in channels
  PROVE  ch[n] \in ChannelRec /\ MembersOf(ch[n]) = ch[n].members
BY ChannelIsRec DEF ShibInv, channels, MembersOf

LEMMA JoinOthersSets ==
  ASSUME ShibInv, NEW c \in Fd, NEW n \in ChName, NEW k \in Key \cup {""}, JoinOthers(c, n, k)
  PROVE  SetsChannel(c, n)
<1> DEFINE r == ch[n]
           a == cl[c].addr
           q == [r EXCEPT !.members = @ \cup {c}]
           v == [q.invited EXCEPT ![a] = IF @ > 0 THEN @ - 1 ELSE 0]
           z == [q EXCEPT !.invited = v]
<1>1. r \in ChannelRec /\ MembersOf(ch[n]) = r.members /\ r.members \in SUBSET Fd
  BY ExistingRec, ChannelParts DEF JoinOthers
<1>2. ch' = [ch EXCEPT ![n] = z]
  <2>1. ch' = [ch EXCEPT ![n].members = @ \cup {c},
                      ![n].invited[cl[c].addr] = IF @ > 0 THEN @ - 1 ELSE 0]
    BY DEF JoinOthers
  <2>2. ch \in [ChName -> ChannelRec \cup {None}]
    BY DEF ShibInv, TypeOK
  <2> QED
    BY <2>1, <2>2, <1>1, Zenon DEF ChannelRec
<1>3. r.members \cup {c} \in SUBSET Fd
  BY <1>1
<1>4. q \in ChannelRec /\ q.members = r.members \cup {c}
  BY <1>1, <1>3, MembersReplaced
<1>5. q.invited \in [Addr -> 0 .. MaxInvited]
  BY <1>4, ChannelParts
<1> HIDE DEF q
<1>6. v \in [Addr -> 0 .. MaxInvited]
  BY <1>5, OneLess
<1> HIDE DEF v
<1>7. z \in ChannelRec /\ z.members = q.members
  BY <1>4, <1>6, InvitedReplaced
<1> HIDE DEF z
<1>8. z.members = MembersOf(ch[n]) \cup {c}
  BY <1>1, <1>4, <1>7
<1> HIDE DEF r
<1> QED
  BY <1>2, <1>7, <1>8, SetsRec

LEMMA PARTSets ==
  ASSUME ShibInv, NEW c \in Fd, NEW n \in ChName, PART(c, n)
  PROVE  SetsChannel(c, n)
<1> DEFINE r == WithoutUsers(ch, {c})[n]
<1>1. ch' = [ch EXCEPT ![n] = r]
  BY DEF PART
<1>2. r \in ChannelRec \cup {None} /\ MembersOf(r) = MembersOf(ch[n]) \ {c}
  BY WithoutUsersIs DEF ShibInv
<1> HIDE DEF r
<1> QED
  BY <1>1, <1>2 DEF SetsChannel

LEMMA KICKSets ==
  ASSUME ShibInv, NEW c \in Fd, NEW n \in ChName, NEW d \in Fd, KICK(c, n, d)
  PROVE  SetsChannel(c, n)
<1>1. n \in channels /\ ch' = [ch EXCEPT ![n] = [ch[n] EXCEPT !.members = @ \ {d}]]
  BY DEF KICK
<1>2. ch[n] \in ChannelRec /\ MembersOf(ch[n]) = ch[n].members
      /\ ch[n].members \ {d} \in SUBSET Fd
  BY <1>1, ExistingRec, ChannelParts
<1>3. [ch[n] EXCEPT !.members = @ \ {d}] \in ChannelRec
      /\ [ch[n] EXCEPT !.members = @ \ {d}].members = ch[n].members \ {d}
  BY <1>2, MembersReplaced
<1> QED
  BY <1>1, <1>2, <1>3, SetsRec

(* INVITE and MODE: the members stay.                                      *)
LEMMA SetsSame ==
  ASSUME ShibInv, NEW c, NEW n \in channels, NEW r \in ChannelRec,
         r.members = ch[n].members, ch' = [ch EXCEPT ![n] = r]
  PROVE  SetsChannel(c, n)
BY ExistingRec, SetsRec DEF channels

LEMMA INVITESets ==
  ASSUME ShibInv, NEW c \in Fd, NEW n \in ChName, NEW d \in Fd, INVITE(c, d, n)
  PROVE  SetsChannel(c, n) \/ UNCHANGED ch
<1>1. CASE UNCHANGED ch
  BY <1>1
<1>2. CASE ch' # ch
  <2> DEFINE v == [ch[n].invited EXCEPT ![cl[d].addr] = @ + 1]
  <2>1. n \in channels /\ ch[n].invited[cl[d].addr] < MaxInvited
        /\ ch' = [ch EXCEPT ![n].invited[cl[d].addr] = @ + 1]
    BY <1>2 DEF INVITE
  <2>2. ch[n] \in ChannelRec /\ ch[n].invited \in [Addr -> 0 .. MaxInvited]
    BY <2>1, ExistingRec, ChannelParts
  <2>3. v \in [Addr -> 0 .. MaxInvited]
    BY <2>1, <2>2, OneLess
  <2>4. ch' = [ch EXCEPT ![n] = [ch[n] EXCEPT !.invited = v]]
    BY <2>1
  <2> HIDE DEF v
  <2> QED
    BY <2>1, <2>2, <2>3, <2>4, InvitedReplaced, SetsSame
<1> QED
  BY <1>1, <1>2

LEMMA WHOSets ==
  ASSUME ShibInv, NEW c \in Fd, NEW n \in ChName, WHO(c, n)
  PROVE  SetsChannel(c, n)
BY NewChannelIsRec, SetsRec DEF WHO

LEMMA MODESets ==
  ASSUME ShibInv, NEW c \in Fd, NEW n \in ChName, MODE_channel(c, n)
  PROVE  SetsChannel(c, n)
<1>1. n \in channels /\ ch[n] \in ChannelRec
      /\ ch[n].userMode \in [Fd -> SUBSET (Give \cup {"O", "o"})]
  <2>1. n \in channels
    BY DEF MODE_channel, ModeToggle, ModeKey, ModeLimit, check_givemode, Sets
  <2> QED
    BY <2>1, ExistingRec, ChannelParts
<1>2. ASSUME NEW f \in Toggle \cup {"k", "l"}, NEW add \in BOOLEAN
      PROVE  Toggled(n, f, add) \in SUBSET (Toggle \cup {"n", "k", "l"})
  <2>1. ch[n].mode \in SUBSET (Toggle \cup {"n", "k", "l"})
    BY <1>1, ChannelParts
  <2> QED
    BY <2>1 DEF Toggled
<1>3. ASSUME NEW f \in Toggle, NEW add \in BOOLEAN, ModeToggle(c, n, f, add)
      PROVE  SetsChannel(c, n)
  <2> DEFINE m == Toggled(n, f, add)
  <2>1. ch' = [ch EXCEPT ![n] = [ch[n] EXCEPT !.mode = m]]
    BY <1>3 DEF ModeToggle
  <2>2. m \in SUBSET (Toggle \cup {"n", "k", "l"})
    BY <1>2
  <2> HIDE DEF m
  <2> QED
    BY <1>1, <2>1, <2>2, ModeReplaced, SetsSame
<1>4. ASSUME NEW k \in Key \cup {""}, NEW m \in SUBSET (Toggle \cup {"n", "k", "l"}),
             ch' = [ch EXCEPT ![n].key = k, ![n].mode = m]
      PROVE  SetsChannel(c, n)
  <2> DEFINE q == [ch[n] EXCEPT !.key = k]
  <2>1. ch' = [ch EXCEPT ![n] = [q EXCEPT !.mode = m]]
    BY <1>1, <1>4, Zenon DEF ShibInv, TypeOK, ChannelRec
  <2>2. q \in ChannelRec /\ q.members = ch[n].members
    BY <1>1, KeyReplaced
  <2> HIDE DEF q
  <2> QED
    BY <1>1, <2>1, <2>2, ModeReplaced, SetsSame
<1>5. ASSUME NEW l \in Limit \cup {0}, NEW m \in SUBSET (Toggle \cup {"n", "k", "l"}),
             ch' = [ch EXCEPT ![n].limit = l, ![n].mode = m]
      PROVE  SetsChannel(c, n)
  <2> DEFINE q == [ch[n] EXCEPT !.limit = l]
  <2>1. ch' = [ch EXCEPT ![n] = [q EXCEPT !.mode = m]]
    BY <1>1, <1>5, Zenon DEF ShibInv, TypeOK, ChannelRec
  <2>2. q \in ChannelRec /\ q.members = ch[n].members
    BY <1>1, LimitReplaced
  <2> HIDE DEF q
  <2> QED
    BY <1>1, <2>1, <2>2, ModeReplaced, SetsSame
<1>6. ASSUME NEW k \in Key, NEW add \in BOOLEAN, ModeKey(c, n, k, add)
      PROVE  SetsChannel(c, n)
  <2>1. ch' = [ch EXCEPT ![n].key = IF add THEN k ELSE "", ![n].mode = Toggled(n, "k", add)]
    BY <1>6 DEF ModeKey
  <2> QED
    BY <1>2, <1>4, <2>1
<1>7. ASSUME NEW l \in Limit, NEW add \in BOOLEAN, ModeLimit(c, n, l, add)
      PROVE  SetsChannel(c, n)
  <2>1. ch' = [ch EXCEPT ![n].limit = IF add THEN l ELSE 0, ![n].mode = Toggled(n, "l", add)]
    BY <1>7 DEF ModeLimit
  <2> QED
    BY <1>2, <1>5, <2>1
<1>8. ASSUME NEW d \in Fd, NEW g \in Give, NEW add \in BOOLEAN, check_givemode(c, n, d, g, add)
      PROVE  SetsChannel(c, n)
  <2> DEFINE u == [ch[n].userMode EXCEPT ![d] = IF add THEN @ \cup {g} ELSE @ \ {g}]
  <2>1. ch' = [ch EXCEPT ![n] = [ch[n] EXCEPT !.userMode = u]]
    BY <1>8 DEF check_givemode
  <2>2. u \in [Fd -> SUBSET (Give \cup {"O", "o"})]
    BY <1>1
  <2> HIDE DEF u
  <2> QED
    BY <1>1, <2>1, <2>2, UserModeReplaced, SetsSame
<1> QED
  BY <1>3, <1>6, <1>7, <1>8 DEF MODE_channel

(* Every command on one channel.                                           *)
LEMMA ChannelStepIs ==
  ASSUME ShibInv, NEW c \in Fd, NEW n \in ChName, ChannelStep(c, n)
  PROVE  /\ up /\ cur = c /\ UNCHANGED <<todo, cur, last, up, proved, cl>>
         /\ nickChannel' \in BOOLEAN
         /\ SetsChannel(c, n) \/ UNCHANGED ch
<1>1. up /\ cur = c /\ UNCHANGED <<todo, cur, last, up, proved, cl>>
  BY DEF ChannelStep, JoinEmpty, JoinOthers, PART, KICK, INVITE, WHO, MODE_channel,
         ModeToggle, ModeKey, ModeLimit, check_givemode, Sets, OnChannels, Online, Executes
<1>2. nickChannel' \in BOOLEAN
  BY DEF ShibInv, TypeOK, ChannelStep, JoinEmpty, JoinOthers, PART, KICK, INVITE, WHO,
         MODE_channel, ModeToggle, ModeKey, ModeLimit, check_givemode, Sets, OnChannels
<1>3. SetsChannel(c, n) \/ UNCHANGED ch
  BY JoinEmptySets, JoinOthersSets, PARTSets, KICKSets, INVITESets, WHOSets, MODESets
     DEF ChannelStep
<1> QED
  BY <1>1, <1>2, <1>3

LEMMA ChannelStepKeeps ==
  ASSUME ShibInv, NEW c \in Fd, NEW n \in ChName, ChannelStep(c, n)
  PROVE  ShibInv'
<1>1. c \in users
  BY ChannelStepIs, Author DEF ShibInv
<1>2. SameUsers => GoodChannels
  BY <1>1, ChannelStepIs, ChannelChanged, NoChannelChanged DEF ShibInv
<1> QED
  BY <1>2, ChannelStepIs, ChannelCommand
-----------------------------------------------------------------------------
(* The passes.                                                             *)
LEMMA StatusIs ==
  ASSUME TypeOK, NEW c \in users
  PROVE  c \in Fd /\ cl[c] \in UserRec /\ cl[c].status \in Status
<1>1. c \in Fd /\ cl[c] \in UserRec
  BY UserIsRec
<1> QED
  BY <1>1 DEF UserRec

LEMMA NewUserIs ==
  ASSUME NEW a \in Addr
  PROVE  /\ NewUser(a) \in UserRec /\ NewUser(a).addr = a
         /\ NewUser(a).status \in {"CAPLS", "REGISTER"}
         /\ NewUser(a).status = "REGISTER" => password = ""
<1>1. UserMode \cap {"w"} \in SUBSET (UserMode \cup {"o"})
  OBVIOUS
<1>2. ASSUME NEW s \in Status, NEW m \in SUBSET (UserMode \cup {"o"})
      PROVE  [status |-> s, nick |-> "", real |-> FALSE, addr |-> a, mode |-> m] \in UserRec
  BY Zenon DEF UserRec
<1>3. CASE password = ""
  BY <1>1, <1>2, <1>3 DEF NewUser, Status
<1>4. CASE password # ""
  BY <1>1, <1>2, <1>4 DEF NewUser, Status
<1> QED
  BY <1>3, <1>4

LEMMA acceptUserKeeps ==
  ASSUME ShibInv, NEW c \in Fd, NEW a \in Addr, acceptUser(c, a)
  PROVE  ShibInv'
<1> DEFINE r == NewUser(a)
<1>1. /\ Fresh /\ c \in Fd \ users /\ \A d \in users : cl[d].addr # a
      /\ cl' = [cl EXCEPT ![c] = r] /\ todo' = users \cup {c}
      /\ UNCHANGED <<ch, nickChannel, cur, last, up, proved>>
  BY DEF acceptUser
<1>2. r \in UserRec /\ r.addr = a /\ r.status \in {"CAPLS", "REGISTER"}
      /\ (r.status = "REGISTER" => password = "")
  BY NewUserIs
<1> HIDE DEF r
<1>3. cl' \in [Fd -> UserRec \cup {None}] /\ users' = users \cup {c} /\ cl'[c] = r
      /\ \A d \in users : cl'[d] = cl[d]
  <2>1. r # None /\ cl \in [Fd -> UserRec \cup {None}]
    BY <1>2, ShibAssumption DEF ShibInv, TypeOK
  <2>2. cl' \in [Fd -> UserRec \cup {None}] /\ cl'[c] = r /\ \A d \in Fd \ {c} : cl'[d] = cl[d]
    BY <1>1, <1>2, <2>1
  <2> QED
    BY <1>1, <2>1, <2>2 DEF users
<1>4. TypeOK'
  <2>1. \A x, y \in users' : cl'[x].addr = cl'[y].addr => x = y
    <3>1. \A x, y \in users : cl[x].addr = cl[y].addr => x = y
      BY DEF ShibInv, TypeOK
    <3>2. cl'[c].addr = a /\ \A d \in users : cl'[d].addr = cl[d].addr /\ cl[d].addr # a
      BY <1>1, <1>2, <1>3
    <3> QED
      BY <1>3, <3>1, <3>2
  <2>2. \A x \in users' : cl'[x].status # "DELETE"
    BY <1>1, <1>2, <1>3 DEF ShibInv, TypeOK, Fresh
  <2> QED
    BY <1>1, <1>3, <2>1, <2>2 DEF ShibInv, TypeOK, Fresh
<1>5. UsersProved'
  BY <1>1, <1>2, <1>3 DEF ShibInv, UsersProved
<1>6. StageProved' /\ MembersOn'
  BY <1>1, <1>3 DEF ShibInv, StageProved, Fresh, MembersOn
<1> QED
  BY <1>4, <1>5, <1>6 DEF ShibInv

LEMMA delUserKeeps ==
  ASSUME ShibInv, NEW S \in SUBSET users, delUser(S), cur = None,
         \A c \in users \ S : cl[c].status # "DELETE", up
  PROVE  ShibInv'
<1>1. cl' \in [Fd -> UserRec \cup {None}] /\ users' = users \ S
      /\ \A d \in users' : cl'[d] = cl[d]
  BY DEF delUser, ShibInv, TypeOK, users
<1>2. \A n \in ChName : /\ ch'[n] \in ChannelRec \cup {None}
                         /\ MembersOf(ch'[n]) = MembersOf(ch[n]) \ S
  BY WithoutUsersIs DEF delUser, ShibInv
<1>3. ch' \in [ChName -> ChannelRec \cup {None}]
  BY <1>2 DEF delUser, WithoutUsers
<1>4. /\ todo' = users \ S /\ proved' = proved \ S
      /\ UNCHANGED <<nickChannel, cur, last, up>>
  BY DEF delUser
<1>5. TypeOK'
  BY <1>1, <1>3, <1>4 DEF ShibInv, TypeOK
<1>6. UsersProved' /\ StageProved'
  BY <1>1, <1>4 DEF ShibInv, UsersProved, StageProved
<1>7. MembersOn'
  BY <1>1, <1>2 DEF ShibInv, MembersOn
<1> QED
  BY <1>5, <1>6, <1>7 DEF ShibInv

LEMMA PassKeeps ==
  ASSUME ShibInv, (\E S \in SUBSET Fd : sendPing(S)) \/ endPass
  PROVE  ShibInv'
<1>1. ASSUME NEW S \in SUBSET Fd, sendPing(S)
      PROVE  ShibInv'
  BY <1>1, delUserKeeps DEF sendPing, Fresh, ShibInv, TypeOK
<1>2. CASE endPass
  BY <1>2, delUserKeeps DEF endPass
<1> QED
  BY <1>1, <1>2

LEMMA receiveKeeps ==
  ASSUME ShibInv, NEW c \in Fd, receive(c)
  PROVE  ShibInv'
<1>1. /\ up /\ cur = None /\ c \in todo /\ cl[c].status # "DELETE"
      /\ cur' = c /\ last' = cl[c].status /\ todo' = todo \ {c}
      /\ UNCHANGED <<cl, ch, nickChannel, up, proved>>
  BY DEF receive
<1>2. c \in users /\ cl[c].status \in Status /\ users' = users /\ c # None
      /\ cl[c].status # None
  BY <1>1, StatusIs, ShibAssumption DEF ShibInv, TypeOK, users
<1>3. TypeOK'
  BY <1>1, <1>2, ShibAssumption DEF ShibInv, TypeOK
<1>4. UsersProved' /\ StageProved' /\ MembersOn'
  BY <1>1, <1>2 DEF ShibInv, UsersProved, StageProved, MembersOn
<1> QED
  BY <1>3, <1>4 DEF ShibInv

LEMMA receiveNothingKeeps ==
  ASSUME ShibInv, NEW c \in Fd, receiveNothing(c)
  PROVE  ShibInv'
<1> DEFINE r == [cl[c] EXCEPT !.status = "DELETE"]
<1>1. /\ up /\ cur = None /\ c \in todo
      /\ cl' = [cl EXCEPT ![c] = r] /\ todo' = todo \ {c}
      /\ UNCHANGED <<ch, nickChannel, cur, last, up, proved>>
  BY DEF receiveNothing
<1>2. c \in users /\ cl[c] \in UserRec /\ "DELETE" \in Status
  BY <1>1, StatusIs DEF ShibInv, TypeOK, Status
<1>3. r \in UserRec /\ r.addr = cl[c].addr /\ r.status = "DELETE"
  BY <1>2, UserParts
<1> HIDE DEF r
<1>4. SameUsers
  BY <1>1, <1>2, <1>3, UserChanged DEF ShibInv
<1>5. GoodChannels
  BY <1>1, <1>4, NoChannelChanged DEF ShibInv
<1>6. TypeOK'
  <2>1. \A x, y \in users' : cl'[x].addr = cl'[y].addr => x = y
    BY <1>4 DEF ShibInv, TypeOK, SameUsers
  <2>2. todo' # users'
    BY <1>1, <1>2, <1>4 DEF SameUsers
  <2> QED
    BY <1>1, <1>4, <1>5, <2>1, <2>2 DEF ShibInv, TypeOK, SameUsers, GoodChannels
<1>7. UsersProved' /\ StageProved'
  <2>1. cl'[c] = r /\ \A d \in users \ {c} : cl'[d] = cl[d]
    BY <1>1, <1>2 DEF ShibInv, TypeOK, users
  <2> QED
    BY <1>1, <1>3, <1>4, <2>1 DEF ShibInv, UsersProved, StageProved, SameUsers
<1> QED
  BY <1>5, <1>6, <1>7 DEF ShibInv, GoodChannels

(* The end of a dispatch: that the last stage was REGISTER is as good as   *)
(* the status it overwrites.                                               *)
LEMMA dispatchedKeeps ==
  ASSUME ShibInv, NEW c \in Fd, dispatched(c)
  PROVE  ShibInv'
<1> DEFINE s == IF last = "REGISTER" /\ cl[c].nick # "" /\ cl[c].real
                THEN "ONLINE" ELSE cl[c].status
           r == [cl[c] EXCEPT !.status = s]
<1>1. /\ up /\ cur = c /\ cl' = [cl EXCEPT ![c] = r]
      /\ UNCHANGED <<ch, nickChannel, todo, up, proved>>
  BY DEF dispatched
<1>2. \/ s \in {last, "DELETE"} /\ cur' = None /\ last' = None
      \/ s \notin {last, "DELETE"} /\ cur' = c /\ last' = s
  BY <1>1 DEF dispatched
<1>3. c \in users /\ c # None /\ cl[c] \in UserRec /\ cl[c].status \in Status
      /\ last \in Status
  BY <1>1, Author, StatusIs DEF ShibInv
<1>4. s \in Status /\ (s \in {"REGISTER", "ONLINE"} => password = "" \/ c \in proved)
  BY <1>1, <1>3 DEF Status, ShibInv, UsersProved, StageProved
<1> HIDE DEF s
<1>5. r \in UserRec /\ r.addr = cl[c].addr /\ r.status = s
  BY <1>3, <1>4, UserParts
<1> HIDE DEF r
<1>6. SameUsers
  BY <1>1, <1>3, <1>5, UserChanged DEF ShibInv
<1>7. GoodChannels
  BY <1>1, <1>6, NoChannelChanged DEF ShibInv
<1>8. TypeOK'
  <2>1. \A x, y \in users' : cl'[x].addr = cl'[y].addr => x = y
    BY <1>6 DEF ShibInv, TypeOK, SameUsers
  <2>2. cl'[c].status = s /\ \A d \in users \ {c} : cl'[d] = cl[d]
    BY <1>1, <1>3, <1>5 DEF ShibInv, TypeOK, users
  <2>3. c \notin todo
    BY <1>1, <1>3 DEF ShibInv, TypeOK
  <2>4. todo' # users'
    BY <1>1, <1>3, <1>6, <2>3 DEF SameUsers
  <2>5. cur' \in (users' \ todo') \cup {None} /\ (last' = None <=> cur' = None)
        /\ last' \in (Status \ {"DELETE"}) \cup {None}
    BY <1>1, <1>2, <1>3, <1>4, <1>6, <2>3, ShibAssumption DEF SameUsers
  <2> QED
    BY <1>1, <1>6, <1>7, <2>1, <2>4, <2>5 DEF ShibInv, TypeOK, SameUsers, GoodChannels
<1>9. UsersProved' /\ StageProved'
  <2>1. cl'[c].status = s /\ \A d \in users \ {c} : cl'[d] = cl[d]
    BY <1>1, <1>3, <1>5 DEF ShibInv, TypeOK, users
  <2> QED
    BY <1>1, <1>2, <1>4, <1>6, <2>1 DEF ShibInv, UsersProved, StageProved, SameUsers
<1> QED
  BY <1>7, <1>8, <1>9 DEF ShibInv, GoodChannels

(* The process ends.                                                       *)
LEMMA DownKeeps ==
  ASSUME ShibInv, Down
  PROVE  ShibInv' /\ users' = {} /\ \A n \in ChName : MembersOf(ch[n])' = {}
<1>1. users' = {} /\ \A n \in ChName : ch'[n] = None
  BY DEF Down, users
<1> QED
  BY <1>1 DEF Down, ShibInv, TypeOK, UsersProved, StageProved, MembersOn, MembersOf

LEMMA leaveAllChannelsKeeps ==
  ASSUME ShibInv, NEW c \in Fd, leaveAllChannels(c), ~Down
  PROVE  ShibInv'
<1>1. OnChannels(c) /\ ch' = WithoutUsers(ch, {c})
  BY DEF leaveAllChannels
<1>2. up /\ cur = c /\ UNCHANGED <<todo, cur, last, up, proved, cl, nickChannel>>
  BY <1>1 DEF OnChannels, Online, Executes
<1>3. \A n \in ChName : /\ ch'[n] \in ChannelRec \cup {None}
                         /\ MembersOf(ch'[n]) = MembersOf(ch[n]) \ {c}
  BY <1>1, WithoutUsersIs DEF ShibInv
<1>4. ch' \in [ChName -> ChannelRec \cup {None}]
  BY <1>1, <1>3 DEF WithoutUsers
<1>5. SameUsers => GoodChannels
  BY <1>3, <1>4 DEF SameUsers, GoodChannels, ShibInv, MembersOn
<1>6. nickChannel' \in BOOLEAN
  BY <1>2 DEF ShibInv, TypeOK
<1> QED
  BY <1>2, <1>5, <1>6, ChannelCommand
-----------------------------------------------------------------------------
LEMMA InitKeeps == Init => ShibInv
<1> SUFFICES ASSUME Init
             PROVE  ShibInv
  OBVIOUS
<1>1. users = {} /\ \A n \in ChName : ch[n] = None
  BY DEF Init, users
<1> QED
  BY <1>1 DEF Init, ShibInv, TypeOK, UsersProved, StageProved, MembersOn, MembersOf

LEMMA StepKeeps == ShibInv /\ [Next]_vars => ShibInv'
<1> SUFFICES ASSUME ShibInv, [Next]_vars
             PROVE  ShibInv'
  OBVIOUS
<1>1. ASSUME NEW c \in Fd, UserStep(c)
      PROVE  ShibInv'
  <2>1. CASE \E a \in Addr : acceptUser(c, a)
    BY <2>1, acceptUserKeeps
  <2>2. CASE receive(c) \/ receiveNothing(c) \/ dispatched(c)
    BY <2>2, receiveKeeps, receiveNothingKeeps, dispatchedKeeps
  <2>3. CASE Undefined(c)
    BY <2>3, DownKeeps DEF Undefined
  <2>4. CASE CAP(c)
    BY <2>4, CAPKeeps
  <2>5. CASE leaveAllChannels(c)
    BY <2>5, DownKeeps, leaveAllChannelsKeeps
  <2>6. CASE \E w \in Word : PASS(c, w)
    BY <2>6, PASSKeeps
  <2>7. CASE \/ QUIT(c) \/ OPER(c)
             \/ \E w \in Nick : NICK(c, w)
             \/ \E real \in BOOLEAN : USER(c, real)
             \/ \E d \in Fd : KILL(c, d)
             \/ \E d \in Fd, f \in UserMode \cup {"o"}, add \in BOOLEAN : MODE_user(c, d, f, add)
    BY <2>7, UserCommandsKeep
  <2> QED
    BY <1>1, <2>1, <2>2, <2>3, <2>4, <2>5, <2>6, <2>7 DEF UserStep
<1>2. ASSUME NEW c \in Fd, NEW n \in ChName, ChannelStep(c, n)
      PROVE  ShibInv'
  BY <1>2, ChannelStepKeeps
<1>3. CASE (\E S \in SUBSET Fd : sendPing(S)) \/ endPass
  BY <1>3, PassKeeps
<1>4. CASE Interrupt
  BY <1>4, DownKeeps DEF Interrupt
<1>5. CASE UNCHANGED vars
  BY <1>5 DEF vars, ShibInv, TypeOK, UsersProved, StageProved, MembersOn, MembersOf,
              users
<1> QED
  BY <1>1, <1>2, <1>3, <1>4, <1>5 DEF Next

LEMMA Invariant == Spec => []ShibInv
BY InitKeeps, StepKeeps, PTL DEF Spec

(* The states of ShibRC are well formed (TypeOK): among other things a     *)
(* pass begins without anybody marked DELETE, and what dispatch remembers  *)
(* is a status exactly while a client's commands are run.                  *)
THEOREM ShibTypeCorrect == Spec => []TypeOK
<1>1. ShibInv => TypeOK
  BY DEF ShibInv
<1> QED
  BY <1>1, Invariant, PTL

(* Nobody has the status of a client past the password, or commands that   *)
(* are executed as those of the stage after it, without having given it    *)
(* since it last began to log in (LoginProved), although dispatch goes by  *)
(* the status it began with, and overwrites it in the end.                 *)
THEOREM LoginsAreProved == Spec => []LoginProved
<1>1. ShibInv => LoginProved
  BY DEF ShibInv, UsersProved, StageProved, LoginProved
<1> QED
  BY <1>1, Invariant, PTL
-----------------------------------------------------------------------------
(* Refinement: what a step does to the users and to the members, put in    *)
(* the terms of Membership.                                                *)
RoomsStep == Rooms!Next \/ UNCHANGED Rooms!vars

(* The members of every channel, as the refinement has them.               *)
In == [n \in ChName |-> MembersOf(ch[n])]

LEMMA InIs ==
  /\ In = [n \in ChName |-> IF n \in channels THEN ch[n].members ELSE {}]
  /\ In' = [n \in ChName |-> IF n \in channels' THEN ch'[n].members ELSE {}]
BY DEF In, MembersOf, channels

LEMMA InOn ==
  ASSUME ShibInv
  PROVE  In \in [ChName -> SUBSET users] /\ users \subseteq Fd
BY DEF ShibInv, MembersOn, In, users

LEMMA StaysTheSame ==
  ASSUME users' = users, In' = In
  PROVE  RoomsStep
BY InIs DEF RoomsStep, Rooms!vars

LEMMA OnlyLeaves ==
  ASSUME ShibInv, users' = users, \A n \in ChName : In'[n] \subseteq In[n]
  PROVE  RoomsStep
<1>1. In \in [ChName -> SUBSET Fd] /\ In' \in [ChName -> SUBSET Fd]
  BY InOn DEF In
<1>2. CASE In' = In
  BY <1>2, StaysTheSame
<1>3. CASE In' # In
  <2>1. Rooms!Leave
    BY <1>1, <1>3, InIs DEF Rooms!Leave
  <2> QED
    BY <2>1 DEF RoomsStep, Rooms!Next
<1> QED
  BY <1>2, <1>3

LEMMA OneEnters ==
  ASSUME ShibInv, users' = users, NEW c \in users, NEW n \in ChName,
         In' = [In EXCEPT ![n] = @ \cup {c}]
  PROVE  RoomsStep
<1>1. In \in [ChName -> SUBSET Fd] /\ c \in Fd
  BY InOn
<1>2. CASE c \in In[n]
  BY <1>1, <1>2, StaysTheSame
<1>3. CASE c \notin In[n]
  <2>1. Rooms!Enter(c, n)
    BY <1>3, InIs DEF Rooms!Enter
  <2> QED
    BY <1>1, <2>1 DEF RoomsStep, Rooms!Next
<1> QED
  BY <1>2, <1>3

LEMMA Deleted ==
  ASSUME ShibInv, NEW S \in SUBSET users, users' = users \ S,
         \A n \in ChName : In'[n] = In[n] \ S
  PROVE  RoomsStep
<1>1. In \in [ChName -> SUBSET Fd] /\ S \in SUBSET Fd
  BY InOn
<1>2. In' = [n \in ChName |-> In[n] \ S]
  BY DEF In
<1>3. CASE S = {}
  <2>1. In' = In
    BY <1>2, <1>3 DEF In
  <2> QED
    BY <1>3, <2>1, StaysTheSame
<1>4. CASE S # {}
  <2>1. Rooms!Disconnect(S)
    BY <1>2, <1>4, InIs DEF Rooms!Disconnect
  <2> QED
    BY <1>1, <2>1 DEF RoomsStep, Rooms!Next
<1> QED
  BY <1>3, <1>4

LEMMA AllDeleted ==
  ASSUME ShibInv, Down
  PROVE  RoomsStep
<1>1. users' = users \ users /\ \A n \in ChName : In'[n] = In[n] \ users
  BY InOn, DownKeeps DEF In
<1> QED
  BY <1>1, Deleted

LEMMA ChannelRooms ==
  ASSUME ShibInv, NEW c \in Fd, NEW n \in ChName, ChannelStep(c, n)
  PROVE  RoomsStep
<1>1. c \in users /\ users' = users
  BY ChannelStepIs, Author DEF ShibInv, users
<1>2. CASE UNCHANGED ch
  BY <1>1, <1>2, StaysTheSame DEF In
<1>3. CASE SetsChannel(c, n)
  <2>1. PICK r \in ChannelRec \cup {None} :
           /\ ch' = [ch EXCEPT ![n] = r]
           /\ MembersOf(r) \subseteq MembersOf(ch[n]) \/ MembersOf(r) = MembersOf(ch[n]) \cup {c}
    BY <1>3 DEF SetsChannel
  <2>2. In' = [In EXCEPT ![n] = MembersOf(r)] /\ In[n] = MembersOf(ch[n])
    BY <2>1 DEF In, ShibInv, TypeOK
  <2>3. CASE MembersOf(r) \subseteq MembersOf(ch[n])
    <3>1. \A m \in ChName : In'[m] \subseteq In[m]
      BY <2>2, <2>3, InOn
    <3> QED
      BY <1>1, <3>1, OnlyLeaves
  <2>4. CASE MembersOf(r) = MembersOf(ch[n]) \cup {c}
    <3>1. In' = [In EXCEPT ![n] = @ \cup {c}]
      BY <2>2, <2>4
    <3> QED
      BY <1>1, <3>1, OneEnters
  <2> QED
    BY <2>1, <2>3, <2>4
<1> QED
  BY <1>2, <1>3, ChannelStepIs

(* A step of the login or of the passes that changes no channel.           *)
LEMMA LoginRooms ==
  ASSUME ShibInv, SameUsers, UNCHANGED ch
  PROVE  RoomsStep
BY StaysTheSame DEF SameUsers, In

LEMMA UserRooms ==
  ASSUME ShibInv, NEW c \in Fd, UserStep(c)
  PROVE  RoomsStep
<1>1. ASSUME NEW a \in Addr, acceptUser(c, a)
      PROVE  RoomsStep
  <2>1. c \notin users /\ users' = users \cup {c} /\ In' = In
    <3>1. NewUser(a) # None
      BY NewUserIs, ShibAssumption
    <3> QED
      BY <1>1, <3>1 DEF acceptUser, ShibInv, TypeOK, users, In
  <2>2. Rooms!Connect(c)
    BY <2>1, InIs DEF Rooms!Connect
  <2> QED
    BY <2>2 DEF RoomsStep, Rooms!Next
<1>2. CASE receive(c)
  BY <1>2, StaysTheSame DEF receive, users, In
<1>3. CASE leaveAllChannels(c)
  <2>1. CASE Down
    BY <2>1, AllDeleted
  <2>2. CASE ~Down
    <3>1. ch' = WithoutUsers(ch, {c}) /\ UNCHANGED cl
      BY <1>3, <2>2 DEF leaveAllChannels, OnChannels
    <3>2. \A n \in ChName : In'[n] \subseteq In[n]
      BY <3>1, WithoutUsersIs DEF ShibInv, In
    <3> QED
      BY <3>1, <3>2, OnlyLeaves DEF users
  <2> QED
    BY <2>1, <2>2
<1>4. CASE Undefined(c)
  BY <1>4, AllDeleted DEF Undefined
<1>5. ASSUME NEW d \in users, NEW r \in UserRec, cl' = [cl EXCEPT ![d] = r], UNCHANGED ch
      PROVE  RoomsStep
  BY <1>5, StaysTheSame, ShibAssumption DEF users, In, ShibInv, TypeOK
<1>6. CASE UNCHANGED ch /\ \E d \in users, r \in UserRec : cl' = [cl EXCEPT ![d] = r]
  BY <1>5, <1>6
<1>7. ASSUME NEW s \in Status, cur = c \/ c \in todo,
             cl' = [cl EXCEPT ![c] = [cl[c] EXCEPT !.status = s]], UNCHANGED ch
      PROVE  RoomsStep
  <2>1. c \in users
    BY <1>7, Author DEF ShibInv, TypeOK
  <2>2. [cl[c] EXCEPT !.status = s] \in UserRec
    BY <2>1, StatusIs, UserParts DEF ShibInv
  <2> QED
    BY <1>5, <1>7, <2>1, <2>2
<1>8. CASE receiveNothing(c) \/ dispatched(c)
  <2>1. (cur = c \/ c \in todo) /\ UNCHANGED ch
    BY <1>8 DEF receiveNothing, dispatched
  <2>2. "DELETE" \in Status /\ "ONLINE" \in Status /\ cl[c].status \in Status
    BY <2>1, Author, StatusIs DEF ShibInv, TypeOK, Status
  <2>3. \E s \in Status : cl' = [cl EXCEPT ![c] = [cl[c] EXCEPT !.status = s]]
    BY <1>8, <2>2 DEF receiveNothing, dispatched
  <2> QED
    BY <1>7, <2>1, <2>3
<1>9. CASE CAP(c) \/ \E w \in Word : PASS(c, w)
  BY <1>7, <1>9 DEF CAP, PASS, Executes, Status
<1>10. CASE \/ QUIT(c) \/ OPER(c)
            \/ \E w \in Nick : NICK(c, w)
            \/ \E real \in BOOLEAN : USER(c, real)
            \/ \E d \in Fd : KILL(c, d)
            \/ \E d \in Fd, f \in UserMode \cup {"o"}, add \in BOOLEAN : MODE_user(c, d, f, add)
  <2>1. UNCHANGED ch
    BY <1>10 DEF QUIT, OPER, NICK, USER, KILL, MODE_user
  <2> QED
    BY <1>5, <1>10, <2>1, UserCommandIs DEF ChangesOne
<1> QED
  BY <1>1, <1>2, <1>3, <1>4, <1>8, <1>9, <1>10 DEF UserStep

(* The members are members of Membership, and nobody stays on a channel    *)
(* who is gone: every pass, login and command of ShibRC is a step of       *)
(* Membership or changes nothing of it (RoomsSpec).                        *)
THEOREM ShibKeepsRooms == Spec => RoomsSpec
<1>1. Init => Rooms!Init
  BY InIs DEF Init, users, channels, Rooms!Init
<1>2. ShibInv /\ [Next]_vars => [Rooms!Next]_Rooms!vars
  <2> SUFFICES ASSUME ShibInv, [Next]_vars
               PROVE  RoomsStep
    BY DEF RoomsStep
  <2>1. ASSUME NEW S \in SUBSET users, delUser(S)
        PROVE  RoomsStep
    <3>1. users' = users \ S
      BY <2>1 DEF delUser, users
    <3>2. \A n \in ChName : In'[n] = In[n] \ S
      BY <2>1, WithoutUsersIs DEF delUser, ShibInv, In
    <3> QED
      BY <3>1, <3>2, Deleted
  <2>2. CASE (\E S \in SUBSET Fd : sendPing(S)) \/ endPass
    BY <2>1, <2>2 DEF sendPing, endPass
  <2>3. CASE Interrupt
    BY <2>3, AllDeleted DEF Interrupt
  <2>4. CASE UNCHANGED vars
    BY <2>4, StaysTheSame DEF vars, users, In
  <2> QED
    BY <2>2, <2>3, <2>4, UserRooms, ChannelRooms DEF Next
<1> QED
  BY <1>1, <1>2, Invariant, PTL DEF Spec, RoomsSpec, Rooms!Spec

(* ... so nobody is on a channel of ShibRC who is not connected.           *)
THEOREM ShibMembersConnected == Spec => []Rooms!Inside
<1>1. ShibInv => Rooms!Inside
  BY DEF ShibInv, MembersOn, MembersOf, channels, Rooms!Inside
<1> QED
  BY <1>1, Invariant, PTL
=============================================================================
