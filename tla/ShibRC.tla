-------------------------------- MODULE ShibRC --------------------------------
(***************************************************************************)
(* The server of project/alexandre_hallaine, ShibRC: the passes of its     *)
(* loop, the four stages of a login, and its channels.                     *)
(*                                                                         *)
(* A pass accepts one client, or looks for silent ones, or reads each      *)
(* readable one once; then the clients marked DELETE are deleted.  Reading *)
(* a client dispatches its commands: those the stage admits are executed,  *)
(* the others stay queued, and when the stage has changed the queue is     *)
(* dispatched again.  A client may send a command whenever it likes, so    *)
(* the queue itself is left out: each dispatch executes any number of the  *)
(* commands it admits.  A list of JOIN, PART or KICK is that many          *)
(* commands, and so is a string of mode letters.                           *)
(*                                                                         *)
(* Topics, away messages and what is only printed are left out, and so are *)
(* PRIVMSG, NOTICE and the commands that only reply.                       *)
(***************************************************************************)
EXTENDS Naturals, FiniteSets

CONSTANTS
  Fd,          \* the descriptors accept() gives out
  Addr,        \* the addresses a User may have; invitations are kept by them
  None,        \* no client, no channel
  max,         \* the max of the configuration
  password,    \* the server's, perhaps empty
  Word,        \* what PASS tries
  Nick,        \* nicknames NICK accepts, none of them empty
  ChName,      \* channel names, that begin with #
  Toggle,      \* the letters of channel_togglemode that are used, of "imnpt"
  Key,         \* keys of +k
  Limit,       \* what atoi reads from the argument of +l
  Give,        \* the letters of channel_givemode that MODE gives, of "ov"
  UserMode,    \* the letters of user_mode that are used, of "iwr"
  MaxInvited,  \* bounds: how often one address is invited to one channel,
  MaxModes     \*   and how many letters the mode of a channel has

VARIABLES
  cl,          \* cl[c]: the User behind descriptor c, or None
  ch,          \* ch[n]: the Channel called n, or None
  nickChannel, \* there is a channel that INVITE has named after a nickname
  todo,        \* the clients this pass may still read; all when it begins
  cur,         \* the client whose commands are dispatched, or None
  last,        \* dispatch's last_status, None when nothing is dispatched
  up,          \* the process runs
  proved       \* clients that gave the password since they last asked to

vars == <<cl, ch, nickChannel, todo, cur, last, up, proved>>

Status == {"CAPLS", "PASSWORD", "REGISTER", "ONLINE", "DELETE"}

(* The users of the server and its channels, but those of nicknames.       *)
users == {c \in Fd : cl[c] # None}
channels == {n \in ChName : ch[n] # None}

UserRec == [status : Status, nick : Nick \cup {""}, real : BOOLEAN, addr : Addr,
            mode : SUBSET (UserMode \cup {"o"})]

ChannelRec == [members : SUBSET Fd, userMode : [Fd -> SUBSET (Give \cup {"O", "o"})],
               mode : SUBSET (Toggle \cup {"n", "k", "l"}), key : Key \cup {""},
               limit : Limit \cup {0}, invited : [Addr -> 0 .. MaxInvited]]

ASSUME ShibAssumption ==
  /\ None \notin Fd /\ None \notin Status /\ None \notin UserRec /\ None \notin ChannelRec
  /\ MaxInvited \in Nat

TypeOK ==
  /\ cl \in [Fd -> UserRec \cup {None}]
  /\ ch \in [ChName -> ChannelRec \cup {None}]
  /\ \A c, d \in users : cl[c].addr = cl[d].addr => c = d
  /\ todo \subseteq users
  /\ cur \in (users \ todo) \cup {None}
  /\ last \in (Status \ {"DELETE"}) \cup {None} /\ (last = None <=> cur = None)
  /\ cur = None /\ todo = users => \A c \in users : cl[c].status # "DELETE"
  /\ {nickChannel, up} \subseteq BOOLEAN
  /\ proved \subseteq users
  /\ ~up => users = {}

(* The constructors of User and Channel.                                   *)
NewUser(a) == [status |-> IF password = "" THEN "REGISTER" ELSE "CAPLS",
               nick |-> "", real |-> FALSE, addr |-> a, mode |-> UserMode \cap {"w"}]

NewChannel == [members |-> {}, userMode |-> [c \in Fd |-> {}], mode |-> {"n"}, key |-> "",
               limit |-> 0, invited |-> [a \in Addr |-> 0]]

Init ==
  /\ cl = [c \in Fd |-> None] /\ ch = [n \in ChName |-> None]
  /\ nickChannel = FALSE /\ up = TRUE
  /\ todo = {} /\ cur = None /\ last = None /\ proved = {}
-----------------------------------------------------------------------------
(* Server::execute.                                                        *)

(* A pass begins: nobody has been read.                                    *)
Fresh == up /\ cur = None /\ todo = users

(* Mutant of WithoutUsers: a client is taken off the channels it runs.     *)
WithoutOperators(f, S) ==
  [n \in ChName |->
     IF f[n] = None THEN None
     ELSE LET gone == {c \in S \cap f[n].members : f[n].userMode[c] # {}}
          IN  IF gone # {} /\ f[n].members \subseteq gone THEN None
              ELSE [f[n] EXCEPT !.members = @ \ gone]]

(* The channels without S: those that this leaves empty go, those that     *)
(* were empty stay.  What MODE gave to a descriptor stays with it.         *)
WithoutUsers(f, S) ==
  [n \in ChName |->
     IF f[n] = None THEN None
     ELSE IF f[n].members \cap S # {} /\ f[n].members \subseteq S THEN None
     ELSE [f[n] EXCEPT !.members = @ \ S]]

(* delUser, for all of S, at the end of a pass.                            *)
delUser(S) ==
  /\ ch' = WithoutUsers(ch, S)
  /\ cl' = [c \in Fd |-> IF c \in S THEN None ELSE cl[c]]
  /\ todo' = users \ S
  /\ proved' = proved \ S
  /\ UNCHANGED <<nickChannel, cur, last, up>>

(* One client too many, and the listening socket is shut down for good:    *)
(* that nobody is accepted from then on is among what this allows.         *)
acceptUser(c, a) ==
  /\ Fresh /\ c \notin users /\ \A d \in users : cl[d].addr # a
  /\ Cardinality(users) < max
  /\ cl' = [cl EXCEPT ![c] = NewUser(a)]
  /\ todo' = users \cup {c}
  /\ UNCHANGED <<ch, nickChannel, cur, last, up, proved>>

(* Mutant of sendPing: who is silent is only marked.                       *)
sendPingMarks(S) ==
  /\ Fresh /\ S # {} /\ S \subseteq users
  /\ cl' = [c \in Fd |-> IF c \in S THEN [cl[c] EXCEPT !.status = "DELETE"] ELSE cl[c]]
  /\ UNCHANGED <<ch, nickChannel, todo, cur, last, up, proved>>

(* The clients of S have sent no PONG for the timeout.                     *)
sendPing(S) == Fresh /\ S # {} /\ S \subseteq users /\ delUser(S)

(* A client that is readable is read; one that is marked is passed over.   *)
receive(c) ==
  /\ up /\ cur = None /\ c \in todo /\ cl[c].status # "DELETE"
  /\ cur' = c /\ last' = cl[c].status
  /\ todo' = todo \ {c}
  /\ UNCHANGED <<cl, ch, nickChannel, up, proved>>

receiveNothing(c) ==
  /\ up /\ cur = None /\ c \in todo
  /\ cl' = [cl EXCEPT ![c].status = "DELETE"]
  /\ todo' = todo \ {c}
  /\ UNCHANGED <<ch, nickChannel, cur, last, up, proved>>

(* What follows the reading.                                               *)
endPass ==
  /\ up /\ cur = None /\ todo # users
  /\ delUser({c \in users : cl[c].status = "DELETE"})

(* The process ends, and every client with it.                             *)
Down ==
  /\ up' = FALSE /\ cl' = [c \in Fd |-> None] /\ ch' = [n \in ChName |-> None]
  /\ nickChannel' = FALSE /\ todo' = {} /\ cur' = None
  /\ last' = None /\ proved' = {}

(* SIGINT is seen when a pass is over.                                     *)
Interrupt == Fresh /\ Down
-----------------------------------------------------------------------------
(* User::dispatch.                                                         *)

(* Mutant of admitted: CAP may be sent at every stage.                     *)
admittedWithCap(stage) ==
  CASE stage = "CAPLS" -> {"CAP"}
    [] stage = "PASSWORD" -> {"PASS", "CAP"}
    [] stage = "REGISTER" -> {"NICK", "USER", "CAP"}
    [] stage = "ONLINE" -> {"any", "CAP", "PASS", "NICK", "USER"}

(* The commands a stage lets through; "any" is every other one.            *)
admitted(stage) ==
  CASE stage = "CAPLS" -> {"CAP"}
    [] stage = "PASSWORD" -> {"PASS"}
    [] stage = "REGISTER" -> {"NICK", "USER"}
    [] stage = "ONLINE" -> {"any", "CAP", "PASS", "NICK", "USER"}

(* A command of c is executed: by the stage the dispatch began in, which   *)
(* an earlier command of the same dispatch may have ended.                 *)
Executes(c, command) ==
  /\ up /\ cur = c /\ command \in admitted(last)
  /\ UNCHANGED <<todo, cur, last, up>>

(* The end of a dispatch: who has both names is online, and a new stage    *)
(* has what is queued dispatched again.                                    *)
dispatched(c) ==
  /\ up /\ cur = c
  /\ LET s == IF last = "REGISTER" /\ cl[c].nick # "" /\ cl[c].real
              THEN "ONLINE" ELSE cl[c].status
     IN  /\ cl' = [cl EXCEPT ![c].status = s]
         /\ IF s \in {last, "DELETE"} THEN cur' = None /\ last' = None
                                      ELSE last' = s /\ UNCHANGED cur
  /\ UNCHANGED <<ch, nickChannel, todo, up, proved>>

(* CAP and KICK read parameters that they may not have been given.         *)
Undefined(c) == up /\ cur = c /\ last \in {"CAPLS", "ONLINE"} /\ Down
-----------------------------------------------------------------------------
(* Registration.                                                           *)

(* CAP LS starts the login anew, online or marked DELETE as one may be.    *)
CAP(c) ==
  /\ Executes(c, "CAP")
  /\ cl' = [cl EXCEPT ![c].status = "PASSWORD"]
  /\ proved' = proved \ {c}
  /\ UNCHANGED <<ch, nickChannel>>

PASS(c, w) ==
  /\ Executes(c, "PASS") /\ cl[c].status = "PASSWORD"
  /\ w = password
  /\ cl' = [cl EXCEPT ![c].status = "REGISTER"]
  /\ proved' = proved \cup {c}
  /\ UNCHANGED <<ch, nickChannel>>

NICK(c, w) ==
  /\ Executes(c, "NICK") /\ "r" \notin cl[c].mode
  /\ \A d \in users : cl[d].nick # w
  /\ cl' = [cl EXCEPT ![c].nick = w]
  /\ UNCHANGED <<ch, nickChannel, proved>>

(* The real name is what follows the colon, and may be empty.              *)
USER(c, real) ==
  /\ Executes(c, "USER") /\ cl[c].status = "REGISTER"
  /\ cl' = [cl EXCEPT ![c].real = real]
  /\ UNCHANGED <<ch, nickChannel, proved>>

(* What every other command asks for, and leaves alone.                    *)
Online(c) == Executes(c, "any") /\ UNCHANGED proved

QUIT(c) ==
  /\ Online(c)
  /\ cl' = [cl EXCEPT ![c].status = "DELETE"]
  /\ UNCHANGED <<ch, nickChannel>>

(* OPER with the name and the password of the configuration.               *)
OPER(c) ==
  /\ Online(c)
  /\ cl' = [cl EXCEPT ![c].mode = @ \cup {"o"}]
  /\ UNCHANGED <<ch, nickChannel>>

(* Whoever has a nickname is found by it, and by an empty word a client    *)
(* that has none yet: so for the next ones too.                            *)
KILL(c, d) ==
  /\ Online(c) /\ "o" \in cl[c].mode /\ d \in users
  /\ cl' = [cl EXCEPT ![d].status = "DELETE"]
  /\ UNCHANGED <<ch, nickChannel>>

(* MODE on a nickname: one's own, or an operator on anybody's.             *)
MODE_user(c, d, f, add) ==
  /\ Online(c) /\ d \in users
  /\ d = c \/ "o" \in cl[c].mode
  /\ f = "o" \/ (f = "r" /\ ~add) => "o" \in cl[c].mode
  /\ cl' = [cl EXCEPT ![d].mode = IF add THEN @ \cup {f} ELSE @ \ {f}]
  /\ UNCHANGED <<ch, nickChannel>>
-----------------------------------------------------------------------------
(* Channels.                                                               *)

(* By the descriptor, whoever held it when the mode was given, and on the  *)
(* channel or not.                                                         *)
IsOperator(c, n) == "o" \in cl[c].mode \/ {"O", "o"} \cap ch[n].userMode[c] # {}

(* What the commands on channels leave alone.                              *)
OnChannels(c) == Online(c) /\ UNCHANGED <<cl, nickChannel>>

(* JOIN of a channel without members, which need not be a new one: no mode *)
(* is looked at.                                                           *)
JoinEmpty(c, n) ==
  /\ OnChannels(c)
  /\ n \in channels => ch[n].members = {}
  /\ LET r == IF n \in channels THEN ch[n] ELSE NewChannel
     IN  ch' = [ch EXCEPT ![n] = [r EXCEPT !.members = {c}, !.userMode[c] = {"O"}]]

JoinOthers(c, n, k) ==
  /\ OnChannels(c) /\ n \in channels /\ ch[n].members # {}
  /\ "k" \in ch[n].mode => ch[n].key = k
  /\ "l" \in ch[n].mode => Cardinality(ch[n].members) < ch[n].limit
  /\ "i" \in ch[n].mode => ch[n].invited[cl[c].addr] > 0 \/ "o" \in cl[c].mode
  /\ ch' = [ch EXCEPT ![n].members = @ \cup {c},
                      ![n].invited[cl[c].addr] = IF @ > 0 THEN @ - 1 ELSE 0]

(* JOIN 0 leaves every channel of the server; the first one that the       *)
(* client is not on, or that nobody is, has erase() called with end().     *)
leaveAllChannels(c) ==
  IF nickChannel \/ \E n \in channels : c \notin ch[n].members
  THEN up /\ cur = c /\ last = "ONLINE" /\ Down
  ELSE OnChannels(c) /\ ch' = WithoutUsers(ch, {c})

PART(c, n) ==
  /\ OnChannels(c) /\ n \in channels /\ c \in ch[n].members
  /\ ch' = [ch EXCEPT ![n] = WithoutUsers(ch, {c})[n]]

(* A channel that KICK empties stays, with all its modes.                  *)
KICK(c, n, d) ==
  /\ OnChannels(c) /\ n \in channels /\ IsOperator(c, n)
  /\ d \in ch[n].members
  /\ ch' = [ch EXCEPT ![n].members = @ \ {d}]

(* INVITE looks the nickname up among the channels, which makes one of it. *)
INVITE(c, d, n) ==
  /\ Online(c) /\ UNCHANGED cl /\ d \in users
  /\ nickChannel' = TRUE
  /\ ch' = IF /\ n \in channels /\ c \in ch[n].members
              /\ "i" \in ch[n].mode => IsOperator(c, n)
              /\ ch[n].invited[cl[d].addr] < MaxInvited
           THEN [ch EXCEPT ![n].invited[cl[d].addr] = @ + 1] ELSE ch

(* WHO makes the channel it asks about.                                    *)
WHO(c, n) ==
  /\ OnChannels(c) /\ n \notin channels
  /\ ch' = [ch EXCEPT ![n] = NewChannel]

(* MODE on a channel, letter by letter.                                    *)
Sets(c, n) == OnChannels(c) /\ n \in channels /\ IsOperator(c, n)

(* check_togglemode, on the mode of a channel.                             *)
Toggled(n, f, add) == IF add THEN ch[n].mode \cup {f} ELSE ch[n].mode \ {f}

HasModesLeft(n, f, add) == Cardinality(Toggled(n, f, add)) <= MaxModes

ModeToggle(c, n, f, add) ==
  /\ Sets(c, n) /\ HasModesLeft(n, f, add)
  /\ ch' = [ch EXCEPT ![n].mode = Toggled(n, f, add)]

(* +k where there is no key, -k with the key there is.                     *)
ModeKey(c, n, k, add) ==
  /\ Sets(c, n) /\ HasModesLeft(n, "k", add)
  /\ IF add THEN "k" \notin ch[n].mode ELSE "k" \in ch[n].mode /\ ch[n].key = k
  /\ ch' = [ch EXCEPT ![n].key = IF add THEN k ELSE "",
                      ![n].mode = Toggled(n, "k", add)]

ModeLimit(c, n, l, add) ==
  /\ Sets(c, n) /\ HasModesLeft(n, "l", add)
  /\ ch' = [ch EXCEPT ![n].limit = IF add THEN l ELSE 0,
                      ![n].mode = Toggled(n, "l", add)]

check_givemode(c, n, d, g, add) ==
  /\ Sets(c, n) /\ d \in ch[n].members
  /\ ch' = [ch EXCEPT ![n].userMode[d] = IF add THEN @ \cup {g} ELSE @ \ {g}]

MODE_channel(c, n) ==
  \/ \E f \in Toggle, add \in BOOLEAN : ModeToggle(c, n, f, add)
  \/ \E k \in Key, add \in BOOLEAN : ModeKey(c, n, k, add)
  \/ \E l \in Limit, add \in BOOLEAN : ModeLimit(c, n, l, add)
  \/ \E d \in Fd, g \in Give, add \in BOOLEAN : check_givemode(c, n, d, g, add)
-----------------------------------------------------------------------------
UserStep(c) ==
  \/ \E a \in Addr : acceptUser(c, a)
  \/ receive(c) \/ receiveNothing(c) \/ dispatched(c) \/ Undefined(c)
  \/ CAP(c) \/ QUIT(c) \/ OPER(c) \/ leaveAllChannels(c)
  \/ \E w \in Word : PASS(c, w)
  \/ \E w \in Nick : NICK(c, w)
  \/ \E real \in BOOLEAN : USER(c, real)
  \/ \E d \in Fd : KILL(c, d)
  \/ \E d \in Fd, f \in UserMode \cup {"o"}, add \in BOOLEAN : MODE_user(c, d, f, add)

ChannelStep(c, n) ==
  \/ JoinEmpty(c, n) \/ PART(c, n) \/ WHO(c, n) \/ MODE_channel(c, n)
  \/ \E k \in Key \cup {""} : JoinOthers(c, n, k)
  \/ \E d \in Fd : KICK(c, n, d) \/ INVITE(c, d, n)

Next ==
  \/ \E c \in Fd : UserStep(c)
  \/ \E c \in Fd, n \in ChName : ChannelStep(c, n)
  \/ \E S \in SUBSET Fd : sendPing(S)
  \/ endPass \/ Interrupt

Spec == Init /\ [][Next]_vars
-----------------------------------------------------------------------------
(* Whoever has the status of a client past the password, and whoever has   *)
(* commands executed as those of the stage REGISTER, has given it since it *)
(* last asked to log in, in whatever order its commands were queued, and   *)
(* although the end of that stage overwrites the status.  It says nothing  *)
(* of the dispatch of an online client that holds a CAP LS: the rest of it *)
(* is executed as online, NICK too, and only the next one asks again.      *)
LoginProved ==
  /\ \A c \in users :
       cl[c].status \in {"REGISTER", "ONLINE"} => password = "" \/ c \in proved
  /\ cur # None /\ last = "REGISTER" => password = "" \/ cur \in proved

(* What the servers promise about their channels.                          *)
Rooms == INSTANCE Membership WITH
           Client <- Fd, Room <- ChName, on <- users,
           in <- [n \in ChName |-> IF n \in channels THEN ch[n].members ELSE {}]
RoomsSpec == Rooms!Spec
=============================================================================
