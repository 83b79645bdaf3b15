-------------------------------- MODULE Boris --------------------------------
(***************************************************************************)
(* The server of project/boris: the life of a client, its channels and     *)
(* what its loop does about silence, RESTART and SIGINT.                   *)
(*                                                                         *)
(* A Client is its address in memory: the lists of operators and speakers  *)
(* of a channel hold addresses, are not cleaned when a Client is deleted,  *)
(* and `new Client()` may use an address again.  The server has a Client   *)
(* of its own, which no connection stands behind but which has a nickname. *)
(*                                                                         *)
(* A list of JOIN or PART is that many commands, and so is a string of     *)
(* mode letters; the lists of KICK, whose elements act on each other, are  *)
(* modelled as lists.  A command that is refused, or only reads, leaves    *)
(* what Answer leaves.                                                     *)
(***************************************************************************)
EXTENDS Integers, Sequences, FiniteSets, Functions, SequencesExt

CONSTANTS
  Cli,         \* the addresses a Client of a connection may have
  Self,        \* the server's own Client
  Nick,        \* nicknames checkNickName accepts, none of them empty
  serverName,  \* set.serverName, the nickname of Self
  lower,       \* toLower, on the nicknames
  ChName,      \* channel names createChannel accepts
  Key,         \* keys, none of them empty
  Number,      \* what strtol reads from the argument of +l
  UMAX,        \* numeric_limits<unsigned int>::max()
  Flag,        \* the mode letters of a channel that are flags, of "psitnm"
  Mask,        \* ban masks
  fits,        \* fits[m]: the clients whose host fits the mask m
  Topic,       \* topics, none of them empty
  UserModes,   \* the flags MODE sets for a client that are used
  opers,       \* the operators of the settings file
  Signals,     \* the signals that come
  Slow,        \* the clients that do not always read what they are sent
  Lists,       \* the channel lists and the target lists of KICK
  Targets,
  MaxOpers,    \* bounds: how often one address is in the list of operators,
  MaxEntries,  \*   and an address or a mask in that of speakers or of bans
  MaxIdle      \* bound: 0 when no time passes, 2 when it does

VARIABLES
  on,          \* the keys of _clientMap but the server's own
  cl,          \* the Client at each address, blank when there is none
  ch,          \* the Channel of each name, blank when there is none
  status,      \* Server::_status: 1 run, -1 restart, 0 stop
  phase        \* where Server::run is: "loop", "send" (one that does not return),
               \*   "boot" (restarting), "down"

vars == <<on, cl, ch, status, phase>>

Addr == Cli \cup {Self}
Name == Nick \cup {serverName}

(* idle: 0 when _lastping is up to 30 s old, 1 up to checkdelay, 2 more.   *)
(* asked: _lastping is negative, that is, a PING was sent.                 *)
NoClient == [nick |-> "", user |-> FALSE, flags |-> {}, invited |-> {},
             idle |-> 0, asked |-> FALSE]

NoChannel == [members |-> {}, oper |-> [a \in Addr |-> 0], speaker |-> [a \in Addr |-> 0],
              flags |-> {}, key |-> "", limit |-> UMAX, topic |-> "",
              ban |-> [m \in Mask |-> 0]]

(* The keys of _channelCollection.                                         *)
chs == {n \in ChName : ch[n] # NoChannel}

(* The constructor of Channel.                                             *)
NewChannel(c) == [NoChannel EXCEPT !.members = {c}, !.oper[c] = 1]

UserFlag == {"INVISIBLE", "SERVER_NOTICE", "WALLOPS"}

ClientRec == [nick : Nick \cup {""}, user : BOOLEAN, invited : SUBSET ChName,
              flags : SUBSET ({"PASS_ENTERED", "ACTIVE", "IRC_OPERATOR"} \cup UserFlag),
              idle : 0 .. MaxIdle, asked : BOOLEAN]

ChannelRec == [members : SUBSET Cli, oper : [Addr -> 0 .. MaxOpers],
               speaker : [Addr -> 0 .. MaxEntries], flags : SUBSET Flag,
               key : Key \cup {""}, limit : 0 .. UMAX, topic : Topic \cup {""},
               ban : [Mask -> 0 .. MaxEntries]]

ASSUME BorisAssumption ==
  /\ "" \notin Nick /\ UserModes \subseteq UserFlag /\ Number \subseteq Int
  /\ UMAX \in Nat /\ MaxOpers \in Nat \ {0} /\ MaxEntries \in Nat /\ MaxIdle \in Nat

TypeOK ==
  /\ on \subseteq Cli
  /\ cl \in [Cli -> ClientRec]
  /\ \A c \in Cli \ on : cl[c] = NoClient
  /\ ch \in [ChName -> ChannelRec]
  /\ \A n \in chs : ch[n].members # {}
  /\ status \in {-1, 0, 1}
  /\ phase \in {"loop", "send", "boot", "down"}

Init ==
  /\ on = {}
  /\ cl = [c \in Cli |-> NoClient]
  /\ ch = [n \in ChName |-> NoChannel]
  /\ status = 1 /\ phase = "loop"
-----------------------------------------------------------------------------
(* CommandProcessor::exec.                                                 *)

Registered(c) == {"PASS_ENTERED", "ACTIVE"} \subseteq cl[c].flags

(* A command other than PASS, NICK, USER and QUIT is executed.             *)
Ready(c) == phase = "loop" /\ c \in on /\ Registered(c)

(* updateLastPing, before every command that is executed.                  *)
Heard(c) == [cl[c] EXCEPT !.idle = 0, !.asked = FALSE]

(* What most commands leave alone.                                         *)
Only(changed) ==
  /\ UNCHANGED <<on, status, phase>>
  /\ "ch" \notin changed => UNCHANGED ch
  /\ "cl" \notin changed => UNCHANGED cl

(* A command with a reply and nothing else: PING, PONG, USERHOST, NAMES,   *)
(* WHO, LIST, an unknown one, and every one that ends with an error.       *)
Answer(c) ==
  /\ phase = "loop" /\ c \in on
  /\ cl' = [cl EXCEPT ![c] = Heard(c)]
  /\ Only({"cl"})

(* The process ends or the loop does, and every client and channel goes.   *)
Gone(p) ==
  /\ phase' = p
  /\ on' = {} /\ cl' = [c \in Cli |-> NoClient] /\ ch' = [n \in ChName |-> NoChannel]
  /\ UNCHANGED status

(* LIST of an unknown channel, WHO and MODE +l without their argument read *)
(* through NULL or past the end of _args: the process may die of it.       *)
Undefined(c) == Ready(c) /\ Gone("down")
-----------------------------------------------------------------------------
(* Registration.                                                           *)

(* connectClient.                                                          *)
connectClient(r) ==
  IF r.nick # "" /\ r.user THEN [r EXCEPT !.flags = @ \cup {"ACTIVE"}] ELSE r

Accept(c) ==
  /\ phase = "loop" /\ c \notin on
  /\ on' = on \cup {c}
  /\ UNCHANGED <<cl, ch, status, phase>>

(* PASS with the right password, the first time.                           *)
Pass(c) ==
  /\ phase = "loop" /\ c \in on /\ "PASS_ENTERED" \notin cl[c].flags
  /\ cl' = [cl EXCEPT ![c] = [Heard(c) EXCEPT !.flags = @ \cup {"PASS_ENTERED"}]]
  /\ Only({"cl"})

(* Mutant of isNicknameFree: the server's own Client is forgotten.         *)
isNicknameFreeOfClients(n) == \A c \in on : cl[c].nick # "" => lower[cl[c].nick] # lower[n]

(* Over all clients, the one that asks and the server's own included.      *)
isNicknameFree(n) ==
  /\ lower[serverName] # lower[n]
  /\ \A c \in on : cl[c].nick # "" => lower[cl[c].nick] # lower[n]

NickCmd(c, n) ==
  /\ phase = "loop" /\ c \in on /\ "PASS_ENTERED" \in cl[c].flags
  /\ n = cl[c].nick \/ isNicknameFree(n)
  /\ cl' = [cl EXCEPT ![c] = connectClient([Heard(c) EXCEPT !.nick = n])]
  /\ Only({"cl"})

(* NICK with an empty word: no clash unless some client has no nickname,   *)
(* and checkNickName finds nothing wrong with it.                          *)
NickEmpty(c) ==
  /\ phase = "loop" /\ c \in on /\ "PASS_ENTERED" \in cl[c].flags
  /\ cl[c].nick # "" => \A d \in on : cl[d].nick # ""
  /\ cl' = [cl EXCEPT ![c] = [Heard(c) EXCEPT !.nick = ""]]
  /\ Only({"cl"})

UserCmd(c) ==
  /\ phase = "loop" /\ c \in on /\ "PASS_ENTERED" \in cl[c].flags
  /\ ~cl[c].user
  /\ cl' = [cl EXCEPT ![c] = connectClient([Heard(c) EXCEPT !.user = TRUE])]
  /\ Only({"cl"})

(* OPER with a name of the settings file and its password.                 *)
Oper(c, o) ==
  /\ Ready(c)
  /\ cl' = [cl EXCEPT ![c] = [Heard(c) EXCEPT !.flags = @ \cup {"IRC_OPERATOR"}]]
  /\ Only({"cl"})

(* MODE on the client's own nickname.                                      *)
ModeUser(c, f, add) ==
  /\ Ready(c) /\ cl[c].nick # ""
  /\ cl' = [cl EXCEPT ![c] = [Heard(c) EXCEPT !.flags = IF add THEN @ \cup {f} ELSE @ \ {f}]]
  /\ Only({"cl"})
-----------------------------------------------------------------------------
(* Coming and going.                                                       *)

(* getClientByName, exact; nobody is called by an empty word.              *)
Named(w) == {c \in on : cl[c].nick = w} \cup (IF w = serverName THEN {Self} ELSE {})

IsOper(c, n) == ch[n].oper[c] > 0

(* Channel::deleteClient: off the members, and one entry off the operators.*)
deleteClient(r, S) ==
  [r EXCEPT !.members = @ \ S,
            !.oper = [a \in Addr |-> IF a \in S /\ @[a] > 0 THEN @[a] - 1 ELSE @[a]]]

(* updateChannelOper: the only operator leaves, others stay.               *)
Inherits(r, c) ==
  /\ r.oper[c] = 1 /\ \A a \in Addr \ {c} : r.oper[a] = 0
  /\ r.members # {c}

(* PART and QUIT of c.  heir: the first in the vector of the members but c,*)
(* an order that is left open here.                                        *)
Departed(r, c, heir) ==
  deleteClient([r EXCEPT !.oper[heir] = IF Inherits(r, c) THEN @ + 1 ELSE @], {c})

IsHeir(heir, r, c) == IF Inherits(r, c) THEN heir \in r.members \ {c} ELSE heir = c

(* Mutant of deleteEmptyChannel: what is left empty stays.                 *)
keepEmptyChannel(f) == f

(* deleteEmptyChannel, wherever members have left.                         *)
deleteEmptyChannel(f) == [n \in ChName |-> IF f[n].members = {} THEN NoChannel ELSE f[n]]

isBanned(c, n) == \E m \in Mask : ch[n].ban[m] > 0 /\ c \in fits[m]

(* The limit of a channel leaves room for one more.                        *)
HasRoom(n) == Cardinality(ch[n].members) < ch[n].limit

(* JOIN of a channel that does not exist, with a key or without.           *)
JoinNew(c, n, k) ==
  /\ Ready(c) /\ n \notin chs
  /\ ch' = [ch EXCEPT ![n] = [NewChannel(c) EXCEPT !.key = k]]
  /\ cl' = [cl EXCEPT ![c] = Heard(c)]
  /\ Only({"cl", "ch"})

(* JOIN of one that exists: checkExistChannel.  Asking for an invitation   *)
(* uses it up, whether the client comes in or is banned or there already.  *)
JoinOld(c, n, k) ==
  /\ Ready(c) /\ n \in chs
  /\ ch[n].key \in {"", k} /\ HasRoom(n)
  /\ "i" \in ch[n].flags => n \in cl[c].invited
  /\ cl' = [cl EXCEPT ![c] = [Heard(c) EXCEPT !.invited =
                                IF "i" \in ch[n].flags THEN @ \ {n} ELSE @]]
  /\ ch' = [ch EXCEPT ![n].members = IF isBanned(c, n) THEN @ ELSE @ \cup {c}]
  /\ Only({"cl", "ch"})

Part(c, n, heir) ==
  /\ Ready(c) /\ c \in ch[n].members /\ IsHeir(heir, ch[n], c)
  /\ ch' = deleteEmptyChannel([ch EXCEPT ![n] = Departed(@, c, heir)])
  /\ cl' = [cl EXCEPT ![c] = Heard(c)]
  /\ Only({"cl", "ch"})

(* Mutant of Quit: the channels are left, not those the client runs.       *)
QuitAsPlain(c, heirs) ==
  /\ phase = "loop" /\ c \in on
  /\ \A n \in ChName : IsHeir(heirs[n], ch[n], c)
  /\ ch' = deleteEmptyChannel([n \in ChName |->
             IF c \in ch[n].members /\ ~IsOper(c, n) THEN Departed(ch[n], c, heirs[n]) ELSE ch[n]])
  /\ cl' = [cl EXCEPT ![c] = NoClient]
  /\ on' = on \ {c}
  /\ UNCHANGED <<status, phase>>

(* QUIT, in every phase of the registration, and removeClient, which is    *)
(* QUIT in the name of a client that hung up or was silent.  Only the      *)
(* channels it is a member of are told, and forget it.                     *)
Quit(c, heirs) ==
  /\ phase = "loop" /\ c \in on
  /\ \A n \in ChName : IsHeir(heirs[n], ch[n], c)
  /\ ch' = deleteEmptyChannel([n \in ChName |->
             IF c \in ch[n].members THEN Departed(ch[n], c, heirs[n]) ELSE ch[n]])
  /\ cl' = [cl EXCEPT ![c] = NoClient]
  /\ on' = on \ {c}
  /\ UNCHANGED <<status, phase>>

(* The channels of the list ns that KICK gets to: an i++ at the end of the *)
(* loop's body makes it pass over the one after each that it dealt with.   *)
Reached(c, ns) ==
  LET f[i \in 1 .. Len(ns) + 2] ==
        IF i > Len(ns) THEN {}
        ELSE IF c \in ch[ns[i]].members /\ IsOper(c, ns[i]) THEN {ns[i]} \cup f[i + 2]
        ELSE f[i + 1]
  IN  f[1]

(* The members of n among the nicknames of ts.                             *)
Hit(n, ts) == {d \in ch[n].members : cl[d].nick \in ToSet(ts)}

(* KICK.  A channel that a target which is not the last leaves empty is    *)
(* freed and used for the rest, which find nobody or crash.                *)
Kick(c, ns, ts) ==
  /\ Ready(c)
  /\ LET reached == Reached(c, ns)
     IN  /\ ch' = deleteEmptyChannel([n \in ChName |->
                    IF n \in reached THEN deleteClient(ch[n], Hit(n, ts)) ELSE ch[n]])
         /\ phase' \in IF \E n \in reached : Hit(n, Front(ts)) = ch[n].members
                       THEN {"loop", "down"} ELSE {"loop"}
  /\ cl' = [cl EXCEPT ![c] = Heard(c)]
  /\ UNCHANGED <<on, status>>

(* INVITE: whoever invites need not be on the channel.                     *)
Invite(c, w, n) ==
  /\ Ready(c) /\ n \in chs
  /\ "i" \in ch[n].flags => IsOper(c, n)
  /\ \E t \in Named(w) \ {Self} :
       /\ t \notin ch[n].members
       /\ cl' = [[cl EXCEPT ![c] = Heard(c)] EXCEPT ![t].invited = @ \cup {n}]
  /\ Only({"cl"})
-----------------------------------------------------------------------------
(* The modes of a channel.                                                 *)

(* MODE and TOPIC by a member, heard whatever comes of it.                 *)
Member(c, n) ==
  /\ Ready(c) /\ c \in ch[n].members
  /\ cl' = [cl EXCEPT ![c] = Heard(c)]
  /\ Only({"cl", "ch"})

TopicCmd(c, n, t) ==
  /\ Member(c, n)
  /\ "t" \in ch[n].flags => IsOper(c, n)
  /\ ch' = [ch EXCEPT ![n].topic = t]

ModeFlag(c, n, f, add) ==
  /\ Member(c, n) /\ IsOper(c, n)
  /\ ch' = [ch EXCEPT ![n].flags = IF add THEN @ \cup {f} ELSE @ \ {f}]

(* +k and -k both set a key, where there is none; none is ever removed.    *)
ModeKey(c, n, k) ==
  /\ Member(c, n) /\ IsOper(c, n) /\ ch[n].key = ""
  /\ ch' = [ch EXCEPT ![n].key = k]

(* +l: strtol's result as an int and then as an unsigned; -l: no limit.    *)
ModeLimit(c, n, l) ==
  /\ Member(c, n) /\ IsOper(c, n)
  /\ ch' = [ch EXCEPT ![n].limit = l % (UMAX + 1)]

ModeBan(c, n, m, add) ==
  /\ Member(c, n) /\ IsOper(c, n)
  /\ add => ch[n].ban[m] < MaxEntries
  /\ ch' = [ch EXCEPT ![n].ban[m] = IF add THEN @ + 1 ELSE IF @ > 0 THEN @ - 1 ELSE 0]

(* +o and -o: of anybody by nickname, member or not, as often as you like. *)
ModeOper(c, n, w, add) ==
  /\ Member(c, n) /\ IsOper(c, n)
  /\ \E t \in Named(w) :
       /\ add => ch[n].oper[t] < MaxOpers
       /\ ch' = [ch EXCEPT ![n].oper[t] = IF add THEN @ + 1 ELSE IF @ > 0 THEN @ - 1 ELSE 0]

(* +v and -v, likewise.                                                    *)
ModeSpeak(c, n, w, add) ==
  /\ Member(c, n) /\ IsOper(c, n)
  /\ \E t \in Named(w) :
       /\ add => ch[n].speaker[t] < MaxEntries
       /\ ch' = [ch EXCEPT ![n].speaker[t] = IF add THEN @ + 1 ELSE IF @ > 0 THEN @ - 1 ELSE 0]

(* execModeChannel, letter by letter.                                      *)
ModeChannel(c, n) ==
  \/ \E f \in Flag, add \in BOOLEAN : ModeFlag(c, n, f, add)
  \/ \E k \in Key : ModeKey(c, n, k)
  \/ \E l \in Number \cup {UMAX} : ModeLimit(c, n, l)
  \/ \E m \in Mask, add \in BOOLEAN : ModeBan(c, n, m, add)
  \/ \E w \in Name, add \in BOOLEAN : ModeOper(c, n, w, add) \/ ModeSpeak(c, n, w, add)
-----------------------------------------------------------------------------
(* The loop.                                                               *)

(* The sockets of the clients block, so a send() to one that does not read *)
(* (the PING of checkClients, a reply, a message to a channel) holds up    *)
(* the only thread, between the steps above or below ...                   *)
Blocks(c) ==
  /\ phase = "loop" /\ c \in on \cap Slow
  /\ phase' = "send"
  /\ UNCHANGED <<on, cl, ch, status>>

(* ... until the client reads, or its connection breaks.                   *)
Unblocks ==
  /\ phase = "send"
  /\ phase' = "loop"
  /\ UNCHANGED <<on, cl, ch, status>>

(* Time passes for what c last said, whatever the thread does.             *)
Tick(c) ==
  /\ phase \in {"loop", "send"} /\ c \in on /\ cl[c].idle < MaxIdle
  /\ cl' = [cl EXCEPT ![c].idle = @ + 1]
  /\ Only({"cl"})

(* checkClients, at one client that is to be asked ...                     *)
Ask(c) ==
  /\ phase = "loop" /\ c \in on /\ cl[c].idle = 1 /\ ~cl[c].asked
  /\ cl' = [cl EXCEPT ![c].asked = TRUE]
  /\ Only({"cl"})

(* Mutant of Silence: whoever has been asked is passed over for good.      *)
SilenceUnasked(c, heirs) == cl[c].idle = 2 /\ ~cl[c].asked /\ Quit(c, heirs)

(* ... and at one that is to be dropped, asked or not.                     *)
Silence(c, heirs) == cl[c].idle = 2 /\ Quit(c, heirs)

(* SIGINT; what is left of the pass is still done.                         *)
Interrupt(s) ==
  /\ phase # "down" /\ status # 0
  /\ status' = 0
  /\ UNCHANGED <<on, cl, ch, phase>>

Restart(c) ==
  /\ Ready(c) /\ "IRC_OPERATOR" \in cl[c].flags
  /\ status' = -1
  /\ cl' = [cl EXCEPT ![c] = Heard(c)]
  /\ UNCHANGED <<on, ch, phase>>

(* The loop of run() ends, and everything is deleted.                      *)
LoopEnd ==
  /\ phase = "loop" /\ status # 1
  /\ Gone(IF status = -1 THEN "boot" ELSE "down")

(* run() again; a SIGINT that came since the loop ended is overwritten.    *)
Boot ==
  /\ phase = "boot"
  /\ status' = 1 /\ phase' = "loop"
  /\ UNCHANGED <<on, cl, ch>>
-----------------------------------------------------------------------------
Heirs == [ChName -> Cli]

ClientStep(c) ==
  \/ Accept(c) \/ Pass(c) \/ UserCmd(c) \/ NickEmpty(c) \/ Answer(c)
  \/ Undefined(c) \/ Restart(c) \/ Blocks(c) \/ Tick(c) \/ Ask(c)
  \/ \E n \in Nick : NickCmd(c, n)
  \/ \E o \in opers : Oper(c, o)
  \/ \E f \in UserModes, add \in BOOLEAN : ModeUser(c, f, add)
  \/ \E heirs \in Heirs : Quit(c, heirs) \/ Silence(c, heirs)

ChannelStep(c, n) ==
  \/ \E k \in Key \cup {""} : JoinNew(c, n, k) \/ JoinOld(c, n, k)
  \/ \E h \in Cli : Part(c, n, h)
  \/ \E w \in Nick : Invite(c, w, n)
  \/ \E t \in Topic : TopicCmd(c, n, t)
  \/ ModeChannel(c, n)

Next ==
  \/ \E c \in Cli : ClientStep(c)
  \/ \E c \in Cli, n \in ChName : ChannelStep(c, n)
  \/ \E c \in Cli, ns \in Lists, ts \in Targets : Kick(c, ns, ts)
  \/ (\E s \in Signals : Interrupt(s)) \/ Unblocks \/ LoopEnd \/ Boot

Spec == Init /\ [][Next]_vars

(* Time passes, and every pass that ends has come to each client in        *)
(* checkClients.  Whether a send() ends is up to the clients, so Silence,  *)
(* which is held up by it, is given strong fairness, and Unblocks none.    *)
FairSpec ==
  /\ Spec
  /\ \A c \in Cli : /\ WF_vars(Tick(c))
                    /\ SF_vars(\E heirs \in Heirs : Silence(c, heirs))
-----------------------------------------------------------------------------
(* No two clients answer to one nickname, whatever the case, nor does one  *)
(* answer to the server's: getClientByName takes the first it finds, so a  *)
(* second would lose its messages and its invitations to the other.        *)
NickUnique ==
  \A c \in on : cl[c].nick # "" =>
    /\ lower[cl[c].nick] # lower[serverName]
    /\ \A d \in on \ {c} : cl[d].nick # "" => lower[cl[d].nick] # lower[cl[c].nick]

(* What the servers promise about their channels.                          *)
Rooms == INSTANCE Membership WITH Client <- Cli, Room <- ChName,
                                  in <- [n \in ChName |-> ch[n].members]
RoomsSpec == Rooms!Spec

(* If every send() ends, then a client that stays silent is gone in the    *)
(* end, and one that has not registered, whose commands are refused before *)
(* they count as a sign of life, is no exception.  One client that does    *)
(* not read, and does not go either, keeps all the silent ones: nothing    *)
(* but the listening socket is set not to block.                           *)
SilentLeaves ==
  []<>(phase # "send") =>
    \A c \in Cli : (c \in on) ~> (c \notin on \/ cl[c].idle = 0)
=============================================================================
