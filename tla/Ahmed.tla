-------------------------------- MODULE Ahmed --------------------------------
(***************************************************************************)
(* The server of project/AhmedFatir: registration, channels and the end of *)
(* a client.                                                               *)
(*                                                                         *)
(* A channel holds copies of its clients, each with the descriptor and the *)
(* nickname of the time it joined; NICK changes the client and none of its *)
(* copies.  Some of the code finds a copy by descriptor and some by        *)
(* nickname, which stop being the same as soon as somebody is renamed.     *)
(*                                                                         *)
(* The vectors are sequences: what is found is the first, and erasing one  *)
(* moves the rest under the index of the loop.  A list of JOIN, PART or    *)
(* KICK is that many commands; the parameters of MODE are the ones that    *)
(* getCmdArgs leaves.  A refused command changes nothing and is no step.   *)
(***************************************************************************)
EXTENDS Integers, Sequences, FiniteSets, SequencesExt

CONSTANTS
  Fd,            \* the descriptors accept() returns
  Nick,          \* nicknames is_validNickname accepts, "*" not among them
  ChName,        \* the names of channels, without their #
  Key,           \* keys that validPassword accepts
  Limit,         \* limits that isvalid_limit accepts
  Topic,         \* topics
  ModeCmds,      \* the mode strings: sequences of changes, see Apply
  Position,      \* the places in the channel list of KICK, from 0
  MAX_CHANNELS,  \* 10, the most channels a nickname may be on
  MaxInvites     \* bound: how often one channel is in ChannelsInvite

VARIABLES
  clients,       \* the descriptors with a Client in the vector
  cl,            \* the Client of each, blank when there is none
  channels,      \* the vector of channels
  up             \* the process runs

vars == <<clients, cl, channels, up>>

NoClient == [nick |-> "", user |-> FALSE, registered |-> FALSE, logedin |-> FALSE,
             invites |-> [n \in ChName |-> 0]]

ClientRec == [nick : Nick \cup {"", "*"}, user : BOOLEAN, registered : BOOLEAN,
              logedin : BOOLEAN, invites : [ChName -> 0 .. MaxInvites]]

(* The letters of a mode string are records of the mode, whether it is set *)
(* and what it is given.                                                   *)
ASSUME AhmedAssumption ==
  /\ "" \notin Nick /\ "*" \notin Nick /\ MaxInvites \in Nat /\ Position \subseteq Nat
  /\ \A ms \in ModeCmds :
       /\ Len(ms) \in Nat
       /\ \A i \in 1 .. Len(ms) :
            /\ ms[i].mode \in {"i", "t", "k", "l", "o"} /\ ms[i].add \in BOOLEAN
            /\ ms[i].add /\ ms[i].mode = "k" => ms[i].arg \in Key
            /\ ms[i].add /\ ms[i].mode = "l" => ms[i].arg \in Limit

Copy == [fd : Fd, nick : Nick]
copyOf(c) == [fd |-> c, nick |-> cl[c].nick]

(* Channel, opened by c.                                                   *)
NewChannel(n, c) == [name |-> n, clients |-> <<>>, admins |-> <<copyOf(c)>>,
                     invite |-> FALSE, topicOps |-> FALSE, key |-> "", limit |-> 0,
                     topic |-> ""]

TypeOK ==
  /\ clients \subseteq Fd /\ cl \in [Fd -> ClientRec] /\ up \in BOOLEAN
  /\ \A c \in Fd \ clients : cl[c] = NoClient
  /\ \A i \in DOMAIN channels :
       /\ channels[i].name \in ChName
       /\ ToSet(channels[i].clients) \cup ToSet(channels[i].admins) \subseteq Copy
       /\ channels[i].invite \in BOOLEAN /\ channels[i].topicOps \in BOOLEAN
       /\ channels[i].key \in Key \cup {""} /\ channels[i].limit \in Limit \cup {0}
       /\ channels[i].topic \in Topic \cup {""}
       /\ \A j \in DOMAIN channels : channels[j].name = channels[i].name => i = j

Init ==
  /\ clients = {} /\ cl = [c \in Fd |-> NoClient] /\ channels = <<>> /\ up = TRUE

(* The process ends, by SIGINT or SIGQUIT or by a pointer to nothing.      *)
Down ==
  /\ up' = FALSE
  /\ clients' = {} /\ cl' = [c \in Fd |-> NoClient] /\ channels' = <<>>

SignalHandler == up /\ Down
-----------------------------------------------------------------------------
(* Finding and removing copies.                                            *)

byFd(s, f) == SelectInSeq(s, LAMBDA e : e.fd = f)
byNick(s, w) == SelectInSeq(s, LAMBDA e : e.nick = w)
without(s, f) == IF byFd(s, f) = 0 THEN s ELSE RemoveAt(s, byFd(s, f))

get_client(h, f) == byFd(h.clients, f) # 0
get_admin(h, f) == byFd(h.admins, f) # 0
IsOn(h, f) == get_client(h, f) \/ get_admin(h, f)

(* GetClientInChannel, which returns a copy or nothing.                    *)
InChannel(h, w) == byNick(h.clients, w) # 0 \/ byNick(h.admins, w) # 0
GetClientInChannel(h, w) ==
  IF byNick(h.clients, w) # 0 THEN h.clients[byNick(h.clients, w)]
  ELSE h.admins[byNick(h.admins, w)]

GetClientsNumber(h) == Len(h.clients) + Len(h.admins)

GetChannel(n) == SelectInSeq(channels, LAMBDA h : h.name = n)
Exists(n) == GetChannel(n) # 0
Chan(n) == channels[GetChannel(n)]

(* One copy of f goes: from the operators if it has one there (PART and    *)
(* KICK), from the others if it has one there (QUIT and RmChannels).       *)
dropAdmin(h, f) ==
  IF get_admin(h, f) THEN [h EXCEPT !.admins = without(@, f)]
  ELSE [h EXCEPT !.clients = without(@, f)]
dropClient(h, f) ==
  IF get_client(h, f) THEN [h EXCEPT !.clients = without(@, f)]
  ELSE [h EXCEPT !.admins = without(@, f)]

(* SearchForClients: how many channels have a copy of this nickname.       *)
SearchForClients(w) == Cardinality({i \in DOMAIN channels : InChannel(channels[i], w)})
-----------------------------------------------------------------------------
(* Registration.                                                           *)

accept_new_client(c) ==
  /\ up /\ c \notin clients
  /\ clients' = clients \cup {c}
  /\ UNCHANGED <<cl, channels, up>>

(* PASS with the right password.                                           *)
client_authen(c) ==
  /\ up /\ c \in clients /\ ~cl[c].registered
  /\ cl' = [cl EXCEPT ![c].registered = TRUE]
  /\ UNCHANGED <<clients, channels, up>>

(* Mutant of nickNameInUse: nobody's nickname is in the way.               *)
nickNameFree(w) == FALSE

nickNameInUse(w) == \E d \in clients : cl[d].nick = w

(* NICK with a nickname somebody else has: a client without one is "*".    *)
NickTaken(c, w) ==
  /\ up /\ c \in clients
  /\ nickNameInUse(w) /\ cl[c].nick = ""
  /\ cl' = [cl EXCEPT ![c].nick = "*"]
  /\ UNCHANGED <<clients, channels, up>>

(* Mutant of LoginByNick: leaving "*" behind does not log in.              *)
LoginUnlessRenamed(r, w) == r.logedin \/ (r.nick \in {"", w} /\ r.user /\ w # "*")

(* Whether NICK w leaves r logged in.                                      *)
LoginByNick(r, w) ==
  r.logedin \/ (IF r.nick \in {"", w} THEN r.user /\ w # "*" ELSE r.nick = "*" /\ r.user)

set_nickname(c, w) ==
  /\ up /\ c \in clients
  /\ nickNameInUse(w) => cl[c].nick = w
  /\ cl[c].registered
  /\ cl' = [cl EXCEPT ![c].logedin = LoginByNick(cl[c], w), ![c].nick = w]
  /\ UNCHANGED <<clients, channels, up>>

set_username(c) ==
  /\ up /\ c \in clients /\ cl[c].registered /\ ~cl[c].user
  /\ cl' = [cl EXCEPT ![c].user = TRUE, ![c].logedin = @ \/ cl[c].nick \notin {"", "*"}]
  /\ UNCHANGED <<clients, channels, up>>

(* What the code calls notregistered.                                      *)
Ready(c) ==
  up /\ c \in clients /\ cl[c].nick \notin {"", "*"} /\ cl[c].user /\ cl[c].logedin
-----------------------------------------------------------------------------
(* JOIN, PART, KICK, INVITE.                                               *)

(* NotExistCh.  A key given along is not used.                             *)
NotExistCh(c, n) ==
  /\ Ready(c) /\ ~Exists(n)
  /\ SearchForClients(cl[c].nick) < MAX_CHANNELS
  /\ channels' = Append(channels, NewChannel(n, c))
  /\ UNCHANGED <<clients, cl, up>>

(* Mutant of Joinable: looked for by descriptor.                           *)
JoinableByFd(c, n, k) ==
  /\ ~IsOn(Chan(n), c) /\ SearchForClients(cl[c].nick) < MAX_CHANNELS
  /\ Chan(n).key \in {"", k} \/ cl[c].invites[n] > 0
  /\ Chan(n).invite => cl[c].invites[n] > 0

(* An invitation stands for the key, too.                                  *)
Joinable(c, n, k) ==
  /\ ~InChannel(Chan(n), cl[c].nick) /\ SearchForClients(cl[c].nick) < MAX_CHANNELS
  /\ Chan(n).key \in {"", k} \/ cl[c].invites[n] > 0
  /\ Chan(n).invite => cl[c].invites[n] > 0

HasRoom(h) == h.limit = 0 \/ GetClientsNumber(h) < h.limit

(* ExistCh.  Under +i an invitation is used up before the limit is looked  *)
(* at, so that a full channel takes it for nothing.                        *)
ExistCh(c, n, k) ==
  /\ Ready(c) /\ Exists(n) /\ Joinable(c, n, k)
  /\ cl' = [cl EXCEPT ![c].invites[n] = IF Chan(n).invite THEN @ - 1 ELSE @]
  /\ channels' = IF HasRoom(Chan(n))
                 THEN [channels EXCEPT ![GetChannel(n)].clients = Append(@, copyOf(c))]
                 ELSE channels
  /\ UNCHANGED <<clients, up>>

(* SplitJoin with more keys than channels writes past the end of token.    *)
TooManyKeys(c) == Ready(c) /\ Down

(* PART: of the copy with the nickname of c on a channel that has a copy   *)
(* with its descriptor.  There may be none, or another client's.           *)
Part(c, n) ==
  /\ Ready(c) /\ Exists(n) /\ IsOn(Chan(n), c)
  /\ IF ~InChannel(Chan(n), cl[c].nick) THEN Down
     ELSE LET h == dropAdmin(Chan(n), GetClientInChannel(Chan(n), cl[c].nick).fd)
          IN  /\ channels' = IF GetClientsNumber(h) = 0 THEN RemoveAt(channels, GetChannel(n))
                             ELSE [channels EXCEPT ![GetChannel(n)] = h]
              /\ UNCHANGED <<clients, cl, up>>

(* KICK.  The channel that is erased when one is left empty is the one at  *)
(* the place of n in the command's list, not its place in channels.        *)
Kick(c, n, w, i) ==
  /\ Ready(c) /\ Exists(n) /\ get_admin(Chan(n), c) /\ InChannel(Chan(n), w)
  /\ LET h == dropAdmin(Chan(n), GetClientInChannel(Chan(n), w).fd)
         kicked == [channels EXCEPT ![GetChannel(n)] = h]
     IN  IF GetClientsNumber(h) = 0 /\ i >= Len(channels) THEN Down
         ELSE /\ channels' = IF GetClientsNumber(h) = 0 THEN RemoveAt(kicked, i + 1) ELSE kicked
              /\ UNCHANGED <<clients, cl, up>>

(* INVITE, also of "*", one of those that wait for a nickname.  On a full  *)
(* channel it answers in the name of the copy among the plain clients,     *)
(* which an operator has not.                                              *)
Invite(c, w, n) ==
  /\ Ready(c) /\ Exists(n) /\ IsOn(Chan(n), c)
  /\ ~InChannel(Chan(n), w)
  /\ Chan(n).invite => get_admin(Chan(n), c)
  /\ \E t \in clients :
       /\ cl[t].nick = w
       /\ IF HasRoom(Chan(n))
          THEN /\ cl[t].invites[n] < MaxInvites
               /\ cl' = [cl EXCEPT ![t].invites[n] = @ + 1]
               /\ UNCHANGED <<clients, channels, up>>
          ELSE ~get_client(Chan(n), c) /\ Down
-----------------------------------------------------------------------------
(* MODE and TOPIC.                                                         *)

invite_only(h, m) == [h EXCEPT !.invite = m.add]
topic_restriction(h, m) == [h EXCEPT !.topicOps = m.add]

(* -k needs the key that is set.                                           *)
password_mode(h, m) ==
  [h EXCEPT !.key = IF m.add THEN m.arg ELSE IF @ = m.arg THEN "" ELSE @]

(* +o and -o move the copy with that nickname.                             *)
operator_privilege(h, m) ==
  LET p == byNick(h.clients, m.arg)
      a == byNick(h.admins, m.arg)
  IN  IF m.add /\ p # 0
      THEN [h EXCEPT !.admins = Append(@, h.clients[p]), !.clients = RemoveAt(@, p)]
      ELSE IF ~m.add /\ a # 0
      THEN [h EXCEPT !.clients = Append(@, h.admins[a]), !.admins = RemoveAt(@, a)]
      ELSE h

channel_limit(h, m) == [h EXCEPT !.limit = IF m.add THEN m.arg ELSE 0]

(* One letter of the mode string.                                          *)
Apply(h, m) ==
  CASE m.mode = "i" -> invite_only(h, m)
    [] m.mode = "t" -> topic_restriction(h, m)
    [] m.mode = "k" -> password_mode(h, m)
    [] m.mode = "o" -> operator_privilege(h, m)
    [] m.mode = "l" -> channel_limit(h, m)

ApplyAll(h, ms) ==
  LET made[i \in 0 .. Len(ms)] == IF i = 0 THEN h ELSE Apply(made[i - 1], ms[i])
  IN  made[Len(ms)]

(* The operator is looked for once, before the first letter.               *)
mode_command(c, n, ms) ==
  /\ Ready(c) /\ Exists(n) /\ get_admin(Chan(n), c)
  /\ channels' = [channels EXCEPT ![GetChannel(n)] = ApplyAll(@, ms)]
  /\ UNCHANGED <<clients, cl, up>>

TopicCmd(c, n, t) ==
  /\ Ready(c) /\ Exists(n) /\ IsOn(Chan(n), c)
  /\ Chan(n).topicOps => ~get_client(Chan(n), c)
  /\ channels' = [channels EXCEPT ![GetChannel(n)].topic = t]
  /\ UNCHANGED <<clients, cl, up>>
-----------------------------------------------------------------------------
(* The end of a client.                                                    *)

(* RmChannels: one copy off every channel, and every empty channel goes.   *)
RmChannels(s, c) ==
  LET left[i \in 0 .. Len(s)] ==
        IF i = 0 THEN <<>>
        ELSE IF GetClientsNumber(dropClient(s[i], c)) = 0 THEN left[i - 1]
        ELSE Append(left[i - 1], dropClient(s[i], c))
  IN  left[Len(s)]

(* The loop of QUIT before it: the channel after an erased one is passed.  *)
(* What it erases is left as an empty channel here, which RmChannels, that *)
(* follows in the same call, takes away.                                   *)
QuitChannels(s, c) ==
  LET erased[i \in 0 .. Len(s)] ==
        /\ i > 0 /\ ~erased[i - 1]
        /\ IsOn(s[i], c) /\ GetClientsNumber(dropClient(s[i], c)) = 0
  IN  [i \in DOMAIN s |-> IF erased[i - 1] THEN s[i] ELSE dropClient(s[i], c)]

(* Mutant of RemoveClient: the Client stays behind for the next one.       *)
RemoveFdOnly(c) ==
  /\ clients' = clients \ {c}
  /\ UNCHANGED <<cl, up>>

(* RemoveClient, RemoveFds and close.                                      *)
RemoveClient(c) ==
  /\ clients' = clients \ {c}
  /\ cl' = [cl EXCEPT ![c] = NoClient]
  /\ UNCHANGED up

Hangup(c) ==
  /\ up /\ c \in clients
  /\ channels' = RmChannels(channels, c)
  /\ RemoveClient(c)

Quit(c) ==
  /\ up /\ c \in clients
  /\ channels' = RmChannels(QuitChannels(channels, c), c)
  /\ RemoveClient(c)

(* QUIT, and in the same input PASS: client_authen reads through NULL.     *)
QuitThenPass(c) == up /\ c \in clients /\ Down
-----------------------------------------------------------------------------
ClientStep(c) ==
  \/ accept_new_client(c) \/ client_authen(c) \/ set_username(c)
  \/ \E w \in Nick \cup {"*"} : NickTaken(c, w) \/ set_nickname(c, w)
  \/ TooManyKeys(c) \/ Hangup(c) \/ Quit(c) \/ QuitThenPass(c)

ChannelStep(c, n) ==
  \/ NotExistCh(c, n)
  \/ \E k \in Key \cup {""} : ExistCh(c, n, k)
  \/ Part(c, n)
  \/ \E w \in Nick \cup {"*"} : Invite(c, w, n)
  \/ \E w \in Nick, i \in Position : Kick(c, n, w, i)
  \/ \E ms \in ModeCmds : mode_command(c, n, ms)
  \/ \E t \in Topic : TopicCmd(c, n, t)

Next ==
  \/ \E c \in Fd : ClientStep(c)
  \/ \E c \in Fd, n \in ChName : ChannelStep(c, n)
  \/ SignalHandler

Spec == Init /\ [][Next]_vars
-----------------------------------------------------------------------------
(* No two clients have one nickname, except the placeholder "*" that NICK  *)
(* gives out when the nickname asked for is taken.                         *)
NickUnique ==
  \A c, d \in clients : cl[c].nick = cl[d].nick /\ cl[c].nick \notin {"", "*"} => c = d

(* A client is logged in as soon as PASS, NICK and USER have all gone      *)
(* well, in whatever order and through whatever detour over "*": each of   *)
(* NICK and USER is the last of them in some order and must notice it.     *)
LoginComplete ==
  \A c \in clients :
    /\ cl[c].logedin => cl[c].registered /\ cl[c].user /\ cl[c].nick # ""
    /\ cl[c].registered /\ cl[c].user /\ cl[c].nick \notin {"", "*"} => cl[c].logedin

(* The copies on a channel all have different nicknames, so that KICK and  *)
(* MODE +o, which go by nickname, mean one of them; with renamed clients,  *)
(* and copies of clients that are gone, that is no matter of course.       *)
CopiesDiffer ==
  \A i \in DOMAIN channels :
    LET h == channels[i].clients \o channels[i].admins
    IN  \A j, k \in DOMAIN h : h[j].nick = h[k].nick => j = k
=============================================================================
