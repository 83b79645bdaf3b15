------------------------------- MODULE Mariia -------------------------------
(***************************************************************************)
(* The server of project/mariia: registration, channels and the end of a   *)
(* client.                                                                 *)
(*                                                                         *)
(* Membership is kept twice: a channel has the set of its members'         *)
(* descriptors, and a client the list of its channels' names, which QUIT   *)
(* and the limit of channels go by.  The set goes by the name in lower     *)
(* case, the list holds the name a channel was opened by as it was given.  *)
(*                                                                         *)
(* A client that quits or is refused is only marked; it is closed when     *)
(* poll() next reports that it can be written to.  Every way to be marked  *)
(* queues an error for it, so POLLOUT is asked for.  A client that hangs   *)
(* up is forgotten at once, but its descriptor is never closed.            *)
(*                                                                         *)
(* Nicknames are as uncapitalizeString leaves them, which every look-up    *)
(* and every store applies.  A list of JOIN or PART is that many commands. *)
(* A refused command, or one that only answers, changes nothing that is    *)
(* modelled and is no step.                                                *)
(***************************************************************************)
EXTENDS Integers, Sequences, FiniteSets, SequencesExt

CONSTANTS
  Fd,            \* the descriptors accept() returns, numbers
  None,          \* no client
  Nick,          \* nicknames verifyNickname accepts
  ChName,        \* channel names isValidChannelName accepts, as given
  lower,         \* uncapitalizeString, on them
  Key,           \* keys, none of them empty
  Limit,         \* what MODE +l reads as a number
  Topic,         \* topics, none of them empty
  UserMode,      \* the modes of a client that are used
  ModeCmds,      \* the mode strings with their parameters, see Apply
  MAXCHANNELS    \* 9, the most entries of a client's list

(* The letters of a mode string are records of the mode, whether it is set *)
(* and what it is given.                                                   *)
ASSUME MariiaAssumption ==
  /\ Fd \subseteq Nat /\ None \notin Fd
  /\ "" \notin Nick
  /\ lower \in [ChName -> ChName] /\ \A n \in ChName : lower[lower[n]] = lower[n]
  /\ Limit \subseteq Int
  /\ \A ms \in ModeCmds :
       /\ Len(ms) \in Nat
       /\ \A i \in 1 .. Len(ms) :
            /\ ms[i].mode \in {"i", "t", "k", "l", "o"}
            /\ ms[i].add /\ ms[i].mode = "k" => ms[i].arg \in Key
            /\ ms[i].add /\ ms[i].mode = "l" => ms[i].arg \in Limit
  /\ MAXCHANNELS \in Nat

VARIABLES
  clients,       \* the keys of the map clients
  open,          \* the descriptors that are not closed
  cl,            \* the Client of each, blank when there is none
  users,         \* the nicknames in the map users
  ch,            \* the Channel of each name in lower case, or blank
  turn,          \* who quit in the input that is being processed
  told           \* those for whom the last step queued the notice of a QUIT

vars == <<clients, open, cl, users, ch, turn, told>>

Low == {lower[n] : n \in ChName}

NoClient == [nick |-> "", user |-> FALSE, logged |-> FALSE, registered |-> FALSE,
             modes |-> {}, quit |-> FALSE, channels |-> <<>>]

(* key is "" without KEYSET, limit 0 without LIMITSET.                     *)
NoChannel == [members |-> {}, operators |-> {}, invited |-> {}, modes |-> {},
              key |-> "", limit |-> 0, topic |-> ""]

(* The constructor of Channel, and its first member.                       *)
NewChannel(c, k) ==
  [NoChannel EXCEPT !.members = {c}, !.operators = {c}, !.modes = {"t"}, !.key = k]

ClientRec == [nick : Nick \cup {""}, user : BOOLEAN, logged : BOOLEAN,
              registered : BOOLEAN, modes : SUBSET UserMode, quit : BOOLEAN,
              channels : Seq(ChName)]

ChannelRec == [members : SUBSET Fd, operators : SUBSET Fd, invited : SUBSET Fd,
               modes : SUBSET {"i", "t"}, key : Key \cup {""}, limit : Limit \cup {0},
               topic : Topic \cup {""}]

(* getChannels().size().                                                   *)
Listed(c) == Len(cl[c].channels)

TypeOK ==
  /\ clients \subseteq open /\ open \subseteq Fd
  /\ cl \in [Fd -> ClientRec]
  /\ \A c \in Fd \ clients : cl[c] = NoClient
  /\ \A c \in clients : Listed(c) <= MAXCHANNELS
  /\ users \subseteq Nick
  /\ ch \in [Low -> ChannelRec]
  /\ \A n \in Low : ch[n].members = {} => ch[n] = NoChannel
  /\ turn \in clients \cup {None}
  /\ told \subseteq Fd

Init ==
  /\ clients = {} /\ open = {} /\ users = {} /\ turn = None /\ told = {}
  /\ cl = [c \in Fd |-> NoClient] /\ ch = [n \in Low |-> NoChannel]
-----------------------------------------------------------------------------
(* Connections and registration.                                           *)

Accept(c) ==
  /\ turn = None /\ c \notin open
  /\ open' = open \cup {c} /\ clients' = clients \cup {c}
  /\ told' = {}
  /\ UNCHANGED <<cl, users, ch, turn>>

(* A line of c is processed: of one that has quit, the rest of that input. *)
Heard(c) == c \in clients /\ turn \in {None, c} /\ (cl[c].quit => turn = c)

Unregistered(c) == Heard(c) /\ ~cl[c].registered
Ready(c) == Heard(c) /\ cl[c].registered

Only(changed) ==
  /\ UNCHANGED <<clients, open>>
  /\ "cl" \notin changed => UNCHANGED cl
  /\ "users" \notin changed => UNCHANGED users
  /\ "ch" \notin changed => UNCHANGED ch
  /\ "turn" \notin changed => UNCHANGED turn
  /\ "told" \notin changed => told' = {}

(* checkRegistration, after every line of registration, with r what the    *)
(* line made of c: other clients are looked at if users knows the nickname.*)
checkRegistration(c, r) ==
  LET complete == r.logged /\ r.nick # "" /\ r.user
      taken == r.nick \in users /\ \E d \in clients \ {c} : cl[d].nick = r.nick
  IN  /\ cl' = [cl EXCEPT ![c] = [r EXCEPT !.registered = complete /\ ~taken,
                                           !.quit = complete /\ taken]]
      /\ users' = IF complete THEN users \cup {r.nick} ELSE users
      /\ Only({"cl", "users"})

Pass(c) == Unregistered(c) /\ checkRegistration(c, [cl[c] EXCEPT !.logged = TRUE])

(* PASS without a word or with another one than the password.              *)
WrongPass(c) ==
  /\ Unregistered(c)
  /\ cl' = [cl EXCEPT ![c].quit = TRUE]
  /\ Only({"cl"})

Nickname(c, w) == Unregistered(c) /\ checkRegistration(c, [cl[c] EXCEPT !.nick = w])

(* USER, with a bit mask or not.                                           *)
User(c, ms) ==
  /\ Unregistered(c) /\ ms \subseteq UserMode \cap {"INVISIBLE"}
  /\ checkRegistration(c, [cl[c] EXCEPT !.user = TRUE, !.modes = @ \cup ms])

(* NICK once registered, which leaves users as it is.                      *)
processNick(c, w) ==
  /\ Ready(c) /\ \A d \in clients \ {c} : cl[d].nick # w
  /\ cl' = [cl EXCEPT ![c].nick = w]
  /\ Only({"cl"})

(* AWAY, which toggles, and MODE of the client itself, which sets or       *)
(* removes what is no AWAY.                                                *)
changeMode(c, m, add) ==
  /\ Ready(c)
  /\ cl' = [cl EXCEPT ![c].modes = IF add THEN @ \cup {m} ELSE @ \ {m}]
  /\ Only({"cl"})
-----------------------------------------------------------------------------
(* Channels.                                                               *)

Exists(n) == ch[lower[n]] # NoChannel
IsMember(c, n) == c \in ch[lower[n]].members
IsOperator(c, n) == c \in ch[lower[n]].operators

(* findClient by nickname: the lowest descriptor, registered or not.       *)
Named(w) == {d \in clients : cl[d].nick = w}
findClient(w) == Min(Named(w))

(* Tested for equality.                                                    *)
HasRoom(n) == ch[lower[n]].limit # 0 => Cardinality(ch[lower[n]].members) # ch[lower[n]].limit

(* Mutant of createAndJoinNewChannel: however many channels there are.     *)
createWithoutLimit(c, n, k) ==
  /\ Ready(c) /\ ~Exists(n)
  /\ ch' = [ch EXCEPT ![lower[n]] = NewChannel(c, k)]
  /\ cl' = [cl EXCEPT ![c].channels = Append(@, n)]
  /\ Only({"cl", "ch"})

createAndJoinNewChannel(c, n, k) ==
  /\ Ready(c) /\ ~Exists(n) /\ Listed(c) # MAXCHANNELS
  /\ ch' = [ch EXCEPT ![lower[n]] = NewChannel(c, k)]
  /\ cl' = [cl EXCEPT ![c].channels = Append(@, n)]
  /\ Only({"cl", "ch"})

(* Mutant of joinExistingChannel: the client's list is forgotten.          *)
joinUnlisted(c, n, k) ==
  /\ Ready(c) /\ Exists(n) /\ Listed(c) # MAXCHANNELS
  /\ ~IsMember(c, n) /\ HasRoom(n) /\ k = ch[lower[n]].key
  /\ "i" \in ch[lower[n]].modes => c \in ch[lower[n]].invited
  /\ ch' = [ch EXCEPT ![lower[n]].members = @ \cup {c}, ![lower[n]].invited = @ \ {c}]
  /\ Only({"ch"})

(* joinExistingChannel and authMember: the key given must be the key, and  *)
(* none if there is none.  The list gets the channel's own name.           *)
joinExistingChannel(c, n, k) ==
  /\ Ready(c) /\ Exists(n) /\ Listed(c) # MAXCHANNELS
  /\ ~IsMember(c, n) /\ HasRoom(n) /\ k = ch[lower[n]].key
  /\ "i" \in ch[lower[n]].modes => c \in ch[lower[n]].invited
  /\ ch' = [ch EXCEPT ![lower[n]].members = @ \cup {c}, ![lower[n]].invited = @ \ {c}]
  /\ cl' = [cl EXCEPT ![c].channels = Append(@, lower[n])]
  /\ Only({"cl", "ch"})

(* Mutant of removeMember: an invitation survives.                         *)
removeUninvited(r, c) == [r EXCEPT !.members = @ \ {c}, !.operators = @ \ {c}]

(* Channel::removeMember ...                                               *)
removeMember(r, c) ==
  [r EXCEPT !.members = @ \ {c}, !.operators = @ \ {c}, !.invited = @ \ {c}]

(* ... after which a channel without members is deleted.                   *)
OrDeleted(r) == IF r.members = {} THEN NoChannel ELSE r

removeClientFromChannel(d, n) ==
  /\ ch' = [ch EXCEPT ![n] = OrDeleted(removeMember(@, d))]
  /\ cl' = [cl EXCEPT ![d].channels = RemoveFirst(@, n)]
  /\ Only({"cl", "ch"})

processPart(c, n) ==
  /\ Ready(c) /\ IsMember(c, n)
  /\ removeClientFromChannel(c, lower[n])

processKick(c, n, w) ==
  /\ Ready(c) /\ IsMember(c, n) /\ IsOperator(c, n)
  /\ Named(w) # {} /\ IsMember(findClient(w), n)
  /\ removeClientFromChannel(findClient(w), lower[n])

(* INVITE is kept only for a channel that asks for it.                     *)
processInvite(c, w, n) ==
  /\ Ready(c) /\ Named(w) # {} /\ IsMember(c, n) /\ ~IsMember(findClient(w), n)
  /\ "i" \in ch[lower[n]].modes /\ IsOperator(c, n)
  /\ ch' = [ch EXCEPT ![lower[n]].invited = @ \cup {findClient(w)}]
  /\ Only({"ch"})

processTopic(c, n, t) ==
  /\ Ready(c) /\ IsMember(c, n)
  /\ "t" \in ch[lower[n]].modes => IsOperator(c, n)
  /\ ch' = [ch EXCEPT ![lower[n]].topic = t]
  /\ Only({"ch"})

handleModeIT(r, m) == [r EXCEPT !.modes = IF m.add THEN @ \cup {m.mode} ELSE @ \ {m.mode}]

handleModeK(r, m) == [r EXCEPT !.key = IF m.add THEN m.arg ELSE ""]

(* Mutant of handleModeL: any limit will do.                               *)
handleAnyL(r, m) == IF m.add THEN [r EXCEPT !.limit = m.arg] ELSE [r EXCEPT !.limit = 0]

(* No limit below the number of members is set.                            *)
handleModeL(r, m) ==
  IF ~m.add THEN [r EXCEPT !.limit = 0]
  ELSE IF m.arg < Cardinality(r.members) THEN r ELSE [r EXCEPT !.limit = m.arg]

handleModeO(r, m) ==
  IF Named(m.arg) = {} THEN r
  ELSE IF ~m.add THEN [r EXCEPT !.operators = @ \ {findClient(m.arg)}]
  ELSE IF findClient(m.arg) \in r.members
       THEN [r EXCEPT !.operators = @ \cup {findClient(m.arg)}] ELSE r

(* One letter of the mode string.                                          *)
Apply(r, m) ==
  CASE m.mode \in {"i", "t"} -> handleModeIT(r, m)
    [] m.mode = "k" -> handleModeK(r, m)
    [] m.mode = "l" -> handleModeL(r, m)
    [] m.mode = "o" -> handleModeO(r, m)

ApplyAll(r, ms) ==
  LET made[i \in 0 .. Len(ms)] == IF i = 0 THEN r ELSE Apply(made[i - 1], ms[i])
  IN  made[Len(ms)]

(* The operator is looked for once, before the first letter.               *)
processChannelMode(c, n, ms) ==
  /\ Ready(c) /\ IsMember(c, n) /\ IsOperator(c, n)
  /\ ch' = [ch EXCEPT ![lower[n]] = ApplyAll(@, ms)]
  /\ Only({"ch"})
-----------------------------------------------------------------------------
(* The end of a client.                                                    *)

(* Those who are told of a QUIT or a hang-up of c: the members of the      *)
(* channels in its list, as far as they exist.                             *)
sharingChannelsFds(c) ==
  (UNION {ch[lower[n]].members : n \in Range(cl[c].channels)}) \ {c}

(* QUIT; what else is in the same input is still processed.                *)
processQuit(c) ==
  /\ Ready(c)
  /\ cl' = [cl EXCEPT ![c].quit = TRUE]
  /\ turn' = c /\ told' = sharingChannelsFds(c)
  /\ Only({"cl", "turn", "told"})

EndOfInput ==
  /\ turn # None
  /\ turn' = None
  /\ Only({"turn"})

(* Mutant of removeClient: only the channels in its list are left.         *)
removeListed(c) ==
  /\ ch' = [n \in Low |-> IF Contains(cl[c].channels, n) THEN OrDeleted(removeMember(ch[n], c))
                          ELSE ch[n]]
  /\ users' = users \ {cl[c].nick}
  /\ cl' = [cl EXCEPT ![c] = NoClient]
  /\ clients' = clients \ {c}
  /\ UNCHANGED turn

(* Off every channel, out of clients and of users, by the nickname it has. *)
removeClient(c) ==
  /\ ch' = [n \in Low |-> OrDeleted(removeMember(ch[n], c))]
  /\ users' = users \ {cl[c].nick}
  /\ cl' = [cl EXCEPT ![c] = NoClient]
  /\ clients' = clients \ {c}
  /\ UNCHANGED turn

(* sendData, at a client that is marked.                                   *)
Close(c) ==
  /\ turn = None /\ c \in clients /\ cl[c].quit
  /\ removeClient(c)
  /\ open' = open \ {c} /\ told' = {}

(* receiveData, when recv() returns 0: as for a QUIT, and removed at once. *)
Hangup(c) ==
  /\ turn = None /\ c \in clients /\ ~cl[c].quit
  /\ told' = sharingChannelsFds(c)
  /\ removeClient(c)
  /\ UNCHANGED open
-----------------------------------------------------------------------------
ClientStep(c) ==
  \/ Accept(c) \/ Pass(c) \/ WrongPass(c)
  \/ processQuit(c) \/ Close(c) \/ Hangup(c)
  \/ \E w \in Nick : Nickname(c, w) \/ processNick(c, w)
  \/ \E ms \in SUBSET UserMode : User(c, ms)
  \/ \E m \in UserMode, add \in BOOLEAN : changeMode(c, m, add)

ChannelStep(c, n) ==
  \/ \E k \in Key \cup {""} : createAndJoinNewChannel(c, n, k) \/ joinExistingChannel(c, n, k)
  \/ processPart(c, n)
  \/ \E w \in Nick : processKick(c, n, w) \/ processInvite(c, w, n)
  \/ \E t \in Topic \cup {""} : processTopic(c, n, t)
  \/ \E ms \in ModeCmds : processChannelMode(c, n, ms)

Next ==
  \/ \E c \in Fd : ClientStep(c)
  \/ \E c \in Fd, n \in ChName : ChannelStep(c, n)
  \/ EndOfInput

Spec == Init /\ [][Next]_vars
-----------------------------------------------------------------------------
(* What the servers promise about their channels.                          *)
Rooms == INSTANCE Membership WITH Client <- Fd, Room <- Low, on <- clients,
                                  in <- [n \in Low |-> ch[n].members]
RoomsSpec == Rooms!Spec

(* A descriptor that is used again brings nothing along: whoever is an     *)
(* operator of a channel is on it, whoever is invited is connected, and    *)
(* an invitation is used up by coming in.                                  *)
NothingInherited ==
  \A n \in Low : /\ ch[n].operators \subseteq ch[n].members
                 /\ ch[n].invited \subseteq clients \ ch[n].members

(* No channel is over its limit, though JOIN compares for equality only:   *)
(* +l refuses a limit that is exceeded when it is set.                     *)
WithinLimit ==
  \A n \in Low : ch[n].limit # 0 => Cardinality(ch[n].members) <= ch[n].limit

(* Whoever is on a channel with a client when it quits or hangs up is told *)
(* so in that step: the list of names that QUIT walks covers the channels  *)
(* whose sets have the client, in whatever spelling it came on them, and   *)
(* nobody is marked or removed in another way once it is on a channel.     *)
(* Told once: who comes to share a channel with it between its QUIT and    *)
(* its Close is not.                                                       *)
QuitReachesAll ==
  [][\A c \in clients : ~cl[c].quit /\ (c \notin clients' \/ cl'[c].quit)
       => \A n \in Low : c \in ch[n].members => ch[n].members \ {c} \subseteq told']_vars
=============================================================================
