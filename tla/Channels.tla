------------------------------ MODULE Channels ------------------------------
(***************************************************************************)
(* The channels of ann/srcs: JOIN, PART, KICK, INVITE, TOPIC, MODE on a    *)
(* channel, PRIVMSG and NOTICE, and what deleting a client does to the     *)
(* channels it is on.                                                      *)
(*                                                                         *)
(* JOIN, PART, KICK and MODE walk over lists.  Such a command is a first   *)
(* step, the checks made once, and then one step per element: `ar` is the  *)
(* command, `todo` its elements that are left, and no other step is        *)
(* possible before the last of them (the server has one thread).           *)
(*                                                                         *)
(* The code looks a channel up in two ways: getCh compares names without   *)
(* their case, chs[name] is exact.  Where the first finds a channel and    *)
(* the second does not, chs[name] makes a null entry and the next line     *)
(* reads through it: the process dies, which is the phase "crashed".       *)
(***************************************************************************)
EXTENDS Clients, FiniteSets, Functions

CONSTANTS
  ChName,            \* the words execJoin accepts as the name of a channel
  atoi,              \* atoi, as a function on Word: (int) of what strtol reads
  MaxLimit,          \* numeric_limits<unsigned int>::max(), no limit
  MAX_CHS_PER_USER,
  MAX_NB_TARGETS

ASSUME ChannelsAssumption ==
  /\ ChName \subseteq Hash
  /\ "" \notin Hash /\ "0" \notin Hash
  /\ "PART" \in Word
  /\ atoi \in [Word -> Int]
  /\ MaxLimit \in Nat /\ MaxLimit > 1
  /\ \A w \in Word : atoi[w] < MaxLimit
  /\ MAX_CHS_PER_USER \in Nat /\ MAX_NB_TARGETS \in Nat

VARIABLES
  chs,      \* the names of the channels: the keys of map chs
  ch,       \* the Ch behind each name, blank when there is none
  invits,   \* the invitations of each client
  ar,       \* the command whose list is being walked, <<>> when none is
  todo,     \* the elements of its list that are left
  vals      \* JOIN: the keys that are left; KICK: the targets that are left

chVars == <<chs, ch, invits>>
listVars == <<ar, todo, vals>>
vars == <<cliVars, chVars, listVars>>

NoCh == [topic |-> "", pass |-> "", optI |-> FALSE, optT |-> FALSE,
         limit |-> MaxLimit, clis |-> {}, adms |-> {}]

(* The constructor of Ch: whoever opens a channel is on it and runs it.    *)
NewCh(c) == [NoCh EXCEPT !.clis = {c}, !.adms = {c}]

Channel == [topic : Word, pass : Word, optI : BOOLEAN, optT : BOOLEAN,
            limit : 0 .. MaxLimit, clis : SUBSET Fd, adms : SUBSET Fd]

TypeOK ==
  /\ CliTypeOK
  /\ chs \subseteq ChName
  /\ ch \in [ChName -> Channel]
  /\ \A n \in ChName \ chs : ch[n] = NoCh
  /\ invits \in [Fd -> SUBSET ChName]
  /\ ar \in Seq(Word) /\ todo \in Seq(Word) /\ vals \in Seq(Word)
  /\ ar # <<>> => cli \in clis /\ phase # "erase" /\ Len(ar) >= 2 /\ todo # <<>>

Init ==
  /\ CliInit
  /\ chs = {}
  /\ ch = [n \in ChName |-> NoCh]
  /\ invits = [f \in Fd |-> {}]
  /\ ar = <<>> /\ todo = <<>> /\ vals = <<>>
-----------------------------------------------------------------------------
(* Look-ups.                                                               *)

(* getCh: the channels the word n names, whatever the case.                *)
getCh(n) == {m \in chs : lower[m] = lower[n]}

(* Mutant of Misspelt: chs[name] alone decides.                            *)
NeverMisspelt(n) == FALSE

(* n names a channel, but not in the case it was created in.               *)
Misspelt(n) == getCh(n) # {} /\ n \notin chs

(* getCliOnCh and getAdmOnCh, for a name that is in chs.                   *)
getCliOnCh(w, n) == {c \in ch[n].clis : lower[nick[c]] = lower[w]}
getAdmOnCh(w, n) == {c \in ch[n].adms : lower[nick[c]] = lower[w]}

IsOn(n) == getCliOnCh(nick[cli], n) # {}

(* Mutant of IsAdm: membership is enough.                                  *)
IsMember(n) == IsOn(n)

IsAdm(n) == getAdmOnCh(nick[cli], n) # {}

nbChannels(c) == Cardinality({n \in chs : c \in ch[n].clis})

(* One more channel would be too many for c.                               *)
Full(c) == nbChannels(c) > MAX_CHS_PER_USER - 1

(* Mutant of Orphaned: asked before the operator is erased.                *)
OrphanedBefore(r, gone) == r.adms = {} /\ ~(r.clis \subseteq gone)

(* Mutants of eraseCliFromCh: one of the two sets is forgotten.            *)
eraseFromAdms(r, gone, heir) ==
  [r EXCEPT !.adms = IF r.adms \subseteq gone /\ ~(r.clis \subseteq gone) THEN {heir} ELSE @ \ gone]
eraseFromClis(r, gone, heir) == [r EXCEPT !.clis = @ \ gone]

(* eraseCliFromCh on the channel r, for the clients `gone`.  A channel     *)
(* that is left without an operator gets one of its members, the first of  *)
(* a set of pointers, that is, any of them: heir.                          *)
Orphaned(r, gone) == r.adms \subseteq gone /\ ~(r.clis \subseteq gone)

eraseCliFromCh(r, gone, heir) ==
  [r EXCEPT !.clis = @ \ gone,
            !.adms = IF Orphaned(r, gone) THEN {heir} ELSE @ \ gone]

IsHeir(heir, r, gone) == Orphaned(r, gone) => heir \in r.clis \ gone
-----------------------------------------------------------------------------
(* How a handler ends.                                                     *)

Answer(r) == resp' = r
Keep == UNCHANGED <<phase, cli, clis, fdsToErase, session>>
Idle == ar = <<>>

(* The null entry is read through: nothing happens after this.             *)
Crash ==
  /\ phase' = "crashed"
  /\ resp' = {}
  /\ UNCHANGED <<cli, clis, fdsToErase, session, chVars, listVars>>

(* Walk over the items, with v beside them; or, with none, be done.        *)
Walk(a, items, v) ==
  IF items = <<>> THEN ar' = <<>> /\ todo' = <<>> /\ vals' = <<>>
                  ELSE ar' = a /\ todo' = items /\ vals' = v

Leave == Walk(<<>>, <<>>, <<>>)
NextItem(v) == Walk(ar, Tail(todo), v)
Walking(c) == phase = "serve" /\ ar # <<>> /\ ar[1] = c

Say(r) == Answer(r) /\ Keep /\ UNCHANGED <<chVars, listVars>>

(* The author may use the server, and the command has k words at least.    *)
Ready(a, k) == Registered(cli) /\ Len(a) >= k
-----------------------------------------------------------------------------
(* JOIN.                                                                   *)

TooMany(names) ==
  Cardinality(Range(names)) < Len(names) \/ Len(names) > MAX_NB_TARGETS

(* JOIN 0 is PART of the channels the author is on.  PART broadcasts to    *)
(* the channel its whole argument names: when there are several, it names  *)
(* none, and the word "0" stands for it here.                              *)
execJoinZero(mine) ==
  /\ \E order \in [1 .. Cardinality(mine) -> mine] :
       /\ Range(order) = mine
       /\ Walk(<<"PART", IF Len(order) = 1 THEN order[1] ELSE "0">>, order, <<>>)
  /\ Answer({}) /\ Keep /\ UNCHANGED chVars

execJoin(a) ==
  /\ a[1] = "JOIN"
  /\ \/ /\ ~Ready(a, 2)
        /\ Say(Error)
     \/ /\ Ready(a, 2) /\ Len(a) = 2 /\ a[2] = "0"
        /\ execJoinZero({n \in chs : IsOn(n)})
     \/ /\ Ready(a, 2) /\ ~(Len(a) = 2 /\ a[2] = "0")
        /\ TooMany(sub[a[2]])
        /\ Say(Error)
     \/ /\ Ready(a, 2) /\ ~(Len(a) = 2 /\ a[2] = "0")
        /\ ~TooMany(sub[a[2]])
        /\ Walk(a, sub[a[2]], IF Len(a) >= 3 THEN sub[a[3]] ELSE <<>>)
        /\ Answer({}) /\ Keep /\ UNCHANGED chVars

(* Mutant of Admits: the key is not looked at.                             *)
AdmitsAnyKey(r, n, k) ==
  /\ Cardinality(r.clis) < r.limit
  /\ r.optI => n \in invits[cli]

(* The modes of the channel r let the author in, with the key k.           *)
Admits(r, n, k) ==
  /\ r.pass # "" => k = r.pass
  /\ Cardinality(r.clis) < r.limit
  /\ r.optI => n \in invits[cli]

(* A channel that is not there is opened, and its opener is on it before   *)
(* the modes are looked at.  Only a channel that gets this far uses a key. *)
enterChannel(n) ==
  LET r == IF n \in chs THEN ch[n] ELSE NewCh(cli)
      k == IF vals = <<>> THEN "" ELSE Head(vals)
      all == r.clis \cup {cli}
      topic == IF r.topic = "" THEN {} ELSE Reply
  IN  /\ chs' = chs \cup {n}
      /\ NextItem(IF vals = <<>> THEN <<>> ELSE Tail(vals))
      /\ Keep
      /\ \/ /\ ~Admits(r, n, k)
            /\ ch' = [ch EXCEPT ![n] = r]
            /\ Answer(Error)
            /\ UNCHANGED invits
         \/ /\ Admits(r, n, k)
            /\ ch' = [ch EXCEPT ![n] = [r EXCEPT !.clis = all]]
            /\ Answer(Message(all, "JOIN", cli, n) \cup topic \cup Message(all, "353", cli, n))
            /\ invits' = [invits EXCEPT ![cli] = @ \ {n}]

(* One channel of the list.  The first that is one too many ends the walk. *)
joinOne ==
  /\ Walking("JOIN")
  /\ LET n == Head(todo)
         full == Full(cli)
     IN  \/ /\ full
            /\ Leave /\ Answer(Error) /\ Keep /\ UNCHANGED chVars
         \/ /\ ~full /\ n \notin ChName
            /\ NextItem(vals) /\ Answer(Error) /\ Keep /\ UNCHANGED chVars
         \/ /\ ~full /\ n \in ChName /\ Misspelt(n)
            /\ Crash
         \/ /\ ~full /\ n \in chs /\ IsOn(n)
            /\ NextItem(vals) /\ Answer(Reply) /\ Keep /\ UNCHANGED chVars
         \/ /\ ~full /\ n \in ChName /\ ~Misspelt(n) /\ ~(n \in chs /\ IsOn(n))
            /\ enterChannel(n)
-----------------------------------------------------------------------------
(* PART and KICK.                                                          *)

(* Mutant of Addressee: the last argument is taken for the channel.        *)
LastAddressee == getCh(ar[Len(ar)])

(* The channel PART and KICK write to: the one the whole list names.       *)
Addressee == getCh(ar[2])

(* The tail they share: `gone` leaves n.  When the list names no channel,  *)
(* a null pointer is read.                                                 *)
leaveChannel(n, gone, next, cmd) ==
  \/ /\ Addressee = {}
     /\ Crash
  \/ /\ Addressee # {}
     /\ Answer(Message(UNION {ch[m].clis : m \in Addressee}, cmd, cli, n))
     /\ \E heir \in Fd : /\ IsHeir(heir, ch[n], gone)
                        /\ ch' = [ch EXCEPT ![n] = eraseCliFromCh(@, gone, heir)]
     /\ next
     /\ Keep /\ UNCHANGED <<chs, invits>>

execPart(a) ==
  /\ a[1] = "PART"
  /\ \/ /\ ~Ready(a, 2)
        /\ Say(Error)
     \/ /\ Ready(a, 2)
        /\ Walk(a, sub[a[2]], <<>>)
        /\ Answer({}) /\ Keep /\ UNCHANGED chVars

partOne ==
  /\ Walking("PART")
  /\ LET n == Head(todo)
     IN  \/ /\ Misspelt(n)
            /\ Crash
         \/ /\ ~Misspelt(n) /\ ~(n \in chs /\ IsOn(n))
            /\ NextItem(<<>>) /\ Answer(Error) /\ Keep /\ UNCHANGED chVars
         \/ /\ n \in chs /\ IsOn(n)
            /\ leaveChannel(n, getCli(nick[cli]), NextItem(<<>>), "PART")

execKick(a) ==
  /\ a[1] = "KICK"
  /\ \/ /\ ~Ready(a, 3)
        /\ Say(Error)
     \/ /\ Ready(a, 3)
        /\ Walk(a, sub[a[2]], <<>>)
        /\ Answer({}) /\ Keep /\ UNCHANGED chVars

(* One channel of the list: the author must be one of its operators.  The  *)
(* targets are put in vals, and this is not asked again for any of them.   *)
kickChannel ==
  /\ Walking("KICK") /\ vals = <<>>
  /\ LET n == Head(todo)
         may == n \in chs /\ IsOn(n) /\ IsAdm(n)
     IN  \/ /\ Misspelt(n)
            /\ Crash
         \/ /\ ~Misspelt(n) /\ ~may
            /\ NextItem(<<>>) /\ Answer(Error) /\ Keep /\ UNCHANGED chVars
         \/ /\ may
            /\ IF sub[ar[3]] = <<>> THEN NextItem(<<>>) ELSE Walk(ar, todo, sub[ar[3]])
            /\ Answer({}) /\ Keep /\ UNCHANGED chVars

kickOne ==
  /\ Walking("KICK") /\ vals # <<>>
  /\ LET n == Head(todo)
         w == Head(vals)
         Rest == IF Len(vals) = 1 THEN NextItem(<<>>) ELSE Walk(ar, todo, Tail(vals))
     IN  \/ /\ getCliOnCh(w, n) = {}
            /\ Rest /\ Answer(Error) /\ Keep /\ UNCHANGED chVars
         \/ /\ getCliOnCh(w, n) # {}
            /\ leaveChannel(n, getCli(w), Rest, "KICK")
-----------------------------------------------------------------------------
(* MODE on a channel.                                                      *)

execModeCh(a) ==
  /\ a[1] = "MODE" /\ Len(a) >= 2 /\ a[2] \in Hash
  /\ LET n == a[2]
         may == Registered(cli) /\ n \in chs /\ IsOn(n) /\ IsAdm(n)
     IN  \/ /\ Registered(cli) /\ Misspelt(n)
            /\ Crash
         \/ /\ ~(Registered(cli) /\ Misspelt(n)) /\ ~may
            /\ Say(Error)
         \/ /\ may /\ Len(a) = 2
            /\ Say(Reply)
         \/ /\ may /\ Len(a) > 2
            /\ Walk(a, SubSeq(a, 3, Len(a)), <<>>)
            /\ Answer({}) /\ Keep /\ UNCHANGED chVars

Valued == {"+k", "+l", "+o", "-o"}
Options == {"+i", "-i", "+t", "-t", "-k", "-l"} \cup Valued

(* Mutant of BadMode: a negative limit is taken.                           *)
BadSign(r, opt, val) ==
  \/ opt \notin Options
  \/ opt = "+k" /\ (val = "" \/ r.pass # "")
  \/ opt = "+l" /\ val = ""

(* execModeOneOoption for an option other than +o and -o.                  *)
BadMode(r, opt, val) ==
  \/ opt \notin Options
  \/ opt = "+k" /\ (val = "" \/ r.pass # "")
  \/ opt = "+l" /\ (val = "" \/ atoi[val] < 0)

WithMode(r, opt, val) ==
  CASE opt \in {"+i", "-i"} -> [r EXCEPT !.optI = (opt = "+i")]
    [] opt \in {"+t", "-t"} -> [r EXCEPT !.optT = (opt = "+t")]
    [] opt = "+k" -> [r EXCEPT !.pass = val]
    [] opt = "-k" -> [r EXCEPT !.pass = ""]
    [] opt = "+l" -> [r EXCEPT !.limit = atoi[val]]
    [] opt = "-l" -> [r EXCEPT !.limit = MaxLimit]

(* execModeOneOoption for +o and -o, over every name of the value.         *)
WithOps(r, opt, who) ==
  [r EXCEPT !.adms = IF opt = "+o" THEN @ \cup who ELSE @ \ who]

(* One option.  A value is read at the fixed place ar[4], wherever the     *)
(* option stands in the command.                                           *)
modeOne ==
  /\ Walking("MODE")
  /\ LET n == ar[2]
         opt == Head(todo)
         takes == opt \in Valued /\ Len(todo) >= 2
         val == IF takes THEN ar[4] ELSE ""
         names == IF val = "" THEN {""} ELSE Range(sub[val])
         who == UNION {getCliOnCh(w, n) : w \in names}
         told == Message(ch[n].clis, "MODE", cli, n)
     IN  /\ Walk(ar, SubSeq(todo, IF takes THEN 3 ELSE 2, Len(todo)), <<>>)
         /\ \/ /\ opt \in {"+o", "-o"}
               /\ ch' = [ch EXCEPT ![n] = WithOps(@, opt, who)]
               /\ Answer((IF who = {} THEN {} ELSE told) \cup
                         (IF \E w \in names : getCliOnCh(w, n) = {} THEN Error ELSE {}))
            \/ /\ opt \notin {"+o", "-o"} /\ BadMode(ch[n], opt, val)
               /\ Answer(Error)
               /\ UNCHANGED ch
            \/ /\ opt \notin {"+o", "-o"} /\ ~BadMode(ch[n], opt, val)
               /\ ch' = [ch EXCEPT ![n] = WithMode(@, opt, val)]
               /\ Answer(told)
         /\ Keep /\ UNCHANGED <<chs, invits>>
-----------------------------------------------------------------------------
(* TOPIC and INVITE.                                                       *)

(* Under +t a member who is no operator is refused, to read the topic too. *)
execTopic(a) ==
  /\ a[1] = "TOPIC"
  /\ LET n == a[2]
         may == n \in chs /\ IsOn(n) /\ (ch[n].optT => IsAdm(n))
     IN  \/ /\ ~Ready(a, 2)
            /\ Say(Error)
         \/ /\ Ready(a, 2) /\ Misspelt(n)
            /\ Crash
         \/ /\ Ready(a, 2) /\ ~Misspelt(n) /\ ~may
            /\ Say(Error)
         \/ /\ Ready(a, 2) /\ may /\ Len(a) = 2
            /\ Say(Reply)
         \/ /\ Ready(a, 3) /\ may
            /\ ch' = [ch EXCEPT ![n].topic = IF a[3] = ":" THEN "" ELSE a[3]]
            /\ Answer(Reply \cup Message(ch[n].clis, "TOPIC", cli, n))
            /\ Keep /\ UNCHANGED <<chs, invits, listVars>>

(* An invitation is the name of the channel, kept with the client invited. *)
execInvite(a) ==
  /\ a[1] = "INVITE"
  /\ LET who == getCli(a[2])
         n == a[3]
         may == /\ who # {} /\ n \in chs /\ IsOn(n)
                /\ ch[n].optI => IsAdm(n)
                /\ getCliOnCh(a[2], n) = {}
     IN  \/ /\ ~Ready(a, 3)
            /\ Say(Error)
         \/ /\ Ready(a, 3) /\ who # {} /\ Misspelt(n)
            /\ Crash
         \/ /\ Ready(a, 3) /\ ~(who # {} /\ Misspelt(n)) /\ ~may
            /\ Say(Error)
         \/ /\ Ready(a, 3) /\ may
            /\ invits' = [f \in Fd |-> IF f \in who THEN invits[f] \cup {n} ELSE invits[f]]
            /\ Answer(Reply \cup Message(who \cup ch[n].clis, "INVITE", cli, n))
            /\ Keep /\ UNCHANGED <<chs, ch, listVars>>
-----------------------------------------------------------------------------
(* PRIVMSG and NOTICE.                                                     *)

(* Mutant of Delivery: outsiders may write to a channel.                   *)
OpenDelivery(t) ==
  IF t \in Hash
  THEN IF lower[t] \in chs THEN Message(ch[t].clis \ {cli}, "PRIVMSG", cli, t) ELSE Error
  ELSE IF getCli(t) # {} THEN Message(getCli(t), "PRIVMSG", cli, t) ELSE Error

(* What PRIVMSG writes for the recipient t.  A channel is first looked up  *)
(* by its name in lower case, which must be the name it was created with.  *)
Delivery(t) ==
  IF t \in Hash
  THEN IF lower[t] \in chs /\ IsOn(t)
       THEN Message(ch[t].clis \ {cli}, "PRIVMSG", cli, t)
       ELSE Error
  ELSE IF getCli(t) # {} THEN Message(getCli(t), "PRIVMSG", cli, t) ELSE Error

execPrivmsg(a) ==
  /\ a[1] = "PRIVMSG"
  /\ LET tos == sub[a[2]]
         ok == Ready(a, 3) /\ ~TooMany(tos)
         fatal == \E t \in Range(tos) : lower[t] \in chs /\ t \notin chs
     IN  \/ /\ ~ok
            /\ Say(Error)
         \/ /\ ok /\ fatal
            /\ Crash
         \/ /\ ok /\ ~fatal
            /\ Say(UNION {Delivery(t) : t \in Range(tos)})

(* NOTICE answers nothing, and a channel needs neither the right case nor  *)
(* the author's being on it.                                               *)
Notification(t) ==
  LET to == IF t \in Hash THEN (UNION {ch[n].clis : n \in getCh(t)}) \ {cli} ELSE getCli(t)
  IN  Message(to, "NOTICE", cli, t)

execNotice(a) ==
  /\ a[1] = "NOTICE"
  /\ Say(IF Ready(a, 3) THEN UNION {Notification(t) : t \in Range(sub[a[2]])} ELSE {})

(* execCmd, for the commands that concern channels.                        *)
ChCommand(a) ==
  /\ Executing
  /\ \/ execJoin(a) \/ execPart(a) \/ execKick(a) \/ execInvite(a)
     \/ execTopic(a) \/ execModeCh(a) \/ execPrivmsg(a) \/ execNotice(a)
-----------------------------------------------------------------------------
(* The top of the loop.                                                    *)

(* eraseUnusedClis, for one marked client: it leaves every channel, and    *)
(* eraseCliFromCh runs on those it is not on as well.                      *)
eraseUnusedCliChs(f) ==
  /\ eraseUnusedCli(f)
  /\ LET gone == getCli(nick[f])
     IN  \E heir \in [chs -> Fd] :
           /\ \A n \in chs : IsHeir(heir[n], ch[n], gone)
           /\ ch' = [n \in ChName |-> IF n \in chs THEN eraseCliFromCh(ch[n], gone, heir[n])
                                                    ELSE ch[n]]
  /\ invits' = [invits EXCEPT ![f] = {}]
  /\ UNCHANGED chs

(* Mutant of eraseUnusedChs: the name goes, the Ch stays.                  *)
eraseNames ==
  /\ chs' = {n \in chs : ch[n].clis # {}}
  /\ UNCHANGED ch

(* The channels nobody is on are deleted.                                  *)
eraseUnusedChs ==
  /\ chs' = {n \in chs : ch[n].clis # {}}
  /\ ch' = [n \in ChName |-> IF n \in chs' THEN ch[n] ELSE NoCh]

(* eraseUnusedChs runs between the last deletion and poll().               *)
startPassChs ==
  /\ startPass
  /\ eraseUnusedChs
  /\ UNCHANGED invits

Next ==
  \/ /\ Idle
     /\ \/ /\ Serve \/ \E a \in Cmds : CliCommand(a)
           /\ UNCHANGED chVars
        \/ \E f \in Fd : eraseUnusedCliChs(f)
        \/ startPassChs
     /\ UNCHANGED listVars
  \/ Idle /\ \E a \in Cmds : ChCommand(a)
  \/ joinOne \/ partOne \/ kickChannel \/ kickOne \/ modeOne

Spec == Init /\ [][Next]_vars
-----------------------------------------------------------------------------
(* Properties.                                                             *)

(* No dangling Cli*: whoever a channel lists as a member is a client that  *)
(* is still connected, through every order of quitting, hanging up, being  *)
(* kicked, renaming and being deleted.  The sets of pointers are emptied   *)
(* by nickname only, in eraseCliFromCh.                                    *)
MembersLive == \A n \in chs : ch[n].clis \subseteq clis

(* Operators are members: leaving takes the status away, and neither +o    *)
(* nor a promotion gives it to an outsider.                                *)
OpsAreMembers == \A n \in chs : ch[n].adms \subseteq ch[n].clis

(* Only registered clients are on channels.                                *)
MembersRegistered == \A n \in chs : \A c \in ch[n].clis : Registered(c)

(* Nobody is on more channels than the limit, however long the lists of    *)
(* JOIN and whatever they are refused for half-way.                        *)
ChannelLimit == \A c \in clis : nbChannels(c) <= MAX_CHS_PER_USER

(* Two channels never differ in case only: getCh finds at most one.        *)
ChNamesCaseUnique == \A m, n \in chs : lower[m] = lower[n] => m = n

(* Every message is for a client that is still connected.                  *)
ToLiveClients == \A r \in resp : r[1] \in clis

(* The names a JOIN may open a channel with, and the words of a command    *)
(* and the items of its lists.                                             *)
Opened == {n \in ChName : \E a \in Cmds : a[1] = "JOIN" /\ Len(a) >= 2 /\ n \in Range(sub[a[2]])}
Said(a) == UNION {{a[i]} \cup Range(sub[a[i]]) : i \in 2 .. Len(a)}

(* w differs from no name of a channel in case only.                       *)
Spelt(w) == \A n \in Opened : n = lower[w] \/ lower[n] = lower[w] => n = w

(* What clients have to observe: they spell a channel the way it was       *)
(* opened, they PART and KICK from one channel at a time, and they PART    *)
(* from all of them, with JOIN 0, only where there is one to be on.        *)
Careful ==
  /\ \A a \in Cmds : \A w \in Said(a) : Spelt(w)
  /\ \A a \in Cmds : a[1] \in {"PART", "KICK"} /\ Len(a) >= 2
       => Range(sub[a[2]]) \cap Opened \subseteq {a[2]}
  /\ (\E a \in Cmds : a[1] = "JOIN" /\ Len(a) = 2 /\ a[2] = "0")
       => \A m, n \in Opened : m = n

(* No null pointer is read: so it is as long as clients are careful.       *)
NoCrash == phase # "crashed"

(* Whoever leaves, by whatever way, leaves an operator behind on a channel *)
(* that is not empty.                                                      *)
LeavesOperator ==
  [][\A n \in ChName : /\ ~(ch[n].clis \subseteq ch'[n].clis)
                       /\ ch'[n].clis # {}
                       => ch'[n].adms # {}]_vars

(* The keys the command a was given, where it is a JOIN.                   *)
Keys(a) == IF Len(a) >= 3 THEN Range(sub[a[3]]) ELSE {}

(* A client that comes on an existing channel respected its modes as they  *)
(* were: it fits the limit, the key is among those its JOIN was given, and *)
(* the invitation that let it in is used up.                               *)
JoinsWithinModes ==
  [][\A n \in chs : \A c \in ch'[n].clis \ ch[n].clis :
       /\ ch[n].pass # "" => ch[n].pass \in Keys(ar)
       /\ Cardinality(ch'[n].clis) <= ch[n].limit
       /\ ch[n].optI => n \in invits[c]
       /\ n \notin invits'[c]]_vars

Modes(r) == <<r.optI, r.optT, r.pass, r.limit>>

(* The modes of a channel that stays change in a MODE of that channel      *)
(* only, and only an operator of it gets as far as its options.            *)
ModesByOperator ==
  [][/\ \A n \in chs \cap chs' :
          Modes(ch[n]) # Modes(ch'[n]) => ar # <<>> /\ ar[1] = "MODE" /\ ar[2] = n
     /\ ar = <<>> /\ ar' # <<>> /\ ar'[1] = "MODE" => cli \in ch[ar'[2]].adms]_vars

(* A PRIVMSG that reaches a channel comes from one of its members, and     *)
(* reaches all the others.                                                 *)
ChannelTalk ==
  [][\A r \in resp' : r[2].cmd = "PRIVMSG" /\ r[2].arg \in Hash
       => /\ cli \in ch[r[2].arg].clis
          /\ \A c \in ch[r[2].arg].clis \ {cli} : <<c, r[2]>> \in resp']_vars

(* What the servers promise about their channels: only the connected come  *)
(* on them, and who is deleted is off all of them in that step, and nobody *)
(* else, although eraseCliFromCh goes by nickname.                         *)
Rooms == INSTANCE Membership WITH Client <- Fd, Room <- ChName, on <- clis,
                                  in <- [n \in ChName |-> ch[n].clis]
RoomsSpec == Rooms!Spec
=============================================================================
