--------------------------- MODULE ChannelsProofs ---------------------------
(***************************************************************************)
(* Who is on a channel, for every set of descriptors, words and commands.  *)
(*                                                                         *)
(* The argument.  A channel is good when its operators are members and its *)
(* members are connected and registered (GoodCh).  A command leaves the    *)
(* connected and registered clients as they are, or adds to them, so it is *)
(* enough that what it writes to a channel is good.  A deletion takes a    *)
(* client away: it calls eraseCliFromCh with all the clients that answer   *)
(* to its nickname, itself among them, on every channel.  A walk over a    *)
(* list goes on with facts established when it began (ListOK).             *)
(*                                                                         *)
(* What a step does to the channels follows from this: names, departures,  *)
(* modes, messages, the refinement of Membership.  Then null pointers,     *)
(* which the names that clients use decide on (Careful), registration with *)
(* the channels in between, and the limit of channels.                     *)
(***************************************************************************)
EXTENDS Channels, ClientsProofs, FiniteSetTheorems

GoodCh(r) ==
  /\ r \in Channel
  /\ r.adms \subseteq r.clis
  /\ \A c \in r.clis : c \in clis /\ Registered(c)

(* The channels, and the list that is being walked.                        *)
ChannelsOK ==
  /\ chs \subseteq ChName /\ IsFiniteSet(chs)
  /\ ch \in [ChName -> Channel]
  /\ \A n \in ChName \ chs : ch[n] = NoCh
  /\ \A n \in chs : GoodCh(ch[n])
  /\ invits \in [Fd -> SUBSET ChName]

ListOK ==
  /\ ar \in Seq(Word) /\ todo \in Seq(Word) /\ vals \in Seq(Word)
  /\ ar # <<>> =>
       /\ cli \in clis /\ phase # "erase" /\ Registered(cli)
       /\ Len(ar) >= 2 /\ todo # <<>>
       /\ ar[1] = "KICK" => Len(ar) >= 3 /\ (vals # <<>> => Head(todo) \in chs)
       /\ ar[1] = "MODE" => ar[2] \in chs /\ Len(todo) + 2 <= Len(ar)

(* The inductive invariant.                                                *)
ChInv == CliInv /\ ChannelsOK /\ ListOK

LEMMA ChInvImplies == ChInv => TypeOK /\ MembersLive /\ OpsAreMembers /\ MembersRegistered
BY DEF ChInv, CliInv, ChannelsOK, ListOK, TypeOK, MembersLive, OpsAreMembers,
       MembersRegistered, GoodCh

LEMMA BlankIsChannel == NoCh \in Channel
<1>1. "" \in Word
  BY ClientsAssumption
<1>2. MaxLimit \in 0 .. MaxLimit
  <2>1. MaxLimit \in Nat
    BY ChannelsAssumption
  <2> QED
    BY <2>1
<1> QED
  BY <1>1, <1>2, Zenon DEF NoCh, Channel

LEMMA ChInvInit == Init => ChInv
<1> SUFFICES ASSUME Init
             PROVE  ChInv
  OBVIOUS
<1>1. CliInv
  BY CliInvInit DEF Init
<1>2. NoCh \in Channel
  BY BlankIsChannel
<1>3. ChannelsOK
  BY <1>2, FS_EmptySet DEF Init, ChannelsOK
<1>4. ListOK
  BY DEF Init, ListOK
<1> QED
  BY <1>1, <1>3, <1>4 DEF ChInv
-----------------------------------------------------------------------------
(* How a handler ends: three ways for the list, and two for the channels.  *)

(* What a command that leaves the clients as they are has to establish.    *)
LEMMA StepKept ==
  ASSUME CliInv, phase = "serve", Keep, resp' \subseteq Fd \X Msg, ChannelsOK', ListOK'
  PROVE  ChInv'
<1>1. CliTypeOK'
  BY DEF CliInv, CliTypeOK, Keep, session
<1>2. NoAuthorAtTop'
  BY DEF CliInv, Keep, NoAuthorAtTop
<1> QED
  BY <1>1, <1>2 DEF ChInv, CliInv

LEMMA SameChannels ==
  ASSUME ChannelsOK, Keep, UNCHANGED chVars
  PROVE  ChannelsOK'
<1>1. \A r : GoodCh(r) => GoodCh(r)'
  BY DEF GoodCh, Keep, session, Registered, Channel
<1> QED
  BY <1>1 DEF ChannelsOK, chVars

(* One channel is opened or written to.                                    *)
LEMMA OneChannel ==
  ASSUME ChannelsOK, Keep, NEW n \in ChName, chs' = chs \cup {n},
         NEW r, GoodCh(r), ch' = [ch EXCEPT ![n] = r], invits' \in [Fd -> SUBSET ChName]
  PROVE  ChannelsOK'
<1>1. \A q : GoodCh(q) => GoodCh(q)'
  BY DEF GoodCh, Keep, session, Registered, Channel
<1>2. ch' = [m \in ChName |-> IF m = n THEN r ELSE ch[m]]
  BY DEF ChannelsOK
<1>3. chs' \subseteq ChName /\ IsFiniteSet(chs')
  BY FS_AddElement DEF ChannelsOK
<1>4. ch' \in [ChName -> Channel]
  BY <1>2 DEF ChannelsOK, GoodCh
<1>5. \A m \in ChName \ chs' : ch'[m] = NoCh
  BY <1>2 DEF ChannelsOK
<1>6. \A m \in chs' : GoodCh(ch'[m])
  BY <1>2, <1>3 DEF ChannelsOK
<1> QED
  BY <1>1, <1>3, <1>4, <1>5, <1>6 DEF ChannelsOK

LEMMA LeaveOK ==
  ASSUME Leave
  PROVE  ListOK'
BY DEF Leave, Walk, ListOK

LEMMA SameListOK ==
  ASSUME ListOK, Keep, UNCHANGED <<listVars, chs>>
  PROVE  ListOK'
BY DEF ListOK, Keep, session, listVars, Registered

(* A walk that begins or goes on.                                          *)
LEMMA WalkOK ==
  ASSUME NEW a \in Seq(Word), NEW items \in Seq(Word), NEW v \in Seq(Word),
         Walk(a, items, v), Keep, phase = "serve", cli \in clis, Registered(cli),
         Len(a) >= 2,
         items # <<>> /\ a[1] = "KICK" => Len(a) >= 3 /\ (v # <<>> => Head(items) \in chs'),
         items # <<>> /\ a[1] = "MODE" => a[2] \in chs' /\ Len(items) + 2 <= Len(a)
  PROVE  ListOK'
<1>1. Registered(cli)' /\ cli' \in clis' /\ phase' # "erase"
  BY DEF Keep, session, Registered
<1> QED
  BY <1>1 DEF Walk, ListOK

(* A null pointer was read: everything stays as it was.                    *)
LEMMA CrashOK ==
  ASSUME ChInv, Crash, phase = "serve"
  PROVE  ChInv'
<1>1. CliTypeOK' /\ NoAuthorAtTop'
  BY DEF ChInv, CliInv, CliTypeOK, NoAuthorAtTop, Crash, session
<1>2. \A r : GoodCh(r) => GoodCh(r)'
  BY DEF GoodCh, Crash, session, Registered, Channel
<1>3. ChannelsOK'
  BY <1>2 DEF ChInv, ChannelsOK, Crash, chVars
<1>4. ListOK'
  BY DEF ChInv, ListOK, Crash, session, chVars, listVars, Registered
<1> QED
  BY <1>1, <1>3, <1>4 DEF ChInv, CliInv

(* A command that changes nothing but what it answers.                     *)
LEMMA SayOK ==
  ASSUME ChInv, phase = "serve", NEW r, Say(r), r \subseteq Fd \X Msg
  PROVE  ChInv'
<1>1. Keep /\ resp' \subseteq Fd \X Msg /\ UNCHANGED <<chVars, listVars>>
  BY DEF Say, Answer
<1>2. ChannelsOK'
  BY <1>1, SameChannels DEF ChInv
<1>3. ListOK'
  BY <1>1, SameListOK DEF ChInv, chVars
<1> QED
  BY <1>1, <1>2, <1>3, StepKept DEF ChInv
-----------------------------------------------------------------------------
(* Whom the messages are for.                                              *)

(* An item of a word is a word.                                            *)
LEMMA ItemIsWord ==
  ASSUME NEW w \in Word, NEW t \in Range(sub[w])
  PROVE  t \in Word
<1>1. sub[w] \in Seq(Word)
  BY ClientsAssumption
<1>2. PICK k \in DOMAIN sub[w] : t = sub[w][k]
  BY DEF Range
<1>3. k \in 1 .. Len(sub[w])
  BY <1>1, <1>2
<1> QED
  BY <1>1, <1>2, <1>3, SeqElement

LEMMA MembersAreFds ==
  ASSUME ChannelsOK, NEW n \in chs
  PROVE  ch[n].clis \subseteq Fd
BY DEF ChannelsOK, Channel

LEMMA FoundAreFds ==
  ASSUME CliTypeOK, ChannelsOK, NEW w
  PROVE  /\ getCli(w) \subseteq clis /\ clis \subseteq Fd
         /\ UNION {ch[n].clis : n \in getCh(w)} \subseteq Fd
<1>1. \A n \in getCh(w) : ch[n].clis \subseteq Fd
  BY MembersAreFds DEF getCh
<1> QED
  BY <1>1 DEF CliTypeOK, getCli

LEMMA DeliveryType ==
  ASSUME CliTypeOK, ChannelsOK, cli \in Fd, NEW t \in Word, ~(lower[t] \in chs /\ t \notin chs)
  PROVE  Delivery(t) \subseteq Fd \X Msg
<1>1. "PRIVMSG" \in Kind
  BY DEF Kind
<1>2. Message(getCli(t), "PRIVMSG", cli, t) \subseteq Fd \X Msg
  BY <1>1, FoundAreFds, MessageType
<1>3. lower[t] \in chs => Message(ch[t].clis \ {cli}, "PRIVMSG", cli, t) \subseteq Fd \X Msg
  <2>1. lower[t] \in chs => ch[t].clis \ {cli} \in SUBSET Fd
    BY MembersAreFds
  <2> QED
    BY <1>1, <2>1, MessageType
<1> QED
  BY <1>2, <1>3, ErrorType DEF Delivery

LEMMA NotificationType ==
  ASSUME CliTypeOK, ChannelsOK, cli \in Fd, NEW t \in Word
  PROVE  Notification(t) \subseteq Fd \X Msg
<1> DEFINE to == IF t \in Hash THEN (UNION {ch[n].clis : n \in getCh(t)}) \ {cli} ELSE getCli(t)
<1>1. to \subseteq Fd
  BY FoundAreFds
<1>2. "NOTICE" \in Kind
  BY DEF Kind
<1>3. Message(to, "NOTICE", cli, t) \subseteq Fd \X Msg
  <2> HIDE DEF to
  <2> QED
    BY <1>1, <1>2, MessageType
<1> QED
  BY <1>3 DEF Notification
-----------------------------------------------------------------------------
(* The first step of each command.                                         *)

(* A command that begins a walk, and changes nothing else.                 *)
LEMMA BeginOK ==
  ASSUME ChInv, Executing, Answer({}), Keep, UNCHANGED chVars, ListOK'
  PROVE  ChInv'
<1>1. ChannelsOK'
  BY SameChannels DEF ChInv
<1> QED
  BY <1>1, StepKept DEF ChInv, Executing, Answer

LEMMA AuthorType ==
  ASSUME ChInv, Executing
  PROVE  /\ CliTypeOK /\ ChannelsOK /\ phase = "serve"
         /\ cli \in Fd /\ cli \in clis
         /\ Error \subseteq Fd \X Msg /\ Reply \subseteq Fd \X Msg
<1>1. cli \in Fd /\ cli \in clis
  BY DEF ChInv, CliInv, CliTypeOK, Executing
<1> QED
  BY <1>1, ErrorType DEF ChInv, CliInv, Executing

LEMMA SaysOK ==
  ASSUME ChInv, Executing, Say(Error) \/ Say(Reply)
  PROVE  ChInv'
BY AuthorType, SayOK

LEMMA SeqOfMore ==
  ASSUME NEW S, NEW T, S \subseteq T, NEW s \in Seq(S)
  PROVE  s \in Seq(T)
OBVIOUS

LEMMA FunctionIsSeq ==
  ASSUME NEW S, NEW n \in Nat, NEW s \in [1 .. n -> S]
  PROVE  s \in Seq(S) /\ Len(s) = n
OBVIOUS

LEMMA SeqLength ==
  ASSUME NEW S, NEW s \in Seq(S)
  PROVE  Len(s) \in Nat
OBVIOUS

LEMMA LengthIsNat ==
  ASSUME NEW a \in Cmds
  PROVE  Len(a) \in Nat
<1>1. a \in Seq(Word \ {""})
  BY ClientsAssumption
<1> QED
  BY <1>1, SeqLength

LEMMA ArgIsWord ==
  ASSUME NEW a \in Cmds, NEW k \in Nat \ {0}, Len(a) >= k
  PROVE  /\ a \in Seq(Word) /\ a[k] \in Word /\ sub[a[k]] \in Seq(Word)
         /\ \A t \in Range(sub[a[k]]) : t \in Word
<1>1. a \in Seq(Word \ {""})
  BY ClientsAssumption
<1>2. a \in Seq(Word)
  <2>1. Word \ {""} \subseteq Word
    OBVIOUS
  <2> QED
    BY <1>1, <2>1, SeqOfMore
<1>3. k \in 1 .. Len(a)
  BY <1>2
<1>4. a[k] \in Word
  BY <1>2, <1>3, SeqElement
<1> QED
  BY <1>2, <1>4, ItemIsWord, ClientsAssumption

LEMMA JoinOK ==
  ASSUME ChInv, Executing, NEW a \in Cmds, execJoin(a)
  PROVE  ChInv'
<1>1. CASE Say(Error)
  BY <1>1, SaysOK
<1>2. CASE Ready(a, 2) /\ execJoinZero({n \in chs : IsOn(n)})
  <2> DEFINE mine == {n \in chs : IsOn(n)}
  <2>1. Cardinality(mine) \in Nat
    BY FS_Subset, FS_CardinalityType DEF ChInv, ChannelsOK
  <2>2. mine \subseteq Word
    BY ChannelsAssumption, ClientsAssumption DEF ChInv, ChannelsOK
  <2>3. PICK order \in [1 .. Cardinality(mine) -> mine] :
          Walk(<<"PART", IF Len(order) = 1 THEN order[1] ELSE "0">>, order, <<>>)
    BY <1>2 DEF execJoinZero
  <2>4. order \in Seq(Word)
    BY <2>1, <2>2, FunctionIsSeq, SeqOfMore
  <2>5. <<"PART", IF Len(order) = 1 THEN order[1] ELSE "0">> \in Seq(Word)
    <3>1. (IF Len(order) = 1 THEN order[1] ELSE "0") \in Word
      <4>1. ASSUME Len(order) = 1
            PROVE  order[1] \in Word
        <5>1. 1 \in 1 .. Len(order)
          BY <4>1
        <5> QED
          BY <5>1, <2>4, SeqElement
      <4>2. "0" \in Word
        BY ClientsAssumption
      <4> QED
        BY <4>1, <4>2
    <3>2. "PART" \in Word
      BY ChannelsAssumption
    <3> QED
      BY <3>1, <3>2
  <2>6. Keep /\ Answer({}) /\ UNCHANGED chVars
    BY <1>2 DEF execJoinZero
  <2>7. ListOK'
    <3> DEFINE p == <<"PART", IF Len(order) = 1 THEN order[1] ELSE "0">>
    <3>1. p \in Seq(Word) /\ Len(p) = 2 /\ p[1] = "PART" /\ Walk(p, order, <<>>)
      BY <2>3, <2>5
    <3> DEFINE none == <<>>
    <3>2. none \in Seq(Word) /\ Walk(p, order, none)
      BY <3>1
    <3>3. Registered(cli) /\ phase = "serve" /\ cli \in clis
      BY <1>2, AuthorType DEF Ready
    <3>4. Keep
      BY <2>6
    <3>5. Len(p) >= 2 /\ p[1] # "KICK" /\ p[1] # "MODE"
      BY <3>1
    <3> HIDE DEF p, mine, none
    <3> QED
      BY <2>4, <3>1, <3>2, <3>3, <3>4, <3>5, WalkOK, Zenon
  <2> QED
    BY <2>6, <2>7, BeginOK
<1>3. CASE /\ Ready(a, 2)
           /\ Walk(a, sub[a[2]], IF Len(a) >= 3 THEN sub[a[3]] ELSE <<>>)
           /\ Answer({}) /\ Keep /\ UNCHANGED chVars
  <2>1. a \in Seq(Word) /\ sub[a[2]] \in Seq(Word)
    BY <1>3, ArgIsWord DEF Ready
  <2>2. (IF Len(a) >= 3 THEN sub[a[3]] ELSE <<>>) \in Seq(Word)
    BY <2>1, ArgIsWord
  <2>3. a[1] = "JOIN"
    BY DEF execJoin
  <2>4. ListOK'
    BY <1>3, <2>1, <2>2, <2>3, AuthorType, WalkOK DEF Ready
  <2> QED
    BY <1>3, <2>4, BeginOK
<1> QED
  BY <1>1, <1>2, <1>3 DEF execJoin

LEMMA PartOK ==
  ASSUME ChInv, Executing, NEW a \in Cmds, execPart(a)
  PROVE  ChInv'
<1>1. CASE Say(Error)
  BY <1>1, SaysOK
<1>2. CASE Ready(a, 2) /\ Walk(a, sub[a[2]], <<>>) /\ Answer({}) /\ Keep /\ UNCHANGED chVars
  <2>1. a \in Seq(Word) /\ sub[a[2]] \in Seq(Word) /\ <<>> \in Seq(Word)
    BY <1>2, ArgIsWord DEF Ready
  <2>2. Len(a) >= 2 /\ a[1] # "KICK" /\ a[1] # "MODE"
    BY <1>2 DEF execPart, Ready
  <2>3. ListOK'
    BY <1>2, <2>1, <2>2, AuthorType, WalkOK, Zenon DEF Ready
  <2> QED
    BY <1>2, <2>3, BeginOK
<1> QED
  BY <1>1, <1>2 DEF execPart

LEMMA KickOK ==
  ASSUME ChInv, Executing, NEW a \in Cmds, execKick(a)
  PROVE  ChInv'
<1>1. CASE Say(Error)
  BY <1>1, SaysOK
<1>2. CASE Ready(a, 3) /\ Walk(a, sub[a[2]], <<>>) /\ Answer({}) /\ Keep /\ UNCHANGED chVars
  <2>1. a \in Seq(Word) /\ sub[a[2]] \in Seq(Word) /\ <<>> \in Seq(Word)
    <3>1. Len(a) >= 2
      BY <1>2, LengthIsNat DEF Ready
    <3> QED
      BY <3>1, ArgIsWord
  <2>2. Len(a) >= 2 /\ Len(a) >= 3 /\ a[1] # "MODE"
    BY <1>2, <2>1 DEF execKick, Ready
  <2>3. ListOK'
    BY <1>2, <2>1, <2>2, AuthorType, WalkOK, Zenon DEF Ready
  <2> QED
    BY <1>2, <2>3, BeginOK
<1> QED
  BY <1>1, <1>2 DEF execKick

LEMMA ModeChOK ==
  ASSUME ChInv, Executing, NEW a \in Cmds, execModeCh(a)
  PROVE  ChInv'
<1>1. CASE Crash
  BY <1>1, CrashOK, AuthorType
<1>2. CASE Say(Error) \/ Say(Reply)
  BY <1>2, SaysOK
<1>3. CASE /\ Registered(cli) /\ a[2] \in chs /\ Len(a) > 2
           /\ Walk(a, SubSeq(a, 3, Len(a)), <<>>)
           /\ Answer({}) /\ Keep /\ UNCHANGED chVars
  <2> DEFINE options == SubSeq(a, 3, Len(a))
  <2>1. Len(a) >= 2 /\ a[1] # "KICK"
    BY <1>3, ClientsAssumption DEF execModeCh
  <2>2. a \in Seq(Word) /\ <<>> \in Seq(Word)
    BY <2>1, ArgIsWord
  <2>3. options \in Seq(Word) /\ Len(options) + 2 <= Len(a)
    BY <1>3, <2>2
  <2>4. a[2] \in chs'
    BY <1>3 DEF chVars
  <2>5. Walk(a, options, <<>>)
    BY <1>3
  <2>6. ListOK'
    <3> HIDE DEF options
    <3> QED
      BY <1>3, <2>1, <2>2, <2>3, <2>4, <2>5, AuthorType, WalkOK, Zenon
  <2> QED
    BY <1>3, <2>6, BeginOK
<1> QED
  BY <1>1, <1>2, <1>3 DEF execModeCh

LEMMA TopicOK ==
  ASSUME ChInv, Executing, NEW a \in Cmds, execTopic(a)
  PROVE  ChInv'
<1>1. CASE Crash
  BY <1>1, CrashOK, AuthorType
<1>2. CASE Say(Error) \/ Say(Reply)
  BY <1>2, SaysOK
<1>3. CASE /\ Ready(a, 3) /\ a[2] \in chs
           /\ ch' = [ch EXCEPT ![a[2]].topic = IF a[3] = ":" THEN "" ELSE a[3]]
           /\ Answer(Reply \cup Message(ch[a[2]].clis, "TOPIC", cli, a[2]))
           /\ Keep /\ UNCHANGED <<chs, invits, listVars>>
  <2> DEFINE n == a[2]
             t == IF a[3] = ":" THEN "" ELSE a[3]
             r == [ch[n] EXCEPT !.topic = t]
  <2>1. t \in Word /\ n \in Word
    <3>1. Len(a) >= 3
      BY <1>3 DEF Ready
    <3>2. Len(a) >= 2
      BY <3>1, LengthIsNat
    <3>3. a[2] \in Word
      BY <3>2, ArgIsWord
    <3>4. a[3] \in Word
      BY <3>1, ArgIsWord
    <3>5. "" \in Word
      BY ClientsAssumption
    <3> QED
      BY <3>3, <3>4, <3>5
  <2>2. n \in chs /\ n \in ChName /\ GoodCh(ch[n]) /\ ChannelsOK
    BY <1>3 DEF ChInv, ChannelsOK
  <2>3. GoodCh(r)
    BY <2>1, <2>2 DEF GoodCh, Channel
  <2>4. ch' = [ch EXCEPT ![n] = r] /\ chs' = chs \cup {n} /\ Keep
    BY <1>3, <2>2
  <2>5. invits' \in [Fd -> SUBSET ChName]
    BY <1>3 DEF ChInv, ChannelsOK
  <2>6. ChannelsOK'
    <3> HIDE DEF n, r
    <3> QED
      BY <2>2, <2>3, <2>4, <2>5, OneChannel, Zenon
  <2>7. ListOK'
    BY <1>3, SameListOK DEF ChInv
  <2>8. resp' \subseteq Fd \X Msg
    <3>1. ch[n].clis \in SUBSET Fd /\ "TOPIC" \in Kind /\ cli \in Fd
      BY <2>2, MembersAreFds, AuthorType DEF Kind
    <3>2. Message(ch[n].clis, "TOPIC", cli, n) \subseteq Fd \X Msg
      BY <2>1, <3>1, MessageType
    <3> QED
      BY <1>3, <3>2, AuthorType DEF Answer
  <2> QED
    BY <1>3, <2>6, <2>7, <2>8, AuthorType, StepKept DEF ChInv
<1> QED
  BY <1>1, <1>2, <1>3, Zenon DEF execTopic

LEMMA InviteOK ==
  ASSUME ChInv, Executing, NEW a \in Cmds, execInvite(a)
  PROVE  ChInv'
<1>1. CASE Crash
  BY <1>1, CrashOK, AuthorType
<1>2. CASE Say(Error)
  BY <1>2, SaysOK
<1>3. CASE /\ Ready(a, 3) /\ a[3] \in chs
           /\ invits' = [f \in Fd |-> IF f \in getCli(a[2]) THEN invits[f] \cup {a[3]} ELSE invits[f]]
           /\ Answer(Reply \cup Message(getCli(a[2]) \cup ch[a[3]].clis, "INVITE", cli, a[3]))
           /\ Keep /\ UNCHANGED <<chs, ch, listVars>>
  <2> DEFINE n == a[3]
             to == getCli(a[2]) \cup ch[n].clis
  <2>1. n \in Word /\ n \in chs /\ n \in ChName
    BY <1>3, ArgIsWord DEF ChInv, ChannelsOK, Ready
  <2>2. to \in SUBSET Fd /\ "INVITE" \in Kind
    BY <2>1, MembersAreFds, FoundAreFds, AuthorType DEF Kind
  <2>3. resp' \subseteq Fd \X Msg
    <3>1. Message(to, "INVITE", cli, n) \subseteq Fd \X Msg
      BY <2>1, <2>2, AuthorType, MessageType
    <3> QED
      BY <1>3, <3>1, AuthorType DEF Answer
  <2>4. invits' \in [Fd -> SUBSET ChName]
    BY <1>3, <2>1 DEF ChInv, ChannelsOK
  <2>5. ChannelsOK'
    <3>1. \A r : GoodCh(r) => GoodCh(r)'
      BY <1>3 DEF GoodCh, Keep, session, Registered, Channel
    <3> QED
      BY <1>3, <2>4, <3>1 DEF ChInv, ChannelsOK
  <2>6. ListOK'
    BY <1>3, SameListOK DEF ChInv
  <2> QED
    BY <1>3, <2>3, <2>5, <2>6, AuthorType, StepKept DEF ChInv
<1> QED
  BY <1>1, <1>2, <1>3, Zenon DEF execInvite

LEMMA TalkOK ==
  ASSUME ChInv, Executing, NEW a \in Cmds, execPrivmsg(a) \/ execNotice(a)
  PROVE  ChInv'
<1>1. CASE Crash \/ Say(Error)
  BY <1>1, CrashOK, SaysOK, AuthorType
<1>2. ASSUME Ready(a, 3)
      PROVE  \A t \in Range(sub[a[2]]) : t \in Word
  <2>1. Len(a) >= 2
    BY <1>2, LengthIsNat DEF Ready
  <2> QED
    BY <2>1, ArgIsWord
<1>3. CASE /\ Ready(a, 3)
           /\ ~\E t \in Range(sub[a[2]]) : lower[t] \in chs /\ t \notin chs
           /\ Say(UNION {Delivery(t) : t \in Range(sub[a[2]])})
  <2>1. \A t \in Range(sub[a[2]]) : Delivery(t) \subseteq Fd \X Msg
    BY <1>2, <1>3, AuthorType, DeliveryType
  <2> QED
    BY <1>3, <2>1, SayOK, AuthorType
<1>4. CASE execNotice(a)
  <2>1. CASE Ready(a, 3)
    <3>1. \A t \in Range(sub[a[2]]) : Notification(t) \subseteq Fd \X Msg
      BY <1>2, <2>1, AuthorType, NotificationType
    <3> QED
      BY <1>4, <2>1, <3>1, SayOK, AuthorType DEF execNotice
  <2>2. CASE ~Ready(a, 3)
    <3>1. Say({})
      BY <1>4, <2>2 DEF execNotice
    <3> QED
      BY <3>1, SayOK, AuthorType
  <2> QED
    BY <2>1, <2>2
<1> QED
  BY <1>1, <1>3, <1>4, Zenon DEF execPrivmsg

LEMMA CommandOK ==
  ASSUME ChInv, NEW a \in Cmds, ChCommand(a)
  PROVE  ChInv'
BY JoinOK, PartOK, KickOK, InviteOK, TopicOK, ModeChOK, TalkOK DEF ChCommand
-----------------------------------------------------------------------------
(* One element of a list.                                                  *)

LEMMA WalkingType ==
  ASSUME ChInv, NEW c, Walking(c)
  PROVE  /\ Executing /\ Registered(cli) /\ cli \in clis /\ phase = "serve"
         /\ ar \in Seq(Word) /\ Len(ar) >= 2 /\ ar[2] \in Word
         /\ Head(todo) \in Word /\ Tail(todo) \in Seq(Word)
<1>1. /\ phase = "serve" /\ ar # <<>> /\ cli \in clis /\ Registered(cli)
      /\ ar \in Seq(Word) /\ Len(ar) >= 2 /\ todo \in Seq(Word) /\ todo # <<>>
  BY DEF ChInv, ListOK, Walking
<1>2. Executing
  BY <1>1, ClientsAssumption DEF ChInv, CliInv, CliTypeOK, Executing
<1>3. ar[2] \in Word
  <2>1. 2 \in 1 .. Len(ar)
    BY <1>1
  <2> QED
    BY <1>1, <2>1, SeqElement
<1> QED
  BY <1>1, <1>2, <1>3

(* The walk goes on with the next element.                                 *)
LEMMA NextItemOK ==
  ASSUME ChInv, NEW c, Walking(c), c \in {"JOIN", "PART", "KICK"},
         NEW v \in Seq(Word), NextItem(v), Keep, c = "KICK" => v = <<>>
  PROVE  ListOK'
<1>1. Walk(ar, Tail(todo), v) /\ ar[1] = c
  BY DEF NextItem, Walking
<1>2. ar[1] = "KICK" => Len(ar) >= 3 /\ v = <<>>
  BY <1>1 DEF ChInv, ListOK, Walking
<1>3. ar[1] # "MODE"
  BY <1>1
<1> QED
  BY <1>1, <1>2, <1>3, WalkingType, WalkOK, Zenon

(* The walk goes on, and the channels stay as they are.                    *)
LEMMA PassOver ==
  ASSUME ChInv, Executing, Answer(Error) \/ Answer(Reply) \/ Answer({}), Keep, UNCHANGED chVars,
         ListOK'
  PROVE  ChInv'
<1>1. resp' \subseteq Fd \X Msg
  BY AuthorType DEF Answer
<1>2. ChannelsOK'
  BY SameChannels DEF ChInv
<1> QED
  BY <1>1, <1>2, StepKept DEF ChInv, Executing

LEMMA OpenedIsGood ==
  ASSUME ChInv, cli \in clis, Registered(cli)
  PROVE  GoodCh(NewCh(cli))
<1>1. NoCh \in Channel
  BY BlankIsChannel
<1>2. cli \in Fd
  BY DEF ChInv, CliInv, CliTypeOK
<1>3. NewCh(cli) \in Channel /\ NewCh(cli).clis = {cli} /\ NewCh(cli).adms = {cli}
  BY <1>1, <1>2 DEF NewCh, NoCh, Channel
<1> QED
  BY <1>3 DEF GoodCh

LEMMA EnterOK ==
  ASSUME ChInv, Walking("JOIN"), NEW n \in ChName, enterChannel(n)
  PROVE  ChInv'
<1> DEFINE r == IF n \in chs THEN ch[n] ELSE NewCh(cli)
           all == r.clis \cup {cli}
           joined == [r EXCEPT !.clis = all]
           left == IF vals = <<>> THEN <<>> ELSE Tail(vals)
<1>1. cli \in clis /\ cli \in Fd /\ Registered(cli) /\ Executing
  BY WalkingType, AuthorType
<1>2. GoodCh(r)
  BY <1>1, OpenedIsGood DEF ChInv, ChannelsOK
<1>3. GoodCh(joined)
  BY <1>1, <1>2 DEF GoodCh, Channel
<1>4. chs' = chs \cup {n} /\ Keep /\ NextItem(left)
  BY DEF enterChannel
<1>5. \/ ch' = [ch EXCEPT ![n] = r] /\ Answer(Error) /\ UNCHANGED invits
      \/ /\ ch' = [ch EXCEPT ![n] = joined]
         /\ \E topic \in {{}, Reply} :
              Answer(Message(all, "JOIN", cli, n) \cup topic \cup Message(all, "353", cli, n))
         /\ invits' = [invits EXCEPT ![cli] = @ \ {n}]
  BY DEF enterChannel
<1>6. invits' \in [Fd -> SUBSET ChName]
  BY <1>5 DEF ChInv, ChannelsOK
<1>7. ChannelsOK'
  <2>1. CASE ch' = [ch EXCEPT ![n] = r]
    <3> HIDE DEF r
    <3> QED
      BY <2>1, <1>2, <1>4, <1>6, OneChannel DEF ChInv
  <2>2. CASE ch' = [ch EXCEPT ![n] = joined]
    <3> HIDE DEF joined
    <3> QED
      BY <2>2, <1>3, <1>4, <1>6, OneChannel DEF ChInv
  <2> QED
    BY <1>5, <2>1, <2>2
<1>8. ListOK'
  <2>1. left \in Seq(Word)
    BY DEF ChInv, ListOK
  <2> HIDE DEF left
  <2> QED
    BY <1>4, <2>1, NextItemOK
<1>9. resp' \subseteq Fd \X Msg
  <2>1. n \in Word /\ "JOIN" \in Kind /\ "353" \in Kind
    BY ChannelsAssumption, ClientsAssumption DEF Kind
  <2>2. all \in SUBSET Fd
    BY <1>1, <1>2 DEF GoodCh, Channel
  <2>3. Message(all, "JOIN", cli, n) \subseteq Fd \X Msg /\ Message(all, "353", cli, n) \subseteq Fd \X Msg
    <3> HIDE DEF all
    <3> QED
      BY <1>1, <2>1, <2>2, MessageType
  <2> HIDE DEF all, r
  <2> QED
    BY <1>1, <1>5, <2>3, AuthorType DEF Answer
<1> QED
  BY <1>1, <1>4, <1>7, <1>8, <1>9, StepKept DEF ChInv, Executing

LEMMA JoinOneOK == ChInv /\ joinOne => ChInv'
<1> SUFFICES ASSUME ChInv, joinOne
             PROVE  ChInv'
  OBVIOUS
<1>1. Walking("JOIN") /\ Executing /\ vals \in Seq(Word) /\ phase = "serve"
  BY WalkingType DEF joinOne, ChInv, ListOK
<1>2. CASE Leave /\ Answer(Error) /\ Keep /\ UNCHANGED chVars
  BY <1>1, <1>2, LeaveOK, PassOver
<1>3. CASE NextItem(vals) /\ (Answer(Error) \/ Answer(Reply)) /\ Keep /\ UNCHANGED chVars
  <2>1. ListOK'
    BY <1>1, <1>3, NextItemOK
  <2> QED
    BY <1>1, <1>3, <2>1, PassOver
<1>4. CASE Crash
  BY <1>1, <1>4, CrashOK
<1>5. CASE Head(todo) \in ChName /\ enterChannel(Head(todo))
  BY <1>1, <1>5, EnterOK
<1> QED
  BY <1>2, <1>3, <1>4, <1>5, Zenon DEF joinOne

(* eraseCliFromCh leaves a good channel good: the heir is one of the       *)
(* members who stay.                                                       *)
LEMMA ErasedIsGood ==
  ASSUME NEW r, GoodCh(r), NEW gone, NEW heir, IsHeir(heir, r, gone)
  PROVE  GoodCh(eraseCliFromCh(r, gone, heir))
<1> DEFINE q == eraseCliFromCh(r, gone, heir)
<1>1. r \in Channel /\ r.adms \subseteq r.clis
  BY DEF GoodCh
<1>2. /\ q.clis = r.clis \ gone
      /\ q.adms = IF Orphaned(r, gone) THEN {heir} ELSE r.adms \ gone
  BY <1>1 DEF eraseCliFromCh, Channel
<1>3. q.adms \subseteq q.clis
  BY <1>1, <1>2 DEF IsHeir
<1>4. q \in Channel
  <2>1. q = [r EXCEPT !.clis = q.clis, !.adms = q.adms]
    BY <1>1 DEF eraseCliFromCh, Channel
  <2>2. q.clis \in SUBSET Fd /\ q.adms \in SUBSET Fd
    BY <1>1, <1>2, <1>3 DEF Channel
  <2> HIDE DEF q
  <2> QED
    BY <1>1, <2>1, <2>2 DEF Channel
<1> HIDE DEF q
<1>5. GoodCh(q)
  BY <1>2, <1>3, <1>4 DEF GoodCh
<1> QED
  BY <1>5 DEF q

(* The tail of PART and KICK.                                              *)
LEMMA LeaveChannelOK ==
  ASSUME ChInv, Executing, NEW n \in chs, NEW gone, NEW cmd \in Kind, NEW to \in SUBSET Fd,
         Answer(Message(to, cmd, cli, n)),
         NEW heir, IsHeir(heir, ch[n], gone),
         ch' = [ch EXCEPT ![n] = eraseCliFromCh(@, gone, heir)],
         ListOK', Keep, UNCHANGED <<chs, invits>>
  PROVE  ChInv'
<1>1. n \in ChName /\ n \in Word /\ cli \in Fd /\ GoodCh(ch[n])
  BY AuthorType, ChannelsAssumption, ClientsAssumption DEF ChInv, ChannelsOK
<1>2. GoodCh(eraseCliFromCh(ch[n], gone, heir))
  BY <1>1, ErasedIsGood
<1>3. chs' = chs \cup {n} /\ invits' \in [Fd -> SUBSET ChName]
  BY DEF ChInv, ChannelsOK
<1>4. ChannelsOK'
  <2> DEFINE r == eraseCliFromCh(ch[n], gone, heir)
  <2>1. ch' = [ch EXCEPT ![n] = r]
    OBVIOUS
  <2> HIDE DEF r
  <2>2. GoodCh(r)
    BY <1>2 DEF r
  <2> QED
    BY <1>1, <1>3, <2>1, <2>2, OneChannel DEF ChInv
<1>5. resp' \subseteq Fd \X Msg
  BY <1>1, MessageType DEF Answer
<1> QED
  BY <1>4, <1>5, StepKept DEF ChInv, Executing

LEMMA PartOneOK == ChInv /\ partOne => ChInv'
<1> SUFFICES ASSUME ChInv, partOne
             PROVE  ChInv'
  OBVIOUS
<1> DEFINE n == Head(todo)
<1>1. Walking("PART") /\ Executing /\ phase = "serve" /\ <<>> \in Seq(Word)
  BY WalkingType DEF partOne
<1>2. ASSUME NextItem(<<>>), Keep
      PROVE  ListOK'
  BY <1>1, <1>2, NextItemOK, Zenon
<1>3. CASE Crash
  BY <1>1, <1>3, CrashOK
<1>4. CASE NextItem(<<>>) /\ Answer(Error) /\ Keep /\ UNCHANGED chVars
  BY <1>1, <1>2, <1>4, PassOver
<1>5. CASE n \in chs /\ ~Crash /\ leaveChannel(n, getCli(nick[cli]), NextItem(<<>>), "PART")
  <2> DEFINE to == UNION {ch[m].clis : m \in Addressee}
             gone == getCli(nick[cli])
  <2>1. /\ Answer(Message(to, "PART", cli, n)) /\ NextItem(<<>>) /\ Keep
        /\ UNCHANGED <<chs, invits>>
    BY <1>5, Zenon DEF leaveChannel
  <2>2. PICK heir \in Fd : /\ IsHeir(heir, ch[n], gone)
                           /\ ch' = [ch EXCEPT ![n] = eraseCliFromCh(@, gone, heir)]
    BY <1>5, Zenon DEF leaveChannel
  <2>3. to \in SUBSET Fd /\ "PART" \in Kind
    BY <1>1, AuthorType, FoundAreFds DEF Addressee, Kind
  <2>4. ListOK' /\ n \in chs
    BY <1>2, <1>5, <2>1
  <2> HIDE DEF n, to, gone
  <2> QED
    BY <1>1, <2>1, <2>2, <2>3, <2>4, LeaveChannelOK
<1> QED
  BY <1>3, <1>4, <1>5, Zenon DEF partOne

LEMMA KickChannelOK == ChInv /\ kickChannel => ChInv'
<1> SUFFICES ASSUME ChInv, kickChannel
             PROVE  ChInv'
  OBVIOUS
<1>1. Walking("KICK") /\ Executing /\ phase = "serve" /\ <<>> \in Seq(Word)
  BY WalkingType DEF kickChannel
<1>2. ASSUME NextItem(<<>>), Keep
      PROVE  ListOK'
  BY <1>1, <1>2, NextItemOK, Zenon
<1>3. CASE Crash
  BY <1>1, <1>3, CrashOK
<1>4. CASE NextItem(<<>>) /\ (Answer(Error) \/ Answer({})) /\ Keep /\ UNCHANGED chVars
  BY <1>1, <1>2, <1>4, PassOver
<1>5. CASE /\ Head(todo) \in chs /\ Walk(ar, todo, sub[ar[3]])
           /\ Answer({}) /\ Keep /\ UNCHANGED chVars
  <2>1. /\ ar \in Seq(Word) /\ todo \in Seq(Word) /\ Len(ar) >= 3 /\ Len(ar) >= 2
        /\ ar[1] = "KICK"
    BY <1>1 DEF ChInv, ListOK, Walking
  <2>2. sub[ar[3]] \in Seq(Word)
    <3>1. 3 \in 1 .. Len(ar)
      BY <2>1
    <3>2. ar[3] \in Word
      BY <2>1, <3>1, SeqElement
    <3> QED
      BY <3>2, ClientsAssumption
  <2>3. Head(todo) \in chs' /\ ar[1] # "MODE"
    BY <1>5, <2>1 DEF chVars
  <2>4. Registered(cli) /\ cli \in clis
    BY <1>1, WalkingType
  <2>5. ListOK'
    BY <1>1, <1>5, <2>1, <2>2, <2>3, <2>4, WalkOK, Zenon
  <2> QED
    BY <1>1, <1>5, <2>5, PassOver
<1> QED
  BY <1>3, <1>4, <1>5, Zenon DEF kickChannel

LEMMA KickOneOK == ChInv /\ kickOne => ChInv'
<1> SUFFICES ASSUME ChInv, kickOne
             PROVE  ChInv'
  OBVIOUS
<1> DEFINE n == Head(todo)
           w == Head(vals)
           Rest == IF Len(vals) = 1 THEN NextItem(<<>>) ELSE Walk(ar, todo, Tail(vals))
<1>1. Walking("KICK") /\ Executing /\ phase = "serve" /\ <<>> \in Seq(Word)
  BY WalkingType DEF kickOne
<1>2. /\ ar \in Seq(Word) /\ todo \in Seq(Word) /\ vals \in Seq(Word) /\ vals # <<>>
      /\ Len(ar) >= 3 /\ Len(ar) >= 2 /\ ar[1] = "KICK" /\ n \in chs
  BY <1>1 DEF ChInv, ListOK, Walking, kickOne
<1>3. ASSUME Rest, Keep, UNCHANGED chs
      PROVE  ListOK'
  <2>1. CASE NextItem(<<>>)
    BY <1>1, <1>3, <2>1, NextItemOK, Zenon
  <2>2. CASE Walk(ar, todo, Tail(vals))
    <3>1. Tail(vals) \in Seq(Word) /\ ar[1] # "MODE" /\ Head(todo) \in chs'
      BY <1>2, <1>3
    <3>2. Registered(cli) /\ cli \in clis
      BY <1>1, WalkingType
    <3> QED
      BY <1>1, <1>2, <1>3, <2>2, <3>1, <3>2, WalkOK, Zenon
  <2> QED
    BY <1>3, <2>1, <2>2
<1>4. CASE Crash
  BY <1>1, <1>4, CrashOK
<1>5. CASE Rest /\ Answer(Error) /\ Keep /\ UNCHANGED chVars
  <2>1. ListOK'
    BY <1>3, <1>5 DEF chVars
  <2> QED
    BY <1>1, <1>5, <2>1, PassOver
<1>6. CASE ~Crash /\ leaveChannel(n, getCli(w), Rest, "KICK")
  <2> DEFINE to == UNION {ch[m].clis : m \in Addressee}
             gone == getCli(w)
  <2>1. Answer(Message(to, "KICK", cli, n)) /\ Rest /\ Keep /\ UNCHANGED <<chs, invits>>
    BY <1>6, Zenon DEF leaveChannel
  <2>2. PICK heir \in Fd : /\ IsHeir(heir, ch[n], gone)
                           /\ ch' = [ch EXCEPT ![n] = eraseCliFromCh(@, gone, heir)]
    BY <1>6, Zenon DEF leaveChannel
  <2>3. to \in SUBSET Fd /\ "KICK" \in Kind
    BY <1>1, AuthorType, FoundAreFds DEF Addressee, Kind
  <2>4. ListOK'
    BY <1>3, <2>1
  <2> HIDE DEF n, to, gone
  <2> QED
    BY <1>1, <1>2, <2>1, <2>2, <2>3, <2>4, LeaveChannelOK
<1> QED
  BY <1>4, <1>5, <1>6, Zenon DEF kickOne

(* Neither +o nor -o gives the status to an outsider.                      *)
LEMMA OpsAreGood ==
  ASSUME NEW r, GoodCh(r), NEW opt, NEW who \in SUBSET r.clis
  PROVE  GoodCh(WithOps(r, opt, who))
<1> DEFINE ops == IF opt = "+o" THEN r.adms \cup who ELSE r.adms \ who
<1>1. WithOps(r, opt, who) = [r EXCEPT !.adms = ops]
  BY DEF WithOps, GoodCh, Channel
<1>2. ops \subseteq r.clis /\ r.clis \in SUBSET Fd /\ r \in Channel
  BY DEF GoodCh, Channel
<1> HIDE DEF ops
<1> QED
  BY <1>1, <1>2 DEF GoodCh, Channel

(* An option that is taken leaves the members and the operators alone.     *)
LEMMA ModeIsGood ==
  ASSUME NEW r, GoodCh(r), NEW val \in Word, NEW opt,
         opt \notin {"+o", "-o"}, ~BadMode(r, opt, val)
  PROVE  GoodCh(WithMode(r, opt, val))
<1>1. r \in Channel
  BY DEF GoodCh
<1>2. CASE opt \in {"+i", "-i"}
  <2>1. WithMode(r, opt, val) = [r EXCEPT !.optI = (opt = "+i")]
    BY <1>2 DEF WithMode
  <2>2. (opt = "+i") \in BOOLEAN
    BY Zenon
  <2> QED
    BY <1>1, <2>1, <2>2, Zenon DEF GoodCh, Channel
<1>3. CASE opt \in {"+t", "-t"}
  <2>1. WithMode(r, opt, val) = [r EXCEPT !.optT = (opt = "+t")]
    BY <1>3 DEF WithMode
  <2>2. (opt = "+t") \in BOOLEAN
    BY Zenon
  <2> QED
    BY <1>1, <2>1, <2>2, Zenon DEF GoodCh, Channel
<1>4. CASE opt \in {"+k", "-k"}
  <2>1. PICK k \in Word : WithMode(r, opt, val) = [r EXCEPT !.pass = k]
    BY <1>4, ClientsAssumption DEF WithMode
  <2> QED
    BY <1>1, <2>1 DEF GoodCh, Channel
<1>5. CASE opt = "+l"
  <2>1. ~(atoi[val] < 0)
    BY <1>5 DEF BadMode
  <2>2. atoi[val] \in Int /\ atoi[val] < MaxLimit /\ MaxLimit \in Nat
    BY ChannelsAssumption
  <2>3. atoi[val] \in 0 .. MaxLimit
    BY <2>1, <2>2
  <2>4. WithMode(r, opt, val) = [r EXCEPT !.limit = atoi[val]]
    BY <1>5 DEF WithMode
  <2> QED
    BY <1>1, <2>3, <2>4 DEF GoodCh, Channel
<1>6. CASE opt = "-l"
  <2>1. MaxLimit \in 0 .. MaxLimit
    <3>1. MaxLimit \in Nat
      BY ChannelsAssumption
    <3> QED
      BY <3>1
  <2>2. WithMode(r, opt, val) = [r EXCEPT !.limit = MaxLimit]
    BY <1>6 DEF WithMode
  <2> QED
    BY <1>1, <2>1, <2>2 DEF GoodCh, Channel
<1> QED
  BY <1>2, <1>3, <1>4, <1>5, <1>6 DEF BadMode, Options, Valued

LEMMA ModeOneOK == ChInv /\ modeOne => ChInv'
<1> SUFFICES ASSUME ChInv, modeOne
             PROVE  ChInv'
  OBVIOUS
<1> DEFINE n == ar[2]
           opt == Head(todo)
           takes == opt \in Valued /\ Len(todo) >= 2
           val == IF takes THEN ar[4] ELSE ""
           names == IF val = "" THEN {""} ELSE Range(sub[val])
           who == UNION {getCliOnCh(w, n) : w \in names}
           told == Message(ch[n].clis, "MODE", cli, n)
           rest == SubSeq(todo, IF takes THEN 3 ELSE 2, Len(todo))
<1>1. Walking("MODE") /\ Executing /\ phase = "serve" /\ <<>> \in Seq(Word)
  <2>1. Walking("MODE")
    BY Zenon DEF modeOne
  <2> QED
    BY <2>1, WalkingType
<1>2. /\ ar \in Seq(Word) /\ todo \in Seq(Word) /\ todo # <<>> /\ Len(ar) >= 2
      /\ n \in chs /\ Len(todo) + 2 <= Len(ar) /\ ar[1] = "MODE"
  BY <1>1 DEF ChInv, ListOK, Walking
<1>3. val \in Word
  <2>1. CASE takes
    <3>1. 4 \in 1 .. Len(ar)
      BY <1>2, <2>1
    <3>2. ar[4] \in Word
      BY <1>2, <3>1, SeqElement
    <3> QED
      BY <2>1, <3>2
  <2>2. CASE ~takes
    <3>1. "" \in Word
      BY ClientsAssumption
    <3> QED
      BY <2>2, <3>1
  <2> QED
    BY <2>1, <2>2
<1>4. rest \in Seq(Word) /\ Len(rest) + 2 <= Len(ar)
  <2>1. takes => Len(todo) >= 2
    OBVIOUS
  <2> HIDE DEF takes
  <2> QED
    BY <1>2, <2>1
<1>5. /\ n \in ChName /\ n \in Word /\ GoodCh(ch[n]) /\ cli \in Fd /\ cli \in clis
      /\ Registered(cli) /\ ch[n].clis \in SUBSET Fd
  BY <1>1, <1>2, WalkingType, AuthorType, MembersAreFds, ChannelsAssumption, ClientsAssumption
     DEF ChInv, ChannelsOK
<1>6. Walk(ar, rest, <<>>) /\ Keep /\ UNCHANGED <<chs, invits>>
  BY DEF modeOne
<1>7. \/ /\ ch' = [ch EXCEPT ![n] = WithOps(@, opt, who)]
         /\ Answer((IF who = {} THEN {} ELSE told) \cup
                   (IF \E w \in names : getCliOnCh(w, n) = {} THEN Error ELSE {}))
      \/ UNCHANGED ch /\ Answer(Error)
      \/ /\ opt \notin {"+o", "-o"} /\ ~BadMode(ch[n], opt, val)
         /\ ch' = [ch EXCEPT ![n] = WithMode(@, opt, val)]
         /\ Answer(told)
  BY Zenon DEF modeOne
<1>8. told \subseteq Fd \X Msg
  <2>1. "MODE" \in Kind
    BY DEF Kind
  <2> HIDE DEF n
  <2> QED
    BY <1>5, <2>1, MessageType
<1>9. resp' \subseteq Fd \X Msg
  <2> HIDE DEF told, who, names
  <2> QED
    BY <1>1, <1>7, <1>8, AuthorType DEF Answer
<1>10. ListOK'
  <2>1. ar[1] # "KICK" /\ n \in chs'
    BY <1>2, <1>6
  <2> HIDE DEF rest
  <2> QED
    BY <1>1, <1>2, <1>4, <1>5, <1>6, <2>1, WalkOK, Zenon
<1>11. chs' = chs \cup {n} /\ invits' \in [Fd -> SUBSET ChName]
  BY <1>2, <1>6 DEF ChInv, ChannelsOK
<1>12. ChannelsOK'
  <2>1. CASE UNCHANGED ch
    BY <1>6, <2>1, SameChannels DEF ChInv, chVars
  <2>2. CASE ch' = [ch EXCEPT ![n] = WithOps(@, opt, who)]
    <3> DEFINE r == WithOps(ch[n], opt, who)
    <3>1. who \in SUBSET ch[n].clis
      BY DEF getCliOnCh
    <3>2. GoodCh(r)
      BY <1>5, <3>1, OpsAreGood
    <3>3. ch' = [ch EXCEPT ![n] = r]
      BY <2>2
    <3> HIDE DEF r, n
    <3> QED
      BY <1>5, <1>6, <1>11, <3>2, <3>3, OneChannel DEF ChInv
  <2>3. CASE /\ opt \notin {"+o", "-o"} /\ ~BadMode(ch[n], opt, val)
             /\ ch' = [ch EXCEPT ![n] = WithMode(@, opt, val)]
    <3> DEFINE r == WithMode(ch[n], opt, val)
    <3>1. GoodCh(r)
      <4> HIDE DEF n, opt, val
      <4> QED
        BY <1>3, <1>5, <2>3, ModeIsGood
    <3>2. ch' = [ch EXCEPT ![n] = r]
      BY <2>3
    <3> HIDE DEF r, n
    <3> QED
      BY <1>5, <1>6, <1>11, <3>1, <3>2, OneChannel DEF ChInv
  <2> QED
    BY <1>7, <2>1, <2>2, <2>3
<1> QED
  BY <1>1, <1>6, <1>9, <1>10, <1>12, StepKept DEF ChInv
-----------------------------------------------------------------------------
(* The clients come, register and go.                                      *)

(* A client is registered once and for all: no command of its own or of    *)
(* another takes its password, nickname or user name away.                 *)
LEMMA RegisteredStays ==
  ASSUME CliTypeOK, NEW a \in Cmds, CliCommand(a), NEW c \in Fd, Registered(c)
  PROVE  Registered(c)'
<1>1. passOk \subseteq passOk' /\ uName \subseteq uName'
  BY DEF CliCommand, execPass, execNick, execUser, execCap, execQuit, execModeCli, execInfo,
         Refuse, session
<1>2. nick'[c] # ""
  <2>1. CASE UNCHANGED nick
    BY <2>1 DEF Registered
  <2>2. CASE execNick(a) /\ ~Refuse
    <3>1. a[2] \in NickName /\ nick' = [nick EXCEPT ![cli] = a[2]]
      BY <2>2 DEF execNick, FreeNick
    <3>2. a[2] # ""
      BY <3>1, ClientsAssumption
    <3> QED
      BY <3>1, <3>2 DEF Registered, CliTypeOK
  <2>3. UNCHANGED nick \/ (execNick(a) /\ ~Refuse)
    BY DEF CliCommand, execPass, execNick, execUser, execCap, execQuit, execModeCli, execInfo,
           Refuse, session
  <2> QED
    BY <2>1, <2>2, <2>3
<1> QED
  BY <1>1, <1>2 DEF Registered

(* A step after which the clients on channels are still there.             *)
LEMMA ClientsStay ==
  ASSUME ChInv, CliInv', Idle, UNCHANGED <<chVars, listVars>>,
         \A c \in clis : Registered(c) => c \in clis' /\ Registered(c)'
  PROVE  ChInv'
<1>1. \A n \in chs : GoodCh(ch[n])'
  BY DEF ChInv, ChannelsOK, chVars, GoodCh, Channel
<1>2. ChannelsOK'
  BY <1>1 DEF ChInv, ChannelsOK, chVars
<1>3. ListOK'
  BY DEF ChInv, ListOK, Idle, listVars
<1> QED
  BY <1>2, <1>3 DEF ChInv

(* Deleting a client takes it off every channel, and nobody else goes but  *)
(* with it.                                                                *)
LEMMA EraseOK ==
  ASSUME ChInv, Idle, UNCHANGED listVars, NEW f \in Fd, eraseUnusedCliChs(f)
  PROVE  ChInv'
<1> DEFINE gone == getCli(nick[f])
<1>1. /\ CliTypeOK /\ ChannelsOK /\ eraseUnusedCli(f) /\ f \in clis
      /\ UNCHANGED chs /\ invits' = [invits EXCEPT ![f] = {}]
  BY DEF ChInv, CliInv, CliTypeOK, eraseUnusedCliChs, eraseUnusedCli
<1>2. PICK heir \in [chs -> Fd] :
        /\ \A n \in chs : IsHeir(heir[n], ch[n], gone)
        /\ ch' = [n \in ChName |-> IF n \in chs THEN eraseCliFromCh(ch[n], gone, heir[n])
                                                 ELSE ch[n]]
  BY DEF eraseUnusedCliChs
<1>3. CliInv'
  <2>1. CliTypeOK'
    BY <1>1, EraseType DEF ChInv, CliInv
  <2> QED
    BY <1>1, <2>1 DEF ChInv, CliInv, NoAuthorAtTop, eraseUnusedCli
<1>4. f \in gone
  BY <1>1 DEF getCli
<1>5. \A c \in clis \ {f} : c \in clis' /\ (Registered(c) => Registered(c)')
  BY <1>1 DEF eraseUnusedCli, Forget, Registered, CliTypeOK
<1>6. ASSUME NEW n \in chs
      PROVE  GoodCh(ch[n])'
  <2> DEFINE r == eraseCliFromCh(ch[n], gone, heir[n])
  <2>1. ch'[n] = r
    BY <1>1, <1>2 DEF ChannelsOK
  <2>2. GoodCh(ch[n])
    BY <1>1 DEF ChannelsOK
  <2>3. GoodCh(r)
    <3> HIDE DEF gone
    <3> QED
      BY <1>2, <2>2, ErasedIsGood
  <2>4. r.clis \subseteq ch[n].clis \ gone
    <3> HIDE DEF gone
    <3> QED
      BY <2>2 DEF eraseCliFromCh, GoodCh, Channel
  <2>5. f \notin r.clis
    BY <1>4, <2>4
  <2> HIDE DEF r, gone
  <2> QED
    BY <1>5, <2>1, <2>3, <2>5 DEF GoodCh, Channel
<1>7. ChannelsOK'
  <2>1. \A n \in chs : ch'[n] \in Channel
    BY <1>6 DEF GoodCh, Channel
  <2>2. ch' \in [ChName -> Channel]
    <3> HIDE DEF gone
    <3> QED
      BY <1>1, <1>2, <2>1 DEF ChannelsOK
  <2>3. \A n \in ChName \ chs : ch'[n] = NoCh
    BY <1>1, <1>2 DEF ChannelsOK
  <2>4. invits' \in [Fd -> SUBSET ChName]
    BY <1>1 DEF ChannelsOK
  <2> QED
    BY <1>1, <1>6, <2>2, <2>3, <2>4 DEF ChannelsOK
<1>8. ListOK'
  BY DEF ChInv, ListOK, Idle, listVars
<1> QED
  BY <1>3, <1>7, <1>8 DEF ChInv

LEMMA StartOK ==
  ASSUME ChInv, Idle, UNCHANGED listVars, startPassChs
  PROVE  ChInv'
<1>1. startPass /\ UNCHANGED <<clis, session, invits>>
  BY DEF startPassChs, startPass
<1>2. CliInv'
  BY <1>1, StartType DEF ChInv, CliInv, NoAuthorAtTop, startPass
<1>3. \A r : GoodCh(r) => GoodCh(r)'
  BY <1>1 DEF GoodCh, session, Registered, Channel
<1>4. /\ chs' \subseteq chs /\ chs' \subseteq ChName
      /\ ch' = [n \in ChName |-> IF n \in chs' THEN ch[n] ELSE NoCh]
  BY DEF startPassChs, eraseUnusedChs, ChInv, ChannelsOK
<1>5. IsFiniteSet(chs')
  BY <1>4, FS_Subset DEF ChInv, ChannelsOK
<1>6. ChannelsOK'
  BY <1>1, <1>3, <1>4, <1>5, BlankIsChannel DEF ChInv, ChannelsOK
<1>7. ListOK'
  BY DEF ChInv, ListOK, Idle, listVars
<1> QED
  BY <1>2, <1>6, <1>7 DEF ChInv

LEMMA ChInvNext == ChInv /\ [Next]_vars => ChInv'
<1> SUFFICES ASSUME ChInv, [Next]_vars
             PROVE  ChInv'
  OBVIOUS
<1>1. CASE Idle /\ Serve /\ UNCHANGED <<chVars, listVars>>
  <2>1. CliNext
    BY <1>1 DEF CliNext
  <2>2. CliInv'
    BY <2>1, CliInvNext DEF ChInv
  <2>3. clis \subseteq clis' /\ UNCHANGED session
    BY <1>1 DEF Serve, addNewClient, receiveBuf, hangUp, endPass
  <2>4. \A c \in clis : Registered(c) => c \in clis' /\ Registered(c)'
    BY <2>3 DEF session, Registered
  <2> QED
    BY <1>1, <2>2, <2>4, ClientsStay
<1>2. ASSUME NEW a \in Cmds, Idle, CliCommand(a), UNCHANGED <<chVars, listVars>>
      PROVE  ChInv'
  <2>1. CliInv'
    BY <1>2, CliInvNext DEF ChInv, CliNext
  <2>2. UNCHANGED clis /\ CliTypeOK /\ clis \subseteq Fd
    BY <1>2 DEF CliCommand, ChInv, CliInv, CliTypeOK
  <2>3. \A c \in clis : Registered(c) => c \in clis' /\ Registered(c)'
    BY <1>2, <2>2, RegisteredStays
  <2> QED
    BY <1>2, <2>1, <2>3, ClientsStay
<1>3. ASSUME NEW f \in Fd, Idle, eraseUnusedCliChs(f), UNCHANGED listVars
      PROVE  ChInv'
  BY <1>3, EraseOK
<1>4. CASE Idle /\ startPassChs /\ UNCHANGED listVars
  BY <1>4, StartOK
<1>5. ASSUME NEW a \in Cmds, ChCommand(a)
      PROVE  ChInv'
  BY <1>5, CommandOK
<1>6. CASE joinOne \/ partOne \/ kickChannel \/ kickOne \/ modeOne
  BY <1>6, JoinOneOK, PartOneOK, KickChannelOK, KickOneOK, ModeOneOK
<1>7. CASE UNCHANGED vars
  <2>1. CliInv'
    BY <1>7, CliInvNext DEF vars, ChInv
  <2>2. \A r : GoodCh(r) => GoodCh(r)'
    BY <1>7 DEF vars, cliVars, session, GoodCh, Registered, Channel
  <2>3. ChannelsOK'
    BY <1>7, <2>2 DEF vars, chVars, ChInv, ChannelsOK
  <2>4. ListOK'
    BY <1>7 DEF vars, cliVars, session, chVars, listVars, ChInv, ListOK, Registered
  <2> QED
    BY <2>1, <2>3, <2>4 DEF ChInv
<1> QED
  BY <1>1, <1>2, <1>3, <1>4, <1>5, <1>6, <1>7, Zenon DEF Next
-----------------------------------------------------------------------------
(* Every state of the channels is well formed.                             *)
THEOREM ChTypeCorrect == Spec => []TypeOK
<1> QED
  BY ChInvInit, ChInvNext, ChInvImplies, PTL DEF Spec

(* No channel keeps a pointer to a client that was deleted (MembersLive),  *)
(* although the pointers are removed by nickname.                          *)
THEOREM MembersAreLive == Spec => []MembersLive
<1> QED
  BY ChInvInit, ChInvNext, ChInvImplies, PTL DEF Spec

(* The operators of a channel are members of it (OpsAreMembers).           *)
THEOREM OperatorsAreMembers == Spec => []OpsAreMembers
<1> QED
  BY ChInvInit, ChInvNext, ChInvImplies, PTL DEF Spec

(* The members of a channel are registered (MembersRegistered).            *)
THEOREM MembersAreRegistered == Spec => []MembersRegistered
<1> QED
  BY ChInvInit, ChInvNext, ChInvImplies, PTL DEF Spec
-----------------------------------------------------------------------------
(* What a step may and may not do to the channels.                         *)

(* The only steps that write to a channel, or to the map of channels.      *)
Quiescent == UNCHANGED <<chs, ch>>

Departure(n, gone) ==
  /\ phase = "serve" /\ Keep /\ UNCHANGED chs
  /\ \E heir \in Fd : IsHeir(heir, ch[n], gone)
                     /\ ch' = [ch EXCEPT ![n] = eraseCliFromCh(@, gone, heir)]

LEMMA WhoWrites ==
  ASSUME [Next]_vars
  PROVE  \/ Quiescent
         \/ \E n \in ChName : /\ Walking("JOIN") /\ n = Head(todo)
                              /\ ~Full(cli) /\ ~Misspelt(n) /\ ~(n \in chs /\ IsOn(n))
                              /\ enterChannel(n)
         \/ \E n, gone : Departure(n, gone)
         \/ modeOne
         \/ \E a \in Cmds : execTopic(a)
         \/ \E f \in Fd : eraseUnusedCliChs(f)
         \/ startPassChs
<1>1. CASE UNCHANGED vars
  BY <1>1 DEF vars, chVars, Quiescent
<1>2. CASE Idle /\ UNCHANGED chVars
  BY <1>2 DEF chVars, Quiescent
<1>3. ASSUME NEW a \in Cmds, ChCommand(a)
      PROVE  Quiescent \/ execTopic(a)
  BY <1>3 DEF ChCommand, execJoin, execJoinZero, execPart, execKick, execInvite, execModeCh,
              execPrivmsg, execNotice, Say, Crash, chVars, Quiescent
<1>4. CASE joinOne
  BY <1>4 DEF joinOne, Crash, chVars, Quiescent
<1>5. CASE partOne
  BY <1>5 DEF partOne, Walking, Crash, chVars, Quiescent, leaveChannel, Departure
<1>6. CASE kickChannel
  BY <1>6 DEF kickChannel, Crash, chVars, Quiescent
<1>7. CASE kickOne
  BY <1>7 DEF kickOne, Walking, Crash, chVars, Quiescent, leaveChannel, Departure
<1> QED
  BY <1>1, <1>2, <1>3, <1>4, <1>5, <1>6, <1>7, Zenon DEF Next

(* A channel is opened only when no channel has its name, whatever the     *)
(* case: getCh finds at most one (ChNamesCaseUnique).                      *)
THEOREM ChannelNamesAreUnique == Spec => []ChNamesCaseUnique
<1>1. Init => ChNamesCaseUnique
  BY DEF Init, ChNamesCaseUnique
<1>2. ChNamesCaseUnique /\ [Next]_vars => ChNamesCaseUnique'
  <2> SUFFICES ASSUME ChNamesCaseUnique, [Next]_vars
               PROVE  ChNamesCaseUnique'
    OBVIOUS
  <2>1. CASE chs' \subseteq chs
    BY <2>1 DEF ChNamesCaseUnique
  <2>2. ASSUME NEW n \in ChName, ~Misspelt(n), enterChannel(n)
        PROVE  ChNamesCaseUnique'
    <3>1. chs' = chs \cup {n}
      BY <2>2 DEF enterChannel
    <3>2. n \in chs \/ \A m \in chs : lower[m] # lower[n]
      BY <2>2 DEF Misspelt, getCh
    <3> QED
      BY <3>1, <3>2 DEF ChNamesCaseUnique
  <2>3. ASSUME \/ Quiescent \/ modeOne \/ \E n, gone : Departure(n, gone)
               \/ \E a \in Cmds : execTopic(a)
               \/ \E f \in Fd : eraseUnusedCliChs(f)
               \/ startPassChs
        PROVE  chs' \subseteq chs
    BY <2>3 DEF Quiescent, modeOne, Departure, execTopic, Say, Crash, chVars, eraseUnusedCliChs,
                startPassChs, eraseUnusedChs
  <2> QED
    BY <2>1, <2>2, <2>3, WhoWrites
<1> QED
  BY <1>1, <1>2, PTL DEF Spec

(* eraseCliFromCh leaves an operator on a channel that is not empty.       *)
LEMMA ErasedKeepsOperator ==
  ASSUME NEW r \in Channel, NEW gone, NEW heir, IsHeir(heir, r, gone),
         eraseCliFromCh(r, gone, heir).clis # {}
  PROVE  eraseCliFromCh(r, gone, heir).adms # {}
<1>1. eraseCliFromCh(r, gone, heir).clis = r.clis \ gone
  BY DEF eraseCliFromCh, Channel
<1>2. eraseCliFromCh(r, gone, heir).adms = IF Orphaned(r, gone) THEN {heir} ELSE r.adms \ gone
  BY DEF eraseCliFromCh, Channel
<1> QED
  BY <1>1, <1>2 DEF Orphaned

(* Neither MODE nor TOPIC touches who is on the channel.                   *)
LEMMA ModeKeepsMembers ==
  ASSUME NEW r \in Channel, NEW opt, NEW val,
         opt \notin {"+o", "-o"}, ~BadMode(r, opt, val)
  PROVE  WithMode(r, opt, val).clis = r.clis
<1>1. CASE opt \in {"+i", "-i"}
  <2>1. PICK b : WithMode(r, opt, val) = [r EXCEPT !.optI = b]
    BY <1>1, Zenon DEF WithMode
  <2> QED
    BY <2>1 DEF Channel
<1>2. CASE opt \in {"+t", "-t"}
  <2>1. PICK b : WithMode(r, opt, val) = [r EXCEPT !.optT = b]
    BY <1>2 DEF WithMode
  <2> QED
    BY <2>1 DEF Channel
<1>3. CASE opt \in {"+k", "-k"}
  <2>1. PICK k : WithMode(r, opt, val) = [r EXCEPT !.pass = k]
    BY <1>3 DEF WithMode
  <2> QED
    BY <2>1 DEF Channel
<1>4. CASE opt \in {"+l", "-l"}
  <2>1. PICK k : WithMode(r, opt, val) = [r EXCEPT !.limit = k]
    BY <1>4 DEF WithMode
  <2> QED
    BY <2>1 DEF Channel
<1> QED
  BY <1>1, <1>2, <1>3, <1>4 DEF BadMode, Options, Valued

LEMMA OpsKeepMembers ==
  ASSUME NEW r \in Channel, NEW opt, NEW who
  PROVE  WithOps(r, opt, who).clis = r.clis
BY DEF WithOps, Channel

(* Whoever leaves a channel, by PART, by KICK or by being deleted, leaves  *)
(* an operator behind if anybody is left (LeavesOperator).                 *)
THEOREM DeparturesLeaveOperators == Spec => LeavesOperator
<1> DEFINE Left(n) == /\ ~(ch[n].clis \subseteq ch'[n].clis)
                      /\ ch'[n].clis # {}
                      => ch'[n].adms # {}
       Keeps == \A n \in ChName : /\ ~(ch[n].clis \subseteq ch'[n].clis)
                                  /\ ch'[n].clis # {}
                                  => ch'[n].adms # {}
<1>1. ChInv /\ [Next]_vars => Keeps
  <2> SUFFICES ASSUME ChInv, [Next]_vars, NEW n \in ChName
               PROVE  Left(n)
    OBVIOUS
  <2>1. ch[n] \in Channel /\ DOMAIN ch = ChName /\ ch = [m \in ChName |-> ch[m]]
    BY DEF ChInv, ChannelsOK
  <2>2. CASE ch'[n].clis = ch[n].clis
    BY <2>2
  <2>3. CASE Quiescent
    BY <2>2, <2>3 DEF Quiescent
  <2>4. ASSUME NEW m \in ChName, ~Misspelt(m), enterChannel(m)
        PROVE  Left(n)
    <3>1. CASE n = m
      <4> DEFINE r == IF m \in chs THEN ch[m] ELSE NewCh(cli)
      <4>1. r \in Channel \/ r = NewCh(cli)
        BY <2>1, <3>1
      <4>2. ch'[n] = r \/ ch'[n] = [r EXCEPT !.clis = r.clis \cup {cli}]
        BY <2>1, <2>4, <3>1 DEF enterChannel
      <4>3. m \notin chs => ch[m] = NoCh
        BY DEF ChInv, ChannelsOK
      <4>4. ch[n].clis \subseteq r.clis
        <5>1. CASE m \in chs
          BY <3>1, <5>1
        <5>2. CASE m \notin chs
          <6>1. ch[n] = NoCh /\ NoCh.clis = {}
            BY <3>1, <4>3, <5>2 DEF NoCh
          <6> QED
            BY <6>1
        <5> QED
          BY <5>1, <5>2
      <4>5. r.clis \subseteq ch'[n].clis
        BY <4>1, <4>2 DEF Channel, NewCh, NoCh
      <4> QED
        BY <4>4, <4>5
    <3>2. CASE n # m
      BY <2>1, <2>2, <2>4, <3>2 DEF enterChannel
    <3> QED
      BY <3>1, <3>2
  <2>5. ASSUME NEW m, NEW gone, Departure(m, gone)
        PROVE  Left(n)
    <3>1. PICK heir \in Fd : /\ IsHeir(heir, ch[m], gone)
                             /\ ch' = [ch EXCEPT ![m] = eraseCliFromCh(ch[m], gone, heir)]
      BY <2>5 DEF Departure
    <3>2. CASE n = m
      <4>1. ch'[n] = eraseCliFromCh(ch[n], gone, heir) /\ IsHeir(heir, ch[n], gone)
        BY <2>1, <3>1, <3>2
      <4> QED
        BY <2>1, <4>1, ErasedKeepsOperator
    <3>3. CASE n # m
      BY <2>1, <2>2, <3>1, <3>3
    <3> QED
      BY <3>2, <3>3
  <2>6. ASSUME NEW f \in Fd, eraseUnusedCliChs(f)
        PROVE  Left(n)
    <3> DEFINE gone == getCli(nick[f])
    <3>1. PICK heir \in [chs -> Fd] :
            /\ \A m \in chs : IsHeir(heir[m], ch[m], gone)
            /\ ch' = [m \in ChName |-> IF m \in chs THEN eraseCliFromCh(ch[m], gone, heir[m])
                                                    ELSE ch[m]]
      BY <2>6 DEF eraseUnusedCliChs
    <3> HIDE DEF gone
    <3>2. CASE n \in chs
      <4>1. ch'[n] = eraseCliFromCh(ch[n], gone, heir[n]) /\ IsHeir(heir[n], ch[n], gone)
        BY <3>1, <3>2
      <4> QED
        BY <2>1, <4>1, ErasedKeepsOperator
    <3>3. CASE n \notin chs
      BY <2>2, <3>1, <3>3
    <3> QED
      BY <3>2, <3>3
  <2>7. ASSUME startPassChs
        PROVE  Left(n)
    <3>1. ch'[n] = ch[n] \/ ch'[n] = NoCh
      BY <2>7 DEF startPassChs, eraseUnusedChs
    <3>2. NoCh.clis = {}
      BY DEF NoCh
    <3>3. CASE ch'[n] = ch[n]
      BY <2>2, <3>3
    <3>4. CASE ch'[n] = NoCh
      BY <3>2, <3>4
    <3> QED
      BY <3>1, <3>3, <3>4
  <2>8. ASSUME modeOne
        PROVE  Left(n)
    <3>1. \/ UNCHANGED ch
          \/ \E opt, who : ch' = [ch EXCEPT ![ar[2]] = WithOps(@, opt, who)]
          \/ \E opt, val : /\ opt \notin {"+o", "-o"} /\ ~BadMode(ch[ar[2]], opt, val)
                            /\ ch' = [ch EXCEPT ![ar[2]] = WithMode(@, opt, val)]
      BY <2>8, Zenon DEF modeOne
    <3>2. CASE UNCHANGED ch
      BY <2>2, <3>2
    <3>3. CASE n # ar[2]
      BY <2>1, <2>2, <3>1, <3>3
    <3>4. ASSUME NEW opt, NEW who, n = ar[2], ch' = [ch EXCEPT ![ar[2]] = WithOps(@, opt, who)]
          PROVE  Left(n)
      <4>1. ch'[n] = WithOps(ch[n], opt, who)
        BY <2>1, <3>4
      <4> QED
        BY <2>1, <2>2, <4>1, OpsKeepMembers
    <3>5. ASSUME NEW opt, NEW val, n = ar[2], opt \notin {"+o", "-o"},
                 ~BadMode(ch[ar[2]], opt, val), ch' = [ch EXCEPT ![ar[2]] = WithMode(@, opt, val)]
          PROVE  Left(n)
      <4>1. ch'[n] = WithMode(ch[n], opt, val) /\ ~BadMode(ch[n], opt, val)
        BY <2>1, <3>5
      <4> QED
        BY <2>1, <2>2, <3>5, <4>1, ModeKeepsMembers
    <3> QED
      BY <3>1, <3>2, <3>3, <3>4, <3>5
  <2>9. ASSUME NEW a \in Cmds, execTopic(a)
        PROVE  Left(n)
    <3>1. UNCHANGED ch \/ \E t : ch' = [ch EXCEPT ![a[2]].topic = t]
      BY <2>9, Zenon DEF execTopic, Say, Crash, chVars
    <3>2. CASE UNCHANGED ch
      BY <2>2, <3>2
    <3>3. ASSUME NEW t, ch' = [ch EXCEPT ![a[2]].topic = t]
          PROVE  Left(n)
      <4>1. ch'[n].clis = ch[n].clis
        BY <2>1, <3>3 DEF Channel
      <4> QED
        BY <2>2, <4>1
    <3> QED
      BY <3>1, <3>2, <3>3
  <2> QED
    BY <2>3, <2>4, <2>5, <2>6, <2>7, <2>8, <2>9, WhoWrites, Zenon
<1>2. ChInv /\ [Next]_vars => [Keeps]_vars
  BY <1>1
<1> QED
  BY <1>2, ChInvInit, ChInvNext, PTL DEF Spec, LeavesOperator
-----------------------------------------------------------------------------
(* The modes of a channel.                                                 *)

(* eraseCliFromCh keeps the modes and adds nobody.                         *)
LEMMA ErasedKeepsModes ==
  ASSUME NEW r \in Channel, NEW gone, NEW heir
  PROVE  /\ Modes(eraseCliFromCh(r, gone, heir)) = Modes(r)
         /\ eraseCliFromCh(r, gone, heir).clis = r.clis \ gone
BY DEF eraseCliFromCh, Modes, Channel

LEMMA OpsKeepModes ==
  ASSUME NEW r \in Channel, NEW opt, NEW who
  PROVE  Modes(WithOps(r, opt, who)) = Modes(r)
BY DEF WithOps, Modes, Channel

LEMMA TopicKeepsModes ==
  ASSUME NEW r \in Channel, NEW t
  PROVE  LET q == [r EXCEPT !.topic = t]
         IN  Modes(q) = Modes(r) /\ q.clis = r.clis
BY DEF Modes, Channel

LEMMA MembersKeepModes ==
  ASSUME NEW r \in Channel, NEW S
  PROVE  LET q == [r EXCEPT !.clis = S]
         IN  Modes(q) = Modes(r) /\ q.clis = S
BY DEF Modes, Channel

(* What a step makes of a channel that is there and stays: it may become   *)
(* what JOIN makes of it, or keep its modes and get no new member; or MODE *)
(* is applied to it, which keeps its members.                              *)
KeyInHand == IF vals = <<>> THEN "" ELSE Head(vals)

Enters(n) ==
  /\ Walking("JOIN") /\ n = Head(todo) /\ ~Full(cli) /\ ~IsOn(n) /\ enterChannel(n)
  /\ Modes(ch'[n]) = Modes(ch[n]) /\ ch'[n].clis = ch[n].clis \cup {cli}
  /\ Admits(ch[n], n, KeyInHand)
  /\ invits' = [invits EXCEPT ![cli] = @ \ {n}]

Stays(n) == Modes(ch'[n]) = Modes(ch[n]) /\ ch'[n].clis \subseteq ch[n].clis

IsSet(n) == Walking("MODE") /\ ar[2] = n /\ ch'[n].clis = ch[n].clis

LEMMA ChannelBecomes ==
  ASSUME ChInv, [Next]_vars, NEW n \in chs, n \in chs'
  PROVE  Enters(n) \/ Stays(n) \/ IsSet(n)
<1>1. n \in ChName /\ ch[n] \in Channel /\ DOMAIN ch = ChName
  BY DEF ChInv, ChannelsOK
<1>2. ASSUME ch'[n] = ch[n]
      PROVE  Stays(n)
  BY <1>2 DEF Stays
<1>3. ASSUME NEW m \in ChName, Walking("JOIN"), m = Head(todo), ~Full(cli),
             ~(m \in chs /\ IsOn(m)), enterChannel(m)
      PROVE  Enters(n) \/ Stays(n)
  <2>1. CASE n = m
    <3>1. \/ ch' = [ch EXCEPT ![n] = ch[n]]
          \/ /\ ch' = [ch EXCEPT ![n] = [ch[n] EXCEPT !.clis = ch[n].clis \cup {cli}]]
             /\ Admits(ch[n], n, KeyInHand)
             /\ invits' = [invits EXCEPT ![cli] = @ \ {n}]
      BY <1>3, <2>1, Zenon DEF enterChannel, KeyInHand
    <3>2. CASE ch' = [ch EXCEPT ![n] = ch[n]]
      BY <1>1, <1>2, <3>2
    <3>3. CASE /\ ch' = [ch EXCEPT ![n] = [ch[n] EXCEPT !.clis = ch[n].clis \cup {cli}]]
               /\ Admits(ch[n], n, KeyInHand)
               /\ invits' = [invits EXCEPT ![cli] = @ \ {n}]
      <4>1. ch'[n] = [ch[n] EXCEPT !.clis = ch[n].clis \cup {cli}]
        BY <1>1, <3>3
      <4>2. Modes(ch'[n]) = Modes(ch[n]) /\ ch'[n].clis = ch[n].clis \cup {cli}
        BY <1>1, <4>1, MembersKeepModes
      <4> QED
        BY <1>3, <2>1, <3>3, <4>2 DEF Enters
    <3> QED
      BY <3>1, <3>2, <3>3
  <2>2. CASE n # m
    BY <1>1, <1>2, <1>3, <2>2 DEF enterChannel
  <2> QED
    BY <2>1, <2>2
<1>4. ASSUME NEW m, NEW gone, Departure(m, gone)
      PROVE  Stays(n)
  <2>1. PICK heir : ch' = [ch EXCEPT ![m] = eraseCliFromCh(ch[m], gone, heir)]
    BY <1>4 DEF Departure
  <2>2. CASE n = m
    <3>1. ch'[n] = eraseCliFromCh(ch[n], gone, heir)
      BY <1>1, <2>1, <2>2
    <3> QED
      BY <1>1, <3>1, ErasedKeepsModes DEF Stays
  <2>3. CASE n # m
    BY <1>1, <1>2, <2>1, <2>3
  <2> QED
    BY <2>2, <2>3
<1>5. ASSUME NEW f \in Fd, eraseUnusedCliChs(f)
      PROVE  Stays(n)
  <2>1. PICK heir : ch'[n] = eraseCliFromCh(ch[n], getCli(nick[f]), heir[n])
    BY <1>1, <1>5 DEF eraseUnusedCliChs
  <2> QED
    BY <1>1, <2>1, ErasedKeepsModes DEF Stays
<1>6. ASSUME startPassChs
      PROVE  Stays(n)
  BY <1>1, <1>2, <1>6 DEF startPassChs, eraseUnusedChs
<1>7. ASSUME modeOne
      PROVE  Stays(n) \/ IsSet(n)
  <2>1. /\ Walking("MODE")
        /\ \/ UNCHANGED ch
           \/ \E opt, who : ch' = [ch EXCEPT ![ar[2]] = WithOps(@, opt, who)]
           \/ \E opt, val : /\ opt \notin {"+o", "-o"} /\ ~BadMode(ch[ar[2]], opt, val)
                             /\ ch' = [ch EXCEPT ![ar[2]] = WithMode(@, opt, val)]
    BY <1>7, Zenon DEF modeOne
  <2>2. CASE UNCHANGED ch
    BY <1>2, <2>2
  <2>3. CASE n # ar[2]
    BY <1>1, <1>2, <2>1, <2>3
  <2>4. ASSUME NEW opt, NEW who, n = ar[2], ch' = [ch EXCEPT ![ar[2]] = WithOps(@, opt, who)]
        PROVE  Stays(n)
    <3>1. ch'[n] = WithOps(ch[n], opt, who)
      BY <1>1, <2>4
    <3> QED
      BY <1>1, <3>1, OpsKeepModes, OpsKeepMembers DEF Stays
  <2>5. ASSUME NEW opt, NEW val, n = ar[2], opt \notin {"+o", "-o"},
               ~BadMode(ch[ar[2]], opt, val), ch' = [ch EXCEPT ![ar[2]] = WithMode(@, opt, val)]
        PROVE  IsSet(n)
    <3>1. ch'[n] = WithMode(ch[n], opt, val) /\ ~BadMode(ch[n], opt, val)
      BY <1>1, <2>5
    <3> QED
      BY <1>1, <2>1, <2>5, <3>1, ModeKeepsMembers DEF IsSet
  <2> QED
    BY <2>1, <2>2, <2>3, <2>4, <2>5
<1>8. ASSUME NEW a \in Cmds, execTopic(a)
      PROVE  Stays(n)
  <2>1. UNCHANGED ch \/ \E t : ch' = [ch EXCEPT ![a[2]].topic = t]
    BY <1>8, Zenon DEF execTopic, Say, Crash, chVars
  <2>2. CASE UNCHANGED ch
    BY <1>2, <2>2
  <2>3. ASSUME NEW t, ch' = [ch EXCEPT ![a[2]].topic = t]
        PROVE  Stays(n)
    <3>1. CASE n = a[2]
      <4>1. ch'[n] = [ch[n] EXCEPT !.topic = t]
        BY <1>1, <2>3, <3>1
      <4> QED
        BY <1>1, <4>1, TopicKeepsModes DEF Stays
    <3>2. CASE n # a[2]
      BY <1>1, <1>2, <2>3, <3>2
    <3> QED
      BY <3>1, <3>2
  <2> QED
    BY <2>1, <2>2, <2>3
<1> QED
  BY <1>2, <1>3, <1>4, <1>5, <1>6, <1>7, <1>8, WhoWrites, Zenon DEF Quiescent

(* The commands on channels leave the clients alone, so that nicknames     *)
(* stay unique here too.                                                   *)
LEMMA KeptOrCrashed ==
  ASSUME \/ \E a \in Cmds : ChCommand(a)
         \/ joinOne \/ partOne \/ kickChannel \/ kickOne \/ modeOne
  PROVE  Keep \/ Crash
<1>1. \A S : Say(S) => Keep
  BY DEF Say
<1>2. ASSUME NEW a \in Cmds, ChCommand(a)
      PROVE  Keep \/ Crash
  BY <1>1, <1>2, Zenon DEF ChCommand, execJoin, execJoinZero, execPart, execKick, execInvite,
     execTopic, execModeCh, execPrivmsg, execNotice
<1>3. CASE joinOne
  BY <1>3, Zenon DEF joinOne, enterChannel
<1>4. CASE partOne \/ kickChannel \/ kickOne \/ modeOne
  BY <1>4, Zenon DEF partOne, kickChannel, kickOne, leaveChannel, modeOne
<1> QED
  BY <1>2, <1>3, <1>4

LEMMA ClientsLeftAlone ==
  ASSUME \/ \E a \in Cmds : ChCommand(a)
         \/ joinOne \/ partOne \/ kickChannel \/ kickOne \/ modeOne
  PROVE  UNCHANGED <<clis, session>>
<1>1. Keep \/ Crash
  BY KeptOrCrashed
<1> QED
  BY <1>1 DEF Keep, Crash

SteadyInv == ChInv /\ NickUnique

LEMMA SteadyInvInit == Init => SteadyInv
BY ChInvInit DEF Init, CliInit, NickUnique, SteadyInv

LEMMA SteadyInvNext == SteadyInv /\ [Next]_vars => SteadyInv'
<1> SUFFICES ASSUME SteadyInv, [Next]_vars
             PROVE  SteadyInv'
  OBVIOUS
<1>1. ChInv' /\ CliTypeOK /\ NickUnique
  BY ChInvNext DEF SteadyInv, ChInv, CliInv
<1>2. CASE UNCHANGED <<clis, session>>
  BY <1>1, <1>2 DEF session, NickUnique, SteadyInv
<1>3. CASE Serve
  BY <1>1, <1>3, NickUniqueServe DEF SteadyInv
<1>4. ASSUME NEW a \in Cmds, CliCommand(a)
      PROVE  SteadyInv'
  BY <1>1, <1>4, NickUniqueCommand DEF SteadyInv
<1>5. ASSUME NEW f \in Fd, eraseUnusedCliChs(f)
      PROVE  SteadyInv'
  BY <1>1, <1>5, NickUniqueErase DEF SteadyInv, eraseUnusedCliChs
<1>6. CASE startPassChs \/ UNCHANGED vars
  BY <1>2, <1>6 DEF startPassChs, startPass, vars, cliVars
<1>7. ASSUME NEW a \in Cmds, ChCommand(a)
      PROVE  SteadyInv'
  BY <1>2, <1>7, ClientsLeftAlone
<1>8. CASE joinOne \/ partOne \/ kickChannel \/ kickOne \/ modeOne
  BY <1>2, <1>8, ClientsLeftAlone
<1> QED
  BY <1>3, <1>4, <1>5, <1>6, <1>7, <1>8, Zenon DEF Next

(* A walk of MODE begins with an operator: IsAdm finds an operator who has *)
(* the author's nickname, and nobody else has it.                          *)
LEMMA AdmIsAuthor ==
  ASSUME ChInv, NickUnique, cli \in clis, Registered(cli), NEW n \in chs, IsAdm(n)
  PROVE  cli \in ch[n].adms
<1>1. PICK c \in ch[n].adms : lower[nick[c]] = lower[nick[cli]]
  BY DEF IsAdm, getAdmOnCh
<1>2. c \in clis /\ Registered(c)
  BY DEF ChInv, ChannelsOK, GoodCh
<1>3. c = cli
  <2>1. nick[c] # ""
    BY <1>2 DEF Registered
  <2> QED
    BY <1>1, <1>2, <2>1 DEF NickUnique
<1> QED
  BY <1>3

LEMMA ModeBegins ==
  ASSUME ChInv, NickUnique, [Next]_vars, ar = <<>>, ar' # <<>>, ar'[1] = "MODE"
  PROVE  cli \in ch[ar'[2]].adms
<1>1. ~UNCHANGED listVars
  BY DEF listVars
<1>2. /\ ~Walking("JOIN") /\ ~Walking("PART") /\ ~Walking("KICK") /\ ~Walking("MODE")
  BY DEF Walking
<1>3. PICK a \in Cmds : ChCommand(a)
  BY <1>1, <1>2, Zenon DEF Next, joinOne, partOne, kickChannel, kickOne, modeOne, vars, listVars
<1>4. execModeCh(a)
  <2>1. ~execInvite(a) /\ ~execTopic(a) /\ ~execPrivmsg(a) /\ ~execNotice(a)
    BY <1>1 DEF execInvite, execTopic, execPrivmsg, execNotice, Say, Crash, listVars
  <2>2. ~execPart(a)
    BY <1>1 DEF execPart, Say, Walk, listVars
  <2>3. ~execKick(a)
    BY <1>1 DEF execKick, Say, Walk, listVars
  <2>4. ~execJoin(a)
    <3>1. ASSUME NEW mine, execJoinZero(mine)
          PROVE  FALSE
      <4>1. ar' = <<>> \/ \E w : ar' = <<"PART", w>>
        BY <3>1, Zenon DEF execJoinZero, Walk
      <4>2. ASSUME NEW w, ar' = <<"PART", w>>
            PROVE  FALSE
        BY <4>2
      <4> QED
        BY <4>1, <4>2
    <3>2. execJoin(a) => Say(Error) \/ ar' \in {<<>>, a} \/ \E mine : execJoinZero(mine)
      BY Zenon DEF execJoin, Walk
    <3>3. ~Say(Error)
      BY <1>1 DEF Say
    <3>4. execJoin(a) => a[1] = "JOIN"
      BY DEF execJoin
    <3> QED
      BY <3>1, <3>2, <3>3, <3>4
  <2> QED
    BY <1>3, <2>1, <2>2, <2>3, <2>4 DEF ChCommand
<1>5. /\ Registered(cli) /\ a[2] \in chs /\ IsAdm(a[2]) /\ ar' = a
  BY <1>1, <1>4 DEF execModeCh, Say, Crash, Walk, listVars
<1>6. cli \in clis
  BY <1>3, AuthorType DEF ChCommand
<1> QED
  BY <1>5, <1>6, AdmIsAuthor

(* The modes of a channel that stays are changed by MODE of that channel   *)
(* only, which only an operator of it gets to (ModesByOperator).           *)
THEOREM OperatorsSetModes == Spec => ModesByOperator
<1> DEFINE Sets ==
      /\ \A n \in chs \cap chs' :
           Modes(ch[n]) # Modes(ch'[n]) => ar # <<>> /\ ar[1] = "MODE" /\ ar[2] = n
      /\ ar = <<>> /\ ar' # <<>> /\ ar'[1] = "MODE" => cli \in ch[ar'[2]].adms
<1>1. ASSUME SteadyInv, [Next]_vars
      PROVE  Sets
  <2>1. ASSUME NEW n \in chs \cap chs', Modes(ch[n]) # Modes(ch'[n])
        PROVE  ar # <<>> /\ ar[1] = "MODE" /\ ar[2] = n
    BY <1>1, <2>1, ChannelBecomes DEF SteadyInv, Enters, Stays, IsSet, Walking
  <2> QED
    BY <1>1, <2>1, ModeBegins DEF SteadyInv
<1>2. SteadyInv /\ [Next]_vars => [Sets]_vars
  BY <1>1
<1> QED
  BY <1>2, SteadyInvInit, SteadyInvNext, PTL DEF Spec, ModesByOperator
-----------------------------------------------------------------------------
(* Coming on a channel.                                                    *)

(* Members are added one at a time, so there are finitely many, and the    *)
(* comparison of their number with the limit means what it says.           *)
MembersFinite == \A n \in ChName : IsFiniteSet(ch[n].clis)

LEMMA NoMembers == NoCh.clis = {} /\ IsFiniteSet(NoCh.clis)
BY FS_EmptySet DEF NoCh

LEMMA AbsentIsBlank ==
  ASSUME ChInv, NEW n \in ChName \ chs
  PROVE  ch[n] = NoCh
BY DEF ChInv, ChannelsOK

(* Only JOIN opens channels.                                               *)
LEMMA OpenedByJoin ==
  ASSUME [Next]_vars, NEW n \in chs', n \notin chs
  PROVE  Walking("JOIN") /\ n = Head(todo) /\ ~Full(cli) /\ enterChannel(n)
<1>1. ~Quiescent
  BY DEF Quiescent
<1>2. ~modeOne /\ ~startPassChs /\ ~(\E m, gone : Departure(m, gone))
  BY DEF modeOne, Departure, startPassChs, eraseUnusedChs
<1>3. ~(\E a \in Cmds : execTopic(a)) /\ ~(\E f \in Fd : eraseUnusedCliChs(f))
  BY DEF execTopic, Say, Crash, chVars, eraseUnusedCliChs
<1>4. PICK m \in ChName : Walking("JOIN") /\ m = Head(todo) /\ ~Full(cli) /\ enterChannel(m)
  BY <1>1, <1>2, <1>3, WhoWrites
<1>5. chs' = chs \cup {m} /\ m = n
  BY <1>4 DEF enterChannel
<1> QED
  BY <1>4, <1>5

(* A channel that is opened has its opener on it and nobody else.          *)
LEMMA OpenedHasOne ==
  ASSUME ChInv, [Next]_vars, NEW n \in chs', n \notin chs
  PROVE  ch'[n].clis = {cli}
<1>1. n \in ChName
  BY ChInvNext DEF ChInv, ChannelsOK
<1>2. enterChannel(n)
  BY OpenedByJoin
<1>3. \/ ch' = [ch EXCEPT ![n] = NewCh(cli)]
      \/ ch' = [ch EXCEPT ![n] = [NewCh(cli) EXCEPT !.clis = NewCh(cli).clis \cup {cli}]]
  BY <1>2, Zenon DEF enterChannel
<1>4. DOMAIN ch = ChName
  BY DEF ChInv, ChannelsOK
<1>5. NewCh(cli).clis = {cli} /\ [NewCh(cli) EXCEPT !.clis = NewCh(cli).clis \cup {cli}].clis = {cli}
  BY DEF NewCh, NoCh
<1> QED
  BY <1>1, <1>3, <1>4, <1>5

LEMMA MembersFiniteKept ==
  ASSUME ChInv, MembersFinite, [Next]_vars
  PROVE  MembersFinite'
<1> SUFFICES ASSUME NEW n \in ChName
             PROVE  IsFiniteSet(ch'[n].clis)
  BY DEF MembersFinite
<1>1. CASE n \notin chs'
  <2>1. ch'[n] = NoCh
    BY <1>1, ChInvNext DEF ChInv, ChannelsOK
  <2> QED
    BY <2>1, NoMembers
<1>2. CASE n \in chs' /\ n \notin chs
  <2>1. ch'[n].clis = {cli}
    BY <1>2, OpenedHasOne
  <2> QED
    BY <2>1, FS_Singleton
<1>3. CASE n \in chs' /\ n \in chs
  <2>1. IsFiniteSet(ch[n].clis)
    BY DEF MembersFinite
  <2>2. ch'[n].clis = ch[n].clis \cup {cli} \/ ch'[n].clis \subseteq ch[n].clis
    BY <1>3, ChannelBecomes DEF Enters, Stays, IsSet
  <2> QED
    BY <2>1, <2>2, FS_AddElement, FS_Subset
<1> QED
  BY <1>1, <1>2, <1>3

(* The keys that are left in the walk of a JOIN are keys it was given.     *)
KeysGiven == ar # <<>> /\ ar[1] = "JOIN" => vals \in Seq(Keys(ar))

LEMMA ListIsOfKeys ==
  ASSUME NEW a \in Cmds
  PROVE  (IF Len(a) >= 3 THEN sub[a[3]] ELSE <<>>) \in Seq(Keys(a))
<1>1. CASE Len(a) >= 3
  <2>1. sub[a[3]] \in Seq(Word)
    BY <1>1, ArgIsWord
  <2>2. sub[a[3]] \in Seq(Range(sub[a[3]]))
    BY <2>1 DEF Range
  <2> QED
    BY <1>1, <2>2 DEF Keys
<1>2. CASE ~(Len(a) >= 3)
  BY <1>2
<1> QED
  BY <1>1, <1>2

(* A command that is no JOIN, and the elements of the list of one.         *)
LEMMA NoKeysNeeded ==
  ASSUME KeysGiven,
         \/ UNCHANGED listVars
         \/ ar' = <<>>
         \/ ar' # <<>> /\ ar'[1] # "JOIN"
  PROVE  KeysGiven'
BY DEF KeysGiven, listVars, Keys

LEMMA KeysWalk ==
  ASSUME KeysGiven, NEW a, NEW items, NEW v,
         Walk(a, items, v), a[1] = "JOIN" => v \in Seq(Keys(a))
  PROVE  KeysGiven'
<1>1. ar' = <<>> \/ (ar' = a /\ vals' = v)
  BY DEF Walk
<1> QED
  BY <1>1 DEF KeysGiven, Keys

LEMMA KeysJoin ==
  ASSUME KeysGiven, NEW a \in Cmds, execJoin(a)
  PROVE  KeysGiven'
<1>1. CASE Say(Error)
  BY <1>1, NoKeysNeeded DEF Say
<1>2. CASE execJoinZero({n \in chs : IsOn(n)})
  <2>1. PICK w, items : Walk(<<"PART", w>>, items, <<>>)
    BY <1>2, Zenon DEF execJoinZero
  <2>2. <<"PART", w>>[1] # "JOIN"
    OBVIOUS
  <2> QED
    BY <2>1, <2>2, KeysWalk, Zenon
<1>3. CASE Walk(a, sub[a[2]], IF Len(a) >= 3 THEN sub[a[3]] ELSE <<>>)
  BY <1>3, ListIsOfKeys, KeysWalk, Zenon
<1> QED
  BY <1>1, <1>2, <1>3, Zenon DEF execJoin

LEMMA KeysJoinOne ==
  ASSUME ChInv, KeysGiven, joinOne
  PROVE  KeysGiven'
<1>1. vals \in Seq(Keys(ar)) /\ vals \in Seq(Word)
  BY DEF joinOne, Walking, KeysGiven, ChInv, ListOK
<1>2. CASE Leave \/ UNCHANGED listVars
  BY <1>2, NoKeysNeeded DEF Leave, Walk
<1>3. CASE NextItem(vals)
  BY <1>1, <1>3, KeysWalk, Zenon DEF NextItem
<1>4. CASE NextItem(IF vals = <<>> THEN <<>> ELSE Tail(vals))
  <2>1. (IF vals = <<>> THEN <<>> ELSE Tail(vals)) \in Seq(Keys(ar))
    BY <1>1
  <2> QED
    BY <1>4, <2>1, KeysWalk, Zenon DEF NextItem
<1> QED
  BY <1>2, <1>3, <1>4, Zenon DEF joinOne, enterChannel, Crash

(* The other walks, and the commands that begin them.                      *)
LEMMA KeysOther ==
  ASSUME KeysGiven,
         \/ partOne \/ kickChannel \/ kickOne \/ modeOne
         \/ \E a \in Cmds : \/ execPart(a) \/ execKick(a) \/ execInvite(a) \/ execTopic(a)
                           \/ execModeCh(a) \/ execPrivmsg(a) \/ execNotice(a)
  PROVE  KeysGiven'
<1>1. CASE UNCHANGED listVars
  BY <1>1, NoKeysNeeded
<1>2. ASSUME NEW a, NEW items, NEW v, Walk(a, items, v), a[1] # "JOIN"
      PROVE  KeysGiven'
  BY <1>2, KeysWalk
<1>3. CASE partOne
  BY <1>1, <1>2, <1>3, Zenon DEF partOne, Walking, leaveChannel, NextItem, Crash
<1>4. CASE kickChannel
  BY <1>1, <1>2, <1>4, Zenon DEF kickChannel, Walking, NextItem, Crash
<1>5. CASE kickOne
  BY <1>1, <1>2, <1>5, Zenon DEF kickOne, Walking, leaveChannel, NextItem, Crash
<1>6. CASE modeOne
  BY <1>2, <1>6, Zenon DEF modeOne, Walking
<1>7. ASSUME NEW a \in Cmds, execPart(a) \/ execKick(a) \/ execModeCh(a)
      PROVE  KeysGiven'
  BY <1>1, <1>2, <1>7 DEF execPart, execKick, execModeCh, Say, Crash
<1>8. ASSUME NEW a \in Cmds, execInvite(a) \/ execTopic(a) \/ execPrivmsg(a) \/ execNotice(a)
      PROVE  KeysGiven'
  BY <1>1, <1>8, Zenon DEF execInvite, execTopic, execPrivmsg, execNotice, Say, Crash
<1> QED
  BY <1>3, <1>4, <1>5, <1>6, <1>7, <1>8

LEMMA KeysGivenKept ==
  ASSUME ChInv, KeysGiven, [Next]_vars
  PROVE  KeysGiven'
<1>1. CASE UNCHANGED listVars
  BY <1>1, NoKeysNeeded
<1>2. ASSUME NEW a \in Cmds, ChCommand(a)
      PROVE  KeysGiven'
  BY <1>2, KeysJoin, KeysOther DEF ChCommand
<1>3. CASE joinOne \/ partOne \/ kickChannel \/ kickOne \/ modeOne
  BY <1>3, KeysJoinOne, KeysOther
<1> QED
  BY <1>1, <1>2, <1>3, Zenon DEF Next, vars

(* Whoever comes on a channel that is there was let in by its modes as     *)
(* they were: its JOIN gave the key, it fits the limit, and has used its   *)
(* invitation up (JoinsWithinModes).                                       *)
THEOREM JoinsKeepModes == Spec => JoinsWithinModes
<1> DEFINE LetIn == \A n \in chs : \A c \in ch'[n].clis \ ch[n].clis :
                      /\ ch[n].pass # "" => ch[n].pass \in Keys(ar)
                      /\ Cardinality(ch'[n].clis) <= ch[n].limit
                      /\ ch[n].optI => n \in invits[c]
                      /\ n \notin invits'[c]
<1>1. ASSUME ChInv, MembersFinite, KeysGiven, [Next]_vars
      PROVE  LetIn
  <2> SUFFICES ASSUME NEW n \in chs, NEW c \in ch'[n].clis \ ch[n].clis
               PROVE  /\ ch[n].pass # "" => ch[n].pass \in Keys(ar)
                      /\ Cardinality(ch'[n].clis) <= ch[n].limit
                      /\ ch[n].optI => n \in invits[c]
                      /\ n \notin invits'[c]
    OBVIOUS
  <2>1. n \in ChName /\ ch[n] \in Channel /\ invits \in [Fd -> SUBSET ChName]
    BY <1>1 DEF ChInv, ChannelsOK
  <2>2. n \in chs'
    <3>1. ASSUME n \notin chs'
          PROVE  FALSE
      <4>1. ch'[n] = NoCh
        BY <1>1, <2>1, <3>1, ChInvNext DEF ChInv, ChannelsOK
      <4> QED
        BY <4>1, NoMembers
    <3> QED
      BY <3>1
  <2>3. Enters(n)
    BY <1>1, <2>2, ChannelBecomes DEF Stays, IsSet
  <2>4. c = cli /\ cli \in Fd
    <3>1. cli \in clis
      BY <1>1, <2>3, WalkingType DEF Enters
    <3>2. clis \subseteq Fd
      BY <1>1 DEF ChInv, CliInv, CliTypeOK
    <3> QED
      BY <2>3, <3>1, <3>2 DEF Enters
  <2>5. Cardinality(ch[n].clis) < ch[n].limit /\ (ch[n].optI => n \in invits[cli])
    BY <2>3 DEF Enters, Admits
  <2>6. /\ Cardinality(ch[n].clis) \in Nat
        /\ Cardinality(ch'[n].clis) = Cardinality(ch[n].clis) + 1
    <3>1. IsFiniteSet(ch[n].clis) /\ cli \notin ch[n].clis
      BY <1>1, <2>1, <2>4 DEF MembersFinite
    <3>2. ch'[n].clis = ch[n].clis \cup {cli}
      BY <2>3 DEF Enters
    <3> QED
      BY <3>1, <3>2, FS_AddElement, FS_CardinalityType
  <2>7. ch[n].limit \in Int
    <3>1. MaxLimit \in Nat
      BY ChannelsAssumption
    <3> QED
      BY <2>1, <3>1 DEF Channel
  <2>8. n \notin invits'[cli]
    BY <2>1, <2>3, <2>4 DEF Enters
  <2>9. ASSUME ch[n].pass # ""
        PROVE  ch[n].pass \in Keys(ar)
    <3>1. vals # <<>> /\ ch[n].pass = Head(vals)
      BY <2>3, <2>9 DEF Enters, Admits, KeyInHand
    <3>2. vals \in Seq(Keys(ar))
      BY <1>1, <2>3 DEF Enters, Walking, KeysGiven
    <3> QED
      BY <3>1, <3>2
  <2>10. Cardinality(ch'[n].clis) <= ch[n].limit
    BY <2>5, <2>6, <2>7
  <2> QED
    BY <2>4, <2>5, <2>8, <2>9, <2>10
<1>2. Init => MembersFinite /\ KeysGiven
  BY NoMembers DEF Init, MembersFinite, KeysGiven
<1>3. /\ ChInv /\ MembersFinite /\ KeysGiven /\ [Next]_vars => MembersFinite' /\ KeysGiven'
      /\ ChInv /\ MembersFinite /\ KeysGiven /\ [Next]_vars => [LetIn]_vars
  BY <1>1, MembersFiniteKept, KeysGivenKept
<1> QED
  BY <1>2, <1>3, ChInvInit, ChInvNext, PTL DEF Spec, JoinsWithinModes
-----------------------------------------------------------------------------
(* How many channels a client is on.                                       *)
On(c) == {n \in chs : c \in ch[n].clis}

LEMMA OnIsFinite ==
  ASSUME ChInv, NEW c
  PROVE  IsFiniteSet(On(c)) /\ Cardinality(On(c)) \in Nat /\ nbChannels(c) = Cardinality(On(c))
BY FS_Subset, FS_CardinalityType DEF ChInv, ChannelsOK, On, nbChannels

LEMMA FewerAreFewer ==
  ASSUME NEW S, IsFiniteSet(S), NEW T \in SUBSET S
  PROVE  Cardinality(T) <= Cardinality(S) /\ Cardinality(S) \in Nat /\ Cardinality(T) \in Nat
BY FS_Subset, FS_CardinalityType

(* JOIN adds one channel to those of its author, and no other step adds    *)
(* any to those of anybody.                                                *)
LEMMA OnBecomes ==
  ASSUME ChInv, [Next]_vars, NEW c
  PROVE  \/ On(c)' \subseteq On(c)
         \/ c = cli /\ ~Full(c) /\ \E n : On(c)' \subseteq On(c) \cup {n}
<1>1. CASE \E n \in ChName : /\ Walking("JOIN") /\ n = Head(todo) /\ ~Full(cli) /\ enterChannel(n)
  <2>1. PICK n \in ChName : Walking("JOIN") /\ ~Full(cli) /\ enterChannel(n)
    BY <1>1
  <2>2. chs' = chs \cup {n} /\ DOMAIN ch = ChName /\ chs \subseteq ChName
    BY <2>1 DEF enterChannel, ChInv, ChannelsOK
  <2>3. \E q : ch' = [ch EXCEPT ![n] = q]
    BY <2>1, Zenon DEF enterChannel
  <2>4. \A m \in chs \ {n} : ch'[m] = ch[m]
    BY <2>2, <2>3
  <2>5. On(c)' \subseteq On(c) \cup {n}
    BY <2>2, <2>4 DEF On
  <2>6. CASE c = cli
    BY <2>1, <2>5, <2>6
  <2>7. CASE c # cli
    <3>1. n \in chs => ch'[n].clis \subseteq ch[n].clis \cup {cli}
      BY <2>2, ChannelBecomes DEF Enters, Stays, IsSet
    <3>2. n \notin chs => ch'[n].clis = {cli}
      BY <2>2, OpenedHasOne
    <3>3. n \in On(c)' => n \in On(c)
      BY <2>7, <3>1, <3>2 DEF On
    <3> QED
      BY <2>5, <3>3
  <2> QED
    BY <2>6, <2>7
<1>2. CASE ~\E n \in ChName : /\ Walking("JOIN") /\ n = Head(todo) /\ ~Full(cli) /\ enterChannel(n)
  <2>1. ASSUME NEW n \in On(c)'
        PROVE  n \in On(c)
    <3>1. n \in chs' /\ c \in ch'[n].clis /\ n \in ChName
      BY <2>1, ChInvNext DEF On, ChInv, ChannelsOK
    <3>2. n \in chs
      BY <1>2, <3>1, OpenedByJoin
    <3>3. ch'[n].clis \subseteq ch[n].clis
      BY <1>2, <3>1, <3>2, ChannelBecomes DEF Enters, Stays, IsSet
    <3> QED
      BY <3>1, <3>2, <3>3 DEF On
  <2> QED
    BY <2>1
<1> QED
  BY <1>1, <1>2

LEMMA ChannelLimitKept ==
  ASSUME ChInv, ChannelLimit, [Next]_vars
  PROVE  ChannelLimit'
<1> SUFFICES ASSUME NEW c \in clis'
             PROVE  nbChannels(c)' <= MAX_CHS_PER_USER
  BY DEF ChannelLimit
<1>1. MAX_CHS_PER_USER \in Nat
  BY ChannelsAssumption
<1>2. /\ IsFiniteSet(On(c)) /\ Cardinality(On(c)) \in Nat /\ nbChannels(c) = Cardinality(On(c))
      /\ nbChannels(c)' = Cardinality(On(c)')
  BY OnIsFinite, ChInvNext DEF nbChannels, On
<1>3. CASE On(c)' \subseteq On(c) /\ c \in clis
  BY <1>1, <1>2, <1>3, FewerAreFewer DEF ChannelLimit
<1>4. CASE On(c)' \subseteq On(c) /\ c \notin clis
  <2>1. On(c) = {}
    BY <1>4, ChInvImplies DEF MembersLive, On
  <2>2. On(c)' = {}
    BY <1>4, <2>1
  <2> QED
    BY <1>1, <1>2, <2>2, FS_EmptySet
<1>5. ASSUME NEW n, On(c)' \subseteq On(c) \cup {n}, ~Full(c)
      PROVE  nbChannels(c)' <= MAX_CHS_PER_USER
  <2>1. /\ IsFiniteSet(On(c) \cup {n})
        /\ Cardinality(On(c) \cup {n}) <= Cardinality(On(c)) + 1
    <3>1. /\ IsFiniteSet(On(c) \cup {n})
          /\ \/ Cardinality(On(c) \cup {n}) = Cardinality(On(c))
             \/ Cardinality(On(c) \cup {n}) = Cardinality(On(c)) + 1
      BY <1>2, FS_AddElement, Zenon
    <3> QED
      BY <1>2, <3>1
  <2>2. Cardinality(On(c)') <= Cardinality(On(c) \cup {n}) /\ Cardinality(On(c) \cup {n}) \in Nat
        /\ Cardinality(On(c)') \in Nat
    BY <1>5, <2>1, FewerAreFewer
  <2>3. ~(Cardinality(On(c)) > MAX_CHS_PER_USER - 1)
    BY <1>2, <1>5 DEF Full
  <2> QED
    BY <1>1, <1>2, <2>1, <2>2, <2>3
<1> QED
  BY <1>3, <1>4, <1>5, OnBecomes

(* The limit of channels per client is kept (ChannelLimit).                *)
THEOREM LimitOfChannels == Spec => []ChannelLimit
<1>1. Init => ChannelLimit
  BY DEF Init, CliInit, ChannelLimit
<1>2. ChInv /\ ChannelLimit /\ [Next]_vars => ChannelLimit'
  BY ChannelLimitKept
<1> QED
  BY <1>1, <1>2, ChInvInit, ChInvNext, PTL DEF Spec
-----------------------------------------------------------------------------
(* Who is written to.                                                      *)

(* The messages R are for connected clients, and none of them is what a    *)
(* client says to another with PRIVMSG.                                    *)
Plain(R) == \A m \in R : m[1] \in clis /\ m[2].cmd # "PRIVMSG"

LEMMA PlainMessage ==
  ASSUME NEW S \in SUBSET clis, NEW cmd, cmd # "PRIVMSG", NEW from, NEW arg
  PROVE  Plain(Message(S, cmd, from, arg))
BY DEF Plain, Message

LEMMA PlainUnion ==
  ASSUME NEW A, NEW B, Plain(A), Plain(B)
  PROVE  Plain(A \cup B)
BY DEF Plain

LEMMA PlainAnswers ==
  ASSUME cli \in clis
  PROVE  Plain(Error) /\ Plain(Reply) /\ Plain({})
BY PlainMessage DEF Error, Reply, Plain

(* The messages of registration go to the author, but for those of QUIT.   *)
LEMMA PlainWelcome ==
  ASSUME cli \in clis, NEW others, Plain(others), WelcomeIfComplete(others)
  PROVE  Plain(resp')
<1>1. Plain(Message({cli}, "001", cli, ""))
  BY PlainMessage
<1> QED
  BY <1>1, PlainUnion, Zenon DEF WelcomeIfComplete

LEMMA PlainCliCommand ==
  ASSUME cli \in clis, NEW a \in Cmds, CliCommand(a)
  PROVE  Plain(resp')
<1>1. Plain(Error) /\ Plain(Reply) /\ Plain({})
  BY PlainAnswers
<1>2. CASE execPass(a) \/ execNick(a) \/ execUser(a)
  <2>1. \/ resp' = Error
        \/ \E R \in {Error, {}} : WelcomeIfComplete(R)
    BY <1>2, Zenon DEF execPass, execNick, execUser, Refuse
  <2> QED
    BY <2>1, <1>1, PlainWelcome
<1>3. CASE execCap(a)
  <2>1. \/ resp' \in {Error, Reply, {}}
        \/ resp' = Message({cli}, "001", cli, "")
    BY <1>3, Zenon DEF execCap
  <2> QED
    BY <2>1, <1>1, PlainMessage
<1>4. CASE execQuit(a)
  <2>1. \A c \in clis : Plain(Message({c}, "QUIT", c, ""))
    BY PlainMessage
  <2> QED
    BY <1>4, <2>1 DEF execQuit, Plain
<1>5. CASE execModeCli(a)
  BY <1>1, <1>5, Zenon DEF execModeCli
<1>6. CASE execInfo(a)
  <2>1. \/ resp' \in {Error, Reply}
        \/ resp' = UNION {IF getCli(sub[a[2]][i]) = {} THEN Error ELSE Reply : i \in DOMAIN sub[a[2]]}
    BY <1>6, Zenon DEF execInfo
  <2>2. CASE resp' \in {Error, Reply}
    BY <1>1, <2>2
  <2>3. CASE resp' = UNION {IF getCli(sub[a[2]][i]) = {} THEN Error ELSE Reply : i \in DOMAIN sub[a[2]]}
    <3>1. ASSUME NEW m \in resp'
          PROVE  m \in Error \/ m \in Reply
      BY <2>3, <3>1, Zenon
    <3> QED
      BY <1>1, <3>1 DEF Plain
  <2> QED
    BY <2>1, <2>2, <2>3
<1> QED
  BY <1>2, <1>3, <1>4, <1>5, <1>6 DEF CliCommand

LEMMA PlainMembers ==
  ASSUME ChInv
  PROVE  /\ \A n \in chs : ch[n].clis \in SUBSET clis
         /\ \A w : UNION {ch[n].clis : n \in getCh(w)} \in SUBSET clis
         /\ \A w : getCli(w) \in SUBSET clis
<1>1. \A n \in chs : ch[n].clis \in SUBSET clis
  BY ChInvImplies DEF MembersLive
<1>2. ASSUME NEW w
      PROVE  UNION {ch[n].clis : n \in getCh(w)} \in SUBSET clis
  BY <1>1 DEF getCh
<1>3. ASSUME NEW w
      PROVE  getCli(w) \in SUBSET clis
  BY DEF getCli
<1> QED
  BY <1>1, <1>2, <1>3

(* What PRIVMSG writes is for connected clients too.                       *)
LEMMA DeliveryToClients ==
  ASSUME ChInv, cli \in clis, NEW t, lower[t] \in chs => t \in chs,
         NEW m \in Delivery(t)
  PROVE  m[1] \in clis
<1>1. CASE m \in Error
  BY <1>1 DEF Error, Message
<1>2. CASE t \in chs /\ m \in Message(ch[t].clis \ {cli}, "PRIVMSG", cli, t)
  <2>1. ch[t].clis \in SUBSET clis
    BY <1>2, PlainMembers
  <2> QED
    BY <1>2, <2>1 DEF Message
<1>3. CASE m \in Message(getCli(t), "PRIVMSG", cli, t)
  <2>1. getCli(t) \in SUBSET clis
    BY PlainMembers
  <2> QED
    BY <1>3, <2>1 DEF Message
<1> QED
  BY <1>1, <1>2, <1>3, Zenon DEF Delivery

LEMMA PlainNotification ==
  ASSUME ChInv, NEW t
  PROVE  Plain(Notification(t))
<1> DEFINE to == IF t \in Hash THEN (UNION {ch[n].clis : n \in getCh(t)}) \ {cli} ELSE getCli(t)
<1>1. to \in SUBSET clis
  BY PlainMembers
<1>2. Notification(t) = Message(to, "NOTICE", cli, t)
  BY DEF Notification
<1> HIDE DEF to
<1> QED
  BY <1>1, <1>2, PlainMessage

LEMMA PlainNotice ==
  ASSUME ChInv, NEW a \in Cmds, execNotice(a)
  PROVE  Plain(resp')
<1>1. resp' = {} \/ resp' = UNION {Notification(t) : t \in Range(sub[a[2]])}
  BY Zenon DEF execNotice, Say, Answer
<1>2. \A t : Plain(Notification(t))
  BY PlainNotification
<1> QED
  BY <1>1, <1>2, Zenon DEF Plain

(* The three ways PRIVMSG ends.                                            *)
LEMMA PrivmsgWrites ==
  ASSUME NEW a \in Cmds, execPrivmsg(a)
  PROVE  \/ resp' \in {Error, {}}
         \/ /\ \A t \in Range(sub[a[2]]) : lower[t] \in chs => t \in chs
            /\ resp' = UNION {Delivery(t) : t \in Range(sub[a[2]])}
BY Zenon DEF execPrivmsg, Say, Answer, Crash

LEMMA PrivmsgToClients ==
  ASSUME ChInv, cli \in clis, NEW a \in Cmds, execPrivmsg(a)
  PROVE  \A m \in resp' : m[1] \in clis
<1>1. CASE resp' \in {Error, {}}
  BY <1>1, PlainAnswers DEF Plain
<1>2. CASE /\ \A t \in Range(sub[a[2]]) : lower[t] \in chs => t \in chs
           /\ resp' = UNION {Delivery(t) : t \in Range(sub[a[2]])}
  <2>1. \A t \in Range(sub[a[2]]) : \A m \in Delivery(t) : m[1] \in clis
    BY <1>2, DeliveryToClients
  <2> QED
    BY <1>2, <2>1, Zenon
<1> QED
  BY <1>1, <1>2, PrivmsgWrites

LEMMA PlainChCommand ==
  ASSUME ChInv, NEW a \in Cmds, ChCommand(a), ~execPrivmsg(a)
  PROVE  Plain(resp')
<1>1. cli \in clis
  BY AuthorType DEF ChCommand
<1>2. Plain(Error) /\ Plain(Reply) /\ Plain({})
  BY <1>1, PlainAnswers
<1>3. CASE execJoin(a) \/ execPart(a) \/ execKick(a) \/ execModeCh(a)
  BY <1>2, <1>3, Zenon DEF execJoin, execJoinZero, execPart, execKick, execModeCh, Say, Answer, Crash
<1>4. CASE execTopic(a)
  <2>1. \/ resp' \in {Error, Reply, {}}
        \/ a[2] \in chs /\ resp' = Reply \cup Message(ch[a[2]].clis, "TOPIC", cli, a[2])
    BY <1>4, Zenon DEF execTopic, Say, Answer, Crash
  <2>2. CASE a[2] \in chs /\ resp' = Reply \cup Message(ch[a[2]].clis, "TOPIC", cli, a[2])
    <3>1. Plain(Message(ch[a[2]].clis, "TOPIC", cli, a[2]))
      BY <2>2, PlainMembers, PlainMessage
    <3> QED
      BY <1>2, <2>2, <3>1, PlainUnion
  <2> QED
    BY <1>2, <2>1, <2>2
<1>5. CASE execInvite(a)
  <2> DEFINE to == getCli(a[2]) \cup ch[a[3]].clis
  <2>1. \/ resp' \in {Error, {}}
        \/ a[3] \in chs /\ resp' = Reply \cup Message(to, "INVITE", cli, a[3])
    BY <1>5, Zenon DEF execInvite, Say, Answer, Crash
  <2>2. a[3] \in chs => to \in SUBSET clis
    BY PlainMembers
  <2> HIDE DEF to
  <2>3. CASE a[3] \in chs /\ resp' = Reply \cup Message(to, "INVITE", cli, a[3])
    <3>1. Plain(Message(to, "INVITE", cli, a[3]))
      BY <2>2, <2>3, PlainMessage
    <3> QED
      BY <1>2, <2>3, <3>1, PlainUnion
  <2> QED
    BY <1>2, <2>1, <2>3
<1> QED
  BY <1>1, <1>3, <1>4, <1>5, PlainNotice DEF ChCommand

(* The tail of PART and KICK writes to the members of one channel.         *)
LEMMA PlainLeaving ==
  ASSUME ChInv, NEW n, NEW gone, NEW next, NEW cmd, cmd # "PRIVMSG", leaveChannel(n, gone, next, cmd)
  PROVE  Plain(resp')
<1> DEFINE to == UNION {ch[m].clis : m \in Addressee}
<1>1. to \in SUBSET clis
  BY PlainMembers DEF Addressee
<1>2. resp' = {} \/ resp' = Message(to, cmd, cli, n)
  BY Zenon DEF leaveChannel, Crash, Answer
<1> HIDE DEF to
<1>3. Plain(Message(to, cmd, cli, n))
  BY <1>1, PlainMessage
<1> QED
  BY <1>2, <1>3 DEF Plain

LEMMA PlainEnter ==
  ASSUME ChInv, cli \in clis, NEW n, enterChannel(n)
  PROVE  Plain(resp')
<1> DEFINE r == IF n \in chs THEN ch[n] ELSE NewCh(cli)
           all == r.clis \cup {cli}
           topic == IF r.topic = "" THEN {} ELSE Reply
<1>1. Plain(Error) /\ Plain(Reply) /\ Plain({})
  BY PlainAnswers
<1>2. NewCh(cli).clis = {cli}
  BY DEF NewCh, NoCh
<1>3. all \in SUBSET clis
  BY <1>2, PlainMembers
<1>4. Plain(topic)
  BY <1>1
<1>5. \/ resp' = Error
      \/ resp' = Message(all, "JOIN", cli, n) \cup topic \cup Message(all, "353", cli, n)
  BY Zenon DEF enterChannel, Answer
<1> HIDE DEF all, topic
<1>6. Plain(Message(all, "JOIN", cli, n)) /\ Plain(Message(all, "353", cli, n))
  BY <1>3, PlainMessage
<1> QED
  BY <1>1, <1>4, <1>5, <1>6 DEF Plain

LEMMA PlainWalk ==
  ASSUME ChInv, joinOne \/ partOne \/ kickChannel \/ kickOne \/ modeOne
  PROVE  Plain(resp')
<1>1. cli \in clis /\ Plain(Error) /\ Plain(Reply) /\ Plain({})
  <2>1. cli \in clis
    BY WalkingType DEF joinOne, partOne, kickChannel, kickOne, modeOne
  <2> QED
    BY <2>1, PlainAnswers
<1>2. CASE joinOne
  BY <1>1, <1>2, PlainEnter, Zenon DEF joinOne, Answer, Crash
<1>3. CASE partOne
  BY <1>1, <1>3, PlainLeaving, Zenon DEF partOne, Answer, Crash
<1>4. CASE kickChannel
  BY <1>1, <1>4, Zenon DEF kickChannel, Answer, Crash
<1>5. CASE kickOne
  BY <1>1, <1>5, PlainLeaving, Zenon DEF kickOne, Answer
<1>6. CASE modeOne
  <2> DEFINE told == Message(ch[ar[2]].clis, "MODE", cli, ar[2])
  <2>1. \E A \in {{}, told}, B \in {{}, Error} : resp' = A \cup B
    <3>1. \E A \in {{}, told}, B \in {{}, Error} : resp' = A \cup B \/ resp' = A \/ resp' = B
      BY <1>6, Zenon DEF modeOne, Answer
    <3> QED
      BY <3>1
  <2>2. ar[2] \in chs
    BY <1>6 DEF modeOne, Walking, ChInv, ListOK
  <2>3. Plain(told)
    BY <2>2, PlainMembers, PlainMessage
  <2> HIDE DEF told
  <2> QED
    BY <1>1, <2>1, <2>3 DEF Plain
<1> QED
  BY <1>2, <1>3, <1>4, <1>5, <1>6

LEMMA ToLiveClientsKept ==
  ASSUME ChInv, ToLiveClients, [Next]_vars
  PROVE  ToLiveClients'
<1>1. ASSUME Plain(resp'), UNCHANGED clis
      PROVE  ToLiveClients'
  BY <1>1 DEF Plain, ToLiveClients
<1>2. CASE resp' = {}
  BY <1>2 DEF ToLiveClients
<1>3. CASE Serve \/ startPassChs
  BY <1>2, <1>3 DEF Serve, addNewClient, receiveBuf, hangUp, endPass, startPassChs, startPass
<1>4. ASSUME NEW f \in Fd, eraseUnusedCliChs(f)
      PROVE  ToLiveClients'
  BY <1>2, <1>4 DEF eraseUnusedCliChs, eraseUnusedCli
<1>5. ASSUME NEW a \in Cmds, CliCommand(a)
      PROVE  ToLiveClients'
  <2>1. cli \in clis /\ UNCHANGED clis
    BY <1>5 DEF CliCommand, Executing, ChInv, CliInv, CliTypeOK
  <2> QED
    BY <1>1, <1>5, <2>1, PlainCliCommand
<1>6. ASSUME NEW a \in Cmds, ChCommand(a)
      PROVE  ToLiveClients'
  <2>1. UNCHANGED clis /\ cli \in clis
    BY <1>6, ClientsLeftAlone, AuthorType DEF ChCommand
  <2>2. CASE execPrivmsg(a)
    BY <2>1, <2>2, PrivmsgToClients DEF ToLiveClients
  <2>3. CASE ~execPrivmsg(a)
    BY <1>1, <1>6, <2>1, <2>3, PlainChCommand
  <2> QED
    BY <2>2, <2>3
<1>7. CASE joinOne \/ partOne \/ kickChannel \/ kickOne \/ modeOne
  BY <1>1, <1>7, PlainWalk, ClientsLeftAlone
<1>8. CASE UNCHANGED vars
  BY <1>8 DEF vars, cliVars, ToLiveClients
<1> QED
  BY <1>3, <1>4, <1>5, <1>6, <1>7, <1>8, Zenon DEF Next

(* Nothing is written to a client that was deleted: every message is for   *)
(* a connected one (ToLiveClients).                                        *)
THEOREM MessagesAreToLive == Spec => []ToLiveClients
<1>1. Init => ToLiveClients
  BY DEF Init, CliInit, ToLiveClients
<1> QED
  BY <1>1, ToLiveClientsKept, ChInvInit, ChInvNext, PTL DEF Spec
-----------------------------------------------------------------------------
(* PRIVMSG to a channel.                                                   *)

(* Every other step writes no PRIVMSG.                                     *)
LEMMA OnlyPrivmsgTalks ==
  ASSUME ChInv, Next, ~(\E a \in Cmds : ChCommand(a) /\ execPrivmsg(a))
  PROVE  Plain(resp')
<1>1. CASE resp' = {}
  BY <1>1 DEF Plain
<1>2. CASE Serve \/ startPassChs
  BY <1>1, <1>2 DEF Serve, addNewClient, receiveBuf, hangUp, endPass, startPassChs, startPass
<1>3. ASSUME NEW f \in Fd, eraseUnusedCliChs(f)
      PROVE  Plain(resp')
  BY <1>1, <1>3 DEF eraseUnusedCliChs, eraseUnusedCli
<1>4. ASSUME NEW a \in Cmds, CliCommand(a)
      PROVE  Plain(resp')
  <2>1. cli \in clis
    BY <1>4 DEF CliCommand, Executing, ChInv, CliInv, CliTypeOK
  <2> QED
    BY <1>4, <2>1, PlainCliCommand
<1>5. ASSUME NEW a \in Cmds, ChCommand(a)
      PROVE  Plain(resp')
  BY <1>5, PlainChCommand
<1> QED
  BY <1>2, <1>3, <1>4, <1>5, PlainWalk, Zenon DEF Next

(* The member IsOn finds has the author's nickname: it is the author.      *)
LEMMA MemberIsAuthor ==
  ASSUME ChInv, NickUnique, cli \in clis, NEW n \in chs, IsOn(n)
  PROVE  cli \in ch[n].clis
<1>1. PICK c \in ch[n].clis : lower[nick[c]] = lower[nick[cli]]
  BY DEF IsOn, getCliOnCh
<1>2. c \in clis /\ nick[c] # ""
  BY DEF ChInv, ChannelsOK, GoodCh, Registered
<1>3. c = cli
  BY <1>1, <1>2 DEF NickUnique
<1> QED
  BY <1>3

(* What is written for one recipient.                                      *)
LEMMA DeliveryToAll ==
  ASSUME ChInv, NickUnique, cli \in clis, NEW t, lower[t] \in chs => t \in chs,
         NEW r \in Delivery(t), r[2].cmd = "PRIVMSG", r[2].arg \in Hash
  PROVE  /\ cli \in ch[r[2].arg].clis
         /\ \A c \in ch[r[2].arg].clis \ {cli} : <<c, r[2]>> \in Delivery(t)
<1>1. r \notin Error
  BY PlainAnswers DEF Plain
<1>2. ASSUME NEW S, r \in Message(S, "PRIVMSG", cli, t)
      PROVE  r[2] = [cmd |-> "PRIVMSG", from |-> cli, arg |-> t] /\ r[2].arg = t
  BY <1>2 DEF Message
<1>3. CASE t \in Hash
  <2>1. lower[t] \in chs /\ IsOn(t)
    BY <1>1, <1>3, Zenon DEF Delivery
  <2>2. Delivery(t) = Message(ch[t].clis \ {cli}, "PRIVMSG", cli, t)
    BY <1>3, <2>1, Zenon DEF Delivery
  <2>3. r[2] = [cmd |-> "PRIVMSG", from |-> cli, arg |-> t] /\ r[2].arg = t
    BY <1>2, <2>2
  <2>4. cli \in ch[t].clis
    BY <2>1, MemberIsAuthor
  <2>5. \A c \in ch[t].clis \ {cli} : <<c, r[2]>> \in Delivery(t)
    BY <2>2, <2>3 DEF Message
  <2> QED
    BY <2>3, <2>4, <2>5
<1>4. CASE t \notin Hash
  <2>1. r \in Message(getCli(t), "PRIVMSG", cli, t)
    BY <1>1, <1>4, Zenon DEF Delivery
  <2> QED
    BY <1>2, <1>4, <2>1
<1> QED
  BY <1>3, <1>4

(* A PRIVMSG that reaches a channel comes from a member, and reaches all   *)
(* the others (ChannelTalk).                                               *)
THEOREM TalkReachesMembers == Spec => ChannelTalk
<1> DEFINE Reaches(r) ==
             /\ cli \in ch[r[2].arg].clis
             /\ \A c \in ch[r[2].arg].clis \ {cli} : <<c, r[2]>> \in resp'
           Heard == \A r \in resp' : r[2].cmd = "PRIVMSG" /\ r[2].arg \in Hash
             => /\ cli \in ch[r[2].arg].clis
                /\ \A c \in ch[r[2].arg].clis \ {cli} : <<c, r[2]>> \in resp'
<1>1. ASSUME SteadyInv, Next
      PROVE  Heard
  <2> SUFFICES ASSUME NEW r \in resp', r[2].cmd = "PRIVMSG", r[2].arg \in Hash
               PROVE  Reaches(r)
    OBVIOUS
  <2>1. ~Plain(resp')
    BY DEF Plain
  <2>2. PICK a \in Cmds : ChCommand(a) /\ execPrivmsg(a)
    BY <1>1, <2>1, OnlyPrivmsgTalks DEF SteadyInv
  <2>3. cli \in clis
    BY <1>1, <2>2, AuthorType DEF ChCommand, SteadyInv
  <2>4. resp' \notin {Error, {}}
    BY <2>1, <2>3, PlainAnswers
  <2>5. /\ \A t \in Range(sub[a[2]]) : lower[t] \in chs => t \in chs
        /\ resp' = UNION {Delivery(t) : t \in Range(sub[a[2]])}
    BY <2>2, <2>4, PrivmsgWrites
  <2>6. PICK t \in Range(sub[a[2]]) : r \in Delivery(t)
    BY <2>5, Zenon
  <2>7. /\ cli \in ch[r[2].arg].clis
        /\ \A c \in ch[r[2].arg].clis \ {cli} : <<c, r[2]>> \in Delivery(t)
    BY <1>1, <2>3, <2>5, <2>6, DeliveryToAll DEF SteadyInv
  <2>8. Delivery(t) \subseteq resp'
    <3>1. Delivery(t) \in {Delivery(u) : u \in Range(sub[a[2]])}
      OBVIOUS
    <3> QED
      BY <2>5, <3>1, Zenon
  <2> QED
    BY <2>7, <2>8
<1>2. SteadyInv /\ [Next]_vars => [Heard]_vars
  BY <1>1
<1> QED
  BY <1>2, SteadyInvInit, SteadyInvNext, PTL DEF Spec, ChannelTalk
-----------------------------------------------------------------------------
(* No null pointer is read, as long as clients are careful: what they ask  *)
(* for in Cmds is what Careful says.                                       *)

(* The items a command may have on its list.  Of PART and KICK, the only   *)
(* one that can name a channel is the whole list.                          *)
Tidy(a) == {w \in Word :
  /\ a[1] \in {"JOIN", "PART", "KICK"} => Spelt(w)
  /\ a[1] = "JOIN" /\ w \in ChName => w \in Opened
  /\ a[1] \in {"PART", "KICK"} /\ w \in Opened => w = a[2]}

(* The invariant, beside ChInv.                                            *)
SafeInv == phase # "crashed" /\ chs \subseteq Opened /\ todo \in Seq(Tidy(ar))

LEMMA SeqWithin ==
  ASSUME NEW S, NEW T, NEW s \in Seq(S), \A i \in 1 .. Len(s) : s[i] \in T
  PROVE  s \in Seq(T)
OBVIOUS

LEMMA ItemIsSaid ==
  ASSUME NEW a \in Cmds, NEW k \in Nat, k >= 2, Len(a) >= k
  PROVE  a[k] \in Said(a) /\ Range(sub[a[k]]) \subseteq Said(a)
<1>1. k \in 2 .. Len(a)
  BY LengthIsNat
<1>2. {a[k]} \cup Range(sub[a[k]]) \in {{a[i]} \cup Range(sub[a[i]]) : i \in 2 .. Len(a)}
  BY <1>1
<1>3. {a[k]} \cup Range(sub[a[k]]) \subseteq Said(a)
  BY <1>2, Zenon DEF Said
<1> QED
  BY <1>3

LEMMA OpenedIsSpelt ==
  ASSUME Careful, NEW n \in Opened
  PROVE  Spelt(n)
<1>1. PICK a \in Cmds : Len(a) >= 2 /\ n \in Range(sub[a[2]])
  BY DEF Opened
<1>2. n \in Said(a)
  BY <1>1, ItemIsSaid
<1> QED
  BY <1>2 DEF Careful

(* A word that is spelt names no channel in another case.                  *)
LEMMA SpeltIsExact ==
  ASSUME chs \subseteq Opened, NEW w, Spelt(w)
  PROVE  ~Misspelt(w) /\ (lower[w] \in chs => w \in chs)
BY DEF Spelt, Misspelt, getCh

LEMMA WordIsExact ==
  ASSUME Careful, chs \subseteq Opened, NEW a \in Cmds, NEW k \in Nat, k >= 2, Len(a) >= k
  PROVE  /\ ~Misspelt(a[k])
         /\ \A t \in Range(sub[a[k]]) : lower[t] \in chs => t \in chs
BY ItemIsSaid, SpeltIsExact DEF Careful

(* The list of a command is tidy.                                          *)
LEMMA ListIsTidy ==
  ASSUME Careful, NEW a \in Cmds, Len(a) >= 2, a[1] \in {"JOIN", "PART", "KICK"}
  PROVE  sub[a[2]] \in Seq(Tidy(a))
<1>1. sub[a[2]] \in Seq(Word) /\ \A t \in Range(sub[a[2]]) : t \in Word
  BY ArgIsWord
<1>2. ASSUME NEW t \in Range(sub[a[2]])
      PROVE  t \in Tidy(a)
  <2>1. Spelt(t)
    BY ItemIsSaid DEF Careful
  <2>2. a[1] = "JOIN" /\ t \in ChName => t \in Opened
    BY DEF Opened
  <2>3. a[1] \in {"PART", "KICK"} /\ t \in Opened => t = a[2]
    BY DEF Careful
  <2> QED
    BY <1>1, <2>1, <2>2, <2>3 DEF Tidy
<1>3. \A i \in 1 .. Len(sub[a[2]]) : sub[a[2]][i] \in Range(sub[a[2]])
  BY <1>1 DEF Range
<1> QED
  BY <1>1, <1>2, <1>3, SeqWithin

(* Steps that leave the list alone, and steps of a walk.                   *)
LEMMA SafeSame ==
  ASSUME SafeInv, phase' # "crashed", chs' \subseteq chs, UNCHANGED listVars
  PROVE  SafeInv'
BY DEF SafeInv, listVars, Tidy

LEMMA SafeSay ==
  ASSUME SafeInv, NEW R, Say(R)
  PROVE  SafeInv'
BY SafeSame DEF Say, Keep, chVars, SafeInv

LEMMA SafeWalk ==
  ASSUME SafeInv, Keep, chs' \subseteq Opened,
         NEW a, NEW items \in Seq(Tidy(a)), NEW v, Walk(a, items, v)
  PROVE  SafeInv'
<1>1. phase' # "crashed"
  BY DEF SafeInv, Keep
<1>2. CASE items = <<>>
  BY <1>1, <1>2 DEF SafeInv, Walk
<1>3. CASE items # <<>>
  <2>1. todo' = items /\ ar' = a
    BY <1>3 DEF Walk
  <2> QED
    BY <1>1, <2>1 DEF SafeInv, Tidy
<1> QED
  BY <1>2, <1>3

LEMMA SafeLeave ==
  ASSUME SafeInv, Keep, chs' \subseteq Opened, Leave
  PROVE  SafeInv'
<1>1. <<>> \in Seq(Tidy(<<>>))
  OBVIOUS
<1> QED
  BY <1>1, SafeWalk, Zenon DEF Leave

LEMMA SafeNextItem ==
  ASSUME ChInv, SafeInv, NEW c, Walking(c), Keep, chs' \subseteq Opened, NEW v, NextItem(v)
  PROVE  SafeInv'
<1>1. Tail(todo) \in Seq(Tidy(ar))
  BY DEF SafeInv, ChInv, ListOK, Walking
<1> QED
  BY <1>1, SafeWalk, Zenon DEF NextItem

(* JOIN 0 puts on the list the one channel there is to be on.              *)
LEMMA SafeJoinZero ==
  ASSUME Careful, ChInv, SafeInv, \A m, n \in Opened : m = n,
         NEW mine \in SUBSET chs, execJoinZero(mine)
  PROVE  SafeInv'
<1>1. /\ Keep /\ UNCHANGED chVars
      /\ \E order \in [1 .. Cardinality(mine) -> mine] :
           Walk(<<"PART", IF Len(order) = 1 THEN order[1] ELSE "0">>, order, <<>>)
  BY DEF execJoinZero
<1>2. PICK order \in [1 .. Cardinality(mine) -> mine] :
        Walk(<<"PART", IF Len(order) = 1 THEN order[1] ELSE "0">>, order, <<>>)
  BY <1>1
<1> DEFINE p == <<"PART", IF Len(order) = 1 THEN order[1] ELSE "0">>
<1>3. chs' \subseteq Opened /\ mine \subseteq Opened
  BY <1>1 DEF SafeInv, chVars
<1>4. Cardinality(mine) \in Nat /\ (mine # {} => Cardinality(mine) = 1)
  <2>1. IsFiniteSet(mine)
    BY FS_Subset DEF ChInv, ChannelsOK
  <2>2. mine # {} => \E m \in mine : mine = {m}
    BY <1>3
  <2> QED
    BY <2>1, <2>2, FS_Singleton, FS_CardinalityType
<1>5. order \in Seq(mine) /\ Len(order) = Cardinality(mine)
  BY <1>4, FunctionIsSeq
<1>6. ASSUME NEW i \in 1 .. Len(order)
      PROVE  order[i] \in Tidy(p)
  <2>1. order[i] \in mine
    BY <1>5, <1>6, SeqElement
  <2>2. Len(order) = 1 /\ i = 1
    BY <1>4, <1>5, <1>6, <2>1
  <2>3. p[1] = "PART" /\ p[2] = order[i]
    BY <2>2
  <2>4. order[i] \in Opened /\ order[i] \in Word
    BY <1>3, <2>1, ChannelsAssumption, ClientsAssumption DEF Opened
  <2>5. Spelt(order[i])
    BY <2>4, OpenedIsSpelt
  <2> HIDE DEF p
  <2> QED
    BY <2>3, <2>4, <2>5 DEF Tidy
<1>7. order \in Seq(Tidy(p))
  <2> HIDE DEF p
  <2> QED
    BY <1>5, <1>6, SeqWithin
<1> QED
  <2> HIDE DEF p
  <2>1. Walk(p, order, <<>>)
    BY <1>2 DEF p
  <2> QED
    BY <1>1, <1>3, <1>7, <2>1, SafeWalk, Zenon

(* A command that begins a walk.                                           *)
LEMMA SafeBegin ==
  ASSUME Careful, SafeInv, Keep, UNCHANGED chVars, NEW a \in Cmds, Len(a) >= 2,
         a[1] \in {"JOIN", "PART", "KICK"}, NEW v, Walk(a, sub[a[2]], v)
  PROVE  SafeInv'
<1>1. sub[a[2]] \in Seq(Tidy(a))
  BY ListIsTidy
<1>2. chs' \subseteq Opened
  BY DEF SafeInv, chVars
<1> QED
  BY <1>1, <1>2, SafeWalk, Zenon

LEMMA SafeJoin ==
  ASSUME Careful, ChInv, SafeInv, NEW a \in Cmds, execJoin(a)
  PROVE  SafeInv'
<1>1. CASE Say(Error)
  BY <1>1, SafeSay
<1>2. CASE Len(a) = 2 /\ a[2] = "0" /\ execJoinZero({n \in chs : IsOn(n)})
  <2>1. \A m, n \in Opened : m = n
    BY <1>2 DEF Careful, execJoin
  <2>2. {n \in chs : IsOn(n)} \in SUBSET chs
    OBVIOUS
  <2> QED
    BY <1>2, <2>1, <2>2, SafeJoinZero
<1>3. CASE /\ Ready(a, 2)
           /\ Walk(a, sub[a[2]], IF Len(a) >= 3 THEN sub[a[3]] ELSE <<>>)
           /\ Keep /\ UNCHANGED chVars
  BY <1>3, SafeBegin DEF execJoin, Ready
<1> QED
  BY <1>1, <1>2, <1>3, Zenon DEF execJoin

LEMMA SafePartKick ==
  ASSUME Careful, ChInv, SafeInv, NEW a \in Cmds, execPart(a) \/ execKick(a)
  PROVE  SafeInv'
<1>1. CASE Say(Error)
  BY <1>1, SafeSay
<1>2. CASE /\ Ready(a, 2) \/ Ready(a, 3)
           /\ Walk(a, sub[a[2]], <<>>)
           /\ Keep /\ UNCHANGED chVars
  <2>1. Len(a) >= 2
    BY <1>2, LengthIsNat DEF Ready
  <2> QED
    BY <1>2, <2>1, SafeBegin DEF execPart, execKick
<1> QED
  BY <1>1, <1>2, Zenon DEF execPart, execKick

LEMMA SafeMode ==
  ASSUME Careful, ChInv, SafeInv, NEW a \in Cmds, execModeCh(a)
  PROVE  SafeInv'
<1>1. Len(a) >= 2 /\ a[1] = "MODE" /\ a \in Seq(Word)
  BY ArgIsWord DEF execModeCh
<1>2. ~Misspelt(a[2])
  BY <1>1, WordIsExact DEF SafeInv
<1>3. CASE Say(Error) \/ Say(Reply)
  BY <1>3, SafeSay
<1>4. CASE Walk(a, SubSeq(a, 3, Len(a)), <<>>) /\ Keep /\ UNCHANGED chVars
  <2> DEFINE options == SubSeq(a, 3, Len(a))
  <2>1. Tidy(a) = Word
    BY <1>1 DEF Tidy
  <2>2. options \in Seq(Word) /\ chs' \subseteq Opened
    BY <1>1, <1>4 DEF SafeInv, chVars
  <2>3. Walk(a, options, <<>>)
    BY <1>4
  <2> HIDE DEF options
  <2> QED
    BY <1>4, <2>1, <2>2, <2>3, SafeWalk, Zenon
<1> QED
  BY <1>2, <1>3, <1>4, Zenon DEF execModeCh

LEMMA SafeOther ==
  ASSUME Careful, ChInv, SafeInv, NEW a \in Cmds,
         execInvite(a) \/ execTopic(a) \/ execPrivmsg(a) \/ execNotice(a)
  PROVE  SafeInv'
<1>1. ASSUME Len(a) >= 2
      PROVE  ~Misspelt(a[2]) /\ \A t \in Range(sub[a[2]]) : lower[t] \in chs => t \in chs
  BY <1>1, WordIsExact DEF SafeInv
<1>2. ASSUME Len(a) >= 3
      PROVE  ~Misspelt(a[3]) /\ Len(a) >= 2
  BY <1>2, WordIsExact, LengthIsNat DEF SafeInv
<1>3. ASSUME NEW R, Say(R)
      PROVE  SafeInv'
  BY <1>3, SafeSay
<1>4. CASE execInvite(a)
  <2>1. CASE UNCHANGED <<chs, ch, listVars>> /\ Keep
    BY <2>1, SafeSame DEF Keep, SafeInv
  <2> QED
    BY <1>2, <1>3, <1>4, <2>1, Zenon DEF execInvite, Ready
<1>5. CASE execTopic(a)
  <2>1. CASE UNCHANGED <<chs, invits, listVars>> /\ Keep
    BY <2>1, SafeSame DEF Keep, SafeInv
  <2> QED
    BY <1>1, <1>3, <1>5, <2>1, Zenon DEF execTopic, Ready
<1>6. CASE execPrivmsg(a)
  BY <1>1, <1>2, <1>3, <1>6, Zenon DEF execPrivmsg, Ready
<1>7. CASE execNotice(a)
  BY <1>3, <1>7, Zenon DEF execNotice
<1> QED
  BY <1>4, <1>5, <1>6, <1>7

(* The head of a list in a walk, and what it names.                        *)
LEMMA HeadIsTidy ==
  ASSUME ChInv, SafeInv, NEW c \in {"JOIN", "PART", "KICK"}, Walking(c)
  PROVE  /\ ~Misspelt(Head(todo))
         /\ c = "JOIN" /\ Head(todo) \in ChName => Head(todo) \in Opened
         /\ c # "JOIN" /\ Head(todo) \in chs => Addressee # {}
<1>1. Head(todo) \in Tidy(ar) /\ ar[1] = c
  BY DEF SafeInv, ChInv, ListOK, Walking
<1>2. /\ Spelt(Head(todo))
      /\ c = "JOIN" /\ Head(todo) \in ChName => Head(todo) \in Opened
      /\ c # "JOIN" /\ Head(todo) \in Opened => Head(todo) = ar[2]
  BY <1>1 DEF Tidy
<1>3. ~Misspelt(Head(todo))
  BY <1>2, SpeltIsExact DEF SafeInv
<1>4. c # "JOIN" /\ Head(todo) \in chs => Addressee # {}
  BY <1>2 DEF SafeInv, Addressee, getCh
<1> QED
  BY <1>2, <1>3, <1>4

LEMMA SafeJoinOne ==
  ASSUME Careful, ChInv, SafeInv, joinOne
  PROVE  SafeInv'
<1> DEFINE n == Head(todo)
<1>1. Walking("JOIN") /\ ~Misspelt(n) /\ (n \in ChName => n \in Opened)
  BY HeadIsTidy DEF joinOne
<1>2. CASE Leave /\ Keep /\ UNCHANGED chVars
  <2>1. chs' \subseteq Opened
    BY <1>2 DEF SafeInv, chVars
  <2> QED
    BY <1>2, <2>1, SafeLeave
<1>3. CASE NextItem(vals) /\ Keep /\ UNCHANGED chVars
  <2>1. chs' \subseteq Opened
    BY <1>3 DEF SafeInv, chVars
  <2> QED
    BY <1>1, <1>3, <2>1, SafeNextItem
<1>4. CASE n \in ChName /\ enterChannel(n)
  <2>1. Keep /\ chs' = chs \cup {n} /\ \E v : NextItem(v)
    BY <1>4 DEF enterChannel
  <2>2. chs' \subseteq Opened
    BY <1>1, <1>4, <2>1 DEF SafeInv
  <2> QED
    BY <1>1, <2>1, <2>2, SafeNextItem
<1> QED
  BY <1>1, <1>2, <1>3, <1>4, Zenon DEF joinOne

LEMMA SafePartOne ==
  ASSUME Careful, ChInv, SafeInv, partOne
  PROVE  SafeInv'
<1> DEFINE n == Head(todo)
<1>1. Walking("PART") /\ ~Misspelt(n) /\ (n \in chs => Addressee # {})
  BY HeadIsTidy DEF partOne
<1>2. NextItem(<<>>) /\ Keep /\ UNCHANGED chs
  BY <1>1, Zenon DEF partOne, leaveChannel, chVars
<1>3. chs' \subseteq Opened
  BY <1>2 DEF SafeInv
<1> QED
  BY <1>1, <1>2, <1>3, SafeNextItem

LEMMA SafeKickWalk ==
  ASSUME Careful, ChInv, SafeInv, kickChannel \/ kickOne
  PROVE  SafeInv'
<1> DEFINE n == Head(todo)
<1>1. Walking("KICK") /\ ~Misspelt(n) /\ (n \in chs => Addressee # {})
  <2>1. Walking("KICK")
    BY DEF kickChannel, kickOne
  <2> QED
    BY <2>1, HeadIsTidy
<1>2. kickOne => n \in chs
  BY DEF kickOne, ChInv, ListOK, Walking
<1>3. /\ NextItem(<<>>) \/ \E v : Walk(ar, todo, v)
      /\ Keep /\ UNCHANGED chs
  <2>1. CASE kickChannel
    BY <1>1, <2>1, Zenon DEF kickChannel, chVars
  <2>2. CASE kickOne
    BY <1>1, <1>2, <2>2, Zenon DEF kickOne, leaveChannel, chVars
  <2> QED
    BY <2>1, <2>2
<1>4. chs' \subseteq Opened
  BY <1>3 DEF SafeInv
<1>5. CASE NextItem(<<>>)
  BY <1>1, <1>3, <1>4, <1>5, SafeNextItem
<1>6. ASSUME NEW v, Walk(ar, todo, v)
      PROVE  SafeInv'
  <2>1. todo \in Seq(Tidy(ar))
    BY DEF SafeInv
  <2> QED
    BY <1>3, <1>4, <1>6, <2>1, SafeWalk, Zenon
<1> QED
  BY <1>3, <1>5, <1>6

LEMMA SafeModeOne ==
  ASSUME Careful, ChInv, SafeInv, modeOne
  PROVE  SafeInv'
<1> DEFINE takes == Head(todo) \in Valued /\ Len(todo) >= 2
           rest == SubSeq(todo, IF takes THEN 3 ELSE 2, Len(todo))
<1>1. Walk(ar, rest, <<>>)
  BY Zenon DEF modeOne
<1>2. todo \in Seq(Tidy(ar)) /\ todo # <<>>
  BY DEF SafeInv, modeOne, Walking, ChInv, ListOK
<1>3. rest \in Seq(Tidy(ar))
  <2>1. Len(todo) >= 1 /\ (takes => Len(todo) >= 2)
    BY <1>2
  <2> HIDE DEF takes
  <2> QED
    BY <1>2, <2>1
<1>4. Keep /\ chs' \subseteq Opened /\ Walk(ar, rest, <<>>)
  BY <1>1 DEF modeOne, SafeInv
<1> HIDE DEF rest
<1> QED
  BY <1>3, <1>4, SafeWalk, Zenon

LEMMA SafeInit == Init => SafeInv
<1>1. <<>> \in Seq(Tidy(<<>>))
  OBVIOUS
<1> QED
  BY <1>1, Zenon DEF Init, CliInit, SafeInv

LEMMA SafeNext ==
  ASSUME Careful, ChInv, SafeInv, [Next]_vars
  PROVE  SafeInv'
<1>1. CASE UNCHANGED vars
  BY <1>1, SafeSame DEF vars, cliVars, chVars, SafeInv
<1>2. CASE Serve /\ UNCHANGED <<chVars, listVars>>
  <2>1. phase' # "crashed"
    BY <1>2 DEF Serve, addNewClient, receiveBuf, hangUp, endPass
  <2> QED
    BY <1>2, <2>1, SafeSame DEF chVars
<1>3. ASSUME NEW a \in Cmds, CliCommand(a), UNCHANGED <<chVars, listVars>>
      PROVE  SafeInv'
  BY <1>3, SafeSame DEF CliCommand, chVars, SafeInv
<1>4. ASSUME NEW f \in Fd, eraseUnusedCliChs(f), UNCHANGED listVars
      PROVE  SafeInv'
  BY <1>4, SafeSame DEF eraseUnusedCliChs, eraseUnusedCli, SafeInv
<1>5. CASE startPassChs /\ UNCHANGED listVars
  <2>1. phase' # "crashed" /\ chs' \subseteq chs
    BY <1>5 DEF startPassChs, startPass, eraseUnusedChs
  <2> QED
    BY <1>5, <2>1, SafeSame
<1>6. ASSUME NEW a \in Cmds, ChCommand(a)
      PROVE  SafeInv'
  BY <1>6, SafeJoin, SafePartKick, SafeMode, SafeOther DEF ChCommand
<1>7. CASE joinOne \/ partOne \/ kickChannel \/ kickOne \/ modeOne
  BY <1>7, SafeJoinOne, SafePartOne, SafeKickWalk, SafeModeOne
<1> QED
  BY <1>1, <1>2, <1>3, <1>4, <1>5, <1>6, <1>7, Zenon DEF Next

(* A server whose clients are careful never reads a null pointer           *)
(* (NoCrash): there are no other ways to one than those Careful excludes.  *)
THEOREM CarefulNeverCrash ==
  ASSUME Careful
  PROVE  Spec => []NoCrash
<1>1. ChInv /\ SafeInv /\ [Next]_vars => SafeInv'
  BY SafeNext
<1>2. SafeInv => NoCrash
  BY DEF SafeInv, NoCrash
<1> QED
  BY <1>1, <1>2, SafeInit, ChInvInit, ChInvNext, PTL DEF Spec
-----------------------------------------------------------------------------
(* Refinement: the steps of the channels are steps of Membership.tla.      *)

Inhabited == [n \in ChName |-> ch[n].clis]
RoomsStep == Rooms!Next \/ UNCHANGED <<clis, Inhabited>>

(* A step that takes members away at most.                                 *)
LEMMA MembersLeave ==
  ASSUME ChInv, UNCHANGED clis, \A n \in ChName : ch'[n].clis \subseteq ch[n].clis
  PROVE  RoomsStep
<1>1. Inhabited' \in [ChName -> SUBSET Fd]
  BY DEF Inhabited, ChInv, ChannelsOK, Channel, GoodCh, NoCh
<1>2. \A n \in ChName : Inhabited'[n] \subseteq Inhabited[n]
  BY DEF Inhabited
<1>3. CASE Inhabited' = Inhabited
  BY <1>3 DEF RoomsStep
<1>4. CASE Inhabited' # Inhabited
  <2>1. Rooms!Leave
    BY <1>1, <1>2, <1>4 DEF Rooms!Leave, Inhabited
  <2> QED
    BY <2>1 DEF Rooms!Next, RoomsStep
<1> QED
  BY <1>3, <1>4

(* JOIN lets its author in.                                                *)
LEMMA MemberEnters ==
  ASSUME ChInv, UNCHANGED clis, cli \in clis, NEW n \in ChName, cli \notin ch[n].clis,
         ch' = [ch EXCEPT ![n] = ch'[n]], ch'[n].clis \in {ch[n].clis, ch[n].clis \cup {cli}}
  PROVE  RoomsStep
<1>1. DOMAIN ch = ChName /\ cli \in Fd
  BY DEF ChInv, ChannelsOK, CliInv, CliTypeOK
<1>2. \A m \in ChName \ {n} : ch'[m] = ch[m]
  BY <1>1
<1>3. CASE ch'[n].clis = ch[n].clis
  <2>1. Inhabited' = Inhabited
    BY <1>2, <1>3 DEF Inhabited
  <2> QED
    BY <2>1 DEF RoomsStep
<1>4. CASE ch'[n].clis = ch[n].clis \cup {cli}
  <2>1. Inhabited' = [Inhabited EXCEPT ![n] = @ \cup {cli}]
    BY <1>2, <1>4 DEF Inhabited
  <2>2. Rooms!Enter(cli, n)
    BY <2>1 DEF Rooms!Enter, Inhabited
  <2> QED
    BY <1>1, <2>2 DEF Rooms!Next, RoomsStep
<1> QED
  BY <1>3, <1>4

(* Who is deleted is the only member eraseCliFromCh finds: members have a  *)
(* nickname, and nobody else has that one.                                 *)
LEMMA OnlyTheDeleted ==
  ASSUME ChInv, NickUnique, NEW f \in clis, NEW n \in chs
  PROVE  ch[n].clis \ getCli(nick[f]) = ch[n].clis \ {f}
<1>1. f \in getCli(nick[f])
  BY DEF getCli
<1>2. ASSUME NEW c \in ch[n].clis, c \in getCli(nick[f])
      PROVE  c = f
  <2>1. c \in clis /\ nick[c] # "" /\ lower[nick[c]] = lower[nick[f]]
    BY <1>2 DEF getCli, ChInv, ChannelsOK, GoodCh, Registered
  <2> QED
    BY <2>1 DEF NickUnique
<1> QED
  BY <1>1, <1>2

LEMMA DeletedLeaves ==
  ASSUME SteadyInv, NEW f \in Fd, eraseUnusedCliChs(f)
  PROVE  RoomsStep
<1>1. f \in clis /\ clis \subseteq Fd /\ clis' = clis \ {f}
  BY DEF SteadyInv, ChInv, CliInv, CliTypeOK, eraseUnusedCliChs, eraseUnusedCli
<1>2. ASSUME NEW n \in ChName
      PROVE  ch'[n].clis = ch[n].clis \ {f}
  <2>1. CASE n \in chs
    <3>1. PICK heir : ch'[n] = eraseCliFromCh(ch[n], getCli(nick[f]), heir[n])
      BY <2>1 DEF eraseUnusedCliChs
    <3>2. ch[n] \in Channel
      BY DEF SteadyInv, ChInv, ChannelsOK
    <3>3. ch'[n].clis = ch[n].clis \ getCli(nick[f])
      BY <3>1, <3>2, ErasedKeepsModes
    <3> QED
      BY <1>1, <2>1, <3>3, OnlyTheDeleted DEF SteadyInv
  <2>2. CASE n \notin chs
    <3>1. ch'[n] = ch[n] /\ ch[n] = NoCh
      BY <2>2, AbsentIsBlank DEF eraseUnusedCliChs, SteadyInv
    <3> QED
      BY <3>1, NoMembers
  <2> QED
    BY <2>1, <2>2
<1>3. Inhabited' = [n \in ChName |-> Inhabited[n] \ {f}]
  BY <1>2 DEF Inhabited
<1>4. Rooms!Disconnect({f})
  BY <1>1, <1>3 DEF Rooms!Disconnect, Inhabited
<1> QED
  BY <1>1, <1>4 DEF Rooms!Next, RoomsStep

LEMMA JoinInRooms ==
  ASSUME ChInv, NEW n \in ChName, Walking("JOIN"), enterChannel(n), ~(n \in chs /\ IsOn(n))
  PROVE  RoomsStep
<1> DEFINE r == IF n \in chs THEN ch[n] ELSE NewCh(cli)
<1>1. cli \in clis /\ UNCHANGED clis /\ DOMAIN ch = ChName
  BY WalkingType DEF enterChannel, Keep, ChInv, ChannelsOK
<1>2. \/ ch' = [ch EXCEPT ![n] = r]
      \/ ch' = [ch EXCEPT ![n] = [r EXCEPT !.clis = r.clis \cup {cli}]]
  BY Zenon DEF enterChannel
<1>3. ch' = [ch EXCEPT ![n] = ch'[n]]
  BY <1>1, <1>2
<1>4. CASE n \in chs
  <2>1. cli \notin ch[n].clis
    BY <1>4 DEF IsOn, getCliOnCh
  <2>2. \/ ch' = [ch EXCEPT ![n] = ch[n]]
        \/ ch' = [ch EXCEPT ![n] = [ch[n] EXCEPT !.clis = ch[n].clis \cup {cli}]]
    BY <1>2, <1>4
  <2>3. [ch[n] EXCEPT !.clis = ch[n].clis \cup {cli}].clis = ch[n].clis \cup {cli}
    BY DEF ChInv, ChannelsOK, Channel
  <2>4. ch'[n].clis \in {ch[n].clis, ch[n].clis \cup {cli}}
    BY <1>1, <2>2, <2>3
  <2> QED
    BY <1>1, <1>3, <2>1, <2>4, MemberEnters
<1>5. CASE n \notin chs
  <2>1. ch[n].clis = {}
    BY <1>5, AbsentIsBlank, NoMembers
  <2>2. \/ ch' = [ch EXCEPT ![n] = NewCh(cli)]
        \/ ch' = [ch EXCEPT ![n] = [NewCh(cli) EXCEPT !.clis = NewCh(cli).clis \cup {cli}]]
    BY <1>2, <1>5
  <2>3. NewCh(cli).clis = {cli} /\ [NewCh(cli) EXCEPT !.clis = NewCh(cli).clis \cup {cli}].clis = {cli}
    BY DEF NewCh, NoCh
  <2>4. ch'[n].clis = {cli}
    BY <1>1, <2>2, <2>3
  <2> QED
    BY <1>1, <1>3, <2>1, <2>4, MemberEnters
<1> QED
  BY <1>4, <1>5

(* The steps that neither accept nor delete a client.                      *)
LEMMA StepsInRooms ==
  ASSUME ChInv, [Next]_vars, UNCHANGED clis
  PROVE  RoomsStep
<1>1. CASE \E n \in ChName : Walking("JOIN") /\ enterChannel(n) /\ ~(n \in chs /\ IsOn(n))
  BY <1>1, JoinInRooms
<1>2. CASE ~\E n \in ChName : Walking("JOIN") /\ enterChannel(n) /\ ~(n \in chs /\ IsOn(n))
  <2>1. ASSUME NEW n \in ChName
        PROVE  ch'[n].clis \subseteq ch[n].clis
    <3>1. CASE n \notin chs'
      <4>1. ch'[n] = NoCh
        BY <3>1, ChInvNext DEF ChInv, ChannelsOK
      <4> QED
        BY <4>1, NoMembers
    <3>2. CASE n \in chs' /\ n \in chs
      BY <1>2, <3>2, ChannelBecomes DEF Enters, Stays, IsSet
    <3>3. CASE n \in chs' /\ n \notin chs
      BY <1>2, <3>3, OpenedByJoin
    <3> QED
      BY <3>1, <3>2, <3>3
  <2> QED
    BY <2>1, MembersLeave
<1> QED
  BY <1>1, <1>2

(* A client is accepted.                                                   *)
LEMMA AcceptedInRooms ==
  ASSUME ChInv, NEW f \in Fd, addNewClient(f), UNCHANGED chVars
  PROVE  RoomsStep
<1>1. f \notin clis /\ clis' = clis \cup {f} /\ Inhabited' = Inhabited
  BY DEF addNewClient, chVars, Inhabited
<1>2. Rooms!Connect(f)
  BY <1>1 DEF Rooms!Connect, Inhabited
<1> QED
  BY <1>2 DEF Rooms!Next, RoomsStep

(* The channels implement Membership: only the connected come on them, and *)
(* who is deleted leaves all of them in that step, and nobody else does,   *)
(* although eraseCliFromCh goes by nickname (RoomsSpec).                   *)
THEOREM ChannelsKeepRooms == Spec => RoomsSpec
<1>1. Init => Rooms!Init
  BY NoMembers DEF Init, CliInit, Rooms!Init
<1>2. SteadyInv /\ [Next]_vars => [Rooms!Next]_Rooms!vars
  <2> SUFFICES ASSUME SteadyInv, [Next]_vars
               PROVE  RoomsStep
    BY DEF RoomsStep, Inhabited, Rooms!vars
  <2>1. CASE UNCHANGED clis
    BY <2>1, StepsInRooms DEF SteadyInv
  <2>2. ASSUME NEW f \in Fd, eraseUnusedCliChs(f)
        PROVE  RoomsStep
    BY <2>2, DeletedLeaves
  <2>3. ASSUME Serve, UNCHANGED chVars
        PROVE  RoomsStep
    <3>1. UNCHANGED clis \/ \E f \in Fd : addNewClient(f)
      BY <2>3 DEF Serve, receiveBuf, hangUp, endPass
    <3> QED
      BY <2>1, <2>3, <3>1, AcceptedInRooms DEF SteadyInv
  <2>4. ASSUME startPassChs \/ UNCHANGED vars \/ \E a \in Cmds : CliCommand(a)
        PROVE  UNCHANGED clis
    BY <2>4 DEF startPassChs, startPass, vars, cliVars, CliCommand
  <2> QED
    BY <2>1, <2>2, <2>3, <2>4, ClientsLeftAlone, Zenon DEF Next
<1> QED
  BY <1>1, <1>2, SteadyInvInit, SteadyInvNext, PTL DEF Spec, RoomsSpec, Rooms!Spec
-----------------------------------------------------------------------------
(* What Clients promises of registration holds with the channels added.    *)

(* A step of the channels is a step of the clients, or leaves what the     *)
(* clients keep alone.                                                     *)
LEMMA StepOfClients ==
  ASSUME [Next]_vars
  PROVE  [CliNext]_cliVars \/ UNCHANGED <<clis, fdsToErase, session>>
<1>1. ASSUME \/ \E a \in Cmds : ChCommand(a)
             \/ joinOne \/ partOne \/ kickChannel \/ kickOne \/ modeOne
      PROVE  UNCHANGED <<clis, fdsToErase, session>>
  <2>1. Keep \/ Crash => UNCHANGED <<clis, fdsToErase, session>>
    BY DEF Keep, Crash
  <2> QED
    BY <1>1, <2>1, KeptOrCrashed
<1>2. ASSUME NEW f \in Fd, eraseUnusedCliChs(f)
      PROVE  CliNext
  BY <1>2 DEF eraseUnusedCliChs, CliNext
<1>3. startPassChs => CliNext
  BY DEF startPassChs, CliNext
<1>4. UNCHANGED vars => UNCHANGED cliVars
  BY DEF vars
<1> QED
  BY <1>1, <1>2, <1>3, <1>4, Zenon DEF Next, CliNext

(* Registration works with the channels as it does without: two clients    *)
(* never share a nickname (NickUnique), who registers is welcomed          *)
(* (WelcomeSent), and who gave a wrong password is dropped                 *)
(* (WrongPassDropped).                                                     *)
THEOREM RegistrationSurvives == Spec => [](NickUnique /\ WelcomeSent /\ WrongPassDropped)
<1>1. Init => WelcomeSent /\ WrongPassDropped
  BY DEF Init, CliInit, WelcomeSent, WrongPassDropped
<1>2. ChInv /\ WelcomeSent /\ [Next]_vars => WelcomeSent'
  <2>1. WelcomeSent /\ UNCHANGED <<clis, fdsToErase, session>> => WelcomeSent'
    BY DEF WelcomeSent, Registered, session
  <2> QED
    BY <2>1, StepOfClients, WelcomeSentNext DEF ChInv, CliInv
<1>3. WrongPassDropped /\ [Next]_vars => WrongPassDropped'
  <2>1. WrongPassDropped /\ UNCHANGED <<clis, fdsToErase, session>> => WrongPassDropped'
    BY DEF WrongPassDropped, session
  <2> QED
    BY <2>1, StepOfClients, WrongPassNext
<1>4. SteadyInv => ChInv /\ NickUnique
  BY DEF SteadyInv
<1> QED
  BY <1>1, <1>2, <1>3, <1>4, SteadyInvInit, SteadyInvNext, PTL DEF Spec

(* With careful clients the server keeps its promise about the life of a   *)
(* client (KeepsLife); a null pointer that is read breaks it, as a pass    *)
(* then never ends.                                                        *)
THEOREM CarefulKeepLife ==
  ASSUME Careful
  PROVE  Spec => KeepsLife
<1>1. Init => Life!LifeInit
  BY DEF Init, CliInit, Life!LifeInit
<1>2. ChInv /\ SafeInv /\ [Next]_vars => [Life!LifeNext]_Life!lifeVars
  <2> SUFFICES ASSUME ChInv, SafeInv, [Next]_vars
               PROVE  [Life!LifeNext]_Life!lifeVars
    OBVIOUS
  <2>1. CASE [CliNext]_cliVars
    BY <2>1, LifeStep DEF ChInv
  <2>2. CASE UNCHANGED Life!lifeVars
    BY <2>2
  <2>3. ASSUME \/ \E a \in Cmds : ChCommand(a)
               \/ joinOne \/ partOne \/ kickChannel \/ kickOne \/ modeOne
        PROVE  UNCHANGED Life!lifeVars
    <3>1. ~Crash
      BY SafeNext DEF SafeInv, Crash
    <3>2. Keep
      BY <2>3, <3>1, KeptOrCrashed
    <3> QED
      BY <3>2 DEF Keep, Life!lifeVars
  <2>4. ASSUME NEW f \in Fd, eraseUnusedCliChs(f)
        PROVE  CliNext
    BY <2>4 DEF eraseUnusedCliChs, CliNext
  <2>5. startPassChs => CliNext
    BY DEF startPassChs, CliNext
  <2>6. UNCHANGED vars => UNCHANGED cliVars
    BY DEF vars
  <2> QED
    BY <2>1, <2>2, <2>3, <2>4, <2>5, <2>6, Zenon DEF Next, CliNext
<1>3. Init => SafeInv
  BY SafeInit
<1>4. ChInv /\ SafeInv /\ [Next]_vars => SafeInv'
  BY SafeNext
<1> QED
  BY <1>1, <1>2, <1>3, <1>4, ChInvInit, ChInvNext, PTL DEF Spec, KeepsLife, Life!LifeSpec
=============================================================================
