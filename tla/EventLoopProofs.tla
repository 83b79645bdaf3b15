-------------------------- MODULE EventLoopProofs --------------------------
(***************************************************************************)
(* The safety of the loop, for every number of descriptors, every bound on *)
(* what waits, and whatever the clients and the kernel do.                 *)
(*                                                                         *)
(* EvInv is inductive.  Its last part, MarkedNotRead, says how a marked    *)
(* client is kept from being read.                                         *)
(***************************************************************************)
EXTENDS EventLoop, Integers, TLAPS

(* A marked client is waited on to be written to only, and so poll()       *)
(* cannot report it as readable; one that is marked during the visits is   *)
(* not visited again before the next top of the loop.                      *)
MarkedNotRead ==
  /\ pc = "poll" => \A k \in DOMAIN polls : polls[k].fd \in fdsToErase => polls[k].events = "OUT"
  /\ pc = "visit" => \A k \in DOMAIN polls :
       k >= i /\ polls[k].revents = "IN" => polls[k].fd \notin fdsToErase

(* What EvTypeOK says of the kernel, and of the buffers.                   *)
KernelOK ==
  /\ peer \in [Fd -> {"none", "up", "fin", "reset", "dead"}]
  /\ inbox \in [Fd -> 0 .. MaxIn]
  /\ room \in [Fd -> BOOLEAN]
  /\ backlog \in 0 .. MaxConn

BuffersOK ==
  /\ bufToSend \in [Fd -> Seq(0 .. Units - 1)]
  /\ made \in [Fd -> 0 .. Units - 1] /\ seen \in [Fd -> 0 .. Units - 1]

EvInv == EvTypeOK /\ PollsMatchClis /\ MarkedAreClis /\ MarkedNotRead
-----------------------------------------------------------------------------
(* Facts about sequences.                                                  *)
LEMMA PollElement ==
  ASSUME NEW S, NEW s \in Seq(S), NEW k \in DOMAIN s
  PROVE  k \in 1 .. Len(s) /\ s[k] \in S
OBVIOUS

LEMMA SeqIs ==
  ASSUME NEW S, NEW n \in Nat, NEW s \in [1 .. n -> S]
  PROVE  s \in Seq(S) /\ Len(s) = n /\ DOMAIN s = 1 .. n
OBVIOUS

LEMMA PollsAre ==
  ASSUME polls \in Seq(Poll)
  PROVE  /\ Len(polls) \in Nat /\ DOMAIN polls = 1 .. Len(polls)
         /\ \A k \in DOMAIN polls : polls[k] \in Poll
         /\ polls = [k \in DOMAIN polls |-> polls[k]]
OBVIOUS

LEMMA UnitsAre == Units \in Nat \ {0} /\ 0 \in 0 .. Units - 1
BY EventLoopAssumption DEF Units

LEMMA Remainder ==
  ASSUME NEW S, NEW s \in Seq(S), NEW n \in 1 .. Len(s)
  PROVE  /\ SubSeq(s, n + 1, Len(s)) \in Seq(S)
         /\ Len(SubSeq(s, n + 1, Len(s))) = Len(s) - n
         /\ \A k \in 1 .. Len(s) - n : SubSeq(s, n + 1, Len(s))[k] = s[k + n]
OBVIOUS

LEMMA ReventsOnly ==
  ASSUME NEW q \in Poll, NEW r \in {"", "IN", "OUT"}, NEW p, p = [q EXCEPT !.revents = r]
  PROVE  p \in Poll /\ p.fd = q.fd /\ p.events = q.events /\ p.revents = r
BY DEF Poll

LEMMA EventsOnly ==
  ASSUME NEW q \in Poll, NEW e \in {"IN", "OUT"}, NEW p, p = [q EXCEPT !.events = e]
  PROVE  p \in Poll /\ p.fd = q.fd /\ p.events = e /\ p.revents = q.revents
BY DEF Poll

(* A pass over the pollfds that changes their flags only.                  *)
LEMMA SamePolls ==
  ASSUME EvInv, DOMAIN polls' = DOMAIN polls, polls' \in Seq(Poll), UNCHANGED clis,
         \A k \in DOMAIN polls : polls'[k].fd = polls[k].fd
  PROVE  PollsMatchClis' /\ Len(polls') = Len(polls)
<1>1. Len(polls') = Len(polls)
  <2>1. polls \in Seq(Poll)
    BY DEF EvInv, EvTypeOK
  <2> QED
    BY <2>1
<1>2. DOMAIN polls = 1 .. Len(polls) /\ DOMAIN polls' = 1 .. Len(polls)
  BY PollsAre DEF EvInv, EvTypeOK
<1>3. {polls'[k].fd : k \in DOMAIN polls'} = {polls[k].fd : k \in DOMAIN polls}
  OBVIOUS
<1>4. 1 \in DOMAIN polls
  BY <1>2 DEF EvInv, PollsMatchClis
<1> QED
  BY <1>1, <1>3, <1>4 DEF EvInv, PollsMatchClis
-----------------------------------------------------------------------------
(* The invariant holds initially, and each step keeps it.                  *)
LEMMA EvInvInit == Init => EvInv
<1> SUFFICES ASSUME Init
             PROVE  EvInv
  OBVIOUS
<1>1. NewPoll(Listen) \in Poll
  BY DEF NewPoll, Poll
<1>2. polls \in Seq(Poll) /\ Len(polls) = 1 /\ DOMAIN polls = {1} /\ polls[1] = NewPoll(Listen)
  BY <1>1 DEF Init
<1>3. polls[1].fd = Listen /\ polls[1].events = "IN"
  <2>1. NewPoll(Listen).fd = Listen /\ NewPoll(Listen).events = "IN"
    BY DEF NewPoll
  <2> QED
    BY <1>2, <2>1
<1>4. BuffersOK
  BY UnitsAre DEF Init, BuffersOK
<1>5. KernelOK
  BY EventLoopAssumption DEF Init, KernelOK
<1>6. EvTypeOK
  BY <1>2, <1>3, <1>4, <1>5 DEF Init, EvTypeOK, KernelOK, BuffersOK
<1>7. {polls[k].fd : k \in DOMAIN polls} = {Listen}
  BY <1>2, <1>3
<1>8. PollsMatchClis
  BY <1>2, <1>3, <1>7 DEF Init, PollsMatchClis
<1> QED
  BY <1>6, <1>8 DEF EvInv, MarkedAreClis, MarkedNotRead, Init

(* The environment changes nothing but the kernel.                         *)
LEMMA EnvironmentKeeps ==
  ASSUME EvInv, Environment
  PROVE  EvInv'
<1>1. UNCHANGED server
  BY DEF Environment, connect, abort, clientSends, clientCloses, connectionResets, clientReads
<1>2. KernelOK
  BY DEF EvInv, EvTypeOK, KernelOK
<1>3. KernelOK'
  <2>1. ASSUME connect \/ abort
        PROVE  KernelOK'
    BY <1>2, <2>1, EventLoopAssumption DEF connect, abort, KernelOK
  <2>2. ASSUME NEW c \in Fd, clientSends(c)
        PROVE  KernelOK'
    BY <1>2, <2>2, EventLoopAssumption DEF clientSends, KernelOK
  <2>3. ASSUME NEW c \in Fd, clientCloses(c) \/ connectionResets(c)
        PROVE  KernelOK'
    BY <1>2, <2>3 DEF clientCloses, connectionResets, KernelOK
  <2>4. ASSUME NEW c \in Fd, clientReads(c)
        PROVE  KernelOK'
    BY <1>2, <2>4 DEF clientReads, KernelOK
  <2> QED
    BY <2>1, <2>2, <2>3, <2>4 DEF Environment
<1> QED
  BY <1>1, <1>3 DEF EvInv, EvTypeOK, KernelOK, PollsMatchClis, MarkedAreClis, MarkedNotRead, server

(* Where a visit stands, and where the next one will.                      *)
LEMMA IndexIs ==
  ASSUME EvInv, pc = "visit", i <= Len(polls)
  PROVE  /\ i \in DOMAIN polls /\ i \in Nat /\ i # 0
         /\ i + 1 \in 0 .. Len(polls) + 1 /\ i + 1 # 0
         /\ \A k \in DOMAIN polls : k >= i + 1 => k >= i /\ k # i
<1>1. i \in 0 .. Len(polls) + 1 /\ i # 0
  BY DEF EvInv, EvTypeOK
<1>2. Len(polls) \in Nat /\ DOMAIN polls = 1 .. Len(polls)
  BY PollsAre DEF EvInv, EvTypeOK
<1>3. i \in 1 .. Len(polls)
  BY <1>1, <1>2
<1> QED
  BY <1>2, <1>3

(* The client whose pollfd is visited is connected.                        *)
LEMMA VisitedIsCli ==
  ASSUME EvInv, NEW c \in Fd, NEW r, Visiting(c, r)
  PROVE  c \in clis /\ i \in DOMAIN polls /\ polls[i].fd = c /\ i \in Nat
<1>1. i \in 1 .. Len(polls)
  BY PollsAre DEF Visiting, EvInv, EvTypeOK
<1>2. i \in DOMAIN polls
  BY <1>1, PollsAre DEF EvInv, EvTypeOK
<1> QED
  BY <1>1, <1>2, EventLoopAssumption DEF Visiting, EvInv, PollsMatchClis

(* A visit that leaves the pollfds alone and marks at most its client.     *)
LEMMA VisitKeeps ==
  ASSUME EvInv, NEW c \in Fd, NEW r, Visiting(c, r), Advance, UNCHANGED <<polls, clis>>,
         fdsToErase' \in {fdsToErase, fdsToErase \cup {c}}
  PROVE  /\ PollsMatchClis' /\ MarkedAreClis' /\ MarkedNotRead'
         /\ pc' = "visit" /\ i' \in 0 .. Len(polls) + 1 /\ i' # 0
<1>1. c \in clis /\ i \in DOMAIN polls /\ polls[i].fd = c /\ i \in Nat
  BY VisitedIsCli
<1>2. pc' = "visit" /\ i' = i + 1 /\ i \in 1 .. Len(polls)
  BY <1>1, PollsAre DEF Advance, Visiting, EvInv, EvTypeOK
<1>3. ASSUME NEW k \in DOMAIN polls, k >= i + 1, polls[k].revents = "IN"
      PROVE  polls[k].fd \notin fdsToErase'
  <2>1. k >= i /\ k # i
    BY <1>1, <1>3, PollsAre DEF EvInv, EvTypeOK
  <2>2. polls[k].fd # c
    BY <1>1, <2>1 DEF EvInv, PollsMatchClis
  <2> QED
    BY <1>3, <2>1, <2>2 DEF EvInv, MarkedNotRead, Visiting
<1>4. MarkedNotRead'
  BY <1>2, <1>3 DEF MarkedNotRead
<1>5. MarkedAreClis' /\ PollsMatchClis'
  BY <1>1 DEF EvInv, PollsMatchClis, MarkedAreClis
<1>6. i' \in 0 .. Len(polls) + 1 /\ i' # 0
  BY <1>2, PollsAre DEF EvInv, EvTypeOK
<1> QED
  BY <1>2, <1>4, <1>5, <1>6

(* One marked client is deleted.                                           *)
LEMMA EraseKeeps ==
  ASSUME EvInv, NEW f \in Fd, eraseUnusedCli(f)
  PROVE  EvInv'
<1> DEFINE k == CHOOSE j \in DOMAIN polls : polls[j].fd = f
           n == Len(polls) - 1
           From(j) == IF j < k THEN j ELSE j + 1
<1>1. f \in clis /\ f # Listen
  BY EventLoopAssumption DEF eraseUnusedCli, Flushed, EvInv, MarkedAreClis
<1>2. \E j \in DOMAIN polls : polls[j].fd = f
  BY <1>1 DEF EvInv, PollsMatchClis
<1>3. k \in DOMAIN polls /\ polls[k].fd = f
  BY <1>2
<1>4. k \in 1 .. Len(polls) /\ Len(polls) \in Nat /\ DOMAIN polls = 1 .. Len(polls)
  BY <1>3, PollsAre DEF EvInv, EvTypeOK
<1>5. polls' = [j \in 1 .. n |-> polls[From(j)]]
  BY <1>2 DEF eraseUnusedCli, Remaining
<1> HIDE DEF k
<1>6. n \in Nat /\ \A j \in 1 .. n : From(j) \in DOMAIN polls /\ From(j) # k
  BY <1>4
<1>7. \A j \in DOMAIN polls : j # k => \E m \in 1 .. n : From(m) = j
  <2> SUFFICES ASSUME NEW j \in DOMAIN polls, j # k
               PROVE  \E m \in 1 .. n : From(m) = j
    OBVIOUS
  <2>1. CASE j < k
    BY <1>4, <2>1
  <2>2. CASE j > k
    <3>1. j - 1 \in 1 .. n /\ From(j - 1) = j
      BY <1>4, <2>2
    <3> QED
      BY <3>1
  <2> QED
    BY <1>4, <2>1, <2>2
<1>8. polls' \in Seq(Poll) /\ Len(polls') = n /\ DOMAIN polls' = 1 .. n
  <2>1. \A j \in 1 .. n : polls[From(j)] \in Poll
    BY <1>6, PollsAre DEF EvInv, EvTypeOK
  <2>2. polls' \in [1 .. n -> Poll]
    BY <1>5, <2>1
  <2> QED
    BY <1>6, <2>2, SeqIs
<1>9. \A j \in DOMAIN polls' : polls'[j] = polls[From(j)]
  BY <1>5, <1>8
<1>10. PollsMatchClis'
  <2>1. {polls'[j].fd : j \in DOMAIN polls'} = clis' \cup {Listen}
    <3>1. \A x : x \in clis' \cup {Listen} <=> x \in {polls[j].fd : j \in DOMAIN polls} /\ x # f
      BY <1>1 DEF eraseUnusedCli, EvInv, PollsMatchClis
    <3>2. \A j \in DOMAIN polls : polls[j].fd = f <=> j = k
      BY <1>3 DEF EvInv, PollsMatchClis
    <3>3. ASSUME NEW j \in DOMAIN polls'
          PROVE  polls'[j].fd \in clis' \cup {Listen}
      BY <1>6, <1>8, <1>9, <3>1, <3>2
    <3>4. ASSUME NEW x \in clis' \cup {Listen}
          PROVE  \E j \in DOMAIN polls' : polls'[j].fd = x
      <4>1. PICK j \in DOMAIN polls : polls[j].fd = x /\ j # k
        BY <3>1, <3>2
      <4>2. PICK m \in 1 .. n : From(m) = j
        BY <1>7, <4>1
      <4> QED
        BY <1>8, <1>9, <4>1, <4>2
    <3> QED
      BY <3>3, <3>4
  <2>2. ASSUME NEW j \in DOMAIN polls', NEW m \in DOMAIN polls', polls'[j].fd = polls'[m].fd
        PROVE  j = m
    <3>1. From(j) = From(m)
      BY <1>6, <1>8, <1>9, <2>2 DEF EvInv, PollsMatchClis
    <3> QED
      BY <1>4, <1>8, <3>1
  <2>3. polls'[1].fd = Listen
    <3>1. k # 1 /\ polls[1].fd = Listen
      BY <1>1, <1>3 DEF EvInv, PollsMatchClis
    <3>2. 1 \in 1 .. n /\ From(1) = 1
      BY <1>4, <3>1
    <3> QED
      BY <1>8, <1>9, <3>1, <3>2
  <2> QED
    BY <2>1, <2>2, <2>3 DEF PollsMatchClis
<1>11. EvTypeOK'
  <2>1. KernelOK'
    <3>1. KernelOK
      BY DEF EvInv, EvTypeOK, KernelOK
    <3> QED
      BY <3>1, EventLoopAssumption DEF eraseUnusedCli, KernelOK
  <2>2. BuffersOK'
    BY UnitsAre DEF eraseUnusedCli, BuffersOK, EvInv, EvTypeOK
  <2>3. pc' = "top" /\ i' = 0 /\ cli' = None
    BY DEF eraseUnusedCli, EvInv, EvTypeOK
  <2>4. \A j \in DOMAIN polls' : polls'[j].fd = Listen => polls'[j].events = "IN"
    <3>1. \A j \in DOMAIN polls : polls[j].fd = Listen => polls[j].events = "IN"
      BY DEF EvInv, EvTypeOK
    <3> QED
      BY <1>6, <1>8, <1>9, <3>1
  <2>5. clis' \subseteq Fd /\ fdsToErase' \subseteq Fd
    BY DEF eraseUnusedCli, Unmark, EvInv, EvTypeOK
  <2> QED
    BY <1>6, <1>8, <2>1, <2>2, <2>3, <2>4, <2>5 DEF EvTypeOK, KernelOK, BuffersOK
<1>12. MarkedAreClis' /\ MarkedNotRead'
  BY DEF eraseUnusedCli, Unmark, EvInv, MarkedAreClis, MarkedNotRead
<1> QED
  BY <1>10, <1>11, <1>12 DEF EvInv

(* The pollfds get their events: every marked client that is left has      *)
(* output, and is waited on to be written to.                              *)
LEMMA MarkPollsKeeps ==
  ASSUME EvInv, markPollsToSendMsgsTo
  PROVE  EvInv'
<1>1. polls \in Seq(Poll) /\ Len(polls) \in Nat /\ DOMAIN polls = 1 .. Len(polls)
  BY PollsAre DEF EvInv, EvTypeOK
<1>2. ASSUME NEW q \in Poll
      PROVE  /\ [q EXCEPT !.revents = ""] \in Poll
             /\ [q EXCEPT !.revents = ""].fd = q.fd
             /\ [q EXCEPT !.revents = ""].events = q.events
             /\ [q EXCEPT !.revents = ""].revents = ""
             /\ [q EXCEPT !.events = "OUT"] \in Poll
             /\ [q EXCEPT !.events = "OUT"].fd = q.fd
             /\ [q EXCEPT !.events = "OUT"].events = "OUT"
  BY DEF Poll
<1> DEFINE spent == Spent(polls)
<1>3. /\ DOMAIN spent = DOMAIN polls
      /\ \A k \in DOMAIN polls : /\ spent[k] \in Poll
                                 /\ spent[k].fd = polls[k].fd
                                 /\ spent[k].events = polls[k].events
  BY <1>1, <1>2, PollsAre DEF Spent
<1>4. polls' = [k \in DOMAIN spent |->
                  IF spent[k].fd \in clis /\ bufToSend[spent[k].fd] # <<>>
                  THEN [spent[k] EXCEPT !.events = "OUT"] ELSE spent[k]]
  BY DEF markPollsToSendMsgsTo, markPolls
<1> HIDE DEF spent
<1>5. /\ DOMAIN polls' = DOMAIN polls
      /\ \A k \in DOMAIN polls :
           /\ polls'[k] \in Poll
           /\ polls'[k].fd = polls[k].fd
           /\ polls'[k].events = IF polls[k].fd \in clis /\ bufToSend[polls[k].fd] # <<>>
                                 THEN "OUT" ELSE polls[k].events
  <2>1. DOMAIN polls' = DOMAIN polls
    BY <1>3, <1>4
  <2>2. ASSUME NEW k \in DOMAIN polls, polls[k].fd \in clis /\ bufToSend[polls[k].fd] # <<>>
        PROVE  polls'[k] \in Poll /\ polls'[k].fd = polls[k].fd /\ polls'[k].events = "OUT"
    <3>1. polls'[k] = [spent[k] EXCEPT !.events = "OUT"]
      BY <1>3, <1>4, <2>2
    <3>2. spent[k] \in Poll /\ spent[k].fd = polls[k].fd
      BY <1>3
    <3> QED
      BY <3>1, <3>2, EventsOnly
  <2>3. ASSUME NEW k \in DOMAIN polls, ~(polls[k].fd \in clis /\ bufToSend[polls[k].fd] # <<>>)
        PROVE  polls'[k] = spent[k]
    BY <1>3, <1>4, <2>3
  <2> QED
    BY <1>3, <2>1, <2>2, <2>3
<1>6. polls' \in Seq(Poll)
  <2>1. polls' \in [1 .. Len(polls) -> Poll]
    BY <1>1, <1>4, <1>3, <1>5
  <2> QED
    BY <1>1, <2>1, SeqIs
<1>7. UNCHANGED <<i, cli, clis, fdsToErase, bufToSend, made, seen, kernel>> /\ pc = "top" /\ pc' = "poll"
  BY DEF markPollsToSendMsgsTo
<1>8. PollsMatchClis' /\ Len(polls') = Len(polls)
  BY <1>5, <1>6, <1>7, SamePolls
<1>9. \A k \in DOMAIN polls' : polls'[k].fd = Listen => polls'[k].events = "IN"
  BY <1>5, EventLoopAssumption DEF EvInv, EvTypeOK
<1>10. EvTypeOK'
  BY <1>6, <1>7, <1>8, <1>9 DEF EvInv, EvTypeOK, kernel
<1>11. \A k \in DOMAIN polls' : polls'[k].fd \in fdsToErase' => polls'[k].events = "OUT"
  BY <1>5, <1>7 DEF markPollsToSendMsgsTo, Flushed, EvInv, MarkedAreClis
<1> QED
  BY <1>7, <1>8, <1>10, <1>11 DEF EvInv, MarkedAreClis, MarkedNotRead

(* What poll() reports of a descriptor that is waited on to be written to  *)
(* is not that it can be read.                                             *)
LEMMA ReadyType ==
  ASSUME NEW q \in Poll, q.fd = Listen => q.events = "IN"
  PROVE  Ready(q) \in {"", "IN", "OUT"} /\ (q.events = "OUT" => Ready(q) # "IN")
<1>1. q.events \in {"IN", "OUT"}
  BY DEF Poll
<1>2. CASE q.fd = Listen
  BY <1>2 DEF Ready
<1>3. CASE q.fd # Listen /\ q.events = "IN"
  BY <1>3 DEF Ready
<1>4. CASE q.fd # Listen /\ q.events = "OUT"
  BY <1>4 DEF Ready
<1> QED
  BY <1>1, <1>2, <1>3, <1>4

LEMMA PollKeeps ==
  ASSUME EvInv, poll
  PROVE  EvInv'
<1> DEFINE found == [k \in DOMAIN polls |-> Ready(polls[k])]
<1>1. polls \in Seq(Poll) /\ Len(polls) \in Nat /\ DOMAIN polls = 1 .. Len(polls)
  BY PollsAre DEF EvInv, EvTypeOK
<1>2. polls' = [k \in DOMAIN polls |-> [polls[k] EXCEPT !.revents = found[k]]]
  BY DEF poll
<1>3. ASSUME NEW k \in DOMAIN polls
      PROVE  found[k] \in {"", "IN", "OUT"} /\ (polls[k].events = "OUT" => found[k] # "IN")
  <2>1. polls[k] \in Poll /\ (polls[k].fd = Listen => polls[k].events = "IN")
    BY <1>1, PollElement DEF EvInv, EvTypeOK
  <2>2. found[k] = Ready(polls[k])
    OBVIOUS
  <2> HIDE DEF found
  <2> QED
    BY <2>1, <2>2, ReadyType
<1> HIDE DEF found
<1>4. \A k \in DOMAIN polls : polls[k] \in Poll /\ found[k] \in {"", "IN", "OUT"}
  BY <1>1, <1>3, PollElement
<1>5. /\ DOMAIN polls' = DOMAIN polls
      /\ \A k \in DOMAIN polls : /\ polls'[k] \in Poll
                                 /\ polls'[k].fd = polls[k].fd
                                 /\ polls'[k].events = polls[k].events
                                 /\ polls'[k].revents = found[k]
  <2>1. ASSUME NEW k \in DOMAIN polls
        PROVE  /\ polls'[k] \in Poll /\ polls'[k].fd = polls[k].fd
               /\ polls'[k].events = polls[k].events /\ polls'[k].revents = found[k]
    <3>1. polls'[k] = [polls[k] EXCEPT !.revents = found[k]]
      BY <1>2
    <3>2. PICK q \in Poll, r \in {"", "IN", "OUT"} : q = polls[k] /\ r = found[k]
      BY <1>4
    <3>3. polls'[k] = [q EXCEPT !.revents = r]
      BY <3>1, <3>2
    <3>4. PICK p : p = polls'[k]
      OBVIOUS
    <3>5. p = [q EXCEPT !.revents = r]
      BY <3>3, <3>4
    <3>6. p \in Poll /\ p.fd = q.fd /\ p.events = q.events /\ p.revents = r
      BY <3>5, ReventsOnly
    <3> QED
      BY <3>2, <3>4, <3>6
  <2> QED
    BY <1>2, <2>1
<1>6. polls' \in Seq(Poll)
  <2>1. polls' \in [1 .. Len(polls) -> Poll]
    BY <1>1, <1>2, <1>5
  <2> QED
    BY <1>1, <2>1, SeqIs
<1>7. /\ UNCHANGED <<cli, clis, fdsToErase, bufToSend, made, seen, kernel>>
      /\ pc = "poll" /\ i = 0 /\ cli = None
  BY DEF poll, EvInv, EvTypeOK
<1>8. PollsMatchClis' /\ Len(polls') = Len(polls)
  BY <1>5, <1>6, <1>7, SamePolls
<1>9. \/ pc' = "visit" /\ i' = 1
      \/ pc' = "top" /\ i' = 0
  BY <1>7 DEF poll
<1>10. EvTypeOK'
  <2>1. \A k \in DOMAIN polls' : polls'[k].fd = Listen => polls'[k].events = "IN"
    BY <1>5 DEF EvInv, EvTypeOK
  <2>2. i' \in 0 .. Len(polls') + 1 /\ pc' \in {"top", "poll", "visit"} /\ (pc' = "visit" <=> i' # 0)
    BY <1>1, <1>8, <1>9
  <2> QED
    BY <1>6, <1>7, <2>1, <2>2 DEF EvInv, EvTypeOK, kernel
<1>11. MarkedNotRead'
  <2>1. ASSUME NEW k \in DOMAIN polls, polls'[k].revents = "IN"
        PROVE  polls'[k].fd \notin fdsToErase'
    BY <1>3, <1>5, <1>7, <2>1 DEF EvInv, MarkedNotRead
  <2> QED
    BY <1>5, <1>9, <2>1 DEF MarkedNotRead
<1> QED
  BY <1>7, <1>8, <1>10, <1>11 DEF EvInv, MarkedAreClis

(* The visits that change neither pollfds nor clients.                     *)
LEMMA SkipKeeps ==
  ASSUME EvInv, skip
  PROVE  EvInv'
<1>1. i <= Len(polls) /\ polls[i].revents = "" /\ pc = "visit"
  BY DEF skip, Visiting
<1>2. UNCHANGED <<pc, polls, cli, clis, fdsToErase, bufToSend, made, seen, kernel>> /\ i' = i + 1
  BY DEF skip, Advance
<1>3. i' \in 0 .. Len(polls) + 1 /\ i' # 0
  BY <1>1, <1>2, IndexIs
<1>4. EvTypeOK'
  BY <1>1, <1>2, <1>3 DEF EvInv, EvTypeOK, kernel
<1>5. MarkedNotRead'
  <2>1. \A k \in DOMAIN polls : k >= i + 1 => k >= i
    BY <1>1, IndexIs
  <2> QED
    BY <1>1, <1>2, <2>1 DEF EvInv, MarkedNotRead
<1> QED
  BY <1>2, <1>4, <1>5 DEF EvInv, PollsMatchClis, MarkedAreClis

LEMMA EndPassKeeps ==
  ASSUME EvInv, endPass
  PROVE  EvInv'
<1>1. /\ pc' = "top" /\ i' = 0 /\ cli' = None
      /\ UNCHANGED <<polls, clis, fdsToErase, bufToSend, made, seen, kernel>>
  BY DEF endPass
<1>2. EvTypeOK'
  BY <1>1, PollsAre DEF EvInv, EvTypeOK, kernel
<1> QED
  BY <1>1, <1>2 DEF EvInv, PollsMatchClis, MarkedAreClis, MarkedNotRead

LEMMA ReceiveKeeps ==
  ASSUME EvInv, NEW c \in Fd, receiveBuf(c) \/ receiveEnd(c) \/ receiveError(c)
  PROVE  EvInv'
<1>1. Visiting(c, "IN") /\ Advance /\ UNCHANGED <<polls, clis>> /\ cli' = c /\ c \in clis
  BY VisitedIsCli DEF receiveBuf, receiveEnd, receiveError
<1>2. fdsToErase' \in {fdsToErase, fdsToErase \cup {c}}
  BY DEF receiveBuf, receiveEnd, receiveError, MarkGone
<1>3. /\ PollsMatchClis' /\ MarkedAreClis' /\ MarkedNotRead'
      /\ pc' = "visit" /\ i' \in 0 .. Len(polls) + 1 /\ i' # 0
  BY <1>1, <1>2, VisitKeeps
<1>4. KernelOK /\ BuffersOK
  BY DEF EvInv, EvTypeOK, KernelOK, BuffersOK
<1>5. KernelOK' /\ BuffersOK'
  <2>1. CASE receiveBuf(c)
    <3>1. KernelOK'
      BY <1>4, <2>1, EventLoopAssumption DEF receiveBuf, KernelOK
    <3>2. PICK to : Queue(to)
      BY <2>1 DEF receiveBuf
    <3>3. \A f \in Fd : Append(bufToSend[f], made[f]) \in Seq(0 .. Units - 1)
      BY <1>4 DEF BuffersOK
    <3>4. \A m \in 0 .. Units - 1 : (m + 1) % Units \in 0 .. Units - 1
      BY UnitsAre
    <3>5. bufToSend' \in [Fd -> Seq(0 .. Units - 1)]
      BY <1>4, <3>2, <3>3 DEF Queue, BuffersOK
    <3>6. made' \in [Fd -> 0 .. Units - 1]
      BY <1>4, <3>2, <3>4 DEF Queue, BuffersOK
    <3> QED
      BY <1>4, <2>1, <3>1, <3>5, <3>6 DEF receiveBuf, BuffersOK
  <2>2. CASE receiveEnd(c)
    BY <1>4, <2>2 DEF receiveEnd, kernel, KernelOK, BuffersOK
  <2>3. CASE receiveError(c)
    BY <1>4, <2>3 DEF receiveError, KernelOK, BuffersOK
  <2> QED
    BY <2>1, <2>2, <2>3
<1>6. EvTypeOK'
  BY <1>1, <1>2, <1>3, <1>5 DEF EvInv, EvTypeOK, KernelOK, BuffersOK
<1> QED
  BY <1>3, <1>6 DEF EvInv

(* A connection is accepted, or not: the pass is over.                     *)
LEMMA AcceptKeeps ==
  ASSUME EvInv, addNewClient
  PROVE  EvInv'
<1>1. pc' = "top" /\ i' = 0 /\ cli' = None /\ UNCHANGED <<fdsToErase, bufToSend, made, seen>>
  BY DEF addNewClient
<1>2. polls \in Seq(Poll) /\ Len(polls) \in Nat /\ DOMAIN polls = 1 .. Len(polls)
  BY PollsAre DEF EvInv, EvTypeOK
<1>3. CASE UNCHANGED <<polls, clis, peer, inbox, room, backlog>>
  <2>1. i' \in 0 .. Len(polls) + 1
    BY <1>1, <1>2
  <2>2. EvTypeOK'
    BY <1>1, <1>3, <2>1 DEF EvInv, EvTypeOK
  <2> QED
    BY <1>1, <1>3, <2>2 DEF EvInv, PollsMatchClis, MarkedAreClis, MarkedNotRead
<1>4. ASSUME backlog > 0, NEW f \in Fd \ clis, clis' = clis \cup {f},
             polls' = Append(polls, NewPoll(f)), peer' = [peer EXCEPT ![f] = "up"],
             backlog' = backlog - 1, UNCHANGED <<inbox, room>>
      PROVE  EvInv'
  <2>1. NewPoll(f) \in Poll /\ NewPoll(f).fd = f /\ NewPoll(f).events = "IN"
    BY DEF NewPoll, Poll
  <2> DEFINE q == NewPoll(f)
             n == Len(polls) + 1
  <2> HIDE DEF q
  <2>2. /\ polls' \in Seq(Poll) /\ Len(polls') = n /\ DOMAIN polls' = 1 .. n
        /\ polls'[n] = q
        /\ \A k \in DOMAIN polls : polls'[k] = polls[k]
    BY <1>2, <1>4, <2>1 DEF q
  <2>3. q.fd = f /\ q.events = "IN" /\ f # Listen
    BY <2>1, EventLoopAssumption DEF q
  <2>4. \A k \in DOMAIN polls' : k \in DOMAIN polls \/ k = n
    BY <1>2, <2>2
  <2>5. \A k \in DOMAIN polls : polls[k].fd \in clis \cup {Listen}
    BY DEF EvInv, PollsMatchClis
  <2>6. PollsMatchClis'
    <3>1. ASSUME NEW k \in DOMAIN polls'
          PROVE  polls'[k].fd \in clis' \cup {Listen}
      BY <1>4, <2>2, <2>3, <2>4, <2>5
    <3>2. ASSUME NEW x \in clis' \cup {Listen}
          PROVE  \E k \in DOMAIN polls' : polls'[k].fd = x
      <4>1. CASE x = f
        BY <1>2, <2>2, <2>3, <4>1
      <4>2. CASE x # f
        <5>1. PICK k \in DOMAIN polls : polls[k].fd = x
          BY <1>4, <4>2 DEF EvInv, PollsMatchClis
        <5>2. k \in DOMAIN polls'
          BY <1>2, <2>2
        <5> QED
          BY <2>2, <5>1, <5>2
      <4> QED
        BY <4>1, <4>2
    <3>3. ASSUME NEW j \in DOMAIN polls', NEW k \in DOMAIN polls', polls'[j].fd = polls'[k].fd
          PROVE  j = k
      BY <2>2, <2>3, <2>4, <2>5, <3>3 DEF EvInv, PollsMatchClis
    <3>4. polls'[1].fd = Listen
      <4>1. PICK k \in DOMAIN polls : polls[k].fd = Listen
        BY DEF EvInv, PollsMatchClis
      <4>2. 1 \in DOMAIN polls /\ polls[1].fd = Listen
        BY <1>2, <4>1 DEF EvInv, PollsMatchClis
      <4> QED
        BY <2>2, <4>2
    <3>5. {polls'[k].fd : k \in DOMAIN polls'} = clis' \cup {Listen}
      BY <3>1, <3>2
    <3> QED
      BY <3>3, <3>4, <3>5 DEF PollsMatchClis
  <2>7. EvTypeOK'
    <3>1. \A k \in DOMAIN polls' : polls'[k].fd = Listen => polls'[k].events = "IN"
      BY <2>2, <2>3, <2>4 DEF EvInv, EvTypeOK
    <3>2. clis' \subseteq Fd
      BY <1>4 DEF EvInv, EvTypeOK
    <3>3. KernelOK'
      BY <1>4, EventLoopAssumption DEF EvInv, EvTypeOK, KernelOK
    <3>4. i' \in 0 .. Len(polls') + 1
      BY <1>1, <1>2, <2>2
    <3> QED
      BY <1>1, <2>2, <3>1, <3>2, <3>3, <3>4 DEF EvInv, EvTypeOK, KernelOK
  <2> QED
    BY <1>1, <1>4, <2>6, <2>7 DEF EvInv, MarkedAreClis, MarkedNotRead
<1> QED
  BY <1>3, <1>4 DEF addNewClient

(* What is sent leaves the rest of the buffer, and perhaps changes what    *)
(* the client is waited on for.                                            *)
LEMMA SendKeeps ==
  ASSUME EvInv, NEW c \in Fd, sendUnits(c) \/ sendError(c)
  PROVE  EvInv'
<1>1. Visiting(c, "OUT") /\ Advance /\ UNCHANGED <<cli, clis, fdsToErase>>
  BY DEF sendUnits, sendError
<1>2. c \in clis /\ i \in DOMAIN polls /\ polls[i].fd = c /\ polls[i].revents = "OUT"
  BY <1>1, VisitedIsCli DEF Visiting
<1>3. /\ pc = "visit" /\ pc' = "visit" /\ i' = i + 1
      /\ i' \in 0 .. Len(polls) + 1 /\ i' # 0
      /\ \A k \in DOMAIN polls : k >= i + 1 => k >= i /\ k # i
  BY <1>1, IndexIs DEF Visiting, Advance
<1>4. UNCHANGED polls \/ AllSent
  BY DEF sendUnits, sendError
<1>5. /\ DOMAIN polls' = DOMAIN polls /\ polls' \in Seq(Poll)
      /\ \A k \in DOMAIN polls : /\ polls'[k].fd = polls[k].fd
                                 /\ polls'[k].revents = polls[k].revents
                                 /\ polls'[k].events \in {polls[k].events, "IN"}
  <2>1. polls \in Seq(Poll) /\ Len(polls) \in Nat /\ DOMAIN polls = 1 .. Len(polls)
    BY PollsAre DEF EvInv, EvTypeOK
  <2>2. CASE UNCHANGED polls
    BY <2>1, <2>2
  <2>3. CASE AllSent
    <3>1. PICK q \in Poll : q = polls[i]
      BY <1>2, <2>1, PollElement
    <3>2. PICK p : p = [q EXCEPT !.events = "IN"]
      OBVIOUS
    <3>3. p \in Poll /\ p.fd = q.fd /\ p.events = "IN" /\ p.revents = q.revents
      BY <3>2, EventsOnly
    <3>4. polls' = [polls EXCEPT ![i] = p]
      BY <2>3, <3>1, <3>2 DEF AllSent
    <3>5. polls' \in Seq(Poll) /\ DOMAIN polls' = DOMAIN polls
      BY <1>2, <2>1, <3>3, <3>4
    <3>6. \A k \in DOMAIN polls : polls'[k] = IF k = i THEN p ELSE polls[k]
      BY <3>4
    <3> QED
      BY <3>1, <3>3, <3>5, <3>6
  <2> QED
    BY <1>4, <2>2, <2>3
<1>6. PollsMatchClis' /\ Len(polls') = Len(polls)
  BY <1>1, <1>5, SamePolls
<1>7. KernelOK /\ BuffersOK
  BY DEF EvInv, EvTypeOK, KernelOK, BuffersOK
<1>8. KernelOK'
  BY <1>7 DEF sendUnits, sendError, KernelOK
<1>9. BuffersOK'
  <2>1. CASE sendError(c)
    BY <1>7, <2>1, UnitsAre DEF sendError, BuffersOK
  <2>2. CASE sendUnits(c)
    <3>1. PICK n \in 1 .. Len(bufToSend[c]) :
            /\ bufToSend' = [bufToSend EXCEPT ![c] = Unsent(c, n)]
            /\ \/ seen' = [seen EXCEPT ![c] = 0] /\ made' = [made EXCEPT ![c] = 0]
               \/ seen' = [seen EXCEPT ![c] = (@ + n) % Units] /\ UNCHANGED made
      BY <2>2 DEF sendUnits
    <3>2. Unsent(c, n) \in Seq(0 .. Units - 1)
      <4>1. bufToSend[c] \in Seq(0 .. Units - 1)
        BY <1>7 DEF BuffersOK
      <4> QED
        BY <4>1, Remainder DEF Unsent
    <3>3. \A m \in 0 .. Units - 1 : (m + n) % Units \in 0 .. Units - 1
      BY UnitsAre
    <3> QED
      BY <1>7, <3>1, <3>2, <3>3, UnitsAre DEF BuffersOK
  <2> QED
    BY <2>1, <2>2
<1>10. EvTypeOK'
  <2>1. \A k \in DOMAIN polls' : polls'[k].fd = Listen => polls'[k].events = "IN"
    BY <1>5 DEF EvInv, EvTypeOK
  <2> QED
    BY <1>1, <1>3, <1>5, <1>6, <1>8, <1>9, <2>1 DEF EvInv, EvTypeOK, KernelOK, BuffersOK
<1>11. MarkedNotRead'
  BY <1>1, <1>3, <1>5 DEF EvInv, MarkedNotRead
<1> QED
  BY <1>1, <1>6, <1>10, <1>11 DEF EvInv, MarkedAreClis
-----------------------------------------------------------------------------
LEMMA EvInvNext == EvInv /\ [Next]_vars => EvInv'
<1> SUFFICES ASSUME EvInv, [Next]_vars
             PROVE  EvInv'
  OBVIOUS
<1>1. CASE UNCHANGED vars
  BY <1>1 DEF vars, server, kernel, EvInv, EvTypeOK, PollsMatchClis, MarkedAreClis, MarkedNotRead
<1>2. CASE Environment
  BY <1>2, EnvironmentKeeps
<1>3. CASE Loop
  BY <1>3, EraseKeeps, MarkPollsKeeps, PollKeeps, SkipKeeps, EndPassKeeps, AcceptKeeps,
     ReceiveKeeps, SendKeeps DEF Loop
<1> QED
  BY <1>1, <1>2, <1>3 DEF Next

(* Every state of the loop is well formed (EvTypeOK).                      *)
THEOREM LoopTypeCorrect == Spec => []EvTypeOK
<1>1. EvInv => EvTypeOK
  BY DEF EvInv
<1> QED
  BY <1>1, EvInvInit, EvInvNext, PTL DEF Spec

(* The vector of pollfds and the map of clients list the same descriptors, *)
(* once each (PollsMatchClis): clis.at() does not throw.                   *)
THEOREM PollsAndClisAgree == Spec => []PollsMatchClis
<1>1. EvInv => PollsMatchClis
  BY DEF EvInv
<1> QED
  BY <1>1, EvInvInit, EvInvNext, PTL DEF Spec

(* A descriptor that is accepted again does not inherit a mark             *)
(* (MarkedAreClis).                                                        *)
THEOREM MarksAreOfClients == Spec => []MarkedAreClis
<1>1. EvInv => MarkedAreClis
  BY DEF EvInv
<1> QED
  BY <1>1, EvInvInit, EvInvNext, PTL DEF Spec
-----------------------------------------------------------------------------
(* Refinement: the loop, with its buffers and pollfds, implements the life *)
(* of a client (KeepsLife).  MarkedNotRead is what lets a read be a Serve. *)
THEOREM LoopKeepsLife == Spec => KeepsLife
<1>1. Init => Life!LifeInit
  BY DEF Init, Life!LifeInit
<1>2. EvInv /\ [Next]_vars => [Life!LifeNext]_Life!lifeVars
  <2> SUFFICES ASSUME EvInv, [Next]_vars
               PROVE  Life!LifeNext \/ UNCHANGED Life!lifeVars
    OBVIOUS
  <2>1. CASE Environment \/ UNCHANGED vars
    BY <2>1 DEF Environment, connect, abort, clientSends, clientCloses, connectionResets,
                clientReads, vars, server, Life!lifeVars
  <2>2. ASSUME NEW f \in Fd, eraseUnusedCli(f)
        PROVE  Life!Close({f})
    BY <2>2 DEF eraseUnusedCli, Flushed, Unmark, Life!Close
  <2>3. ASSUME markPollsToSendMsgsTo \/ skip
        PROVE  UNCHANGED Life!lifeVars
    BY <2>3 DEF markPollsToSendMsgsTo, skip, Advance, Life!lifeVars
  <2>4. ASSUME poll
        PROVE  Life!Close({})
    BY <2>4 DEF poll, Life!Close
  <2>5. ASSUME endPass
        PROVE  Life!EndPass
    BY <2>5 DEF endPass, Life!EndPass
  <2>6. ASSUME addNewClient
        PROVE  Life!EndPass \/ \E f \in Fd : Life!Accept(f)
    BY <2>6 DEF addNewClient, Visiting, Life!EndPass, Life!Accept
  <2>7. ASSUME NEW c \in Fd, receiveBuf(c) \/ receiveEnd(c) \/ receiveError(c)
        PROVE  Life!Serve(c)
    <3>1. Visiting(c, "IN")
      BY <2>7 DEF receiveBuf, receiveEnd, receiveError
    <3>2. pc = "visit" /\ c \in clis /\ i \in DOMAIN polls /\ polls[i].fd = c
          /\ polls[i].revents = "IN" /\ i >= i
      BY <3>1, VisitedIsCli DEF Visiting
    <3>3. c \notin fdsToErase
      BY <3>2 DEF EvInv, MarkedNotRead
    <3> QED
      BY <2>7, <3>2, <3>3 DEF receiveBuf, receiveEnd, receiveError, Advance, MarkGone, Life!Serve
  <2>8. ASSUME NEW c \in Fd, sendUnits(c) \/ sendError(c)
        PROVE  UNCHANGED Life!lifeVars
    BY <2>8 DEF sendUnits, sendError, Advance, Life!lifeVars
  <2> QED
    BY <2>1, <2>2, <2>3, <2>4, <2>5, <2>6, <2>7, <2>8 DEF Next, Loop, Life!LifeNext
<1> QED
  BY <1>1, <1>2, EvInvInit, EvInvNext, PTL DEF Spec, KeepsLife, Life!LifeSpec
-----------------------------------------------------------------------------
(* The numbers of the units: arithmetic modulo Units.                      *)
LEMMA DivMod ==
  ASSUME NEW a \in Int, NEW u \in Nat \ {0}
  PROVE  a = u * (a \div u) + (a % u) /\ a % u \in 0 .. u - 1 /\ a \div u \in Int
OBVIOUS

LEMMA SmallMultiple ==
  ASSUME NEW u \in Nat \ {0}, NEW z \in Int, u * z < u, u * z > -u
  PROVE  z = 0
<1>1. CASE z >= 1
  <2>1. u * z >= u * 1
    BY <1>1
  <2> QED
    BY <2>1
<1>2. CASE z <= -1
  <2>1. u * z <= u * (-1)
    BY <1>2
  <2> QED
    BY <2>1
<1> QED
  BY <1>1, <1>2

LEMMA UniqueRemainder ==
  ASSUME NEW u \in Nat \ {0}, NEW p \in Int, NEW q \in Int,
         NEW r \in 0 .. u - 1, NEW s \in 0 .. u - 1, u * p + r = u * q + s
  PROVE  r = s
<1>1. u * (p - q) = s - r
  <2>1. u * (p - q) = u * p - u * q
    OBVIOUS
  <2>2. u * p \in Int /\ u * q \in Int
    OBVIOUS
  <2> QED
    BY <2>1, <2>2
<1>2. s - r < u /\ s - r > -u
  OBVIOUS
<1>3. p - q = 0
  BY <1>1, <1>2, SmallMultiple
<1> QED
  BY <1>1, <1>3

LEMMA ModAdd ==
  ASSUME NEW a \in Nat, NEW b \in Nat, NEW u \in Nat \ {0}
  PROVE  ((a % u) + b) % u = (a + b) % u
<1> DEFINE x == a % u
           y == a \div u
<1>1. a = u * y + x /\ x \in 0 .. u - 1 /\ y \in Int
  BY DivMod
<1> HIDE DEF x, y
<1>2. x + b \in Int /\ a + b \in Int
  BY <1>1
<1> DEFINE c == (x + b) % u
           d == (x + b) \div u
           e == (a + b) % u
           f == (a + b) \div u
<1>3. x + b = u * d + c /\ c \in 0 .. u - 1 /\ d \in Int
  BY <1>2, DivMod
<1>4. a + b = u * f + e /\ e \in 0 .. u - 1 /\ f \in Int
  BY <1>2, DivMod
<1> HIDE DEF c, d, e, f
<1>5. u * f + e = u * (y + d) + c
  <2>1. u * (y + d) = u * y + u * d
    BY <1>1, <1>3
  <2>2. u * y \in Int /\ u * d \in Int /\ u * f \in Int
    BY <1>1, <1>3, <1>4
  <2> QED
    BY <1>1, <1>3, <1>4, <2>1, <2>2
<1>6. y + d \in Int
  BY <1>1, <1>3
<1>7. e = c
  BY <1>3, <1>4, <1>5, <1>6, UniqueRemainder
<1> QED
  BY <1>7 DEF e, c, x

LEMMA SmallMod ==
  ASSUME NEW u \in Nat \ {0}, NEW a \in 0 .. u - 1
  PROVE  (a + 0) % u = a
<1>1. a = u * (a \div u) + (a % u) /\ a % u \in 0 .. u - 1 /\ a \div u \in Int
  BY DivMod
<1>2. u * (a \div u) + (a % u) = u * 0 + a
  BY <1>1
<1>3. a % u = a
  BY <1>1, <1>2, UniqueRemainder
<1> QED
  BY <1>3

(* The buffer b holds the units from number `first` on, and the next unit  *)
(* is number `next`.                                                       *)
Numbered(b, first, next) ==
  /\ next = (first + Len(b)) % Units
  /\ \A k \in DOMAIN b : b[k] = (first + k - 1) % Units

OutputInv == \A f \in Fd : Numbered(bufToSend[f], seen[f], made[f])

LEMMA EmptyNumbered ==
  ASSUME NEW m \in 0 .. Units - 1
  PROVE  Numbered(<<>>, m, m)
BY UnitsAre, SmallMod DEF Numbered

LEMMA QueueNumbered ==
  ASSUME NEW b \in Seq(0 .. Units - 1), NEW first \in 0 .. Units - 1, NEW next \in 0 .. Units - 1,
         Numbered(b, first, next)
  PROVE  Numbered(Append(b, next), first, (next + 1) % Units)
<1> DEFINE c == Append(b, next)
<1>1. /\ Len(b) \in Nat /\ DOMAIN b = 1 .. Len(b)
      /\ Len(c) = Len(b) + 1 /\ DOMAIN c = 1 .. Len(b) + 1 /\ c[Len(b) + 1] = next
      /\ \A k \in 1 .. Len(b) : c[k] = b[k]
  OBVIOUS
<1> HIDE DEF c
<1>2. first + Len(b) \in Nat
  BY <1>1
<1>3. (next + 1) % Units = (first + Len(b) + 1) % Units
  <2>1. (((first + Len(b)) % Units) + 1) % Units = (first + Len(b) + 1) % Units
    BY <1>2, UnitsAre, ModAdd
  <2> QED
    BY <2>1 DEF Numbered
<1>4. first + Len(b) + 1 = first + Len(c)
  BY <1>1
<1>5. first + (Len(b) + 1) - 1 = first + Len(b)
  BY <1>1
<1>6. \A k \in DOMAIN c : c[k] = (first + k - 1) % Units
  <2> SUFFICES ASSUME NEW k \in DOMAIN c
               PROVE  c[k] = (first + k - 1) % Units
    OBVIOUS
  <2>1. CASE k = Len(b) + 1
    BY <1>1, <1>5, <2>1 DEF Numbered
  <2>2. CASE k \in 1 .. Len(b)
    BY <1>1, <2>2 DEF Numbered
  <2> QED
    BY <1>1, <2>1, <2>2
<1> QED
  BY <1>3, <1>4, <1>6 DEF Numbered, c

LEMMA SendNumbered ==
  ASSUME NEW b \in Seq(0 .. Units - 1), NEW first \in 0 .. Units - 1, NEW next \in 0 .. Units - 1,
         NEW n \in 1 .. Len(b), Numbered(b, first, next)
  PROVE  Numbered(SubSeq(b, n + 1, Len(b)), (first + n) % Units, next)
<1> DEFINE c == SubSeq(b, n + 1, Len(b))
           m == (first + n) % Units
<1>1. /\ Len(b) \in Nat /\ DOMAIN b = 1 .. Len(b) /\ c \in Seq(0 .. Units - 1)
      /\ Len(c) = Len(b) - n /\ \A k \in 1 .. Len(b) - n : c[k] = b[k + n]
  <2>1. Len(b) \in Nat /\ DOMAIN b = 1 .. Len(b)
    OBVIOUS
  <2>2. c \in Seq(0 .. Units - 1) /\ Len(c) = Len(b) - n
    BY Remainder, Zenon
  <2>3. \A k \in 1 .. Len(b) - n : c[k] = b[k + n]
    BY Remainder, Zenon
  <2> QED
    BY <2>1, <2>2, <2>3
<1> HIDE DEF c
<1>2. DOMAIN c = 1 .. Len(b) - n
  BY <1>1
<1>3. \A k \in Nat : (m + k) % Units = (first + n + k) % Units
  <2>1. first + n \in Nat
    BY UnitsAre
  <2> QED
    BY <2>1, UnitsAre, ModAdd
<1> HIDE DEF m
<1>4. next = (m + Len(c)) % Units
  <2>1. Len(c) \in Nat /\ first + n + Len(c) = first + Len(b)
    BY <1>1
  <2>2. (m + Len(c)) % Units = (first + n + Len(c)) % Units
    BY <1>3, <2>1
  <2> QED
    BY <2>1, <2>2 DEF Numbered
<1>5. ASSUME NEW k \in 1 .. Len(b) - n
      PROVE  c[k] = (m + k - 1) % Units
  <2>1. k - 1 \in Nat /\ k + n \in DOMAIN b
    BY <1>1
  <2>2. (m + (k - 1)) % Units = (first + n + (k - 1)) % Units
    BY <1>3, <2>1
  <2>3. first + n + (k - 1) = first + (k + n) - 1
    OBVIOUS
  <2>4. m \in Nat
    BY UnitsAre DEF m
  <2>5. m + (k - 1) = m + k - 1
    BY <2>4
  <2> QED
    BY <1>1, <2>1, <2>2, <2>3, <2>5 DEF Numbered
<1> QED
  BY <1>2, <1>4, <1>5 DEF Numbered, c, m

(* Every step keeps the numbering, for every descriptor.                   *)
LEMMA OutputNext ==
  ASSUME EvInv, OutputInv, [Next]_vars
  PROVE  OutputInv'
<1>1. BuffersOK
  BY DEF EvInv, EvTypeOK, BuffersOK
<1>2. CASE UNCHANGED <<bufToSend, made, seen>>
  BY <1>2 DEF OutputInv, Numbered
<1>3. ASSUME NEW c \in Fd, eraseUnusedCli(c) \/ sendError(c)
      PROVE  OutputInv'
  <2>1. bufToSend[c] = <<>> \/ bufToSend' = [bufToSend EXCEPT ![c] = <<>>]
    BY <1>3 DEF eraseUnusedCli, Flushed, EvInv, MarkedAreClis, sendError
  <2>2. \A f \in Fd : /\ bufToSend'[f] = IF f = c THEN <<>> ELSE bufToSend[f]
                      /\ seen'[f] = IF f = c THEN 0 ELSE seen[f]
                      /\ made'[f] = IF f = c THEN 0 ELSE made[f]
    BY <1>1, <1>3, <2>1 DEF eraseUnusedCli, sendError, BuffersOK
  <2>3. Numbered(<<>>, 0, 0)
    BY UnitsAre, EmptyNumbered
  <2> SUFFICES ASSUME NEW f \in Fd
               PROVE  Numbered(bufToSend'[f], seen'[f], made'[f])
    BY DEF OutputInv, Numbered
  <2> QED
    BY <2>2, <2>3 DEF OutputInv
<1>4. ASSUME NEW c \in Fd, sendUnits(c)
      PROVE  OutputInv'
  <2>1. PICK n \in 1 .. Len(bufToSend[c]) :
          /\ bufToSend' = [bufToSend EXCEPT ![c] = Unsent(c, n)]
          /\ \/ /\ n = Len(bufToSend[c])
                /\ seen' = [seen EXCEPT ![c] = 0] /\ made' = [made EXCEPT ![c] = 0]
             \/ seen' = [seen EXCEPT ![c] = (seen[c] + n) % Units] /\ UNCHANGED made
    BY <1>4 DEF sendUnits
  <2>2. bufToSend[c] \in Seq(0 .. Units - 1) /\ seen[c] \in 0 .. Units - 1 /\ made[c] \in 0 .. Units - 1
    BY <1>1 DEF BuffersOK
  <2>3. Numbered(Unsent(c, n), (seen[c] + n) % Units, made[c])
    BY <2>2, SendNumbered DEF OutputInv, Unsent
  <2>4. n = Len(bufToSend[c]) => Unsent(c, n) = <<>>
    BY <2>2 DEF Unsent
  <2>5. Numbered(<<>>, 0, 0)
    BY UnitsAre, EmptyNumbered
  <2>6. Numbered(bufToSend'[c], seen'[c], made'[c])
    <3>1. bufToSend'[c] = Unsent(c, n)
      BY <1>1, <2>1 DEF BuffersOK
    <3>2. CASE n = Len(bufToSend[c]) /\ seen' = [seen EXCEPT ![c] = 0] /\ made' = [made EXCEPT ![c] = 0]
      <4>1. seen'[c] = 0 /\ made'[c] = 0
        BY <1>1, <3>2 DEF BuffersOK
      <4> QED
        BY <2>4, <2>5, <3>1, <3>2, <4>1
    <3>3. CASE seen' = [seen EXCEPT ![c] = (seen[c] + n) % Units] /\ UNCHANGED made
      <4>1. seen'[c] = (seen[c] + n) % Units /\ made'[c] = made[c]
        BY <1>1, <3>3 DEF BuffersOK
      <4> QED
        BY <2>3, <3>1, <4>1
    <3> QED
      BY <2>1, <3>2, <3>3
  <2>7. ASSUME NEW f \in Fd, f # c
        PROVE  bufToSend'[f] = bufToSend[f] /\ seen'[f] = seen[f] /\ made'[f] = made[f]
    BY <1>1, <2>1, <2>7 DEF BuffersOK
  <2> SUFFICES ASSUME NEW f \in Fd
               PROVE  Numbered(bufToSend'[f], seen'[f], made'[f])
    BY DEF OutputInv, Numbered
  <2> QED
    BY <2>6, <2>7 DEF OutputInv
<1>5. ASSUME NEW c \in Fd, receiveBuf(c)
      PROVE  OutputInv'
  <2>1. PICK to : Queue(to)
    BY <1>5 DEF receiveBuf
  <2>2. seen' = seen
    BY <1>5 DEF receiveBuf
  <2> SUFFICES ASSUME NEW f \in Fd
               PROVE  Numbered(bufToSend'[f], seen'[f], made'[f])
    BY DEF OutputInv, Numbered
  <2>3. Numbered(bufToSend[f], seen[f], made[f])
    BY DEF OutputInv
  <2>4. CASE f \in to
    <3>1. bufToSend'[f] = Append(bufToSend[f], made[f]) /\ made'[f] = (made[f] + 1) % Units
      BY <2>1, <2>4 DEF Queue
    <3>2. bufToSend[f] \in Seq(0 .. Units - 1) /\ seen[f] \in 0 .. Units - 1 /\ made[f] \in 0 .. Units - 1
      BY <1>1 DEF BuffersOK
    <3>3. Numbered(Append(bufToSend[f], made[f]), seen[f], (made[f] + 1) % Units)
      BY <2>3, <3>2, QueueNumbered
    <3> QED
      BY <2>2, <3>1, <3>3
  <2>5. CASE f \notin to
    BY <2>1, <2>2, <2>3, <2>5 DEF Queue
  <2> QED
    BY <2>4, <2>5
<1>6. ASSUME \/ Environment \/ UNCHANGED vars \/ markPollsToSendMsgsTo \/ poll \/ skip
             \/ endPass \/ addNewClient \/ \E c \in Fd : receiveEnd(c) \/ receiveError(c)
      PROVE  UNCHANGED <<bufToSend, made, seen>>
  BY <1>6 DEF Environment, connect, abort, clientSends, clientCloses, connectionResets, clientReads,
              vars, server, markPollsToSendMsgsTo, poll, skip, endPass, addNewClient,
              receiveEnd, receiveError
<1> QED
  BY <1>2, <1>3, <1>4, <1>5, <1>6 DEF Next, Loop

LEMMA OutputInit == Init => OutputInv
<1>1. Numbered(<<>>, 0, 0)
  BY UnitsAre, EmptyNumbered
<1> QED
  BY <1>1 DEF Init, OutputInv

(* What a connection is given is what was queued for it, in order, nothing *)
(* lost and nothing twice (InOrder), for every size of the buffers and     *)
(* every way send() cuts them.                                             *)
THEOREM OutputIsInOrder == Spec => []InOrder
<1>1. EvInv /\ OutputInv => InOrder
  BY DEF EvInv, EvTypeOK, OutputInv, Numbered, InOrder
<1>2. EvInv /\ OutputInv /\ [Next]_vars => (EvInv /\ OutputInv)'
  BY EvInvNext, OutputNext
<1> QED
  BY <1>1, <1>2, EvInvInit, OutputInit, PTL DEF Spec

(* A client is deleted with its output flushed (FlushedWhenClosed).        *)
THEOREM DeletedIsFlushed == Spec => FlushedWhenClosed
<1> DEFINE Keeps == \A f \in clis \ clis' : bufToSend[f] = <<>> /\ seen[f] = made[f]
<1>1. EvInv /\ OutputInv /\ [Next]_vars => [Keeps]_vars
  <2> SUFFICES ASSUME EvInv, OutputInv, [Next]_vars, NEW f \in clis \ clis'
               PROVE  bufToSend[f] = <<>> /\ seen[f] = made[f]
    OBVIOUS
  <2>1. f \in Fd /\ BuffersOK
    BY DEF EvInv, EvTypeOK, BuffersOK
  <2>2. eraseUnusedCli(f)
    BY DEF Next, Loop, Environment, connect, abort, clientSends, clientCloses, connectionResets,
           clientReads, vars, server, markPollsToSendMsgsTo, poll, skip, endPass, addNewClient,
           receiveBuf, receiveEnd, receiveError, sendUnits, sendError, eraseUnusedCli
  <2>3. bufToSend[f] = <<>>
    BY <2>2 DEF eraseUnusedCli, Flushed, EvInv, MarkedAreClis
  <2>4. made[f] = (seen[f] + 0) % Units
    BY <2>1, <2>3 DEF OutputInv, Numbered
  <2>5. seen[f] \in 0 .. Units - 1
    BY <2>1 DEF BuffersOK
  <2> QED
    BY <2>3, <2>4, <2>5, UnitsAre, SmallMod
<1>2. EvInv /\ OutputInv /\ [Next]_vars => (EvInv /\ OutputInv)'
  BY EvInvNext, OutputNext
<1> QED
  BY <1>1, <1>2, EvInvInit, OutputInit, PTL DEF Spec, FlushedWhenClosed
=============================================================================
