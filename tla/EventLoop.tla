----------------------------- MODULE EventLoop -----------------------------
(***************************************************************************)
(* Server::run of ann/srcs: the vector of pollfds, the output buffers, and *)
(* the sockets behind them.                                                *)
(*                                                                         *)
(* Commands are abstracted to what they do to the loop: a buffer that is   *)
(* read may queue output for any clients, and may mark its author.  Output *)
(* is counted in units, numbered per client modulo Units, so that a unit   *)
(* lost, repeated or out of order shows.                                   *)
(*                                                                         *)
(* The environment is the clients and the kernel: connections that wait to *)
(* be accepted, input that waits to be read, room in the send buffer, and  *)
(* the state of each connection:                                           *)
(*   "none"   not connected          "up"     both ends are open           *)
(*   "fin"    the peer closed: recv() gives what is left, then 0           *)
(*   "reset"  the connection was reset: the next failing call reports it   *)
(*   "dead"   and it was reported: recv() gives 0, send() gives -1         *)
(* The last two are what Linux does (a send() of no bytes fails as well).  *)
(***************************************************************************)
EXTENDS Naturals, Sequences

CONSTANTS
  Fd,        \* the descriptors accept() can return: the limit of the process
  None,
  Listen,    \* fdForNewClis
  MaxIn,     \* bound: buffers a client has sent that are not read yet
  MaxOut,    \* bound: units of output queued for a client
  MaxConn    \* bound: connections that wait

ASSUME EventLoopAssumption ==
  /\ None \notin Fd /\ Listen \notin Fd
  /\ MaxIn \in Nat \ {0} /\ MaxOut \in Nat \ {0} /\ MaxConn \in Nat \ {0}

VARIABLES
  pc,          \* "top" of the loop, calling "poll", or "visit"ing polls[i]
  polls,       \* the pollfds
  i,           \* the iterator over polls
  cli,         \* the client read last in this pass
  clis,        \* the keys of map clis
  fdsToErase,  \* fdsToEraseNextIteration
  bufToSend,   \* the units queued for each client
  made,        \* history: the number of the next unit queued for a client
  seen,        \* history: the number of the next unit its kernel is given
  peer,        \* the state of each connection
  inbox,       \* buffers that wait to be read
  room,        \* whether the send buffer has room
  backlog      \* connections that wait to be accepted

server == <<pc, polls, i, cli, clis, fdsToErase, bufToSend, made, seen>>
kernel == <<peer, inbox, room, backlog>>
vars == <<server, kernel>>

Units == MaxOut + 1
Poll == [fd : Fd \cup {Listen}, events : {"IN", "OUT"}, revents : {"", "IN", "OUT"}]

EvTypeOK ==
  /\ pc \in {"top", "poll", "visit"}
  /\ polls \in Seq(Poll)
  /\ i \in 0 .. Len(polls) + 1
  /\ pc = "visit" <=> i # 0
  /\ \A k \in DOMAIN polls : polls[k].fd = Listen => polls[k].events = "IN"
  /\ cli \in clis \cup {None} /\ (pc # "visit" => cli = None)
  /\ clis \subseteq Fd /\ fdsToErase \subseteq Fd
  /\ bufToSend \in [Fd -> Seq(0 .. Units - 1)]
  /\ made \in [Fd -> 0 .. Units - 1] /\ seen \in [Fd -> 0 .. Units - 1]
  /\ peer \in [Fd -> {"none", "up", "fin", "reset", "dead"}]
  /\ inbox \in [Fd -> 0 .. MaxIn]
  /\ room \in [Fd -> BOOLEAN]
  /\ backlog \in 0 .. MaxConn

NewPoll(f) == [fd |-> f, events |-> "IN", revents |-> ""]

(* init() has opened the listening socket.                                 *)
Init ==
  /\ pc = "top"
  /\ polls = <<NewPoll(Listen)>>
  /\ i = 0 /\ cli = None
  /\ clis = {} /\ fdsToErase = {}
  /\ bufToSend = [f \in Fd |-> <<>>]
  /\ made = [f \in Fd |-> 0] /\ seen = [f \in Fd |-> 0]
  /\ peer = [f \in Fd |-> "none"]
  /\ inbox = [f \in Fd |-> 0]
  /\ room = [f \in Fd |-> TRUE]
  /\ backlog = 0
-----------------------------------------------------------------------------
(* The top of the loop.                                                    *)

(* Mutants of Flushed: a marked client goes whether it is flushed or not,  *)
(* or the test is inverted.                                                *)
AllMarked == fdsToErase
Unflushed == {f \in fdsToErase : f \in clis => bufToSend[f] # <<>>}

(* The marked descriptors eraseUnusedClis removes: those whose output is   *)
(* flushed, and those that are no client.                                  *)
Flushed == {f \in fdsToErase : f \in clis => bufToSend[f] = <<>>}

(* Mutant of Unmark: the descriptor stays marked.                          *)
StayMarked(f) == UNCHANGED fdsToErase

Unmark(f) == fdsToErase' = fdsToErase \ {f}

(* Mutant of Remaining: the pollfd is left.                                *)
RemainingAll(f) == polls

(* polls.erase(poll), for the first pollfd of f.                           *)
Remaining(f) ==
  LET k == CHOOSE j \in DOMAIN polls : polls[j].fd = f
  IN  IF \E j \in DOMAIN polls : polls[j].fd = f
      THEN [j \in 1 .. Len(polls) - 1 |-> polls[IF j < k THEN j ELSE j + 1]]
      ELSE polls

(* eraseUnusedClis, for one marked descriptor; close() ends the connection.*)
eraseUnusedCli(f) ==
  /\ pc = "top"
  /\ f \in Flushed
  /\ clis' = clis \ {f}
  /\ Unmark(f)
  /\ polls' = Remaining(f)
  /\ peer' = [peer EXCEPT ![f] = "none"]
  /\ inbox' = [inbox EXCEPT ![f] = 0]
  /\ room' = [room EXCEPT ![f] = TRUE]
  /\ made' = [made EXCEPT ![f] = 0]
  /\ seen' = [seen EXCEPT ![f] = 0]
  /\ UNCHANGED <<pc, i, cli, bufToSend, backlog>>

(* Mutants of markPolls: the descriptors are not compared, so the first    *)
(* pollfd is taken; or a client goes on being read while it has output,    *)
(* unless it was not marked.                                               *)
markFirst(ps) ==
  IF \E f \in clis : bufToSend[f] # <<>> THEN [ps EXCEPT ![1].events = "OUT"] ELSE ps

markUnmarked(ps) ==
  [k \in DOMAIN ps |->
     IF ps[k].fd \in clis \ fdsToErase /\ bufToSend[ps[k].fd] # <<>>
     THEN [ps[k] EXCEPT !.events = "OUT"] ELSE ps[k]]

(* markPollsToSendMsgsTo: a client with output is waited on to be written  *)
(* to, and no longer to be read.                                           *)
markPolls(ps) ==
  [k \in DOMAIN ps |->
     IF ps[k].fd \in clis /\ bufToSend[ps[k].fd] # <<>>
     THEN [ps[k] EXCEPT !.events = "OUT"] ELSE ps[k]]

(* The revents of the last poll() are not looked at any more.              *)
Spent(ps) == [k \in DOMAIN ps |-> [ps[k] EXCEPT !.revents = ""]]

(* No marked descriptor is left to remove: the others get their events.    *)
markPollsToSendMsgsTo ==
  /\ pc = "top"
  /\ Flushed = {}
  /\ polls' = markPolls(Spent(polls))
  /\ pc' = "poll"
  /\ UNCHANGED <<i, cli, clis, fdsToErase, bufToSend, made, seen, kernel>>

(* What the kernel finds for the pollfd q.                                 *)
Ready(q) ==
  CASE q.fd = Listen -> IF backlog > 0 THEN "IN" ELSE ""
    [] q.fd # Listen /\ q.events = "IN" ->
         IF inbox[q.fd] > 0 \/ peer[q.fd] # "up" THEN "IN" ELSE ""
    [] q.fd # Listen /\ q.events = "OUT" ->
         IF room[q.fd] \/ peer[q.fd] \in {"reset", "dead"} THEN "OUT" ELSE ""

(* poll(): it times out when nothing is ready.                             *)
poll ==
  /\ pc = "poll"
  /\ polls' = [k \in DOMAIN polls |-> [polls[k] EXCEPT !.revents = Ready(polls[k])]]
  /\ IF \E k \in DOMAIN polls' : polls'[k].revents # ""
     THEN pc' = "visit" /\ i' = 1
     ELSE pc' = "top" /\ UNCHANGED i
  /\ UNCHANGED <<cli, clis, fdsToErase, bufToSend, made, seen, kernel>>
-----------------------------------------------------------------------------
(* The visit of polls[i].                                                  *)

Visiting(fd, revents) ==
  pc = "visit" /\ i <= Len(polls) /\ polls[i].fd = fd /\ polls[i].revents = revents

Advance == i' = i + 1 /\ UNCHANGED pc

skip ==
  /\ \E fd \in Fd \cup {Listen} : Visiting(fd, "")
  /\ Advance
  /\ UNCHANGED <<polls, cli, clis, fdsToErase, bufToSend, made, seen, kernel>>

endPass ==
  /\ pc = "visit" /\ i > Len(polls)
  /\ pc' = "top" /\ i' = 0 /\ cli' = None
  /\ UNCHANGED <<polls, clis, fdsToErase, bufToSend, made, seen, kernel>>

(* addNewClient.  The loop over polls ends here, whether or not accept()   *)
(* succeeded: it fails when no descriptor is left and when the connection  *)
(* is gone.                                                                *)
addNewClient ==
  /\ Visiting(Listen, "IN")
  /\ pc' = "top" /\ i' = 0 /\ cli' = None
  /\ \/ /\ ~(backlog > 0 /\ Fd \ clis # {})
        /\ UNCHANGED <<polls, clis, peer, inbox, room, backlog>>
     \/ /\ backlog > 0
        /\ \E f \in Fd \ clis :
             /\ clis' = clis \cup {f}
             /\ polls' = Append(polls, NewPoll(f))
             /\ peer' = [peer EXCEPT ![f] = "up"]
        /\ backlog' = backlog - 1
        /\ UNCHANGED <<inbox, room>>
  /\ UNCHANGED <<fdsToErase, bufToSend, made, seen>>

(* prepareResp, for one unit to every client of `to`.                      *)
Queue(to) ==
  /\ bufToSend' = [f \in Fd |-> IF f \in to THEN Append(bufToSend[f], made[f]) ELSE bufToSend[f]]
  /\ made' = [f \in Fd |-> IF f \in to THEN (made[f] + 1) % Units ELSE made[f]]

(* receiveBufAndExecCmds: a buffer is read, and all its commands executed. *)
receiveBuf(c) ==
  /\ Visiting(c, "IN") /\ inbox[c] > 0
  /\ cli' = c
  /\ inbox' = [inbox EXCEPT ![c] = @ - 1]
  /\ \E to \in SUBSET {f \in clis : Len(bufToSend[f]) < MaxOut} : Queue(to)
  /\ fdsToErase' \in {fdsToErase, fdsToErase \cup {c}}
  /\ Advance
  /\ UNCHANGED <<polls, clis, seen, peer, room, backlog>>

(* Mutant of MarkGone: 0 is taken for an error like -1.                    *)
LeaveGone(c) == UNCHANGED fdsToErase

MarkGone(c) == fdsToErase' = fdsToErase \cup {c}

(* recv() returned 0: the client is gone.                                  *)
receiveEnd(c) ==
  /\ Visiting(c, "IN") /\ inbox[c] = 0 /\ peer[c] \in {"fin", "dead"}
  /\ cli' = c
  /\ MarkGone(c)
  /\ Advance
  /\ UNCHANGED <<polls, clis, bufToSend, made, seen, kernel>>

(* recv() returned -1: an error is printed.                                *)
receiveError(c) ==
  /\ Visiting(c, "IN") /\ inbox[c] = 0 /\ peer[c] = "reset"
  /\ cli' = c
  /\ peer' = [peer EXCEPT ![c] = "dead"]
  /\ Advance
  /\ UNCHANGED <<polls, clis, fdsToErase, bufToSend, made, seen, inbox, room, backlog>>

(* Mutant of Unsent: what send() did not take is dropped as well.          *)
UnsentDropped(c, n) == <<>>

(* What is left of the buffer of c when send() took n units.               *)
Unsent(c, n) == SubSeq(bufToSend[c], n + 1, Len(bufToSend[c]))

(* Mutant of AllSent: the client goes on being waited on to be written to. *)
AllSentUnmarked == UNCHANGED polls

AllSent == polls' = [polls EXCEPT ![i].events = "IN"]

(* sendPreparedResps, send() took n units.  Once everything is sent the    *)
(* client is waited on to be read again.                                   *)
sendUnits(c) ==
  /\ Visiting(c, "OUT") /\ peer[c] \in {"up", "fin"}
  /\ \E n \in 1 .. Len(bufToSend[c]) :
       /\ bufToSend' = [bufToSend EXCEPT ![c] = Unsent(c, n)]
       /\ IF n = Len(bufToSend[c])
          THEN /\ AllSent
               /\ seen' = [seen EXCEPT ![c] = 0] /\ made' = [made EXCEPT ![c] = 0]
               /\ \E b \in BOOLEAN : room' = [room EXCEPT ![c] = b]
          ELSE /\ seen' = [seen EXCEPT ![c] = (@ + n) % Units]
               /\ room' = [room EXCEPT ![c] = FALSE]
               /\ UNCHANGED <<polls, made>>
  /\ Advance
  /\ UNCHANGED <<cli, clis, fdsToErase, peer, inbox, backlog>>

(* sendPreparedResps, send() returned -1: erase(0, -1) empties the buffer, *)
(* and the client goes on being waited on to be written to.                *)
sendError(c) ==
  /\ Visiting(c, "OUT") /\ peer[c] \in {"reset", "dead"}
  /\ bufToSend' = [bufToSend EXCEPT ![c] = <<>>]
  /\ seen' = [seen EXCEPT ![c] = 0] /\ made' = [made EXCEPT ![c] = 0]
  /\ peer' = [peer EXCEPT ![c] = "dead"]
  /\ Advance
  /\ UNCHANGED <<polls, cli, clis, fdsToErase, inbox, room, backlog>>

(* One step of the thread.                                                 *)
Loop ==
  \/ \E f \in Fd : eraseUnusedCli(f)
  \/ markPollsToSendMsgsTo \/ poll \/ skip \/ endPass \/ addNewClient
  \/ \E c \in Fd : \/ receiveBuf(c) \/ receiveEnd(c) \/ receiveError(c)
                   \/ sendUnits(c) \/ sendError(c)
-----------------------------------------------------------------------------
(* The environment.                                                        *)

connect == backlog < MaxConn /\ backlog' = backlog + 1 /\ UNCHANGED <<server, peer, inbox, room>>

abort == backlog > 0 /\ backlog' = backlog - 1 /\ UNCHANGED <<server, peer, inbox, room>>

clientSends(c) ==
  /\ peer[c] = "up" /\ inbox[c] < MaxIn
  /\ inbox' = [inbox EXCEPT ![c] = @ + 1]
  /\ UNCHANGED <<server, peer, room, backlog>>

clientCloses(c) ==
  /\ peer[c] = "up"
  /\ peer' = [peer EXCEPT ![c] = "fin"]
  /\ UNCHANGED <<server, inbox, room, backlog>>

connectionResets(c) ==
  /\ peer[c] \in {"up", "fin"}
  /\ peer' = [peer EXCEPT ![c] = "reset"]
  /\ UNCHANGED <<server, inbox, room, backlog>>

clientReads(c) ==
  /\ peer[c] = "up" /\ ~room[c]
  /\ room' = [room EXCEPT ![c] = TRUE]
  /\ UNCHANGED <<server, peer, inbox, backlog>>

Environment ==
  \/ connect \/ abort
  \/ \E c \in Fd : clientSends(c) \/ clientCloses(c) \/ connectionResets(c) \/ clientReads(c)

Next == Loop \/ Environment

(* The thread is the only one, and poll() waits 100 ms at most: it never   *)
(* stops.  Nothing is assumed of the clients.                              *)
Spec == Init /\ [][Next]_vars /\ WF_vars(Loop)
-----------------------------------------------------------------------------
(* Properties.                                                             *)

(* The vector of pollfds and the map of clients list the same descriptors, *)
(* once each, the listening one first: clis.at(poll->fd) never throws.     *)
PollsMatchClis ==
  /\ {polls[k].fd : k \in DOMAIN polls} = clis \cup {Listen}
  /\ \A j, k \in DOMAIN polls : polls[j].fd = polls[k].fd => j = k
  /\ polls[1].fd = Listen

(* Only clients are marked: a descriptor that is accepted again does not   *)
(* inherit the mark of the one before it.                                  *)
MarkedAreClis == fdsToErase \subseteq clis

(* What a connection is given is what was queued for it, in order, nothing *)
(* lost and nothing twice, however little send() takes at a time.  What a  *)
(* send() that fails throws away does not count.                           *)
InOrder ==
  \A f \in clis : \A k \in DOMAIN bufToSend[f] :
    bufToSend[f][k] = (seen[f] + k - 1) % Units

(* A client is deleted with its output flushed, but for what a send() that *)
(* fails throws away.                                                      *)
FlushedWhenClosed ==
  [][\A f \in clis \ clis' : bufToSend[f] = <<>> /\ seen[f] = made[f]]_vars

(* The loop keeps the promises of Lifecycle.tla: it is pollfd by pollfd    *)
(* that a client which is marked when a pass ends is not read any more,    *)
(* since it is either deleted or waited on to be written to.               *)
Life == INSTANCE Lifecycle WITH phase <- IF pc = "visit" THEN "serve" ELSE "erase"
KeepsLife == Life!LifeSpec

(* What liveness asks of the others: connections stop waiting, the client  *)
(* keeps reading or is reset, and the commands of others stop queueing     *)
(* output for it.  Each is needed: a pass that begins with accept() visits *)
(* nobody else, and a client with output is not read.                      *)
NoPressure == <>[](backlog = 0)
Reads(f) == []<>(room[f] \/ peer[f] \in {"none", "reset", "dead"})
Quiet(f) == <>[][Len(bufToSend'[f]) <= Len(bufToSend[f])]_vars

(* A marked client is deleted in the end.                                  *)
MarkedIsClosed ==
  \A f \in Fd : NoPressure /\ Reads(f) /\ Quiet(f)
                 => (f \in fdsToErase ~> f \notin fdsToErase)

(* What a client sends is read in the end, while its connection holds.     *)
InputIsRead ==
  \A f \in Fd : NoPressure /\ Reads(f) /\ Quiet(f)
                 => (inbox[f] = MaxIn ~> inbox[f] < MaxIn \/ peer[f] \in {"reset", "dead"})

(* A client that disappears while nothing waits to be written to it is     *)
(* deleted in the end.                                                     *)
GoneIsClosed ==
  \A f \in Fd : NoPressure /\ [](peer[f] \notin {"none", "up"} => bufToSend[f] = <<>>)
                 => (peer[f] \notin {"none", "up"} ~> peer[f] = "none")

(* A client whose connection is reset is deleted in the end.               *)
ResetIsClosed ==
  \A f \in Fd : NoPressure /\ Quiet(f) => (peer[f] = "reset" ~> peer[f] = "none")
=============================================================================
