----------------------------- MODULE Lifecycle -----------------------------
(***************************************************************************)
(* What the main loop of ann/srcs promises about the life of a client,     *)
(* whatever the commands do and however input and output interleave:       *)
(*   - only a marked client is deleted, and only at the top of the loop;   *)
(*   - a mark is never taken back;                                         *)
(*   - a client that is marked when a pass ends is never served again;     *)
(*   - a descriptor that is accepted again starts unmarked.                *)
(* Clients.tla and EventLoop.tla both implement it: the first with every   *)
(* command of registration and no buffers, the second with the buffers,    *)
(* the pollfds and the sockets and no commands.                            *)
(***************************************************************************)
CONSTANTS Fd, None

VARIABLES phase, cli, clis, fdsToErase

lifeVars == <<phase, cli, clis, fdsToErase>>

LifeInit ==
  /\ phase = "erase"
  /\ cli = None
  /\ clis = {}
  /\ fdsToErase = {}

Accept(f) ==
  /\ phase = "serve"
  /\ f \in Fd \ clis
  /\ clis' = clis \cup {f}
  /\ phase' = "erase"
  /\ cli' = None
  /\ UNCHANGED fdsToErase

(* A client whose turn comes may be marked at once, by what it sent or by  *)
(* its absence, or later in its turn.                                      *)
Serve(c) ==
  /\ phase = "serve"
  /\ c \in clis \ fdsToErase
  /\ cli' \in {c, None}
  /\ fdsToErase' \in {fdsToErase, fdsToErase \cup {c}}
  /\ UNCHANGED <<phase, clis>>

MarkAuthor ==
  /\ phase = "serve" /\ cli # None
  /\ fdsToErase' = fdsToErase \cup {cli}
  /\ UNCHANGED <<phase, cli, clis>>

(* Some of the marked clients are deleted, and a pass begins or does not.  *)
Close(gone) ==
  /\ phase = "erase"
  /\ gone \subseteq fdsToErase
  /\ clis' = clis \ gone
  /\ fdsToErase' = fdsToErase \ gone
  /\ phase' \in {"erase", "serve"}
  /\ UNCHANGED cli

EndPass ==
  /\ phase = "serve"
  /\ phase' = "erase"
  /\ cli' = None
  /\ UNCHANGED <<clis, fdsToErase>>

LifeNext ==
  \/ \E f \in Fd : Accept(f) \/ Serve(f)
  \/ \E gone \in SUBSET Fd : Close(gone)
  \/ MarkAuthor
  \/ EndPass

LifeSpec == LifeInit /\ [][LifeNext]_lifeVars
=============================================================================
