----------------------------- MODULE Membership -----------------------------
(***************************************************************************)
(* What a server promises about its channels, whatever its data            *)
(* structures: somebody comes on a channel only while connected, and who   *)
(* disconnects is off every channel in that very step.  The servers of     *)
(* this repository are five programs for one subject and share no code;    *)
(* the models of ann/srcs, boris, mariia and ShibRC are shown to implement *)
(* this.  AhmedFatir's does not: its channels keep copies of who is gone.  *)
(***************************************************************************)
CONSTANTS
  Client,    \* the clients, each in its own server's terms
  Room       \* the channels

VARIABLES
  on,        \* the clients that are connected
  in         \* in[n]: the clients that are on channel n

vars == <<on, in>>

Init ==
  /\ on = {}
  /\ in = [n \in Room |-> {}]

(* A client is accepted.                                                   *)
Connect(c) ==
  /\ c \notin on
  /\ on' = on \cup {c}
  /\ UNCHANGED in

(* Clients are deleted, and with them every trace of them on a channel.    *)
Disconnect(S) ==
  /\ S # {} /\ S \subseteq on
  /\ on' = on \ S
  /\ in' = [n \in Room |-> in[n] \ S]

(* A connected client comes on a channel.                                  *)
Enter(c, n) ==
  /\ c \in on \ in[n]
  /\ in' = [in EXCEPT ![n] = @ \cup {c}]
  /\ UNCHANGED on

(* Members leave channels or are made to.                                  *)
Leave ==
  /\ in' \in [Room -> SUBSET Client]
  /\ in' # in /\ \A n \in Room : in'[n] \subseteq in[n]
  /\ UNCHANGED on

Next ==
  \/ \E c \in Client : Connect(c)
  \/ \E S \in SUBSET Client : Disconnect(S)
  \/ \E c \in Client, n \in Room : Enter(c, n)
  \/ Leave

Spec == Init /\ [][Next]_vars

(* Nobody is on a channel who is not connected.                            *)
Inside == \A n \in Room : in[n] \subseteq on
=============================================================================
