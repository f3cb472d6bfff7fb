----------------------------- MODULE PortLease ------------------------------
(***************************************************************************)
(* What the port mapper promises its services: a port is free, kept by the *)
(* mapper, or lent to one service, and it goes round in that order.  Only  *)
(* the mapper books a free port, it lends only what it keeps, a port that  *)
(* a service gives back (or loses) is kept until the mapper releases it.   *)
(* From the moment the promise is void nothing is said any more.           *)
(***************************************************************************)
CONSTANTS Ports, Services

VARIABLES
  lent,   \* lent[s]: the ports service s may use
  kept,   \* the ports booked in the mapper's table and with no service
  void    \* the promise was broken

vars == <<lent, kept, void>>

Free == {p \in Ports \ kept : \A s \in Services : p \notin lent[s]}

Init ==
  /\ lent = [s \in Services |-> {}]
  /\ kept = {}
  /\ void = FALSE

Book(p) ==
  /\ p \in Free
  /\ kept' = kept \cup {p}
  /\ UNCHANGED lent

Lend(s, S) ==
  /\ S \subseteq kept
  /\ kept' = kept \ S
  /\ lent' = [lent EXCEPT ![s] = @ \cup S]

GiveBack(s, S) ==
  /\ S \subseteq lent[s]
  /\ kept' = kept \cup S
  /\ lent' = [lent EXCEPT ![s] = @ \ S]

Release(p) ==
  /\ p \in kept
  /\ kept' = kept \ {p}
  /\ UNCHANGED lent

Void ==
  /\ void' = TRUE
  /\ kept' \in SUBSET Ports
  /\ lent' \in [Services -> SUBSET Ports]

Next ==
  \/ /\ ~void /\ UNCHANGED void
     /\ \/ \E p \in Ports : Book(p) \/ Release(p)
        \/ \E s \in Services, S \in SUBSET Ports : Lend(s, S) \/ GiveBack(s, S)
  \/ Void

Spec == Init /\ [][Next]_vars

=============================================================================
