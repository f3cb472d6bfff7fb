-------------------------- MODULE PortLeaseProofs ---------------------------
(***************************************************************************)
(* The port mapper implements the abstract lease, for every number of      *)
(* ports and services: each of its steps maps to one step of PortLease, or *)
(* to none.                                                                *)
(***************************************************************************)
EXTENDS PortMapperProofs

(* A lapse is never taken back. *)
LEMMA LapseGrows ==
  ASSUME [Next]_vars
  PROVE  lapse \subseteq lapse'
  BY DEF Next, fetch, close, request, operator, is_no_more_room, fetch_look,
     fetch_set_port, fetch_look_count, fetch_set_count, is_empty, close_look,
     close_set_port, close_look_count, close_set_count, join, leave, awkward_leave,
     awkward_leave_again, send_ports, no_ack, Deliver, forget, port_mapper_print,
     kill_port, Command, stop_mapper, exit_mapper, launch, vars

(* A step that touches neither the table nor what services hold is none of *)
(* the lease.                                                              *)
LEMMA LeaseQuiet ==
  ASSUME UNCHANGED <<port_arr, held>>, lapse = {}, lapse' = {}
  PROVE  UNCHANGED Lease!vars
  BY DEF Lease!vars, Kept, Allocated

(* Giving ports back, or losing them, keeps them booked. *)
LEMMA LeaseGiveBack ==
  ASSUME TypeOK, Exclusive, lapse = {}, lapse' = {}, port_arr' = port_arr,
         NEW s \in Services, NEW S \in SUBSET held[s],
         held' = [held EXCEPT ![s] = @ \ S]
  PROVE  Lease!Next
  <1>1. held \in [Services -> SUBSET Ports] /\ S \in SUBSET Ports
    BY DEF TypeOK
  <1>2. \A u \in Services : held'[u] = IF u = s THEN held[u] \ S ELSE held[u]
    BY <1>1
  <1>3. Allocated' = Allocated
    BY DEF Allocated
  <1>4. Kept' = Kept \cup S
    <2>1. \A p \in S : p \in Allocated /\ \A u \in Services : p \notin held'[u]
      BY <1>2 DEF Exclusive
    <2>2. \A p \in Ports : p \notin S =>
            ((\A u \in Services : p \notin held'[u]) <=> (\A u \in Services : p \notin held[u]))
      BY <1>2
    <2>3. QED
      BY <1>3, <2>1, <2>2 DEF Kept, Allocated
  <1>5. Lease!GiveBack(s, S)
    BY <1>4 DEF Lease!GiveBack
  <1>6. QED
    BY <1>1, <1>5 DEF Lease!Next

(* A step of the main thread books a free port, releases one it keeps, or  *)
(* is no step of the lease.                                                *)
LEMMA LeaseMainStep ==
  ASSUME TypeOK, FrameInv, BookingInv, fetch("main") \/ close("main"),
         lapse = {}, lapse' = {}
  PROVE  Lease!Next \/ UNCHANGED Lease!vars
  <1> DEFINE m == frame["main"]
  <1>0. /\ frame \in [Threads -> Frame] /\ m \in Frame /\ WellFormed(m)
        /\ port_arr \in [Ports -> {FREE, ALLOCATED}] /\ Exclusive
    BY DEF TypeOK, Threads, FrameInv, BookingInv
  <1>1. CASE fetch_set_port("main")
    <2> DEFINE p == m.cursor
    <2>1. p \in Ports
      BY <1>0, <1>1 DEF fetch_set_port, At, WellFormed, Taking
    <2>2. held' = held /\ port_arr' = [port_arr EXCEPT ![p] = ALLOCATED]
      BY <1>1 DEF fetch_set_port, serviceVars
    <2>3. Allocated' = Allocated \cup {p}
      BY <1>0, <2>1, <2>2 DEF Allocated
    <2>4. CASE p \in Allocated
      BY <2>2, <2>3, <2>4 DEF Lease!vars, Kept
    <2>5. CASE p \notin Allocated
      <3>1. \A s \in Services : p \notin held[s]
        BY <1>0, <2>5 DEF Exclusive
      <3>2. p \in Lease!Free
        BY <2>1, <2>5, <3>1 DEF Lease!Free, Kept
      <3>3. Kept' = Kept \cup {p}
        BY <2>2, <2>3, <3>1 DEF Kept
      <3>4. Lease!Book(p)
        BY <2>2, <3>2, <3>3 DEF Lease!Book
      <3>5. QED
        BY <2>1, <3>4 DEF Lease!Next
    <2>6. QED
      BY <2>4, <2>5
  <1>2. CASE close_set_port("main")
    <2> DEFINE p == Lowest(m.todo)
    <2>1. m.pc = "free" /\ m.todo # {} /\ m.todo \in SUBSET Ports
      BY <1>0, <1>2 DEF close_set_port, At, WellFormed, Freeing, Frame
    <2>2. p \in Ports /\ p \in m.todo
      BY <2>1, LowestInSet
    <2>3. held' = held /\ port_arr' = [port_arr EXCEPT ![p] = FREE]
      BY <1>2 DEF close_set_port, serviceVars
    <2>4. Allocated' = Allocated \ {p}
      BY <1>0, <2>2, <2>3 DEF Allocated, FREE, ALLOCATED
    <2>5. \A s \in Services : p \notin held[s]
      BY <2>1, <2>2 DEF BookingInv, Unheld, Closing
    <2>6. Kept' = Kept \ {p}
      BY <2>3, <2>4 DEF Kept
    <2>7. CASE p \in Allocated
      <3>1. Lease!Release(p)
        BY <2>3, <2>5, <2>6, <2>7 DEF Lease!Release, Kept
      <3>2. QED
        BY <2>2, <3>1 DEF Lease!Next
    <2>8. CASE p \notin Allocated
      BY <2>3, <2>4, <2>8 DEF Lease!vars, Kept
    <2>9. QED
      BY <2>7, <2>8
  <1>3. CASE UNCHANGED <<port_arr, held>>
    BY <1>3, LeaseQuiet
  <1>4. QED
    BY <1>1, <1>2, <1>3 DEF fetch, close, is_no_more_room, fetch_look,
       fetch_look_count, fetch_set_count, is_empty, close_look, close_look_count,
       close_set_count, serviceVars

(* Every step is a step of the lease or leaves it alone; a lapse voids it. *)
LEMMA LeaseStep ==
  ASSUME TypeOK, FrameInv, RoleInv, BookingInv, [Next]_vars
  PROVE  Lease!Next \/ UNCHANGED Lease!vars
  <1>1. CASE lapse' # {}
    <2>1. TypeOK'
      BY TypeStep
    <2>2. Kept' \in SUBSET Ports
      BY DEF Kept, Allocated
    <2>3. Lease!Void
      BY <1>1, <2>1, <2>2 DEF Lease!Void, TypeOK
    <2>4. QED
      BY <2>3 DEF Lease!Next
  <1>2. CASE lapse' = {}
    <2> DEFINE m == frame["main"]
    <2>0. lapse = {} /\ Exclusive /\ Threads = {"main", "input"}
          /\ held \in [Services -> SUBSET Ports] /\ ~OperatorWrote'
      BY <1>2, LapseGrows DEF BookingInv, Threads, TypeOK, OperatorWrote
    <2>1. CASE fetch("main") \/ close("main")
      BY <1>2, <2>0, <2>1, LeaseMainStep
    <2>2. CASE fetch("input") \/ close("input") \/ operator
      <3>1. UNCHANGED <<port_arr, held, lapse>>
        BY <2>0, <2>2, InputQuiet
      <3>2. QED
        BY <1>2, <2>0, <3>1, LeaseQuiet
    <2>3. ASSUME NEW s \in Services, join(s) \/ awkward_leave_again(s)
          PROVE  UNCHANGED <<port_arr, held>>
      BY <2>3 DEF join, awkward_leave_again, serviceVars
    <2>4. ASSUME NEW s \in Services, leave(s) \/ awkward_leave(s) \/ forget(s)
          PROVE  Lease!Next
      <3>1. port_arr' = port_arr
        BY <2>4 DEF leave, awkward_leave, forget
      <3>2. PICK S \in SUBSET held[s] : held' = [held EXCEPT ![s] = @ \ S]
        <4>1. CASE leave(s)
          BY <4>1 DEF leave
        <4>2. CASE forget(s)
          BY <4>2 DEF forget
        <4>3. CASE awkward_leave(s)
          <5>1. PICK p \in held[s] : held' = [held EXCEPT ![s] = @ \ {p}]
            BY <4>3 DEF awkward_leave
          <5>2. {p} \in SUBSET held[s]
            OBVIOUS
          <5>3. QED
            BY <5>1, <5>2
        <4>4. QED
          BY <2>4, <4>1, <4>2, <4>3
      <3>3. QED
        BY <1>2, <2>0, <3>1, <3>2, LeaseGiveBack
    <2>5. ASSUME NEW s \in Services, send_ports(s) \/ no_ack(s)
          PROVE  Lease!Next \/ UNCHANGED Lease!vars
      <3>1. m.pc = "send" /\ port_arr' = port_arr
        BY <2>5 DEF send_ports, no_ack, At
      <3>2. CASE held' = held
        BY <1>2, <2>0, <3>1, <3>2, LeaseQuiet
      <3>3. CASE Deliver(s)
        <4>1. ~Short(m) \/ m.arr = {}
          BY <1>2, <3>3 DEF Deliver
        <4>2. Unheld(m.arr) /\ m.arr \subseteq Allocated
          BY <2>0, <3>1, <4>1 DEF BookingInv, Pending, Unheld, Marked
        <4>3. held' = [held EXCEPT ![s] = @ \cup m.arr]
          BY <3>3 DEF Deliver
        <4>4. \A u \in Services : held'[u] = IF u = s THEN held[u] \cup m.arr ELSE held[u]
          BY <2>0, <4>3
        <4>5. m.arr \subseteq Kept /\ m.arr \in SUBSET Ports
          BY <4>2 DEF Kept, Unheld, Allocated
        <4>6. Allocated' = Allocated
          BY <3>1 DEF Allocated
        <4>7. Kept' = Kept \ m.arr
          BY <4>4, <4>6 DEF Kept
        <4>8. Lease!Lend(s, m.arr)
          BY <4>3, <4>5, <4>7 DEF Lease!Lend
        <4>9. QED
          BY <1>2, <2>0, <4>5, <4>8 DEF Lease!Next
      <3>4. QED
        BY <2>5, <3>2, <3>3 DEF send_ports, no_ack
    <2>6. CASE exit_mapper \/ launch \/ UNCHANGED vars
      <3>1. UNCHANGED <<port_arr, held>>
        BY <1>2, <2>6 DEF exit_mapper, launch, serviceVars, vars
      <3>2. QED
        BY <1>2, <2>0, <3>1, LeaseQuiet
    <2>7. QED
      BY <1>2, <2>0, <2>1, <2>2, <2>3, <2>4, <2>5, <2>6, LeaseQuiet DEF Next, request
  <1>3. QED
    BY <1>1, <1>2

(* For any number of ports and services the mapper implements the abstract *)
(* lease: a port that is lent was booked for its service first, and comes  *)
(* free only after that service has given it back or lost it.              *)
THEOREM MapperImplementsLease == Spec => ImplementsLease
  <1> DEFINE Inv == TypeOK /\ FrameInv /\ RoleInv /\ BookingInv
  <1>1. Init => Inv /\ Lease!Init
    <2>1. Init => BookingInv
      BY DEF Init, BookingInv, Exclusive, Pending, Closing, Taking, IdleFrame, Threads
    <2>2. Init => Lease!Init
      BY DEF Init, Lease!Init, Kept, Allocated, FREE, ALLOCATED
    <2>3. QED
      BY <2>1, <2>2, InitShape
  <1>2. Inv /\ [Next]_vars => Inv'
    BY TypeStep, FrameStep, RoleStep, BookingStep
  <1>3. Inv /\ [Next]_vars => [Lease!Next]_(Lease!vars)
    BY LeaseStep
  <1>4. QED
    BY <1>1, <1>2, <1>3, PTL DEF Spec, ImplementsLease, Lease!Spec

=============================================================================
