-------------------------- MODULE PortMapperProofs --------------------------
(***************************************************************************)
(* The port mapper's properties for every number of ports and services:    *)
(* IndInv is inductive, and the properties the runs check follow from it.  *)
(***************************************************************************)
EXTENDS PortMapper, FiniteSetTheorems, TLAPS

(* The number of ports is a positive uint16_t. *)
LEMMA NumPortsType ==
  /\ NumPorts \in Nat /\ NumPorts > 0
  /\ UintMod \in Nat /\ UintMod > 0 /\ NumPorts < UintMod
  BY PortMapperAssumption

(* Arithmetic on a uint16_t stays in it, and is exact while the result     *)
(* fits.                                                                   *)
LEMMA Uint16Mod ==
  ASSUME NEW k \in Int
  PROVE  k % UintMod \in Uint16
  BY NumPortsType DEF Uint16

(* One more and one less than a uint16_t, modulo 2^16, is a uint16_t. *)
LEMMA Uint16Wraps ==
  ASSUME NEW n \in Uint16
  PROVE  (n + 1) % UintMod \in Uint16 /\ (n - 1) % UintMod \in Uint16
  <1>1. n + 1 \in Int /\ n - 1 \in Int
    BY NumPortsType DEF Uint16
  <1>2. QED
    BY <1>1, Uint16Mod

(* A uint16_t is its own remainder. *)
LEMMA Uint16Exact ==
  ASSUME NEW n \in Uint16
  PROVE  n % UintMod = n
  BY NumPortsType DEF Uint16

(* The counter may start at zero. *)
LEMMA ZeroIsUint16 == 0 \in Uint16
  BY NumPortsType DEF Uint16

(* The scan's cursor is a port until it reaches the end of the table. *)
LEMMA CursorInPorts ==
  ASSUME NEW c \in 0 .. NumPorts, c # NumPorts
  PROVE  c \in Ports /\ c + 1 \in 0 .. NumPorts
  BY NumPortsType DEF Ports

(* The walk of close_ports visits a port of its array: the lowest port of  *)
(* a non-empty port_array exists.                                          *)
LEMMA LowestInSet ==
  ASSUME NEW S \in SUBSET Ports, S # {}
  PROVE  Lowest(S) \in S /\ Lowest(S) \in Ports
  <1>1. S \subseteq Nat
    BY NumPortsType DEF Ports
  <1>2. \E x \in S : \A y \in S : ~ (<<y, x>> \in OpToRel(<, Nat))
    BY <1>1, NatLessThanWellFounded, WFMin
  <1>3. PICK x \in S : \A y \in S : ~ (<<y, x>> \in OpToRel(<, Nat))
    BY <1>2
  <1>5. \A y \in S : ~(y < x)
    <2> SUFFICES ASSUME NEW y \in S, y < x PROVE FALSE
      OBVIOUS
    <2>1. <<y, x>> \in Nat \X Nat
      BY <1>1
    <2>2. <<y, x>> \in OpToRel(<, Nat)
      BY <2>1, Zenon DEF OpToRel
    <2>3. QED
      BY <2>2, <1>3
  <1>6. \E z \in S : \A y \in S : z <= y
    BY <1>1, <1>5
  <1>7. QED
    BY <1>6 DEF Lowest

(* The table has finitely many allocated ports, and the counter's type is  *)
(* wide enough for all of them.                                            *)
LEMMA AllocatedFinite ==
  ASSUME NEW a
  PROVE  LET A == {p \in Ports : a[p] = ALLOCATED} IN
         /\ IsFiniteSet(A)
         /\ Cardinality(A) \in 0 .. NumPorts
  <1> DEFINE A == {p \in Ports : a[p] = ALLOCATED}
  <1>1. IsFiniteSet(Ports) /\ Cardinality(Ports) = NumPorts
    BY FS_Interval, NumPortsType DEF Ports
  <1>2. A \in SUBSET Ports
    OBVIOUS
  <1>3. IsFiniteSet(A) /\ Cardinality(A) <= NumPorts
    BY <1>1, <1>2, FS_Subset
  <1>4. Cardinality(A) \in Nat
    BY <1>3, FS_CardinalityType
  <1> HIDE DEF A
  <1>5. Cardinality(A) \in 0 .. NumPorts
    BY <1>3, <1>4, NumPortsType
  <1>6. QED
    BY <1>3, <1>5 DEF A

(* Marking a free port adds one to the number of allocated ports. *)
LEMMA TakeOne ==
  ASSUME NEW a \in [Ports -> {FREE, ALLOCATED}], NEW q \in Ports, a[q] # ALLOCATED
  PROVE  Cardinality({p \in Ports : [a EXCEPT ![q] = ALLOCATED][p] = ALLOCATED})
           = Cardinality({p \in Ports : a[p] = ALLOCATED}) + 1
  <1> DEFINE A == {p \in Ports : a[p] = ALLOCATED}
             B == {p \in Ports : [a EXCEPT ![q] = ALLOCATED][p] = ALLOCATED}
  <1>1. B = A \cup {q} /\ q \notin A
    BY DEF FREE, ALLOCATED
  <1>2. IsFiniteSet(A)
    BY AllocatedFinite
  <1> HIDE DEF A, B
  <1>3. Cardinality(B) = Cardinality(A) + 1
    BY <1>1, <1>2, FS_AddElement
  <1>4. QED
    BY <1>3 DEF A, B

(* Freeing an allocated port takes one from it. *)
LEMMA FreeOne ==
  ASSUME NEW a \in [Ports -> {FREE, ALLOCATED}], NEW q \in Ports, a[q] = ALLOCATED
  PROVE  Cardinality({p \in Ports : [a EXCEPT ![q] = FREE][p] = ALLOCATED})
           = Cardinality({p \in Ports : a[p] = ALLOCATED}) - 1
  <1> DEFINE A == {p \in Ports : a[p] = ALLOCATED}
             B == {p \in Ports : [a EXCEPT ![q] = FREE][p] = ALLOCATED}
  <1>1. B = A \ {q} /\ q \in A
    BY DEF FREE, ALLOCATED
  <1>2. IsFiniteSet(A)
    BY AllocatedFinite
  <1> HIDE DEF A, B
  <1>3. Cardinality(B) = Cardinality(A) - 1
    BY <1>1, <1>2, FS_RemoveElement
  <1>4. QED
    BY <1>3 DEF A, B

-----------------------------------------------------------------------------
(* One disjunct per action, so that a proof by cases on a step names each. *)
LEMMA NextCases ==
  ASSUME [Next]_vars
  PROVE  \/ \E t \in Threads : is_no_more_room(t)
         \/ \E t \in Threads : fetch_look(t)
         \/ \E t \in Threads : fetch_set_port(t)
         \/ \E t \in Threads : fetch_look_count(t)
         \/ \E t \in Threads : fetch_set_count(t)
         \/ \E t \in Threads : is_empty(t)
         \/ \E t \in Threads : close_look(t)
         \/ \E t \in Threads : close_set_port(t)
         \/ \E t \in Threads : close_look_count(t)
         \/ \E t \in Threads : close_set_count(t)
         \/ \E s \in Services : join(s)
         \/ \E s \in Services : leave(s)
         \/ \E s \in Services : awkward_leave(s)
         \/ \E s \in Services : awkward_leave_again(s)
         \/ \E s \in Services : send_ports(s)
         \/ \E s \in Services : no_ack(s)
         \/ \E s \in Services : forget(s)
         \/ \E p \in Ports : kill_port(p)
         \/ port_mapper_print
         \/ stop_mapper
         \/ exit_mapper
         \/ launch
         \/ UNCHANGED vars
  BY DEF Next, fetch, close, request, operator

(* Only the acting thread's frame changes. *)
LEMMA BecomeFrame ==
  ASSUME frame \in [Threads -> Frame], NEW t \in Threads, NEW f \in Frame, Become(t, f)
  PROVE  /\ frame' \in [Threads -> Frame]
         /\ frame'[t] = f
         /\ \A u \in Threads : u # t => frame'[u] = frame[u]
  BY DEF Become

(* The frames the steps build are frames. *)
LEMMA IdleIsFrame == IdleFrame \in Frame
  BY NumPortsType, ZeroIsUint16 DEF IdleFrame, Frame, Steps, Jobs

(* What a fetch leaves behind is a frame. *)
LEMMA FetchDoneFrame ==
  ASSUME NEW f \in Frame
  PROVE  /\ FetchDone(f) \in Frame
         /\ FetchDone(f) = IdleFrame \/ FetchDone(f).pc \in {"empty", "send"}
  <1>1. 0 \in 0 .. NumPorts
    BY NumPortsType
  <1>2. CASE Short(f)
    BY <1>1, <1>2 DEF FetchDone, Frame, Steps
  <1>3. CASE ~Short(f) /\ f.job \in JoinJobs
    BY <1>1, <1>3 DEF FetchDone, Frame, Steps
  <1>4. CASE ~Short(f) /\ f.job \notin JoinJobs
    BY <1>4, IdleIsFrame DEF FetchDone
  <1>5. QED
    BY <1>2, <1>3, <1>4

(* What close_ports leaves behind is a frame. *)
LEMMA CloseDoneFrame ==
  ASSUME NEW f \in Frame
  PROVE  CloseDone(f) \in Frame
  BY IdleIsFrame DEF CloseDone, Frame, Steps

(* A step of the scan for free ports yields a frame. *)
LEMMA ScannedFrame ==
  ASSUME NEW f \in Frame
  PROVE  Scanned(f) \in Frame
  <1>1. CASE f.cursor = NumPorts
    BY <1>1, FetchDoneFrame DEF Scanned
  <1>2. CASE f.cursor # NumPorts
    <2>1. f.cursor \in 0 .. NumPorts
      BY DEF Frame
    <2>3. f.cursor + 1 \in 0 .. NumPorts /\ f.cursor \in Ports
      BY <1>2, <2>1, CursorInPorts
    <2>2. QED
      BY <1>2, <2>3, FetchDoneFrame DEF Scanned, Frame, Steps
  <1>3. QED
    BY <1>1, <1>2

(* A step of the walk of close_ports yields a frame. *)
LEMMA VisitedFrame ==
  ASSUME NEW f \in Frame
  PROVE  Visited(f) \in Frame
  BY CloseDoneFrame DEF Visited, Frame, Steps

-----------------------------------------------------------------------------
(* Every step keeps each variable in its C type. *)
LEMMA TypeStep ==
  ASSUME TypeOK, FrameInv, [Next]_vars
  PROVE  TypeOK'
  <1> USE IdleIsFrame
  <1>0. frame \in [Threads -> Frame] /\ {"main", "input"} \subseteq Threads
    BY DEF TypeOK, Threads
  <1>1. ASSUME NEW t \in Threads, is_no_more_room(t) PROVE TypeOK'
    <2>1. [frame[t] EXCEPT !.pc = "scan"] \in Frame
      BY <1>0 DEF Frame, Steps
    <2>2. frame' \in [Threads -> Frame]
      BY <1>0, <1>1, <2>1, FetchDoneFrame, BecomeFrame DEF is_no_more_room
    <2>3. QED
      BY <1>1, <2>2 DEF is_no_more_room, mapperVars, serviceVars, TypeOK
  <1>2. ASSUME NEW t \in Threads, fetch_look(t) PROVE TypeOK'
    <2>1. frame' \in [Threads -> Frame]
      BY <1>0, <1>2, ScannedFrame, BecomeFrame DEF fetch_look
    <2>2. QED
      BY <1>2, <2>1 DEF fetch_look, mapperVars, serviceVars, TypeOK
  <1>3. ASSUME NEW t \in Threads, fetch_set_port(t) PROVE TypeOK'
    <2>1. [frame[t] EXCEPT !.pc = "inc_look"] \in Frame
      BY <1>0 DEF Frame, Steps
    <2>2. frame' \in [Threads -> Frame]
      BY <1>0, <1>3, <2>1, BecomeFrame DEF fetch_set_port, Goto
    <2>3. port_arr' \in [Ports -> {FREE, ALLOCATED}]
      BY <1>3 DEF fetch_set_port, TypeOK
    <2>4. QED
      BY <1>3, <2>2, <2>3 DEF fetch_set_port, mapperVars, serviceVars, TypeOK
  <1>4. ASSUME NEW t \in Threads, fetch_look_count(t) PROVE TypeOK'
    <2>1. [frame[t] EXCEPT !.seen = curr_num_ports, !.pc = "inc_set"] \in Frame
      BY <1>0 DEF Frame, Steps, TypeOK
    <2>2. frame' \in [Threads -> Frame]
      BY <1>0, <1>4, <2>1, BecomeFrame DEF fetch_look_count
    <2>3. QED
      BY <1>4, <2>2 DEF fetch_look_count, mapperVars, serviceVars, TypeOK
  <1>5. ASSUME NEW t \in Threads, fetch_set_count(t) PROVE TypeOK'
    <2>1. frame[t].cursor + 1 \in 0 .. NumPorts
      <3>1. frame[t].cursor \in Ports
        BY <1>5 DEF fetch_set_count, At, FrameInv, WellFormed, Taking
      <3>2. QED
        BY <3>1, NumPortsType DEF Ports
    <2>2. 0 \in Uint16
      BY ZeroIsUint16
    <2>3. [frame[t] EXCEPT !.cursor = @ + 1, !.seen = 0, !.pc = "scan"] \in Frame
      BY <1>0, <2>1, <2>2 DEF Frame, Steps
    <2>4. frame' \in [Threads -> Frame]
      BY <1>0, <1>5, <2>3, BecomeFrame DEF fetch_set_count
    <2>5. frame[t].seen \in Uint16
      BY <1>0 DEF Frame
    <2>6. curr_num_ports' \in Uint16
      BY <1>5, <2>5, Uint16Wraps DEF fetch_set_count
    <2>7. QED
      BY <1>5, <2>4, <2>6 DEF fetch_set_count, mapperVars, serviceVars, TypeOK
  <1>6. ASSUME NEW t \in Threads, is_empty(t) PROVE TypeOK'
    <2>1. [frame[t] EXCEPT !.pc = "close"] \in Frame
      BY <1>0 DEF Frame, Steps
    <2>2. frame' \in [Threads -> Frame]
      BY <1>0, <1>6, <2>1, CloseDoneFrame, BecomeFrame DEF is_empty
    <2>3. QED
      BY <1>6, <2>2 DEF is_empty, mapperVars, serviceVars, TypeOK
  <1>7. ASSUME NEW t \in Threads, close_look(t) PROVE TypeOK'
    <2>1. frame' \in [Threads -> Frame]
      BY <1>0, <1>7, VisitedFrame, BecomeFrame DEF close_look
    <2>2. QED
      BY <1>7, <2>1 DEF close_look, mapperVars, serviceVars, TypeOK
  <1>8. ASSUME NEW t \in Threads, close_set_port(t) PROVE TypeOK'
    <2>1. [frame[t] EXCEPT !.pc = "dec_look"] \in Frame
      BY <1>0 DEF Frame, Steps
    <2>2. frame' \in [Threads -> Frame]
      BY <1>0, <1>8, <2>1, BecomeFrame DEF close_set_port, Goto
    <2>3. port_arr' \in [Ports -> {FREE, ALLOCATED}]
      BY <1>8 DEF close_set_port, TypeOK
    <2>4. lapse' \in SUBSET {"short", "twice", "print", "kill", "forgot"}
      BY <1>8 DEF close_set_port, TypeOK
    <2>5. QED
      BY <1>8, <2>2, <2>3, <2>4 DEF close_set_port, mapperVars, serviceVars, TypeOK
  <1>9. ASSUME NEW t \in Threads, close_look_count(t) PROVE TypeOK'
    <2>1. [frame[t] EXCEPT !.seen = curr_num_ports, !.pc = "dec_set"] \in Frame
      BY <1>0 DEF Frame, Steps, TypeOK
    <2>2. frame' \in [Threads -> Frame]
      BY <1>0, <1>9, <2>1, BecomeFrame DEF close_look_count
    <2>3. QED
      BY <1>9, <2>2 DEF close_look_count, mapperVars, serviceVars, TypeOK
  <1>10. ASSUME NEW t \in Threads, close_set_count(t) PROVE TypeOK'
    <2>1. 0 \in Uint16
      BY ZeroIsUint16
    <2>2. [frame[t] EXCEPT !.todo = @ \ {Lowest(frame[t].todo)}, !.seen = 0,
                           !.pc = "close"] \in Frame
      BY <1>0, <2>1 DEF Frame, Steps
    <2>3. frame' \in [Threads -> Frame]
      BY <1>0, <1>10, <2>2, BecomeFrame DEF close_set_count
    <2>4. frame[t].seen \in Uint16
      BY <1>0 DEF Frame
    <2>5. curr_num_ports' \in Uint16
      BY <1>10, <2>4, Uint16Wraps DEF close_set_count
    <2>6. QED
      BY <1>10, <2>3, <2>5 DEF close_set_count, mapperVars, serviceVars, TypeOK
  <1>11. ASSUME NEW s \in Services, join(s) PROVE TypeOK'
    <2>1. \A j \in JoinJobs :
            [IdleFrame EXCEPT !.pc = "room", !.job = j, !.client = s,
                              !.arr = {}, !.todo = {}] \in Frame
      BY DEF Frame, Steps, Jobs
    <2>2. frame' \in [Threads -> Frame]
      BY <1>0, <1>11, <2>1, BecomeFrame DEF join, Serve
    <2>3. QED
      BY <1>11, <2>2 DEF join, mapperVars, serviceVars, TypeOK
  <1>12. ASSUME NEW j \in LeaveJobs, NEW s \in Services, NEW S \in SUBSET Ports,
               Serve(s, j, S, "empty")
        PROVE frame' \in [Threads -> Frame]
    <2>1. [IdleFrame EXCEPT !.pc = "empty", !.job = j, !.client = s,
                            !.arr = S, !.todo = S] \in Frame
      BY DEF Frame, Steps, Jobs
    <2>2. QED
      BY <1>0, <1>12, <2>1, BecomeFrame DEF Serve
  <1>13. ASSUME NEW s \in Services, leave(s) PROVE TypeOK'
    <2>1. PICK S \in SUBSET held[s] : /\ Serve(s, "leave", S, "empty")
                                     /\ held' = [held EXCEPT ![s] = @ \ S]
      BY <1>13 DEF leave
    <2>2. held' \in [Services -> SUBSET Ports] /\ S \in SUBSET Ports
      BY <2>1 DEF TypeOK
    <2>3. frame' \in [Threads -> Frame]
      BY <1>12, <2>1, <2>2 DEF LeaveJobs
    <2>4. QED
      BY <1>13, <2>2, <2>3 DEF leave, mapperVars, TypeOK
  <1>14. ASSUME NEW s \in Services, awkward_leave(s) PROVE TypeOK'
    <2>1. PICK p \in held[s] : /\ Serve(s, "awkward_leave", {p}, "empty")
                              /\ held' = [held EXCEPT ![s] = @ \ {p}]
                              /\ again' \in {{}, {p}}
      BY <1>14 DEF awkward_leave
    <2>2. held' \in [Services -> SUBSET Ports] /\ {p} \in SUBSET Ports
      BY <2>1 DEF TypeOK
    <2>3. frame' \in [Threads -> Frame]
      BY <1>12, <2>1, <2>2 DEF LeaveJobs
    <2>4. again' \in SUBSET Ports
      BY <2>1, <2>2
    <2>5. QED
      BY <1>14, <2>2, <2>3, <2>4 DEF awkward_leave, mapperVars, TypeOK
  <1>15. ASSUME NEW s \in Services, awkward_leave_again(s) PROVE TypeOK'
    <2>1. PICK p \in again : Serve(s, "awkward_leave", {p}, "empty")
      BY <1>15 DEF awkward_leave_again
    <2>2. {p} \in SUBSET Ports
      BY <2>1 DEF TypeOK
    <2>3. frame' \in [Threads -> Frame]
      BY <1>12, <2>1, <2>2 DEF LeaveJobs
    <2>4. again' \in SUBSET Ports
          /\ lapse' \in SUBSET {"short", "twice", "print", "kill", "forgot"}
      BY <1>15 DEF awkward_leave_again, TypeOK
    <2>5. QED
      BY <1>15, <2>3, <2>4 DEF awkward_leave_again, mapperVars, TypeOK
  <1>16. ASSUME NEW s \in Services, Deliver(s)
        PROVE /\ held' \in [Services -> SUBSET Ports]
              /\ lapse' \in SUBSET {"short", "twice", "print", "kill", "forgot"}
    <2>1. frame["main"].arr \in SUBSET Ports
      BY <1>0 DEF Frame
    <2>2. QED
      BY <1>16, <2>1 DEF Deliver, TypeOK
  <1>17. ASSUME NEW s \in Services, send_ports(s) PROVE TypeOK'
    <2>1. frame' \in [Threads -> Frame]
      BY <1>0, <1>17, BecomeFrame DEF send_ports
    <2>2. QED
      BY <1>16, <1>17, <2>1 DEF send_ports, mapperVars, TypeOK
  <1>18. ASSUME NEW s \in Services, no_ack(s) PROVE TypeOK'
    <2>1. /\ held' \in [Services -> SUBSET Ports]
          /\ lapse' \in SUBSET {"short", "twice", "print", "kill", "forgot"}
      BY <1>16, <1>18 DEF no_ack, TypeOK
    <2>2. frame' \in [Threads -> Frame]
      BY <1>18 DEF no_ack
    <2>3. QED
      BY <1>18, <2>1, <2>2 DEF no_ack, TypeOK
  <1>19. ASSUME NEW s \in Services, forget(s) PROVE TypeOK'
    BY <1>19 DEF forget, mapperVars, TypeOK
  <1>20. ASSUME NEW p \in Ports, kill_port(p) PROVE TypeOK'
    <2>1. [IdleFrame EXCEPT !.pc = "empty", !.job = "kill", !.arr = {p}, !.todo = {p}]
            \in Frame
      BY DEF Frame, Steps, Jobs
    <2>2. frame' \in [Threads -> Frame]
      BY <1>0, <1>20, <2>1, BecomeFrame DEF kill_port, Command
    <2>3. QED
      BY <1>20, <2>2 DEF kill_port, Command, mapperVars, serviceVars, TypeOK
  <1>21. CASE port_mapper_print
    <2>1. [IdleFrame EXCEPT !.pc = "room", !.job = "print", !.arr = {}, !.todo = {}]
            \in Frame
      BY DEF Frame, Steps, Jobs
    <2>2. frame' \in [Threads -> Frame]
      BY <1>0, <1>21, <2>1, BecomeFrame DEF port_mapper_print, Command
    <2>3. QED
      BY <1>21, <2>2 DEF port_mapper_print, Command, mapperVars, serviceVars, TypeOK
  <1>22. CASE stop_mapper
    <2>1. [frame["input"] EXCEPT !.pc = "gone"] \in Frame
      BY <1>0 DEF Frame, Steps
    <2>2. frame' \in [Threads -> Frame]
      BY <1>0, <1>22, <2>1, BecomeFrame DEF stop_mapper, Goto
    <2>3. QED
      BY <1>22, <2>2 DEF stop_mapper, serviceVars, TypeOK
  <1>23. CASE exit_mapper
    <2>1. frame' \in [Threads -> Frame]
      BY <1>23 DEF exit_mapper
    <2>2. \/ file' = <<>>
          \/ \E a \in [Ports -> {FREE, ALLOCATED}], n \in Uint16 :
               file' = <<[arr |-> a, num |-> n]>>
      BY <1>23 DEF exit_mapper, save_port_mapper_file, TypeOK
    <2>3. QED
      BY <1>23, <2>1, <2>2 DEF exit_mapper, serviceVars, TypeOK
  <1>24. CASE launch
    <2>1. /\ port_arr' \in [Ports -> {FREE, ALLOCATED}]
          /\ curr_num_ports' \in Uint16
      <3>1. CASE UseFile /\ file # <<>>
        <4>1. PICK a \in [Ports -> {FREE, ALLOCATED}], n \in Uint16 :
                file = <<[arr |-> a, num |-> n]>>
          BY <3>1 DEF TypeOK
        <4>2. file[1].arr = a /\ file[1].num = n
          BY <4>1
        <4>3. QED
          BY <1>24, <3>1, <4>2 DEF launch, fetch_port_mapper_file
      <3>2. CASE ~(UseFile /\ file # <<>>)
        <4>1. 0 \in Uint16
          BY ZeroIsUint16
        <4>2. QED
          BY <1>24, <3>2, <4>1 DEF launch, fetch_port_mapper_file
      <3>3. QED
        BY <3>1, <3>2
    <2>2. QED
      BY <1>24, <2>1 DEF launch, serviceVars, TypeOK
  <1>25. CASE UNCHANGED vars
    BY <1>25 DEF vars, TypeOK
  <1>26. QED
    BY NextCases, <1>1, <1>2, <1>3, <1>4, <1>5, <1>6, <1>7, <1>8, <1>9, <1>10, <1>11,
       <1>13, <1>14, <1>15, <1>17, <1>18, <1>19, <1>20, <1>21, <1>22, <1>23, <1>24, <1>25

-----------------------------------------------------------------------------
(* The frames the steps build go with the step they leave the thread at,   *)
(* and a call never changes from one request or command to another.        *)
LEMMA FetchDoneWellFormed ==
  ASSUME NEW f \in Frame, WellFormed(f), f.pc \in {"room", "scan"}
  PROVE  /\ WellFormed(FetchDone(f))
         /\ FetchDone(f).job \in {f.job, "none"}
         /\ FetchDone(f).pc \in {"empty", "send", "idle"}
  <1>1. CASE Short(f)
    BY <1>1 DEF FetchDone, WellFormed, Taking, Freeing, Closing, Short, Frame
  <1>2. CASE ~Short(f) /\ f.job \in JoinJobs
    BY <1>2 DEF FetchDone, WellFormed, Taking, Freeing, Closing, Short, Frame, JoinJobs
  <1>3. CASE ~Short(f) /\ f.job \notin JoinJobs
    BY <1>3 DEF FetchDone, WellFormed, Taking, Freeing, Closing, Short, IdleFrame
  <1>4. QED
    BY <1>1, <1>2, <1>3

(* The end of close_ports leaves a well-formed frame. *)
LEMMA CloseDoneWellFormed ==
  ASSUME NEW f \in Frame, WellFormed(f), f.pc \in {"empty", "close"}
  PROVE  /\ WellFormed(CloseDone(f))
         /\ CloseDone(f).job \in {f.job, "none"}
         /\ CloseDone(f).pc \in {"send", "idle"}
  <1>1. CASE f.job \in JoinJobs
    BY <1>1 DEF CloseDone, WellFormed, Taking, Freeing, Closing, Short, Frame, JoinJobs
  <1>2. CASE f.job \notin JoinJobs
    BY <1>2 DEF CloseDone, WellFormed, Taking, Freeing, Closing, Short, IdleFrame
  <1>3. QED
    BY <1>1, <1>2

(* A step of the scan keeps the frame well formed. *)
LEMMA ScannedWellFormed ==
  ASSUME NEW f \in Frame, WellFormed(f), f.pc = "scan"
  PROVE  /\ WellFormed(Scanned(f))
         /\ Scanned(f).job \in {f.job, "none"}
         /\ Scanned(f).pc \in {"empty", "send", "idle", "scan", "take"}
  <1> DEFINE skip == [f EXCEPT !.cursor = @ + 1]
             take == [f EXCEPT !.arr = @ \cup {f.cursor}, !.pc = "take"]
             keep == [f EXCEPT !.arr = @ \cup {f.cursor}, !.cursor = @ + 1]
  <1>1. CASE f.cursor = NumPorts \/ Cardinality(f.arr) = Wanted(f.job)
    BY <1>1, FetchDoneWellFormed DEF Scanned
  <1>2. CASE ~(f.cursor = NumPorts \/ Cardinality(f.arr) = Wanted(f.job))
    <2>1. f.cursor \in 0 .. NumPorts
      BY DEF Frame
    <2>2. f.cursor \in Ports
      BY <1>2, <2>1, CursorInPorts
    <2>3. /\ WellFormed(skip) /\ skip.job = f.job /\ skip.pc = "scan"
      BY DEF WellFormed, Taking, Freeing, Closing, Short, Frame
    <2>4. /\ WellFormed(keep) /\ keep.job = f.job /\ keep.pc = "scan"
      BY DEF WellFormed, Taking, Freeing, Closing, Short, Frame, JoinJobs
    <2>5. f.job \in JoinJobs => WellFormed(take) /\ take.job = f.job /\ take.pc = "take"
      BY <2>2 DEF WellFormed, Taking, Freeing, Closing, Short, Frame, JoinJobs
    <2>6. Scanned(f) = skip \/ Scanned(f) = keep \/ (f.job \in JoinJobs /\ Scanned(f) = take)
      BY <1>2 DEF Scanned
    <2> HIDE DEF skip, take, keep
    <2>7. QED
      BY <2>3, <2>4, <2>5, <2>6
  <1>3. QED
    BY <1>1, <1>2

(* A step of the walk keeps the frame well formed. *)
LEMMA VisitedWellFormed ==
  ASSUME NEW f \in Frame, WellFormed(f), f.pc = "close"
  PROVE  /\ WellFormed(Visited(f))
         /\ Visited(f).job \in {f.job, "none"}
         /\ Visited(f).pc \in {"send", "idle", "close", "free"}
  <1> DEFINE free == [f EXCEPT !.pc = "free"]
             skip == [f EXCEPT !.todo = @ \ {Lowest(f.todo)}]
  <1>1. CASE f.todo = {}
    BY <1>1, CloseDoneWellFormed DEF Visited
  <1>2. CASE f.todo # {}
    <2>1. WellFormed(free) /\ free.job = f.job /\ free.pc = "free"
      BY <1>2 DEF WellFormed, Taking, Freeing, Closing, Short, Frame
    <2>2. WellFormed(skip) /\ skip.job = f.job /\ skip.pc = "close"
      BY <1>2 DEF WellFormed, Taking, Freeing, Closing, Short, Frame
    <2>3. Visited(f) = free \/ Visited(f) = skip
      BY <1>2 DEF Visited
    <2> HIDE DEF free, skip
    <2>4. QED
      BY <2>1, <2>2, <2>3
  <1>3. QED
    BY <1>1, <1>2

-----------------------------------------------------------------------------
(* A step of a call in thread t: t's frame becomes g, g is well formed, and *)
(* t is still in the same call or idle.                                    *)
Moves(t, g) ==
  /\ g \in Frame /\ WellFormed(g)
  /\ g.job \in {frame[t].job, "none"}
  /\ g.pc # "gone"
  /\ g.pc \in {"dec_look", "dec_set"} => frame[t].pc \in {"free", "dec_look"}

(* A step of fetch or close keeps every frame well formed. *)
LEMMA CallStep ==
  ASSUME TypeOK, FrameInv, NEW t \in Threads, fetch(t) \/ close(t)
  PROVE  mode = "up" /\ UNCHANGED mapperVars /\ \E g : Moves(t, g) /\ Become(t, g)
  <1> DEFINE f == frame[t]
  <1>0. f \in Frame /\ WellFormed(f)
    BY DEF TypeOK, FrameInv
  <1>1. CASE is_no_more_room(t)
    <2> DEFINE g == [f EXCEPT !.pc = "scan"]
    <2>1. f.pc = "room" /\ (Become(t, g) \/ Become(t, FetchDone(f)))
      BY <1>1 DEF is_no_more_room, At
    <2>2. g \in Frame /\ WellFormed(g) /\ g.job = f.job /\ g.pc = "scan"
      BY <1>0, <2>1 DEF WellFormed, Frame, Steps, Taking, Freeing, Closing, Short
    <2>3. Moves(t, g)
      BY <2>2 DEF Moves
    <2>4. Moves(t, FetchDone(f))
      BY <1>0, <2>1, FetchDoneFrame, FetchDoneWellFormed DEF Moves
    <2>5. QED
      BY <1>1, <2>1, <2>3, <2>4 DEF is_no_more_room, At
  <1>2. CASE fetch_look(t)
    <2>1. Moves(t, Scanned(f))
      BY <1>0, <1>2, ScannedFrame, ScannedWellFormed DEF Moves, fetch_look, At
    <2>2. QED
      BY <1>2, <2>1 DEF fetch_look, At
  <1>3. CASE fetch_set_port(t)
    <2> DEFINE g == [f EXCEPT !.pc = "inc_look"]
    <2>1. g \in Frame /\ WellFormed(g) /\ g.job = f.job /\ g.pc = "inc_look"
      BY <1>0, <1>3 DEF fetch_set_port, At, WellFormed, Frame, Steps, Taking, Freeing, Closing, Short
    <2>2. Moves(t, g)
      BY <2>1 DEF Moves
    <2>3. QED
      BY <1>3, <2>2 DEF fetch_set_port, Goto, At
  <1>4. CASE fetch_look_count(t)
    <2> DEFINE g == [f EXCEPT !.seen = curr_num_ports, !.pc = "inc_set"]
    <2>1. g \in Frame
      BY <1>0 DEF TypeOK, Frame, Steps
    <2>2. WellFormed(g) /\ g.job = f.job /\ g.pc = "inc_set"
      BY <1>0, <1>4 DEF fetch_look_count, At, WellFormed, Frame, Taking, Freeing, Closing, Short
    <2>3. Moves(t, g)
      BY <2>1, <2>2 DEF Moves
    <2>4. QED
      BY <1>4, <2>3 DEF fetch_look_count, At
  <1>5. CASE fetch_set_count(t)
    <2> DEFINE g == [f EXCEPT !.cursor = @ + 1, !.seen = 0, !.pc = "scan"]
    <2>1. f.cursor \in Ports
      BY <1>0, <1>5 DEF fetch_set_count, At, WellFormed, Taking
    <2>2. f.cursor + 1 \in 0 .. NumPorts
      BY <2>1, NumPortsType DEF Ports
    <2>3. g \in Frame
      BY <1>0, <2>2, ZeroIsUint16 DEF Frame, Steps
    <2>4. WellFormed(g) /\ g.job = f.job /\ g.pc = "scan"
      BY <1>0, <1>5 DEF fetch_set_count, At, WellFormed, Frame, Taking, Freeing, Closing, Short
    <2>5. Moves(t, g)
      BY <2>3, <2>4 DEF Moves
    <2>6. QED
      BY <1>5, <2>5 DEF fetch_set_count, At
  <1>6. CASE is_empty(t)
    <2> DEFINE g == [f EXCEPT !.pc = "close"]
    <2>1. f.pc = "empty" /\ (Become(t, g) \/ Become(t, CloseDone(f)))
      BY <1>6 DEF is_empty, At
    <2>2. g \in Frame /\ WellFormed(g) /\ g.job = f.job /\ g.pc = "close"
      BY <1>0, <2>1 DEF WellFormed, Frame, Steps, Taking, Freeing, Closing, Short
    <2>3. Moves(t, g)
      BY <2>2 DEF Moves
    <2>4. Moves(t, CloseDone(f))
      BY <1>0, <2>1, CloseDoneFrame, CloseDoneWellFormed DEF Moves
    <2>5. QED
      BY <1>6, <2>1, <2>3, <2>4 DEF is_empty, At
  <1>7. CASE close_look(t)
    <2>1. Moves(t, Visited(f))
      BY <1>0, <1>7, VisitedFrame, VisitedWellFormed DEF Moves, close_look, At
    <2>2. QED
      BY <1>7, <2>1 DEF close_look, At
  <1>8. CASE close_set_port(t)
    <2> DEFINE g == [f EXCEPT !.pc = "dec_look"]
    <2>1. g \in Frame /\ WellFormed(g) /\ g.job = f.job /\ g.pc = "dec_look"
      BY <1>0, <1>8 DEF close_set_port, At, WellFormed, Frame, Steps, Taking, Freeing, Closing, Short
    <2>2. Moves(t, g)
      BY <1>8, <2>1 DEF Moves, close_set_port, At
    <2>3. QED
      BY <1>8, <2>2 DEF close_set_port, Goto, At
  <1>9. CASE close_look_count(t)
    <2> DEFINE g == [f EXCEPT !.seen = curr_num_ports, !.pc = "dec_set"]
    <2>1. g \in Frame
      BY <1>0 DEF TypeOK, Frame, Steps
    <2>2. WellFormed(g) /\ g.job = f.job /\ g.pc = "dec_set"
      BY <1>0, <1>9 DEF close_look_count, At, WellFormed, Frame, Taking, Freeing, Closing, Short
    <2>3. Moves(t, g)
      BY <1>9, <2>1, <2>2 DEF Moves, close_look_count, At
    <2>4. QED
      BY <1>9, <2>3 DEF close_look_count, At
  <1>10. CASE close_set_count(t)
    <2> DEFINE g == [f EXCEPT !.todo = @ \ {Lowest(f.todo)}, !.seen = 0, !.pc = "close"]
    <2>1. g \in Frame
      BY <1>0, ZeroIsUint16 DEF Frame, Steps
    <2>2. WellFormed(g) /\ g.job = f.job /\ g.pc = "close"
      BY <1>0, <1>10 DEF close_set_count, At, WellFormed, Frame, Taking, Freeing, Closing, Short
    <2>3. Moves(t, g)
      BY <2>1, <2>2 DEF Moves
    <2>4. QED
      BY <1>10, <2>3 DEF close_set_count, At
  <1>11. QED
    BY <1>1, <1>2, <1>3, <1>4, <1>5, <1>6, <1>7, <1>8, <1>9, <1>10 DEF fetch, close

(* What a new call starts from is well formed. *)
LEMMA ServeWellFormed ==
  ASSUME FrameInv, TypeOK, NEW s \in Services, NEW S \in SUBSET Ports,
         \/ \E j \in JoinJobs : Serve(s, j, {}, "room")
         \/ \E j \in LeaveJobs : Serve(s, j, S, "empty")
  PROVE  /\ WellFormed(frame'["main"])
         /\ frame'["main"].job \in JoinJobs \cup LeaveJobs
         /\ frame'["main"].pc \in {"room", "empty"}
         /\ frame'["input"] = frame["input"]
  <1>1. frame \in [Threads -> Frame] /\ {"main", "input"} = Threads
    BY DEF TypeOK, Threads
  <1>2. CASE \E j \in JoinJobs : Serve(s, j, {}, "room")
    <2>1. PICK j \in JoinJobs : Serve(s, j, {}, "room")
      BY <1>2
    <2>2. /\ frame'["main"] = [IdleFrame EXCEPT !.pc = "room", !.job = j, !.client = s,
                                                !.arr = {}, !.todo = {}]
          /\ frame'["input"] = frame["input"]
      BY <1>1, <2>1 DEF Serve, Become
    <2>3. /\ frame'["main"].pc = "room" /\ frame'["main"].job = j
          /\ frame'["main"].arr = {}
      BY <2>2 DEF IdleFrame
    <2>4. QED
      BY <2>2, <2>3 DEF WellFormed, JoinJobs, Taking, Freeing, Closing, Short
  <1>3. CASE \E j \in LeaveJobs : Serve(s, j, S, "empty")
    <2>1. PICK j \in LeaveJobs : Serve(s, j, S, "empty")
      BY <1>3
    <2>2. /\ frame'["main"] = [IdleFrame EXCEPT !.pc = "empty", !.job = j, !.client = s,
                                                !.arr = S, !.todo = S]
          /\ frame'["input"] = frame["input"]
      BY <1>1, <2>1 DEF Serve, Become
    <2>3. frame'["main"].pc = "empty" /\ frame'["main"].job = j
      BY <2>2 DEF IdleFrame
    <2>4. QED
      BY <2>2, <2>3 DEF WellFormed, JoinJobs, LeaveJobs, Taking, Freeing, Closing
  <1>4. QED
    BY <1>2, <1>3

(* An operator command starts from a well-formed frame. *)
LEMMA CommandWellFormed ==
  ASSUME FrameInv, TypeOK,
         port_mapper_print \/ \E p \in Ports : kill_port(p)
  PROVE  /\ WellFormed(frame'["input"])
         /\ frame'["input"].job \in {"print", "kill"}
         /\ frame'["input"].pc \in {"room", "empty"}
         /\ frame'["main"] = frame["main"]
  <1>1. frame \in [Threads -> Frame] /\ {"main", "input"} = Threads
    BY DEF TypeOK, Threads
  <1>2. CASE port_mapper_print
    BY <1>1, <1>2 DEF port_mapper_print, Command, Become, IdleFrame, WellFormed, Taking, Freeing, Closing, Short
  <1>3. ASSUME NEW p \in Ports, kill_port(p)
        PROVE  /\ WellFormed(frame'["input"])
               /\ frame'["input"].job \in {"print", "kill"}
               /\ frame'["input"].pc \in {"room", "empty"}
               /\ frame'["main"] = frame["main"]
    <2>1. /\ frame'["input"] = [IdleFrame EXCEPT !.pc = "empty", !.job = "kill",
                                                 !.arr = {p}, !.todo = {p}]
          /\ frame'["main"] = frame["main"]
      BY <1>1, <1>3 DEF kill_port, Command, Become
    <2>2. frame'["input"].pc = "empty" /\ frame'["input"].job = "kill"
      BY <2>1 DEF IdleFrame
    <2>3. QED
      BY <2>1, <2>2 DEF WellFormed, JoinJobs, Taking, Freeing, Closing
  <1>4. QED
    BY <1>2, <1>3

(* A thread between two calls is well formed. *)
LEMMA IdleWellFormed == WellFormed(IdleFrame)
  BY DEF WellFormed, IdleFrame, Taking, Freeing, Closing, Short

(* Which request or command a service or operator step starts. *)
LEMMA RequestServes ==
  ASSUME TypeOK, NEW s \in Services, request(s)
  PROVE  /\ running /\ At("main", "idle") /\ UNCHANGED mapperVars
         /\ \E S \in SUBSET Ports :
              \/ \E j \in JoinJobs : Serve(s, j, {}, "room")
              \/ \E j \in LeaveJobs : Serve(s, j, S, "empty")
         /\ lapse \subseteq lapse'
  <1>1. CASE join(s)
    BY <1>1 DEF join, Accepting
  <1>2. CASE leave(s)
    <2>1. PICK S \in SUBSET held[s] : Serve(s, "leave", S, "empty")
      BY <1>2 DEF leave
    <2>2. S \in SUBSET Ports /\ "leave" \in LeaveJobs
      BY DEF TypeOK, LeaveJobs
    <2>3. QED
      BY <1>2, <2>1, <2>2 DEF leave, Accepting
  <1>3. CASE awkward_leave(s)
    <2>1. PICK p \in held[s] : Serve(s, "awkward_leave", {p}, "empty")
      BY <1>3 DEF awkward_leave
    <2>2. {p} \in SUBSET Ports /\ "awkward_leave" \in LeaveJobs
      BY DEF TypeOK, LeaveJobs
    <2>3. QED
      BY <1>3, <2>1, <2>2 DEF awkward_leave, Accepting
  <1>4. CASE awkward_leave_again(s)
    <2>1. PICK p \in again : Serve(s, "awkward_leave", {p}, "empty")
      BY <1>4 DEF awkward_leave_again
    <2>2. {p} \in SUBSET Ports /\ "awkward_leave" \in LeaveJobs
      BY DEF TypeOK, LeaveJobs
    <2>3. QED
      BY <1>4, <2>1, <2>2 DEF awkward_leave_again, Accepting
  <1>5. QED
    BY <1>1, <1>2, <1>3, <1>4 DEF request

-----------------------------------------------------------------------------
(* Every step leaves each thread's frame well formed. *)
LEMMA FrameStep ==
  ASSUME TypeOK, FrameInv, [Next]_vars
  PROVE  FrameInv'
  <1>0. frame \in [Threads -> Frame] /\ {"main", "input"} = Threads
    BY DEF TypeOK, Threads
  <1>1. ASSUME NEW t \in Threads, fetch(t) \/ close(t) PROVE FrameInv'
    <2>1. PICK g : Moves(t, g) /\ Become(t, g)
      BY <1>1, CallStep
    <2>2. QED
      BY <1>0, <2>1, BecomeFrame DEF Moves, FrameInv
  <1>2. ASSUME NEW s \in Services, request(s) PROVE FrameInv'
    BY <1>0, <1>2, RequestServes, ServeWellFormed DEF FrameInv
  <1>3. ASSUME NEW s \in Services, send_ports(s) PROVE FrameInv'
    BY <1>0, <1>3, IdleIsFrame, IdleWellFormed, BecomeFrame DEF send_ports, FrameInv
  <1>4. ASSUME NEW s \in Services, no_ack(s) PROVE FrameInv'
    BY <1>4, IdleWellFormed DEF no_ack, FrameInv
  <1>5. ASSUME NEW s \in Services, forget(s) PROVE FrameInv'
    BY <1>5 DEF forget, FrameInv
  <1>6. CASE operator
    <2>1. CASE stop_mapper
      <3>1. [frame["input"] EXCEPT !.pc = "gone"] \in Frame
        BY <1>0 DEF Frame, Steps
      <3>2. WellFormed([frame["input"] EXCEPT !.pc = "gone"])
        BY <1>0, <2>1 DEF stop_mapper, At, FrameInv, WellFormed, Frame, Taking, Freeing, Closing, Short
      <3>3. QED
        BY <1>0, <2>1, <3>1, <3>2, BecomeFrame DEF stop_mapper, Goto, FrameInv
    <2>2. CASE ~stop_mapper
      BY <1>0, <1>6, <2>2, CommandWellFormed DEF operator, FrameInv
    <2>3. QED
      BY <2>1, <2>2
  <1>7. CASE exit_mapper
    BY <1>7, IdleWellFormed DEF exit_mapper, FrameInv
  <1>8. CASE launch \/ UNCHANGED vars
    BY <1>8 DEF launch, vars, FrameInv
  <1>9. QED
    BY <1>1, <1>2, <1>3, <1>4, <1>5, <1>6, <1>7, <1>8 DEF Next

(* The two threads keep to their own requests and commands, and a command  *)
(* that frees a port is on record before it touches the counter.           *)
LEMMA RoleStep ==
  ASSUME TypeOK, FrameInv, RoleInv, [Next]_vars
  PROVE  RoleInv'
  <1>0. frame \in [Threads -> Frame] /\ {"main", "input"} = Threads
    BY DEF TypeOK, Threads
  <1>a. IdleFrame.job = "none" /\ IdleFrame.pc = "idle"
    BY DEF IdleFrame
  <1>1. ASSUME NEW t \in Threads, fetch(t) \/ close(t) PROVE RoleInv'
    <2>1. PICK g : Moves(t, g) /\ Become(t, g)
      BY <1>1, CallStep
    <2>2. mode' = "up"
      BY <1>1, CallStep DEF mapperVars
    <2>3. frame'[t] = g /\ \A u \in Threads : u # t => frame'[u] = frame[u]
      BY <1>0, <2>1, BecomeFrame DEF Moves
    <2>4. lapse \subseteq lapse'
      BY <1>1 DEF fetch, close, is_no_more_room, fetch_look, fetch_set_port,
         fetch_look_count, fetch_set_count, is_empty, close_look, close_set_port,
         close_look_count, close_set_count
    <2>5. OperatorWrote => OperatorWrote'
      BY <2>4 DEF OperatorWrote
    <2>6. t = "input" /\ g.pc \in {"dec_look", "dec_set"} => OperatorWrote'
      <3> SUFFICES ASSUME t = "input", g.pc \in {"dec_look", "dec_set"}
                   PROVE  OperatorWrote'
        OBVIOUS
      <3>1. frame[t].pc \in {"free", "dec_look"}
        BY <2>1 DEF Moves
      <3>2. CASE frame[t].pc = "dec_look"
        BY <3>2, <2>5 DEF RoleInv
      <3>3. CASE frame[t].pc = "free"
        <4>1. frame[t].job \in {"print", "kill"}
          BY <1>0, <3>3 DEF RoleInv, FrameInv, WellFormed
        <4>2. close_set_port(t)
          BY <1>1, <3>3 DEF fetch, close, is_no_more_room, fetch_look, fetch_set_port,
             fetch_look_count, fetch_set_count, is_empty, close_look,
             close_look_count, close_set_count, At
        <4>3. QED
          BY <4>1, <4>2 DEF close_set_port, OperatorWrote
      <3>4. QED
        BY <3>1, <3>2, <3>3
    <2>7. CASE t = "main"
      BY <1>0, <2>1, <2>2, <2>3, <2>5, <2>7 DEF Moves, RoleInv
    <2>8. CASE t = "input"
      BY <1>0, <2>1, <2>2, <2>3, <2>6, <2>8 DEF Moves, RoleInv
    <2>9. QED
      BY <1>0, <2>7, <2>8
  <1>2. ASSUME NEW s \in Services, request(s) PROVE RoleInv'
    <2>1. /\ frame'["main"].job \in JoinJobs \cup LeaveJobs
          /\ frame'["main"].pc \in {"room", "empty"}
          /\ frame'["input"] = frame["input"]
      BY <1>2, RequestServes, ServeWellFormed
    <2>2. mode' = "up" /\ (OperatorWrote => OperatorWrote')
      BY <1>2, RequestServes DEF At, mapperVars, OperatorWrote
    <2>3. QED
      BY <2>1, <2>2 DEF RoleInv, JoinJobs, LeaveJobs
  <1>3. ASSUME NEW s \in Services, send_ports(s) PROVE RoleInv'
    <2>1. frame'["main"] = IdleFrame /\ frame'["input"] = frame["input"]
      BY <1>0, <1>3, IdleIsFrame, BecomeFrame DEF send_ports
    <2>2. mode' = "up" /\ (OperatorWrote => OperatorWrote')
      BY <1>3 DEF send_ports, At, mapperVars, Deliver, OperatorWrote
    <2>3. QED
      BY <1>a, <2>1, <2>2 DEF RoleInv
  <1>4. ASSUME NEW s \in Services, no_ack(s) PROVE RoleInv'
    <2>1. \A t \in Threads : frame'[t] = IdleFrame
      BY <1>4 DEF no_ack
    <2>2. QED
      BY <1>0, <1>a, <2>1 DEF RoleInv
  <1>5. ASSUME NEW s \in Services, forget(s) PROVE RoleInv'
    BY <1>5 DEF forget, RoleInv, OperatorWrote, mapperVars
  <1>6. CASE operator
    <2>1. CASE stop_mapper
      <3>1. /\ frame'["input"] = [frame["input"] EXCEPT !.pc = "gone"]
            /\ frame'["main"] = frame["main"]
        BY <1>0, <2>1 DEF stop_mapper, Goto, Become
      <3>2. frame'["input"].job = frame["input"].job /\ frame'["input"].pc = "gone"
        BY <1>0, <3>1 DEF Frame
      <3>3. QED
        BY <2>1, <3>1, <3>2 DEF stop_mapper, At, RoleInv
    <2>2. CASE ~stop_mapper
      <3>1. mode' = "up"
        BY <1>6, <2>2 DEF operator, port_mapper_print, kill_port, Command, At, mapperVars
      <3>2. QED
        BY <1>6, <2>2, <3>1, CommandWellFormed DEF operator, RoleInv
    <2>3. QED
      BY <2>1, <2>2
  <1>7. CASE exit_mapper
    <2>1. \A t \in Threads : frame'[t] = IdleFrame
      BY <1>7 DEF exit_mapper
    <2>2. QED
      BY <1>0, <1>a, <2>1 DEF RoleInv
  <1>8. CASE launch
    BY <1>0, <1>8 DEF launch, RoleInv, OperatorWrote
  <1>9. CASE UNCHANGED vars
    BY <1>9 DEF vars, RoleInv, OperatorWrote
  <1>10. QED
    BY <1>1, <1>2, <1>3, <1>4, <1>5, <1>6, <1>7, <1>8, <1>9 DEF Next

-----------------------------------------------------------------------------
(* The first launch is well formed, with each thread in its role. *)
LEMMA InitShape ==
  ASSUME Init
  PROVE  TypeOK /\ FrameInv /\ RoleInv
  <1>1. \A t \in Threads : frame[t] = IdleFrame
    BY DEF Init
  <1>2. FrameInv
    BY <1>1, IdleWellFormed DEF FrameInv
  <1>3. RoleInv
    BY <1>1 DEF RoleInv, IdleFrame, Threads, Init
  <1>4. frame \in [Threads -> Frame]
    BY IdleIsFrame DEF Init
  <1>5. port_arr \in [Ports -> {FREE, ALLOCATED}]
    BY DEF Init
  <1>6. TypeOK
    BY <1>4, <1>5, ZeroIsUint16 DEF Init, TypeOK
  <1>7. QED
    BY <1>2, <1>3, <1>6

(* The variables of the port mapper stay in their C types, and no scan or  *)
(* walk leaves the table, for every number of ports and services.          *)
THEOREM TypeCorrect == Spec => []TypeOK
  <1>1. Init => TypeOK /\ FrameInv
    BY InitShape
  <1>2. TypeOK /\ FrameInv /\ [Next]_vars => (TypeOK /\ FrameInv)'
    BY TypeStep, FrameStep
  <1>3. QED
    BY <1>1, <1>2, PTL DEF Spec

-----------------------------------------------------------------------------
(* Until a command frees a port, the input thread changes nothing but its  *)
(* own frame and the flag: a scan by 'p' marks nothing, and the walks of   *)
(* 'p' and 'k' find nothing to free.                                       *)
LEMMA InputQuiet ==
  ASSUME TypeOK, FrameInv, RoleInv, ~OperatorWrote',
         fetch("input") \/ close("input") \/ operator
  PROVE  /\ UNCHANGED <<mode, file, port_arr, curr_num_ports, held, again, lapse>>
         /\ frame'["main"] = frame["main"]
         /\ ~OperatorWrote
  <1>0. frame \in [Threads -> Frame] /\ {"main", "input"} = Threads
    BY DEF TypeOK, Threads
  <1>1. frame["input"].pc \notin Taking
    BY <1>0 DEF RoleInv, FrameInv, WellFormed, JoinJobs
  <1>2. CASE operator
    BY <1>0, <1>2 DEF operator, port_mapper_print, kill_port, stop_mapper, Command,
       mapperVars, serviceVars, Become, Goto, OperatorWrote
  <1>3. CASE fetch("input") \/ close("input")
    <2>1. frame'["main"] = frame["main"]
      <3>1. PICK g : Moves("input", g) /\ Become("input", g)
        BY <1>0, <1>3, CallStep
      <3>2. QED
        BY <1>0, <3>1 DEF Become
    <2>2. ~close_set_port("input")
      <3>1. SUFFICES ASSUME close_set_port("input") PROVE OperatorWrote'
        OBVIOUS
      <3>2. frame["input"].job \in {"print", "kill"}
        BY <1>0, <3>1 DEF close_set_port, At, RoleInv, FrameInv, WellFormed
      <3>3. QED
        BY <3>1, <3>2 DEF close_set_port, OperatorWrote
    <2>3. ~(fetch_set_port("input") \/ fetch_look_count("input") \/ fetch_set_count("input"))
      BY <1>1 DEF fetch_set_port, fetch_look_count, fetch_set_count, At, Taking
    <2>4. ~OperatorWrote
      BY <1>3, <2>2 DEF fetch, close, is_no_more_room, fetch_look, fetch_set_port,
         fetch_look_count, fetch_set_count, is_empty, close_look,
         close_look_count, close_set_count, OperatorWrote
    <2>5. ~(close_look_count("input") \/ close_set_count("input"))
      BY <2>4 DEF RoleInv, close_look_count, close_set_count, At
    <2>6. is_no_more_room("input") \/ fetch_look("input") \/ is_empty("input")
          \/ close_look("input")
      BY <1>3, <2>2, <2>3, <2>5 DEF fetch, close
    <2>7. QED
      BY <2>1, <2>4, <2>6 DEF is_no_more_room, fetch_look, is_empty, close_look,
         mapperVars, serviceVars
  <1>4. QED
    BY <1>2, <1>3

(* A scan only stops at a port it found free, a walk at one it found in    *)
(* use.                                                                    *)
LEMMA ScannedTake ==
  ASSUME NEW f \in Frame, f.pc = "scan", Scanned(f).pc = "take"
  PROVE  /\ Scanned(f).cursor = f.cursor
         /\ Scanned(f).arr = f.arr \cup {f.cursor}
         /\ f.cursor \in Ports /\ port_arr[f.cursor] = FREE
  <1>1. FetchDone(f).pc # "take"
    BY FetchDoneFrame DEF IdleFrame
  <1>2. ~(f.cursor = NumPorts \/ Cardinality(f.arr) = Wanted(f.job))
    BY <1>1 DEF Scanned
  <1>3. f.cursor \in 0 .. NumPorts
    BY DEF Frame
  <1>4. f.cursor \in Ports
    BY <1>2, <1>3, CursorInPorts
  <1>5. QED
    BY <1>2, <1>4 DEF Scanned, Frame

(* Freeing starts at a port that is marked allocated. *)
LEMMA VisitedFree ==
  ASSUME NEW f \in Frame, f.pc = "close", Visited(f).pc = "free"
  PROVE  /\ Visited(f).todo = f.todo /\ f.todo # {}
         /\ port_arr[Lowest(f.todo)] = ALLOCATED
  <1>1. f.todo # {}
    BY DEF Visited, CloseDone, IdleFrame, Frame
  <1>2. QED
    BY <1>1 DEF Visited, Frame

(* A step that leaves table, counter, file and history alone, and moves    *)
(* the main thread between places where the counter does not lag.          *)
Settled == {"idle", "room", "scan", "empty", "close", "send", "gone"}

(* A step that leaves table, counter and main thread keeps CountInv. *)
LEMMA CountKept ==
  ASSUME CountInv, UNCHANGED <<port_arr, curr_num_ports, file>>, lapse \subseteq lapse',
         \/ frame'["main"] = frame["main"]
         \/ frame["main"].pc \in Settled /\ frame'["main"].pc \in Settled
  PROVE  CountInv'
  <1> SUFFICES ASSUME ~OperatorWrote' PROVE CountInv'
    BY DEF CountInv
  <1>1. ~OperatorWrote
    BY DEF OperatorWrote
  <1>2. Allocated' = Allocated
    BY DEF Allocated
  <1>3. CASE frame'["main"] = frame["main"]
    BY <1>1, <1>2, <1>3 DEF CountInv
  <1>4. CASE frame["main"].pc \in Settled /\ frame'["main"].pc \in Settled
    <2>1. Lag(frame["main"].pc) = 0 /\ Lag(frame'["main"].pc) = 0
      BY <1>4 DEF Lag, Settled
    <2>2. QED
      BY <1>1, <1>2, <1>4, <2>1 DEF CountInv, Settled
  <1>5. QED
    BY <1>3, <1>4

(* Each look and each set of the main thread keeps the counter where       *)
(* CountInv says.                                                          *)
LEMMA CountMainStep ==
  ASSUME TypeOK, FrameInv, RoleInv, CountInv, fetch("main") \/ close("main"),
         ~OperatorWrote'
  PROVE  CountInv'
  <1> DEFINE m == frame["main"]
             n == frame'["main"]
  <1>0. frame \in [Threads -> Frame] /\ m \in Frame /\ "main" \in Threads
        /\ WellFormed(m) /\ port_arr \in [Ports -> {FREE, ALLOCATED}]
    BY DEF TypeOK, Threads, FrameInv
  <1>a. ASSUME NEW g, Become("main", g) PROVE n = g
    BY <1>0, <1>a DEF Become
  <1>b. ~OperatorWrote /\ lapse \subseteq lapse'
    BY DEF fetch, close, is_no_more_room, fetch_look, fetch_set_port,
       fetch_look_count, fetch_set_count, is_empty, close_look, close_set_port,
       close_look_count, close_set_count, OperatorWrote
  <1>c. Cardinality(Allocated) \in 0 .. NumPorts
    BY AllocatedFinite DEF Allocated
  <1>d. file' = file
    BY CallStep, <1>0 DEF mapperVars
  <1>e. curr_num_ports = Cardinality(Allocated) + Lag(m.pc) /\ curr_num_ports \in Uint16
    BY <1>b DEF CountInv, TypeOK
  <1>f. m.todo \in SUBSET Ports
    BY <1>0 DEF Frame
  <1>1. CASE is_no_more_room("main")
    <2>1. n = FetchDone(m) \/ n = [m EXCEPT !.pc = "scan"]
      BY <1>1, <1>a DEF is_no_more_room
    <2>2. n.pc \in Settled
      BY <1>0, <1>1, <2>1, FetchDoneWellFormed DEF is_no_more_room, At, Settled, Frame
    <2>3. QED
      BY <1>1, <1>b, <2>2, CountKept DEF is_no_more_room, At, Settled, mapperVars
  <1>2. CASE fetch_look("main")
    <2>1. n = Scanned(m) /\ m.pc = "scan"
      BY <1>2, <1>a DEF fetch_look, At
    <2>2. n.pc \in Settled \/ n.pc = "take"
      BY <1>0, <2>1, ScannedWellFormed DEF Settled
    <2>3. CASE n.pc \in Settled
      BY <1>2, <1>b, <2>1, <2>3, CountKept DEF fetch_look, Settled, mapperVars
    <2>4. CASE n.pc = "take"
      <3>1. n.cursor \notin Allocated
        BY <1>0, <2>1, <2>4, ScannedTake DEF Allocated, FREE, ALLOCATED
      <3>2. UNCHANGED <<port_arr, curr_num_ports, Allocated>>
        BY <1>2 DEF fetch_look, Allocated
      <3>3. Lag(m.pc) = 0 /\ Lag(n.pc) = 0
        BY <2>1, <2>4 DEF Lag
      <3>4. QED
        BY <1>b, <1>d, <2>4, <3>1, <3>2, <3>3 DEF CountInv
    <2>5. QED
      BY <2>2, <2>3, <2>4
  <1>3. CASE fetch_set_port("main")
    <2>1. m.pc = "take" /\ m.cursor \in Ports /\ m.cursor \notin Allocated
      BY <1>0, <1>3, <1>b DEF fetch_set_port, At, WellFormed, Taking, CountInv
    <2>2. port_arr[m.cursor] # ALLOCATED
      BY <2>1 DEF Allocated
    <2>3. port_arr' = [port_arr EXCEPT ![m.cursor] = ALLOCATED]
      BY <1>3 DEF fetch_set_port
    <2>4. Cardinality(Allocated') = Cardinality(Allocated) + 1
      BY <1>0, <2>1, <2>2, <2>3, TakeOne DEF Allocated
    <2>5. n.pc = "inc_look"
      BY <1>0, <1>3, <1>a DEF fetch_set_port, Goto, Frame
    <2>6. Lag(m.pc) = 0 /\ Lag(n.pc) = -1
      BY <2>1, <2>5 DEF Lag
    <2>7. curr_num_ports' = Cardinality(Allocated') + Lag(n.pc)
      <3>1. curr_num_ports' = curr_num_ports
        BY <1>3 DEF fetch_set_port
      <3>2. QED
        BY <1>c, <1>e, <2>4, <2>6, <3>1
    <2>8. QED
      BY <1>b, <1>d, <2>5, <2>7 DEF CountInv
  <1>4. CASE fetch_look_count("main")
    <2>1. n = [m EXCEPT !.seen = curr_num_ports, !.pc = "inc_set"] /\ m.pc = "inc_look"
      BY <1>4, <1>a DEF fetch_look_count, At
    <2>2. n.pc = "inc_set" /\ n.seen = curr_num_ports
      BY <1>0, <2>1 DEF Frame
    <2>3. Lag(m.pc) = Lag(n.pc)
      BY <2>1, <2>2 DEF Lag
    <2>4. UNCHANGED <<curr_num_ports, Allocated>>
      BY <1>4 DEF fetch_look_count, Allocated
    <2>5. QED
      BY <1>b, <1>d, <2>2, <2>3, <2>4 DEF CountInv
  <1>5. CASE fetch_set_count("main")
    <2>1. n = [m EXCEPT !.cursor = @ + 1, !.seen = 0, !.pc = "scan"] /\ m.pc = "inc_set"
      BY <1>5, <1>a DEF fetch_set_count, At
    <2>2. n.pc = "scan"
      BY <1>0, <2>1 DEF Frame
    <2>3. Lag(m.pc) = -1 /\ Lag(n.pc) = 0
      BY <2>1, <2>2 DEF Lag
    <2>4. m.seen = curr_num_ports
      BY <1>b, <2>1 DEF CountInv
    <2>5. curr_num_ports + 1 = Cardinality(Allocated)
      BY <1>c, <1>e, <2>3 DEF Uint16
    <2>6. curr_num_ports + 1 \in Uint16
      BY <1>c, <2>5, NumPortsType DEF Uint16
    <2>7. curr_num_ports' = curr_num_ports + 1
      BY <1>5, <2>4, <2>6, Uint16Exact DEF fetch_set_count
    <2>8. Allocated' = Allocated
      BY <1>5 DEF fetch_set_count, Allocated
    <2>9. curr_num_ports' = Cardinality(Allocated') + Lag(n.pc)
      BY <1>c, <2>3, <2>5, <2>7, <2>8
    <2>10. QED
      BY <1>b, <1>d, <2>2, <2>9 DEF CountInv
  <1>6. CASE is_empty("main")
    <2>1. n = CloseDone(m) \/ n = [m EXCEPT !.pc = "close"]
      BY <1>6, <1>a DEF is_empty
    <2>2. n.pc \in Settled
      BY <1>0, <1>6, <2>1, CloseDoneWellFormed DEF is_empty, At, Settled, Frame
    <2>3. QED
      BY <1>6, <1>b, <2>2, CountKept DEF is_empty, At, Settled, mapperVars
  <1>7. CASE close_look("main")
    <2>1. n = Visited(m) /\ m.pc = "close"
      BY <1>7, <1>a DEF close_look, At
    <2>2. n.pc \in Settled \/ n.pc = "free"
      BY <1>0, <2>1, VisitedWellFormed DEF Settled
    <2>3. CASE n.pc \in Settled
      BY <1>7, <1>b, <2>1, <2>3, CountKept DEF close_look, Settled, mapperVars
    <2>4. CASE n.pc = "free"
      <3>0. n.todo = m.todo /\ m.todo # {} /\ port_arr[Lowest(m.todo)] = ALLOCATED
        BY <1>0, <2>1, <2>4, VisitedFree
      <3>1. Lowest(n.todo) \in Allocated
        BY <1>f, <3>0, LowestInSet DEF Allocated
      <3>2. UNCHANGED <<port_arr, curr_num_ports, Allocated>>
        BY <1>7 DEF close_look, Allocated
      <3>3. Lag(m.pc) = 0 /\ Lag(n.pc) = 0
        BY <2>1, <2>4 DEF Lag
      <3>4. QED
        BY <1>b, <1>d, <2>4, <3>1, <3>2, <3>3 DEF CountInv
    <2>5. QED
      BY <2>2, <2>3, <2>4
  <1>8. CASE close_set_port("main")
    <2>1. m.pc = "free" /\ Lowest(m.todo) \in Allocated
      BY <1>8, <1>b DEF close_set_port, At, CountInv
    <2>2. Lowest(m.todo) \in Ports /\ port_arr[Lowest(m.todo)] = ALLOCATED
      BY <2>1 DEF Allocated
    <2>3. port_arr' = [port_arr EXCEPT ![Lowest(m.todo)] = FREE]
      BY <1>8 DEF close_set_port
    <2>4. Cardinality(Allocated') = Cardinality(Allocated) - 1
      BY <1>0, <2>2, <2>3, FreeOne DEF Allocated
    <2>5. n.pc = "dec_look"
      BY <1>0, <1>8, <1>a DEF close_set_port, Goto, Frame
    <2>6. Lag(m.pc) = 0 /\ Lag(n.pc) = 1
      BY <2>1, <2>5 DEF Lag
    <2>7. curr_num_ports' = Cardinality(Allocated') + Lag(n.pc)
      <3>1. curr_num_ports' = curr_num_ports
        BY <1>8 DEF close_set_port
      <3>2. QED
        BY <1>c, <1>e, <2>4, <2>6, <3>1
    <2>8. QED
      BY <1>b, <1>d, <2>5, <2>7 DEF CountInv
  <1>9. CASE close_look_count("main")
    <2>1. n = [m EXCEPT !.seen = curr_num_ports, !.pc = "dec_set"] /\ m.pc = "dec_look"
      BY <1>9, <1>a DEF close_look_count, At
    <2>2. n.pc = "dec_set" /\ n.seen = curr_num_ports
      BY <1>0, <2>1 DEF Frame
    <2>3. Lag(m.pc) = Lag(n.pc)
      BY <2>1, <2>2 DEF Lag
    <2>4. UNCHANGED <<curr_num_ports, Allocated>>
      BY <1>9 DEF close_look_count, Allocated
    <2>5. QED
      BY <1>b, <1>d, <2>2, <2>3, <2>4 DEF CountInv
  <1>10. CASE close_set_count("main")
    <2>1. n = [m EXCEPT !.todo = @ \ {Lowest(m.todo)}, !.seen = 0, !.pc = "close"]
          /\ m.pc = "dec_set"
      BY <1>10, <1>a DEF close_set_count, At
    <2>2. n.pc = "close"
      BY <1>0, <2>1 DEF Frame
    <2>3. Lag(m.pc) = 1 /\ Lag(n.pc) = 0
      BY <2>1, <2>2 DEF Lag
    <2>4. m.seen = curr_num_ports
      BY <1>b, <2>1 DEF CountInv
    <2>5. curr_num_ports - 1 = Cardinality(Allocated)
      BY <1>c, <1>e, <2>3 DEF Uint16
    <2>6. curr_num_ports - 1 \in Uint16
      BY <1>c, <2>5, NumPortsType DEF Uint16
    <2>7. curr_num_ports' = curr_num_ports - 1
      BY <1>10, <2>4, <2>6, Uint16Exact DEF close_set_count
    <2>8. Allocated' = Allocated
      BY <1>10 DEF close_set_count, Allocated
    <2>9. curr_num_ports' = Cardinality(Allocated') + Lag(n.pc)
      BY <1>c, <2>3, <2>5, <2>7, <2>8
    <2>10. QED
      BY <1>b, <1>d, <2>2, <2>9 DEF CountInv
  <1>11. QED
    BY <1>1, <1>2, <1>3, <1>4, <1>5, <1>6, <1>7, <1>8, <1>9, <1>10 DEF fetch, close

(* No port is allocated in a table of free ports. *)
LEMMA NoneAllocated ==
  ASSUME NEW a, a = [p \in Ports |-> FREE]
  PROVE  Cardinality({p \in Ports : a[p] = ALLOCATED}) = 0
  <1>1. {p \in Ports : a[p] = ALLOCATED} = {}
    BY DEF FREE, ALLOCATED
  <1>2. QED
    BY <1>1, FS_EmptySet

(* Every step keeps the counter in line with the table. *)
LEMMA CountStep ==
  ASSUME TypeOK, FrameInv, RoleInv, CountInv, [Next]_vars
  PROVE  CountInv'
  <1> SUFFICES ASSUME ~OperatorWrote' PROVE CountInv'
    BY DEF CountInv
  <1>0. frame \in [Threads -> Frame] /\ {"main", "input"} = Threads
    BY DEF TypeOK, Threads
  <1>a. IdleFrame.pc = "idle"
    BY DEF IdleFrame
  <1>1. CASE fetch("main") \/ close("main")
    BY <1>1, CountMainStep
  <1>2. CASE fetch("input") \/ close("input") \/ operator
    <2>1. /\ UNCHANGED <<file, port_arr, curr_num_ports, lapse>>
          /\ frame'["main"] = frame["main"]
      BY <1>2, InputQuiet
    <2>2. QED
      BY <2>1, CountKept
  <1>3. ASSUME NEW s \in Services, request(s) PROVE CountInv'
    <2>1. frame["main"].pc \in Settled /\ frame'["main"].pc \in Settled
      BY <1>3, RequestServes, ServeWellFormed DEF At, Settled
    <2>2. UNCHANGED <<port_arr, curr_num_ports, file>> /\ lapse \subseteq lapse'
      BY <1>3 DEF request, join, leave, awkward_leave, awkward_leave_again, mapperVars
    <2>3. QED
      BY <2>1, <2>2, CountKept
  <1>4. ASSUME NEW s \in Services, send_ports(s) \/ no_ack(s) PROVE CountInv'
    <2>1. frame["main"].pc \in Settled /\ frame'["main"].pc \in Settled
      BY <1>0, <1>4, <1>a DEF send_ports, no_ack, At, Settled, Become
    <2>2. UNCHANGED <<port_arr, curr_num_ports, file>> /\ lapse \subseteq lapse'
      BY <1>4 DEF send_ports, no_ack, Deliver, mapperVars
    <2>3. QED
      BY <2>1, <2>2, CountKept
  <1>5. ASSUME NEW s \in Services, forget(s) PROVE CountInv'
    BY <1>5, CountKept DEF forget, mapperVars
  <1>6. CASE exit_mapper
    <2>1. frame["main"].pc = "idle" /\ frame'["main"].pc = "idle"
      BY <1>0, <1>6, <1>a DEF exit_mapper, At
    <2>2. ~OperatorWrote /\ UNCHANGED <<port_arr, curr_num_ports, Allocated>>
      BY <1>6 DEF exit_mapper, OperatorWrote, Allocated
    <2>3. Lag("idle") = 0
      BY DEF Lag
    <2>4. curr_num_ports = Cardinality(Allocated)
      <3>1. Cardinality(Allocated) \in 0 .. NumPorts
        BY AllocatedFinite DEF Allocated
      <3>2. curr_num_ports = Cardinality(Allocated) + 0
        BY <2>1, <2>2, <2>3 DEF CountInv
      <3>3. QED
        BY <3>1, <3>2
    <2>5. file' # <<>> => file'[1].num
            = Cardinality({p \in Ports : file'[1].arr[p] = ALLOCATED})
      <3>1. CASE file' = file
        BY <2>2, <3>1 DEF CountInv
      <3>2. CASE file' = <<[arr |-> port_arr, num |-> curr_num_ports]>>
        <4>1. file'[1].arr = port_arr /\ file'[1].num = curr_num_ports
          BY <3>2
        <4>2. QED
          BY <2>4, <4>1 DEF Allocated
      <3>3. CASE file' = <<>>
        BY <3>3
      <3>4. QED
        BY <1>6, <3>1, <3>2, <3>3 DEF exit_mapper, save_port_mapper_file
    <2>6. QED
      BY <2>1, <2>2, <2>5 DEF CountInv
  <1>7. CASE launch
    <2>1. frame["main"].pc = "idle" /\ frame'["main"].pc = "idle"
      BY <1>0, <1>7, <1>a DEF launch, RoleInv
    <2>2. ~OperatorWrote /\ file' = file
      BY <1>7 DEF launch, OperatorWrote
    <2>3. curr_num_ports' = Cardinality(Allocated')
      <3>1. CASE UseFile /\ file # <<>>
        <4>1. file[1].num = Cardinality({p \in Ports : file[1].arr[p] = ALLOCATED})
          BY <2>2, <3>1 DEF CountInv
        <4>2. QED
          BY <1>7, <3>1, <4>1 DEF launch, fetch_port_mapper_file, Allocated
      <3>2. CASE ~(UseFile /\ file # <<>>)
        <4>1. port_arr' = [p \in Ports |-> FREE] /\ curr_num_ports' = 0
          BY <1>7, <3>2 DEF launch, fetch_port_mapper_file
        <4>2. QED
          BY <4>1, NoneAllocated DEF Allocated
      <3>3. QED
        BY <3>1, <3>2
    <2>4. curr_num_ports' = Cardinality(Allocated') + Lag(frame'["main"].pc)
      <3>1. Cardinality(Allocated') \in 0 .. NumPorts
        BY AllocatedFinite DEF Allocated
      <3>2. Lag(frame'["main"].pc) = 0
        BY <2>1 DEF Lag
      <3>3. QED
        BY <2>3, <3>1, <3>2
    <2>5. QED
      BY <2>1, <2>2, <2>4 DEF CountInv
  <1>8. CASE UNCHANGED vars
    BY <1>8, CountKept DEF vars
  <1>9. QED
    BY <1>0, <1>1, <1>2, <1>3, <1>4, <1>5, <1>6, <1>7, <1>8 DEF Next

(* An empty table has no allocated port. *)
LEMMA CountInit ==
  ASSUME Init
  PROVE  CountInv
  <1>1. frame["main"].pc = "idle"
    BY DEF Init, Threads, IdleFrame
  <1>2. Cardinality(Allocated) = 0
    BY NoneAllocated DEF Init, Allocated
  <1>3. curr_num_ports = Cardinality(Allocated) + Lag("idle")
    BY <1>2 DEF Init, Lag
  <1>4. QED
    BY <1>1, <1>3 DEF CountInv, Init

(* Between two requests the counter is the number of allocated ports,      *)
(* whatever the services do, as long as no operator command frees a port.  *)
THEOREM CountCorrect == Spec => []CountMatchesTable
  <1>1. Init => TypeOK /\ FrameInv /\ RoleInv /\ CountInv
    BY InitShape, CountInit
  <1>2. TypeOK /\ FrameInv /\ RoleInv /\ CountInv /\ [Next]_vars
          => (TypeOK /\ FrameInv /\ RoleInv /\ CountInv)'
    BY TypeStep, FrameStep, RoleStep, CountStep
  <1>3. CountInv => CountMatchesTable
    <2> SUFFICES ASSUME CountInv, ~OperatorWrote, frame["main"].pc = "idle"
                 PROVE  curr_num_ports = Cardinality(Allocated)
      BY DEF CountMatchesTable
    <2>1. Cardinality(Allocated) \in 0 .. NumPorts
      BY AllocatedFinite DEF Allocated
    <2>2. curr_num_ports = Cardinality(Allocated) + 0
      BY DEF CountInv, Lag
    <2>3. QED
      BY <2>1, <2>2
  <1>4. QED
    BY <1>1, <1>2, <1>3, PTL DEF Spec

-----------------------------------------------------------------------------
(* A step of the main thread's call that leaves the table alone keeps the  *)
(* bookings if what it will hand over or free was nobody's before.         *)
LEMMA BookingKept ==
  ASSUME BookingInv, UNCHANGED <<port_arr, held>>, lapse \subseteq lapse',
         lapse = {} /\ Exclusive =>
           /\ Pending(frame'["main"]) =>
                Unheld(frame'["main"].arr) /\ Marked(frame'["main"]) \subseteq Allocated
           /\ frame'["main"].pc \in Closing => Unheld(frame'["main"].todo)
  PROVE  BookingInv'
  <1> SUFFICES ASSUME lapse' = {} PROVE BookingInv'
    BY DEF BookingInv
  <1>1. lapse = {} /\ Exclusive
    BY DEF BookingInv
  <1>2. Exclusive' /\ Allocated' = Allocated
    BY <1>1 DEF Exclusive, Allocated
  <1>3. ASSUME NEW S PROVE Unheld(S)' <=> Unheld(S')
    BY DEF Unheld
  <1>4. QED
    BY <1>1, <1>2 DEF BookingInv, Unheld, Pending, Marked, Short

(* A scan that ends hands over, or frees, what it had found. *)
LEMMA FetchDoneBooking ==
  ASSUME NEW f \in Frame, f.job \in JoinJobs
  PROVE  LET g == FetchDone(f) IN
         /\ Pending(g) => g.pc = "send" /\ g.arr = f.arr
         /\ g.pc \in Closing => g.todo = f.arr
  <1>1. CASE Short(f)
    BY <1>1 DEF FetchDone, Pending, Closing, Taking, Frame
  <1>2. CASE ~Short(f)
    BY <1>2 DEF FetchDone, Pending, Closing, Taking, Frame
  <1>3. QED
    BY <1>1, <1>2

(* A step of the main thread keeps the bookings exclusive. *)
LEMMA BookingMainStep ==
  ASSUME TypeOK, FrameInv, RoleInv, BookingInv, fetch("main") \/ close("main"),
         lapse' = {}
  PROVE  BookingInv'
  <1> DEFINE m == frame["main"]
             n == frame'["main"]
  <1>0. frame \in [Threads -> Frame] /\ m \in Frame /\ "main" \in Threads
        /\ WellFormed(m) /\ port_arr \in [Ports -> {FREE, ALLOCATED}]
    BY DEF TypeOK, Threads, FrameInv
  <1>a. ASSUME NEW g, Become("main", g) PROVE n = g
    BY <1>0, <1>a DEF Become
  <1>b. lapse = {}
    BY DEF fetch, close, is_no_more_room, fetch_look, fetch_set_port,
       fetch_look_count, fetch_set_count, is_empty, close_look, close_set_port,
       close_look_count, close_set_count
  <1>c. /\ Exclusive
        /\ Pending(m) => Unheld(m.arr) /\ Marked(m) \subseteq Allocated
        /\ m.pc \in Closing => Unheld(m.todo)
    BY <1>b DEF BookingInv
  <1>d. ASSUME is_no_more_room("main") \/ fetch_look("main") \/ fetch_look_count("main")
               \/ fetch_set_count("main") \/ is_empty("main") \/ close_look("main")
               \/ close_look_count("main") \/ close_set_count("main"),
               Pending(n) => Unheld(n.arr) /\ Marked(n) \subseteq Allocated,
               n.pc \in Closing => Unheld(n.todo)
        PROVE  BookingInv'
    <2>1. UNCHANGED <<port_arr, held>>
      BY <1>d DEF is_no_more_room, fetch_look, fetch_look_count, fetch_set_count,
         is_empty, close_look, close_look_count, close_set_count, serviceVars
    <2>2. QED
      BY <1>b, <1>d, <2>1, BookingKept
  <1>e. m.pc \in {"room", "scan"} => m.job \in JoinJobs
    BY <1>0 DEF WellFormed, RoleInv
  <1>1. CASE is_no_more_room("main")
    <2>1. m.pc = "room" /\ m.arr = {} /\ (n = FetchDone(m) \/ n = [m EXCEPT !.pc = "scan"])
      BY <1>0, <1>1, <1>a DEF is_no_more_room, At, WellFormed
    <2>2. Pending(n) => n.arr = {}
      BY <1>0, <1>e, <2>1, FetchDoneBooking DEF Frame
    <2>3. n.pc \in Closing => n.todo = {}
      BY <1>0, <1>e, <2>1, FetchDoneBooking DEF Frame, Closing
    <2>4. QED
      BY <1>1, <1>d, <2>2, <2>3 DEF Unheld, Marked
  <1>2. CASE fetch_look("main")
    <2>1. n = Scanned(m) /\ m.pc = "scan"
      BY <1>2, <1>a DEF fetch_look, At
    <2>2. Unheld(m.arr) /\ m.arr \subseteq Allocated
      BY <1>c, <2>1 DEF Pending, Marked
    <2>3. CASE n = FetchDone(m)
      <3>1. /\ Pending(n) => n.arr = m.arr /\ n.pc = "send"
            /\ n.pc \in Closing => n.todo = m.arr
        BY <1>0, <1>e, <2>1, <2>3, FetchDoneBooking
      <3>2. Pending(n) => Unheld(n.arr) /\ Marked(n) \subseteq Allocated
        BY <2>2, <3>1 DEF Marked
      <3>3. n.pc \in Closing => Unheld(n.todo)
        BY <2>2, <3>1
      <3>4. QED
        BY <1>2, <1>d, <3>2, <3>3
    <2>4. CASE n = [m EXCEPT !.cursor = @ + 1]
      <3>1. n.pc = "scan" /\ n.arr = m.arr
        BY <1>0, <2>1, <2>4 DEF Frame
      <3>2. QED
        BY <1>2, <1>d, <2>2, <3>1 DEF Marked, Closing
    <2>5. CASE n.pc = "take"
      <3>1. /\ n.cursor = m.cursor /\ n.arr = m.arr \cup {m.cursor}
            /\ m.cursor \in Ports /\ port_arr[m.cursor] = FREE
        BY <1>0, <2>1, <2>5, ScannedTake
      <3>2. m.cursor \notin Allocated
        BY <3>1 DEF Allocated, FREE, ALLOCATED
      <3>3. Unheld(n.arr)
        BY <1>c, <2>2, <3>1, <3>2 DEF Exclusive, Unheld
      <3>4. Marked(n) \subseteq Allocated
        BY <2>2, <2>5, <3>1 DEF Marked
      <3>5. QED
        BY <1>2, <1>d, <2>5, <3>3, <3>4 DEF Closing
    <2>6. \/ n = FetchDone(m)
          \/ n = [m EXCEPT !.cursor = @ + 1]
          \/ n = [m EXCEPT !.arr = @ \cup {m.cursor}, !.pc = "take"]
      BY <1>e, <2>1 DEF Scanned
    <2>7. n = [m EXCEPT !.arr = @ \cup {m.cursor}, !.pc = "take"] => n.pc = "take"
      BY <1>0 DEF Frame
    <2>8. QED
      BY <2>3, <2>4, <2>5, <2>6, <2>7
  <1>3. CASE fetch_set_port("main")
    <2>1. m.pc = "take" /\ m.cursor \in Ports
      BY <1>0, <1>3 DEF fetch_set_port, At, WellFormed, Taking
    <2>2. n.pc = "inc_look" /\ n.arr = m.arr
      BY <1>0, <1>3, <1>a DEF fetch_set_port, Goto, Frame
    <2>3. Allocated' = Allocated \cup {m.cursor}
      BY <1>0, <1>3, <2>1 DEF fetch_set_port, Allocated, FREE, ALLOCATED
    <2>4. held' = held
      BY <1>3 DEF fetch_set_port, serviceVars
    <2>5. Exclusive'
      BY <1>c, <2>3, <2>4 DEF Exclusive
    <2>6. Unheld(m.arr) /\ Marked(m) \subseteq Allocated
      BY <1>c, <2>1 DEF Pending, Taking
    <2>7. \A s \in Services : n.arr \cap held'[s] = {}
      BY <2>2, <2>4, <2>6 DEF Unheld
    <2>8. n.pc # "take" /\ n.arr \subseteq Allocated'
      BY <2>1, <2>2, <2>3, <2>6 DEF Marked
    <2>9. n.pc \notin Closing
      BY <2>2 DEF Closing
    <2>10. QED
      BY <2>5, <2>7, <2>8, <2>9 DEF BookingInv, Marked, Unheld
  <1>4. CASE fetch_look_count("main") \/ fetch_set_count("main")
    <2>1. m.pc \in {"inc_look", "inc_set"} /\ n.pc \in {"inc_set", "scan"} /\ n.arr = m.arr
      BY <1>0, <1>4, <1>a DEF fetch_look_count, fetch_set_count, At, Frame
    <2>2. Unheld(m.arr) /\ Marked(m) \subseteq Allocated
      BY <1>c, <2>1 DEF Pending, Taking
    <2>3. QED
      BY <1>4, <1>d, <2>1, <2>2 DEF Marked, Closing
  <1>5. ASSUME m.pc \in {"empty", "close"}, n = CloseDone(m)
        PROVE  ~Pending(n) /\ n.pc \notin Closing
    <2>1. CASE m.job \in JoinJobs
      <3>1. Short(m) /\ n.pc = "send" /\ n.job = m.job /\ n.arr = m.arr
        BY <1>0, <1>5, <2>1 DEF CloseDone, WellFormed, Closing, Frame
      <3>2. QED
        BY <3>1 DEF Pending, Short, Closing, Taking
    <2>2. CASE m.job \notin JoinJobs
      BY <1>5, <2>2 DEF CloseDone, IdleFrame, Pending, Closing, Taking
    <2>3. QED
      BY <2>1, <2>2
  <1>6. CASE is_empty("main") \/ close_look("main") \/ close_look_count("main")
             \/ close_set_count("main")
    <2>1. m.pc \in Closing /\ Unheld(m.todo)
      BY <1>6, <1>c DEF is_empty, close_look, close_look_count, close_set_count, At, Closing
    <2>2. CASE m.pc \in {"empty", "close"} /\ n = CloseDone(m)
      BY <1>5, <1>6, <1>d, <2>2
    <2>3. CASE n.pc \in Closing /\ n.todo \subseteq m.todo
      <3>1. Unheld(n.todo) /\ ~Pending(n)
        BY <2>1, <2>3 DEF Unheld, Pending, Closing, Taking
      <3>2. QED
        BY <1>6, <1>d, <3>1
    <2>4. \/ m.pc \in {"empty", "close"} /\ n = CloseDone(m)
          \/ n.pc \in Closing /\ n.todo \subseteq m.todo
      <3>1. CASE is_empty("main")
        BY <1>0, <1>a, <3>1 DEF is_empty, At, Closing, Frame
      <3>2. CASE close_look("main")
        BY <1>0, <1>a, <3>2 DEF close_look, Visited, At, Closing, Frame
      <3>3. CASE close_look_count("main")
        BY <1>0, <1>a, <3>3 DEF close_look_count, Closing, Frame
      <3>4. CASE close_set_count("main")
        <4>1. n = [m EXCEPT !.todo = @ \ {Lowest(m.todo)}, !.seen = 0, !.pc = "close"]
          BY <1>a, <3>4 DEF close_set_count
        <4>2. n.pc = "close" /\ n.todo = m.todo \ {Lowest(m.todo)}
          BY <1>0, <4>1 DEF Frame
        <4>3. QED
          BY <4>2 DEF Closing
      <3>5. QED
        BY <1>6, <3>1, <3>2, <3>3, <3>4
    <2>5. QED
      BY <2>2, <2>3, <2>4
  <1>7. CASE close_set_port("main")
    <2>1. m.pc = "free" /\ m.todo # {} /\ m.todo \in SUBSET Ports
      BY <1>0, <1>7 DEF close_set_port, At, WellFormed, Freeing, Frame
    <2>2. Lowest(m.todo) \in m.todo /\ Lowest(m.todo) \in Ports
      BY <2>1, LowestInSet
    <2>3. Unheld(m.todo)
      BY <1>c, <2>1 DEF Closing
    <2>4. n.pc = "dec_look" /\ n.todo = m.todo
      BY <1>0, <1>7, <1>a DEF close_set_port, Goto, Frame
    <2>5. Allocated' = Allocated \ {Lowest(m.todo)}
      BY <1>0, <1>7, <2>2 DEF close_set_port, Allocated, FREE, ALLOCATED
    <2>6. held' = held
      BY <1>7 DEF close_set_port, serviceVars
    <2>7. Exclusive'
      BY <1>c, <2>2, <2>3, <2>5, <2>6 DEF Exclusive, Unheld
    <2>8. \A s \in Services : n.todo \cap held'[s] = {}
      BY <2>3, <2>4, <2>6 DEF Unheld
    <2>9. n.pc \notin {"scan", "send"} \cup Taking
      BY <2>4 DEF Taking
    <2>10. QED
      BY <2>7, <2>8, <2>9 DEF BookingInv, Pending, Unheld
  <1>8. QED
    BY <1>1, <1>2, <1>3, <1>4, <1>6, <1>7 DEF fetch, close

(* Every step keeps the bookings exclusive. *)
LEMMA BookingStep ==
  ASSUME TypeOK, FrameInv, RoleInv, BookingInv, [Next]_vars
  PROVE  BookingInv'
  <1> SUFFICES ASSUME lapse' = {} PROVE BookingInv'
    BY DEF BookingInv
  <1> DEFINE m == frame["main"]
             n == frame'["main"]
  <1>0. frame \in [Threads -> Frame] /\ {"main", "input"} = Threads
        /\ held \in [Services -> SUBSET Ports]
    BY DEF TypeOK, Threads
  <1>a. IdleFrame.pc = "idle"
    BY DEF IdleFrame
  <1>b. ASSUME n.pc \in {"idle", "room"}, Exclusive' PROVE BookingInv'
    BY <1>b DEF BookingInv, Pending, Closing, Taking
  <1>c. ~OperatorWrote'
    BY DEF OperatorWrote
  <1>1. CASE fetch("main") \/ close("main")
    BY <1>1, BookingMainStep
  <1>2. CASE fetch("input") \/ close("input") \/ operator
    <2>1. UNCHANGED <<port_arr, held, lapse>> /\ n = m
      BY <1>2, <1>c, InputQuiet
    <2>2. QED
      BY <2>1, BookingKept DEF BookingInv
  <1>3. ASSUME NEW s \in Services, join(s) PROVE BookingInv'
    <2>1. n.pc = "room"
      BY <1>0, <1>3 DEF join, Serve, Become, IdleFrame
    <2>2. Exclusive'
      BY <1>3 DEF join, serviceVars, BookingInv, Exclusive, Allocated
    <2>3. QED
      BY <1>b, <2>1, <2>2
  <1>4. ASSUME NEW s \in Services, NEW j \in LeaveJobs, NEW S \in SUBSET held[s],
               lapse = {}, Serve(s, j, S, "empty"), port_arr' = port_arr,
               held' = [held EXCEPT ![s] = @ \ S]
        PROVE  BookingInv'
    <2>1. n = [IdleFrame EXCEPT !.pc = "empty", !.job = j, !.client = s,
                                !.arr = S, !.todo = S]
      BY <1>0, <1>4 DEF Serve, Become
    <2>2. n.pc = "empty" /\ n.todo = S
      BY <2>1 DEF IdleFrame
    <2>3. Exclusive
      BY <1>4 DEF BookingInv
    <2>4. \A u \in Services : held'[u] \subseteq held[u] /\ S \cap held'[u] = {}
      BY <1>0, <1>4, <2>3 DEF Exclusive
    <2>5. Exclusive'
      BY <1>4, <2>3, <2>4 DEF Exclusive, Allocated
    <2>6. QED
      BY <2>2, <2>4, <2>5 DEF BookingInv, Pending, Taking, Unheld
  <1>5. ASSUME NEW s \in Services, leave(s) PROVE BookingInv'
    <2>1. PICK S \in SUBSET held[s] : /\ Serve(s, "leave", S, "empty")
                                      /\ held' = [held EXCEPT ![s] = @ \ S]
      BY <1>5 DEF leave
    <2>2. "leave" \in LeaveJobs /\ lapse = {} /\ port_arr' = port_arr
      BY <1>5 DEF leave, LeaveJobs
    <2>3. QED
      BY <1>4, <2>1, <2>2
  <1>6. ASSUME NEW s \in Services, awkward_leave(s) PROVE BookingInv'
    <2>1. PICK p \in held[s] : /\ Serve(s, "awkward_leave", {p}, "empty")
                               /\ held' = [held EXCEPT ![s] = @ \ {p}]
      BY <1>6 DEF awkward_leave
    <2>2. /\ "awkward_leave" \in LeaveJobs /\ lapse = {} /\ port_arr' = port_arr
          /\ {p} \in SUBSET held[s]
      BY <1>6 DEF awkward_leave, LeaveJobs
    <2>3. QED
      BY <1>4, <2>1, <2>2
  <1>7. ASSUME NEW s \in Services, awkward_leave_again(s) PROVE BookingInv'
    BY <1>7 DEF awkward_leave_again
  <1>8. ASSUME NEW s \in Services, send_ports(s) \/ no_ack(s) PROVE BookingInv'
    <2>1. m.pc = "send" /\ n.pc = "idle" /\ port_arr' = port_arr
      BY <1>0, <1>8, <1>a DEF send_ports, no_ack, At, Become
    <2>2. lapse = {}
      BY <1>8 DEF send_ports, no_ack, Deliver
    <2>3. /\ Exclusive
          /\ Pending(m) => Unheld(m.arr) /\ Marked(m) \subseteq Allocated
      BY <2>2 DEF BookingInv
    <2>4. Allocated' = Allocated
      BY <2>1 DEF Allocated
    <2>5. CASE Deliver(s)
      <3>1. ~Short(m) \/ m.arr = {}
        BY <2>5 DEF Deliver
      <3>2. Unheld(m.arr) /\ m.arr \subseteq Allocated
        BY <2>1, <2>3, <3>1 DEF Pending, Unheld, Marked
      <3>3. held' = [held EXCEPT ![s] = @ \cup m.arr]
        BY <2>5 DEF Deliver
      <3>4. \A u \in Services : held'[u] = IF u = s THEN held[u] \cup m.arr ELSE held[u]
        BY <1>0, <3>3
      <3>5. Exclusive'
        BY <2>3, <2>4, <3>2, <3>4 DEF Exclusive, Unheld
      <3>6. QED
        BY <1>b, <2>1, <3>5
    <2>6. CASE held' = held
      BY <1>b, <2>1, <2>3, <2>4, <2>6 DEF Exclusive
    <2>7. QED
      BY <1>8, <2>5, <2>6 DEF send_ports, no_ack
  <1>9. ASSUME NEW s \in Services, forget(s) PROVE BookingInv'
    <2>1. PICK S \in SUBSET held[s] : held' = [held EXCEPT ![s] = @ \ S]
      BY <1>9 DEF forget
    <2>2. \A u \in Services : held'[u] \subseteq held[u]
      BY <1>0, <2>1
    <2>3. n = m /\ Allocated' = Allocated /\ lapse = {}
      BY <1>9 DEF forget, Allocated
    <2>4. Exclusive'
      BY <2>2, <2>3 DEF BookingInv, Exclusive
    <2>5. QED
      BY <2>2, <2>3, <2>4 DEF BookingInv, Unheld, Pending, Marked, Short
  <1>10. CASE exit_mapper
    <2>1. n.pc = "idle"
      BY <1>0, <1>10, <1>a DEF exit_mapper
    <2>2. Exclusive'
      BY <1>10 DEF exit_mapper, serviceVars, BookingInv, Exclusive, Allocated
    <2>3. QED
      BY <1>b, <2>1, <2>2
  <1>11. CASE launch
    <2>1. n.pc = "idle"
      BY <1>0, <1>11, <1>a DEF launch, RoleInv
    <2>2. lapse = {} /\ UNCHANGED <<port_arr, held>>
      BY <1>11 DEF launch, serviceVars
    <2>3. Exclusive'
      BY <2>2 DEF BookingInv, Exclusive, Allocated
    <2>4. QED
      BY <1>b, <2>1, <2>3
  <1>12. CASE UNCHANGED vars
    BY <1>12, BookingKept DEF vars, BookingInv
  <1>13. QED
    BY <1>0, <1>1, <1>2, <1>3, <1>5, <1>6, <1>7, <1>8, <1>9, <1>10, <1>11, <1>12
       DEF Next, request

(* No port is in two hands, and none in use is marked free, for any number *)
(* of services and ports, as long as none of the five lapses happens.      *)
THEOREM BookingCorrect == Spec => []ExclusiveBooking
  <1>1. Init => TypeOK /\ FrameInv /\ RoleInv /\ BookingInv
    <2>1. Init => BookingInv
      BY DEF Init, BookingInv, Exclusive, Pending, Closing, Taking, IdleFrame, Threads
    <2>2. QED
      BY <2>1, InitShape
  <1>2. TypeOK /\ FrameInv /\ RoleInv /\ BookingInv /\ [Next]_vars
          => (TypeOK /\ FrameInv /\ RoleInv /\ BookingInv)'
    BY TypeStep, FrameStep, RoleStep, BookingStep
  <1>3. BookingInv => ExclusiveBooking
    BY DEF BookingInv, ExclusiveBooking
  <1>4. QED
    BY <1>1, <1>2, <1>3, PTL DEF Spec

-----------------------------------------------------------------------------
(* A mapper that is not up takes no step but a launch. *)
LEMMA DownSteps ==
  ASSUME [Next]_vars, mode # "up"
  PROVE  launch \/ UNCHANGED <<mode, running, file, port_arr, curr_num_ports, frame>>
  BY DEF Next, fetch, close, request, operator, is_no_more_room, fetch_look,
     fetch_set_port, fetch_look_count, fetch_set_count, is_empty, close_look,
     close_set_port, close_look_count, close_set_count, join, leave, awkward_leave,
     awkward_leave_again, Accepting, send_ports, no_ack, forget, port_mapper_print,
     kill_port, Command, stop_mapper, exit_mapper, At, mapperVars, vars

(* Every step keeps the file of an orderly stop. *)
LEMMA FileStep ==
  ASSUME FileInv, [Next]_vars
  PROVE  FileInv'
  <1> SUFFICES ASSUME mode' = "stopped", UseFile, ~RemoveOnExit
               PROVE  file' = <<[arr |-> port_arr', num |-> curr_num_ports']>>
    BY DEF FileInv
  <1>1. CASE mode # "up"
    BY <1>1, DownSteps DEF FileInv, launch
  <1>2. CASE mode = "up"
    <2>1. exit_mapper
      BY <1>2 DEF Next, fetch, close, request, operator, is_no_more_room, fetch_look,
         fetch_set_port, fetch_look_count, fetch_set_count, is_empty, close_look,
         close_set_port, close_look_count, close_set_count, join, leave, awkward_leave,
         awkward_leave_again, send_ports, no_ack, forget, port_mapper_print,
         kill_port, Command, stop_mapper, launch, mapperVars, vars
    <2>2. QED
      BY <2>1 DEF exit_mapper, save_port_mapper_file
  <1>3. QED
    BY <1>1, <1>2

(* After an orderly stop the next launch restores table and counter. *)
THEOREM StopIsRemembered == Spec => RememberedAfterStop
  <1>1. Init => FileInv
    BY DEF Init, FileInv
  <1>2. FileInv /\ [Next]_vars => FileInv'
    BY FileStep
  <1>3. FileInv /\ [Next]_vars =>
          [ /\ mode = "stopped" /\ mode' = "up" /\ UseFile /\ ~RemoveOnExit
            => port_arr' = port_arr /\ curr_num_ports' = curr_num_ports ]_vars
    <2> SUFFICES ASSUME FileInv, [Next]_vars, mode = "stopped", mode' = "up",
                        UseFile, ~RemoveOnExit
                 PROVE  port_arr' = port_arr /\ curr_num_ports' = curr_num_ports
      OBVIOUS
    <2>1. launch
      BY DownSteps
    <2>2. file = <<[arr |-> port_arr, num |-> curr_num_ports]>>
      BY DEF FileInv
    <2>3. file # <<>> /\ file[1].arr = port_arr /\ file[1].num = curr_num_ports
      BY <2>2
    <2>4. QED
      BY <2>1, <2>3 DEF launch, fetch_port_mapper_file
  <1>4. QED
    BY <1>1, <1>2, <1>3, PTL DEF Spec, RememberedAfterStop

-----------------------------------------------------------------------------
(* The walk of a LEAVE frees what it was sent. *)
LEMMA ReturnMainStep ==
  ASSUME TypeOK, FrameInv, RoleInv, CountInv, ReturnInv, fetch("main") \/ close("main"),
         ~OperatorWrote', frame["main"].job \in LeaveJobs
  PROVE  /\ ReturnInv'
         /\ frame'["main"].job = "none" =>
              \A p \in frame["main"].arr : port_arr'[p] = FREE
  <1> DEFINE m == frame["main"]
             n == frame'["main"]
  <1>0. frame \in [Threads -> Frame] /\ m \in Frame /\ "main" \in Threads
        /\ WellFormed(m) /\ port_arr \in [Ports -> {FREE, ALLOCATED}]
        /\ m.arr \in SUBSET Ports /\ m.todo \in SUBSET Ports
    BY DEF TypeOK, Threads, FrameInv, Frame
  <1>a. ASSUME NEW g, Become("main", g) PROVE n = g
    BY <1>0, <1>a DEF Become
  <1>b. ~OperatorWrote
    BY DEF fetch, close, is_no_more_room, fetch_look, fetch_set_port,
       fetch_look_count, fetch_set_count, is_empty, close_look, close_set_port,
       close_look_count, close_set_count, OperatorWrote
  <1>c. m.pc \in Closing /\ Returned(m) \cap Allocated = {}
    BY <1>b DEF ReturnInv
  <1>d. m.job \notin JoinJobs /\ m.job # "none"
    BY DEF JoinJobs, LeaveJobs
  <1>e. ASSUME n.job = m.job, n.pc \in Closing, Returned(n) \cap Allocated' = {}
        PROVE  ReturnInv' /\ n.job # "none"
    BY <1>d, <1>e DEF ReturnInv, Returned
  <1>f. ASSUME n = IdleFrame PROVE ReturnInv' /\ n.job = "none"
    BY <1>f DEF IdleFrame, ReturnInv, LeaveJobs
  <1>g. CloseDone(m) = IdleFrame
    BY <1>d DEF CloseDone
  <1>h. ASSUME NEW p \in Ports, p \notin Allocated PROVE port_arr[p] = FREE
    BY <1>0, <1>h DEF Allocated
  <1>1. CASE is_empty("main")
    <2>0. m.pc = "empty" /\ UNCHANGED <<port_arr, Allocated>>
      BY <1>1 DEF is_empty, At, Allocated
    <2>1. CASE curr_num_ports = 0
      <3>1. n = IdleFrame
        BY <1>1, <1>a, <1>g, <2>1 DEF is_empty
      <3>2. Cardinality(Allocated) = 0 /\ IsFiniteSet(Allocated)
        <4>1. Cardinality(Allocated) \in 0 .. NumPorts /\ IsFiniteSet(Allocated)
          BY AllocatedFinite DEF Allocated
        <4>2. 0 = Cardinality(Allocated) + 0
          BY <1>b, <2>0, <2>1 DEF CountInv, Lag
        <4>3. QED
          BY <4>1, <4>2
      <3>3. Allocated = {}
        BY <3>2, FS_EmptySet
      <3>4. QED
        BY <1>0, <1>f, <1>h, <2>0, <3>1, <3>3
    <2>2. CASE curr_num_ports # 0
      <3>1. n = [m EXCEPT !.pc = "close"]
        BY <1>1, <1>a, <2>2 DEF is_empty
      <3>2. n.pc = "close" /\ n.job = m.job /\ n.arr = m.arr /\ n.todo = m.todo
        BY <1>0, <3>1 DEF Frame
      <3>3. Returned(n) = Returned(m)
        BY <2>0, <3>2 DEF Returned
      <3>4. QED
        BY <1>c, <1>e, <2>0, <3>2, <3>3 DEF Closing
    <2>3. QED
      BY <2>1, <2>2
  <1>2. CASE close_look("main")
    <2>0. m.pc = "close" /\ n = Visited(m) /\ UNCHANGED <<port_arr, Allocated>>
      BY <1>2, <1>a DEF close_look, At, Allocated
    <2>1. CASE m.todo = {}
      <3>1. n = IdleFrame
        BY <1>g, <2>0, <2>1 DEF Visited
      <3>2. m.arr \cap Allocated = {}
        BY <1>c, <2>0, <2>1 DEF Returned
      <3>3. QED
        BY <1>0, <1>f, <1>h, <2>0, <3>1, <3>2
    <2>2. CASE m.todo # {} /\ port_arr[Lowest(m.todo)] = ALLOCATED
      <3>1. n = [m EXCEPT !.pc = "free"]
        BY <2>0, <2>2 DEF Visited
      <3>2. n.pc = "free" /\ n.job = m.job /\ n.arr = m.arr /\ n.todo = m.todo
        BY <1>0, <3>1 DEF Frame
      <3>3. Returned(n) = Returned(m)
        BY <2>0, <3>2 DEF Returned
      <3>4. QED
        BY <1>c, <1>e, <2>0, <3>2, <3>3 DEF Closing
    <2>3. CASE m.todo # {} /\ port_arr[Lowest(m.todo)] # ALLOCATED
      <3>1. n = [m EXCEPT !.todo = @ \ {Lowest(m.todo)}]
        BY <2>0, <2>3 DEF Visited
      <3>2. n.pc = "close" /\ n.job = m.job /\ n.arr = m.arr
            /\ n.todo = m.todo \ {Lowest(m.todo)}
        BY <1>0, <2>0, <3>1 DEF Frame
      <3>3. Returned(n) \subseteq Returned(m) \cup {Lowest(m.todo)}
        BY <2>0, <3>2 DEF Returned
      <3>4. Lowest(m.todo) \notin Allocated
        BY <2>3 DEF Allocated
      <3>5. Returned(n) \cap Allocated' = {}
        BY <1>c, <2>0, <3>3, <3>4
      <3>6. QED
        BY <1>e, <3>2, <3>5 DEF Closing
    <2>4. QED
      BY <2>1, <2>2, <2>3
  <1>3. CASE close_set_port("main")
    <2>1. m.pc = "free" /\ m.todo # {}
      BY <1>0, <1>3 DEF close_set_port, At, WellFormed, Freeing
    <2>2. Lowest(m.todo) \in m.todo /\ Lowest(m.todo) \in Ports
      BY <1>0, <2>1, LowestInSet
    <2>3. n.pc = "dec_look" /\ n.job = m.job /\ n.arr = m.arr /\ n.todo = m.todo
      BY <1>0, <1>3, <1>a DEF close_set_port, Goto, Frame
    <2>4. Allocated' = Allocated \ {Lowest(m.todo)}
      BY <1>0, <1>3, <2>2 DEF close_set_port, Allocated, FREE, ALLOCATED
    <2>5. Returned(n) \subseteq Returned(m) \cup {Lowest(m.todo)}
      BY <2>1, <2>3 DEF Returned
    <2>6. Returned(n) \cap Allocated' = {}
      BY <1>c, <2>4, <2>5
    <2>7. QED
      BY <1>e, <2>3, <2>6 DEF Closing
  <1>4. CASE close_look_count("main")
    <2>0. m.pc = "dec_look" /\ Allocated' = Allocated
      BY <1>4 DEF close_look_count, At, Allocated
    <2>1. n.pc = "dec_set" /\ n.job = m.job /\ n.arr = m.arr /\ n.todo = m.todo
      BY <1>0, <1>4, <1>a DEF close_look_count, Frame
    <2>2. Returned(n) = Returned(m)
      BY <2>0, <2>1 DEF Returned
    <2>3. QED
      BY <1>c, <1>e, <2>0, <2>1, <2>2 DEF Closing
  <1>5. CASE close_set_count("main")
    <2>0. m.pc = "dec_set" /\ Allocated' = Allocated
      BY <1>5 DEF close_set_count, At, Allocated
    <2>1. n = [m EXCEPT !.todo = @ \ {Lowest(m.todo)}, !.seen = 0, !.pc = "close"]
      BY <1>5, <1>a DEF close_set_count
    <2>2. n.pc = "close" /\ n.job = m.job /\ n.arr = m.arr
          /\ n.todo = m.todo \ {Lowest(m.todo)}
      BY <1>0, <2>1 DEF Frame
    <2>3. Returned(n) = Returned(m)
      BY <2>0, <2>2 DEF Returned
    <2>4. QED
      BY <1>c, <1>e, <2>0, <2>2, <2>3 DEF Closing
  <1>6. ~fetch("main")
    BY <1>c DEF fetch, is_no_more_room, fetch_look, fetch_set_port, fetch_look_count,
       fetch_set_count, At, Closing
  <1>7. QED
    BY <1>1, <1>2, <1>3, <1>4, <1>5, <1>6 DEF close

(* Every step keeps the visited ports of a LEAVE free. *)
LEMMA ReturnStep ==
  ASSUME TypeOK, FrameInv, RoleInv, CountInv, ReturnInv, [Next]_vars
  PROVE  ReturnInv'
  <1> SUFFICES ASSUME ~OperatorWrote', frame'["main"].job \in LeaveJobs PROVE ReturnInv'
    BY DEF ReturnInv
  <1> DEFINE m == frame["main"]
             n == frame'["main"]
  <1>0. frame \in [Threads -> Frame] /\ {"main", "input"} = Threads
    BY DEF TypeOK, Threads
  <1>a. IdleFrame.job \notin LeaveJobs
    BY DEF IdleFrame, LeaveJobs
  <1>b. ASSUME n = m, port_arr' = port_arr, ~OperatorWrote PROVE ReturnInv'
    BY <1>b DEF ReturnInv, Allocated
  <1>1. CASE fetch("main") \/ close("main")
    <2>1. PICK g : Moves("main", g) /\ Become("main", g)
      BY <1>0, <1>1, CallStep
    <2>2. n = g /\ n.job \in {m.job, "none"}
      BY <1>0, <2>1 DEF Become, Moves
    <2>3. m.job \in LeaveJobs
      BY <2>2 DEF LeaveJobs
    <2>4. QED
      BY <1>1, <2>3, ReturnMainStep
  <1>2. CASE fetch("input") \/ close("input") \/ operator
    BY <1>2, <1>b, InputQuiet
  <1>3. ASSUME NEW s \in Services, request(s) PROVE ReturnInv'
    <2>1. PICK S \in SUBSET Ports :
            \/ \E j \in JoinJobs : Serve(s, j, {}, "room")
            \/ \E j \in LeaveJobs : Serve(s, j, S, "empty")
      BY <1>3, RequestServes
    <2>2. CASE \E j \in JoinJobs : Serve(s, j, {}, "room")
      <3>1. n.job \in JoinJobs
        BY <1>0, <2>2 DEF Serve, Become, IdleFrame
      <3>2. QED
        BY <3>1 DEF JoinJobs, LeaveJobs
    <2>3. CASE \E j \in LeaveJobs : Serve(s, j, S, "empty")
      <3>1. PICK j \in LeaveJobs :
              n = [IdleFrame EXCEPT !.pc = "empty", !.job = j, !.client = s,
                                    !.arr = S, !.todo = S]
        BY <1>0, <2>3 DEF Serve, Become
      <3>2. n.pc = "empty" /\ n.arr = S /\ n.todo = S
        BY <3>1 DEF IdleFrame
      <3>3. Returned(n) = {}
        BY <3>2 DEF Returned
      <3>4. QED
        BY <3>2, <3>3 DEF ReturnInv, Returned, Closing
    <2>4. QED
      BY <2>1, <2>2, <2>3
  <1>4. ASSUME NEW s \in Services, send_ports(s) \/ no_ack(s) PROVE ReturnInv'
    BY <1>0, <1>4, <1>a DEF send_ports, no_ack, Become
  <1>5. ASSUME NEW s \in Services, forget(s) PROVE ReturnInv'
    BY <1>5, <1>b DEF forget, OperatorWrote
  <1>6. CASE exit_mapper
    BY <1>0, <1>6, <1>a DEF exit_mapper
  <1>7. CASE launch
    BY <1>0, <1>7, <1>a DEF launch, RoleInv
  <1>8. CASE UNCHANGED vars
    BY <1>8, <1>b DEF vars, OperatorWrote
  <1>9. QED
    BY <1>0, <1>1, <1>2, <1>3, <1>4, <1>5, <1>6, <1>7, <1>8 DEF Next

(* A served LEAVE or AWKWARD_LEAVE leaves its ports free: the early return *)
(* on a counter of zero never swallows one.                                *)
THEOREM ReturnCorrect == Spec => ReturnFreesPorts
  <1> DEFINE Inv == TypeOK /\ FrameInv /\ RoleInv /\ CountInv /\ ReturnInv
  <1>1. Init => Inv
    <2>1. Init => ReturnInv
      BY DEF Init, ReturnInv, IdleFrame, Threads, LeaveJobs
    <2>2. QED
      BY <2>1, InitShape, CountInit
  <1>2. Inv /\ [Next]_vars => Inv'
    BY TypeStep, FrameStep, RoleStep, CountStep, ReturnStep
  <1>3. Inv /\ [Next]_vars =>
          [ /\ frame["main"].job \in LeaveJobs /\ frame'["main"].job = "none"
            /\ ~OperatorWrote
            => \A p \in frame["main"].arr : port_arr'[p] = FREE ]_vars
    <2> SUFFICES ASSUME Inv, [Next]_vars, frame["main"].job \in LeaveJobs,
                        frame'["main"].job = "none", ~OperatorWrote
                 PROVE  \A p \in frame["main"].arr : port_arr'[p] = FREE
      OBVIOUS
    <2>0. frame \in [Threads -> Frame] /\ {"main", "input"} = Threads
      BY DEF TypeOK, Threads
    <2>1. frame["main"].pc \in Closing
      BY DEF ReturnInv
    <2>2. frame["main"].job # "none" /\ frame'["main"] # frame["main"]
      BY DEF LeaveJobs
    <2>3. mode = "up"
      BY <2>0, <2>2 DEF RoleInv, IdleFrame
    <2>4. fetch("main") \/ close("main")
      <3>1. ~(fetch("input") \/ close("input"))
        <4>1. SUFFICES ASSUME fetch("input") \/ close("input")
                       PROVE  frame'["main"] = frame["main"]
          BY <2>2
        <4>2. PICK g : Become("input", g)
          BY <2>0, <4>1, CallStep
        <4>3. QED
          BY <2>0, <4>2 DEF Become
      <3>2. ~operator
        BY <2>0, <2>2 DEF operator, port_mapper_print, kill_port, stop_mapper, Command,
           Become, Goto
      <3>3. ASSUME NEW s \in Services, request(s) \/ send_ports(s) \/ no_ack(s) \/ forget(s)
            PROVE  FALSE
        BY <2>1, <2>2, <3>3 DEF request, join, leave, awkward_leave, awkward_leave_again,
           Accepting, send_ports, no_ack, forget, At, Closing
      <3>4. ~exit_mapper /\ ~launch
        BY <2>1, <2>3 DEF exit_mapper, launch, At, Closing
      <3>5. ~UNCHANGED vars
        BY <2>2 DEF vars
      <3>6. QED
        BY <2>0, <3>1, <3>2, <3>3, <3>4, <3>5 DEF Next
    <2>5. ~OperatorWrote'
      BY <2>4 DEF fetch, close, is_no_more_room, fetch_look, fetch_set_port,
         fetch_look_count, fetch_set_count, is_empty, close_look, close_set_port,
         close_look_count, close_set_count, OperatorWrote, LeaveJobs
    <2>6. QED
      BY <2>4, <2>5, ReturnMainStep
  <1>4. QED
    BY <1>1, <1>2, <1>3, PTL DEF Spec, ReturnFreesPorts

=============================================================================
