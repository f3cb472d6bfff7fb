----------------------------- MODULE PortMapper -----------------------------
(***************************************************************************)
(* The port mapper (code/port_mapper): one process that lends TCP ports to *)
(* every other service.  Two of its threads touch the port table:          *)
(*                                                                         *)
(*   "main"   port_mapper_main_loop, which serves one accepted connection  *)
(*            at a time (JOIN, AWKWARD_JOIN, LEAVE, AWKWARD_LEAVE);        *)
(*   "input"  port_mapper_input_loop, which runs the operator's commands   *)
(*            ('p' print, 'k' kill a port, 's' stop).                      *)
(*                                                                         *)
(* Every access to port_arr and to curr_num_ports is one acess_var_mtx     *)
(* call: a single look or a single set under a mutex.  Nothing protects a  *)
(* look followed by a set, so each look and each set is a step of its own  *)
(* here, and the two threads interleave between them.                      *)
(*                                                                         *)
(* Ports are numbered from 0: port p stands for cfg_init_port + p.  A      *)
(* port_array is the set of its ports; the code fills and walks it in      *)
(* ascending order, which is the order used here.                          *)
(***************************************************************************)
EXTENDS Integers, FiniteSets

CONSTANTS
  Services,     \* the programs that borrow ports
  NoOne,        \* stands for "no service"
  NumPorts,     \* cfg_num_ports, a uint16_t
  UintMod,      \* 2^16: arithmetic on a uint16_t wraps there
  Give,         \* NUM_PORTS_TO_GIVE
  UseFile,      \* cfg_port_mapper_use_port_mapper_file
  RemoveOnExit  \* cfg_port_mapper_remove_port_file_on_exit

ASSUME PortMapperAssumption ==
  /\ NumPorts \in Nat \ {0}
  /\ UintMod \in Nat /\ NumPorts < UintMod
  /\ Give \in Nat \ {0}
  /\ NoOne \notin Services
  /\ UseFile \in BOOLEAN
  /\ RemoveOnExit \in BOOLEAN

Ports   == 0 .. NumPorts - 1
Uint16  == 0 .. UintMod - 1
FREE      == 0
ALLOCATED == 1

Threads == {"main", "input"}

VARIABLES
  mode,            \* "up", "stopped" (left through port_mapper_init's end), "killed"
  running,         \* the loops' flag
  port_arr,        \* mapper.port_arr
  curr_num_ports,  \* mapper.curr_num_ports, a uint16_t
  frame,           \* the locals of the call each thread is in
  file,            \* the port mapper file: <<>> or <<[arr, num]>>
  held,            \* held[s]: the ports service s believes it may use
  again,           \* the port returned on its own last, if it will be returned again
  lapse            \* history: why the table may no longer match `held'

vars == <<mode, running, port_arr, curr_num_ports, frame, file, held, again, lapse>>

mapperVars  == <<mode, running, file>>
serviceVars == <<held, again>>

-----------------------------------------------------------------------------
(* The call a thread is in: which request or command (job), for whom, the  *)
(* scan position, the array being filled or emptied, the ports close_ports *)
(* has still to visit, and the value of curr_num_ports read last.          *)

JoinJobs  == {"join", "awkward_join"}
LeaveJobs == {"leave", "awkward_leave"}
Jobs == JoinJobs \cup LeaveJobs \cup {"print", "kill", "none"}
Steps == {"idle", "room", "scan", "take", "inc_look", "inc_set",
          "empty", "close", "free", "dec_look", "dec_set", "send", "gone"}

Frame == [pc : Steps, job : Jobs, client : Services \cup {NoOne},
          cursor : 0 .. NumPorts, arr : SUBSET Ports, todo : SUBSET Ports,
          seen : Uint16]

IdleFrame == [pc |-> "idle", job |-> "none", client |-> NoOne, cursor |-> 0,
              arr |-> {}, todo |-> {}, seen |-> 0]

Lowest(S) == CHOOSE p \in S : \A q \in S : p <= q

(* How many ports the fetch of a job wants. *)
Wanted(job) == IF job = "awkward_join" THEN 1 ELSE Give

At(t, step) == mode = "up" /\ frame[t].pc = step

Become(t, f) == frame' = [frame EXCEPT ![t] = f]
Goto(t, step) == Become(t, [frame[t] EXCEPT !.pc = step])

(* What follows the scan of fetch_ports_to_give and                        *)
(* fetch_single_port_to_give.  A fetch of Give ports that found fewer      *)
(* closes the ones it found; whatever happened, the array is then sent.    *)
(* The result of the fetch is not looked at by any caller.                 *)
Short(f) == f.job # "awkward_join" /\ Cardinality(f.arr) # Give

FetchDone(f) ==
  IF Short(f) THEN [f EXCEPT !.pc = "empty", !.todo = f.arr, !.cursor = 0]
  ELSE IF f.job \in JoinJobs THEN [f EXCEPT !.pc = "send", !.cursor = 0]
  ELSE IdleFrame

(* What follows close_ports and close_single_port. *)
CloseDone(f) == IF f.job \in JoinJobs THEN [f EXCEPT !.pc = "send"] ELSE IdleFrame

-----------------------------------------------------------------------------
(* fetch_ports_to_give(arr, actually_change) and                           *)
(* fetch_single_port_to_give(port, actually_change).  Only the 'p' command *)
(* passes actually_change = 0.                                             *)

is_no_more_room(t) ==
  /\ At(t, "room")
  /\ Become(t, IF curr_num_ports >= NumPorts THEN FetchDone(frame[t])
               ELSE [frame[t] EXCEPT !.pc = "scan"])
  /\ UNCHANGED <<mapperVars, serviceVars, port_arr, curr_num_ports, lapse>>

(* Mutant: the scan forgets that a port may be in use. *)
ScannedAnyPort(f) ==
  IF f.cursor = NumPorts \/ Cardinality(f.arr) = Wanted(f.job) THEN FetchDone(f)
  ELSE IF f.job \in JoinJobs
  THEN [f EXCEPT !.arr = @ \cup {f.cursor}, !.pc = "take"]
  ELSE [f EXCEPT !.arr = @ \cup {f.cursor}, !.cursor = @ + 1]

(* The scan at port f.cursor: the loop ends, skips a port in use, or keeps *)
(* a free one (and, to lend it, marks it next).                            *)
Scanned(f) ==
  IF f.cursor = NumPorts \/ Cardinality(f.arr) = Wanted(f.job) THEN FetchDone(f)
  ELSE IF port_arr[f.cursor] # FREE THEN [f EXCEPT !.cursor = @ + 1]
  ELSE IF f.job \in JoinJobs
  THEN [f EXCEPT !.arr = @ \cup {f.cursor}, !.pc = "take"]
  ELSE [f EXCEPT !.arr = @ \cup {f.cursor}, !.cursor = @ + 1]

fetch_look(t) ==
  /\ At(t, "scan")
  /\ Become(t, Scanned(frame[t]))
  /\ UNCHANGED <<mapperVars, serviceVars, port_arr, curr_num_ports, lapse>>

(* Mutant: the port is put in the array and not marked in the table. *)
fetch_set_port_unmarked(t) ==
  /\ At(t, "take")
  /\ Goto(t, "inc_look")
  /\ UNCHANGED <<mapperVars, serviceVars, port_arr, curr_num_ports, lapse>>

fetch_set_port(t) ==
  /\ At(t, "take")
  /\ port_arr' = [port_arr EXCEPT ![frame[t].cursor] = ALLOCATED]
  /\ Goto(t, "inc_look")
  /\ UNCHANGED <<mapperVars, serviceVars, curr_num_ports, lapse>>

fetch_look_count(t) ==
  /\ At(t, "inc_look")
  /\ Become(t, [frame[t] EXCEPT !.seen = curr_num_ports, !.pc = "inc_set"])
  /\ UNCHANGED <<mapperVars, serviceVars, port_arr, curr_num_ports, lapse>>

fetch_set_count(t) ==
  /\ At(t, "inc_set")
  /\ curr_num_ports' = (frame[t].seen + 1) % UintMod
  /\ Become(t, [frame[t] EXCEPT !.cursor = @ + 1, !.seen = 0, !.pc = "scan"])
  /\ UNCHANGED <<mapperVars, serviceVars, port_arr, lapse>>

-----------------------------------------------------------------------------
(* close_ports(arr); close_single_port(port) is the same on one port. *)

(* Mutant: off by one in the test for an empty mapper. *)
is_empty_by_one(t) ==
  /\ At(t, "empty")
  /\ Become(t, IF curr_num_ports <= 1 THEN CloseDone(frame[t])
               ELSE [frame[t] EXCEPT !.pc = "close"])
  /\ UNCHANGED <<mapperVars, serviceVars, port_arr, curr_num_ports, lapse>>

is_empty(t) ==
  /\ At(t, "empty")
  /\ Become(t, IF curr_num_ports = 0 THEN CloseDone(frame[t])
               ELSE [frame[t] EXCEPT !.pc = "close"])
  /\ UNCHANGED <<mapperVars, serviceVars, port_arr, curr_num_ports, lapse>>

(* Mutant: every port of the array is freed, whatever its state. *)
VisitedAnyPort(f) ==
  IF f.todo = {} THEN CloseDone(f) ELSE [f EXCEPT !.pc = "free"]

(* The walk at the lowest port left: only a port in use is freed. *)
Visited(f) ==
  IF f.todo = {} THEN CloseDone(f)
  ELSE IF port_arr[Lowest(f.todo)] = ALLOCATED THEN [f EXCEPT !.pc = "free"]
  ELSE [f EXCEPT !.todo = @ \ {Lowest(f.todo)}]

close_look(t) ==
  /\ At(t, "close")
  /\ Become(t, Visited(frame[t]))
  /\ UNCHANGED <<mapperVars, serviceVars, port_arr, curr_num_ports, lapse>>

(* Mutant: a freed port is marked with a state that is neither. *)
close_set_port_reserved(t) ==
  /\ At(t, "free")
  /\ port_arr' = [port_arr EXCEPT ![Lowest(frame[t].todo)] = -1]
  /\ Goto(t, "dec_look")
  /\ lapse' = lapse \cup ({frame[t].job} \cap {"print", "kill"})
  /\ UNCHANGED <<mapperVars, serviceVars, curr_num_ports>>

close_set_port(t) ==
  /\ At(t, "free")
  /\ port_arr' = [port_arr EXCEPT ![Lowest(frame[t].todo)] = FREE]
  /\ Goto(t, "dec_look")
  /\ lapse' = lapse \cup ({frame[t].job} \cap {"print", "kill"})
  /\ UNCHANGED <<mapperVars, serviceVars, curr_num_ports>>

close_look_count(t) ==
  /\ At(t, "dec_look")
  /\ Become(t, [frame[t] EXCEPT !.seen = curr_num_ports, !.pc = "dec_set"])
  /\ UNCHANGED <<mapperVars, serviceVars, port_arr, curr_num_ports, lapse>>

close_set_count(t) ==
  /\ At(t, "dec_set")
  /\ curr_num_ports' = (frame[t].seen - 1) % UintMod
  /\ Become(t, [frame[t] EXCEPT !.todo = @ \ {Lowest(frame[t].todo)}, !.seen = 0,
                                !.pc = "close"])
  /\ UNCHANGED <<mapperVars, serviceVars, port_arr, lapse>>

-----------------------------------------------------------------------------
(* accepted_connection_thread: the four requests a service can make.  The  *)
(* service is modelled by what it does on the wire (ask_for_port,          *)
(* ask_for_ports, send_port_back, send_ports_back in connection.c).        *)

Serve(s, j, ports, step) ==
  Become("main", [IdleFrame EXCEPT !.pc = step, !.job = j, !.client = s,
                                   !.arr = ports, !.todo = ports])

Accepting == running /\ At("main", "idle")

join(s) ==
  /\ Accepting
  /\ \E j \in JoinJobs : Serve(s, j, {}, "room")
  /\ UNCHANGED <<mapperVars, serviceVars, port_arr, curr_num_ports, lapse>>

(* s sends a counted array of ports back; it zeroes its array afterwards. *)
leave(s) ==
  /\ Accepting
  /\ \E S \in SUBSET held[s] :
       /\ S # {} /\ Cardinality(S) <= Give
       /\ Serve(s, "leave", S, "empty")
       /\ held' = [held EXCEPT ![s] = @ \ S]
  /\ UNCHANGED <<mapperVars, port_arr, curr_num_ports, again, lapse>>

(* s sends one port back.  send_port_back takes the port by value and the  *)
(* address it came from keeps it: a service whose threads both run their   *)
(* clean-up sends it a second time.                                        *)
awkward_leave(s) ==
  /\ Accepting
  /\ \E p \in held[s] :
       /\ Serve(s, "awkward_leave", {p}, "empty")
       /\ held' = [held EXCEPT ![s] = @ \ {p}]
       /\ again' \in {{}, {p}}
  /\ UNCHANGED <<mapperVars, port_arr, curr_num_ports, lapse>>

awkward_leave_again(s) ==
  /\ Accepting
  /\ \E p \in again : Serve(s, "awkward_leave", {p}, "empty")
  /\ again' = {}
  /\ lapse' = lapse \cup {"twice"}
  /\ UNCHANGED <<mapperVars, port_arr, curr_num_ports, held>>

(* send_client_ports / send_single_client_port.  The answer arrives and is *)
(* acknowledged, or the acknowledgement does not come back and the mapper  *)
(* raises SIGTERM, for which it installs no handler.                       *)
Deliver(s) ==
  /\ held' = [held EXCEPT ![s] = @ \cup frame["main"].arr]
  /\ lapse' = IF Short(frame["main"]) /\ frame["main"].arr # {}
              THEN lapse \cup {"short"} ELSE lapse

send_ports(s) ==
  /\ At("main", "send") /\ frame["main"].client = s
  /\ Deliver(s)
  /\ Become("main", IdleFrame)
  /\ UNCHANGED <<mapperVars, port_arr, curr_num_ports, again>>

no_ack(s) ==
  /\ At("main", "send") /\ frame["main"].client = s
  /\ Deliver(s) \/ UNCHANGED <<held, lapse>>
  /\ mode' = "killed"
  /\ frame' = [t \in Threads |-> IdleFrame]
  /\ UNCHANGED <<running, file, port_arr, curr_num_ports, again>>

(* A service loses track of ports: it is killed, or the exchange that      *)
(* returns them times out half way (no caller retries).                    *)
forget(s) ==
  /\ \E S \in SUBSET held[s] : S # {} /\ held' = [held EXCEPT ![s] = @ \ S]
  /\ UNCHANGED <<mapperVars, port_arr, curr_num_ports, frame, again, lapse>>

-----------------------------------------------------------------------------
(* port_mapper_input_loop: the commands that touch shared state. *)

Command(j, ports, step) ==
  /\ running /\ At("input", "idle")
  /\ Become("input", [IdleFrame EXCEPT !.pc = step, !.job = j,
                                       !.arr = ports, !.todo = ports])
  /\ UNCHANGED <<mapperVars, serviceVars, port_arr, curr_num_ports, lapse>>

port_mapper_print == Command("print", {}, "room")

kill_port(p) == Command("kill", {p}, "empty")

(* 's': raise(SIGINT) clears the flag, cleanup(), and the thread returns. *)
stop_mapper ==
  /\ running /\ At("input", "idle")
  /\ running' = FALSE
  /\ Goto("input", "gone")
  /\ UNCHANGED <<mode, file, serviceVars, port_arr, curr_num_ports, lapse>>

-----------------------------------------------------------------------------
(* port_mapper_init: from a launch to the loops, and from the joins to     *)
(* exit(0).                                                                *)

(* Mutant: the counter is not saved with the table. *)
save_port_mapper_file_table_only ==
  file' = IF RemoveOnExit THEN <<>>
          ELSE IF UseFile THEN <<[arr |-> port_arr, num |-> 0]>>
          ELSE file

save_port_mapper_file ==
  file' = IF RemoveOnExit THEN <<>>
          ELSE IF UseFile THEN <<[arr |-> port_arr, num |-> curr_num_ports]>>
          ELSE file

exit_mapper ==
  /\ ~running /\ At("main", "idle") /\ At("input", "gone")
  /\ save_port_mapper_file
  /\ mode' = "stopped"
  /\ frame' = [t \in Threads |-> IdleFrame]
  /\ UNCHANGED <<running, serviceVars, port_arr, curr_num_ports, lapse>>

fetch_port_mapper_file ==
  IF UseFile /\ file # <<>>
  THEN port_arr' = file[1].arr /\ curr_num_ports' = file[1].num
  ELSE port_arr' = [p \in Ports |-> FREE] /\ curr_num_ports' = 0

launch ==
  /\ mode # "up"
  /\ mode' = "up"
  /\ running' = TRUE
  /\ fetch_port_mapper_file
  /\ lapse' = IF port_arr' = port_arr THEN lapse ELSE lapse \cup {"forgot"}
  /\ UNCHANGED <<file, frame, serviceVars>>

-----------------------------------------------------------------------------
Init ==
  /\ mode = "up"
  /\ running = TRUE
  /\ port_arr = [p \in Ports |-> FREE]
  /\ curr_num_ports = 0
  /\ frame = [t \in Threads |-> IdleFrame]
  /\ file = <<>>
  /\ held = [s \in Services |-> {}]
  /\ again = {}
  /\ lapse = {}

fetch(t) == \/ is_no_more_room(t) \/ fetch_look(t) \/ fetch_set_port(t)
            \/ fetch_look_count(t) \/ fetch_set_count(t)

close(t) == \/ is_empty(t) \/ close_look(t) \/ close_set_port(t)
            \/ close_look_count(t) \/ close_set_count(t)

request(s) == \/ join(s) \/ leave(s) \/ awkward_leave(s)
              \/ awkward_leave_again(s)

operator == port_mapper_print \/ stop_mapper \/ \E p \in Ports : kill_port(p)

Next ==
  \/ \E t \in Threads : fetch(t) \/ close(t)
  \/ \E s \in Services : request(s) \/ send_ports(s) \/ no_ack(s) \/ forget(s)
  \/ operator
  \/ exit_mapper
  \/ launch

Spec == Init /\ [][Next]_vars

-----------------------------------------------------------------------------
(* What the port table promises. *)

Allocated == {p \in Ports : port_arr[p] = ALLOCATED}

(* The two operator commands through which a second thread writes to the   *)
(* table.                                                                  *)
OperatorWrote == lapse \cap {"print", "kill"} # {}

(* Every variable stays within its C type and range. *)
TypeOK ==
  /\ mode \in {"up", "stopped", "killed"}
  /\ running \in BOOLEAN
  /\ port_arr \in [Ports -> {FREE, ALLOCATED}]
  /\ curr_num_ports \in Uint16
  /\ frame \in [Threads -> Frame]
  /\ \/ file = <<>>
     \/ \E a \in [Ports -> {FREE, ALLOCATED}], n \in Uint16 :
          file = <<[arr |-> a, num |-> n]>>
  /\ held \in [Services -> SUBSET Ports]
  /\ again \in SUBSET Ports
  /\ lapse \in SUBSET {"short", "twice", "print", "kill", "forgot"}

Exclusive ==
  /\ \A s, u \in Services : s # u => held[s] \cap held[u] = {}
  /\ \A s \in Services : held[s] \subseteq Allocated

(* A port is in the hands of at most one service, and is marked allocated  *)
(* as long as it is, whatever the interleaving of requests, answers,       *)
(* commands and restarts, until one of the five named lapses: a JOIN that  *)
(* came up short, a port returned twice, a 'p' or 'k' that freed a port,   *)
(* or a launch that did not restore the table.                             *)
ExclusiveBooking == lapse = {} => Exclusive

(* Whenever the main thread is between two requests, curr_num_ports is the *)
(* number of ports marked allocated: is_empty and is_no_more_room decide   *)
(* from the counter, never from the table.  Only an operator command that  *)
(* frees a port while the main thread works can break it.                  *)
CountMatchesTable ==
  ~OperatorWrote /\ frame["main"].pc = "idle"
    => curr_num_ports = Cardinality(Allocated)

(* When the main thread has served a LEAVE or an AWKWARD_LEAVE, each of    *)
(* the ports it was sent is free: the early return of close_ports on an    *)
(* "empty" mapper never swallows a return.                                 *)
ReturnFreesPorts ==
  [][ /\ frame["main"].job \in LeaveJobs /\ frame'["main"].job = "none"
      /\ ~OperatorWrote
      => \A p \in frame["main"].arr : port_arr'[p] = FREE ]_vars

(* With the port mapper file switched on and kept, a launch that follows   *)
(* an orderly stop starts from the table the last launch ended with.       *)
RememberedAfterStop ==
  [][ /\ mode = "stopped" /\ mode' = "up" /\ UseFile /\ ~RemoveOnExit
      => port_arr' = port_arr /\ curr_num_ports' = curr_num_ports ]_vars

(* The ports booked in the table that no service holds: on their way to a  *)
(* service or back, or lost by one.                                        *)
Kept == {p \in Allocated : \A s \in Services : p \notin held[s]}

Lease == INSTANCE PortLease WITH lent <- held, kept <- Kept, void <- lapse # {}

(* The mapper and its services implement the abstract lease: a port is     *)
(* booked before it is lent, lent to one service only, and free again only *)
(* after that service has given it back, whatever the two threads, lost    *)
(* answers, kills and restarts do, up to the first of the named lapses.    *)
ImplementsLease == Lease!Spec

-----------------------------------------------------------------------------
(* The inductive invariant behind the properties above. *)

Taking  == {"take", "inc_look", "inc_set"}
Closing == {"empty", "close", "free", "dec_look", "dec_set"}
Freeing == {"free", "dec_look", "dec_set"}

(* Which step goes with which call, in either thread. *)
WellFormed(f) ==
  /\ f.pc \in Taking => f.cursor \in Ports /\ f.cursor \in f.arr
  /\ f.pc \in Freeing => f.todo # {}
  /\ f.job = "none" <=> f.pc \in {"idle", "gone"}
  /\ f.pc \in Taking \cup {"send"} => f.job \in JoinJobs
  /\ f.pc \in {"room", "scan"} => f.job \in JoinJobs \cup {"print"}
  /\ f.job = "none" => f.arr = {}
  /\ f.pc = "room" => f.arr = {}
  /\ f.pc \in Closing /\ f.job \in JoinJobs => Short(f)

FrameInv == \A t \in Threads : WellFormed(frame[t])

RoleInv ==
  /\ frame["main"].job \notin {"print", "kill"}
  /\ frame["main"].pc # "gone"
  /\ frame["input"].job \in {"print", "kill", "none"}
  /\ frame["input"].pc \in {"dec_look", "dec_set"} => OperatorWrote
  /\ mode # "up" => \A t \in Threads : frame[t] = IdleFrame

(* What the main thread is about to hand over is nobody's and allocated    *)
(* (but for the port it is about to mark), and what it is about to free is *)
(* nobody's.                                                               *)
Pending(f) == f.pc \in {"scan"} \cup Taking \/ (f.pc = "send" /\ ~Short(f))

Unheld(S) == \A s \in Services : S \cap held[s] = {}

Marked(f) == f.arr \ (IF f.pc = "take" THEN {f.cursor} ELSE {})

BookingInv ==
  LET m == frame["main"] IN
  lapse = {} =>
    /\ Exclusive
    /\ Pending(m) => Unheld(m.arr) /\ Marked(m) \subseteq Allocated
    /\ m.pc \in Closing => Unheld(m.todo)

(* The counter lags the table by the port being taken or freed. *)
Lag(step) == IF step \in {"dec_look", "dec_set"} THEN 1
             ELSE IF step \in {"inc_look", "inc_set"} THEN -1 ELSE 0

CountInv ==
  LET m == frame["main"] IN
  ~OperatorWrote =>
    /\ curr_num_ports = Cardinality(Allocated) + Lag(m.pc)
    /\ m.pc \in {"inc_set", "dec_set"} => m.seen = curr_num_ports
    /\ m.pc = "take" => m.cursor \notin Allocated
    /\ m.pc = "free" => Lowest(m.todo) \in Allocated
    /\ file # <<>> => file[1].num = Cardinality({p \in Ports : file[1].arr[p] = ALLOCATED})

(* Ports of a LEAVE that were visited are free. *)
Returned(f) == f.arr \ (IF f.pc \in {"dec_look", "dec_set"}
                        THEN f.todo \ {Lowest(f.todo)} ELSE f.todo)

ReturnInv ==
  LET m == frame["main"] IN
  ~OperatorWrote /\ m.job \in LeaveJobs =>
    m.pc \in Closing /\ Returned(m) \cap Allocated = {}

(* The file of an orderly stop holds the table the launch ended with. *)
FileInv ==
  mode = "stopped" /\ UseFile /\ ~RemoveOnExit =>
    file = <<[arr |-> port_arr, num |-> curr_num_ports]>>

IndInv == TypeOK /\ FrameInv /\ RoleInv /\ BookingInv /\ CountInv /\ ReturnInv /\ FileInv

-----------------------------------------------------------------------------
(* What the documentation says and the code does not keep. *)

(* "it gives the service that connects to it a port, and that same service *)
(* has to return those said ports in order for others to use them":        *)
(* nobody returned twice, no operator command freed a port and no restart  *)
(* happened, so no two services hold one port.                             *)
OthersUseItOnlyOnceReturned ==
  lapse \subseteq {"short"} =>
    \A s, u \in Services : s # u => held[s] \cap held[u] = {}

(* "Now the port mapper remembers which ports were open and closed between *)
(* launches", the configuration being the same.                            *)
RemembersBetweenLaunches ==
  [][ /\ mode # "up" /\ mode' = "up" /\ UseFile /\ ~RemoveOnExit
      => port_arr' = port_arr ]_vars

=============================================================================
