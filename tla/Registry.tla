------------------------------ MODULE Registry ------------------------------
(***************************************************************************)
(* A node of the overlay that keeps a list of the servers below it: the    *)
(* heartbeat server (code/heartbeat_server) or the master server           *)
(* (code/master_server).  Both run the threads of extra_funcs/interlvl_com *)
(*                                                                         *)
(*   acceptor_func   serves one incoming connection at a time: shows the   *)
(*                   list, or registers a server below (LOG);              *)
(*   watch_dog_func  reads one heartbeat from every registered connection  *)
(*                   per round, and drops the ones that fail;              *)
(*   slave_thread    (heartbeat server only) logs in to the node above and *)
(*                   sends it heartbeats;                                  *)
(*   main            start_heart_beats / start_master: waits, joins them.  *)
(*                                                                         *)
(* Each critical section of set_mtx is one step, but for two: the          *)
(* watchdog's read keeps it for as long as it takes (con_read is readall,  *)
(* which starts again after every timeout, so it ends only when data comes *)
(* or the connection breaks), and the slave's close_all_fds closes each    *)
(* descriptor twice while the acceptor, which needs no mutex for accept(), *)
(* may be handed it in between.  A wait on a condition variable is three   *)
(* steps: the test, the gap before the thread is in the wait set, and the  *)
(* doze; no signaller takes the mutex of the wait, so a signal can fall in *)
(* the gap and be lost.                                                    *)
(*                                                                         *)
(* A connection is its descriptor.  Descriptors are reused, lowest first,  *)
(* and a row of the Servers table is keyed by one.  The ports of the node  *)
(* and the sockets it opens to return them are not in this module.         *)
(***************************************************************************)
EXTENDS Integers, FiniteSets

CONSTANTS
  Fds,       \* the descriptors accept() can return
  MaxSize    \* set->max_size: MAX_SERVERS or MAX_HB_SERVERS

ASSUME RegistryAssumption ==
  /\ Fds \subseteq Nat \ {0}
  /\ MaxSize \in Nat \ {0}

Slots == 1 .. MaxSize - 1
EMPTY == 0

VARIABLES
  is_master,   \* arg_a->arg_s == NULL: no node above
  is_on,       \* the flag every loop tests
  started,     \* start_trigger: the acceptor may begin
  main, acceptor, watchdog, slave,   \* where each thread is
  sock,        \* acceptor's local: the connection being served, or EMPTY
  i,           \* the watchdog's slot
  link,        \* slave's connection to the node above: "none", its peer, or "failed"
  conn,        \* conn[f]: "free", or open with its peer "up", "silent" or "gone"
  fd_arr, rdfds, curr_size,          \* the con_set
  rows         \* the server_id column of the table Servers that queries see

setVars    == <<fd_arr, rdfds, curr_size>>
threads    == <<main, acceptor, watchdog, slave>>
flags      == <<is_on, started>>
vars == <<is_master, flags, threads, sock, i, link, conn, setVars, rows>>

InSet == {fd_arr[n] : n \in Slots} \ {EMPTY}
Peer == {"up", "silent", "gone"}
Running == main \in {"test", "gap", "doze", "join"}

-----------------------------------------------------------------------------
(* Condition variables: a signal or a broadcast moves a thread that dozes  *)
(* back to its test; a thread that is still in its gap hears nothing.      *)

Woken(pc) == IF pc = "doze" THEN "test" ELSE pc

SigFunc == is_on' = FALSE /\ started' = TRUE

\* do_indexed_overseer_con_op holds set_mtx while it reads, and the slave's
\* close_all_fds from one slot to the next.
SetMtxFree == watchdog # "read" /\ slave \notin {"closing", "reclose"}

Used == {n \in Slots : fd_arr[n] # EMPTY}

\* close_all_fds in the acceptor's own thread, where no accept() can come between
\* the two closes of a descriptor.  The rows stay in the table.
CloseAllFds ==
  /\ SetMtxFree
  /\ conn' = [f \in Fds |-> IF f \in InSet THEN "free" ELSE conn[f]]
  /\ fd_arr' = [n \in Slots |-> EMPTY]
  /\ rdfds' = IF InSet = {} THEN rdfds ELSE {}
  /\ curr_size' = curr_size - Cardinality(Used)

-----------------------------------------------------------------------------
(* main: start_heart_beats and start_master.                               *)

\* openDB drops the table an earlier process left.  The master has no slave.
Start ==
  /\ main \in {"down", "closed"}
  /\ rows' = {}
  /\ is_on' = TRUE
  /\ started' = FALSE
  /\ main' = "test" /\ acceptor' = (IF is_master THEN "loop" ELSE "test")
  /\ watchdog' = "zero" /\ slave' = (IF is_master THEN "done" ELSE "circuit")
  /\ link' = "none"
  /\ fd_arr' = [n \in Slots |-> EMPTY] /\ curr_size' = 0 /\ rdfds' = {}
  /\ UNCHANGED <<is_master, sock, i, conn>>

MainTest ==
  /\ main = "test"
  /\ main' = IF is_on THEN "gap" ELSE "join"
  /\ UNCHANGED <<is_master, flags, acceptor, watchdog, slave, sock, i, link, conn, setVars, rows>>

MainSleep ==
  /\ main = "gap"
  /\ main' = "doze"
  /\ UNCHANGED <<is_master, flags, acceptor, watchdog, slave, sock, i, link, conn, setVars, rows>>

\* The three joins, closeDB (which drops the table) and close.
MainJoin ==
  /\ main = "join"
  /\ acceptor = "done" /\ watchdog = "done" /\ slave = "done"
  /\ main' = "closed"
  /\ rows' = {}
  /\ UNCHANGED <<is_master, flags, acceptor, watchdog, slave, sock, i, link, conn, setVars>>

-----------------------------------------------------------------------------
(* acceptor_func.                                                          *)

AcceptorGoes(pc) ==
  /\ acceptor' = pc
  /\ UNCHANGED <<is_master, watchdog, slave, i, link>>

\* The heartbeat server's acceptor waits for the slave's first login.
AcceptorTest ==
  /\ acceptor = "test"
  /\ AcceptorGoes(IF started THEN "loop" ELSE "gap")
  /\ UNCHANGED <<flags, main, sock, conn, setVars, rows>>

AcceptorSleep ==
  /\ acceptor = "gap"
  /\ AcceptorGoes("doze")
  /\ UNCHANGED <<flags, main, sock, conn, setVars, rows>>
\* A variant of AcceptorLoop that returns at once when is_on is 0.
AcceptorLoop_unclean ==
  /\ acceptor = "loop"
  /\ AcceptorGoes(IF is_on THEN "select" ELSE "done")
  /\ UNCHANGED <<flags, main, sock, conn, setVars, rows>>

AcceptorLoop ==
  /\ acceptor = "loop"
  /\ AcceptorGoes(IF is_on THEN "select" ELSE "sig")
  /\ UNCHANGED <<flags, main, sock, conn, setVars, rows>>

\* select times out, or accept fails with anything but EINVAL.
SelectNothing ==
  /\ acceptor = "select"
  /\ AcceptorGoes("loop")
  /\ UNCHANGED <<flags, main, sock, conn, setVars, rows>>

\* select fails, or accept fails with EINVAL: clean, leave the loop, clean again.
SelectFails ==
  /\ acceptor = "select"
  /\ SigFunc
  /\ AcceptorGoes("break_close")
  /\ UNCHANGED <<main, sock, conn, setVars, rows>>

Accept ==
  /\ acceptor = "select"
  /\ \E f \in Fds :
       /\ conn[f] = "free"
       /\ \A g \in Fds : conn[g] = "free" => f <= g
       /\ sock' = f
       /\ conn' = [conn EXCEPT ![f] = "up"]
  /\ AcceptorGoes("serve")
  /\ UNCHANGED <<flags, main, setVars, rows>>
\* A variant of ServeAndClose without close_con.
ServeAndClose_open ==
  /\ acceptor = "serve" /\ conn[sock] # "silent"
  /\ \/ UNCHANGED flags
     \/ conn[sock] \in {"gone", "free"} /\ SigFunc
  /\ conn' = conn
  /\ sock' = EMPTY
  /\ AcceptorGoes("loop")
  /\ UNCHANGED <<main, setVars, rows>>

\* The handshake or the read fails, the command is MASTER_SHOW or unknown, or
\* SHOW has sent its list: the connection is closed.  A send of SHOW that fails
\* raises SIGINT, which stops the node; so does a select on a descriptor that the
\* slave's close_all_fds has closed (exit_emergency_func).
ServeAndClose ==
  /\ acceptor = "serve" /\ conn[sock] # "silent"
  /\ \/ UNCHANGED flags
     \/ conn[sock] \in {"gone", "free"} /\ SigFunc
  /\ conn' = [conn EXCEPT ![sock] = "free"]
  /\ sock' = EMPTY
  /\ AcceptorGoes("loop")
  /\ UNCHANGED <<main, setVars, rows>>

\* LOG: the answer's result is not looked at.
ServeLog ==
  /\ acceptor = "serve" /\ conn[sock] # "silent"
  /\ AcceptorGoes("add")
  /\ UNCHANGED <<flags, main, sock, conn, setVars, rows>>

\* add_con up to its unlock.  An insert that repeats a server_id fails silently.
\* With no free slot the search runs past the array: what happens then is
\* undefined, and the module's acceptor goes no further.
AddCon ==
  /\ acceptor = "add" /\ SetMtxFree
  /\ \E n \in Slots :
       /\ fd_arr[n] = EMPTY
       /\ \A m \in Slots : m < n => fd_arr[m] # EMPTY
       /\ fd_arr' = [fd_arr EXCEPT ![n] = sock]
  /\ rdfds' = rdfds \cup {sock}
  /\ curr_size' = curr_size + 1
  /\ rows' = rows \cup {sock}
  /\ sock' = EMPTY
  /\ AcceptorGoes("signal")
  /\ UNCHANGED <<flags, main, conn>>

\* add_con's pthread_cond_signal, made without start_cond_mtx.
AddConSignal ==
  /\ acceptor = "signal"
  /\ acceptor' = "loop"
  /\ watchdog' = Woken(watchdog)
  /\ UNCHANGED <<is_master, flags, main, slave, sock, i, link, conn, setVars, rows>>

AcceptorSig ==
  /\ acceptor = "sig"
  /\ SigFunc
  /\ AcceptorGoes("close")
  /\ UNCHANGED <<main, sock, conn, setVars, rows>>

\* clean_func: close_all_fds; then, under con_mtx, the slave's connection, the
\* broadcast and the signal to main.
AcceptorClose ==
  /\ \/ acceptor = "break_close" /\ acceptor' = "break_wake"
     \/ acceptor = "close" /\ acceptor' = "wake"
  /\ CloseAllFds
  /\ UNCHANGED <<is_master, flags, main, watchdog, slave, sock, i, link, rows>>

\* The slave is in the con_send of a heartbeat, with con_mtx, to a node above that
\* takes no more data: sendall, like readall, starts again after every timeout.
Sending == slave = "beat" /\ link = "silent"

\* close_con on the slave's connection, under con_mtx.
CloseLink ==
  /\ ~Sending
  /\ link' = IF link \in Peer THEN "gone" ELSE link
\* A variant of AcceptorWake without the broadcast to the watchdog.
AcceptorWake_quiet ==
  /\ \/ acceptor = "break_wake" /\ acceptor' = "sig"
     \/ acceptor = "wake" /\ acceptor' = "done"
  /\ CloseLink
  /\ main' = Woken(main)
  /\ UNCHANGED <<is_master, flags, watchdog, slave, sock, i, conn, setVars, rows>>

AcceptorWake ==
  /\ \/ acceptor = "break_wake" /\ acceptor' = "sig"
     \/ acceptor = "wake" /\ acceptor' = "done"
  /\ CloseLink
  /\ watchdog' = Woken(watchdog)
  /\ main' = Woken(main)
  /\ UNCHANGED <<is_master, flags, slave, sock, i, conn, setVars, rows>>

-----------------------------------------------------------------------------
(* watch_dog_func.                                                         *)

WatchdogGoes(pc) ==
  /\ watchdog' = pc
  /\ UNCHANGED <<is_master, main, acceptor, slave, sock, link>>

\* FD_ZERO, not under set_mtx: the acceptor may already have added a server.
WatchdogZero ==
  /\ watchdog = "zero"
  /\ rdfds' = {}
  /\ WatchdogGoes("outer")
  /\ UNCHANGED <<flags, i, conn, fd_arr, curr_size, rows>>
\* A variant of WatchdogOuter with the FD_ZERO inside the loop.
WatchdogOuter_zero ==
  /\ watchdog = "outer"
  /\ IF is_on THEN UNCHANGED flags ELSE SigFunc
  /\ WatchdogGoes(IF is_on THEN "test" ELSE "done")
  /\ rdfds' = {}
  /\ UNCHANGED <<i, conn, fd_arr, curr_size, rows>>

\* The outer loop; at its end sig_func only, not clean_func.
WatchdogOuter ==
  /\ watchdog = "outer"
  /\ IF is_on THEN UNCHANGED flags ELSE SigFunc
  /\ WatchdogGoes(IF is_on THEN "test" ELSE "done")
  /\ UNCHANGED <<i, conn, setVars, rows>>

WatchdogTest ==
  /\ watchdog = "test"
  /\ WatchdogGoes(IF is_on /\ curr_size = 0 THEN "gap" ELSE "inner")
  /\ UNCHANGED <<flags, i, conn, setVars, rows>>

WatchdogSleep ==
  /\ watchdog = "gap"
  /\ WatchdogGoes("doze")
  /\ UNCHANGED <<flags, i, conn, setVars, rows>>

WatchdogInner ==
  /\ watchdog = "inner"
  /\ WatchdogGoes(IF is_on /\ curr_size # 0 THEN "scan" ELSE "outer")
  /\ UNCHANGED <<flags, i, conn, setVars, rows>>
\* A variant of WatchdogLook that stops one slot short.
WatchdogLook_short ==
  /\ watchdog = "scan" /\ SetMtxFree
  /\ IF i >= MaxSize - 1
     THEN WatchdogGoes("inner") /\ i' = 1
     ELSE IF fd_arr[i] # EMPTY /\ fd_arr[i] \in rdfds
          THEN WatchdogGoes("found") /\ UNCHANGED i
          ELSE WatchdogGoes("scan") /\ i' = i + 1
  /\ UNCHANGED <<flags, conn, setVars, rows>>

\* One slot of the round: is it used, and is its descriptor in rdfds.
WatchdogLook ==
  /\ watchdog = "scan" /\ SetMtxFree
  /\ IF i = MaxSize
     THEN WatchdogGoes("inner") /\ i' = 1
     ELSE IF fd_arr[i] # EMPTY /\ fd_arr[i] \in rdfds
          THEN WatchdogGoes("found") /\ UNCHANGED i
          ELSE WatchdogGoes("scan") /\ i' = i + 1
  /\ UNCHANGED <<flags, conn, setVars, rows>>

\* The watchdog has set_mtx for its con_read, or gets it.
Reading == watchdog = "read" \/ (watchdog = "found" /\ SetMtxFree)

\* con_read under set_mtx.  It fails on a broken or closed connection, and on a
\* slot that close_all_fds has emptied since the look; on a silent one it goes on.
WatchdogRead ==
  /\ Reading
  /\ \/ fd_arr[i] # EMPTY /\ conn[fd_arr[i]] = "up" /\ WatchdogGoes("scan") /\ i' = i + 1
     \/ fd_arr[i] # EMPTY /\ conn[fd_arr[i]] = "silent" /\ WatchdogGoes("read") /\ UNCHANGED i
     \/ (fd_arr[i] # EMPTY => conn[fd_arr[i]] \in {"gone", "free"}) /\ WatchdogGoes("kill") /\ UNCHANGED i
  /\ UNCHANGED <<flags, conn, setVars, rows>>
\* A variant of KillCon whose caller skips a slot.
KillCon_twice ==
  /\ watchdog = "kill" /\ SetMtxFree
  /\ conn' = [f \in Fds |-> IF f = fd_arr[i] THEN "free" ELSE conn[f]]
  /\ rows' = rows \ {fd_arr[i]}
  /\ rdfds' = rdfds \ {fd_arr[i]}
  /\ fd_arr' = [fd_arr EXCEPT ![i] = EMPTY]
  /\ curr_size' = curr_size - 1
  /\ i' = i + 2
  /\ WatchdogGoes("scan")
  /\ UNCHANGED flags
\* A variant of KillCon without delete_server.
KillCon_unlisted ==
  /\ watchdog = "kill" /\ SetMtxFree
  /\ conn' = [f \in Fds |-> IF f = fd_arr[i] THEN "free" ELSE conn[f]]
  /\ rows' = rows
  /\ rdfds' = rdfds \ {fd_arr[i]}
  /\ fd_arr' = [fd_arr EXCEPT ![i] = EMPTY]
  /\ curr_size' = curr_size - 1
  /\ i' = i + 1
  /\ WatchdogGoes("scan")
  /\ UNCHANGED flags

\* kill_con.  close_all_fds may have emptied the slot since the read: then there
\* is nothing to close or delete, and curr_size goes down once more.
KillCon ==
  /\ watchdog = "kill" /\ SetMtxFree
  /\ conn' = [f \in Fds |-> IF f = fd_arr[i] THEN "free" ELSE conn[f]]
  /\ rows' = rows \ {fd_arr[i]}
  /\ rdfds' = rdfds \ {fd_arr[i]}
  /\ fd_arr' = [fd_arr EXCEPT ![i] = EMPTY]
  /\ curr_size' = curr_size - 1
  /\ i' = i + 1
  /\ WatchdogGoes("scan")
  /\ UNCHANGED flags

-----------------------------------------------------------------------------
(* slave_thread, on a heartbeat server.                                    *)

SlaveGoes(pc) ==
  /\ slave' = pc
  /\ UNCHANGED <<is_master, watchdog, sock, i>>

\* connection_attempt_circuit: when it gives up it calls slave_thread_exit_func
\* and returns, and the thread goes on with no connection.
SlaveCircuit ==
  /\ slave = "circuit"
  /\ \/ link' = "up" /\ SlaveGoes("login")
     \/ link' = "failed" /\ SlaveGoes("exit")
  /\ UNCHANGED <<flags, main, acceptor, conn, setVars, rows>>

\* greet, LOG and its answer; then start_trigger is set and the acceptor is
\* signalled, without master_mtx.
SlaveLogin ==
  /\ slave = "login" /\ link = "up"
  /\ started' = TRUE
  /\ acceptor' = Woken(acceptor)
  /\ SlaveGoes("beat")
  /\ UNCHANGED <<is_on, main, link, conn, setVars, rows>>

\* No connection, or the node above breaks it or answers something else.
SlaveLoginFails ==
  /\ slave = "login" /\ link # "silent"
  /\ SlaveGoes("exit")
  /\ UNCHANGED <<flags, main, acceptor, link, conn, setVars, rows>>
\* A variant of SlaveBeat that does not look at the result of the send.
SlaveBeat_unlooked ==
  /\ slave = "beat" /\ ~Sending /\ ~is_on
  /\ SlaveGoes("exit")
  /\ UNCHANGED <<flags, main, acceptor, link, conn, setVars, rows>>

\* The loop: a heartbeat per round, until is_on is 0 or the send fails.
SlaveBeat ==
  /\ slave = "beat" /\ ~Sending
  /\ ~is_on \/ link = "gone"
  /\ SlaveGoes("exit")
  /\ UNCHANGED <<flags, main, acceptor, link, conn, setVars, rows>>

\* slave_thread_exit_func up to clean_func.
SlaveExit ==
  /\ slave = "exit"
  /\ link' = IF link = "failed" THEN link ELSE "none"
  /\ acceptor' = Woken(acceptor)
  /\ SigFunc
  /\ SlaveGoes("close")
  /\ UNCHANGED <<main, conn, setVars, rows>>

NextUsed(n) == n \in Used /\ \A m \in Used : n <= m

\* close_all_fds in the slave's thread, slot by slot: FD_ZERO and close_con, the
\* first close, of the next used slot; with none left, the unlock.
SlaveClose ==
  /\ \/ slave = "close" /\ SetMtxFree
     \/ slave = "closing"
  /\ \/ /\ Used = {}
        /\ SlaveGoes("wake") /\ UNCHANGED <<rdfds, conn>>
     \/ /\ \E n \in Slots :
             NextUsed(n) /\ conn' = [conn EXCEPT ![fd_arr[n]] = "free"]
        /\ rdfds' = {}
        /\ SlaveGoes("reclose")
  /\ UNCHANGED <<flags, main, acceptor, link, fd_arr, curr_size, rows>>

\* The second close, of whatever has the descriptor by then, and the slot.
SlaveReclose ==
  /\ slave = "reclose"
  /\ \E n \in Slots :
       /\ NextUsed(n)
       /\ conn' = [conn EXCEPT ![fd_arr[n]] = "free"]
       /\ fd_arr' = [fd_arr EXCEPT ![n] = EMPTY]
  /\ curr_size' = curr_size - 1
  /\ SlaveGoes("closing")
  /\ UNCHANGED <<flags, main, acceptor, link, rdfds, rows>>

\* The end of clean_func.  After a failed circuit the thread goes on to log in.
SlaveWake ==
  /\ slave = "wake"
  /\ watchdog' = Woken(watchdog)
  /\ main' = Woken(main)
  /\ slave' = IF link = "failed" THEN "login" ELSE "done"
  /\ link' = "none"
  /\ UNCHANGED <<is_master, flags, acceptor, sock, i, conn, setVars, rows>>

-----------------------------------------------------------------------------
(* The operator, the peers, and the machine.                               *)

\* ^C: sigint_handler signals no condition variable, but it ends with an error the
\* select of the thread it runs in, and so the read or send it was made for.
SigInt ==
  /\ Running
  /\ SigFunc
  /\ \/ UNCHANGED <<acceptor, watchdog, slave, sock, conn>>
     \/ /\ Reading
        /\ watchdog' = "kill" /\ UNCHANGED <<acceptor, slave, sock, conn>>
     \/ /\ acceptor = "serve"
        /\ acceptor' = "loop" /\ sock' = EMPTY /\ conn' = [conn EXCEPT ![sock] = "free"]
        /\ UNCHANGED <<watchdog, slave>>
     \/ /\ slave \in {"login", "beat"}
        /\ slave' = "exit" /\ UNCHANGED <<acceptor, watchdog, sock, conn>>
  /\ UNCHANGED <<is_master, main, i, link, setVars, rows>>

\* A peer stops sending or taking data, starts again, or closes its end; a machine
\* that breaks down is "gone" once keepalive has noticed.  Its silence matters only
\* where a thread reads from it or sends to it.
InUse(f) == f = sock \/ (watchdog \in {"found", "read"} /\ f = fd_arr[i])

PeerChanges ==
  /\ \E f \in Fds, p \in Peer :
       /\ conn[f] \in {"up", "silent"} /\ p # conn[f]
       /\ p = "gone" \/ InUse(f)
       /\ conn' = [conn EXCEPT ![f] = p]
  /\ UNCHANGED <<is_master, flags, threads, sock, i, link, setVars, rows>>

\* The same for the node above.
UpperChanges ==
  /\ link \in {"up", "silent"}
  /\ link' \in (IF slave \in {"login", "beat"} THEN Peer \ {link} ELSE {"gone"})
  /\ UNCHANGED <<is_master, flags, threads, sock, i, conn, setVars, rows>>

\* The process is killed: the kernel closes its sockets, the table stays.
Crash ==
  /\ Running
  /\ is_on' = FALSE /\ started' = FALSE
  /\ main' = "down" /\ acceptor' = "done" /\ watchdog' = "done" /\ slave' = "done"
  /\ sock' = EMPTY /\ i' = 1 /\ link' = "none"
  /\ conn' = [f \in Fds |-> "free"]
  /\ fd_arr' = [n \in Slots |-> EMPTY] /\ rdfds' = {} /\ curr_size' = 0
  /\ UNCHANGED <<is_master, rows>>

-----------------------------------------------------------------------------
Init ==
  /\ is_master \in BOOLEAN
  /\ is_on = FALSE /\ started = FALSE
  /\ main = "down" /\ acceptor = "done" /\ watchdog = "done" /\ slave = "done"
  /\ sock = EMPTY /\ i = 1 /\ link = "none"
  /\ conn = [f \in Fds |-> "free"]
  /\ fd_arr = [n \in Slots |-> EMPTY] /\ rdfds = {} /\ curr_size = 0
  /\ rows = {}

MainStep == MainTest \/ MainSleep \/ MainJoin
AcceptorStep ==
  \/ AcceptorTest \/ AcceptorSleep \/ AcceptorLoop \/ SelectNothing \/ SelectFails
  \/ Accept \/ ServeAndClose \/ ServeLog \/ AddCon \/ AddConSignal
  \/ AcceptorSig \/ AcceptorClose \/ AcceptorWake
WatchdogStep ==
  \/ WatchdogZero \/ WatchdogOuter \/ WatchdogTest \/ WatchdogSleep
  \/ WatchdogInner \/ WatchdogLook \/ WatchdogRead \/ KillCon
SlaveStep ==
  \/ SlaveCircuit \/ SlaveLogin \/ SlaveLoginFails \/ SlaveBeat \/ SlaveExit
  \/ SlaveClose \/ SlaveReclose \/ SlaveWake

System == MainStep \/ AcceptorStep \/ WatchdogStep \/ SlaveStep
Environment == Start \/ SigInt \/ PeerChanges \/ UpperChanges \/ Crash

Next == System \/ Environment

\* Every thread that can run does.  Nothing is asked of the operator, the peers or
\* the machine: a read from a silent peer, or a send to one, need not end.
Fairness ==
  /\ WF_vars(MainStep)
  /\ WF_vars(AcceptorStep)
  /\ WF_vars(WatchdogStep)
  /\ WF_vars(SlaveStep)

Spec == Init /\ [][Next]_vars
FairSpec == Spec /\ Fairness

-----------------------------------------------------------------------------
(* Properties.                                                             *)

TypeOK ==
  /\ is_master \in BOOLEAN /\ is_on \in BOOLEAN /\ started \in BOOLEAN
  /\ main \in {"down", "test", "gap", "doze", "join", "closed"}
  /\ acceptor \in {"test", "gap", "doze", "loop", "select", "serve", "add", "signal",
                   "sig", "break_close", "break_wake", "close", "wake", "done"}
  /\ watchdog \in {"zero", "outer", "test", "gap", "doze", "inner", "scan", "found",
                   "read", "kill", "done"}
  /\ slave \in {"circuit", "login", "beat", "exit", "close", "closing", "reclose",
                "wake", "done"}
  /\ sock \in Fds \cup {EMPTY}
  /\ i \in 1 .. MaxSize
  /\ link \in Peer \cup {"none", "failed"}
  /\ conn \in [Fds -> Peer \cup {"free"}]
  /\ fd_arr \in [Slots -> Fds \cup {EMPTY}]
  /\ rdfds \subseteq Fds
  /\ curr_size \in Int
  /\ rows \subseteq Fds

\* While the node runs, the three records of who is registered agree: curr_size
\* counts the used slots, no descriptor is in two slots, and the table lists
\* exactly the descriptors in the slots, whatever add_con, kill_con, a reused
\* descriptor or a table left by a killed process have done before.
TableMatchesSet ==
  is_on =>
    /\ curr_size = Cardinality(Used)
    /\ \A n, m \in Slots : fd_arr[n] = fd_arr[m] /\ fd_arr[n] # EMPTY => n = m
    /\ rows = InSet

\* No connection is lost, whatever close_all_fds closes twice and accept() hands
\* out again in between: an open descriptor is the one the acceptor is serving or
\* in a slot of the set, so a later close reaches it.  Until the node stops, the
\* descriptors so owned are all open; and a descriptor has both owners only while
\* the slave is between the two closes of it.
OpenAreOwned ==
  /\ \A f \in Fds : conn[f] # "free" => f \in InSet \/ f = sock
  /\ is_on => \A f \in InSet \cup ({sock} \ {EMPTY}) : conn[f] # "free"
  /\ sock \in InSet => slave = "reclose"

\* When the process has ended by itself, no connection is open and no row is
\* left, although the slave may have run close_all_fds before the acceptor
\* registered its last server, and the watchdog may have been in kill_con.
ExitLeavesNothing ==
  main = "closed" =>
    /\ \A f \in Fds : conn[f] = "free"
    /\ InSet = {}
    /\ rows = {}

\* From the watchdog's FD_ZERO to the node's stop, every server that add_con
\* registers is watched, and none that is watched stops being so while it is
\* registered.
NeverUnwatched ==
  [][watchdog # "zero" /\ is_on =>
       InSet' \ rdfds' \subseteq InSet \ rdfds]_vars

SomeoneSilent == link = "silent" \/ \E f \in Fds : conn[f] = "silent"

\* A registered server that has gone and is in rdfds is dropped, provided the
\* watchdog has begun and is awake: its rounds reach every slot, and it does not
\* go to sleep while a server is registered.  Only a silent peer can stop it.
GoneServerLeaves ==
  \A f \in Fds :
    (/\ is_on /\ f \in InSet /\ f \in rdfds /\ conn[f] = "gone"
     /\ watchdog \notin {"zero", "gap", "doze"})
      ~> (~is_on \/ f \notin InSet \/ conn[f] # "gone" \/ SomeoneSilent)

CleaningBegun ==
  \/ acceptor \in {"break_close", "break_wake", "sig", "close", "wake", "done"}
  \/ slave \in {"exit", "close", "closing", "reclose", "wake"}
  \/ slave = "login" /\ link = "none"
  \/ slave = "done" /\ ~is_master

\* A node stops completely once it is told to, whatever the order in which its
\* threads notice, when no thread was in the gap of a wait and no clean_func had
\* begun: the signals then come after the sleeps they end.  Only a silent peer,
\* in a read from or a send to which a thread waits, can hold it up.
QuietStopEnds ==
  (/\ Running /\ ~is_on /\ ~CleaningBegun
   /\ main # "gap" /\ watchdog # "gap" /\ acceptor # "gap")
     ~> (~Running \/ SomeoneSilent)

\* When the node above goes, the node itself stops serving: a heartbeat that
\* cannot be sent ends the slave, and the slave ends the rest.
UpperDeathStops ==
  (slave = "beat" /\ link = "gone") ~> ~is_on

\* "if one heartbeat fails, then the one who pulls the plug will be removed from
\* the connection": a registered server whose heartbeats have stopped for good is
\* removed from the list, unless the node itself stops first.
OneWhoPullsThePlugIsRemoved ==
  \A f \in Fds :
    (is_on /\ f \in InSet /\ conn[f] # "up")
      ~> (~is_on \/ f \notin InSet \/ conn[f] = "up")

=============================================================================
