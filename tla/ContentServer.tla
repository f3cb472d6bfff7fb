---------------------------- MODULE ContentServer ----------------------------
(***************************************************************************)
(* A content server (code/content_server) and the ports it borrows from    *)
(* the port mapper.  Two threads:                                          *)
(*                                                                         *)
(*   main    serverInit: borrows a port to listen on, runs                 *)
(*           con_accepting_loop, joins the slave, cleans up;               *)
(*   slave   slave_thread (extra_funcs/interlvl_com), in slave mode only:  *)
(*           borrows some ports, tries them one after the other to reach   *)
(*           the heartbeat server (connection_attempt_circuit), returns    *)
(*           the ones it does not use, logs in and sends heartbeats.       *)
(*                                                                         *)
(* In auto mode con_accepting_loop also keeps the rotation: how long the   *)
(* current song has been the current one, and which is next.  A request is *)
(* served by a process of its own, forked and executed afresh.             *)
(*                                                                         *)
(* The port mapper is external: what it lends is chosen among the ports it *)
(* has not on record for this server, and its record is not lost with it   *)
(* (PortMapper is its model, and tells when both fail).  Every exchange    *)
(* with it is one step and may fail, before or after the mapper has acted. *)
(* Time is in ticks, the unit of the timevals; a wait in select takes      *)
(* 0 .. SelectTime of them.                                                *)
(***************************************************************************)
EXTENDS Integers, FiniteSets, Sequences

CONSTANTS
  Ports,        \* the ports the mapper may lend; 0 is "no port"
  Give,         \* NUM_PORTS_TO_GIVE
  Interfaces,   \* how many IPv4 interfaces getifaddrs lists
  Songs,        \* curr_num_songs_rotation
  Period,       \* rotation_period
  SelectTime    \* SERVER_TIMEOUT_CON_SEC and _USEC

\* prepare_nightmare_blunt_rotation exits when the rotation is empty.  It compares
\* the period with the configured connection timeout, not with SelectTime.
ASSUME ContentServerAssumption ==
  /\ Ports \subseteq Nat \ {0}
  /\ IsFiniteSet(Ports)
  /\ Give \in Nat \ {0}
  /\ Interfaces \in Nat
  /\ Songs \in Nat \ {0}
  /\ SelectTime \in Nat \ {0}
  /\ Period \in Nat \ {0}

\* History stops counting here: later than any change the code can be asked for.
AgeBound == Period + SelectTime + 1

VARIABLES
  slave_mode, is_auto_mode,   \* configuration
  is_on, started,             \* the flags serverStop and the slave set
  main, slave,                \* where each thread is
  listen_port,                \* server_tcp_addr's port
  con_port,                   \* this_con_addr's port: the one tried last
  attempted_port_arr,         \* the array, its count being its length
  curr_attempts, ifa,         \* the circuit's position
  connected,                  \* the slave's socket is connected
  silent,                     \* its peer neither answers nor takes data, nor closes
  gave_up,                    \* the circuit has failed
  child_pid,                  \* a worker has been forked
  index, waited,              \* curr_song_index_rotation, curr_song_waited_time
  age, missed,                \* history: ticks since the last change; a select was interrupted
  lasted,                     \* history: ticks for which the song just replaced was current, or 0
  held,                       \* the ports the mapper has on record for this server
  repeated,                   \* history: a port was returned that was not on record
  excuse                      \* history: the Lapses so far

config   == <<slave_mode, is_auto_mode>>
flags    == <<is_on, started>>
circuit  == <<attempted_port_arr, curr_attempts, ifa, connected, silent, gave_up>>
rotation == <<child_pid, index, waited, age, missed, lasted>>
mapper   == <<held, repeated, excuse>>
vars == <<config, flags, main, slave, listen_port, con_port, circuit, rotation, mapper>>

\* What may leave a port on the mapper's record, or take it off too soon: an
\* exchange with the mapper that failed, a stop before the circuit has dealt with
\* its array, a JOIN for which the mapper had too few ports, an address to listen
\* on that could not be made.
Lapses == {"mapper", "early", "short", "address"}

\* serverStop, the handler of SIGINT, SIGTERM and SIGPIPE.
ServerStop == is_on' = FALSE /\ started' = TRUE

-----------------------------------------------------------------------------
(* Exchanges with the port mapper.                                         *)

\* What the mapper records when the ports of R come back.
Returned(R) ==
  /\ held' = held \ R
  /\ repeated' = (repeated \/ ~(R \subseteq held))

\* send_port_back(p): nothing for port 0, and no result to look at.
SendPortBack(p) ==
  \/ p = 0 /\ UNCHANGED mapper
  \/ p # 0 /\ Returned({p}) /\ UNCHANGED excuse
  \/ p # 0 /\ excuse' = excuse \cup {"mapper"} /\ UNCHANGED <<held, repeated>>

ElementsOf(s) == {s[n] : n \in DOMAIN s}
\* A variant of Without in which the memmove is missing: the last entry is lost.
Without_last(s, w) == [n \in 1 .. Len(s) - (IF w = 0 THEN 0 ELSE 1) |-> s[n]]

\* memmove in send_ports_back: entry w leaves the array (none when w is 0).
Without(s, w) == [n \in 1 .. Len(s) - (IF w = 0 THEN 0 ELSE 1) |->
                    IF w = 0 \/ n < w THEN s[n] ELSE s[n + 1]]

\* send_ports_back, for the ports of the array but entry w.  Before the mapper
\* has answered, a failure leaves the array as it is; when the last send fails
\* the array is already cleared, and SIGINT is raised.
SendPortsBack(w) ==
  \/ /\ attempted_port_arr = <<>>
     /\ UNCHANGED <<attempted_port_arr, mapper, flags>>
  \/ /\ attempted_port_arr # <<>>
     /\ Returned(ElementsOf(Without(attempted_port_arr, w)))
     /\ attempted_port_arr' = <<>>
     /\ UNCHANGED <<flags, excuse>>
  \/ /\ attempted_port_arr # <<>>
     /\ excuse' = excuse \cup {"mapper"}
     /\ UNCHANGED <<attempted_port_arr, held, repeated, flags>>
  \/ /\ attempted_port_arr # <<>>
     /\ excuse' = excuse \cup {"mapper"}
     /\ attempted_port_arr' = <<>>
     /\ ServerStop
     /\ UNCHANGED <<held, repeated>>

\* What ask_for_ports may receive: ascending ports that were not on record.
PortArrays == UNION {[1 .. n -> Ports \ held] : n \in 0 .. Give}
Lendable == {s \in PortArrays : \A m, n \in DOMAIN s : m < n => s[m] < s[n]}

-----------------------------------------------------------------------------
(* main: serverInit.                                                       *)

\* init_module_tcp_stuff got no port from ask_for_port, which the mapper may have
\* lent all the same: raise and exit.
BootNoPort ==
  /\ main = "boot"
  /\ \/ UNCHANGED mapper
     \/ /\ \E p \in Ports \ held : held' = held \cup {p}
        /\ excuse' = excuse \cup {"mapper"} /\ UNCHANGED repeated
  /\ main' = "exited" /\ ServerStop
  /\ UNCHANGED <<config, slave, listen_port, con_port, circuit, rotation>>

BootPort ==
  /\ main = "boot"
  /\ \E p \in Ports \ held : listen_port' = p /\ held' = held \cup {p}
  /\ main' = "bind"
  /\ UNCHANGED <<config, flags, slave, con_port, circuit, rotation, repeated, excuse>>

\* The address to listen on cannot be made (init_addr, when bind_on_any_if is 0):
\* raise and exit, and nobody returns the port.
BootBadAddress ==
  /\ main = "bind"
  /\ excuse' = excuse \cup {"address"}
  /\ main' = "exited" /\ ServerStop
  /\ UNCHANGED <<config, slave, listen_port, con_port, circuit, rotation, held, repeated>>

\* bind, or the address of the heartbeat server, fails: the port goes back.
BootFails ==
  /\ main = "bind"
  /\ SendPortBack(listen_port)
  /\ main' = "exited" /\ ServerStop
  /\ UNCHANGED <<config, slave, listen_port, con_port, circuit, rotation>>

BootListens ==
  /\ main = "bind"
  /\ main' = "test"
  /\ slave' = IF slave_mode THEN "ask" ELSE "done"
  /\ UNCHANGED <<config, flags, listen_port, con_port, circuit, rotation, mapper>>

\* con_accepting_loop waits for the slave's first login.
LoopTest ==
  /\ main = "test"
  /\ main' = IF started THEN "loop" ELSE "gap"
  /\ UNCHANGED <<config, flags, slave, listen_port, con_port, circuit, rotation, mapper>>

LoopSleep ==
  /\ main = "gap"
  /\ main' = "doze"
  /\ UNCHANGED <<config, flags, slave, listen_port, con_port, circuit, rotation, mapper>>

LoopEnds ==
  /\ main = "loop" /\ ~is_on
  /\ main' = "join"
  /\ UNCHANGED <<config, flags, slave, listen_port, con_port, circuit, rotation, mapper>>

-----------------------------------------------------------------------------
(* One round of con_accepting_loop, of d ticks.                            *)

Older(d) == age' = IF age + d > AgeBound THEN AgeBound ELSE age + d
\* A variant of PickNextSong that changes the song at the period, not after it.
PickNextSong_at(d) ==
  IF ~is_auto_mode THEN UNCHANGED <<index, waited, age, missed, lasted>>
  ELSE IF waited + d >= Period
       THEN /\ index' = (index + 1) % Songs
            /\ waited' = 0 /\ age' = 0 /\ missed' = FALSE /\ lasted' = age + d
       ELSE /\ waited' = waited + d /\ Older(d) /\ lasted' = 0
            /\ UNCHANGED <<index, missed>>

\* pick_next_song, with the ticks between the two gettimeofday calls.
PickNextSong(d) ==
  IF ~is_auto_mode THEN UNCHANGED <<index, waited, age, missed, lasted>>
  ELSE IF waited + d > Period
       THEN /\ index' = (index + 1) % Songs
            /\ waited' = 0 /\ age' = 0 /\ missed' = FALSE /\ lasted' = age + d
       ELSE /\ waited' = waited + d /\ Older(d) /\ lasted' = 0
            /\ UNCHANGED <<index, missed>>

\* The worker is executed afresh and reads the configuration again:
\* prepare_nightmare_blunt_rotation starts its rotation from the first song.
WorkerSong == 0

LoopTimesOut ==
  /\ main = "loop" /\ is_on
  /\ PickNextSong(SelectTime)
  /\ UNCHANGED <<config, flags, main, slave, listen_port, con_port, circuit, child_pid, mapper>>

\* fork and execvp; the request is served by con_go in the worker.
LoopForks ==
  /\ main = "loop" /\ is_on
  /\ \E d \in 0 .. SelectTime : PickNextSong(d)
  /\ child_pid' = TRUE
  /\ UNCHANGED <<config, flags, main, slave, listen_port, con_port, circuit, mapper>>

\* fork fails: SIGTERM is raised.
LoopForkFails ==
  /\ main = "loop" /\ is_on
  /\ ServerStop
  /\ main' = "join"
  /\ UNCHANGED <<config, slave, listen_port, con_port, circuit, rotation, mapper>>

\* accept fails, or select does before any worker was forked: the loop returns,
\* and is_on stays as it is.
LoopGivesUp ==
  /\ main = "loop" /\ is_on
  /\ main' = "join"
  /\ UNCHANGED <<config, flags, slave, listen_port, con_port, circuit, rotation, mapper>>

\* select is interrupted, by the SIGCHLD of a worker: `continue', and the ticks
\* waited so far are not counted.
LoopInterrupted ==
  /\ main = "loop" /\ is_on /\ child_pid
  /\ \E d \in 0 .. SelectTime :
       IF is_auto_mode THEN Older(d) ELSE UNCHANGED age
  /\ missed' = is_auto_mode /\ lasted' = 0
  /\ UNCHANGED <<config, flags, main, slave, listen_port, con_port, circuit,
                 child_pid, index, waited, mapper>>

\* pthread_join of the slave, then call_sigint.
MainJoins ==
  /\ main = "join" /\ slave = "done"
  /\ SendPortBack(listen_port)
  /\ main' = "exited"
  /\ UNCHANGED <<config, flags, slave, listen_port, con_port, circuit, rotation>>

-----------------------------------------------------------------------------
(* slave_thread.                                                           *)

\* The mapper answers a JOIN with an array that is shorter than Give, after taking
\* its ports off the record again; the circuit uses it all the same.
Received(s) ==
  /\ attempted_port_arr' = s
  /\ IF Len(s) \in {0, Give}
     THEN held' = held \cup ElementsOf(s) /\ UNCHANGED excuse
     ELSE excuse' = excuse \cup {"short"} /\ UNCHANGED held

\* The start of connection_attempt_circuit: getifaddrs fails; or ask_for_ports
\* receives an array, or none, and then the mapper may have lent one all the same.
CircuitAsks ==
  /\ slave = "ask"
  /\ \/ /\ slave' = "exit" /\ gave_up' = TRUE
        /\ UNCHANGED <<attempted_port_arr, held, excuse>>
     \/ /\ \E s \in Lendable : Received(s)
        /\ slave' = "attempt" /\ UNCHANGED gave_up
     \/ /\ \E s \in Lendable : Len(s) = Give /\ held' = held \cup ElementsOf(s)
        /\ excuse' = excuse \cup {"mapper"}
        /\ slave' = "attempt" /\ UNCHANGED <<attempted_port_arr, gave_up>>
  /\ UNCHANGED <<config, flags, main, listen_port, con_port, curr_attempts, ifa, connected, silent,
                 rotation, repeated>>
\* A variant of CircuitNextInterface that goes on after the last interface.
CircuitNextInterface_past ==
  /\ slave = "attempt"
  /\ ifa <= Interfaces /\ curr_attempts = Len(attempted_port_arr)
  /\ ifa' = ifa + 1 /\ curr_attempts' = 0
  /\ UNCHANGED <<config, flags, main, slave, listen_port, con_port, attempted_port_arr,
                 connected, silent, gave_up, rotation, mapper>>

\* No port of the array worked on this interface: the next one.
CircuitNextInterface ==
  /\ slave = "attempt"
  /\ ifa < Interfaces /\ curr_attempts = Len(attempted_port_arr)
  /\ ifa' = ifa + 1 /\ curr_attempts' = 0
  /\ UNCHANGED <<config, flags, main, slave, listen_port, con_port, attempted_port_arr,
                 connected, silent, gave_up, rotation, mapper>>

\* No interface is left, or socket or getnameinfo fails: quit_handler.
CircuitGivesUp ==
  /\ slave = "attempt"
  /\ gave_up' = TRUE
  /\ slave' = "exit"
  /\ UNCHANGED <<config, flags, main, listen_port, con_port, attempted_port_arr, curr_attempts,
                 ifa, connected, silent, rotation, mapper>>
\* A variant of CircuitTries that sends a port back as soon as it has failed.
CircuitTries_returned ==
  /\ slave = "attempt"
  /\ ifa < Interfaces /\ curr_attempts < Len(attempted_port_arr)
  /\ curr_attempts' = curr_attempts + 1
  /\ con_port' \in {con_port, attempted_port_arr[curr_attempts + 1]}
  /\ SendPortBack(attempted_port_arr[curr_attempts + 1])
  /\ UNCHANGED <<config, flags, main, slave, listen_port, attempted_port_arr, ifa,
                 connected, silent, gave_up, rotation>>

\* A port is tried and does not work: init_addr or bind fails, the address is the
\* destination, or tryConnect returns 0 or less.
CircuitTries ==
  /\ slave = "attempt"
  /\ ifa < Interfaces /\ curr_attempts < Len(attempted_port_arr)
  /\ curr_attempts' = curr_attempts + 1
  /\ con_port' \in {con_port, attempted_port_arr[curr_attempts + 1]}
  /\ UNCHANGED <<config, flags, main, slave, listen_port, attempted_port_arr, ifa,
                 connected, silent, gave_up, rotation, mapper>>

\* tryConnect returns more than 0: free_attempted_ports for the others.
CircuitConnects ==
  /\ slave = "attempt"
  /\ ifa < Interfaces /\ curr_attempts < Len(attempted_port_arr)
  /\ curr_attempts' = curr_attempts + 1
  /\ con_port' = attempted_port_arr[curr_attempts + 1]
  /\ SendPortsBack(curr_attempts + 1)
  /\ connected' = TRUE
  /\ slave' = "login"
  /\ UNCHANGED <<config, main, listen_port, ifa, silent, gave_up, rotation>>

\* greet, LOG and its answer; start_trigger is set and main is signalled.
SlaveLogsIn ==
  /\ slave = "login" /\ connected /\ ~silent
  /\ started' = TRUE
  /\ main' = IF main = "doze" THEN "test" ELSE main
  /\ slave' = "beat"
  /\ UNCHANGED <<config, is_on, listen_port, con_port, circuit, rotation, mapper>>

\* There is no connection, or it breaks; a send may then raise SIGPIPE.
SlaveLoginFails ==
  /\ slave = "login" /\ ~silent
  /\ UNCHANGED flags \/ ServerStop
  /\ slave' = "exit"
  /\ UNCHANGED <<config, main, listen_port, con_port, circuit, rotation, mapper>>

\* The loop ends: is_on is 0, or the heartbeat server is gone.
SlaveBeatFails ==
  /\ slave = "beat" /\ ~silent
  /\ UNCHANGED flags \/ ServerStop
  /\ slave' = "exit"
  /\ UNCHANGED <<config, main, listen_port, con_port, circuit, rotation, mapper>>

(* slave_thread_exit_func, in four steps. *)

ExitPort ==
  /\ slave = "exit"
  /\ SendPortBack(con_port)
  /\ UNCHANGED flags \/ ("mapper" \in excuse' /\ ServerStop)
  /\ slave' = "exit_ports"
  /\ UNCHANGED <<config, main, listen_port, con_port, circuit, rotation>>
\* A variant of ExitPorts without free_attempted_ports.
ExitPorts_kept ==
  /\ slave = "exit_ports"
  /\ UNCHANGED <<attempted_port_arr, mapper, flags>>
  /\ connected' = FALSE /\ silent' = FALSE
  /\ slave' = "exit_stop"
  /\ UNCHANGED <<config, main, listen_port, con_port, curr_attempts, ifa, gave_up, rotation>>

\* The array goes back only while the server is still on.
ExitPorts ==
  /\ slave = "exit_ports"
  /\ IF is_on THEN SendPortsBack(0)
     ELSE UNCHANGED <<attempted_port_arr, mapper, flags>>
  /\ connected' = FALSE /\ silent' = FALSE
  /\ slave' = "exit_stop"
  /\ UNCHANGED <<config, main, listen_port, con_port, curr_attempts, ifa, gave_up, rotation>>
\* A variant of ExitStop without the signal to main.
ExitStop_quiet ==
  /\ slave = "exit_stop"
  /\ ServerStop
  /\ slave' = "exit_clean"
  /\ UNCHANGED <<config, main, listen_port, con_port, circuit, rotation, mapper>>

ExitStop ==
  /\ slave = "exit_stop"
  /\ ServerStop
  /\ main' = IF main = "doze" THEN "test" ELSE main
  /\ slave' = "exit_clean"
  /\ UNCHANGED <<config, listen_port, con_port, circuit, rotation, mapper>>

\* clean_func, which is call_sigint: the listening port goes back.  After a failed
\* circuit slave_thread goes on to log in, on a socket that is not connected.
ExitClean ==
  /\ slave = "exit_clean"
  /\ SendPortBack(listen_port)
  /\ slave' = IF gave_up THEN "login" ELSE "done"
  /\ gave_up' = FALSE
  /\ UNCHANGED <<config, flags, main, listen_port, con_port, attempted_port_arr, curr_attempts,
                 ifa, connected, silent, rotation>>

-----------------------------------------------------------------------------
\* The heartbeat server stops answering and taking data, or starts again.  con_read
\* and con_send are readall and sendall, which start again after every timeout:
\* the login and the heartbeat wait for as long as it takes.
UpperChanges ==
  /\ slave \in {"login", "beat"} /\ connected
  /\ silent' = ~silent
  /\ UNCHANGED <<config, flags, main, slave, listen_port, con_port, attempted_port_arr,
                 curr_attempts, ifa, connected, gave_up, rotation, mapper>>

\* ^C or SIGTERM: serverStop.  In the slave it also ends the select it waits in.
SigInt ==
  /\ main \notin {"boot", "exited"} /\ is_on
  /\ ServerStop
  /\ excuse' = IF slave \in {"off", "ask", "attempt"} \/ gave_up THEN excuse \cup {"early"} ELSE excuse
  /\ slave' \in {slave, IF slave \in {"login", "beat"} THEN "exit" ELSE slave}
  /\ UNCHANGED <<config, main, listen_port, con_port, circuit, rotation, held, repeated>>

Init ==
  /\ slave_mode \in BOOLEAN /\ is_auto_mode \in BOOLEAN
  /\ is_on = TRUE /\ started = ~slave_mode
  /\ main = "boot" /\ slave = "off"
  /\ listen_port = 0 /\ con_port = 0
  /\ attempted_port_arr = <<>> /\ curr_attempts = 0 /\ ifa = 0
  /\ connected = FALSE /\ silent = FALSE /\ gave_up = FALSE
  /\ child_pid = FALSE /\ index = 0 /\ waited = 0
  /\ age = 0 /\ missed = FALSE /\ lasted = 0
  /\ held = {} /\ repeated = FALSE /\ excuse = {}

MainStep ==
  \/ BootNoPort \/ BootPort \/ BootBadAddress \/ BootFails \/ BootListens \/ LoopTest \/ LoopSleep
  \/ LoopEnds \/ LoopTimesOut \/ LoopForks \/ LoopForkFails \/ LoopGivesUp
  \/ LoopInterrupted \/ MainJoins
SlaveStep ==
  \/ CircuitAsks \/ CircuitNextInterface \/ CircuitGivesUp \/ CircuitTries \/ CircuitConnects
  \/ SlaveLogsIn \/ SlaveLoginFails \/ SlaveBeatFails
  \/ ExitPort \/ ExitPorts \/ ExitStop \/ ExitClean

\* The process has exited.
Terminated == main = "exited" /\ UNCHANGED vars

Next == MainStep \/ SlaveStep \/ UpperChanges \/ SigInt \/ Terminated

\* Both threads run; the exchanges with the mapper, made with sendsome and
\* readsome, end in time.  Nothing is asked of the heartbeat server.  Either
\* thread, in its loop, tests is_on once per round and leaves when that is 0;
\* nothing makes it leave before.
Fairness ==
  /\ WF_vars(MainStep /\ (main = "loop" => ~is_on))
  /\ WF_vars(SlaveStep /\ (slave = "beat" => ~is_on))

Spec == Init /\ [][Next]_vars
FairSpec == Spec /\ Fairness

-----------------------------------------------------------------------------
(* Properties.                                                             *)

TypeOK ==
  /\ slave_mode \in BOOLEAN /\ is_auto_mode \in BOOLEAN
  /\ is_on \in BOOLEAN /\ started \in BOOLEAN
  /\ main \in {"boot", "bind", "test", "gap", "doze", "loop", "join", "exited"}
  /\ slave \in {"off", "ask", "attempt", "login", "beat", "exit", "exit_ports",
                "exit_stop", "exit_clean", "done"}
  /\ listen_port \in Ports \cup {0} /\ con_port \in Ports \cup {0}
  /\ attempted_port_arr \in Seq(Ports) /\ Len(attempted_port_arr) <= Give
  /\ curr_attempts \in 0 .. Give /\ ifa \in 0 .. Interfaces
  /\ connected \in BOOLEAN /\ silent \in BOOLEAN /\ gave_up \in BOOLEAN /\ child_pid \in BOOLEAN
  /\ index \in 0 .. Songs - 1 /\ waited \in 0 .. Period
  /\ age \in 0 .. AgeBound /\ missed \in BOOLEAN /\ lasted \in 0 .. AgeBound + SelectTime
  /\ held \subseteq Ports /\ repeated \in BOOLEAN
  /\ excuse \subseteq Lapses

\* The ports a running server uses are on the mapper's record as its own, so nobody
\* else is lent them: the one it listens on, and the one its slave is connected
\* from once the circuit has sent the others back.  The exception is a circuit
\* that was answered with fewer ports than it asked for.
PortsInUseAreOnRecord ==
  is_on =>
    /\ main \in {"test", "gap", "doze", "loop", "join"} => listen_port \in held
    /\ connected /\ slave \in {"login", "beat"} /\ "short" \notin excuse => con_port \in held

\* "All the attempted ports are returned at the end": a server that has exited has
\* left no port on the mapper's record, whichever attempt worked or none, unless
\* an exchange with the mapper failed, it was stopped before the circuit had dealt
\* with its array, or it had no address to listen on.
PortsAreReturnedAtTheEnd ==
  main = "exited" /\ excuse \subseteq {"short"} => held = {}

\* A port is sent back when it is not on record, and may already be another
\* program's, only by a server that has stopped or whose slave is in its exit
\* function, or after a JOIN that was answered with too few ports.
RepeatsOnlyWhenStopping ==
  repeated => ~is_on \/ slave = "exit_stop" \/ "short" \in excuse

\* The rotation goes through the songs in order, one at a time.  A song is replaced
\* only when it has been the current one for more than Period ticks, the wait of
\* the round that replaces it included; and, when no select was interrupted
\* meanwhile, at most SelectTime ticks after its period (the code's select waits
\* three seconds; the documentation promises a change within one).
SongHoldsItsPeriod ==
  [][index' # index \/ (main = "loop" /\ age' < age) =>
       /\ index' = (index + 1) % Songs
       /\ lasted' > Period
       /\ ~missed => lasted' <= Period + SelectTime]_vars

\* A server that was told to stop exits: the slave leaves its loop and wakes main,
\* which joins it.  A main that dozes is woken only if the slave's signal is
\* still to come.  Only a heartbeat server that neither answers the login nor
\* takes a heartbeat nor closes can hold the exit up.
StoppedServerExits ==
  (/\ ~is_on /\ main # "gap"
   /\ main = "doze" => slave \in {"ask", "attempt", "login", "beat", "exit",
                                  "exit_ports", "exit_stop"})
    ~> (main = "exited" \/ silent)

\* "values are Photographed between forked processes": in auto mode a worker
\* serves the song that was the current one when it was forked.
WorkerServesTheCurrentSong ==
  [][LoopForks /\ is_auto_mode => WorkerSong = index]_vars

=============================================================================
