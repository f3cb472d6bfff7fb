------------------------- MODULE ContentServerProofs -------------------------
(***************************************************************************)
(* The properties of a content server for every set of ports, number of    *)
(* interfaces, rotation and period: IndInv is inductive, the invariants    *)
(* follow from it, and so does SongHoldsItsPeriod for every step.          *)
(***************************************************************************)
EXTENDS ContentServer, TLAPS

\* The slave's thread runs only between serverInit's pthread_create and
\* pthread_join, and what the circuit leaves tells the two passes through
\* slave_thread_exit_func apart: in the first one there is a connection or the
\* circuit has given up, in the second one the server is off.
PhasesMatch ==
  /\ main \in {"boot", "bind"} => slave = "off"
  /\ main = "exited" => slave \in {"off", "done"}
  /\ slave = "off" => main \in {"boot", "bind", "exited"}
  /\ main \in {"loop", "join"} => started
  /\ gave_up => slave \in {"exit", "exit_ports", "exit_stop", "exit_clean"} /\ ~connected
  /\ connected => slave \in {"login", "beat", "exit", "exit_ports"}
  /\ slave = "beat" => connected
  /\ slave \in {"login", "exit", "exit_ports"} /\ ~connected /\ ~gave_up => ~is_on
  /\ slave = "exit_clean" \/ (slave = "done" /\ slave_mode) => ~is_on
  /\ slave \notin {"off", "done"} => slave_mode

\* The array and the port of the connection come out of one ask_for_ports, made
\* while the listening port was on record: they never hold that port.
PortsDistinct ==
  /\ main \notin {"boot", "exited"} => listen_port \in Ports
  /\ slave \in {"off", "ask"} => con_port = 0 /\ attempted_port_arr = <<>>
  /\ \A m, n \in DOMAIN attempted_port_arr : m < n => attempted_port_arr[m] < attempted_port_arr[n]
  /\ listen_port \notin ElementsOf(attempted_port_arr)
  /\ con_port # 0 => con_port # listen_port

\* The ports of a full array stay on record until free_attempted_ports, the one the
\* circuit connects from until slave_thread_exit_func.
CircuitOnRecord ==
  /\ main = "boot" => held = {}
  /\ slave \in {"off", "ask"} /\ main \notin {"boot", "exited"} => listen_port \in held
  /\ slave = "attempt" \/ (slave = "exit" /\ gave_up) =>
       /\ "short" \notin excuse => ElementsOf(attempted_port_arr) \subseteq held
       /\ con_port # 0 => con_port \in ElementsOf(attempted_port_arr)
  /\ "short" \notin excuse /\ connected /\ slave \in {"login", "beat", "exit"} => con_port \in held

\* The listening port stays on record for as long as the server is on.
ListeningOnRecord ==
  is_on /\ main \notin {"boot", "exited"} => listen_port \in held

\* What is still to go back besides the listening port.
Pending ==
  IF slave = "attempt" \/ (gave_up /\ slave \in {"exit", "exit_ports"})
  THEN ElementsOf(attempted_port_arr)
  ELSE IF connected /\ slave \in {"login", "beat", "exit"} THEN {con_port} ELSE {}

\* As long as nothing has failed or come too early, a short array excepted, the
\* circuit begins and gives up with the server on, and the mapper's record holds no
\* port but the listening one and those the slave still has to send back.
OnlyPendingHeld ==
  excuse \subseteq {"short"} =>
    /\ \/ slave \in {"ask", "attempt"}
       \/ slave = "off" /\ slave_mode /\ main \in {"boot", "bind"}
       \/ gave_up /\ slave \in {"exit", "exit_ports"}
       => is_on /\ ~started
    /\ held \subseteq {listen_port} \cup Pending
    /\ main = "exited" => held = {}

\* The ticks pick_next_song has counted are ticks that have passed, and all of them
\* unless a select was interrupted.
WaitedIsAge ==
  /\ waited <= age
  /\ ~missed => age = waited
  /\ ~is_auto_mode => ~missed

IndInv ==
  /\ TypeOK /\ PhasesMatch /\ PortsDistinct /\ CircuitOnRecord /\ ListeningOnRecord
  /\ OnlyPendingHeld /\ RepeatsOnlyWhenStopping /\ WaitedIsAge

-----------------------------------------------------------------------------
(* No port is 0, and the history's bound lies beyond the latest change.    *)
LEMMA ConstantsType ==
  /\ Ports \subseteq Nat \ {0} /\ 0 \notin Ports
  /\ Give \in Nat /\ Interfaces \in Nat /\ Songs \in Nat /\ Songs > 0
  /\ SelectTime \in Nat /\ SelectTime > 0 /\ Period \in Nat /\ Period > 0
  /\ AgeBound \in Nat /\ AgeBound > Period + SelectTime
  BY ContentServerAssumption DEF AgeBound

(* serverStop clears is_on and sets started. *)
LEMMA ServerStopFlags ==
  ASSUME ServerStop
  PROVE  ~is_on' /\ started' /\ is_on' \in BOOLEAN /\ started' \in BOOLEAN
  BY Zenon DEF ServerStop

(* A step that leaves the flags alone or stops the server only clears      *)
(* is_on and only sets started.                                            *)
LEMMA FlagsOnlyStop ==
  ASSUME TypeOK, UNCHANGED flags \/ ServerStop
  PROVE  /\ is_on' \in BOOLEAN /\ started' \in BOOLEAN
         /\ is_on' => is_on
         /\ started => started'
  <1>1. is_on \in BOOLEAN /\ started \in BOOLEAN
    BY DEF TypeOK
  <1>2. CASE UNCHANGED flags
    BY <1>1, <1>2 DEF flags
  <1>3. CASE ServerStop
    BY <1>3, ServerStopFlags
  <1>4. QED
    BY <1>2, <1>3

(* The entries of a sequence of ports are ports. *)
LEMMA ElementsArePorts ==
  ASSUME NEW s \in Seq(Ports)
  PROVE  ElementsOf(s) \subseteq Ports /\ \A n \in 1 .. Len(s) : s[n] \in ElementsOf(s)
  BY DEF ElementsOf

(* An empty array has no entries, and fits. *)
LEMMA EmptyArray == ElementsOf(<<>>) = {} /\ <<>> \in Seq(Ports) /\ Len(<<>>) <= Give
  BY ConstantsType DEF ElementsOf

(* What ask_for_ports receives: an ascending array that fits, of ports that *)
(* were not on record.                                                     *)
LEMMA LentArray ==
  ASSUME NEW s \in Lendable
  PROVE  /\ s \in Seq(Ports) /\ Len(s) <= Give
         /\ ElementsOf(s) \cap held = {}
         /\ \A m, n \in DOMAIN s : m < n => s[m] < s[n]
  <1>1. PICK n \in 0 .. Give : s \in [1 .. n -> Ports \ held]
    BY DEF Lendable, PortArrays
  <1>2. s \in Seq(Ports) /\ Len(s) = n /\ DOMAIN s = 1 .. n
    BY <1>1, ConstantsType
  <1>3. ElementsOf(s) \cap held = {}
    BY <1>1, <1>2 DEF ElementsOf
  <1>4. QED
    BY <1>2, <1>3, ConstantsType DEF Lendable

(* send_ports_back with no port to keep sends them all. *)
LEMMA WithoutNone ==
  ASSUME NEW s \in Seq(Ports)
  PROVE  ElementsOf(Without(s, 0)) = ElementsOf(s)
  BY DEF ElementsOf, Without

(* The memmove takes out the port to keep and nothing else. *)
LEMMA WithoutOne ==
  ASSUME NEW s \in Seq(Ports), NEW w \in 1 .. Len(s),
         \A m, n \in DOMAIN s : m < n => s[m] < s[n]
  PROVE  ElementsOf(Without(s, w)) = ElementsOf(s) \ {s[w]}
  <1>1. DOMAIN Without(s, w) = 1 .. Len(s) - 1 /\ DOMAIN s = 1 .. Len(s) /\ Len(s) \in Nat
    BY DEF Without
  <1>2. \A n \in 1 .. Len(s) - 1 : Without(s, w)[n] = IF n < w THEN s[n] ELSE s[n + 1]
    BY DEF Without
  <1>3. \A n \in 1 .. Len(s) : s[n] = s[w] => n = w
    <2> SUFFICES ASSUME NEW n \in 1 .. Len(s), n # w
                 PROVE  s[n] # s[w]
      OBVIOUS
    <2>1. s[n] \in Ports /\ s[w] \in Ports
      BY <1>1
    <2>2. s[n] \in Nat /\ s[w] \in Nat
      BY <2>1, ConstantsType
    <2>3. s[n] < s[w] \/ s[w] < s[n]
      BY <1>1
    <2>4. QED
      BY <2>2, <2>3
  <1>4. ElementsOf(Without(s, w)) \subseteq ElementsOf(s) \ {s[w]}
    BY <1>1, <1>2, <1>3 DEF ElementsOf
  <1>5. ElementsOf(s) \ {s[w]} \subseteq ElementsOf(Without(s, w))
    <2>1. ASSUME NEW n \in 1 .. Len(s), n # w
          PROVE  \E m \in 1 .. Len(s) - 1 : Without(s, w)[m] = s[n]
      <3>1. CASE n < w
        BY <3>1, <1>2
      <3>2. CASE n > w
        <4>1. n - 1 \in 1 .. Len(s) - 1 /\ ~(n - 1 < w) /\ (n - 1) + 1 = n
          BY <3>2
        <4>2. QED
          BY <4>1, <1>2
      <3>3. QED
        BY <3>1, <3>2, <2>1
    <2> HIDE DEF Without
    <2>2. QED
      BY <1>1, <2>1 DEF ElementsOf
  <1>6. QED
    BY <1>4, <1>5

(* send_port_back(p) takes p off the record or leaves the record alone,    *)
(* which only a failure of the mapper explains.                            *)
LEMMA SendPortBackEffect ==
  ASSUME TypeOK, NEW p \in Ports \cup {0}, SendPortBack(p)
  PROVE  /\ held' \subseteq held /\ held \ {p} \subseteq held'
         /\ repeated' \in BOOLEAN /\ (repeated' => repeated \/ (p # 0 /\ p \notin held))
         /\ excuse' \subseteq Lapses /\ excuse \subseteq excuse'
         /\ ("short" \in excuse' => "short" \in excuse)
         /\ excuse' \subseteq {"short"} => held' = held \ {p}
  <1>1. held \subseteq Ports /\ repeated \in BOOLEAN /\ excuse \subseteq Lapses
    BY DEF TypeOK
  <1>2. CASE p = 0 /\ UNCHANGED mapper
    BY <1>1, <1>2, ConstantsType DEF mapper
  <1>3. CASE p # 0 /\ Returned({p}) /\ UNCHANGED excuse
    <2>1. held' = held \ {p}
      BY <1>3 DEF Returned
    <2>2. repeated' \in BOOLEAN /\ (repeated' => repeated \/ p \notin held)
      BY <1>1, <1>3, Zenon DEF Returned
    <2>3. QED
      BY <1>1, <1>3, <2>1, <2>2
  <1>4. CASE p # 0 /\ excuse' = excuse \cup {"mapper"} /\ UNCHANGED <<held, repeated>>
    BY <1>1, <1>4 DEF Lapses
  <1>5. QED
    BY <1>2, <1>3, <1>4 DEF SendPortBack

(* send_ports_back(w) takes the entries but the w-th off the record and    *)
(* clears the array, or fails and is excused by the mapper.                *)
LEMMA SendPortsBackEffect ==
  ASSUME TypeOK, PortsDistinct, NEW w \in 0 .. Len(attempted_port_arr), SendPortsBack(w)
  PROVE  LET arr  == attempted_port_arr
             Kept == IF w = 0 THEN {} ELSE {arr[w]}
         IN /\ arr' \in {arr, <<>>}
            /\ held' \subseteq held
            /\ held \ ElementsOf(arr) \subseteq held' /\ held \cap Kept \subseteq held'
            /\ repeated' \in BOOLEAN
            /\ repeated' => repeated \/ ~(ElementsOf(arr) \subseteq held)
            /\ excuse' \subseteq Lapses /\ excuse \subseteq excuse'
            /\ ("short" \in excuse' => "short" \in excuse)
            /\ excuse' \subseteq {"short"} => UNCHANGED flags /\ held' \cap ElementsOf(arr) \subseteq Kept
            /\ UNCHANGED flags \/ ServerStop
  <1> DEFINE arr  == attempted_port_arr
             Kept == IF w = 0 THEN {} ELSE {arr[w]}
             R    == ElementsOf(Without(arr, w))
  <1>1. arr \in Seq(Ports) /\ \A m, n \in DOMAIN arr : m < n => arr[m] < arr[n]
    BY DEF TypeOK, PortsDistinct
  <1>2. R = ElementsOf(arr) \ Kept
    BY <1>1, WithoutNone, WithoutOne
  <1> HIDE DEF R, Kept
  <1>3. CASE arr = <<>> /\ UNCHANGED <<attempted_port_arr, mapper, flags>>
    <2>1. ElementsOf(arr) = {}
      BY <1>3, EmptyArray
    <2>2. QED
      BY <1>3, <2>1 DEF TypeOK, mapper, Kept
  <1>4. CASE Returned(R) /\ attempted_port_arr' = <<>> /\ UNCHANGED <<flags, excuse>>
    BY <1>2, <1>4 DEF Returned, TypeOK, Kept
  <1>5. CASE /\ excuse' = excuse \cup {"mapper"}
             /\ UNCHANGED <<attempted_port_arr, held, repeated, flags>>
    BY <1>5 DEF TypeOK, Kept, Lapses
  <1>6. CASE /\ excuse' = excuse \cup {"mapper"} /\ attempted_port_arr' = <<>>
             /\ ServerStop /\ UNCHANGED <<held, repeated>>
    BY <1>6 DEF TypeOK, Kept, Lapses
  <1>7. QED
    BY <1>3, <1>4, <1>5, <1>6 DEF SendPortsBack, R

(* pick_next_song: the counted ticks stay within the period; a change of   *)
(* song starts both counts again, and comes after more than Period ticks.  *)
LEMMA PickNextSongEffect ==
  ASSUME TypeOK, WaitedIsAge, NEW d \in 0 .. SelectTime, PickNextSong(d)
  PROVE  /\ index' \in 0 .. Songs - 1 /\ waited' \in 0 .. Period
         /\ age' \in 0 .. AgeBound /\ missed' \in BOOLEAN /\ lasted' \in 0 .. AgeBound + SelectTime
         /\ waited' <= age' /\ (~missed' => age' = waited') /\ (~is_auto_mode => ~missed')
         /\ index' # index \/ age' < age =>
              /\ index' = (index + 1) % Songs
              /\ lasted' > Period
              /\ ~missed => lasted' <= Period + SelectTime
  <1>1. /\ index \in 0 .. Songs - 1 /\ waited \in 0 .. Period /\ age \in 0 .. AgeBound
        /\ missed \in BOOLEAN /\ is_auto_mode \in BOOLEAN /\ lasted \in 0 .. AgeBound + SelectTime
        /\ waited <= age /\ (~missed => age = waited) /\ (~is_auto_mode => ~missed)
    BY DEF TypeOK, WaitedIsAge
  <1>2. (index + 1) % Songs \in 0 .. Songs - 1
    BY <1>1, ConstantsType
  <1>3. CASE UNCHANGED <<index, waited, age, missed, lasted>>
    BY <1>1, <1>3, ConstantsType
  <1>4. CASE /\ waited + d > Period /\ is_auto_mode
             /\ index' = (index + 1) % Songs /\ waited' = 0 /\ age' = 0 /\ missed' = FALSE
             /\ lasted' = age + d
    <2>1. missed' \in BOOLEAN /\ ~missed'
      BY <1>4, Zenon
    <2>2. QED
      BY <1>1, <1>2, <1>4, <2>1, ConstantsType
  <1>5. CASE /\ ~(waited + d > Period) /\ is_auto_mode
             /\ waited' = waited + d /\ Older(d) /\ lasted' = 0 /\ UNCHANGED <<index, missed>>
    <2>1. age' \in 0 .. AgeBound /\ age' >= age /\ waited' <= age' /\ waited' \in 0 .. Period
      BY <1>1, <1>5, ConstantsType DEF Older
    <2>2. ~missed => age' = waited'
      BY <1>1, <1>5, ConstantsType DEF Older
    <2>3. QED
      BY <1>1, <1>5, <2>1, <2>2, ConstantsType
  <1>6. QED
    BY <1>3, <1>4, <1>5 DEF PickNextSong


-----------------------------------------------------------------------------
(* Every step of the two threads, of the heartbeat server and of the       *)
(* operator keeps the invariant.                                           *)
LEMMA StepPreserves ==
  ASSUME IndInv, [Next]_vars
  PROVE  IndInv'
  <1>1. /\ TypeOK /\ PhasesMatch /\ PortsDistinct /\ CircuitOnRecord /\ ListeningOnRecord
        /\ OnlyPendingHeld /\ RepeatsOnlyWhenStopping /\ WaitedIsAge
    BY DEF IndInv
  <1> USE <1>1, ConstantsType DEF vars, config, flags, circuit, rotation, mapper
  <1>2. CASE BootNoPort
    <2> USE <1>2 DEF BootNoPort
    <2>1. ~is_on' /\ started' /\ is_on' \in BOOLEAN /\ started' \in BOOLEAN
      BY ServerStopFlags
    <2>2. TypeOK'
      <3>1. held' \subseteq Ports /\ excuse' \subseteq Lapses /\ repeated' = repeated
        BY DEF TypeOK, Lapses
      <3>2. QED
        BY <2>1, <3>1 DEF TypeOK
    <2>3. PhasesMatch'
      BY <2>1 DEF TypeOK, PhasesMatch
    <2>4. PortsDistinct'
      BY <2>1 DEF TypeOK, PhasesMatch, PortsDistinct, CircuitOnRecord
    <2>5. CircuitOnRecord'
      BY <2>1 DEF TypeOK, PhasesMatch, PortsDistinct, CircuitOnRecord
    <2>6. ListeningOnRecord'
      BY <2>1 DEF TypeOK, PhasesMatch, PortsDistinct, CircuitOnRecord, ListeningOnRecord
    <2>7. OnlyPendingHeld'
      <3>1. excuse' \subseteq {"short"} => held' = {}
        BY DEF CircuitOnRecord
      <3>2. QED
        BY <2>1, <3>1 DEF PhasesMatch, OnlyPendingHeld
    <2>8. RepeatsOnlyWhenStopping'
      BY <2>1 DEF TypeOK, PhasesMatch, CircuitOnRecord, ListeningOnRecord,
         RepeatsOnlyWhenStopping
    <2>9. WaitedIsAge'
      BY <2>1 DEF TypeOK, WaitedIsAge
    <2>10. QED
      BY <2>2, <2>3, <2>4, <2>5, <2>6, <2>7, <2>8, <2>9 DEF IndInv
  <1>3. CASE BootPort
    <2> USE <1>3 DEF BootPort
    <2>1. TypeOK'
      BY DEF TypeOK
    <2>2. PhasesMatch'
      BY DEF TypeOK, PhasesMatch
    <2>3. PortsDistinct'
      BY EmptyArray DEF TypeOK, PhasesMatch, PortsDistinct, CircuitOnRecord
    <2>4. CircuitOnRecord'
      BY DEF TypeOK, PhasesMatch, PortsDistinct, CircuitOnRecord
    <2>5. ListeningOnRecord'
      BY DEF TypeOK, PhasesMatch, PortsDistinct, CircuitOnRecord, ListeningOnRecord
    <2>6. OnlyPendingHeld'
      BY DEF TypeOK, PhasesMatch, PortsDistinct, CircuitOnRecord, OnlyPendingHeld,
         Pending
    <2>7. RepeatsOnlyWhenStopping'
      BY DEF TypeOK, PhasesMatch, CircuitOnRecord, ListeningOnRecord,
         RepeatsOnlyWhenStopping
    <2>8. WaitedIsAge'
      BY DEF TypeOK, WaitedIsAge
    <2>9. QED
      BY <2>1, <2>2, <2>3, <2>4, <2>5, <2>6, <2>7, <2>8 DEF IndInv
  <1>4. CASE BootBadAddress
    <2> USE <1>4 DEF BootBadAddress
    <2>1. ~is_on' /\ started' /\ is_on' \in BOOLEAN /\ started' \in BOOLEAN
      BY ServerStopFlags
    <2>2. TypeOK'
      BY <2>1 DEF TypeOK, Lapses
    <2>3. PhasesMatch'
      BY <2>1 DEF TypeOK, PhasesMatch
    <2>4. PortsDistinct'
      BY <2>1 DEF TypeOK, PhasesMatch, PortsDistinct, CircuitOnRecord
    <2>5. CircuitOnRecord'
      BY <2>1 DEF TypeOK, PhasesMatch, PortsDistinct, CircuitOnRecord
    <2>6. ListeningOnRecord'
      BY <2>1 DEF TypeOK, PhasesMatch, PortsDistinct, CircuitOnRecord, ListeningOnRecord
    <2>7. OnlyPendingHeld'
      BY <2>1 DEF TypeOK, PhasesMatch, PortsDistinct, CircuitOnRecord, OnlyPendingHeld,
         Pending
    <2>8. RepeatsOnlyWhenStopping'
      BY <2>1 DEF TypeOK, PhasesMatch, CircuitOnRecord, ListeningOnRecord,
         RepeatsOnlyWhenStopping
    <2>9. WaitedIsAge'
      BY <2>1 DEF TypeOK, WaitedIsAge
    <2>10. QED
      BY <2>2, <2>3, <2>4, <2>5, <2>6, <2>7, <2>8, <2>9 DEF IndInv
  <1>5. CASE BootFails
    <2> USE <1>5 DEF BootFails
    <2>1. /\ held' \subseteq held /\ held \ {listen_port} \subseteq held'
          /\ repeated' \in BOOLEAN /\ (repeated' => repeated \/ (listen_port # 0 /\ listen_port \notin held))
          /\ excuse' \subseteq Lapses /\ excuse \subseteq excuse'
          /\ ("short" \in excuse' => "short" \in excuse)
          /\ excuse' \subseteq {"short"} => held' = held \ {listen_port}
      BY SendPortBackEffect DEF TypeOK
    <2>2. ~is_on' /\ started' /\ is_on' \in BOOLEAN /\ started' \in BOOLEAN
      BY ServerStopFlags
    <2>3. TypeOK'
      BY <2>1, <2>2 DEF TypeOK
    <2>4. PhasesMatch'
      BY <2>1, <2>2 DEF TypeOK, PhasesMatch
    <2>5. PortsDistinct'
      BY <2>1, <2>2 DEF TypeOK, PhasesMatch, PortsDistinct, CircuitOnRecord
    <2>6. CircuitOnRecord'
      BY <2>1, <2>2 DEF TypeOK, PhasesMatch, PortsDistinct, CircuitOnRecord
    <2>7. ListeningOnRecord'
      BY <2>1, <2>2 DEF TypeOK, PhasesMatch, PortsDistinct, CircuitOnRecord,
         ListeningOnRecord
    <2>8. OnlyPendingHeld'
      BY <2>1, <2>2 DEF TypeOK, PhasesMatch, PortsDistinct, CircuitOnRecord,
         OnlyPendingHeld, Pending
    <2>9. RepeatsOnlyWhenStopping'
      BY <2>1, <2>2 DEF TypeOK, PhasesMatch, CircuitOnRecord, ListeningOnRecord,
         RepeatsOnlyWhenStopping
    <2>10. WaitedIsAge'
      BY <2>1, <2>2 DEF TypeOK, WaitedIsAge
    <2>11. QED
      BY <2>3, <2>4, <2>5, <2>6, <2>7, <2>8, <2>9, <2>10 DEF IndInv
  <1>6. CASE BootListens
    <2>1. TypeOK' /\ WaitedIsAge'
      BY <1>6 DEF BootListens, TypeOK, WaitedIsAge
    <2>2. PhasesMatch'
      BY <1>6 DEF BootListens, TypeOK, PhasesMatch
    <2>3. PortsDistinct' /\ CircuitOnRecord' /\ ListeningOnRecord'
      BY <1>6 DEF BootListens, TypeOK, PhasesMatch, PortsDistinct, CircuitOnRecord,
         ListeningOnRecord
    <2>4. OnlyPendingHeld' /\ RepeatsOnlyWhenStopping'
      BY <1>6 DEF BootListens, TypeOK, PhasesMatch, PortsDistinct, CircuitOnRecord,
         OnlyPendingHeld, Pending, RepeatsOnlyWhenStopping
    <2>5. QED
      BY <2>1, <2>2, <2>3, <2>4 DEF IndInv
  <1>7. CASE LoopTest
    <2>1. TypeOK' /\ WaitedIsAge'
      BY <1>7 DEF LoopTest, TypeOK, WaitedIsAge
    <2>2. PhasesMatch'
      BY <1>7 DEF LoopTest, TypeOK, PhasesMatch
    <2>3. PortsDistinct' /\ CircuitOnRecord' /\ ListeningOnRecord'
      BY <1>7 DEF LoopTest, TypeOK, PhasesMatch, PortsDistinct, CircuitOnRecord,
         ListeningOnRecord
    <2>4. OnlyPendingHeld' /\ RepeatsOnlyWhenStopping'
      BY <1>7 DEF LoopTest, TypeOK, PhasesMatch, PortsDistinct, CircuitOnRecord,
         OnlyPendingHeld, Pending, RepeatsOnlyWhenStopping
    <2>5. QED
      BY <2>1, <2>2, <2>3, <2>4 DEF IndInv
  <1>8. CASE LoopSleep
    <2>1. TypeOK' /\ WaitedIsAge'
      BY <1>8 DEF LoopSleep, TypeOK, WaitedIsAge
    <2>2. PhasesMatch'
      BY <1>8 DEF LoopSleep, TypeOK, PhasesMatch
    <2>3. PortsDistinct' /\ CircuitOnRecord' /\ ListeningOnRecord'
      BY <1>8 DEF LoopSleep, TypeOK, PhasesMatch, PortsDistinct, CircuitOnRecord,
         ListeningOnRecord
    <2>4. OnlyPendingHeld' /\ RepeatsOnlyWhenStopping'
      BY <1>8 DEF LoopSleep, TypeOK, PhasesMatch, PortsDistinct, CircuitOnRecord,
         OnlyPendingHeld, Pending, RepeatsOnlyWhenStopping
    <2>5. QED
      BY <2>1, <2>2, <2>3, <2>4 DEF IndInv
  <1>9. CASE LoopEnds
    <2>1. TypeOK' /\ WaitedIsAge'
      BY <1>9 DEF LoopEnds, TypeOK, WaitedIsAge
    <2>2. PhasesMatch'
      BY <1>9 DEF LoopEnds, TypeOK, PhasesMatch
    <2>3. PortsDistinct' /\ CircuitOnRecord' /\ ListeningOnRecord'
      BY <1>9 DEF LoopEnds, TypeOK, PhasesMatch, PortsDistinct, CircuitOnRecord,
         ListeningOnRecord
    <2>4. OnlyPendingHeld' /\ RepeatsOnlyWhenStopping'
      BY <1>9 DEF LoopEnds, TypeOK, PhasesMatch, PortsDistinct, CircuitOnRecord,
         OnlyPendingHeld, Pending, RepeatsOnlyWhenStopping
    <2>5. QED
      BY <2>1, <2>2, <2>3, <2>4 DEF IndInv
  <1>10. CASE LoopTimesOut
    <2> USE <1>10 DEF LoopTimesOut
    <2>1. /\ index' \in 0 .. Songs - 1 /\ waited' \in 0 .. Period
          /\ age' \in 0 .. AgeBound /\ missed' \in BOOLEAN /\ lasted' \in 0 .. AgeBound + SelectTime
          /\ waited' <= age' /\ (~missed' => age' = waited') /\ (~is_auto_mode => ~missed')
      BY PickNextSongEffect
    <2>2. TypeOK'
      BY <2>1 DEF TypeOK
    <2>3. PhasesMatch'
      BY DEF TypeOK, PhasesMatch
    <2>4. PortsDistinct'
      BY DEF TypeOK, PhasesMatch, PortsDistinct, CircuitOnRecord
    <2>5. CircuitOnRecord'
      BY DEF TypeOK, PhasesMatch, PortsDistinct, CircuitOnRecord
    <2>6. ListeningOnRecord'
      BY DEF TypeOK, PhasesMatch, PortsDistinct, CircuitOnRecord, ListeningOnRecord
    <2>7. OnlyPendingHeld'
      BY DEF TypeOK, PhasesMatch, PortsDistinct, CircuitOnRecord, OnlyPendingHeld,
         Pending
    <2>8. RepeatsOnlyWhenStopping'
      BY DEF TypeOK, PhasesMatch, CircuitOnRecord, ListeningOnRecord,
         RepeatsOnlyWhenStopping
    <2>9. WaitedIsAge'
      BY <2>1 DEF TypeOK, WaitedIsAge
    <2>10. QED
      BY <2>2, <2>3, <2>4, <2>5, <2>6, <2>7, <2>8, <2>9 DEF IndInv
  <1>11. CASE LoopForks
    <2> USE <1>11 DEF LoopForks
    <2>1. /\ index' \in 0 .. Songs - 1 /\ waited' \in 0 .. Period
          /\ age' \in 0 .. AgeBound /\ missed' \in BOOLEAN /\ lasted' \in 0 .. AgeBound + SelectTime
          /\ waited' <= age' /\ (~missed' => age' = waited') /\ (~is_auto_mode => ~missed')
      BY PickNextSongEffect
    <2>2. TypeOK'
      BY <2>1 DEF TypeOK
    <2>3. PhasesMatch'
      BY DEF TypeOK, PhasesMatch
    <2>4. PortsDistinct'
      BY DEF TypeOK, PhasesMatch, PortsDistinct, CircuitOnRecord
    <2>5. CircuitOnRecord'
      BY DEF TypeOK, PhasesMatch, PortsDistinct, CircuitOnRecord
    <2>6. ListeningOnRecord'
      BY DEF TypeOK, PhasesMatch, PortsDistinct, CircuitOnRecord, ListeningOnRecord
    <2>7. OnlyPendingHeld'
      BY DEF TypeOK, PhasesMatch, PortsDistinct, CircuitOnRecord, OnlyPendingHeld,
         Pending
    <2>8. RepeatsOnlyWhenStopping'
      BY DEF TypeOK, PhasesMatch, CircuitOnRecord, ListeningOnRecord,
         RepeatsOnlyWhenStopping
    <2>9. WaitedIsAge'
      BY <2>1 DEF TypeOK, WaitedIsAge
    <2>10. QED
      BY <2>2, <2>3, <2>4, <2>5, <2>6, <2>7, <2>8, <2>9 DEF IndInv
  <1>12. CASE LoopForkFails
    <2> USE <1>12 DEF LoopForkFails
    <2>1. ~is_on' /\ started' /\ is_on' \in BOOLEAN /\ started' \in BOOLEAN
      BY ServerStopFlags
    <2>2. TypeOK'
      BY <2>1 DEF TypeOK
    <2>3. PhasesMatch'
      BY <2>1 DEF TypeOK, PhasesMatch
    <2>4. PortsDistinct'
      BY <2>1 DEF TypeOK, PhasesMatch, PortsDistinct, CircuitOnRecord
    <2>5. CircuitOnRecord'
      BY <2>1 DEF TypeOK, PhasesMatch, PortsDistinct, CircuitOnRecord
    <2>6. ListeningOnRecord'
      BY <2>1 DEF TypeOK, PhasesMatch, PortsDistinct, CircuitOnRecord, ListeningOnRecord
    <2>7. OnlyPendingHeld'
      BY <2>1 DEF TypeOK, PhasesMatch, PortsDistinct, CircuitOnRecord, OnlyPendingHeld,
         Pending
    <2>8. RepeatsOnlyWhenStopping'
      BY <2>1 DEF TypeOK, PhasesMatch, CircuitOnRecord, ListeningOnRecord,
         RepeatsOnlyWhenStopping
    <2>9. WaitedIsAge'
      BY <2>1 DEF TypeOK, WaitedIsAge
    <2>10. QED
      BY <2>2, <2>3, <2>4, <2>5, <2>6, <2>7, <2>8, <2>9 DEF IndInv
  <1>13. CASE LoopGivesUp
    <2>1. TypeOK' /\ WaitedIsAge'
      BY <1>13 DEF LoopGivesUp, TypeOK, WaitedIsAge
    <2>2. PhasesMatch'
      BY <1>13 DEF LoopGivesUp, TypeOK, PhasesMatch
    <2>3. PortsDistinct' /\ CircuitOnRecord' /\ ListeningOnRecord'
      BY <1>13 DEF LoopGivesUp, TypeOK, PhasesMatch, PortsDistinct, CircuitOnRecord,
         ListeningOnRecord
    <2>4. OnlyPendingHeld' /\ RepeatsOnlyWhenStopping'
      BY <1>13 DEF LoopGivesUp, TypeOK, PhasesMatch, PortsDistinct, CircuitOnRecord,
         OnlyPendingHeld, Pending, RepeatsOnlyWhenStopping
    <2>5. QED
      BY <2>1, <2>2, <2>3, <2>4 DEF IndInv
  <1>14. CASE LoopInterrupted
    <2> USE <1>14 DEF LoopInterrupted
    <2>1. /\ age' \in 0 .. AgeBound /\ missed' \in BOOLEAN
          /\ waited' <= age' /\ (~missed' => age' = waited') /\ (~is_auto_mode => ~missed')
      <3>1. /\ age \in 0 .. AgeBound /\ waited \in 0 .. Period /\ is_auto_mode \in BOOLEAN
            /\ waited <= age /\ (~missed => age = waited) /\ (~is_auto_mode => ~missed)
        BY DEF TypeOK, WaitedIsAge
      <3>2. age' \in 0 .. AgeBound /\ age' >= age /\ (~is_auto_mode => age' = age)
        BY <3>1 DEF Older
      <3>3. missed' \in BOOLEAN /\ (missed' <=> is_auto_mode) /\ waited' = waited
        BY <3>1
      <3>4. QED
        BY <3>1, <3>2, <3>3
    <2>2. TypeOK'
      BY <2>1 DEF TypeOK
    <2>3. PhasesMatch'
      BY DEF TypeOK, PhasesMatch
    <2>4. PortsDistinct'
      BY DEF TypeOK, PhasesMatch, PortsDistinct, CircuitOnRecord
    <2>5. CircuitOnRecord'
      BY DEF TypeOK, PhasesMatch, PortsDistinct, CircuitOnRecord
    <2>6. ListeningOnRecord'
      BY DEF TypeOK, PhasesMatch, PortsDistinct, CircuitOnRecord, ListeningOnRecord
    <2>7. OnlyPendingHeld'
      BY DEF TypeOK, PhasesMatch, PortsDistinct, CircuitOnRecord, OnlyPendingHeld,
         Pending
    <2>8. RepeatsOnlyWhenStopping'
      BY DEF TypeOK, PhasesMatch, CircuitOnRecord, ListeningOnRecord,
         RepeatsOnlyWhenStopping
    <2>9. WaitedIsAge'
      BY <2>1 DEF TypeOK, WaitedIsAge
    <2>10. QED
      BY <2>2, <2>3, <2>4, <2>5, <2>6, <2>7, <2>8, <2>9 DEF IndInv
  <1>15. CASE MainJoins
    <2> USE <1>15 DEF MainJoins
    <2>1. /\ held' \subseteq held /\ held \ {listen_port} \subseteq held'
          /\ repeated' \in BOOLEAN /\ (repeated' => repeated \/ (listen_port # 0 /\ listen_port \notin held))
          /\ excuse' \subseteq Lapses /\ excuse \subseteq excuse'
          /\ ("short" \in excuse' => "short" \in excuse)
          /\ excuse' \subseteq {"short"} => held' = held \ {listen_port}
      BY SendPortBackEffect DEF TypeOK
    <2>2. TypeOK'
      BY <2>1 DEF TypeOK
    <2>3. PhasesMatch'
      BY <2>1 DEF TypeOK, PhasesMatch
    <2>4. PortsDistinct'
      BY <2>1 DEF TypeOK, PhasesMatch, PortsDistinct, CircuitOnRecord
    <2>5. CircuitOnRecord'
      BY <2>1 DEF TypeOK, PhasesMatch, PortsDistinct, CircuitOnRecord
    <2>6. ListeningOnRecord'
      BY <2>1 DEF TypeOK, PhasesMatch, PortsDistinct, CircuitOnRecord, ListeningOnRecord
    <2>7. OnlyPendingHeld'
      BY <2>1 DEF TypeOK, PhasesMatch, PortsDistinct, CircuitOnRecord, OnlyPendingHeld,
         Pending
    <2>8. RepeatsOnlyWhenStopping'
      BY <2>1 DEF TypeOK, PhasesMatch, CircuitOnRecord, ListeningOnRecord,
         RepeatsOnlyWhenStopping
    <2>9. WaitedIsAge'
      BY <2>1 DEF TypeOK, WaitedIsAge
    <2>10. QED
      BY <2>2, <2>3, <2>4, <2>5, <2>6, <2>7, <2>8, <2>9 DEF IndInv
  <1>16. CASE CircuitAsks
    <2> USE <1>16 DEF CircuitAsks
    <2>1. CASE slave' = "exit" /\ gave_up' = TRUE /\ UNCHANGED <<attempted_port_arr, held, excuse>>
      <3> USE <2>1
      <3>1. TypeOK' /\ RepeatsOnlyWhenStopping' /\ WaitedIsAge'
        BY DEF TypeOK, PhasesMatch, RepeatsOnlyWhenStopping, WaitedIsAge
      <3>2. PhasesMatch'
        BY DEF TypeOK, PhasesMatch
      <3>3. PortsDistinct' /\ CircuitOnRecord' /\ ListeningOnRecord'
        BY EmptyArray DEF TypeOK, PhasesMatch, PortsDistinct, CircuitOnRecord, ListeningOnRecord
      <3>4. OnlyPendingHeld'
        BY DEF TypeOK, PhasesMatch, PortsDistinct, CircuitOnRecord, OnlyPendingHeld, Pending
      <3>5. QED
        BY <3>1, <3>2, <3>3, <3>4 DEF IndInv
    <2>2. ASSUME NEW s \in Lendable, attempted_port_arr' = s, held' = held \cup ElementsOf(s),
                 slave' = "attempt", UNCHANGED <<gave_up, excuse>>
          PROVE  IndInv'
      <3> USE <2>2
      <3>1. /\ s \in Seq(Ports) /\ Len(s) <= Give /\ ElementsOf(s) \cap held = {}
            /\ \A m, n \in DOMAIN s : m < n => s[m] < s[n]
            /\ ElementsOf(s) \subseteq Ports
        BY LentArray, ElementsArePorts
      <3>2. TypeOK'
        <4>1. attempted_port_arr' \in Seq(Ports) /\ Len(attempted_port_arr') <= Give
          BY <3>1
        <4>2. held' \subseteq Ports
          BY <3>1 DEF TypeOK
        <4>3. QED
          BY <4>1, <4>2 DEF TypeOK
      <3>3. RepeatsOnlyWhenStopping' /\ WaitedIsAge'
        BY DEF PhasesMatch, RepeatsOnlyWhenStopping, WaitedIsAge
      <3>4. PhasesMatch'
        BY DEF TypeOK, PhasesMatch
      <3>5. PortsDistinct'
        BY <3>1 DEF TypeOK, PhasesMatch, PortsDistinct, CircuitOnRecord
      <3>6. CircuitOnRecord' /\ ListeningOnRecord'
        BY <3>1 DEF TypeOK, PhasesMatch, PortsDistinct, CircuitOnRecord, ListeningOnRecord
      <3>7. OnlyPendingHeld'
        BY <3>1 DEF TypeOK, PhasesMatch, PortsDistinct, CircuitOnRecord, OnlyPendingHeld, Pending
      <3>8. QED
        BY <3>2, <3>3, <3>4, <3>5, <3>6, <3>7 DEF IndInv
    <2>3. ASSUME NEW s \in Lendable, attempted_port_arr' = s, UNCHANGED held,
                 slave' = "attempt", UNCHANGED gave_up,
                 excuse' = excuse \cup {"short"}
          PROVE  IndInv'
      <3> USE <2>3
      <3>1. /\ s \in Seq(Ports) /\ Len(s) <= Give /\ ElementsOf(s) \cap held = {}
            /\ \A m, n \in DOMAIN s : m < n => s[m] < s[n]
            /\ ElementsOf(s) \subseteq Ports
        BY LentArray, ElementsArePorts
      <3>2. TypeOK'
        <4>1. attempted_port_arr' \in Seq(Ports) /\ Len(attempted_port_arr') <= Give
          BY <3>1
        <4>2. held' \subseteq Ports
          BY <3>1 DEF TypeOK
        <4>3. QED
          BY <4>1, <4>2 DEF TypeOK, Lapses
      <3>3. RepeatsOnlyWhenStopping' /\ WaitedIsAge'
        BY DEF PhasesMatch, RepeatsOnlyWhenStopping, WaitedIsAge
      <3>4. PhasesMatch'
        BY DEF TypeOK, PhasesMatch
      <3>5. PortsDistinct'
        BY <3>1 DEF TypeOK, PhasesMatch, PortsDistinct, CircuitOnRecord
      <3>6. CircuitOnRecord' /\ ListeningOnRecord'
        BY <3>1 DEF TypeOK, PhasesMatch, PortsDistinct, CircuitOnRecord, ListeningOnRecord
      <3>7. OnlyPendingHeld'
        BY <3>1 DEF TypeOK, PhasesMatch, PortsDistinct, CircuitOnRecord, OnlyPendingHeld, Pending
      <3>8. QED
        BY <3>2, <3>3, <3>4, <3>5, <3>6, <3>7 DEF IndInv
    <2>4. ASSUME NEW s \in Lendable, UNCHANGED attempted_port_arr, held' = held \cup ElementsOf(s),
                 slave' = "attempt", UNCHANGED gave_up,
                 excuse' = excuse \cup {"mapper"}
          PROVE  IndInv'
      <3> USE <2>4
      <3>1. /\ s \in Seq(Ports) /\ Len(s) <= Give /\ ElementsOf(s) \cap held = {}
            /\ \A m, n \in DOMAIN s : m < n => s[m] < s[n]
            /\ ElementsOf(s) \subseteq Ports
        BY LentArray, ElementsArePorts
      <3>2. TypeOK'
        <4>1. attempted_port_arr' \in Seq(Ports) /\ Len(attempted_port_arr') <= Give
          BY DEF TypeOK
        <4>2. held' \subseteq Ports
          BY <3>1 DEF TypeOK
        <4>3. QED
          BY <4>1, <4>2 DEF TypeOK, Lapses
      <3>3. RepeatsOnlyWhenStopping' /\ WaitedIsAge'
        BY DEF PhasesMatch, RepeatsOnlyWhenStopping, WaitedIsAge
      <3>4. PhasesMatch'
        BY DEF TypeOK, PhasesMatch
      <3>5. PortsDistinct'
        BY <3>1, EmptyArray DEF TypeOK, PhasesMatch, PortsDistinct, CircuitOnRecord
      <3>6. CircuitOnRecord' /\ ListeningOnRecord'
        BY <3>1, EmptyArray DEF TypeOK, PhasesMatch, PortsDistinct, CircuitOnRecord, ListeningOnRecord
      <3>7. OnlyPendingHeld'
        BY <3>1, EmptyArray DEF TypeOK, PhasesMatch, PortsDistinct, CircuitOnRecord, OnlyPendingHeld, Pending
      <3>8. QED
        BY <3>2, <3>3, <3>4, <3>5, <3>6, <3>7 DEF IndInv
    <2>5. ASSUME NEW s \in Lendable, Received(s), slave' = "attempt", UNCHANGED gave_up
          PROVE  IndInv'
      BY <2>2, <2>3, <2>5 DEF Received
    <2>6. QED
      BY <2>1, <2>4, <2>5
  <1>17. CASE CircuitNextInterface
    <2>1. TypeOK' /\ WaitedIsAge'
      BY <1>17 DEF CircuitNextInterface, TypeOK, WaitedIsAge
    <2>2. PhasesMatch'
      BY <1>17 DEF CircuitNextInterface, TypeOK, PhasesMatch
    <2>3. PortsDistinct' /\ CircuitOnRecord' /\ ListeningOnRecord'
      BY <1>17 DEF CircuitNextInterface, TypeOK, PhasesMatch, PortsDistinct, CircuitOnRecord,
         ListeningOnRecord
    <2>4. OnlyPendingHeld' /\ RepeatsOnlyWhenStopping'
      BY <1>17 DEF CircuitNextInterface, TypeOK, PhasesMatch, PortsDistinct, CircuitOnRecord,
         OnlyPendingHeld, Pending, RepeatsOnlyWhenStopping
    <2>5. QED
      BY <2>1, <2>2, <2>3, <2>4 DEF IndInv
  <1>18. CASE CircuitGivesUp
    <2>1. TypeOK' /\ WaitedIsAge'
      BY <1>18 DEF CircuitGivesUp, TypeOK, WaitedIsAge
    <2>2. PhasesMatch'
      BY <1>18 DEF CircuitGivesUp, TypeOK, PhasesMatch
    <2>3. PortsDistinct' /\ CircuitOnRecord' /\ ListeningOnRecord'
      BY <1>18 DEF CircuitGivesUp, TypeOK, PhasesMatch, PortsDistinct, CircuitOnRecord,
         ListeningOnRecord
    <2>4. OnlyPendingHeld' /\ RepeatsOnlyWhenStopping'
      BY <1>18 DEF CircuitGivesUp, TypeOK, PhasesMatch, PortsDistinct, CircuitOnRecord,
         OnlyPendingHeld, Pending, RepeatsOnlyWhenStopping
    <2>5. QED
      BY <2>1, <2>2, <2>3, <2>4 DEF IndInv
  <1>19. CASE CircuitTries
    <2> USE <1>19 DEF CircuitTries
    <2>1. /\ curr_attempts + 1 \in 1 .. Len(attempted_port_arr)
          /\ attempted_port_arr[curr_attempts + 1] \in ElementsOf(attempted_port_arr)
          /\ ElementsOf(attempted_port_arr) \subseteq Ports
      BY ElementsArePorts DEF TypeOK
    <2>2. TypeOK'
      BY <2>1 DEF TypeOK
    <2>3. PhasesMatch'
      BY DEF TypeOK, PhasesMatch
    <2>4. PortsDistinct'
      BY <2>1 DEF TypeOK, PhasesMatch, PortsDistinct, CircuitOnRecord
    <2>5. CircuitOnRecord'
      BY <2>1 DEF TypeOK, PhasesMatch, PortsDistinct, CircuitOnRecord
    <2>6. ListeningOnRecord'
      BY DEF TypeOK, PhasesMatch, PortsDistinct, CircuitOnRecord, ListeningOnRecord
    <2>7. OnlyPendingHeld'
      BY <2>1 DEF TypeOK, PhasesMatch, PortsDistinct, CircuitOnRecord, OnlyPendingHeld,
         Pending
    <2>8. RepeatsOnlyWhenStopping'
      BY DEF TypeOK, PhasesMatch, CircuitOnRecord, ListeningOnRecord,
         RepeatsOnlyWhenStopping
    <2>9. WaitedIsAge'
      BY DEF TypeOK, WaitedIsAge
    <2>10. QED
      BY <2>2, <2>3, <2>4, <2>5, <2>6, <2>7, <2>8, <2>9 DEF IndInv
  <1>20. CASE CircuitConnects
    <2> USE <1>20 DEF CircuitConnects
    <2>1. /\ curr_attempts + 1 \in 1 .. Len(attempted_port_arr)
          /\ attempted_port_arr[curr_attempts + 1] \in ElementsOf(attempted_port_arr)
          /\ ElementsOf(attempted_port_arr) \subseteq Ports
      BY ElementsArePorts DEF TypeOK
    <2> DEFINE p == attempted_port_arr[curr_attempts + 1]
    <2>2. /\ attempted_port_arr' \in {attempted_port_arr, <<>>}
          /\ held' \subseteq held
          /\ held \ ElementsOf(attempted_port_arr) \subseteq held' /\ held \cap {p} \subseteq held'
          /\ repeated' \in BOOLEAN
          /\ repeated' => repeated \/ ~(ElementsOf(attempted_port_arr) \subseteq held)
          /\ excuse' \subseteq Lapses /\ excuse \subseteq excuse'
          /\ ("short" \in excuse' => "short" \in excuse)
          /\ excuse' \subseteq {"short"} =>
               UNCHANGED flags /\ held' \cap ElementsOf(attempted_port_arr) \subseteq {p}
          /\ UNCHANGED flags \/ ServerStop
      BY <2>1, SendPortsBackEffect DEF TypeOK
    <2>3. /\ is_on' \in BOOLEAN /\ started' \in BOOLEAN
          /\ is_on' => is_on
          /\ started => started'
      BY <2>2, FlagsOnlyStop
    <2>4. con_port' = p /\ connected' /\ slave' = "login" /\ p # listen_port
          /\ "short" \notin excuse => p \in held
      BY <2>1 DEF CircuitOnRecord, PortsDistinct
    <2>5. TypeOK'
      <3>1. attempted_port_arr' \in Seq(Ports) /\ Len(attempted_port_arr') <= Give
        <4>1. CASE attempted_port_arr' = <<>>
          BY <4>1, EmptyArray
        <4>2. CASE attempted_port_arr' = attempted_port_arr
          BY <4>2 DEF TypeOK
        <4>3. QED
          BY <2>2, <4>1, <4>2
      <3>2. connected' \in BOOLEAN /\ silent' \in BOOLEAN
        BY Zenon DEF TypeOK
      <3>3. QED
        BY <2>1, <2>2, <2>3, <2>4, <3>1, <3>2 DEF TypeOK
    <2>6. PhasesMatch'
      BY <2>1, <2>2, <2>3, <2>4 DEF TypeOK, PhasesMatch
    <2>7. PortsDistinct'
      BY <2>1, <2>2, <2>4, EmptyArray DEF TypeOK, PhasesMatch, PortsDistinct,
         CircuitOnRecord
    <2>8. CircuitOnRecord'
      BY <2>1, <2>2, <2>3, <2>4 DEF TypeOK, PhasesMatch, PortsDistinct, CircuitOnRecord
    <2>9. ListeningOnRecord'
      BY <2>1, <2>2, <2>3, <2>4 DEF TypeOK, PhasesMatch, PortsDistinct, CircuitOnRecord,
         ListeningOnRecord
    <2>10. OnlyPendingHeld'
      BY <2>1, <2>2, <2>3, <2>4 DEF TypeOK, PhasesMatch, PortsDistinct, CircuitOnRecord,
         OnlyPendingHeld, Pending
    <2>11. RepeatsOnlyWhenStopping'
      BY <2>1, <2>2, <2>3, <2>4 DEF TypeOK, PhasesMatch, CircuitOnRecord,
         ListeningOnRecord, RepeatsOnlyWhenStopping
    <2>12. WaitedIsAge'
      BY <2>1, <2>2, <2>3, <2>4 DEF TypeOK, WaitedIsAge
    <2>13. QED
      BY <2>5, <2>6, <2>7, <2>8, <2>9, <2>10, <2>11, <2>12 DEF IndInv
  <1>21. CASE SlaveLogsIn
    <2>1. TypeOK' /\ WaitedIsAge'
      BY <1>21 DEF SlaveLogsIn, TypeOK, WaitedIsAge
    <2>2. PhasesMatch'
      BY <1>21 DEF SlaveLogsIn, TypeOK, PhasesMatch
    <2>3. PortsDistinct' /\ CircuitOnRecord' /\ ListeningOnRecord'
      BY <1>21 DEF SlaveLogsIn, TypeOK, PhasesMatch, PortsDistinct, CircuitOnRecord,
         ListeningOnRecord
    <2>4. OnlyPendingHeld' /\ RepeatsOnlyWhenStopping'
      BY <1>21 DEF SlaveLogsIn, TypeOK, PhasesMatch, PortsDistinct, CircuitOnRecord,
         OnlyPendingHeld, Pending, RepeatsOnlyWhenStopping
    <2>5. QED
      BY <2>1, <2>2, <2>3, <2>4 DEF IndInv
  <1>22. CASE SlaveLoginFails
    <2> USE <1>22 DEF SlaveLoginFails
    <2>1. /\ is_on' \in BOOLEAN /\ started' \in BOOLEAN
          /\ is_on' => is_on
          /\ started => started'
      BY FlagsOnlyStop
    <2>2. TypeOK'
      BY <2>1 DEF TypeOK
    <2>3. PhasesMatch'
      BY <2>1 DEF TypeOK, PhasesMatch
    <2>4. PortsDistinct'
      BY <2>1 DEF TypeOK, PhasesMatch, PortsDistinct, CircuitOnRecord
    <2>5. CircuitOnRecord'
      BY <2>1 DEF TypeOK, PhasesMatch, PortsDistinct, CircuitOnRecord
    <2>6. ListeningOnRecord'
      BY <2>1 DEF TypeOK, PhasesMatch, PortsDistinct, CircuitOnRecord, ListeningOnRecord
    <2>7. OnlyPendingHeld'
      BY <2>1 DEF TypeOK, PhasesMatch, PortsDistinct, CircuitOnRecord, OnlyPendingHeld,
         Pending
    <2>8. RepeatsOnlyWhenStopping'
      BY <2>1 DEF TypeOK, PhasesMatch, CircuitOnRecord, ListeningOnRecord,
         RepeatsOnlyWhenStopping
    <2>9. WaitedIsAge'
      BY <2>1 DEF TypeOK, WaitedIsAge
    <2>10. QED
      BY <2>2, <2>3, <2>4, <2>5, <2>6, <2>7, <2>8, <2>9 DEF IndInv
  <1>23. CASE SlaveBeatFails
    <2> USE <1>23 DEF SlaveBeatFails
    <2>1. /\ is_on' \in BOOLEAN /\ started' \in BOOLEAN
          /\ is_on' => is_on
          /\ started => started'
      BY FlagsOnlyStop
    <2>2. TypeOK'
      BY <2>1 DEF TypeOK
    <2>3. PhasesMatch'
      BY <2>1 DEF TypeOK, PhasesMatch
    <2>4. PortsDistinct'
      BY <2>1 DEF TypeOK, PhasesMatch, PortsDistinct, CircuitOnRecord
    <2>5. CircuitOnRecord'
      BY <2>1 DEF TypeOK, PhasesMatch, PortsDistinct, CircuitOnRecord
    <2>6. ListeningOnRecord'
      BY <2>1 DEF TypeOK, PhasesMatch, PortsDistinct, CircuitOnRecord, ListeningOnRecord
    <2>7. OnlyPendingHeld'
      BY <2>1 DEF TypeOK, PhasesMatch, PortsDistinct, CircuitOnRecord, OnlyPendingHeld,
         Pending
    <2>8. RepeatsOnlyWhenStopping'
      BY <2>1 DEF TypeOK, PhasesMatch, CircuitOnRecord, ListeningOnRecord,
         RepeatsOnlyWhenStopping
    <2>9. WaitedIsAge'
      BY <2>1 DEF TypeOK, WaitedIsAge
    <2>10. QED
      BY <2>2, <2>3, <2>4, <2>5, <2>6, <2>7, <2>8, <2>9 DEF IndInv
  <1>24. CASE ExitPort
    <2> USE <1>24 DEF ExitPort
    <2>1. /\ held' \subseteq held /\ held \ {con_port} \subseteq held'
          /\ repeated' \in BOOLEAN /\ (repeated' => repeated \/ (con_port # 0 /\ con_port \notin held))
          /\ excuse' \subseteq Lapses /\ excuse \subseteq excuse'
          /\ ("short" \in excuse' => "short" \in excuse)
          /\ excuse' \subseteq {"short"} => held' = held \ {con_port}
      BY SendPortBackEffect DEF TypeOK
    <2>2. /\ is_on' \in BOOLEAN /\ started' \in BOOLEAN
          /\ is_on' => is_on
          /\ started => started'
      BY FlagsOnlyStop
    <2>3. excuse' \subseteq {"short"} => UNCHANGED flags
      BY DEF ServerStop
    <2>4. TypeOK'
      BY <2>1, <2>2, <2>3 DEF TypeOK
    <2>5. PhasesMatch'
      BY <2>1, <2>2, <2>3 DEF TypeOK, PhasesMatch
    <2>6. PortsDistinct'
      BY <2>1, <2>2, <2>3 DEF TypeOK, PhasesMatch, PortsDistinct, CircuitOnRecord
    <2>7. CircuitOnRecord'
      BY <2>1, <2>2, <2>3 DEF TypeOK, PhasesMatch, PortsDistinct, CircuitOnRecord
    <2>8. ListeningOnRecord'
      BY <2>1, <2>2, <2>3 DEF TypeOK, PhasesMatch, PortsDistinct, CircuitOnRecord,
         ListeningOnRecord
    <2>9. OnlyPendingHeld'
      BY <2>1, <2>2, <2>3 DEF TypeOK, PhasesMatch, PortsDistinct, CircuitOnRecord,
         OnlyPendingHeld, Pending
    <2>10. RepeatsOnlyWhenStopping'
      BY <2>1, <2>2, <2>3 DEF TypeOK, PhasesMatch, CircuitOnRecord, ListeningOnRecord,
         RepeatsOnlyWhenStopping
    <2>11. WaitedIsAge'
      BY <2>1, <2>2, <2>3 DEF TypeOK, WaitedIsAge
    <2>12. QED
      BY <2>4, <2>5, <2>6, <2>7, <2>8, <2>9, <2>10, <2>11 DEF IndInv
  <1>25. CASE ExitPorts
    <2> USE <1>25 DEF ExitPorts
    <2>1. attempted_port_arr \in Seq(Ports) /\ 0 \in 0 .. Len(attempted_port_arr)
      BY DEF TypeOK
    <2>2. /\ attempted_port_arr' \in {attempted_port_arr, <<>>}
          /\ held' \subseteq held
          /\ held \ ElementsOf(attempted_port_arr) \subseteq held'
          /\ repeated' \in BOOLEAN
          /\ excuse' \subseteq Lapses /\ excuse \subseteq excuse'
          /\ ("short" \in excuse' => "short" \in excuse)
          /\ excuse' \subseteq {"short"} /\ is_on =>
               UNCHANGED flags /\ held' \cap ElementsOf(attempted_port_arr) = {}
          /\ UNCHANGED flags \/ ServerStop
      <3>1. CASE is_on
        BY <2>1, <3>1, SendPortsBackEffect
      <3>2. CASE ~is_on
        BY <3>2 DEF TypeOK
      <3>3. QED
        BY <3>1, <3>2
    <2>3. /\ is_on' \in BOOLEAN /\ started' \in BOOLEAN
          /\ is_on' => is_on
          /\ started => started'
      BY <2>2, FlagsOnlyStop
    <2>4. TypeOK'
      <3>1. attempted_port_arr' \in Seq(Ports) /\ Len(attempted_port_arr') <= Give
        <4>1. CASE attempted_port_arr' = <<>>
          BY <4>1, EmptyArray
        <4>2. CASE attempted_port_arr' = attempted_port_arr
          BY <4>2 DEF TypeOK
        <4>3. QED
          BY <2>2, <4>1, <4>2
      <3>2. connected' \in BOOLEAN /\ silent' \in BOOLEAN
        BY Zenon DEF TypeOK
      <3>3. QED
        BY <2>2, <2>3, <3>1, <3>2 DEF TypeOK
    <2>5. PhasesMatch'
      BY <2>2, <2>3 DEF TypeOK, PhasesMatch
    <2>6. PortsDistinct'
      BY <2>2, EmptyArray DEF TypeOK, PhasesMatch, PortsDistinct, CircuitOnRecord
    <2>7. CircuitOnRecord'
      BY <2>2, <2>3 DEF TypeOK, PhasesMatch, PortsDistinct, CircuitOnRecord
    <2>8. ListeningOnRecord'
      BY <2>2, <2>3 DEF TypeOK, PhasesMatch, PortsDistinct, CircuitOnRecord,
         ListeningOnRecord
    <2>9. OnlyPendingHeld'
      BY <2>2, <2>3 DEF TypeOK, PhasesMatch, PortsDistinct, CircuitOnRecord,
         OnlyPendingHeld, Pending
    <2>10. RepeatsOnlyWhenStopping'
      BY <2>2, <2>3 DEF TypeOK, PhasesMatch, CircuitOnRecord, ListeningOnRecord,
         RepeatsOnlyWhenStopping
    <2>11. WaitedIsAge'
      BY <2>2, <2>3 DEF TypeOK, WaitedIsAge
    <2>12. QED
      BY <2>4, <2>5, <2>6, <2>7, <2>8, <2>9, <2>10, <2>11 DEF IndInv
  <1>26. CASE ExitStop
    <2> USE <1>26 DEF ExitStop
    <2>1. ~is_on' /\ started' /\ is_on' \in BOOLEAN /\ started' \in BOOLEAN
      BY ServerStopFlags
    <2>2. TypeOK'
      BY <2>1 DEF TypeOK
    <2>3. PhasesMatch'
      BY <2>1 DEF TypeOK, PhasesMatch
    <2>4. PortsDistinct'
      BY <2>1 DEF TypeOK, PhasesMatch, PortsDistinct, CircuitOnRecord
    <2>5. CircuitOnRecord'
      BY <2>1 DEF TypeOK, PhasesMatch, PortsDistinct, CircuitOnRecord
    <2>6. ListeningOnRecord'
      BY <2>1 DEF TypeOK, PhasesMatch, PortsDistinct, CircuitOnRecord, ListeningOnRecord
    <2>7. OnlyPendingHeld'
      BY <2>1 DEF TypeOK, PhasesMatch, PortsDistinct, CircuitOnRecord, OnlyPendingHeld,
         Pending
    <2>8. RepeatsOnlyWhenStopping'
      BY <2>1 DEF TypeOK, PhasesMatch, CircuitOnRecord, ListeningOnRecord,
         RepeatsOnlyWhenStopping
    <2>9. WaitedIsAge'
      BY <2>1 DEF TypeOK, WaitedIsAge
    <2>10. QED
      BY <2>2, <2>3, <2>4, <2>5, <2>6, <2>7, <2>8, <2>9 DEF IndInv
  <1>27. CASE ExitClean
    <2> USE <1>27 DEF ExitClean
    <2>1. /\ held' \subseteq held /\ held \ {listen_port} \subseteq held'
          /\ repeated' \in BOOLEAN /\ (repeated' => repeated \/ (listen_port # 0 /\ listen_port \notin held))
          /\ excuse' \subseteq Lapses /\ excuse \subseteq excuse'
          /\ ("short" \in excuse' => "short" \in excuse)
          /\ excuse' \subseteq {"short"} => held' = held \ {listen_port}
      BY SendPortBackEffect DEF TypeOK
    <2>2. TypeOK'
      <3>1. gave_up' \in BOOLEAN
        BY Zenon
      <3>2. QED
        BY <2>1, <3>1 DEF TypeOK
    <2>3. PhasesMatch'
      BY <2>1 DEF TypeOK, PhasesMatch
    <2>4. PortsDistinct'
      BY <2>1 DEF TypeOK, PhasesMatch, PortsDistinct, CircuitOnRecord
    <2>5. CircuitOnRecord'
      BY <2>1 DEF TypeOK, PhasesMatch, PortsDistinct, CircuitOnRecord
    <2>6. ListeningOnRecord'
      BY <2>1 DEF TypeOK, PhasesMatch, PortsDistinct, CircuitOnRecord, ListeningOnRecord
    <2>7. OnlyPendingHeld'
      BY <2>1 DEF TypeOK, PhasesMatch, PortsDistinct, CircuitOnRecord, OnlyPendingHeld,
         Pending
    <2>8. RepeatsOnlyWhenStopping'
      BY <2>1 DEF TypeOK, PhasesMatch, CircuitOnRecord, ListeningOnRecord,
         RepeatsOnlyWhenStopping
    <2>9. WaitedIsAge'
      BY <2>1 DEF TypeOK, WaitedIsAge
    <2>10. QED
      BY <2>2, <2>3, <2>4, <2>5, <2>6, <2>7, <2>8, <2>9 DEF IndInv
  <1>28. CASE UpperChanges
    <2>1. TypeOK' /\ WaitedIsAge'
      BY <1>28 DEF UpperChanges, TypeOK, WaitedIsAge
    <2>2. PhasesMatch'
      BY <1>28 DEF UpperChanges, TypeOK, PhasesMatch
    <2>3. PortsDistinct' /\ CircuitOnRecord' /\ ListeningOnRecord'
      BY <1>28 DEF UpperChanges, TypeOK, PhasesMatch, PortsDistinct, CircuitOnRecord,
         ListeningOnRecord
    <2>4. OnlyPendingHeld' /\ RepeatsOnlyWhenStopping'
      BY <1>28 DEF UpperChanges, TypeOK, PhasesMatch, PortsDistinct, CircuitOnRecord,
         OnlyPendingHeld, Pending, RepeatsOnlyWhenStopping
    <2>5. QED
      BY <2>1, <2>2, <2>3, <2>4 DEF IndInv
  <1>29. CASE SigInt
    <2> USE <1>29 DEF SigInt
    <2>1. ~is_on' /\ started' /\ is_on' \in BOOLEAN /\ started' \in BOOLEAN
      BY ServerStopFlags
    <2>2. TypeOK'
      BY <2>1 DEF TypeOK, Lapses
    <2>3. PhasesMatch'
      BY <2>1 DEF TypeOK, PhasesMatch
    <2>4. PortsDistinct'
      BY <2>1 DEF TypeOK, PhasesMatch, PortsDistinct, CircuitOnRecord
    <2>5. CircuitOnRecord'
      BY <2>1 DEF TypeOK, PhasesMatch, PortsDistinct, CircuitOnRecord
    <2>6. ListeningOnRecord'
      BY <2>1 DEF TypeOK, PhasesMatch, PortsDistinct, CircuitOnRecord, ListeningOnRecord
    <2>7. OnlyPendingHeld'
      BY <2>1 DEF TypeOK, PhasesMatch, PortsDistinct, CircuitOnRecord, OnlyPendingHeld,
         Pending
    <2>8. RepeatsOnlyWhenStopping'
      BY <2>1 DEF TypeOK, PhasesMatch, CircuitOnRecord, ListeningOnRecord,
         RepeatsOnlyWhenStopping
    <2>9. WaitedIsAge'
      BY <2>1 DEF TypeOK, WaitedIsAge
    <2>10. QED
      BY <2>2, <2>3, <2>4, <2>5, <2>6, <2>7, <2>8, <2>9 DEF IndInv
  <1>30. CASE Terminated
    <2>1. TypeOK' /\ WaitedIsAge'
      BY <1>30 DEF Terminated, TypeOK, WaitedIsAge
    <2>2. PhasesMatch'
      BY <1>30 DEF Terminated, TypeOK, PhasesMatch
    <2>3. PortsDistinct' /\ CircuitOnRecord' /\ ListeningOnRecord'
      BY <1>30 DEF Terminated, TypeOK, PhasesMatch, PortsDistinct, CircuitOnRecord,
         ListeningOnRecord
    <2>4. OnlyPendingHeld' /\ RepeatsOnlyWhenStopping'
      BY <1>30 DEF Terminated, TypeOK, PhasesMatch, PortsDistinct, CircuitOnRecord,
         OnlyPendingHeld, Pending, RepeatsOnlyWhenStopping
    <2>5. QED
      BY <2>1, <2>2, <2>3, <2>4 DEF IndInv
  <1>31. CASE UNCHANGED vars
    BY <1>31 DEF IndInv, TypeOK, PhasesMatch, PortsDistinct, CircuitOnRecord,
       ListeningOnRecord, OnlyPendingHeld, Pending, RepeatsOnlyWhenStopping, WaitedIsAge
  <1>32. QED
    BY <1>2, <1>3, <1>4, <1>5, <1>6, <1>7, <1>8, <1>9, <1>10, <1>11, <1>12, <1>13,
       <1>14, <1>15, <1>16, <1>17, <1>18, <1>19, <1>20, <1>21, <1>22, <1>23, <1>24, <1>25,
       <1>26, <1>27, <1>28, <1>29, <1>30, <1>31 DEF Next, MainStep, SlaveStep

(* The server before its first step satisfies the invariant. *)
LEMMA InitEstablishes ==
  ASSUME Init
  PROVE  IndInv
  <1>1. /\ slave_mode \in BOOLEAN /\ is_auto_mode \in BOOLEAN
        /\ is_on \in BOOLEAN /\ started \in BOOLEAN /\ is_on /\ (started <=> ~slave_mode)
        /\ connected \in BOOLEAN /\ silent \in BOOLEAN /\ gave_up \in BOOLEAN
        /\ child_pid \in BOOLEAN /\ missed \in BOOLEAN /\ repeated \in BOOLEAN
        /\ ~connected /\ ~gave_up /\ ~missed /\ ~repeated
    BY Zenon DEF Init
  <1>2. TypeOK
    BY <1>1, ConstantsType, EmptyArray DEF Init, TypeOK
  <1>3. PhasesMatch /\ RepeatsOnlyWhenStopping
    BY <1>1 DEF Init, PhasesMatch, RepeatsOnlyWhenStopping
  <1>4. PortsDistinct
    BY EmptyArray DEF Init, PortsDistinct
  <1>5. CircuitOnRecord /\ ListeningOnRecord
    BY <1>1 DEF Init, CircuitOnRecord, ListeningOnRecord
  <1>6. OnlyPendingHeld
    BY <1>1 DEF Init, OnlyPendingHeld
  <1>7. WaitedIsAge
    BY <1>1 DEF Init, WaitedIsAge
  <1>8. QED
    BY <1>2, <1>3, <1>4, <1>5, <1>6, <1>7 DEF IndInv

(* The invariant holds in every state of every behaviour. *)
THEOREM Invariance == Spec => []IndInv
  <1>1. Init => IndInv
    BY InitEstablishes
  <1>2. IndInv /\ [Next]_vars => IndInv'
    BY StepPreserves
  <1>3. QED
    BY <1>1, <1>2, PTL DEF Spec

-----------------------------------------------------------------------------
(* Types: the circuit's position stays within the interfaces and the array *)
(* of NUM_PORTS_TO_GIVE ports, the rotation within the songs and the       *)
(* period.                                                                 *)
THEOREM ContentServerTypeCorrect == Spec => []TypeOK
  <1>1. IndInv => TypeOK
    BY DEF IndInv
  <1>2. QED
    BY <1>1, Invariance, PTL

(* While the server is on, the port it listens on is on the mapper's       *)
(* record, and so is the port its slave is connected from, whichever of    *)
(* the borrowed ports free_attempted_ports has sent back, unless its JOIN  *)
(* was answered with fewer ports than it asked for.                        *)
THEOREM UsedPortsAreOnRecord == Spec => []PortsInUseAreOnRecord
  <1>1. IndInv => PortsInUseAreOnRecord
    BY DEF IndInv, ListeningOnRecord, CircuitOnRecord, PortsInUseAreOnRecord
  <1>2. QED
    BY <1>1, Invariance, PTL

(* A server that has exited, with no failed exchange, no stop before its   *)
(* circuit was done and an address to listen on, has left no port on the   *)
(* mapper's record, a JOIN with too few ports included.                    *)
THEOREM NoPortIsKept == Spec => []PortsAreReturnedAtTheEnd
  <1>1. IndInv => PortsAreReturnedAtTheEnd
    BY DEF IndInv, OnlyPendingHeld, PortsAreReturnedAtTheEnd
  <1>2. QED
    BY <1>1, Invariance, PTL

(* send_port_back and send_ports_back repeat a port only in a server that  *)
(* is stopping, or whose JOIN was answered with too few ports.             *)
THEOREM RepeatsComeLate == Spec => []RepeatsOnlyWhenStopping
  <1>1. IndInv => RepeatsOnlyWhenStopping
    BY DEF IndInv
  <1>2. QED
    BY <1>1, Invariance, PTL

(* Only the steps of con_accepting_loop that end a wait of select change   *)
(* the song or its age, and they do as pick_next_song says.                *)
LEMMA StepHoldsSong ==
  ASSUME IndInv, [Next]_vars, index' # index \/ (main = "loop" /\ age' < age)
  PROVE  /\ index' = (index + 1) % Songs
         /\ lasted' > Period
         /\ ~missed => lasted' <= Period + SelectTime
  <1>1. TypeOK /\ WaitedIsAge
    BY DEF IndInv
  <1>2. CASE \E d \in 0 .. SelectTime : PickNextSong(d)
    BY <1>1, <1>2, PickNextSongEffect
  <1>3. CASE LoopInterrupted
    <2>1. age \in 0 .. AgeBound
      BY <1>1 DEF TypeOK
    <2>2. index' = index /\ age' \in Int /\ age' >= age
      BY <1>3, <2>1, ConstantsType DEF LoopInterrupted, Older
    <2>3. QED
      BY <2>1, <2>2, ConstantsType
  <1>4. CASE UNCHANGED rotation
    <2>1. age \in Int
      BY <1>1, ConstantsType DEF TypeOK
    <2>2. QED
      BY <1>4, <2>1 DEF rotation
  <1>5. MainStep => UNCHANGED rotation \/ LoopInterrupted \/ \E d \in 0 .. SelectTime : PickNextSong(d)
    BY ConstantsType
       DEF MainStep, BootNoPort, BootPort, BootBadAddress, BootFails, BootListens, LoopTest, LoopSleep, LoopEnds,
           LoopTimesOut, LoopForks, LoopForkFails, LoopGivesUp, MainJoins
  <1>6. SlaveStep => UNCHANGED rotation
    BY DEF SlaveStep, CircuitAsks, CircuitNextInterface, CircuitGivesUp, CircuitTries,
           CircuitConnects, SlaveLogsIn, SlaveLoginFails, SlaveBeatFails, ExitPort, ExitPorts,
           ExitStop, ExitClean
  <1>7. UpperChanges \/ SigInt \/ Terminated \/ UNCHANGED vars => UNCHANGED rotation
    BY DEF UpperChanges, SigInt, Terminated, vars
  <1>8. QED
    BY <1>2, <1>3, <1>4, <1>5, <1>6, <1>7 DEF Next

(* The rotation changes the song only in order, and only once the song has *)
(* been current for more than Period ticks, the wait of the round that     *)
(* replaces it included; at most SelectTime ticks after its period unless  *)
(* a select was interrupted.                                               *)
THEOREM RotationKeepsItsPeriod == Spec => SongHoldsItsPeriod
  <1>1. IndInv /\ [Next]_vars =>
          [index' # index \/ (main = "loop" /\ age' < age) =>
             /\ index' = (index + 1) % Songs
             /\ lasted' > Period
             /\ ~missed => lasted' <= Period + SelectTime]_vars
    BY StepHoldsSong
  <1>2. QED
    BY <1>1, Invariance, PTL DEF Spec, SongHoldsItsPeriod

=============================================================================
