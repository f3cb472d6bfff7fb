--------------------------- MODULE RegistryProofs ---------------------------
(***************************************************************************)
(* The properties of a node's list of servers, for every number of slots   *)
(* and descriptors: IndInv is inductive, the invariants follow from it, and*)
(* a step from a state where it holds satisfies NeverUnwatched.            *)
(***************************************************************************)
EXTENDS Registry, FiniteSetTheorems, TLAPS

\* add_con stores a descriptor in one slot only, whether the node is on or not.
SlotsDistinct ==
  \A n, m \in Slots : fd_arr[n] = fd_arr[m] /\ fd_arr[n] # EMPTY => n = m

\* The acceptor has a connection of its own exactly while it serves it.
SockWhileServing == sock # EMPTY <=> acceptor \in {"serve", "add"}

\* While is_on is 1 only add_con and kill_con have changed the set: both change
\* curr_size and the table with it.
RecordsAgree ==
  is_on =>
    /\ curr_size = Cardinality(Used)
    /\ rows = InSet

\* close_all_fds, which leaves the rows and whose emptied slots a pending kill_con
\* counts twice, is only called after sig_func.
CleanOnlyWhenOff ==
  \/ acceptor \in {"sig", "break_close", "break_wake", "close", "wake", "done"}
  \/ slave \in {"close", "closing", "reclose", "wake"}
  => ~is_on

\* Between the look and kill_con the watchdog is at a slot of the array, and the
\* slot is still used unless a close_all_fds has come in between; during the read
\* set_mtx keeps that out.
SlotOfTheRound ==
  watchdog \in {"found", "read", "kill"} =>
    /\ i \in Slots
    /\ (is_on \/ watchdog = "read") => fd_arr[i] # EMPTY

\* After the acceptor's own close_all_fds nothing is registered any more, so the
\* last cleaning is the one that counts; a process that has ended has no thread.
ClosedForGood ==
  /\ acceptor \in {"wake", "done"} => InSet = {}
  /\ main \in {"down", "closed"} => acceptor = "done" /\ watchdog = "done" /\ slave = "done"
  /\ main = "closed" => rows = {}

\* set_mtx has one owner at a time.
SetMtxHeldOnce == watchdog = "read" => slave \notin {"closing", "reclose"}

\* Only between the two closes of a slot can accept() have returned its descriptor,
\* and until the acceptor leaves its loop no other slot holds a closed one.
ReusedOnlyBetweenCloses ==
  \A n \in Slots :
    (\/ fd_arr[n] # EMPTY /\ fd_arr[n] = sock
     \/ fd_arr[n] # EMPTY /\ acceptor = "select" /\ conn[fd_arr[n]] = "free")
      => slave = "reclose" /\ NextUsed(n)

\* The inductive invariant.
IndInv ==
  /\ TypeOK /\ OpenAreOwned /\ SlotsDistinct /\ SockWhileServing
  /\ RecordsAgree /\ CleanOnlyWhenOff /\ SlotOfTheRound /\ ClosedForGood
  /\ SetMtxHeldOnce /\ ReusedOnlyBetweenCloses

-----------------------------------------------------------------------------
(* Slots are numbered from 1, the one before MaxSize is the last, and no     *)
(* descriptor is EMPTY.                                                      *)
LEMMA ConstantsType ==
  /\ MaxSize \in Nat /\ Slots \subseteq Nat \ {0} /\ \A n \in Slots : n < MaxSize
  /\ \A n \in 1 .. MaxSize : n # MaxSize => n \in Slots /\ n + 1 \in 1 .. MaxSize
  /\ EMPTY \notin Fds /\ EMPTY = 0
  BY RegistryAssumption DEF Slots, EMPTY

(* sig_func clears is_on. *)
LEMMA OffFlags ==
  ASSUME SigFunc
  PROVE  ~is_on' /\ is_on' \in BOOLEAN /\ started' \in BOOLEAN
  BY Zenon DEF SigFunc

(* The used slots can be counted. *)
LEMMA UsedFinite ==
  ASSUME NEW a
  PROVE  LET U == {n \in Slots : a[n] # EMPTY} IN
         IsFiniteSet(U) /\ Cardinality(U) \in Nat
  <1> DEFINE U == {n \in Slots : a[n] # EMPTY}
  <1>1. IsFiniteSet(Slots)
    BY FS_Interval, RegistryAssumption DEF Slots
  <1>2. U \in SUBSET Slots
    OBVIOUS
  <1>3. IsFiniteSet(U)
    BY <1>1, <1>2, FS_Subset
  <1>4. QED
    BY <1>3, FS_CardinalityType

(* add_con: one more slot is used. *)
LEMMA UseSlot ==
  ASSUME NEW a \in [Slots -> Fds \cup {EMPTY}], NEW s \in Slots, a[s] = EMPTY, NEW f \in Fds
  PROVE  Cardinality({n \in Slots : [a EXCEPT ![s] = f][n] # EMPTY})
           = Cardinality({n \in Slots : a[n] # EMPTY}) + 1
  <1> DEFINE A == {n \in Slots : a[n] # EMPTY}
             B == {n \in Slots : [a EXCEPT ![s] = f][n] # EMPTY}
  <1>1. B = A \cup {s} /\ s \notin A
    BY ConstantsType
  <1>2. IsFiniteSet(A)
    BY UsedFinite
  <1> HIDE DEF A, B
  <1>3. Cardinality(B) = Cardinality(A) + 1
    BY <1>1, <1>2, FS_AddElement
  <1>4. QED
    BY <1>3 DEF A, B

(* kill_con: one slot less is used. *)
LEMMA FreeSlot ==
  ASSUME NEW a \in [Slots -> Fds \cup {EMPTY}], NEW s \in Slots, a[s] # EMPTY
  PROVE  Cardinality({n \in Slots : [a EXCEPT ![s] = EMPTY][n] # EMPTY})
           = Cardinality({n \in Slots : a[n] # EMPTY}) - 1
  <1> DEFINE A == {n \in Slots : a[n] # EMPTY}
             B == {n \in Slots : [a EXCEPT ![s] = EMPTY][n] # EMPTY}
  <1>1. B = A \ {s} /\ s \in A
    OBVIOUS
  <1>2. IsFiniteSet(A)
    BY UsedFinite
  <1> HIDE DEF A, B
  <1>3. Cardinality(B) = Cardinality(A) - 1
    BY <1>1, <1>2, FS_RemoveElement
  <1>4. QED
    BY <1>3 DEF A, B

(* An empty array has no used slot and no descriptor. *)
LEMMA NoSlots ==
  ASSUME NEW a, a = [n \in Slots |-> EMPTY]
  PROVE  /\ {n \in Slots : a[n] # EMPTY} = {} /\ {a[n] : n \in Slots} \ {EMPTY} = {}
         /\ Cardinality({n \in Slots : a[n] # EMPTY}) = 0
  <1>1. {n \in Slots : a[n] # EMPTY} = {} /\ {a[n] : n \in Slots} \ {EMPTY} = {}
    OBVIOUS
  <1>2. QED
    BY <1>1, FS_EmptySet

-----------------------------------------------------------------------------
(* A node that has not been started satisfies the invariant. *)
LEMMA InitEstablishes ==
  ASSUME Init
  PROVE  IndInv
  <1>1. is_on \in BOOLEAN /\ started \in BOOLEAN /\ ~is_on
    BY Zenon DEF Init
  <1>2. TypeOK
    <2>1. 1 \in 1 .. MaxSize
      BY RegistryAssumption
    <2>2. QED
      BY <1>1, <2>1, ConstantsType DEF Init, TypeOK, Peer
  <1>3. InSet = {}
    BY NoSlots DEF Init, InSet
  <1>4. OpenAreOwned /\ SlotsDistinct /\ ClosedForGood
    BY <1>3, ConstantsType DEF Init, OpenAreOwned, SlotsDistinct, ClosedForGood
  <1>5. SockWhileServing /\ RecordsAgree /\ CleanOnlyWhenOff /\ SlotOfTheRound
    BY <1>1 DEF Init, SockWhileServing, RecordsAgree, CleanOnlyWhenOff, SlotOfTheRound
  <1>6. SetMtxHeldOnce /\ ReusedOnlyBetweenCloses
    BY DEF Init, SetMtxHeldOnce, ReusedOnlyBetweenCloses
  <1>7. QED
    BY <1>2, <1>4, <1>5, <1>6 DEF IndInv

(* Every step of main, of the three threads and of their environment keeps *)
(* the invariant.                                                          *)
LEMMA StepPreserves ==
  ASSUME IndInv, [Next]_vars
  PROVE  IndInv'
  <1>1. Cardinality({n \in Slots : fd_arr[n] # EMPTY}) \in Nat
    BY UsedFinite
  <1> USE ConstantsType
      DEF vars, setVars, threads, flags, IndInv, TypeOK, Peer, InSet, OpenAreOwned,
          SlotsDistinct, SockWhileServing, RecordsAgree, CleanOnlyWhenOff,
          SlotOfTheRound, ClosedForGood, SetMtxHeldOnce, ReusedOnlyBetweenCloses, Used, NextUsed
  <1>2. CASE Start
    <2> USE <1>2 DEF Start
    <2>1. TypeOK'
      <3>1. is_on' \in BOOLEAN /\ started' \in BOOLEAN
        BY Zenon
      <3>2. QED
        BY <3>1
    <2>2. OpenAreOwned'
      OBVIOUS
    <2>3. SlotsDistinct'
      OBVIOUS
    <2>4. SockWhileServing'
      OBVIOUS
    <2>5. RecordsAgree'
      BY NoSlots
    <2>6. CleanOnlyWhenOff'
      OBVIOUS
    <2>7. SlotOfTheRound'
      OBVIOUS
    <2>8. ClosedForGood'
      OBVIOUS
    <2>9. SetMtxHeldOnce'
      OBVIOUS
    <2>10. ReusedOnlyBetweenCloses'
      OBVIOUS
    <2>11. QED
      BY <2>1, <2>2, <2>3, <2>4, <2>5, <2>6, <2>7, <2>8, <2>9, <2>10
  <1>3. CASE MainTest
    BY <1>3 DEF MainTest
  <1>4. CASE MainSleep
    BY <1>4 DEF MainSleep
  <1>5. CASE MainJoin
    BY <1>5 DEF MainJoin
  <1>6. CASE AcceptorTest
    BY <1>6 DEF AcceptorTest, AcceptorGoes
  <1>7. CASE AcceptorSleep
    BY <1>7 DEF AcceptorSleep, AcceptorGoes
  <1>8. CASE AcceptorLoop
    BY <1>8 DEF AcceptorLoop, AcceptorGoes
  <1>9. CASE SelectNothing
    BY <1>9 DEF SelectNothing, AcceptorGoes
  <1>10. CASE SelectFails
    <2> USE <1>10 DEF SelectFails, AcceptorGoes, SigFunc
    <2>1. TypeOK'
      <3>1. is_on' \in BOOLEAN /\ started' \in BOOLEAN
        BY OffFlags, Zenon
      <3>2. QED
        BY <3>1
    <2>2. OpenAreOwned'
      OBVIOUS
    <2>3. SlotsDistinct'
      OBVIOUS
    <2>4. SockWhileServing'
      OBVIOUS
    <2>5. RecordsAgree'
      OBVIOUS
    <2>6. CleanOnlyWhenOff'
      OBVIOUS
    <2>7. SlotOfTheRound'
      OBVIOUS
    <2>8. ClosedForGood'
      OBVIOUS
    <2>9. SetMtxHeldOnce'
      OBVIOUS
    <2>10. ReusedOnlyBetweenCloses'
      OBVIOUS
    <2>11. QED
      BY <2>1, <2>2, <2>3, <2>4, <2>5, <2>6, <2>7, <2>8, <2>9, <2>10
  <1>11. CASE Accept
    BY <1>11 DEF Accept, AcceptorGoes
  <1>12. CASE ServeAndClose
    <2> USE <1>12 DEF ServeAndClose, AcceptorGoes, SigFunc
    <2>1. TypeOK'
      <3>1. is_on' \in BOOLEAN /\ started' \in BOOLEAN
        BY OffFlags, Zenon
      <3>2. QED
        BY <3>1
    <2>2. OpenAreOwned'
      OBVIOUS
    <2>3. SlotsDistinct'
      OBVIOUS
    <2>4. SockWhileServing'
      OBVIOUS
    <2>5. RecordsAgree'
      <3>1. is_on' => is_on
        BY OffFlags, Zenon
      <3>2. QED
        BY <3>1
    <2>6. CleanOnlyWhenOff'
      OBVIOUS
    <2>7. SlotOfTheRound'
      OBVIOUS
    <2>8. ClosedForGood'
      OBVIOUS
    <2>9. SetMtxHeldOnce'
      OBVIOUS
    <2>10. ReusedOnlyBetweenCloses'
      OBVIOUS
    <2>11. QED
      BY <2>1, <2>2, <2>3, <2>4, <2>5, <2>6, <2>7, <2>8, <2>9, <2>10
  <1>13. CASE ServeLog
    BY <1>13 DEF ServeLog, AcceptorGoes
  <1>14. CASE AddCon
    <2> USE <1>14 DEF AddCon, AcceptorGoes, SetMtxFree
    <2>1. TypeOK'
      OBVIOUS
    <2>2. OpenAreOwned'
      OBVIOUS
    <2>3. SlotsDistinct'
      OBVIOUS
    <2>4. SockWhileServing'
      OBVIOUS
    <2>5. RecordsAgree'
      BY UseSlot
    <2>6. CleanOnlyWhenOff'
      OBVIOUS
    <2>7. SlotOfTheRound'
      OBVIOUS
    <2>8. ClosedForGood'
      OBVIOUS
    <2>9. SetMtxHeldOnce'
      OBVIOUS
    <2>10. ReusedOnlyBetweenCloses'
      OBVIOUS
    <2>11. QED
      BY <2>1, <2>2, <2>3, <2>4, <2>5, <2>6, <2>7, <2>8, <2>9, <2>10
  <1>15. CASE AddConSignal
    BY <1>15 DEF AddConSignal, Woken
  <1>16. CASE AcceptorSig
    <2> USE <1>16 DEF AcceptorSig, AcceptorGoes, SigFunc
    <2>1. TypeOK'
      <3>1. is_on' \in BOOLEAN /\ started' \in BOOLEAN
        BY OffFlags, Zenon
      <3>2. QED
        BY <3>1
    <2>2. OpenAreOwned'
      OBVIOUS
    <2>3. SlotsDistinct'
      OBVIOUS
    <2>4. SockWhileServing'
      OBVIOUS
    <2>5. RecordsAgree'
      OBVIOUS
    <2>6. CleanOnlyWhenOff'
      OBVIOUS
    <2>7. SlotOfTheRound'
      OBVIOUS
    <2>8. ClosedForGood'
      OBVIOUS
    <2>9. SetMtxHeldOnce'
      OBVIOUS
    <2>10. ReusedOnlyBetweenCloses'
      OBVIOUS
    <2>11. QED
      BY <2>1, <2>2, <2>3, <2>4, <2>5, <2>6, <2>7, <2>8, <2>9, <2>10
  <1>17. CASE AcceptorClose
    <2> USE <1>17 DEF AcceptorClose, CloseAllFds, SetMtxFree
    <2>1. TypeOK'
      BY <1>1
    <2>2. OpenAreOwned'
      OBVIOUS
    <2>3. SlotsDistinct'
      OBVIOUS
    <2>4. SockWhileServing'
      OBVIOUS
    <2>5. RecordsAgree'
      OBVIOUS
    <2>6. CleanOnlyWhenOff'
      OBVIOUS
    <2>7. SlotOfTheRound'
      OBVIOUS
    <2>8. ClosedForGood'
      OBVIOUS
    <2>9. SetMtxHeldOnce'
      OBVIOUS
    <2>10. ReusedOnlyBetweenCloses'
      OBVIOUS
    <2>11. QED
      BY <2>1, <2>2, <2>3, <2>4, <2>5, <2>6, <2>7, <2>8, <2>9, <2>10
  <1>18. CASE AcceptorWake
    BY <1>18 DEF AcceptorWake, Woken, CloseLink
  <1>19. CASE WatchdogZero
    BY <1>19 DEF WatchdogZero, WatchdogGoes
  <1>20. CASE WatchdogOuter
    <2> USE <1>20 DEF WatchdogOuter, WatchdogGoes, SigFunc
    <2>1. TypeOK'
      <3>1. is_on' \in BOOLEAN /\ started' \in BOOLEAN
        BY OffFlags, Zenon
      <3>2. QED
        BY <3>1
    <2>2. OpenAreOwned'
      OBVIOUS
    <2>3. SlotsDistinct'
      OBVIOUS
    <2>4. SockWhileServing'
      OBVIOUS
    <2>5. RecordsAgree'
      <3>1. is_on' => is_on
        BY OffFlags, Zenon
      <3>2. QED
        BY <3>1
    <2>6. CleanOnlyWhenOff'
      OBVIOUS
    <2>7. SlotOfTheRound'
      OBVIOUS
    <2>8. ClosedForGood'
      OBVIOUS
    <2>9. SetMtxHeldOnce'
      OBVIOUS
    <2>10. ReusedOnlyBetweenCloses'
      OBVIOUS
    <2>11. QED
      BY <2>1, <2>2, <2>3, <2>4, <2>5, <2>6, <2>7, <2>8, <2>9, <2>10
  <1>21. CASE WatchdogTest
    BY <1>21 DEF WatchdogTest, WatchdogGoes
  <1>22. CASE WatchdogSleep
    BY <1>22 DEF WatchdogSleep, WatchdogGoes
  <1>23. CASE WatchdogInner
    BY <1>23 DEF WatchdogInner, WatchdogGoes
  <1>24. CASE WatchdogLook
    <2> USE <1>24 DEF WatchdogLook, WatchdogGoes
    <2>1. TypeOK'
      OBVIOUS
    <2>2. OpenAreOwned'
      OBVIOUS
    <2>3. SlotsDistinct'
      OBVIOUS
    <2>4. SockWhileServing'
      OBVIOUS
    <2>5. RecordsAgree'
      OBVIOUS
    <2>6. CleanOnlyWhenOff'
      OBVIOUS
    <2>7. SlotOfTheRound'
      OBVIOUS
    <2>8. ClosedForGood'
      OBVIOUS
    <2>9. SetMtxHeldOnce'
      OBVIOUS
    <2>10. ReusedOnlyBetweenCloses'
      OBVIOUS
    <2>11. QED
      BY <2>1, <2>2, <2>3, <2>4, <2>5, <2>6, <2>7, <2>8, <2>9, <2>10
  <1>25. CASE WatchdogRead
    BY <1>25 DEF WatchdogRead, WatchdogGoes, Reading, SetMtxFree
  <1>26. CASE KillCon
    <2> USE <1>26 DEF KillCon, WatchdogGoes, SetMtxFree
    <2>1. TypeOK'
      OBVIOUS
    <2>2. OpenAreOwned'
      OBVIOUS
    <2>3. SlotsDistinct'
      OBVIOUS
    <2>4. SockWhileServing'
      OBVIOUS
    <2>5. RecordsAgree'
      BY FreeSlot
    <2>6. CleanOnlyWhenOff'
      OBVIOUS
    <2>7. SlotOfTheRound'
      OBVIOUS
    <2>8. ClosedForGood'
      OBVIOUS
    <2>9. SetMtxHeldOnce'
      OBVIOUS
    <2>10. ReusedOnlyBetweenCloses'
      OBVIOUS
    <2>11. QED
      BY <2>1, <2>2, <2>3, <2>4, <2>5, <2>6, <2>7, <2>8, <2>9, <2>10
  <1>27. CASE SlaveCircuit
    BY <1>27 DEF SlaveCircuit, SlaveGoes
  <1>28. CASE SlaveLogin
    BY <1>28 DEF SlaveLogin, SlaveGoes, Woken
  <1>29. CASE SlaveLoginFails
    BY <1>29 DEF SlaveLoginFails, SlaveGoes
  <1>30. CASE SlaveBeat
    BY <1>30 DEF SlaveBeat, SlaveGoes, Sending
  <1>31. CASE SlaveExit
    <2> USE <1>31 DEF SlaveExit, SlaveGoes, SigFunc, Woken
    <2>1. TypeOK'
      <3>1. is_on' \in BOOLEAN /\ started' \in BOOLEAN
        BY OffFlags, Zenon
      <3>2. QED
        BY <3>1
    <2>2. OpenAreOwned'
      OBVIOUS
    <2>3. SlotsDistinct'
      OBVIOUS
    <2>4. SockWhileServing'
      OBVIOUS
    <2>5. RecordsAgree'
      OBVIOUS
    <2>6. CleanOnlyWhenOff'
      OBVIOUS
    <2>7. SlotOfTheRound'
      OBVIOUS
    <2>8. ClosedForGood'
      OBVIOUS
    <2>9. SetMtxHeldOnce'
      OBVIOUS
    <2>10. ReusedOnlyBetweenCloses'
      OBVIOUS
    <2>11. QED
      BY <2>1, <2>2, <2>3, <2>4, <2>5, <2>6, <2>7, <2>8, <2>9, <2>10
  <1>32. CASE SlaveClose
    <2> USE <1>32 DEF SlaveClose, SlaveGoes, SetMtxFree
    <2>1. TypeOK'
      OBVIOUS
    <2>2. OpenAreOwned'
      OBVIOUS
    <2>3. SlotsDistinct'
      OBVIOUS
    <2>4. SockWhileServing'
      OBVIOUS
    <2>5. RecordsAgree'
      OBVIOUS
    <2>6. CleanOnlyWhenOff'
      OBVIOUS
    <2>7. SlotOfTheRound'
      OBVIOUS
    <2>8. ClosedForGood'
      OBVIOUS
    <2>9. SetMtxHeldOnce'
      OBVIOUS
    <2>10. ReusedOnlyBetweenCloses'
      OBVIOUS
    <2>11. QED
      BY <2>1, <2>2, <2>3, <2>4, <2>5, <2>6, <2>7, <2>8, <2>9, <2>10
  <1>33. CASE SlaveReclose
    <2> USE <1>33 DEF SlaveReclose, SlaveGoes
    <2>1. TypeOK'
      OBVIOUS
    <2>2. OpenAreOwned'
      OBVIOUS
    <2>3. SlotsDistinct'
      OBVIOUS
    <2>4. SockWhileServing'
      OBVIOUS
    <2>5. RecordsAgree'
      OBVIOUS
    <2>6. CleanOnlyWhenOff'
      OBVIOUS
    <2>7. SlotOfTheRound'
      OBVIOUS
    <2>8. ClosedForGood'
      OBVIOUS
    <2>9. SetMtxHeldOnce'
      OBVIOUS
    <2>10. ReusedOnlyBetweenCloses'
      OBVIOUS
    <2>11. QED
      BY <2>1, <2>2, <2>3, <2>4, <2>5, <2>6, <2>7, <2>8, <2>9, <2>10
  <1>34. CASE SlaveWake
    BY <1>34 DEF SlaveWake, Woken
  <1>35. CASE SigInt
    <2> USE <1>35 DEF SigInt, SigFunc, Running, Reading, SetMtxFree
    <2>1. TypeOK'
      <3>1. is_on' \in BOOLEAN /\ started' \in BOOLEAN
        BY OffFlags, Zenon
      <3>2. QED
        BY <3>1
    <2>2. OpenAreOwned'
      OBVIOUS
    <2>3. SlotsDistinct'
      OBVIOUS
    <2>4. SockWhileServing'
      OBVIOUS
    <2>5. RecordsAgree'
      OBVIOUS
    <2>6. CleanOnlyWhenOff'
      OBVIOUS
    <2>7. SlotOfTheRound'
      OBVIOUS
    <2>8. ClosedForGood'
      OBVIOUS
    <2>9. SetMtxHeldOnce'
      OBVIOUS
    <2>10. ReusedOnlyBetweenCloses'
      OBVIOUS
    <2>11. QED
      BY <2>1, <2>2, <2>3, <2>4, <2>5, <2>6, <2>7, <2>8, <2>9, <2>10
  <1>36. CASE PeerChanges
    BY <1>36 DEF PeerChanges
  <1>37. CASE UpperChanges
    BY <1>37 DEF UpperChanges
  <1>38. CASE Crash
    <2> USE <1>38 DEF Crash
    <2>1. TypeOK'
      <3>1. is_on' \in BOOLEAN /\ started' \in BOOLEAN
        BY Zenon
      <3>2. QED
        BY <3>1
    <2>2. OpenAreOwned'
      BY NoSlots
    <2>3. SlotsDistinct'
      OBVIOUS
    <2>4. SockWhileServing'
      OBVIOUS
    <2>5. RecordsAgree'
      OBVIOUS
    <2>6. CleanOnlyWhenOff'
      OBVIOUS
    <2>7. SlotOfTheRound'
      OBVIOUS
    <2>8. ClosedForGood'
      OBVIOUS
    <2>9. SetMtxHeldOnce'
      OBVIOUS
    <2>10. ReusedOnlyBetweenCloses'
      OBVIOUS
    <2>11. QED
      BY <2>1, <2>2, <2>3, <2>4, <2>5, <2>6, <2>7, <2>8, <2>9, <2>10
  <1>39. CASE UNCHANGED vars
    BY <1>39
  <1>40. QED
    BY <1>2, <1>3, <1>4, <1>5, <1>6, <1>7, <1>8, <1>9, <1>10, <1>11, <1>12,
       <1>13, <1>14, <1>15, <1>16, <1>17, <1>18, <1>19, <1>20, <1>21, <1>22,
       <1>23, <1>24, <1>25, <1>26, <1>27, <1>28, <1>29, <1>30, <1>31, <1>32,
       <1>34, <1>35, <1>36, <1>37, <1>38, <1>39, <1>33
    DEF Next, System, Environment, MainStep, AcceptorStep, WatchdogStep, SlaveStep

(* The invariant holds in every state of every behaviour. *)
THEOREM Invariance == Spec => []IndInv
  <1>1. Init => IndInv
    BY InitEstablishes
  <1>2. IndInv /\ [Next]_vars => IndInv'
    BY StepPreserves
  <1>3. QED
    BY <1>1, <1>2, PTL DEF Spec

-----------------------------------------------------------------------------
(* Types: the watchdog's slot number stays within the array, and every     *)
(* thread at one of its places, for every number of slots and descriptors, *)
(* up to an add_con that finds no free slot.                               *)
THEOREM RegistryTypeCorrect == Spec => []TypeOK
  <1>1. IndInv => TypeOK
    BY DEF IndInv
  <1>2. QED
    BY <1>1, Invariance, PTL

(* Every open descriptor has an owner, the acceptor that serves it or a    *)
(* slot of the set, and until the node stops just one, which holds no       *)
(* closed one; accept() returns the descriptor of a slot only between the  *)
(* two closes that close_all_fds makes of it in the slave's thread.        *)
THEOREM ConnectionsAreOwned == Spec => []OpenAreOwned
  <1>1. IndInv => OpenAreOwned
    BY DEF IndInv
  <1>2. QED
    BY <1>1, Invariance, PTL

(* While the node is on, curr_size, the slots and the table Servers agree, *)
(* however add_con, kill_con and reused descriptors have followed each     *)
(* other.                                                                  *)
THEOREM RecordsOfServersAgree == Spec => []TableMatchesSet
  <1>1. IndInv => TableMatchesSet
    BY DEF IndInv, RecordsAgree, SlotsDistinct, TableMatchesSet
  <1>2. QED
    BY <1>1, Invariance, PTL

(* A node that has ended by itself has closed every connection and dropped *)
(* every row, in whichever order its threads cleaned up: the acceptor's    *)
(* close_all_fds comes after its last add_con.                             *)
THEOREM ExitIsClean == Spec => []ExitLeavesNothing
  <1>1. IndInv => ExitLeavesNothing
    <2> SUFFICES ASSUME IndInv, main = "closed"
                 PROVE  (\A f \in Fds : conn[f] = "free") /\ InSet = {} /\ rows = {}
      BY DEF ExitLeavesNothing
    <2>1. InSet = {} /\ rows = {} /\ acceptor = "done"
      BY DEF IndInv, ClosedForGood
    <2>2. sock \notin Fds
      BY <2>1, ConstantsType DEF IndInv, SockWhileServing
    <2>3. QED
      BY <2>1, <2>2 DEF IndInv, OpenAreOwned
  <1>2. QED
    BY <1>1, Invariance, PTL

(* While the node is on nobody runs close_all_fds: only add_con and         *)
(* kill_con change the set.                                                *)
LEMMA StepWatches ==
  ASSUME IndInv, [Next]_vars, watchdog # "zero", is_on
  PROVE  InSet' \ rdfds' \subseteq InSet \ rdfds
  <1>1. CASE AddCon
    BY <1>1, ConstantsType DEF AddCon, AcceptorGoes, IndInv, TypeOK, InSet
  <1>2. CASE KillCon
    BY <1>2, ConstantsType DEF KillCon, IndInv, TypeOK, SlotsDistinct, SlotOfTheRound, InSet
  <1>3. CASE fd_arr' = [n \in Slots |-> EMPTY]
    BY <1>3, NoSlots DEF InSet
  <1>4. CASE UNCHANGED <<fd_arr, rdfds>>
    BY <1>4 DEF InSet
  <1>5. MainStep => UNCHANGED <<fd_arr, rdfds>>
    BY DEF MainStep, MainTest, MainSleep, MainJoin, setVars
  <1>6. AcceptorStep => AddCon \/ fd_arr' = [n \in Slots |-> EMPTY] \/ UNCHANGED <<fd_arr, rdfds>>
    BY DEF AcceptorStep, AcceptorTest, AcceptorSleep, AcceptorLoop, SelectNothing, SelectFails,
           Accept, ServeAndClose, ServeLog, AddConSignal, AcceptorSig, AcceptorClose,
           CloseAllFds, AcceptorWake, setVars
  <1>7. WatchdogStep => KillCon \/ UNCHANGED <<fd_arr, rdfds>>
    BY DEF WatchdogStep, WatchdogZero, WatchdogOuter, WatchdogTest, WatchdogSleep,
           WatchdogInner, WatchdogLook, WatchdogRead, setVars
  <1>8. SlaveStep => UNCHANGED <<fd_arr, rdfds>>
    <2>1. slave \notin {"close", "closing", "reclose", "wake"}
      BY DEF IndInv, CleanOnlyWhenOff
    <2>2. QED
      BY <2>1 DEF SlaveStep, SlaveCircuit, SlaveLogin, SlaveLoginFails, SlaveBeat, SlaveExit,
                  SlaveClose, SlaveReclose, SlaveWake, setVars
  <1>9. Environment => fd_arr' = [n \in Slots |-> EMPTY] \/ UNCHANGED <<fd_arr, rdfds>>
    BY DEF Environment, Start, SigInt, PeerChanges, UpperChanges, Crash, setVars
  <1>10. UNCHANGED vars => UNCHANGED <<fd_arr, rdfds>>
    BY DEF vars, setVars
  <1>11. QED
    BY <1>1, <1>2, <1>3, <1>4, <1>5, <1>6, <1>7, <1>8, <1>9, <1>10 DEF Next, System

(* Once the watchdog has made its FD_ZERO, a registered server in rdfds    *)
(* stays there for as long as it is registered, and a new one gets there   *)
(* with its registration.                                                  *)
THEOREM NoServerGoesUnwatched == Spec => NeverUnwatched
  <1>1. IndInv /\ [Next]_vars =>
          [watchdog # "zero" /\ is_on => InSet' \ rdfds' \subseteq InSet \ rdfds]_vars
    BY StepWatches
  <1>2. QED
    BY <1>1, Invariance, PTL DEF Spec, NeverUnwatched

=============================================================================
