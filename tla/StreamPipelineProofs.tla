----------------------- MODULE StreamPipelineProofs -----------------------
(***************************************************************************)
(* The client's pipeline for every size of its queues, every watermark and *)
(* every length of the song: what the queues hold is in order, nothing is  *)
(* refused by a full queue, and so nothing is lost, and nothing is played  *)
(* twice or out of order.                                                  *)
(***************************************************************************)
EXTENDS StreamPipeline, SequenceTheorems, TLAPS

rx_at   == thread["rx"].at
dec_at  == thread["dec"].at
play_at == thread["play"].at

\* The labels of each thread's own function.
Own(t) ==
  CASE t = "rx"      -> {"rx_top", "rx_loop", "rx_read", "data", "timeout", "closed", "error",
                         "rx_stop", "rx_full", "rx_check", "run_check", "join", "release", "done"}
    [] t = "dec"     -> {"dec_start", "dec_top", "dec_loop", "dec_decode", "dec_queued",
                         "dec_next", "dec_empty", "dec_again", "dec_check", "done"}
    [] t = "play"    -> {"play_start", "play_top", "play_loop", "play_taken", "play_look",
                         "play_empty", "play_again", "play_real", "play_check", "done"}
    [] t = "input"   -> {"in_start", "in_loop", "in_read", "in_pause", "in_stop", "in_last", "done"}
    [] t = "stats"   -> {"st_start", "st_loop", "st_frame", "done"}
    [] t = "handler" -> {"h_idle", "h_signals", "done"}

OwnLabels == \A t \in Threads : thread[t].at \in Own(t)

\* The old contents of the buffer that read_chunk stores once more are the last
\* chunk received.  A wav stream has no decoder, and its header comes first.
Buffers ==
  /\ r_chunk = got
  /\ Wav => dec_at = "done" /\ decoder_que = <<>> /\ d_chunk = 0
  /\ flag.is_first_player_chunk => Wav /\ got = 0
  /\ dec_at = "dec_start" => d_chunk = 0 /\ player_que = <<>>
  /\ play_at = "play_start" => pr_chunk = 0
  /\ Invalid(rx_result) => rx_at \in {"run_check", "join", "release", "done"}

\* Where a chunk is about to be stored there is room for it: rx_thread_func and
\* dec_thread_func leave their loops when the queue is full, and come back to them
\* only when it is not.
Room ==
  /\ rx_at \in {"rx_loop", "rx_read"} \/ (rx_at = "rx_top" /\ flag.innited) =>
       IF Wav THEN Len(player_que) < PlayerMax ELSE Len(decoder_que) < DecoderMax
  /\ ~Wav =>
       (dec_at \in {"dec_loop", "dec_decode", "dec_next"} \/ (dec_at = "dec_top" /\ flag.innited)
          => Len(player_que) < PlayerMax)

\* Where a chunk is about to be taken there is one, but for the first time.
Stock ==
  /\ dec_at \in {"dec_top", "dec_loop"} /\ flag.innited => decoder_que # <<>> \/ d_chunk = 0
  /\ play_at \in {"play_top", "play_loop"} /\ flag.innited => player_que # <<>> \/ pr_chunk = 0
  /\ play_at = "play_real" => player_que # <<>>

\* read_closed may have stored the last chunk a second time.
Copied == rx_at = "closed" \/ rx_result = "closed"

\* The copy has left the decoder, or there is none: it can only be the last chunk
\* of player_que, or the one the player took last.
CopyPassed == Copied /\ decoder_que = <<>> /\ dec_at # "dec_decode"

InHand == play_at \in {"play_taken", "play_look", "play_empty", "play_again", "play_real"}

\* x comes before y in the stream; they may be equal where y is the copy.
Before(x, y, copy) == x < y \/ (copy /\ x <= y)

DecoderInOrder ==
  /\ \A j \in DOMAIN decoder_que :
       /\ decoder_que[j] <= got
       /\ Before(d_chunk, decoder_que[j], j = Len(decoder_que) /\ Copied)
  /\ \A j, k \in DOMAIN decoder_que :
       j < k => Before(decoder_que[j], decoder_que[k], k = Len(decoder_que) /\ Copied)
  /\ d_chunk <= got

\* The newest chunk that player_que can hold.
Newest == IF Wav THEN got ELSE d_chunk

\* A chunk x beyond the decoder comes before the one the decoder has in its hands.
BeforeDecoded(x) ==
  /\ x <= Newest
  /\ dec_at = "dec_decode" => Before(x, d_chunk, decoder_que = <<>> /\ Copied)

PlayerInOrder ==
  /\ \A j \in DOMAIN player_que :
       /\ ~Wav => player_que[j] # 0
       /\ BeforeDecoded(player_que[j])
  /\ \A j, k \in DOMAIN player_que :
       j < k => Before(player_que[j], player_que[k], k = Len(player_que) /\ CopyPassed)

HandInOrder ==
  /\ pr_chunk <= Newest
  /\ InHand /\ pr_chunk # 0 =>
       /\ BeforeDecoded(pr_chunk)
       /\ \A k \in DOMAIN player_que :
            Before(pr_chunk, player_que[k], k = Len(player_que) /\ CopyPassed)

PlayedFirst ==
  \A n \in DOMAIN played :
    /\ played[n] # 0
    /\ BeforeDecoded(played[n])
    /\ played[n] <= pr_chunk
    /\ InHand => Before(played[n], pr_chunk, player_que = <<>> /\ CopyPassed)
    /\ \A k \in DOMAIN player_que :
         Before(played[n], player_que[k], k = Len(player_que) /\ CopyPassed)

\* No chunk received is lost: ChunksAccountedFor, by the decoder's label.
Accounted ==
  1 .. got \subseteq Elements(decoder_que) \cup Elements(player_que)
                     \cup (IF dec_at = "dec_decode" THEN {d_chunk} ELSE {})
                     \cup (IF InPlay THEN {pr_chunk} ELSE {})
                     \cup Elements(played) \cup skipped

AllButLast(q) == {q[j] : j \in 1 .. Len(q) - 1}

\* Once the server of a wav stream has closed the connection, every chunk received
\* is played, passed over, or has another one behind it.
HasSuccessor ==
  Wav /\ Copied =>
    1 .. got \subseteq Elements(played) \cup skipped \cup AllButLast(player_que)
                       \cup (IF InPlay /\ player_que # <<>> THEN {pr_chunk} ELSE {})

\* No chunk is played twice or out of order, although read_chunk stores the last
\* chunk once more and dequeue_chunk leaves the old chunk in the player's buffer
\* when the queue is empty.
PlayedInOrder == \A i \in 1 .. Len(played) - 1 : played[i] < played[i + 1]

\* Only chunks that were received are played or passed over.
SkippedReceived == \A c \in skipped : 1 <= c /\ c <= got

Control == TypeOK /\ OwnLabels /\ Buffers /\ Room /\ Stock
Order   == DecoderInOrder /\ PlayerInOrder /\ HandInOrder /\ PlayedFirst /\ PlayedInOrder
Account == Accounted /\ HasSuccessor /\ SkippedReceived

\* The inductive invariant.
IndInv == Control /\ Order /\ Account

-----------------------------------------------------------------------------
(* The types of the configuration. *)
LEMMA ConstantsType ==
  /\ Wav \in BOOLEAN /\ ShowStats \in BOOLEAN
  /\ DecoderMax \in Nat /\ DecoderMax > 0 /\ PlayerMax \in Nat /\ PlayerMax > 0
  /\ AlmostEmptyPct \in Nat /\ AlmostFullPct \in Nat /\ AlmostFullPct <= 100
  /\ SongChunks \in Nat /\ ShortReads \in Nat /\ MaxPauses \in Nat
  BY StreamPipelineAssumption

(* pct_frac_of_nums of a full and of an empty queue. *)
LEMMA PctBounds ==
  ASSUME NEW max \in Nat, max > 0
  PROVE  pct_frac_of_nums(max, max) = 100 /\ pct_frac_of_nums(0, max) = 0
  <1>1. pct_frac_of_nums(max, max) = 100
    BY DEF pct_frac_of_nums
  <1>2. pct_frac_of_nums(0, max) = 0
    BY DEF pct_frac_of_nums
  <1>3. QED
    BY <1>1, <1>2

(* Below its watermark a queue has room, and above the other it has stock. *)
LEMMA Watermarks ==
  ASSUME NEW max \in Nat, max > 0, NEW q \in Seq(Chunks), Len(q) <= max
  PROVE  /\ ~que_is_almost_full(q, max) => Len(q) < max
         /\ ~que_is_almost_empty(q, max) => q # <<>>
         /\ ~que_is_full(q, max) => Len(q) < max
  <1>1. Len(q) = max => que_is_almost_full(q, max)
    BY PctBounds, ConstantsType DEF que_is_almost_full
  <1>2. q = <<>> => que_is_almost_empty(q, max)
    <2>1. q = <<>> => Len(q) = 0
      OBVIOUS
    <2>2. QED
      BY <2>1, PctBounds, ConstantsType DEF que_is_almost_empty
  <1>3. QED
    BY <1>1, <1>2 DEF que_is_full

(* dequeue_chunk on a queue that is not empty. *)
LEMMA TailFacts ==
  ASSUME NEW q \in Seq(Chunks), q # <<>>
  PROVE  /\ Tail(q) \in Seq(Chunks) /\ Len(q) \in Nat /\ Len(q) >= 1
         /\ Len(Tail(q)) = Len(q) - 1
         /\ DOMAIN q = 1 .. Len(q) /\ DOMAIN Tail(q) = 1 .. Len(q) - 1
         /\ \A j \in 1 .. Len(q) - 1 : Tail(q)[j] = q[j + 1]
         /\ Head(q) = q[1] /\ Head(q) \in Chunks
         /\ Tail(q) = <<>> <=> Len(q) = 1
  <1>1. /\ Tail(q) \in Seq(Chunks) /\ Len(q) \in Nat /\ Len(q) >= 1
        /\ Len(Tail(q)) = Len(q) - 1
        /\ DOMAIN q = 1 .. Len(q) /\ DOMAIN Tail(q) = 1 .. Len(q) - 1
        /\ \A j \in 1 .. Len(q) - 1 : Tail(q)[j] = q[j + 1]
        /\ Head(q) = q[1] /\ Head(q) \in Chunks
    OBVIOUS
  <1>2. Tail(q) = <<>> <=> Len(q) = 1
    BY <1>1, EmptySeq
  <1>3. QED
    BY <1>1, <1>2

(* enqueue_chunk on a queue that is not full. *)
LEMMA AppendFacts ==
  ASSUME NEW q \in Seq(Chunks), NEW c \in Chunks
  PROVE  /\ Append(q, c) \in Seq(Chunks) /\ Len(q) \in Nat
         /\ Len(Append(q, c)) = Len(q) + 1
         /\ DOMAIN q = 1 .. Len(q) /\ DOMAIN Append(q, c) = 1 .. Len(q) + 1
         /\ \A j \in 1 .. Len(q) : Append(q, c)[j] = q[j]
         /\ Append(q, c)[Len(q) + 1] = c
         /\ Append(q, c) # <<>>
  OBVIOUS

(* What a queue holds after enqueue_chunk. *)
LEMMA ElementsAppend ==
  ASSUME NEW q \in Seq(Chunks), NEW c \in Chunks
  PROVE  /\ Elements(Append(q, c)) = Elements(q) \cup {c}
         /\ AllButLast(Append(q, c)) = Elements(q)
  <1>1. Elements(Append(q, c)) = Elements(q) \cup {c}
    BY AppendFacts DEF Elements
  <1>2. AllButLast(Append(q, c)) = Elements(q)
    BY AppendFacts DEF Elements, AllButLast
  <1>3. QED
    BY <1>1, <1>2

(* What a queue held before dequeue_chunk. *)
LEMMA ElementsTail ==
  ASSUME NEW q \in Seq(Chunks), q # <<>>
  PROVE  /\ Elements(q) = {Head(q)} \cup Elements(Tail(q))
         /\ Len(q) = 1 => AllButLast(q) = {}
         /\ Len(q) > 1 => AllButLast(q) = {Head(q)} \cup AllButLast(Tail(q))
  <1>1. \A j \in 1 .. Len(q) : j = 1 \/ (j - 1 \in 1 .. Len(q) - 1 /\ (j - 1) + 1 = j)
    BY TailFacts
  <1>2. \A j \in 1 .. Len(q) : j = 1 \/ q[j] = Tail(q)[j - 1]
    BY <1>1, TailFacts
  <1>3. \A j \in 1 .. Len(q) - 1 : j + 1 \in 1 .. Len(q)
    BY TailFacts
  <1>4. Elements(q) \subseteq {Head(q)} \cup Elements(Tail(q))
    <2> SUFFICES ASSUME NEW j \in 1 .. Len(q)
                 PROVE  q[j] \in {Head(q)} \cup Elements(Tail(q))
      BY TailFacts DEF Elements
    <2>1. CASE j = 1
      BY <2>1, TailFacts
    <2>2. CASE j # 1
      BY <1>1, <1>2, <2>2, TailFacts DEF Elements
    <2>3. QED
      BY <2>1, <2>2
  <1>5. {Head(q)} \cup Elements(Tail(q)) \subseteq Elements(q)
    BY <1>3, TailFacts DEF Elements
  <1>6. Len(q) = 1 => AllButLast(q) = {}
    BY DEF AllButLast
  <1>7. ASSUME Len(q) > 1
        PROVE  AllButLast(q) = {Head(q)} \cup AllButLast(Tail(q))
    <2>1. \A j \in 1 .. Len(q) - 1 : j = 1 \/ (j - 1 \in 1 .. Len(q) - 2 /\ q[j] = Tail(q)[j - 1])
      BY <1>1, <1>2, TailFacts
    <2>2. \A j \in 1 .. Len(q) - 2 : j + 1 \in 1 .. Len(q) - 1 /\ Tail(q)[j] = q[j + 1]
      BY TailFacts
    <2>3. 1 \in 1 .. Len(q) - 1 /\ Len(Tail(q)) - 1 = Len(q) - 2
      BY <1>7, TailFacts
    <2>4. AllButLast(q) \subseteq {Head(q)} \cup AllButLast(Tail(q))
      <3> SUFFICES ASSUME NEW j \in 1 .. Len(q) - 1
                   PROVE  q[j] \in {Head(q)} \cup AllButLast(Tail(q))
        BY DEF AllButLast
      <3>1. CASE j = 1
        BY <3>1, TailFacts
      <3>2. CASE j # 1
        BY <2>1, <2>3, <3>2 DEF AllButLast
      <3>3. QED
        BY <3>1, <3>2
    <2>5. {Head(q)} \cup AllButLast(Tail(q)) \subseteq AllButLast(q)
      BY <2>2, <2>3, TailFacts DEF AllButLast
    <2>6. QED
      BY <2>4, <2>5
  <1>8. QED
    BY <1>4, <1>5, <1>6, <1>7

-----------------------------------------------------------------------------
(* Threads move one at a time.                                             *)

ThreadsType ==
  /\ thread \in [Threads -> [at : Labels, nap : {"awake", "dozing", "asleep"}]]
  /\ \A t \in Threads : thread[t].nap # "awake" => thread[t].at \in WaitPoints

\* Thread t goes to the label `to'; the others stay where they are.
Moves(t, to) ==
  /\ ThreadsType'
  /\ thread'[t].at = to
  /\ \A u \in Threads \ {t} : thread'[u].at = thread[u].at

(* The labels at which a thread waits, and those that follow. *)
LEMMA WaitPointsAre ==
  /\ WaitPoints = {"rx_check", "run_check", "dec_start", "dec_check", "play_start",
                   "play_check", "in_start", "st_start"}
  /\ after["rx_check"] = "rx_top" /\ after["run_check"] = "join"
  /\ after["dec_start"] = "dec_top" /\ after["dec_check"] = "dec_top"
  /\ after["play_start"] = "play_top" /\ after["play_check"] = "play_top"
  /\ after["in_start"] = "in_loop" /\ after["st_start"] = "st_loop"
  BY DEF WaitPoints, cond, after

(* A signal changes nobody's label but the signaller's. *)
LEMMA GoMoves ==
  ASSUME ThreadsType, NEW t \in Threads, NEW to \in Labels, NEW C, Go(t, to, C)
  PROVE  Moves(t, to)
  <1>1. \A u \in Threads : thread[u] \in [at : Labels, nap : {"awake", "dozing", "asleep"}]
    BY DEF ThreadsType
  <1>2. \A u \in Threads : /\ thread'[u] \in [at : Labels, nap : {"awake", "dozing", "asleep"}]
                           /\ thread'[u].nap # "awake" => thread'[u].at \in WaitPoints
                           /\ thread'[u].at = IF u = t THEN to ELSE thread[u].at
    BY <1>1 DEF ThreadsType, Go
  <1>3. QED
    BY <1>2 DEF Go, Moves, ThreadsType

(* The test of a wait loop: the thread stays, or goes on because it need   *)
(* not wait.                                                               *)
LEMMA WaitMoves ==
  ASSUME ThreadsType, NEW t \in Threads, wait_test(t)
  PROVE  \/ Moves(t, thread[t].at) /\ thread[t].at \in WaitPoints
         \/ /\ Moves(t, after[thread[t].at])
            /\ thread[t].at \in WaitPoints /\ ~MustWait(thread[t].at)
  <1> DEFINE l == thread[t].at
  <1>1. /\ l \in WaitPoints /\ l \in Labels /\ thread[t].nap = "awake"
        /\ after[l] \in Labels
        /\ \A u \in Threads : thread[u] \in [at : Labels, nap : {"awake", "dozing", "asleep"}]
    BY WaitPointsAre DEF wait_test, ThreadsType, Labels
  <1>2. CASE MustWait(l)
    <2>1. thread' = [thread EXCEPT ![t] = [at |-> l, nap |-> "dozing"]]
      BY <1>2 DEF wait_test
    <2>2. QED
      BY <1>1, <2>1 DEF Moves, ThreadsType
  <1>3. CASE ~MustWait(l)
    <2>1. thread' = [thread EXCEPT ![t] = [at |-> after[l], nap |-> "awake"]]
      BY <1>3 DEF wait_test
    <2>2. QED
      BY <1>1, <1>3, <2>1 DEF Moves, ThreadsType
  <1>4. QED
    BY <1>2, <1>3

(* Falling asleep and waking up leave the label. *)
LEMMA NapMoves ==
  ASSUME ThreadsType, NEW t \in Threads, pthread_cond_wait(t) \/ spurious_wakeup(t)
  PROVE  Moves(t, thread[t].at) /\ thread[t].at \in WaitPoints
  <1>1. \A u \in Threads : thread[u] \in [at : Labels, nap : {"awake", "dozing", "asleep"}]
    BY DEF ThreadsType
  <1>2. thread[t].at \in WaitPoints
    BY DEF ThreadsType, pthread_cond_wait, spurious_wakeup
  <1>3. QED
    BY <1>1, <1>2 DEF ThreadsType, Moves, pthread_cond_wait, spurious_wakeup

(* Each thread keeps to the labels of its own function. *)
LEMMA OwnAreLabels ==
  ASSUME NEW t \in Threads
  PROVE  Own(t) \subseteq Labels
  BY WaitPointsAre DEF Own, Labels, Threads

(* A thread that goes on within its own function leaves everyone there. *)
LEMMA MovesOwn ==
  ASSUME OwnLabels, NEW t \in Threads, NEW to \in Own(t), Moves(t, to)
  PROVE  /\ OwnLabels'
         /\ rx_at' = IF t = "rx" THEN to ELSE rx_at
         /\ dec_at' = IF t = "dec" THEN to ELSE dec_at
         /\ play_at' = IF t = "play" THEN to ELSE play_at
  <1>1. \A u \in Threads : thread'[u].at = IF u = t THEN to ELSE thread[u].at
    BY DEF Moves
  <1>2. OwnLabels'
    BY <1>1 DEF OwnLabels
  <1>3. QED
    BY <1>1, <1>2 DEF rx_at, dec_at, play_at, Threads

(* signal and test, for a thread that goes on within its own function. *)
LEMMA GoOwn ==
  ASSUME TypeOK, OwnLabels, NEW t \in Threads, NEW to \in Own(t), NEW C, Go(t, to, C)
  PROVE  Moves(t, to)
  <1>1. ThreadsType /\ to \in Labels
    BY OwnAreLabels DEF TypeOK, ThreadsType
  <1>2. QED
    BY <1>1, GoMoves

-----------------------------------------------------------------------------
(* Steps that move no chunk.                                               *)

Quiet ==
  /\ UNCHANGED <<data, got, tail, played, skipped>>
  /\ flag' \in [Flags -> BOOLEAN]
  /\ pause_value' \in BOOLEAN /\ pauses' \in 0 .. MaxPauses /\ missed' \in BOOLEAN
  /\ flag'.innited => flag.innited
  /\ flag'.is_first_player_chunk => flag.is_first_player_chunk

(* Such a step keeps the types. *)
LEMMA QuietType ==
  ASSUME TypeOK, Quiet, ThreadsType'
  PROVE  TypeOK'
  BY DEF TypeOK, Quiet, ThreadsType, data

(* Where the chunks are depends on the labels only through dec_decode, and *)
(* the labels at which the player has a chunk in its hands.                *)
LEMMA SamePlaces ==
  ASSUME Order, Account,
         UNCHANGED <<decoder_que, player_que, d_chunk, pr_chunk, got, played, skipped>>,
         Copied' <=> Copied, dec_at' = "dec_decode" <=> dec_at = "dec_decode",
         InHand' <=> InHand, InPlay => InPlay'
  PROVE  Order' /\ Account'
  <1>1. CopyPassed' <=> CopyPassed
    BY DEF CopyPassed
  <1>2. Newest' = Newest
    BY DEF Newest
  <1>3. \A x : BeforeDecoded(x) => BeforeDecoded(x)'
    BY <1>2 DEF BeforeDecoded, Before
  <1>4. DecoderInOrder'
    BY DEF Order, DecoderInOrder, Before
  <1>5. PlayerInOrder'
    BY <1>1, <1>3 DEF Order, PlayerInOrder, Before
  <1>6. HandInOrder'
    BY <1>1, <1>2, <1>3 DEF Order, HandInOrder, Before
  <1>7. PlayedFirst' /\ PlayedInOrder'
    BY <1>1, <1>3 DEF Order, PlayedFirst, PlayedInOrder, Before
  <1>8. Accounted' /\ SkippedReceived'
    BY DEF Account, Accounted, SkippedReceived
  <1>9. HasSuccessor'
    BY DEF Account, HasSuccessor
  <1>10. QED
    BY <1>4, <1>5, <1>6, <1>7, <1>8, <1>9 DEF Order, Account

(* A step of rx_thread_func and what follows it, but for its reads. *)
LEMMA RxQuiet ==
  ASSUME IndInv, NEW to \in Own("rx"), Moves("rx", to), Quiet, rx_at # "closed", to # "closed",
         to \in {"rx_loop", "rx_read"} \/ (to = "rx_top" /\ flag'.innited) =>
           IF Wav THEN Len(player_que) < PlayerMax ELSE Len(decoder_que) < DecoderMax,
         Invalid(rx_result) => to \in {"run_check", "join", "release", "done"}
  PROVE  IndInv'
  <1>1. TypeOK /\ OwnLabels /\ Buffers /\ Room /\ Stock /\ Order /\ Account
    BY DEF IndInv, Control
  <1>2. OwnLabels' /\ rx_at' = to /\ dec_at' = dec_at /\ play_at' = play_at
    BY <1>1, MovesOwn DEF Threads
  <1>3. TypeOK'
    BY <1>1, QuietType DEF Moves
  <1>4. Buffers'
    BY <1>1, <1>2 DEF Buffers, Quiet, data, Invalid
  <1>5. Room'
    BY <1>1, <1>2 DEF Room, Quiet, data
  <1>6. Stock'
    BY <1>1, <1>2 DEF Stock, Quiet, data
  <1>7. Copied' <=> Copied
    BY <1>2 DEF Copied, Quiet, data
  <1>8. (InHand' <=> InHand) /\ (InPlay => InPlay')
    BY <1>2 DEF InHand, InPlay, play_at
  <1>9. Order' /\ Account'
    BY <1>1, <1>2, <1>7, <1>8, SamePlaces DEF Quiet, data
  <1>10. QED
    BY <1>2, <1>3, <1>4, <1>5, <1>6, <1>9 DEF IndInv, Control

(* A step of dec_thread_func that neither takes nor decodes. *)
LEMMA DecQuiet ==
  ASSUME IndInv, NEW to \in Own("dec"), Moves("dec", to), Quiet,
         dec_at # "dec_decode", to # "dec_decode", Wav => to = "done",
         to = "dec_start" => dec_at = "dec_start",
         ~Wav => (to \in {"dec_loop", "dec_next"} \/ (to = "dec_top" /\ flag'.innited)
                    => Len(player_que) < PlayerMax),
         to \in {"dec_top", "dec_loop"} /\ flag'.innited => decoder_que # <<>> \/ d_chunk = 0
  PROVE  IndInv'
  <1>1. TypeOK /\ OwnLabels /\ Buffers /\ Room /\ Stock /\ Order /\ Account
    BY DEF IndInv, Control
  <1>2. OwnLabels' /\ rx_at' = rx_at /\ dec_at' = to /\ play_at' = play_at
    BY <1>1, MovesOwn DEF Threads
  <1>3. TypeOK'
    BY <1>1, QuietType DEF Moves
  <1>4. Buffers'
    BY <1>1, <1>2 DEF Buffers, Quiet, data, Invalid
  <1>5. Room'
    BY <1>1, <1>2 DEF Room, Quiet, data
  <1>6. Stock'
    BY <1>1, <1>2 DEF Stock, Quiet, data
  <1>7. Copied' <=> Copied
    BY <1>2 DEF Copied, Quiet, data
  <1>8. (InHand' <=> InHand) /\ (InPlay => InPlay')
    BY <1>2 DEF InHand, InPlay, play_at
  <1>9. Order' /\ Account'
    BY <1>1, <1>2, <1>7, <1>8, SamePlaces DEF Quiet, data
  <1>10. QED
    BY <1>2, <1>3, <1>4, <1>5, <1>6, <1>9 DEF IndInv, Control

(* A step of play_thread_func that leaves player_que and the chunk in the  *)
(* player's hands alone.                                                   *)
LEMMA PlayQuiet ==
  ASSUME IndInv, NEW to \in Own("play"), Moves("play", to), Quiet,
         play_at \in {"play_taken", "play_look", "play_empty", "play_again", "play_real"} <=>
           to \in {"play_taken", "play_look", "play_empty", "play_again", "play_real"},
         play_at = "done" => to = "done",
         to = "play_start" => play_at = "play_start",
         to \in {"play_top", "play_loop"} /\ flag'.innited => player_que # <<>> \/ pr_chunk = 0,
         to = "play_real" => player_que # <<>>
  PROVE  IndInv'
  <1>1. TypeOK /\ OwnLabels /\ Buffers /\ Room /\ Stock /\ Order /\ Account
    BY DEF IndInv, Control
  <1>2. OwnLabels' /\ rx_at' = rx_at /\ dec_at' = dec_at /\ play_at' = to
    BY <1>1, MovesOwn DEF Threads
  <1>3. TypeOK'
    BY <1>1, QuietType DEF Moves
  <1>4. Buffers'
    BY <1>1, <1>2 DEF Buffers, Quiet, data, Invalid
  <1>5. Room'
    BY <1>1, <1>2 DEF Room, Quiet, data
  <1>6. Stock'
    BY <1>1, <1>2 DEF Stock, Quiet, data
  <1>7. Copied' <=> Copied
    BY <1>2 DEF Copied, Quiet, data
  <1>8. (InHand' <=> InHand) /\ (InPlay => InPlay')
    BY <1>2 DEF InHand, InPlay, play_at
  <1>9. Order' /\ Account'
    BY <1>1, <1>2, <1>7, <1>8, SamePlaces DEF Quiet, data
  <1>10. QED
    BY <1>2, <1>3, <1>4, <1>5, <1>6, <1>9 DEF IndInv, Control

(* A step of the input thread, the stats thread or the signal handler. *)
LEMMA OtherQuiet ==
  ASSUME IndInv, NEW t \in {"input", "stats", "handler"}, NEW to \in Own(t), Moves(t, to), Quiet
  PROVE  IndInv'
  <1>1. TypeOK /\ OwnLabels /\ Buffers /\ Room /\ Stock /\ Order /\ Account
    BY DEF IndInv, Control
  <1>2. OwnLabels' /\ rx_at' = rx_at /\ dec_at' = dec_at /\ play_at' = play_at
    BY <1>1, MovesOwn DEF Threads
  <1>3. TypeOK'
    BY <1>1, QuietType DEF Moves
  <1>4. Buffers'
    BY <1>1, <1>2 DEF Buffers, Quiet, data, Invalid
  <1>5. Room'
    BY <1>1, <1>2 DEF Room, Quiet, data
  <1>6. Stock'
    BY <1>1, <1>2 DEF Stock, Quiet, data
  <1>7. Copied' <=> Copied
    BY <1>2 DEF Copied, Quiet, data
  <1>8. (InHand' <=> InHand) /\ (InPlay => InPlay')
    BY <1>2 DEF InHand, InPlay, play_at
  <1>9. Order' /\ Account'
    BY <1>1, <1>2, <1>7, <1>8, SamePlaces DEF Quiet, data
  <1>10. QED
    BY <1>2, <1>3, <1>4, <1>5, <1>6, <1>9 DEF IndInv, Control

-----------------------------------------------------------------------------
(* Waiting.                                                                *)

(* Waiting moves no chunk; a thread that leaves a wait loop need not wait. *)
LEMMA WaitIsQuiet ==
  ASSUME IndInv, NEW t \in Threads, wait(t) \/ spurious_wakeup(t)
  PROVE  /\ Quiet
         /\ thread[t].at \in WaitPoints /\ thread[t].at \in Own(t)
         /\ \/ Moves(t, thread[t].at)
            \/ Moves(t, after[thread[t].at]) /\ ~MustWait(thread[t].at) /\ flag' = flag
  <1>1. ThreadsType /\ flag \in [Flags -> BOOLEAN] /\ OwnLabels
        /\ pause_value \in BOOLEAN /\ pauses \in 0 .. MaxPauses /\ missed \in BOOLEAN
    BY DEF IndInv, Control, TypeOK, ThreadsType
  <1>2. thread[t].at \in Own(t)
    BY <1>1 DEF OwnLabels
  <1>3. CASE wait_test(t)
    <2>1. Quiet /\ flag' = flag
      BY <1>1, <1>3 DEF wait_test, Quiet, data, user, history
    <2>2. QED
      BY <1>1, <1>2, <1>3, <2>1, WaitMoves
  <1>4. CASE pthread_cond_wait(t)
    <2>1. UNCHANGED <<data, user, history>>
      BY <1>4 DEF pthread_cond_wait
    <2>2. /\ flag' \in [Flags -> BOOLEAN]
          /\ flag'.innited = flag.innited
          /\ flag'.is_first_player_chunk = flag.is_first_player_chunk
      BY <1>1, <1>4 DEF pthread_cond_wait, Flags
    <2>3. Quiet
      BY <1>1, <2>1, <2>2 DEF Quiet, data, user, history
    <2>4. QED
      BY <1>1, <1>2, <1>4, <2>3, NapMoves
  <1>5. CASE spurious_wakeup(t)
    <2>1. Quiet
      BY <1>1, <1>5 DEF spurious_wakeup, Quiet, data, user, history
    <2>2. QED
      BY <1>1, <1>2, <1>5, <2>1, NapMoves
  <1>6. QED
    BY <1>3, <1>4, <1>5 DEF wait

(* rx_thread_func waits until there is room, and does not wait again once  *)
(* it has an invalid result.                                               *)
LEMMA RxWaits ==
  ASSUME IndInv, wait("rx") \/ spurious_wakeup("rx")
  PROVE  IndInv'
  <1>1. TypeOK /\ Buffers
    BY DEF IndInv, Control
  <1>2. /\ Quiet /\ rx_at \in {"rx_check", "run_check"}
        /\ \/ Moves("rx", rx_at)
           \/ Moves("rx", after[rx_at]) /\ ~MustWait(rx_at) /\ flag' = flag
    BY WaitIsQuiet, WaitPointsAre DEF Threads, Own, rx_at
  <1>3. CASE Moves("rx", rx_at)
    BY <1>1, <1>2, <1>3, RxQuiet DEF Own, Buffers
  <1>4. CASE rx_at = "rx_check" /\ Moves("rx", "rx_top") /\ ~MustWait("rx_check") /\ flag' = flag
    <2>1. flag.innited => IF Wav THEN Len(player_que) < PlayerMax ELSE Len(decoder_que) < DecoderMax
      BY <1>1, <1>4, Watermarks, ConstantsType DEF MustWait, TypeOK
    <2>2. QED
      BY <1>1, <1>2, <1>4, <2>1, RxQuiet DEF Own, Buffers
  <1>5. CASE rx_at = "run_check" /\ Moves("rx", "join")
    BY <1>1, <1>2, <1>5, RxQuiet DEF Own, Buffers
  <1>6. QED
    BY <1>2, <1>3, <1>4, <1>5, WaitPointsAre

(* dec_thread_func waits until decoder_que has a chunk and player_que has  *)
(* room.                                                                   *)
LEMMA DecWaits ==
  ASSUME IndInv, wait("dec") \/ spurious_wakeup("dec")
  PROVE  IndInv'
  <1>1. TypeOK /\ Buffers
    BY DEF IndInv, Control
  <1>2. /\ Quiet /\ dec_at \in {"dec_start", "dec_check"}
        /\ \/ Moves("dec", dec_at)
           \/ Moves("dec", after[dec_at]) /\ ~MustWait(dec_at) /\ flag' = flag
    BY WaitIsQuiet, WaitPointsAre DEF Threads, Own, dec_at
  <1>3. ~Wav
    BY <1>1, <1>2 DEF Buffers
  <1>4. CASE Moves("dec", dec_at)
    BY <1>2, <1>3, <1>4, DecQuiet DEF Own
  <1>5. CASE dec_at = "dec_start" /\ Moves("dec", "dec_top")
    <2>1. d_chunk = 0 /\ Len(player_que) < PlayerMax
      BY <1>1, <1>5, ConstantsType DEF Buffers
    <2>2. QED
      BY <1>2, <1>3, <1>5, <2>1, DecQuiet DEF Own
  <1>6. CASE dec_at = "dec_check" /\ Moves("dec", "dec_top") /\ ~MustWait("dec_check") /\ flag' = flag
    <2>1. flag.innited => decoder_que # <<>> /\ Len(player_que) < PlayerMax
      BY <1>1, <1>6, Watermarks, ConstantsType DEF MustWait, TypeOK
    <2>2. QED
      BY <1>2, <1>3, <1>6, <2>1, DecQuiet DEF Own
  <1>7. QED
    BY <1>2, <1>4, <1>5, <1>6, WaitPointsAre

(* play_thread_func waits until player_que has a chunk. *)
LEMMA PlayWaits ==
  ASSUME IndInv, wait("play") \/ spurious_wakeup("play")
  PROVE  IndInv'
  <1>1. TypeOK /\ Buffers
    BY DEF IndInv, Control
  <1>2. /\ Quiet /\ play_at \in {"play_start", "play_check"}
        /\ \/ Moves("play", play_at)
           \/ Moves("play", after[play_at]) /\ ~MustWait(play_at) /\ flag' = flag
    BY WaitIsQuiet, WaitPointsAre DEF Threads, Own, play_at
  <1>3. CASE Moves("play", play_at)
    BY <1>2, <1>3, PlayQuiet DEF Own
  <1>4. CASE play_at = "play_start" /\ Moves("play", "play_top")
    BY <1>1, <1>2, <1>4, PlayQuiet DEF Own, Buffers
  <1>5. CASE play_at = "play_check" /\ Moves("play", "play_top") /\ ~MustWait("play_check") /\ flag' = flag
    <2>1. flag.innited => player_que # <<>>
      BY <1>1, <1>5, Watermarks, ConstantsType DEF MustWait, TypeOK
    <2>2. QED
      BY <1>2, <1>5, <2>1, PlayQuiet DEF Own
  <1>6. QED
    BY <1>2, <1>3, <1>4, <1>5, WaitPointsAre

(* The other threads wait with no chunk in their hands. *)
LEMMA OthersWait ==
  ASSUME IndInv, NEW t \in {"input", "stats", "handler"}, wait(t) \/ spurious_wakeup(t)
  PROVE  IndInv'
  <1>1. /\ Quiet /\ thread[t].at \in Own(t) /\ after[thread[t].at] \in Own(t)
        /\ Moves(t, thread[t].at) \/ Moves(t, after[thread[t].at])
    BY WaitIsQuiet, WaitPointsAre DEF Threads, Own
  <1>2. QED
    BY <1>1, OtherQuiet

-----------------------------------------------------------------------------
(* The steps of rx_thread_func that read nothing.                          *)

(* An action that leaves the data alone and only clears innited. *)
LEMMA FlagsQuiet ==
  ASSUME TypeOK, UNCHANGED <<data, got, tail, played, skipped>>, UNCHANGED <<user, missed>>,
         flag' \in [Flags -> BOOLEAN], flag'.innited => flag.innited,
         flag'.is_first_player_chunk => flag.is_first_player_chunk
  PROVE  Quiet
  BY DEF TypeOK, Quiet, data, user

(* stop_client_stream only clears innited. *)
LEMMA StopIsQuiet ==
  ASSUME IndInv, NEW t \in Threads, NEW f \in [Flags -> BOOLEAN], NEW to,
         f.is_first_player_chunk = flag.is_first_player_chunk,
         stop_client_stream(t, f, to)
  PROVE  Quiet
  <1>1. TypeOK
    BY DEF IndInv, Control
  <1>2. flag' = [f EXCEPT !.innited = FALSE, !.reading = FALSE, !.paused = FALSE,
                          !.decoding = TRUE]
    BY DEF stop_client_stream, Stopped
  <1>3. /\ flag' \in [Flags -> BOOLEAN] /\ flag'.innited = FALSE
        /\ flag'.is_first_player_chunk = flag.is_first_player_chunk
    BY <1>2 DEF Flags
  <1>4. missed' \in BOOLEAN
    BY Zenon DEF stop_client_stream
  <1>5. QED
    BY <1>1, <1>3, <1>4 DEF stop_client_stream, Quiet, TypeOK, user

(* The head of rx_thread_func's outer loop. *)
LEMMA RxTopPreserves ==
  ASSUME IndInv, rx_top
  PROVE  IndInv'
  <1>1. TypeOK /\ OwnLabels /\ Buffers /\ Room /\ rx_at = "rx_top"
    BY DEF IndInv, Control, rx_top, At, rx_at
  <1>2. ~Invalid(rx_result)
    BY <1>1 DEF Buffers
  <1>3. CASE flag.innited
    <2>1. flag' = [flag EXCEPT !.ready_2_go = TRUE, !.reading = TRUE]
      BY <1>3 DEF rx_top
    <2>2. /\ flag' \in [Flags -> BOOLEAN] /\ flag'.innited = flag.innited
          /\ flag'.is_first_player_chunk = flag.is_first_player_chunk
      BY <1>1, <2>1 DEF TypeOK, Flags
    <2>3. Quiet
      BY <1>1, <2>2, FlagsQuiet DEF rx_top, history
    <2>4. Moves("rx", "rx_loop")
      BY <1>1, <1>3, GoOwn DEF rx_top, Threads, Own
    <2>5. IF Wav THEN Len(player_que) < PlayerMax ELSE Len(decoder_que) < DecoderMax
      BY <1>1, <1>3 DEF Room
    <2>6. QED
      BY <1>1, <1>2, <2>3, <2>4, <2>5, RxQuiet DEF Own
  <1>4. CASE ~flag.innited
    <2>1. flag' = flag
      BY <1>4 DEF rx_top
    <2>2. Quiet
      BY <1>1, <2>1, FlagsQuiet DEF rx_top, history, TypeOK
    <2>3. Moves("rx", "run_check")
      BY <1>1, <1>4, GoOwn DEF rx_top, Threads, Own
    <2>4. QED
      BY <1>1, <1>2, <2>2, <2>3, RxQuiet DEF Own
  <1>5. QED
    BY <1>3, <1>4

(* rx_thread_func leaves its reading loop when stopped or paused. *)
LEMMA RxLoopPreserves ==
  ASSUME IndInv, rx_loop
  PROVE  IndInv'
  <1>1. TypeOK /\ OwnLabels /\ Buffers /\ Room /\ rx_at = "rx_loop"
    BY DEF IndInv, Control, rx_loop, At, rx_at
  <1>2. Quiet
    BY <1>1, FlagsQuiet DEF rx_loop, history, TypeOK
  <1>3. Moves("rx", "rx_read") \/ Moves("rx", "rx_check")
    BY <1>1, GoOwn DEF rx_loop, Threads, Own
  <1>4. IF Wav THEN Len(player_que) < PlayerMax ELSE Len(decoder_que) < DecoderMax
    BY <1>1 DEF Room
  <1>5. QED
    BY <1>1, <1>2, <1>3, <1>4, RxQuiet DEF Own, Buffers

(* A timeout or an error of readsome stores nothing. *)
LEMMA ReadFailedPreserves ==
  ASSUME IndInv, read_failed
  PROVE  IndInv'
  <1>1. TypeOK /\ OwnLabels /\ Buffers /\ rx_at = "rx_read"
    BY DEF IndInv, Control, read_failed, ReadOutcome, At, rx_at
  <1>2. Quiet
    BY <1>1, FlagsQuiet DEF read_failed, ReadOutcome, TypeOK, data
  <1>3. PICK to \in {"timeout", "error"} : Moves("rx", to)
    BY <1>1, GoOwn DEF read_failed, ReadOutcome, Threads, Own
  <1>4. QED
    BY <1>1, <1>2, <1>3, RxQuiet DEF Own, Buffers

(* An error of select stops the client. *)
LEMMA ReadSelectErrorPreserves ==
  ASSUME IndInv, read_select_error
  PROVE  IndInv'
  <1>1. TypeOK /\ OwnLabels /\ Buffers /\ rx_at = "rx_read"
    BY DEF IndInv, Control, read_select_error, At, rx_at
  <1>2. flag \in [Flags -> BOOLEAN] /\ stop_client_stream("rx", flag, "rx_stop")
    BY <1>1 DEF read_select_error, TypeOK
  <1>3. Quiet
    BY <1>2, StopIsQuiet DEF Threads
  <1>4. Moves("rx", "rx_stop")
    BY <1>1, <1>2, GoOwn DEF stop_client_stream, Threads, Own
  <1>5. QED
    BY <1>1, <1>3, <1>4, RxQuiet DEF Own, Buffers

(* The signals of that stop. *)
LEMMA RxStopPreserves ==
  ASSUME IndInv, stop_signals("rx", "rx_stop", "error")
  PROVE  IndInv'
  <1>1. TypeOK /\ OwnLabels /\ Buffers /\ rx_at = "rx_stop"
    BY DEF IndInv, Control, stop_signals, At, rx_at
  <1>2. Quiet
    BY <1>1, FlagsQuiet DEF stop_signals, history, TypeOK
  <1>3. Moves("rx", "error")
    BY <1>1, GoOwn DEF stop_signals, Threads, Own
  <1>4. QED
    BY <1>1, <1>2, <1>3, RxQuiet DEF Own, Buffers

(* rx_thread_func goes on reading only while its queue is not full. *)
LEMMA RxFullPreserves ==
  ASSUME IndInv, rx_full
  PROVE  IndInv'
  <1>1. TypeOK /\ OwnLabels /\ Buffers /\ rx_at = "rx_full"
    BY DEF IndInv, Control, rx_full, At, rx_at
  <1>2. Quiet
    BY <1>1, FlagsQuiet DEF rx_full, history, TypeOK
  <1>3. \/ Moves("rx", "rx_check")
        \/ /\ Moves("rx", "rx_loop")
           /\ IF Wav THEN ~que_is_full(player_que, PlayerMax)
              ELSE ~que_is_full(decoder_que, DecoderMax)
    BY <1>1, GoOwn DEF rx_full, Threads, Own
  <1>4. CASE Moves("rx", "rx_check")
    BY <1>1, <1>2, <1>4, RxQuiet DEF Own, Buffers
  <1>5. CASE /\ Moves("rx", "rx_loop")
             /\ IF Wav THEN ~que_is_full(player_que, PlayerMax)
                ELSE ~que_is_full(decoder_que, DecoderMax)
    <2>1. IF Wav THEN Len(player_que) < PlayerMax ELSE Len(decoder_que) < DecoderMax
      BY <1>1, <1>5, Watermarks, ConstantsType DEF TypeOK
    <2>2. QED
      BY <1>1, <1>2, <1>5, <2>1, RxQuiet DEF Own, Buffers
  <1>6. QED
    BY <1>3, <1>4, <1>5

(* The end of init_client_stream: the threads are joined. *)
LEMMA JoinPreserves ==
  ASSUME IndInv, join
  PROVE  IndInv'
  <1>1. TypeOK /\ OwnLabels /\ rx_at = "join"
    BY DEF IndInv, Control, join, At, rx_at
  <1>2. Quiet
    BY <1>1, FlagsQuiet DEF join, history, TypeOK
  <1>3. Moves("rx", "release")
    BY <1>1, GoOwn DEF join, Threads, Own
  <1>4. QED
    BY <1>1, <1>2, <1>3, RxQuiet DEF Own

(* ... and everything is released. *)
LEMMA ReleasePreserves ==
  ASSUME IndInv, release
  PROVE  IndInv'
  <1>1. TypeOK /\ OwnLabels /\ rx_at = "release"
    BY DEF IndInv, Control, release, At, rx_at
  <1>2. Quiet
    BY <1>1, FlagsQuiet DEF release, history, TypeOK
  <1>3. Moves("rx", "done")
    BY <1>1, GoOwn DEF release, Threads, Own
  <1>4. QED
    BY <1>1, <1>2, <1>3, RxQuiet DEF Own

-----------------------------------------------------------------------------
(* The steps of dec_thread_func that move no chunk.                        *)

(* The head of dec_thread_func's outer loop. *)
LEMMA DecTopPreserves ==
  ASSUME IndInv, dec_top
  PROVE  IndInv'
  <1>1. TypeOK /\ OwnLabels /\ Buffers /\ Room /\ Stock /\ dec_at = "dec_top"
    BY DEF IndInv, Control, dec_top, At, dec_at
  <1>2. ~Wav
    BY <1>1 DEF Buffers
  <1>3. CASE flag.innited
    <2>1. flag' = [flag EXCEPT !.decoding = TRUE]
      BY <1>3 DEF dec_top
    <2>2. /\ flag' \in [Flags -> BOOLEAN] /\ flag'.innited = flag.innited
          /\ flag'.is_first_player_chunk = flag.is_first_player_chunk
      BY <1>1, <2>1 DEF TypeOK, Flags
    <2>3. Quiet
      BY <1>1, <2>2, FlagsQuiet DEF dec_top, history
    <2>4. Moves("dec", "dec_loop")
      BY <1>1, <1>3, GoOwn DEF dec_top, Threads, Own
    <2>5. Len(player_que) < PlayerMax /\ (decoder_que # <<>> \/ d_chunk = 0)
      BY <1>1, <1>2, <1>3 DEF Room, Stock
    <2>6. QED
      BY <1>1, <1>2, <2>3, <2>4, <2>5, DecQuiet DEF Own
  <1>4. CASE ~flag.innited
    <2>1. flag' = flag
      BY <1>4 DEF dec_top
    <2>2. Quiet
      BY <1>1, <2>1, FlagsQuiet DEF dec_top, history, TypeOK
    <2>3. Moves("dec", "done")
      BY <1>1, <1>4, GoOwn DEF dec_top, Threads, Own
    <2>4. QED
      BY <1>1, <1>2, <2>2, <2>3, DecQuiet DEF Own
  <1>5. QED
    BY <1>3, <1>4

(* dec_thread_func, told to stop before it takes a chunk. *)
LEMMA DecStopPreserves ==
  ASSUME IndInv, dec_take, ~flag.innited
  PROVE  IndInv'
  <1>1. TypeOK /\ OwnLabels /\ Buffers /\ dec_at = "dec_loop"
    BY DEF IndInv, Control, dec_take, At, dec_at
  <1>2. Quiet
    BY <1>1, FlagsQuiet DEF dec_take, history, data, TypeOK
  <1>3. Moves("dec", "dec_check")
    BY <1>1, GoOwn DEF dec_take, Threads, Own
  <1>4. QED
    BY <1>1, <1>2, <1>3, DecQuiet DEF Own, Buffers

(* dec_thread_func goes on only while player_que is not full. *)
LEMMA DecQueuedPreserves ==
  ASSUME IndInv, dec_queued
  PROVE  IndInv'
  <1>1. TypeOK /\ OwnLabels /\ Buffers /\ dec_at = "dec_queued"
    BY DEF IndInv, Control, dec_queued, At, dec_at
  <1>2. Quiet
    BY <1>1, FlagsQuiet DEF dec_queued, history, TypeOK
  <1>3. \/ Moves("dec", "dec_check") \/ Moves("dec", "done")
        \/ Moves("dec", "dec_next") /\ ~que_is_full(player_que, PlayerMax)
    BY <1>1, GoOwn DEF dec_queued, Decoded, Threads, Own
  <1>4. ~que_is_full(player_que, PlayerMax) => Len(player_que) < PlayerMax
    BY <1>1, Watermarks, ConstantsType DEF TypeOK
  <1>5. QED
    BY <1>1, <1>2, <1>3, <1>4, DecQuiet DEF Own, Buffers

(* dec_thread_func takes another chunk only if there is one. *)
LEMMA DecNextPreserves ==
  ASSUME IndInv, dec_next
  PROVE  IndInv'
  <1>1. TypeOK /\ OwnLabels /\ Buffers /\ Room /\ dec_at = "dec_next"
    BY DEF IndInv, Control, dec_next, At, dec_at
  <1>2. Quiet
    BY <1>1, FlagsQuiet DEF dec_next, history, TypeOK
  <1>3. \/ Moves("dec", "dec_check") \/ Moves("dec", "dec_empty")
        \/ Moves("dec", "dec_loop") /\ decoder_que # <<>>
    BY <1>1, GoOwn DEF dec_next, que_is_empty, Threads, Own
  <1>4. Wav \/ Len(player_que) < PlayerMax
    BY <1>1 DEF Room
  <1>5. QED
    BY <1>1, <1>2, <1>3, <1>4, DecQuiet DEF Own, Buffers

(* If there is none, it ends or waits. *)
LEMMA DecEmptyPreserves ==
  ASSUME IndInv, dec_empty
  PROVE  IndInv'
  <1>1. TypeOK /\ OwnLabels /\ Buffers /\ dec_at = "dec_empty"
    BY DEF IndInv, Control, dec_empty, At, dec_at
  <1>2. Quiet
    BY <1>1, FlagsQuiet DEF dec_empty, history, TypeOK
  <1>3. Moves("dec", "done") \/ Moves("dec", "dec_again") \/ Moves("dec", "dec_check")
    BY <1>1, GoOwn DEF dec_empty, Threads, Own
  <1>4. QED
    BY <1>1, <1>2, <1>3, DecQuiet DEF Own, Buffers

(* ... the same, after the second look at rx_result. *)
LEMMA DecAgainPreserves ==
  ASSUME IndInv, dec_again
  PROVE  IndInv'
  <1>1. TypeOK /\ OwnLabels /\ Buffers /\ dec_at = "dec_again"
    BY DEF IndInv, Control, dec_again, At, dec_at
  <1>2. Quiet
    BY <1>1, FlagsQuiet DEF dec_again, history, TypeOK
  <1>3. Moves("dec", "done") \/ Moves("dec", "dec_check")
    BY <1>1, GoOwn DEF dec_again, Threads, Own
  <1>4. QED
    BY <1>1, <1>2, <1>3, DecQuiet DEF Own, Buffers

-----------------------------------------------------------------------------
(* The steps of play_thread_func that move no chunk.                       *)

(* end_player's flags. *)
LEMMA EndedFlags ==
  ASSUME TypeOK
  PROVE  /\ Ended \in [Flags -> BOOLEAN] /\ Ended.innited = flag.innited
         /\ Ended.is_first_player_chunk = flag.is_first_player_chunk
  BY DEF TypeOK, Flags, Ended

(* The head of play_thread_func's outer loop. *)
LEMMA PlayTopPreserves ==
  ASSUME IndInv, play_top
  PROVE  IndInv'
  <1>1. TypeOK /\ OwnLabels /\ Stock /\ play_at = "play_top"
    BY DEF IndInv, Control, play_top, At, play_at
  <1>2. CASE flag.innited
    <2>1. Quiet
      BY <1>1, <1>2, FlagsQuiet DEF play_top, history, TypeOK
    <2>2. Moves("play", "play_loop")
      BY <1>1, <1>2, GoOwn DEF play_top, Threads, Own
    <2>3. player_que # <<>> \/ pr_chunk = 0
      BY <1>1, <1>2 DEF Stock
    <2>4. QED
      BY <1>1, <2>1, <2>2, <2>3, PlayQuiet DEF Own
  <1>3. CASE ~flag.innited
    <2>1. flag' = Ended
      BY <1>3 DEF play_top
    <2>2. Quiet /\ ~flag'.innited
      BY <1>1, <1>3, <2>1, FlagsQuiet, EndedFlags DEF play_top, history
    <2>3. Moves("play", "done")
      BY <1>1, <1>3, GoOwn DEF play_top, Threads, Own
    <2>4. QED
      BY <1>1, <2>2, <2>3, PlayQuiet DEF Own
  <1>4. QED
    BY <1>2, <1>3

(* play_thread_func, stopped or paused before it takes a chunk. *)
LEMMA PlayPausePreserves ==
  ASSUME IndInv, play_take, ~flag.innited \/ flag.paused
  PROVE  IndInv'
  <1>1. TypeOK /\ OwnLabels /\ play_at = "play_loop"
    BY DEF IndInv, Control, play_take, At, play_at
  <1>2. Quiet
    BY <1>1, FlagsQuiet DEF play_take, history, data, TypeOK
  <1>3. Moves("play", "play_check")
    BY <1>1, GoOwn DEF play_take, Threads, Own
  <1>4. QED
    BY <1>1, <1>2, <1>3, PlayQuiet DEF Own

(* play_thread_func signals that it took a chunk. *)
LEMMA PlayShowPreserves ==
  ASSUME IndInv, play_show
  PROVE  IndInv'
  <1>1. TypeOK /\ OwnLabels /\ play_at = "play_taken"
    BY DEF IndInv, Control, play_show, At, play_at
  <1>2. flag' = [flag EXCEPT !.showing = TRUE]
    BY DEF play_show
  <1>3. /\ flag' \in [Flags -> BOOLEAN] /\ flag'.innited = flag.innited
        /\ flag'.is_first_player_chunk = flag.is_first_player_chunk
    BY <1>1, <1>2 DEF TypeOK, Flags
  <1>4. Quiet
    BY <1>1, <1>3, FlagsQuiet DEF play_show, history
  <1>5. Moves("play", "play_look")
    BY <1>1, GoOwn DEF play_show, Threads, Own
  <1>6. QED
    BY <1>1, <1>4, <1>5, PlayQuiet DEF Own

(* play_thread_func looks whether there is another chunk behind the one it *)
(* took.                                                                   *)
LEMMA PlayLookPreserves ==
  ASSUME IndInv, play_look
  PROVE  IndInv'
  <1>1. TypeOK /\ OwnLabels /\ play_at = "play_look"
    BY DEF IndInv, Control, play_look, At, play_at
  <1>2. Quiet
    BY <1>1, FlagsQuiet DEF play_look, history, TypeOK
  <1>3. \/ Moves("play", "play_empty")
        \/ Moves("play", "play_real") /\ player_que # <<>>
    BY <1>1, GoOwn DEF play_look, que_is_empty, Threads, Own
  <1>4. QED
    BY <1>1, <1>2, <1>3, PlayQuiet DEF Own

-----------------------------------------------------------------------------
(* The input thread, the stats thread and the signal handler.              *)

(* The signals at the end of stop_client_stream. *)
LEMMA StopSignalsPreserve ==
  ASSUME IndInv, NEW t \in {"input", "stats", "handler"}, NEW from, NEW to \in Own(t),
         stop_signals(t, from, to)
  PROVE  IndInv'
  <1>1. TypeOK /\ OwnLabels /\ t \in Threads
    BY DEF IndInv, Control, Threads
  <1>2. Quiet
    BY <1>1, FlagsQuiet DEF stop_signals, history, TypeOK
  <1>3. Moves(t, to)
    BY <1>1, GoOwn DEF stop_signals
  <1>4. QED
    BY <1>2, <1>3, OtherQuiet

(* input_thread_func looks at its flag, and stops the client at the end. *)
LEMMA InputLoopPreserves ==
  ASSUME IndInv, input_loop
  PROVE  IndInv'
  <1>1. TypeOK /\ OwnLabels
    BY DEF IndInv, Control
  <1>2. CASE flag.input_thread_alive
    <2>1. Quiet
      BY <1>1, <1>2, FlagsQuiet DEF input_loop, history, TypeOK
    <2>2. Moves("input", "in_read")
      BY <1>1, <1>2, GoOwn DEF input_loop, Threads, Own
    <2>3. QED
      BY <2>1, <2>2, OtherQuiet DEF Own
  <1>3. CASE ~flag.input_thread_alive
    <2> DEFINE f == [flag EXCEPT !.terminating = TRUE]
    <2>1. stop_client_stream("input", f, "in_last")
      BY <1>3 DEF input_loop
    <2>2. f \in [Flags -> BOOLEAN] /\ f.is_first_player_chunk = flag.is_first_player_chunk
      BY <1>1 DEF TypeOK, Flags
    <2>3. Quiet
      BY <2>1, <2>2, StopIsQuiet DEF Threads
    <2>4. Moves("input", "in_last")
      BY <1>1, <2>1, GoOwn DEF stop_client_stream, Threads, Own
    <2>5. QED
      BY <2>3, <2>4, OtherQuiet DEF Own
  <1>4. QED
    BY <1>2, <1>3

(* No key within three seconds. *)
LEMMA NoKeyPreserves ==
  ASSUME IndInv, no_key
  PROVE  IndInv'
  <1>1. TypeOK /\ OwnLabels
    BY DEF IndInv, Control
  <1>2. Quiet
    BY <1>1, FlagsQuiet DEF no_key, history, TypeOK
  <1>3. Moves("input", "in_loop")
    BY <1>1, GoOwn DEF no_key, Threads, Own
  <1>4. QED
    BY <1>2, <1>3, OtherQuiet DEF Own

(* The 'p' key: the signals. *)
LEMMA PauseKeyPreserves ==
  ASSUME IndInv, pause_key
  PROVE  IndInv'
  <1>1. TypeOK /\ OwnLabels
    BY DEF IndInv, Control
  <1>2. pause_value' \in BOOLEAN
    BY <1>1 DEF pause_key, TypeOK, Flags
  <1>3. pauses' \in 0 .. MaxPauses
    BY <1>1, ConstantsType DEF pause_key, TypeOK
  <1>4. Quiet
    BY <1>1, <1>2, <1>3 DEF pause_key, Quiet, TypeOK, history
  <1>5. Moves("input", "in_pause")
    BY <1>1, GoOwn DEF pause_key, Threads, Own
  <1>6. QED
    BY <1>4, <1>5, OtherQuiet DEF Own

(* The 'p' key: the flag. *)
LEMMA PauseSetPreserves ==
  ASSUME IndInv, pause_set
  PROVE  IndInv'
  <1>1. TypeOK /\ OwnLabels
    BY DEF IndInv, Control
  <1>2. PICK b \in BOOLEAN : flag' = [flag EXCEPT !.paused = b]
    BY DEF pause_set
  <1>3. /\ flag' \in [Flags -> BOOLEAN] /\ flag'.innited = flag.innited
        /\ flag'.is_first_player_chunk = flag.is_first_player_chunk
    BY <1>1, <1>2 DEF TypeOK, Flags
  <1>4. Quiet
    BY <1>1, <1>3, FlagsQuiet DEF pause_set, history
  <1>5. Moves("input", "in_loop")
    BY <1>1, GoOwn DEF pause_set, Threads, Own
  <1>6. QED
    BY <1>4, <1>5, OtherQuiet DEF Own

(* The 's' key. *)
LEMMA StopKeyPreserves ==
  ASSUME IndInv, stop_key
  PROVE  IndInv'
  <1> DEFINE f == [flag EXCEPT !.input_thread_alive = FALSE]
  <1>1. TypeOK /\ OwnLabels /\ stop_client_stream("input", f, "in_stop")
    BY DEF IndInv, Control, stop_key
  <1>2. f \in [Flags -> BOOLEAN] /\ f.is_first_player_chunk = flag.is_first_player_chunk
    BY <1>1 DEF TypeOK, Flags
  <1>3. Quiet
    BY <1>1, <1>2, StopIsQuiet DEF Threads
  <1>4. Moves("input", "in_stop")
    BY <1>1, GoOwn DEF stop_client_stream, Threads, Own
  <1>5. QED
    BY <1>3, <1>4, OtherQuiet DEF Own

(* An error of select in the input thread. *)
LEMMA KeySelectErrorPreserves ==
  ASSUME IndInv, key_select_error
  PROVE  IndInv'
  <1>1. TypeOK /\ OwnLabels /\ stop_client_stream("input", flag, "in_stop")
    BY DEF IndInv, Control, key_select_error
  <1>2. flag \in [Flags -> BOOLEAN]
    BY <1>1 DEF TypeOK
  <1>3. Quiet
    BY <1>1, <1>2, StopIsQuiet DEF Threads
  <1>4. Moves("input", "in_stop")
    BY <1>1, GoOwn DEF stop_client_stream, Threads, Own
  <1>5. QED
    BY <1>3, <1>4, OtherQuiet DEF Own

(* The signal handler. *)
LEMMA SigintPreserves ==
  ASSUME IndInv, sigint_handler
  PROVE  IndInv'
  <1> DEFINE f == [flag EXCEPT !.input_thread_alive = FALSE, !.terminating = TRUE]
  <1>1. TypeOK /\ OwnLabels /\ stop_client_stream("handler", f, "h_signals")
    BY DEF IndInv, Control, sigint_handler
  <1>2. f \in [Flags -> BOOLEAN] /\ f.is_first_player_chunk = flag.is_first_player_chunk
    BY <1>1 DEF TypeOK, Flags
  <1>3. Quiet
    BY <1>1, <1>2, StopIsQuiet DEF Threads
  <1>4. Moves("handler", "h_signals")
    BY <1>1, GoOwn DEF stop_client_stream, Threads, Own
  <1>5. QED
    BY <1>3, <1>4, OtherQuiet DEF Own

(* show_stats draws its frames. *)
LEMMA StatsPreserve ==
  ASSUME IndInv, stats_loop \/ stats_frame
  PROVE  IndInv'
  <1>1. TypeOK /\ OwnLabels
    BY DEF IndInv, Control
  <1>2. Quiet
    BY <1>1, FlagsQuiet DEF stats_loop, stats_frame, history, TypeOK
  <1>3. PICK to \in Own("stats") : Moves("stats", to)
    BY <1>1, GoOwn DEF stats_loop, stats_frame, Threads, Own
  <1>4. QED
    BY <1>2, <1>3, OtherQuiet

-----------------------------------------------------------------------------
(* What a chunk that moves does to the order and to the accounts.          *)

(* The chunks are numbers, wherever they are. *)
LEMMA ChunksAreNumbers ==
  ASSUME TypeOK
  PROVE  /\ got \in Nat /\ r_chunk \in Nat /\ d_chunk \in Nat /\ pr_chunk \in Nat
         /\ decoder_que \in Seq(Chunks) /\ player_que \in Seq(Chunks) /\ played \in Seq(Chunks)
         /\ Len(decoder_que) \in Nat /\ Len(player_que) \in Nat /\ Len(played) \in Nat
         /\ DOMAIN decoder_que = 1 .. Len(decoder_que)
         /\ DOMAIN player_que = 1 .. Len(player_que)
         /\ DOMAIN played = 1 .. Len(played)
         /\ \A j \in DOMAIN decoder_que : decoder_que[j] \in Nat
         /\ \A j \in DOMAIN player_que : player_que[j] \in Nat
         /\ \A j \in DOMAIN played : played[j] \in Nat
  <1>1. Chunks \subseteq Nat
    BY ConstantsType DEF Chunks
  <1>2. /\ got \in Nat /\ r_chunk \in Nat /\ d_chunk \in Nat /\ pr_chunk \in Nat
        /\ decoder_que \in Seq(Chunks) /\ player_que \in Seq(Chunks) /\ played \in Seq(Chunks)
    BY <1>1 DEF TypeOK
  <1>3. ASSUME NEW q \in Seq(Chunks)
        PROVE  Len(q) \in Nat /\ DOMAIN q = 1 .. Len(q) /\ \A j \in DOMAIN q : q[j] \in Nat
    <2>1. Len(q) \in Nat /\ DOMAIN q = 1 .. Len(q) /\ \A j \in DOMAIN q : q[j] \in Chunks
      OBVIOUS
    <2>2. QED
      BY <1>1, <2>1
  <1>4. QED
    BY <1>2, <1>3

(* Until a read finds the connection closed there is no copy. *)
LEMMA NoCopyYet ==
  ASSUME Buffers, rx_at \notin {"closed", "run_check", "join", "release", "done"}
  PROVE  ~Copied
  BY DEF Buffers, Copied, Invalid

(* read_chunk stores a chunk of a wav stream: the next one, or the last    *)
(* one once more.                                                          *)
LEMMA WavStored ==
  ASSUME IndInv, Wav, ~Copied,
         player_que' = Append(player_que, got'), got' \in Chunks,
         \/ got' = got + 1 /\ ~Copied'
         \/ got' = got /\ Copied',
         UNCHANGED <<decoder_que, d_chunk, pr_chunk, played, skipped>>,
         dec_at' = dec_at, play_at' = play_at
  PROVE  Order' /\ Account'
  <1>1. TypeOK /\ Buffers /\ Order /\ Account
    BY DEF IndInv, Control
  <1>2. /\ decoder_que = <<>> /\ d_chunk = 0 /\ dec_at = "done"
        /\ ~CopyPassed /\ Newest = got /\ Newest' = got' /\ (CopyPassed' <=> Copied')
        /\ (InHand' <=> InHand) /\ (InPlay' <=> InPlay)
    BY <1>1 DEF Buffers, CopyPassed, Newest, InHand, InPlay, play_at
  <1>3. /\ Len(player_que) \in Nat /\ Len(player_que') = Len(player_que) + 1
        /\ DOMAIN player_que = 1 .. Len(player_que)
        /\ DOMAIN player_que' = 1 .. Len(player_que) + 1
        /\ \A j \in 1 .. Len(player_que) : player_que'[j] = player_que[j]
        /\ player_que'[Len(player_que) + 1] = got'
        /\ player_que' # <<>>
    BY <1>1, AppendFacts DEF TypeOK
  <1>4. \A x : BeforeDecoded(x)' <=> x <= got'
    BY <1>2 DEF BeforeDecoded
  <1>5. \A x \in Nat : x <= got => /\ x <= got' /\ Before(x, got', Copied')
    BY <1>1, ChunksAreNumbers DEF Before
  <1>6. DecoderInOrder'
    BY <1>1, <1>2, ChunksAreNumbers DEF DecoderInOrder
  <1>7. \A j \in DOMAIN player_que : player_que[j] \in Nat /\ player_que[j] <= got
    BY <1>1, <1>2, ChunksAreNumbers DEF Order, PlayerInOrder, BeforeDecoded
  <1>8. PlayerInOrder'
    <2>1. \A j \in DOMAIN player_que' : BeforeDecoded(player_que[j])'
      <3>1. got' <= got'
        BY ConstantsType DEF Chunks
      <3>2. \A j \in DOMAIN player_que' : player_que'[j] <= got'
        BY <1>3, <1>5, <1>7, <3>1
      <3>3. QED
        BY <1>2, <3>2 DEF BeforeDecoded
    <2>2. \A j, k \in DOMAIN player_que' :
            j < k => Before(player_que'[j], player_que'[k], k = Len(player_que') /\ CopyPassed')
      <3> SUFFICES ASSUME NEW j \in DOMAIN player_que', NEW k \in DOMAIN player_que', j < k
                   PROVE  Before(player_que'[j], player_que'[k], k = Len(player_que') /\ CopyPassed')
        OBVIOUS
      <3>1. j \in DOMAIN player_que
        BY <1>3
      <3>2. CASE k \in DOMAIN player_que
        BY <1>1, <1>2, <1>3, <3>1, <3>2 DEF Order, PlayerInOrder, Before
      <3>3. CASE k = Len(player_que) + 1
        BY <1>2, <1>3, <1>5, <1>7, <3>1, <3>3 DEF Before
      <3>4. QED
        BY <1>3, <3>2, <3>3
    <2>3. QED
      BY <2>1, <2>2 DEF PlayerInOrder
  <1>9. pr_chunk \in Nat /\ pr_chunk <= got
    BY <1>1, <1>2, ChunksAreNumbers DEF Order, HandInOrder
  <1>10. HandInOrder'
    <2> SUFFICES ASSUME InHand, pr_chunk # 0, NEW k \in DOMAIN player_que'
                 PROVE  Before(pr_chunk, player_que'[k], k = Len(player_que') /\ CopyPassed')
      BY <1>2, <1>4, <1>5, <1>9 DEF HandInOrder
    <2>1. CASE k \in DOMAIN player_que
      BY <1>1, <1>2, <1>3, <2>1 DEF Order, HandInOrder, Before
    <2>2. CASE k = Len(player_que) + 1
      BY <1>2, <1>3, <1>5, <1>9, <2>2 DEF Before
    <2>3. QED
      BY <1>3, <2>1, <2>2
  <1>11. PlayedFirst'
    <2> SUFFICES ASSUME NEW n \in DOMAIN played
                 PROVE  /\ played[n] # 0
                        /\ BeforeDecoded(played[n])'
                        /\ played[n] <= pr_chunk
                        /\ InHand => Before(played[n], pr_chunk, (player_que = <<>> /\ CopyPassed)')
                        /\ \A k \in DOMAIN player_que' :
                             Before(played[n], player_que'[k], k = Len(player_que') /\ CopyPassed')
      BY <1>2 DEF PlayedFirst
    <2>1. /\ played[n] # 0 /\ played[n] \in Nat /\ played[n] <= got /\ played[n] <= pr_chunk
          /\ InHand => played[n] < pr_chunk
          /\ \A k \in DOMAIN player_que : played[n] < player_que[k]
      BY <1>1, <1>2, ChunksAreNumbers DEF Order, PlayedFirst, BeforeDecoded, Before
    <2>2. ASSUME NEW k \in DOMAIN player_que'
          PROVE  Before(played[n], player_que'[k], k = Len(player_que') /\ CopyPassed')
      <3>1. CASE k \in DOMAIN player_que
        BY <1>3, <2>1, <3>1 DEF Before
      <3>2. CASE k = Len(player_que) + 1
        BY <1>2, <1>3, <1>5, <2>1, <3>2 DEF Before
      <3>3. QED
        BY <1>3, <3>1, <3>2
    <2>3. QED
      BY <1>4, <1>5, <2>1, <2>2 DEF Before
  <1>12. PlayedInOrder'
    BY <1>1 DEF Order, PlayedInOrder
  <1>13. /\ Elements(player_que') = Elements(player_que) \cup {got'}
         /\ AllButLast(player_que') = Elements(player_que)
    BY <1>1, ElementsAppend DEF TypeOK
  <1>14. \A c \in 1 .. got' : c \in 1 .. got \/ c = got'
    BY <1>1, ChunksAreNumbers
  <1>15. Accounted'
    BY <1>1, <1>2, <1>13, <1>14 DEF Account, Accounted
  <1>16. HasSuccessor'
    <2>1. Elements(decoder_que) = {}
      BY <1>2 DEF Elements
    <2>2. QED
      BY <1>1, <1>2, <1>3, <1>13, <2>1 DEF Account, Accounted, HasSuccessor
  <1>17. SkippedReceived'
    BY <1>1, <1>5, ChunksAreNumbers DEF Account, SkippedReceived, TypeOK, Chunks
  <1>18. QED
    BY <1>6, <1>8, <1>10, <1>11, <1>12, <1>15, <1>16, <1>17 DEF Order, Account

(* read_chunk stores a chunk of an mp3 stream. *)
LEMMA Mp3Stored ==
  ASSUME IndInv, ~Wav, ~Copied,
         decoder_que' = Append(decoder_que, got'), got' \in Chunks,
         \/ got' = got + 1 /\ ~Copied'
         \/ got' = got /\ Copied',
         UNCHANGED <<player_que, d_chunk, pr_chunk, played, skipped>>,
         dec_at' = dec_at, play_at' = play_at
  PROVE  Order' /\ Account'
  <1>1. TypeOK /\ Order /\ Account
    BY DEF IndInv, Control
  <1>2. /\ Len(decoder_que) \in Nat /\ Len(decoder_que') = Len(decoder_que) + 1
        /\ DOMAIN decoder_que = 1 .. Len(decoder_que)
        /\ DOMAIN decoder_que' = 1 .. Len(decoder_que) + 1
        /\ \A j \in 1 .. Len(decoder_que) : decoder_que'[j] = decoder_que[j]
        /\ decoder_que'[Len(decoder_que) + 1] = got'
        /\ decoder_que' # <<>>
    BY <1>1, AppendFacts DEF TypeOK
  <1>3. /\ ~CopyPassed /\ ~CopyPassed' /\ Newest' = Newest
        /\ (InHand' <=> InHand) /\ (InPlay' <=> InPlay)
    BY <1>2 DEF CopyPassed, Newest, InHand, InPlay, play_at
  <1>4. \A x : BeforeDecoded(x) => BeforeDecoded(x)'
    BY <1>3 DEF BeforeDecoded, Before
  <1>5. got' <= got'
    BY ConstantsType DEF Chunks
  <1>6. \A x \in Nat : x <= got => x <= got' /\ Before(x, got', Copied')
    BY <1>1, ChunksAreNumbers DEF Before
  <1>7. /\ d_chunk \in Nat /\ d_chunk <= got
        /\ \A j \in DOMAIN decoder_que : decoder_que[j] \in Nat /\ decoder_que[j] <= got
    BY <1>1, ChunksAreNumbers DEF Order, DecoderInOrder
  <1>8. DecoderInOrder'
    <2>1. ASSUME NEW j \in DOMAIN decoder_que'
          PROVE  /\ decoder_que'[j] <= got'
                 /\ Before(d_chunk, decoder_que'[j], j = Len(decoder_que') /\ Copied')
      <3>1. CASE j \in DOMAIN decoder_que
        BY <1>1, <1>2, <1>6, <1>7, <3>1 DEF Order, DecoderInOrder, Before
      <3>2. CASE j = Len(decoder_que) + 1
        BY <1>2, <1>5, <1>6, <1>7, <3>2 DEF Before
      <3>3. QED
        BY <1>2, <3>1, <3>2
    <2>2. ASSUME NEW j \in DOMAIN decoder_que', NEW k \in DOMAIN decoder_que', j < k
          PROVE  Before(decoder_que'[j], decoder_que'[k], k = Len(decoder_que') /\ Copied')
      <3>1. j \in DOMAIN decoder_que
        BY <1>2, <2>2
      <3>2. CASE k \in DOMAIN decoder_que
        BY <1>1, <1>2, <2>2, <3>1, <3>2 DEF Order, DecoderInOrder, Before
      <3>3. CASE k = Len(decoder_que) + 1
        BY <1>2, <1>6, <1>7, <3>1, <3>3 DEF Before
      <3>4. QED
        BY <1>2, <3>2, <3>3
    <2>3. QED
      BY <1>6, <1>7, <2>1, <2>2 DEF DecoderInOrder
  <1>9. PlayerInOrder'
    BY <1>1, <1>3, <1>4 DEF Order, PlayerInOrder, Before
  <1>10. HandInOrder'
    BY <1>1, <1>3, <1>4 DEF Order, HandInOrder, Before
  <1>11. PlayedFirst' /\ PlayedInOrder'
    BY <1>1, <1>3, <1>4 DEF Order, PlayedFirst, PlayedInOrder, Before
  <1>12. Elements(decoder_que') = Elements(decoder_que) \cup {got'}
    BY <1>1, ElementsAppend DEF TypeOK
  <1>13. \A c \in 1 .. got' : c \in 1 .. got \/ c = got'
    BY <1>1, ChunksAreNumbers
  <1>14. Accounted'
    BY <1>1, <1>3, <1>12, <1>13 DEF Account, Accounted
  <1>15. HasSuccessor'
    BY DEF HasSuccessor
  <1>16. SkippedReceived'
    BY <1>1, <1>6 DEF Account, SkippedReceived, TypeOK, Chunks
  <1>17. QED
    BY <1>8, <1>9, <1>10, <1>11, <1>14, <1>15, <1>16 DEF Order, Account

(* The decoder takes the oldest chunk of its queue. *)
LEMMA DecoderTook ==
  ASSUME IndInv, ~Wav, decoder_que # <<>>, dec_at # "dec_decode",
         d_chunk' = Head(decoder_que), decoder_que' = Tail(decoder_que), dec_at' = "dec_decode",
         UNCHANGED <<player_que, pr_chunk, got, played, skipped>>,
         Copied' <=> Copied, play_at' = play_at
  PROVE  Order' /\ Account'
  <1>1. TypeOK /\ Order /\ Account
    BY DEF IndInv, Control
  <1>2. /\ Len(decoder_que) \in Nat /\ Len(decoder_que) >= 1
        /\ Len(decoder_que') = Len(decoder_que) - 1
        /\ DOMAIN decoder_que = 1 .. Len(decoder_que)
        /\ DOMAIN decoder_que' = 1 .. Len(decoder_que) - 1
        /\ \A j \in 1 .. Len(decoder_que) - 1 : decoder_que'[j] = decoder_que[j + 1]
        /\ d_chunk' = decoder_que[1]
        /\ decoder_que' = <<>> <=> Len(decoder_que) = 1
    BY <1>1, TailFacts DEF TypeOK
  <1>3. /\ ~CopyPassed /\ ~CopyPassed' /\ Newest = d_chunk /\ Newest' = d_chunk'
        /\ (InHand' <=> InHand) /\ (InPlay' <=> InPlay)
    BY DEF CopyPassed, Newest, InHand, InPlay, play_at
  <1>4. /\ d_chunk \in Nat /\ d_chunk' \in Nat /\ d_chunk' <= got
        /\ Before(d_chunk, d_chunk', (decoder_que' = <<>>) /\ Copied')
    <2>1. 1 \in DOMAIN decoder_que
      BY <1>2
    <2>2. /\ decoder_que[1] <= got
          /\ Before(d_chunk, decoder_que[1], 1 = Len(decoder_que) /\ Copied)
      BY <1>1, <2>1 DEF Order, DecoderInOrder
    <2>3. d_chunk \in Nat /\ decoder_que[1] \in Nat
      BY <1>1, <2>1, ChunksAreNumbers
    <2>4. QED
      BY <1>2, <2>2, <2>3 DEF Before
  <1>5. \A x \in Nat : x <= d_chunk => BeforeDecoded(x)'
    BY <1>3, <1>4 DEF BeforeDecoded, Before
  <1>6. DecoderInOrder'
    <2>1. ASSUME NEW j \in DOMAIN decoder_que'
          PROVE  /\ decoder_que'[j] <= got
                 /\ Before(d_chunk', decoder_que'[j], j = Len(decoder_que') /\ Copied')
      <3>1. 1 \in DOMAIN decoder_que /\ j + 1 \in DOMAIN decoder_que /\ 1 < j + 1
        BY <1>2
      <3>2. (j + 1 = Len(decoder_que)) <=> (j = Len(decoder_que'))
        BY <1>2
      <3>3. Before(decoder_que[1], decoder_que[j + 1], j + 1 = Len(decoder_que) /\ Copied)
            /\ decoder_que[j + 1] <= got
        BY <1>1, <3>1 DEF Order, DecoderInOrder
      <3>4. QED
        BY <1>2, <3>2, <3>3 DEF Before
    <2>2. ASSUME NEW j \in DOMAIN decoder_que', NEW k \in DOMAIN decoder_que', j < k
          PROVE  Before(decoder_que'[j], decoder_que'[k], k = Len(decoder_que') /\ Copied')
      <3>1. j + 1 \in DOMAIN decoder_que /\ k + 1 \in DOMAIN decoder_que /\ j + 1 < k + 1
        BY <1>2, <2>2
      <3>2. (k + 1 = Len(decoder_que)) <=> (k = Len(decoder_que'))
        BY <1>2
      <3>3. Before(decoder_que[j + 1], decoder_que[k + 1], k + 1 = Len(decoder_que) /\ Copied)
        BY <1>1, <3>1 DEF Order, DecoderInOrder
      <3>4. QED
        BY <1>2, <3>2, <3>3 DEF Before
    <2>3. QED
      BY <1>4, <2>1, <2>2 DEF DecoderInOrder
  <1>7. PlayerInOrder'
    <2>1. \A j \in DOMAIN player_que : player_que[j] \in Nat /\ player_que[j] <= d_chunk
      BY <1>1, <1>3, ChunksAreNumbers DEF Order, PlayerInOrder, BeforeDecoded
    <2>2. \A j \in DOMAIN player_que' : BeforeDecoded(player_que[j])'
      BY <1>5, <2>1
    <2>3. QED
      BY <1>1, <1>3, <2>2 DEF Order, PlayerInOrder, Before
  <1>8. HandInOrder'
    <2>1. pr_chunk \in Nat /\ pr_chunk <= d_chunk
      BY <1>1, <1>3, ChunksAreNumbers DEF Order, HandInOrder
    <2>2. BeforeDecoded(pr_chunk)' /\ pr_chunk <= Newest'
      BY <1>5, <2>1 DEF BeforeDecoded
    <2>3. QED
      BY <1>1, <1>3, <2>2 DEF Order, HandInOrder, Before
  <1>9. PlayedFirst' /\ PlayedInOrder'
    <2>1. \A n \in DOMAIN played : played[n] \in Nat /\ played[n] <= d_chunk
      BY <1>1, <1>3, ChunksAreNumbers DEF Order, PlayedFirst, BeforeDecoded
    <2>2. \A n \in DOMAIN played' : BeforeDecoded(played[n])'
      BY <1>5, <2>1
    <2>3. QED
      BY <1>1, <1>3, <2>2 DEF Order, PlayedFirst, PlayedInOrder, Before
  <1>10. Elements(decoder_que) = {d_chunk'} \cup Elements(decoder_que')
    BY <1>1, ElementsTail DEF TypeOK
  <1>11. Accounted'
    BY <1>1, <1>3, <1>10 DEF Account, Accounted
  <1>12. HasSuccessor' /\ SkippedReceived'
    BY <1>1 DEF HasSuccessor, Account, SkippedReceived
  <1>13. QED
    BY <1>6, <1>7, <1>8, <1>9, <1>11, <1>12 DEF Order, Account

(* The decoder found its queue empty before it ever took a chunk: nothing  *)
(* is beyond it yet.                                                       *)
LEMMA DecoderTookNothing ==
  ASSUME IndInv, ~Wav, decoder_que = <<>>, d_chunk = 0, dec_at # "dec_decode",
         dec_at' = "dec_decode",
         UNCHANGED <<decoder_que, d_chunk, player_que, pr_chunk, got, played, skipped>>,
         Copied' <=> Copied, play_at' = play_at
  PROVE  Order' /\ Account'
  <1>1. TypeOK /\ Order /\ Account
    BY DEF IndInv, Control
  <1>2. /\ Newest = 0 /\ Newest' = 0 /\ (InHand' <=> InHand) /\ (InPlay' <=> InPlay)
    BY DEF Newest, InHand, InPlay, play_at
  <1>3. \A j \in DOMAIN player_que : FALSE
    BY <1>1, <1>2, ChunksAreNumbers DEF Order, PlayerInOrder, BeforeDecoded
  <1>4. \A n \in DOMAIN played : FALSE
    BY <1>1, <1>2, ChunksAreNumbers DEF Order, PlayedFirst, BeforeDecoded
  <1>5. pr_chunk = 0
    BY <1>1, <1>2, ChunksAreNumbers DEF Order, HandInOrder
  <1>6. DecoderInOrder'
    BY <1>1 DEF Order, DecoderInOrder, Before
  <1>7. PlayerInOrder' /\ HandInOrder' /\ PlayedFirst' /\ PlayedInOrder'
    BY <1>1, <1>2, <1>3, <1>4, <1>5
       DEF Order, PlayerInOrder, HandInOrder, PlayedFirst, PlayedInOrder
  <1>8. Accounted'
    BY <1>1, <1>2 DEF Account, Accounted
  <1>9. HasSuccessor' /\ SkippedReceived'
    BY <1>1 DEF HasSuccessor, Account, SkippedReceived
  <1>10. QED
    BY <1>6, <1>7, <1>8, <1>9 DEF Order, Account

(* The decoder queues the sound of the chunk it has in its hands. *)
LEMMA DecoderGave ==
  ASSUME IndInv, ~Wav, dec_at = "dec_decode", d_chunk # 0, dec_at' # "dec_decode",
         player_que' = Append(player_que, d_chunk),
         UNCHANGED <<decoder_que, d_chunk, pr_chunk, got, played, skipped>>,
         Copied' <=> Copied, play_at' = play_at
  PROVE  Order' /\ Account'
  <1>1. TypeOK /\ Order /\ Account
    BY DEF IndInv, Control
  <1>2. /\ ~CopyPassed /\ Newest = d_chunk /\ Newest' = d_chunk
        /\ (CopyPassed' <=> (decoder_que = <<>> /\ Copied))
        /\ (InHand' <=> InHand) /\ (InPlay' <=> InPlay)
    BY DEF CopyPassed, Newest, InHand, InPlay, play_at
  <1>3. /\ Len(player_que) \in Nat /\ Len(player_que') = Len(player_que) + 1
        /\ DOMAIN player_que = 1 .. Len(player_que)
        /\ DOMAIN player_que' = 1 .. Len(player_que) + 1
        /\ \A j \in 1 .. Len(player_que) : player_que'[j] = player_que[j]
        /\ player_que'[Len(player_que) + 1] = d_chunk
        /\ player_que' # <<>>
    <2>1. player_que \in Seq(Chunks) /\ d_chunk \in Chunks
      BY <1>1 DEF TypeOK
    <2>2. QED
      BY <2>1, AppendFacts
  <1>4. \A x : BeforeDecoded(x)' <=> x <= d_chunk
    BY <1>2 DEF BeforeDecoded
  <1>5. \A x : BeforeDecoded(x) => x <= d_chunk /\ Before(x, d_chunk, CopyPassed')
    BY <1>2 DEF BeforeDecoded, Before
  <1>6. d_chunk <= d_chunk
    BY <1>1, ChunksAreNumbers
  <1>7. DecoderInOrder'
    BY <1>1 DEF Order, DecoderInOrder, Before
  <1>8. PlayerInOrder'
    <2>1. \A j \in DOMAIN player_que : player_que[j] # 0 /\ BeforeDecoded(player_que[j])
      BY <1>1 DEF Order, PlayerInOrder
    <2>2. \A j \in DOMAIN player_que' : player_que'[j] # 0 /\ player_que'[j] <= d_chunk
      BY <1>3, <1>5, <1>6, <2>1
    <2>3. ASSUME NEW j \in DOMAIN player_que', NEW k \in DOMAIN player_que', j < k
          PROVE  Before(player_que'[j], player_que'[k], k = Len(player_que') /\ CopyPassed')
      <3>1. j \in DOMAIN player_que
        BY <1>3, <2>3
      <3>2. CASE k \in DOMAIN player_que
        BY <1>1, <1>2, <1>3, <2>3, <3>1, <3>2 DEF Order, PlayerInOrder, Before
      <3>3. CASE k = Len(player_que) + 1
        BY <1>3, <1>5, <2>1, <3>1, <3>3 DEF Before
      <3>4. QED
        BY <1>3, <3>2, <3>3
    <2>4. QED
      BY <1>2, <2>2, <2>3 DEF PlayerInOrder, BeforeDecoded
  <1>9. HandInOrder'
    <2>1. pr_chunk <= d_chunk
      BY <1>1, <1>2 DEF Order, HandInOrder
    <2>2. ASSUME InHand, pr_chunk # 0, NEW k \in DOMAIN player_que'
          PROVE  Before(pr_chunk, player_que'[k], k = Len(player_que') /\ CopyPassed')
      <3>1. CASE k \in DOMAIN player_que
        BY <1>1, <1>2, <1>3, <2>2, <3>1 DEF Order, HandInOrder, Before
      <3>2. CASE k = Len(player_que) + 1
        BY <1>1, <1>3, <1>5, <2>2, <3>2 DEF Order, HandInOrder, Before
      <3>3. QED
        BY <1>3, <3>1, <3>2
    <2>3. QED
      BY <1>2, <2>1, <2>2 DEF HandInOrder, BeforeDecoded
  <1>10. PlayedFirst' /\ PlayedInOrder'
    <2>1. ASSUME NEW n \in DOMAIN played, NEW k \in DOMAIN player_que'
          PROVE  Before(played[n], player_que'[k], k = Len(player_que') /\ CopyPassed')
      <3>1. CASE k \in DOMAIN player_que
        BY <1>1, <1>2, <1>3, <3>1 DEF Order, PlayedFirst, Before
      <3>2. CASE k = Len(player_que) + 1
        BY <1>1, <1>3, <1>5, <3>2 DEF Order, PlayedFirst, Before
      <3>3. QED
        BY <1>3, <3>1, <3>2
    <2>2. \A n \in DOMAIN played : InHand => Before(played[n], pr_chunk, FALSE)
      BY <1>1, <1>2 DEF Order, PlayedFirst, Before
    <2>3. \A n \in DOMAIN played : played[n] # 0 /\ played[n] <= d_chunk /\ played[n] <= pr_chunk
      BY <1>1, <1>5 DEF Order, PlayedFirst
    <2>4. PlayedFirst'
      BY <1>2, <2>1, <2>2, <2>3 DEF PlayedFirst, BeforeDecoded, Before
    <2>5. QED
      BY <1>1, <2>4 DEF Order, PlayedInOrder
  <1>11. Elements(player_que') = Elements(player_que) \cup {d_chunk}
    BY <1>1, ElementsAppend DEF TypeOK
  <1>12. Accounted'
    BY <1>1, <1>2, <1>11 DEF Account, Accounted
  <1>13. HasSuccessor' /\ SkippedReceived'
    BY <1>1 DEF HasSuccessor, Account, SkippedReceived
  <1>14. QED
    BY <1>7, <1>8, <1>9, <1>10, <1>12, <1>13 DEF Order, Account

(* The decoder lets go of a chunk that gave no sound. *)
LEMMA DecoderDropped ==
  ASSUME IndInv, ~Wav, dec_at = "dec_decode", dec_at' # "dec_decode",
         skipped' = skipped \cup ({d_chunk} \ {0}),
         UNCHANGED <<decoder_que, player_que, d_chunk, pr_chunk, got, played>>,
         Copied' <=> Copied, play_at' = play_at
  PROVE  Order' /\ Account'
  <1>1. TypeOK /\ Order /\ Account
    BY DEF IndInv, Control
  <1>2. /\ ~CopyPassed /\ Newest' = Newest /\ (InHand' <=> InHand) /\ (InPlay' <=> InPlay)
    BY DEF CopyPassed, Newest, InHand, InPlay, play_at
  <1>3. \A x : BeforeDecoded(x) => BeforeDecoded(x)'
    BY <1>2 DEF BeforeDecoded
  <1>4. DecoderInOrder'
    BY <1>1 DEF Order, DecoderInOrder, Before
  <1>5. PlayerInOrder'
    BY <1>1, <1>2, <1>3 DEF Order, PlayerInOrder, Before
  <1>6. HandInOrder'
    BY <1>1, <1>2, <1>3 DEF Order, HandInOrder, Before
  <1>7. PlayedFirst' /\ PlayedInOrder'
    BY <1>1, <1>2, <1>3 DEF Order, PlayedFirst, PlayedInOrder, Before
  <1>8. Accounted'
    BY <1>1, <1>2 DEF Account, Accounted
  <1>9. d_chunk \in Nat /\ d_chunk <= got
    BY <1>1, ChunksAreNumbers DEF Order, DecoderInOrder
  <1>10. HasSuccessor' /\ SkippedReceived'
    BY <1>1, <1>9 DEF HasSuccessor, Account, SkippedReceived
  <1>11. QED
    BY <1>4, <1>5, <1>6, <1>7, <1>8, <1>10 DEF Order, Account

(* The player takes the oldest chunk of its queue. *)
LEMMA PlayerTook ==
  ASSUME IndInv, player_que # <<>>, play_at = "play_loop", play_at' = "play_taken",
         pr_chunk' = Head(player_que), player_que' = Tail(player_que),
         UNCHANGED <<decoder_que, d_chunk, got, played, skipped>>,
         Copied' <=> Copied, dec_at' = dec_at
  PROVE  Order' /\ Account'
  <1>1. TypeOK /\ Order /\ Account
    BY DEF IndInv, Control
  <1>2. /\ Len(player_que) \in Nat /\ Len(player_que) >= 1
        /\ Len(player_que') = Len(player_que) - 1
        /\ DOMAIN player_que = 1 .. Len(player_que)
        /\ DOMAIN player_que' = 1 .. Len(player_que) - 1
        /\ \A j \in 1 .. Len(player_que) - 1 : player_que'[j] = player_que[j + 1]
        /\ pr_chunk' = player_que[1]
        /\ player_que' = <<>> <=> Len(player_que) = 1
    BY <1>1, TailFacts DEF TypeOK
  <1>3. /\ (CopyPassed' <=> CopyPassed) /\ Newest' = Newest
        /\ ~InHand /\ InHand' /\ ~InPlay /\ InPlay'
    BY DEF CopyPassed, Newest, InHand, InPlay, play_at
  <1>4. \A x : BeforeDecoded(x)' <=> BeforeDecoded(x)
    BY <1>3 DEF BeforeDecoded, Before
  <1>5. \A j \in DOMAIN player_que' :
          /\ j + 1 \in DOMAIN player_que /\ player_que'[j] = player_que[j + 1]
          /\ (j + 1 = Len(player_que)) <=> (j = Len(player_que'))
    BY <1>2
  <1>6. 1 \in DOMAIN player_que
    BY <1>2
  <1>7. DecoderInOrder'
    BY <1>1 DEF Order, DecoderInOrder, Before
  <1>8. PlayerInOrder'
    <2>1. ASSUME NEW j \in DOMAIN player_que'
          PROVE  (~Wav => player_que'[j] # 0) /\ BeforeDecoded(player_que[j + 1])
      BY <1>1, <1>5 DEF Order, PlayerInOrder
    <2>2. \A j \in DOMAIN player_que' : BeforeDecoded(player_que[j])'
      BY <1>3, <1>5, <2>1 DEF BeforeDecoded, Before
    <2>3. ASSUME NEW j \in DOMAIN player_que', NEW k \in DOMAIN player_que', j < k
          PROVE  Before(player_que'[j], player_que'[k], k = Len(player_que') /\ CopyPassed')
      <3>1. j + 1 < k + 1
        BY <1>2, <2>3
      <3>2. Before(player_que[j + 1], player_que[k + 1], k + 1 = Len(player_que) /\ CopyPassed)
        BY <1>1, <1>5, <3>1 DEF Order, PlayerInOrder
      <3>3. QED
        BY <1>3, <1>5, <3>2 DEF Before
    <2>4. QED
      BY <2>1, <2>2, <2>3 DEF PlayerInOrder
  <1>9. HandInOrder'
    <2>1. BeforeDecoded(player_que[1])
      BY <1>1, <1>6 DEF Order, PlayerInOrder
    <2>2. BeforeDecoded(pr_chunk)' /\ pr_chunk' <= Newest'
      BY <1>2, <1>3, <2>1 DEF BeforeDecoded, Before
    <2>3. ASSUME NEW k \in DOMAIN player_que'
          PROVE  Before(pr_chunk', player_que'[k], k = Len(player_que') /\ CopyPassed')
      <3>1. 1 < k + 1
        BY <1>2
      <3>2. Before(player_que[1], player_que[k + 1], k + 1 = Len(player_que) /\ CopyPassed)
        BY <1>1, <1>5, <1>6, <3>1 DEF Order, PlayerInOrder
      <3>3. QED
        BY <1>2, <1>3, <1>5, <3>2 DEF Before
    <2>4. QED
      BY <2>2, <2>3 DEF HandInOrder
  <1>10. PlayedFirst' /\ PlayedInOrder'
    <2>1. ASSUME NEW n \in DOMAIN played
          PROVE  /\ played[n] <= pr_chunk'
                 /\ Before(played[n], pr_chunk', player_que' = <<>> /\ CopyPassed')
      <3>1. Before(played[n], player_que[1], 1 = Len(player_que) /\ CopyPassed)
        BY <1>1, <1>6 DEF Order, PlayedFirst
      <3>2. played[n] \in Nat /\ player_que[1] \in Nat
        BY <1>1, <1>6, ChunksAreNumbers
      <3>3. QED
        BY <1>2, <1>3, <3>1, <3>2 DEF Before
    <2>2. ASSUME NEW n \in DOMAIN played, NEW k \in DOMAIN player_que'
          PROVE  Before(played[n], player_que'[k], k = Len(player_que') /\ CopyPassed')
      <3>1. Before(played[n], player_que[k + 1], k + 1 = Len(player_que) /\ CopyPassed)
        BY <1>1, <1>5 DEF Order, PlayedFirst
      <3>2. QED
        BY <1>3, <1>5, <3>1 DEF Before
    <2>3. PlayedFirst'
      BY <1>1, <1>4, <2>1, <2>2 DEF Order, PlayedFirst
    <2>4. QED
      BY <1>1, <2>3 DEF Order, PlayedInOrder
  <1>11. /\ Elements(player_que) = {pr_chunk'} \cup Elements(player_que')
         /\ Len(player_que) = 1 => AllButLast(player_que) = {}
         /\ Len(player_que) > 1 => AllButLast(player_que) = {pr_chunk'} \cup AllButLast(player_que')
    BY <1>1, ElementsTail DEF TypeOK
  <1>12. Accounted'
    BY <1>1, <1>3, <1>11 DEF Account, Accounted
  <1>13. HasSuccessor'
    <2> SUFFICES ASSUME Wav, Copied
                 PROVE  1 .. got \subseteq Elements(played) \cup skipped \cup AllButLast(player_que')
                               \cup (IF player_que' # <<>> THEN {pr_chunk'} ELSE {})
      BY <1>3 DEF HasSuccessor
    <2>1. 1 .. got \subseteq Elements(played) \cup skipped \cup AllButLast(player_que)
      BY <1>1, <1>3 DEF Account, HasSuccessor
    <2>2. CASE Len(player_que) = 1
      BY <1>11, <2>1, <2>2
    <2>3. CASE Len(player_que) > 1
      BY <1>2, <1>11, <2>1, <2>3
    <2>4. QED
      BY <1>2, <2>2, <2>3
  <1>14. SkippedReceived'
    BY <1>1 DEF Account, SkippedReceived
  <1>15. QED
    BY <1>7, <1>8, <1>9, <1>10, <1>12, <1>13, <1>14 DEF Order, Account

(* The player found its queue empty before it ever took a chunk. *)
LEMMA PlayerTookNothing ==
  ASSUME IndInv, player_que = <<>>, pr_chunk = 0, play_at = "play_loop", play_at' = "play_taken",
         UNCHANGED <<decoder_que, d_chunk, player_que, pr_chunk, got, played, skipped>>,
         Copied' <=> Copied, dec_at' = dec_at
  PROVE  Order' /\ Account'
  <1>1. TypeOK /\ Order /\ Account
    BY DEF IndInv, Control
  <1>2. /\ (CopyPassed' <=> CopyPassed) /\ Newest' = Newest
        /\ ~InHand /\ InHand' /\ ~InPlay /\ InPlay'
    BY DEF CopyPassed, Newest, InHand, InPlay, play_at
  <1>3. \A n \in DOMAIN played : FALSE
    BY <1>1, ChunksAreNumbers DEF Order, PlayedFirst
  <1>4. DecoderInOrder'
    BY <1>1 DEF Order, DecoderInOrder, Before
  <1>5. PlayerInOrder' /\ HandInOrder'
    BY <1>1, <1>2 DEF Order, PlayerInOrder, HandInOrder
  <1>6. PlayedFirst' /\ PlayedInOrder'
    BY <1>1, <1>3 DEF Order, PlayedFirst, PlayedInOrder
  <1>7. Accounted'
    BY <1>1, <1>2 DEF Account, Accounted
  <1>8. HasSuccessor' /\ SkippedReceived'
    BY <1>1, <1>2 DEF Account, HasSuccessor, SkippedReceived
  <1>9. QED
    BY <1>4, <1>5, <1>6, <1>7, <1>8 DEF Order, Account

(* The player lets go of a chunk that it does not play. *)
LEMMA PlayerLetGo ==
  ASSUME IndInv, InHand, ~InHand',
         skipped' = skipped \/ skipped' = skipped \cup ({pr_chunk} \ {0}),
         InPlay' \/ pr_chunk = 0 \/ pr_chunk \in skipped',
         UNCHANGED <<decoder_que, player_que, d_chunk, pr_chunk, got, played>>,
         Copied' <=> Copied, dec_at' = dec_at
  PROVE  Order' /\ Account'
  <1>1. TypeOK /\ Order /\ Account
    BY DEF IndInv, Control
  <1>2. (CopyPassed' <=> CopyPassed) /\ Newest' = Newest
    BY DEF CopyPassed, Newest
  <1>3. \A x : BeforeDecoded(x)' <=> BeforeDecoded(x)
    BY <1>2 DEF BeforeDecoded, Before
  <1>4. DecoderInOrder'
    BY <1>1 DEF Order, DecoderInOrder, Before
  <1>5. PlayerInOrder'
    BY <1>1, <1>2, <1>3 DEF Order, PlayerInOrder, Before
  <1>6. HandInOrder'
    BY <1>1, <1>2 DEF Order, HandInOrder
  <1>7. PlayedFirst' /\ PlayedInOrder'
    BY <1>1, <1>2, <1>3 DEF Order, PlayedFirst, PlayedInOrder, Before
  <1>8. skipped \subseteq skipped' /\ skipped' \subseteq skipped \cup ({pr_chunk} \ {0})
    OBVIOUS
  <1>9. Accounted'
    BY <1>1, <1>8 DEF Account, Accounted
  <1>10. HasSuccessor'
    BY <1>1, <1>8 DEF Account, HasSuccessor
  <1>11. pr_chunk \in Nat /\ pr_chunk <= got
    BY <1>1, ChunksAreNumbers DEF Order, HandInOrder, DecoderInOrder, Newest
  <1>12. SkippedReceived'
    BY <1>1, <1>8, <1>11 DEF Account, SkippedReceived
  <1>13. QED
    BY <1>4, <1>5, <1>6, <1>7, <1>9, <1>10, <1>12 DEF Order, Account

(* The player plays the chunk it has in its hands. *)
LEMMA PlayerPlayed ==
  ASSUME IndInv, play_at = "play_real", play_at' = "play_loop", pr_chunk # 0, player_que # <<>>,
         played' = Append(played, pr_chunk),
         UNCHANGED <<decoder_que, player_que, d_chunk, pr_chunk, got, skipped>>,
         Copied' <=> Copied, dec_at' = dec_at
  PROVE  Order' /\ Account'
  <1>1. TypeOK /\ Order /\ Account
    BY DEF IndInv, Control
  <1>2. /\ (CopyPassed' <=> CopyPassed) /\ Newest' = Newest
        /\ InHand /\ ~InHand' /\ InPlay /\ ~InPlay'
    BY DEF CopyPassed, Newest, InHand, InPlay, play_at
  <1>3. \A x : BeforeDecoded(x)' <=> BeforeDecoded(x)
    BY <1>2 DEF BeforeDecoded, Before
  <1>4. /\ Len(played) \in Nat /\ Len(played') = Len(played) + 1
        /\ DOMAIN played = 1 .. Len(played)
        /\ DOMAIN played' = 1 .. Len(played) + 1
        /\ \A n \in 1 .. Len(played) : played'[n] = played[n]
        /\ played'[Len(played) + 1] = pr_chunk
    BY <1>1, AppendFacts DEF TypeOK
  <1>5. DecoderInOrder'
    BY <1>1 DEF Order, DecoderInOrder, Before
  <1>6. PlayerInOrder'
    BY <1>1, <1>2, <1>3 DEF Order, PlayerInOrder, Before
  <1>7. HandInOrder'
    BY <1>1, <1>2 DEF Order, HandInOrder
  <1>8. pr_chunk <= pr_chunk
    BY <1>1, ChunksAreNumbers
  <1>9. PlayedFirst'
    <2>1. \A n \in DOMAIN played :
            /\ played[n] # 0 /\ BeforeDecoded(played[n]) /\ played[n] <= pr_chunk
            /\ \A k \in DOMAIN player_que :
                 Before(played[n], player_que[k], k = Len(player_que) /\ CopyPassed)
      BY <1>1 DEF Order, PlayedFirst
    <2>2. /\ BeforeDecoded(pr_chunk)
          /\ \A k \in DOMAIN player_que :
               Before(pr_chunk, player_que[k], k = Len(player_que) /\ CopyPassed)
      BY <1>1, <1>2 DEF Order, HandInOrder
    <2>3. ASSUME NEW n \in DOMAIN played'
          PROVE  /\ played'[n] # 0 /\ BeforeDecoded(played'[n]) /\ played'[n] <= pr_chunk
                 /\ \A k \in DOMAIN player_que :
                      Before(played'[n], player_que[k], k = Len(player_que) /\ CopyPassed)
      <3>1. CASE n \in DOMAIN played
        BY <1>4, <2>1, <3>1
      <3>2. CASE n = Len(played) + 1
        BY <1>4, <1>8, <2>2, <3>2
      <3>3. QED
        BY <1>4, <3>1, <3>2
    <2>4. \A n \in DOMAIN played' : BeforeDecoded(played[n])'
      BY <1>2, <2>3 DEF BeforeDecoded, Before
    <2>5. QED
      BY <1>2, <2>3, <2>4 DEF PlayedFirst, Before
  <1>10. PlayedInOrder'
    <2>1. \A n \in DOMAIN played : played[n] < pr_chunk
      BY <1>1, <1>2 DEF Order, PlayedFirst, Before
    <2>2. ASSUME NEW i \in 1 .. Len(played') - 1
          PROVE  played'[i] < played'[i + 1]
      <3>1. Len(played) \in Nat /\ Len(played') - 1 = Len(played)
        BY <1>4
      <3>2. i \in Nat /\ 1 <= i /\ i <= Len(played)
        BY <3>1
      <3>3. CASE i = Len(played)
        BY <1>4, <2>1, <3>2, <3>3
      <3>4. CASE i # Len(played)
        <4>1. i <= Len(played) - 1 /\ i + 1 \in Nat /\ 1 <= i + 1 /\ i + 1 <= Len(played)
          BY <3>1, <3>2, <3>4
        <4>2. i \in 1 .. Len(played) - 1 /\ i \in 1 .. Len(played) /\ i + 1 \in 1 .. Len(played)
          BY <3>1, <3>2, <4>1
        <4>3. played[i] < played[i + 1]
          BY <1>1, <4>2 DEF Order, PlayedInOrder
        <4>4. QED
          BY <1>4, <4>2, <4>3
      <3>5. QED
        BY <3>3, <3>4
    <2>3. QED
      BY <2>2 DEF PlayedInOrder
  <1>11. Elements(played') = Elements(played) \cup {pr_chunk}
    BY <1>1, ElementsAppend DEF TypeOK
  <1>12. Accounted'
    BY <1>1, <1>2, <1>11 DEF Account, Accounted
  <1>13. HasSuccessor'
    BY <1>1, <1>2, <1>11 DEF Account, HasSuccessor
  <1>14. SkippedReceived'
    BY <1>1 DEF Account, SkippedReceived
  <1>15. QED
    BY <1>5, <1>6, <1>7, <1>9, <1>10, <1>12, <1>13, <1>14 DEF Order, Account

-----------------------------------------------------------------------------
(* The steps that move a chunk.                                            *)

(* What every read of rx_thread_func finds, and leaves alone. *)
LEMMA ReadFacts ==
  ASSUME IndInv, NEW result \in {"data", "closed"}, ReadOutcome(result)
  PROVE  /\ rx_at = "rx_read" /\ ~Copied
         /\ ~Invalid(rx_result)
         /\ IF Wav THEN Len(player_que) < PlayerMax ELSE Len(decoder_que) < DecoderMax
         /\ ThreadsType' /\ OwnLabels'
         /\ rx_at' = result /\ dec_at' = dec_at /\ play_at' = play_at
         /\ UNCHANGED <<rx_result, d_chunk, pr_chunk, pause_value, pauses, played, skipped, missed>>
  <1>1. TypeOK /\ OwnLabels /\ Buffers /\ Room
    BY DEF IndInv, Control
  <1>2. rx_at = "rx_read"
    BY DEF ReadOutcome, At, rx_at
  <1>3. ~Invalid(rx_result) /\ ~Copied
    BY <1>1, <1>2, NoCopyYet DEF Buffers
  <1>4. Moves("rx", result)
    BY <1>1, GoOwn DEF ReadOutcome, Threads, Own
  <1>5. OwnLabels' /\ rx_at' = result /\ dec_at' = dec_at /\ play_at' = play_at
    BY <1>1, <1>4, MovesOwn DEF Threads, Own
  <1>6. QED
    BY <1>1, <1>2, <1>3, <1>4, <1>5 DEF Moves, ReadOutcome, Room, user

(* The header of a wav stream: no chunk is stored. *)
LEMMA HeaderPreserves ==
  ASSUME IndInv, NEW result \in {"data", "closed"}, ReadOutcome(result), NEW c, Store(c),
         flag.is_first_player_chunk, got' = got, tail' = tail
  PROVE  IndInv'
  <1>1. TypeOK /\ Buffers /\ Room /\ Stock /\ Order /\ Account
    BY DEF IndInv, Control
  <1>2. /\ flag' = [flag EXCEPT !.is_first_player_chunk = FALSE]
        /\ opened' = TRUE /\ UNCHANGED <<decoder_que, player_que, r_chunk>>
    BY DEF Store
  <1>3. /\ flag' \in [Flags -> BOOLEAN] /\ flag'.innited = flag.innited
        /\ ~flag'.is_first_player_chunk
    BY <1>1, <1>2 DEF TypeOK, Flags
  <1>4. opened' \in BOOLEAN
    BY <1>2, Zenon
  <1>5. Wav /\ got = 0
    BY <1>1 DEF Buffers
  <1>6. TypeOK'
    BY <1>1, <1>2, <1>3, <1>4, ReadFacts DEF TypeOK, ThreadsType
  <1>7. Buffers'
    BY <1>1, <1>2, <1>3, ReadFacts DEF Buffers
  <1>8. Room'
    BY <1>1, <1>2, <1>5, ReadFacts DEF Room
  <1>9. Stock'
    BY <1>1, <1>2, <1>3, ReadFacts DEF Stock
  <1>10. ~Copied /\ (CopyPassed => CopyPassed') /\ Newest' = Newest
    BY <1>2, ReadFacts DEF CopyPassed, Newest
  <1>11. (InHand' <=> InHand) /\ (InPlay' <=> InPlay)
    BY ReadFacts DEF InHand, InPlay, play_at
  <1>12. \A x : BeforeDecoded(x) => BeforeDecoded(x)'
    BY <1>2, <1>10, ReadFacts DEF BeforeDecoded, Before
  <1>13. DecoderInOrder'
    BY <1>1, <1>2, <1>10, ReadFacts DEF Order, DecoderInOrder, Before
  <1>14. PlayerInOrder'
    BY <1>1, <1>2, <1>10, <1>12 DEF Order, PlayerInOrder, Before
  <1>15. HandInOrder'
    BY <1>1, <1>2, <1>10, <1>11, <1>12, ReadFacts DEF Order, HandInOrder, Before
  <1>16. PlayedFirst' /\ PlayedInOrder'
    BY <1>1, <1>2, <1>10, <1>11, <1>12, ReadFacts DEF Order, PlayedFirst, PlayedInOrder, Before
  <1>17. Accounted' /\ SkippedReceived'
    BY <1>1, <1>2, <1>11, ReadFacts DEF Account, Accounted, SkippedReceived
  <1>18. HasSuccessor'
    <2>1. 1 .. got' = {}
      BY <1>5
    <2>2. QED
      BY <2>1 DEF HasSuccessor
  <1>19. QED
    BY <1>6, <1>7, <1>8, <1>9, <1>13, <1>14, <1>15, <1>16, <1>17, <1>18, ReadFacts
       DEF IndInv, Control, Order, Account

(* Any other chunk finds room in its queue. *)
LEMMA StorePreserves ==
  ASSUME IndInv, NEW result \in {"data", "closed"}, ReadOutcome(result), Store(got'),
         ~flag.is_first_player_chunk, got' \in Chunks,
         tail' \in Seq(Chunks), Len(tail') = got',
         \/ got' = got + 1 /\ result = "data"
         \/ got' = got /\ result = "closed"
  PROVE  IndInv'
  <1>1. TypeOK /\ Buffers /\ Room /\ Stock /\ Order /\ Account
    BY DEF IndInv, Control
  <1>2. /\ r_chunk' = got' /\ UNCHANGED <<flag, opened>>
        /\ IF Wav THEN UNCHANGED decoder_que ELSE UNCHANGED player_que
    BY DEF Store
  <1>3. \/ got' = got + 1 /\ ~Copied'
        \/ got' = got /\ Copied'
    BY ReadFacts DEF Copied, Invalid
  <1>4. CASE Wav
    <2>1. player_que' = Append(player_que, got')
      BY <1>4, ReadFacts DEF Store, enqueue_chunk, que_is_full
    <2>2. player_que' \in Seq(Chunks) /\ Len(player_que') <= PlayerMax /\ player_que' # <<>>
      BY <1>1, <1>4, <2>1, AppendFacts, ReadFacts, ConstantsType DEF TypeOK
    <2>3. TypeOK'
      BY <1>1, <1>2, <1>4, <2>2, ReadFacts DEF TypeOK, ThreadsType
    <2>4. Buffers'
      BY <1>1, <1>2, <1>4, ReadFacts DEF Buffers
    <2>5. Room' /\ Stock'
      BY <1>1, <1>2, <1>4, <2>2, ReadFacts DEF Room, Stock, Buffers
    <2>6. Order' /\ Account'
      BY <1>2, <1>3, <1>4, <2>1, ReadFacts, WavStored
    <2>7. QED
      BY <2>3, <2>4, <2>5, <2>6, ReadFacts DEF IndInv, Control
  <1>5. CASE ~Wav
    <2>1. decoder_que' = Append(decoder_que, got')
      BY <1>5, ReadFacts DEF Store, enqueue_chunk, que_is_full
    <2>2. decoder_que' \in Seq(Chunks) /\ Len(decoder_que') <= DecoderMax /\ decoder_que' # <<>>
      BY <1>1, <1>5, <2>1, AppendFacts, ReadFacts, ConstantsType DEF TypeOK
    <2>3. TypeOK'
      BY <1>1, <1>2, <1>5, <2>2, ReadFacts DEF TypeOK, ThreadsType
    <2>4. Buffers'
      BY <1>1, <1>2, <1>5, ReadFacts DEF Buffers
    <2>5. Room' /\ Stock'
      BY <1>1, <1>2, <1>5, <2>2, ReadFacts DEF Room, Stock, Buffers
    <2>6. Order' /\ Account'
      BY <1>2, <1>3, <1>5, <2>1, ReadFacts, Mp3Stored
    <2>7. QED
      BY <2>3, <2>4, <2>5, <2>6, ReadFacts DEF IndInv, Control
  <1>6. QED
    BY <1>4, <1>5

(* A chunk arrives. *)
LEMMA ReadDataPreserves ==
  ASSUME IndInv, read_data
  PROVE  IndInv'
  <1>1. CASE flag.is_first_player_chunk
    BY <1>1, HeaderPreserves DEF read_data
  <1>2. CASE ~flag.is_first_player_chunk
    <2>1. got' = got + 1 /\ Store(got')
      BY <1>2 DEF read_data
    <2>2. got' \in Chunks
      BY <2>1, ConstantsType DEF read_data, IndInv, Control, TypeOK, Chunks
    <2>3. PICK x \in Chunks : tail' = Append(tail, x)
      <3>1. tail \in Seq(Chunks) /\ Len(tail) = got /\ got \in 0 .. SongChunks
        BY DEF IndInv, Control, TypeOK, Chunks
      <3>2. LastTail \in Chunks
        BY <3>1, ConstantsType DEF LastTail, Chunks
      <3>3. QED
        BY <1>2, <2>1, <2>2, <3>2 DEF read_data
    <2>4. tail' \in Seq(Chunks) /\ Len(tail') = got'
      BY <2>1, <2>3, AppendFacts DEF IndInv, Control, TypeOK
    <2>5. QED
      BY <1>2, <2>1, <2>2, <2>4, StorePreserves DEF read_data
  <1>3. QED
    BY <1>1, <1>2

(* The old contents of the buffer are the last chunk received. *)
LEMMA ReadClosedPreserves ==
  ASSUME IndInv, read_closed
  PROVE  IndInv'
  <1>1. CASE flag.is_first_player_chunk
    BY <1>1, HeaderPreserves DEF read_closed
  <1>2. CASE ~flag.is_first_player_chunk
    <2>1. /\ r_chunk = got /\ got' = got /\ got \in Chunks
          /\ tail' \in Seq(Chunks) /\ Len(tail') = got'
      BY DEF read_closed, IndInv, Control, TypeOK, Buffers
    <2>2. Store(got')
      BY <2>1 DEF read_closed
    <2>3. QED
      BY <1>2, <2>1, <2>2, StorePreserves DEF read_closed
  <1>3. QED
    BY <1>1, <1>2

(* The result of a read becomes known to the other threads. *)
LEMMA RxGotResultPreserves ==
  ASSUME IndInv, rx_got_result
  PROVE  IndInv'
  <1>1. TypeOK /\ OwnLabels /\ Buffers /\ Room /\ Stock /\ Order /\ Account
    BY DEF IndInv, Control
  <1>2. PICK r \in {"data", "timeout", "closed", "error"} :
          /\ At("rx", r) /\ rx_result' = r
          /\ IF Invalid(r) THEN Go("rx", "run_check", {})
             ELSE Go("rx", "rx_full",
                     {"input_cond"} \cup (IF ~Wav THEN {"decoder_cond"}
                                          ELSE IF flag.is_first_player_chunk THEN {}
                                          ELSE {"player_cond"}))
          /\ UNCHANGED <<flag, decoder_que, player_que, r_chunk, d_chunk, pr_chunk, opened,
                         user, history>>
    BY DEF rx_got_result
  <1>3. rx_at = r
    BY <1>2 DEF At, rx_at
  <1>4. PICK to \in {"run_check", "rx_full"} :
          Moves("rx", to) /\ (Invalid(r) => to = "run_check")
    BY <1>1, <1>2, GoOwn DEF Threads, Own
  <1>5. OwnLabels' /\ ThreadsType' /\ rx_at' = to /\ dec_at' = dec_at /\ play_at' = play_at
    BY <1>1, <1>4, MovesOwn DEF Threads, Own, Moves
  <1>6. TypeOK'
    BY <1>1, <1>2, <1>5 DEF TypeOK, ThreadsType, user, history
  <1>7. Buffers'
    BY <1>1, <1>2, <1>3, <1>4, <1>5 DEF Buffers, history
  <1>8. Room'
    BY <1>1, <1>2, <1>5 DEF Room
  <1>9. Stock'
    BY <1>1, <1>2, <1>5 DEF Stock
  <1>10. Copied' <=> Copied
    BY <1>1, <1>2, <1>3, <1>5 DEF Copied, Buffers, Invalid
  <1>11. (InHand' <=> InHand) /\ (InPlay => InPlay')
    BY <1>5 DEF InHand, InPlay, play_at
  <1>12. Order' /\ Account'
    BY <1>1, <1>2, <1>5, <1>10, <1>11, SamePlaces DEF history
  <1>13. QED
    BY <1>5, <1>6, <1>7, <1>8, <1>9, <1>12 DEF IndInv, Control

(* The decoder takes a chunk. *)
LEMMA DecTakePreserves ==
  ASSUME IndInv, dec_take, flag.innited
  PROVE  IndInv'
  <1>1. TypeOK /\ OwnLabels /\ Buffers /\ Room /\ Stock /\ Order /\ Account /\ dec_at = "dec_loop"
    BY DEF IndInv, Control, dec_take, At, dec_at
  <1>2. /\ d_chunk' = dequeued(decoder_que, d_chunk)
        /\ decoder_que' = dequeue_chunk(decoder_que)
        /\ UNCHANGED <<flag, player_que, rx_result, r_chunk, pr_chunk, opened, user, history>>
    BY DEF dec_take
  <1>3. Moves("dec", "dec_decode")
    BY <1>1, GoOwn DEF dec_take, Threads, Own
  <1>4. OwnLabels' /\ ThreadsType' /\ rx_at' = rx_at /\ dec_at' = "dec_decode" /\ play_at' = play_at
    BY <1>1, <1>3, MovesOwn DEF Threads, Own, Moves
  <1>5. ~Wav /\ Len(player_que) < PlayerMax
    BY <1>1 DEF Buffers, Room
  <1>6. \/ decoder_que # <<>> /\ d_chunk' = Head(decoder_que) /\ decoder_que' = Tail(decoder_que)
        \/ decoder_que = <<>> /\ d_chunk = 0 /\ UNCHANGED <<decoder_que, d_chunk>>
    BY <1>1, <1>2 DEF dequeued, dequeue_chunk, que_is_empty, Stock
  <1>7. d_chunk' \in Chunks /\ decoder_que' \in Seq(Chunks) /\ Len(decoder_que') <= Len(decoder_que)
        /\ Len(decoder_que) \in Nat /\ Len(decoder_que') \in Nat
    <2>1. decoder_que \in Seq(Chunks) /\ d_chunk \in Chunks /\ Len(decoder_que) \in Nat
      BY <1>1 DEF TypeOK
    <2>2. CASE decoder_que # <<>> /\ d_chunk' = Head(decoder_que) /\ decoder_que' = Tail(decoder_que)
      <3>1. /\ d_chunk' \in Chunks /\ decoder_que' \in Seq(Chunks)
            /\ Len(decoder_que') = Len(decoder_que) - 1 /\ Len(decoder_que') \in Nat
        BY <2>1, <2>2, TailFacts
      <3>2. QED
        BY <2>1, <2>2, <3>1
    <2>3. CASE decoder_que = <<>> /\ UNCHANGED <<decoder_que, d_chunk>>
      BY <2>1, <2>3
    <2>4. QED
      BY <1>6, <2>2, <2>3
  <1>8. Len(decoder_que') <= DecoderMax
        /\ (Len(decoder_que) < DecoderMax => Len(decoder_que') < DecoderMax)
    BY <1>1, <1>7, ConstantsType DEF TypeOK
  <1>9. TypeOK'
    BY <1>1, <1>2, <1>4, <1>7, <1>8 DEF TypeOK, ThreadsType, user, history
  <1>10. Buffers'
    BY <1>1, <1>2, <1>4, <1>5 DEF Buffers, history
  <1>11. Room'
    BY <1>1, <1>2, <1>4, <1>5, <1>8 DEF Room
  <1>12. Stock'
    BY <1>1, <1>2, <1>4 DEF Stock
  <1>13. Copied' <=> Copied
    BY <1>2, <1>4 DEF Copied
  <1>14. Order' /\ Account'
    BY <1>1, <1>2, <1>4, <1>5, <1>6, <1>13, DecoderTook, DecoderTookNothing DEF history
  <1>15. QED
    BY <1>4, <1>9, <1>10, <1>11, <1>12, <1>14 DEF IndInv, Control

(* The decoder queues sound: player_que has room for it. *)
LEMMA DecSoundPreserves ==
  ASSUME IndInv, dec_sound
  PROVE  IndInv'
  <1>1. TypeOK /\ OwnLabels /\ Buffers /\ Room /\ Stock /\ dec_at = "dec_decode" /\ d_chunk # 0
    BY DEF IndInv, Control, dec_sound, At, dec_at
  <1>2. UNCHANGED <<flag, decoder_que, rx_result, r_chunk, d_chunk, pr_chunk, opened, user, history>>
    BY DEF dec_sound
  <1>3. Moves("dec", "dec_queued")
    BY <1>1, GoOwn DEF dec_sound, Threads, Own
  <1>4. OwnLabels' /\ ThreadsType' /\ rx_at' = rx_at /\ dec_at' = "dec_queued" /\ play_at' = play_at
    BY <1>1, <1>3, MovesOwn DEF Threads, Own, Moves
  <1>5. ~Wav /\ Len(player_que) < PlayerMax
    BY <1>1 DEF Buffers, Room
  <1>6. player_que' = Append(player_que, d_chunk)
    BY <1>5 DEF dec_sound, enqueue_chunk, que_is_full
  <1>7. player_que' \in Seq(Chunks) /\ Len(player_que') <= PlayerMax /\ player_que' # <<>>
    BY <1>1, <1>5, <1>6, AppendFacts, ConstantsType DEF TypeOK
  <1>8. TypeOK'
    BY <1>1, <1>2, <1>4, <1>7 DEF TypeOK, ThreadsType, user, history
  <1>9. Buffers'
    BY <1>1, <1>2, <1>4, <1>5 DEF Buffers, history
  <1>10. Room'
    BY <1>1, <1>2, <1>4, <1>5 DEF Room
  <1>11. Stock'
    BY <1>1, <1>2, <1>4, <1>7 DEF Stock
  <1>12. Copied' <=> Copied
    BY <1>2, <1>4 DEF Copied
  <1>13. Order' /\ Account'
    BY <1>1, <1>2, <1>4, <1>5, <1>6, <1>12, DecoderGave DEF history
  <1>14. QED
    BY <1>4, <1>8, <1>9, <1>10, <1>11, <1>13 DEF IndInv, Control

(* The decoder passes over a chunk without sound. *)
LEMMA DecSilentPreserves ==
  ASSUME IndInv, dec_silent
  PROVE  IndInv'
  <1>1. TypeOK /\ OwnLabels /\ Buffers /\ Room /\ Stock /\ dec_at = "dec_decode"
    BY DEF IndInv, Control, dec_silent, At, dec_at
  <1>2. /\ skipped' = skipped \cup ({d_chunk} \ {0})
        /\ UNCHANGED <<flag, data, user, got, tail, played, missed>>
    BY DEF dec_silent
  <1>3. PICK to \in {"dec_next", "done"} : Moves("dec", to)
    BY <1>1, GoOwn DEF dec_silent, Decoded, Threads, Own
  <1>4. OwnLabels' /\ ThreadsType' /\ rx_at' = rx_at /\ dec_at' = to /\ play_at' = play_at
    BY <1>1, <1>3, MovesOwn DEF Threads, Own, Moves
  <1>5. ~Wav /\ Len(player_que) < PlayerMax
    BY <1>1 DEF Buffers, Room
  <1>6. TypeOK'
    BY <1>1, <1>2, <1>4 DEF TypeOK, ThreadsType, user, data
  <1>7. Buffers'
    BY <1>1, <1>2, <1>4, <1>5 DEF Buffers, data
  <1>8. Room'
    BY <1>1, <1>2, <1>4, <1>5 DEF Room, data
  <1>9. Stock'
    BY <1>1, <1>2, <1>4 DEF Stock, data
  <1>10. Copied' <=> Copied
    BY <1>2, <1>4 DEF Copied, data
  <1>11. Order' /\ Account'
    BY <1>1, <1>2, <1>4, <1>5, <1>10, DecoderDropped DEF data
  <1>12. QED
    BY <1>4, <1>6, <1>7, <1>8, <1>9, <1>11 DEF IndInv, Control

(* The player takes a chunk. *)
LEMMA PlayTakePreserves ==
  ASSUME IndInv, play_take, flag.innited, ~flag.paused
  PROVE  IndInv'
  <1>1. TypeOK /\ OwnLabels /\ Buffers /\ Room /\ Stock /\ play_at = "play_loop"
    BY DEF IndInv, Control, play_take, At, play_at
  <1>2. /\ pr_chunk' = dequeued(player_que, pr_chunk)
        /\ player_que' = dequeue_chunk(player_que)
        /\ UNCHANGED <<flag, decoder_que, rx_result, r_chunk, d_chunk, opened, user, history>>
    BY DEF play_take
  <1>3. Moves("play", "play_taken")
    BY <1>1, GoOwn DEF play_take, Threads, Own
  <1>4. OwnLabels' /\ ThreadsType' /\ rx_at' = rx_at /\ dec_at' = dec_at /\ play_at' = "play_taken"
    BY <1>1, <1>3, MovesOwn DEF Threads, Own, Moves
  <1>5. \/ player_que # <<>> /\ pr_chunk' = Head(player_que) /\ player_que' = Tail(player_que)
        \/ player_que = <<>> /\ pr_chunk = 0 /\ UNCHANGED <<player_que, pr_chunk>>
    BY <1>1, <1>2 DEF dequeued, dequeue_chunk, que_is_empty, Stock
  <1>6. /\ pr_chunk' \in Chunks /\ player_que' \in Seq(Chunks)
        /\ Len(player_que') <= Len(player_que)
        /\ Len(player_que) \in Nat /\ Len(player_que') \in Nat
        /\ player_que = <<>> => player_que' = <<>>
    <2>1. player_que \in Seq(Chunks) /\ pr_chunk \in Chunks /\ Len(player_que) \in Nat
      BY <1>1 DEF TypeOK
    <2>2. CASE player_que # <<>> /\ pr_chunk' = Head(player_que) /\ player_que' = Tail(player_que)
      <3>1. /\ pr_chunk' \in Chunks /\ player_que' \in Seq(Chunks)
            /\ Len(player_que') = Len(player_que) - 1 /\ Len(player_que') \in Nat
        BY <2>1, <2>2, TailFacts
      <3>2. QED
        BY <2>1, <2>2, <3>1
    <2>3. CASE player_que = <<>> /\ UNCHANGED <<player_que, pr_chunk>>
      BY <2>1, <2>3
    <2>4. QED
      BY <1>5, <2>2, <2>3
  <1>7. Len(player_que') <= PlayerMax
        /\ (Len(player_que) < PlayerMax => Len(player_que') < PlayerMax)
    BY <1>1, <1>6, ConstantsType DEF TypeOK
  <1>8. TypeOK'
    BY <1>1, <1>2, <1>4, <1>6, <1>7 DEF TypeOK, ThreadsType, user, history
  <1>9. Buffers'
    BY <1>1, <1>2, <1>4, <1>6 DEF Buffers, history
  <1>10. Room'
    BY <1>1, <1>2, <1>4, <1>7 DEF Room
  <1>11. Stock'
    BY <1>1, <1>2, <1>4 DEF Stock
  <1>12. Copied' <=> Copied
    BY <1>2, <1>4 DEF Copied
  <1>13. Order' /\ Account'
    BY <1>1, <1>2, <1>4, <1>5, <1>12, PlayerTook, PlayerTookNothing DEF history
  <1>14. QED
    BY <1>4, <1>8, <1>9, <1>10, <1>11, <1>13 DEF IndInv, Control

(* The player's queue was empty behind the chunk it took: it ends with the *)
(* chunk in its hands, or drops it and waits.  The queue need not be empty *)
(* any more.                                                               *)
LEMMA PlayerStopsOrDrops ==
  ASSUME IndInv, play_at \in {"play_empty", "play_again"}, PassesOver \/ Ends,
         UNCHANGED <<data, user, got, tail, played, missed>>
  PROVE  IndInv'
  <1>1. TypeOK /\ OwnLabels /\ Buffers /\ Room /\ Stock
    BY DEF IndInv, Control
  <1>2. PICK to \in {"play_check", "done"} :
          /\ Moves("play", to)
          /\ to = "done" => skipped' = skipped
          /\ to = "play_check" => skipped' = skipped \cup ({pr_chunk} \ {0})
          /\ flag' = flag \/ flag' = Ended
    BY <1>1, GoOwn DEF PassesOver, Ends, Threads, Own
  <1>3. OwnLabels' /\ ThreadsType' /\ rx_at' = rx_at /\ dec_at' = dec_at /\ play_at' = to
    BY <1>1, <1>2, MovesOwn DEF Threads, Own, Moves
  <1>4. /\ flag' \in [Flags -> BOOLEAN] /\ flag'.innited = flag.innited
        /\ flag'.is_first_player_chunk = flag.is_first_player_chunk
    BY <1>1, <1>2, EndedFlags DEF TypeOK
  <1>5. TypeOK'
    BY <1>1, <1>2, <1>3, <1>4 DEF TypeOK, ThreadsType, user, data
  <1>6. Buffers'
    BY <1>1, <1>2, <1>3, <1>4 DEF Buffers, data, Invalid
  <1>7. Room'
    BY <1>1, <1>3, <1>4 DEF Room, data
  <1>8. Stock'
    BY <1>1, <1>3, <1>4 DEF Stock, data
  <1>9. Copied' <=> Copied
    BY <1>3 DEF Copied, data
  <1>10. InHand /\ ~InHand' /\ (to = "done" => InPlay')
    BY <1>3 DEF InHand, InPlay, play_at
  <1>11. InPlay' \/ pr_chunk = 0 \/ pr_chunk \in skipped'
    BY <1>2, <1>10
  <1>12. Order' /\ Account'
    BY <1>1, <1>2, <1>3, <1>9, <1>10, <1>11, PlayerLetGo DEF data
  <1>13. QED
    BY <1>3, <1>5, <1>6, <1>7, <1>8, <1>12 DEF IndInv, Control

(* play_thread_func's first look at rx_result. *)
LEMMA PlayEmptyPreserves ==
  ASSUME IndInv, play_empty
  PROVE  IndInv'
  <1>1. TypeOK /\ OwnLabels /\ play_at = "play_empty"
    BY DEF IndInv, Control, play_empty, At, play_at
  <1>2. UNCHANGED <<data, user, got, tail, played, missed>>
    BY DEF play_empty
  <1>3. CASE PassesOver \/ Ends
    BY <1>1, <1>2, <1>3, PlayerStopsOrDrops
  <1>4. CASE Go("play", "play_again", {}) /\ UNCHANGED <<flag, skipped>>
    <2>1. Quiet
      BY <1>1, <1>2, <1>4, FlagsQuiet DEF TypeOK
    <2>2. Moves("play", "play_again")
      BY <1>1, <1>4, GoOwn DEF Threads, Own
    <2>3. QED
      BY <1>1, <2>1, <2>2, PlayQuiet DEF Own
  <1>5. QED
    BY <1>3, <1>4 DEF play_empty

(* ... and its second one. *)
LEMMA PlayAgainPreserves ==
  ASSUME IndInv, play_again
  PROVE  IndInv'
  <1>1. play_at = "play_again" /\ UNCHANGED <<data, user, got, tail, played, missed>>
    BY DEF play_again, At, play_at
  <1>2. PassesOver \/ Ends
    BY DEF play_again
  <1>3. QED
    BY <1>1, <1>2, PlayerStopsOrDrops

(* The chunk in the player's hands is played, opens the device, or is      *)
(* empty.                                                                  *)
LEMMA PlayRealPreserves ==
  ASSUME IndInv, play_real
  PROVE  IndInv'
  <1>1. TypeOK /\ OwnLabels /\ Buffers /\ Room /\ Stock /\ play_at = "play_real"
    BY DEF IndInv, Control, play_real, At, play_at
  <1>2. UNCHANGED <<flag, decoder_que, player_que, rx_result, r_chunk, d_chunk, pr_chunk,
                    user, got, tail, missed>>
    BY DEF play_real
  <1>3. \/ pr_chunk = 0 /\ UNCHANGED <<opened, played, skipped>>
        \/ pr_chunk # 0 /\ played' = Append(played, pr_chunk) /\ UNCHANGED <<opened, skipped>>
        \/ /\ pr_chunk # 0 /\ opened' = TRUE
           /\ skipped' = skipped \cup {pr_chunk} /\ UNCHANGED played
    BY DEF play_real
  <1>4. Moves("play", "play_loop")
    BY <1>1, GoOwn DEF play_real, Threads, Own
  <1>5. OwnLabels' /\ ThreadsType' /\ rx_at' = rx_at /\ dec_at' = dec_at /\ play_at' = "play_loop"
    BY <1>1, <1>4, MovesOwn DEF Threads, Own, Moves
  <1>6. player_que # <<>>
    BY <1>1 DEF Stock
  <1>7. opened' \in BOOLEAN
    <2>1. opened' = opened \/ opened' = TRUE
      BY <1>3
    <2>2. QED
      BY <1>1, <2>1, Zenon DEF TypeOK
  <1>8. played' \in Seq(Chunks) /\ skipped' \subseteq Chunks
    BY <1>1, <1>3, AppendFacts DEF TypeOK
  <1>9. TypeOK'
    BY <1>1, <1>2, <1>5, <1>7, <1>8 DEF TypeOK, ThreadsType, user
  <1>10. Buffers'
    BY <1>1, <1>2, <1>5 DEF Buffers
  <1>11. Room'
    BY <1>1, <1>2, <1>5 DEF Room
  <1>12. Stock'
    BY <1>1, <1>2, <1>5, <1>6 DEF Stock
  <1>13. Copied' <=> Copied
    BY <1>2, <1>5 DEF Copied
  <1>14. InHand /\ ~InHand'
    BY <1>1, <1>5 DEF InHand
  <1>15. Order' /\ Account'
    <2>1. CASE played' = played
      <3>1. /\ skipped' = skipped \/ skipped' = skipped \cup ({pr_chunk} \ {0})
            /\ pr_chunk = 0 \/ pr_chunk \in skipped'
        <4>1. CASE pr_chunk = 0
          BY <1>3, <4>1
        <4>2. CASE skipped' = skipped \cup {pr_chunk} /\ pr_chunk # 0
          BY <4>2
        <4>3. CASE pr_chunk # 0 /\ played' = Append(played, pr_chunk)
          BY <1>1, <2>1, <4>3, AppendFacts DEF TypeOK
        <4>4. QED
          BY <1>3, <4>1, <4>2, <4>3
      <3>2. QED
        BY <1>2, <1>5, <1>13, <1>14, <2>1, <3>1, PlayerLetGo
    <2>2. CASE pr_chunk # 0 /\ played' = Append(played, pr_chunk) /\ UNCHANGED skipped
      BY <1>1, <1>2, <1>5, <1>6, <1>13, <2>2, PlayerPlayed
    <2>3. QED
      BY <1>3, <2>1, <2>2
  <1>16. QED
    BY <1>5, <1>9, <1>10, <1>11, <1>12, <1>15 DEF IndInv, Control

-----------------------------------------------------------------------------
(* The invariant, and what follows from it.                                *)

(* Nothing was received, nothing is queued, nobody has a chunk. *)
LEMMA InitEstablishes ==
  ASSUME Init
  PROVE  IndInv
  <1>1. /\ decoder_que = <<>> /\ player_que = <<>> /\ rx_result = "data"
        /\ r_chunk = 0 /\ d_chunk = 0 /\ pr_chunk = 0 /\ opened = FALSE
        /\ pause_value = FALSE /\ pauses = 0
        /\ got = 0 /\ tail = <<>> /\ played = <<>> /\ skipped = {} /\ missed = FALSE
    BY DEF Init
  <1>2. /\ flag \in [Flags -> BOOLEAN] /\ flag.innited
        /\ flag.is_first_player_chunk <=> Wav
    BY ConstantsType DEF Init, Flags
  <1>3. /\ rx_at = "rx_top" /\ play_at = "play_start"
        /\ dec_at = (IF Wav THEN "done" ELSE "dec_start")
    BY DEF Init, rx_at, play_at, dec_at, Threads
  <1>4. \A t \in Threads : \E l \in Own(t) : thread[t] = [at |-> l, nap |-> "awake"]
    BY DEF Init, Threads, Own
  <1>5. ASSUME NEW t \in Threads
        PROVE  /\ thread[t].at \in Own(t) /\ thread[t].nap = "awake"
               /\ thread[t] \in [at : Labels, nap : {"awake", "dozing", "asleep"}]
    <2>1. PICK l \in Own(t) : thread[t] = [at |-> l, nap |-> "awake"]
      BY <1>4
    <2>2. l \in Labels
      BY OwnAreLabels
    <2>3. QED
      BY <2>1, <2>2
  <1>6. /\ OwnLabels
        /\ thread \in [Threads -> [at : Labels, nap : {"awake", "dozing", "asleep"}]]
        /\ \A t \in Threads : thread[t].nap # "awake" => thread[t].at \in WaitPoints
    <2>1. thread = [t \in Threads |-> thread[t]]
      BY DEF Init
    <2>2. QED
      BY <1>5, <2>1 DEF OwnLabels
  <1>7. opened \in BOOLEAN /\ pause_value \in BOOLEAN /\ missed \in BOOLEAN
    BY <1>1, Zenon
  <1>8. 0 \in Chunks /\ 0 \in 0 .. MaxPauses
    BY ConstantsType DEF Chunks
  <1>9. <<>> \in Seq(Chunks) /\ Len(<<>>) = 0 /\ DOMAIN <<>> = {}
    OBVIOUS
  <1>10. TypeOK
    BY <1>1, <1>2, <1>6, <1>7, <1>8, <1>9, ConstantsType DEF TypeOK
  <1>11. Buffers /\ Room /\ Stock
    BY <1>1, <1>2, <1>3, <1>9, ConstantsType DEF Buffers, Room, Stock, Invalid
  <1>12. Order
    BY <1>1, <1>3, <1>9 DEF Order, DecoderInOrder, PlayerInOrder, HandInOrder, InHand,
       PlayedFirst, PlayedInOrder, Newest
  <1>13. 1 .. got = {}
    BY <1>1
  <1>14. Account
    BY <1>1, <1>13 DEF Account, Accounted, HasSuccessor, SkippedReceived
  <1>15. QED
    BY <1>6, <1>10, <1>11, <1>12, <1>14 DEF IndInv, Control

(* No step of any thread breaks the invariant. *)
LEMMA StepPreserves ==
  ASSUME IndInv, [Next]_vars
  PROVE  IndInv'
  <1>1. CASE rx
    BY <1>1, RxWaits, RxTopPreserves, RxLoopPreserves, ReadDataPreserves,
       ReadClosedPreserves, ReadFailedPreserves, ReadSelectErrorPreserves, RxStopPreserves,
       RxGotResultPreserves, RxFullPreserves, JoinPreserves, ReleasePreserves DEF rx
  <1>2. CASE dec
    BY <1>2, DecWaits, DecTopPreserves, DecStopPreserves, DecTakePreserves, DecSoundPreserves,
       DecSilentPreserves, DecQueuedPreserves, DecNextPreserves, DecEmptyPreserves,
       DecAgainPreserves DEF dec
  <1>3. CASE play
    BY <1>3, PlayWaits, PlayTopPreserves, PlayPausePreserves, PlayTakePreserves,
       PlayShowPreserves, PlayLookPreserves, PlayEmptyPreserves, PlayAgainPreserves DEF play
  <1>4. CASE input
    BY <1>4, OthersWait, InputLoopPreserves, NoKeyPreserves, PauseSetPreserves,
       StopSignalsPreserve DEF input, Own
  <1>5. CASE stats
    BY <1>5, OthersWait, StatsPreserve DEF stats
  <1>6. CASE handler
    BY <1>6, StopSignalsPreserve DEF handler, Own
  <1>7. CASE environment
    <2>1. CASE pause_key \/ stop_key \/ key_select_error \/ sigint_handler
      BY <2>1, PauseKeyPreserves, StopKeyPreserves, KeySelectErrorPreserves, SigintPreserves
    <2>2. ASSUME NEW t \in Threads, spurious_wakeup(t)
          PROVE  IndInv'
      BY <2>2, RxWaits, DecWaits, PlayWaits, OthersWait DEF Threads
    <2>3. QED
      BY <1>7, <2>1, <2>2 DEF environment
  <1>8. CASE UNCHANGED vars
    <2>1. TypeOK /\ OwnLabels /\ Buffers /\ Room /\ Stock /\ Order /\ Account
      BY DEF IndInv, Control
    <2>2. /\ thread' = thread /\ flag' = flag
          /\ UNCHANGED <<data, user, history>>
      BY <1>8 DEF vars
    <2>3. rx_at' = rx_at /\ dec_at' = dec_at /\ play_at' = play_at /\ OwnLabels'
      BY <2>1, <2>2 DEF rx_at, dec_at, play_at, OwnLabels
    <2>4. TypeOK'
      BY <2>1, <2>2 DEF TypeOK, data, user, history
    <2>5. Buffers' /\ Room' /\ Stock'
      BY <2>1, <2>2, <2>3 DEF Buffers, Room, Stock, data, history
    <2>6. Order' /\ Account'
      BY <2>1, <2>2, <2>3, SamePlaces DEF Copied, InHand, InPlay, data, history
    <2>7. QED
      BY <2>3, <2>4, <2>5, <2>6 DEF IndInv, Control
  <1>9. QED
    BY <1>1, <1>2, <1>3, <1>4, <1>5, <1>6, <1>7, <1>8, PlayRealPreserves DEF Next

(* The invariant holds in every reachable state of the pipeline, for every *)
(* size of the queues, every watermark and every song.                     *)
THEOREM Invariance == Spec => []IndInv
  <1>1. Init => IndInv
    BY InitEstablishes
  <1>2. IndInv /\ [Next]_vars => IndInv'
    BY StepPreserves
  <1>3. QED
    BY <1>1, <1>2, PTL DEF Spec

(* The types; in particular the two chunk_queues never hold more than      *)
(* init_queue has allocated, and no thread sleeps where it does not wait.  *)
THEOREM PipelineTypeCorrect == Spec => []TypeOK
  <1>1. IndInv => TypeOK
    BY DEF IndInv, Control
  <1>2. QED
    BY <1>1, Invariance, PTL

(* Every chunk the server sent is queued, in somebody's hands, played or   *)
(* passed over on purpose: enqueue_chunk, which refuses a chunk silently,  *)
(* is never called on a full queue.                                        *)
THEOREM NoChunkIsLost == Spec => []ChunksAccountedFor
  <1>1. IndInv => ChunksAccountedFor
    <2> SUFFICES ASSUME IndInv
                 PROVE  ChunksAccountedFor
      OBVIOUS
    <2>1. TypeOK /\ Accounted
      BY DEF IndInv, Control, Account
    <2>2. dec_at = "dec_decode" => thread["dec"].nap = "awake"
      BY <2>1, WaitPointsAre DEF TypeOK, Threads, dec_at
    <2>3. thread["dec"] \in [at : Labels, nap : {"awake", "dozing", "asleep"}]
      BY <2>1 DEF TypeOK, Threads
    <2>4. dec_at = "dec_decode" => At("dec", "dec_decode")
      BY <2>2, <2>3 DEF At, dec_at
    <2>5. QED
      BY <2>1, <2>4 DEF Accounted, ChunksAccountedFor
  <1>2. QED
    BY <1>1, Invariance, PTL

(* When the server has closed the connection and play_thread_func has come *)
(* to its end by itself with nothing left in its queue, a wav stream was   *)
(* played whole, but for what was passed over in front of a queue run dry. *)
THEOREM WavIsPlayedWhole == Spec => []WholeSong
  <1>1. IndInv => WholeSong
    <2> SUFFICES ASSUME IndInv, Wav, At("play", "done"), flag.innited, rx_result = "closed",
                        que_is_empty(player_que)
                 PROVE  Elements(played) \cup skipped = 1 .. got
      BY DEF WholeSong
    <2>1. TypeOK /\ Buffers /\ Order /\ Account
      BY DEF IndInv, Control
    <2>2. play_at = "done" /\ player_que = <<>> /\ ~InHand /\ Copied /\ Newest = got
      BY <2>1 DEF At, play_at, que_is_empty, InHand, Copied, Newest
    <2>3. AllButLast(player_que) = {}
      BY <2>2 DEF AllButLast
    <2>4. 1 .. got \subseteq Elements(played) \cup skipped
      BY <2>1, <2>2, <2>3 DEF Account, HasSuccessor
    <2>5. ASSUME NEW n \in DOMAIN played
          PROVE  played[n] \in 1 .. got
      <3>1. played[n] \in Nat /\ got \in Nat
        BY <2>1, ChunksAreNumbers
      <3>2. played[n] # 0 /\ played[n] <= got
        BY <2>1, <2>2 DEF Order, PlayedFirst, BeforeDecoded
      <3>3. QED
        BY <3>1, <3>2
    <2>6. ASSUME NEW c \in skipped
          PROVE  c \in 1 .. got
      <3>1. c \in Nat /\ got \in Nat
        BY <2>1, ChunksAreNumbers, ConstantsType DEF TypeOK, Chunks
      <3>2. QED
        BY <2>1, <3>1 DEF Account, SkippedReceived
    <2>7. Elements(played) \cup skipped \subseteq 1 .. got
      BY <2>5, <2>6 DEF Elements
    <2>8. QED
      BY <2>4, <2>7
  <1>2. QED
    BY <1>1, Invariance, PTL

=============================================================================
