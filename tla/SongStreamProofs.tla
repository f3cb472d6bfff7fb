--------------------------- MODULE SongStreamProofs ---------------------------
(***************************************************************************)
(* StreamPipeline implements SongStream, for every size of the queues,     *)
(* every watermark and every song.  A read of a chunk is Receive, playing  *)
(* it is Play, and the three places where the program passes over a chunk  *)
(* are PassOver; every other step leaves the song alone.                   *)
(***************************************************************************)
EXTENDS StreamPipelineProofs

(* The history of the song is that of the queues. *)
LEMMA HeardAre == Song!Heard = Elements(played)
  BY DEF Song!Heard, Elements

(* A chunk that was received, and behind which nothing has been played,    *)
(* may be passed over.                                                     *)
LEMMA MayPassOver ==
  ASSUME TypeOK, NEW c \in Nat, c # 0, c <= got, \A n \in DOMAIN played : played[n] <= c,
         skipped' = skipped \cup {c}, UNCHANGED <<got, tail, played>>
  PROVE  Song!Next
  <1>1. c \in 1 .. got
    BY ChunksAreNumbers
  <1>2. Song!PassOver(c)
    BY HeardAre DEF Song!PassOver, Elements
  <1>3. QED
    BY <1>1, <1>2 DEF Song!Next

(* The chunk that the player is about to play has nothing left before it:  *)
(* whatever is still queued, or in the decoder's hands, comes later.       *)
LEMMA NothingLeftBefore ==
  ASSUME IndInv, InHand, pr_chunk # 0, NEW b \in 1 .. pr_chunk - 1
  PROVE  b \in Elements(played) \cup skipped
  <1>1. TypeOK /\ Buffers /\ Order /\ Account
    BY DEF IndInv, Control
  <1>2. b \in Nat /\ b < pr_chunk /\ b \in 1 .. got
    <2>1. pr_chunk \in Nat /\ got \in Nat /\ pr_chunk <= got
      BY <1>1, ChunksAreNumbers DEF Order, HandInOrder, DecoderInOrder, Newest
    <2>2. QED
      BY <2>1
  <1>3. b \notin Elements(decoder_que)
    <2>1. CASE Wav
      BY <1>1, <2>1 DEF Buffers, Elements
    <2>2. CASE ~Wav
      <3>1. pr_chunk <= d_chunk
        BY <1>1, <2>2 DEF Order, HandInOrder, Newest
      <3>2. ASSUME NEW j \in DOMAIN decoder_que
            PROVE  b # decoder_que[j]
        <4>1. d_chunk <= decoder_que[j]
          BY <1>1, ChunksAreNumbers DEF Order, DecoderInOrder, Before
        <4>2. decoder_que[j] \in Nat /\ d_chunk \in Nat /\ pr_chunk \in Nat
          BY <1>1, ChunksAreNumbers
        <4>3. QED
          BY <1>2, <3>1, <4>1, <4>2
      <3>3. QED
        BY <3>2 DEF Elements
    <2>3. QED
      BY <2>1, <2>2
  <1>4. b \notin Elements(player_que)
    <2>1. ASSUME NEW k \in DOMAIN player_que
          PROVE  b # player_que[k]
      <3>1. Before(pr_chunk, player_que[k], k = Len(player_que) /\ CopyPassed)
        BY <1>1 DEF Order, HandInOrder
      <3>2. player_que[k] \in Nat /\ pr_chunk \in Nat
        BY <1>1, ChunksAreNumbers
      <3>3. QED
        BY <1>2, <3>1, <3>2 DEF Before
    <2>2. QED
      BY <2>1 DEF Elements
  <1>5. dec_at = "dec_decode" => b # d_chunk
    <2>1. dec_at = "dec_decode" => Before(pr_chunk, d_chunk, decoder_que = <<>> /\ Copied)
      BY <1>1 DEF Order, HandInOrder, BeforeDecoded
    <2>2. d_chunk \in Nat /\ pr_chunk \in Nat
      BY <1>1, ChunksAreNumbers
    <2>3. QED
      BY <1>2, <2>1, <2>2 DEF Before
  <1>6. b # pr_chunk
    BY <1>1, <1>2, ChunksAreNumbers
  <1>7. QED
    BY <1>1, <1>2, <1>3, <1>4, <1>5, <1>6 DEF Account, Accounted

(* A read of a chunk, but for the header of a wav stream. *)
LEMMA ReadReceives ==
  ASSUME read_data
  PROVE  Song!Next \/ UNCHANGED Song!song
  <1>1. UNCHANGED <<played, skipped>>
    BY DEF read_data, ReadOutcome
  <1>2. CASE flag.is_first_player_chunk
    BY <1>1, <1>2 DEF read_data, Song!song
  <1>3. CASE ~flag.is_first_player_chunk
    <2>1. got' = got + 1 /\ (tail' = Append(tail, got') \/ tail' = Append(tail, LastTail))
      BY <1>3 DEF read_data
    <2>2. Song!Receive
      BY <1>1, <2>1 DEF LastTail, Song!Receive
    <2>3. QED
      BY <2>2 DEF Song!Next
  <1>4. QED
    BY <1>2, <1>3

(* A chunk without sound. *)
LEMMA SilentPassesOver ==
  ASSUME IndInv, dec_silent
  PROVE  Song!Next \/ UNCHANGED Song!song
  <1>1. TypeOK /\ Buffers /\ Order /\ dec_at = "dec_decode"
    BY DEF IndInv, Control, dec_silent, At, dec_at
  <1>2. skipped' = skipped \cup ({d_chunk} \ {0}) /\ UNCHANGED <<got, tail, played>>
    BY DEF dec_silent
  <1>3. ~Wav
    BY <1>1 DEF Buffers
  <1>4. d_chunk \in Nat /\ d_chunk <= got /\ \A n \in DOMAIN played : played[n] <= d_chunk
    BY <1>1, <1>3, ChunksAreNumbers DEF Order, DecoderInOrder, PlayedFirst, BeforeDecoded, Newest
  <1>5. CASE d_chunk = 0
    BY <1>2, <1>5 DEF Song!song
  <1>6. CASE d_chunk # 0
    <2>1. skipped' = skipped \cup {d_chunk}
      BY <1>2, <1>6
    <2>2. QED
      BY <1>1, <1>2, <1>4, <1>6, <2>1, MayPassOver
  <1>7. QED
    BY <1>5, <1>6

(* What the player has in its hands was received, and nothing behind it    *)
(* has been played.                                                        *)
LEMMA HandIsNext ==
  ASSUME IndInv
  PROVE  /\ pr_chunk \in Nat /\ pr_chunk <= got
         /\ \A n \in DOMAIN played : played[n] <= pr_chunk
  <1>1. TypeOK /\ Order
    BY DEF IndInv, Control
  <1>2. pr_chunk \in Nat /\ pr_chunk <= got
    BY <1>1, ChunksAreNumbers DEF Order, HandInOrder, DecoderInOrder, Newest
  <1>3. QED
    BY <1>1, <1>2 DEF Order, PlayedFirst

(* The last chunk of a queue that runs dry. *)
LEMMA DryPassesOver ==
  ASSUME IndInv, play_empty \/ play_again
  PROVE  Song!Next \/ UNCHANGED Song!song
  <1>1. /\ UNCHANGED <<got, tail, played>>
        /\ skipped' = skipped \/ skipped' = skipped \cup ({pr_chunk} \ {0})
    BY DEF play_empty, play_again, PassesOver, Ends
  <1>2. CASE skipped' = skipped
    BY <1>1, <1>2 DEF Song!song
  <1>3. CASE pr_chunk = 0
    BY <1>1, <1>3 DEF Song!song
  <1>4. CASE pr_chunk # 0 /\ skipped' = skipped \cup {pr_chunk}
    <2>1. TypeOK
      BY DEF IndInv, Control
    <2>2. QED
      BY <1>1, <1>4, <2>1, HandIsNext, MayPassOver
  <1>5. QED
    BY <1>1, <1>2, <1>3, <1>4

(* A chunk is played, or opens the device. *)
LEMMA RealPlays ==
  ASSUME IndInv, play_real
  PROVE  Song!Next \/ UNCHANGED Song!song
  <1>1. TypeOK /\ Stock /\ Order /\ play_at = "play_real" /\ InHand
        /\ UNCHANGED <<got, tail>>
    BY DEF IndInv, Control, play_real, At, play_at, InHand
  <1>2. CASE pr_chunk = 0
    BY <1>1, <1>2 DEF play_real, Song!song
  <1>3. CASE pr_chunk # 0 /\ opened
    <2>1. played' = Append(played, pr_chunk) /\ skipped' = skipped
      BY <1>3 DEF play_real
    <2>2. \A n \in DOMAIN played : played[n] < pr_chunk
      BY <1>1 DEF Order, PlayedFirst, Stock, Before
    <2>3. \A b \in 1 .. pr_chunk - 1 : b \in Elements(played) \cup skipped
      BY <1>1, <1>3, NothingLeftBefore
    <2>4. Song!Play(pr_chunk)
      BY <1>1, <2>1, <2>2, <2>3, HeardAre DEF Song!Play, Elements
    <2>5. pr_chunk \in 1 .. got
      BY <1>1, <1>3, HandIsNext, ChunksAreNumbers
    <2>6. QED
      BY <2>4, <2>5 DEF Song!Next
  <1>4. CASE pr_chunk # 0 /\ ~opened
    <2>1. skipped' = skipped \cup {pr_chunk} /\ played' = played
      BY <1>4 DEF play_real
    <2>2. QED
      BY <1>1, <1>4, <2>1, HandIsNext, MayPassOver
  <1>5. QED
    BY <1>2, <1>3, <1>4

(* Every step of a thread is a step of the song, or none. *)
LEMMA SongStep ==
  ASSUME IndInv, [Next]_vars
  PROVE  Song!Next \/ UNCHANGED Song!song
  <1>1. ASSUME NEW t \in Threads, wait(t) \/ spurious_wakeup(t)
        PROVE  UNCHANGED <<got, tail, played, skipped>>
    BY <1>1 DEF wait, wait_test, pthread_cond_wait, spurious_wakeup, history
  <1>2. CASE rx
    <2>1. CASE read_data
      BY <2>1, ReadReceives
    <2>2. CASE wait("rx") \/ rx_top \/ rx_loop \/ read_closed \/ read_failed
               \/ read_select_error \/ stop_signals("rx", "rx_stop", "error")
               \/ rx_got_result \/ rx_full \/ join \/ release
      <3>1. UNCHANGED <<got, tail, played, skipped>>
        BY <1>1, <2>2 DEF Threads, rx_top, rx_loop, read_closed, read_failed, ReadOutcome,
           read_select_error, stop_client_stream, stop_signals, rx_got_result, rx_full, join,
           release, history
      <3>2. QED
        BY <3>1 DEF Song!song
    <2>3. QED
      BY <1>2, <2>1, <2>2 DEF rx
  <1>3. CASE dec
    <2>1. CASE dec_silent
      BY <2>1, SilentPassesOver
    <2>2. CASE wait("dec") \/ dec_top \/ dec_take \/ dec_sound \/ dec_queued \/ dec_next
               \/ dec_empty \/ dec_again
      <3>1. UNCHANGED <<got, tail, played, skipped>>
        BY <1>1, <2>2 DEF Threads, dec_top, dec_take, dec_sound, dec_queued, dec_next,
           dec_empty, dec_again, history
      <3>2. QED
        BY <3>1 DEF Song!song
    <2>3. QED
      BY <1>3, <2>1, <2>2 DEF dec
  <1>4. CASE play
    <2>1. CASE play_empty \/ play_again
      BY <2>1, DryPassesOver
    <2>2. CASE wait("play") \/ play_top \/ play_take \/ play_show \/ play_look
      <3>1. UNCHANGED <<got, tail, played, skipped>>
        BY <1>1, <2>2 DEF Threads, play_top, play_take, play_show, play_look, history
      <3>2. QED
        BY <3>1 DEF Song!song
    <2>3. QED
      BY <1>4, <2>1, <2>2 DEF play
  <1>5. CASE input \/ stats \/ handler \/ environment \/ UNCHANGED vars
    <2>1. CASE input
      BY <1>1, <2>1 DEF Threads, input, input_loop, no_key, pause_set, stop_signals,
         stop_client_stream, history, Song!song
    <2>2. CASE stats \/ handler
      BY <1>1, <2>2 DEF Threads, stats, stats_loop, stats_frame, handler, stop_signals, history, Song!song
    <2>3. CASE environment
      BY <1>1, <2>3 DEF environment, pause_key, stop_key, key_select_error, sigint_handler, stop_client_stream,
         history, Song!song
    <2>4. CASE UNCHANGED vars
      BY <2>4 DEF vars, history, Song!song
    <2>5. QED
      BY <1>5, <2>1, <2>2, <2>3, <2>4
  <1>6. QED
    BY <1>2, <1>3, <1>4, <1>5, RealPlays DEF Next

(* The pipeline implements SongStream: the chunks reach the sound device   *)
(* in order, and with no gap but for those passed over.                    *)
THEOREM PipelineImplementsSong == Spec => ImplementsSong
  <1>1. Init => Song!Init
    BY DEF Init, Song!Init
  <1>2. IndInv /\ [Next]_vars => [Song!Next]_Song!song
    BY SongStep
  <1>3. QED
    BY <1>1, <1>2, Invariance, PTL DEF Spec, ImplementsSong, Song!Spec

=============================================================================
