--------------------------- MODULE StreamPipeline ---------------------------
(***************************************************************************)
(* The client's streaming pipeline (code/client, streamer_client.c): five  *)
(* threads, two bounded queues and six condition variables.                *)
(*                                                                         *)
(*   "rx"     reads chunks from the server; it is also the main thread,    *)
(*            which then waits for the end and joins the others;           *)
(*   "dec"    decodes chunks (mp3 only): decoder_que -> player_que;        *)
(*   "play"   plays what it takes off player_que;                          *)
(*   "input"  reads the keys 'p' (pause) and 's' (stop);                   *)
(*   "stats"  draws the screen;                                            *)
(*   "handler" is the SIGINT/SIGPIPE handler, on whichever thread it runs. *)
(*                                                                         *)
(* The flags are atomic_int, the queues are locked by every operation.     *)
(* Every pthread_cond_signal is sent without the mutex of the thread that  *)
(* waits, so between the test of a wait loop and pthread_cond_wait there   *)
(* is a window in which a signal is lost: a thread in it is "dozing".      *)
(*                                                                         *)
(* The n-th chunk of the song, what the n-th read of it delivered, is the  *)
(* number n; 0 is a buffer of zeros.                                       *)
(***************************************************************************)
EXTENDS Integers, Sequences, FiniteSets

CONSTANTS
  Wav,             \* is_wav_compat_mode(): no decoder thread
  ShowStats,       \* stream_show_stats: there is a stats thread
  DecoderMax,      \* cfg_stream_decoder_cache_size_chunks
  PlayerMax,       \* cfg_stream_player_cache_size_chunks
  AlmostEmptyPct,  \* cfg_cache_almost_empty_pct
  AlmostFullPct,   \* cfg_cache_almost_full_pct
  SongChunks,      \* how many chunks the server sends, at most
  ShortReads,      \* how many reads deliver less than a chunk, at most
  MaxPauses,       \* how often the user presses 'p', at most
  Stops            \* how the client may be stopped from outside: "key" ('s'),
                   \* "signal" (^C), "select" (an error of select in getsome)

ASSUME StreamPipelineAssumption ==
  /\ Wav \in BOOLEAN /\ ShowStats \in BOOLEAN /\ Stops \subseteq {"key", "signal", "select"}
  /\ DecoderMax \in Nat \ {0} /\ PlayerMax \in Nat \ {0}
  /\ AlmostEmptyPct \in 0 .. 100 /\ AlmostFullPct \in 0 .. 100
  /\ SongChunks \in Nat /\ ShortReads \in Nat /\ MaxPauses \in Nat

Threads == {"rx", "dec", "play", "input", "stats", "handler"}

Flags == {"innited", "paused", "terminating", "input_thread_alive", "ready_2_go",
          "reading", "decoding", "showing", "is_first_player_chunk"}

VARIABLES
  flag,         \* the atomic_int flags of streamer_client.c
  thread,       \* where each thread is
  decoder_que,  \* the two chunk_queues, oldest chunk first
  player_que,
  rx_result,    \* "data", "timeout" (-2), "closed" (0) or "error" (-1)
  r_chunk,      \* the buffers: last chunk read,
  d_chunk,      \*   taken by the decoder,
  pr_chunk,     \*   and taken by the player
  opened,       \* the playing library was opened for the song's format
  pause_value,  \* the input thread's copy of paused
  pauses,       \* how often 'p' was pressed
  got,          \* history: chunks received
  tail,         \*   the chunk whose sound is at the end of the n-th one's buffer
  played,       \*   chunks handed to the sound device, in order
  skipped,      \*   chunks the program passed over: no sound came of them, they
                \*   opened the device, or the queue ran dry behind them
  missed        \*   a thread was dozing when a stop began

data == <<decoder_que, player_que, rx_result, r_chunk, d_chunk, pr_chunk, opened>>
user == <<pause_value, pauses>>
history == <<got, tail, played, skipped, missed>>
vars == <<flag, thread, data, user, history>>

-----------------------------------------------------------------------------
(* queue_arithmetic.c, on a queue q of at most max chunks.  The percentage *)
(* is rounded to the nearest integer.                                      *)

pct_frac_of_nums(n, max) == (200 * n + max) \div (2 * max)

que_is_empty(q) == q = <<>>

(* A queue that counts as full one chunk too late (a mutation). *)
que_is_full_late(q, max) == Len(q) > max

que_is_full(q, max) == Len(q) = max
que_is_almost_empty(q, max) == pct_frac_of_nums(Len(q), max) <= AlmostEmptyPct
que_is_almost_full(q, max) == pct_frac_of_nums(Len(q), max) >= AlmostFullPct

(* queue_menus.c: a full queue refuses a chunk without saying so, and an   *)
(* empty one leaves the caller's buffer as it was.                         *)
enqueue_chunk(q, max, c) == IF que_is_full(q, max) THEN q ELSE Append(q, c)
dequeue_chunk(q) == IF que_is_empty(q) THEN q ELSE Tail(q)
dequeued(q, buff) == IF que_is_empty(q) THEN buff ELSE Head(q)

-----------------------------------------------------------------------------
(* Threads and condition variables.  The labels at which a thread waits,   *)
(* the condition variable of each, the test of its loop and what follows.  *)

cond == [rx_check |-> "reading_cond", run_check |-> "running_cond",
         dec_start |-> "decoder_cond", dec_check |-> "decoder_cond",
         play_start |-> "player_cond", play_check |-> "player_cond",
         in_start |-> "input_cond", st_start |-> "stats_cond"]

WaitPoints == DOMAIN cond

(* A stop that does not signal the player (a mutation). *)
AllConds_but_player == {"reading_cond", "running_cond", "decoder_cond", "input_cond",
                        "stats_cond"}

(* A stop that does not signal the decoder (a mutation). *)
AllConds_but_decoder == {"reading_cond", "running_cond", "player_cond", "input_cond",
                         "stats_cond"}

AllConds == {"reading_cond", "running_cond", "decoder_cond", "player_cond",
             "input_cond", "stats_cond"}

after == [rx_check |-> "rx_top", run_check |-> "join", dec_start |-> "dec_top",
          dec_check |-> "dec_top", play_start |-> "play_top",
          play_check |-> "play_top", in_start |-> "in_loop", st_start |-> "st_loop"]

MustWait(label) ==
  CASE label = "rx_check" ->
         flag.innited /\ (flag.paused \/ (IF Wav THEN que_is_full(player_que, PlayerMax)
                                          ELSE que_is_almost_full(decoder_que, DecoderMax)))
    [] label = "run_check"  -> flag.innited /\ ~flag.terminating
    [] label = "dec_start"  -> ~flag.ready_2_go /\ flag.innited
    [] label = "dec_check"  ->
         flag.innited /\ (\/ flag.paused
                          \/ que_is_almost_full(player_que, PlayerMax)
                          \/ que_is_almost_empty(decoder_que, DecoderMax))
    [] label \in {"play_start", "in_start"} ->
         IF Wav THEN ~flag.reading /\ flag.innited ELSE ~flag.decoding
    [] label = "play_check" ->
         flag.innited /\ (flag.paused \/ que_is_almost_empty(player_que, PlayerMax))
    [] label = "st_start"   -> ~flag.showing /\ flag.innited

At(t, label) == thread[t] = [at |-> label, nap |-> "awake"]

(* Thread t goes on at `to', having signalled the condition variables C.   *)
Go(t, to, C) ==
  thread' = [u \in Threads |->
               IF u = t THEN [at |-> to, nap |-> "awake"]
               ELSE IF thread[u].nap = "asleep" /\ cond[thread[u].at] \in C
               THEN [thread[u] EXCEPT !.nap = "awake"]
               ELSE thread[u]]

SomeoneDozes == \E t \in Threads : thread[t].nap = "dozing"

wait_test(t) ==
  /\ thread[t].nap = "awake" /\ thread[t].at \in WaitPoints
  /\ thread' = [thread EXCEPT ![t] =
                  IF MustWait(thread[t].at) THEN [at |-> thread[t].at, nap |-> "dozing"]
                  ELSE [at |-> after[thread[t].at], nap |-> "awake"]]
  /\ UNCHANGED <<flag, data, user, history>>

(* The flag that shows the thread idle is cleared just before the call. *)
pthread_cond_wait(t) ==
  /\ thread[t].nap = "dozing"
  /\ thread' = [thread EXCEPT ![t].nap = "asleep"]
  /\ flag' = CASE thread[t].at = "rx_check"  -> [flag EXCEPT !.reading = FALSE]
               [] thread[t].at = "dec_check" -> [flag EXCEPT !.decoding = FALSE]
               [] OTHER -> flag
  /\ UNCHANGED <<data, user, history>>

(* POSIX lets pthread_cond_wait return without a signal. *)
spurious_wakeup(t) ==
  /\ thread[t].nap = "asleep"
  /\ thread' = [thread EXCEPT ![t].nap = "awake"]
  /\ UNCHANGED <<flag, data, user, history>>

Stopped(f) == [f EXCEPT !.innited = FALSE, !.reading = FALSE, !.paused = FALSE,
                        !.decoding = TRUE]

(* stop_client_stream: the flags first, then a signal to everyone. *)
stop_client_stream(t, f, to) ==
  /\ flag' = Stopped(f)
  /\ missed' = (missed \/ SomeoneDozes)
  /\ Go(t, to, {})
  /\ UNCHANGED <<data, user, got, tail, played, skipped>>

stop_signals(t, from, to) ==
  /\ At(t, from)
  /\ Go(t, to, AllConds)
  /\ UNCHANGED <<flag, data, user, history>>

-----------------------------------------------------------------------------
(* rx_thread_func *)

rx_top ==
  /\ At("rx", "rx_top")
  /\ IF flag.innited
     THEN /\ flag' = [flag EXCEPT !.ready_2_go = TRUE, !.reading = TRUE]
          /\ Go("rx", "rx_loop", IF Wav THEN {} ELSE {"decoder_cond"})
     ELSE /\ Go("rx", "run_check", {})
          /\ UNCHANGED flag
  /\ UNCHANGED <<data, user, history>>

rx_loop ==
  /\ At("rx", "rx_loop")
  /\ Go("rx", IF flag.innited /\ ~flag.paused THEN "rx_read" ELSE "rx_check", {})
  /\ UNCHANGED <<flag, data, user, history>>

(* What read_chunk does with what it read: the first chunk of a wav stream *)
(* is its header, every other one is queued.                               *)
Store(c) ==
  IF flag.is_first_player_chunk
  THEN /\ flag' = [flag EXCEPT !.is_first_player_chunk = FALSE]
       /\ opened' = TRUE
       /\ UNCHANGED <<decoder_que, player_que, r_chunk>>
  ELSE /\ r_chunk' = c
       /\ IF Wav
          THEN /\ player_que' = enqueue_chunk(player_que, PlayerMax, c)
               /\ UNCHANGED decoder_que
          ELSE /\ decoder_que' = enqueue_chunk(decoder_que, DecoderMax, c)
               /\ UNCHANGED player_que
       /\ UNCHANGED <<flag, opened>>

(* A read may last long: the stream can be paused or stopped meanwhile. *)
ReadOutcome(result) ==
  /\ At("rx", "rx_read")
  /\ Go("rx", result, {})
  /\ UNCHANGED <<rx_result, d_chunk, pr_chunk, user, played, skipped, missed>>

(* The sound at the end of the buffer before the next read. *)
LastTail == IF got = 0 THEN 0 ELSE tail[got]

Shorts == {n \in 1 .. got : tail[n] # n}

(* read_chunk: readsome is one recv, which may deliver less than a chunk;  *)
(* the whole buffer is queued, so a chunk that came short ends with what   *)
(* the buffer held before.                                                 *)
read_data ==
  /\ got < SongChunks
  /\ ReadOutcome("data")
  /\ Store(IF flag.is_first_player_chunk THEN 0 ELSE got + 1)
  /\ IF flag.is_first_player_chunk THEN UNCHANGED <<got, tail>>
     ELSE /\ got' = got + 1
          /\ \/ tail' = Append(tail, got + 1)
             \/ Cardinality(Shorts) < ShortReads /\ tail' = Append(tail, LastTail)

(* A read of 0 bytes that is not stored (a mutation). *)
read_closed_unstored ==
  /\ ReadOutcome("closed")
  /\ UNCHANGED <<flag, decoder_que, player_que, r_chunk, opened, got, tail>>

(* readsome returns 0 when the server has closed the connection; that is   *)
(* not below 0, so the buffer's old contents are stored once more.         *)
read_closed ==
  /\ ReadOutcome("closed")
  /\ Store(r_chunk)
  /\ UNCHANGED <<got, tail>>

read_failed ==
  /\ ReadOutcome("timeout") \/ ReadOutcome("error")
  /\ UNCHANGED <<flag, decoder_que, player_que, r_chunk, opened, got, tail>>

(* An error of select (in readsome; a handled signal is one) also calls    *)
(* exit_func_for_this_module, which here is stop_client_stream.            *)
read_select_error ==
  /\ At("rx", "rx_read")
  /\ stop_client_stream("rx", flag, "rx_stop")

Invalid(result) == result \in {"closed", "error"}

(* rx_result = read_chunk(...); an invalid result ends the thread without  *)
(* a signal.  A timeout is treated like data.                              *)
rx_got_result ==
  \E r \in {"data", "timeout", "closed", "error"} :
    /\ At("rx", r)
    /\ rx_result' = r
    /\ IF Invalid(r) THEN Go("rx", "run_check", {})
       ELSE Go("rx", "rx_full",
               {"input_cond"} \cup (IF ~Wav THEN {"decoder_cond"}
                                    ELSE IF flag.is_first_player_chunk THEN {}
                                    ELSE {"player_cond"}))
    /\ UNCHANGED <<flag, decoder_que, player_que, r_chunk, d_chunk, pr_chunk, opened,
                   user, history>>

rx_full ==
  /\ At("rx", "rx_full")
  /\ IF IF Wav THEN que_is_full(player_que, PlayerMax)
        ELSE que_is_full(decoder_que, DecoderMax)
     THEN Go("rx", "rx_check", IF Wav THEN {} ELSE {"decoder_cond"})
     ELSE Go("rx", "rx_loop", {})
  /\ UNCHANGED <<flag, data, user, history>>

-----------------------------------------------------------------------------
(* dec_thread_func *)

dec_top ==
  /\ At("dec", "dec_top")
  /\ IF flag.innited
     THEN Go("dec", "dec_loop", {}) /\ flag' = [flag EXCEPT !.decoding = TRUE]
     ELSE Go("dec", "done", {}) /\ UNCHANGED flag
  /\ UNCHANGED <<data, user, history>>

dec_take ==
  /\ At("dec", "dec_loop")
  /\ IF flag.innited
     THEN /\ d_chunk' = dequeued(decoder_que, d_chunk)
          /\ decoder_que' = dequeue_chunk(decoder_que)
          /\ Go("dec", "dec_decode", {})
     ELSE Go("dec", "dec_check", {}) /\ UNCHANGED <<d_chunk, decoder_que>>
  /\ UNCHANGED <<flag, player_que, rx_result, r_chunk, pr_chunk, opened, user, history>>

(* perform_dec_op(D_DECODE_CHUNK): the decoder gives sound for the chunk,  *)
(* nothing (it needs more, or the chunk is empty), or an error.            *)
dec_sound ==
  /\ At("dec", "dec_decode") /\ d_chunk # 0
  /\ player_que' = enqueue_chunk(player_que, PlayerMax, d_chunk)
  /\ Go("dec", "dec_queued", {"player_cond"})
  /\ UNCHANGED <<flag, decoder_que, rx_result, r_chunk, d_chunk, pr_chunk, opened,
                 user, history>>

(* MPG123_NEED_MORE, MPG123_OK and MPG123_NEW_FORMAT go on; MPG123_DONE    *)
(* and MPG123_ERR end the thread.                                          *)
Decoded ==
  Go("dec", "dec_next", {"reading_cond"}) \/ Go("dec", "done", {"reading_cond"})

dec_silent ==
  /\ At("dec", "dec_decode")
  /\ Decoded
  /\ skipped' = skipped \cup ({d_chunk} \ {0})
  /\ UNCHANGED <<flag, data, user, got, tail, played, missed>>

(* A decoder that does not look whether player_que is full (a mutation). *)
dec_queued_unlooked ==
  /\ At("dec", "dec_queued")
  /\ Decoded
  /\ UNCHANGED <<flag, data, user, history>>

(* Leaving the loop because player_que is full skips the signal to rx, and *)
(* the test of what the decoder returned.                                  *)
dec_queued ==
  /\ At("dec", "dec_queued")
  /\ IF que_is_full(player_que, PlayerMax) THEN Go("dec", "dec_check", {})
     ELSE Decoded
  /\ UNCHANGED <<flag, data, user, history>>

dec_next ==
  /\ At("dec", "dec_next")
  /\ Go("dec", IF flag.paused THEN "dec_check"
               ELSE IF que_is_empty(decoder_que) THEN "dec_empty" ELSE "dec_loop", {})
  /\ UNCHANGED <<flag, data, user, history>>

(* READ_RESULT_INVALID reads rx_result for a <= 0 and, if it is, again for *)
(* a # -2.  Only a timeout can have changed by then.                       *)
dec_empty ==
  /\ At("dec", "dec_empty")
  /\ Go("dec", IF Invalid(rx_result) THEN "done"
               ELSE IF rx_result = "timeout" THEN "dec_again" ELSE "dec_check", {})
  /\ UNCHANGED <<flag, data, user, history>>

dec_again ==
  /\ At("dec", "dec_again")
  /\ Go("dec", IF rx_result = "timeout" THEN "dec_check" ELSE "done", {})
  /\ UNCHANGED <<flag, data, user, history>>

-----------------------------------------------------------------------------
(* play_thread_func *)

(* end_player: the player's last words. *)
Ended == [flag EXCEPT !.input_thread_alive = FALSE, !.terminating = TRUE]

play_top ==
  /\ At("play", "play_top")
  /\ IF flag.innited THEN Go("play", "play_loop", {}) /\ UNCHANGED flag
     ELSE Go("play", "done", {}) /\ flag' = Ended
  /\ UNCHANGED <<data, user, history>>

(* A player that looks at the pause after it has taken a chunk (a mutation). *)
play_take_paused ==
  /\ At("play", "play_loop")
  /\ ~flag.innited \/ ~flag.is_first_player_chunk
  /\ pr_chunk' = dequeued(player_que, pr_chunk)
  /\ player_que' = dequeue_chunk(player_que)
  /\ Go("play", IF ~flag.innited \/ flag.paused THEN "play_check" ELSE "play_taken", {})
  /\ UNCHANGED <<flag, decoder_que, rx_result, r_chunk, d_chunk, opened, user, history>>

(* Until the header of a wav stream is there the loop spins. *)
play_take ==
  /\ At("play", "play_loop")
  /\ ~flag.innited \/ ~flag.is_first_player_chunk
  /\ IF ~flag.innited \/ flag.paused
     THEN Go("play", "play_check", {}) /\ UNCHANGED <<pr_chunk, player_que>>
     ELSE /\ pr_chunk' = dequeued(player_que, pr_chunk)
          /\ player_que' = dequeue_chunk(player_que)
          /\ Go("play", "play_taken", {})
  /\ UNCHANGED <<flag, decoder_que, rx_result, r_chunk, d_chunk, opened, user, history>>

play_show ==
  /\ At("play", "play_taken")
  /\ flag' = [flag EXCEPT !.showing = TRUE]
  /\ Go("play", "play_look",
        {"stats_cond"} \cup (IF Wav THEN {"reading_cond"} ELSE {"decoder_cond"}))
  /\ UNCHANGED <<data, user, history>>

play_look ==
  /\ At("play", "play_look")
  /\ Go("play", IF que_is_empty(player_que) THEN "play_empty" ELSE "play_real", {})
  /\ UNCHANGED <<flag, data, user, history>>

(* If that was the last chunk of the queue it is not played. *)
PassesOver ==
  /\ Go("play", "play_check", {})
  /\ skipped' = skipped \cup ({pr_chunk} \ {0})
  /\ UNCHANGED flag

Ends ==
  /\ Go("play", "done", {})
  /\ flag' = Ended
  /\ UNCHANGED skipped

(* A player that plays what it has when nothing more will come (a mutation). *)
play_empty_endless ==
  /\ At("play", "play_empty")
  /\ IF Invalid(rx_result)
     THEN Go("play", "play_real", {}) /\ UNCHANGED <<flag, skipped>>
     ELSE PassesOver
  /\ UNCHANGED <<data, user, got, tail, played, missed>>

(* The look at the queue may be stale by now: rx can have stored more, and *)
(* the copy of the last chunk, before it sets rx_result.                   *)
play_empty ==
  /\ At("play", "play_empty")
  /\ IF Invalid(rx_result) THEN Ends
     ELSE IF rx_result = "timeout"
     THEN Go("play", "play_again", {}) /\ UNCHANGED <<flag, skipped>>
     ELSE PassesOver
  /\ UNCHANGED <<data, user, got, tail, played, missed>>

(* The second read of READ_RESULT_INVALID: a timeout that has become data  *)
(* ends the player in the middle of the song.                              *)
play_again ==
  /\ At("play", "play_again")
  /\ IF rx_result = "timeout" THEN PassesOver ELSE Ends
  /\ UNCHANGED <<data, user, got, tail, played, missed>>

(* safe_play_wrapper: a chunk in a new format opens the library instead of *)
(* being played; an mp3 chunk without sound is passed over.                *)
play_real ==
  /\ At("play", "play_real")
  /\ Go("play", "play_loop", {})
  /\ IF pr_chunk = 0 THEN UNCHANGED <<opened, played, skipped>>
     ELSE IF opened THEN played' = Append(played, pr_chunk) /\ UNCHANGED <<opened, skipped>>
     ELSE opened' = TRUE /\ skipped' = skipped \cup {pr_chunk} /\ UNCHANGED played
  /\ UNCHANGED <<flag, decoder_que, player_que, rx_result, r_chunk, d_chunk, pr_chunk,
                 user, got, tail, missed>>

-----------------------------------------------------------------------------
(* input_thread_func, show_stats, and the signal handler *)

(* A key is awaited for at most 3 seconds, and the flag looked at again. *)
input_loop ==
  /\ At("input", "in_loop")
  /\ IF flag.input_thread_alive
     THEN Go("input", "in_read", {}) /\ UNCHANGED <<flag, data, user, history>>
     ELSE stop_client_stream("input", [flag EXCEPT !.terminating = TRUE], "in_last")

no_key ==
  /\ At("input", "in_read")
  /\ Go("input", "in_loop", {})
  /\ UNCHANGED <<flag, data, user, history>>

(* 'p': a pause that ends signals the sleepers before it clears the flag,  *)
(* and the decoder not at all.                                             *)
pause_key ==
  /\ At("input", "in_read")
  /\ pauses < MaxPauses
  /\ pauses' = pauses + 1
  /\ pause_value' = flag.paused
  /\ Go("input", "in_pause", IF flag.paused THEN {"reading_cond", "player_cond"} ELSE {})
  /\ UNCHANGED <<flag, data, history>>

pause_set ==
  /\ At("input", "in_pause")
  /\ flag' = [flag EXCEPT !.paused = ~pause_value]
  /\ Go("input", "in_loop", {})
  /\ UNCHANGED <<data, user, history>>

(* 's' *)
stop_key ==
  /\ At("input", "in_read") /\ "key" \in Stops
  /\ stop_client_stream("input", [flag EXCEPT !.input_thread_alive = FALSE], "in_stop")

(* An error of select in getsome stops the stream too, and input goes on.  *)
key_select_error ==
  /\ At("input", "in_read") /\ "select" \in Stops
  /\ stop_client_stream("input", flag, "in_stop")

(* perform_play_op holds a mutex, for the player as long as the sound      *)
(* library takes; the statistics, until they have the format, and the      *)
(* clean-up need it too.                                                   *)
PlayerFree == thread["play"].at # "play_real"

stats_loop ==
  /\ At("stats", "st_loop")
  /\ Go("stats", IF flag.innited THEN "st_frame" ELSE "done", {})
  /\ UNCHANGED <<flag, data, user, history>>

stats_frame ==
  /\ At("stats", "st_frame") /\ PlayerFree
  /\ Go("stats", "st_loop", {})
  /\ UNCHANGED <<flag, data, user, history>>

(* SIGINT or SIGPIPE, once. *)
sigint_handler ==
  /\ At("handler", "h_idle") /\ "signal" \in Stops
  /\ stop_client_stream("handler",
       [flag EXCEPT !.input_thread_alive = FALSE, !.terminating = TRUE], "h_signals")

(* The end of init_client_stream: stats, input and decoder are joined, the *)
(* player only waited for with a time limit; then everything is released,  *)
(* the player under its mutex.                                             *)
join ==
  /\ At("rx", "join")
  /\ \A t \in {"stats", "input", "dec"} : At(t, "done")
  /\ Go("rx", "release", {})
  /\ UNCHANGED <<flag, data, user, history>>

release ==
  /\ At("rx", "release") /\ PlayerFree
  /\ Go("rx", "done", {})
  /\ UNCHANGED <<flag, data, user, history>>

-----------------------------------------------------------------------------
Init ==
  /\ flag = [f \in Flags |->
               f \in {"innited", "input_thread_alive"}
               \/ (f = "is_first_player_chunk" /\ Wav)]
  /\ thread = [t \in Threads |->
                 [at |-> CASE t = "rx" -> "rx_top" [] t = "play" -> "play_start"
                           [] t = "input" -> "in_start" [] t = "stats" -> IF ShowStats THEN "st_start" ELSE "done"
                           [] t = "handler" -> "h_idle"
                           [] t = "dec" -> IF Wav THEN "done" ELSE "dec_start",
                  nap |-> "awake"]]
  /\ decoder_que = <<>> /\ player_que = <<>>
  /\ rx_result = "data"
  /\ r_chunk = 0 /\ d_chunk = 0 /\ pr_chunk = 0
  /\ opened = FALSE
  /\ pause_value = FALSE /\ pauses = 0
  /\ got = 0 /\ tail = <<>> /\ played = <<>> /\ skipped = {} /\ missed = FALSE

wait(t) == wait_test(t) \/ pthread_cond_wait(t)

rx == \/ wait("rx") \/ rx_top \/ rx_loop \/ read_data \/ read_closed
      \/ read_failed \/ read_select_error \/ stop_signals("rx", "rx_stop", "error")
      \/ rx_got_result \/ rx_full \/ join \/ release

dec == \/ wait("dec") \/ dec_top \/ dec_take \/ dec_sound \/ dec_silent
       \/ dec_queued \/ dec_next \/ dec_empty \/ dec_again

play == \/ wait("play") \/ play_top \/ play_take \/ play_show \/ play_look
        \/ play_empty \/ play_again

input == \/ wait("input") \/ input_loop \/ no_key \/ pause_set
         \/ stop_signals("input", "in_stop", "in_loop")
         \/ stop_signals("input", "in_last", "done")

handler == stop_signals("handler", "h_signals", "done")

stats == wait("stats") \/ stats_loop \/ stats_frame

environment == \/ pause_key \/ stop_key \/ key_select_error \/ sigint_handler
               \/ \E t \in Threads : spurious_wakeup(t)

Next == rx \/ dec \/ play \/ play_real \/ input \/ stats \/ handler \/ environment

(* The scheduler runs every thread that can run; reads and key reads have  *)
(* time limits.  Nobody has to press a key, no wake-up has to be spurious, *)
(* and the sound library (play_real) does not have to return.              *)
Fairness == /\ WF_vars(rx) /\ WF_vars(dec) /\ WF_vars(play)
            /\ WF_vars(input) /\ WF_vars(stats) /\ WF_vars(handler)

Spec == Init /\ [][Next]_vars /\ Fairness

-----------------------------------------------------------------------------
Chunks == 0 .. SongChunks
Labels == WaitPoints \cup
  {"rx_top", "rx_loop", "rx_read", "data", "timeout", "closed", "error", "rx_stop", "rx_full",
   "join", "release",
   "dec_top", "dec_loop", "dec_decode", "dec_queued", "dec_next",
   "dec_empty", "dec_again", "play_top", "play_loop", "play_taken", "play_look",
   "play_empty", "play_again", "play_real",
   "in_loop", "in_read", "in_pause", "in_stop", "in_last", "st_loop", "st_frame",
   "h_idle", "h_signals", "done"}

(* The types; the queues stay within their arrays (init_queue's malloc).   *)
TypeOK ==
  /\ flag \in [Flags -> BOOLEAN]
  /\ thread \in [Threads -> [at : Labels, nap : {"awake", "dozing", "asleep"}]]
  /\ \A t \in Threads : thread[t].nap # "awake" => thread[t].at \in WaitPoints
  /\ decoder_que \in Seq(Chunks) /\ Len(decoder_que) <= DecoderMax
  /\ player_que \in Seq(Chunks) /\ Len(player_que) <= PlayerMax
  /\ rx_result \in {"data", "timeout", "closed", "error"}
  /\ r_chunk \in Chunks /\ d_chunk \in Chunks /\ pr_chunk \in Chunks
  /\ opened \in BOOLEAN /\ pause_value \in BOOLEAN /\ pauses \in 0 .. MaxPauses
  /\ got \in Chunks
  /\ tail \in Seq(Chunks) /\ Len(tail) = got
  /\ played \in Seq(Chunks)
  /\ skipped \subseteq Chunks
  /\ missed \in BOOLEAN

Elements(q) == {q[i] : i \in DOMAIN q}

(* The player holds the chunk it took, or has ended with it in its hands. *)
InPlay == thread["play"].at \in {"play_taken", "play_look", "play_empty", "play_again",
                                 "play_real", "done"}

(* No chunk of the song gets lost on the way: whatever the server sent is  *)
(* still queued, in the hands of the decoder or of the player, played, or  *)
(* passed over on purpose.  enqueue_chunk refuses a chunk silently when    *)
(* its queue is full, so this rests on rx_thread_func and dec_thread_func  *)
(* leaving their loops in time.                                            *)
ChunksAccountedFor ==
  1 .. got \subseteq Elements(decoder_que) \cup Elements(player_que)
                     \cup (IF At("dec", "dec_decode") THEN {d_chunk} ELSE {})
                     \cup (IF InPlay THEN {pr_chunk} ELSE {})
                     \cup Elements(played) \cup skipped

(* When the player of a wav stream has ended because the server closed the *)
(* connection, every chunk received was played (but for those in front of  *)
(* a queue run dry): that it never plays the last chunk it takes is made   *)
(* up for by the copy that read_chunk stored.  The one exception shows in  *)
(* player_que: what is left there was stored after the player had found    *)
(* the queue empty and before it looked at rx_result.                      *)
WholeSong ==
  (/\ Wav
   /\ At("play", "done") /\ flag.innited /\ rx_result = "closed"
   /\ que_is_empty(player_que))
  => Elements(played) \cup skipped = 1 .. got

Song == INSTANCE SongStream

(* The pipeline keeps the promise of SongStream: when a chunk reaches the  *)
(* sound device every chunk before it was played or passed over, none is   *)
(* still in one of the queues or in the hands of the decoder, none was     *)
(* refused by a full queue or dropped at a pause, and it was not played    *)
(* before, although the last chunk is stored twice.  Old sound is heard at *)
(* the end of a chunk that came short, and nowhere else.                   *)
ImplementsSong == Song!Spec

Over == \A t \in Threads \ {"handler"} : At(t, "done")

(* The player is in the sound library, which need not return               *)
(* (client_aux_funcs.c: "Made the audio in my program block").             *)
Hangs == thread["play"].at = "play_real"

(* A stop, by the 's' key, a signal, an error of select or the end of the  *)
(* song, brings every thread of the client to its end for good, if none of *)
(* them was between the test of its wait loop and pthread_cond_wait when   *)
(* stop_client_stream began.  A player that never comes back from the      *)
(* sound library does not hold up the decoder, nor the input thread unless *)
(* only the player could have told it (input_thread_alive).                *)
StopReachesEveryone ==
  <>[](~flag.innited)
  => <>[](\/ missed
          \/ Over
          \/ /\ Hangs /\ At("dec", "done")
             /\ At("input", "done") \/ flag.input_thread_alive)

(* TODO_FILES/USE_SIGATOMIC_T.txt: the flag is "a sort of "safe word" for  *)
(* when you want all of your threads to close": clearing innited makes     *)
(* every thread of the client end, if the sound library returns.           *)
AllThreadsClose == <>[](~flag.innited) => <>[](Over \/ Hangs)

(* The client says "Server parou de enviar dados! Encerrando..." (closing) *)
(* when the server closes the connection: it comes to an end, setting      *)
(* aside a stop that is lost in the way StopReachesEveryone excludes and a *)
(* sound library that does not return.                                     *)
ClosesWhenServerEnds == <>[](rx_result = "closed") => <>[](Over \/ missed \/ Hangs)

=============================================================================
