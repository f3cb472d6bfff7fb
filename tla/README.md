# TLA+ verification of the emotionstreamer services

The repository (`src/code`) holds a small distributed music streamer written in
C: a port mapper, a content server, heartbeat and master servers that register
content servers, a server browser and a client that streams, decodes and plays
songs. This directory models the parts that run concurrently, checks them with
TLC on small instances, and proves with TLAPS every safety property that the
passing runs check, for every number of ports, services, connections and chunks
and every size of the queues.

## Inventory

| component | state | operations | interacts with | what is hard | what makes it correct |
|---|---|---|---|---|---|
| port mapper (`port_mapper/`) | `port_arr`, `curr_num_ports`, the port mapper file | JOIN, AWKWARD_JOIN, LEAVE, AWKWARD_LEAVE; commands `c p k s h`; launch, exit | every service asks it for ports over TCP | two threads share the table, each look and each set locked on its own; lost answers; restarts | no port in two hands; the counter is the number of allocated ports; a return frees its ports; the table survives a stop |
| client pipeline (`client/`, `streamer_client.c` and the queues, decoder, player it uses) | two bounded queues, nine flags, six condition variables | read, decode, play, pause, stop, draw | content server (socket), sound library, port mapper (returns its port at the end) | five threads, signals without mutexes, end of stream, short reads, pauses, ^C at any time, a sound library that hangs | chunks once, in order, none lost; a stop ends every thread |
| port borrowing (`extra_funcs/connection.c`, `sock_ops.c`) | the array of attempted ports, the connection | `ask_for_port(s)`, `send_port(s)_back`, `connection_attempt_circuit`, greetings | port mapper, servers | retries, time limits, who returns which port when an attempt fails | every borrowed port is returned exactly once |
| registry (`extra_funcs/interlvl_com.c`, `server_db_driving.c`) | set of connections, `rdfds`, SQLite table of servers | acceptor, watchdog and slave threads; add, kill, close all, show | heartbeat, master, content server, browser | three kinds of threads on one set; reads without a limit under its mutex; signals without mutexes; descriptors used again | set, descriptors and table agree; a dead server leaves the list; no connection is left open |
| heartbeat and master servers | the registry's | start, stop | registry | shutdown started by any of four threads; kill and restart with an old table | every thread ends; a node dies with the node above |
| content server (`content_server/`) | accepted connections, current song, rotation time | accept, stream, upload, rotate, stop | client, registry, port mapper | two threads both clean up; the slave's circuit fails half way; interrupted waits; state across fork and execvp | ports in use are on record and go back at the end; the rotation keeps its period; a stopped server exits |
| socket I/O (`sockio_tcp.c`) | none | read/send some/all, to and from files, TLS or plain | all | partial transfers, time limits, closed peers | bytes neither lost nor repeated |
| browser, converter, configuration, terminal, HTML, TLS set-up | local | sequential | | | not concurrent |
| vendored libraries | | | | | third party |

## Modules

* `PortMapper.tla`: the port mapper and, by what they do on the wire, the
  services that use it.
* `MC_PortMapper.tla`: symmetry and the state constraint for TLC.
* `PortLease.tla`: the abstract specification of lending that `PortMapper`
  implements: a port is free, kept by the mapper or lent to one service.
* `PortMapperProofs.tla`: the proofs about `PortMapper`.
* `PortLeaseProofs.tla`: the proof that `PortMapper` implements `PortLease`.
* `StreamPipeline.tla`: the streaming client's threads. TLC runs it directly.
* `SongStream.tla`: the abstract specification that `StreamPipeline` implements:
  chunks arrive, and each is played or passed over, in the order of the song.
* `StreamPipelineProofs.tla`: the proofs about `StreamPipeline`.
* `SongStreamProofs.tla`: the proof that `StreamPipeline` implements `SongStream`.
* `Registry.tla`: a heartbeat or master server, its four threads and its list of
  the servers below it. TLC runs it directly.
* `RegistryProofs.tla`: the proofs about `Registry`.
* `ContentServer.tla`: a content server's two threads, its ports, its rotation
  and its exits. TLC runs it directly.
* `ContentServerProofs.tla`: the proofs about `ContentServer`.

`ContentServer` sees the port mapper as `PortMapper` sees a service: as the other
end of the four requests. `Registry` leaves the ports of its node out; its slave
is the one that `ContentServer` models in detail.

Definitions named `..._late`, `..._unlooked`, `ScannedAnyPort` and the like,
marked "mutant", "mutation" or "variant", are bugs used to test the properties:
each property fails when the definition below it is replaced by the variant.

### PortMapper

`port_arr`, `curr_num_ports`, `running` and `file` are the program's. `frame[t]`
holds the locals of the call that thread `t` is in: the program counter `pc`, the
request or command `job`, the scan position, the port array (a set: the code
fills and walks it in ascending order) and the last value read from the counter.
`held[s]` is what service `s` believes it may use. `acess_var_mtx` locks a mutex
for one look or one set, so each of these calls is one action:

| action | code in `mapper.c` |
|---|---|
| `is_no_more_room`, `fetch_look`, `fetch_set_port`, `fetch_look_count`, `fetch_set_count` | `fetch_ports_to_give`, `fetch_single_port_to_give` |
| `is_empty`, `close_look`, `close_set_port`, `close_look_count`, `close_set_count` | `close_ports`, `close_single_port` |
| `join`, `leave`, `awkward_leave`, `awkward_leave_again` | the four requests of `accepted_connection_thread` |
| `send_ports`, `no_ack` | `send_client_ports`, `send_single_client_port`; without an acknowledgement they `raise(SIGTERM)` |
| `forget` | a LEAVE that times out half way, or a service that is killed |
| `port_mapper_print`, `kill_port`, `stop_mapper` | commands `p`, `k`, `s` |
| `exit_mapper`, `launch` | the end and the beginning of `port_mapper_init`, with the file |

`lapse` records why the table may no longer agree with what services believe:
`short` (a JOIN that found too few ports, freed them and sent them all the same),
`twice` (one port returned two times), `print` and `kill` (an operator command
freed a port), `forgot` (a launch that did not restore the table of the launch
before). They are the ways the code can book a port twice, and
`ExclusiveBooking` says that they are the only ones.

Not modelled: the `c` and `h` commands, which only print; ^C, which clears
`running` without waking `port_mapper_init`; failures of `select` and `accept` and
SIGPIPE in `port_mapper_main_loop` (`mapper.c` 444-465), which end the main loop
between two requests; ports outside the table.

### StreamPipeline

`thread[t]` is where thread `t` is. At a wait loop it is `awake` before the test,
`dozing` between a test that said wait and `pthread_cond_wait`, and `asleep` in
it. The code sends every signal without the mutex of the waiter, so a signal
wakes only a thread that is asleep. The reader and the main thread are one
thread, as in the code (`rx_thread_func` is called, not started).

Chunk number n of the song is the number n, 0 an empty buffer. The decoder's
answer (sound, none, error) and the outcome of a read (data, time limit, closed,
error) are free choices. `stop_client_stream` is two steps, flags and signals. Its
callers are the `s` key, SIGINT and SIGPIPE, the end of the song, and an error of
`select` in `readsome` (`read_select_error`) or in `getsome` (`key_select_error`),
which call the exit function that `client.c` 176 sets.

A read is one `recv` and may bring less than a chunk. `read_chunk` queues the whole
buffer all the same, and its end is what the buffer held before: `tail[n]` is the
chunk whose sound is at the end of the n-th, n itself after a full read.

The player's test of the queue (`streamer_client.c` 387) and its looks at
`rx_result` (389; the macro `READ_RESULT_INVALID` reads it twice) are separate
steps, `play_look`, `play_empty` and `play_again`, and the reader can store a chunk
or set `rx_result` between them. So are the decoder's (334, 336): `dec_next`,
`dec_empty`, `dec_again`.

The call into the sound library (`play_real`) need not return; a comment in
`client_aux_funcs.c` 144-188 says that it blocks. `perform_play_op` holds a mutex
meanwhile, which the statistics and the release of the device need (`PlayerFree`).

The history variables `got`, `tail`, `played`, `skipped` and `missed` only record.
`skipped` holds the chunks the program passes over: the first mp3 chunk opens the
sound library, a chunk may give no sound, and the last chunk of a queue that runs
dry is taken and not played. `missed` says that a thread was between its test and
its `pthread_cond_wait` when a stop began.

Not modelled: the 9-second limit for joining the player (the model's `join` does
not wait for it), the `ncurses` mode in which a key is awaited without limit, a
change of format within a song, raw streams with the decoder compiled out, a
second ^C.

### Registry

`is_on`, `started`, `fd_arr`, `rdfds`, `curr_size`, `i` and `sock` are the
program's; `rows` is the `server_id` column of the table Servers, `conn[f]` what
the kernel knows of descriptor `f` and of the peer behind it, `link` the slave's
own connection. `main`, `acceptor`, `watchdog` and `slave` say where each thread
is; `is_master` picks the program (the master has no slave, and its acceptor does
not wait for one).

| actions | code |
|---|---|
| `Start`, `MainTest`, `MainSleep`, `MainJoin` | `start_heart_beats`, `start_master`, with `openDB` and `closeDB` |
| `AcceptorTest` ... `AcceptorWake` | `acceptor_func`; `AddCon` and `AddConSignal` are `add_con`, `AcceptorClose` and `AcceptorWake` its `clean_func` |
| `WatchdogZero` ... `KillCon` | `watch_dog_func`, `do_indexed_overseer_con_op`, `kill_con` |
| `SlaveCircuit` ... `SlaveWake` | `slave_thread`, `slave_thread_exit_func` |
| `SigInt`, `Crash` | ^C, which breaks off the read of the thread it lands in; the end of the process by a kill |
| `PeerChanges`, `UpperChanges` | the other ends |

A critical section of `set_mtx` is one step, with two exceptions (`SetMtxFree`).
The watchdog's read keeps the mutex as long as it waits. And `close_all_fds` closes
every descriptor twice (`interlvl_com.c` 213-214): `accept` takes no mutex, so the
acceptor can be handed the descriptor between the two closes and lose it to the
second. In the slave's thread the function is therefore a step per close
(`SlaveClose`, `SlaveReclose`); in the acceptor's own thread nobody can accept
meanwhile and it is one step (`CloseAllFds`).

A peer that is `gone` has closed or has been found dead by keepalive; a `silent` one
does neither, sends nothing and takes nothing, as a process that hangs. `con_read`
is `readall` and `con_send` is `sendall`; both start again after every timeout, so
they return only for the other two. A slave whose heartbeat hangs holds `con_mtx`
(`Sending`), and whoever closes its connection waits. A wait on a condition variable
is three steps (test, `gap`, `doze`), because no signaller holds its mutex.

Not modelled: the return of the node's ports inside `clean_func`, and the sockets
opened for it, which a second close could hit as well; an `openDB` that fails; a
stale `errno` in `readall`. An `add_con` that finds no free slot indexes beyond the
array; the behaviour is undefined and the model's acceptor goes no further.

### ContentServer

Main goes from `boot` through the borrowed port, the bind, the wait for the
slave's login and the accept loop to the join; the slave from the circuit through
the login to its loop of heartbeats and out through `slave_thread_exit_func`, in
four steps, since main can run between them. `attempted_port_arr` is the global
array, `con_port` the port tried last, `held` the mapper's record. `excuse` remembers
what has come between the two:

* `mapper`: an exchange with the mapper failed where the code returns early, or its
  answer was lost;
* `early`: the server was stopped while the array was still in use; then
  `slave_thread_exit_func` does not send it back (`if(*loop_var)`);
* `short`: the JOIN found fewer ports than `NUM_PORTS_TO_GIVE`. The mapper frees them
  before it sends them (`mapper.c` 115-120), so they never come on record
  (`Received`);
* `address`: a port was lent and `init_addr` failed: the process exits without
  returning it (`interlvl_com.c` 173-182, `BootBadAddress`).

A round of the accept loop takes `d` ticks. `waited` is what the program adds up,
`age` what has really passed; they differ because an interrupted select
(`LoopInterrupted`) is not counted. `lasted` records the age of the song just
replaced. A heartbeat server that hangs (`silent`) can hold the slave in its login
and in the send of a heartbeat.

Not modelled: what a worker does with its connection beyond the song it picks
(`con_go`, uploads, streams); an `execvp` that fails, after which the child runs
on in the parent's loop; TLS.

## Runs

| run | expected | shows |
|---|---|---|
| `mapper` | pass | `TypeOK`, `ExclusiveBooking`, `CountMatchesTable`, `ReturnFreesPorts`, `RememberedAfterStop` and the refinement `ImplementsLease` for two services, two ports and JOINs of two ports |
| `mapper_short_join` | violation | a JOIN that comes up short gives a service ports that the next service also gets; README1 lines 72-74 say they must be returned first |
| `mapper_lost_ack` | violation | after a lost acknowledgement the next launch does not remember the table, as README2 lines 463-467 say it does |
| `pipeline_wav` | pass | `WholeSong`, the queue bounds in `TypeOK` and the refinement `ImplementsSong`: a wav song of up to 3 chunks, one read of which is short, queue of 2, two pauses, ^C |
| `pipeline_mp3` | pass | `ChunksAccountedFor`, `ImplementsSong` and, under fairness, `StopReachesEveryone`: 2 chunks through a decoder queue and a player queue of 1, stopped from within (an error of `select` in a read, the end of the song) |
| `pipeline_stop` | pass | `StopReachesEveryone` for a wav client with its statistics, stopped by the `s` key, ^C, an error of `select` at the keyboard, or from within |
| `pipeline_safe_word` | violation | ^C can leave a thread asleep for ever: `TODO_FILES/USE_SIGATOMIC_T.txt` calls the flag the word on which all threads close |
| `pipeline_song_end` | violation | the client announces that it closes when the server ends the song, and can sleep for ever instead |
| `nodes` | pass | `TableMatchesSet`, `OpenAreOwned`, `ExitLeavesNothing`, `NeverUnwatched` and, under fairness, `GoneServerLeaves`, `QuietStopEnds`, `UpperDeathStops`, for a heartbeat or master server with two descriptors, every step between the two closes of a slot included |
| `plug` | violation | a registered server that hangs stays listed for ever, against README1 lines 231-234 |
| `server` | pass | `PortsInUseAreOnRecord`, `PortsAreReturnedAtTheEnd`, `RepeatsOnlyWhenStopping`, `SongHoldsItsPeriod` and, under fairness, `StoppedServerExits`, with answers of the mapper lost, short or unused |
| `rotation` | violation | a worker serves the first song of the rotation, not the current one, against README2 lines 137-138 and 234-235 |

Three properties need a remark.

`WholeSong`: the player takes a chunk, looks whether the queue is empty now, and if
the stream is over it ends without playing the chunk; and `read_chunk` queues the
old buffer once more when the server closes. Each is off by one, the two cancel, and
mending only one of them loses or repeats a chunk. They cancel only if the reader
does not store between the player's two looks (lines 387 and 389): if it does, the
player sees an empty queue and then a closed stream, and ends; the chunk in its
hands is not played and the copy stays in `player_que`. The property therefore
speaks of a player that has left its queue empty, and shows that this window is the
only way to lose the end.

`StopReachesEveryone` does not assume that the sound library returns. If it hangs,
the decoder ends all the same, and so does the input thread unless only the player
could have cleared `input_thread_alive`.

`SongHoldsItsPeriod`: a song is replaced only after more than `Period` ticks, and at
most `SelectTime` ticks later. In the code a select waits 3 seconds: the change can
be up to three seconds late, and the "+-1 second" of README2 line 137 is not kept.

### Bounds

Two services and two ports are the least with which a port can be in two hands
and a JOIN of two can be short; three uses of the table at once do not exist, as
one thread serves requests and one the operator. `UintMod` is the real 2^16. The
run stops exploring at an operator's write to the table, about which nothing is
claimed, and after one lapse, since each leaves the scope of `ExclusiveBooking`
at once (`Bound` in `MC_PortMapper`). The proofs need no bound.

In the pipeline a queue of two chunks can be empty, partly full and full, a song
of three chunks overfills it, and two pauses are a pause and its end.
One short read is enough to leave old sound in the buffer of the chunk after it. In
`pipeline_mp3` the two queues of one chunk are empty or full, and the song of two
chunks makes every thread wait for room and for data. `pipeline_stop` uses a queue
of one chunk and a song of one chunk: the wait loops, not the amount of data, are
what it is about. The percentages are those of
`client/configs/sizes.cfg` (0 and 60). The pipeline runs switch deadlock off
because the client ends.

In `nodes` two descriptors and two slots are the least with which a descriptor
can be used again while another server is registered, a round can pass a dead
slot on the way to a live one, and a row of one server can be taken for that of
another. In `server` JOINs of two ports and a third port to listen on let the
circuit succeed on the first, the last or no port of its array; two interfaces
let it start over; three songs tell the next from the previous; a period of three
ticks against waits of up to two lets a change fall at, before and after the
period. `server` switches deadlock off because the process exits, and because
main can miss the slave's last signal and sleep for ever, which the condition of
`StoppedServerExits` leaves out.

### Fairness

`StreamPipeline` assumes weak fairness of each thread: the kernel runs a thread
that can run; reads have a time limit (`client_timeouts_data`), and so has the
wait for a key in the default mode (3 seconds). Nothing is assumed of the user, of
spurious wake-ups and of the sound library: a player in `play_real` need never
leave it. `Registry` and `ContentServer` assume weak fairness of
each thread. They assume nothing of the operator, of kills and of the other ends:
in particular not that a silent peer ever speaks or closes, which is why their
liveness properties end in "or someone is silent". The exchanges with the mapper
do end, being single calls of `sendsome` and `readsome` with a time limit. A
thread in its normal loop is not obliged to fail, only to leave when `is_on` is 0.
`PortMapper` has no liveness property and no fairness.

## Proofs

### The port mapper

`PortMapperProofs` proves from `PortMapperAssumption` (at least one port, fewer
than 2^16; JOINs of at least one port):

* `TypeCorrect`: `Spec => []TypeOK`
* `CountCorrect`: `Spec => []CountMatchesTable`
* `BookingCorrect`: `Spec => []ExclusiveBooking`
* `ReturnCorrect`: `Spec => ReturnFreesPorts`
* `StopIsRemembered`: `Spec => RememberedAfterStop`

None of the properties is inductive: they speak of the table between requests,
and a step in the middle of a request must know what the thread has already read.
`IndInv` adds
* `FrameInv` and `RoleInv`: which step goes with which call, and which thread
  runs which calls;
* `CountInv`: the counter lags the table by the port being marked or freed
  (`Lag`), and the value last read is still the counter's, because while no
  operator command has freed a port only the main thread writes it. The same
  holds of the counter and the table in the file;
* `BookingInv`: what the main thread is about to hand over is marked and nobody's,
  and what it is about to free is nobody's;
* `ReturnInv`: the ports of a LEAVE already visited are free. With `CountInv` the
  early return of `close_ports` on an empty mapper is harmless: a count of zero
  means that no port is allocated;
* `FileInv`: after an orderly stop the file is the table.

Each part has its lemma (`TypeStep`, `FrameStep`, `RoleStep`, `CountStep`,
`BookingStep`, `ReturnStep`, `FileStep`), one case per action. Cardinalities come
from the library's `FiniteSetTheorems`.

`PortLeaseProofs` proves `MapperImplementsLease`: `Spec => ImplementsLease`. The
refinement mapping takes `lent` from `held`, `kept` is what the table has
allocated and no service holds (a port on its way out or back, or one a service
lost), and the lease is void once `lapse` is not empty. `fetch_set_port` is then
`Book`, `send_ports` is `Lend`, the requests that return ports and `forget` are
`GiveBack`, `close_set_port` is `Release`; a step that adds a lapse is `Void` and
all others stutter. That `Book` finds a free port and `Release` one that nobody
holds is what `BookingInv` gives. `LeaseStep` has a case per action and rests on
`IndInv`.

### The pipeline

`StreamPipelineProofs` proves from `StreamPipelineAssumption` (queues of at least
one chunk, percentages between 0 and 100; nothing relates the two percentages):

* `PipelineTypeCorrect`: `Spec => []TypeOK`, with the queue bounds
* `NoChunkIsLost`: `Spec => []ChunksAccountedFor`
* `WavIsPlayedWhole`: `Spec => []WholeSong`, for a player that has left its queue
  empty

and `SongStreamProofs` proves `PipelineImplementsSong`: `Spec => ImplementsSong`.

The inductive invariant `IndInv` has three parts.

* `Control` ties the labels of the threads to the data. `Room`: where a thread is
  about to store a chunk its queue is not full. This is why `enqueue_chunk`, which
  refuses a chunk silently, never does; it rests on `Watermarks`, the lemma that a
  queue below the rounded almost-full percentage has room and one above the
  almost-empty percentage has a chunk, whatever the percentages are. `Stock`: where
  a thread is about to take a chunk there is one, or it has never taken any. This
  is why `dequeue_chunk`, which leaves the old chunk in the buffer, never makes
  anyone play it again. `Buffers`: the buffer that `read_chunk` stores once more
  when the connection is closed holds the last chunk received.
* `Order` says that what is queued, in the decoder's hands, in the player's hands
  and played is increasing along the stream, strictly but for the copy of the last
  chunk: two equal chunks may only be neighbours at the very end, and where the
  copy can be depends on how far the decoder is (`Copied`, `CopyPassed`).
  `PlayedInOrder`, that what was played is strictly increasing, is a part of it.
* `Account` is `ChunksAccountedFor` and, for a wav stream that was closed,
  `HasSuccessor`: every chunk received is played, passed over, or has another one
  behind it in the player's queue. The player never plays a chunk with nothing
  behind it, and `HasSuccessor` is what the stored copy buys.

Steps that move no chunk are proved together (`Quiet`: `RxQuiet`, `DecQuiet`,
`PlayQuiet`, `OtherQuiet`), each of the others has a lemma for what it does to
the order and the accounts (`WavStored`, `Mp3Stored`, `DecoderTook`,
`DecoderGave`, `PlayerTook`, `PlayerPlayed`, ...).

For the refinement a read of a chunk is `Receive`, `play_real` is `Play` or, when
it opens the device, `PassOver`, and so are `dec_silent` and the branches of
`play_empty` and `play_again` that go back to waiting (`PassesOver`). `NothingLeftBefore` shows the guard of
`Play`: an earlier chunk is accounted for, and by `Order` it is in neither queue
and in nobody's hands.

### The registry

`RegistryProofs` proves from `RegistryAssumption` (descriptors are positive numbers,
`MaxSize` is positive; nothing relates their numbers) `RegistryTypeCorrect`, `RecordsOfServersAgree` (`TableMatchesSet`),
`ConnectionsAreOwned` (`OpenAreOwned`), `ExitIsClean` (`ExitLeavesNothing`) and
the action property `NoServerGoesUnwatched` (`NeverUnwatched`). `IndInv` adds to
the properties that the acceptor has a connection exactly while it serves one;
that `close_all_fds`, which leaves the rows alone, runs only after `is_on` was
cleared (`CleanOnlyWhenOff`), so that `curr_size` and the table can be wrong only
in a node that is stopping; that the slot the watchdog is about to kill is still
used unless such a cleaning came between (`SlotOfTheRound`); that nothing is
registered after the acceptor's own cleaning (`ClosedForGood`); that `set_mtx` has
one owner (`SetMtxHeldOnce`); that a descriptor is in no two slots
(`SlotsDistinct`), and in a slot and the acceptor's hands at once only between the
slave's two closes of it (`ReusedOnlyBetweenCloses`); and that while `is_on` is 1 the
counter and the table follow the slots (`RecordsAgree`).

### The content server

`ContentServerProofs` proves from `ContentServerAssumption`
`ContentServerTypeCorrect`, `UsedPortsAreOnRecord` (`PortsInUseAreOnRecord`),
`NoPortIsKept` (`PortsAreReturnedAtTheEnd`), `RepeatsComeLate`
(`RepeatsOnlyWhenStopping`) and the action property `RotationKeepsItsPeriod`
(`SongHoldsItsPeriod`). `IndInv` adds which phase of main goes with which of the
slave (`PhasesMatch`); that the array of attempted ports holds no port twice and
never the listening one (`PortsDistinct`), so that returning the array cannot
give the listening port away; which ports are on record at which step of the
circuit, if the JOIN was answered in full (`CircuitOnRecord`, `ListeningOnRecord`),
and that no others are as long as nothing but a short JOIN went wrong
(`OnlyPendingHeld`, without which nothing could be said about the end); and that
`waited` is `age` unless a select was interrupted (`WaitedIsAge`).

### Only model-checked

Liveness under fairness is out of the prover's reach: `StopReachesEveryone`,
`GoneServerLeaves`, `QuietStopEnds`, `UpperDeathStops` and `StoppedServerExits`
stay with TLC, and so do the violation runs. Each `IndInv` was checked with TLC
on the instances of the runs before it was proved.

## Findings

The six violation runs are disagreements between the code and what the
repository says of it; `PROJECT.json` quotes both sides.

## Plan

1. `PortMapper` and its proofs. Done.
2. `StreamPipeline`, `SongStream` and their proofs. Done for safety and stopping;
   to come: resuming after a pause.
3. `PortLease` and the proof that `PortMapper` implements it. Done.
4. `Registry` and its proofs. Done.
5. `ContentServer` and its proofs. Done. To come: an abstract specification of
   borrowing, with the mapper's record as `PortLease` sees it.
6. The shutdown of the mapper on ^C, whose wait has the same gap as the others.

## Not modelled

The file transfer loops (`sendallfd`, `readalltofd`, `uploadtofd`,
`downloadtofd`) move bytes of one connection sequentially; the one hazard found
there, a rewind by `numread-sent` with `sent` = -2, is listed in `PROJECT.json`
without a property. The browser, the client's front end and the converter are
sequential. The configuration readers parse text, the terminal and HTML pages
format it, the TLS set-up is calls into OpenSSL. mpg123, alsa-lib, ncurses,
OpenSSL headers and SQLite are third-party code kept in the repository; they are
by far the largest part of its lines.
