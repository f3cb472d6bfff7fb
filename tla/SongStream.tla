----------------------------- MODULE SongStream -----------------------------
(***************************************************************************)
(* What the streaming client promises its listener.  The chunks of a song  *)
(* arrive one after the other, and each is played or passed over.  They    *)
(* are settled in the order of the song: when a chunk is played, no later  *)
(* one has been, and none before it is still to come.  A chunk that came   *)
(* short ends with the sound of an earlier one.                            *)
(***************************************************************************)
EXTENDS Naturals, Sequences

VARIABLES
  got,      \* how many chunks have arrived
  tail,     \* the chunk whose sound is at the end of the n-th one
  played,   \* the chunks played, in order
  skipped   \* the chunks passed over

song == <<got, tail, played, skipped>>

Heard == {played[n] : n \in DOMAIN played}

Init ==
  /\ got = 0 /\ tail = <<>>
  /\ played = <<>>
  /\ skipped = {}

Receive ==
  /\ got' = got + 1
  /\ \E t \in {got'} \cup (IF got = 0 THEN {0} ELSE {tail[got]}) : tail' = Append(tail, t)
  /\ UNCHANGED <<played, skipped>>

Play(c) ==
  /\ \A h \in Heard : h < c
  /\ \A b \in 1 .. c - 1 : b \in Heard \cup skipped
  /\ played' = Append(played, c)
  /\ UNCHANGED <<got, tail, skipped>>

\* The copy of the last chunk may be passed over after the chunk was played.
PassOver(c) ==
  /\ \A h \in Heard : h <= c
  /\ skipped' = skipped \cup {c}
  /\ UNCHANGED <<got, tail, played>>

Next == Receive \/ \E c \in 1 .. got : Play(c) \/ PassOver(c)

Spec == Init /\ [][Next]_song

=============================================================================
