----------------------------- MODULE MCBoundary -----------------------------
(***************************************************************************)
(* The instance of Boundary that TLC checks: of every kind of call the     *)
(* ones that differ in what they do to a State, of an old combat, of the   *)
(* present one and of none.  Two states are told apart by what can still   *)
(* come of them: of the revisions, whether the host would look again, of a *)
(* recording, what its replay leads to.                                    *)
(***************************************************************************)
EXTENDS Boundary

Chosen ==
  [op : {"combat_started"}, seq : 1..2, players : {1}]
    \cup [op : {"combat_ended"}, seq : 1..2]
    \cup [op : {"doom_batch_begin"}, seq : {2}]
    \cup [op : {"player_died"}, seq : {1}, player : {0}]
    \cup [op : {"source_capture"}, seq : 1..2, id : {"relic"}]
    \cup [op : {"source_release"}, handle : {Wire(2, "source", 1)}]
    \cup [op : {"card_play_started"}, seq : {2}, source : {Zero}, generation : {"ordinary"}]
    \cup DiscardCalls

Looked(t, id) == seen.engine = id /\ seen.revision = engines[t][id].state.revision

StateView(s, looked) == [s EXCEPT !.revision = IF looked THEN 1 ELSE 0]

\* What a recording that is not truncated still has to do with what is to come: the
\* state it leads to, and how much of each budget is left.
Ahead(recording, told) ==
  <<told.ok, StateView(told.s, FALSE), Starts(recording.observations) # {}, recording.from,
    Newer(recording)>>

RecordingView(recording) ==
  LET observations == recording.observations
      releases == Releases(observations)
      spent == <<Len(observations), Cardinality(releases), \E i \in releases : observations[i].r = Zero>>
  IN  IF ~recording.on THEN <<>>
      ELSE IF recording.truncated THEN <<recording.panicked, spent>>
      ELSE <<spent, Ahead(recording, Told(recording.observations))>>

View ==
  <<[t \in Threads |-> [id \in Owned(t) |->
       <<StateView(engines[t][id].state, Looked(t, id)), RecordingView(engines[t][id].recording)>>]],
    nextEngine,
    IF \E t \in Threads : \E id \in Owned(t) : Looked(t, id)
    THEN <<seen.snapshot, seen.missed>> ELSE None>>
=============================================================================
