------------------------------ MODULE Boundary ------------------------------
(***************************************************************************)
(* The native boundary, abi.rs, and the recordings of observation.rs.      *)
(*                                                                         *)
(* Every thread owns the engines that were created on it; an id that the   *)
(* thread does not own is answered as unavailable.  Every export that may  *)
(* change an engine counts its revision, calls the handler in State        *)
(* (module Engine), and records the call with the value it has returned.   *)
(* A recording can be replayed into an engine: a fresh State is told the   *)
(* same calls, and takes the engine's place if it returns the same values. *)
(*                                                                         *)
(* The host reads the engine's snapshot when its revision has changed      *)
(* (ProfilerSession.Refresh) and keeps recordings in files.                *)
(***************************************************************************)
EXTENDS Engine

CONSTANTS
  Threads,
  MaxEngines,       \* engines of one thread, 16 in the code
  MaxObservations,  \* MAX_OBSERVATIONS; an entry is one unit of MAX_BYTES
  MaxReleases,      \* MAX_RELEASES
  MaxIds,           \* bound on the engines that are created
  Calls             \* the calls the hosts make, of AllCalls

VARIABLES
  engines,     \* ENGINES of every thread: the state and the recording of each id
  nextEngine,  \* NEXT_ENGINE
  seen         \* the engine that the host has read last, its revision and snapshot;
               \* missed is history: it has since panicked in an export that counts nothing

vars == <<engines, nextEngine, seen>>

ASSUME BoundaryConstants ==
  /\ {MaxEngines, MaxObservations, MaxReleases, MaxIds} \subseteq Nat \ {0}
  /\ MaxReleases = MaxObservations

----------------------------------------------------------------------------
(***************************************************************************)
(* The exports, with the arguments the handlers of Engine look at.         *)
(***************************************************************************)
Seqs         == Nat          \* 0 is no combat
Tokens(kind) == [seq : Nat, kind : {kind}, payload : Nat]
Handles   == {Zero} \cup Tokens("source")

ReleaseCalls == [op : {"source_release"}, handle : Handles]

CaptureCalls == [op : {"source_capture"}, seq : Seqs, id : {"relic", "potion"}]

PowerCalls ==
  [op : {"power_attached", "power_amount_changed", "power_removed", "power_provenance_invalidate"},
   seq : Seqs]

CardCalls ==
  [op : {"card_generated"}, seq : Seqs, source : Handles]
    \cup [op : {"card_play_started"}, seq : Seqs, source : Handles,
          generation : {"ordinary", "recorded", "unavailable"}]
    \cup [op : {"card_play_finished"}, play : Tokens("play")]
    \cup [op : {"card_execution_ended"}, seq : Seqs]

OrbCalls ==
  [op : {"orb_channeled"}, seq : Seqs, source : Handles]
    \cup [op : {"orb_context_begin"}, seq : Seqs, play : {Zero} \cup Tokens("play")]

DamageCalls ==
  [op : {"damage_calculation_begin", "damage_modifier_contribution", "damage_calculation_enemy_hit",
         "damage_calculation_weak_source", "damage_result_append"}, seq : Seqs]

SettlingCalls ==
  [op : {"damage_calculation_commit", "damage_calculation_abort", "damage_unattributed"}, seq : Seqs]

BlockCalls ==
  [op : {"buff_mitigation", "block_gained", "forge", "osty_summoned", "osty_killed"}, seq : Seqs]

DoomCalls ==
  [op : {"doom_batch_begin", "doom_target_capture", "doom_kills_completed", "doom_batch_abort"},
   seq : Seqs]

CombatCalls ==
  [op : {"combat_started"}, seq : Seqs, players : Int]
    \cup [op : {"combat_ended", "turn_started", "potion_used", "block_pool_clear", "block_pool_loss"},
          seq : Seqs]
    \cup [op : {"player_died"}, seq : Seqs, player : Int]

AccumulateCalls ==
  [op : {"source_accumulate"}, seq : Seqs, first : Handles, before : Int, second : Handles, after : Int]

WeakCalls == [op : {"weak_prevention"}, valid : BOOLEAN]

FailureCalls == [op : {"capture_failed"}, reason : {"managed"}]

DiscardCalls == [op : {"combat_discard"}]

AllCalls ==
  ReleaseCalls \cup CaptureCalls \cup PowerCalls \cup CardCalls \cup OrbCalls \cup DamageCalls
    \cup SettlingCalls \cup BlockCalls \cup DoomCalls \cup CombatCalls \cup AccumulateCalls
    \cup WeakCalls \cup FailureCalls \cup DiscardCalls

ASSUME CallsAreExports == Calls \subseteq AllCalls

----------------------------------------------------------------------------
(***************************************************************************)
(* What a call does to a State: the exports and the replay dispatch alike. *)
(***************************************************************************)
ApplySource(s, call) ==
  CASE call.op = "source_release"    -> SourceRelease(s, call.handle)
    [] call.op = "source_capture"    -> SourceCapture(s, call.seq, call.id, 1, call.id, 0, "unclassified")
    [] call.op = "source_accumulate" ->
         SourceAccumulate(s, call.seq, call.first, call.before, call.second, call.after)

ApplyPlay(s, call) ==
  CASE call.op = "card_generated"       -> CardGenerated(s, call.seq, 1, call.source)
    [] call.op = "card_play_started"    ->
         CardPlayStarted(s, call.seq, 1, 1, "CARD", 0, call.generation, call.source)
    [] call.op = "card_play_finished"   -> CardPlayFinished(s, call.play)
    [] call.op = "card_execution_ended" -> CardExecutionEnded(s, call.seq, 1)
    [] call.op = "orb_channeled"        -> OrbChanneled(s, call.seq, 1, call.source)
    [] call.op = "orb_context_begin"    -> OrbContextBegin(s, call.seq, 1, call.play, 0)

ApplyCombat(s, call) ==
  CASE call.op = "combat_started" -> CombatStarted(s, call.seq, call.players)
    [] call.op = "combat_ended"   -> CombatEnded(s, call.seq)
    [] call.op = "turn_started"   -> Counted(s, call.seq, "turns")
    [] call.op = "potion_used"    -> Counted(s, call.seq, "potions")
    [] call.op = "player_died"    -> PlayerDied(s, call.seq, call.player)

ApplyHost(s, call) ==
  CASE call.op = "weak_prevention" -> WeakPrevention(s, call.valid, 1)
    [] call.op = "capture_failed"  -> Accept(Failed(s, call.reason), Zero)
    [] call.op = "combat_discard"  -> Accept(Discarded(s), Zero)

SourceOps == {"source_release", "source_capture", "source_accumulate"}
PlayOps   == {"card_generated", "card_play_started", "card_play_finished", "card_execution_ended",
              "orb_channeled", "orb_context_begin"}
CombatOps == {"combat_started", "combat_ended", "turn_started", "potion_used", "player_died"}
HostOps   == {"weak_prevention", "capture_failed", "combat_discard"}

Apply(s, call) ==
  IF call.op \in SourceOps THEN ApplySource(s, call)
  ELSE IF call.op \in PlayOps THEN ApplyPlay(s, call)
  ELSE IF call.op \in CombatOps THEN ApplyCombat(s, call)
  ELSE IF call.op \in HostOps THEN ApplyHost(s, call)
  ELSE Ledgered(s, call.seq, call.op)


----------------------------------------------------------------------------
(***************************************************************************)
(* Recordings.                                                             *)
(***************************************************************************)
NoRecording == [on |-> FALSE]

\* from and panicked are history: the last combat that the recording has not seen,
\* and whether a handler panicked under it.
NewRecording(s) ==
  [on |-> TRUE, version |-> "current", truncated |-> FALSE, observations |-> << >>,
   from |-> s.last, panicked |-> FALSE]

IsRelease(entry) == entry.call.op = "source_release"

\* Mutant: the releases share the allowance of the gameplay.
FitsTogether(observations, entry) == Len(observations) < MaxObservations

Releases(observations) == {i \in DOMAIN observations : IsRelease(observations[i])}
Gameplay(observations) == DOMAIN observations \ Releases(observations)

\* RecordingBudget::accept, of one entry more.
Fits(observations, entry) ==
  IF IsRelease(entry) THEN Cardinality(Releases(observations)) < MaxReleases
  ELSE Cardinality(Gameplay(observations)) < MaxObservations

\* record
Record(recording, call, r) ==
  LET entry == [call |-> call, r |-> r]
  IN  IF ~recording.on THEN recording
      ELSE IF recording.truncated THEN recording
      ELSE IF Fits(recording.observations, entry)
           THEN [recording EXCEPT !.observations = Append(@, entry)]
           ELSE [recording EXCEPT !.truncated = TRUE]

\* One entry of a replay: whether it is within the budgets and returns what it returned.
Tell(told, called, entry, fits) ==
  [s |-> called.s, ok |-> told.ok /\ fits /\ called.r = entry.r]

ToldMore(told, observations, i) ==
  Tell(told, Apply(told.s, observations[i].call), observations[i],
       Fits(SubSeq(observations, 1, i - 1), observations[i]))

\* The entries in their order, told to a fresh State.
Told(observations) ==
  LET told[i \in 0..Len(observations)] ==
        IF i = 0 THEN [s |-> Fresh, ok |-> TRUE] ELSE ToldMore(told[i - 1], observations, i)
  IN  told[Len(observations)]

\* replay
Readable(trace) ==
  /\ trace.on /\ trace.version = "current" /\ ~trace.truncated
  /\ Len(trace.observations) <= MaxObservations + MaxReleases

Replayable(trace) == Readable(trace) /\ Told(trace.observations).ok

Published(engine, told) ==
  IF told.ok
  THEN [state |-> [told.s EXCEPT !.revision = engine.state.revision + 1], recording |-> NoRecording]
  ELSE engine

Replayed(engine, trace) ==
  IF Readable(trace) THEN Published(engine, Told(trace.observations)) ELSE engine

----------------------------------------------------------------------------
(***************************************************************************)
(* The registry.                                                           *)
(***************************************************************************)
\* The engines that a thread finds under the ids it names; for any other id an export
\* returns its unavailable value and changes nothing.
Owned(t) == DOMAIN engines[t]

\* engine_create
With(owned, id) ==
  [other \in DOMAIN owned \cup {id} |->
     IF other = id THEN [state |-> Fresh, recording |-> NoRecording] ELSE owned[other]]

EngineCreate(t) ==
  /\ nextEngine <= MaxIds
  /\ IF Cardinality(DOMAIN engines[t]) = MaxEngines
     THEN UNCHANGED <<engines, nextEngine>>
     ELSE /\ engines' = [engines EXCEPT ![t] = With(@, nextEngine)]
          /\ nextEngine' = nextEngine + 1
  /\ UNCHANGED seen

\* engine_destroy
EngineDestroy(t, id) ==
  /\ id \in Owned(t)
  /\ engines' = [engines EXCEPT ![t] = [other \in DOMAIN @ \ {id} |-> @[other]]]
  /\ UNCHANGED <<nextEngine, seen>>

\* with_engine: an export that may change the engine (mutate) counts its revision first ...
Entered(engine) == [engine EXCEPT !.state.revision = @ + 1]

\* ... and the guard of every export poisons an engine that panics, and truncates its
\* recording, whether the revision was counted or not.
Guarded(engine) ==
  [state |-> Failed([engine.state EXCEPT !.poisoned = TRUE], "native-panic"),
   recording |-> IF engine.recording.on
                 THEN [engine.recording EXCEPT !.truncated = TRUE, !.panicked = TRUE]
                 ELSE NoRecording]

WithEngine(t, id, engine) == engines' = [engines EXCEPT ![t][id] = engine]

\* One of the exports that record.
\* Mutant: the revision of a call that is refused is not counted.
AnsweredIfAccepted(engine, call, applied) ==
  [state |-> IF applied.r = Zero THEN [applied.s EXCEPT !.revision = @ - 1] ELSE applied.s,
   recording |-> Record(engine.recording, call, applied.r)]

Answered(engine, call, applied) ==
  [state |-> applied.s, recording |-> Record(engine.recording, call, applied.r)]

Called(engine, call) == Answered(engine, call, Apply(engine.state, call))

Call(t, id, call) ==
  /\ id \in Owned(t)
  /\ WithEngine(t, id, Called(Entered(engines[t][id]), call))
  /\ UNCHANGED <<nextEngine, seen>>

\* ... and its handler panics, before it has changed anything or when it was done.
Panic(t, id) ==
  LET engine == Entered(engines[t][id])
  IN  /\ id \in Owned(t)
      /\ \E s \in {engine.state} \cup {Apply(engine.state, call).s : call \in Calls} :
           WithEngine(t, id, Guarded([engine EXCEPT !.state = s]))
      /\ UNCHANGED <<nextEngine, seen>>

\* An export that passes mutate = false panics: a snapshot or a recording that cannot be
\* written, a replay in its candidate.  The engine was as it had been, for a replay takes
\* its place, and a recording begins, in the last statement; and no revision is counted
\* for what the guard does.
PanicUncounted(t, id) ==
  /\ id \in Owned(t)
  /\ WithEngine(t, id, Guarded(engines[t][id]))
  /\ seen' = [seen EXCEPT !.missed = @ \/ seen.engine = id]
  /\ UNCHANGED nextEngine

\* recording_begin
RecordingBegin(t, id) ==
  LET engine == engines[t][id]
  IN  /\ id \in Owned(t)
      /\ WithEngine(t, id, IF Active(engine.state) THEN engine
                           ELSE [engine EXCEPT !.recording = NewRecording(engine.state)])
      /\ UNCHANGED <<nextEngine, seen>>

\* replay, of a recording that the host has read, or of one of an older version.
Traces ==
  {[NewRecording(Fresh) EXCEPT !.version = "older"]}
    \cup UNION {{engines[t][id].recording : id \in Owned(t)} : t \in Threads}

Replay(t, id, trace) ==
  /\ id \in Owned(t)
  /\ WithEngine(t, id, Replayed(engines[t][id], trace))
  /\ UNCHANGED <<nextEngine, seen>>

\* revision and snapshot, as ProfilerSession.Refresh reads them: the snapshot it has is
\* kept while the revision is the one it was read at.
Refresh(t, id) ==
  LET state == engines[t][id].state
  IN  /\ id \in Owned(t)
      /\ seen' = IF seen.engine = id /\ seen.revision = state.revision THEN seen
                 ELSE [engine |-> id, revision |-> state.revision, snapshot |-> Snapshot(state),
                       missed |-> FALSE]
      /\ UNCHANGED <<engines, nextEngine>>

----------------------------------------------------------------------------
Init ==
  /\ engines = [t \in Threads |-> NoEntries]
  /\ nextEngine = 1
  /\ seen = [engine |-> 0, revision |-> 0, snapshot |-> Snapshot(Fresh), missed |-> FALSE]

Next ==
  \/ \E t \in Threads : EngineCreate(t)
  \/ \E t \in Threads, id \in 1..MaxIds :
       \/ EngineDestroy(t, id)
       \/ \E call \in Calls : Call(t, id, call)
       \/ Panic(t, id)
       \/ PanicUncounted(t, id)
       \/ RecordingBegin(t, id)
       \/ \E trace \in Traces : Replay(t, id, trace)
       \/ Refresh(t, id)

Spec == Init /\ [][Next]_vars

----------------------------------------------------------------------------
(***************************************************************************)
(* Properties.                                                             *)
(***************************************************************************)
Live == UNION {{engines[t][id] : id \in DOMAIN engines[t]} : t \in Threads}

Starts(observations) ==
  {i \in DOMAIN observations :
     observations[i].call.op = "combat_started" /\ observations[i].call.seq # 0}

\* The combats that a recording has seen are newer than the ones before it.
Newer(recording) ==
  \A i \in Starts(recording.observations) : recording.observations[i].call.seq > recording.from

\* A recording that is not truncated reproduces the engine from nothing, whatever the
\* engine did in the combats before it: every value that was returned, and from the
\* first combat on the whole of the combat, its coverage, its sources and its plays
\* (observation.rs:1-3).  A combat that was refused because an earlier one had its
\* number is the one call that a fresh engine answers otherwise.
Reproduces(engine, starts, told) ==
  /\ told.ok
  /\ starts # {} =>
       \A field \in DOMAIN Fresh \ {"revision"} : told.s[field] = engine.state[field]

ReplayReproduces ==
  \A engine \in Live :
    LET recording == engine.recording
    IN  recording.on /\ ~recording.truncated /\ Newer(recording)
          => Reproduces(engine, Starts(recording.observations), Told(recording.observations))

\* A recording is truncated by a panic, by as many gameplay entries as it may have, or
\* by releases that released nothing: releases that succeed never end it, and spend
\* none of the room of the gameplay (observation.rs:8-10).
TruncationIsEarned ==
  \A engine \in Live :
    LET recording == engine.recording
        entries == Range(recording.observations)
    IN  recording.on /\ recording.truncated =>
          \/ recording.panicked
          \/ Cardinality(Gameplay(recording.observations)) = MaxObservations
          \/ \E entry \in entries : IsRelease(entry) /\ entry.r = Zero

\* What the host shows is what the engine says as long as the revision tells it not to
\* look again, the coverage included, and after calls that were refused or panicked.
\* The exception is a panic of an export that counts no revision (abi.rs:84-98): its mark
\* on the coverage is not seen until the next call that counts one, the combat is.
Current(state) ==
  seen.revision = state.revision =>
    /\ seen.snapshot.combat = Snapshot(state).combat
    /\ ~seen.missed => seen.snapshot = Snapshot(state)

CacheIsCurrent ==
  \A t \in Threads :
    seen.engine \in DOMAIN engines[t] => Current(engines[t][seen.engine].state)

\* An engine that has panicked says that it is incomplete and books nothing more of
\* its combat, whatever it is called with, though it may be discarded, and a recording
\* that saw it is not replayed (abi.rs with_engine, observation.rs:7).
Quarantined ==
  [][\A t \in Threads : \A id \in DOMAIN engines[t] :
       engines[t][id].state.poisoned /\ id \in DOMAIN engines'[t] /\ engines'[t][id].state.poisoned
         => LET before == engines[t][id]
                after == engines'[t][id]
            IN  /\ after.state.current.seq = before.state.current.seq =>
                      after.state.current \in {before.state.current, NoCombat}
                /\ ~after.state.coverage.complete
                /\ after.recording.on /\ after.recording.panicked => ~Replayable(after.recording)]_vars
=============================================================================
