------------------------------- MODULE Engine -------------------------------
(***************************************************************************)
(* One State of the attribution engine (profiler-core/src/data) and what   *)
(* its calls do to it: the combat and its epoch, the coverage it reports,  *)
(* the arena of exported sources, the rows of the ledger, and the plays,   *)
(* generated cards and orbs of play.rs.  Every call is an operator on the  *)
(* state, of the wire values it is given; its value is the new state s and *)
(* the wire value r that the call returns.                                 *)
(*                                                                         *)
(* A source is the set of destinations it credits; its weights are those   *)
(* of module Mixtures, and the calls of powers, pools and damage those of  *)
(* modules Power, Pools and Damage: here they are one call that enters the *)
(* provenance (Ledgered).  Of the number of failures only whether there is *)
(* one is kept.                                                            *)
(***************************************************************************)
EXTENDS Integers, SequencesExt

CONSTANTS
  Slots,         \* 0..TEAM_SLOT; the last one is the TEAM's, also the most players
  MaxRows,       \* COMBAT_CARDS
  MaxGenerated,  \* GENERATED_INSTANCES
  MaxOrbs,       \* ORB_SOURCES
  MaxOpen,       \* ACTIVE_PLAYS_PER_SLOT
  MaxPayload,    \* PAYLOAD_MAX, the largest serial
  MaxCount,      \* u32::MAX, the largest counter
  MaxShares,     \* SOURCE_DESTINATIONS
  MaxReasons     \* COVERAGE_REASONS

Team == CHOOSE slot \in Slots : \A other \in Slots : other <= slot

ASSUME EngineConstants ==
  /\ Slots \subseteq Nat /\ IsFiniteSet(Slots) /\ Slots = 0..Team
  /\ MaxRows > Cardinality(Slots)
  /\ {MaxGenerated, MaxOrbs, MaxOpen, MaxPayload, MaxCount, MaxShares, MaxReasons}
        \subseteq Nat \ {0}

----------------------------------------------------------------------------
(***************************************************************************)
(* The wire.  Everything that crosses it is a number; it is kept as what   *)
(* Token::decode reads in it.                                              *)
(***************************************************************************)
Wire(seq, kind, payload) == [seq |-> seq, kind |-> kind, payload |-> payload]
Number(n) == Wire(0, "number", n)
Zero      == Number(0)

\* Token::decode, of a token that must have the kind: None, or why it is refused.
Misread(wire, kind) ==
  CASE wire.seq = 0                          -> "epoch"
    [] wire.seq # 0 /\ wire.kind # kind      -> "source-handle"
    [] wire.seq # 0 /\ wire.kind = kind      -> "none"

----------------------------------------------------------------------------
(***************************************************************************)
(* The state.                                                              *)
(***************************************************************************)
None        == "none"
NoId        == ""
NoEntries   == [x \in {} |-> {}]
NoArena     == [epoch |-> 0, entries |-> NoEntries, serial |-> 0, reported |-> {}]
NoProvenance == [epoch |-> 0, generated |-> NoEntries, orbs |-> NoEntries, plays |-> {},
                 serial |-> 0, others |-> << >>]
NoCombat == [seq |-> 0, phase |-> None, players |-> 0, rows |-> << >>, plays |-> 0,
             generatedPlays |-> 0, triggers |-> 0, turns |-> 0, potions |-> 0, rowsLost |-> FALSE]

\* State::default()
Fresh ==
  [current |-> NoCombat, arena |-> NoArena, prov |-> NoProvenance, died |-> << >>, revision |-> 0,
   last |-> 0, coverage |-> [complete |-> FALSE, reasons |-> {}], poisoned |-> FALSE]

Active(s) == s.current.phase = "active"

\* Coverage::add_reason
WithReason(reasons, reason) ==
  CASE reason \in reasons \/ Cardinality(reasons) >= MaxReasons     -> reasons
    [] reason \notin reasons /\ Cardinality(reasons) < MaxReasons - 1 -> reasons \cup {reason}
    [] reason \notin reasons /\ Cardinality(reasons) = MaxReasons - 1 ->
          reasons \cup {"additional-failures"}

\* capture_failed
Failed(s, reason) ==
  [s EXCEPT !.coverage = [complete |-> FALSE, reasons |-> WithReason(@.reasons, reason)]]

\* SourceDiagnostics::report
Report(s, failure) == [s EXCEPT !.arena.reported = @ \cup {failure}]

\* SourceDiagnostics::slot
Slotted(s, slot) ==
  IF slot \in Slots THEN [s |-> s, slot |-> slot]
  ELSE [s |-> Report(s, "packet"), slot |-> IF slot < 0 THEN 0 ELSE Team]

\* source_status and its like: a refused call reports why, and returns zero.
Refuse(s, failure) == [s |-> Report(s, failure), r |-> Zero]
Accept(s, r)       == [s |-> s, r |-> r]

\* snapshot_coverage: what an export of the combat says of itself, the failures of
\* the arena in their order (append_coverage) and the rows that were not had.
Reported(s) ==
  SelectSeq(<<"epoch", "source-handle", "packet", "capacity", "arithmetic">>,
            LAMBDA failure : failure \in s.arena.reported)
    \o (IF s.current.rowsLost THEN <<"row-capacity">> ELSE << >>)

SnapshotCoverage(s) ==
  [complete |-> s.coverage.complete /\ s.arena.reported = {} /\ ~s.current.rowsLost,
   reasons |-> FoldLeft(WithReason, s.coverage.reasons, Reported(s))]

\* snapshot
Snapshot(s) ==
  IF s.current = NoCombat THEN [combat |-> NoCombat, coverage |-> None]
  ELSE [combat |-> s.current, coverage |-> SnapshotCoverage(s)]

----------------------------------------------------------------------------
(***************************************************************************)
(* The epoch of a call.                                                    *)
(***************************************************************************)
\* Mutant: an engine that has panicked goes on with its combat.
SourceEpochUnguarded(s, seq) ==
  IF Active(s) /\ s.current.seq = seq
  THEN [s |-> IF s.arena.epoch = seq THEN s ELSE [s EXCEPT !.arena = [NoArena EXCEPT !.epoch = seq]],
        failure |-> None]
  ELSE [s |-> Report(s, "epoch"), failure |-> "epoch"]

\* source_epoch: the call is of the active combat, or it is refused.  The first
\* one of a combat starts its arena.
SourceEpoch(s, seq) ==
  CASE s.poisoned -> [s |-> s, failure |-> "packet"]
    [] ~s.poisoned /\ Active(s) /\ s.current.seq = seq ->
          [s |-> IF s.arena.epoch = seq THEN s ELSE [s EXCEPT !.arena = [NoArena EXCEPT !.epoch = seq]],
           failure |-> None]
    [] ~s.poisoned /\ ~(Active(s) /\ s.current.seq = seq) ->
          [s |-> Report(s, "epoch"), failure |-> "epoch"]

\* provenance_epoch: ... and its provenance.
InProvenance(e, seq) ==
  IF e.failure # None \/ e.s.prov.epoch = seq THEN e
  ELSE [e EXCEPT !.s.prov = [NoProvenance EXCEPT !.epoch = seq]]

ProvenanceEpoch(s, seq) == InProvenance(SourceEpoch(s, seq), seq)

\* provenance_token
ProvenanceToken(s, wire, kind) ==
  IF Misread(wire, kind) # None THEN [s |-> s, failure |-> Misread(wire, kind)]
  ELSE ProvenanceEpoch(s, wire.seq)

\* source_handle_token: a handle that is live.
Held(e, wire) ==
  LET failure == IF e.failure = None /\ wire.payload \notin DOMAIN e.s.arena.entries
                 THEN "source-handle" ELSE e.failure
  IN  [s |-> IF failure = None THEN e.s ELSE Report(e.s, failure), failure |-> failure]

HandleToken(s, wire) ==
  Held(IF Misread(wire, "source") # None THEN [s |-> s, failure |-> Misread(wire, "source")]
       ELSE SourceEpoch(s, wire.seq), wire)

----------------------------------------------------------------------------
(***************************************************************************)
(* Sources.                                                                *)
(***************************************************************************)
\* A table of sources, with one more and without one.
Learn(entries, instance, source) ==
  [x \in DOMAIN entries \cup {instance} |-> IF x = instance THEN source ELSE entries[x]]
Forget(entries, instance) == [x \in DOMAIN entries \ {instance} |-> entries[x]]

Row(i)        == [row |-> i, slot |-> 0]
Nobody(slot)  == [row |-> 0, slot |-> slot]
UnknownSource == {Nobody(Team)}

\* source_snapshot: zero stands for no supplier.
Snapshotted(h, transfer) ==
  [s |-> h.s, failure |-> h.failure,
   source |-> IF h.failure # None THEN UnknownSource ELSE h.s.arena.entries[transfer.payload]]

SourceSnapshot(s, transfer) ==
  IF transfer = Zero THEN [s |-> s, failure |-> None, source |-> UnknownSource]
  ELSE Snapshotted(HandleToken(s, transfer), transfer)

\* source_export: an equal source that is live keeps its handle.
Export(s, source) ==
  LET live == {n \in DOMAIN s.arena.entries : s.arena.entries[n] = source}
      next == s.arena.serial + 1
  IN  IF live # {} THEN Accept(s, Wire(s.arena.epoch, "source", CHOOSE n \in live : TRUE))
      ELSE IF s.arena.serial = MaxPayload THEN Refuse(s, "capacity")
      ELSE Accept([s EXCEPT !.arena.entries = Learn(@, next, source), !.arena.serial = next],
                  Wire(s.arena.epoch, "source", next))

\* source_release
Released(h, handle) ==
  IF h.failure # None THEN Accept(h.s, Zero)
  ELSE Accept([h.s EXCEPT !.arena.entries = Forget(@, handle.payload)], Number(1))

SourceRelease(s, handle) == Released(HandleToken(s, handle), handle)

\* source_accumulate, of after - before more of the second source.
Mixed(one, two) ==
  IF two.failure # None THEN Refuse(two.s, two.failure)
  ELSE IF Cardinality(one.source \cup two.source) > MaxShares THEN Refuse(two.s, "capacity")
  ELSE Export(two.s, one.source \cup two.source)

MixedWith(one, second) ==
  IF one.failure # None THEN Refuse(one.s, one.failure)
  ELSE Mixed(one, SourceSnapshot(one.s, second))

AccumulateIn(e, first, before, second, after) ==
  CASE e.failure # None -> Refuse(e.s, e.failure)
    [] e.failure = None /\ after < before -> Refuse(e.s, "packet")
    [] e.failure = None /\ after >= before /\ before <= 0 -> Accept(e.s, second)
    [] e.failure = None /\ after = before /\ before > 0 -> Accept(e.s, first)
    [] e.failure = None /\ after > before /\ before > 0 ->
         MixedWith(SourceSnapshot(e.s, first), second)

SourceAccumulate(s, seq, first, before, second, after) ==
  AccumulateIn(ProvenanceEpoch(s, seq), first, before, second, after)

----------------------------------------------------------------------------
(***************************************************************************)
(* The rows of the ledger: ledger.rs.                                      *)
(***************************************************************************)
RowsOf(c, slot, id, kind) ==
  {i \in DOMAIN c.rows : c.rows[i].player = slot /\ c.rows[i].id = id /\ c.rows[i].kind = kind}

Ordinary(c) == Cardinality({i \in DOMAIN c.rows : c.rows[i].kind # "unknown"})

\* get_or_create_card_kind, of a row that may be appended: no row if all are taken.
FindRow(c, slot, id, kind) ==
  LET found == RowsOf(c, slot, id, kind)
      row == [player |-> slot, id |-> id, kind |-> kind, plays |-> 0]
  IN  IF found # {} THEN [c |-> c, row |-> CHOOSE i \in found : TRUE]
      ELSE IF Len(c.rows) >= MaxRows THEN [c |-> [c EXCEPT !.rowsLost = TRUE], row |-> 0]
      ELSE [c |-> [c EXCEPT !.rows = Append(@, row)], row |-> Len(c.rows) + 1]

UnknownRow(c, slot) == FindRow(c, slot, "UNATTRIBUTED", "unknown")

\* Mutant: a row that is not had for want of room leaves no mark.
RowForUnmarked(c, slot, id, kind) ==
  IF RowsOf(c, slot, id, kind) = {} /\ Ordinary(c) >= MaxRows - Cardinality(Slots)
  THEN UnknownRow(c, slot)
  ELSE FindRow(c, slot, id, kind)

\* get_or_create_card_kind: the last rows are kept for the slots' unknown ones.
RowFor(c, slot, id, kind) ==
  IF RowsOf(c, slot, id, kind) = {} /\ Ordinary(c) >= MaxRows - Cardinality(Slots)
  THEN UnknownRow([c EXCEPT !.rowsLost = TRUE], slot)
  ELSE FindRow(c, slot, id, kind)

\* named_source
Named(s, found, slot) ==
  [s |-> [s EXCEPT !.current = found.c],
   source |-> {IF found.row # 0 /\ found.c.rows[found.row].kind # "unknown"
               THEN Row(found.row) ELSE Nobody(slot)}]

NamedSource(s, slot, id, kind) == Named(s, RowFor(s.current, slot, id, kind), slot)

\* LedgerStage::row
StageRow(c, to) ==
  IF to.row = 0 THEN UnknownRow(c, to.slot) ELSE [c |-> c, row |-> to.row]

\* A stage is the combat as a call would leave it, and why it cannot: nothing of a
\* stage that failed is kept (LedgerStage::drop).
Stage(s) == [c |-> s.current, failure |-> None]

Fails(stage, failure) ==
  IF stage.failure = None THEN [stage EXCEPT !.failure = failure] ELSE stage

\* LedgerStage::row_play
Played(stage, found) ==
  IF found.row = 0 THEN Fails(stage, "capacity")
  ELSE IF found.c.rows[found.row].plays = MaxCount THEN Fails(stage, "arithmetic")
  ELSE [stage EXCEPT !.c = [found.c EXCEPT !.rows[found.row].plays = @ + 1]]

RowPlay(stage, to) == Played(stage, StageRow(stage.c, to))

\* ... and a checked counter of the combat.
Count(stage, counter) ==
  IF stage.c[counter] = MaxCount THEN Fails(stage, "arithmetic")
  ELSE [stage EXCEPT !.c[counter] = @ + 1]

----------------------------------------------------------------------------
(***************************************************************************)
(* play.rs.                                                                *)
(***************************************************************************)
\* card_source, with the source the host has supplied, or None.
CardSource(s, instance, id, slot, generation, given) ==
  LET generated == instance \in DOMAIN s.prov.generated
      unknown == [s |-> s, source |-> UnknownSource]
  IN  CASE generation = "unavailable" ->
             [s |-> [s EXCEPT !.prov.generated = Forget(@, instance)], source |-> UnknownSource]
        [] generation = "ordinary" /\ instance # 0 /\ id # NoId /\ ~generated ->
             IF given = {} THEN NamedSource(s, slot, id, "card")
             ELSE IF Cardinality(given) = 1 THEN [s |-> s, source |-> given]
             ELSE [unknown EXCEPT !.s = Report(s, "packet")]
        [] generation = "ordinary" /\ ~(instance # 0 /\ id # NoId /\ ~generated) ->
             [unknown EXCEPT !.s = Report(s, "packet")]
        [] generation = "recorded" /\ generated ->
             [s |-> s, source |-> IF given = {} THEN s.prov.generated[instance] ELSE given]
        [] generation = "recorded" /\ ~generated -> unknown
        [] generation = "unclassified" -> unknown

\* Mutant: the row of a trigger is booked, and the trigger is not.
TriggeredUncounted(stage, found, to) ==
  IF found.row # 0 /\ found.c.rows[found.row].kind = "card" THEN [stage EXCEPT !.c = found.c]
  ELSE RowPlay(stage, to)

\* card_generated: a row that is not a card's books its trigger.
Triggered(stage, found, to) ==
  IF found.row # 0 /\ found.c.rows[found.row].kind = "card" THEN [stage EXCEPT !.c = found.c]
  ELSE Count(RowPlay(stage, to), "triggers")

Remember(s, instance, source) ==
  IF instance = 0 \/ Cardinality(DOMAIN s.prov.generated) = MaxGenerated THEN Refuse(s, "capacity")
  ELSE Accept([s EXCEPT !.prov.generated = Learn(@, instance, source)], Number(1))

\* What the stage of a generation may have booked: rows, and triggers.
Booked(c, stage) ==
  [c EXCEPT !.rows = stage.c.rows, !.rowsLost = stage.c.rowsLost, !.triggers = stage.c.triggers]

GeneratedWith(given, stage, instance) ==
  IF stage.failure # None THEN Refuse(given.s, stage.failure)
  ELSE Remember([given.s EXCEPT !.current = Booked(@, stage)], instance, given.source)

TriggerOf(stage, to) == Triggered(stage, StageRow(stage.c, to), to)

\* ... of every destination of the card's source, one by one.
Triggers(first, source) ==
  LET order == SetToSeq(source)
      after[i \in 0..Len(order)] == IF i = 0 THEN first ELSE TriggerOf(after[i - 1], order[i])
  IN  after[Len(order)]

GeneratedBy(given, instance) ==
  IF given.failure # None THEN Refuse(given.s, given.failure)
  ELSE GeneratedWith(given, Triggers(Stage(given.s), given.source), instance)

\* Mutant: what was known of the card is kept until the call succeeds.
GeneratedInKeeping(e, instance, transfer) ==
  IF e.failure # None THEN Refuse(e.s, e.failure)
  ELSE GeneratedBy(SourceSnapshot(e.s, transfer), instance)

GeneratedIn(e, instance, transfer) ==
  IF e.failure # None THEN Refuse(e.s, e.failure)
  ELSE GeneratedBy(SourceSnapshot([e.s EXCEPT !.prov.generated = Forget(@, instance)], transfer), instance)

CardGenerated(s, seq, instance, transfer) == GeneratedIn(ProvenanceEpoch(s, seq), instance, transfer)

\* slot_index: the players' table reaches to the slot.
SlotIndex(died, slot) ==
  IF Len(died) > slot THEN died ELSE died \o [i \in 1..(slot + 1 - Len(died)) |-> FALSE]

\* card_play_started, of a play index below the play count.  The play is booked before
\* it is refused for want of room.
Open(s, play, source) ==
  LET open == {p \in s.prov.plays : p.slot = play.slot}
      serial == s.prov.serial + 1
  IN  IF play.execution = 0 \/ play.instance = 0 \/ s.prov.serial = MaxPayload
         \/ Cardinality(open) = MaxOpen
      THEN Refuse(s, "capacity")
      ELSE Accept([s EXCEPT !.prov.serial = serial,
                            !.prov.plays = @ \cup {[serial |-> serial, execution |-> play.execution,
                               slot |-> play.slot, source |-> source, orbUsed |-> FALSE]}],
                  Wire(s.prov.epoch, "play", serial))

StartWith(found, stage, play) ==
  IF stage.failure # None THEN Refuse(found.s, stage.failure)
  ELSE Open([found.s EXCEPT !.current = stage.c, !.died = SlotIndex(@, play.slot)], play, found.source)

StartFrom(found, play) ==
  LET played == Count(Stage(found.s), "plays")
  IN  StartWith(found, IF play.generation \in {"recorded", "unavailable"}
                       THEN Count(played, "generatedPlays")
                       ELSE RowPlay(played, CHOOSE to \in found.source : TRUE), play)

StartBy(given, play) ==
  IF given.failure # None THEN Refuse(given.s, given.failure)
  ELSE StartFrom(CardSource(given.s, play.instance, play.id, play.slot, play.generation, given.source), play)

StartIn(e, execution, instance, id, player, generation, transfer) ==
  IF e.failure # None THEN Refuse(e.s, e.failure)
  ELSE StartBy(SourceSnapshot(Slotted(e.s, player).s, transfer),
               [execution |-> execution, instance |-> instance, id |-> id,
                slot |-> Slotted(e.s, player).slot, generation |-> generation])

CardPlayStarted(s, seq, execution, instance, id, player, generation, transfer) ==
  StartIn(ProvenanceEpoch(s, seq), execution, instance, id, player, generation, transfer)

\* card_play_finished: the play of the token, whoever's it is.
FinishIn(e, serial) ==
  LET its == {p \in e.s.prov.plays : p.serial = serial}
  IN  CASE e.failure # None -> Refuse(e.s, e.failure)
        [] e.failure = None /\ its = {} -> Refuse(e.s, "source-handle")
        [] e.failure = None /\ its # {} -> Accept([e.s EXCEPT !.prov.plays = @ \ its], Number(1))

CardPlayFinished(s, token) == FinishIn(ProvenanceToken(s, token, "play"), token.payload)

\* card_execution_ended: whatever the execution has left open.
EndIn(e, execution) ==
  CASE e.failure # None -> Refuse(e.s, e.failure)
    [] e.failure = None /\ execution = 0 -> Refuse(e.s, "packet")
    [] e.failure = None /\ execution # 0 ->
         Accept([e.s EXCEPT !.prov.plays = {p \in @ : p.execution # execution}], Number(1))

CardExecutionEnded(s, seq, execution) == EndIn(ProvenanceEpoch(s, seq), execution)

\* orb_channeled
ChannelBy(given, instance) ==
  IF given.failure # None THEN Refuse(given.s, given.failure)
  ELSE IF instance = 0 \/ Cardinality(DOMAIN given.s.prov.orbs) = MaxOrbs THEN Refuse(given.s, "capacity")
  ELSE Accept([given.s EXCEPT !.prov.orbs = Learn(@, instance, given.source)], Number(1))

ChannelIn(e, instance, transfer) ==
  IF e.failure # None THEN Refuse(e.s, e.failure)
  ELSE ChannelBy(SourceSnapshot([e.s EXCEPT !.prov.orbs = Forget(@, instance)], transfer), instance)

OrbChanneled(s, seq, instance, transfer) == ChannelIn(ProvenanceEpoch(s, seq), instance, transfer)

\* orb_context_begin: 2 if the play has already had its first orb, 1 if who
\* channeled the orb is known.
Channeler(s, instance) == Number(IF instance \in DOMAIN s.prov.orbs THEN 1 ELSE 0)

ContextOf(t, its, instance) ==
  CASE t.failure # None -> Refuse(t.s, t.failure)
    [] t.failure = None /\ its = {} -> Refuse(t.s, "source-handle")
    [] t.failure = None /\ \E p \in its : p.orbUsed -> Accept(t.s, Number(2))
    [] t.failure = None /\ its # {} /\ \A p \in its : ~p.orbUsed ->
         Accept([t.s EXCEPT !.prov.plays = (@ \ its) \cup {[p EXCEPT !.orbUsed = TRUE] : p \in its}],
                Channeler(t.s, instance))

ContextBy(t, serial, slot, instance) ==
  ContextOf(t, {p \in t.s.prov.plays : p.serial = serial /\ p.slot = slot}, instance)

ContextIn(e, instance, token, player) ==
  LET owner == Slotted(e.s, player)
  IN  IF e.failure # None THEN Refuse(e.s, e.failure)
      ELSE IF token = Zero THEN Accept(owner.s, Channeler(e.s, instance))
      ELSE ContextBy(ProvenanceToken(owner.s, token, "play"), token.payload, owner.slot, instance)

OrbContextBegin(s, seq, instance, token, player) ==
  ContextIn(ProvenanceEpoch(s, seq), instance, token, player)

\* source_capture, of what the host finds behind the model it captures.  The powers'
\* sources are those of module Power: an engine that keeps none knows no supplier.
Captured(at, kind, instance, id, generation) ==
  CASE kind = "card" -> CardSource(at.s, instance, id, at.slot, generation, {})
    [] kind = "orb" /\ instance \in DOMAIN at.s.prov.orbs ->
         [s |-> at.s, source |-> at.s.prov.orbs[instance]]
    [] kind \in {"relic", "potion"} /\ id # NoId -> NamedSource(at.s, at.slot, id, kind)
    [] OTHER -> [s |-> at.s, source |-> UnknownSource]

CaptureIn(e, kind, instance, id, player, generation) ==
  LET exported(found) == Export(found.s, found.source)
  IN  IF e.failure # None THEN Accept(e.s, Zero)
      ELSE exported(Captured(Slotted(e.s, player), kind, instance, id, generation))

SourceCapture(s, seq, kind, instance, id, player, generation) ==
  CaptureIn(ProvenanceEpoch(s, seq), kind, instance, id, player, generation)

----------------------------------------------------------------------------
(***************************************************************************)
(* The combat: summary.rs and the end of source.rs.                        *)
(***************************************************************************)
\* discard_combat
Discarded(s) ==
  [s EXCEPT !.current = NoCombat, !.arena = NoArena, !.prov = NoProvenance]

\* Mutant: the coverage of the combat before is carried on.
CombatStartedCovered(s, seq, count) ==
  LET players == IF count < 0 THEN 0 ELSE IF count > Team THEN Team ELSE count
      combat == [NoCombat EXCEPT !.seq = seq, !.phase = "active", !.players = players]
      started == [Discarded(s) EXCEPT !.last = seq, !.poisoned = FALSE, !.current = combat,
                    !.coverage = [complete |-> TRUE, reasons |-> @.reasons],
                    !.died = [i \in 1..players |-> FALSE], !.revision = @ + 1]
  IN  IF seq = 0 \/ seq <= s.last THEN Accept(Failed(s, "combat-epoch"), Zero)
      ELSE Accept(started, Number(seq))

\* combat_started: sequences only grow.
CombatStarted(s, seq, count) ==
  LET players == IF count < 0 THEN 0 ELSE IF count > Team THEN Team ELSE count
      combat == [NoCombat EXCEPT !.seq = seq, !.phase = "active", !.players = players]
      started == [Discarded(s) EXCEPT !.last = seq, !.poisoned = FALSE, !.current = combat,
                    !.coverage = [complete |-> TRUE, reasons |-> {}],
                    !.died = [i \in 1..players |-> FALSE], !.revision = @ + 1]
  IN  IF seq = 0 \/ seq <= s.last \/ (s.current # NoCombat /\ s.current.seq >= seq)
      THEN Accept(Failed(s, "combat-epoch"), Zero)
      ELSE Accept(IF count = players THEN started ELSE Failed(started, "player-count"), Number(seq))

\* combat_ended: a defeat is the death of every player, of those that were seen if
\* their number was not.
Phase(s) ==
  LET dead(i) == i \in DOMAIN s.died /\ s.died[i]
      expected == IF s.current.players = 0 THEN 1..(IF Len(s.died) > Team THEN Team ELSE Len(s.died))
                  ELSE 1..s.current.players
  IN  IF expected # {} /\ \A i \in expected : dead(i) THEN "defeat" ELSE "completed"

EndCombatIn(e) ==
  IF e.failure # None THEN Accept(e.s, Zero)
  ELSE Accept([e.s EXCEPT !.current.phase = Phase(e.s), !.prov = NoProvenance,
                          !.arena.entries = NoEntries], Number(1))

CombatEnded(s, seq) == EndCombatIn(ProvenanceEpoch(s, seq))

\* turn_started and potion_used
CountIn(e, stage) ==
  CASE e.failure # None -> Refuse(e.s, e.failure)
    [] e.failure = None /\ stage.failure # None -> Refuse(e.s, stage.failure)
    [] e.failure = None /\ stage.failure = None -> Accept([e.s EXCEPT !.current = stage.c], Number(1))

Counted(s, seq, counter) ==
  CountIn(ProvenanceEpoch(s, seq), Count(Stage(s), counter))

\* player_died
DeathOf(e, at) ==
  IF e.failure # None THEN Refuse(e.s, e.failure)
  ELSE Accept([at.s EXCEPT !.died = [SlotIndex(@, at.slot) EXCEPT ![at.slot + 1] = TRUE]], Number(1))

DiedIn(e, player) == DeathOf(e, Slotted(e.s, player))

PlayerDied(s, seq, player) == DiedIn(ProvenanceEpoch(s, seq), player)

\* The calls of the other modules: they are of an epoch, they are refused when their
\* tables are full, and what they return depends on what the combat has been told
\* before; those that begin something return a token for it.
Begins == {"damage_calculation_begin", "doom_batch_begin"}

LedgerIn(e, seq, op) ==
  LET told == e.s.prov.others
      serial == Len(SelectSeq(told, LAMBDA other : other = op)) + 1
  IN  IF e.failure # None THEN Refuse(e.s, e.failure)
      ELSE IF Len(told) = MaxCount THEN Refuse(e.s, "capacity")
      ELSE Accept([e.s EXCEPT !.prov.others = Append(@, op)],
                  IF op \in Begins THEN Wire(seq, op, serial) ELSE Number(1))

Ledgered(s, seq, op) == LedgerIn(ProvenanceEpoch(s, seq), seq, op)

\* WeakObservation::prevention refuses what no observation can hold.
WeakPrevention(s, valid, prevented) ==
  IF valid THEN Accept(s, Number(prevented)) ELSE Accept(Failed(s, "weak-policy"), Number(-1))
=============================================================================
