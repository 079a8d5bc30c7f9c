---------------------------- MODULE BoundaryProofs ----------------------------
(***************************************************************************)
(* Theorems about Boundary, for any threads, limits and calls.             *)
(***************************************************************************)
EXTENDS Boundary, WellFoundedInduction, TLAPS, FiniteSetTheorems

Fields == {"current", "arena", "prov", "died", "revision", "last", "coverage", "poisoned"}

\* A State that has been called n times, and whether it is poisoned.
IsState(s, n, p) == DOMAIN s = Fields /\ s.revision = n /\ s.poisoned = p

----------------------------------------------------------------------------
LEMMA ReportKeeps ==
  ASSUME NEW s, NEW n, NEW p, IsState(s, n, p), NEW failure
  PROVE  IsState(Report(s, failure), n, p)
BY DEF IsState, Fields, Report

LEMMA FailedKeeps ==
  ASSUME NEW s, NEW n, NEW p, IsState(s, n, p), NEW reason
  PROVE  IsState(Failed(s, reason), n, p)
BY DEF IsState, Fields, Failed

LEMMA SlottedKeeps ==
  ASSUME NEW s, NEW n, NEW p, IsState(s, n, p), NEW slot
  PROVE  IsState(Slotted(s, slot).s, n, p)
BY ReportKeeps DEF Slotted

LEMMA RefuseKeeps ==
  ASSUME NEW s, NEW n, NEW p, IsState(s, n, p), NEW failure
  PROVE  IsState(Refuse(s, failure).s, n, p)
BY ReportKeeps DEF Refuse

LEMMA EpochKeeps ==
  ASSUME NEW s, NEW n, NEW p, IsState(s, n, p), NEW seq
  PROVE  /\ IsState(SourceEpoch(s, seq).s, n, p)
         /\ IsState(ProvenanceEpoch(s, seq).s, n, p)
<1>1. IsState(SourceEpoch(s, seq).s, n, p)
  <2>1. CASE s.poisoned
    BY <2>1 DEF SourceEpoch
  <2>2. CASE ~s.poisoned /\ Active(s) /\ s.current.seq = seq
    BY <2>2 DEF SourceEpoch, IsState, Fields
  <2>3. CASE ~s.poisoned /\ ~(Active(s) /\ s.current.seq = seq)
    BY <2>3, ReportKeeps DEF SourceEpoch
  <2>4. QED
    BY <2>1, <2>2, <2>3
<1>2. ASSUME NEW e, DOMAIN e = {"s", "failure"}, IsState(e.s, n, p)
      PROVE  IsState(InProvenance(e, seq).s, n, p)
  BY <1>2 DEF InProvenance, IsState, Fields
<1>3. DOMAIN SourceEpoch(s, seq) = {"s", "failure"}
  BY DEF SourceEpoch
<1>4. QED
  BY <1>1, <1>2, <1>3 DEF ProvenanceEpoch

LEMMA TokenKeeps ==
  ASSUME NEW s, NEW n, NEW p, IsState(s, n, p), NEW wire, NEW kind
  PROVE  /\ IsState(ProvenanceToken(s, wire, kind).s, n, p)
         /\ IsState(HandleToken(s, wire).s, n, p)
<1>1. IsState(ProvenanceToken(s, wire, kind).s, n, p)
  BY EpochKeeps DEF ProvenanceToken
<1>2. ASSUME NEW e, IsState(e.s, n, p)
      PROVE  IsState(Held(e, wire).s, n, p)
  BY <1>2, ReportKeeps DEF Held
<1>3. QED
  BY <1>1, <1>2, EpochKeeps DEF HandleToken

LEMMA SnapshotKeeps ==
  ASSUME NEW s, NEW n, NEW p, IsState(s, n, p), NEW transfer
  PROVE  IsState(SourceSnapshot(s, transfer).s, n, p)
BY TokenKeeps DEF SourceSnapshot, Snapshotted

LEMMA ExportKeeps ==
  ASSUME NEW s, NEW n, NEW p, IsState(s, n, p), NEW source
  PROVE  IsState(Export(s, source).s, n, p)
<1>1. \A t, r : Accept(t, r).s = t
  BY DEF Accept
<1> DEFINE live == {m \in DOMAIN s.arena.entries : s.arena.entries[m] = source}
           next == s.arena.serial + 1
           more == [s EXCEPT !.arena.entries = Learn(@, next, source), !.arena.serial = next]
<1>2. IsState(more, n, p)
  BY DEF IsState, Fields
<1>3. Export(s, source) =
        IF live # {} THEN Accept(s, Wire(s.arena.epoch, "source", CHOOSE m \in live : TRUE))
        ELSE IF s.arena.serial = MaxPayload THEN Refuse(s, "capacity")
        ELSE Accept(more, Wire(s.arena.epoch, "source", next))
  BY DEF Export
<1> HIDE DEF live, next, more
<1>4. QED
  BY <1>1, <1>2, <1>3, RefuseKeeps

LEMMA ReleaseKeeps ==
  ASSUME NEW s, NEW n, NEW p, IsState(s, n, p), NEW handle
  PROVE  IsState(SourceRelease(s, handle).s, n, p)
<1>1. ASSUME NEW h, IsState(h.s, n, p)
      PROVE  IsState(Released(h, handle).s, n, p)
  BY <1>1 DEF Released, Accept, IsState, Fields
<1>2. QED
  BY <1>1, TokenKeeps DEF SourceRelease

LEMMA AccumulateKeeps ==
  ASSUME NEW s, NEW n, NEW p, IsState(s, n, p),
         NEW seq, NEW first, NEW second, NEW before \in Int, NEW after \in Int
  PROVE  IsState(SourceAccumulate(s, seq, first, before, second, after).s, n, p)
<1>1. ASSUME NEW one, NEW two, IsState(two.s, n, p)
      PROVE  IsState(Mixed(one, two).s, n, p)
  BY <1>1, RefuseKeeps, ExportKeeps DEF Mixed
<1>2. ASSUME NEW one, IsState(one.s, n, p)
      PROVE  IsState(MixedWith(one, second).s, n, p)
  BY <1>1, <1>2, RefuseKeeps, SnapshotKeeps DEF MixedWith
<1>3. ASSUME NEW e, IsState(e.s, n, p)
      PROVE  IsState(AccumulateIn(e, first, before, second, after).s, n, p)
  <2>1. IsState(Refuse(e.s, e.failure).s, n, p) /\ IsState(Refuse(e.s, "packet").s, n, p)
    BY <1>3, RefuseKeeps
  <2>2. IsState(Accept(e.s, first).s, n, p) /\ IsState(Accept(e.s, second).s, n, p)
    BY <1>3 DEF Accept
  <2>3. IsState(MixedWith(SourceSnapshot(e.s, first), second).s, n, p)
    BY <1>2, <1>3, SnapshotKeeps
  <2>4. \/ e.failure # None
        \/ e.failure = None /\ after < before
        \/ e.failure = None /\ after >= before /\ before <= 0
        \/ e.failure = None /\ after = before /\ before > 0
        \/ e.failure = None /\ after > before /\ before > 0
    OBVIOUS
  <2>5. QED
    BY <2>1, <2>2, <2>3, <2>4 DEF AccumulateIn
<1>4. QED
  BY <1>3, EpochKeeps DEF SourceAccumulate

LEMMA CardSourceKeeps ==
  ASSUME NEW s, NEW n, NEW p, IsState(s, n, p),
         NEW instance, NEW id, NEW slot, NEW generation, NEW given, NEW kind,
         generation \in {"unavailable", "ordinary", "recorded", "unclassified"}
  PROVE  /\ IsState(NamedSource(s, slot, id, kind).s, n, p)
         /\ IsState(CardSource(s, instance, id, slot, generation, given).s, n, p)
<1>1. \A k : IsState(NamedSource(s, slot, id, k).s, n, p)
  BY DEF NamedSource, Named, IsState, Fields
<1>2. CASE generation = "unavailable"
  <2>1. IsState([s EXCEPT !.prov.generated = Forget(@, instance)], n, p)
    BY DEF IsState, Fields
  <2>2. QED
    BY <1>1, <1>2, <2>1 DEF CardSource
<1>3. CASE generation = "ordinary"
  BY <1>1, <1>3, ReportKeeps DEF CardSource
<1>4. CASE generation \in {"recorded", "unclassified"}
  BY <1>1, <1>4 DEF CardSource
<1>5. QED
  BY <1>1, <1>2, <1>3, <1>4

LEMMA GeneratedKeeps ==
  ASSUME NEW s, NEW n, NEW p, IsState(s, n, p), NEW seq, NEW instance, NEW transfer
  PROVE  IsState(CardGenerated(s, seq, instance, transfer).s, n, p)
<1>1. ASSUME NEW t, IsState(t, n, p), NEW source
      PROVE  IsState(Remember(t, instance, source).s, n, p)
  <2>1. IsState([t EXCEPT !.prov.generated = Learn(@, instance, source)], n, p)
    BY <1>1 DEF IsState, Fields
  <2>2. QED
    BY <1>1, <2>1, RefuseKeeps DEF Remember, Accept
<1>2. ASSUME NEW given, IsState(given.s, n, p), NEW stage
      PROVE  IsState(GeneratedWith(given, stage, instance).s, n, p)
  <2>1. IsState([given.s EXCEPT !.current = Booked(@, stage)], n, p)
    BY <1>2 DEF IsState, Fields
  <2>2. QED
    BY <1>1, <1>2, <2>1, RefuseKeeps DEF GeneratedWith
<1>3. ASSUME NEW given, IsState(given.s, n, p)
      PROVE  IsState(GeneratedBy(given, instance).s, n, p)
  <2> DEFINE stage == Triggers(Stage(given.s), given.source)
  <2>1. GeneratedBy(given, instance) =
          IF given.failure # None THEN Refuse(given.s, given.failure)
          ELSE GeneratedWith(given, stage, instance)
    BY DEF GeneratedBy
  <2> HIDE DEF stage
  <2>2. QED
    BY <1>2, <1>3, <2>1, RefuseKeeps
<1>4. ASSUME NEW e, IsState(e.s, n, p)
      PROVE  IsState(GeneratedIn(e, instance, transfer).s, n, p)
  <2>1. IsState([e.s EXCEPT !.prov.generated = Forget(@, instance)], n, p)
    BY <1>4 DEF IsState, Fields
  <2>2. QED
    BY <1>3, <1>4, <2>1, RefuseKeeps, SnapshotKeeps DEF GeneratedIn
<1>5. QED
  BY <1>4, EpochKeeps DEF CardGenerated

LEMMA StartedKeeps ==
  ASSUME NEW s, NEW n, NEW p, IsState(s, n, p), NEW seq, NEW execution, NEW instance, NEW id,
         NEW player, NEW transfer,
         NEW generation \in {"unavailable", "ordinary", "recorded", "unclassified"}
  PROVE  IsState(CardPlayStarted(s, seq, execution, instance, id, player, generation, transfer).s, n, p)
<1>1. ASSUME NEW t, IsState(t, n, p), NEW play, NEW source
      PROVE  IsState(Open(t, play, source).s, n, p)
  <2> DEFINE open == {q \in t.prov.plays : q.slot = play.slot}
             serial == t.prov.serial + 1
             more == [t EXCEPT !.prov.serial = serial,
                            !.prov.plays = @ \cup {[serial |-> serial, execution |-> play.execution,
                               slot |-> play.slot, source |-> source, orbUsed |-> FALSE]}]
  <2>1. IsState(more, n, p)
    BY <1>1 DEF IsState, Fields
  <2>2. Open(t, play, source) =
          IF play.execution = 0 \/ play.instance = 0 \/ t.prov.serial = MaxPayload
             \/ Cardinality(open) = MaxOpen
          THEN Refuse(t, "capacity")
          ELSE Accept(more, Wire(t.prov.epoch, "play", serial))
    BY DEF Open
  <2> HIDE DEF open, serial, more
  <2>3. QED
    BY <1>1, <2>1, <2>2, RefuseKeeps DEF Accept
<1>2. ASSUME NEW found, IsState(found.s, n, p), NEW stage, NEW play
      PROVE  IsState(StartWith(found, stage, play).s, n, p)
  <2>1. IsState([found.s EXCEPT !.current = stage.c, !.died = SlotIndex(@, play.slot)], n, p)
    BY <1>2 DEF IsState, Fields
  <2>2. QED
    BY <1>1, <1>2, <2>1, RefuseKeeps DEF StartWith
<1>3. ASSUME NEW found, IsState(found.s, n, p), NEW play
      PROVE  IsState(StartFrom(found, play).s, n, p)
  BY <1>2, <1>3 DEF StartFrom
<1>4. ASSUME NEW given, IsState(given.s, n, p), NEW play, play.generation = generation
      PROVE  IsState(StartBy(given, play).s, n, p)
  BY <1>3, <1>4, RefuseKeeps, CardSourceKeeps DEF StartBy
<1>5. ASSUME NEW e, IsState(e.s, n, p)
      PROVE  IsState(StartIn(e, execution, instance, id, player, generation, transfer).s, n, p)
  BY <1>4, <1>5, RefuseKeeps, SlottedKeeps, SnapshotKeeps DEF StartIn
<1>6. QED
  BY <1>5, EpochKeeps DEF CardPlayStarted

LEMMA FinishedKeeps ==
  ASSUME NEW s, NEW n, NEW p, IsState(s, n, p), NEW token, NEW seq, NEW execution
  PROVE  /\ IsState(CardPlayFinished(s, token).s, n, p)
         /\ IsState(CardExecutionEnded(s, seq, execution).s, n, p)
<1>1. ASSUME NEW t, IsState(t, n, p), NEW plays
      PROVE  IsState([t EXCEPT !.prov.plays = plays], n, p)
  BY <1>1 DEF IsState, Fields
<1>2. ASSUME NEW e, IsState(e.s, n, p), NEW serial
      PROVE  IsState(FinishIn(e, serial).s, n, p)
  <2> DEFINE its == {q \in e.s.prov.plays : q.serial = serial}
  <2>1. \/ FinishIn(e, serial) = Refuse(e.s, e.failure)
        \/ FinishIn(e, serial) = Refuse(e.s, "source-handle")
        \/ FinishIn(e, serial) = Accept([e.s EXCEPT !.prov.plays = @ \ its], Number(1))
    BY DEF FinishIn
  <2>2. QED
    BY <1>1, <1>2, <2>1, RefuseKeeps DEF Accept
<1>3. ASSUME NEW e, IsState(e.s, n, p)
      PROVE  IsState(EndIn(e, execution).s, n, p)
  <2>1. \/ EndIn(e, execution) = Refuse(e.s, e.failure)
        \/ EndIn(e, execution) = Refuse(e.s, "packet")
        \/ EndIn(e, execution) =
             Accept([e.s EXCEPT !.prov.plays = {q \in @ : q.execution # execution}], Number(1))
    BY DEF EndIn
  <2>2. QED
    BY <1>1, <1>3, <2>1, RefuseKeeps DEF Accept
<1>4. QED
  BY <1>2, <1>3, EpochKeeps, TokenKeeps DEF CardPlayFinished, CardExecutionEnded

LEMMA OrbKeeps ==
  ASSUME NEW s, NEW n, NEW p, IsState(s, n, p), NEW seq, NEW instance, NEW transfer, NEW token, NEW player
  PROVE  /\ IsState(OrbChanneled(s, seq, instance, transfer).s, n, p)
         /\ IsState(OrbContextBegin(s, seq, instance, token, player).s, n, p)
<1>1. ASSUME NEW given, IsState(given.s, n, p)
      PROVE  IsState(ChannelBy(given, instance).s, n, p)
  <2>1. IsState([given.s EXCEPT !.prov.orbs = Learn(@, instance, given.source)], n, p)
    BY <1>1 DEF IsState, Fields
  <2>2. QED
    BY <1>1, <2>1, RefuseKeeps DEF ChannelBy, Accept
<1>2. ASSUME NEW e, IsState(e.s, n, p)
      PROVE  IsState(ChannelIn(e, instance, transfer).s, n, p)
  <2>1. IsState([e.s EXCEPT !.prov.orbs = Forget(@, instance)], n, p)
    BY <1>2 DEF IsState, Fields
  <2>2. QED
    BY <1>1, <1>2, <2>1, RefuseKeeps, SnapshotKeeps DEF ChannelIn
<1>3. ASSUME NEW t, IsState(t.s, n, p), NEW its
      PROVE  IsState(ContextOf(t, its, instance).s, n, p)
  <2> DEFINE used == [t.s EXCEPT !.prov.plays =
                        (@ \ its) \cup {[q EXCEPT !.orbUsed = TRUE] : q \in its}]
  <2>1. IsState(used, n, p)
    BY <1>3 DEF IsState, Fields
  <2>2. \/ ContextOf(t, its, instance) = Refuse(t.s, t.failure)
        \/ ContextOf(t, its, instance) = Refuse(t.s, "source-handle")
        \/ ContextOf(t, its, instance) = Accept(t.s, Number(2))
        \/ ContextOf(t, its, instance) = Accept(used, Channeler(t.s, instance))
    BY DEF ContextOf
  <2> HIDE DEF used
  <2>3. QED
    BY <1>3, <2>1, <2>2, RefuseKeeps DEF Accept
<1>4. ASSUME NEW e, IsState(e.s, n, p)
      PROVE  IsState(ContextIn(e, instance, token, player).s, n, p)
  BY <1>3, <1>4, RefuseKeeps, SlottedKeeps, TokenKeeps DEF ContextIn, ContextBy, Accept
<1>5. QED
  BY <1>2, <1>4, EpochKeeps DEF OrbChanneled, OrbContextBegin

LEMMA CaptureKeeps ==
  ASSUME NEW s, NEW n, NEW p, IsState(s, n, p), NEW seq, NEW kind, NEW instance, NEW id, NEW player,
         NEW generation \in {"unavailable", "ordinary", "recorded", "unclassified"}
  PROVE  IsState(SourceCapture(s, seq, kind, instance, id, player, generation).s, n, p)
<1>1. ASSUME NEW at, IsState(at.s, n, p)
      PROVE  IsState(Captured(at, kind, instance, id, generation).s, n, p)
  <2>1. \/ Captured(at, kind, instance, id, generation)
             = CardSource(at.s, instance, id, at.slot, generation, {})
        \/ Captured(at, kind, instance, id, generation) = NamedSource(at.s, at.slot, id, kind)
        \/ Captured(at, kind, instance, id, generation).s = at.s
    BY DEF Captured
  <2>2. QED
    BY <1>1, <2>1, CardSourceKeeps
<1>2. ASSUME NEW e, IsState(e.s, n, p)
      PROVE  IsState(CaptureIn(e, kind, instance, id, player, generation).s, n, p)
  BY <1>1, <1>2, SlottedKeeps, ExportKeeps DEF CaptureIn, Accept
<1>3. QED
  BY <1>2, EpochKeeps DEF SourceCapture

LEMMA CountersKeep ==
  ASSUME NEW s, NEW n, NEW p, IsState(s, n, p), NEW seq, NEW counter, NEW player, NEW op
  PROVE  /\ IsState(Counted(s, seq, counter).s, n, p)
         /\ IsState(PlayerDied(s, seq, player).s, n, p)
         /\ IsState(Ledgered(s, seq, op).s, n, p)
<1>1. ASSUME NEW e, IsState(e.s, n, p), NEW stage
      PROVE  IsState(CountIn(e, stage).s, n, p)
  <2>1. IsState([e.s EXCEPT !.current = stage.c], n, p)
    BY <1>1 DEF IsState, Fields
  <2>2. \/ CountIn(e, stage) = Refuse(e.s, e.failure)
        \/ CountIn(e, stage) = Refuse(e.s, stage.failure)
        \/ CountIn(e, stage) = Accept([e.s EXCEPT !.current = stage.c], Number(1))
    BY DEF CountIn
  <2>3. QED
    BY <1>1, <2>1, <2>2, RefuseKeeps DEF Accept
<1>2. ASSUME NEW e, IsState(e.s, n, p), NEW at, IsState(at.s, n, p)
      PROVE  IsState(DeathOf(e, at).s, n, p)
  <2>1. IsState([at.s EXCEPT !.died = [SlotIndex(@, at.slot) EXCEPT ![at.slot + 1] = TRUE]], n, p)
    BY <1>2 DEF IsState, Fields
  <2>2. QED
    BY <1>2, <2>1, RefuseKeeps DEF DeathOf, Accept
<1>3. ASSUME NEW e, IsState(e.s, n, p)
      PROVE  IsState(LedgerIn(e, seq, op).s, n, p)
  <2>1. IsState([e.s EXCEPT !.prov.others = Append(@, op)], n, p)
    BY <1>3 DEF IsState, Fields
  <2>2. \/ LedgerIn(e, seq, op) = Refuse(e.s, e.failure)
        \/ LedgerIn(e, seq, op) = Refuse(e.s, "capacity")
        \/ LedgerIn(e, seq, op).s = [e.s EXCEPT !.prov.others = Append(@, op)]
    BY DEF LedgerIn, Accept
  <2>3. QED
    BY <1>3, <2>1, <2>2, RefuseKeeps
<1>4. QED
  BY <1>1, <1>2, <1>3, EpochKeeps, SlottedKeeps DEF Counted, PlayerDied, DiedIn, Ledgered

LEMMA CombatsKeep ==
  ASSUME NEW s, NEW n \in Nat, NEW p, IsState(s, n, p), NEW seq, NEW count
  PROVE  /\ IsState(Discarded(s), n, p)
         /\ IsState(CombatEnded(s, seq).s, n, p)
         /\ \/ IsState(CombatStarted(s, seq, count).s, n, p)
            \/ IsState(CombatStarted(s, seq, count).s, n + 1, FALSE)
<1>1. IsState(Discarded(s), n, p)
  BY DEF Discarded, IsState, Fields
<1>2. ASSUME NEW e, IsState(e.s, n, p)
      PROVE  IsState(EndCombatIn(e).s, n, p)
  BY <1>2 DEF EndCombatIn, Accept, IsState, Fields
<1>3. ASSUME NEW players, NEW combat
      PROVE  IsState([Discarded(s) EXCEPT !.last = seq, !.poisoned = FALSE, !.current = combat,
                         !.coverage = [complete |-> TRUE, reasons |-> {}],
                         !.died = [i \in 1..players |-> FALSE], !.revision = @ + 1], n + 1, FALSE)
  BY <1>1 DEF IsState, Fields
<1>4. \/ CombatStarted(s, seq, count).s = Failed(s, "combat-epoch")
      \/ \E players, combat :
           LET started == [Discarded(s) EXCEPT !.last = seq, !.poisoned = FALSE, !.current = combat,
                             !.coverage = [complete |-> TRUE, reasons |-> {}],
                             !.died = [i \in 1..players |-> FALSE], !.revision = @ + 1]
           IN  \/ CombatStarted(s, seq, count).s = started
               \/ CombatStarted(s, seq, count).s = Failed(started, "player-count")
  BY DEF CombatStarted, Accept
<1>5. \/ IsState(CombatStarted(s, seq, count).s, n, p)
      \/ IsState(CombatStarted(s, seq, count).s, n + 1, FALSE)
  <2>1. CASE CombatStarted(s, seq, count).s = Failed(s, "combat-epoch")
    BY <2>1, FailedKeeps
  <2>2. ASSUME NEW started, IsState(started, n + 1, FALSE),
               \/ CombatStarted(s, seq, count).s = started
               \/ CombatStarted(s, seq, count).s = Failed(started, "player-count")
        PROVE  IsState(CombatStarted(s, seq, count).s, n + 1, FALSE)
    BY <2>2, FailedKeeps
  <2>3. QED
    BY <1>3, <1>4, <2>1, <2>2
<1>6. QED
  BY <1>1, <1>2, <1>5, EpochKeeps DEF CombatEnded

\* The dispatch of a call by its name.
LEMMA Dispatched ==
  ASSUME NEW s, NEW call
  PROVE  /\ call.op \in SourceOps => Apply(s, call) = ApplySource(s, call)
         /\ call.op \in PlayOps => Apply(s, call) = ApplyPlay(s, call)
         /\ call.op \in CombatOps => Apply(s, call) = ApplyCombat(s, call)
         /\ call.op \in HostOps => Apply(s, call) = ApplyHost(s, call)
         /\ call.op \notin UNION {SourceOps, PlayOps, CombatOps, HostOps}
              => Apply(s, call) = Ledgered(s, call.seq, call.op)
BY DEF Apply, SourceOps, PlayOps, CombatOps, HostOps

\* What a call leaves of a State: the number of its calls is that of the calls that
\* entered it, or one more for a combat that starts, which is not poisoned.
LEMMA ApplyKeeps ==
  ASSUME NEW s, NEW n \in Nat, NEW p, IsState(s, n, p), NEW call \in AllCalls
  PROVE  IsState(Apply(s, call).s, n, p) \/ IsState(Apply(s, call).s, n + 1, FALSE)
<1>1. \A t, r : Accept(t, r).s = t
  BY DEF Accept
<1>2. CASE call.op = "source_release"
  <2>1. Apply(s, call) = SourceRelease(s, call.handle)
    BY <1>2, Dispatched DEF ApplySource, SourceOps
  <2>2. QED
    BY <2>1, ReleaseKeeps
<1>3. CASE call.op = "source_capture"
  <2>1. Apply(s, call) = SourceCapture(s, call.seq, call.id, 1, call.id, 0, "unclassified")
    BY <1>3, Dispatched DEF ApplySource, SourceOps
  <2>2. QED
    BY <2>1, CaptureKeeps
<1>4. CASE call.op = "source_accumulate"
  <2>1. Apply(s, call) =
          SourceAccumulate(s, call.seq, call.first, call.before, call.second, call.after)
    BY <1>4, Dispatched DEF ApplySource, SourceOps
  <2>2. call \in AccumulateCalls
    BY <1>4 DEF AllCalls, ReleaseCalls, CaptureCalls, PowerCalls, CardCalls, OrbCalls, DamageCalls,
                SettlingCalls, BlockCalls, DoomCalls, CombatCalls, AccumulateCalls, WeakCalls,
                FailureCalls, DiscardCalls
  <2>3. call.before \in Int /\ call.after \in Int
    BY <2>2 DEF AccumulateCalls
  <2>4. QED
    BY <2>1, <2>3, AccumulateKeeps
<1>5. CASE call.op = "card_generated"
  <2>1. Apply(s, call) = CardGenerated(s, call.seq, 1, call.source)
    BY <1>5, Dispatched DEF ApplyPlay, PlayOps
  <2>2. QED
    BY <2>1, GeneratedKeeps
<1>6. CASE call.op = "card_play_started"
  <2>1. Apply(s, call) = CardPlayStarted(s, call.seq, 1, 1, "CARD", 0, call.generation, call.source)
    BY <1>6, Dispatched DEF ApplyPlay, PlayOps
  <2>2. call \in CardCalls
    BY <1>6 DEF AllCalls, ReleaseCalls, CaptureCalls, PowerCalls, CardCalls, OrbCalls, DamageCalls,
                SettlingCalls, BlockCalls, DoomCalls, CombatCalls, AccumulateCalls, WeakCalls,
                FailureCalls, DiscardCalls
  <2>3. call.generation \in {"ordinary", "recorded", "unavailable"}
    BY <1>6, <2>2 DEF CardCalls
  <2>4. IsState(CardPlayStarted(s, call.seq, 1, 1, "CARD", 0, call.generation, call.source).s, n, p)
    BY <2>3, StartedKeeps
  <2>5. QED
    BY <2>1, <2>4
<1>7. CASE call.op \in {"card_play_finished", "card_execution_ended"}
  <2>1. \/ Apply(s, call) = CardPlayFinished(s, call.play)
        \/ Apply(s, call) = CardExecutionEnded(s, call.seq, 1)
    BY <1>7, Dispatched DEF ApplyPlay, PlayOps
  <2>2. QED
    BY <2>1, FinishedKeeps
<1>8. CASE call.op \in {"orb_channeled", "orb_context_begin"}
  <2>1. \/ Apply(s, call) = OrbChanneled(s, call.seq, 1, call.source)
        \/ Apply(s, call) = OrbContextBegin(s, call.seq, 1, call.play, 0)
    BY <1>8, Dispatched DEF ApplyPlay, PlayOps
  <2>2. QED
    BY <2>1, OrbKeeps
<1>9. CASE call.op \in {"combat_started", "combat_ended"}
  <2>1. \/ Apply(s, call) = CombatStarted(s, call.seq, call.players)
        \/ Apply(s, call) = CombatEnded(s, call.seq)
    BY <1>9, Dispatched DEF ApplyCombat, CombatOps
  <2>2. QED
    BY <2>1, CombatsKeep
<1>10. CASE call.op \in {"turn_started", "potion_used", "player_died"}
  <2>1. \/ \E counter : Apply(s, call) = Counted(s, call.seq, counter)
        \/ Apply(s, call) = PlayerDied(s, call.seq, call.player)
    BY <1>10, Dispatched DEF ApplyCombat, CombatOps
  <2>2. QED
    BY <2>1, CountersKeep
<1>11. CASE call.op \in HostOps
  <2>1. \/ Apply(s, call) = WeakPrevention(s, call.valid, 1)
        \/ Apply(s, call) = Accept(Failed(s, call.reason), Zero)
        \/ Apply(s, call) = Accept(Discarded(s), Zero)
    BY <1>11, Dispatched DEF ApplyHost, HostOps
  <2>2. IsState(WeakPrevention(s, call.valid, 1).s, n, p)
    BY FailedKeeps DEF WeakPrevention, Accept
  <2>3. IsState(Failed(s, call.reason), n, p) /\ IsState(Discarded(s), n, p)
    BY FailedKeeps, CombatsKeep
  <2>4. QED
    BY <1>1, <2>1, <2>2, <2>3
<1>12. CASE call.op \notin UNION {SourceOps, PlayOps, CombatOps, HostOps}
  <2>1. Apply(s, call) = Ledgered(s, call.seq, call.op)
    BY <1>12, Dispatched
  <2>2. QED
    BY <2>1, CountersKeep
<1>13. QED
  BY <1>2, <1>3, <1>4, <1>5, <1>6, <1>7, <1>8, <1>9, <1>10, <1>11, <1>12
     DEF SourceOps, PlayOps, CombatOps

LEMMA ApplyCounts ==
  ASSUME NEW s, NEW n \in Nat, NEW p \in BOOLEAN, IsState(s, n, p), NEW call \in AllCalls
  PROVE  \E k \in Nat, q \in {p, FALSE} : k >= n /\ IsState(Apply(s, call).s, k, q)
<1> DEFINE k == n + 1
<1>1. k \in Nat /\ k >= n /\ n >= n
  OBVIOUS
<1>2. IsState(Apply(s, call).s, n, p) \/ IsState(Apply(s, call).s, k, FALSE)
  BY ApplyKeeps
<1> HIDE DEF k
<1>3. QED
  BY <1>1, <1>2

----------------------------------------------------------------------------
\* Induction, of a set that holds 0 and with every number the next one.
LEMMA Least ==
  ASSUME NEW T \in SUBSET Nat, T # {}
  PROVE  \E m \in T : \A k \in T : m <= k
<1> DEFINE R == OpToRel(<, Nat)
<1>1. PICK m \in T : \A k \in T : ~ (<<k, m>> \in R)
  BY NatLessThanWellFounded, WFMin
<1>2. \A k \in T : <<k, m>> \in R <=> k < m
  BY DEF OpToRel
<1> HIDE DEF R
<1>3. \A k \in T : ~(k < m)
  BY <1>1, <1>2
<1>4. QED
  BY <1>3

LEMMA AllNumbers ==
  ASSUME NEW T, 0 \in T, \A n \in Nat : n \in T => n + 1 \in T
  PROVE  Nat \subseteq T
<1>1. SUFFICES ASSUME Nat \ T # {} PROVE FALSE
  OBVIOUS
<1>2. PICK m \in Nat \ T : \A k \in Nat \ T : m <= k
  BY <1>1, Least
<1>3. m # 0 /\ m - 1 \in Nat /\ m - 1 \notin Nat \ T
  BY <1>2
<1>4. QED
  BY <1>2, <1>3

\* The entries of a recording are calls.
Entries(observations) ==
  /\ Len(observations) \in Nat
  /\ \A i \in 1..Len(observations) : observations[i].call \in AllCalls

\* The states that a recording of length n is told through, as a function.
ToldBy(f, observations, n) ==
  f = [i \in 0..n |-> IF i = 0 THEN [s |-> Fresh, ok |-> TRUE]
                      ELSE ToldMore(f[i - 1], observations, i)]

LEMMA ToldStep ==
  ASSUME NEW f, NEW observations, NEW n \in Nat, ToldBy(f, observations, n), NEW i \in 1..n
  PROVE  f[i] = ToldMore(f[i - 1], observations, i)
<1>1. i \in 0..n /\ i # 0
  OBVIOUS
<1>2. f[i] = IF i = 0 THEN [s |-> Fresh, ok |-> TRUE] ELSE ToldMore(f[i - 1], observations, i)
  <2> DEFINE F(j) == IF j = 0 THEN [s |-> Fresh, ok |-> TRUE] ELSE ToldMore(f[j - 1], observations, j)
  <2>1. f = [j \in 0..n |-> F(j)]
    BY DEF ToldBy
  <2> HIDE DEF F
  <2>2. f[i] = F(i)
    BY <1>1, <2>1
  <2>3. QED
    BY <2>2 DEF F
<1>3. QED
  BY <1>1, <1>2

LEMMA ToldExists ==
  ASSUME NEW observations, NEW n \in Nat
  PROVE  \E f : ToldBy(f, observations, n)
<1> DEFINE T == {m \in Nat : \E f : ToldBy(f, observations, m)}
<1>1. 0 \in T
  <2> DEFINE f == [i \in 0..0 |-> [s |-> Fresh, ok |-> TRUE]]
  <2>1. ToldBy(f, observations, 0)
    BY DEF ToldBy
  <2>2. QED
    BY <2>1
<1>2. ASSUME NEW m \in Nat, m \in T
      PROVE  m + 1 \in T
  <2>1. PICK f : ToldBy(f, observations, m)
    BY <1>2
  <2> DEFINE g == [i \in 0..(m + 1) |-> IF i = m + 1 THEN ToldMore(f[m], observations, m + 1) ELSE f[i]]
             h == [i \in 0..(m + 1) |-> IF i = 0 THEN [s |-> Fresh, ok |-> TRUE]
                                        ELSE ToldMore(g[i - 1], observations, i)]
  <2>2. \A i \in 0..(m + 1) : g[i] = h[i]
    <3>1. g[0] = h[0]
      BY <2>1 DEF ToldBy
    <3>2. g[m + 1] = h[m + 1]
      OBVIOUS
    <3>3. ASSUME NEW i \in 1..m
          PROVE  g[i] = h[i]
      <4>1. f[i] = ToldMore(f[i - 1], observations, i)
        BY <2>1, ToldStep
      <4>2. g[i] = f[i] /\ g[i - 1] = f[i - 1]
        OBVIOUS
      <4>3. h[i] = ToldMore(g[i - 1], observations, i)
        OBVIOUS
      <4>4. QED
        BY <4>1, <4>2, <4>3
    <3> HIDE DEF g, h
    <3>4. QED
      BY <3>1, <3>2, <3>3
  <2>3. g = h
    BY <2>2
  <2>4. ToldBy(g, observations, m + 1)
    BY <2>3 DEF ToldBy
  <2>5. QED
    BY <2>4
<1> HIDE DEF T
<1>3. n \in T
  BY <1>1, <1>2, AllNumbers
<1>4. QED
  BY <1>3 DEF T

\* A replay ends in a State that is not poisoned.
LEMMA ToldIsState ==
  ASSUME NEW observations, Entries(observations)
  PROVE  \E n \in Nat : IsState(Told(observations).s, n, FALSE)
<1> DEFINE N == Len(observations)
<1>1. PICK f : ToldBy(f, observations, N) /\ Told(observations) = f[N]
  <2> DEFINE told == CHOOSE f : ToldBy(f, observations, N)
  <2>1. ToldBy(told, observations, N)
    BY ToldExists DEF Entries
  <2>2. Told(observations) = told[N]
    BY DEF Told, ToldBy
  <2>3. QED
    BY <2>1, <2>2
<1> DEFINE Good(i) == \E n \in Nat : IsState(f[i].s, n, FALSE)
           T == {i \in Nat : i \in 0..N => Good(i)}
<1>2. 0 \in T
  <2>1. f[0].s = Fresh
    BY <1>1 DEF ToldBy, Entries
  <2>2. IsState(Fresh, 0, FALSE)
    BY DEF Fresh, IsState, Fields
  <2>3. QED
    BY <2>1, <2>2
<1>3. ASSUME NEW i \in Nat, i \in T
      PROVE  i + 1 \in T
  <2> HIDE DEF Good
  <2>1. SUFFICES ASSUME i + 1 \in 0..N PROVE Good(i + 1)
    OBVIOUS
  <2>2. i \in 0..N /\ i + 1 \in 1..Len(observations)
    BY <2>1 DEF Entries
  <2>3. PICK n \in Nat : IsState(f[i].s, n, FALSE)
    BY <1>3, <2>2 DEF Good
  <2>4. f[i + 1].s = Apply(f[i].s, observations[i + 1].call).s
    <3>1. f[i + 1] = ToldMore(f[(i + 1) - 1], observations, i + 1)
      BY <1>1, <2>2, ToldStep DEF Entries
    <3>2. (i + 1) - 1 = i
      OBVIOUS
    <3>3. QED
      BY <3>1, <3>2 DEF ToldMore, Tell
  <2>5. observations[i + 1].call \in AllCalls
    BY <2>2 DEF Entries
  <2>6. \E k \in Nat : IsState(Apply(f[i].s, observations[i + 1].call).s, k, FALSE)
    BY <2>3, <2>5, ApplyCounts
  <2>7. QED
    BY <2>4, <2>6 DEF Good
<1> HIDE DEF T
<1>4. N \in T /\ N \in 0..N
  BY <1>2, <1>3, AllNumbers DEF Entries
<1>5. QED
  BY <1>1, <1>4 DEF T

----------------------------------------------------------------------------
(***************************************************************************)
(* What the host has read is current while the revision is the one that it *)
(* was read at.                                                            *)
(***************************************************************************)
RecordingFields == {"on", "version", "truncated", "observations", "from", "panicked"}

\* The entries are the members of some set, all of them calls.
Recorded(observations) ==
  \E R : observations \in Seq(R) /\ \A entry \in R : entry.call \in AllCalls

IsRecording(recording) ==
  \/ recording = NoRecording
  \/ DOMAIN recording = RecordingFields /\ recording.on = TRUE /\ Recorded(recording.observations)

IsEngine(engine) ==
  /\ DOMAIN engine = {"state", "recording"}
  /\ \E n \in Nat, p \in BOOLEAN : IsState(engine.state, n, p)
  /\ IsRecording(engine.recording)

Registry ==
  /\ nextEngine \in Nat
  /\ DOMAIN engines = Threads
  /\ \A t \in Threads : \A id \in DOMAIN engines[t] :
       id \in Nat /\ id < nextEngine /\ IsEngine(engines[t][id])

OneOwner ==
  \A t, u \in Threads : \A id \in DOMAIN engines[t] : id \in DOMAIN engines[u] => t = u

Seen ==
  /\ DOMAIN seen = {"engine", "revision", "snapshot", "missed"}
  /\ seen.engine \in Nat /\ seen.engine < nextEngine
  /\ \A t \in Threads : seen.engine \in DOMAIN engines[t] =>
       LET state == engines[t][seen.engine].state
       IN  /\ seen.revision \in Nat /\ seen.revision <= state.revision
           /\ Current(state)

CacheInv == Registry /\ OneOwner /\ Seen

\* An export counts the revision of an engine that it changes.
Counts(before, after) ==
  after.state = before.state \/ after.state.revision > before.state.revision

LEMMA RecordKeeps ==
  ASSUME NEW recording, IsRecording(recording), NEW call \in AllCalls, NEW r
  PROVE  IsRecording(Record(recording, call, r))
<1>1. CASE recording = NoRecording
  BY <1>1 DEF Record, NoRecording, IsRecording
<1>2. CASE DOMAIN recording = RecordingFields /\ recording.on = TRUE /\ Recorded(recording.observations)
  <2> DEFINE entry == [call |-> call, r |-> r]
             longer == [recording EXCEPT !.observations = Append(@, entry)]
             ended == [recording EXCEPT !.truncated = TRUE]
  <2>1. PICK R : recording.observations \in Seq(R) /\ \A e \in R : e.call \in AllCalls
    BY <1>2 DEF Recorded
  <2>2. Append(recording.observations, entry) \in Seq(R \cup {entry})
    <3>1. recording.observations \in Seq(R \cup {entry}) /\ entry \in R \cup {entry}
      BY <2>1
    <3>2. QED
      BY <3>1
  <2>3. \A e \in R \cup {entry} : e.call \in AllCalls
    BY <2>1
  <2>4. Recorded(Append(recording.observations, entry))
    BY <2>2, <2>3 DEF Recorded
  <2>5. IsRecording(longer)
    BY <1>2, <2>4 DEF IsRecording, RecordingFields
  <2>6. IsRecording(ended)
    BY <1>2 DEF IsRecording, RecordingFields
  <2>7. Record(recording, call, r) \in {recording, longer, ended}
    BY DEF Record
  <2> HIDE DEF longer, ended
  <2>8. QED
    BY <1>2, <2>5, <2>6, <2>7 DEF IsRecording
<1>3. QED
  BY <1>1, <1>2 DEF IsRecording

LEMMA EnteredKeeps ==
  ASSUME NEW engine, NEW n \in Nat, NEW p, IsState(engine.state, n, p),
         DOMAIN engine = {"state", "recording"}
  PROVE  /\ IsState(Entered(engine).state, n + 1, p)
         /\ Entered(engine).recording = engine.recording
BY DEF Entered, IsState, Fields

LEMMA CalledKeeps ==
  ASSUME NEW engine, IsEngine(engine), NEW call \in AllCalls
  PROVE  IsEngine(Called(Entered(engine), call)) /\ Counts(engine, Called(Entered(engine), call))
<1>1. PICK n \in Nat, p \in BOOLEAN : IsState(engine.state, n, p)
  BY DEF IsEngine
<1> DEFINE s == Entered(engine).state
<1>2. IsState(s, n + 1, p) /\ Entered(engine).recording = engine.recording
  BY <1>1, EnteredKeeps DEF IsEngine
<1> HIDE DEF s
<1>3. PICK k \in Nat, q \in BOOLEAN : k > n /\ IsState(Apply(s, call).s, k, q)
  <2>1. n + 1 \in Nat
    OBVIOUS
  <2>2. PICK k \in Nat, q \in {p, FALSE} : k >= n + 1 /\ IsState(Apply(s, call).s, k, q)
    BY <1>2, <2>1, ApplyCounts
  <2>3. k > n
    BY <2>2
  <2>4. QED
    BY <2>2, <2>3
<1>4. Called(Entered(engine), call)
        = [state |-> Apply(s, call).s, recording |-> Record(engine.recording, call, Apply(s, call).r)]
  BY <1>2 DEF Called, Answered, s
<1>5. IsRecording(Record(engine.recording, call, Apply(s, call).r))
  BY RecordKeeps DEF IsEngine
<1> DEFINE after == [state |-> Apply(s, call).s,
                     recording |-> Record(engine.recording, call, Apply(s, call).r)]
<1>6. IsEngine(after)
  BY <1>3, <1>5 DEF IsEngine
<1>7. Counts(engine, after)
  BY <1>1, <1>3 DEF Counts, IsState
<1>8. QED
  BY <1>4, <1>6, <1>7

LEMMA GuardedKeeps ==
  ASSUME NEW engine, IsEngine(engine),
         NEW s \in {Entered(engine).state} \cup {Apply(Entered(engine).state, call).s : call \in Calls}
  PROVE  LET after == Guarded([Entered(engine) EXCEPT !.state = s])
         IN  IsEngine(after) /\ Counts(engine, after)
<1>1. PICK n \in Nat, p \in BOOLEAN : IsState(engine.state, n, p)
  BY DEF IsEngine
<1>2. IsState(Entered(engine).state, n + 1, p) /\ Entered(engine).recording = engine.recording
      /\ DOMAIN Entered(engine) = {"state", "recording"}
  BY <1>1, EnteredKeeps DEF IsEngine, Entered
<1>3. PICK m \in Nat : m > n /\ \E q \in BOOLEAN : IsState(s, m, q)
  <2>1. CASE s = Entered(engine).state
    BY <1>2, <2>1
  <2>2. ASSUME NEW call \in Calls, s = Apply(Entered(engine).state, call).s
        PROVE  \E m \in Nat : m > n /\ \E q \in BOOLEAN : IsState(s, m, q)
    <3>1. call \in AllCalls /\ n + 1 \in Nat
      BY CallsAreExports
    <3>2. PICK k \in Nat, q \in {p, FALSE} : k >= n + 1 /\ IsState(s, k, q)
      <4> DEFINE e == Entered(engine).state
      <4>1. IsState(e, n + 1, p) /\ s = Apply(e, call).s
        BY <1>2, <2>2
      <4> HIDE DEF e
      <4>2. \E k \in Nat, q \in {p, FALSE} : k >= n + 1 /\ IsState(Apply(e, call).s, k, q)
        BY <3>1, <4>1, ApplyCounts
      <4>3. QED
        BY <4>1, <4>2
    <3>3. k > n
      BY <3>2
    <3>4. QED
      BY <3>2, <3>3
  <2>3. QED
    BY <2>1, <2>2
<1>4. IsState([s EXCEPT !.poisoned = TRUE], m, TRUE)
  BY <1>3 DEF IsState, Fields
<1>5. IsState(Failed([s EXCEPT !.poisoned = TRUE], "native-panic"), m, TRUE)
  BY <1>4, FailedKeeps
<1> DEFINE after == Guarded([Entered(engine) EXCEPT !.state = s])
           ended == [engine.recording EXCEPT !.truncated = TRUE, !.panicked = TRUE]
<1>6. after = [state |-> Failed([s EXCEPT !.poisoned = TRUE], "native-panic"),
               recording |-> IF engine.recording.on THEN ended ELSE NoRecording]
  BY <1>2 DEF Guarded
<1>7. IsRecording(IF engine.recording.on THEN ended ELSE NoRecording)
  <2>1. CASE engine.recording = NoRecording
    BY <2>1 DEF IsRecording, NoRecording
  <2>2. CASE DOMAIN engine.recording = RecordingFields /\ engine.recording.on = TRUE
             /\ Recorded(engine.recording.observations)
    BY <2>2 DEF IsRecording, RecordingFields
  <2>3. QED
    BY <2>1, <2>2 DEF IsEngine, IsRecording
<1> HIDE DEF after, ended
<1>8. IsEngine(after) /\ Counts(engine, after)
  BY <1>1, <1>3, <1>5, <1>6, <1>7 DEF IsEngine, Counts, IsState
<1>9. QED
  BY <1>8 DEF after

\* The guard of an export that counts nothing.
LEMMA UncountedKeeps ==
  ASSUME NEW engine, IsEngine(engine)
  PROVE  LET after == Guarded(engine)
         IN  /\ IsEngine(after)
             /\ after.state.revision = engine.state.revision
             /\ after.state.current = engine.state.current
<1>1. PICK n \in Nat, p \in BOOLEAN : IsState(engine.state, n, p)
  BY DEF IsEngine
<1> DEFINE poisoned == [engine.state EXCEPT !.poisoned = TRUE]
           failed == Failed(poisoned, "native-panic")
           ended == [engine.recording EXCEPT !.truncated = TRUE, !.panicked = TRUE]
           recording == IF engine.recording.on THEN ended ELSE NoRecording
<1>2. IsState(poisoned, n, TRUE) /\ poisoned.current = engine.state.current
  BY <1>1 DEF IsState, Fields
<1>3. IsState(failed, n, TRUE) /\ failed.current = engine.state.current
  BY <1>2, FailedKeeps DEF Failed, IsState, Fields
<1>4. Guarded(engine) = [state |-> failed, recording |-> recording]
  BY DEF Guarded
<1>5. IsRecording(recording)
  <2>1. CASE engine.recording = NoRecording
    BY <2>1 DEF IsRecording, NoRecording
  <2>2. CASE DOMAIN engine.recording = RecordingFields /\ engine.recording.on = TRUE
             /\ Recorded(engine.recording.observations)
    BY <2>2 DEF IsRecording, RecordingFields
  <2>3. QED
    BY <2>1, <2>2 DEF IsEngine, IsRecording
<1> HIDE DEF failed, recording
<1> DEFINE after == [state |-> failed, recording |-> recording]
<1>6. after.state = failed /\ IsEngine(after)
  BY <1>1, <1>3, <1>5 DEF IsEngine
<1>7. failed.revision = engine.state.revision
  BY <1>1, <1>3 DEF IsState
<1>8. QED
  BY <1>3, <1>4, <1>6, <1>7

LEMMA ReplayedKeeps ==
  ASSUME NEW engine, IsEngine(engine), NEW trace, DOMAIN trace = RecordingFields => Recorded(trace.observations),
         DOMAIN trace = RecordingFields \/ trace = NoRecording
  PROVE  IsEngine(Replayed(engine, trace)) /\ Counts(engine, Replayed(engine, trace))
<1>1. CASE Replayed(engine, trace) = engine
  BY <1>1 DEF Counts
<1>2. CASE Replayed(engine, trace) # engine
  <2> DEFINE told == Told(trace.observations)
             published == [told.s EXCEPT !.revision = engine.state.revision + 1]
  <2>1. trace.on /\ Replayed(engine, trace) = [state |-> published, recording |-> NoRecording]
    BY <1>2 DEF Replayed, Readable, Published
  <2>2. DOMAIN trace = RecordingFields
    BY <2>1 DEF NoRecording
  <2>3. PICK R : trace.observations \in Seq(R) /\ \A e \in R : e.call \in AllCalls
    BY <2>2 DEF Recorded
  <2>4. Entries(trace.observations)
    BY <2>3 DEF Entries
  <2>5. PICK n \in Nat : IsState(told.s, n, FALSE)
    BY <2>4, ToldIsState
  <2>6. PICK m \in Nat, p \in BOOLEAN : IsState(engine.state, m, p)
    BY DEF IsEngine
  <2> HIDE DEF told
  <2>7. IsState(published, m + 1, FALSE)
    BY <2>5, <2>6 DEF IsState, Fields
  <2>8. IsRecording(NoRecording)
    BY DEF IsRecording
  <2> HIDE DEF published
  <2> DEFINE after == [state |-> published, recording |-> NoRecording]
  <2>9. m + 1 \in Nat /\ m + 1 > m
    OBVIOUS
  <2>10. IsEngine(after)
    BY <2>7, <2>8, <2>9 DEF IsEngine
  <2>11. Counts(engine, after)
    BY <2>6, <2>7, <2>9 DEF Counts, IsState
  <2>12. QED
    BY <2>1, <2>10, <2>11
<1>3. QED
  BY <1>1, <1>2

\* An engine that is changed, under the id of its thread.
LEMMA ChangeKeeps ==
  ASSUME CacheInv, NEW t \in Threads, NEW id \in DOMAIN engines[t], NEW engine,
         IsEngine(engine), Counts(engines[t][id], engine),
         WithEngine(t, id, engine), UNCHANGED <<nextEngine, seen>>
  PROVE  CacheInv'
<1>1. \A u \in Threads : DOMAIN engines'[u] = DOMAIN engines[u]
  BY DEF CacheInv, Registry, WithEngine
<1>2. \A u \in Threads : \A other \in DOMAIN engines[u] :
        engines'[u][other] = IF u = t /\ other = id THEN engine ELSE engines[u][other]
  BY DEF CacheInv, Registry, WithEngine
<1>3. Registry'
  BY <1>1, <1>2 DEF CacheInv, Registry, WithEngine
<1>4. OneOwner'
  BY <1>1, <1>3 DEF CacheInv, OneOwner, Registry
<1>5. Seen'
  <2>1. SUFFICES ASSUME NEW u \in Threads, seen.engine \in DOMAIN engines[u]
                 PROVE  LET state == engines'[u][seen.engine].state
                        IN  /\ seen.revision \in Nat /\ seen.revision <= state.revision
                            /\ Current(state)
    BY <1>1 DEF CacheInv, Seen, Current
  <2> DEFINE before == engines[u][seen.engine].state
             after == engines'[u][seen.engine].state
  <2>2. seen.revision \in Nat /\ seen.revision <= before.revision /\ Current(before)
    BY <2>1 DEF CacheInv, Seen
  <2>3. before.revision \in Nat /\ after.revision \in Nat
    BY <1>1, <1>3, <2>1 DEF CacheInv, Registry, IsEngine, IsState
  <2>4. after = before \/ after.revision > before.revision
    BY <1>2, <2>1 DEF Counts
  <2> HIDE DEF before, after
  <2>5. seen.revision \in Nat /\ seen.revision <= after.revision /\ Current(after)
    BY <2>2, <2>3, <2>4 DEF Current
  <2>6. QED
    BY <2>5 DEF after
<1>6. QED
  BY <1>3, <1>4, <1>5 DEF CacheInv

\* The combat of an engine is in its snapshot whatever its coverage.
LEMMA SnapshotShowsCombat ==
  ASSUME NEW s
  PROVE  Snapshot(s).combat = s.current
BY DEF Snapshot

LEMMA PanicUncountedKeeps ==
  ASSUME CacheInv, NEW t \in Threads, NEW id, PanicUncounted(t, id)
  PROVE  CacheInv'
<1> DEFINE engine == engines[t][id]
           after == Guarded(engine)
<1>1. id \in DOMAIN engines[t] /\ IsEngine(engine)
  BY DEF PanicUncounted, Owned, CacheInv, Registry
<1>2. /\ IsEngine(after)
      /\ after.state.revision = engine.state.revision
      /\ after.state.current = engine.state.current
  BY <1>1, UncountedKeeps
<1>3. /\ nextEngine' = nextEngine /\ DOMAIN engines' = Threads
      /\ \A u \in Threads : DOMAIN engines'[u] = DOMAIN engines[u]
  BY DEF PanicUncounted, CacheInv, Registry, WithEngine
<1>4. \A u \in Threads : \A other \in DOMAIN engines[u] :
        engines'[u][other] = IF u = t /\ other = id THEN after ELSE engines[u][other]
  BY DEF PanicUncounted, CacheInv, Registry, WithEngine
<1>5. Registry'
  <2> HIDE DEF after
  <2>1. QED
    BY <1>2, <1>3, <1>4 DEF CacheInv, Registry
<1>6. OneOwner'
  BY <1>3 DEF CacheInv, OneOwner
<1>7. /\ seen'.engine = seen.engine /\ seen'.revision = seen.revision
      /\ seen'.snapshot = seen.snapshot
      /\ ~seen'.missed => ~seen.missed /\ seen.engine # id
      /\ DOMAIN seen' = DOMAIN seen
  BY DEF PanicUncounted, CacheInv, Seen
<1>8. Seen'
  <2>1. SUFFICES ASSUME NEW u \in Threads, seen.engine \in DOMAIN engines[u]
                 PROVE  LET now == engines'[u][seen.engine].state
                        IN  /\ seen.revision \in Nat /\ seen.revision <= now.revision
                            /\ seen.revision = now.revision =>
                                 /\ seen.snapshot.combat = Snapshot(now).combat
                                 /\ ~seen'.missed => seen.snapshot = Snapshot(now)
    BY <1>3, <1>7 DEF CacheInv, Seen, Current
  <2> DEFINE state == engines[u][seen.engine].state
             now == engines'[u][seen.engine].state
  <2>2. seen.revision \in Nat /\ seen.revision <= state.revision /\ Current(state)
    BY <2>1 DEF CacheInv, Seen
  <2>3. /\ now.revision = state.revision /\ now.current = state.current
        /\ seen.engine # id => now = state
    BY <1>2, <1>4, <2>1
  <2> HIDE DEF state, now
  <2>4. Snapshot(now).combat = Snapshot(state).combat
    BY <2>3, SnapshotShowsCombat
  <2>5. /\ seen.revision \in Nat /\ seen.revision <= now.revision
        /\ seen.revision = now.revision =>
             /\ seen.snapshot.combat = Snapshot(now).combat
             /\ ~seen'.missed => seen.snapshot = Snapshot(now)
    BY <1>7, <2>2, <2>3, <2>4 DEF Current
  <2>6. QED
    BY <2>5 DEF now
<1>9. QED
  BY <1>5, <1>6, <1>8 DEF CacheInv

LEMMA FreshIsEngine == IsEngine([state |-> Fresh, recording |-> NoRecording])
<1>1. IsState(Fresh, 0, FALSE)
  BY DEF Fresh, IsState, Fields
<1>2. QED
  BY <1>1 DEF IsEngine, IsRecording

LEMMA CreateKeeps ==
  ASSUME CacheInv, NEW t \in Threads, EngineCreate(t)
  PROVE  CacheInv'
<1>1. CASE UNCHANGED <<engines, nextEngine>>
  BY <1>1 DEF EngineCreate, CacheInv, Registry, OneOwner, Seen, Current
<1>2. CASE /\ engines' = [engines EXCEPT ![t] = With(@, nextEngine)]
           /\ nextEngine' = nextEngine + 1
  <2> DEFINE created == [state |-> Fresh, recording |-> NoRecording]
  <2>1. \A u \in Threads :
          DOMAIN engines'[u] = IF u = t THEN DOMAIN engines[u] \cup {nextEngine} ELSE DOMAIN engines[u]
    BY <1>2 DEF CacheInv, Registry, With
  <2>2. \A u \in Threads : \A id \in DOMAIN engines[u] : engines'[u][id] = engines[u][id]
    BY <1>2 DEF CacheInv, Registry, With
  <2>3. engines'[t][nextEngine] = created
    BY <1>2 DEF CacheInv, Registry, With
  <2>4. IsEngine(created)
    BY FreshIsEngine
  <2>5. seen' = seen
    BY DEF EngineCreate
  <2> HIDE DEF created
  <2>6. Registry'
    <3>1. DOMAIN engines' = Threads /\ nextEngine' \in Nat
      BY <1>2 DEF CacheInv, Registry
    <3>2. ASSUME NEW u \in Threads, NEW id \in DOMAIN engines'[u]
          PROVE  id \in Nat /\ id < nextEngine' /\ IsEngine(engines'[u][id])
      <4>1. CASE id \in DOMAIN engines[u]
        BY <1>2, <2>2, <4>1 DEF CacheInv, Registry
      <4>2. CASE u = t /\ id = nextEngine
        BY <1>2, <2>3, <2>4, <4>2 DEF CacheInv, Registry
      <4>3. QED
        BY <2>1, <4>1, <4>2
    <3>3. QED
      BY <3>1, <3>2 DEF Registry
  <2>7. \A u \in Threads : nextEngine \notin DOMAIN engines[u] /\ nextEngine # seen.engine
    <3>1. nextEngine \in Nat /\ seen.engine \in Nat /\ seen.engine < nextEngine
      BY DEF CacheInv, Registry, Seen
    <3>2. \A u \in Threads : \A id \in DOMAIN engines[u] : id \in Nat /\ id < nextEngine
      BY DEF CacheInv, Registry
    <3>3. QED
      BY <3>1, <3>2
  <2>8. OneOwner'
    <3>1. ASSUME NEW u \in Threads, NEW w \in Threads,
                 NEW id \in DOMAIN engines'[u], id \in DOMAIN engines'[w]
          PROVE  u = w
      <4>1. CASE id = nextEngine
        BY <2>1, <2>7, <3>1, <4>1
      <4>2. CASE id # nextEngine
        <5>1. id \in DOMAIN engines[u] /\ id \in DOMAIN engines[w]
          BY <2>1, <3>1, <4>2
        <5>2. QED
          BY <5>1 DEF CacheInv, OneOwner
      <4>3. QED
        BY <4>1, <4>2
    <3>2. QED
      BY <3>1 DEF OneOwner
  <2>9. Seen'
    <3>1. \A u \in Threads : seen.engine \in DOMAIN engines'[u] => seen.engine \in DOMAIN engines[u]
      BY <2>1, <2>7
    <3>2. QED
      BY <1>2, <2>2, <2>5, <3>1 DEF CacheInv, Seen, Registry, Current
  <2>10. QED
    BY <2>6, <2>8, <2>9 DEF CacheInv
<1>3. QED
  BY <1>1, <1>2 DEF EngineCreate

LEMMA DestroyKeeps ==
  ASSUME CacheInv, NEW t \in Threads, NEW id, EngineDestroy(t, id)
  PROVE  CacheInv'
<1>1. \A u \in Threads :
        /\ DOMAIN engines'[u] \subseteq DOMAIN engines[u]
        /\ \A other \in DOMAIN engines'[u] : engines'[u][other] = engines[u][other]
  BY DEF EngineDestroy, CacheInv, Registry
<1>2. DOMAIN engines' = Threads /\ nextEngine' = nextEngine /\ seen' = seen
  BY DEF EngineDestroy, CacheInv, Registry
<1>3. Registry'
  BY <1>1, <1>2 DEF CacheInv, Registry
<1>4. OneOwner'
  BY <1>1, <1>2 DEF CacheInv, OneOwner
<1>5. Seen'
  BY <1>1, <1>2 DEF CacheInv, Seen, Current
<1>6. QED
  BY <1>3, <1>4, <1>5 DEF CacheInv

LEMMA RefreshKeeps ==
  ASSUME CacheInv, NEW t \in Threads, NEW id, Refresh(t, id)
  PROVE  CacheInv'
<1>1. id \in DOMAIN engines[t] /\ engines' = engines /\ nextEngine' = nextEngine
  BY DEF Refresh, Owned
<1>2. CASE seen' = seen
  BY <1>1, <1>2 DEF CacheInv, Registry, OneOwner, Seen, Current
<1>3. CASE seen' = [engine |-> id, revision |-> engines[t][id].state.revision,
                    snapshot |-> Snapshot(engines[t][id].state), missed |-> FALSE]
  <2>1. engines[t][id].state.revision \in Nat /\ id \in Nat /\ id < nextEngine
    BY <1>1 DEF CacheInv, Registry, IsEngine, IsState
  <2>2. \A u \in Threads : id \in DOMAIN engines[u] => u = t
    BY <1>1 DEF CacheInv, OneOwner
  <2>3. Seen'
    BY <1>1, <1>3, <2>1, <2>2 DEF Seen, Current
  <2>4. QED
    BY <1>1, <2>3 DEF CacheInv, Registry, OneOwner
<1>4. QED
  BY <1>2, <1>3 DEF Refresh

LEMMA TracesAreRecordings ==
  ASSUME CacheInv, NEW trace \in Traces
  PROVE  IsRecording(trace)
<1>1. CASE trace = [NewRecording(Fresh) EXCEPT !.version = "older"]
  <2>1. trace.observations = << >> /\ trace.on = TRUE /\ DOMAIN trace = RecordingFields
    BY <1>1 DEF NewRecording, RecordingFields
  <2>2. << >> \in Seq({})
    OBVIOUS
  <2>3. QED
    BY <2>1, <2>2 DEF IsRecording, Recorded
<1>2. QED
  BY <1>1 DEF Traces, Owned, CacheInv, Registry, IsEngine

LEMMA NextKeeps ==
  ASSUME CacheInv, [Next]_vars
  PROVE  CacheInv'
<1>1. CASE UNCHANGED vars
  BY <1>1 DEF vars, CacheInv, Registry, OneOwner, Seen, Current
<1>2. ASSUME NEW t \in Threads, NEW id, NEW call \in Calls, Call(t, id, call)
      PROVE  CacheInv'
  <2>1. id \in DOMAIN engines[t] /\ IsEngine(engines[t][id]) /\ call \in AllCalls
    BY <1>2, CallsAreExports DEF Call, Owned, CacheInv, Registry
  <2>2. QED
    BY <1>2, <2>1, CalledKeeps, ChangeKeeps DEF Call
<1>3. ASSUME NEW t \in Threads, NEW id, Panic(t, id)
      PROVE  CacheInv'
  <2>1. id \in DOMAIN engines[t] /\ IsEngine(engines[t][id])
    BY <1>3 DEF Panic, Owned, CacheInv, Registry
  <2>2. PICK s \in {Entered(engines[t][id]).state}
                     \cup {Apply(Entered(engines[t][id]).state, call).s : call \in Calls} :
          WithEngine(t, id, Guarded([Entered(engines[t][id]) EXCEPT !.state = s]))
    BY <1>3 DEF Panic
  <2>3. UNCHANGED <<nextEngine, seen>>
    BY <1>3 DEF Panic
  <2>4. QED
    BY <2>1, <2>2, <2>3, GuardedKeeps, ChangeKeeps
<1>4. ASSUME NEW t \in Threads, NEW id, RecordingBegin(t, id)
      PROVE  CacheInv'
  <2> DEFINE engine == engines[t][id]
             begun == [engine EXCEPT !.recording = NewRecording(engine.state)]
  <2>1. id \in DOMAIN engines[t] /\ IsEngine(engine)
    BY <1>4 DEF RecordingBegin, Owned, CacheInv, Registry
  <2>2. IsRecording(NewRecording(engine.state))
    <3>1. << >> \in Seq({})
      OBVIOUS
    <3>2. QED
      BY <3>1 DEF NewRecording, IsRecording, RecordingFields, Recorded
  <2>3. IsEngine(begun) /\ Counts(engine, begun)
    BY <2>1, <2>2 DEF IsEngine, Counts
  <2>4. WithEngine(t, id, engine) \/ WithEngine(t, id, begun)
    BY <1>4 DEF RecordingBegin
  <2>5. Counts(engine, engine)
    BY DEF Counts
  <2>6. UNCHANGED <<nextEngine, seen>>
    BY <1>4 DEF RecordingBegin
  <2> HIDE DEF begun
  <2>7. QED
    BY <2>1, <2>3, <2>4, <2>5, <2>6, ChangeKeeps
<1>5. ASSUME NEW t \in Threads, NEW id, NEW trace \in Traces, Replay(t, id, trace)
      PROVE  CacheInv'
  <2>1. id \in DOMAIN engines[t] /\ IsEngine(engines[t][id])
    BY <1>5 DEF Replay, Owned, CacheInv, Registry
  <2>2. IsRecording(trace)
    BY TracesAreRecordings
  <2>3. DOMAIN NoRecording # RecordingFields
    BY DEF NoRecording, RecordingFields
  <2>4. QED
    BY <1>5, <2>1, <2>2, <2>3, ReplayedKeeps, ChangeKeeps DEF Replay, IsRecording
<1>6. QED
  BY <1>1, <1>2, <1>3, <1>4, <1>5, CreateKeeps, DestroyKeeps, PanicUncountedKeeps, RefreshKeeps DEF Next

LEMMA InitHolds == Init => CacheInv
<1>1. SUFFICES ASSUME Init PROVE CacheInv
  OBVIOUS
<1>2. \A t \in Threads : engines[t] = NoEntries
  BY <1>1 DEF Init
<1>3. DOMAIN NoEntries = {}
  BY DEF NoEntries
<1>4. \A t \in Threads : DOMAIN engines[t] = {}
  BY <1>2, <1>3
<1>5. QED
  BY <1>1, <1>4 DEF Init, CacheInv, Registry, OneOwner, Seen

\* What the host shows is the snapshot of its engine as long as it sees no other
\* revision: every call that may change an engine counts the revision, whether it is
\* accepted, refused or panics, and so does a replay that takes the engine's place;
\* and an id never names another engine (ProfilerSession.Refresh, abi.rs with_engine).
\* An export that counts no revision and panics marks the coverage behind the host's
\* back, and nothing else: the combat that the host shows is the engine's even then.
THEOREM CacheStaysCurrent == Spec => []CacheIsCurrent
<1>1. CacheInv => CacheIsCurrent
  BY DEF CacheInv, Seen, CacheIsCurrent
<1>2. QED
  BY InitHolds, NextKeeps, <1>1, PTL DEF Spec

----------------------------------------------------------------------------
(***************************************************************************)
(* An engine that has panicked.                                            *)
(***************************************************************************)
\* A call that is refused leaves the state, but for what the arena reports.
Inert(s, u) == u = s \/ \E failure : u = Report(s, failure)

Sound(engine) ==
  /\ engine.state.poisoned => ~engine.state.coverage.complete
  /\ engine.recording.on /\ engine.recording.panicked => engine.recording.truncated

\* A poisoned engine keeps its combat, loses it, or has another one.
Keeps(s, u) == u.current.seq = s.current.seq => u.current \in {s.current, NoCombat}

Books(before, after) ==
  before.state.poisoned /\ after.state.poisoned => Keeps(before.state, after.state)

LEMMA InertKeeps ==
  ASSUME NEW s, NEW u, NEW n, IsState(s, n, TRUE), Inert(s, u)
  PROVE  u.current = s.current /\ u.coverage = s.coverage /\ u.poisoned
BY DEF Inert, Report, IsState, Fields

\* The epoch of a poisoned engine is refused.
LEMMA EpochRefused ==
  ASSUME NEW s, s.poisoned, NEW seq
  PROVE  /\ SourceEpoch(s, seq) = [s |-> s, failure |-> "packet"]
         /\ ProvenanceEpoch(s, seq) = [s |-> s, failure |-> "packet"]
<1>1. SourceEpoch(s, seq) = [s |-> s, failure |-> "packet"]
  BY DEF SourceEpoch
<1>2. QED
  BY <1>1 DEF ProvenanceEpoch, InProvenance, None

LEMMA TokenRefused ==
  ASSUME NEW s, s.poisoned, NEW wire, NEW kind
  PROVE  /\ ProvenanceToken(s, wire, kind).s = s /\ ProvenanceToken(s, wire, kind).failure # None
         /\ HandleToken(s, wire).failure # None /\ Inert(s, HandleToken(s, wire).s)
<1>1. ProvenanceToken(s, wire, kind).s = s /\ ProvenanceToken(s, wire, kind).failure # None
  BY EpochRefused DEF ProvenanceToken, None
<1>2. ASSUME NEW e, e.s = s, e.failure # None
      PROVE  Held(e, wire).failure # None /\ Inert(s, Held(e, wire).s)
  BY <1>2 DEF Held, Inert
<1>3. QED
  BY <1>1, <1>2, EpochRefused DEF HandleToken, None

LEMMA SourcesRefused ==
  ASSUME NEW s, s.poisoned, NEW seq, NEW handle
  PROVE  /\ Inert(s, SourceRelease(s, handle).s)
         /\ \A kind, instance, id, player, generation :
              Inert(s, SourceCapture(s, seq, kind, instance, id, player, generation).s)
         /\ \A first, before, second, after :
              Inert(s, SourceAccumulate(s, seq, first, before, second, after).s)
<1>1. Inert(s, SourceRelease(s, handle).s)
  BY TokenRefused DEF SourceRelease, Released, Accept
<1>2. \A kind, instance, id, player, generation :
        Inert(s, SourceCapture(s, seq, kind, instance, id, player, generation).s)
  BY EpochRefused DEF SourceCapture, CaptureIn, Accept, Inert, None
<1>3. \A first, before, second, after :
        Inert(s, SourceAccumulate(s, seq, first, before, second, after).s)
  BY EpochRefused DEF SourceAccumulate, AccumulateIn, Refuse, Inert, None
<1>4. QED
  BY <1>1, <1>2, <1>3

LEMMA PlaysRefused ==
  ASSUME NEW s, s.poisoned, NEW seq
  PROVE  /\ \A instance, transfer : Inert(s, CardGenerated(s, seq, instance, transfer).s)
         /\ \A execution, instance, id, player, generation, transfer :
              Inert(s, CardPlayStarted(s, seq, execution, instance, id, player, generation, transfer).s)
         /\ \A token : Inert(s, CardPlayFinished(s, token).s)
         /\ \A execution : Inert(s, CardExecutionEnded(s, seq, execution).s)
         /\ \A instance, transfer : Inert(s, OrbChanneled(s, seq, instance, transfer).s)
         /\ \A instance, token, player : Inert(s, OrbContextBegin(s, seq, instance, token, player).s)
<1> DEFINE e == [s |-> s, failure |-> "packet"]
<1>1. ProvenanceEpoch(s, seq) = e /\ e.failure # None /\ e.s = s
  BY EpochRefused DEF None
<1> HIDE DEF e
<1>2. \A failure : Inert(s, Refuse(s, failure).s)
  BY DEF Inert, Refuse
<1>3. \A instance, transfer : Inert(s, CardGenerated(s, seq, instance, transfer).s)
  BY <1>1, <1>2 DEF CardGenerated, GeneratedIn
<1>4. \A execution, instance, id, player, generation, transfer :
        Inert(s, CardPlayStarted(s, seq, execution, instance, id, player, generation, transfer).s)
  BY <1>1, <1>2 DEF CardPlayStarted, StartIn
<1>5. ASSUME NEW token
      PROVE  Inert(s, CardPlayFinished(s, token).s)
  <2> DEFINE t == ProvenanceToken(s, token, "play")
  <2>1. t.s = s /\ t.failure # None
    BY TokenRefused
  <2>2. FinishIn(t, token.payload) = Refuse(t.s, t.failure)
    BY <2>1 DEF FinishIn
  <2>3. QED
    BY <1>2, <2>1, <2>2 DEF CardPlayFinished
<1>6. \A execution : Inert(s, CardExecutionEnded(s, seq, execution).s)
  <2>1. \A execution : EndIn(e, execution) = Refuse(e.s, e.failure)
    BY <1>1 DEF EndIn
  <2>2. QED
    BY <1>1, <1>2, <2>1 DEF CardExecutionEnded
<1>7. \A instance, transfer : Inert(s, OrbChanneled(s, seq, instance, transfer).s)
  BY <1>1, <1>2 DEF OrbChanneled, ChannelIn
<1>8. \A instance, token, player : Inert(s, OrbContextBegin(s, seq, instance, token, player).s)
  BY <1>1, <1>2 DEF OrbContextBegin, ContextIn
<1>9. QED
  BY <1>3, <1>4, <1>5, <1>6, <1>7, <1>8

LEMMA CountersRefused ==
  ASSUME NEW s, s.poisoned, NEW seq
  PROVE  /\ \A counter : Inert(s, Counted(s, seq, counter).s)
         /\ \A player : Inert(s, PlayerDied(s, seq, player).s)
         /\ \A op : Inert(s, Ledgered(s, seq, op).s)
         /\ Inert(s, CombatEnded(s, seq).s)
<1> DEFINE e == [s |-> s, failure |-> "packet"]
<1>1. ProvenanceEpoch(s, seq) = e /\ e.failure # None /\ e.s = s
  BY EpochRefused DEF None
<1> HIDE DEF e
<1>2. \A failure : Inert(s, Refuse(s, failure).s)
  BY DEF Inert, Refuse
<1>3. \A stage : CountIn(e, stage) = Refuse(e.s, e.failure)
  BY <1>1 DEF CountIn
<1>4. \A at : DeathOf(e, at) = Refuse(e.s, e.failure)
  BY <1>1 DEF DeathOf
<1>5. \A op : LedgerIn(e, seq, op) = Refuse(e.s, e.failure)
  BY <1>1 DEF LedgerIn
<1>6. EndCombatIn(e) = Accept(e.s, Zero)
  BY <1>1 DEF EndCombatIn
<1>7. Inert(s, Accept(s, Zero).s)
  BY DEF Inert, Accept
<1>8. QED
  BY <1>1, <1>2, <1>3, <1>4, <1>5, <1>6, <1>7 DEF Counted, PlayerDied, DiedIn, Ledgered, CombatEnded

\* What a call leaves of an engine that had panicked.
After(s, u) == Keeps(s, u) /\ (u.poisoned => ~u.coverage.complete)

LEMMA InertAfter ==
  ASSUME NEW s, NEW u, NEW n, IsState(s, n, TRUE), ~s.coverage.complete, Inert(s, u)
  PROVE  After(s, u)
BY InertKeeps DEF After, Keeps

LEMMA FailedAfter ==
  ASSUME NEW s, NEW n, NEW p, IsState(s, n, p), NEW reason
  PROVE  Failed(s, reason).current = s.current /\ ~Failed(s, reason).coverage.complete
BY DEF Failed, IsState, Fields

LEMMA StartAfter ==
  ASSUME NEW s, NEW n \in Nat, IsState(s, n, TRUE), ~s.coverage.complete, NEW seq \in Nat, NEW count
  PROVE  After(s, CombatStarted(s, seq, count).s)
<1> DEFINE refused == seq = 0 \/ seq <= s.last \/ (s.current # NoCombat /\ s.current.seq >= seq)
           u == CombatStarted(s, seq, count).s
<1>1. CASE refused
  <2>1. u = Failed(s, "combat-epoch")
    BY <1>1 DEF CombatStarted, Accept
  <2>2. QED
    BY <2>1, FailedAfter DEF After, Keeps
<1>2. CASE ~refused
  <2>1. \E players, combat :
          LET started == [Discarded(s) EXCEPT !.last = seq, !.poisoned = FALSE, !.current = combat,
                            !.coverage = [complete |-> TRUE, reasons |-> {}],
                            !.died = [i \in 1..players |-> FALSE], !.revision = @ + 1]
          IN  combat.seq = seq /\ (u = started \/ u = Failed(started, "player-count"))
    <3> DEFINE players == IF count < 0 THEN 0 ELSE IF count > Team THEN Team ELSE count
               combat == [NoCombat EXCEPT !.seq = seq, !.phase = "active", !.players = players]
               started == [Discarded(s) EXCEPT !.last = seq, !.poisoned = FALSE, !.current = combat,
                             !.coverage = [complete |-> TRUE, reasons |-> {}],
                             !.died = [i \in 1..players |-> FALSE], !.revision = @ + 1]
    <3>1. combat.seq = seq
      BY DEF NoCombat
    <3>2. u = started \/ u = Failed(started, "player-count")
      BY <1>2 DEF CombatStarted, Accept
    <3> HIDE DEF players, combat, u
    <3>3. QED
      BY <3>1, <3>2
  <2>2. ASSUME NEW players, NEW combat, combat.seq = seq
        PROVE  LET started == [Discarded(s) EXCEPT !.last = seq, !.poisoned = FALSE, !.current = combat,
                                 !.coverage = [complete |-> TRUE, reasons |-> {}],
                                 !.died = [i \in 1..players |-> FALSE], !.revision = @ + 1]
               IN  IsState(started, n + 1, FALSE) /\ started.current.seq = seq
    BY <2>2 DEF Discarded, IsState, Fields
  <2>3. ASSUME NEW started, IsState(started, n + 1, FALSE), started.current.seq = seq,
               u = started \/ u = Failed(started, "player-count")
        PROVE  u.current.seq = seq /\ ~u.poisoned
    <3>1. IsState(Failed(started, "player-count"), n + 1, FALSE)
      BY <2>3, FailedKeeps
    <3>2. QED
      BY <2>3, <3>1, FailedAfter DEF IsState
  <2>4. u.current.seq = seq /\ ~u.poisoned
    <3> HIDE DEF u
    <3>1. QED
      BY <2>1, <2>2, <2>3
  <2>5. seq # s.current.seq
    <3>1. CASE s.current = NoCombat
      BY <1>2, <3>1 DEF NoCombat
    <3>2. CASE s.current # NoCombat
      BY <1>2, <3>2
    <3>3. QED
      BY <3>1, <3>2
  <2>6. After(s, u)
    <3> HIDE DEF u
    <3>1. u.current.seq # s.current.seq
      BY <2>4, <2>5
    <3>2. Keeps(s, u)
      BY <3>1 DEF Keeps
    <3>3. QED
      BY <2>4, <3>2 DEF After
  <2>7. QED
    BY <2>6
<1>3. QED
  BY <1>1, <1>2

LEMMA HostAfter ==
  ASSUME NEW s, NEW n \in Nat, IsState(s, n, TRUE), ~s.coverage.complete, NEW valid, NEW reason
  PROVE  /\ After(s, WeakPrevention(s, valid, 1).s)
         /\ After(s, Failed(s, reason))
         /\ After(s, Discarded(s))
<1>1. \A r : After(s, Failed(s, r))
  BY FailedAfter DEF After, Keeps
<1>2. After(s, s)
  BY DEF After, Keeps
<1>3. After(s, Discarded(s))
  <2>1. Discarded(s).current = NoCombat /\ Discarded(s).coverage = s.coverage
    BY DEF Discarded, IsState, Fields
  <2>2. QED
    BY <2>1 DEF After, Keeps
<1>4. QED
  BY <1>1, <1>2, <1>3 DEF WeakPrevention, Accept

LEMMA ApplyAfter ==
  ASSUME NEW s, NEW n \in Nat, IsState(s, n, TRUE), ~s.coverage.complete, NEW call \in AllCalls
  PROVE  After(s, Apply(s, call).s)
<1>1. s.poisoned
  BY DEF IsState
<1>2. CASE call.op \in SourceOps
  <2>1. Inert(s, ApplySource(s, call).s)
    BY <1>1, <1>2, SourcesRefused DEF ApplySource, SourceOps
  <2>2. QED
    BY <1>2, <2>1, Dispatched, InertAfter
<1>3. CASE call.op \in PlayOps
  <2>1. Inert(s, ApplyPlay(s, call).s)
    BY <1>1, <1>3, PlaysRefused DEF ApplyPlay, PlayOps
  <2>2. QED
    BY <1>3, <2>1, Dispatched, InertAfter
<1>4. CASE call.op = "combat_started"
  <2>1. Apply(s, call) = CombatStarted(s, call.seq, call.players)
    BY <1>4, Dispatched DEF ApplyCombat, CombatOps
  <2>2. call \in CombatCalls
    BY <1>4 DEF AllCalls, ReleaseCalls, CaptureCalls, PowerCalls, CardCalls, OrbCalls, DamageCalls,
                SettlingCalls, BlockCalls, DoomCalls, CombatCalls, AccumulateCalls, WeakCalls,
                FailureCalls, DiscardCalls
  <2>3. call.seq \in Nat
    BY <2>2 DEF CombatCalls, Seqs
  <2>4. QED
    BY <2>1, <2>3, StartAfter
<1>5. CASE call.op \in CombatOps \ {"combat_started"}
  <2>1. Inert(s, ApplyCombat(s, call).s)
    BY <1>1, <1>5, CountersRefused DEF ApplyCombat, CombatOps
  <2>2. QED
    BY <1>5, <2>1, Dispatched, InertAfter
<1>6. CASE call.op \in HostOps
  <2>1. \/ Apply(s, call) = WeakPrevention(s, call.valid, 1)
        \/ Apply(s, call) = Accept(Failed(s, call.reason), Zero)
        \/ Apply(s, call) = Accept(Discarded(s), Zero)
    BY <1>6, Dispatched DEF ApplyHost, HostOps
  <2>2. \A t : Accept(t, Zero).s = t
    BY DEF Accept
  <2>3. /\ After(s, WeakPrevention(s, call.valid, 1).s)
        /\ After(s, Failed(s, call.reason))
        /\ After(s, Discarded(s))
    BY HostAfter
  <2>4. QED
    BY <2>1, <2>2, <2>3
<1>7. CASE call.op \notin UNION {SourceOps, PlayOps, CombatOps, HostOps}
  <2>1. Inert(s, Ledgered(s, call.seq, call.op).s)
    BY <1>1, CountersRefused
  <2>2. QED
    BY <1>7, <2>1, Dispatched, InertAfter
<1>8. QED
  BY <1>2, <1>3, <1>4, <1>5, <1>6, <1>7

\* A recording that has seen a panic stays truncated.
SoundRecording(recording) == recording.on /\ recording.panicked => recording.truncated

LEMMA RecordSound ==
  ASSUME NEW recording, IsRecording(recording), SoundRecording(recording), NEW call, NEW r
  PROVE  SoundRecording(Record(recording, call, r))
<1>1. CASE recording = NoRecording
  BY <1>1 DEF Record, NoRecording, SoundRecording
<1>2. CASE DOMAIN recording = RecordingFields
  BY <1>2 DEF Record, RecordingFields, SoundRecording
<1>3. QED
  BY <1>1, <1>2 DEF IsRecording

LEMMA EnteredSound ==
  ASSUME NEW engine, NEW n \in Nat, NEW p, IsState(engine.state, n, p),
         DOMAIN engine = {"state", "recording"}
  PROVE  LET e == Entered(engine)
         IN  /\ IsState(e.state, n + 1, p) /\ e.recording = engine.recording
             /\ e.state.current = engine.state.current /\ e.state.coverage = engine.state.coverage
             /\ DOMAIN e = {"state", "recording"}
BY DEF Entered, IsState, Fields

LEMMA CalledSound ==
  ASSUME NEW engine, IsEngine(engine), Sound(engine), NEW call \in AllCalls
  PROVE  Sound(Called(Entered(engine), call)) /\ Books(engine, Called(Entered(engine), call))
<1> DEFINE s == Entered(engine).state
           u == Apply(s, call).s
           recording == Record(engine.recording, call, Apply(s, call).r)
<1>1. PICK n \in Nat, p \in BOOLEAN : IsState(engine.state, n, p)
  BY DEF IsEngine
<1>2. /\ IsState(s, n + 1, p) /\ Entered(engine).recording = engine.recording
      /\ s.current = engine.state.current /\ s.coverage = engine.state.coverage
      /\ n + 1 \in Nat
  BY <1>1, EnteredSound DEF IsEngine
<1>3. Called(Entered(engine), call) = [state |-> u, recording |-> recording]
  BY <1>2 DEF Called, Answered
<1>4. SoundRecording(recording)
  BY RecordSound DEF IsEngine, Sound, SoundRecording
<1> HIDE DEF recording
<1>5. CASE p = TRUE
  <2>1. ~s.coverage.complete
    BY <1>1, <1>2, <1>5 DEF Sound, IsState
  <2>2. After(s, u)
    BY <1>2, <1>5, <2>1, ApplyAfter
  <2> HIDE DEF s, u
  <2>3. Sound([state |-> u, recording |-> recording])
    BY <1>4, <2>2 DEF After, Sound, SoundRecording
  <2>4. u.current.seq = engine.state.current.seq => u.current \in {engine.state.current, NoCombat}
    BY <1>2, <2>2 DEF After, Keeps
  <2>5. Books(engine, [state |-> u, recording |-> recording])
    BY <2>4 DEF Books, Keeps
  <2>6. QED
    BY <1>3, <2>3, <2>5
<1>6. CASE p = FALSE
  <2>1. \E k \in Nat : IsState(u, k, FALSE)
    BY <1>2, <1>6, ApplyCounts
  <2> HIDE DEF u
  <2>2. ~u.poisoned
    BY <2>1 DEF IsState
  <2>3. QED
    BY <1>3, <1>4, <2>2 DEF Books, Sound, SoundRecording
<1>7. QED
  BY <1>5, <1>6

LEMMA GuardedSound ==
  ASSUME NEW engine, IsEngine(engine), Sound(engine),
         NEW s \in {Entered(engine).state} \cup {Apply(Entered(engine).state, call).s : call \in Calls}
  PROVE  LET after == Guarded([Entered(engine) EXCEPT !.state = s])
         IN  Sound(after) /\ Books(engine, after)
<1> DEFINE e == Entered(engine).state
           poisoned == [s EXCEPT !.poisoned = TRUE]
           after == Guarded([Entered(engine) EXCEPT !.state = s])
           ended == [engine.recording EXCEPT !.truncated = TRUE, !.panicked = TRUE]
<1>1. PICK n \in Nat, p \in BOOLEAN : IsState(engine.state, n, p)
  BY DEF IsEngine
<1>2. /\ IsState(e, n + 1, p) /\ Entered(engine).recording = engine.recording
      /\ e.current = engine.state.current /\ e.coverage = engine.state.coverage
      /\ n + 1 \in Nat /\ DOMAIN Entered(engine) = {"state", "recording"}
  BY <1>1, EnteredSound DEF IsEngine
<1> HIDE DEF e
<1>3. /\ \E m, q : IsState(s, m, q)
      /\ p = TRUE => Keeps(e, s)
  <2>1. CASE s = e
    BY <1>2, <2>1 DEF Keeps
  <2>2. ASSUME NEW call \in Calls, s = Apply(e, call).s
        PROVE  /\ \E m, q : IsState(s, m, q)
               /\ p = TRUE => Keeps(e, s)
    <3>1. call \in AllCalls
      BY CallsAreExports
    <3>2. \E m, q : IsState(s, m, q)
      BY <1>2, <2>2, <3>1, ApplyKeeps
    <3>3. ASSUME p = TRUE PROVE Keeps(e, s)
      <4>1. ~e.coverage.complete
        BY <1>1, <1>2, <3>3 DEF Sound, IsState
      <4>2. After(e, s)
        BY <1>2, <2>2, <3>1, <3>3, <4>1, ApplyAfter
      <4>3. QED
        BY <4>2 DEF After
    <3>4. QED
      BY <3>2, <3>3
  <2>3. QED
    BY <2>1, <2>2 DEF e
<1>4. PICK m, q : IsState(s, m, q)
  BY <1>3
<1>5. IsState(poisoned, m, TRUE) /\ poisoned.current = s.current
  BY <1>4 DEF IsState, Fields
<1>6. after = [state |-> Failed(poisoned, "native-panic"),
               recording |-> IF engine.recording.on THEN ended ELSE NoRecording]
  BY <1>2 DEF Guarded
<1> HIDE DEF poisoned
<1>7. /\ Failed(poisoned, "native-panic").current = s.current
      /\ ~Failed(poisoned, "native-panic").coverage.complete
  BY <1>5, FailedAfter
<1>8. SoundRecording(IF engine.recording.on THEN ended ELSE NoRecording)
  <2>1. CASE engine.recording = NoRecording
    BY <2>1 DEF NoRecording, SoundRecording
  <2>2. CASE DOMAIN engine.recording = RecordingFields
    BY <2>2 DEF RecordingFields, NoRecording, SoundRecording
  <2>3. QED
    BY <2>1, <2>2 DEF IsEngine, IsRecording
<1> HIDE DEF after, ended
<1>9. Sound(after)
  BY <1>6, <1>7, <1>8 DEF Sound, SoundRecording
<1>10. Books(engine, after)
  BY <1>1, <1>2, <1>3, <1>6, <1>7 DEF Books, Keeps, IsState
<1>11. QED
  BY <1>9, <1>10 DEF after

LEMMA UncountedSound ==
  ASSUME NEW engine, IsEngine(engine), Sound(engine)
  PROVE  Sound(Guarded(engine)) /\ Books(engine, Guarded(engine))
<1> DEFINE poisoned == [engine.state EXCEPT !.poisoned = TRUE]
           failed == Failed(poisoned, "native-panic")
           ended == [engine.recording EXCEPT !.truncated = TRUE, !.panicked = TRUE]
<1>1. PICK n \in Nat, p \in BOOLEAN : IsState(engine.state, n, p)
  BY DEF IsEngine
<1>2. IsState(poisoned, n, TRUE) /\ poisoned.current = engine.state.current
  BY <1>1 DEF IsState, Fields
<1>3. failed.current = engine.state.current /\ ~failed.coverage.complete
  BY <1>2, FailedAfter
<1>4. Guarded(engine) = [state |-> failed, recording |-> IF engine.recording.on THEN ended ELSE NoRecording]
  BY DEF Guarded
<1>5. SoundRecording(IF engine.recording.on THEN ended ELSE NoRecording)
  <2>1. CASE engine.recording = NoRecording
    BY <2>1 DEF NoRecording, SoundRecording
  <2>2. CASE DOMAIN engine.recording = RecordingFields
    BY <2>2 DEF RecordingFields, NoRecording, SoundRecording
  <2>3. QED
    BY <2>1, <2>2 DEF IsEngine, IsRecording
<1> HIDE DEF failed, ended
<1>6. Sound(Guarded(engine))
  BY <1>3, <1>4, <1>5 DEF Sound, SoundRecording
<1>7. Books(engine, Guarded(engine))
  BY <1>3, <1>4 DEF Books, Keeps
<1>8. QED
  BY <1>6, <1>7

LEMMA ReplayedSound ==
  ASSUME NEW engine, IsEngine(engine), Sound(engine), NEW trace, IsRecording(trace)
  PROVE  Sound(Replayed(engine, trace)) /\ Books(engine, Replayed(engine, trace))
<1>1. CASE Replayed(engine, trace) = engine
  BY <1>1 DEF Books, Keeps
<1>2. CASE Replayed(engine, trace) # engine
  <2> DEFINE told == Told(trace.observations)
             published == [told.s EXCEPT !.revision = engine.state.revision + 1]
  <2>1. trace.on /\ Replayed(engine, trace) = [state |-> published, recording |-> NoRecording]
    BY <1>2 DEF Replayed, Readable, Published
  <2>2. PICK R : trace.observations \in Seq(R) /\ \A entry \in R : entry.call \in AllCalls
    BY <2>1 DEF IsRecording, NoRecording, Recorded
  <2>3. Entries(trace.observations)
    BY <2>2 DEF Entries
  <2>4. PICK n \in Nat : IsState(told.s, n, FALSE)
    BY <2>3, ToldIsState
  <2> HIDE DEF told
  <2>5. ~published.poisoned
    BY <2>4 DEF IsState, Fields
  <2> HIDE DEF published
  <2>6. QED
    BY <2>1, <2>5 DEF Sound, Books, NoRecording
<1>3. QED
  BY <1>1, <1>2

SoundInv == \A t \in Threads : \A id \in DOMAIN engines[t] : Sound(engines[t][id])

\* What a step does to the engines.
SoundStep ==
  \A t \in Threads : \A id \in DOMAIN engines'[t] :
    /\ Sound(engines'[t][id])
    /\ id \in DOMAIN engines[t] => Books(engines[t][id], engines'[t][id])

LEMMA Unchanged ==
  ASSUME NEW engine
  PROVE  Books(engine, engine)
BY DEF Books, Keeps

LEMMA ChangeSound ==
  ASSUME CacheInv, SoundInv, NEW t \in Threads, NEW id \in DOMAIN engines[t], NEW engine,
         Sound(engine), Books(engines[t][id], engine), WithEngine(t, id, engine)
  PROVE  SoundStep
<1>1. \A u \in Threads : DOMAIN engines'[u] = DOMAIN engines[u]
  BY DEF CacheInv, Registry, WithEngine
<1>2. \A u \in Threads : \A other \in DOMAIN engines[u] :
        engines'[u][other] = IF u = t /\ other = id THEN engine ELSE engines[u][other]
  BY DEF CacheInv, Registry, WithEngine
<1>3. QED
  BY <1>1, <1>2, Unchanged DEF SoundStep, SoundInv

\* The engines that are there before and after the step are the same.
LEMMA SameSound ==
  ASSUME SoundInv,
         \A u \in Threads : \A id \in DOMAIN engines'[u] :
           \/ id \in DOMAIN engines[u] /\ engines'[u][id] = engines[u][id]
           \/ id \notin DOMAIN engines[u] /\ engines'[u][id] = [state |-> Fresh, recording |-> NoRecording]
  PROVE  SoundStep
<1>1. Sound([state |-> Fresh, recording |-> NoRecording])
  BY DEF Sound, Fresh, NoRecording
<1>2. QED
  BY <1>1, Unchanged DEF SoundStep, SoundInv

LEMMA CreateSound ==
  ASSUME CacheInv, SoundInv, NEW t \in Threads, EngineCreate(t)
  PROVE  SoundStep
<1>1. CASE UNCHANGED engines
  BY <1>1, SameSound
<1>2. CASE engines' = [engines EXCEPT ![t] = With(@, nextEngine)]
  <2>1. \A u \in Threads : DOMAIN engines'[u] =
          IF u = t THEN DOMAIN engines[u] \cup {nextEngine} ELSE DOMAIN engines[u]
    BY <1>2 DEF CacheInv, Registry, With
  <2>2. nextEngine \notin DOMAIN engines[t]
    <3>1. nextEngine \in Nat /\ \A id \in DOMAIN engines[t] : id \in Nat /\ id < nextEngine
      BY DEF CacheInv, Registry
    <3>2. QED
      BY <3>1
  <2>3. \A u \in Threads : \A id \in DOMAIN engines[u] : engines'[u][id] = engines[u][id]
    BY <1>2, <2>2 DEF CacheInv, Registry, With
  <2>4. engines'[t][nextEngine] = [state |-> Fresh, recording |-> NoRecording]
    BY <1>2 DEF CacheInv, Registry, With
  <2>5. QED
    BY <2>1, <2>2, <2>3, <2>4, SameSound
<1>3. QED
  BY <1>1, <1>2 DEF EngineCreate

LEMMA NextSound ==
  ASSUME CacheInv, SoundInv, [Next]_vars
  PROVE  SoundStep
<1>1. CASE UNCHANGED vars
  BY <1>1, SameSound DEF vars
<1>2. ASSUME NEW t \in Threads, NEW id, NEW call \in Calls, Call(t, id, call)
      PROVE  SoundStep
  <2>1. /\ id \in DOMAIN engines[t] /\ IsEngine(engines[t][id]) /\ Sound(engines[t][id])
        /\ call \in AllCalls
    BY <1>2, CallsAreExports DEF Call, Owned, CacheInv, Registry, SoundInv
  <2>2. QED
    BY <1>2, <2>1, CalledSound, ChangeSound DEF Call
<1>3. ASSUME NEW t \in Threads, NEW id, Panic(t, id)
      PROVE  SoundStep
  <2>1. id \in DOMAIN engines[t] /\ IsEngine(engines[t][id]) /\ Sound(engines[t][id])
    BY <1>3 DEF Panic, Owned, CacheInv, Registry, SoundInv
  <2>2. PICK s \in {Entered(engines[t][id]).state}
                     \cup {Apply(Entered(engines[t][id]).state, call).s : call \in Calls} :
          WithEngine(t, id, Guarded([Entered(engines[t][id]) EXCEPT !.state = s]))
    BY <1>3 DEF Panic
  <2>3. QED
    BY <2>1, <2>2, GuardedSound, ChangeSound
<1>4. ASSUME NEW t \in Threads, NEW id, RecordingBegin(t, id)
      PROVE  SoundStep
  <2> DEFINE engine == engines[t][id]
             begun == [engine EXCEPT !.recording = NewRecording(engine.state)]
  <2>1. id \in DOMAIN engines[t] /\ IsEngine(engine) /\ Sound(engine)
    BY <1>4 DEF RecordingBegin, Owned, CacheInv, Registry, SoundInv
  <2>2. begun.state = engine.state /\ begun.recording = NewRecording(engine.state)
    BY <2>1 DEF IsEngine
  <2>3. Sound(begun) /\ Books(engine, begun)
    BY <2>1, <2>2 DEF Sound, Books, Keeps, NewRecording
  <2>4. WithEngine(t, id, engine) \/ WithEngine(t, id, begun)
    BY <1>4 DEF RecordingBegin
  <2> HIDE DEF begun
  <2>5. QED
    BY <2>1, <2>3, <2>4, Unchanged, ChangeSound
<1>5. ASSUME NEW t \in Threads, NEW id, NEW trace \in Traces, Replay(t, id, trace)
      PROVE  SoundStep
  <2>1. id \in DOMAIN engines[t] /\ IsEngine(engines[t][id]) /\ Sound(engines[t][id])
    BY <1>5 DEF Replay, Owned, CacheInv, Registry, SoundInv
  <2>2. QED
    BY <1>5, <2>1, TracesAreRecordings, ReplayedSound, ChangeSound DEF Replay
<1>6. ASSUME NEW t \in Threads, NEW id, EngineDestroy(t, id)
      PROVE  SoundStep
  <2>1. \A u \in Threads :
          /\ DOMAIN engines'[u] \subseteq DOMAIN engines[u]
          /\ \A other \in DOMAIN engines'[u] : engines'[u][other] = engines[u][other]
    BY <1>6 DEF EngineDestroy, CacheInv, Registry
  <2>2. QED
    BY <2>1, SameSound
<1>7. ASSUME NEW t \in Threads, NEW id, Refresh(t, id)
      PROVE  SoundStep
  BY <1>7, SameSound DEF Refresh
<1>8. ASSUME NEW t \in Threads, NEW id, PanicUncounted(t, id)
      PROVE  SoundStep
  <2>1. id \in DOMAIN engines[t] /\ IsEngine(engines[t][id]) /\ Sound(engines[t][id])
    BY <1>8 DEF PanicUncounted, Owned, CacheInv, Registry, SoundInv
  <2>2. QED
    BY <1>8, <2>1, UncountedSound, ChangeSound DEF PanicUncounted
<1>9. QED
  BY <1>1, <1>2, <1>3, <1>4, <1>5, <1>6, <1>7, <1>8, CreateSound DEF Next

\* An engine that has panicked books nothing more of its combat, says that it is
\* incomplete as long as it has panicked, and a recording that saw the panic is not
\* replayed: with_engine's guard, source_epoch's refusal of a poisoned engine and
\* replay's refusal of a truncated recording, whatever calls are made and whoever
\* makes them.
THEOREM PanicsQuarantine == Spec => Quarantined
<1> DEFINE Q(t, id) ==
      engines[t][id].state.poisoned /\ id \in DOMAIN engines'[t] /\ engines'[t][id].state.poisoned
        => LET before == engines[t][id]
               after == engines'[t][id]
           IN  /\ after.state.current.seq = before.state.current.seq =>
                     after.state.current \in {before.state.current, NoCombat}
               /\ ~after.state.coverage.complete
               /\ after.recording.on /\ after.recording.panicked => ~Replayable(after.recording)
<1>1. Init => SoundInv
  <2>1. SUFFICES ASSUME Init PROVE SoundInv
    OBVIOUS
  <2>2. DOMAIN NoEntries = {} /\ \A t \in Threads : engines[t] = NoEntries
    BY <2>1 DEF Init, NoEntries
  <2>3. QED
    BY <2>2 DEF SoundInv
<1>2. SoundStep => SoundInv'
  BY DEF SoundStep, SoundInv
<1>3. CacheInv /\ SoundInv /\ [Next]_vars => SoundInv'
  BY <1>2, NextSound
<1>4. ASSUME SoundStep
      PROVE  \A t \in Threads : \A id \in DOMAIN engines[t] : Q(t, id)
  <2>1. SUFFICES ASSUME NEW t \in Threads, NEW id \in DOMAIN engines[t], id \in DOMAIN engines'[t],
                        engines[t][id].state.poisoned, engines'[t][id].state.poisoned
                 PROVE  LET before == engines[t][id]
                            after == engines'[t][id]
                        IN  /\ after.state.current.seq = before.state.current.seq =>
                                  after.state.current \in {before.state.current, NoCombat}
                            /\ ~after.state.coverage.complete
                            /\ after.recording.on /\ after.recording.panicked
                                 => ~Replayable(after.recording)
    OBVIOUS
  <2>2. Sound(engines'[t][id]) /\ Books(engines[t][id], engines'[t][id])
    BY <1>4, <2>1 DEF SoundStep
  <2>3. QED
    BY <2>1, <2>2 DEF Sound, Books, Keeps, Replayable, Readable
<1>5. CacheInv /\ SoundInv /\ [Next]_vars
        => [\A t \in Threads : \A id \in DOMAIN engines[t] : Q(t, id)]_vars
  BY <1>4, NextSound
<1>6. QED
  BY InitHolds, NextKeeps, <1>1, <1>3, <1>5, PTL DEF Spec, Quarantined

----------------------------------------------------------------------------
(***************************************************************************)
(* What a recording is truncated by.                                       *)
(***************************************************************************)
ArenaFields  == {"epoch", "entries", "serial", "reported"}
CombatFields == {"seq", "phase", "players", "rows", "plays", "generatedPlays", "triggers", "turns",
                 "potions", "rowsLost"}

\* A State that has exported no source but those of E: a combat that is not active has
\* none.  If a holds, the combat is active.
Lean(s, E, a) ==
  /\ DOMAIN s = Fields /\ DOMAIN s.arena = ArenaFields /\ DOMAIN s.current = CombatFields
  /\ DOMAIN s.arena.entries \subseteq E
  /\ Active(s) \/ DOMAIN s.arena.entries = {}
  /\ a => Active(s)
  /\ s.last \in Nat /\ s.current.seq \in 0..s.last

\* The same combat, in the same phase.
Phased(c, d) == DOMAIN c = CombatFields /\ c.phase = d.phase /\ c.seq = d.seq

\* What a call may export: one source more.
Leaner(s, E) == \E n : Lean(s, E \cup {n}, FALSE)

LEMMA FreshIsLean == \A E : Lean(Fresh, E, FALSE) /\ Lean(Discarded(Fresh), E, FALSE)
<1>1. DOMAIN NoEntries = {}
  BY DEF NoEntries
<1>2. QED
  BY <1>1 DEF Lean, Fields, ArenaFields, CombatFields, Fresh, Discarded, NoArena, NoCombat, Active

LEMMA LeanIsLeaner ==
  ASSUME NEW s, NEW E, NEW a, Lean(s, E, a)
  PROVE  Leaner(s, E)
<1>1. Lean(s, E \cup {0}, FALSE)
  BY DEF Lean
<1>2. QED
  BY <1>1 DEF Leaner

LEMMA ReportIsLean ==
  ASSUME NEW s, NEW E, NEW a, Lean(s, E, a), NEW failure
  PROVE  /\ Lean(Report(s, failure), E, a)
         /\ Lean(Refuse(s, failure).s, E, a)
         /\ Lean(Failed(s, failure), E, a)
<1>1. Lean(Report(s, failure), E, a)
  BY DEF Lean, Fields, ArenaFields, Report, Active
<1>2. Lean(Failed(s, failure), E, a)
  BY DEF Lean, Fields, Failed, Active
<1>3. QED
  BY <1>1, <1>2 DEF Refuse

LEMMA SlottedIsLean ==
  ASSUME NEW s, NEW E, NEW a, Lean(s, E, a), NEW slot
  PROVE  Lean(Slotted(s, slot).s, E, a)
BY ReportIsLean DEF Slotted

\* The fields that are not of the arena or the combat do not matter.
LEMMA ProvIsLean ==
  ASSUME NEW s, NEW E, NEW a, Lean(s, E, a), NEW prov
  PROVE  Lean([s EXCEPT !.prov = prov], E, a)
BY DEF Lean, Fields, Active

LEMMA CombatIsLean ==
  ASSUME NEW s, NEW E, NEW a, Lean(s, E, a), NEW c, Phased(c, s.current), NEW died
  PROVE  /\ Lean([s EXCEPT !.current = c], E, a)
         /\ Lean([s EXCEPT !.current = c, !.died = died], E, a)
         /\ Lean([s EXCEPT !.died = died], E, a)
BY DEF Lean, Fields, Active, Phased

\* A call that is of the epoch is of an active combat.
LEMMA EpochIsLean ==
  ASSUME NEW s, NEW E, NEW a, Lean(s, E, a), NEW seq
  PROVE  /\ Lean(SourceEpoch(s, seq).s, E, a)
         /\ SourceEpoch(s, seq).failure = None => Lean(SourceEpoch(s, seq).s, E, TRUE)
         /\ Lean(ProvenanceEpoch(s, seq).s, E, a)
         /\ ProvenanceEpoch(s, seq).failure = None => Lean(ProvenanceEpoch(s, seq).s, E, TRUE)
<1>1. DOMAIN NoEntries = {}
  BY DEF NoEntries
<1>2. /\ DOMAIN SourceEpoch(s, seq) = {"s", "failure"}
      /\ Lean(SourceEpoch(s, seq).s, E, a)
      /\ SourceEpoch(s, seq).failure = None => Lean(SourceEpoch(s, seq).s, E, TRUE)
  <2>1. CASE s.poisoned
    BY <2>1 DEF SourceEpoch, None
  <2>2. CASE ~s.poisoned /\ Active(s) /\ s.current.seq = seq
    <3> DEFINE started == [s EXCEPT !.arena = [NoArena EXCEPT !.epoch = seq]]
    <3>1. Lean(started, E, TRUE) /\ Lean(started, E, a)
      BY <1>1, <2>2 DEF Lean, Fields, ArenaFields, NoArena, Active
    <3>2. Lean(s, E, TRUE)
      BY <2>2 DEF Lean
    <3>3. /\ DOMAIN SourceEpoch(s, seq) = {"s", "failure"}
          /\ SourceEpoch(s, seq).s \in {s, started}
      BY <2>2 DEF SourceEpoch
    <3> HIDE DEF started
    <3>4. QED
      BY <3>1, <3>2, <3>3
  <2>3. CASE ~s.poisoned /\ ~(Active(s) /\ s.current.seq = seq)
    BY <2>3, ReportIsLean DEF SourceEpoch, None
  <2>4. QED
    BY <2>1, <2>2, <2>3
<1>3. ASSUME NEW e, NEW b, DOMAIN e = {"s", "failure"}, Lean(e.s, E, b)
      PROVE  /\ Lean(InProvenance(e, seq).s, E, b)
             /\ InProvenance(e, seq).failure = e.failure
  <2>1. [e EXCEPT !.s.prov = [NoProvenance EXCEPT !.epoch = seq]].s
          = [e.s EXCEPT !.prov = [NoProvenance EXCEPT !.epoch = seq]]
    BY <1>3
  <2>2. Lean([e.s EXCEPT !.prov = [NoProvenance EXCEPT !.epoch = seq]], E, b)
    BY <1>3, ProvIsLean
  <2>3. QED
    BY <1>3, <2>1, <2>2 DEF InProvenance
<1>4. QED
  BY <1>2, <1>3 DEF ProvenanceEpoch

LEMMA TokenIsLean ==
  ASSUME NEW s, NEW E, NEW a, Lean(s, E, a), NEW wire, NEW kind
  PROVE  /\ Lean(ProvenanceToken(s, wire, kind).s, E, a)
         /\ Lean(HandleToken(s, wire).s, E, a)
<1>1. Lean(ProvenanceToken(s, wire, kind).s, E, a)
  BY EpochIsLean DEF ProvenanceToken
<1>2. ASSUME NEW e, Lean(e.s, E, a)
      PROVE  Lean(Held(e, wire).s, E, a)
  BY <1>2, ReportIsLean DEF Held
<1>3. QED
  BY <1>1, <1>2, EpochIsLean DEF HandleToken

LEMMA SnapshotIsLean ==
  ASSUME NEW s, NEW E, NEW a, Lean(s, E, a), NEW transfer
  PROVE  Lean(SourceSnapshot(s, transfer).s, E, a)
BY TokenIsLean DEF SourceSnapshot, Snapshotted

\* Only a combat that is active exports: at most one source.
LEMMA ExportIsLeaner ==
  ASSUME NEW s, NEW E, Lean(s, E, TRUE), NEW source
  PROVE  Leaner(Export(s, source).s, E)
<1>1. \A t, r : Accept(t, r).s = t
  BY DEF Accept
<1> DEFINE live == {m \in DOMAIN s.arena.entries : s.arena.entries[m] = source}
           next == s.arena.serial + 1
           more == [s EXCEPT !.arena.entries = Learn(@, next, source), !.arena.serial = next]
<1>2. Lean(more, E \cup {next}, FALSE)
  <2>1. DOMAIN Learn(s.arena.entries, next, source) = DOMAIN s.arena.entries \cup {next}
    BY DEF Learn
  <2>2. /\ DOMAIN more = Fields /\ DOMAIN more.arena = ArenaFields
        /\ more.arena.entries = Learn(s.arena.entries, next, source)
        /\ more.current = s.current /\ more.last = s.last
    BY DEF Lean, Fields, ArenaFields
  <2> HIDE DEF more, next
  <2>3. QED
    BY <2>1, <2>2 DEF Lean, Active
<1>3. Export(s, source) =
        IF live # {} THEN Accept(s, Wire(s.arena.epoch, "source", CHOOSE m \in live : TRUE))
        ELSE IF s.arena.serial = MaxPayload THEN Refuse(s, "capacity")
        ELSE Accept(more, Wire(s.arena.epoch, "source", next))
  BY DEF Export
<1> HIDE DEF live, next, more
<1>4. Lean(Refuse(s, "capacity").s, E, TRUE)
  BY ReportIsLean
<1>5. Leaner(s, E) /\ Leaner(Refuse(s, "capacity").s, E) /\ Leaner(more, E)
  BY <1>2, <1>4, LeanIsLeaner DEF Leaner
<1>6. QED
  BY <1>1, <1>3, <1>5

\* A release that succeeds releases a source that was exported.
LEMMA ReleaseIsLean ==
  ASSUME NEW s, NEW E, Lean(s, E, FALSE), NEW handle
  PROVE  LET released == SourceRelease(s, handle)
         IN  \/ released.r = Zero /\ Lean(released.s, E, FALSE)
             \/ \E n \in E : Lean(released.s, E \ {n}, FALSE)
<1> DEFINE h == HandleToken(s, handle)
<1>1. Lean(h.s, E, FALSE)
  BY TokenIsLean
<1>2. h.failure = None => handle.payload \in DOMAIN h.s.arena.entries
  BY DEF HandleToken, Held, None
<1>3. SourceRelease(s, handle) = Released(h, handle)
  BY DEF SourceRelease
<1> HIDE DEF h
<1>4. CASE h.failure # None
  <2>1. SourceRelease(s, handle) = [s |-> h.s, r |-> Zero]
    BY <1>3, <1>4 DEF Released, Accept
  <2>2. SourceRelease(s, handle).s = h.s /\ SourceRelease(s, handle).r = Zero
    BY <2>1
  <2>3. QED
    BY <1>1, <2>2
<1>5. CASE h.failure = None
  <2> DEFINE less == [h.s EXCEPT !.arena.entries = Forget(@, handle.payload)]
  <2>1. SourceRelease(s, handle).s = less
    BY <1>3, <1>5 DEF Released, Accept
  <2>2. DOMAIN Forget(h.s.arena.entries, handle.payload) = DOMAIN h.s.arena.entries \ {handle.payload}
    BY DEF Forget
  <2>3. /\ DOMAIN less = Fields /\ DOMAIN less.arena = ArenaFields
        /\ less.arena.entries = Forget(h.s.arena.entries, handle.payload)
        /\ less.current = h.s.current /\ less.last = h.s.last
    BY <1>1 DEF Lean, Fields, ArenaFields
  <2> HIDE DEF less
  <2>4. Lean(less, E \ {handle.payload}, FALSE)
    BY <1>1, <2>2, <2>3 DEF Lean, Active
  <2>5. handle.payload \in E
    BY <1>1, <1>2, <1>5 DEF Lean
  <2>6. QED
    BY <2>1, <2>4, <2>5
<1>6. QED
  BY <1>4, <1>5

----------------------------------------------------------------------------
\* The rows and the counters of a combat do not change its phase.
LEMMA RowsArePhased ==
  ASSUME NEW c, NEW phase, Phased(c, phase), NEW slot, NEW id, NEW kind, NEW to
  PROVE  /\ Phased(RowFor(c, slot, id, kind).c, phase)
         /\ Phased(StageRow(c, to).c, phase)
<1>1. ASSUME NEW d, Phased(d, phase), NEW i, NEW k
      PROVE  Phased(FindRow(d, slot, i, k).c, phase)
  <2> DEFINE found == RowsOf(d, slot, i, k)
             row == [player |-> slot, id |-> i, kind |-> k, plays |-> 0]
             lost == [d EXCEPT !.rowsLost = TRUE]
             more == [d EXCEPT !.rows = Append(@, row)]
  <2>1. Phased(lost, phase) /\ Phased(more, phase)
    BY <1>1 DEF Phased, CombatFields
  <2>2. FindRow(d, slot, i, k) =
          IF found # {} THEN [c |-> d, row |-> CHOOSE j \in found : TRUE]
          ELSE IF Len(d.rows) >= MaxRows THEN [c |-> lost, row |-> 0]
          ELSE [c |-> more, row |-> Len(d.rows) + 1]
    BY DEF FindRow
  <2> HIDE DEF found, lost, more
  <2>3. QED
    BY <1>1, <2>1, <2>2
<1>2. Phased([c EXCEPT !.rowsLost = TRUE], phase)
  BY DEF Phased, CombatFields
<1>3. ASSUME NEW d, Phased(d, phase), NEW at
      PROVE  Phased(UnknownRow(d, at).c, phase)
  <2> DEFINE found == RowsOf(d, at, "UNATTRIBUTED", "unknown")
             row == [player |-> at, id |-> "UNATTRIBUTED", kind |-> "unknown", plays |-> 0]
             lost == [d EXCEPT !.rowsLost = TRUE]
             more == [d EXCEPT !.rows = Append(@, row)]
  <2>1. Phased(lost, phase) /\ Phased(more, phase)
    BY <1>3 DEF Phased, CombatFields
  <2>2. UnknownRow(d, at) =
          IF found # {} THEN [c |-> d, row |-> CHOOSE j \in found : TRUE]
          ELSE IF Len(d.rows) >= MaxRows THEN [c |-> lost, row |-> 0]
          ELSE [c |-> more, row |-> Len(d.rows) + 1]
    BY DEF UnknownRow, FindRow
  <2> HIDE DEF found, lost, more
  <2>3. QED
    BY <1>3, <2>1, <2>2
<1>4. QED
  BY <1>1, <1>2, <1>3 DEF RowFor, StageRow

LEMMA StagesArePhased ==
  ASSUME NEW stage, DOMAIN stage = {"c", "failure"}, NEW phase, Phased(stage.c, phase), NEW to,
         NEW counter \in {"plays", "generatedPlays", "triggers", "turns", "potions"}
  PROVE  /\ DOMAIN Count(stage, counter) = {"c", "failure"} /\ Phased(Count(stage, counter).c, phase)
         /\ DOMAIN RowPlay(stage, to) = {"c", "failure"} /\ Phased(RowPlay(stage, to).c, phase)
<1>1. \A failure : /\ DOMAIN Fails(stage, failure) = {"c", "failure"}
                   /\ Fails(stage, failure).c = stage.c
  BY DEF Fails
<1>2. DOMAIN Count(stage, counter) = {"c", "failure"} /\ Phased(Count(stage, counter).c, phase)
  <2> DEFINE more == [stage.c EXCEPT ![counter] = @ + 1]
  <2>1. Phased(more, phase)
    BY DEF Phased, CombatFields
  <2>2. [stage EXCEPT !.c[counter] = @ + 1] = [stage EXCEPT !.c = more]
    OBVIOUS
  <2> HIDE DEF more
  <2>3. DOMAIN [stage EXCEPT !.c = more] = {"c", "failure"} /\ [stage EXCEPT !.c = more].c = more
    OBVIOUS
  <2>4. QED
    BY <1>1, <2>1, <2>2, <2>3 DEF Count
<1>3. ASSUME NEW found, Phased(found.c, phase)
      PROVE  DOMAIN Played(stage, found) = {"c", "failure"} /\ Phased(Played(stage, found).c, phase)
  <2> DEFINE more == [found.c EXCEPT !.rows[found.row].plays = @ + 1]
             booked == [stage EXCEPT !.c = more]
  <2>1. Phased(more, phase)
    BY <1>3 DEF Phased, CombatFields
  <2>2. Played(stage, found) =
          IF found.row = 0 THEN Fails(stage, "capacity")
          ELSE IF found.c.rows[found.row].plays = MaxCount THEN Fails(stage, "arithmetic")
          ELSE booked
    BY DEF Played
  <2> HIDE DEF more
  <2>3. DOMAIN booked = {"c", "failure"} /\ booked.c = more
    OBVIOUS
  <2> HIDE DEF booked
  <2>4. QED
    BY <1>1, <2>1, <2>2, <2>3
<1>4. Phased(StageRow(stage.c, to).c, phase)
  BY RowsArePhased
<1>5. QED
  BY <1>2, <1>3, <1>4 DEF RowPlay

LEMMA NamedIsLean ==
  ASSUME NEW s, NEW E, NEW a, Lean(s, E, a), NEW slot, NEW id, NEW kind
  PROVE  Lean(NamedSource(s, slot, id, kind).s, E, a)
<1>1. Phased(s.current, s.current)
  BY DEF Lean, Phased
<1>2. Phased(RowFor(s.current, slot, id, kind).c, s.current)
  BY <1>1, RowsArePhased
<1>3. Lean([s EXCEPT !.current = RowFor(s.current, slot, id, kind).c], E, a)
  BY <1>2, CombatIsLean
<1>4. QED
  BY <1>3 DEF NamedSource, Named

LEMMA CardSourceIsLean ==
  ASSUME NEW s, NEW E, NEW a, Lean(s, E, a),
         NEW instance, NEW id, NEW slot, NEW given,
         NEW generation \in {"unavailable", "ordinary", "recorded", "unclassified"}
  PROVE  Lean(CardSource(s, instance, id, slot, generation, given).s, E, a)
<1>1. Lean(NamedSource(s, slot, id, "card").s, E, a)
  BY NamedIsLean
<1>2. CASE generation = "unavailable"
  <2>1. Lean([s EXCEPT !.prov.generated = Forget(@, instance)], E, a)
    BY DEF Lean, Fields, Active
  <2>2. QED
    BY <1>1, <1>2, <2>1 DEF CardSource
<1>3. CASE generation = "ordinary"
  BY <1>1, <1>3, ReportIsLean DEF CardSource
<1>4. CASE generation \in {"recorded", "unclassified"}
  BY <1>1, <1>4 DEF CardSource
<1>5. QED
  BY <1>1, <1>2, <1>3, <1>4

LEMMA GeneratedIsLean ==
  ASSUME NEW s, NEW E, NEW a, Lean(s, E, a), NEW seq, NEW instance, NEW transfer
  PROVE  Lean(CardGenerated(s, seq, instance, transfer).s, E, a)
<1>1. ASSUME NEW t, Lean(t, E, a), NEW source
      PROVE  Lean(Remember(t, instance, source).s, E, a)
  <2>1. Lean([t EXCEPT !.prov.generated = Learn(@, instance, source)], E, a)
    BY <1>1 DEF Lean, Fields, Active
  <2>2. QED
    BY <1>1, <2>1, ReportIsLean DEF Remember, Accept
<1>2. ASSUME NEW given, Lean(given.s, E, a), NEW stage
      PROVE  Lean(GeneratedWith(given, stage, instance).s, E, a)
  <2>1. Phased(Booked(given.s.current, stage), given.s.current)
    BY <1>2 DEF Lean, Phased, CombatFields, Booked
  <2>2. Lean([given.s EXCEPT !.current = Booked(@, stage)], E, a)
    BY <1>2, <2>1, CombatIsLean
  <2>3. QED
    BY <1>1, <1>2, <2>2, ReportIsLean DEF GeneratedWith
<1>3. ASSUME NEW given, Lean(given.s, E, a)
      PROVE  Lean(GeneratedBy(given, instance).s, E, a)
  <2> DEFINE stage == Triggers(Stage(given.s), given.source)
  <2>1. GeneratedBy(given, instance) =
          IF given.failure # None THEN Refuse(given.s, given.failure)
          ELSE GeneratedWith(given, stage, instance)
    BY DEF GeneratedBy
  <2> HIDE DEF stage
  <2>2. QED
    BY <1>2, <1>3, <2>1, ReportIsLean
<1>4. ASSUME NEW e, Lean(e.s, E, a)
      PROVE  Lean(GeneratedIn(e, instance, transfer).s, E, a)
  <2>1. Lean([e.s EXCEPT !.prov.generated = Forget(@, instance)], E, a)
    BY <1>4 DEF Lean, Fields, Active
  <2>2. QED
    BY <1>3, <1>4, <2>1, ReportIsLean, SnapshotIsLean DEF GeneratedIn
<1>5. QED
  BY <1>4, EpochIsLean DEF CardGenerated

LEMMA StartedIsLean ==
  ASSUME NEW s, NEW E, NEW a, Lean(s, E, a), NEW seq, NEW execution, NEW instance, NEW id,
         NEW player, NEW transfer,
         NEW generation \in {"unavailable", "ordinary", "recorded", "unclassified"}
  PROVE  Lean(CardPlayStarted(s, seq, execution, instance, id, player, generation, transfer).s, E, a)
<1>1. ASSUME NEW t, Lean(t, E, a), NEW play, NEW source
      PROVE  Lean(Open(t, play, source).s, E, a)
  <2> DEFINE open == {q \in t.prov.plays : q.slot = play.slot}
             serial == t.prov.serial + 1
             more == [t EXCEPT !.prov.serial = serial,
                            !.prov.plays = @ \cup {[serial |-> serial, execution |-> play.execution,
                               slot |-> play.slot, source |-> source, orbUsed |-> FALSE]}]
  <2>1. Lean(more, E, a)
    BY <1>1 DEF Lean, Fields, Active
  <2>2. Open(t, play, source) =
          IF play.execution = 0 \/ play.instance = 0 \/ t.prov.serial = MaxPayload
             \/ Cardinality(open) = MaxOpen
          THEN Refuse(t, "capacity")
          ELSE Accept(more, Wire(t.prov.epoch, "play", serial))
    BY DEF Open
  <2> HIDE DEF open, serial, more
  <2>3. QED
    BY <1>1, <2>1, <2>2, ReportIsLean DEF Accept
<1>2. ASSUME NEW found, Lean(found.s, E, a), NEW stage, Phased(stage.c, found.s.current), NEW play
      PROVE  Lean(StartWith(found, stage, play).s, E, a)
  <2>1. Lean([found.s EXCEPT !.current = stage.c, !.died = SlotIndex(@, play.slot)], E, a)
    BY <1>2, CombatIsLean
  <2>2. QED
    BY <1>1, <1>2, <2>1, ReportIsLean DEF StartWith
<1>3. ASSUME NEW found, Lean(found.s, E, a), NEW play
      PROVE  Lean(StartFrom(found, play).s, E, a)
  <2> DEFINE phase == found.s.current
             played == Count(Stage(found.s), "plays")
             to == CHOOSE to \in found.source : TRUE
             stage == IF play.generation \in {"recorded", "unavailable"}
                      THEN Count(played, "generatedPlays") ELSE RowPlay(played, to)
  <2>1. DOMAIN Stage(found.s) = {"c", "failure"} /\ Phased(Stage(found.s).c, phase)
    BY <1>3 DEF Stage, Phased, Lean
  <2>2. DOMAIN played = {"c", "failure"} /\ Phased(played.c, phase)
    BY <2>1, StagesArePhased
  <2>3. StartFrom(found, play) = StartWith(found, stage, play)
    BY DEF StartFrom
  <2> HIDE DEF played, to
  <2>4. Phased(Count(played, "generatedPlays").c, phase)
    BY <2>2, StagesArePhased
  <2>5. Phased(RowPlay(played, to).c, phase)
    BY <2>2, StagesArePhased
  <2>6. Phased(stage.c, phase)
    BY <2>4, <2>5
  <2> HIDE DEF stage
  <2>7. QED
    BY <1>2, <1>3, <2>3, <2>6
<1>4. ASSUME NEW given, Lean(given.s, E, a), NEW play, play.generation = generation
      PROVE  Lean(StartBy(given, play).s, E, a)
  BY <1>3, <1>4, ReportIsLean, CardSourceIsLean DEF StartBy
<1>5. ASSUME NEW e, Lean(e.s, E, a)
      PROVE  Lean(StartIn(e, execution, instance, id, player, generation, transfer).s, E, a)
  BY <1>4, <1>5, ReportIsLean, SlottedIsLean, SnapshotIsLean DEF StartIn
<1>6. QED
  BY <1>5, EpochIsLean DEF CardPlayStarted

LEMMA FinishedIsLean ==
  ASSUME NEW s, NEW E, NEW a, Lean(s, E, a), NEW token, NEW seq, NEW execution
  PROVE  /\ Lean(CardPlayFinished(s, token).s, E, a)
         /\ Lean(CardExecutionEnded(s, seq, execution).s, E, a)
<1>1. ASSUME NEW t, Lean(t, E, a), NEW plays
      PROVE  Lean([t EXCEPT !.prov.plays = plays], E, a)
  BY <1>1 DEF Lean, Fields, Active
<1>2. ASSUME NEW e, Lean(e.s, E, a), NEW serial
      PROVE  Lean(FinishIn(e, serial).s, E, a)
  <2> DEFINE its == {q \in e.s.prov.plays : q.serial = serial}
  <2>1. \/ FinishIn(e, serial) = Refuse(e.s, e.failure)
        \/ FinishIn(e, serial) = Refuse(e.s, "source-handle")
        \/ FinishIn(e, serial) = Accept([e.s EXCEPT !.prov.plays = @ \ its], Number(1))
    BY DEF FinishIn
  <2>2. QED
    BY <1>1, <1>2, <2>1, ReportIsLean DEF Accept
<1>3. ASSUME NEW e, Lean(e.s, E, a)
      PROVE  Lean(EndIn(e, execution).s, E, a)
  <2>1. \/ EndIn(e, execution) = Refuse(e.s, e.failure)
        \/ EndIn(e, execution) = Refuse(e.s, "packet")
        \/ EndIn(e, execution) =
             Accept([e.s EXCEPT !.prov.plays = {q \in @ : q.execution # execution}], Number(1))
    BY DEF EndIn
  <2>2. Lean(Refuse(e.s, e.failure).s, E, a) /\ Lean(Refuse(e.s, "packet").s, E, a)
    BY <1>3, ReportIsLean
  <2>3. Lean(Accept([e.s EXCEPT !.prov.plays = {q \in @ : q.execution # execution}], Number(1)).s, E, a)
    BY <1>1, <1>3 DEF Accept
  <2>4. QED
    BY <2>1, <2>2, <2>3
<1>4. QED
  BY <1>2, <1>3, EpochIsLean, TokenIsLean DEF CardPlayFinished, CardExecutionEnded

LEMMA OrbIsLean ==
  ASSUME NEW s, NEW E, NEW a, Lean(s, E, a), NEW seq, NEW instance, NEW transfer, NEW token, NEW player
  PROVE  /\ Lean(OrbChanneled(s, seq, instance, transfer).s, E, a)
         /\ Lean(OrbContextBegin(s, seq, instance, token, player).s, E, a)
<1>1. ASSUME NEW given, Lean(given.s, E, a)
      PROVE  Lean(ChannelBy(given, instance).s, E, a)
  <2>1. Lean([given.s EXCEPT !.prov.orbs = Learn(@, instance, given.source)], E, a)
    BY <1>1 DEF Lean, Fields, Active
  <2>2. QED
    BY <1>1, <2>1, ReportIsLean DEF ChannelBy, Accept
<1>2. ASSUME NEW e, Lean(e.s, E, a)
      PROVE  Lean(ChannelIn(e, instance, transfer).s, E, a)
  <2>1. Lean([e.s EXCEPT !.prov.orbs = Forget(@, instance)], E, a)
    BY <1>2 DEF Lean, Fields, Active
  <2>2. QED
    BY <1>1, <1>2, <2>1, ReportIsLean, SnapshotIsLean DEF ChannelIn
<1>3. ASSUME NEW t, Lean(t.s, E, a), NEW its
      PROVE  Lean(ContextOf(t, its, instance).s, E, a)
  <2> DEFINE used == [t.s EXCEPT !.prov.plays =
                        (@ \ its) \cup {[q EXCEPT !.orbUsed = TRUE] : q \in its}]
  <2>1. Lean(used, E, a)
    BY <1>3 DEF Lean, Fields, Active
  <2>2. \/ ContextOf(t, its, instance) = Refuse(t.s, t.failure)
        \/ ContextOf(t, its, instance) = Refuse(t.s, "source-handle")
        \/ ContextOf(t, its, instance) = Accept(t.s, Number(2))
        \/ ContextOf(t, its, instance) = Accept(used, Channeler(t.s, instance))
    BY DEF ContextOf
  <2> HIDE DEF used
  <2>3. QED
    BY <1>3, <2>1, <2>2, ReportIsLean DEF Accept
<1>4. ASSUME NEW e, Lean(e.s, E, a)
      PROVE  Lean(ContextIn(e, instance, token, player).s, E, a)
  BY <1>3, <1>4, ReportIsLean, SlottedIsLean, TokenIsLean DEF ContextIn, ContextBy, Accept
<1>5. QED
  BY <1>2, <1>4, EpochIsLean DEF OrbChanneled, OrbContextBegin

LEMMA CaptureIsLeaner ==
  ASSUME NEW s, NEW E, Lean(s, E, FALSE), NEW seq, NEW kind, NEW instance, NEW id, NEW player,
         NEW generation \in {"unavailable", "ordinary", "recorded", "unclassified"}
  PROVE  Leaner(SourceCapture(s, seq, kind, instance, id, player, generation).s, E)
<1>1. ASSUME NEW at, Lean(at.s, E, TRUE)
      PROVE  Lean(Captured(at, kind, instance, id, generation).s, E, TRUE)
  <2>1. \/ Captured(at, kind, instance, id, generation)
             = CardSource(at.s, instance, id, at.slot, generation, {})
        \/ Captured(at, kind, instance, id, generation) = NamedSource(at.s, at.slot, id, kind)
        \/ Captured(at, kind, instance, id, generation).s = at.s
    BY DEF Captured
  <2>2. Lean(CardSource(at.s, instance, id, at.slot, generation, {}).s, E, TRUE)
    BY <1>1, CardSourceIsLean
  <2>3. Lean(NamedSource(at.s, at.slot, id, kind).s, E, TRUE)
    BY <1>1, NamedIsLean
  <2>4. QED
    BY <1>1, <2>1, <2>2, <2>3
<1>2. ASSUME NEW e, Lean(e.s, E, FALSE), e.failure = None => Lean(e.s, E, TRUE)
      PROVE  Leaner(CaptureIn(e, kind, instance, id, player, generation).s, E)
  <2> DEFINE found == Captured(Slotted(e.s, player), kind, instance, id, generation)
  <2>1. CaptureIn(e, kind, instance, id, player, generation)
          = IF e.failure # None THEN Accept(e.s, Zero) ELSE Export(found.s, found.source)
    BY DEF CaptureIn
  <2>2. e.failure = None => Lean(found.s, E, TRUE)
    BY <1>1, <1>2, SlottedIsLean
  <2> HIDE DEF found
  <2>3. Leaner(e.s, E)
    BY <1>2, LeanIsLeaner
  <2>4. e.failure = None => Leaner(Export(found.s, found.source).s, E)
    BY <2>2, ExportIsLeaner
  <2>5. Accept(e.s, Zero).s = e.s
    BY DEF Accept
  <2>6. QED
    BY <2>1, <2>3, <2>4, <2>5
<1>3. QED
  BY <1>2, EpochIsLean DEF SourceCapture

LEMMA AccumulateIsLeaner ==
  ASSUME NEW s, NEW E, Lean(s, E, FALSE),
         NEW seq, NEW first, NEW second, NEW before \in Int, NEW after \in Int
  PROVE  Leaner(SourceAccumulate(s, seq, first, before, second, after).s, E)
<1>1. ASSUME NEW t, Lean(t, E, FALSE), NEW failure, NEW r
      PROVE  Leaner(Refuse(t, failure).s, E) /\ Leaner(Accept(t, r).s, E)
  <2>1. Leaner(Refuse(t, failure).s, E)
    <3>1. Lean(Refuse(t, failure).s, E, FALSE)
      BY <1>1, ReportIsLean
    <3>2. QED
      BY <3>1, LeanIsLeaner
  <2>2. QED
    BY <1>1, <2>1, LeanIsLeaner DEF Accept
<1>2. \A t : Lean(t, E, TRUE) => Lean(t, E, FALSE)
  BY DEF Lean
<1>3. ASSUME NEW one, NEW two, Lean(two.s, E, TRUE)
      PROVE  Leaner(Mixed(one, two).s, E)
  BY <1>1, <1>2, <1>3, ExportIsLeaner DEF Mixed
<1>4. ASSUME NEW one, Lean(one.s, E, TRUE)
      PROVE  Leaner(MixedWith(one, second).s, E)
  BY <1>1, <1>2, <1>3, <1>4, SnapshotIsLean DEF MixedWith
<1>5. ASSUME NEW e, Lean(e.s, E, FALSE), e.failure = None => Lean(e.s, E, TRUE)
      PROVE  Leaner(AccumulateIn(e, first, before, second, after).s, E)
  <2>1. Leaner(Refuse(e.s, e.failure).s, E) /\ Leaner(Refuse(e.s, "packet").s, E)
    BY <1>1, <1>5
  <2>2. Leaner(Accept(e.s, first).s, E) /\ Leaner(Accept(e.s, second).s, E)
    BY <1>1, <1>5
  <2>3. e.failure = None => Leaner(MixedWith(SourceSnapshot(e.s, first), second).s, E)
    BY <1>4, <1>5, SnapshotIsLean
  <2>4. \/ e.failure # None
        \/ e.failure = None /\ after < before
        \/ e.failure = None /\ after >= before /\ before <= 0
        \/ e.failure = None /\ after = before /\ before > 0
        \/ e.failure = None /\ after > before /\ before > 0
    OBVIOUS
  <2>5. QED
    BY <2>1, <2>2, <2>3, <2>4 DEF AccumulateIn
<1>6. QED
  BY <1>5, EpochIsLean DEF SourceAccumulate

LEMMA CountersAreLean ==
  ASSUME NEW s, NEW E, NEW a, Lean(s, E, a), NEW seq, NEW counter \in {"turns", "potions"},
         NEW player, NEW op
  PROVE  /\ Lean(Counted(s, seq, counter).s, E, a)
         /\ Lean(PlayerDied(s, seq, player).s, E, a)
         /\ Lean(Ledgered(s, seq, op).s, E, a)
<1>1. ProvenanceEpoch(s, seq).s.current = s.current
  <2>1. SourceEpoch(s, seq).s.current = s.current /\ DOMAIN SourceEpoch(s, seq) = {"s", "failure"}
        /\ DOMAIN SourceEpoch(s, seq).s = Fields
    BY DEF SourceEpoch, Report, Lean, Fields
  <2>2. ASSUME NEW e, DOMAIN e = {"s", "failure"}, DOMAIN e.s = Fields
        PROVE  InProvenance(e, seq).s.current = e.s.current
    BY <2>2 DEF InProvenance, Fields
  <2>3. QED
    BY <2>1, <2>2 DEF ProvenanceEpoch
<1>2. ASSUME NEW e, Lean(e.s, E, a), NEW stage, Phased(stage.c, e.s.current)
      PROVE  Lean(CountIn(e, stage).s, E, a)
  <2>1. Lean([e.s EXCEPT !.current = stage.c], E, a)
    BY <1>2, CombatIsLean
  <2>2. \/ CountIn(e, stage) = Refuse(e.s, e.failure)
        \/ CountIn(e, stage) = Refuse(e.s, stage.failure)
        \/ CountIn(e, stage) = Accept([e.s EXCEPT !.current = stage.c], Number(1))
    BY DEF CountIn
  <2>3. QED
    BY <1>2, <2>1, <2>2, ReportIsLean DEF Accept
<1>3. Phased(Count(Stage(s), counter).c, s.current)
  <2>1. DOMAIN Stage(s) = {"c", "failure"} /\ Phased(Stage(s).c, s.current)
    BY DEF Stage, Phased, Lean
  <2>2. QED
    BY <2>1, StagesArePhased
<1>4. ASSUME NEW e, Lean(e.s, E, a), NEW at, Lean(at.s, E, a)
      PROVE  Lean(DeathOf(e, at).s, E, a)
  <2>1. Lean([at.s EXCEPT !.died = [SlotIndex(@, at.slot) EXCEPT ![at.slot + 1] = TRUE]], E, a)
    BY <1>4 DEF Lean, Fields, Active
  <2>2. QED
    BY <1>4, <2>1, ReportIsLean DEF DeathOf, Accept
<1>5. ASSUME NEW e, Lean(e.s, E, a)
      PROVE  Lean(LedgerIn(e, seq, op).s, E, a)
  <2>1. Lean([e.s EXCEPT !.prov.others = Append(@, op)], E, a)
    BY <1>5 DEF Lean, Fields, Active
  <2>2. \/ LedgerIn(e, seq, op) = Refuse(e.s, e.failure)
        \/ LedgerIn(e, seq, op) = Refuse(e.s, "capacity")
        \/ LedgerIn(e, seq, op).s = [e.s EXCEPT !.prov.others = Append(@, op)]
    BY DEF LedgerIn, Accept
  <2>3. QED
    BY <1>5, <2>1, <2>2, ReportIsLean
<1>6. QED
  BY <1>1, <1>2, <1>3, <1>4, <1>5, EpochIsLean, SlottedIsLean
     DEF Counted, PlayerDied, DiedIn, Ledgered

LEMMA CombatsAreLean ==
  ASSUME NEW s, NEW E, Lean(s, E, FALSE), NEW seq
  PROVE  /\ Lean(Discarded(s), E, FALSE)
         /\ Lean(CombatEnded(s, seq).s, E, FALSE)
<1>1. DOMAIN NoEntries = {}
  BY DEF NoEntries
<1>2. Lean(Discarded(s), E, FALSE)
  BY <1>1 DEF Discarded, Lean, Fields, ArenaFields, CombatFields, NoArena, NoCombat, Active
<1>3. ASSUME NEW e, Lean(e.s, E, FALSE)
      PROVE  Lean(EndCombatIn(e).s, E, FALSE)
  <2> DEFINE ended == [e.s EXCEPT !.current.phase = Phase(e.s), !.prov = NoProvenance,
                                  !.arena.entries = NoEntries]
  <2>1. Lean(ended, E, FALSE)
    BY <1>1, <1>3 DEF Lean, Fields, ArenaFields, CombatFields, Active
  <2> HIDE DEF ended
  <2>2. EndCombatIn(e) = IF e.failure # None THEN Accept(e.s, Zero) ELSE Accept(ended, Number(1))
    BY DEF EndCombatIn, ended
  <2>3. EndCombatIn(e).s \in {e.s, ended}
    BY <2>2 DEF Accept
  <2>4. QED
    BY <1>3, <2>1, <2>3
<1>4. QED
  BY <1>2, <1>3, EpochIsLean DEF CombatEnded

\* A combat that starts: the state that is refused, or the one that is begun, whatever
\* the combat before it has left.
StartedPlayers(count) == IF count < 0 THEN 0 ELSE IF count > Team THEN Team ELSE count
StartedCombat(seq, count) ==
  [NoCombat EXCEPT !.seq = seq, !.phase = "active", !.players = StartedPlayers(count)]

Begun(t, seq, count) ==
  /\ DOMAIN t = Fields
  /\ t.current = StartedCombat(seq, count) /\ t.arena = NoArena /\ t.prov = NoProvenance
  /\ t.died = [i \in 1..StartedPlayers(count) |-> FALSE] /\ t.last = seq /\ t.poisoned = FALSE
  /\ t.coverage = IF count = StartedPlayers(count) THEN [complete |-> TRUE, reasons |-> {}]
                  ELSE [complete |-> FALSE, reasons |-> WithReason({}, "player-count")]

LEMMA StartBegins ==
  ASSUME NEW s, DOMAIN s = Fields, NEW seq, NEW count
  PROVE  LET started == CombatStarted(s, seq, count)
         IN  IF seq = 0 \/ seq <= s.last \/ (s.current # NoCombat /\ s.current.seq >= seq)
             THEN started.s = Failed(s, "combat-epoch") /\ started.r = Zero
             ELSE Begun(started.s, seq, count) /\ started.r = Number(seq)
<1> DEFINE refused == seq = 0 \/ seq <= s.last \/ (s.current # NoCombat /\ s.current.seq >= seq)
           players == StartedPlayers(count)
           combat == StartedCombat(seq, count)
           died == [i \in 1..players |-> FALSE]
           started == [Discarded(s) EXCEPT !.last = seq, !.poisoned = FALSE, !.current = combat,
                         !.coverage = [complete |-> TRUE, reasons |-> {}],
                         !.died = died, !.revision = @ + 1]
           result == CombatStarted(s, seq, count)
<1>1. result = IF refused THEN Accept(Failed(s, "combat-epoch"), Zero)
               ELSE Accept(IF count = players THEN started ELSE Failed(started, "player-count"),
                           Number(seq))
  BY DEF CombatStarted, StartedPlayers, StartedCombat
<1>2. \A t, r : Accept(t, r).s = t /\ Accept(t, r).r = r
  BY DEF Accept
<1> HIDE DEF combat, players, died
<1>3. /\ DOMAIN started = Fields /\ started.current = combat /\ started.arena = NoArena
      /\ started.prov = NoProvenance /\ started.died = died /\ started.last = seq
      /\ started.poisoned = FALSE /\ started.coverage = [complete |-> TRUE, reasons |-> {}]
  BY DEF Discarded, Fields
<1> HIDE DEF started
<1>4. LET failed == Failed(started, "player-count")
      IN  /\ DOMAIN failed = Fields /\ failed.current = combat /\ failed.arena = NoArena
          /\ failed.prov = NoProvenance /\ failed.died = died /\ failed.last = seq
          /\ failed.poisoned = FALSE
          /\ failed.coverage = [complete |-> FALSE, reasons |-> WithReason({}, "player-count")]
  BY <1>3 DEF Failed, Fields
<1>5. count = players => Begun(started, seq, count)
  BY <1>3 DEF Begun, combat, players, died
<1>6. count # players => Begun(Failed(started, "player-count"), seq, count)
  BY <1>4 DEF Begun, combat, players, died
<1> HIDE DEF result
<1>7. IF refused THEN result.s = Failed(s, "combat-epoch") /\ result.r = Zero
      ELSE Begun(result.s, seq, count) /\ result.r = Number(seq)
  BY <1>1, <1>2, <1>5, <1>6
<1>8. QED
  BY <1>7 DEF result

LEMMA StartIsLean ==
  ASSUME NEW s, NEW E, Lean(s, E, FALSE), NEW seq \in Nat, NEW count
  PROVE  Lean(CombatStarted(s, seq, count).s, E, FALSE)
<1> DEFINE u == CombatStarted(s, seq, count).s
<1>1. u = Failed(s, "combat-epoch") \/ Begun(u, seq, count)
  BY StartBegins DEF Lean
<1>2. Lean(Failed(s, "combat-epoch"), E, FALSE)
  BY ReportIsLean
<1> HIDE DEF u
<1>3. ASSUME Begun(u, seq, count)
      PROVE  Lean(u, E, FALSE)
  <2>1. /\ DOMAIN StartedCombat(seq, count) = CombatFields
        /\ StartedCombat(seq, count).phase = "active" /\ StartedCombat(seq, count).seq = seq
    BY DEF StartedCombat, NoCombat, CombatFields
  <2>2. DOMAIN NoArena = ArenaFields /\ NoArena.entries = NoEntries /\ DOMAIN NoEntries = {}
    BY DEF NoArena, ArenaFields, NoEntries
  <2>3. seq \in 0..seq
    OBVIOUS
  <2>4. QED
    BY <1>3, <2>1, <2>2, <2>3 DEF Begun, Lean, Active
<1>4. QED
  BY <1>1, <1>2, <1>3 DEF u

LEMMA StartedIsNumbered ==
  ASSUME NEW call \in AllCalls, call.op = "combat_started"
  PROVE  call.seq \in Nat
<1>1. call \in CombatCalls
  BY DEF AllCalls, ReleaseCalls, CaptureCalls, PowerCalls, CardCalls, OrbCalls, DamageCalls,
         SettlingCalls, BlockCalls, DoomCalls, CombatCalls, AccumulateCalls, WeakCalls,
         FailureCalls, DiscardCalls
<1>2. QED
  BY <1>1 DEF CombatCalls, Seqs

\* A call that releases nothing exports at most one source.
LEMMA ApplyIsLeaner ==
  ASSUME NEW s, NEW E, Lean(s, E, FALSE), NEW call \in AllCalls, call.op # "source_release"
  PROVE  Leaner(Apply(s, call).s, E)
<1>1. \A t, r : Accept(t, r).s = t
  BY DEF Accept
<1>2. CASE call.op = "source_capture"
  <2>1. Apply(s, call) = SourceCapture(s, call.seq, call.id, 1, call.id, 0, "unclassified")
    BY <1>2, Dispatched DEF ApplySource, SourceOps
  <2>2. QED
    BY <2>1, CaptureIsLeaner
<1>3. CASE call.op = "source_accumulate"
  <2>1. Apply(s, call) =
          SourceAccumulate(s, call.seq, call.first, call.before, call.second, call.after)
    BY <1>3, Dispatched DEF ApplySource, SourceOps
  <2>2. call \in AccumulateCalls
    BY <1>3 DEF AllCalls, ReleaseCalls, CaptureCalls, PowerCalls, CardCalls, OrbCalls, DamageCalls,
                SettlingCalls, BlockCalls, DoomCalls, CombatCalls, AccumulateCalls, WeakCalls,
                FailureCalls, DiscardCalls
  <2>3. call.before \in Int /\ call.after \in Int
    BY <2>2 DEF AccumulateCalls
  <2>4. QED
    BY <2>1, <2>3, AccumulateIsLeaner
<1>4. CASE call.op \in PlayOps
  <2>1. CASE call.op = "card_generated"
    <3>1. Apply(s, call) = CardGenerated(s, call.seq, 1, call.source)
      BY <2>1, Dispatched DEF ApplyPlay, PlayOps
    <3>2. Lean(CardGenerated(s, call.seq, 1, call.source).s, E, FALSE)
      BY GeneratedIsLean
    <3>3. QED
      BY <3>1, <3>2, LeanIsLeaner
  <2>2. CASE call.op = "card_play_started"
    <3>1. Apply(s, call) = CardPlayStarted(s, call.seq, 1, 1, "CARD", 0, call.generation, call.source)
      BY <2>2, Dispatched DEF ApplyPlay, PlayOps
    <3>2. call \in CardCalls
      BY <2>2 DEF AllCalls, ReleaseCalls, CaptureCalls, PowerCalls, CardCalls, OrbCalls, DamageCalls,
                  SettlingCalls, BlockCalls, DoomCalls, CombatCalls, AccumulateCalls, WeakCalls,
                  FailureCalls, DiscardCalls
    <3>3. call.generation \in {"unavailable", "ordinary", "recorded", "unclassified"}
      BY <2>2, <3>2 DEF CardCalls
    <3>4. Lean(CardPlayStarted(s, call.seq, 1, 1, "CARD", 0, call.generation, call.source).s, E, FALSE)
      BY <3>3, StartedIsLean
    <3>5. QED
      BY <3>1, <3>4, LeanIsLeaner
  <2>3. CASE call.op \in {"card_play_finished", "card_execution_ended"}
    <3>1. \/ Apply(s, call) = CardPlayFinished(s, call.play)
          \/ Apply(s, call) = CardExecutionEnded(s, call.seq, 1)
      BY <2>3, Dispatched DEF ApplyPlay, PlayOps
    <3>2. Lean(CardPlayFinished(s, call.play).s, E, FALSE)
      BY FinishedIsLean
    <3>3. Lean(CardExecutionEnded(s, call.seq, 1).s, E, FALSE)
      BY FinishedIsLean
    <3>4. QED
      BY <3>1, <3>2, <3>3, LeanIsLeaner
  <2>4. CASE call.op = "orb_channeled"
    <3>1. Apply(s, call) = OrbChanneled(s, call.seq, 1, call.source)
      BY <2>4, Dispatched DEF ApplyPlay, PlayOps
    <3>2. Lean(OrbChanneled(s, call.seq, 1, call.source).s, E, FALSE)
      BY OrbIsLean
    <3>3. QED
      BY <3>1, <3>2, LeanIsLeaner
  <2>5. CASE call.op = "orb_context_begin"
    <3>1. Apply(s, call) = OrbContextBegin(s, call.seq, 1, call.play, 0)
      BY <2>5, Dispatched DEF ApplyPlay, PlayOps
    <3>2. Lean(OrbContextBegin(s, call.seq, 1, call.play, 0).s, E, FALSE)
      BY OrbIsLean
    <3>3. QED
      BY <3>1, <3>2, LeanIsLeaner
  <2>6. QED
    BY <1>4, <2>1, <2>2, <2>3, <2>4, <2>5 DEF PlayOps
<1>5. CASE call.op \in CombatOps
  <2>1. \/ call.op = "combat_started" /\ Apply(s, call) = CombatStarted(s, call.seq, call.players)
        \/ Apply(s, call) = CombatEnded(s, call.seq)
        \/ Apply(s, call) = Counted(s, call.seq, "turns")
        \/ Apply(s, call) = Counted(s, call.seq, "potions")
        \/ Apply(s, call) = PlayerDied(s, call.seq, call.player)
    BY <1>5, Dispatched DEF ApplyCombat, CombatOps
  <2>2. call.op = "combat_started" => Lean(CombatStarted(s, call.seq, call.players).s, E, FALSE)
    BY StartedIsNumbered, StartIsLean
  <2>3. Lean(CombatEnded(s, call.seq).s, E, FALSE)
    BY CombatsAreLean
  <2>4. Lean(Counted(s, call.seq, "turns").s, E, FALSE)
    BY CountersAreLean
  <2>5. Lean(Counted(s, call.seq, "potions").s, E, FALSE)
    BY CountersAreLean
  <2>6. Lean(PlayerDied(s, call.seq, call.player).s, E, FALSE)
    BY CountersAreLean
  <2>7. Lean(Apply(s, call).s, E, FALSE)
    BY <2>1, <2>2, <2>3, <2>4, <2>5, <2>6
  <2>8. QED
    BY <2>7, LeanIsLeaner
<1>6. CASE call.op \in HostOps
  <2>1. \/ Apply(s, call) = WeakPrevention(s, call.valid, 1)
        \/ Apply(s, call) = Accept(Failed(s, call.reason), Zero)
        \/ Apply(s, call) = Accept(Discarded(s), Zero)
    BY <1>6, Dispatched DEF ApplyHost, HostOps
  <2>2. \A reason : Lean(Failed(s, reason), E, FALSE)
    BY ReportIsLean
  <2>3. Lean(WeakPrevention(s, call.valid, 1).s, E, FALSE)
    BY <2>2 DEF WeakPrevention, Accept
  <2>4. Lean(Discarded(s), E, FALSE)
    BY CombatsAreLean
  <2>5. Lean(Apply(s, call).s, E, FALSE)
    <3>1. CASE Apply(s, call) = WeakPrevention(s, call.valid, 1)
      BY <2>3, <3>1
    <3>2. CASE Apply(s, call) = Accept(Failed(s, call.reason), Zero)
      <4>1. Apply(s, call).s = Failed(s, call.reason)
        BY <1>1, <3>2
      <4>2. QED
        BY <2>2, <4>1
    <3>3. CASE Apply(s, call) = Accept(Discarded(s), Zero)
      <4>1. Apply(s, call).s = Discarded(s)
        BY <1>1, <3>3
      <4>2. QED
        BY <2>4, <4>1
    <3>4. QED
      BY <2>1, <3>1, <3>2, <3>3
  <2>6. QED
    BY <2>5, LeanIsLeaner
<1>7. CASE call.op \notin UNION {SourceOps, PlayOps, CombatOps, HostOps}
  <2>1. Apply(s, call) = Ledgered(s, call.seq, call.op)
    BY <1>7, Dispatched
  <2>2. Lean(Ledgered(s, call.seq, call.op).s, E, FALSE)
    BY CountersAreLean
  <2>3. QED
    BY <2>1, <2>2, LeanIsLeaner
<1>8. QED
  BY <1>2, <1>3, <1>4, <1>5, <1>6, <1>7 DEF SourceOps

----------------------------------------------------------------------------
\* The sources that are exported, and how many they are.
Handed(s)   == DOMAIN s.arena.entries
Supplied(s) == Lean(s, Handed(s), FALSE) /\ IsFiniteSet(Handed(s))

LEMMA LeanCounts ==
  ASSUME NEW u, NEW E, NEW a, Lean(u, E, a), IsFiniteSet(E)
  PROVE  /\ Supplied(u) /\ Cardinality(Handed(u)) \in Nat
         /\ Cardinality(Handed(u)) <= Cardinality(E)
<1>1. Handed(u) \subseteq E /\ Lean(u, Handed(u), FALSE)
  BY DEF Lean, Handed
<1>2. QED
  BY <1>1, FS_Subset, FS_CardinalityType DEF Supplied

LEMMA LeanerCounts ==
  ASSUME NEW u, NEW E, Leaner(u, E), IsFiniteSet(E)
  PROVE  /\ Supplied(u) /\ Cardinality(Handed(u)) \in Nat
         /\ Cardinality(Handed(u)) <= Cardinality(E) + 1
<1>1. PICK n : Lean(u, E \cup {n}, FALSE)
  BY DEF Leaner
<1>2. /\ IsFiniteSet(E \cup {n}) /\ Cardinality(E) \in Nat
      /\ Cardinality(E \cup {n}) \in {Cardinality(E), Cardinality(E) + 1}
  BY FS_AddElement, FS_CardinalityType
<1>3. /\ Supplied(u) /\ Cardinality(Handed(u)) \in Nat
      /\ Cardinality(Handed(u)) <= Cardinality(E \cup {n})
  BY <1>1, <1>2, LeanCounts
<1>4. QED
  BY <1>2, <1>3

\* What a call that returned r may do to the number of the sources, h before it and k
\* after it.
Moves(call, r, h, k) ==
  IF call.op = "source_release" THEN r = Zero \/ k < h ELSE k <= h + 1

LEMMA ApplySupplies ==
  ASSUME NEW s, Supplied(s), NEW call \in AllCalls
  PROVE  LET u == Apply(s, call)
         IN  /\ Supplied(u.s)
             /\ Cardinality(Handed(s)) \in Nat /\ Cardinality(Handed(u.s)) \in Nat
             /\ Moves(call, u.r, Cardinality(Handed(s)), Cardinality(Handed(u.s)))
<1> DEFINE E == Handed(s)
<1>1. Lean(s, E, FALSE) /\ IsFiniteSet(E) /\ Cardinality(E) \in Nat
  BY FS_CardinalityType DEF Supplied
<1> HIDE DEF E
<1>2. CASE call.op # "source_release"
  <2>1. Leaner(Apply(s, call).s, E)
    BY <1>1, <1>2, ApplyIsLeaner
  <2>2. QED
    BY <1>1, <1>2, <2>1, LeanerCounts DEF Moves, E
<1>3. CASE call.op = "source_release"
  <2> DEFINE u == SourceRelease(s, call.handle)
  <2>1. Apply(s, call) = u
    BY <1>3, Dispatched DEF ApplySource, SourceOps
  <2>2. \/ u.r = Zero /\ Lean(u.s, E, FALSE)
        \/ \E n \in E : Lean(u.s, E \ {n}, FALSE)
    BY <1>1, ReleaseIsLean
  <2> HIDE DEF u
  <2>3. CASE u.r = Zero /\ Lean(u.s, E, FALSE)
    BY <1>1, <1>3, <2>1, <2>3, LeanCounts DEF Moves, E
  <2>4. ASSUME NEW n \in E, Lean(u.s, E \ {n}, FALSE)
        PROVE  /\ Supplied(u.s) /\ Cardinality(Handed(u.s)) \in Nat
               /\ Cardinality(Handed(u.s)) < Cardinality(E)
    <3>1. IsFiniteSet(E \ {n}) /\ Cardinality(E \ {n}) = Cardinality(E) - 1
      BY <1>1, <2>4, FS_RemoveElement
    <3>2. /\ Supplied(u.s) /\ Cardinality(Handed(u.s)) \in Nat
          /\ Cardinality(Handed(u.s)) <= Cardinality(E \ {n})
      BY <2>4, <3>1, LeanCounts
    <3>3. QED
      BY <1>1, <3>1, <3>2
  <2>5. QED
    BY <1>1, <1>3, <2>1, <2>2, <2>3, <2>4 DEF Moves, E
<1>4. QED
  BY <1>2, <1>3

LEMMA FreshIsSupplied == Supplied(Fresh) /\ Cardinality(Handed(Fresh)) = 0
<1>1. Lean(Fresh, {}, FALSE)
  BY FreshIsLean
<1>2. Handed(Fresh) = {}
  BY <1>1 DEF Lean, Handed
<1>3. QED
  BY <1>1, <1>2, FS_EmptySet DEF Supplied

\* A replay ends in a State that is supplied like any other.
LEMMA ToldIsSupplied ==
  ASSUME NEW observations, Entries(observations)
  PROVE  Supplied(Told(observations).s)
<1> DEFINE N == Len(observations)
<1>1. PICK f : ToldBy(f, observations, N) /\ Told(observations) = f[N]
  <2> DEFINE told == CHOOSE f : ToldBy(f, observations, N)
  <2>1. ToldBy(told, observations, N)
    BY ToldExists DEF Entries
  <2>2. Told(observations) = told[N]
    BY DEF Told, ToldBy
  <2>3. QED
    BY <2>1, <2>2
<1> DEFINE T == {i \in Nat : i \in 0..N => Supplied(f[i].s)}
<1>2. 0 \in T
  <2>1. f[0].s = Fresh
    BY <1>1 DEF ToldBy, Entries
  <2>2. QED
    BY <2>1, FreshIsSupplied
<1>3. ASSUME NEW i \in Nat, i \in T
      PROVE  i + 1 \in T
  <2>1. SUFFICES ASSUME i + 1 \in 0..N PROVE Supplied(f[i + 1].s)
    OBVIOUS
  <2>2. i \in 0..N /\ i + 1 \in 1..Len(observations)
    BY <2>1 DEF Entries
  <2>3. Supplied(f[i].s)
    BY <1>3, <2>2
  <2>4. f[i + 1].s = Apply(f[i].s, observations[i + 1].call).s
    <3>1. f[i + 1] = ToldMore(f[(i + 1) - 1], observations, i + 1)
      BY <1>1, <2>2, ToldStep DEF Entries
    <3>2. (i + 1) - 1 = i
      OBVIOUS
    <3>3. QED
      BY <3>1, <3>2 DEF ToldMore, Tell
  <2>5. observations[i + 1].call \in AllCalls
    BY <2>2 DEF Entries
  <2>6. Supplied(Apply(f[i].s, observations[i + 1].call).s)
    BY <2>3, <2>5, ApplySupplies
  <2>7. QED
    BY <2>4, <2>6
<1> HIDE DEF T
<1>4. N \in T /\ N \in 0..N
  BY <1>2, <1>3, AllNumbers DEF Entries
<1>5. QED
  BY <1>1, <1>4 DEF T

----------------------------------------------------------------------------
\* A release that released nothing is in the recording.
Wasted(observations) ==
  \E entry \in Range(observations) : IsRelease(entry) /\ entry.r = Zero

\* The budgets of a recording, when h sources are exported.
Spent(observations, h) ==
  Wasted(observations) \/ Cardinality(Releases(observations)) + h <= Cardinality(Gameplay(observations))

Ended(recording) ==
  \/ recording.panicked
  \/ Cardinality(Gameplay(recording.observations)) = MaxObservations
  \/ Wasted(recording.observations)

Budgeted(recording, h) ==
  recording.on =>
    /\ Cardinality(Gameplay(recording.observations)) <= MaxObservations
    /\ ~recording.truncated => Spent(recording.observations, h)
    /\ recording.truncated => Ended(recording)

LEMMA BudgetsAreNumbers ==
  ASSUME NEW observations, Recorded(observations)
  PROVE  /\ IsFiniteSet(Releases(observations)) /\ IsFiniteSet(Gameplay(observations))
         /\ Cardinality(Releases(observations)) \in Nat
         /\ Cardinality(Gameplay(observations)) \in Nat
<1>1. PICK R : observations \in Seq(R)
  BY DEF Recorded
<1>2. IsFiniteSet(DOMAIN observations)
  <2>1. Len(observations) \in Nat /\ DOMAIN observations = 1..Len(observations)
    BY <1>1
  <2>2. QED
    BY <2>1, FS_Interval
<1>3. Releases(observations) \subseteq DOMAIN observations
      /\ Gameplay(observations) \subseteq DOMAIN observations
  BY DEF Releases, Gameplay
<1>4. QED
  BY <1>2, <1>3, FS_Subset, FS_CardinalityType

\* An entry more is counted in one of the two budgets.
LEMMA OneMore ==
  ASSUME NEW observations, Recorded(observations), NEW entry
  PROVE  LET longer == Append(observations, entry)
         IN  /\ IsRelease(entry) =>
                  /\ Cardinality(Releases(longer)) = Cardinality(Releases(observations)) + 1
                  /\ Cardinality(Gameplay(longer)) = Cardinality(Gameplay(observations))
             /\ ~IsRelease(entry) =>
                  /\ Cardinality(Releases(longer)) = Cardinality(Releases(observations))
                  /\ Cardinality(Gameplay(longer)) = Cardinality(Gameplay(observations)) + 1
             /\ Wasted(observations) \/ (IsRelease(entry) /\ entry.r = Zero) => Wasted(longer)
<1> DEFINE longer == Append(observations, entry)
           n == Len(observations) + 1
<1>1. PICK R : observations \in Seq(R)
  BY DEF Recorded
<1>2. /\ n \notin DOMAIN observations /\ DOMAIN longer = DOMAIN observations \cup {n}
      /\ \A i \in DOMAIN observations : longer[i] = observations[i]
      /\ longer[n] = entry
  BY <1>1
<1> HIDE DEF longer, n
<1>3. /\ n \notin Releases(observations) /\ n \notin Gameplay(observations)
      /\ IsFiniteSet(Releases(observations)) /\ IsFiniteSet(Gameplay(observations))
  BY <1>2, BudgetsAreNumbers DEF Releases, Gameplay
<1>4. IsRelease(entry) => /\ Releases(longer) = Releases(observations) \cup {n}
                          /\ Gameplay(longer) = Gameplay(observations)
  BY <1>2 DEF Releases, Gameplay
<1>5. ~IsRelease(entry) => /\ Releases(longer) = Releases(observations)
                           /\ Gameplay(longer) = Gameplay(observations) \cup {n}
  BY <1>2 DEF Releases, Gameplay
<1>6. Range(longer) = Range(observations) \cup {entry}
  BY <1>2 DEF Range
<1>7. Wasted(observations) \/ (IsRelease(entry) /\ entry.r = Zero) => Wasted(longer)
  BY <1>6 DEF Wasted
<1>8. \A S : IsFiniteSet(S) /\ n \notin S => Cardinality(S \cup {n}) = Cardinality(S) + 1
  BY FS_AddElement
<1>9. QED
  BY <1>3, <1>4, <1>5, <1>7, <1>8 DEF longer

LEMMA RecordIsBudgeted ==
  ASSUME NEW recording, IsRecording(recording), NEW h \in Nat, NEW k \in Nat, Budgeted(recording, h),
         NEW call, NEW r, Moves(call, r, h, k)
  PROVE  Budgeted(Record(recording, call, r), k)
<1>1. CASE recording = NoRecording
  BY <1>1 DEF Record, NoRecording, Budgeted
<1>2. CASE DOMAIN recording = RecordingFields /\ recording.on = TRUE /\ Recorded(recording.observations)
  <2> DEFINE entry == [call |-> call, r |-> r]
             observations == recording.observations
             longer == [recording EXCEPT !.observations = Append(@, entry)]
             ended == [recording EXCEPT !.truncated = TRUE]
             releases == Cardinality(Releases(observations))
             gameplay == Cardinality(Gameplay(observations))
  <2>1. releases \in Nat /\ gameplay \in Nat /\ gameplay <= MaxObservations
    BY <1>2, BudgetsAreNumbers DEF Budgeted
  <2>2. MaxObservations \in Nat /\ MaxReleases = MaxObservations
    BY BoundaryConstants
  <2>3. entry.r = r /\ (IsRelease(entry) <=> call.op = "source_release")
    BY DEF IsRelease
  <2>4. CASE recording.truncated
    <3>1. Record(recording, call, r) = recording
      BY <1>2, <2>4 DEF Record
    <3>2. QED
      BY <1>2, <2>4, <3>1 DEF Budgeted
  <2>5. CASE ~recording.truncated /\ Fits(observations, entry)
    <3>1. Record(recording, call, r) = longer
      BY <1>2, <2>5 DEF Record
    <3>2. /\ longer.observations = Append(observations, entry) /\ longer.on = TRUE
          /\ longer.truncated = recording.truncated
      BY <1>2 DEF RecordingFields
    <3> DEFINE more == Append(observations, entry)
    <3>3. /\ IsRelease(entry) =>
               Cardinality(Releases(more)) = releases + 1 /\ Cardinality(Gameplay(more)) = gameplay
          /\ ~IsRelease(entry) =>
               Cardinality(Releases(more)) = releases /\ Cardinality(Gameplay(more)) = gameplay + 1
          /\ Wasted(observations) \/ (IsRelease(entry) /\ entry.r = Zero) => Wasted(more)
      BY <1>2, OneMore
    <3>4. Wasted(observations) \/ releases + h <= gameplay
      BY <1>2, <2>5 DEF Budgeted, Spent
    <3>5. IF IsRelease(entry) THEN releases < MaxReleases ELSE gameplay < MaxObservations
      BY <2>5 DEF Fits
    <3> HIDE DEF entry, observations, longer, releases, gameplay, more
    <3>6. IF IsRelease(entry) THEN r = Zero \/ k < h ELSE k <= h + 1
      BY <2>3 DEF Moves
    <3>7. Cardinality(Gameplay(more)) <= MaxObservations
      BY <2>1, <2>2, <3>3, <3>5
    <3>8. Wasted(more) \/ Cardinality(Releases(more)) + k <= Cardinality(Gameplay(more))
      <4>1. CASE IsRelease(entry)
        BY <2>1, <2>3, <3>3, <3>4, <3>6, <4>1
      <4>2. CASE ~IsRelease(entry)
        BY <2>1, <3>3, <3>4, <3>6, <4>2
      <4>3. QED
        BY <4>1, <4>2
    <3>9. QED
      BY <2>5, <3>1, <3>2, <3>7, <3>8 DEF Budgeted, Spent, more
  <2>6. CASE ~recording.truncated /\ ~Fits(observations, entry)
    <3>1. Record(recording, call, r) = ended
      BY <1>2, <2>6 DEF Record
    <3>2. ended.observations = observations /\ ended.on = TRUE /\ ended.truncated = TRUE
      BY <1>2 DEF RecordingFields
    <3>3. Wasted(observations) \/ releases + h <= gameplay
      BY <1>2, <2>6 DEF Budgeted, Spent
    <3>4. IF IsRelease(entry) THEN ~(releases < MaxReleases) ELSE ~(gameplay < MaxObservations)
      BY <2>6 DEF Fits
    <3> HIDE DEF entry, observations, ended, releases, gameplay
    <3>5. Wasted(observations) \/ gameplay = MaxObservations
      BY <2>1, <2>2, <3>3, <3>4
    <3>6. QED
      BY <2>1, <3>1, <3>2, <3>5 DEF Budgeted, Ended, gameplay
  <2>7. QED
    BY <2>4, <2>5, <2>6
<1>3. QED
  BY <1>1, <1>2 DEF IsRecording

Earned(engine) ==
  Supplied(engine.state) /\ Budgeted(engine.recording, Cardinality(Handed(engine.state)))

LEMMA EnteredIsEarned ==
  ASSUME NEW engine, IsEngine(engine), Earned(engine)
  PROVE  LET e == Entered(engine)
         IN  /\ Supplied(e.state) /\ Handed(e.state) = Handed(engine.state)
             /\ e.recording = engine.recording /\ DOMAIN e = {"state", "recording"}
<1> DEFINE s == [engine.state EXCEPT !.revision = @ + 1]
<1>1. Entered(engine).state = s /\ Entered(engine).recording = engine.recording
      /\ DOMAIN Entered(engine) = {"state", "recording"}
  BY DEF Entered, IsEngine
<1>2. /\ s.arena = engine.state.arena /\ s.current = engine.state.current
      /\ s.last = engine.state.last /\ DOMAIN s = DOMAIN engine.state
  BY DEF Earned, Supplied, Lean, Fields
<1> HIDE DEF s
<1>3. QED
  BY <1>1, <1>2 DEF Earned, Supplied, Lean, Handed, Active

LEMMA CalledIsEarned ==
  ASSUME NEW engine, IsEngine(engine), Earned(engine), NEW call \in AllCalls
  PROVE  Earned(Called(Entered(engine), call))
<1> DEFINE s == Entered(engine).state
           u == Apply(s, call)
           recording == Record(engine.recording, call, u.r)
<1>1. Supplied(s) /\ Handed(s) = Handed(engine.state) /\ Entered(engine).recording = engine.recording
  BY EnteredIsEarned
<1>2. Called(Entered(engine), call) = [state |-> u.s, recording |-> recording]
  BY <1>1 DEF Called, Answered
<1> HIDE DEF s
<1>3. /\ Supplied(u.s)
      /\ Cardinality(Handed(s)) \in Nat /\ Cardinality(Handed(u.s)) \in Nat
      /\ Moves(call, u.r, Cardinality(Handed(s)), Cardinality(Handed(u.s)))
  BY <1>1, ApplySupplies
<1> HIDE DEF u
<1>4. IsRecording(engine.recording) /\ Budgeted(engine.recording, Cardinality(Handed(s)))
  BY <1>1 DEF IsEngine, Earned
<1>5. Budgeted(recording, Cardinality(Handed(u.s)))
  BY <1>3, <1>4, RecordIsBudgeted
<1> HIDE DEF recording
<1>6. QED
  BY <1>2, <1>3, <1>5 DEF Earned

LEMMA GuardedIsEarned ==
  ASSUME NEW engine, IsEngine(engine), Earned(engine),
         NEW s \in {Entered(engine).state} \cup {Apply(Entered(engine).state, call).s : call \in Calls}
  PROVE  Earned(Guarded([Entered(engine) EXCEPT !.state = s]))
<1> DEFINE e == Entered(engine).state
           poisoned == [s EXCEPT !.poisoned = TRUE]
           failed == Failed(poisoned, "native-panic")
           ended == [engine.recording EXCEPT !.truncated = TRUE, !.panicked = TRUE]
           recording == IF engine.recording.on THEN ended ELSE NoRecording
           after == Guarded([Entered(engine) EXCEPT !.state = s])
<1>1. /\ Supplied(e) /\ Entered(engine).recording = engine.recording
      /\ DOMAIN Entered(engine) = {"state", "recording"}
  BY EnteredIsEarned
<1>2. after = [state |-> failed, recording |-> recording]
  BY <1>1 DEF Guarded
<1> HIDE DEF e
<1>3. Supplied(s)
  <2>1. CASE s = e
    BY <1>1, <2>1
  <2>2. ASSUME NEW call \in Calls, s = Apply(e, call).s
        PROVE  Supplied(s)
    <3>1. call \in AllCalls
      BY CallsAreExports
    <3>2. Supplied(Apply(e, call).s)
      BY <1>1, <3>1, ApplySupplies
    <3>3. QED
      BY <2>2, <3>2
  <2>3. QED
    BY <2>1, <2>2 DEF e
<1>4. Lean(poisoned, Handed(s), FALSE) /\ IsFiniteSet(Handed(s))
  BY <1>3 DEF Supplied, Lean, Fields, Active
<1> HIDE DEF poisoned
<1>5. Lean(failed, Handed(s), FALSE)
  BY <1>4, ReportIsLean
<1> HIDE DEF failed
<1>6. Supplied(failed)
  BY <1>4, <1>5, LeanCounts
<1>7. Budgeted(recording, Cardinality(Handed(failed)))
  <2>1. CASE engine.recording = NoRecording
    BY <2>1 DEF NoRecording, Budgeted
  <2>2. CASE DOMAIN engine.recording = RecordingFields
    <3>1. /\ ended.observations = engine.recording.observations
          /\ ended.truncated = TRUE /\ ended.panicked = TRUE /\ ended.on = engine.recording.on
      BY <2>2 DEF RecordingFields
    <3> HIDE DEF ended
    <3>2. engine.recording.on =>
            Cardinality(Gameplay(engine.recording.observations)) <= MaxObservations
      BY DEF Earned, Budgeted
    <3>3. NoRecording.on = FALSE
      BY DEF NoRecording
    <3>4. QED
      BY <3>1, <3>2, <3>3 DEF Budgeted, Ended
  <2>3. QED
    BY <2>1, <2>2 DEF IsEngine, IsRecording
<1> HIDE DEF after, recording
<1>8. Earned(after)
  BY <1>2, <1>6, <1>7 DEF Earned
<1>9. QED
  BY <1>8 DEF after

LEMMA UncountedIsEarned ==
  ASSUME NEW engine, IsEngine(engine), Earned(engine)
  PROVE  Earned(Guarded(engine))
<1> DEFINE s == engine.state
           poisoned == [s EXCEPT !.poisoned = TRUE]
           failed == Failed(poisoned, "native-panic")
           ended == [engine.recording EXCEPT !.truncated = TRUE, !.panicked = TRUE]
           recording == IF engine.recording.on THEN ended ELSE NoRecording
<1>1. Guarded(engine) = [state |-> failed, recording |-> recording]
  BY DEF Guarded
<1>2. Supplied(s)
  BY DEF Earned
<1>3. Lean(poisoned, Handed(s), FALSE) /\ IsFiniteSet(Handed(s))
  BY <1>2 DEF Supplied, Lean, Fields, Active
<1> HIDE DEF poisoned
<1>4. Lean(failed, Handed(s), FALSE)
  BY <1>3, ReportIsLean
<1> HIDE DEF failed
<1>5. Supplied(failed)
  BY <1>3, <1>4, LeanCounts
<1>6. Budgeted(recording, Cardinality(Handed(failed)))
  <2>1. CASE engine.recording = NoRecording
    BY <2>1 DEF NoRecording, Budgeted
  <2>2. CASE DOMAIN engine.recording = RecordingFields
    <3>1. /\ ended.observations = engine.recording.observations
          /\ ended.truncated = TRUE /\ ended.panicked = TRUE /\ ended.on = engine.recording.on
      BY <2>2 DEF RecordingFields
    <3> HIDE DEF ended
    <3>2. engine.recording.on =>
            Cardinality(Gameplay(engine.recording.observations)) <= MaxObservations
      BY DEF Earned, Budgeted
    <3>3. NoRecording.on = FALSE
      BY DEF NoRecording
    <3>4. QED
      BY <3>1, <3>2, <3>3 DEF Budgeted, Ended
  <2>3. QED
    BY <2>1, <2>2 DEF IsEngine, IsRecording
<1> HIDE DEF recording
<1>7. QED
  BY <1>1, <1>5, <1>6 DEF Earned

LEMMA ReplayedIsEarned ==
  ASSUME NEW engine, IsEngine(engine), Earned(engine), NEW trace, IsRecording(trace)
  PROVE  Earned(Replayed(engine, trace))
<1>1. CASE Replayed(engine, trace) = engine
  BY <1>1
<1>2. CASE Replayed(engine, trace) # engine
  <2> DEFINE told == Told(trace.observations)
             published == [told.s EXCEPT !.revision = engine.state.revision + 1]
  <2>1. trace.on /\ Replayed(engine, trace) = [state |-> published, recording |-> NoRecording]
    BY <1>2 DEF Replayed, Readable, Published
  <2>2. PICK R : trace.observations \in Seq(R) /\ \A entry \in R : entry.call \in AllCalls
    BY <2>1 DEF IsRecording, NoRecording, Recorded
  <2>3. Entries(trace.observations)
    BY <2>2 DEF Entries
  <2>4. Supplied(told.s)
    BY <2>3, ToldIsSupplied
  <2> HIDE DEF told
  <2>5. Lean(published, Handed(told.s), FALSE) /\ IsFiniteSet(Handed(told.s))
    BY <2>4 DEF Supplied, Lean, Fields, Active
  <2>6. Supplied(published)
    BY <2>5, LeanCounts
  <2> HIDE DEF published
  <2>7. QED
    BY <2>1, <2>6 DEF Earned, Budgeted, NoRecording
<1>3. QED
  BY <1>1, <1>2

\* A recording begins when no source is exported.
LEMMA BegunIsEarned ==
  ASSUME NEW engine, IsEngine(engine), Earned(engine), ~Active(engine.state)
  PROVE  Earned([engine EXCEPT !.recording = NewRecording(engine.state)])
<1> DEFINE begun == NewRecording(engine.state)
<1>1. /\ [engine EXCEPT !.recording = begun].state = engine.state
      /\ [engine EXCEPT !.recording = begun].recording = begun
  BY DEF IsEngine
<1>2. begun.observations = << >> /\ begun.truncated = FALSE
  BY DEF NewRecording
<1> HIDE DEF begun
<1>3. Handed(engine.state) = {}
  BY DEF Earned, Supplied, Lean, Handed
<1>4. Releases(<< >>) = {} /\ Gameplay(<< >>) = {}
  BY DEF Releases, Gameplay
<1>5. Cardinality({}) = 0 /\ MaxObservations \in Nat
  BY FS_EmptySet, BoundaryConstants
<1>6. Budgeted(begun, 0)
  <2>1. /\ Cardinality(Releases(begun.observations)) = 0
        /\ Cardinality(Gameplay(begun.observations)) = 0
    BY <1>2, <1>4, <1>5
  <2>2. 0 <= MaxObservations /\ 0 + 0 <= 0
    BY <1>5
  <2>3. QED
    BY <1>2, <2>1, <2>2 DEF Budgeted, Spent
<1>7. QED
  BY <1>1, <1>3, <1>5, <1>6 DEF Earned, begun

\* What a step does to an engine that it leaves.
Steps(before, after) ==
  \/ after = before
  \/ \E call \in AllCalls : after = Called(Entered(before), call)
  \/ \E s \in {Entered(before).state} \cup {Apply(Entered(before).state, call).s : call \in Calls} :
       after = Guarded([Entered(before) EXCEPT !.state = s])
  \/ after = Guarded(before)
  \/ ~Active(before.state) /\ after = [before EXCEPT !.recording = NewRecording(before.state)]
  \/ \E trace : IsRecording(trace) /\ after = Replayed(before, trace)

Stepped ==
  \A t \in Threads : \A id \in DOMAIN engines'[t] :
    IF id \in DOMAIN engines[t] THEN Steps(engines[t][id], engines'[t][id])
    ELSE engines'[t][id] = [state |-> Fresh, recording |-> NoRecording]

LEMMA ChangeIsStep ==
  ASSUME CacheInv, NEW t \in Threads, NEW id \in DOMAIN engines[t], NEW engine,
         Steps(engines[t][id], engine), WithEngine(t, id, engine)
  PROVE  Stepped
<1>1. \A u \in Threads : DOMAIN engines'[u] = DOMAIN engines[u]
  BY DEF CacheInv, Registry, WithEngine
<1>2. \A u \in Threads : \A other \in DOMAIN engines[u] :
        engines'[u][other] = IF u = t /\ other = id THEN engine ELSE engines[u][other]
  BY DEF CacheInv, Registry, WithEngine
<1>3. \A before : Steps(before, before)
  BY DEF Steps
<1>4. QED
  BY <1>1, <1>2, <1>3 DEF Stepped

LEMMA SameIsStep ==
  ASSUME \A u \in Threads : \A id \in DOMAIN engines'[u] :
           IF id \in DOMAIN engines[u] THEN engines'[u][id] = engines[u][id]
           ELSE engines'[u][id] = [state |-> Fresh, recording |-> NoRecording]
  PROVE  Stepped
<1>1. \A before : Steps(before, before)
  BY DEF Steps
<1>2. QED
  BY <1>1 DEF Stepped

LEMMA CreateIsStep ==
  ASSUME CacheInv, NEW t \in Threads, EngineCreate(t)
  PROVE  Stepped
<1>1. CASE UNCHANGED engines
  BY <1>1, SameIsStep
<1>2. CASE engines' = [engines EXCEPT ![t] = With(@, nextEngine)]
  <2>1. \A u \in Threads : DOMAIN engines'[u] =
          IF u = t THEN DOMAIN engines[u] \cup {nextEngine} ELSE DOMAIN engines[u]
    BY <1>2 DEF CacheInv, Registry, With
  <2>2. nextEngine \notin DOMAIN engines[t]
    <3>1. nextEngine \in Nat /\ \A id \in DOMAIN engines[t] : id \in Nat /\ id < nextEngine
      BY DEF CacheInv, Registry
    <3>2. QED
      BY <3>1
  <2>3. \A u \in Threads : \A id \in DOMAIN engines[u] : engines'[u][id] = engines[u][id]
    BY <1>2, <2>2 DEF CacheInv, Registry, With
  <2>4. engines'[t][nextEngine] = [state |-> Fresh, recording |-> NoRecording]
    BY <1>2 DEF CacheInv, Registry, With
  <2>5. QED
    BY <2>1, <2>2, <2>3, <2>4, SameIsStep
<1>3. QED
  BY <1>1, <1>2 DEF EngineCreate

LEMMA NextIsStep ==
  ASSUME CacheInv, [Next]_vars
  PROVE  Stepped
<1>1. CASE UNCHANGED vars
  BY <1>1, SameIsStep DEF vars
<1>2. ASSUME NEW t \in Threads, NEW id, NEW call \in Calls, Call(t, id, call)
      PROVE  Stepped
  <2>1. id \in DOMAIN engines[t] /\ call \in AllCalls
    BY <1>2, CallsAreExports DEF Call, Owned
  <2>2. Steps(engines[t][id], Called(Entered(engines[t][id]), call))
    BY <2>1 DEF Steps
  <2>3. QED
    BY <1>2, <2>1, <2>2, ChangeIsStep DEF Call
<1>3. ASSUME NEW t \in Threads, NEW id, Panic(t, id)
      PROVE  Stepped
  <2>1. id \in DOMAIN engines[t]
    BY <1>3 DEF Panic, Owned
  <2>2. PICK s \in {Entered(engines[t][id]).state}
                     \cup {Apply(Entered(engines[t][id]).state, call).s : call \in Calls} :
          WithEngine(t, id, Guarded([Entered(engines[t][id]) EXCEPT !.state = s]))
    BY <1>3 DEF Panic
  <2>3. Steps(engines[t][id], Guarded([Entered(engines[t][id]) EXCEPT !.state = s]))
    BY <2>2 DEF Steps
  <2>4. QED
    BY <2>1, <2>2, <2>3, ChangeIsStep
<1>4. ASSUME NEW t \in Threads, NEW id, RecordingBegin(t, id)
      PROVE  Stepped
  <2> DEFINE engine == engines[t][id]
             begun == [engine EXCEPT !.recording = NewRecording(engine.state)]
  <2>1. id \in DOMAIN engines[t]
    BY <1>4 DEF RecordingBegin, Owned
  <2>2. WithEngine(t, id, IF Active(engine.state) THEN engine ELSE begun)
    BY <1>4 DEF RecordingBegin
  <2>3. Steps(engine, IF Active(engine.state) THEN engine ELSE begun)
    BY DEF Steps
  <2> HIDE DEF begun
  <2>4. QED
    BY <2>1, <2>2, <2>3, ChangeIsStep
<1>5. ASSUME NEW t \in Threads, NEW id, NEW trace \in Traces, Replay(t, id, trace)
      PROVE  Stepped
  <2>1. id \in DOMAIN engines[t]
    BY <1>5 DEF Replay, Owned
  <2>2. Steps(engines[t][id], Replayed(engines[t][id], trace))
    BY <1>5, TracesAreRecordings DEF Steps
  <2>3. QED
    BY <1>5, <2>1, <2>2, ChangeIsStep DEF Replay
<1>6. ASSUME NEW t \in Threads, NEW id, EngineDestroy(t, id)
      PROVE  Stepped
  <2>1. \A u \in Threads :
          /\ DOMAIN engines'[u] \subseteq DOMAIN engines[u]
          /\ \A other \in DOMAIN engines'[u] : engines'[u][other] = engines[u][other]
    BY <1>6 DEF EngineDestroy, CacheInv, Registry
  <2>2. QED
    BY <2>1, SameIsStep
<1>7. ASSUME NEW t \in Threads, NEW id, Refresh(t, id)
      PROVE  Stepped
  BY <1>7, SameIsStep DEF Refresh
<1>8. ASSUME NEW t \in Threads, NEW id, PanicUncounted(t, id)
      PROVE  Stepped
  <2>1. id \in DOMAIN engines[t] /\ Steps(engines[t][id], Guarded(engines[t][id]))
    BY <1>8 DEF PanicUncounted, Owned, Steps
  <2>2. QED
    BY <1>8, <2>1, ChangeIsStep DEF PanicUncounted
<1>9. QED
  BY <1>1, <1>2, <1>3, <1>4, <1>5, <1>6, <1>7, <1>8, CreateIsStep DEF Next

EarnedInv == \A t \in Threads : \A id \in DOMAIN engines[t] : Earned(engines[t][id])

LEMMA NextIsEarned ==
  ASSUME CacheInv, EarnedInv, [Next]_vars
  PROVE  EarnedInv'
<1>1. Stepped
  BY NextIsStep
<1>2. Earned([state |-> Fresh, recording |-> NoRecording])
  BY FreshIsSupplied DEF Earned, Budgeted, NoRecording
<1>3. ASSUME NEW before, IsEngine(before), Earned(before), NEW after, Steps(before, after)
      PROVE  Earned(after)
  <2>1. ASSUME NEW call \in AllCalls, after = Called(Entered(before), call)
        PROVE  Earned(after)
    BY <1>3, <2>1, CalledIsEarned
  <2>2. ASSUME NEW s \in {Entered(before).state}
                           \cup {Apply(Entered(before).state, call).s : call \in Calls},
               after = Guarded([Entered(before) EXCEPT !.state = s])
        PROVE  Earned(after)
    BY <1>3, <2>2, GuardedIsEarned
  <2>3. CASE ~Active(before.state) /\ after = [before EXCEPT !.recording = NewRecording(before.state)]
    BY <1>3, <2>3, BegunIsEarned
  <2>4. ASSUME NEW trace, IsRecording(trace), after = Replayed(before, trace)
        PROVE  Earned(after)
    BY <1>3, <2>4, ReplayedIsEarned
  <2>5. CASE after = Guarded(before)
    BY <1>3, <2>5, UncountedIsEarned
  <2>6. QED
    BY <1>3, <2>1, <2>2, <2>3, <2>4, <2>5 DEF Steps
<1>4. \A t \in Threads : \A id \in DOMAIN engines[t] : IsEngine(engines[t][id])
  BY DEF CacheInv, Registry
<1>5. QED
  BY <1>1, <1>2, <1>3, <1>4 DEF EarnedInv, Stepped

\* A recording ends early by a panic, by its gameplay or by releases that released
\* nothing: as long as every release succeeded there are at most as many of them as
\* captures and mixtures, for a recording begins with no source exported and a call
\* exports at most one, so the budget of the releases is not the one that runs out
\* first (observation.rs RecordingBudget::accept).
THEOREM TruncationsAreEarned == Spec => []TruncationIsEarned
<1>1. Init => EarnedInv
  <2>1. SUFFICES ASSUME Init PROVE EarnedInv
    OBVIOUS
  <2>2. DOMAIN NoEntries = {} /\ \A t \in Threads : engines[t] = NoEntries
    BY <2>1 DEF Init, NoEntries
  <2>3. QED
    BY <2>2 DEF EarnedInv
<1>2. EarnedInv => TruncationIsEarned
  <2>1. SUFFICES ASSUME EarnedInv, NEW t \in Threads, NEW id \in DOMAIN engines[t],
                        engines[t][id].recording.on, engines[t][id].recording.truncated
                 PROVE  LET recording == engines[t][id].recording
                        IN  \/ recording.panicked
                            \/ Cardinality(Gameplay(recording.observations)) = MaxObservations
                            \/ \E entry \in Range(recording.observations) :
                                 IsRelease(entry) /\ entry.r = Zero
    BY DEF TruncationIsEarned, Live
  <2>2. Ended(engines[t][id].recording)
    BY <2>1 DEF EarnedInv, Earned, Budgeted
  <2>3. QED
    BY <2>2 DEF Ended, Wasted
<1>3. QED
  BY InitHolds, NextKeeps, NextIsEarned, <1>1, <1>2, PTL DEF Spec

----------------------------------------------------------------------------
(***************************************************************************)
(* What a recording reproduces: before its first combat, the engine and a  *)
(* fresh one both refuse every call.                                       *)
(***************************************************************************)
\* A State whose combat is not active, and the last combat it has had.
Shut(s, n) == DOMAIN s = Fields /\ ~Active(s) /\ s.last = n

Refused(x, n) == Shut(x.s, n) /\ x.r = Zero

LEMMA ReportIsShut ==
  ASSUME NEW s, NEW n, Shut(s, n), NEW failure
  PROVE  /\ Shut(Report(s, failure), n) /\ Shut(Failed(s, failure), n)
         /\ Refused(Refuse(s, failure), n) /\ Refused(Accept(s, Zero), n)
<1>1. Shut(Report(s, failure), n)
  BY DEF Shut, Fields, Report, Active
<1>2. Shut(Failed(s, failure), n)
  BY DEF Shut, Fields, Failed, Active
<1>3. QED
  BY <1>1, <1>2 DEF Refuse, Accept, Refused

LEMMA EpochIsShut ==
  ASSUME NEW s, NEW n, Shut(s, n), NEW seq
  PROVE  /\ SourceEpoch(s, seq).failure # None /\ Shut(SourceEpoch(s, seq).s, n)
         /\ ProvenanceEpoch(s, seq).failure # None /\ Shut(ProvenanceEpoch(s, seq).s, n)
<1>1. SourceEpoch(s, seq).failure # None /\ Shut(SourceEpoch(s, seq).s, n)
  <2>1. CASE s.poisoned
    BY <2>1 DEF SourceEpoch, None
  <2>2. CASE ~s.poisoned /\ ~(Active(s) /\ s.current.seq = seq)
    BY <2>2, ReportIsShut DEF SourceEpoch, None
  <2>3. ~Active(s)
    BY DEF Shut
  <2>4. QED
    BY <2>1, <2>2, <2>3
<1>2. QED
  BY <1>1 DEF ProvenanceEpoch, InProvenance

LEMMA TokenIsShut ==
  ASSUME NEW s, NEW n, Shut(s, n), NEW wire, NEW kind
  PROVE  /\ ProvenanceToken(s, wire, kind).failure # None /\ Shut(ProvenanceToken(s, wire, kind).s, n)
         /\ HandleToken(s, wire).failure # None /\ Shut(HandleToken(s, wire).s, n)
<1>1. ProvenanceToken(s, wire, kind).failure # None /\ Shut(ProvenanceToken(s, wire, kind).s, n)
  BY EpochIsShut DEF ProvenanceToken
<1>2. ASSUME NEW e, Shut(e.s, n), e.failure # None
      PROVE  Held(e, wire).failure # None /\ Shut(Held(e, wire).s, n)
  BY <1>2, ReportIsShut DEF Held
<1>3. QED
  BY <1>1, <1>2, EpochIsShut DEF HandleToken

LEMMA SourcesAreShut ==
  ASSUME NEW s, NEW n, Shut(s, n), NEW seq
  PROVE  /\ \A handle : Refused(SourceRelease(s, handle), n)
         /\ \A kind, instance, id, player, generation :
              Refused(SourceCapture(s, seq, kind, instance, id, player, generation), n)
         /\ \A first, before, second, after :
              Refused(SourceAccumulate(s, seq, first, before, second, after), n)
<1> DEFINE e == ProvenanceEpoch(s, seq)
<1>1. e.failure # None /\ Shut(e.s, n)
  BY EpochIsShut
<1> HIDE DEF e
<1>2. ASSUME NEW handle
      PROVE  Refused(SourceRelease(s, handle), n)
  <2> DEFINE h == HandleToken(s, handle)
  <2>1. h.failure # None /\ Shut(h.s, n)
    BY TokenIsShut
  <2> HIDE DEF h
  <2>2. Released(h, handle) = Accept(h.s, Zero)
    BY <2>1 DEF Released
  <2>3. Refused(Released(h, handle), n)
    BY <2>1, <2>2, ReportIsShut
  <2>4. QED
    BY <2>3 DEF SourceRelease, h
<1>3. ASSUME NEW kind, NEW instance, NEW id, NEW player, NEW generation
      PROVE  Refused(SourceCapture(s, seq, kind, instance, id, player, generation), n)
  <2>1. CaptureIn(e, kind, instance, id, player, generation) = Accept(e.s, Zero)
    BY <1>1 DEF CaptureIn
  <2>2. QED
    BY <1>1, <2>1, ReportIsShut DEF SourceCapture, e
<1>4. ASSUME NEW first, NEW before, NEW second, NEW after
      PROVE  Refused(SourceAccumulate(s, seq, first, before, second, after), n)
  <2>1. AccumulateIn(e, first, before, second, after) = Refuse(e.s, e.failure)
    BY <1>1 DEF AccumulateIn
  <2>2. QED
    BY <1>1, <2>1, ReportIsShut DEF SourceAccumulate, e
<1>5. QED
  BY <1>2, <1>3, <1>4

LEMMA PlaysAreShut ==
  ASSUME NEW s, NEW n, Shut(s, n), NEW seq
  PROVE  /\ \A instance, transfer : Refused(CardGenerated(s, seq, instance, transfer), n)
         /\ \A execution, instance, id, player, generation, transfer :
              Refused(CardPlayStarted(s, seq, execution, instance, id, player, generation, transfer), n)
         /\ \A token : Refused(CardPlayFinished(s, token), n)
         /\ \A execution : Refused(CardExecutionEnded(s, seq, execution), n)
         /\ \A instance, transfer : Refused(OrbChanneled(s, seq, instance, transfer), n)
         /\ \A instance, token, player : Refused(OrbContextBegin(s, seq, instance, token, player), n)
<1> DEFINE e == ProvenanceEpoch(s, seq)
<1>1. e.failure # None /\ Shut(e.s, n)
  BY EpochIsShut
<1>2. Refused(Refuse(e.s, e.failure), n)
  BY <1>1, ReportIsShut
<1> HIDE DEF e
<1>3. \A instance, transfer : GeneratedIn(e, instance, transfer) = Refuse(e.s, e.failure)
  BY <1>1 DEF GeneratedIn
<1>4. \A execution, instance, id, player, generation, transfer :
        StartIn(e, execution, instance, id, player, generation, transfer) = Refuse(e.s, e.failure)
  BY <1>1 DEF StartIn
<1>5. ASSUME NEW token
      PROVE  Refused(CardPlayFinished(s, token), n)
  <2> DEFINE t == ProvenanceToken(s, token, "play")
  <2>1. t.failure # None /\ Shut(t.s, n)
    BY TokenIsShut
  <2> HIDE DEF t
  <2>2. FinishIn(t, token.payload) = Refuse(t.s, t.failure)
    BY <2>1 DEF FinishIn
  <2>3. Refused(FinishIn(t, token.payload), n)
    BY <2>1, <2>2, ReportIsShut
  <2>4. QED
    BY <2>3 DEF CardPlayFinished, t
<1>6. \A execution : EndIn(e, execution) = Refuse(e.s, e.failure)
  BY <1>1 DEF EndIn
<1>7. \A instance, transfer : ChannelIn(e, instance, transfer) = Refuse(e.s, e.failure)
  BY <1>1 DEF ChannelIn
<1>8. \A instance, token, player : ContextIn(e, instance, token, player) = Refuse(e.s, e.failure)
  BY <1>1 DEF ContextIn
<1>9. QED
  BY <1>2, <1>3, <1>4, <1>5, <1>6, <1>7, <1>8
     DEF CardGenerated, CardPlayStarted, CardExecutionEnded, OrbChanneled, OrbContextBegin, e

LEMMA CountersAreShut ==
  ASSUME NEW s, NEW n, Shut(s, n), NEW seq
  PROVE  /\ \A counter : Refused(Counted(s, seq, counter), n)
         /\ \A player : Refused(PlayerDied(s, seq, player), n)
         /\ \A op : Refused(Ledgered(s, seq, op), n)
         /\ Refused(CombatEnded(s, seq), n)
<1> DEFINE e == ProvenanceEpoch(s, seq)
<1>1. e.failure # None /\ Shut(e.s, n)
  BY EpochIsShut
<1>2. Refused(Refuse(e.s, e.failure), n) /\ Refused(Accept(e.s, Zero), n)
  BY <1>1, ReportIsShut
<1> HIDE DEF e
<1>3. \A stage : CountIn(e, stage) = Refuse(e.s, e.failure)
  BY <1>1 DEF CountIn
<1>4. \A at : DeathOf(e, at) = Refuse(e.s, e.failure)
  BY <1>1 DEF DeathOf
<1>5. \A op : LedgerIn(e, seq, op) = Refuse(e.s, e.failure)
  BY <1>1 DEF LedgerIn
<1>6. EndCombatIn(e) = Accept(e.s, Zero)
  BY <1>1 DEF EndCombatIn
<1>7. QED
  BY <1>2, <1>3, <1>4, <1>5, <1>6 DEF Counted, PlayerDied, DiedIn, Ledgered, CombatEnded, e

\* What is answered without a combat depends on the call alone.
Answer(call) ==
  IF call.op = "weak_prevention" THEN (IF call.valid THEN Number(1) ELSE Number(-1)) ELSE Zero

LEMMA ApplyIsShut ==
  ASSUME NEW s, NEW n, Shut(s, n), NEW call \in AllCalls,
         call.op = "combat_started" => call.seq = 0
  PROVE  Shut(Apply(s, call).s, n) /\ Apply(s, call).r = Answer(call)
<1>1. CASE call.op \in SourceOps
  <2>1. Refused(ApplySource(s, call), n)
    BY <1>1, SourcesAreShut DEF ApplySource, SourceOps
  <2>2. QED
    BY <1>1, <2>1, Dispatched DEF Refused, Answer, SourceOps
<1>2. CASE call.op \in PlayOps
  <2>1. Refused(ApplyPlay(s, call), n)
    BY <1>2, PlaysAreShut DEF ApplyPlay, PlayOps
  <2>2. QED
    BY <1>2, <2>1, Dispatched DEF Refused, Answer, PlayOps
<1>3. CASE call.op \in CombatOps
  <2>1. call.op = "combat_started" => Refused(CombatStarted(s, call.seq, call.players), n)
    <3>1. SUFFICES ASSUME call.op = "combat_started"
                   PROVE  Refused(CombatStarted(s, call.seq, call.players), n)
      OBVIOUS
    <3>2. call.seq = 0
      BY <3>1
    <3>3. CombatStarted(s, call.seq, call.players).s = Failed(s, "combat-epoch")
          /\ CombatStarted(s, call.seq, call.players).r = Zero
      BY <3>2, StartBegins DEF Shut
    <3>4. QED
      BY <3>3, ReportIsShut DEF Refused
  <2>2. Refused(ApplyCombat(s, call), n)
    BY <1>3, <2>1, CountersAreShut DEF ApplyCombat, CombatOps
  <2>3. QED
    BY <1>3, <2>2, Dispatched DEF Refused, Answer, CombatOps
<1>4. CASE call.op = "weak_prevention"
  <2>1. Apply(s, call) = WeakPrevention(s, call.valid, 1)
    BY <1>4, Dispatched DEF ApplyHost, HostOps
  <2>2. Shut(Failed(s, "weak-policy"), n)
    BY ReportIsShut
  <2>3. QED
    BY <1>4, <2>1, <2>2 DEF WeakPrevention, Accept, Answer
<1>5. CASE call.op \in HostOps \ {"weak_prevention"}
  <2>1. \/ Apply(s, call) = Accept(Failed(s, call.reason), Zero)
        \/ Apply(s, call) = Accept(Discarded(s), Zero)
    BY <1>5, Dispatched DEF ApplyHost, HostOps
  <2>2. Shut(Failed(s, call.reason), n)
    BY ReportIsShut
  <2>3. Shut(Discarded(s), n)
    BY DEF Discarded, Shut, Fields, Active, NoCombat, None
  <2>4. QED
    BY <1>5, <2>1, <2>2, <2>3 DEF Accept, Answer
<1>6. CASE call.op \notin UNION {SourceOps, PlayOps, CombatOps, HostOps}
  <2>1. Refused(Ledgered(s, call.seq, call.op), n)
    BY CountersAreShut
  <2>2. QED
    BY <1>6, <2>1, Dispatched DEF Refused, Answer, HostOps
<1>7. QED
  BY <1>1, <1>2, <1>3, <1>4, <1>5, <1>6

----------------------------------------------------------------------------
(***************************************************************************)
(* From its first combat on, the two are the same but for the number of    *)
(* their calls, and every call does the same to both.                      *)
(***************************************************************************)
Twins(s, u) ==
  /\ DOMAIN s = Fields /\ DOMAIN u = Fields
  /\ s.current = u.current /\ s.arena = u.arena /\ s.prov = u.prov /\ s.died = u.died
  /\ s.last = u.last /\ s.coverage = u.coverage /\ s.poisoned = u.poisoned

\* Two answers, two epochs, two sources.
Alike(x, y)    == Twins(x.s, y.s) /\ x.r = y.r
Together(e, g) == Twins(e.s, g.s) /\ e.failure = g.failure
Sourced(e, g)  == Twins(e.s, g.s) /\ e.source = g.source

\* The parts of two twins may be changed alike.
LEMMA PartsAreTwins ==
  ASSUME NEW s, NEW u, Twins(s, u)
  PROVE  /\ \A prov : Twins([s EXCEPT !.prov = prov], [u EXCEPT !.prov = prov])
         /\ \A arena : Twins([s EXCEPT !.arena = arena], [u EXCEPT !.arena = arena])
         /\ \A c : Twins([s EXCEPT !.current = c], [u EXCEPT !.current = c])
         /\ \A died : Twins([s EXCEPT !.died = died], [u EXCEPT !.died = died])
         /\ \A c, died : Twins([s EXCEPT !.current = c, !.died = died],
                               [u EXCEPT !.current = c, !.died = died])
BY DEF Twins, Fields

LEMMA ReportIsTwin ==
  ASSUME NEW s, NEW u, Twins(s, u), NEW failure
  PROVE  /\ Twins(Report(s, failure), Report(u, failure))
         /\ Twins(Failed(s, failure), Failed(u, failure))
         /\ Alike(Refuse(s, failure), Refuse(u, failure))
<1>1. Twins(Report(s, failure), Report(u, failure))
  BY DEF Twins, Fields, Report
<1>2. Twins(Failed(s, failure), Failed(u, failure))
  BY DEF Twins, Fields, Failed
<1>3. QED
  BY <1>1, <1>2 DEF Refuse, Alike

LEMMA AcceptIsTwin ==
  ASSUME NEW s, NEW u, Twins(s, u), NEW r
  PROVE  Alike(Accept(s, r), Accept(u, r))
BY DEF Accept, Alike

LEMMA SlottedIsTwin ==
  ASSUME NEW s, NEW u, Twins(s, u), NEW slot
  PROVE  /\ Twins(Slotted(s, slot).s, Slotted(u, slot).s)
         /\ Slotted(s, slot).slot = Slotted(u, slot).slot
BY ReportIsTwin DEF Slotted

LEMMA EpochIsTwin ==
  ASSUME NEW s, NEW u, Twins(s, u), NEW seq
  PROVE  /\ Together(SourceEpoch(s, seq), SourceEpoch(u, seq))
         /\ Together(ProvenanceEpoch(s, seq), ProvenanceEpoch(u, seq))
<1> DEFINE e == SourceEpoch(s, seq)
           g == SourceEpoch(u, seq)
<1>1. DOMAIN e = {"s", "failure"} /\ DOMAIN g = {"s", "failure"}
  BY DEF SourceEpoch
<1>2. Together(e, g)
  <2>1. /\ s.poisoned = u.poisoned /\ s.current = u.current /\ s.arena = u.arena
        /\ (Active(s) <=> Active(u))
    BY DEF Twins, Active
  <2>2. CASE s.poisoned
    BY <2>1, <2>2 DEF SourceEpoch, Together
  <2>3. CASE ~s.poisoned /\ Active(s) /\ s.current.seq = seq
    <3>1. Twins([s EXCEPT !.arena = [NoArena EXCEPT !.epoch = seq]],
                [u EXCEPT !.arena = [NoArena EXCEPT !.epoch = seq]])
      BY PartsAreTwins
    <3>2. QED
      BY <2>1, <2>3, <3>1 DEF SourceEpoch, Together
  <2>4. CASE ~s.poisoned /\ ~(Active(s) /\ s.current.seq = seq)
    BY <2>1, <2>4, ReportIsTwin DEF SourceEpoch, Together
  <2>5. QED
    BY <2>2, <2>3, <2>4
<1> HIDE DEF e, g
<1>3. Together(InProvenance(e, seq), InProvenance(g, seq))
  <2> DEFINE prov == [NoProvenance EXCEPT !.epoch = seq]
  <2>1. /\ [e EXCEPT !.s.prov = prov].s = [e.s EXCEPT !.prov = prov]
        /\ [e EXCEPT !.s.prov = prov].failure = e.failure
        /\ [g EXCEPT !.s.prov = prov].s = [g.s EXCEPT !.prov = prov]
        /\ [g EXCEPT !.s.prov = prov].failure = g.failure
    BY <1>1
  <2>2. Twins([e.s EXCEPT !.prov = prov], [g.s EXCEPT !.prov = prov])
    BY <1>2, PartsAreTwins DEF Together
  <2>3. e.s.prov = g.s.prov
    BY <1>2 DEF Together, Twins
  <2>4. QED
    BY <1>2, <2>1, <2>2, <2>3 DEF InProvenance, Together
<1>4. QED
  BY <1>2, <1>3 DEF ProvenanceEpoch, e, g

LEMMA TokenIsTwin ==
  ASSUME NEW s, NEW u, Twins(s, u), NEW wire, NEW kind
  PROVE  /\ Together(ProvenanceToken(s, wire, kind), ProvenanceToken(u, wire, kind))
         /\ Together(HandleToken(s, wire), HandleToken(u, wire))
<1>1. Together(ProvenanceToken(s, wire, kind), ProvenanceToken(u, wire, kind))
  BY EpochIsTwin DEF ProvenanceToken, Together
<1>2. ASSUME NEW e, NEW g, Together(e, g)
      PROVE  Together(Held(e, wire), Held(g, wire))
  <2> DEFINE failure == IF e.failure = None /\ wire.payload \notin DOMAIN e.s.arena.entries
                        THEN "source-handle" ELSE e.failure
  <2>1. e.s.arena = g.s.arena
    BY <1>2 DEF Together, Twins
  <2>2. /\ Held(e, wire) = [s |-> IF failure = None THEN e.s ELSE Report(e.s, failure), failure |-> failure]
        /\ Held(g, wire) = [s |-> IF failure = None THEN g.s ELSE Report(g.s, failure), failure |-> failure]
    BY <1>2, <2>1 DEF Held, Together
  <2> HIDE DEF failure
  <2>3. Twins(Report(e.s, failure), Report(g.s, failure))
    BY <1>2, ReportIsTwin DEF Together
  <2>4. QED
    BY <1>2, <2>2, <2>3 DEF Together
<1>3. QED
  BY <1>1, <1>2, EpochIsTwin DEF HandleToken, Together

LEMMA SnapshotIsTwin ==
  ASSUME NEW s, NEW u, Twins(s, u), NEW transfer
  PROVE  /\ Together(SourceSnapshot(s, transfer), SourceSnapshot(u, transfer))
         /\ Sourced(SourceSnapshot(s, transfer), SourceSnapshot(u, transfer))
<1> DEFINE h == HandleToken(s, transfer)
           k == HandleToken(u, transfer)
<1>1. Together(h, k)
  BY TokenIsTwin
<1> HIDE DEF h, k
<1>2. h.s.arena = k.s.arena
  BY <1>1 DEF Together, Twins
<1>3. /\ Together(Snapshotted(h, transfer), Snapshotted(k, transfer))
      /\ Sourced(Snapshotted(h, transfer), Snapshotted(k, transfer))
  BY <1>1, <1>2 DEF Snapshotted, Together, Sourced
<1>4. QED
  BY <1>3 DEF SourceSnapshot, Together, Sourced, h, k

LEMMA ExportIsTwin ==
  ASSUME NEW s, NEW u, Twins(s, u), NEW source
  PROVE  Alike(Export(s, source), Export(u, source))
<1> DEFINE live(arena) == {m \in DOMAIN arena.entries : arena.entries[m] = source}
           next(arena) == arena.serial + 1
           more(arena) == [arena EXCEPT !.entries = Learn(@, next(arena), source), !.serial = next(arena)]
           found(arena) == Wire(arena.epoch, "source", CHOOSE m \in live(arena) : TRUE)
           fresh(arena) == Wire(arena.epoch, "source", next(arena))
           exported(t, arena) ==
             IF live(arena) # {} THEN Accept(t, found(arena))
             ELSE IF arena.serial = MaxPayload THEN Refuse(t, "capacity")
             ELSE Accept([t EXCEPT !.arena = more(arena)], fresh(arena))
           larger(t) == [t EXCEPT !.arena.entries = Learn(@, next(t.arena), source),
                                  !.arena.serial = next(t.arena)]
<1>1. \A t : DOMAIN t = Fields => larger(t) = [t EXCEPT !.arena = more(t.arena)]
  BY DEF Fields
<1>2. ASSUME NEW t, DOMAIN t = Fields
      PROVE  Export(t, source) = exported(t, t.arena)
  <2>1. Export(t, source) =
          IF live(t.arena) # {} THEN Accept(t, found(t.arena))
          ELSE IF t.arena.serial = MaxPayload THEN Refuse(t, "capacity")
          ELSE Accept(larger(t), fresh(t.arena))
    BY DEF Export
  <2> HIDE DEF live, more, found, fresh, larger
  <2>2. larger(t) = [t EXCEPT !.arena = more(t.arena)]
    BY <1>1, <1>2
  <2>3. QED
    BY <2>1, <2>2
<1>3. s.arena = u.arena /\ DOMAIN s = Fields /\ DOMAIN u = Fields
  BY DEF Twins
<1>4. Export(s, source) = exported(s, s.arena) /\ Export(u, source) = exported(u, s.arena)
  BY <1>2, <1>3
<1> HIDE DEF live, more, found, fresh
<1>5. /\ Alike(Accept(s, found(s.arena)), Accept(u, found(s.arena)))
      /\ Alike(Refuse(s, "capacity"), Refuse(u, "capacity"))
  BY AcceptIsTwin, ReportIsTwin
<1>6. Twins([s EXCEPT !.arena = more(s.arena)], [u EXCEPT !.arena = more(s.arena)])
  BY PartsAreTwins
<1>7. Alike(Accept([s EXCEPT !.arena = more(s.arena)], fresh(s.arena)),
            Accept([u EXCEPT !.arena = more(s.arena)], fresh(s.arena)))
  BY <1>6, AcceptIsTwin
<1>8. QED
  BY <1>4, <1>5, <1>7

LEMMA SourcesAreTwins ==
  ASSUME NEW s, NEW u, Twins(s, u), NEW handle
  PROVE  Alike(SourceRelease(s, handle), SourceRelease(u, handle))
<1> DEFINE h == HandleToken(s, handle)
           k == HandleToken(u, handle)
<1>1. Together(h, k)
  BY TokenIsTwin
<1> HIDE DEF h, k
<1>2. CASE h.failure # None
  <2>1. Released(h, handle) = Accept(h.s, Zero) /\ Released(k, handle) = Accept(k.s, Zero)
    BY <1>1, <1>2 DEF Released, Together
  <2>2. QED
    BY <1>1, <2>1, AcceptIsTwin DEF SourceRelease, Together, h, k
<1>3. CASE h.failure = None
  <2> DEFINE less(arena) == [arena EXCEPT !.entries = Forget(@, handle.payload)]
  <2>1. \A t : DOMAIN t = Fields =>
          [t EXCEPT !.arena.entries = Forget(@, handle.payload)] = [t EXCEPT !.arena = less(t.arena)]
    BY DEF Fields
  <2>2. h.s.arena = k.s.arena /\ DOMAIN h.s = Fields /\ DOMAIN k.s = Fields
    BY <1>1 DEF Together, Twins
  <2>3. /\ Released(h, handle) = Accept([h.s EXCEPT !.arena = less(h.s.arena)], Number(1))
        /\ Released(k, handle) = Accept([k.s EXCEPT !.arena = less(h.s.arena)], Number(1))
    BY <1>1, <1>3, <2>1, <2>2 DEF Released, Together
  <2> HIDE DEF less
  <2>4. Twins([h.s EXCEPT !.arena = less(h.s.arena)], [k.s EXCEPT !.arena = less(h.s.arena)])
    BY <1>1, PartsAreTwins DEF Together
  <2>5. Alike(Released(h, handle), Released(k, handle))
    BY <2>3, <2>4, AcceptIsTwin
  <2>6. QED
    BY <2>5 DEF SourceRelease, h, k
<1>4. QED
  BY <1>2, <1>3

LEMMA NamedIsTwin ==
  ASSUME NEW s, NEW u, Twins(s, u), NEW slot, NEW id, NEW kind
  PROVE  Sourced(NamedSource(s, slot, id, kind), NamedSource(u, slot, id, kind))
<1> DEFINE found == RowFor(s.current, slot, id, kind)
<1>1. s.current = u.current
  BY DEF Twins
<1>2. NamedSource(s, slot, id, kind) = Named(s, found, slot)
      /\ NamedSource(u, slot, id, kind) = Named(u, found, slot)
  BY <1>1 DEF NamedSource
<1> HIDE DEF found
<1>3. Twins([s EXCEPT !.current = found.c], [u EXCEPT !.current = found.c])
  BY PartsAreTwins
<1>4. QED
  BY <1>2, <1>3 DEF Named, Sourced

LEMMA ForgetsAreTwins ==
  ASSUME NEW s, NEW u, Twins(s, u), NEW instance, NEW source
  PROVE  /\ Twins([s EXCEPT !.prov.generated = Forget(@, instance)],
                  [u EXCEPT !.prov.generated = Forget(@, instance)])
         /\ Twins([s EXCEPT !.prov.orbs = Forget(@, instance)],
                  [u EXCEPT !.prov.orbs = Forget(@, instance)])
         /\ Twins([s EXCEPT !.prov.generated = Learn(@, instance, source)],
                  [u EXCEPT !.prov.generated = Learn(@, instance, source)])
         /\ Twins([s EXCEPT !.prov.orbs = Learn(@, instance, source)],
                  [u EXCEPT !.prov.orbs = Learn(@, instance, source)])
BY DEF Twins, Fields

LEMMA CardSourceIsTwin ==
  ASSUME NEW s, NEW u, Twins(s, u), NEW instance, NEW id, NEW slot, NEW given,
         NEW generation \in {"unavailable", "ordinary", "recorded", "unclassified"}
  PROVE  Sourced(CardSource(s, instance, id, slot, generation, given),
                 CardSource(u, instance, id, slot, generation, given))
<1> DEFINE one == CardSource(s, instance, id, slot, generation, given)
           two == CardSource(u, instance, id, slot, generation, given)
           known == instance # 0 /\ id # NoId /\ instance \notin DOMAIN s.prov.generated
<1>1. s.prov = u.prov
  BY DEF Twins
<1>2. CASE generation = "unavailable"
  <2>1. Twins([s EXCEPT !.prov.generated = Forget(@, instance)],
              [u EXCEPT !.prov.generated = Forget(@, instance)])
    BY ForgetsAreTwins
  <2>2. /\ one = [s |-> [s EXCEPT !.prov.generated = Forget(@, instance)], source |-> UnknownSource]
        /\ two = [s |-> [u EXCEPT !.prov.generated = Forget(@, instance)], source |-> UnknownSource]
    BY <1>2 DEF CardSource
  <2> HIDE DEF one, two
  <2>3. one.source = two.source /\ Twins(one.s, two.s)
    BY <2>1, <2>2
  <2>4. QED
    BY <2>3 DEF Sourced, one, two
<1>3. CASE generation = "ordinary" /\ known
  <2>1. Sourced(NamedSource(s, slot, id, "card"), NamedSource(u, slot, id, "card"))
    BY NamedIsTwin
  <2>2. Twins(Report(s, "packet"), Report(u, "packet"))
    BY ReportIsTwin
  <2>3. /\ one = IF given = {} THEN NamedSource(s, slot, id, "card")
                 ELSE IF Cardinality(given) = 1 THEN [s |-> s, source |-> given]
                 ELSE [s |-> Report(s, "packet"), source |-> UnknownSource]
        /\ two = IF given = {} THEN NamedSource(u, slot, id, "card")
                 ELSE IF Cardinality(given) = 1 THEN [s |-> u, source |-> given]
                 ELSE [s |-> Report(u, "packet"), source |-> UnknownSource]
    BY <1>1, <1>3 DEF CardSource
  <2> HIDE DEF one, two
  <2>4. Sourced(one, two)
    BY <2>1, <2>2, <2>3 DEF Sourced
  <2>5. QED
    BY <2>4 DEF one, two
<1>4. CASE generation = "ordinary" /\ ~known
  <2>1. Twins(Report(s, "packet"), Report(u, "packet"))
    BY ReportIsTwin
  <2>2. /\ one = [s |-> Report(s, "packet"), source |-> UnknownSource]
        /\ two = [s |-> Report(u, "packet"), source |-> UnknownSource]
    BY <1>1, <1>4 DEF CardSource
  <2> HIDE DEF one, two
  <2>3. Sourced(one, two)
    BY <2>1, <2>2 DEF Sourced
  <2>4. QED
    BY <2>3 DEF one, two
<1>5. CASE generation \in {"recorded", "unclassified"}
  <2>1. one.s = s /\ two.s = u /\ one.source = two.source
    BY <1>1, <1>5 DEF CardSource
  <2>2. QED
    BY <2>1 DEF Sourced
<1>6. QED
  BY <1>2, <1>3, <1>4, <1>5

LEMMA CaptureIsTwin ==
  ASSUME NEW s, NEW u, Twins(s, u), NEW seq, NEW kind, NEW instance, NEW id, NEW player,
         NEW generation \in {"unavailable", "ordinary", "recorded", "unclassified"}
  PROVE  Alike(SourceCapture(s, seq, kind, instance, id, player, generation),
               SourceCapture(u, seq, kind, instance, id, player, generation))
<1>1. ASSUME NEW at, NEW by, Twins(at.s, by.s), at.slot = by.slot
      PROVE  Sourced(Captured(at, kind, instance, id, generation), Captured(by, kind, instance, id, generation))
  <2>1. at.s.prov = by.s.prov
    BY <1>1 DEF Twins
  <2>2. CASE kind = "card"
    <3>1. Sourced(CardSource(at.s, instance, id, at.slot, generation, {}),
                  CardSource(by.s, instance, id, at.slot, generation, {}))
      BY <1>1, CardSourceIsTwin
    <3>2. QED
      BY <1>1, <2>2, <3>1 DEF Captured
  <2>3. CASE kind = "orb" /\ instance \in DOMAIN at.s.prov.orbs
    BY <1>1, <2>1, <2>3 DEF Captured, Sourced
  <2>4. CASE kind \in {"relic", "potion"} /\ id # NoId
    <3>1. Sourced(NamedSource(at.s, at.slot, id, kind), NamedSource(by.s, at.slot, id, kind))
      BY <1>1, NamedIsTwin
    <3>2. QED
      BY <1>1, <2>4, <3>1 DEF Captured
  <2>5. CASE ~ \/ kind = "card"
               \/ kind = "orb" /\ instance \in DOMAIN at.s.prov.orbs
               \/ kind \in {"relic", "potion"} /\ id # NoId
    BY <1>1, <2>1, <2>5 DEF Captured, Sourced
  <2>6. QED
    BY <2>2, <2>3, <2>4, <2>5
<1>2. ASSUME NEW e, NEW g, Together(e, g)
      PROVE  Alike(CaptureIn(e, kind, instance, id, player, generation),
                   CaptureIn(g, kind, instance, id, player, generation))
  <2> DEFINE found == Captured(Slotted(e.s, player), kind, instance, id, generation)
             other == Captured(Slotted(g.s, player), kind, instance, id, generation)
  <2>1. Twins(e.s, g.s) /\ e.failure = g.failure
    BY <1>2 DEF Together
  <2>2. Twins(Slotted(e.s, player).s, Slotted(g.s, player).s)
        /\ Slotted(e.s, player).slot = Slotted(g.s, player).slot
    BY <2>1, SlottedIsTwin
  <2>3. Sourced(found, other)
    BY <1>1, <2>2
  <2>4. /\ CaptureIn(e, kind, instance, id, player, generation)
             = IF e.failure # None THEN Accept(e.s, Zero) ELSE Export(found.s, found.source)
        /\ CaptureIn(g, kind, instance, id, player, generation)
             = IF g.failure # None THEN Accept(g.s, Zero) ELSE Export(other.s, other.source)
    BY DEF CaptureIn
  <2> HIDE DEF found, other
  <2>5. Alike(Export(found.s, found.source), Export(other.s, found.source))
    BY <2>3, ExportIsTwin DEF Sourced
  <2>6. other.source = found.source
    BY <2>3 DEF Sourced
  <2>7. Alike(Accept(e.s, Zero), Accept(g.s, Zero))
    BY <2>1, AcceptIsTwin
  <2>8. QED
    BY <2>1, <2>4, <2>5, <2>6, <2>7
<1>3. QED
  BY <1>2, EpochIsTwin DEF SourceCapture

LEMMA AccumulateIsTwin ==
  ASSUME NEW s, NEW u, Twins(s, u), NEW seq, NEW first, NEW second,
         NEW before \in Int, NEW after \in Int
  PROVE  Alike(SourceAccumulate(s, seq, first, before, second, after),
               SourceAccumulate(u, seq, first, before, second, after))
<1>1. ASSUME NEW one, NEW two, NEW uno, NEW duo, Together(two, duo), Sourced(two, duo),
             one.source = uno.source
      PROVE  Alike(Mixed(one, two), Mixed(uno, duo))
  <2>1. Twins(two.s, duo.s) /\ two.failure = duo.failure /\ two.source = duo.source
    BY <1>1 DEF Together, Sourced
  <2>2. Alike(Refuse(two.s, two.failure), Refuse(duo.s, two.failure))
    BY <2>1, ReportIsTwin
  <2>3. Alike(Refuse(two.s, "capacity"), Refuse(duo.s, "capacity"))
    BY <2>1, ReportIsTwin
  <2>4. Alike(Export(two.s, one.source \cup two.source), Export(duo.s, one.source \cup two.source))
    BY <2>1, ExportIsTwin
  <2>5. QED
    BY <1>1, <2>1, <2>2, <2>3, <2>4 DEF Mixed
<1>2. ASSUME NEW one, NEW uno, Together(one, uno), Sourced(one, uno)
      PROVE  Alike(MixedWith(one, second), MixedWith(uno, second))
  <2>1. Twins(one.s, uno.s) /\ one.failure = uno.failure /\ one.source = uno.source
    BY <1>2 DEF Together, Sourced
  <2>2. Alike(Refuse(one.s, one.failure), Refuse(uno.s, one.failure))
    BY <2>1, ReportIsTwin
  <2>3. /\ Together(SourceSnapshot(one.s, second), SourceSnapshot(uno.s, second))
        /\ Sourced(SourceSnapshot(one.s, second), SourceSnapshot(uno.s, second))
    BY <2>1, SnapshotIsTwin
  <2>4. Alike(Mixed(one, SourceSnapshot(one.s, second)), Mixed(uno, SourceSnapshot(uno.s, second)))
    BY <1>1, <2>1, <2>3
  <2>5. QED
    BY <2>1, <2>2, <2>4 DEF MixedWith
<1>3. ASSUME NEW e, NEW g, Together(e, g)
      PROVE  Alike(AccumulateIn(e, first, before, second, after),
                   AccumulateIn(g, first, before, second, after))
  <2>1. Twins(e.s, g.s) /\ e.failure = g.failure
    BY <1>3 DEF Together
  <2>2. Alike(Refuse(e.s, e.failure), Refuse(g.s, e.failure)) /\ Alike(Refuse(e.s, "packet"), Refuse(g.s, "packet"))
    BY <2>1, ReportIsTwin
  <2>3. Alike(Accept(e.s, first), Accept(g.s, first)) /\ Alike(Accept(e.s, second), Accept(g.s, second))
    BY <2>1, AcceptIsTwin
  <2>4. Alike(MixedWith(SourceSnapshot(e.s, first), second), MixedWith(SourceSnapshot(g.s, first), second))
    BY <1>2, <2>1, SnapshotIsTwin
  <2>5. \/ e.failure # None
        \/ e.failure = None /\ after < before
        \/ e.failure = None /\ after >= before /\ before <= 0
        \/ e.failure = None /\ after = before /\ before > 0
        \/ e.failure = None /\ after > before /\ before > 0
    OBVIOUS
  <2>6. QED
    BY <2>1, <2>2, <2>3, <2>4, <2>5 DEF AccumulateIn
<1>4. QED
  BY <1>3, EpochIsTwin DEF SourceAccumulate

LEMMA GeneratedIsTwin ==
  ASSUME NEW s, NEW u, Twins(s, u), NEW seq, NEW instance, NEW transfer
  PROVE  Alike(CardGenerated(s, seq, instance, transfer), CardGenerated(u, seq, instance, transfer))
<1>1. ASSUME NEW t, NEW v, Twins(t, v), NEW source
      PROVE  Alike(Remember(t, instance, source), Remember(v, instance, source))
  <2>1. Twins([t EXCEPT !.prov.generated = Learn(@, instance, source)],
              [v EXCEPT !.prov.generated = Learn(@, instance, source)])
    BY <1>1, ForgetsAreTwins
  <2>2. Alike(Accept([t EXCEPT !.prov.generated = Learn(@, instance, source)], Number(1)),
              Accept([v EXCEPT !.prov.generated = Learn(@, instance, source)], Number(1)))
    BY <2>1, AcceptIsTwin
  <2>3. Alike(Refuse(t, "capacity"), Refuse(v, "capacity"))
    BY <1>1, ReportIsTwin
  <2>4. t.prov = v.prov
    BY <1>1 DEF Twins
  <2>5. QED
    BY <2>2, <2>3, <2>4 DEF Remember
<1>2. ASSUME NEW given, NEW other, Twins(given.s, other.s), given.source = other.source, NEW stage
      PROVE  Alike(GeneratedWith(given, stage, instance), GeneratedWith(other, stage, instance))
  <2> DEFINE c == Booked(given.s.current, stage)
  <2>1. given.s.current = other.s.current
    BY <1>2 DEF Twins
  <2>2. /\ [given.s EXCEPT !.current = Booked(@, stage)] = [given.s EXCEPT !.current = c]
        /\ [other.s EXCEPT !.current = Booked(@, stage)] = [other.s EXCEPT !.current = c]
    BY <2>1
  <2> HIDE DEF c
  <2>3. Twins([given.s EXCEPT !.current = c], [other.s EXCEPT !.current = c])
    BY <1>2, PartsAreTwins
  <2>4. Alike(Remember([given.s EXCEPT !.current = c], instance, given.source),
              Remember([other.s EXCEPT !.current = c], instance, given.source))
    BY <1>1, <2>3
  <2>5. Alike(Refuse(given.s, stage.failure), Refuse(other.s, stage.failure))
    BY <1>2, ReportIsTwin
  <2>6. QED
    BY <1>2, <2>2, <2>4, <2>5 DEF GeneratedWith
<1>3. ASSUME NEW given, NEW other, Together(given, other), Sourced(given, other)
      PROVE  Alike(GeneratedBy(given, instance), GeneratedBy(other, instance))
  <2>1. /\ Twins(given.s, other.s) /\ given.failure = other.failure /\ given.source = other.source
        /\ Stage(given.s) = Stage(other.s)
    BY <1>3 DEF Together, Sourced, Twins, Stage
  <2>2. /\ GeneratedBy(given, instance) =
             IF given.failure # None THEN Refuse(given.s, given.failure)
             ELSE GeneratedWith(given, Triggers(Stage(given.s), given.source), instance)
        /\ GeneratedBy(other, instance) =
             IF other.failure # None THEN Refuse(other.s, other.failure)
             ELSE GeneratedWith(other, Triggers(Stage(other.s), other.source), instance)
    BY DEF GeneratedBy
  <2>3. Alike(GeneratedWith(given, Triggers(Stage(given.s), given.source), instance),
              GeneratedWith(other, Triggers(Stage(given.s), given.source), instance))
    BY <1>2, <2>1
  <2>4. Alike(Refuse(given.s, given.failure), Refuse(other.s, given.failure))
    BY <2>1, ReportIsTwin
  <2>5. QED
    BY <2>1, <2>2, <2>3, <2>4
<1>4. ASSUME NEW e, NEW g, Together(e, g)
      PROVE  Alike(GeneratedIn(e, instance, transfer), GeneratedIn(g, instance, transfer))
  <2> DEFINE one == [e.s EXCEPT !.prov.generated = Forget(@, instance)]
             two == [g.s EXCEPT !.prov.generated = Forget(@, instance)]
  <2>1. Twins(e.s, g.s) /\ e.failure = g.failure
    BY <1>4 DEF Together
  <2>2. Twins(one, two)
    BY <2>1, ForgetsAreTwins
  <2>3. /\ GeneratedIn(e, instance, transfer) = IF e.failure # None THEN Refuse(e.s, e.failure)
                                                ELSE GeneratedBy(SourceSnapshot(one, transfer), instance)
        /\ GeneratedIn(g, instance, transfer) = IF g.failure # None THEN Refuse(g.s, g.failure)
                                                ELSE GeneratedBy(SourceSnapshot(two, transfer), instance)
    BY DEF GeneratedIn
  <2> HIDE DEF one, two
  <2>4. Alike(GeneratedBy(SourceSnapshot(one, transfer), instance),
              GeneratedBy(SourceSnapshot(two, transfer), instance))
    BY <1>3, <2>2, SnapshotIsTwin
  <2>5. Alike(Refuse(e.s, e.failure), Refuse(g.s, e.failure))
    BY <2>1, ReportIsTwin
  <2>6. QED
    BY <2>1, <2>3, <2>4, <2>5
<1>5. QED
  BY <1>4, EpochIsTwin DEF CardGenerated

LEMMA StartedIsTwin ==
  ASSUME NEW s, NEW u, Twins(s, u), NEW seq, NEW execution, NEW instance, NEW id,
         NEW player, NEW transfer,
         NEW generation \in {"unavailable", "ordinary", "recorded", "unclassified"}
  PROVE  Alike(CardPlayStarted(s, seq, execution, instance, id, player, generation, transfer),
               CardPlayStarted(u, seq, execution, instance, id, player, generation, transfer))
<1>1. ASSUME NEW t, NEW v, Twins(t, v), NEW play, NEW source
      PROVE  Alike(Open(t, play, source), Open(v, play, source))
  <2> DEFINE open(prov) == {q \in prov.plays : q.slot = play.slot}
             serial(prov) == prov.serial + 1
             opened(prov) == [serial |-> serial(prov), execution |-> play.execution,
                              slot |-> play.slot, source |-> source, orbUsed |-> FALSE]
             more(prov) == [prov EXCEPT !.serial = serial(prov), !.plays = @ \cup {opened(prov)}]
             larger(x) == [x EXCEPT !.prov.serial = serial(x.prov),
                                    !.prov.plays = @ \cup {opened(x.prov)}]
             full(prov) == \/ play.execution = 0 \/ play.instance = 0 \/ prov.serial = MaxPayload
                           \/ Cardinality(open(prov)) = MaxOpen
             token(prov) == Wire(prov.epoch, "play", serial(prov))
  <2>1. \A x : DOMAIN x = Fields => larger(x) = [x EXCEPT !.prov = more(x.prov)]
    BY DEF Fields
  <2>2. \A x : Open(x, play, source) =
                 IF full(x.prov) THEN Refuse(x, "capacity") ELSE Accept(larger(x), token(x.prov))
    BY DEF Open
  <2>3. t.prov = v.prov /\ DOMAIN t = Fields /\ DOMAIN v = Fields
    BY <1>1 DEF Twins
  <2> HIDE DEF more, larger, full, token
  <2>4. /\ Open(t, play, source) = IF full(t.prov) THEN Refuse(t, "capacity")
                                   ELSE Accept([t EXCEPT !.prov = more(t.prov)], token(t.prov))
        /\ Open(v, play, source) = IF full(t.prov) THEN Refuse(v, "capacity")
                                   ELSE Accept([v EXCEPT !.prov = more(t.prov)], token(t.prov))
    BY <2>1, <2>2, <2>3
  <2>5. Twins([t EXCEPT !.prov = more(t.prov)], [v EXCEPT !.prov = more(t.prov)])
    BY <1>1, PartsAreTwins
  <2>6. Alike(Accept([t EXCEPT !.prov = more(t.prov)], token(t.prov)),
              Accept([v EXCEPT !.prov = more(t.prov)], token(t.prov)))
    BY <2>5, AcceptIsTwin
  <2>7. Alike(Refuse(t, "capacity"), Refuse(v, "capacity"))
    BY <1>1, ReportIsTwin
  <2>8. QED
    BY <2>4, <2>6, <2>7
<1>2. ASSUME NEW found, NEW other, Sourced(found, other), NEW stage, NEW play
      PROVE  Alike(StartWith(found, stage, play), StartWith(other, stage, play))
  <2> DEFINE died == SlotIndex(found.s.died, play.slot)
  <2>1. Twins(found.s, other.s) /\ found.source = other.source /\ found.s.died = other.s.died
    BY <1>2 DEF Sourced, Twins
  <2>2. /\ StartWith(found, stage, play) =
             IF stage.failure # None THEN Refuse(found.s, stage.failure)
             ELSE Open([found.s EXCEPT !.current = stage.c, !.died = died], play, found.source)
        /\ StartWith(other, stage, play) =
             IF stage.failure # None THEN Refuse(other.s, stage.failure)
             ELSE Open([other.s EXCEPT !.current = stage.c, !.died = died], play, found.source)
    BY <2>1 DEF StartWith
  <2> HIDE DEF died
  <2>3. Twins([found.s EXCEPT !.current = stage.c, !.died = died],
              [other.s EXCEPT !.current = stage.c, !.died = died])
    BY <2>1, PartsAreTwins
  <2>4. Alike(Open([found.s EXCEPT !.current = stage.c, !.died = died], play, found.source),
              Open([other.s EXCEPT !.current = stage.c, !.died = died], play, found.source))
    BY <1>1, <2>3
  <2>5. Alike(Refuse(found.s, stage.failure), Refuse(other.s, stage.failure))
    BY <2>1, ReportIsTwin
  <2>6. QED
    BY <2>2, <2>4, <2>5
<1>3. ASSUME NEW found, NEW other, Sourced(found, other), NEW play
      PROVE  Alike(StartFrom(found, play), StartFrom(other, play))
  <2> DEFINE stage(first, source) ==
               LET played == Count(first, "plays")
               IN  IF play.generation \in {"recorded", "unavailable"} THEN Count(played, "generatedPlays")
                   ELSE RowPlay(played, CHOOSE to \in source : TRUE)
  <2>1. Stage(found.s) = Stage(other.s) /\ found.source = other.source
    BY <1>3 DEF Sourced, Twins, Stage
  <2>2. /\ StartFrom(found, play) = StartWith(found, stage(Stage(found.s), found.source), play)
        /\ StartFrom(other, play) = StartWith(other, stage(Stage(other.s), other.source), play)
    BY DEF StartFrom
  <2> HIDE DEF stage
  <2>3. Alike(StartWith(found, stage(Stage(found.s), found.source), play),
              StartWith(other, stage(Stage(found.s), found.source), play))
    BY <1>2, <1>3
  <2>4. QED
    BY <2>1, <2>2, <2>3
<1>4. ASSUME NEW given, NEW other, Together(given, other), Sourced(given, other),
             NEW play, play.generation = generation
      PROVE  Alike(StartBy(given, play), StartBy(other, play))
  <2>1. Twins(given.s, other.s) /\ given.failure = other.failure /\ given.source = other.source
    BY <1>4 DEF Together, Sourced
  <2>2. Sourced(CardSource(given.s, play.instance, play.id, play.slot, play.generation, given.source),
                CardSource(other.s, play.instance, play.id, play.slot, play.generation, given.source))
    BY <1>4, <2>1, CardSourceIsTwin
  <2>3. Alike(Refuse(given.s, given.failure), Refuse(other.s, given.failure))
    BY <2>1, ReportIsTwin
  <2>4. QED
    BY <1>3, <2>1, <2>2, <2>3 DEF StartBy
<1>5. ASSUME NEW e, NEW g, Together(e, g)
      PROVE  Alike(StartIn(e, execution, instance, id, player, generation, transfer),
                   StartIn(g, execution, instance, id, player, generation, transfer))
  <2> DEFINE play == [execution |-> execution, instance |-> instance, id |-> id,
                      slot |-> Slotted(e.s, player).slot, generation |-> generation]
             one == SourceSnapshot(Slotted(e.s, player).s, transfer)
             two == SourceSnapshot(Slotted(g.s, player).s, transfer)
  <2>1. Twins(e.s, g.s) /\ e.failure = g.failure
    BY <1>5 DEF Together
  <2>2. Twins(Slotted(e.s, player).s, Slotted(g.s, player).s)
        /\ Slotted(e.s, player).slot = Slotted(g.s, player).slot
    BY <2>1, SlottedIsTwin
  <2>3. Together(one, two) /\ Sourced(one, two)
    BY <2>2, SnapshotIsTwin
  <2>4. /\ StartIn(e, execution, instance, id, player, generation, transfer) =
             IF e.failure # None THEN Refuse(e.s, e.failure) ELSE StartBy(one, play)
        /\ StartIn(g, execution, instance, id, player, generation, transfer) =
             IF g.failure # None THEN Refuse(g.s, g.failure) ELSE StartBy(two, play)
    BY <2>2 DEF StartIn
  <2>5. play.generation = generation
    OBVIOUS
  <2> HIDE DEF one, two, play
  <2>6. Alike(StartBy(one, play), StartBy(two, play))
    BY <1>4, <2>3, <2>5
  <2>7. Alike(Refuse(e.s, e.failure), Refuse(g.s, e.failure))
    BY <2>1, ReportIsTwin
  <2>8. QED
    BY <2>1, <2>4, <2>6, <2>7
<1>6. QED
  BY <1>5, EpochIsTwin DEF CardPlayStarted

LEMMA FinishedIsTwin ==
  ASSUME NEW s, NEW u, Twins(s, u), NEW token, NEW seq, NEW execution
  PROVE  /\ Alike(CardPlayFinished(s, token), CardPlayFinished(u, token))
         /\ Alike(CardExecutionEnded(s, seq, execution), CardExecutionEnded(u, seq, execution))
<1>1. ASSUME NEW e, NEW g, Together(e, g), NEW serial
      PROVE  Alike(FinishIn(e, serial), FinishIn(g, serial))
  <2> DEFINE its(prov) == {p \in prov.plays : p.serial = serial}
             fewer(prov) == [prov EXCEPT !.plays = @ \ its(prov)]
             less(x) == [x EXCEPT !.prov.plays = @ \ its(x.prov)]
  <2>1. /\ Twins(e.s, g.s) /\ e.failure = g.failure /\ e.s.prov = g.s.prov
        /\ DOMAIN e.s = Fields /\ DOMAIN g.s = Fields
    BY <1>1 DEF Together, Twins
  <2>2. \A x : DOMAIN x = Fields => less(x) = [x EXCEPT !.prov = fewer(x.prov)]
    BY DEF Fields
  <2>3. \A x : FinishIn(x, serial) =
                 IF x.failure # None THEN Refuse(x.s, x.failure)
                 ELSE IF its(x.s.prov) = {} THEN Refuse(x.s, "source-handle")
                 ELSE Accept(less(x.s), Number(1))
    BY DEF FinishIn
  <2> HIDE DEF its, fewer, less
  <2>4. /\ FinishIn(e, serial) = IF e.failure # None THEN Refuse(e.s, e.failure)
                                 ELSE IF its(e.s.prov) = {} THEN Refuse(e.s, "source-handle")
                                 ELSE Accept([e.s EXCEPT !.prov = fewer(e.s.prov)], Number(1))
        /\ FinishIn(g, serial) = IF e.failure # None THEN Refuse(g.s, e.failure)
                                 ELSE IF its(e.s.prov) = {} THEN Refuse(g.s, "source-handle")
                                 ELSE Accept([g.s EXCEPT !.prov = fewer(e.s.prov)], Number(1))
    <3>1. less(e.s) = [e.s EXCEPT !.prov = fewer(e.s.prov)]
      BY <2>1, <2>2
    <3>2. less(g.s) = [g.s EXCEPT !.prov = fewer(e.s.prov)]
      BY <2>1, <2>2
    <3>3. QED
      BY <2>1, <2>3, <3>1, <3>2
  <2>5. Twins([e.s EXCEPT !.prov = fewer(e.s.prov)], [g.s EXCEPT !.prov = fewer(e.s.prov)])
    BY <2>1, PartsAreTwins
  <2>6. Alike(Accept([e.s EXCEPT !.prov = fewer(e.s.prov)], Number(1)),
              Accept([g.s EXCEPT !.prov = fewer(e.s.prov)], Number(1)))
    BY <2>5, AcceptIsTwin
  <2>7. \A failure : Alike(Refuse(e.s, failure), Refuse(g.s, failure))
    BY <2>1, ReportIsTwin
  <2>8. QED
    BY <2>4, <2>6, <2>7
<1>2. ASSUME NEW e, NEW g, Together(e, g)
      PROVE  Alike(EndIn(e, execution), EndIn(g, execution))
  <2> DEFINE fewer(prov) == [prov EXCEPT !.plays = {p \in @ : p.execution # execution}]
             less(x) == [x EXCEPT !.prov.plays = {p \in @ : p.execution # execution}]
  <2>1. /\ Twins(e.s, g.s) /\ e.failure = g.failure /\ e.s.prov = g.s.prov
        /\ DOMAIN e.s = Fields /\ DOMAIN g.s = Fields
    BY <1>2 DEF Together, Twins
  <2>2. \A x : DOMAIN x = Fields => less(x) = [x EXCEPT !.prov = fewer(x.prov)]
    BY DEF Fields
  <2>3. \A x : EndIn(x, execution) =
                 IF x.failure # None THEN Refuse(x.s, x.failure)
                 ELSE IF execution = 0 THEN Refuse(x.s, "packet")
                 ELSE Accept(less(x.s), Number(1))
    BY DEF EndIn
  <2> HIDE DEF fewer, less
  <2>4. /\ EndIn(e, execution) = IF e.failure # None THEN Refuse(e.s, e.failure)
                                 ELSE IF execution = 0 THEN Refuse(e.s, "packet")
                                 ELSE Accept([e.s EXCEPT !.prov = fewer(e.s.prov)], Number(1))
        /\ EndIn(g, execution) = IF e.failure # None THEN Refuse(g.s, e.failure)
                                 ELSE IF execution = 0 THEN Refuse(g.s, "packet")
                                 ELSE Accept([g.s EXCEPT !.prov = fewer(e.s.prov)], Number(1))
    <3>1. less(e.s) = [e.s EXCEPT !.prov = fewer(e.s.prov)]
      BY <2>1, <2>2
    <3>2. less(g.s) = [g.s EXCEPT !.prov = fewer(e.s.prov)]
      BY <2>1, <2>2
    <3>3. QED
      BY <2>1, <2>3, <3>1, <3>2
  <2>5. Twins([e.s EXCEPT !.prov = fewer(e.s.prov)], [g.s EXCEPT !.prov = fewer(e.s.prov)])
    BY <2>1, PartsAreTwins
  <2>6. Alike(Accept([e.s EXCEPT !.prov = fewer(e.s.prov)], Number(1)),
              Accept([g.s EXCEPT !.prov = fewer(e.s.prov)], Number(1)))
    BY <2>5, AcceptIsTwin
  <2>7. \A failure : Alike(Refuse(e.s, failure), Refuse(g.s, failure))
    BY <2>1, ReportIsTwin
  <2>8. QED
    BY <2>4, <2>6, <2>7
<1>3. Together(ProvenanceToken(s, token, "play"), ProvenanceToken(u, token, "play"))
  BY TokenIsTwin
<1>4. Together(ProvenanceEpoch(s, seq), ProvenanceEpoch(u, seq))
  BY EpochIsTwin
<1>5. QED
  BY <1>1, <1>2, <1>3, <1>4 DEF CardPlayFinished, CardExecutionEnded

LEMMA OrbIsTwin ==
  ASSUME NEW s, NEW u, Twins(s, u), NEW seq, NEW instance
  PROVE  /\ \A transfer : Alike(OrbChanneled(s, seq, instance, transfer),
                                OrbChanneled(u, seq, instance, transfer))
         /\ \A token, player : Alike(OrbContextBegin(s, seq, instance, token, player),
                                     OrbContextBegin(u, seq, instance, token, player))
<1>1. ASSUME NEW given, NEW other, Together(given, other), Sourced(given, other)
      PROVE  Alike(ChannelBy(given, instance), ChannelBy(other, instance))
  <2>1. /\ Twins(given.s, other.s) /\ given.failure = other.failure /\ given.source = other.source
        /\ given.s.prov = other.s.prov
    BY <1>1 DEF Together, Sourced, Twins
  <2>2. Twins([given.s EXCEPT !.prov.orbs = Learn(@, instance, given.source)],
              [other.s EXCEPT !.prov.orbs = Learn(@, instance, given.source)])
    BY <2>1, ForgetsAreTwins
  <2>3. Alike(Accept([given.s EXCEPT !.prov.orbs = Learn(@, instance, given.source)], Number(1)),
              Accept([other.s EXCEPT !.prov.orbs = Learn(@, instance, given.source)], Number(1)))
    BY <2>2, AcceptIsTwin
  <2>4. \A failure : Alike(Refuse(given.s, failure), Refuse(other.s, failure))
    BY <2>1, ReportIsTwin
  <2>5. QED
    BY <2>1, <2>3, <2>4 DEF ChannelBy
<1>2. ASSUME NEW e, NEW g, Together(e, g), NEW transfer
      PROVE  Alike(ChannelIn(e, instance, transfer), ChannelIn(g, instance, transfer))
  <2> DEFINE one == [e.s EXCEPT !.prov.orbs = Forget(@, instance)]
             two == [g.s EXCEPT !.prov.orbs = Forget(@, instance)]
  <2>1. Twins(e.s, g.s) /\ e.failure = g.failure
    BY <1>2 DEF Together
  <2>2. Twins(one, two)
    BY <2>1, ForgetsAreTwins
  <2>3. /\ ChannelIn(e, instance, transfer) = IF e.failure # None THEN Refuse(e.s, e.failure)
                                              ELSE ChannelBy(SourceSnapshot(one, transfer), instance)
        /\ ChannelIn(g, instance, transfer) = IF g.failure # None THEN Refuse(g.s, g.failure)
                                              ELSE ChannelBy(SourceSnapshot(two, transfer), instance)
    BY DEF ChannelIn
  <2> HIDE DEF one, two
  <2>4. Alike(ChannelBy(SourceSnapshot(one, transfer), instance),
              ChannelBy(SourceSnapshot(two, transfer), instance))
    BY <1>1, <2>2, SnapshotIsTwin
  <2>5. Alike(Refuse(e.s, e.failure), Refuse(g.s, e.failure))
    BY <2>1, ReportIsTwin
  <2>6. QED
    BY <2>1, <2>3, <2>4, <2>5
<1>3. ASSUME NEW t, NEW v, Together(t, v), NEW serial, NEW slot
      PROVE  Alike(ContextBy(t, serial, slot, instance), ContextBy(v, serial, slot, instance))
  <2> DEFINE its(prov) == {p \in prov.plays : p.serial = serial /\ p.slot = slot}
             used(prov) == [prov EXCEPT !.plays = (@ \ its(prov)) \cup {[p EXCEPT !.orbUsed = TRUE] : p \in its(prov)}]
             marked(x) == [x EXCEPT !.prov.plays =
                             (@ \ its(x.prov)) \cup {[p EXCEPT !.orbUsed = TRUE] : p \in its(x.prov)}]
             taken(prov) == \E p \in its(prov) : p.orbUsed
             channeler(prov) == Number(IF instance \in DOMAIN prov.orbs THEN 1 ELSE 0)
  <2>1. /\ Twins(t.s, v.s) /\ t.failure = v.failure /\ t.s.prov = v.s.prov
        /\ DOMAIN t.s = Fields /\ DOMAIN v.s = Fields
    BY <1>3 DEF Together, Twins
  <2>2. \A x : DOMAIN x = Fields => marked(x) = [x EXCEPT !.prov = used(x.prov)]
    BY DEF Fields
  <2>3. \A x : ContextBy(x, serial, slot, instance) =
                 IF x.failure # None THEN Refuse(x.s, x.failure)
                 ELSE IF its(x.s.prov) = {} THEN Refuse(x.s, "source-handle")
                 ELSE IF taken(x.s.prov) THEN Accept(x.s, Number(2))
                 ELSE Accept(marked(x.s), channeler(x.s.prov))
    BY DEF ContextBy, ContextOf, Channeler
  <2> HIDE DEF its, used, marked, taken, channeler
  <2>4. /\ ContextBy(t, serial, slot, instance) =
             IF t.failure # None THEN Refuse(t.s, t.failure)
             ELSE IF its(t.s.prov) = {} THEN Refuse(t.s, "source-handle")
             ELSE IF taken(t.s.prov) THEN Accept(t.s, Number(2))
             ELSE Accept([t.s EXCEPT !.prov = used(t.s.prov)], channeler(t.s.prov))
        /\ ContextBy(v, serial, slot, instance) =
             IF t.failure # None THEN Refuse(v.s, t.failure)
             ELSE IF its(t.s.prov) = {} THEN Refuse(v.s, "source-handle")
             ELSE IF taken(t.s.prov) THEN Accept(v.s, Number(2))
             ELSE Accept([v.s EXCEPT !.prov = used(t.s.prov)], channeler(t.s.prov))
    BY <2>1, <2>2, <2>3
  <2>5. Twins([t.s EXCEPT !.prov = used(t.s.prov)], [v.s EXCEPT !.prov = used(t.s.prov)])
    BY <2>1, PartsAreTwins
  <2>6. Alike(Accept([t.s EXCEPT !.prov = used(t.s.prov)], channeler(t.s.prov)),
              Accept([v.s EXCEPT !.prov = used(t.s.prov)], channeler(t.s.prov)))
    BY <2>5, AcceptIsTwin
  <2>7. \A failure : Alike(Refuse(t.s, failure), Refuse(v.s, failure))
    BY <2>1, ReportIsTwin
  <2>8. Alike(Accept(t.s, Number(2)), Accept(v.s, Number(2)))
    BY <2>1, AcceptIsTwin
  <2>9. QED
    BY <2>4, <2>6, <2>7, <2>8
<1>4. ASSUME NEW e, NEW g, Together(e, g), NEW token, NEW player
      PROVE  Alike(ContextIn(e, instance, token, player), ContextIn(g, instance, token, player))
  <2> DEFINE one == Slotted(e.s, player)
             two == Slotted(g.s, player)
             t == ProvenanceToken(one.s, token, "play")
             v == ProvenanceToken(two.s, token, "play")
  <2>1. Twins(e.s, g.s) /\ e.failure = g.failure /\ e.s.prov = g.s.prov
    BY <1>4 DEF Together, Twins
  <2>2. Twins(one.s, two.s) /\ one.slot = two.slot
    BY <2>1, SlottedIsTwin
  <2>3. Together(t, v)
    BY <2>2, TokenIsTwin
  <2>4. /\ ContextIn(e, instance, token, player) =
             IF e.failure # None THEN Refuse(e.s, e.failure)
             ELSE IF token = Zero THEN Accept(one.s, Channeler(e.s, instance))
             ELSE ContextBy(t, token.payload, one.slot, instance)
        /\ ContextIn(g, instance, token, player) =
             IF g.failure # None THEN Refuse(g.s, g.failure)
             ELSE IF token = Zero THEN Accept(two.s, Channeler(g.s, instance))
             ELSE ContextBy(v, token.payload, two.slot, instance)
    BY DEF ContextIn
  <2> HIDE DEF one, two, t, v
  <2>5. Channeler(g.s, instance) = Channeler(e.s, instance)
    BY <2>1 DEF Channeler
  <2>6. Alike(Accept(one.s, Channeler(e.s, instance)), Accept(two.s, Channeler(e.s, instance)))
    BY <2>2, AcceptIsTwin
  <2>7. Alike(ContextBy(t, token.payload, one.slot, instance),
              ContextBy(v, token.payload, one.slot, instance))
    BY <1>3, <2>3
  <2>8. Alike(Refuse(e.s, e.failure), Refuse(g.s, e.failure))
    BY <2>1, ReportIsTwin
  <2>9. QED
    BY <2>1, <2>2, <2>4, <2>5, <2>6, <2>7, <2>8
<1>5. Together(ProvenanceEpoch(s, seq), ProvenanceEpoch(u, seq))
  BY EpochIsTwin
<1>6. QED
  BY <1>2, <1>4, <1>5 DEF OrbChanneled, OrbContextBegin

LEMMA CountersAreTwins ==
  ASSUME NEW s, NEW u, Twins(s, u), NEW seq
  PROVE  /\ \A counter : Alike(Counted(s, seq, counter), Counted(u, seq, counter))
         /\ \A player : Alike(PlayerDied(s, seq, player), PlayerDied(u, seq, player))
         /\ \A op : Alike(Ledgered(s, seq, op), Ledgered(u, seq, op))
<1>1. ASSUME NEW e, NEW g, Together(e, g), NEW stage
      PROVE  Alike(CountIn(e, stage), CountIn(g, stage))
  <2>1. Twins(e.s, g.s) /\ e.failure = g.failure
    BY <1>1 DEF Together
  <2>2. \A failure : Alike(Refuse(e.s, failure), Refuse(g.s, failure))
    BY <2>1, ReportIsTwin
  <2>3. Twins([e.s EXCEPT !.current = stage.c], [g.s EXCEPT !.current = stage.c])
    BY <2>1, PartsAreTwins
  <2>4. Alike(Accept([e.s EXCEPT !.current = stage.c], Number(1)),
              Accept([g.s EXCEPT !.current = stage.c], Number(1)))
    BY <2>3, AcceptIsTwin
  <2>5. \A x : CountIn(x, stage) =
                 IF x.failure # None THEN Refuse(x.s, x.failure)
                 ELSE IF stage.failure # None THEN Refuse(x.s, stage.failure)
                 ELSE Accept([x.s EXCEPT !.current = stage.c], Number(1))
    BY DEF CountIn
  <2>6. QED
    BY <2>1, <2>2, <2>4, <2>5
<1>2. ASSUME NEW e, NEW g, Together(e, g), NEW player
      PROVE  Alike(DiedIn(e, player), DiedIn(g, player))
  <2> DEFINE one == Slotted(e.s, player)
             two == Slotted(g.s, player)
             died(had, slot) == [SlotIndex(had, slot) EXCEPT ![slot + 1] = TRUE]
  <2>1. Twins(e.s, g.s) /\ e.failure = g.failure
    BY <1>2 DEF Together
  <2>2. Twins(one.s, two.s) /\ one.slot = two.slot /\ one.s.died = two.s.died
    BY <2>1, SlottedIsTwin DEF Twins
  <2>3. /\ DiedIn(e, player) =
             IF e.failure # None THEN Refuse(e.s, e.failure)
             ELSE Accept([one.s EXCEPT !.died = died(one.s.died, one.slot)], Number(1))
        /\ DiedIn(g, player) =
             IF g.failure # None THEN Refuse(g.s, g.failure)
             ELSE Accept([two.s EXCEPT !.died = died(two.s.died, two.slot)], Number(1))
    BY DEF DiedIn, DeathOf
  <2> HIDE DEF one, two, died
  <2>4. Twins([one.s EXCEPT !.died = died(one.s.died, one.slot)],
              [two.s EXCEPT !.died = died(one.s.died, one.slot)])
    BY <2>2, PartsAreTwins
  <2>5. Alike(Accept([one.s EXCEPT !.died = died(one.s.died, one.slot)], Number(1)),
              Accept([two.s EXCEPT !.died = died(one.s.died, one.slot)], Number(1)))
    BY <2>4, AcceptIsTwin
  <2>6. Alike(Refuse(e.s, e.failure), Refuse(g.s, e.failure))
    BY <2>1, ReportIsTwin
  <2>7. QED
    BY <2>1, <2>2, <2>3, <2>5, <2>6
<1>3. ASSUME NEW e, NEW g, Together(e, g), NEW op
      PROVE  Alike(LedgerIn(e, seq, op), LedgerIn(g, seq, op))
  <2> DEFINE serial(prov) == Len(SelectSeq(prov.others, LAMBDA other : other = op)) + 1
             token(prov) == IF op \in Begins THEN Wire(seq, op, serial(prov)) ELSE Number(1)
             more(prov) == [prov EXCEPT !.others = Append(@, op)]
             larger(x) == [x EXCEPT !.prov.others = Append(@, op)]
  <2>1. /\ Twins(e.s, g.s) /\ e.failure = g.failure /\ e.s.prov = g.s.prov
        /\ DOMAIN e.s = Fields /\ DOMAIN g.s = Fields
    BY <1>3 DEF Together, Twins
  <2>2. \A x : DOMAIN x = Fields => larger(x) = [x EXCEPT !.prov = more(x.prov)]
    BY DEF Fields
  <2> HIDE DEF serial
  <2>3. \A x : LedgerIn(x, seq, op) =
                 IF x.failure # None THEN Refuse(x.s, x.failure)
                 ELSE IF Len(x.s.prov.others) = MaxCount THEN Refuse(x.s, "capacity")
                 ELSE Accept(larger(x.s), token(x.s.prov))
    BY DEF LedgerIn, serial
  <2> HIDE DEF token, more, larger
  <2>4. /\ LedgerIn(e, seq, op) =
             IF e.failure # None THEN Refuse(e.s, e.failure)
             ELSE IF Len(e.s.prov.others) = MaxCount THEN Refuse(e.s, "capacity")
             ELSE Accept([e.s EXCEPT !.prov = more(e.s.prov)], token(e.s.prov))
        /\ LedgerIn(g, seq, op) =
             IF e.failure # None THEN Refuse(g.s, e.failure)
             ELSE IF Len(e.s.prov.others) = MaxCount THEN Refuse(g.s, "capacity")
             ELSE Accept([g.s EXCEPT !.prov = more(e.s.prov)], token(e.s.prov))
    BY <2>1, <2>2, <2>3
  <2>5. Twins([e.s EXCEPT !.prov = more(e.s.prov)], [g.s EXCEPT !.prov = more(e.s.prov)])
    BY <2>1, PartsAreTwins
  <2>6. Alike(Accept([e.s EXCEPT !.prov = more(e.s.prov)], token(e.s.prov)),
              Accept([g.s EXCEPT !.prov = more(e.s.prov)], token(e.s.prov)))
    BY <2>5, AcceptIsTwin
  <2>7. \A failure : Alike(Refuse(e.s, failure), Refuse(g.s, failure))
    BY <2>1, ReportIsTwin
  <2>8. QED
    BY <2>4, <2>6, <2>7
<1>4. Together(ProvenanceEpoch(s, seq), ProvenanceEpoch(u, seq))
  BY EpochIsTwin
<1>5. Stage(s) = Stage(u)
  BY DEF Stage, Twins
<1>6. QED
  BY <1>1, <1>2, <1>3, <1>4, <1>5 DEF Counted, PlayerDied, Ledgered

LEMMA CombatsAreTwins ==
  ASSUME NEW s, NEW u, Twins(s, u), NEW seq
  PROVE  /\ Twins(Discarded(s), Discarded(u))
         /\ Alike(CombatEnded(s, seq), CombatEnded(u, seq))
         /\ \A count : Alike(CombatStarted(s, seq, count), CombatStarted(u, seq, count))
<1>1. Twins(Discarded(s), Discarded(u))
  BY DEF Discarded, Twins, Fields
<1>2. ASSUME NEW e, NEW g, Together(e, g)
      PROVE  Alike(EndCombatIn(e), EndCombatIn(g))
  <2> DEFINE ended(x) == [x EXCEPT !.current.phase = Phase(x), !.prov = NoProvenance,
                                   !.arena.entries = NoEntries]
             over(c, phase) == [c EXCEPT !.phase = phase]
             bare(arena) == [arena EXCEPT !.entries = NoEntries]
  <2>1. /\ Twins(e.s, g.s) /\ e.failure = g.failure
        /\ e.s.current = g.s.current /\ e.s.arena = g.s.arena /\ e.s.died = g.s.died
    BY <1>2 DEF Together, Twins
  <2>2. Phase(e.s) = Phase(g.s)
    BY <2>1 DEF Phase
  <2>3. \A x : EndCombatIn(x) = IF x.failure # None THEN Accept(x.s, Zero)
                                ELSE Accept(ended(x.s), Number(1))
    BY DEF EndCombatIn
  <2>4. ASSUME NEW x, DOMAIN x = Fields
        PROVE  /\ DOMAIN ended(x) = Fields /\ ended(x).current = over(x.current, Phase(x))
               /\ ended(x).prov = NoProvenance /\ ended(x).arena = bare(x.arena)
               /\ ended(x).died = x.died /\ ended(x).last = x.last
               /\ ended(x).coverage = x.coverage /\ ended(x).poisoned = x.poisoned
    BY <2>4 DEF Fields
  <2> HIDE DEF ended, over, bare
  <2>5. Twins(ended(e.s), ended(g.s))
    BY <2>1, <2>2, <2>4 DEF Twins
  <2>6. Alike(Accept(ended(e.s), Number(1)), Accept(ended(g.s), Number(1)))
    BY <2>5, AcceptIsTwin
  <2>7. Alike(Accept(e.s, Zero), Accept(g.s, Zero))
    BY <2>1, AcceptIsTwin
  <2>8. QED
    BY <2>1, <2>3, <2>6, <2>7
<1>3. ASSUME NEW count
      PROVE  Alike(CombatStarted(s, seq, count), CombatStarted(u, seq, count))
  <2> DEFINE refused == seq = 0 \/ seq <= s.last \/ (s.current # NoCombat /\ s.current.seq >= seq)
             x == CombatStarted(s, seq, count)
             y == CombatStarted(u, seq, count)
  <2>1. IF refused THEN x.s = Failed(s, "combat-epoch") /\ x.r = Zero
        ELSE Begun(x.s, seq, count) /\ x.r = Number(seq)
    BY StartBegins DEF Twins
  <2>2. refused <=> seq = 0 \/ seq <= u.last \/ (u.current # NoCombat /\ u.current.seq >= seq)
    BY DEF Twins
  <2>3. IF refused THEN y.s = Failed(u, "combat-epoch") /\ y.r = Zero
        ELSE Begun(y.s, seq, count) /\ y.r = Number(seq)
    BY <2>2, StartBegins DEF Twins
  <2>4. Twins(Failed(s, "combat-epoch"), Failed(u, "combat-epoch"))
    BY ReportIsTwin
  <2> HIDE DEF x, y, refused
  <2>5. CASE refused
    BY <2>1, <2>3, <2>4, <2>5 DEF Alike, x, y
  <2>6. CASE ~refused
    <3>1. Begun(x.s, seq, count) /\ Begun(y.s, seq, count) /\ x.r = y.r
      BY <2>1, <2>3, <2>6
    <3>2. Twins(x.s, y.s)
      BY <3>1 DEF Begun, Twins
    <3>3. QED
      BY <3>1, <3>2 DEF Alike, x, y
  <2>7. QED
    BY <2>5, <2>6
<1>4. QED
  BY <1>1, <1>2, <1>3, EpochIsTwin DEF CombatEnded

LEMMA ApplyIsTwin ==
  ASSUME NEW s, NEW u, Twins(s, u), NEW call \in AllCalls
  PROVE  Alike(Apply(s, call), Apply(u, call))
<1>1. CASE call.op = "source_release"
  <2>1. Apply(s, call) = SourceRelease(s, call.handle) /\ Apply(u, call) = SourceRelease(u, call.handle)
    BY <1>1, Dispatched DEF ApplySource, SourceOps
  <2>2. QED
    BY <2>1, SourcesAreTwins
<1>2. CASE call.op = "source_capture"
  <2> DEFINE capture(x) == SourceCapture(x, call.seq, call.id, 1, call.id, 0, "unclassified")
  <2>1. Apply(s, call) = capture(s) /\ Apply(u, call) = capture(u)
    BY <1>2, Dispatched DEF ApplySource, SourceOps
  <2>2. Alike(capture(s), capture(u))
    BY CaptureIsTwin
  <2>3. QED
    BY <2>1, <2>2
<1>3. CASE call.op = "source_accumulate"
  <2> DEFINE mixture(x) == SourceAccumulate(x, call.seq, call.first, call.before, call.second, call.after)
  <2>1. Apply(s, call) = mixture(s) /\ Apply(u, call) = mixture(u)
    BY <1>3, Dispatched DEF ApplySource, SourceOps
  <2>2. call \in AccumulateCalls
    BY <1>3 DEF AllCalls, ReleaseCalls, CaptureCalls, PowerCalls, CardCalls, OrbCalls, DamageCalls,
                SettlingCalls, BlockCalls, DoomCalls, CombatCalls, AccumulateCalls, WeakCalls,
                FailureCalls, DiscardCalls
  <2>3. call.before \in Int /\ call.after \in Int
    BY <2>2 DEF AccumulateCalls
  <2>4. Alike(mixture(s), mixture(u))
    BY <2>3, AccumulateIsTwin
  <2>5. QED
    BY <2>1, <2>4
<1>4. CASE call.op \in PlayOps
  <2>1. CASE call.op = "card_generated"
    <3>1. /\ Apply(s, call) = CardGenerated(s, call.seq, 1, call.source)
          /\ Apply(u, call) = CardGenerated(u, call.seq, 1, call.source)
      BY <2>1, Dispatched DEF ApplyPlay, PlayOps
    <3>2. QED
      BY <3>1, GeneratedIsTwin
  <2>2. CASE call.op = "card_play_started"
    <3> DEFINE started(x) == CardPlayStarted(x, call.seq, 1, 1, "CARD", 0, call.generation, call.source)
    <3>1. Apply(s, call) = started(s) /\ Apply(u, call) = started(u)
      BY <2>2, Dispatched DEF ApplyPlay, PlayOps
    <3>2. call \in CardCalls
      BY <2>2 DEF AllCalls, ReleaseCalls, CaptureCalls, PowerCalls, CardCalls, OrbCalls, DamageCalls,
                  SettlingCalls, BlockCalls, DoomCalls, CombatCalls, AccumulateCalls, WeakCalls,
                  FailureCalls, DiscardCalls
    <3>3. call.generation \in {"unavailable", "ordinary", "recorded", "unclassified"}
      BY <2>2, <3>2 DEF CardCalls
    <3>4. Alike(started(s), started(u))
      BY <3>3, StartedIsTwin
    <3>5. QED
      BY <3>1, <3>4
  <2>3. CASE call.op = "card_play_finished"
    <3>1. /\ Apply(s, call) = CardPlayFinished(s, call.play)
          /\ Apply(u, call) = CardPlayFinished(u, call.play)
      BY <2>3, Dispatched DEF ApplyPlay, PlayOps
    <3>2. QED
      BY <3>1, FinishedIsTwin
  <2>4. CASE call.op = "card_execution_ended"
    <3>1. /\ Apply(s, call) = CardExecutionEnded(s, call.seq, 1)
          /\ Apply(u, call) = CardExecutionEnded(u, call.seq, 1)
      BY <2>4, Dispatched DEF ApplyPlay, PlayOps
    <3>2. QED
      BY <3>1, FinishedIsTwin
  <2>5. CASE call.op = "orb_channeled"
    <3>1. /\ Apply(s, call) = OrbChanneled(s, call.seq, 1, call.source)
          /\ Apply(u, call) = OrbChanneled(u, call.seq, 1, call.source)
      BY <2>5, Dispatched DEF ApplyPlay, PlayOps
    <3>2. QED
      BY <3>1, OrbIsTwin
  <2>6. CASE call.op = "orb_context_begin"
    <3>1. /\ Apply(s, call) = OrbContextBegin(s, call.seq, 1, call.play, 0)
          /\ Apply(u, call) = OrbContextBegin(u, call.seq, 1, call.play, 0)
      BY <2>6, Dispatched DEF ApplyPlay, PlayOps
    <3>2. QED
      BY <3>1, OrbIsTwin
  <2>7. QED
    BY <1>4, <2>1, <2>2, <2>3, <2>4, <2>5, <2>6 DEF PlayOps
<1>5. CASE call.op \in CombatOps
  <2>1. CASE call.op = "combat_started"
    <3>1. /\ Apply(s, call) = CombatStarted(s, call.seq, call.players)
          /\ Apply(u, call) = CombatStarted(u, call.seq, call.players)
      BY <2>1, Dispatched DEF ApplyCombat, CombatOps
    <3>2. QED
      BY <3>1, CombatsAreTwins
  <2>2. CASE call.op = "combat_ended"
    <3>1. /\ Apply(s, call) = CombatEnded(s, call.seq)
          /\ Apply(u, call) = CombatEnded(u, call.seq)
      BY <2>2, Dispatched DEF ApplyCombat, CombatOps
    <3>2. QED
      BY <3>1, CombatsAreTwins
  <2>3. CASE call.op = "turn_started"
    <3>1. /\ Apply(s, call) = Counted(s, call.seq, "turns")
          /\ Apply(u, call) = Counted(u, call.seq, "turns")
      BY <2>3, Dispatched DEF ApplyCombat, CombatOps
    <3>2. QED
      BY <3>1, CountersAreTwins
  <2>4. CASE call.op = "potion_used"
    <3>1. /\ Apply(s, call) = Counted(s, call.seq, "potions")
          /\ Apply(u, call) = Counted(u, call.seq, "potions")
      BY <2>4, Dispatched DEF ApplyCombat, CombatOps
    <3>2. QED
      BY <3>1, CountersAreTwins
  <2>5. CASE call.op = "player_died"
    <3>1. /\ Apply(s, call) = PlayerDied(s, call.seq, call.player)
          /\ Apply(u, call) = PlayerDied(u, call.seq, call.player)
      BY <2>5, Dispatched DEF ApplyCombat, CombatOps
    <3>2. QED
      BY <3>1, CountersAreTwins
  <2>6. QED
    BY <1>5, <2>1, <2>2, <2>3, <2>4, <2>5 DEF CombatOps
<1>6. CASE call.op \in HostOps
  <2>1. CASE call.op = "weak_prevention"
    <3>1. /\ Apply(s, call) = WeakPrevention(s, call.valid, 1)
          /\ Apply(u, call) = WeakPrevention(u, call.valid, 1)
      BY <2>1, Dispatched DEF ApplyHost, HostOps
    <3>2. Twins(Failed(s, "weak-policy"), Failed(u, "weak-policy"))
      BY ReportIsTwin
    <3>3. /\ Alike(Accept(Failed(s, "weak-policy"), Number(-1)), Accept(Failed(u, "weak-policy"), Number(-1)))
          /\ Alike(Accept(s, Number(1)), Accept(u, Number(1)))
      BY <3>2, AcceptIsTwin
    <3>4. QED
      BY <3>1, <3>3 DEF WeakPrevention
  <2>2. CASE call.op = "capture_failed"
    <3>1. /\ Apply(s, call) = Accept(Failed(s, call.reason), Zero)
          /\ Apply(u, call) = Accept(Failed(u, call.reason), Zero)
      BY <2>2, Dispatched DEF ApplyHost, HostOps
    <3>2. QED
      BY <3>1, ReportIsTwin, AcceptIsTwin
  <2>3. CASE call.op = "combat_discard"
    <3>1. /\ Apply(s, call) = Accept(Discarded(s), Zero)
          /\ Apply(u, call) = Accept(Discarded(u), Zero)
      BY <2>3, Dispatched DEF ApplyHost, HostOps
    <3>2. QED
      BY <3>1, CombatsAreTwins, AcceptIsTwin
  <2>4. QED
    BY <1>6, <2>1, <2>2, <2>3 DEF HostOps
<1>7. CASE call.op \notin UNION {SourceOps, PlayOps, CombatOps, HostOps}
  <2>1. /\ Apply(s, call) = Ledgered(s, call.seq, call.op)
        /\ Apply(u, call) = Ledgered(u, call.seq, call.op)
    BY <1>7, Dispatched
  <2>2. QED
    BY <2>1, CountersAreTwins
<1>8. QED
  BY <1>1, <1>2, <1>3, <1>4, <1>5, <1>6, <1>7 DEF SourceOps
----------------------------------------------------------------------------
\* A recording of one entry more is told as it was, and then that entry.
LEMMA PrefixIsTold ==
  ASSUME NEW observations, Recorded(observations), NEW entry, NEW f, NEW g,
         ToldBy(f, observations, Len(observations)),
         ToldBy(g, Append(observations, entry), Len(observations) + 1)
  PROVE  \A i \in 0..Len(observations) : g[i] = f[i]
<1> DEFINE N == Len(observations)
           longer == Append(observations, entry)
           T == {i \in Nat : i \in 0..N => g[i] = f[i]}
<1>1. PICK R : observations \in Seq(R)
  BY DEF Recorded
<1>2. N \in Nat /\ \A i \in 1..N : longer[i] = observations[i]
  BY <1>1
<1>3. 0 \in T
  BY <1>2 DEF ToldBy
<1>4. ASSUME NEW i \in Nat, i \in T
      PROVE  i + 1 \in T
  <2>1. SUFFICES ASSUME i + 1 \in 0..N PROVE g[i + 1] = f[i + 1]
    OBVIOUS
  <2>2. i \in 0..N /\ i + 1 \in 1..N /\ i + 1 \in 1..(N + 1) /\ (i + 1) - 1 = i /\ N + 1 \in Nat
    BY <1>2, <2>1
  <2>3. g[i] = f[i]
    BY <1>4, <2>2
  <2>4. f[i + 1] = ToldMore(f[i], observations, i + 1)
    BY <1>2, <2>2, ToldStep
  <2>5. g[i + 1] = ToldMore(g[i], longer, i + 1)
    BY <1>2, <2>2, ToldStep
  <2>6. longer[i + 1] = observations[i + 1]
    BY <1>2, <2>2
  <2>7. SubSeq(longer, 1, i) = SubSeq(observations, 1, i)
    <3>1. \A j \in 1..i : longer[j] = observations[j]
      BY <1>2, <2>2
    <3>2. /\ SubSeq(longer, 1, i) = [j \in 1..i |-> longer[j]]
          /\ SubSeq(observations, 1, i) = [j \in 1..i |-> observations[j]]
      BY <1>1, <1>2, <2>2
    <3>3. QED
      BY <3>1, <3>2
  <2>8. ToldMore(g[i], longer, i + 1) = ToldMore(f[i], observations, i + 1)
    BY <2>2, <2>3, <2>6, <2>7 DEF ToldMore
  <2>9. QED
    BY <2>4, <2>5, <2>8
<1> HIDE DEF T
<1>5. Nat \subseteq T
  BY <1>3, <1>4, AllNumbers
<1>6. QED
  BY <1>2, <1>5 DEF T

LEMMA ToldIsLast ==
  ASSUME NEW observations, Len(observations) \in Nat
  PROVE  \E f : ToldBy(f, observations, Len(observations)) /\ Told(observations) = f[Len(observations)]
<1> DEFINE told == CHOOSE f : ToldBy(f, observations, Len(observations))
<1>1. ToldBy(told, observations, Len(observations))
  BY ToldExists
<1>2. Told(observations) = told[Len(observations)]
  BY DEF Told, ToldBy
<1>3. QED
  BY <1>1, <1>2

LEMMA ToldOfMore ==
  ASSUME NEW observations, Recorded(observations), NEW entry
  PROVE  Told(Append(observations, entry)) =
           Tell(Told(observations), Apply(Told(observations).s, entry.call), entry, Fits(observations, entry))
<1> DEFINE N == Len(observations)
           longer == Append(observations, entry)
<1>1. PICK R : observations \in Seq(R)
  BY DEF Recorded
<1>2. /\ N \in Nat /\ Len(longer) = N + 1 /\ N + 1 \in 1..(N + 1) /\ (N + 1) - 1 = N
      /\ longer[N + 1] = entry
  BY <1>1
<1>3. PICK f : ToldBy(f, observations, N) /\ Told(observations) = f[N]
  BY <1>2, ToldIsLast
<1>4. PICK g : ToldBy(g, longer, N + 1) /\ Told(longer) = g[N + 1]
  <2> HIDE DEF longer, N
  <2>1. Len(longer) \in Nat
    BY <1>2
  <2>2. \E g : ToldBy(g, longer, Len(longer)) /\ Told(longer) = g[Len(longer)]
    BY <2>1, ToldIsLast
  <2>3. QED
    BY <1>2, <2>2
<1>5. g[N] = f[N]
  BY <1>2, <1>3, <1>4, PrefixIsTold
<1>6. g[N + 1] = ToldMore(g[N], longer, N + 1)
  BY <1>2, <1>4, ToldStep
<1>7. SubSeq(longer, 1, N) = observations
  <2>1. SubSeq(longer, 1, N) = [j \in 1..N |-> longer[j]]
    BY <1>1, <1>2
  <2>2. observations = [j \in 1..N |-> observations[j]]
    BY <1>1
  <2>3. \A j \in 1..N : longer[j] = observations[j]
    BY <1>1
  <2>4. QED
    BY <2>1, <2>2, <2>3
<1> HIDE DEF longer, N
<1>8. ToldMore(g[N], longer, N + 1) =
        Tell(f[N], Apply(f[N].s, entry.call), entry, Fits(observations, entry))
  BY <1>2, <1>5, <1>7 DEF ToldMore
<1>9. QED
  BY <1>3, <1>4, <1>6, <1>8 DEF longer

LEMMA ToldOfNone == Told(<< >>) = [s |-> Fresh, ok |-> TRUE]
<1>1. Len(<< >>) = 0 /\ 0 \in Nat
  OBVIOUS
<1>2. PICK f : ToldBy(f, << >>, 0) /\ Told(<< >>) = f[0]
  BY <1>1, ToldIsLast
<1>3. f[0] = [s |-> Fresh, ok |-> TRUE]
  BY <1>2 DEF ToldBy
<1>4. QED
  BY <1>2, <1>3

----------------------------------------------------------------------------
\* A State and what a replay of its recording has come to.
Follows(s, recording) ==
  recording.on /\ ~recording.truncated /\ Newer(recording) =>
    LET told == Told(recording.observations)
    IN  /\ told.ok
        /\ IF Starts(recording.observations) = {}
           THEN Shut(s, recording.from) /\ Shut(told.s, 0)
           ELSE Twins(s, told.s)

\* The combats that are started in a recording of one entry more.
LEMMA StartsOfMore ==
  ASSUME NEW observations, Recorded(observations), NEW entry
  PROVE  /\ Starts(Append(observations, entry)) =
              IF entry.call.op = "combat_started" /\ entry.call.seq # 0
              THEN Starts(observations) \cup {Len(observations) + 1} ELSE Starts(observations)
         /\ \A i \in Starts(observations) : Append(observations, entry)[i] = observations[i]
         /\ Append(observations, entry)[Len(observations) + 1] = entry
<1>1. PICK R : observations \in Seq(R)
  BY DEF Recorded
<1> DEFINE longer == Append(observations, entry)
           n == Len(observations) + 1
<1>2. /\ n \notin DOMAIN observations /\ DOMAIN longer = DOMAIN observations \cup {n}
      /\ \A i \in DOMAIN observations : longer[i] = observations[i]
      /\ longer[n] = entry
  BY <1>1
<1> HIDE DEF longer, n
<1>3. QED
  BY <1>2 DEF Starts, longer, n

LEMMA RecordFollows ==
  ASSUME NEW s, NEW recording, Supplied(s), IsRecording(recording),
         recording.on => recording.from \in Nat, Follows(s, recording), NEW call \in AllCalls
  PROVE  Follows(Apply(s, call).s, Record(recording, call, Apply(s, call).r))
<1> DEFINE u == Apply(s, call)
           after == Record(recording, call, u.r)
           entry == [call |-> call, r |-> u.r]
           observations == recording.observations
           longer == Append(observations, entry)
<1>1. SUFFICES ASSUME after.on, ~after.truncated, Newer(after)
               PROVE  LET told == Told(after.observations)
                      IN  /\ told.ok
                          /\ IF Starts(after.observations) = {}
                             THEN Shut(u.s, after.from) /\ Shut(told.s, 0)
                             ELSE Twins(u.s, told.s)
  BY DEF Follows
<1>2. /\ recording.on /\ ~recording.truncated /\ Fits(observations, entry)
      /\ after.observations = longer /\ after.from = recording.from
      /\ Recorded(observations)
  <2>1. CASE recording = NoRecording
    BY <1>1, <2>1 DEF Record, NoRecording
  <2>2. CASE DOMAIN recording = RecordingFields /\ recording.on = TRUE /\ Recorded(observations)
    <3>1. CASE recording.truncated
      BY <1>1, <2>2, <3>1 DEF Record
    <3>2. CASE ~recording.truncated /\ ~Fits(observations, entry)
      <4>1. after = [recording EXCEPT !.truncated = TRUE]
        BY <2>2, <3>2 DEF Record
      <4>2. [recording EXCEPT !.truncated = TRUE].truncated = TRUE
        BY <2>2 DEF RecordingFields
      <4>3. QED
        BY <1>1, <4>1, <4>2
    <3>3. CASE ~recording.truncated /\ Fits(observations, entry)
      <4>1. after = [recording EXCEPT !.observations = longer]
        BY <2>2, <3>3 DEF Record
      <4>2. /\ [recording EXCEPT !.observations = longer].observations = longer
            /\ [recording EXCEPT !.observations = longer].from = recording.from
        BY <2>2 DEF RecordingFields
      <4>3. QED
        BY <2>2, <3>3, <4>1, <4>2
    <3>4. QED
      BY <3>1, <3>2, <3>3
  <2>3. QED
    BY <2>1, <2>2 DEF IsRecording
<1> DEFINE told == Told(observations)
           v == Apply(told.s, call)
           n == Len(observations) + 1
           starts == call.op = "combat_started" /\ call.seq # 0
<1>3. entry.call = call /\ entry.r = u.r
  OBVIOUS
<1> HIDE DEF entry
<1>4. Told(longer).s = v.s /\ (told.ok /\ v.r = u.r => Told(longer).ok)
  <2>1. Told(longer) = Tell(told, v, entry, Fits(observations, entry))
    BY <1>2, <1>3, ToldOfMore
  <2> HIDE DEF u, told, v, observations
  <2>2. Told(longer) = [s |-> v.s, ok |-> told.ok /\ Fits(observations, entry) /\ v.r = u.r]
    BY <1>3, <2>1 DEF Tell
  <2>3. ASSUME told.ok, v.r = u.r
        PROVE  Told(longer) = [s |-> v.s, ok |-> TRUE]
    BY <1>2, <2>2, <2>3
  <2>4. QED
    BY <2>2, <2>3
<1>5. /\ Starts(longer) = IF starts THEN Starts(observations) \cup {n} ELSE Starts(observations)
      /\ \A i \in Starts(observations) : longer[i] = observations[i]
      /\ longer[n].call = call
  <2>1. /\ Starts(longer) = IF entry.call.op = "combat_started" /\ entry.call.seq # 0
                            THEN Starts(observations) \cup {n} ELSE Starts(observations)
        /\ \A i \in Starts(observations) : longer[i] = observations[i]
        /\ longer[n] = entry
    <3> HIDE DEF observations
    <3>1. Recorded(observations)
      BY <1>2
    <3>2. QED
      BY <3>1, StartsOfMore
  <2>2. QED
    BY <1>3, <2>1
<1>6. Supplied(told.s)
  <2>1. PICK R : observations \in Seq(R) /\ \A e \in R : e.call \in AllCalls
    BY <1>2 DEF Recorded
  <2>2. Entries(observations)
    BY <2>1 DEF Entries
  <2>3. QED
    BY <2>2, ToldIsSupplied
<1> HIDE DEF u, after, longer, observations, told, v, n
<1>7. \A i \in Starts(longer) : longer[i].call.seq > recording.from
  BY <1>1, <1>2 DEF Newer
<1>8. Newer(recording)
  BY <1>5, <1>7 DEF Newer, observations
<1>9. told.ok /\ IF Starts(observations) = {} THEN Shut(s, recording.from) /\ Shut(told.s, 0)
                 ELSE Twins(s, told.s)
  BY <1>2, <1>8 DEF Follows, told, observations
<1>10. SUFFICES u.r = v.r /\ IF Starts(longer) = {} THEN Shut(u.s, recording.from) /\ Shut(v.s, 0)
                            ELSE Twins(u.s, v.s)
  BY <1>2, <1>4, <1>9
<1>11. CASE Starts(observations) # {}
  <2>1. Alike(u, v)
    BY <1>9, <1>11, ApplyIsTwin DEF u, v
  <2>2. Starts(longer) # {}
    BY <1>5, <1>11
  <2>3. QED
    BY <2>1, <2>2 DEF Alike
<1>12. CASE Starts(observations) = {} /\ ~starts
  <2>1. Starts(longer) = {}
    BY <1>5, <1>12
  <2>2. Shut(u.s, recording.from) /\ u.r = Answer(call)
    BY <1>9, <1>12, ApplyIsShut DEF u
  <2>3. Shut(v.s, 0) /\ v.r = Answer(call)
    BY <1>9, <1>12, ApplyIsShut DEF v
  <2>4. QED
    BY <2>1, <2>2, <2>3
<1>13. CASE Starts(observations) = {} /\ starts
  <2>1. n \in Starts(longer)
    BY <1>5, <1>13
  <2>2. call.seq \in Nat /\ call.seq > recording.from /\ call.seq > 0 /\ recording.from \in Nat
    <3>1. call.seq \in Nat
      BY <1>13, StartedIsNumbered
    <3>2. longer[n].call.seq > recording.from
      BY <1>7, <2>1
    <3>3. call.seq > recording.from
      BY <1>5, <3>2
    <3>4. QED
      BY <1>2, <1>13, <3>1, <3>3
  <2>3. s.last = recording.from /\ s.current.seq \in 0..recording.from /\ DOMAIN s = Fields
    BY <1>9, <1>13 DEF Shut, Supplied, Lean
  <2>4. told.s.last = 0 /\ told.s.current.seq \in 0..0 /\ DOMAIN told.s = Fields
    BY <1>6, <1>9, <1>13 DEF Shut, Supplied, Lean
  <2>5. u = CombatStarted(s, call.seq, call.players) /\ v = CombatStarted(told.s, call.seq, call.players)
    BY <1>13, Dispatched DEF ApplyCombat, CombatOps, u, v
  <2>6. ~(call.seq = 0 \/ call.seq <= s.last \/ (s.current # NoCombat /\ s.current.seq >= call.seq))
    BY <2>2, <2>3
  <2>7. Begun(u.s, call.seq, call.players) /\ u.r = Number(call.seq)
    BY <2>3, <2>5, <2>6, StartBegins
  <2>8. ~(call.seq = 0 \/ call.seq <= told.s.last
            \/ (told.s.current # NoCombat /\ told.s.current.seq >= call.seq))
    BY <2>2, <2>4
  <2>9. Begun(v.s, call.seq, call.players) /\ v.r = Number(call.seq)
    BY <2>4, <2>5, <2>8, StartBegins
  <2>10. Twins(u.s, v.s)
    BY <2>7, <2>9 DEF Begun, Twins
  <2>11. QED
    BY <2>1, <2>7, <2>9, <2>10
<1>14. QED
  BY <1>11, <1>12, <1>13

Followed(engine) ==
  /\ engine.recording.on => engine.recording.from \in Nat
  /\ Follows(engine.state, engine.recording)

LEMMA CalledIsFollowed ==
  ASSUME NEW engine, IsEngine(engine), Earned(engine), Followed(engine), NEW call \in AllCalls
  PROVE  Followed(Called(Entered(engine), call))
<1> DEFINE s == [engine.state EXCEPT !.revision = @ + 1]
           u == Apply(s, call)
           recording == engine.recording
           after == Record(recording, call, u.r)
<1>1. /\ Entered(engine).state = s /\ Entered(engine).recording = recording
      /\ DOMAIN engine.state = Fields /\ IsRecording(recording)
  BY DEF Entered, IsEngine, Earned, Supplied, Lean
<1>2. Called(Entered(engine), call) = [state |-> u.s, recording |-> after]
  BY <1>1 DEF Called, Answered
<1>3. Supplied(s)
  BY <1>1, EnteredIsEarned
<1>4. Follows(s, recording)
  <2>1. Follows(engine.state, recording)
    BY DEF Followed
  <2>2. \A n : Shut(engine.state, n) => Shut(s, n)
    BY <1>1 DEF Shut, Fields, Active
  <2>3. \A v : Twins(engine.state, v) => Twins(s, v)
    BY <1>1 DEF Twins, Fields
  <2> HIDE DEF s
  <2>4. QED
    BY <2>1, <2>2, <2>3 DEF Follows
<1> HIDE DEF s
<1>5. recording.on => recording.from \in Nat
  BY DEF Followed
<1>6. Follows(u.s, after)
  BY <1>1, <1>3, <1>4, <1>5, RecordFollows
<1>7. after.on => after.from \in Nat
  <2>1. CASE recording = NoRecording
    BY <2>1 DEF Record, NoRecording
  <2>2. CASE DOMAIN recording = RecordingFields /\ recording.on = TRUE
    <3> DEFINE entry == [call |-> call, r |-> u.r]
               longer == [recording EXCEPT !.observations = Append(@, entry)]
               ended == [recording EXCEPT !.truncated = TRUE]
    <3>1. longer.from = recording.from /\ ended.from = recording.from
      BY <2>2 DEF RecordingFields
    <3>2. after \in {recording, longer, ended}
      BY DEF Record
    <3> HIDE DEF after, longer, ended
    <3>3. QED
      BY <1>5, <2>2, <3>1, <3>2
  <2>3. QED
    BY <1>1, <2>1, <2>2 DEF IsRecording
<1> HIDE DEF u, after
<1>8. QED
  BY <1>2, <1>6, <1>7 DEF Followed

LEMMA BegunIsFollowed ==
  ASSUME NEW engine, IsEngine(engine), Earned(engine), ~Active(engine.state)
  PROVE  Followed([engine EXCEPT !.recording = NewRecording(engine.state)])
<1> DEFINE begun == NewRecording(engine.state)
<1>1. /\ [engine EXCEPT !.recording = begun].state = engine.state
      /\ [engine EXCEPT !.recording = begun].recording = begun
  BY DEF IsEngine
<1>2. begun.observations = << >> /\ begun.from = engine.state.last
  BY DEF NewRecording
<1> HIDE DEF begun
<1>3. begun.from \in Nat /\ Shut(engine.state, begun.from)
  BY <1>2 DEF Earned, Supplied, Lean, Shut
<1>4. Shut(Fresh, 0)
  BY DEF Shut, Fresh, Fields, Active, NoCombat, None
<1>5. Starts(<< >>) = {}
  BY DEF Starts
<1>6. Told(<< >>).s = Fresh /\ Told(<< >>).ok
  BY ToldOfNone
<1>7. Follows(engine.state, begun)
  BY <1>2, <1>3, <1>4, <1>5, <1>6 DEF Follows
<1>8. QED
  BY <1>1, <1>3, <1>7 DEF Followed, begun

\* An engine that panics or is replayed into has no recording that could be replayed.
LEMMA OthersAreFollowed ==
  ASSUME NEW engine, IsEngine(engine), Followed(engine)
  PROVE  /\ \A s : Followed(Guarded([Entered(engine) EXCEPT !.state = s]))
         /\ Followed(Guarded(engine))
         /\ \A trace : Followed(Replayed(engine, trace))
<1>1. \A s : Followed([state |-> s, recording |-> NoRecording])
  BY DEF Followed, Follows, NoRecording
<1>2. ASSUME NEW s
      PROVE  Followed(Guarded([Entered(engine) EXCEPT !.state = s]))
  <2> DEFINE failed == Failed([s EXCEPT !.poisoned = TRUE], "native-panic")
             ended == [engine.recording EXCEPT !.truncated = TRUE, !.panicked = TRUE]
             after == Guarded([Entered(engine) EXCEPT !.state = s])
  <2>1. after = [state |-> failed, recording |-> IF engine.recording.on THEN ended ELSE NoRecording]
    BY DEF Guarded, Entered, IsEngine
  <2> HIDE DEF failed
  <2>2. CASE ~engine.recording.on
    BY <1>1, <2>1, <2>2
  <2>3. CASE engine.recording.on
    <3>1. DOMAIN engine.recording = RecordingFields
      BY <2>3 DEF IsEngine, IsRecording, NoRecording
    <3>2. ended.truncated = TRUE /\ ended.from = engine.recording.from
      BY <3>1 DEF RecordingFields
    <3> HIDE DEF ended, after
    <3>3. engine.recording.from \in Nat
      BY <2>3 DEF Followed
    <3>4. Followed(after)
      BY <2>1, <2>3, <3>2, <3>3 DEF Followed, Follows
    <3>5. QED
      BY <3>4 DEF after
  <2>4. QED
    BY <2>2, <2>3
<1>3. ASSUME NEW trace
      PROVE  Followed(Replayed(engine, trace))
  <2>1. \/ Replayed(engine, trace) = engine
        \/ \E s : Replayed(engine, trace) = [state |-> s, recording |-> NoRecording]
    BY DEF Replayed, Published
  <2>2. QED
    BY <1>1, <2>1
<1>4. Followed(Guarded(engine))
  <2>1. Guarded(engine) = Guarded([Entered(engine) EXCEPT !.state = engine.state])
    BY DEF Guarded, Entered, IsEngine
  <2>2. QED
    BY <1>2, <2>1
<1>5. QED
  BY <1>2, <1>3, <1>4

FollowedInv == \A t \in Threads : \A id \in DOMAIN engines[t] : Followed(engines[t][id])

LEMMA NextIsFollowed ==
  ASSUME CacheInv, EarnedInv, FollowedInv, [Next]_vars
  PROVE  FollowedInv'
<1>1. Stepped
  BY NextIsStep
<1>2. Followed([state |-> Fresh, recording |-> NoRecording])
  BY DEF Followed, Follows, NoRecording
<1>3. ASSUME NEW before, IsEngine(before), Earned(before), Followed(before),
             NEW after, Steps(before, after)
      PROVE  Followed(after)
  <2>1. ASSUME NEW call \in AllCalls, after = Called(Entered(before), call)
        PROVE  Followed(after)
    BY <1>3, <2>1, CalledIsFollowed
  <2>2. CASE \E s : after = Guarded([Entered(before) EXCEPT !.state = s])
    BY <1>3, <2>2, OthersAreFollowed
  <2>3. CASE ~Active(before.state) /\ after = [before EXCEPT !.recording = NewRecording(before.state)]
    BY <1>3, <2>3, BegunIsFollowed
  <2>4. CASE after = Guarded(before) \/ \E trace : after = Replayed(before, trace)
    BY <1>3, <2>4, OthersAreFollowed
  <2>5. QED
    BY <1>3, <2>1, <2>2, <2>3, <2>4 DEF Steps
<1>4. \A t \in Threads : \A id \in DOMAIN engines[t] :
        IsEngine(engines[t][id]) /\ Earned(engines[t][id])
  BY DEF CacheInv, Registry, EarnedInv
<1>5. QED
  BY <1>1, <1>2, <1>3, <1>4 DEF FollowedInv, Stepped

\* A recording that is not truncated reproduces the engine from nothing.  Until a
\* combat starts that is newer than the ones before the recording, the engine and the
\* fresh one have no active combat and answer every call alike; both begin that combat
\* in the same State, whatever the earlier ones have left; and two States that differ
\* in the count of their calls only answer every call alike and stay so (observation.rs
\* replay, summary.rs combat_started).
THEOREM RecordingsReproduce == Spec => []ReplayReproduces
<1>1. Init => EarnedInv /\ FollowedInv
  <2>1. SUFFICES ASSUME Init PROVE EarnedInv /\ FollowedInv
    OBVIOUS
  <2>2. DOMAIN NoEntries = {} /\ \A t \in Threads : engines[t] = NoEntries
    BY <2>1 DEF Init, NoEntries
  <2>3. QED
    BY <2>2 DEF EarnedInv, FollowedInv
<1>2. FollowedInv => ReplayReproduces
  <2>1. SUFFICES ASSUME FollowedInv,
                        NEW t \in Threads, NEW id \in DOMAIN engines[t],
                        engines[t][id].recording.on, ~engines[t][id].recording.truncated,
                        Newer(engines[t][id].recording)
                 PROVE  LET engine == engines[t][id]
                            observations == engine.recording.observations
                        IN  Reproduces(engine, Starts(observations), Told(observations))
    BY DEF ReplayReproduces, Live
  <2> DEFINE engine == engines[t][id]
             observations == engine.recording.observations
             told == Told(observations)
  <2>2. Followed(engine)
    BY <2>1 DEF FollowedInv
  <2>3. told.ok /\ (Starts(observations) # {} => Twins(engine.state, told.s))
    BY <2>1, <2>2 DEF Followed, Follows
  <2> HIDE DEF told
  <2>4. DOMAIN Fresh = Fields
    BY DEF Fresh, Fields
  <2>5. Twins(engine.state, told.s) =>
          \A field \in DOMAIN Fresh \ {"revision"} : told.s[field] = engine.state[field]
    BY <2>4 DEF Twins, Fields
  <2>6. QED
    BY <2>3, <2>5 DEF Reproduces, told
<1>3. QED
  BY InitHolds, NextKeeps, NextIsEarned, NextIsFollowed, <1>1, <1>2, PTL DEF Spec
==============================================================================
