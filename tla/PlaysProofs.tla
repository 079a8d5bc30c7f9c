----------------------------- MODULE PlaysProofs -----------------------------
(***************************************************************************)
(* Theorems about Plays, for any flows, cards, orbs and limits: the plays  *)
(* the engine has open are those that run, both sides know the same cards  *)
(* and orbs, a flow of an old combat does nothing to the next, the ledger  *)
(* adds up, and a complete export has counted every play.                  *)
(***************************************************************************)
EXTENDS Plays, SequenceTheorems, FiniteSetTheorems, NaturalsInduction,
        WellFoundedInduction, TLAPS

(***************************************************************************)
(* What the theorems look at in a state of the engine.                     *)
(***************************************************************************)
Fields == {"current", "arena", "prov", "died", "revision", "last", "coverage", "poisoned"}
CombatFields == {"seq", "phase", "players", "rows", "plays", "generatedPlays", "triggers", "turns",
                 "potions", "rowsLost"}
ProvFields == {"epoch", "generated", "orbs", "plays", "serial", "others"}
PlayFields == {"serial", "execution", "slot", "source", "orbUsed"}

OpenPlays(s) == {<<p.serial, p.execution, p.slot>> : p \in s.prov.plays}

Known(s) == DOMAIN s.prov.generated

\* The combat, whether the engine takes its calls, and what is open.
Core(s) ==
  <<s.poisoned, s.last, s.current.seq, s.current.phase, OpenPlays(s), s.prov.serial, DOMAIN s.prov.orbs>>

\* A provenance of another combat is empty.
Good(s) ==
  /\ DOMAIN s = Fields
  /\ DOMAIN s.current = CombatFields
  /\ DOMAIN s.prov = ProvFields
  /\ \A p \in s.prov.plays : DOMAIN p = PlayFields
  /\ s.prov.serial \in Nat
  /\ s.prov.epoch # s.current.seq =>
       s.prov.plays = {} /\ s.prov.serial = 0 /\ Known(s) = {} /\ DOMAIN s.prov.orbs = {}

\* A change that opens and closes nothing, and one that does not even begin a provenance.
Alike(s, t) == Good(t) /\ Core(t) = Core(s) /\ Known(t) = Known(s)
Quiet(s, t) == Alike(s, t) /\ t.prov.epoch = s.prov.epoch

Calm(c, d) == DOMAIN d = CombatFields /\ d.seq = c.seq /\ d.phase = c.phase

\* The engine takes the calls of this combat.
Takes(s, seq) == ~s.poisoned /\ Active(s) /\ s.current.seq = seq

LEMMA Outside ==
  ASSUME NEW s, Good(s), NEW t, DOMAIN t = Fields, Calm(s.current, t.current), t.prov = s.prov,
         t.poisoned = s.poisoned, t.last = s.last
  PROVE  Quiet(s, t)
<1>1. Core(t) = Core(s) /\ Known(t) = Known(s) /\ OpenPlays(t) = OpenPlays(s)
  BY DEF Core, OpenPlays, Known, Calm
<1>2. Good(t)
  BY <1>1 DEF Good, Calm
<1>3. QED
  BY <1>1, <1>2 DEF Quiet, Alike

LEMMA QuietSelf ==
  ASSUME NEW s, Good(s)
  PROVE  Quiet(s, s)
BY DEF Quiet, Alike

LEMMA QuietTwice ==
  ASSUME NEW s, NEW t, NEW u, Quiet(s, t), Quiet(t, u)
  PROVE  Quiet(s, u)
BY DEF Quiet, Alike

LEMMA ReportIsQuiet ==
  ASSUME NEW s, Good(s), NEW failure
  PROVE  Quiet(s, Report(s, failure))
<1>1. /\ DOMAIN Report(s, failure) = Fields /\ Report(s, failure).current = s.current
      /\ Report(s, failure).prov = s.prov /\ Report(s, failure).poisoned = s.poisoned
      /\ Report(s, failure).last = s.last
  BY DEF Report, Good, Fields
<1>2. QED
  BY <1>1, Outside DEF Calm, Good

LEMMA FailedIsQuiet ==
  ASSUME NEW s, Good(s), NEW reason
  PROVE  Quiet(s, Failed(s, reason))
<1> DEFINE t == Failed(s, reason)
<1>1. /\ DOMAIN t = Fields /\ t.current = s.current /\ t.prov = s.prov /\ t.poisoned = s.poisoned
      /\ t.last = s.last
  BY DEF Failed, Good, Fields
<1> HIDE DEF t
<1>2. Quiet(s, t)
  BY <1>1, Outside DEF Calm, Good
<1>3. QED
  BY <1>2 DEF t

LEMMA RefusalIsQuiet ==
  ASSUME NEW s, Good(s), NEW failure
  PROVE  Quiet(s, Refuse(s, failure).s) /\ Refuse(s, failure).r = Zero
BY ReportIsQuiet DEF Refuse

LEMMA SlotIsQuiet ==
  ASSUME NEW s, Good(s), NEW slot
  PROVE  Quiet(s, Slotted(s, slot).s) /\ (slot \in Slots => Slotted(s, slot).slot = slot)
BY ReportIsQuiet, QuietSelf DEF Slotted

(***************************************************************************)
(* Entering the provenance.                                                *)
(***************************************************************************)
LEMMA SourceEpochIs ==
  ASSUME NEW s, Good(s), NEW seq
  PROVE  LET e == SourceEpoch(s, seq)
         IN  /\ Quiet(s, e.s) /\ DOMAIN e = {"s", "failure"}
             /\ e.failure = None <=> Takes(s, seq)
<1> DEFINE arena == [NoArena EXCEPT !.epoch = seq]
           started == [s EXCEPT !.arena = arena]
           e == SourceEpoch(s, seq)
<1>1. /\ DOMAIN started = Fields /\ started.current = s.current /\ started.prov = s.prov
      /\ started.poisoned = s.poisoned /\ started.last = s.last
  BY DEF Good, Fields
<1>2. e = CASE s.poisoned -> [s |-> s, failure |-> "packet"]
            [] ~s.poisoned /\ Active(s) /\ s.current.seq = seq ->
                  [s |-> IF s.arena.epoch = seq THEN s ELSE started, failure |-> None]
            [] ~s.poisoned /\ ~(Active(s) /\ s.current.seq = seq) ->
                  [s |-> Report(s, "epoch"), failure |-> "epoch"]
  BY DEF SourceEpoch
<1> HIDE DEF started, e
<1>3. Quiet(s, started)
  BY <1>1, Outside DEF Calm, Good
<1>4. Quiet(s, s) /\ Quiet(s, Report(s, "epoch"))
  BY QuietSelf, ReportIsQuiet
<1>5. CASE s.poisoned
  BY <1>2, <1>4, <1>5 DEF Takes, None, e
<1>6. CASE Takes(s, seq)
  BY <1>2, <1>3, <1>4, <1>6 DEF Takes, None, e
<1>7. CASE ~s.poisoned /\ ~(Active(s) /\ s.current.seq = seq)
  BY <1>2, <1>4, <1>7 DEF Takes, None, e
<1>8. QED
  BY <1>5, <1>6, <1>7 DEF Takes

LEMMA EpochIs ==
  ASSUME NEW s, Good(s), NEW seq
  PROVE  LET e == ProvenanceEpoch(s, seq)
         IN  /\ Alike(s, e.s)
             /\ e.failure = None <=> Takes(s, seq)
             /\ e.failure = None => e.s.prov.epoch = seq
<1> DEFINE e == SourceEpoch(s, seq)
<1>1. /\ Quiet(s, e.s) /\ DOMAIN e = {"s", "failure"}
      /\ e.failure = None <=> Takes(s, seq)
  BY SourceEpochIs
<1>2. ProvenanceEpoch(s, seq) = InProvenance(e, seq)
  BY DEF ProvenanceEpoch
<1> HIDE DEF e
<1>3. CASE e.failure # None \/ e.s.prov.epoch = seq
  <2>1. InProvenance(e, seq) = e
    BY <1>3 DEF InProvenance
  <2>2. QED
    BY <1>1, <1>2, <1>3, <2>1 DEF Quiet
<1>4. CASE e.failure = None /\ e.s.prov.epoch # seq
  <2> DEFINE prov == [NoProvenance EXCEPT !.epoch = seq]
             t == [e.s EXCEPT !.prov = prov]
             u == [e EXCEPT !.s.prov = prov]
  <2>1. InProvenance(e, seq) = u
    BY <1>4 DEF InProvenance
  <2>2. Good(e.s) /\ e.s.current.seq = seq
    BY <1>1, <1>4 DEF Quiet, Alike, Core, Takes
  <2>3. u.s = t /\ u.failure = e.failure
    BY <1>1
  <2>4. /\ DOMAIN prov = ProvFields /\ prov.epoch = seq /\ prov.plays = {} /\ prov.serial = 0
        /\ prov.generated = NoEntries /\ prov.orbs = NoEntries
    BY DEF NoProvenance, ProvFields
  <2>5. DOMAIN NoEntries = {}
    BY DEF NoEntries
  <2> HIDE DEF prov
  <2>6. /\ DOMAIN t = Fields /\ t.current = e.s.current /\ t.prov = prov
        /\ t.poisoned = e.s.poisoned /\ t.last = e.s.last
    BY <2>2 DEF Good, Fields
  <2> HIDE DEF t, u
  <2>7. Good(t)
    BY <2>2, <2>4, <2>5, <2>6 DEF Good
  <2>8. e.s.prov.plays = {} /\ e.s.prov.serial = 0 /\ Known(e.s) = {} /\ DOMAIN e.s.prov.orbs = {}
    BY <1>4, <2>2 DEF Good
  <2>9. OpenPlays(t) = {} /\ OpenPlays(e.s) = {} /\ Known(t) = {}
    BY <2>4, <2>5, <2>6, <2>8 DEF OpenPlays, Known
  <2>10. Core(t) = Core(e.s)
    BY <2>4, <2>5, <2>6, <2>8, <2>9 DEF Core
  <2>11. Alike(s, t)
    BY <1>1, <2>7, <2>8, <2>9, <2>10 DEF Quiet, Alike
  <2>12. QED
    BY <1>1, <1>2, <1>4, <2>1, <2>3, <2>4, <2>6, <2>11
<1>5. QED
  BY <1>3, <1>4

LEMMA TokenIs ==
  ASSUME NEW s, Good(s), NEW wire, NEW kind
  PROVE  Alike(s, ProvenanceToken(s, wire, kind).s)
BY EpochIs, QuietSelf DEF ProvenanceToken, Quiet

(***************************************************************************)
(* Sources.                                                                *)
(***************************************************************************)
LEMMA SnapshotIsQuiet ==
  ASSUME NEW s, Good(s), NEW transfer
  PROVE  Quiet(s, SourceSnapshot(s, transfer).s)
<1>1. ASSUME NEW e, Quiet(s, e.s)
      PROVE  Quiet(s, Held(e, transfer).s)
  BY <1>1, ReportIsQuiet, QuietTwice DEF Held, Quiet, Alike
<1>2. Quiet(s, HandleToken(s, transfer).s)
  BY <1>1, SourceEpochIs, QuietSelf DEF HandleToken
<1>3. QED
  BY <1>2, QuietSelf DEF SourceSnapshot, Snapshotted

LEMMA ExportIsQuiet ==
  ASSUME NEW s, Good(s), NEW source
  PROVE  Quiet(s, Export(s, source).s)
<1>1. \A t, r : Accept(t, r).s = t
  BY DEF Accept
<1> DEFINE live == {m \in DOMAIN s.arena.entries : s.arena.entries[m] = source}
           next == s.arena.serial + 1
           more == [s EXCEPT !.arena.entries = Learn(@, next, source), !.arena.serial = next]
<1>2. /\ DOMAIN more = Fields /\ more.current = s.current /\ more.prov = s.prov
      /\ more.poisoned = s.poisoned /\ more.last = s.last
  BY DEF Good, Fields
<1>3. Export(s, source) =
        IF live # {} THEN Accept(s, Wire(s.arena.epoch, "source", CHOOSE m \in live : TRUE))
        ELSE IF s.arena.serial = MaxPayload THEN Refuse(s, "capacity")
        ELSE Accept(more, Wire(s.arena.epoch, "source", next))
  BY DEF Export
<1> HIDE DEF live, next, more
<1>4. Quiet(s, more)
  BY <1>2, Outside DEF Calm, Good
<1>5. QED
  BY <1>1, <1>3, <1>4, RefusalIsQuiet, QuietSelf

(***************************************************************************)
(* The ledger.                                                             *)
(***************************************************************************)
LEMMA RowsAreCalm ==
  ASSUME NEW c, DOMAIN c = CombatFields
  PROVE  /\ \A slot, id, kind : Calm(c, FindRow(c, slot, id, kind).c)
         /\ \A slot, id, kind : Calm(c, RowFor(c, slot, id, kind).c)
<1>1. ASSUME NEW d, Calm(c, d), NEW slot, NEW id, NEW kind
      PROVE  Calm(c, FindRow(d, slot, id, kind).c)
  BY <1>1 DEF FindRow, Calm, CombatFields
<1>2. Calm(c, c) /\ Calm(c, [c EXCEPT !.rowsLost = TRUE])
  BY DEF Calm, CombatFields
<1>3. QED
  BY <1>1, <1>2 DEF RowFor, UnknownRow

\* A stage leaves the combat what it is.
Steady(c, stage) == DOMAIN stage = {"c", "failure"} /\ Calm(c, stage.c)

LEMMA StagesAreCalm ==
  ASSUME NEW c, NEW stage, Steady(c, stage)
  PROVE  /\ \A failure : Steady(c, Fails(stage, failure))
         /\ \A counter : counter \notin {"seq", "phase"} => Steady(c, Count(stage, counter))
         /\ \A to : Steady(c, RowPlay(stage, to))
<1>1. \A failure : Steady(c, Fails(stage, failure))
  BY DEF Steady, Fails
<1>2. ASSUME NEW counter, counter \notin {"seq", "phase"}
      PROVE  Steady(c, Count(stage, counter))
  <2> DEFINE d == [stage EXCEPT !.c[counter] = @ + 1]
  <2>1. Steady(c, d)
    BY <1>2 DEF Steady, Calm, CombatFields
  <2>2. QED
    BY <1>1, <2>1 DEF Count
<1>3. ASSUME NEW found, Calm(c, found.c)
      PROVE  Steady(c, Played(stage, found))
  <2> DEFINE d == [stage EXCEPT !.c = [found.c EXCEPT !.rows[found.row].plays = @ + 1]]
  <2>1. Steady(c, d)
    BY <1>3 DEF Steady, Calm, CombatFields
  <2>2. QED
    BY <1>1, <2>1 DEF Played
<1>4. ASSUME NEW to
      PROVE  Calm(c, StageRow(stage.c, to).c)
  <2>1. DOMAIN stage.c = CombatFields /\ Calm(c, stage.c)
    BY DEF Steady, Calm
  <2>2. Calm(stage.c, UnknownRow(stage.c, to.slot).c)
    BY <2>1, RowsAreCalm DEF UnknownRow
  <2>3. QED
    BY <2>1, <2>2 DEF StageRow, Calm
<1>5. QED
  BY <1>1, <1>2, <1>3, <1>4 DEF RowPlay

LEMMA NamingIsQuiet ==
  ASSUME NEW s, Good(s), NEW slot, NEW id, NEW kind
  PROVE  Quiet(s, NamedSource(s, slot, id, kind).s)
<1> DEFINE c == RowFor(s.current, slot, id, kind).c
           t == [s EXCEPT !.current = c]
<1>1. NamedSource(s, slot, id, kind).s = t
  BY DEF NamedSource, Named
<1>2. Calm(s.current, c)
  BY RowsAreCalm DEF Good
<1> HIDE DEF c
<1>3. /\ DOMAIN t = Fields /\ t.current = c /\ t.prov = s.prov /\ t.poisoned = s.poisoned
      /\ t.last = s.last
  BY DEF Good, Fields
<1> HIDE DEF t
<1>4. QED
  BY <1>1, <1>2, <1>3, Outside

\* A card whose source has become unavailable is forgotten.
LEMMA CardSourceIs ==
  ASSUME NEW s, Good(s), NEW instance, NEW id, NEW slot, NEW generation, NEW given,
         generation \in {"unavailable", "ordinary", "recorded", "unclassified"}
  PROVE  LET t == CardSource(s, instance, id, slot, generation, given).s
         IN  /\ Good(t) /\ Core(t) = Core(s) /\ t.prov.epoch = s.prov.epoch
             /\ \/ Known(t) = Known(s)
                \/ generation = "unavailable" /\ Known(t) = Known(s) \ {instance}
<1>1. Quiet(s, s) /\ Quiet(s, Report(s, "packet")) /\ Quiet(s, NamedSource(s, slot, id, "card").s)
  BY QuietSelf, ReportIsQuiet, NamingIsQuiet
<1>2. CASE generation = "unavailable"
  <2> DEFINE t == [s EXCEPT !.prov.generated = Forget(@, instance)]
  <2>1. CardSource(s, instance, id, slot, generation, given).s = t
    BY <1>2 DEF CardSource
  <2>2. /\ DOMAIN t = Fields /\ t.current = s.current /\ t.poisoned = s.poisoned /\ t.last = s.last
        /\ DOMAIN t.prov = ProvFields /\ t.prov.epoch = s.prov.epoch /\ t.prov.plays = s.prov.plays
        /\ t.prov.serial = s.prov.serial /\ t.prov.orbs = s.prov.orbs
        /\ t.prov.generated = Forget(s.prov.generated, instance)
    BY DEF Good, Fields, ProvFields
  <2> HIDE DEF t
  <2>3. Known(t) = Known(s) \ {instance}
    BY <2>2 DEF Known, Forget
  <2>4. OpenPlays(t) = OpenPlays(s)
    BY <2>2 DEF OpenPlays
  <2>5. Core(t) = Core(s)
    BY <2>2, <2>4 DEF Core
  <2>6. Good(t)
    BY <2>2, <2>3 DEF Good
  <2>7. QED
    BY <1>2, <2>1, <2>2, <2>3, <2>5, <2>6
<1>3. CASE generation # "unavailable"
  <2>1. Quiet(s, CardSource(s, instance, id, slot, generation, given).s)
    <3>1. CASE generation = "ordinary"
      BY <1>1, <3>1 DEF CardSource
    <3>2. CASE generation \in {"recorded", "unclassified"}
      BY <1>1, <3>2 DEF CardSource
    <3>3. QED
      BY <1>3, <3>1, <3>2
  <2>2. QED
    BY <1>3, <2>1 DEF Quiet, Alike
<1>4. QED
  BY <1>2, <1>3

LEMMA CaptureIs ==
  ASSUME NEW s, Good(s), NEW seq, NEW kind, NEW instance, NEW id, NEW player, NEW generation,
         generation \in {"unavailable", "ordinary", "recorded", "unclassified"}
  PROVE  LET t == SourceCapture(s, seq, kind, instance, id, player, generation).s
         IN  /\ Good(t) /\ Core(t) = Core(s)
             /\ Known(t) = Known(s) \/ (generation = "unavailable" /\ Known(t) = Known(s) \ {instance})
<1> DEFINE e == ProvenanceEpoch(s, seq)
           at == Slotted(e.s, player)
           Fits(t) == /\ Good(t) /\ Core(t) = Core(s)
                      /\ \/ Known(t) = Known(s)
                         \/ generation = "unavailable" /\ Known(t) = Known(s) \ {instance}
<1>1. Alike(s, e.s)
  BY EpochIs
<1>2. Quiet(e.s, at.s)
  BY <1>1, SlotIsQuiet DEF Alike
<1>3. SourceCapture(s, seq, kind, instance, id, player, generation)
        = CaptureIn(e, kind, instance, id, player, generation)
  BY DEF SourceCapture
<1> DEFINE found == Captured(at, kind, instance, id, generation)
<1>4. CaptureIn(e, kind, instance, id, player, generation)
        = IF e.failure # None THEN Accept(e.s, Zero) ELSE Export(found.s, found.source)
  BY DEF CaptureIn
<1> HIDE DEF e, at
<1>5. Fits(e.s) /\ Fits(at.s)
  BY <1>1, <1>2 DEF Quiet, Alike
<1>6. Fits(found.s)
  <2>1. CASE kind = "card"
    <3>1. found = CardSource(at.s, instance, id, at.slot, generation, {})
      BY <2>1 DEF Captured
    <3>2. Good(at.s) /\ Core(at.s) = Core(s) /\ Known(at.s) = Known(s)
      BY <1>1, <1>2 DEF Quiet, Alike
    <3>3. Fits(CardSource(at.s, instance, id, at.slot, generation, {}).s)
      BY <3>2, CardSourceIs
    <3>4. QED
      BY <3>1, <3>3
  <2>2. CASE kind # "card"
    <3>1. found.s = at.s \/ found.s = NamedSource(at.s, at.slot, id, kind).s
      BY <2>2 DEF Captured
    <3>2. Quiet(at.s, NamedSource(at.s, at.slot, id, kind).s)
      BY <1>5, NamingIsQuiet
    <3>3. QED
      BY <1>5, <3>1, <3>2 DEF Quiet, Alike
  <2>3. QED
    BY <2>1, <2>2
<1> HIDE DEF found
<1>7. Fits(Export(found.s, found.source).s)
  <2>1. Quiet(found.s, Export(found.s, found.source).s)
    BY <1>6, ExportIsQuiet
  <2>2. QED
    BY <1>6, <2>1 DEF Quiet, Alike
<1>8. QED
  BY <1>3, <1>4, <1>5, <1>7 DEF Accept

(***************************************************************************)
(* Generated cards and orbs.                                               *)
(***************************************************************************)
LEMMA BookingIsQuiet ==
  ASSUME NEW s, Good(s), NEW stage
  PROVE  Quiet(s, [s EXCEPT !.current = Booked(@, stage)])
<1> DEFINE c == Booked(s.current, stage)
           t == [s EXCEPT !.current = c]
<1>1. Calm(s.current, c)
  BY DEF Good, Calm, Booked, CombatFields
<1> HIDE DEF c
<1>2. /\ DOMAIN t = Fields /\ t.current = c /\ t.prov = s.prov /\ t.poisoned = s.poisoned
      /\ t.last = s.last
  BY DEF Good, Fields
<1>3. t = [s EXCEPT !.current = Booked(@, stage)]
  BY DEF c
<1> HIDE DEF t
<1>4. QED
  BY <1>1, <1>2, <1>3, Outside

\* A state that knows one card less, and one more.
Unlearned(s, instance) == [s EXCEPT !.prov.generated = Forget(@, instance)]
Learned(s, instance, source) == [s EXCEPT !.prov.generated = Learn(@, instance, source)]

LEMMA LearningIs ==
  ASSUME NEW s, Good(s), s.prov.epoch = s.current.seq, NEW instance, NEW source
  PROVE  /\ LET t == Unlearned(s, instance)
            IN  Good(t) /\ Core(t) = Core(s) /\ t.prov.epoch = s.prov.epoch
                /\ Known(t) = Known(s) \ {instance}
         /\ LET t == Learned(s, instance, source)
            IN  Good(t) /\ Core(t) = Core(s) /\ t.prov.epoch = s.prov.epoch
                /\ Known(t) = Known(s) \cup {instance}
<1>1. ASSUME NEW t, NEW entries,
             /\ DOMAIN t = Fields /\ t.current = s.current /\ t.poisoned = s.poisoned /\ t.last = s.last
             /\ DOMAIN t.prov = ProvFields /\ t.prov.epoch = s.prov.epoch
             /\ t.prov.plays = s.prov.plays /\ t.prov.serial = s.prov.serial
             /\ t.prov.orbs = s.prov.orbs /\ t.prov.generated = entries
      PROVE  Good(t) /\ Core(t) = Core(s) /\ t.prov.epoch = s.prov.epoch /\ Known(t) = DOMAIN entries
  <2>1. OpenPlays(t) = OpenPlays(s)
    BY <1>1 DEF OpenPlays
  <2>2. QED
    BY <1>1, <2>1 DEF Good, Core, Known
<1>2. DOMAIN Forget(s.prov.generated, instance) = Known(s) \ {instance}
  BY DEF Forget, Known
<1>3. DOMAIN Learn(s.prov.generated, instance, source) = Known(s) \cup {instance}
  BY DEF Learn, Known
<1>4. LET t == Unlearned(s, instance)
      IN  /\ DOMAIN t = Fields /\ t.current = s.current /\ t.poisoned = s.poisoned /\ t.last = s.last
          /\ DOMAIN t.prov = ProvFields /\ t.prov.epoch = s.prov.epoch
          /\ t.prov.plays = s.prov.plays /\ t.prov.serial = s.prov.serial
          /\ t.prov.orbs = s.prov.orbs /\ t.prov.generated = Forget(s.prov.generated, instance)
  BY DEF Unlearned, Good, Fields, ProvFields
<1>5. LET t == Learned(s, instance, source)
      IN  /\ DOMAIN t = Fields /\ t.current = s.current /\ t.poisoned = s.poisoned /\ t.last = s.last
          /\ DOMAIN t.prov = ProvFields /\ t.prov.epoch = s.prov.epoch
          /\ t.prov.plays = s.prov.plays /\ t.prov.serial = s.prov.serial
          /\ t.prov.orbs = s.prov.orbs
          /\ t.prov.generated = Learn(s.prov.generated, instance, source)
  BY DEF Learned, Good, Fields, ProvFields
<1>6. QED
  BY <1>1, <1>2, <1>3, <1>4, <1>5

LEMMA Wires ==
  /\ Number(1) # Zero /\ Number(2) # Zero /\ Number(2) # Number(1)
  /\ \A seq, n : Wire(seq, "play", n) # Zero /\ Wire(seq, "play", n).payload = n
BY DEF Number, Zero, Wire

\* A generated card is known if the call says so, and forgotten if not.
Regenerates(s, seq, instance, call) ==
  /\ Good(call.s) /\ Core(call.s) = Core(s)
  /\ ~Takes(s, seq) => Known(call.s) = Known(s) /\ call.r = Zero
  /\ Takes(s, seq) =>
       \/ call.r = Zero /\ Known(call.s) = Known(s) \ {instance}
       \/ call.r = Number(1) /\ instance # 0 /\ Known(call.s) = Known(s) \cup {instance}

LEMMA GeneratedIs ==
  ASSUME NEW s, Good(s), NEW seq, NEW instance, NEW transfer
  PROVE  Regenerates(s, seq, instance, CardGenerated(s, seq, instance, transfer))
<1> DEFINE e == ProvenanceEpoch(s, seq)
           t == Unlearned(e.s, instance)
           given == SourceSnapshot(t, transfer)
           call == CardGenerated(s, seq, instance, transfer)
<1>1. Alike(s, e.s) /\ (e.failure = None <=> Takes(s, seq)) /\ (e.failure = None => e.s.prov.epoch = seq)
  BY EpochIs
<1>2. call = IF e.failure # None THEN Refuse(e.s, e.failure) ELSE GeneratedBy(given, instance)
  BY DEF CardGenerated, GeneratedIn, Unlearned
<1> HIDE DEF e, call
<1>3. CASE e.failure # None
  <2>1. Quiet(e.s, call.s) /\ call.r = Zero
    BY <1>1, <1>2, <1>3, RefusalIsQuiet DEF Alike
  <2>2. QED
    BY <1>1, <1>3, <2>1 DEF Quiet, Alike, Regenerates, call
<1>4. CASE e.failure = None
  <2>1. Good(e.s) /\ e.s.prov.epoch = e.s.current.seq
    BY <1>1, <1>4 DEF Alike, Core, Takes
  <2>2. Good(t) /\ Core(t) = Core(s) /\ Known(t) = Known(s) \ {instance} /\ t.prov.epoch = t.current.seq
    <3>1. Good(t) /\ Core(t) = Core(e.s) /\ t.prov.epoch = e.s.prov.epoch /\ Known(t) = Known(e.s) \ {instance}
      BY <2>1, LearningIs
    <3>2. Core(e.s) = Core(s) /\ Known(e.s) = Known(s)
      BY <1>1 DEF Alike
    <3>3. t.current.seq = e.s.current.seq
      BY <3>1 DEF Core
    <3>4. QED
      BY <2>1, <3>1, <3>2, <3>3
  <2> HIDE DEF t
  <2>3. Quiet(t, given.s)
    BY <2>2, SnapshotIsQuiet
  <2> HIDE DEF given
  <2>4. \A failure : Quiet(t, Refuse(given.s, failure).s) /\ Refuse(given.s, failure).r = Zero
    BY <2>3, RefusalIsQuiet, QuietTwice DEF Quiet, Alike
  <2>5. ASSUME NEW u, Quiet(t, u), NEW source
        PROVE  LET end == Remember(u, instance, source)
               IN  /\ Good(end.s) /\ Core(end.s) = Core(s)
                   /\ \/ end.r = Zero /\ Known(end.s) = Known(s) \ {instance}
                      \/ end.r = Number(1) /\ instance # 0 /\ Known(end.s) = Known(s) \cup {instance}
    <3>1. CASE instance = 0 \/ Cardinality(DOMAIN u.prov.generated) = MaxGenerated
      <4>1. Remember(u, instance, source) = Refuse(u, "capacity")
        BY <3>1 DEF Remember
      <4>2. Quiet(u, Refuse(u, "capacity").s) /\ Refuse(u, "capacity").r = Zero
        BY <2>5, RefusalIsQuiet DEF Quiet, Alike
      <4>3. QED
        BY <2>2, <2>5, <4>1, <4>2 DEF Quiet, Alike
    <3>2. CASE ~(instance = 0 \/ Cardinality(DOMAIN u.prov.generated) = MaxGenerated)
      <4>1. Remember(u, instance, source) = Accept(Learned(u, instance, source), Number(1))
        BY <3>2 DEF Remember, Learned
      <4>2. Good(u) /\ u.prov.epoch = u.current.seq /\ Core(u) = Core(s) /\ Known(u) = Known(s) \ {instance}
        BY <2>2, <2>5 DEF Quiet, Alike, Core
      <4>3. LET v == Learned(u, instance, source)
            IN  Good(v) /\ Core(v) = Core(u) /\ Known(v) = Known(u) \cup {instance}
        BY <4>2, LearningIs
      <4>4. instance # 0
        BY <3>2
      <4>5. Remember(u, instance, source).s = Learned(u, instance, source)
            /\ Remember(u, instance, source).r = Number(1)
        BY <4>1 DEF Accept
      <4>6. QED
        BY <4>2, <4>3, <4>4, <4>5
    <3>3. QED
      BY <3>1, <3>2
  <2>6. ASSUME NEW stage
        PROVE  LET end == GeneratedWith(given, stage, instance)
               IN  /\ Good(end.s) /\ Core(end.s) = Core(s)
                   /\ \/ end.r = Zero /\ Known(end.s) = Known(s) \ {instance}
                      \/ end.r = Number(1) /\ instance # 0 /\ Known(end.s) = Known(s) \cup {instance}
    <3> DEFINE u == [given.s EXCEPT !.current = Booked(@, stage)]
    <3>1. Quiet(t, u)
      BY <2>3, BookingIsQuiet, QuietTwice DEF Quiet, Alike
    <3>2. GeneratedWith(given, stage, instance)
            = IF stage.failure # None THEN Refuse(given.s, stage.failure)
              ELSE Remember(u, instance, given.source)
      BY DEF GeneratedWith
    <3> HIDE DEF u
    <3>3. CASE stage.failure # None
      BY <2>2, <2>4, <3>2, <3>3 DEF Quiet, Alike
    <3>4. CASE stage.failure = None
      BY <2>5, <3>1, <3>2, <3>4
    <3>5. QED
      BY <3>3, <3>4
  <2>7. \/ call = Refuse(given.s, given.failure)
        \/ \E stage : call = GeneratedWith(given, stage, instance)
    BY <1>2, <1>4 DEF GeneratedBy
  <2>8. /\ Good(call.s) /\ Core(call.s) = Core(s)
        /\ \/ call.r = Zero /\ Known(call.s) = Known(s) \ {instance}
           \/ call.r = Number(1) /\ instance # 0 /\ Known(call.s) = Known(s) \cup {instance}
    <3>1. CASE call = Refuse(given.s, given.failure)
      BY <2>2, <2>4, <3>1 DEF Quiet, Alike
    <3>2. CASE \E stage : call = GeneratedWith(given, stage, instance)
      BY <2>6, <3>2
    <3>3. QED
      BY <2>7, <3>1, <3>2
  <2>9. QED
    BY <1>1, <1>4, <2>8 DEF Regenerates, call
<1>5. QED
  BY <1>3, <1>4

\* An orb is known if the call says so, and forgotten if not.
Unchanneled(s, instance) == [s EXCEPT !.prov.orbs = Forget(@, instance)]
ChanneledBy(s, instance, source) == [s EXCEPT !.prov.orbs = Learn(@, instance, source)]

\* The core without the orbs.
Plain(s) == <<s.poisoned, s.last, s.current.seq, s.current.phase, OpenPlays(s), s.prov.serial>>

LEMMA ChannelingIs ==
  ASSUME NEW s, Good(s), s.prov.epoch = s.current.seq, NEW instance, NEW source
  PROVE  /\ LET t == Unchanneled(s, instance)
            IN  Good(t) /\ Plain(t) = Plain(s) /\ t.prov.epoch = s.prov.epoch /\ Known(t) = Known(s)
                /\ DOMAIN t.prov.orbs = DOMAIN s.prov.orbs \ {instance}
         /\ LET t == ChanneledBy(s, instance, source)
            IN  Good(t) /\ Plain(t) = Plain(s) /\ t.prov.epoch = s.prov.epoch /\ Known(t) = Known(s)
                /\ DOMAIN t.prov.orbs = DOMAIN s.prov.orbs \cup {instance}
<1>1. ASSUME NEW t, NEW entries,
             /\ DOMAIN t = Fields /\ t.current = s.current /\ t.poisoned = s.poisoned /\ t.last = s.last
             /\ DOMAIN t.prov = ProvFields /\ t.prov.epoch = s.prov.epoch
             /\ t.prov.plays = s.prov.plays /\ t.prov.serial = s.prov.serial
             /\ t.prov.generated = s.prov.generated /\ t.prov.orbs = entries
      PROVE  Good(t) /\ Plain(t) = Plain(s) /\ t.prov.epoch = s.prov.epoch /\ Known(t) = Known(s)
             /\ DOMAIN t.prov.orbs = DOMAIN entries
  <2>1. OpenPlays(t) = OpenPlays(s)
    BY <1>1 DEF OpenPlays
  <2>2. QED
    BY <1>1, <2>1 DEF Good, Plain, Known
<1>2. DOMAIN Forget(s.prov.orbs, instance) = DOMAIN s.prov.orbs \ {instance}
  BY DEF Forget
<1>3. DOMAIN Learn(s.prov.orbs, instance, source) = DOMAIN s.prov.orbs \cup {instance}
  BY DEF Learn
<1>4. LET t == Unchanneled(s, instance)
      IN  /\ DOMAIN t = Fields /\ t.current = s.current /\ t.poisoned = s.poisoned /\ t.last = s.last
          /\ DOMAIN t.prov = ProvFields /\ t.prov.epoch = s.prov.epoch
          /\ t.prov.plays = s.prov.plays /\ t.prov.serial = s.prov.serial
          /\ t.prov.generated = s.prov.generated /\ t.prov.orbs = Forget(s.prov.orbs, instance)
  BY DEF Unchanneled, Good, Fields, ProvFields
<1>5. LET t == ChanneledBy(s, instance, source)
      IN  /\ DOMAIN t = Fields /\ t.current = s.current /\ t.poisoned = s.poisoned /\ t.last = s.last
          /\ DOMAIN t.prov = ProvFields /\ t.prov.epoch = s.prov.epoch
          /\ t.prov.plays = s.prov.plays /\ t.prov.serial = s.prov.serial
          /\ t.prov.generated = s.prov.generated
          /\ t.prov.orbs = Learn(s.prov.orbs, instance, source)
  BY DEF ChanneledBy, Good, Fields, ProvFields
<1>6. QED
  BY <1>1, <1>2, <1>3, <1>4, <1>5

LEMMA CoreIsPlain ==
  ASSUME NEW s, NEW t
  PROVE  Core(t) = Core(s) <=> Plain(t) = Plain(s) /\ DOMAIN t.prov.orbs = DOMAIN s.prov.orbs
BY DEF Core, Plain

LEMMA ChannelIs ==
  ASSUME NEW s, Good(s), NEW seq, NEW instance, NEW transfer
  PROVE  LET call == OrbChanneled(s, seq, instance, transfer)
         IN  /\ Good(call.s) /\ Plain(call.s) = Plain(s) /\ Known(call.s) = Known(s)
             /\ \/ call.r = Zero /\ DOMAIN call.s.prov.orbs \subseteq DOMAIN s.prov.orbs
                \/ call.r = Number(1) /\ DOMAIN call.s.prov.orbs = DOMAIN s.prov.orbs \cup {instance}
             /\ Takes(s, seq) /\ call.r = Zero =>
                  DOMAIN call.s.prov.orbs = DOMAIN s.prov.orbs \ {instance}
<1> DEFINE e == ProvenanceEpoch(s, seq)
           t == Unchanneled(e.s, instance)
           given == SourceSnapshot(t, transfer)
           call == OrbChanneled(s, seq, instance, transfer)
           orbs == DOMAIN s.prov.orbs
<1>1. Alike(s, e.s) /\ (e.failure = None <=> Takes(s, seq)) /\ (e.failure = None => e.s.prov.epoch = seq)
  BY EpochIs
<1>2. call = IF e.failure # None THEN Refuse(e.s, e.failure) ELSE ChannelBy(given, instance)
  BY DEF OrbChanneled, ChannelIn, Unchanneled
<1>3. Plain(e.s) = Plain(s) /\ DOMAIN e.s.prov.orbs = orbs /\ Known(e.s) = Known(s) /\ Good(e.s)
  BY <1>1, CoreIsPlain DEF Alike
<1> HIDE DEF e, call
<1>4. CASE e.failure # None
  <2>1. Quiet(e.s, call.s) /\ call.r = Zero
    BY <1>2, <1>3, <1>4, RefusalIsQuiet
  <2>2. Plain(call.s) = Plain(e.s) /\ DOMAIN call.s.prov.orbs = orbs /\ Known(call.s) = Known(e.s)
        /\ Good(call.s)
    BY <1>3, <2>1, CoreIsPlain DEF Quiet, Alike
  <2>3. ~Takes(s, seq)
    BY <1>1, <1>4
  <2>4. QED
    BY <1>3, <2>1, <2>2, <2>3 DEF call
<1>5. CASE e.failure = None
  <2>1. e.s.prov.epoch = e.s.current.seq
    BY <1>1, <1>5 DEF Alike, Core, Takes
  <2>2. Good(t) /\ Plain(t) = Plain(e.s) /\ t.prov.epoch = e.s.prov.epoch /\ Known(t) = Known(e.s)
        /\ DOMAIN t.prov.orbs = DOMAIN e.s.prov.orbs \ {instance}
    BY <1>3, <2>1, ChannelingIs
  <2>3. t.prov.epoch = t.current.seq
    BY <2>1, <2>2 DEF Plain
  <2> HIDE DEF t
  <2>4. Quiet(t, given.s)
    BY <2>2, SnapshotIsQuiet
  <2> HIDE DEF given
  <2>5. /\ Good(given.s) /\ Plain(given.s) = Plain(s) /\ Known(given.s) = Known(s)
        /\ DOMAIN given.s.prov.orbs = orbs \ {instance} /\ given.s.prov.epoch = given.s.current.seq
    <3>1. Good(given.s) /\ Core(given.s) = Core(t) /\ Known(given.s) = Known(t)
          /\ given.s.prov.epoch = t.prov.epoch
      BY <2>4 DEF Quiet, Alike
    <3>2. Plain(given.s) = Plain(t) /\ DOMAIN given.s.prov.orbs = DOMAIN t.prov.orbs
      BY <3>1, CoreIsPlain
    <3>3. given.s.current.seq = t.current.seq
      BY <3>2 DEF Plain
    <3>4. QED
      BY <1>3, <2>2, <2>3, <3>1, <3>2, <3>3
  <2>6. ASSUME NEW failure
        PROVE  LET end == Refuse(given.s, failure)
               IN  /\ Good(end.s) /\ Plain(end.s) = Plain(s) /\ Known(end.s) = Known(s)
                   /\ end.r = Zero /\ DOMAIN end.s.prov.orbs = orbs \ {instance}
    <3> DEFINE end == Refuse(given.s, failure)
    <3>1. Quiet(given.s, end.s) /\ end.r = Zero
      BY <2>5, RefusalIsQuiet
    <3> HIDE DEF end
    <3>2. Good(end.s) /\ Known(end.s) = Known(given.s) /\ Plain(end.s) = Plain(given.s)
          /\ DOMAIN end.s.prov.orbs = DOMAIN given.s.prov.orbs
      BY <3>1, CoreIsPlain DEF Quiet, Alike
    <3>3. QED
      BY <2>5, <3>1, <3>2 DEF end
  <2> DEFINE last == ChanneledBy(given.s, instance, given.source)
  <2>7. /\ Good(last) /\ Plain(last) = Plain(s) /\ Known(last) = Known(s)
        /\ DOMAIN last.prov.orbs = orbs \cup {instance}
    BY <2>5, ChannelingIs
  <2>8. \/ \E failure : call = Refuse(given.s, failure)
        \/ call = Accept(last, Number(1))
    BY <1>2, <1>5 DEF ChannelBy, ChanneledBy
  <2> HIDE DEF last, orbs
  <2>9. CASE \E failure : call = Refuse(given.s, failure)
    BY <2>6, <2>9 DEF call, orbs
  <2>10. CASE call = Accept(last, Number(1))
    <3>1. call.s = last /\ call.r = Number(1)
      BY <2>10 DEF Accept
    <3>2. QED
      BY <2>7, <3>1, Wires DEF call, orbs
  <2>11. QED
    BY <2>8, <2>9, <2>10
<1>6. QED
  BY <1>4, <1>5

LEMMA ContextIsQuiet ==
  ASSUME NEW s, Good(s), NEW seq, NEW instance, NEW token, NEW player
  PROVE  Alike(s, OrbContextBegin(s, seq, instance, token, player).s)
<1> DEFINE e == ProvenanceEpoch(s, seq)
           owner == Slotted(e.s, player)
           t == ProvenanceToken(owner.s, token, "play")
           its == {p \in t.s.prov.plays : p.serial = token.payload /\ p.slot = owner.slot}
           used == [t.s EXCEPT !.prov.plays = (@ \ its) \cup {[p EXCEPT !.orbUsed = TRUE] : p \in its}]
           call == OrbContextBegin(s, seq, instance, token, player)
<1>1. Alike(s, e.s)
  BY EpochIs
<1>2. Quiet(e.s, owner.s)
  BY <1>1, SlotIsQuiet DEF Alike
<1>3. Alike(owner.s, t.s)
  BY <1>2, TokenIs DEF Quiet, Alike
<1>4. \/ \E failure : call.s = Refuse(e.s, failure).s
      \/ call.s = owner.s
      \/ \E failure : call.s = Refuse(t.s, failure).s
      \/ call.s = t.s
      \/ call.s = used
  <2>1. call = ContextIn(e, instance, token, player)
    BY DEF OrbContextBegin
  <2>2. ContextIn(e, instance, token, player)
          = IF e.failure # None THEN Refuse(e.s, e.failure)
            ELSE IF token = Zero THEN Accept(owner.s, Channeler(e.s, instance))
            ELSE ContextOf(t, its, instance)
    BY DEF ContextIn, ContextBy
  <2> HIDE DEF e, owner, t, call, its
  <2>3. ContextOf(t, its, instance)
          = CASE t.failure # None -> Refuse(t.s, t.failure)
              [] t.failure = None /\ its = {} -> Refuse(t.s, "source-handle")
              [] t.failure = None /\ \E p \in its : p.orbUsed -> Accept(t.s, Number(2))
              [] t.failure = None /\ its # {} /\ \A p \in its : ~p.orbUsed ->
                   Accept(used, Channeler(t.s, instance))
    BY DEF ContextOf
  <2> HIDE DEF used
  <2>4. \/ t.failure # None
        \/ t.failure = None /\ its = {}
        \/ t.failure = None /\ \E p \in its : p.orbUsed
        \/ t.failure = None /\ its # {} /\ \A p \in its : ~p.orbUsed
    OBVIOUS
  <2>5. \/ \E failure : ContextOf(t, its, instance) = Refuse(t.s, failure)
        \/ ContextOf(t, its, instance) = Accept(t.s, Number(2))
        \/ ContextOf(t, its, instance) = Accept(used, Channeler(t.s, instance))
    BY <2>3, <2>4
  <2>6. QED
    BY <2>1, <2>2, <2>5 DEF Accept
<1> HIDE DEF e, owner, call
<1>5. Alike(t.s, used)
  <2>1. Good(t.s)
    BY <1>3 DEF Alike
  <2> HIDE DEF t
  <2> DEFINE plays == (t.s.prov.plays \ its) \cup {[p EXCEPT !.orbUsed = TRUE] : p \in its}
  <2>2. /\ DOMAIN used = Fields /\ used.current = t.s.current /\ used.poisoned = t.s.poisoned
        /\ used.last = t.s.last /\ DOMAIN used.prov = ProvFields /\ used.prov.epoch = t.s.prov.epoch
        /\ used.prov.serial = t.s.prov.serial /\ used.prov.generated = t.s.prov.generated
        /\ used.prov.orbs = t.s.prov.orbs /\ used.prov.plays = plays
    BY <2>1 DEF Good, Fields, ProvFields
  <2>3. its \subseteq t.s.prov.plays
    OBVIOUS
  <2> HIDE DEF used, its
  <2>4. ASSUME NEW p \in its
        PROVE  LET q == [p EXCEPT !.orbUsed = TRUE]
               IN  DOMAIN q = PlayFields /\ q.serial = p.serial /\ q.execution = p.execution
                   /\ q.slot = p.slot
    BY <2>1, <2>3, <2>4 DEF Good, PlayFields
  <2>5. \A p \in plays : DOMAIN p = PlayFields
    BY <2>1, <2>3, <2>4 DEF Good
  <2>6. OpenPlays(used) = OpenPlays(t.s)
    <3>1. ASSUME NEW x \in OpenPlays(used)
          PROVE  x \in OpenPlays(t.s)
      <4>1. PICK p \in plays : x = <<p.serial, p.execution, p.slot>>
        BY <2>2, <3>1 DEF OpenPlays
      <4>2. CASE p \in t.s.prov.plays
        BY <4>1, <4>2 DEF OpenPlays
      <4>3. CASE \E q \in its : p = [q EXCEPT !.orbUsed = TRUE]
        <5>1. PICK q \in its : p = [q EXCEPT !.orbUsed = TRUE]
          BY <4>3
        <5>2. x = <<q.serial, q.execution, q.slot>>
          BY <2>4, <4>1, <5>1
        <5>3. QED
          BY <2>3, <5>2 DEF OpenPlays
      <4>4. QED
        BY <4>2, <4>3
    <3>2. ASSUME NEW x \in OpenPlays(t.s)
          PROVE  x \in OpenPlays(used)
      <4>1. PICK p \in t.s.prov.plays : x = <<p.serial, p.execution, p.slot>>
        BY <3>2 DEF OpenPlays
      <4>2. CASE p \in its
        <5> DEFINE q == [p EXCEPT !.orbUsed = TRUE]
        <5>1. q \in plays
          BY <4>2
        <5>2. x = <<q.serial, q.execution, q.slot>>
          BY <2>4, <4>1, <4>2
        <5> HIDE DEF q, plays
        <5>3. QED
          BY <2>2, <5>1, <5>2 DEF OpenPlays
      <4>3. CASE p \notin its
        <5>1. p \in used.prov.plays
          BY <2>2, <4>3
        <5>2. QED
          BY <4>1, <5>1 DEF OpenPlays
      <4>4. QED
        BY <4>2, <4>3
    <3>3. QED
      BY <3>1, <3>2
  <2> HIDE DEF plays
  <2>7. QED
    <3>1. CASE used.prov.epoch = used.current.seq
      BY <2>1, <2>2, <2>5, <2>6, <3>1 DEF Alike, Good, Core, Known
    <3>2. CASE used.prov.epoch # used.current.seq
      <4>1. plays = {}
        BY <2>1, <2>2, <2>3, <3>2 DEF Good, plays
      <4>2. QED
        BY <2>1, <2>2, <2>5, <2>6, <3>2, <4>1 DEF Alike, Good, Core, Known
    <3>3. QED
      BY <3>1, <3>2
<1> HIDE DEF t, used
<1>6. ASSUME NEW failure
      PROVE  Quiet(e.s, Refuse(e.s, failure).s) /\ Quiet(t.s, Refuse(t.s, failure).s)
  BY <1>1, <1>3, RefusalIsQuiet DEF Alike
<1>7. Alike(s, owner.s) /\ Alike(s, t.s) /\ Alike(s, used)
  BY <1>1, <1>2, <1>3, <1>5 DEF Quiet, Alike
<1>8. Alike(s, call.s)
  BY <1>1, <1>4, <1>6, <1>7 DEF Quiet, Alike
<1>9. QED
  BY <1>8 DEF call

(***************************************************************************)
(* Plays.                                                                  *)
(***************************************************************************)
\* The core without the plays.
Rest(s) == <<s.poisoned, s.last, s.current.seq, s.current.phase, s.prov.serial, DOMAIN s.prov.orbs>>

LEMMA CoreIsRest ==
  ASSUME NEW s, NEW t
  PROVE  Core(t) = Core(s) <=> Rest(t) = Rest(s) /\ OpenPlays(t) = OpenPlays(s)
BY DEF Core, Rest

LEMMA ClosingIs ==
  ASSUME NEW s, Good(s), NEW kept, kept \subseteq s.prov.plays
  PROVE  LET t == [s EXCEPT !.prov.plays = kept]
         IN  /\ Good(t) /\ Rest(t) = Rest(s) /\ Known(t) = Known(s)
             /\ OpenPlays(t) = {<<p.serial, p.execution, p.slot>> : p \in kept}
             /\ OpenPlays(t) \subseteq OpenPlays(s)
<1> DEFINE t == [s EXCEPT !.prov.plays = kept]
<1>1. /\ DOMAIN t = Fields /\ t.current = s.current /\ t.poisoned = s.poisoned /\ t.last = s.last
      /\ DOMAIN t.prov = ProvFields /\ t.prov.epoch = s.prov.epoch /\ t.prov.serial = s.prov.serial
      /\ t.prov.generated = s.prov.generated /\ t.prov.orbs = s.prov.orbs /\ t.prov.plays = kept
  BY DEF Good, Fields, ProvFields
<1> HIDE DEF t
<1>2. Rest(t) = Rest(s) /\ Known(t) = Known(s)
  BY <1>1 DEF Rest, Known
<1>3. Good(t)
  BY <1>1, <1>2 DEF Good
<1>4. OpenPlays(t) = {<<p.serial, p.execution, p.slot>> : p \in kept}
  BY <1>1 DEF OpenPlays
<1>5. OpenPlays(t) \subseteq OpenPlays(s)
  BY <1>4 DEF OpenPlays
<1>6. QED
  BY <1>2, <1>3, <1>4, <1>5 DEF t

\* A finished play is closed, and no other.
LEMMA FinishIs ==
  ASSUME NEW s, Good(s), NEW token
  PROVE  LET t == CardPlayFinished(s, token).s
         IN  /\ Good(t) /\ Rest(t) = Rest(s) /\ Known(t) = Known(s)
             /\ OpenPlays(t) \subseteq OpenPlays(s)
             /\ \A x \in OpenPlays(s) : x[1] # token.payload => x \in OpenPlays(t)
<1> DEFINE e == ProvenanceToken(s, token, "play")
           its == {p \in e.s.prov.plays : p.serial = token.payload}
           kept == e.s.prov.plays \ its
           closed == [e.s EXCEPT !.prov.plays = kept]
           t == CardPlayFinished(s, token).s
<1>1. Alike(s, e.s)
  BY TokenIs
<1>2. \/ \E failure : t = Refuse(e.s, failure).s
      \/ t = closed
  <2>1. CardPlayFinished(s, token)
          = CASE e.failure # None -> Refuse(e.s, e.failure)
              [] e.failure = None /\ its = {} -> Refuse(e.s, "source-handle")
              [] e.failure = None /\ its # {} -> Accept(closed, Number(1))
    BY DEF CardPlayFinished, FinishIn
  <2> HIDE DEF e, its, closed
  <2>2. \/ \E failure : CardPlayFinished(s, token) = Refuse(e.s, failure)
        \/ CardPlayFinished(s, token) = Accept(closed, Number(1))
    BY <2>1
  <2>3. QED
    BY <2>2 DEF Accept
<1> HIDE DEF e, t
<1>3. /\ Good(closed) /\ Rest(closed) = Rest(e.s) /\ Known(closed) = Known(e.s)
      /\ OpenPlays(closed) = {<<p.serial, p.execution, p.slot>> : p \in kept}
      /\ OpenPlays(closed) \subseteq OpenPlays(e.s)
  BY <1>1, ClosingIs DEF Alike
<1>4. Rest(e.s) = Rest(s) /\ OpenPlays(e.s) = OpenPlays(s) /\ Known(e.s) = Known(s)
  BY <1>1, CoreIsRest DEF Alike
<1>5. ASSUME NEW x \in OpenPlays(s), x[1] # token.payload
      PROVE  x \in OpenPlays(closed)
  <2>1. PICK p \in e.s.prov.plays : x = <<p.serial, p.execution, p.slot>>
    BY <1>4, <1>5 DEF OpenPlays
  <2>2. p \in kept
    BY <1>5, <2>1
  <2>3. QED
    BY <1>3, <2>1, <2>2
<1> HIDE DEF closed
<1>6. CASE t = closed
  BY <1>3, <1>4, <1>5, <1>6 DEF t
<1>7. CASE \E failure : t = Refuse(e.s, failure).s
  <2>1. Quiet(e.s, t)
    BY <1>1, <1>7, RefusalIsQuiet DEF Alike
  <2>2. Good(t) /\ Known(t) = Known(s) /\ Rest(t) = Rest(s) /\ OpenPlays(t) = OpenPlays(s)
    BY <1>4, <2>1, CoreIsRest DEF Quiet, Alike
  <2>3. QED
    BY <2>2 DEF t
<1>8. QED
  BY <1>2, <1>6, <1>7

\* An execution that ends leaves none of its plays open, and closes no other.
LEMMA EndIs ==
  ASSUME NEW s, Good(s), NEW seq, NEW execution
  PROVE  LET t == CardExecutionEnded(s, seq, execution).s
         IN  /\ Good(t) /\ Rest(t) = Rest(s) /\ Known(t) = Known(s)
             /\ OpenPlays(t) \subseteq OpenPlays(s)
             /\ \A x \in OpenPlays(s) : x[2] # execution => x \in OpenPlays(t)
             /\ Takes(s, seq) /\ execution # 0 => \A x \in OpenPlays(t) : x[2] # execution
<1> DEFINE e == ProvenanceEpoch(s, seq)
           kept == {p \in e.s.prov.plays : p.execution # execution}
           closed == [e.s EXCEPT !.prov.plays = kept]
           t == CardExecutionEnded(s, seq, execution).s
<1>1. Alike(s, e.s) /\ (e.failure = None <=> Takes(s, seq))
  BY EpochIs
<1>2. \/ (e.failure # None \/ execution = 0) /\ \E failure : t = Refuse(e.s, failure).s
      \/ t = closed
  <2>1. CardExecutionEnded(s, seq, execution)
          = CASE e.failure # None -> Refuse(e.s, e.failure)
              [] e.failure = None /\ execution = 0 -> Refuse(e.s, "packet")
              [] e.failure = None /\ execution # 0 -> Accept(closed, Number(1))
    BY DEF CardExecutionEnded, EndIn
  <2> HIDE DEF e, closed
  <2>2. \/ /\ e.failure # None \/ execution = 0
           /\ \E failure : CardExecutionEnded(s, seq, execution) = Refuse(e.s, failure)
        \/ CardExecutionEnded(s, seq, execution) = Accept(closed, Number(1))
    BY <2>1
  <2>3. QED
    BY <2>2 DEF Accept
<1> HIDE DEF e, t
<1>3. /\ Good(closed) /\ Rest(closed) = Rest(e.s) /\ Known(closed) = Known(e.s)
      /\ OpenPlays(closed) = {<<p.serial, p.execution, p.slot>> : p \in kept}
      /\ OpenPlays(closed) \subseteq OpenPlays(e.s)
  BY <1>1, ClosingIs DEF Alike
<1>4. Rest(e.s) = Rest(s) /\ OpenPlays(e.s) = OpenPlays(s) /\ Known(e.s) = Known(s)
  BY <1>1, CoreIsRest DEF Alike
<1>5. ASSUME NEW x \in OpenPlays(s), x[2] # execution
      PROVE  x \in OpenPlays(closed)
  <2>1. PICK p \in e.s.prov.plays : x = <<p.serial, p.execution, p.slot>>
    BY <1>4, <1>5 DEF OpenPlays
  <2>2. p \in kept
    BY <1>5, <2>1
  <2>3. QED
    BY <1>3, <2>1, <2>2
<1>6. \A x \in OpenPlays(closed) : x[2] # execution
  BY <1>3
<1> HIDE DEF closed
<1>7. CASE t = closed
  BY <1>3, <1>4, <1>5, <1>6, <1>7 DEF t
<1>8. CASE (e.failure # None \/ execution = 0) /\ \E failure : t = Refuse(e.s, failure).s
  <2>1. Quiet(e.s, t)
    BY <1>1, <1>8, RefusalIsQuiet DEF Alike
  <2>2. Good(t) /\ Known(t) = Known(s) /\ Rest(t) = Rest(s) /\ OpenPlays(t) = OpenPlays(s)
    BY <1>4, <2>1, CoreIsRest DEF Quiet, Alike
  <2>3. ~(Takes(s, seq) /\ execution # 0)
    BY <1>1, <1>8
  <2>4. QED
    BY <2>2, <2>3 DEF t
<1>9. QED
  BY <1>2, <1>7, <1>8

\* The core without plays and serial.
Base(s) == <<s.poisoned, s.last, s.current.seq, s.current.phase, DOMAIN s.prov.orbs>>

LEMMA CoreIsBase ==
  ASSUME NEW s, NEW t
  PROVE  Core(t) = Core(s) <=> /\ Base(t) = Base(s) /\ OpenPlays(t) = OpenPlays(s)
                               /\ t.prov.serial = s.prov.serial
BY DEF Core, Base

\* A play is opened under a new serial, or nothing is opened.
LEMMA OpenIs ==
  ASSUME NEW s, Good(s), s.prov.epoch = s.current.seq, NEW play, NEW source
  PROVE  LET call == Open(s, play, source)
         IN  /\ Good(call.s) /\ Base(call.s) = Base(s) /\ Known(call.s) = Known(s)
             /\ \/ /\ call.r = Zero /\ OpenPlays(call.s) = OpenPlays(s)
                   /\ call.s.prov.serial = s.prov.serial
                \/ /\ call.r = Wire(s.prov.epoch, "play", s.prov.serial + 1) /\ play.execution # 0
                   /\ OpenPlays(call.s) =
                        OpenPlays(s) \cup {<<s.prov.serial + 1, play.execution, play.slot>>}
                   /\ call.s.prov.serial = s.prov.serial + 1
<1> DEFINE n == s.prov.serial + 1
           new == [serial |-> n, execution |-> play.execution, slot |-> play.slot,
                   source |-> source, orbUsed |-> FALSE]
           more == [s EXCEPT !.prov.serial = n, !.prov.plays = @ \cup {new}]
           call == Open(s, play, source)
<1>1. \/ call = Refuse(s, "capacity")
      \/ play.execution # 0 /\ call = Accept(more, Wire(s.prov.epoch, "play", n))
  BY DEF Open
<1> HIDE DEF call
<1>2. CASE call = Refuse(s, "capacity")
  <2>1. Quiet(s, call.s) /\ call.r = Zero
    BY <1>2, RefusalIsQuiet
  <2>2. QED
    BY <2>1, CoreIsBase DEF Quiet, Alike, call
<1>3. CASE play.execution # 0 /\ call = Accept(more, Wire(s.prov.epoch, "play", n))
  <2>1. /\ DOMAIN more = Fields /\ more.current = s.current /\ more.poisoned = s.poisoned
        /\ more.last = s.last /\ DOMAIN more.prov = ProvFields /\ more.prov.epoch = s.prov.epoch
        /\ more.prov.serial = n /\ more.prov.generated = s.prov.generated
        /\ more.prov.orbs = s.prov.orbs /\ more.prov.plays = s.prov.plays \cup {new}
    BY DEF Good, Fields, ProvFields
  <2>2. /\ DOMAIN new = PlayFields /\ new.serial = n /\ new.execution = play.execution
        /\ new.slot = play.slot
    BY DEF PlayFields
  <2>3. n \in Nat
    BY DEF Good
  <2>4. call.s = more /\ call.r = Wire(s.prov.epoch, "play", n)
    BY <1>3 DEF Accept
  <2> HIDE DEF n, new, more
  <2>5. Base(more) = Base(s) /\ Known(more) = Known(s)
    BY <2>1 DEF Base, Known
  <2>6. OpenPlays(more) = OpenPlays(s) \cup {<<n, play.execution, play.slot>>}
    BY <2>1, <2>2 DEF OpenPlays
  <2>7. Good(more)
    BY <2>1, <2>2, <2>3 DEF Good
  <2>8. QED
    BY <1>3, <2>1, <2>4, <2>5, <2>6, <2>7 DEF n, call
<1>4. QED
  BY <1>1, <1>2, <1>3

LEMMA StartIs ==
  ASSUME NEW s, Good(s), NEW seq, NEW execution, NEW instance, NEW id, NEW player \in Slots,
         NEW generation, NEW transfer,
         generation \in {"unavailable", "ordinary", "recorded", "unclassified"}
  PROVE  LET call == CardPlayStarted(s, seq, execution, instance, id, player, generation, transfer)
         IN  /\ Good(call.s) /\ Base(call.s) = Base(s)
             /\ \/ Known(call.s) = Known(s)
                \/ generation = "unavailable" /\ Known(call.s) = Known(s) \ {instance}
             /\ \/ /\ call.r = Zero /\ OpenPlays(call.s) = OpenPlays(s)
                   /\ call.s.prov.serial = s.prov.serial
                \/ /\ Takes(s, seq) /\ execution # 0
                   /\ call.r = Wire(seq, "play", s.prov.serial + 1)
                   /\ OpenPlays(call.s) =
                        OpenPlays(s) \cup {<<s.prov.serial + 1, execution, player>>}
                   /\ call.s.prov.serial = s.prov.serial + 1
<1> DEFINE e == ProvenanceEpoch(s, seq)
           owner == Slotted(e.s, player)
           given == SourceSnapshot(owner.s, transfer)
           play == [execution |-> execution, instance |-> instance, id |-> id,
                    slot |-> owner.slot, generation |-> generation]
           found == CardSource(given.s, instance, id, owner.slot, generation, given.source)
           call == CardPlayStarted(s, seq, execution, instance, id, player, generation, transfer)
           Lost(t) == \/ Known(t) = Known(s)
                      \/ generation = "unavailable" /\ Known(t) = Known(s) \ {instance}
<1>1. Alike(s, e.s) /\ (e.failure = None <=> Takes(s, seq)) /\ (e.failure = None => e.s.prov.epoch = seq)
  BY EpochIs
<1>2. Quiet(e.s, owner.s) /\ owner.slot = player
  BY <1>1, SlotIsQuiet DEF Alike
<1>3. Quiet(owner.s, given.s)
  BY <1>2, SnapshotIsQuiet DEF Quiet, Alike
<1>4. call = IF e.failure # None THEN Refuse(e.s, e.failure)
             ELSE IF given.failure # None THEN Refuse(given.s, given.failure)
             ELSE StartFrom(found, play)
  BY DEF CardPlayStarted, StartIn, StartBy
<1>5. play.execution = execution /\ play.slot = player
  BY <1>2
<1> HIDE DEF e, owner, given, play, call
<1>6. /\ Good(e.s) /\ Core(e.s) = Core(s) /\ Known(e.s) = Known(s)
      /\ Good(given.s) /\ Core(given.s) = Core(s) /\ Known(given.s) = Known(s)
      /\ given.s.prov.epoch = e.s.prov.epoch
  BY <1>1, <1>2, <1>3 DEF Quiet, Alike
<1>7. Good(found.s) /\ Core(found.s) = Core(s) /\ found.s.prov.epoch = e.s.prov.epoch /\ Lost(found.s)
  <2>1. /\ Good(found.s) /\ Core(found.s) = Core(given.s) /\ found.s.prov.epoch = given.s.prov.epoch
        /\ \/ Known(found.s) = Known(given.s)
           \/ generation = "unavailable" /\ Known(found.s) = Known(given.s) \ {instance}
    BY <1>6, CardSourceIs
  <2>2. QED
    BY <1>6, <2>1
<1> HIDE DEF found
\* A refusal.
<1>8. ASSUME NEW t, Good(t), Core(t) = Core(s), Lost(t), NEW failure
      PROVE  LET end == Refuse(t, failure)
             IN  /\ Good(end.s) /\ Base(end.s) = Base(s) /\ Lost(end.s) /\ end.r = Zero
                 /\ OpenPlays(end.s) = OpenPlays(s) /\ end.s.prov.serial = s.prov.serial
  <2> DEFINE end == Refuse(t, failure)
  <2>1. Quiet(t, end.s) /\ end.r = Zero
    BY <1>8, RefusalIsQuiet
  <2> HIDE DEF end
  <2>2. Good(end.s) /\ Core(end.s) = Core(s) /\ Known(end.s) = Known(t)
    BY <1>8, <2>1 DEF Quiet, Alike
  <2>3. QED
    BY <1>8, <2>1, <2>2, CoreIsBase DEF end
\* What has been booked when it is refused or opened.
<1> DEFINE counted == Count(Stage(found.s), "plays")
           one == Count(counted, "generatedPlays")
           two == RowPlay(counted, CHOOSE to \in found.source : TRUE)
           After(stage) == [found.s EXCEPT !.current = stage.c, !.died = SlotIndex(@, play.slot)]
<1>9. Steady(found.s.current, one) /\ Steady(found.s.current, two)
  <2>1. Steady(found.s.current, Stage(found.s))
    BY <1>7 DEF Steady, Stage, Calm, Good
  <2>2. Steady(found.s.current, counted)
    BY <2>1, StagesAreCalm
  <2> HIDE DEF counted
  <2>3. QED
    BY <2>2, StagesAreCalm
<1>10. ASSUME NEW stage, Steady(found.s.current, stage)
       PROVE  Quiet(found.s, After(stage))
  <2> DEFINE t == After(stage)
  <2>1. /\ DOMAIN t = Fields /\ t.current = stage.c /\ t.prov = found.s.prov
        /\ t.poisoned = found.s.poisoned /\ t.last = found.s.last
    BY <1>7 DEF Good, Fields
  <2> HIDE DEF t
  <2>2. Quiet(found.s, t)
    BY <1>7, <1>10, <2>1, Outside DEF Steady
  <2>3. QED
    BY <2>2 DEF t
<1>11. \/ e.failure # None /\ call = Refuse(e.s, e.failure)
       \/ \E failure : call = Refuse(given.s, failure)
       \/ \E failure : call = Refuse(found.s, failure)
       \/ e.failure = None /\ \E stage \in {one, two} : call = Open(After(stage), play, found.source)
  <2>1. \/ StartFrom(found, play) = StartWith(found, one, play)
        \/ StartFrom(found, play) = StartWith(found, two, play)
    BY DEF StartFrom
  <2> HIDE DEF one, two
  <2>2. \A stage : StartWith(found, stage, play)
                     = IF stage.failure # None THEN Refuse(found.s, stage.failure)
                       ELSE Open(After(stage), play, found.source)
    BY DEF StartWith
  <2> HIDE DEF After
  <2>3. QED
    BY <1>4, <2>1, <2>2
<1> HIDE DEF counted, one, two, After
<1>12. CASE e.failure # None /\ call = Refuse(e.s, e.failure)
  BY <1>6, <1>8, <1>12 DEF call
<1>13. CASE \E failure : call = Refuse(given.s, failure)
  BY <1>6, <1>8, <1>13 DEF call
<1>14. CASE \E failure : call = Refuse(found.s, failure)
  BY <1>7, <1>8, <1>14 DEF call
<1>15. CASE e.failure = None /\ \E stage \in {one, two} : call = Open(After(stage), play, found.source)
  <2>1. PICK stage \in {one, two} : call = Open(After(stage), play, found.source)
    BY <1>15
  <2> DEFINE t == After(stage)
  <2>2. Quiet(found.s, t)
    BY <1>9, <1>10
  <2>3. call = Open(t, play, found.source)
    BY <2>1
  <2> HIDE DEF t
  <2>4. Good(t) /\ Core(t) = Core(s) /\ Lost(t) /\ t.prov.epoch = seq
    BY <1>1, <1>7, <1>15, <2>2 DEF Quiet, Alike
  <2>5. Takes(s, seq) /\ t.current.seq = seq
    BY <1>1, <1>15, <2>4 DEF Core, Takes
  <2>6. Base(t) = Base(s) /\ OpenPlays(t) = OpenPlays(s) /\ t.prov.serial = s.prov.serial
    BY <2>4, CoreIsBase
  <2>7. /\ Good(call.s) /\ Base(call.s) = Base(t) /\ Known(call.s) = Known(t)
        /\ \/ /\ call.r = Zero /\ OpenPlays(call.s) = OpenPlays(t)
              /\ call.s.prov.serial = t.prov.serial
           \/ /\ call.r = Wire(t.prov.epoch, "play", t.prov.serial + 1) /\ play.execution # 0
              /\ OpenPlays(call.s) =
                   OpenPlays(t) \cup {<<t.prov.serial + 1, play.execution, play.slot>>}
              /\ call.s.prov.serial = t.prov.serial + 1
    BY <2>3, <2>4, <2>5, OpenIs
  <2>8. QED
    BY <1>5, <2>4, <2>5, <2>6, <2>7 DEF call
<1>16. QED
  BY <1>11, <1>12, <1>13, <1>14, <1>15

(***************************************************************************)
(* Combats.                                                                *)
(***************************************************************************)
LEMMA DiscardIs ==
  ASSUME NEW s, Good(s)
  PROVE  Good(Discarded(s)) /\ ~Active(Discarded(s)) /\ Discarded(s).current.seq = 0
         /\ Discarded(s).last = s.last
<1> DEFINE t == Discarded(s)
<1>1. /\ DOMAIN t = Fields /\ t.current = NoCombat /\ t.prov = NoProvenance /\ t.last = s.last
  BY DEF Discarded, Good, Fields
<1> HIDE DEF t
<1>2. /\ DOMAIN NoCombat = CombatFields /\ NoCombat.seq = 0 /\ NoCombat.phase = None
      /\ DOMAIN NoProvenance = ProvFields /\ NoProvenance.epoch = 0 /\ NoProvenance.plays = {}
      /\ NoProvenance.serial = 0
  BY DEF NoCombat, NoProvenance, CombatFields, ProvFields
<1>3. Good(t) /\ ~Active(t) /\ t.current.seq = 0 /\ t.last = s.last
  BY <1>1, <1>2 DEF Good, Active, None
<1>4. QED
  BY <1>3 DEF t

\* The combat that is announced begins with nothing open and nothing known.
LEMMA CombatStartIs ==
  ASSUME NEW s, Good(s), s.last \in Nat, s.current.seq \in Nat, s.current.seq <= s.last
  PROVE  LET t == CombatStarted(s, s.last + 1, Team).s
         IN  /\ Good(t) /\ ~t.poisoned /\ Active(t) /\ t.current.seq = s.last + 1
             /\ t.last = s.last + 1
             /\ OpenPlays(t) = {} /\ Known(t) = {} /\ DOMAIN t.prov.orbs = {} /\ t.prov.serial = 0
<1> DEFINE seq == s.last + 1
           players == IF Team < 0 THEN 0 ELSE IF Team > Team THEN Team ELSE Team
           combat == [NoCombat EXCEPT !.seq = seq, !.phase = "active", !.players = players]
           covered == [complete |-> TRUE, reasons |-> {}]
           died == [i \in 1..players |-> FALSE]
           started == [Discarded(s) EXCEPT !.last = seq, !.poisoned = FALSE, !.current = combat,
                         !.coverage = covered, !.died = died, !.revision = @ + 1]
           t == CombatStarted(s, seq, Team).s
<1>1. t = started \/ t = Failed(started, "player-count")
  <2>1. ~(seq = 0 \/ seq <= s.last \/ (s.current # NoCombat /\ s.current.seq >= seq))
    OBVIOUS
  <2>2. CombatStarted(s, seq, Team)
          = IF seq = 0 \/ seq <= s.last \/ (s.current # NoCombat /\ s.current.seq >= seq)
            THEN Accept(Failed(s, "combat-epoch"), Zero)
            ELSE Accept(IF Team = players THEN started ELSE Failed(started, "player-count"), Number(seq))
    BY DEF CombatStarted
  <2> HIDE DEF seq, started, players
  <2>3. QED
    BY <2>1, <2>2 DEF Accept
<1>2. /\ DOMAIN combat = CombatFields /\ combat.seq = seq /\ combat.phase = "active"
      /\ DOMAIN NoProvenance = ProvFields /\ NoProvenance.epoch = 0 /\ NoProvenance.plays = {}
      /\ NoProvenance.serial = 0 /\ NoProvenance.generated = NoEntries /\ NoProvenance.orbs = NoEntries
      /\ DOMAIN NoEntries = {}
  BY DEF NoCombat, NoProvenance, NoEntries, CombatFields, ProvFields
<1> HIDE DEF combat, covered, died, t
<1>3. /\ DOMAIN started = Fields /\ started.current = combat /\ started.prov = NoProvenance
      /\ started.last = seq /\ started.poisoned = FALSE
  BY DEF Discarded, Good, Fields
<1> HIDE DEF started, seq
<1>4. OpenPlays(started) = {} /\ Known(started) = {}
  BY <1>2, <1>3 DEF OpenPlays, Known
<1>5. Good(started)
  BY <1>2, <1>3, <1>4 DEF Good
<1>6. Alike(started, t)
  BY <1>1, <1>5, FailedIsQuiet, QuietSelf DEF Quiet
<1>7. QED
  BY <1>2, <1>3, <1>4, <1>5, <1>6 DEF Alike, Core, Active, t, seq

LEMMA CombatEndIs ==
  ASSUME NEW s, Good(s), NEW seq
  PROVE  LET t == CombatEnded(s, seq).s
         IN  /\ Good(t) /\ t.last = s.last /\ t.current.seq = s.current.seq
             /\ t.poisoned = s.poisoned
             /\ Takes(s, seq) => ~Active(t)
             /\ ~Takes(s, seq) => Core(t) = Core(s)
<1> DEFINE e == ProvenanceEpoch(s, seq)
           ended == [e.s EXCEPT !.current.phase = Phase(e.s), !.prov = NoProvenance,
                                !.arena.entries = NoEntries]
           t == CombatEnded(s, seq).s
<1>1. Alike(s, e.s) /\ (e.failure = None <=> Takes(s, seq))
  BY EpochIs
<1>2. t = IF e.failure # None THEN e.s ELSE ended
  BY DEF CombatEnded, EndCombatIn, Accept
<1> HIDE DEF e, t
<1>3. /\ Good(e.s) /\ e.s.last = s.last /\ e.s.current.seq = s.current.seq
      /\ e.s.poisoned = s.poisoned /\ Core(e.s) = Core(s)
  BY <1>1 DEF Alike, Core
<1>4. /\ DOMAIN ended = Fields /\ DOMAIN ended.current = CombatFields
      /\ ended.current.seq = e.s.current.seq /\ ended.current.phase = Phase(e.s)
      /\ ended.prov = NoProvenance /\ ended.last = e.s.last /\ ended.poisoned = e.s.poisoned
  BY <1>3 DEF Good, Fields, CombatFields
<1> HIDE DEF ended
<1>5. Phase(e.s) # "active"
  BY DEF Phase
<1>6. Good(ended) /\ ~Active(ended)
  <2>1. /\ DOMAIN NoProvenance = ProvFields /\ NoProvenance.epoch = 0 /\ NoProvenance.plays = {}
        /\ NoProvenance.serial = 0 /\ NoProvenance.generated = NoEntries
        /\ NoProvenance.orbs = NoEntries /\ DOMAIN NoEntries = {}
    BY DEF NoProvenance, NoEntries, ProvFields
  <2>2. QED
    BY <1>4, <1>5, <2>1 DEF Good, Active, Known
<1>7. QED
  BY <1>1, <1>2, <1>3, <1>4, <1>6 DEF t

----------------------------------------------------------------------------
(***************************************************************************)
(* The invariant.                                                          *)
(***************************************************************************)
On(s) == ~s.poisoned /\ Active(s)

\* The engine and the patches are in the same combat, or one of them is in none.
EngineInv ==
  /\ Good(engine)
  /\ engine.last \in Nat /\ engine.current.seq \in 0..engine.last /\ epoch \in Nat
  /\ epoch # 0 => Active(engine) /\ engine.current.seq = epoch
  /\ On(engine) => epoch # 0

FlowFields == {"execution", "chain", "owner", "live"}

\* A flow of a combat up to the latest, with an execution up to n.
IsFlow(flow, latest, n) ==
  /\ DOMAIN flow = FlowFields
  /\ flow.execution.epoch \in 0..latest
  /\ flow.execution.identity \in 0..n
  /\ \E S : flow.chain \in Seq(S)
  /\ flow.owner => flow.live

\* The frames a wrapper has a token for are of its own execution.
Own(flow) ==
  flow.owner => \A i \in DOMAIN flow.chain : flow.chain[i].token # Zero =>
                   /\ flow.chain[i].epoch = flow.execution.epoch
                   /\ flow.chain[i].execution = flow.execution.identity
                   /\ flow.execution.identity # 0

SameRun(one, two) ==
  /\ one.owner /\ two.owner
  /\ one.execution.identity = two.execution.identity /\ one.execution.identity # 0

FlowsInv(fl, latest, n) ==
  /\ latest \in Nat /\ n \in Nat
  /\ DOMAIN fl = Flows
  /\ \A f \in Flows : IsFlow(fl[f], latest, n) /\ Own(fl[f])
  /\ \A f, g \in Flows : SameRun(fl[f], fl[g]) => f = g

\* Frame i of a wrapper holds the token of a play of the combat.
Bears(flow, i, seq) ==
  flow.owner /\ i \in DOMAIN flow.chain /\ flow.chain[i].epoch = seq /\ flow.chain[i].token # Zero

Runs(flow, seq, identity) ==
  flow.owner /\ flow.execution.epoch = seq /\ flow.execution.identity = identity

PlayOf(frame) == <<frame.token.payload, frame.execution, frame.slot>>

\* What is open is of a wrapper that runs, what a frame holds is open, and no two
\* frames hold the same play.
Wrapped(fl, seq, opens) == \A x \in opens : x[2] # 0 /\ \E f \in Flows : Runs(fl[f], seq, x[2])

Borne(fl, seq, opens, serial) ==
  \A f \in Flows, i \in Nat : Bears(fl[f], i, seq) =>
     /\ fl[f].chain[i].token.payload \in 1..serial
     /\ PlayOf(fl[f].chain[i]) \in opens

Distinct(fl, seq) ==
  \A f, g \in Flows, i, j \in Nat :
     Bears(fl[f], i, seq) /\ Bears(fl[g], j, seq)
       /\ fl[f].chain[i].token.payload = fl[g].chain[j].token.payload => f = g /\ i = j

Running(fl, seq, opens, serial) ==
  Wrapped(fl, seq, opens) /\ Borne(fl, seq, opens, serial) /\ Distinct(fl, seq)

RunInv == On(engine) => Running(flows, engine.current.seq, OpenPlays(engine), engine.prov.serial)

Generations == {"ordinary", "recorded", "unavailable"}

KnownInv ==
  /\ DOMAIN metadata = {"generation", "dirty"}
  /\ metadata.generation \in [Cards -> Generations]
  /\ KnownAlike

PlaysInv ==
  EngineInv /\ FlowsInv(flows, engine.last, executions) /\ RunInv /\ KnownInv

(***************************************************************************)
(* What a step may leave alone.                                            *)
(***************************************************************************)
Combat(s) == <<s.poisoned, s.last, s.current.seq, s.current.phase>>

LEMMA SameCombat ==
  ASSUME NEW s, NEW t,
         Core(t) = Core(s) \/ Plain(t) = Plain(s) \/ Rest(t) = Rest(s) \/ Base(t) = Base(s)
  PROVE  Combat(t) = Combat(s)
<1>1. CASE Core(t) = Core(s)
  BY <1>1 DEF Core, Combat
<1>2. CASE Plain(t) = Plain(s)
  BY <1>2 DEF Plain, Combat
<1>3. CASE Rest(t) = Rest(s)
  BY <1>3 DEF Rest, Combat
<1>4. CASE Base(t) = Base(s)
  BY <1>4 DEF Base, Combat
<1>5. QED
  BY <1>1, <1>2, <1>3, <1>4

LEMMA EngineRests ==
  ASSUME EngineInv, Good(engine'), Combat(engine') = Combat(engine), epoch' = epoch
  PROVE  EngineInv' /\ engine'.last = engine.last /\ (On(engine') <=> On(engine))
         /\ engine'.current.seq = engine.current.seq
BY DEF EngineInv, Combat, On, Active

LEMMA KnownRests ==
  ASSUME KnownInv, Combat(engine') = Combat(engine), epoch' = epoch, UNCHANGED metadata,
         epoch # 0 /\ ~engine.poisoned => Known(engine') = Known(engine),
         DOMAIN engine'.prov.orbs \subseteq DOMAIN engine.prov.orbs
  PROVE  KnownInv'
BY DEF KnownInv, KnownAlike, Combat, Known

\* One flow changes.
LEMMA OneFlow ==
  ASSUME NEW fl, NEW gl, NEW g \in Flows, NEW latest, NEW n, NEW m \in Nat, FlowsInv(fl, latest, n),
         m >= n, DOMAIN gl = Flows, \A f \in Flows \ {g} : gl[f] = fl[f],
         IsFlow(gl[g], latest, m), Own(gl[g]),
         gl[g].owner /\ gl[g].execution.identity # 0 =>
           \/ gl[g].execution.identity > n
           \/ fl[g].owner /\ gl[g].execution.identity = fl[g].execution.identity
  PROVE  FlowsInv(gl, latest, m)
<1>1. \A f \in Flows : IsFlow(gl[f], latest, m) /\ Own(gl[f])
  <2>1. ASSUME NEW f \in Flows \ {g}
        PROVE  IsFlow(gl[f], latest, m) /\ Own(gl[f])
    BY <2>1 DEF FlowsInv, IsFlow
  <2>2. QED
    BY <2>1
<1>2. ASSUME NEW f \in Flows, f # g, SameRun(gl[f], gl[g])
      PROVE  FALSE
  <2>1. gl[f] = fl[f] /\ fl[f].execution.identity <= n /\ fl[f].execution.identity \in Nat
    BY <1>2 DEF FlowsInv, IsFlow
  <2>2. gl[g].execution.identity = fl[f].execution.identity
    BY <1>2, <2>1 DEF SameRun
  <2>3. fl[g].owner /\ gl[g].execution.identity = fl[g].execution.identity
    BY <1>2, <2>1, <2>2 DEF SameRun, FlowsInv
  <2>4. SameRun(fl[f], fl[g])
    BY <1>2, <2>1, <2>3 DEF SameRun
  <2>5. QED
    BY <1>2, <2>4 DEF FlowsInv
<1>3. ASSUME NEW f \in Flows, NEW h \in Flows, SameRun(gl[f], gl[h])
      PROVE  f = h
  <2>1. SameRun(gl[h], gl[f])
    BY <1>3 DEF SameRun
  <2>2. CASE f # g /\ h # g
    BY <1>3, <2>2 DEF FlowsInv
  <2>3. QED
    BY <1>2, <1>3, <2>1, <2>2
<1>4. QED
  BY <1>1, <1>3 DEF FlowsInv

\* A flow that is no wrapper's changes into one that holds no play.
LEMMA OthersRun ==
  ASSUME NEW fl, NEW gl, NEW g \in Flows, NEW seq, NEW opens, NEW serial,
         Running(fl, seq, opens, serial), ~fl[g].owner, \A f \in Flows \ {g} : gl[f] = fl[f],
         \A i : ~Bears(gl[g], i, seq)
  PROVE  Running(gl, seq, opens, serial)
<1>1. Wrapped(gl, seq, opens)
  BY DEF Running, Wrapped, Runs
<1>2. \A f \in Flows, i \in Nat : Bears(gl[f], i, seq) => Bears(fl[f], i, seq) /\ gl[f] = fl[f]
  OBVIOUS
<1>3. Borne(gl, seq, opens, serial)
  BY <1>2 DEF Running, Borne
<1>4. ASSUME NEW f \in Flows, NEW h \in Flows, NEW i \in Nat, NEW j \in Nat,
             Bears(gl[f], i, seq), Bears(gl[h], j, seq),
             gl[f].chain[i].token.payload = gl[h].chain[j].token.payload
      PROVE  f = h /\ i = j
  <2>1. /\ Bears(fl[f], i, seq) /\ Bears(fl[h], j, seq)
        /\ fl[f].chain[i].token.payload = fl[h].chain[j].token.payload
    BY <1>2, <1>4
  <2>2. QED
    BY <2>1 DEF Running, Distinct
<1>5. Distinct(gl, seq)
  BY <1>4 DEF Distinct
<1>6. QED
  BY <1>1, <1>3, <1>5 DEF Running

LEMMA FlowStep ==
  ASSUME PlaysInv, UNCHANGED <<engine, epoch, metadata>>,
         FlowsInv(flows', engine.last, executions'),
         On(engine) => Running(flows', engine.current.seq, OpenPlays(engine), engine.prov.serial)
  PROVE  PlaysInv'
<1>1. EngineInv'
  BY DEF PlaysInv, EngineInv, On, Active
<1>2. KnownInv'
  BY DEF PlaysInv, KnownInv, KnownAlike
<1>3. FlowsInv(flows, engine.last, executions)'
  BY DEF FlowsInv
<1>4. RunInv'
  <2>1. OpenPlays(engine)' = OpenPlays(engine) /\ (On(engine)' <=> On(engine))
        /\ engine'.current.seq = engine.current.seq /\ engine'.prov.serial = engine.prov.serial
    BY DEF OpenPlays, On, Active
  <2>2. QED
    BY <2>1 DEF RunInv
<1>5. QED
  BY <1>1, <1>2, <1>3, <1>4 DEF PlaysInv

LEMMA EngineStep ==
  ASSUME PlaysInv, UNCHANGED <<epoch, flows, executions>>, Good(engine'),
         Combat(engine') = Combat(engine), OpenPlays(engine') = OpenPlays(engine),
         engine'.prov.serial = engine.prov.serial, KnownInv'
  PROVE  PlaysInv'
<1>1. EngineInv' /\ engine'.last = engine.last /\ (On(engine') <=> On(engine))
      /\ engine'.current.seq = engine.current.seq
  BY EngineRests DEF PlaysInv
<1>2. FlowsInv(flows, engine.last, executions)'
  BY <1>1 DEF PlaysInv, FlowsInv
<1>3. RunInv'
  <2>1. OpenPlays(engine)' = OpenPlays(engine')
    OBVIOUS
  <2>2. Running(flows, engine.current.seq, OpenPlays(engine), engine.prov.serial)'
          <=> Running(flows, engine.current.seq, OpenPlays(engine), engine.prov.serial)
    BY <1>1, <2>1
  <2>3. QED
    BY <1>1, <2>2 DEF PlaysInv, RunInv
<1>4. QED
  BY <1>1, <1>2, <1>3 DEF PlaysInv

LEMMA EpochsKnown ==
  ASSUME PlaysInv, NEW inherited \in Inherited
  PROVE  inherited \in 0..engine.last
<1>1. epoch \in 0..engine.last
  BY DEF PlaysInv, EngineInv
<1>2. \A f \in Flows : flows[f].execution.epoch \in 0..engine.last
  BY DEF PlaysInv, FlowsInv, IsFlow
<1>3. QED
  BY <1>1, <1>2 DEF Inherited

LEMMA NoChain ==
  /\ DOMAIN << >> = {}
  /\ \E S : << >> \in Seq(S)
<1>1. << >> \in Seq({})
  OBVIOUS
<1>2. QED
  BY <1>1

LEMMA WrapperKeeps ==
  ASSUME PlaysInv, NEW g \in Flows, NEW potion \in BOOLEAN, NEW inherited \in Inherited,
         Wrapper(inherited, g, potion)
  PROVE  PlaysInv'
<1> DEFINE execution == IF Valid(inherited)
                        THEN [epoch |-> inherited, identity |-> executions + 1,
                              wraps |-> TRUE, potion |-> potion]
                        ELSE [Barrier EXCEPT !.epoch = inherited]
           new == [execution |-> execution, chain |-> << >>, owner |-> TRUE, live |-> TRUE]
<1>1. /\ flows' = [flows EXCEPT ![g] = new] /\ ~flows[g].live
      /\ executions' = IF Valid(inherited) THEN executions + 1 ELSE executions
      /\ UNCHANGED <<engine, epoch, metadata>>
  BY DEF Wrapper
<1>2. /\ executions \in Nat /\ engine.last \in Nat /\ DOMAIN flows = Flows
      /\ IsFlow(flows[g], engine.last, executions)
  BY DEF PlaysInv, FlowsInv
<1>3. executions' \in Nat /\ executions' >= executions
  BY <1>1, <1>2
<1>4. /\ execution.epoch = inherited
      /\ execution.identity = IF Valid(inherited) THEN executions + 1 ELSE 0
  BY DEF Barrier
<1>5. inherited \in 0..engine.last
  BY EpochsKnown
<1> HIDE DEF execution
<1>6. IsFlow(new, engine.last, executions')
  BY <1>1, <1>2, <1>4, <1>5, NoChain DEF IsFlow, FlowFields
<1>7. Own(new) /\ \A i, seq : ~Bears(new, i, seq)
  BY NoChain DEF Own, Bears
<1>8. ~flows[g].owner
  BY <1>1, <1>2 DEF IsFlow
<1>9. new.execution.identity # 0 => new.execution.identity > executions
  BY <1>2, <1>4
<1> HIDE DEF new
<1>10. flows'[g] = new /\ (\A f \in Flows \ {g} : flows'[f] = flows[f]) /\ DOMAIN flows' = Flows
  BY <1>1, <1>2
<1>11. FlowsInv(flows, engine.last, executions)
  BY DEF PlaysInv
<1>12. FlowsInv(flows', engine.last, executions')
  <2> DEFINE gl == flows'
             m == executions'
  <2>1. /\ gl[g] = new /\ (\A f \in Flows \ {g} : gl[f] = flows[f]) /\ DOMAIN gl = Flows
        /\ m \in Nat /\ m >= executions /\ IsFlow(gl[g], engine.last, m) /\ Own(gl[g])
        /\ (gl[g].execution.identity # 0 => gl[g].execution.identity > executions)
    BY <1>3, <1>6, <1>7, <1>9, <1>10
  <2> HIDE DEF gl, m
  <2>2. FlowsInv(gl, engine.last, m)
    BY <1>11, <2>1, OneFlow
  <2>3. QED
    BY <2>2 DEF gl, m
<1>13. On(engine) => Running(flows', engine.current.seq, OpenPlays(engine), engine.prov.serial)
  <2> DEFINE gl == flows'
  <2>1. \A i : ~Bears(gl[g], i, engine.current.seq)
    BY <1>7, <1>10
  <2>2. \A f \in Flows \ {g} : gl[f] = flows[f]
    BY <1>10
  <2> HIDE DEF gl
  <2>3. On(engine) => Running(gl, engine.current.seq, OpenPlays(engine), engine.prov.serial)
    BY <1>8, <2>1, <2>2, OthersRun DEF PlaysInv, RunInv
  <2>4. QED
    BY <2>3 DEF gl
<1>14. QED
  BY <1>1, <1>12, <1>13, FlowStep

LEMMA ForkKeeps ==
  ASSUME PlaysInv, NEW g \in Flows, ~flows[g].owner, UNCHANGED <<engine, epoch, executions, metadata>>,
         NEW new, flows' = [flows EXCEPT ![g] = new], IsFlow(new, engine.last, executions), ~new.owner
  PROVE  PlaysInv'
<1>1. Own(new) /\ \A i, seq : ~Bears(new, i, seq)
  BY DEF Own, Bears
<1>2. FlowsInv(flows, engine.last, executions) /\ executions \in Nat /\ executions >= executions
      /\ DOMAIN flows = Flows
  BY DEF PlaysInv, FlowsInv
<1> DEFINE gl == flows'
<1>3. gl[g] = new /\ (\A f \in Flows \ {g} : gl[f] = flows[f]) /\ DOMAIN gl = Flows
  BY <1>2
<1> HIDE DEF gl
<1>4. FlowsInv(gl, engine.last, executions)
  BY <1>1, <1>2, <1>3, OneFlow
<1>5. On(engine) => Running(gl, engine.current.seq, OpenPlays(engine), engine.prov.serial)
  BY <1>1, <1>3, OthersRun DEF PlaysInv, RunInv
<1>6. QED
  BY <1>4, <1>5, FlowStep DEF gl

LEMMA IdleIsFlow ==
  ASSUME NEW latest \in Nat, NEW n \in Nat
  PROVE  IsFlow(Idle, latest, n) /\ ~Idle.owner /\ Own(Idle) /\ Idle.execution.identity = 0
<1>1. /\ DOMAIN Idle = FlowFields /\ Idle.execution = Barrier /\ Idle.chain = << >>
      /\ Idle.owner = FALSE /\ Idle.live = FALSE
  BY DEF Idle, FlowFields
<1>2. Barrier.epoch = 0 /\ Barrier.identity = 0
  BY DEF Barrier
<1> HIDE DEF Idle
<1>3. QED
  BY <1>1, <1>2, NoChain DEF IsFlow, Own

LEMMA ForkJoinKeep ==
  ASSUME PlaysInv, NEW f \in Flows, NEW g \in Flows, Fork(f, g) \/ Join(g)
  PROVE  PlaysInv'
<1>1. /\ IsFlow(flows[f], engine.last, executions) /\ IsFlow(flows[g], engine.last, executions)
      /\ executions \in Nat /\ engine.last \in Nat
  BY DEF PlaysInv, FlowsInv
<1>2. CASE Fork(f, g)
  <2> DEFINE new == [flows[f] EXCEPT !.owner = FALSE]
  <2>1. flows' = [flows EXCEPT ![g] = new] /\ ~flows[g].live
        /\ UNCHANGED <<engine, epoch, executions, metadata>>
    BY <1>2 DEF Fork
  <2>2. IsFlow(new, engine.last, executions) /\ ~new.owner
    BY <1>1 DEF IsFlow, FlowFields
  <2>3. ~flows[g].owner
    BY <1>1, <2>1 DEF IsFlow
  <2> HIDE DEF new
  <2>4. QED
    BY <2>1, <2>2, <2>3, ForkKeeps
<1>3. CASE Join(g)
  <2>1. flows' = [flows EXCEPT ![g] = Idle] /\ ~flows[g].owner
        /\ UNCHANGED <<engine, epoch, executions, metadata>>
    BY <1>3 DEF Join
  <2>2. QED
    BY <1>1, <2>1, IdleIsFlow, ForkKeeps
<1>4. QED
  BY <1>2, <1>3

\* The engine and the flows change, within a combat.
LEMMA BothStep ==
  ASSUME PlaysInv, UNCHANGED epoch, Good(engine'), Combat(engine') = Combat(engine),
         FlowsInv(flows', engine.last, executions'),
         On(engine) => Running(flows', engine.current.seq, OpenPlays(engine'), engine'.prov.serial),
         KnownInv'
  PROVE  PlaysInv'
<1>1. EngineInv' /\ engine'.last = engine.last /\ (On(engine') <=> On(engine))
      /\ engine'.current.seq = engine.current.seq
  BY EngineRests DEF PlaysInv
<1>2. FlowsInv(flows, engine.last, executions)'
  BY <1>1 DEF FlowsInv
<1>3. RunInv'
  <2>1. OpenPlays(engine)' = OpenPlays(engine')
    OBVIOUS
  <2>2. QED
    BY <1>1, <2>1 DEF RunInv
<1>4. QED
  BY <1>1, <1>2, <1>3 DEF PlaysInv

\* A flow has dropped its first k frames.
Drops(flow, old, k, seq) ==
  \A i \in Nat : Bears(flow, i, seq) =>
     Bears(old, i + k, seq) /\ flow.chain[i] = old.chain[i + k]

\* Plays are closed, and a flow drops its first k frames.
LEMMA FewerRun ==
  ASSUME NEW fl, NEW gl, NEW g \in Flows, NEW seq, NEW opens, NEW new, NEW serial, NEW k \in Nat,
         Running(fl, seq, opens, serial), \A f \in Flows \ {g} : gl[f] = fl[f],
         new \subseteq opens,
         Drops(gl[g], fl[g], k, seq),
         \A x \in new : \E f \in Flows : Runs(gl[f], seq, x[2]),
         \A f \in Flows, i \in Nat : Bears(gl[f], i, seq) => PlayOf(gl[f].chain[i]) \in new
  PROVE  Running(gl, seq, new, serial)
<1>1. \A x \in new : x[2] # 0
  BY DEF Running, Wrapped
<1>2. ASSUME NEW f \in Flows, NEW i \in Nat, Bears(gl[f], i, seq)
      PROVE  \E j \in Nat : /\ Bears(fl[f], j, seq) /\ gl[f].chain[i] = fl[f].chain[j]
                            /\ j = IF f = g THEN i + k ELSE i
  BY <1>2 DEF Drops
<1>3. ASSUME NEW f \in Flows, NEW i \in Nat, Bears(gl[f], i, seq)
      PROVE  gl[f].chain[i].token.payload \in 1..serial
  <2>1. PICK j \in Nat : Bears(fl[f], j, seq) /\ gl[f].chain[i] = fl[f].chain[j]
    BY <1>2, <1>3
  <2>2. fl[f].chain[j].token.payload \in 1..serial
    BY <2>1 DEF Running, Borne
  <2>3. QED
    BY <2>1, <2>2
<1>4. ASSUME NEW f \in Flows, NEW h \in Flows, NEW i \in Nat, NEW j \in Nat,
             Bears(gl[f], i, seq), Bears(gl[h], j, seq),
             gl[f].chain[i].token.payload = gl[h].chain[j].token.payload
      PROVE  f = h /\ i = j
  <2>1. PICK m \in Nat : /\ Bears(fl[f], m, seq) /\ gl[f].chain[i] = fl[f].chain[m]
                         /\ m = IF f = g THEN i + k ELSE i
    BY <1>2, <1>4
  <2>2. PICK n \in Nat : /\ Bears(fl[h], n, seq) /\ gl[h].chain[j] = fl[h].chain[n]
                         /\ n = IF h = g THEN j + k ELSE j
    BY <1>2, <1>4
  <2>3. fl[f].chain[m].token.payload = fl[h].chain[n].token.payload
    BY <1>4, <2>1, <2>2
  <2>4. f = h /\ m = n
    <3>1. Distinct(fl, seq)
      BY DEF Running
    <3>2. Bears(fl[f], m, seq) /\ Bears(fl[h], n, seq)
      BY <2>1, <2>2
    <3>3. QED
      BY <2>3, <3>1, <3>2 DEF Distinct
  <2>5. QED
    BY <2>1, <2>2, <2>4
<1>5. Wrapped(gl, seq, new)
  BY <1>1 DEF Wrapped
<1>6. Borne(gl, seq, new, serial)
  BY <1>3 DEF Borne
<1>7. Distinct(gl, seq)
  BY <1>4 DEF Distinct
<1>8. QED
  BY <1>5, <1>6, <1>7 DEF Running

\* What the engine has open is of a wrapper of this combat.
LEMMA InCombat ==
  ASSUME PlaysInv, On(engine)
  PROVE  /\ epoch # 0 /\ engine.current.seq = epoch /\ Takes(engine, epoch)
         /\ \A f \in Flows : flows[f].execution.epoch = epoch => Valid(flows[f].execution.epoch)
BY DEF PlaysInv, EngineInv, On, Takes, Valid

LEMMA EndEffectKeeps ==
  ASSUME PlaysInv, NEW f \in Flows, EndEffect(f)
  PROVE  PlaysInv'
<1> DEFINE execution == flows[f].execution
           made == Valid(execution.epoch) /\ execution.identity # 0
           ended == CardExecutionEnded(engine, execution.epoch, execution.identity).s
           seq == engine.current.seq
           opens == OpenPlays(engine)
           serial == engine.prov.serial
           t == engine'
           gl == flows'
           new == OpenPlays(t)
<1>1. /\ t = IF made THEN ended ELSE engine
      /\ gl = [flows EXCEPT ![f] = Idle] /\ flows[f].owner
      /\ UNCHANGED <<epoch, executions, metadata>>
  BY DEF EndEffect
<1>2. Good(engine) /\ FlowsInv(flows, engine.last, executions) /\ DOMAIN flows = Flows
      /\ executions \in Nat /\ engine.last \in Nat
  BY DEF PlaysInv, EngineInv, FlowsInv
<1>3. /\ Good(ended) /\ Rest(ended) = Rest(engine) /\ Known(ended) = Known(engine)
      /\ OpenPlays(ended) \subseteq opens
      /\ \A x \in opens : x[2] # execution.identity => x \in OpenPlays(ended)
      /\ Takes(engine, execution.epoch) /\ execution.identity # 0 =>
           \A x \in OpenPlays(ended) : x[2] # execution.identity
  BY <1>2, EndIs
<1> HIDE DEF ended, made, t, gl
<1>4. /\ Good(t) /\ Rest(t) = Rest(engine) /\ Known(t) = Known(engine) /\ new \subseteq opens
      /\ \A x \in opens : x[2] # execution.identity \/ ~made => x \in new
      /\ made /\ Takes(engine, execution.epoch) => \A x \in new : x[2] # execution.identity
  BY <1>1, <1>2, <1>3 DEF made
<1>5. gl[f] = Idle /\ (\A h \in Flows \ {f} : gl[h] = flows[h]) /\ DOMAIN gl = Flows
  BY <1>1, <1>2
<1>6. FlowsInv(gl, engine.last, executions)
  <2>1. IsFlow(gl[f], engine.last, executions) /\ Own(gl[f]) /\ ~gl[f].owner /\ executions >= executions
    BY <1>2, <1>5, IdleIsFlow
  <2>2. QED
    BY <1>2, <1>5, <2>1, OneFlow
<1>7. ASSUME On(engine)
      PROVE  Running(gl, seq, new, serial)
  <2>1. Running(flows, seq, opens, serial)
    BY <1>7 DEF PlaysInv, RunInv
  <2>2. Valid(seq) /\ Takes(engine, seq)
    BY <1>7, InCombat DEF Valid
  <2>3. ~Idle.owner
    BY <1>2, IdleIsFlow
  <2>4. ASSUME NEW x \in new
        PROVE  \E h \in Flows : Runs(gl[h], seq, x[2])
    <3>1. x \in opens
      BY <1>4, <2>4
    <3>2. PICK h \in Flows : Runs(flows[h], seq, x[2])
      BY <2>1, <3>1 DEF Running, Wrapped
    <3>3. x[2] # 0
      BY <2>1, <3>1 DEF Running, Wrapped
    <3>4. h # f
      <4>1. SUFFICES ASSUME h = f PROVE FALSE
        OBVIOUS
      <4>2. execution.epoch = seq /\ execution.identity = x[2]
        BY <3>2, <4>1 DEF Runs
      <4>3. QED
        BY <1>4, <2>2, <2>4, <3>3, <4>2 DEF made
    <3>5. QED
      BY <1>5, <3>2, <3>4
  <2>5. ASSUME NEW h \in Flows, NEW i \in Nat, Bears(gl[h], i, seq)
        PROVE  h # f /\ PlayOf(gl[h].chain[i]) \in new
    <3>1. h # f /\ gl[h] = flows[h]
      BY <1>5, <2>3, <2>5 DEF Bears
    <3>2. PlayOf(flows[h].chain[i]) \in opens
      BY <2>1, <2>5, <3>1 DEF Running, Borne
    <3>3. /\ flows[h].chain[i].execution = flows[h].execution.identity
          /\ flows[h].execution.identity # 0 /\ flows[h].owner
      BY <1>2, <2>5, <3>1 DEF FlowsInv, Own, Bears
    <3>4. ~SameRun(flows[h], flows[f])
      BY <1>2, <3>1 DEF FlowsInv
    <3>5. flows[h].execution.identity # execution.identity
      BY <1>1, <3>3, <3>4 DEF SameRun
    <3>6. PlayOf(flows[h].chain[i])[2] # execution.identity
      BY <3>3, <3>5 DEF PlayOf
    <3>7. QED
      BY <1>4, <3>1, <3>2, <3>6
  <2>6. 0 \in Nat /\ Drops(gl[f], flows[f], 0, seq)
    BY <1>5, <2>3 DEF Bears, Drops
  <2> HIDE DEF new, opens, seq, serial
  <2>7. QED
    BY <1>4, <1>5, <2>1, <2>4, <2>5, <2>6, FewerRun
<1>8. Combat(t) = Combat(engine)
  BY <1>4, SameCombat
<1>9. t.prov.serial = serial /\ DOMAIN t.prov.orbs = DOMAIN engine.prov.orbs
  BY <1>4 DEF Rest
<1>10. KnownInv'
  BY <1>1, <1>4, <1>8, <1>9, KnownRests DEF PlaysInv, t
<1>11. On(engine) => Running(flows', engine.current.seq, OpenPlays(engine'), engine'.prov.serial)
  BY <1>7, <1>9 DEF t, gl
<1>12. FlowsInv(flows', engine.last, executions')
  BY <1>1, <1>6 DEF gl
<1>13. QED
  BY <1>1, <1>4, <1>8, <1>10, <1>11, <1>12, BothStep DEF t

LEMMA PopIs ==
  ASSUME NEW S, NEW c \in Seq(S), c # << >>
  PROVE  /\ Tail(c) \in Seq(S) /\ Head(c) = c[1] /\ 1 \in DOMAIN c
         /\ \A i \in DOMAIN Tail(c) : i \in Nat /\ i # 0 /\ i + 1 \in DOMAIN c /\ Tail(c)[i] = c[i + 1]
<1>1. Len(c) \in Nat /\ Len(c) # 0 /\ DOMAIN c = 1..Len(c)
  OBVIOUS
<1>2. Tail(c) \in Seq(S) /\ Len(Tail(c)) = Len(c) - 1 /\ Head(c) = c[1]
  OBVIOUS
<1>3. DOMAIN Tail(c) = 1..(Len(c) - 1)
  BY <1>2
<1>4. \A i \in 1..(Len(c) - 1) : Tail(c)[i] = c[i + 1]
  OBVIOUS
<1>5. QED
  BY <1>1, <1>2, <1>3, <1>4

\* The calls that only report.
LEMMA QuietKeeps ==
  ASSUME PlaysInv, UNCHANGED <<epoch, flows, executions, metadata>>, Alike(engine, engine')
  PROVE  PlaysInv'
<1> DEFINE t == engine'
<1>1. Good(t) /\ Core(t) = Core(engine) /\ Known(t) = Known(engine)
  BY DEF Alike
<1> HIDE DEF t
<1>2. Combat(t) = Combat(engine)
  BY <1>1, SameCombat
<1>3. OpenPlays(t) = OpenPlays(engine) /\ t.prov.serial = engine.prov.serial
      /\ DOMAIN t.prov.orbs = DOMAIN engine.prov.orbs
  BY <1>1 DEF Core
<1>4. KnownInv'
  BY <1>1, <1>2, <1>3, KnownRests DEF PlaysInv, t
<1>5. QED
  BY <1>1, <1>2, <1>3, <1>4, EngineStep DEF t

LEMMA FinishedKeeps ==
  ASSUME PlaysInv, NEW f \in Flows, NEW card \in Cards, Finished(f, card)
  PROVE  PlaysInv'
<1> DEFINE chain == flows[f].chain
           frame == Head(chain)
           matches == chain # << >> /\ frame.card = card
           made == frame.token # Zero /\ Valid(frame.epoch)
           ended == CardPlayFinished(engine, frame.token).s
           popped == [flows[f] EXCEPT !.chain = Tail(@)]
           seq == engine.current.seq
           opens == OpenPlays(engine)
           serial == engine.prov.serial
           t == engine'
           gl == flows'
           new == OpenPlays(t)
<1>1. /\ t = IF ~matches THEN Failed(engine, "play-finish-mismatch")
             ELSE IF made THEN ended ELSE engine
      /\ gl = IF matches THEN [flows EXCEPT ![f] = popped] ELSE flows
      /\ flows[f].owner /\ UNCHANGED <<epoch, executions, metadata>>
  BY DEF Finished
<1>2. Good(engine) /\ FlowsInv(flows, engine.last, executions) /\ DOMAIN flows = Flows
      /\ executions \in Nat /\ engine.last \in Nat /\ IsFlow(flows[f], engine.last, executions)
  BY DEF PlaysInv, EngineInv, FlowsInv
<1>3. CASE ~matches
  <2>1. Alike(engine, Failed(engine, "play-finish-mismatch"))
    BY <1>2, FailedIsQuiet DEF Quiet
  <2>2. QED
    BY <1>1, <1>3, <2>1, QuietKeeps
<1>4. CASE matches
  <2>1. PICK S : chain \in Seq(S)
    BY <1>2 DEF IsFlow
  <2>2. /\ Tail(chain) \in Seq(S) /\ frame = chain[1] /\ 1 \in DOMAIN chain
        /\ \A i \in DOMAIN Tail(chain) :
             i \in Nat /\ i # 0 /\ i + 1 \in DOMAIN chain /\ Tail(chain)[i] = chain[i + 1]
    BY <1>4, <2>1, PopIs
  <2>3. /\ Good(ended) /\ Rest(ended) = Rest(engine) /\ Known(ended) = Known(engine)
        /\ OpenPlays(ended) \subseteq opens
        /\ \A x \in opens : x[1] # frame.token.payload => x \in OpenPlays(ended)
    BY <1>2, FinishIs
  <2>4. /\ DOMAIN popped = FlowFields /\ popped.chain = Tail(chain) /\ popped.owner = flows[f].owner
        /\ popped.live = flows[f].live /\ popped.execution = flows[f].execution
    BY <1>2 DEF IsFlow, FlowFields
  <2> HIDE DEF ended, frame, popped, made, t, gl, matches
  <2>5. /\ Good(t) /\ Rest(t) = Rest(engine) /\ Known(t) = Known(engine) /\ new \subseteq opens
        /\ \A x \in opens : x[1] # frame.token.payload \/ ~made => x \in new
    BY <1>1, <1>2, <1>4, <2>3
  <2>6. gl[f] = popped /\ (\A h \in Flows \ {f} : gl[h] = flows[h]) /\ DOMAIN gl = Flows
    BY <1>1, <1>2, <1>4
  <2>7. FlowsInv(gl, engine.last, executions)
    <3>1. IsFlow(popped, engine.last, executions)
      BY <1>2, <2>2, <2>4 DEF IsFlow
    <3>2. Own(flows[f])
      BY <1>2 DEF FlowsInv
    <3>3. Own(popped)
      BY <2>2, <2>4, <3>2 DEF Own
    <3>4. executions >= executions
      BY <1>2
    <3>5. /\ IsFlow(gl[f], engine.last, executions) /\ Own(gl[f])
          /\ gl[f].execution.identity = flows[f].execution.identity /\ flows[f].owner
      BY <1>1, <2>4, <2>6, <3>1, <3>3
    <3> HIDE DEF chain
    <3>6. QED
      BY <1>2, <2>6, <3>4, <3>5, OneFlow
  <2>8. ASSUME On(engine)
        PROVE  Running(gl, seq, new, serial)
    <3>1. Running(flows, seq, opens, serial)
      BY <2>8 DEF PlaysInv, RunInv
    <3>2. seq = epoch
      BY <2>8, InCombat
    <3>3. ASSUME NEW i \in Nat, Bears(gl[f], i, seq)
          PROVE  Bears(flows[f], i + 1, seq) /\ gl[f].chain[i] = flows[f].chain[i + 1] /\ i + 1 # 1
      <4>1. i \in DOMAIN Tail(chain) /\ gl[f].chain[i] = Tail(chain)[i] /\ flows[f].owner
        BY <2>4, <2>6, <3>3 DEF Bears
      <4>2. i # 0 /\ i + 1 \in DOMAIN flows[f].chain /\ gl[f].chain[i] = flows[f].chain[i + 1]
        BY <2>2, <4>1
      <4>3. i + 1 # 1
        BY <4>2
      <4>4. QED
        BY <3>3, <4>1, <4>2, <4>3 DEF Bears
    <3>4. \A x \in new : \E h \in Flows : Runs(gl[h], seq, x[2])
      <4>1. \A y : \A h \in Flows : Runs(flows[h], seq, y) => Runs(gl[h], seq, y)
        BY <1>1, <2>4, <2>6 DEF Runs
      <4>2. \A x \in new : \E h \in Flows : Runs(flows[h], seq, x[2])
        BY <2>5, <3>1 DEF Running, Wrapped
      <4>3. QED
        BY <4>1, <4>2
    <3>5. ASSUME NEW h \in Flows, NEW i \in Nat, Bears(gl[h], i, seq)
          PROVE  PlayOf(gl[h].chain[i]) \in new
      <4>1. PICK j \in Nat : /\ Bears(flows[h], j, seq) /\ gl[h].chain[i] = flows[h].chain[j]
                             /\ h = f => j # 1
        BY <2>6, <3>3, <3>5
      <4>2. PlayOf(flows[h].chain[j]) \in opens
        BY <3>1, <4>1 DEF Running, Borne
      <4>3. made => Bears(flows[f], 1, seq)
        BY <1>1, <2>2, <3>2 DEF made, Bears, Valid
      <4>4. made => flows[h].chain[j].token.payload # frame.token.payload
        <5>1. \A a, b \in Flows, x, y \in Nat :
                 Bears(flows[a], x, seq) /\ Bears(flows[b], y, seq)
                   /\ flows[a].chain[x].token.payload = flows[b].chain[y].token.payload => a = b /\ x = y
          BY <3>1 DEF Running, Distinct
        <5>2. QED
          BY <2>2, <4>1, <4>3, <5>1
      <4>5. PlayOf(flows[h].chain[j])[1] = flows[h].chain[j].token.payload
        BY DEF PlayOf
      <4>6. PlayOf(flows[h].chain[j]) \in new
        BY <2>5, <4>2, <4>4, <4>5
      <4>7. QED
        BY <4>1, <4>6
    <3>6. 1 \in Nat /\ Drops(gl[f], flows[f], 1, seq)
      BY <3>3 DEF Drops
    <3>8. \A h \in Flows \ {f} : gl[h] = flows[h]
      BY <2>6
    <3>9. \A h \in Flows, i \in Nat : Bears(gl[h], i, seq) => PlayOf(gl[h].chain[i]) \in new
      BY <3>5
    <3>10. new \subseteq opens
      BY <2>5
    <3> HIDE DEF new, opens, seq, serial
    <3>11. QED
      BY <3>1, <3>4, <3>6, <3>8, <3>9, <3>10, FewerRun
  <2>9. Combat(t) = Combat(engine)
    BY <2>5, SameCombat
  <2>10. t.prov.serial = serial /\ DOMAIN t.prov.orbs = DOMAIN engine.prov.orbs
    BY <2>5 DEF Rest
  <2>11. KnownInv'
    BY <1>1, <2>5, <2>9, <2>10, KnownRests DEF PlaysInv, t
  <2>12. On(engine) => Running(flows', engine.current.seq, OpenPlays(engine'), engine'.prov.serial)
    BY <2>8, <2>10 DEF t, gl
  <2>13. FlowsInv(flows', engine.last, executions')
    BY <1>1, <2>7 DEF gl
  <2>14. QED
    BY <1>1, <2>5, <2>9, <2>11, <2>12, <2>13, BothStep DEF t
<1>5. QED
  BY <1>3, <1>4

\* Sequence n is x and then what c begins with.
Behind(n, x, c) ==
  /\ \E S : n \in Seq(S)
  /\ 1 \in DOMAIN n /\ n[1] = x
  /\ \A i \in DOMAIN n : i # 1 =>
       i \in Nat /\ i - 1 \in Nat /\ i - 1 \in DOMAIN c /\ n[i] = c[i - 1]

LEMMA PushIs ==
  ASSUME NEW S, NEW c \in Seq(S), NEW x, NEW prior \in {<< >>, c}
  PROVE  Behind(<<x>> \o prior, x, c)
<1> DEFINE n == <<x>> \o prior
<1>1. << >> \in Seq(S \cup {x}) /\ c \in Seq(S \cup {x}) /\ <<x>> \in Seq(S \cup {x})
  OBVIOUS
<1>2. Len(<<x>>) = 1 /\ <<x>>[1] = x /\ Len(<< >>) = 0
  OBVIOUS
<1>3. prior \in Seq(S \cup {x}) /\ Len(prior) \in Nat /\ DOMAIN prior = 1..Len(prior)
  <2>1. \A d \in Seq(S \cup {x}) : Len(d) \in Nat /\ DOMAIN d = 1..Len(d)
    OBVIOUS
  <2>2. prior \in Seq(S \cup {x})
    BY <1>1
  <2>3. QED
    BY <2>1, <2>2
<1>4. /\ n \in Seq(S \cup {x}) /\ Len(n) = 1 + Len(prior) /\ DOMAIN n = 1..Len(n)
      /\ \A i \in 1..Len(n) : n[i] = IF i <= 1 THEN <<x>>[i] ELSE prior[i - 1]
  <2>1. /\ <<x>> \o prior \in Seq(S \cup {x}) /\ Len(<<x>> \o prior) = Len(<<x>>) + Len(prior)
        /\ \A i \in 1..Len(<<x>> \o prior) :
              (<<x>> \o prior)[i] = IF i <= Len(<<x>>) THEN <<x>>[i] ELSE prior[i - Len(<<x>>)]
    BY <1>1, <1>3, ConcatProperties
  <2> HIDE DEF n
  <2>2. QED
    BY <1>2, <2>1 DEF n
<1> HIDE DEF n
<1>5. n[1] = x /\ 1 \in DOMAIN n
  BY <1>2, <1>3, <1>4
<1>6. ASSUME NEW i \in DOMAIN n, i # 1
      PROVE  i \in Nat /\ i - 1 \in Nat /\ i - 1 \in DOMAIN c /\ n[i] = c[i - 1]
  <2>1. i \in Nat /\ i - 1 \in 1..Len(prior) /\ n[i] = prior[i - 1]
    BY <1>3, <1>4, <1>6
  <2>2. prior = c
    BY <1>2, <2>1
  <2>3. QED
    BY <1>3, <2>1, <2>2
<1>7. QED
  BY <1>4, <1>5, <1>6 DEF n, Behind

\* The frames of a flow are its old ones or fewer, behind a new one.
Pushes(flow, old, frame, seq) ==
  /\ flow.owner = old.owner /\ flow.execution = old.execution
  /\ 1 \in DOMAIN flow.chain /\ flow.chain[1] = frame
  /\ \A i \in Nat : Bears(flow, i, seq) /\ i # 1 =>
       i - 1 \in Nat /\ Bears(old, i - 1, seq) /\ flow.chain[i] = old.chain[i - 1]

\* A play is opened for a new frame, or the frame bears none.
Opened(old, frame, seq, opens, new, serial, more) ==
  \/ frame.token = Zero /\ new = opens /\ more = serial
  \/ /\ frame.token.payload = serial + 1 /\ new = opens \cup {PlayOf(frame)} /\ more = serial + 1
     /\ frame.execution # 0 /\ Runs(old, seq, frame.execution)

LEMMA MoreRun ==
  ASSUME NEW fl, NEW gl, NEW g \in Flows, NEW seq, NEW opens, NEW new, NEW serial \in Nat, NEW more,
         NEW frame, Running(fl, seq, opens, serial), \A f \in Flows \ {g} : gl[f] = fl[f],
         Pushes(gl[g], fl[g], frame, seq), Opened(fl[g], frame, seq, opens, new, serial, more)
  PROVE  Running(gl, seq, new, more)
<1>0. \/ frame.token = Zero /\ new = opens /\ more = serial
      \/ /\ frame.token.payload = serial + 1 /\ new = opens \cup {PlayOf(frame)} /\ more = serial + 1
         /\ frame.execution # 0 /\ Runs(fl[g], seq, frame.execution)
  BY DEF Opened
<1>1. \A y : \A f \in Flows : Runs(fl[f], seq, y) => Runs(gl[f], seq, y)
  BY DEF Runs, Pushes
<1>2. \A x \in opens : x[2] # 0 /\ \E f \in Flows : Runs(gl[f], seq, x[2])
  BY <1>1 DEF Running, Wrapped
<1>3. PlayOf(frame)[2] = frame.execution
  BY DEF PlayOf
<1>4. \A x \in new : x[2] # 0 /\ \E f \in Flows : Runs(gl[f], seq, x[2])
  BY <1>0, <1>1, <1>2, <1>3
\* A frame that bears a play is the new one, or an old one whose play is older.
<1>5. \A f \in Flows, j \in Nat : Bears(fl[f], j, seq) =>
        fl[f].chain[j].token.payload \in 1..serial /\ PlayOf(fl[f].chain[j]) \in opens
  BY DEF Running, Borne
<1>6. ASSUME NEW f \in Flows, NEW i \in Nat, Bears(gl[f], i, seq)
      PROVE  \/ /\ f = g /\ i = 1 /\ gl[f].chain[i] = frame /\ frame.token.payload = serial + 1
                /\ new = opens \cup {PlayOf(frame)} /\ more = serial + 1
             \/ /\ f # g \/ i # 1
                /\ \E j \in Nat : /\ Bears(fl[f], j, seq) /\ gl[f].chain[i] = fl[f].chain[j]
                                  /\ j = IF f = g THEN i - 1 ELSE i
  <2>1. CASE f # g
    BY <1>6, <2>1
  <2>2. CASE f = g /\ i # 1
    BY <1>6, <2>2 DEF Pushes
  <2>3. CASE f = g /\ i = 1
    <3>1. gl[f].chain[i] = frame /\ frame.token # Zero
      BY <1>6, <2>3 DEF Pushes, Bears
    <3>2. QED
      BY <1>0, <2>3, <3>1
  <2>4. QED
    BY <2>1, <2>2, <2>3
<1>7. ASSUME NEW f \in Flows, NEW i \in Nat, Bears(gl[f], i, seq)
      PROVE  gl[f].chain[i].token.payload \in 1..more /\ PlayOf(gl[f].chain[i]) \in new
  <2>1. CASE f = g /\ i = 1
    BY <1>6, <1>7, <2>1
  <2>2. CASE f # g \/ i # 1
    <3>1. PICK j \in Nat : Bears(fl[f], j, seq) /\ gl[f].chain[i] = fl[f].chain[j]
      BY <1>6, <1>7, <2>2
    <3>2. fl[f].chain[j].token.payload \in 1..serial /\ PlayOf(fl[f].chain[j]) \in opens
      BY <1>5, <3>1
    <3>3. opens \subseteq new /\ more >= serial /\ more \in Nat
      BY <1>0
    <3>4. QED
      BY <3>1, <3>2, <3>3
  <2>3. QED
    BY <2>1, <2>2
<1>8. ASSUME NEW f \in Flows, NEW h \in Flows, NEW i \in Nat, NEW j \in Nat,
             Bears(gl[f], i, seq), Bears(gl[h], j, seq),
             gl[f].chain[i].token.payload = gl[h].chain[j].token.payload
      PROVE  f = h /\ i = j
  <2>1. ASSUME NEW a \in Flows, NEW b \in Nat, Bears(gl[a], b, seq), a # g \/ b # 1
        PROVE  gl[a].chain[b].token.payload \in 1..serial
    <3>1. PICK m \in Nat : Bears(fl[a], m, seq) /\ gl[a].chain[b] = fl[a].chain[m]
      BY <1>6, <2>1
    <3>2. QED
      BY <1>5, <3>1
  <2>2. CASE f = g /\ i = 1
    <3>1. gl[f].chain[i].token.payload = serial + 1
      BY <1>6, <1>8, <2>2
    <3>2. gl[h].chain[j].token.payload \notin 1..serial
      BY <1>8, <3>1
    <3>3. h = g /\ j = 1
      BY <1>8, <2>1, <3>2
    <3>4. QED
      BY <2>2, <3>3
  <2>3. CASE h = g /\ j = 1
    <3>1. gl[h].chain[j].token.payload = serial + 1
      BY <1>6, <1>8, <2>3
    <3>2. gl[f].chain[i].token.payload \notin 1..serial
      BY <1>8, <3>1
    <3>3. f = g /\ i = 1
      BY <1>8, <2>1, <3>2
    <3>4. QED
      BY <2>3, <3>3
  <2>4. CASE (f # g \/ i # 1) /\ (h # g \/ j # 1)
    <3>1. PICK m \in Nat : /\ Bears(fl[f], m, seq) /\ gl[f].chain[i] = fl[f].chain[m]
                           /\ m = IF f = g THEN i - 1 ELSE i
      BY <1>6, <1>8, <2>4
    <3>2. PICK n \in Nat : /\ Bears(fl[h], n, seq) /\ gl[h].chain[j] = fl[h].chain[n]
                           /\ n = IF h = g THEN j - 1 ELSE j
      BY <1>6, <1>8, <2>4
    <3>3. Distinct(fl, seq)
      BY DEF Running
    <3>4. Bears(fl[f], m, seq) /\ Bears(fl[h], n, seq)
          /\ fl[f].chain[m].token.payload = fl[h].chain[n].token.payload
      BY <1>8, <3>1, <3>2
    <3>5. f = h /\ m = n
      BY <3>3, <3>4 DEF Distinct
    <3>6. QED
      BY <3>1, <3>2, <3>5
  <2>5. QED
    BY <2>2, <2>3, <2>4
<1>9. Wrapped(gl, seq, new)
  BY <1>4 DEF Wrapped
<1>10. Borne(gl, seq, new, more)
  BY <1>7 DEF Borne
<1>11. Distinct(gl, seq)
  BY <1>8 DEF Distinct
<1>12. QED
  BY <1>9, <1>10, <1>11 DEF Running

LEMMA CardCaptureIs ==
  ASSUME KnownInv, NEW s, Good(s), NEW card \in Cards
  PROVE  LET t == CardCapture(s, card).s
         IN  /\ Good(t) /\ Core(t) = Core(s)
             /\ \/ Known(t) = Known(s)
                \/ /\ card \notin Unidentified /\ metadata.generation[card] = "unavailable"
                   /\ Known(t) = Known(s) \ {card}
<1>1. metadata.generation[card] \in {"unavailable", "ordinary", "recorded", "unclassified"}
  BY DEF KnownInv, Generations
<1>2. CASE card \in Unidentified
  BY <1>2 DEF CardCapture, Accept
<1>3. CASE card \notin Unidentified
  <2> DEFINE t == SourceCapture(s, epoch, "card", card, CardId[card], PlayerOf[card],
                                metadata.generation[card]).s
  <2>1. CardCapture(s, card).s = t
    BY <1>3 DEF CardCapture
  <2>2. /\ Good(t) /\ Core(t) = Core(s)
        /\ \/ Known(t) = Known(s)
           \/ metadata.generation[card] = "unavailable" /\ Known(t) = Known(s) \ {card}
    BY <1>1, CaptureIs
  <2> HIDE DEF t
  <2>3. QED
    BY <1>3, <2>1, <2>2
<1>4. QED
  BY <1>2, <1>3

\* A start opens a play under a new serial, or none.
Begun(s, card, execution, call) ==
  /\ Good(call.s) /\ Base(call.s) = Base(s)
  /\ \/ Known(call.s) = Known(s)
     \/ metadata.generation[card] = "unavailable" /\ Known(call.s) = Known(s) \ {card}
  /\ \/ /\ call.r = Zero /\ OpenPlays(call.s) = OpenPlays(s)
        /\ call.s.prov.serial = s.prov.serial
     \/ /\ Takes(s, epoch) /\ execution # 0
        /\ call.r = Wire(epoch, "play", s.prov.serial + 1)
        /\ OpenPlays(call.s) =
             OpenPlays(s) \cup {<<s.prov.serial + 1, execution, PlayerOf[card]>>}
        /\ call.s.prov.serial = s.prov.serial + 1

LEMMA StartedIs ==
  ASSUME KnownInv, NEW s, Good(s), NEW card \in Cards, NEW execution
  PROVE  LET source == CardCapture(s, card)
         IN  Begun(s, card, execution,
                   CardPlayStarted(source.s, epoch, execution, Identity(card), CardId[card],
                                   PlayerOf[card], Generation(card), source.r))
<1> DEFINE source == CardCapture(s, card)
           instance == Identity(card)
           id == CardId[card]
           player == PlayerOf[card]
           generation == Generation(card)
           at == source.s
           given == source.r
           call == CardPlayStarted(at, epoch, execution, instance, id, player, generation, given)
<1>1. /\ Good(source.s) /\ Core(source.s) = Core(s)
      /\ \/ Known(source.s) = Known(s)
         \/ /\ card \notin Unidentified /\ metadata.generation[card] = "unavailable"
            /\ Known(source.s) = Known(s) \ {card}
  BY CardCaptureIs
<1>2. /\ metadata.generation[card] \in {"unavailable", "ordinary", "recorded", "unclassified"}
      /\ generation \in {"unavailable", "ordinary", "recorded", "unclassified"}
      /\ generation = "unavailable" =>
           metadata.generation[card] = "unavailable" /\ instance = card
  BY DEF KnownInv, Generations, Generation, Identity
<1>3. player \in Slots
  BY PlaysConstants
<1>4. /\ Good(at) /\ Core(at) = Core(s)
      /\ \/ Known(at) = Known(s)
         \/ /\ card \notin Unidentified /\ metadata.generation[card] = "unavailable"
            /\ Known(at) = Known(s) \ {card}
  BY <1>1
<1> HIDE DEF at, given, instance, id, player, generation
<1>5. /\ Good(call.s) /\ Base(call.s) = Base(at)
      /\ \/ Known(call.s) = Known(at)
         \/ generation = "unavailable" /\ Known(call.s) = Known(at) \ {instance}
      /\ \/ /\ call.r = Zero /\ OpenPlays(call.s) = OpenPlays(at)
            /\ call.s.prov.serial = at.prov.serial
         \/ /\ Takes(at, epoch) /\ execution # 0
            /\ call.r = Wire(epoch, "play", at.prov.serial + 1)
            /\ OpenPlays(call.s) =
                 OpenPlays(at) \cup {<<at.prov.serial + 1, execution, player>>}
            /\ call.s.prov.serial = at.prov.serial + 1
  BY <1>2, <1>3, <1>4, StartIs
<1>6. /\ Base(at) = Base(s) /\ OpenPlays(at) = OpenPlays(s)
      /\ at.prov.serial = s.prov.serial
  BY <1>4, CoreIsBase
<1>7. Takes(at, epoch) => Takes(s, epoch)
  BY <1>6 DEF Takes, Active, Base
<1> HIDE DEF call
<1>8. \/ Known(call.s) = Known(s)
      \/ metadata.generation[card] = "unavailable" /\ Known(call.s) = Known(s) \ {card}
  BY <1>2, <1>4, <1>5
<1>9. QED
  BY <1>5, <1>6, <1>7, <1>8 DEF Begun, call, at, given, instance, id, player, generation

LEMMA FailIsQuiet ==
  ASSUME NEW s, Good(s), NEW model
  PROVE  Quiet(s, Fail(s, model))
BY FailedIsQuiet, QuietSelf DEF Fail

LEMMA StartedKeeps ==
  ASSUME PlaysInv, NEW f \in Flows, NEW card \in Cards, Started(f, card)
  PROVE  PlaysInv'
<1> DEFINE chain == flows[f].chain
           deep == Len(chain) >= MaxDepth
           met == IF deep THEN Failed(engine, "managed-play-cap") ELSE engine
           s == Fail(met, card)
           prior == IF deep THEN << >> ELSE chain
           execution == ActiveExecution(f)
           source == CardCapture(s, card)
           call == CardPlayStarted(source.s, epoch, execution, Identity(card), CardId[card],
                                   PlayerOf[card], Generation(card), source.r)
           frame == Frame(epoch, call.r, execution, card, source.r)
           pushed == [flows[f] EXCEPT !.chain = <<frame>> \o prior]
           seq == engine.current.seq
           opens == OpenPlays(engine)
           serial == engine.prov.serial
           t == engine'
           gl == flows'
           new == OpenPlays(t)
<1>1. /\ t = call.s /\ gl = [flows EXCEPT ![f] = pushed] /\ flows[f].owner
      /\ UNCHANGED <<epoch, executions, metadata>>
  BY DEF Started, Begin, Push
<1>2. /\ Good(engine) /\ FlowsInv(flows, engine.last, executions) /\ DOMAIN flows = Flows
      /\ executions \in Nat /\ engine.last \in Nat /\ IsFlow(flows[f], engine.last, executions)
      /\ Own(flows[f]) /\ KnownInv /\ serial \in Nat
  BY DEF PlaysInv, EngineInv, FlowsInv, Good
<1>3. Quiet(engine, s)
  BY <1>2, FailedIsQuiet, FailIsQuiet, QuietSelf, QuietTwice DEF Quiet, Alike
<1>4. /\ frame.epoch = epoch /\ frame.token = call.r /\ frame.execution = execution
      /\ frame.slot = PlayerOf[card]
  BY DEF Frame
<1> HIDE DEF s, source, execution
<1>5. /\ Good(s) /\ Base(s) = Base(engine) /\ OpenPlays(s) = opens /\ s.prov.serial = serial
      /\ Known(s) = Known(engine)
  BY <1>3, CoreIsBase DEF Quiet, Alike
<1>6. Begun(s, card, execution, call)
  BY <1>2, <1>5, StartedIs DEF source
<1> HIDE DEF call, frame, t, gl
<1>7. /\ Good(t) /\ Base(t) = Base(engine)
      /\ \/ Known(t) = Known(engine)
         \/ metadata.generation[card] = "unavailable" /\ Known(t) = Known(engine) \ {card}
      /\ \/ frame.token = Zero /\ new = opens /\ t.prov.serial = serial
         \/ /\ execution # 0 /\ frame.token = Wire(epoch, "play", serial + 1)
            /\ new = opens \cup {<<serial + 1, execution, PlayerOf[card]>>}
            /\ t.prov.serial = serial + 1
  BY <1>1, <1>4, <1>5, <1>6 DEF Begun
<1>8. execution # 0 => /\ flows[f].execution.epoch = epoch /\ epoch # 0
                       /\ flows[f].execution.identity = execution
  BY DEF execution, ActiveExecution, Valid
<1>9. gl[f] = pushed /\ (\A h \in Flows \ {f} : gl[h] = flows[h]) /\ DOMAIN gl = Flows
  BY <1>1, <1>2
<1>10. /\ DOMAIN pushed = FlowFields /\ pushed.chain = <<frame>> \o prior
       /\ pushed.owner = flows[f].owner /\ pushed.live = flows[f].live
       /\ pushed.execution = flows[f].execution
  BY <1>2 DEF IsFlow, FlowFields
<1>11. PICK S : chain \in Seq(S)
  BY <1>2 DEF IsFlow
<1> HIDE DEF pushed
<1>12. /\ \E T : pushed.chain \in Seq(T)
       /\ 1 \in DOMAIN pushed.chain /\ pushed.chain[1] = frame
       /\ \A i \in DOMAIN pushed.chain : i # 1 =>
            /\ i \in Nat /\ i - 1 \in Nat /\ i - 1 \in DOMAIN chain
            /\ pushed.chain[i] = chain[i - 1]
  <2>1. prior \in {<< >>, chain}
    OBVIOUS
  <2>2. chain \in Seq(S)
    BY <1>11
  <2> HIDE DEF prior, chain
  <2>3. Behind(<<frame>> \o prior, frame, chain)
    BY <2>1, <2>2, PushIs
  <2>4. Behind(pushed.chain, frame, chain)
    BY <1>10, <2>3
  <2>5. QED
    BY <2>4 DEF Behind
<1>13. FlowsInv(gl, engine.last, executions)
  <2>1. IsFlow(pushed, engine.last, executions)
    BY <1>2, <1>10, <1>12 DEF IsFlow
  <2>2. frame.token # Zero => /\ frame.epoch = flows[f].execution.epoch
                              /\ frame.execution = flows[f].execution.identity
                              /\ flows[f].execution.identity # 0
    BY <1>4, <1>7, <1>8
  <2>3. Own(pushed)
    BY <1>2, <1>10, <1>12, <2>2 DEF Own
  <2>4. executions >= executions
    BY <1>2
  <2>5. /\ IsFlow(gl[f], engine.last, executions) /\ Own(gl[f])
        /\ gl[f].execution.identity = flows[f].execution.identity
    BY <1>9, <1>10, <2>1, <2>3
  <2>6. QED
    BY <1>1, <1>2, <1>9, <2>4, <2>5, OneFlow
<1>14. ASSUME On(engine)
       PROVE  Running(gl, seq, new, t.prov.serial)
  <2>1. Running(flows, seq, opens, serial)
    BY <1>14 DEF PlaysInv, RunInv
  <2>2. seq = epoch
    BY <1>14, InCombat
  <2>3. ASSUME NEW i \in Nat, Bears(gl[f], i, seq), i # 1
        PROVE  /\ i - 1 \in Nat /\ Bears(flows[f], i - 1, seq)
               /\ gl[f].chain[i] = flows[f].chain[i - 1]
    <3>1. i \in DOMAIN pushed.chain /\ gl[f].chain[i] = pushed.chain[i]
      BY <1>9, <2>3 DEF Bears
    <3>2. i - 1 \in Nat /\ i - 1 \in DOMAIN flows[f].chain /\ gl[f].chain[i] = flows[f].chain[i - 1]
      BY <1>12, <2>3, <3>1
    <3>3. QED
      BY <1>1, <2>3, <3>2 DEF Bears
  <2>4. Pushes(gl[f], flows[f], frame, seq)
    BY <1>9, <1>10, <1>12, <2>3 DEF Pushes
  <2>5. \/ frame.token = Zero /\ new = opens /\ t.prov.serial = serial
        \/ /\ frame.token.payload = serial + 1 /\ new = opens \cup {PlayOf(frame)}
           /\ t.prov.serial = serial + 1
           /\ frame.execution # 0 /\ Runs(flows[f], seq, frame.execution)
    <3>1. CASE frame.token = Zero /\ new = opens /\ t.prov.serial = serial
      BY <3>1
    <3>2. CASE /\ execution # 0 /\ frame.token = Wire(epoch, "play", serial + 1)
               /\ new = opens \cup {<<serial + 1, execution, PlayerOf[card]>>}
               /\ t.prov.serial = serial + 1
      <4>1. frame.token.payload = serial + 1
        BY <3>2, Wires
      <4>2. PlayOf(frame) = <<serial + 1, execution, PlayerOf[card]>>
        BY <1>4, <4>1 DEF PlayOf
      <4>3. Runs(flows[f], seq, frame.execution)
        BY <1>1, <1>4, <1>8, <2>2, <3>2 DEF Runs
      <4>4. QED
        BY <1>4, <3>2, <4>1, <4>2, <4>3
    <3>3. QED
      BY <1>7, <3>1, <3>2
  <2>6. serial \in Nat
    BY <1>2
  <2> DEFINE more == t.prov.serial
  <2> HIDE DEF new, opens, seq, serial
  <2>7. Opened(flows[f], frame, seq, opens, new, serial, more)
    BY <2>5 DEF Opened
  <2>8. \A h \in Flows \ {f} : gl[h] = flows[h]
    BY <1>9
  <2> HIDE DEF more
  <2>9. Running(gl, seq, new, more)
    BY <2>1, <2>4, <2>6, <2>7, <2>8, MoreRun
  <2>10. QED
    BY <2>9 DEF more
<1>15. Combat(t) = Combat(engine) /\ DOMAIN t.prov.orbs = DOMAIN engine.prov.orbs
  <2>1. Combat(t) = Combat(engine)
    BY <1>7, SameCombat
  <2>2. QED
    BY <1>7, <2>1 DEF Base
<1>16. epoch # 0 /\ ~engine.poisoned => Known(t) = Known(engine)
  BY <1>2, <1>7 DEF KnownInv, KnownAlike, Known
<1>17. KnownInv'
  BY <1>1, <1>2, <1>15, <1>16, KnownRests DEF t
<1>18. On(engine) => Running(flows', engine.current.seq, OpenPlays(engine'), engine'.prov.serial)
  BY <1>14 DEF t, gl
<1>19. FlowsInv(flows', engine.last, executions')
  BY <1>1, <1>13 DEF gl
<1>20. QED
  BY <1>1, <1>7, <1>15, <1>17, <1>18, <1>19, BothStep DEF t

LEMMA GeneratedKeeps ==
  ASSUME PlaysInv, NEW f \in Flows, NEW card \in Cards, Generated(f, card)
  PROVE  PlaysInv'
<1> DEFINE s == Fail(engine, card)
           instance == Identity(card)
           transfer == Supplied(f)
           call == CardGenerated(s, epoch, instance, transfer)
           mark == IF call.r = Number(1) THEN "recorded" ELSE "unavailable"
           t == engine'
<1>1. /\ t = call.s /\ UNCHANGED <<epoch, flows, executions>> /\ epoch # 0
      /\ metadata' = IF card \in Unidentified THEN metadata
                     ELSE [metadata EXCEPT !.generation[card] = mark]
  BY DEF Generated, Recollect, Valid
<1>2. Good(engine) /\ KnownInv /\ Active(engine) /\ engine.current.seq = epoch
  BY <1>1 DEF PlaysInv, EngineInv
<1>3. Quiet(engine, s)
  BY <1>2, FailIsQuiet
<1>4. instance = IF card \in Unidentified THEN 0 ELSE card
  BY DEF Identity
<1> HIDE DEF s, instance, transfer
<1>5. Good(s) /\ Core(s) = Core(engine) /\ Known(s) = Known(engine)
  BY <1>3 DEF Quiet, Alike
<1>6. ~engine.poisoned => Takes(s, epoch)
  BY <1>2, <1>5 DEF Takes, Core, Active
<1>7. Regenerates(s, epoch, instance, call)
  BY <1>5, GeneratedIs
<1> HIDE DEF call, t
<1>8. /\ Good(t) /\ Core(t) = Core(engine)
      /\ ~engine.poisoned =>
           \/ mark = "unavailable" /\ Known(t) = Known(engine) \ {instance}
           \/ mark = "recorded" /\ instance # 0 /\ Known(t) = Known(engine) \cup {instance}
  BY <1>1, <1>5, <1>6, <1>7, Wires DEF Regenerates
<1>9. mark \in Generations
  BY DEF Generations
<1> HIDE DEF mark
<1>10. Combat(t) = Combat(engine)
  BY <1>8, SameCombat
<1>11. OpenPlays(t) = OpenPlays(engine) /\ t.prov.serial = engine.prov.serial
       /\ DOMAIN t.prov.orbs = DOMAIN engine.prov.orbs
  BY <1>8 DEF Core
<1>12. t.poisoned = engine.poisoned
  BY <1>10 DEF Combat
<1>13. card # 0 /\ 0 \notin Cards
  BY PlaysConstants
<1>14. /\ DOMAIN metadata' = {"generation", "dirty"} /\ metadata'.dirty = metadata.dirty
       /\ metadata'.generation \in [Cards -> Generations]
       /\ \A other \in Cards : metadata'.generation[other] =
             IF other = card /\ card \notin Unidentified THEN mark ELSE metadata.generation[other]
  BY <1>1, <1>2, <1>9 DEF KnownInv
<1>15. ASSUME ~engine.poisoned, NEW other \in Cards
       PROVE  other \in Known(t) <=> metadata'.generation[other] = "recorded"
  <2>1. other \in Known(engine) <=> metadata.generation[other] = "recorded"
    BY <1>1, <1>2, <1>15 DEF KnownInv, KnownAlike, Known
  <2>2. CASE card \in Unidentified
    BY <1>4, <1>8, <1>13, <1>14, <1>15, <2>1, <2>2
  <2>3. CASE card \notin Unidentified
    BY <1>4, <1>8, <1>14, <1>15, <2>1, <2>3
  <2>4. QED
    BY <2>2, <2>3
<1>16. KnownInv'
  <2>1. KnownAlike'
    <3>1. engine'.poisoned = engine.poisoned /\ DOMAIN engine'.prov.orbs = DOMAIN engine.prov.orbs
          /\ Known(engine') = DOMAIN engine'.prov.generated
      BY <1>11, <1>12 DEF t, Known
    <3>2. ~engine.poisoned => \A orb \in Orbs : orb \in DOMAIN engine.prov.orbs => orb \notin metadata.dirty
      BY <1>1, <1>2 DEF KnownInv, KnownAlike
    <3>3. QED
      BY <1>14, <1>15, <3>1, <3>2 DEF KnownAlike, t
  <2>2. QED
    BY <1>14, <2>1 DEF KnownInv
<1>17. QED
  BY <1>1, <1>8, <1>10, <1>11, <1>16, EngineStep DEF t

LEMMA OrbCaptureIs ==
  ASSUME NEW s, Good(s), NEW orb
  PROVE  Alike(s, OrbCapture(s, orb).s)
<1> DEFINE t == SourceCapture(s, epoch, "orb", orb, NoId, PlayerOf[orb], "unclassified").s
<1>1. Good(t) /\ Core(t) = Core(s) /\ Known(t) = Known(s)
  BY CaptureIs
<1>2. OrbCapture(s, orb).s = t \/ OrbCapture(s, orb).s = s
  BY DEF OrbCapture, Accept
<1> HIDE DEF t
<1>3. QED
  BY <1>1, <1>2 DEF Alike

LEMMA OrbKeeps ==
  ASSUME PlaysInv, NEW f \in Flows, NEW orb \in Orbs, Orb(f, orb)
  PROVE  PlaysInv'
<1> DEFINE slot == PlayerOf[orb]
<1>1. /\ UNCHANGED <<epoch, flows, executions, metadata>>
      /\ \/ engine' = Fail(engine, orb)
         \/ engine' = engine
         \/ \E token : engine' = Told(orb, OrbContextBegin(engine, epoch, orb, token, slot))
  <2> DEFINE current == IF flows[f].chain = << >> THEN Frame(0, Zero, 0, orb, Zero)
                        ELSE Head(flows[f].chain)
             unavailable == \/ flows[f].chain # << >> /\ (~Valid(current.epoch) \/ current.token = Zero)
                            \/ flows[f].execution.wraps /\ flows[f].execution.identity = 0
             bearing == IF flows[f].chain # << >> /\ current.slot = PlayerOf[orb]
                        THEN current.token ELSE Zero
  <2>1. /\ engine' = IF orb \in Unidentified THEN Fail(engine, orb)
                     ELSE IF unavailable THEN engine
                     ELSE Told(orb, OrbContextBegin(engine, epoch, orb, bearing, slot))
        /\ UNCHANGED <<epoch, flows, executions, metadata>>
    BY DEF Orb
  <2> HIDE DEF bearing, unavailable, current, slot
  <2>2. QED
    BY <2>1
<1>2. Good(engine)
  BY DEF PlaysInv, EngineInv
<1>3. ASSUME NEW token
      PROVE  Alike(engine, Told(orb, OrbContextBegin(engine, epoch, orb, token, slot)))
  <2> DEFINE call == OrbContextBegin(engine, epoch, orb, token, slot)
  <2>1. Alike(engine, call.s)
    BY <1>2, ContextIsQuiet
  <2> HIDE DEF call
  <2>2. Alike(call.s, OrbCapture(call.s, orb).s)
    BY <2>1, OrbCaptureIs DEF Alike
  <2>3. Alike(engine, Told(orb, call))
    BY <2>1, <2>2 DEF Told, Alike
  <2>4. QED
    BY <2>3 DEF call
<1>4. Alike(engine, Fail(engine, orb)) /\ Alike(engine, engine)
  BY <1>2, FailIsQuiet, QuietSelf DEF Quiet
<1> HIDE DEF slot
<1>5. Alike(engine, engine')
  BY <1>1, <1>3, <1>4
<1>6. QED
  BY <1>1, <1>5, QuietKeeps

LEMMA ChanneledKeeps ==
  ASSUME PlaysInv, NEW f \in Flows, NEW orb \in Orbs, Channeled(f, orb)
  PROVE  PlaysInv'
<1> DEFINE transfer == Supplied(f)
           call == OrbChanneled(engine, epoch, orb, transfer)
           known == call.r = Number(1)
           t == engine'
<1>1. UNCHANGED <<epoch, flows, executions>> /\ epoch # 0
  BY DEF Channeled, Valid
<1>2. Good(engine) /\ KnownInv /\ Active(engine) /\ engine.current.seq = epoch
  BY <1>1 DEF PlaysInv, EngineInv
<1>3. CASE orb \in Unidentified
  <2>1. engine' = Fail(engine, orb) /\ UNCHANGED metadata
    BY <1>3 DEF Channeled
  <2>2. Alike(engine, Fail(engine, orb))
    BY <1>2, FailIsQuiet DEF Quiet
  <2>3. QED
    BY <1>1, <2>1, <2>2, QuietKeeps
<1>4. CASE orb \notin Unidentified
  <2>1. /\ t = IF known THEN call.s ELSE Failed(call.s, "orb-channel")
        /\ metadata' = [metadata EXCEPT !.dirty = IF known THEN @ \ {orb} ELSE @ \cup {orb}]
    BY <1>4 DEF Channeled, Channel
  <2> HIDE DEF transfer
  <2>2. /\ Good(call.s) /\ Plain(call.s) = Plain(engine) /\ Known(call.s) = Known(engine)
        /\ \/ call.r = Zero /\ DOMAIN call.s.prov.orbs \subseteq DOMAIN engine.prov.orbs
           \/ call.r = Number(1) /\ DOMAIN call.s.prov.orbs = DOMAIN engine.prov.orbs \cup {orb}
        /\ Takes(engine, epoch) /\ call.r = Zero =>
             DOMAIN call.s.prov.orbs = DOMAIN engine.prov.orbs \ {orb}
    BY <1>2, ChannelIs
  <2> HIDE DEF call, t, known
  <2>3. Quiet(call.s, Failed(call.s, "orb-channel"))
    BY <2>2, FailedIsQuiet
  <2>4. /\ Good(t) /\ Plain(t) = Plain(call.s) /\ Known(t) = Known(call.s)
        /\ DOMAIN t.prov.orbs = DOMAIN call.s.prov.orbs
    BY <2>1, <2>2, <2>3, CoreIsPlain DEF Quiet, Alike
  <2>5. Combat(t) = Combat(engine)
    BY <2>2, <2>4, SameCombat
  <2>6. OpenPlays(t) = OpenPlays(engine) /\ t.prov.serial = engine.prov.serial
    BY <2>2, <2>4 DEF Plain
  <2>7. t.poisoned = engine.poisoned
    BY <2>5 DEF Combat
  <2>8. ~engine.poisoned => Takes(engine, epoch)
    BY <1>2 DEF Takes
  <2>9. ~engine.poisoned =>
          \/ known /\ DOMAIN t.prov.orbs = DOMAIN engine.prov.orbs \cup {orb}
          \/ ~known /\ DOMAIN t.prov.orbs = DOMAIN engine.prov.orbs \ {orb}
    BY <2>2, <2>4, <2>8, Wires DEF known
  <2>10. /\ DOMAIN metadata' = {"generation", "dirty"}
         /\ metadata'.generation = metadata.generation
         /\ metadata'.dirty = IF known THEN metadata.dirty \ {orb} ELSE metadata.dirty \cup {orb}
    BY <1>2, <2>1 DEF KnownInv
  <2>11. KnownInv'
    <3>1. engine'.poisoned = engine.poisoned /\ Known(engine') = Known(engine)
      BY <2>2, <2>4, <2>7 DEF t
    <3>2. ASSUME ~engine.poisoned
          PROVE  /\ \A card \in Cards :
                      card \in DOMAIN engine'.prov.generated <=> metadata'.generation[card] = "recorded"
                 /\ \A other \in Orbs : other \in DOMAIN engine'.prov.orbs => other \notin metadata'.dirty
      <4>1. /\ \A card \in Cards :
                 card \in Known(engine) <=> metadata.generation[card] = "recorded"
            /\ \A other \in Orbs : other \in DOMAIN engine.prov.orbs => other \notin metadata.dirty
        BY <1>1, <1>2, <3>2 DEF KnownInv, KnownAlike, Known
      <4>2. Known(engine') = DOMAIN engine'.prov.generated
        BY DEF Known
      <4>3. \A other \in Orbs : other \in DOMAIN t.prov.orbs => other \notin metadata'.dirty
        BY <2>9, <2>10, <3>2, <4>1
      <4>4. QED
        BY <2>10, <3>1, <4>1, <4>2, <4>3 DEF t
    <3>3. KnownAlike'
      BY <3>1, <3>2 DEF KnownAlike
    <3>4. QED
      BY <1>2, <2>10, <3>3 DEF KnownInv
  <2>12. QED
    BY <1>1, <2>4, <2>2, <2>5, <2>6, <2>11, EngineStep DEF t
<1>5. QED
  BY <1>3, <1>4

\* The combat is over for the engine.
LEMMA OffStep ==
  ASSUME PlaysInv, EngineInv', engine'.last = engine.last, UNCHANGED <<flows, executions, metadata>>,
         ~On(engine'), epoch' = 0 \/ engine'.poisoned
  PROVE  PlaysInv'
<1>1. FlowsInv(flows, engine.last, executions)'
  BY DEF PlaysInv, FlowsInv
<1>2. RunInv'
  <2>1. ~On(engine)'
    BY DEF On, Active
  <2>2. QED
    BY <2>1 DEF RunInv
<1>3. KnownInv'
  BY DEF PlaysInv, KnownInv, KnownAlike
<1>4. QED
  BY <1>1, <1>2, <1>3 DEF PlaysInv

LEMMA EndKeeps ==
  ASSUME PlaysInv, EndCombat \/ Abandon \/ Panic
  PROVE  PlaysInv'
<1>1. /\ Good(engine) /\ engine.last \in Nat /\ engine.current.seq \in 0..engine.last
      /\ epoch \in Nat
      /\ epoch # 0 => Active(engine) /\ engine.current.seq = epoch
  BY DEF PlaysInv, EngineInv
<1> DEFINE t == engine'
<1>2. CASE EndCombat
  <2>1. t = CombatEnded(engine, epoch).s /\ epoch # 0 /\ epoch' = 0
        /\ UNCHANGED <<flows, executions, metadata>>
    BY <1>2 DEF EndCombat
  <2>2. /\ Good(t) /\ t.last = engine.last /\ t.current.seq = engine.current.seq
        /\ t.poisoned = engine.poisoned
        /\ Takes(engine, epoch) => ~Active(t)
    BY <1>1, <2>1, CombatEndIs
  <2> HIDE DEF t
  <2>3. ~On(t)
    <3>1. Active(engine) /\ engine.current.seq = epoch
      BY <1>1, <2>1
    <3>2. CASE engine.poisoned
      BY <2>2, <3>2 DEF On
    <3>3. CASE ~engine.poisoned
      BY <2>2, <3>1, <3>3 DEF Takes, On
    <3>4. QED
      BY <3>2, <3>3
  <2>4. EngineInv'
    BY <1>1, <2>1, <2>2, <2>3 DEF EngineInv, t
  <2>5. QED
    BY <2>1, <2>2, <2>3, <2>4, OffStep DEF t
<1>3. CASE Abandon
  <2>1. t = Discarded(engine) /\ epoch' = 0 /\ UNCHANGED <<flows, executions, metadata>>
    BY <1>3 DEF Abandon
  <2>2. Good(t) /\ ~Active(t) /\ t.current.seq = 0 /\ t.last = engine.last
    BY <1>1, <2>1, DiscardIs
  <2>3. ~On(t)
    BY <2>2 DEF On
  <2> HIDE DEF t
  <2>4. EngineInv'
    BY <1>1, <2>1, <2>2, <2>3 DEF EngineInv, t
  <2>5. QED
    BY <2>1, <2>2, <2>3, <2>4, OffStep DEF t
<1>4. CASE Panic
  <2> DEFINE s == [engine EXCEPT !.poisoned = TRUE]
  <2>1. t = Failed(s, "native-panic") /\ UNCHANGED <<epoch, flows, executions, metadata>>
    BY <1>4 DEF Panic
  <2>2. /\ DOMAIN s = Fields /\ s.current = engine.current /\ s.prov = engine.prov
        /\ s.last = engine.last /\ s.poisoned = TRUE
    BY <1>1 DEF Good, Fields
  <2> HIDE DEF s
  <2>3. Good(s)
    BY <1>1, <2>2 DEF Good, Known
  <2>4. Quiet(s, Failed(s, "native-panic"))
    BY <2>3, FailedIsQuiet
  <2>5. Good(t) /\ Core(t) = Core(s)
    BY <2>1, <2>4 DEF Quiet, Alike
  <2> HIDE DEF t
  <2>6. t.poisoned /\ t.last = engine.last /\ t.current.seq = engine.current.seq
        /\ (Active(t) <=> Active(engine))
    BY <2>2, <2>5 DEF Core, Active
  <2>7. ~On(t)
    BY <2>6 DEF On
  <2>8. EngineInv'
    BY <1>1, <2>1, <2>5, <2>6, <2>7 DEF EngineInv, t
  <2>9. QED
    BY <2>1, <2>6, <2>7, <2>8, OffStep DEF t
<1>5. QED
  BY <1>2, <1>3, <1>4

LEMMA StartCombatKeeps ==
  ASSUME PlaysInv, StartCombat
  PROVE  PlaysInv'
<1> DEFINE seq == engine.last + 1
           t == engine'
<1>1. /\ t = CombatStarted(engine, engine.last + 1, Team).s /\ epoch' = seq /\ metadata' = Ordinaries
      /\ UNCHANGED <<flows, executions>>
  BY DEF StartCombat
<1>2. /\ Good(engine) /\ engine.last \in Nat /\ engine.current.seq \in Nat
      /\ engine.current.seq <= engine.last /\ FlowsInv(flows, engine.last, executions)
  BY DEF PlaysInv, EngineInv
<1>3. /\ Good(t) /\ ~t.poisoned /\ Active(t) /\ t.current.seq = seq /\ t.last = seq
      /\ OpenPlays(t) = {} /\ Known(t) = {} /\ DOMAIN t.prov.orbs = {} /\ t.prov.serial = 0
  BY <1>1, <1>2, CombatStartIs
<1>4. seq \in Nat /\ seq > engine.last /\ seq # 0
  BY <1>2
<1> HIDE DEF t
<1>5. EngineInv'
  BY <1>1, <1>3, <1>4 DEF EngineInv, t
<1>6. FlowsInv(flows, seq, executions)
  <2>1. ASSUME NEW f \in Flows
        PROVE  IsFlow(flows[f], seq, executions)
    <3>1. IsFlow(flows[f], engine.last, executions)
      BY <1>2 DEF FlowsInv
    <3>2. QED
      BY <1>2, <1>4, <3>1 DEF IsFlow
  <2>2. QED
    BY <1>2, <1>4, <2>1 DEF FlowsInv
<1>7. FlowsInv(flows, engine.last, executions)'
  BY <1>1, <1>3, <1>6 DEF FlowsInv, t
<1>8. \A f \in Flows, i \in Nat : ~Bears(flows[f], i, seq)
  <2>1. SUFFICES ASSUME NEW f \in Flows, NEW i \in Nat, Bears(flows[f], i, seq) PROVE FALSE
    OBVIOUS
  <2>2. flows[f].execution.epoch = seq
    BY <1>2, <2>1 DEF FlowsInv, Own, Bears
  <2>3. flows[f].execution.epoch \in 0..engine.last
    BY <1>2 DEF FlowsInv, IsFlow
  <2>4. QED
    BY <1>2, <1>4, <2>2, <2>3
<1>9. Running(flows, seq, {}, 0)
  BY <1>8 DEF Running, Wrapped, Borne, Distinct
<1>10. RunInv'
  <2>1. OpenPlays(engine)' = {} /\ engine'.prov.serial = 0 /\ engine'.current.seq = seq
        /\ flows' = flows
    BY <1>1, <1>3 DEF t, OpenPlays
  <2> HIDE DEF seq
  <2>2. Running(flows, engine.current.seq, OpenPlays(engine), engine.prov.serial)'
    BY <1>9, <2>1
  <2>3. QED
    BY <2>2 DEF RunInv
<1>11. KnownInv'
  <2>1. /\ DOMAIN Ordinaries = {"generation", "dirty"} /\ Ordinaries.dirty = {}
        /\ Ordinaries.generation = [c \in Cards |-> "ordinary"]
    BY DEF Ordinaries
  <2>2. DOMAIN engine'.prov.generated = {} /\ DOMAIN engine'.prov.orbs = {}
    BY <1>3 DEF Known, t
  <2>3. QED
    BY <1>1, <2>1, <2>2 DEF KnownInv, KnownAlike, Generations
<1>12. QED
  BY <1>5, <1>7, <1>10, <1>11 DEF PlaysInv

LEMMA InitInv ==
  ASSUME Init
  PROVE  PlaysInv
<1>1. /\ engine = Fresh /\ epoch = 0 /\ flows = [f \in Flows |-> Idle] /\ executions = 0
      /\ metadata = Ordinaries
  BY DEF Init
<1>2. /\ DOMAIN Fresh = Fields /\ Fresh.current = NoCombat /\ Fresh.prov = NoProvenance
      /\ Fresh.last = 0
  BY DEF Fresh, Fields
<1>3. /\ DOMAIN NoCombat = CombatFields /\ NoCombat.seq = 0 /\ NoCombat.phase = None
      /\ DOMAIN NoProvenance = ProvFields /\ NoProvenance.epoch = 0 /\ NoProvenance.plays = {}
      /\ NoProvenance.serial = 0
  BY DEF NoCombat, NoProvenance, CombatFields, ProvFields
<1>4. Good(engine) /\ ~Active(engine) /\ engine.last = 0 /\ engine.current.seq = 0
  BY <1>1, <1>2, <1>3 DEF Good, Active, None
<1>5. EngineInv /\ RunInv
  BY <1>1, <1>4 DEF EngineInv, RunInv, On
<1>6. FlowsInv(flows, engine.last, executions)
  <2>1. \A f \in Flows : flows[f] = Idle
    BY <1>1
  <2>2. IsFlow(Idle, 0, 0) /\ ~Idle.owner /\ Own(Idle)
    BY IdleIsFlow
  <2>3. DOMAIN flows = Flows
    BY <1>1
  <2>4. QED
    BY <1>1, <1>4, <2>1, <2>2, <2>3 DEF FlowsInv, SameRun
<1>7. KnownInv
  <2>1. /\ DOMAIN Ordinaries = {"generation", "dirty"}
        /\ Ordinaries.generation = [c \in Cards |-> "ordinary"]
    BY DEF Ordinaries
  <2>2. QED
    BY <1>1, <2>1 DEF KnownInv, KnownAlike, Generations
<1>8. QED
  BY <1>5, <1>6, <1>7 DEF PlaysInv

LEMMA StutterKeeps ==
  ASSUME PlaysInv, UNCHANGED vars
  PROVE  PlaysInv'
<1>1. UNCHANGED <<engine, epoch, flows, executions, metadata>>
  BY DEF vars
<1>2. Alike(engine, engine')
  BY <1>1, QuietSelf DEF PlaysInv, EngineInv, Quiet
<1>3. QED
  BY <1>1, <1>2, QuietKeeps

\* Every state of the plays satisfies their invariant.
THEOREM PlaysInvariant == Spec => []PlaysInv
<1>1. Init => PlaysInv
  BY InitInv
<1>2. PlaysInv /\ [Next]_vars => PlaysInv'
  <2>1. SUFFICES ASSUME PlaysInv, [Next]_vars PROVE PlaysInv'
    OBVIOUS
  <2>2. CASE \E g \in Flows, potion \in BOOLEAN :
                \E inherited \in Inherited : Wrapper(inherited, g, potion)
    BY <2>1, <2>2, WrapperKeeps
  <2>3. CASE \E f, g \in Flows : Fork(f, g)
    BY <2>1, <2>3, ForkJoinKeep
  <2>4. CASE \E f \in Flows : Join(f) \/ EndEffect(f)
    BY <2>1, <2>4, ForkJoinKeep, EndEffectKeeps
  <2>5. CASE \E f \in Flows, card \in Cards :
                \/ Started(f, card)
                \/ Finished(f, card)
                \/ Generated(f, card)
    BY <2>1, <2>5, StartedKeeps, FinishedKeeps, GeneratedKeeps
  <2>6. CASE \E f \in Flows, orb \in Orbs : Channeled(f, orb) \/ Orb(f, orb)
    BY <2>1, <2>6, ChanneledKeeps, OrbKeeps
  <2>7. CASE StartCombat \/ EndCombat \/ Abandon \/ Panic
    BY <2>1, <2>7, StartCombatKeeps, EndKeeps
  <2>8. CASE UNCHANGED vars
    BY <2>1, <2>8, StutterKeeps
  <2>9. QED
    BY <2>1, <2>2, <2>3, <2>4, <2>5, <2>6, <2>7, <2>8 DEF Next
<1>3. QED
  BY <1>1, <1>2, PTL DEF Spec

----------------------------------------------------------------------------
(***************************************************************************)
(* Sums.                                                                   *)
(***************************************************************************)
\* A set of numbers has a least one.
LEMMA Least ==
  ASSUME NEW T \in SUBSET Nat, T # {}
  PROVE  \E m \in T : \A k \in T : m <= k
<1> DEFINE R == OpToRel(<, Nat)
<1>1. PICK m \in T : \A k \in T : ~ (<<k, m>> \in R)
  BY NatLessThanWellFounded, WFMin
<1>2. \A k \in T : <<k, m>> \in R <=> k < m
  BY DEF OpToRel
<1> HIDE DEF R
<1>3. \A k \in T : ~(k < m)
  BY <1>1, <1>2
<1>4. QED
  BY <1>3

\* A set that holds 0 and with each number below n the next one.
LEMMA UpTo ==
  ASSUME NEW T, NEW n \in Nat, 0 \in T, \A k \in 0..(n - 1) : k \in T => k + 1 \in T
  PROVE  n \in T /\ 0..n \subseteq T
<1>1. SUFFICES ASSUME (0..n) \ T # {} PROVE FALSE
  OBVIOUS
<1>2. PICK m \in (0..n) \ T : \A k \in (0..n) \ T : m <= k
  <2>1. (0..n) \ T \in SUBSET Nat
    OBVIOUS
  <2>2. QED
    BY <1>1, <2>1, Least
<1>3. m # 0 /\ m - 1 \in 0..(n - 1) /\ m - 1 \notin (0..n) \ T
  BY <1>2
<1>4. m - 1 \in T
  BY <1>3
<1>5. (m - 1) + 1 = m
  BY <1>2
<1>6. QED
  BY <1>2, <1>3, <1>4, <1>5

SumBy(f, w, n) == f = [i \in 0..n |-> IF i = 0 THEN 0 ELSE f[i - 1] + w[i].plays]

LEMMA SumByIs ==
  ASSUME NEW f, NEW w, NEW n \in Nat, SumBy(f, w, n)
  PROVE  f[0] = 0 /\ \A i \in 1..n : f[i] = f[i - 1] + w[i].plays
<1> DEFINE F(i) == IF i = 0 THEN 0 ELSE f[i - 1] + w[i].plays
<1>1. f = [i \in 0..n |-> F(i)]
  BY DEF SumBy
<1> HIDE DEF F
<1>2. \A i \in 0..n : f[i] = F(i)
  BY <1>1
<1>3. QED
  BY <1>2 DEF F

LEMMA SumExists ==
  ASSUME NEW w, NEW n \in Nat
  PROVE  \E f : SumBy(f, w, n)
<1> DEFINE T == {m \in Nat : \E f : SumBy(f, w, m)}
<1>1. 0 \in T
  <2> DEFINE f == [i \in 0..0 |-> 0]
  <2>1. SumBy(f, w, 0)
    BY DEF SumBy
  <2>2. QED
    BY <2>1
<1>2. ASSUME NEW m \in 0..(n - 1), m \in T
      PROVE  m + 1 \in T
  <2>1. PICK f : SumBy(f, w, m)
    BY <1>2
  <2>2. m \in Nat /\ f[0] = 0 /\ \A i \in 1..m : f[i] = f[i - 1] + w[i].plays
    BY <2>1, SumByIs
  <2> DEFINE g == [i \in 0..(m + 1) |-> IF i = m + 1 THEN f[m] + w[m + 1].plays ELSE f[i]]
             h == [i \in 0..(m + 1) |-> IF i = 0 THEN 0 ELSE g[i - 1] + w[i].plays]
  <2>3. g[0] = 0 /\ h[0] = 0
    BY <2>2
  <2>4. g[m + 1] = f[m] + w[m + 1].plays /\ h[m + 1] = f[m] + w[m + 1].plays
    BY <2>2
  <2>5. ASSUME NEW i \in 1..m PROVE g[i] = h[i]
    <3>1. g[i] = f[i] /\ g[i - 1] = f[i - 1] /\ h[i] = g[i - 1] + w[i].plays
      BY <2>2
    <3>2. QED
      BY <2>2, <3>1
  <2>6. \A i \in 0..(m + 1) : g[i] = h[i]
    <3> HIDE DEF g, h
    <3>1. QED
      BY <2>2, <2>3, <2>4, <2>5
  <2>7. g = h
    BY <2>6
  <2>8. SumBy(g, w, m + 1)
    BY <2>7 DEF SumBy
  <2>9. QED
    BY <2>2, <2>8
<1> HIDE DEF T
<1>3. n \in T
  BY <1>1, <1>2, UpTo
<1>4. QED
  BY <1>3 DEF T

\* The plays of the first rows.
LEMMA RowPlaysAre ==
  ASSUME NEW rows, Len(rows) \in Nat
  PROVE  \E sum : SumBy(sum, rows, Len(rows)) /\ RowPlays(rows) = sum[Len(rows)]
<1> DEFINE sum == CHOOSE f : SumBy(f, rows, Len(rows))
<1>1. SumBy(sum, rows, Len(rows))
  BY SumExists
<1>2. RowPlays(rows) = sum[Len(rows)]
  BY DEF RowPlays, SumBy
<1> HIDE DEF sum
<1>3. QED
  BY <1>1, <1>2

RowFields == {"player", "id", "kind", "plays"}

\* The rows of a combat are records of their counts.
IsRows(rows) ==
  /\ \E S : rows \in Seq(S)
  /\ \A i \in DOMAIN rows : DOMAIN rows[i] = RowFields /\ rows[i].plays \in Nat

LEMMA RowsAre ==
  ASSUME NEW rows, IsRows(rows)
  PROVE  Len(rows) \in Nat /\ DOMAIN rows = 1..Len(rows) /\ \A i \in 1..Len(rows) : rows[i].plays \in Nat
<1>1. PICK S : rows \in Seq(S)
  BY DEF IsRows
<1>2. Len(rows) \in Nat /\ DOMAIN rows = 1..Len(rows)
  BY <1>1, LenProperties
<1>3. QED
  BY <1>2 DEF IsRows

LEMMA SumNat ==
  ASSUME NEW rows, IsRows(rows), NEW f, NEW n \in Nat, n <= Len(rows), SumBy(f, rows, n)
  PROVE  f[n] \in Nat
<1> DEFINE T == {i \in Nat : f[i] \in Nat}
<1>1. 0 \in T
  BY SumByIs
<1>2. ASSUME NEW i \in 0..(n - 1), i \in T PROVE i + 1 \in T
  <2>1. i + 1 \in 1..n /\ i + 1 \in 1..Len(rows) /\ i + 1 \in Nat /\ (i + 1) - 1 = i
    BY RowsAre
  <2>2. f[i + 1] = f[i] + rows[i + 1].plays /\ rows[i + 1].plays \in Nat
    BY <2>1, RowsAre, SumByIs
  <2>3. QED
    BY <1>2, <2>1, <2>2
<1> HIDE DEF T
<1>3. n \in T
  BY <1>1, <1>2, UpTo
<1>4. QED
  BY <1>3 DEF T

LEMMA RowPlaysNat ==
  ASSUME NEW rows, IsRows(rows)
  PROVE  RowPlays(rows) \in Nat
BY RowsAre, RowPlaysAre, SumNat

\* One more play of one row is one more of all.
LEMMA OneMorePlay ==
  ASSUME NEW rows, IsRows(rows), NEW more, IsRows(more), Len(more) = Len(rows),
         NEW k \in 1..Len(rows), more[k].plays = rows[k].plays + 1,
         \A i \in 1..Len(rows) : i # k => more[i].plays = rows[i].plays
  PROVE  RowPlays(more) = RowPlays(rows) + 1
<1> DEFINE n == Len(rows)
<1>1. n \in Nat
  BY RowsAre
<1>2. PICK f : SumBy(f, rows, n) /\ RowPlays(rows) = f[n]
  BY <1>1, RowPlaysAre
<1>3. PICK g : SumBy(g, more, n) /\ RowPlays(more) = g[n]
  BY <1>1, RowPlaysAre
<1>4. /\ f[0] = 0 /\ \A i \in 1..n : f[i] = f[i - 1] + rows[i].plays
      /\ g[0] = 0 /\ \A i \in 1..n : g[i] = g[i - 1] + more[i].plays
  BY <1>1, <1>2, <1>3, SumByIs
<1>5. \A i \in 1..n : rows[i].plays \in Nat /\ more[i].plays \in Nat
  BY RowsAre
<1> DEFINE T == {i \in Nat : f[i] \in Nat /\ g[i] = f[i] + (IF k <= i THEN 1 ELSE 0)}
<1> HIDE DEF n
<1>6. 0 \in T
  BY <1>1, <1>4 DEF n
<1>7. ASSUME NEW i \in 0..(n - 1), i \in T PROVE i + 1 \in T
  <2>1. i + 1 \in 1..n /\ i \in Nat /\ i + 1 \in Nat /\ (i + 1) - 1 = i /\ k \in Nat
    BY <1>1 DEF n
  <2>2. f[i + 1] = f[i] + rows[i + 1].plays /\ g[i + 1] = g[i] + more[i + 1].plays
    BY <1>4, <2>1
  <2>3. f[i] \in Nat /\ g[i] = f[i] + (IF k <= i THEN 1 ELSE 0)
    BY <1>7
  <2>4. PICK a \in Nat : a = f[i]
    BY <2>3
  <2>5. PICK b \in Nat : b = rows[i + 1].plays
    BY <1>5, <2>1
  <2>6. CASE k = i + 1
    <3>1. more[i + 1].plays = b + 1 /\ ~(k <= i) /\ k <= i + 1
      BY <2>1, <2>5, <2>6
    <3>2. f[i + 1] = a + b /\ g[i + 1] = a + (b + 1)
      BY <2>2, <2>3, <2>4, <2>5, <3>1
    <3>3. QED
      BY <2>1, <3>1, <3>2
  <2>7. CASE k # i + 1
    <3>1. more[i + 1].plays = b /\ (k <= i <=> k <= i + 1)
      BY <2>1, <2>5, <2>7 DEF n
    <3>2. f[i + 1] = a + b /\ g[i + 1] = g[i] + b
      BY <2>2, <2>4, <2>5, <3>1
    <3>3. CASE k <= i
      <4>1. g[i] = a + 1 /\ k <= i + 1
        BY <2>3, <2>4, <3>1, <3>3
      <4>2. QED
        BY <2>1, <3>2, <4>1
    <3>4. CASE ~(k <= i)
      <4>1. g[i] = a /\ ~(k <= i + 1)
        BY <2>3, <2>4, <3>1, <3>4
      <4>2. QED
        BY <2>1, <3>2, <4>1
    <3>5. QED
      BY <3>3, <3>4
  <2>8. QED
    BY <2>6, <2>7
<1> HIDE DEF T
<1>8. n \in T
  BY <1>1, <1>6, <1>7, UpTo
<1>9. k <= n
  BY <1>1 DEF n
<1>10. QED
  BY <1>2, <1>3, <1>8, <1>9 DEF T

\* A new row has no plays.
LEMMA OneMoreRow ==
  ASSUME NEW rows, IsRows(rows), NEW row, DOMAIN row = RowFields, row.plays = 0
  PROVE  LET more == Append(rows, row)
         IN  /\ IsRows(more) /\ RowPlays(more) = RowPlays(rows)
             /\ DOMAIN more = DOMAIN rows \cup {Len(rows) + 1} /\ Len(rows) + 1 \notin DOMAIN rows
             /\ Len(rows) + 1 # 0 /\ 0 \notin DOMAIN rows
             /\ more[Len(rows) + 1] = row /\ \A i \in DOMAIN rows : more[i] = rows[i]
<1> DEFINE n == Len(rows)
           more == Append(rows, row)
<1>1. PICK S : rows \in Seq(S)
  BY DEF IsRows
<1>2. n \in Nat /\ DOMAIN rows = 1..n
  BY RowsAre
<1>3. /\ more \in Seq(S \cup {row}) /\ Len(more) = n + 1 /\ more[n + 1] = row
      /\ \A i \in 1..n : more[i] = rows[i]
  <2>1. rows \in Seq(S \cup {row}) /\ row \in S \cup {row}
    BY <1>1
  <2>2. QED
    BY <2>1, AppendProperties
<1>4. DOMAIN more = 1..(n + 1)
  BY <1>3, LenProperties
<1> HIDE DEF more, n
<1>5. IsRows(more)
  <2>1. \A i \in 1..n : DOMAIN rows[i] = RowFields /\ rows[i].plays \in Nat
    BY <1>2 DEF IsRows
  <2>2. \A i \in 1..(n + 1) : i \in 1..n \/ i = n + 1
    BY <1>2
  <2>3. \A i \in 1..(n + 1) : DOMAIN more[i] = RowFields /\ more[i].plays \in Nat
    BY <1>3, <2>1, <2>2
  <2>4. QED
    BY <1>3, <1>4, <2>3 DEF IsRows
<1>6. RowPlays(more) = RowPlays(rows)
  <2>1. PICK f : SumBy(f, rows, n) /\ RowPlays(rows) = f[n]
    BY <1>2, RowPlaysAre DEF n
  <2>2. PICK g : SumBy(g, more, n + 1) /\ RowPlays(more) = g[n + 1]
    BY <1>2, <1>3, RowPlaysAre
  <2>3. /\ f[0] = 0 /\ \A i \in 1..n : f[i] = f[i - 1] + rows[i].plays
        /\ g[0] = 0 /\ \A i \in 1..(n + 1) : g[i] = g[i - 1] + more[i].plays
    BY <1>2, <2>1, <2>2, SumByIs
  <2> DEFINE T == {i \in Nat : g[i] = f[i]}
  <2>4. 0 \in T
    BY <2>3
  <2>5. ASSUME NEW i \in 0..(n - 1), i \in T PROVE i + 1 \in T
    <3>1. i + 1 \in 1..n /\ i + 1 \in 1..(n + 1) /\ i + 1 \in Nat /\ (i + 1) - 1 = i
      BY <1>2
    <3>2. more[i + 1] = rows[i + 1]
      BY <1>3, <3>1
    <3>3. g[i + 1] = g[i] + more[i + 1].plays /\ f[i + 1] = f[i] + rows[i + 1].plays
      BY <2>3, <3>1
    <3>4. QED
      BY <2>5, <3>1, <3>2, <3>3
  <2> HIDE DEF T
  <2>6. n \in T
    BY <1>2, <2>4, <2>5, UpTo
  <2>7. g[n] = f[n] /\ f[n] \in Nat
    <3>1. Len(rows) = n /\ n <= n
      BY <1>2 DEF n
    <3>2. f[n] \in Nat
      BY <1>2, <2>1, <3>1, SumNat
    <3>3. QED
      BY <2>6, <3>2 DEF T
  <2>8. n + 1 \in 1..(n + 1) /\ (n + 1) - 1 = n
    BY <1>2
  <2>9. g[n + 1] = g[n] + 0
    BY <1>3, <2>3, <2>8
  <2>10. QED
    BY <2>1, <2>2, <2>7, <2>9
<1>7. DOMAIN more = 1..n \cup {n + 1} /\ n + 1 \notin 1..n /\ n + 1 # 0 /\ 0 \notin 1..n
  BY <1>2, <1>4
<1>8. QED
  BY <1>2, <1>3, <1>5, <1>6, <1>7 DEF more, n

----------------------------------------------------------------------------
(***************************************************************************)
(* The ledger of a combat.                                                 *)
(***************************************************************************)
Key(row) == <<row.player, row.id, row.kind>>

\* The rows have keys of their own.
Table(c) ==
  /\ DOMAIN c = CombatFields
  /\ IsRows(c.rows)
  /\ \A i, j \in DOMAIN c.rows : Key(c.rows[i]) = Key(c.rows[j]) => i = j
  /\ c.plays \in Nat /\ c.generatedPlays \in Nat /\ c.triggers \in Nat

\* What a combat may become without a play: rows are appended, and those of cards are
\* left alone.
Grown(c, d) ==
  /\ DOMAIN c.rows \subseteq DOMAIN d.rows
  /\ \A i \in DOMAIN c.rows :
        /\ Key(d.rows[i]) = Key(c.rows[i])
        /\ c.rows[i].kind = "card" => d.rows[i].plays = c.rows[i].plays
  /\ \A i \in DOMAIN d.rows \ DOMAIN c.rows : d.rows[i].kind = "card" => d.rows[i].plays = 0
  /\ ~d.rowsLost => ~c.rowsLost
  /\ d.generatedPlays = c.generatedPlays /\ d.plays = c.plays /\ d.seq = c.seq

LEMMA GrownSelf == ASSUME NEW c PROVE Grown(c, c)
BY DEF Grown

LEMMA GrownTwice ==
  ASSUME NEW b, NEW c, NEW d, Grown(b, c), Grown(c, d)
  PROVE  Grown(b, d)
<1>1. \A i \in DOMAIN c.rows : d.rows[i].kind = c.rows[i].kind
  BY DEF Grown, Key
<1>2. \A i \in DOMAIN b.rows : c.rows[i].kind = b.rows[i].kind
  BY DEF Grown, Key
<1>3. QED
  BY <1>1, <1>2 DEF Grown

\* A combat in which a row has been looked for.
Sought(c, f) ==
  /\ Table(f.c) /\ Grown(c, f.c)
  /\ RowPlays(f.c.rows) = RowPlays(c.rows) /\ f.c.triggers = c.triggers
  /\ \/ f.row = 0 /\ f.c.rowsLost
     \/ f.row \in DOMAIN f.c.rows

LEMMA FindRowIs ==
  ASSUME NEW c, Table(c), NEW slot, NEW id, NEW kind
  PROVE  LET f == FindRow(c, slot, id, kind)
         IN  Sought(c, f) /\ (f.row # 0 => Key(f.c.rows[f.row]) = <<slot, id, kind>>)
<1> DEFINE found == RowsOf(c, slot, id, kind)
           row == [player |-> slot, id |-> id, kind |-> kind, plays |-> 0]
           lost == [c EXCEPT !.rowsLost = TRUE]
           more == [c EXCEPT !.rows = Append(@, row)]
           f == FindRow(c, slot, id, kind)
<1>1. f = IF found # {} THEN [c |-> c, row |-> CHOOSE i \in found : TRUE]
          ELSE IF Len(c.rows) >= MaxRows THEN [c |-> lost, row |-> 0]
          ELSE [c |-> more, row |-> Len(c.rows) + 1]
  BY DEF FindRow
<1>2. \A i : i \in found <=> i \in DOMAIN c.rows /\ Key(c.rows[i]) = <<slot, id, kind>>
  BY DEF RowsOf, Key
<1>3. 0 \notin DOMAIN c.rows
  BY RowsAre DEF Table
<1> HIDE DEF found, f
<1>4. CASE found # {}
  <2>1. f.c = c /\ f.row \in found
    BY <1>1, <1>4
  <2>2. QED
    BY <1>2, <2>1, GrownSelf DEF Sought, f
<1>5. CASE found = {} /\ Len(c.rows) >= MaxRows
  <2>1. f.c = lost /\ f.row = 0
    BY <1>1, <1>5
  <2>2. /\ DOMAIN lost = CombatFields /\ lost.rows = c.rows /\ lost.rowsLost /\ lost.plays = c.plays
        /\ lost.generatedPlays = c.generatedPlays /\ lost.triggers = c.triggers /\ lost.seq = c.seq
    BY DEF Table, CombatFields
  <2> HIDE DEF lost
  <2>3. Table(lost) /\ Grown(c, lost)
    BY <2>2 DEF Table, Grown
  <2>4. QED
    BY <2>1, <2>2, <2>3 DEF Sought, f
<1>6. CASE found = {} /\ ~(Len(c.rows) >= MaxRows)
  <2> DEFINE n == Len(c.rows) + 1
  <2>1. f.c = more /\ f.row = n
    BY <1>1, <1>6
  <2>2. /\ DOMAIN more = CombatFields /\ more.rows = Append(c.rows, row) /\ more.rowsLost = c.rowsLost
        /\ more.plays = c.plays /\ more.generatedPlays = c.generatedPlays
        /\ more.triggers = c.triggers /\ more.seq = c.seq
    BY DEF Table, CombatFields
  <2> HIDE DEF more
  <2>3. DOMAIN row = RowFields /\ row.plays = 0 /\ Key(row) = <<slot, id, kind>>
    BY DEF RowFields, Key
  <2> HIDE DEF row
  <2>4. /\ IsRows(more.rows) /\ RowPlays(more.rows) = RowPlays(c.rows)
        /\ DOMAIN more.rows = DOMAIN c.rows \cup {n} /\ n \notin DOMAIN c.rows
        /\ more.rows[n] = row /\ \A i \in DOMAIN c.rows : more.rows[i] = c.rows[i]
    BY <2>2, <2>3, OneMoreRow DEF Table
  <2> HIDE DEF n
  <2>5. \A i \in DOMAIN c.rows : Key(c.rows[i]) # Key(row)
    BY <1>2, <1>6, <2>3
  <2>6. \A i, j \in DOMAIN more.rows : Key(more.rows[i]) = Key(more.rows[j]) => i = j
    BY <2>4, <2>5 DEF Table
  <2>7. Table(more)
    BY <2>2, <2>4, <2>6 DEF Table
  <2>8. Grown(c, more)
    BY <2>2, <2>3, <2>4 DEF Grown
  <2>9. QED
    BY <2>1, <2>2, <2>3, <2>4, <2>7, <2>8 DEF Sought, f
<1>7. QED
  BY <1>4, <1>5, <1>6

\* Without a row lost, a row that is asked for is the one that is had.
LEMMA RowForIs ==
  ASSUME NEW c, Table(c), NEW slot, NEW id, NEW kind
  PROVE  LET f == RowFor(c, slot, id, kind)
         IN  /\ Sought(c, f)
             /\ ~f.c.rowsLost => f.row # 0 /\ Key(f.c.rows[f.row]) = <<slot, id, kind>>
<1> DEFINE lost == [c EXCEPT !.rowsLost = TRUE]
           f == RowFor(c, slot, id, kind)
<1>1. CASE RowsOf(c, slot, id, kind) = {} /\ Ordinary(c) >= MaxRows - Cardinality(Slots)
  <2>1. f = FindRow(lost, slot, "UNATTRIBUTED", "unknown")
    BY <1>1 DEF RowFor, UnknownRow
  <2>2. /\ DOMAIN lost = CombatFields /\ lost.rows = c.rows /\ lost.rowsLost /\ lost.plays = c.plays
        /\ lost.generatedPlays = c.generatedPlays /\ lost.triggers = c.triggers /\ lost.seq = c.seq
    BY DEF Table, CombatFields
  <2> HIDE DEF lost
  <2>3. Table(lost) /\ Grown(c, lost)
    BY <2>2 DEF Table, Grown
  <2>4. Sought(lost, f)
    BY <2>1, <2>3, FindRowIs
  <2> HIDE DEF f
  <2>5. Sought(c, f)
    BY <2>2, <2>3, <2>4, GrownTwice DEF Sought
  <2>6. f.c.rowsLost
    BY <2>2, <2>4 DEF Sought, Grown
  <2>7. QED
    BY <2>5, <2>6 DEF f
<1>2. CASE ~(RowsOf(c, slot, id, kind) = {} /\ Ordinary(c) >= MaxRows - Cardinality(Slots))
  <2>1. f = FindRow(c, slot, id, kind)
    BY <1>2 DEF RowFor
  <2>2. Sought(c, f) /\ (f.row # 0 => Key(f.c.rows[f.row]) = <<slot, id, kind>>)
    BY <2>1, FindRowIs
  <2> HIDE DEF f
  <2>3. 0 \notin DOMAIN f.c.rows
    BY <2>2, RowsAre DEF Sought, Table
  <2>4. QED
    BY <2>2, <2>3 DEF Sought, f
<1>3. QED
  BY <1>1, <1>2

\* A destination of a source: a row that the combat has, or somebody's unknown one.
IsTo(to, rows) == to.row = 0 \/ to.row \in DOMAIN rows

LEMMA StageRowIs ==
  ASSUME NEW c, Table(c), NEW to, IsTo(to, c.rows)
  PROVE  /\ Sought(c, StageRow(c, to))
         /\ to.row # 0 => StageRow(c, to).c = c /\ StageRow(c, to).row = to.row
<1>1. CASE to.row = 0
  BY <1>1, FindRowIs DEF StageRow, UnknownRow
<1>2. CASE to.row # 0
  BY <1>2, GrownSelf DEF StageRow, Sought, IsTo
<1>3. QED
  BY <1>1, <1>2

\* One more play of a row.
Bumped(c, i) == [c EXCEPT !.rows[i].plays = @ + 1]

LEMMA BumpedIs ==
  ASSUME NEW c, Table(c), NEW i \in DOMAIN c.rows
  PROVE  LET d == Bumped(c, i)
         IN  /\ Table(d) /\ RowPlays(d.rows) = RowPlays(c.rows) + 1
             /\ d.plays = c.plays /\ d.generatedPlays = c.generatedPlays /\ d.triggers = c.triggers
             /\ d.seq = c.seq /\ d.rowsLost = c.rowsLost /\ DOMAIN d.rows = DOMAIN c.rows
             /\ \A j \in DOMAIN c.rows : Key(d.rows[j]) = Key(c.rows[j])
             /\ d.rows[i].plays = c.rows[i].plays + 1
             /\ \A j \in DOMAIN c.rows : j # i => d.rows[j] = c.rows[j]
<1> DEFINE d == Bumped(c, i)
           row == [c.rows[i] EXCEPT !.plays = @ + 1]
           rows == [c.rows EXCEPT ![i] = row]
<1>1. /\ DOMAIN d = CombatFields /\ d.rows = rows /\ d.plays = c.plays
      /\ d.generatedPlays = c.generatedPlays /\ d.triggers = c.triggers /\ d.seq = c.seq
      /\ d.rowsLost = c.rowsLost
  BY DEF Bumped, Table, CombatFields
<1>2. DOMAIN c.rows[i] = RowFields /\ c.rows[i].plays \in Nat
  BY DEF Table, IsRows
<1>3. /\ DOMAIN row = RowFields /\ row.plays = c.rows[i].plays + 1 /\ row.plays \in Nat
      /\ row.player = c.rows[i].player /\ row.id = c.rows[i].id /\ row.kind = c.rows[i].kind
  BY <1>2 DEF RowFields
<1>4. DOMAIN rows = DOMAIN c.rows /\ rows[i] = row /\ \A j \in DOMAIN c.rows : j # i => rows[j] = c.rows[j]
  OBVIOUS
<1>5. PICK S : c.rows \in Seq(S)
  BY DEF Table, IsRows
<1>6. Len(c.rows) \in Nat /\ DOMAIN c.rows = 1..Len(c.rows)
  BY RowsAre DEF Table
<1>7. rows \in Seq(S \cup {row}) /\ Len(rows) = Len(c.rows)
  <2>1. \A j \in 1..Len(c.rows) : rows[j] \in S \cup {row}
    BY <1>4, <1>5, <1>6, ElementOfSeq
  <2>2. rows = [j \in 1..Len(c.rows) |-> rows[j]]
    BY <1>6
  <2> HIDE DEF rows
  <2>3. rows \in [1..Len(c.rows) -> S \cup {row}]
    BY <2>1, <2>2
  <2>4. rows \in Seq(S \cup {row})
    BY <1>6, <2>3, SeqDef
  <2>5. QED
    BY <1>4, <1>6, <2>4, LenProperties
<1> HIDE DEF row, rows, d
<1>8. IsRows(rows)
  BY <1>3, <1>4, <1>7 DEF Table, IsRows
<1>9. \A j \in DOMAIN c.rows : Key(rows[j]) = Key(c.rows[j])
  BY <1>3, <1>4 DEF Key
<1>10. Table(d)
  BY <1>1, <1>4, <1>8, <1>9 DEF Table
<1>11. RowPlays(rows) = RowPlays(c.rows) + 1
  <2>1. IsRows(c.rows) /\ i \in 1..Len(c.rows) /\ rows[i].plays = c.rows[i].plays + 1
    BY <1>3, <1>4, <1>6 DEF Table
  <2>2. \A j \in 1..Len(c.rows) : j # i => rows[j].plays = c.rows[j].plays
    BY <1>4, <1>6
  <2>3. QED
    BY <1>7, <1>8, <2>1, <2>2, OneMorePlay
<1>12. QED
  BY <1>1, <1>3, <1>4, <1>9, <1>10, <1>11 DEF d

IsStage(stage) == DOMAIN stage = {"c", "failure"}

LEMMA RowPlayIs ==
  ASSUME NEW stage, IsStage(stage), Table(stage.c), NEW to, IsTo(to, stage.c.rows)
  PROVE  LET next == RowPlay(stage, to)
             found == StageRow(stage.c, to)
         IN  /\ IsStage(next) /\ Table(next.c)
             /\ next.failure = None =>
                  stage.failure = None /\ found.row \in DOMAIN found.c.rows
                  /\ next.c = Bumped(found.c, found.row)
<1> DEFINE found == StageRow(stage.c, to)
           next == RowPlay(stage, to)
           more == [stage EXCEPT !.c = [found.c EXCEPT !.rows[found.row].plays = @ + 1]]
<1>1. Sought(stage.c, found)
  BY StageRowIs
<1>2. next = IF found.row = 0 THEN Fails(stage, "capacity")
             ELSE IF found.c.rows[found.row].plays = MaxCount THEN Fails(stage, "arithmetic")
             ELSE more
  BY DEF RowPlay, Played
<1>3. IsStage(more) /\ more.failure = stage.failure /\ more.c = Bumped(found.c, found.row)
  BY DEF IsStage, Bumped
<1>4. ASSUME NEW failure \in {"capacity", "arithmetic"}
      PROVE  /\ IsStage(Fails(stage, failure)) /\ Fails(stage, failure).failure # None
             /\ Fails(stage, failure).c = stage.c
  BY DEF Fails, IsStage, None
<1> HIDE DEF found, next, more
<1>5. CASE next = more /\ found.row # 0
  <2>1. Table(found.c) /\ found.row \in DOMAIN found.c.rows
    BY <1>1, <1>5 DEF Sought
  <2>2. Table(Bumped(found.c, found.row))
    BY <2>1, BumpedIs
  <2>3. QED
    BY <1>3, <1>5, <2>1, <2>2 DEF next, found
<1>6. CASE next = Fails(stage, "capacity") \/ next = Fails(stage, "arithmetic")
  BY <1>4, <1>6 DEF next
<1>7. QED
  BY <1>2, <1>5, <1>6

LEMMA CountIs ==
  ASSUME NEW stage, IsStage(stage), Table(stage.c),
         NEW counter \in {"plays", "generatedPlays", "triggers"}
  PROVE  LET next == Count(stage, counter)
         IN  /\ IsStage(next) /\ Table(next.c)
             /\ next.failure = None =>
                  stage.failure = None /\ next.c = [stage.c EXCEPT ![counter] = @ + 1]
<1> DEFINE more == [stage EXCEPT !.c[counter] = @ + 1]
           c == [stage.c EXCEPT ![counter] = @ + 1]
<1>1. IsStage(more) /\ more.failure = stage.failure /\ more.c = c
  BY DEF IsStage
<1>2. /\ IsStage(Fails(stage, "arithmetic")) /\ Fails(stage, "arithmetic").failure # None
      /\ Fails(stage, "arithmetic").c = stage.c
  BY DEF Fails, IsStage, None
<1>3. Table(c)
  <2>1. /\ DOMAIN c = CombatFields /\ c.rows = stage.c.rows
        /\ \A other \in {"plays", "generatedPlays", "triggers"} :
             c[other] = IF other = counter THEN stage.c[other] + 1 ELSE stage.c[other]
    BY DEF Table, CombatFields
  <2>2. \A other \in {"plays", "generatedPlays", "triggers"} : stage.c[other] \in Nat
    BY DEF Table
  <2> HIDE DEF c
  <2>3. \A other \in {"plays", "generatedPlays", "triggers"} : c[other] \in Nat
    BY <2>1, <2>2
  <2>4. c.plays \in Nat /\ c.generatedPlays \in Nat /\ c.triggers \in Nat
    <3>1. c["plays"] \in Nat /\ c["generatedPlays"] \in Nat /\ c["triggers"] \in Nat
      BY <2>3
    <3>2. QED
      BY <3>1
  <2>5. QED
    BY <2>1, <2>4 DEF Table
<1>4. Count(stage, counter) = more \/ Count(stage, counter) = Fails(stage, "arithmetic")
  BY DEF Count
<1> HIDE DEF more
<1>5. QED
  BY <1>1, <1>2, <1>3, <1>4

\* The identity of the counters.
Adds(c) == c.plays + c.triggers = RowPlays(c.rows) + c.generatedPlays
Books(c) == Table(c) /\ Adds(c)

LEMMA SoughtAdds ==
  ASSUME NEW c, Adds(c), NEW f, Sought(c, f)
  PROVE  Books(f.c)
BY DEF Sought, Grown, Adds, Books

\* A trigger that is booked is counted.
LEMMA TriggerIs ==
  ASSUME NEW stage, IsStage(stage), Books(stage.c), NEW to, IsTo(to, stage.c.rows),
         TriggerOf(stage, to).failure = None
  PROVE  Books(TriggerOf(stage, to).c) /\ Grown(stage.c, TriggerOf(stage, to).c)
<1> DEFINE found == StageRow(stage.c, to)
           next == TriggerOf(stage, to)
           row == RowPlay(stage, to)
<1>1. Sought(stage.c, found) /\ Books(found.c)
  BY StageRowIs, SoughtAdds DEF Books
<1>2. CASE found.row # 0 /\ found.c.rows[found.row].kind = "card"
  <2>1. next = [stage EXCEPT !.c = found.c]
    BY <1>2 DEF TriggerOf, Triggered
  <2>2. next.c = found.c
    BY <2>1 DEF IsStage
  <2> HIDE DEF next, found
  <2>3. Books(next.c) /\ Grown(stage.c, next.c)
    BY <1>1, <2>2 DEF Sought
  <2>4. QED
    BY <2>3 DEF next
<1>3. CASE ~(found.row # 0 /\ found.c.rows[found.row].kind = "card")
  <2>1. next = Count(row, "triggers")
    BY <1>3 DEF TriggerOf, Triggered
  <2>2. /\ IsStage(row) /\ Table(row.c)
        /\ row.failure = None =>
             found.row \in DOMAIN found.c.rows /\ row.c = Bumped(found.c, found.row)
    BY RowPlayIs DEF Books
  <2> HIDE DEF next, found, row
  <2>3. row.failure = None /\ next.c = [row.c EXCEPT !["triggers"] = @ + 1] /\ Table(next.c)
    BY <2>1, <2>2, CountIs DEF next
  <2> DEFINE c == found.c
             d == Bumped(c, found.row)
  <2>4. /\ Table(d) /\ RowPlays(d.rows) = RowPlays(c.rows) + 1
        /\ d.plays = c.plays /\ d.generatedPlays = c.generatedPlays /\ d.triggers = c.triggers
        /\ d.seq = c.seq /\ d.rowsLost = c.rowsLost /\ DOMAIN d.rows = DOMAIN c.rows
        /\ \A j \in DOMAIN c.rows : Key(d.rows[j]) = Key(c.rows[j])
        /\ \A j \in DOMAIN c.rows : j # found.row => d.rows[j] = c.rows[j]
    BY <1>1, <2>2, <2>3, BumpedIs DEF Books
  <2>5. /\ next.c.rows = d.rows /\ next.c.triggers = d.triggers + 1 /\ next.c.plays = d.plays
        /\ next.c.generatedPlays = d.generatedPlays /\ next.c.seq = d.seq
        /\ next.c.rowsLost = d.rowsLost
    BY <2>2, <2>3, <2>4 DEF Table, CombatFields
  <2> HIDE DEF c, d
  <2>6. found.row # 0 /\ c.rows[found.row].kind # "card"
    <3>1. 0 \notin DOMAIN c.rows
      BY <1>1, RowsAre DEF Books, Table, c
    <3>2. QED
      BY <1>3, <2>2, <2>3, <3>1 DEF c
  <2>7. Grown(c, next.c)
    BY <2>4, <2>5, <2>6 DEF Grown
  <2>8. Adds(next.c)
    <3>1. /\ RowPlays(c.rows) \in Nat /\ c.plays \in Nat /\ c.triggers \in Nat /\ c.generatedPlays \in Nat
          /\ c.plays + c.triggers = RowPlays(c.rows) + c.generatedPlays
      BY <1>1, RowPlaysNat DEF Books, Table, Adds, c
    <3>2. next.c.plays = c.plays /\ next.c.triggers = c.triggers + 1
          /\ RowPlays(next.c.rows) = RowPlays(c.rows) + 1 /\ next.c.generatedPlays = c.generatedPlays
      BY <2>4, <2>5
    <3>3. QED
      BY <3>1, <3>2 DEF Adds
  <2>9. Grown(stage.c, next.c)
    BY <1>1, <2>7, GrownTwice DEF Sought, c
  <2>10. QED
    BY <2>3, <2>8, <2>9 DEF Books, next
<1>4. QED
  BY <1>2, <1>3

LEMMA OneInOrder ==
  ASSUME NEW to
  PROVE  Len(SetToSeq({to})) = 1 /\ SetToSeq({to})[1] = to
<1> DEFINE Orders == [1..Cardinality({to}) -> {to}]
           f == [i \in 1..1 |-> to]
<1>1. Cardinality({to}) = 1
  BY FS_Singleton
<1>2. f \in Orders /\ IsInjective(f)
  BY <1>1 DEF IsInjective
<1>3. SetToSeq({to}) \in Orders
  BY <1>2 DEF SetToSeq
<1> HIDE DEF f
<1>4. SetToSeq({to}) \in [1..1 -> {to}]
  BY <1>1, <1>3
<1>5. SetToSeq({to}) \in Seq({to})
  BY <1>4, SeqDef
<1>6. QED
  BY <1>4, <1>5, LenProperties

\* Of a source with one destination there is one trigger.
LEMMA TriggersAre ==
  ASSUME NEW first, NEW to
  PROVE  Triggers(first, {to}) = TriggerOf(first, to)
<1> DEFINE order == SetToSeq({to})
           Runs1(after) == after = [i \in 0..Len(order) |->
                                      IF i = 0 THEN first ELSE TriggerOf(after[i - 1], order[i])]
           after == CHOOSE f : Runs1(f)
           g == [i \in 0..1 |-> IF i = 0 THEN first ELSE TriggerOf(first, to)]
<1>1. Len(order) = 1 /\ order[1] = to
  BY OneInOrder
<1>2. Triggers(first, {to}) = after[Len(order)]
  BY DEF Triggers
<1> HIDE DEF order
<1>3. Runs1(g)
  <2>1. g[0] = first /\ g[1] = TriggerOf(first, to)
    OBVIOUS
  <2>2. \A i \in 0..1 : (IF i = 0 THEN first ELSE TriggerOf(first, to))
                          = (IF i = 0 THEN first ELSE TriggerOf(g[i - 1], order[i]))
    <3>1. \A i \in 0..1 : i = 0 \/ i = 1
      OBVIOUS
    <3>2. TriggerOf(first, to) = TriggerOf(g[1 - 1], order[1])
      BY <1>1, <2>1
    <3>3. QED
      BY <3>1, <3>2
  <2>3. QED
    BY <1>1, <2>2
<1>4. Runs1(after)
  BY <1>3
<1> HIDE DEF after, g
<1>5. after[0] = first
  BY <1>1, <1>4
<1>6. after[1] = TriggerOf(after[1 - 1], order[1])
  BY <1>1, <1>4
<1>7. QED
  BY <1>1, <1>2, <1>5, <1>6

----------------------------------------------------------------------------
(***************************************************************************)
(* A ledger that is right, and what keeps it so.                           *)
(***************************************************************************)
ArenaFields == {"epoch", "entries", "serial", "reported"}

\* A source has one destination: the patches never mix two.
IsSource(source, rows) == \E to : source = {to} /\ IsTo(to, rows)

Credited(entries, rows) == \A x \in DOMAIN entries : IsSource(entries[x], rows)

Ledger(s) ==
  /\ DOMAIN s.arena = ArenaFields
  /\ Books(s.current)
  /\ Credited(s.arena.entries, s.current.rows)
  /\ Credited(s.prov.generated, s.current.rows)
  /\ Credited(s.prov.orbs, s.current.rows)

Sound(s) == Good(s) /\ Ledger(s)

\* The arena is the combat's, and nothing was reported of the combat.
Fed(s) == s.arena.epoch = s.current.seq

Clean(s) ==
  /\ s.coverage.complete
  /\ ~s.current.rowsLost
  /\ Fed(s) => s.arena.reported = {}

\* A change that books no play, and takes no report back.
Keeps(s, t) ==
  /\ Sound(t)
  /\ Grown(s.current, t.current)
  /\ Clean(t) => Clean(s)
  /\ t.coverage.complete => s.coverage.complete
  /\ t.poisoned = s.poisoned
  /\ Fed(s) => Fed(t)

LEMMA CreditedStill ==
  ASSUME NEW c, NEW d, Grown(c, d)
  PROVE  /\ \A source : IsSource(source, c.rows) => IsSource(source, d.rows)
         /\ \A entries : Credited(entries, c.rows) => Credited(entries, d.rows)
<1>1. \A to : IsTo(to, c.rows) => IsTo(to, d.rows)
  BY DEF Grown, IsTo
<1>2. \A source : IsSource(source, c.rows) => IsSource(source, d.rows)
  BY <1>1 DEF IsSource
<1>3. QED
  BY <1>2 DEF Credited

LEMMA UnknownIsSource ==
  ASSUME NEW rows, NEW slot
  PROVE  IsSource({Nobody(slot)}, rows) /\ IsSource(UnknownSource, rows)
<1>1. \A other : Nobody(other).row = 0
  BY DEF Nobody
<1>2. \A other : IsTo(Nobody(other), rows)
  BY <1>1 DEF IsTo
<1>3. QED
  BY <1>2 DEF IsSource, UnknownSource

LEMMA EntriesCredited ==
  ASSUME NEW rows
  PROVE  /\ Credited(NoEntries, rows)
         /\ \A entries, x : Credited(entries, rows) => Credited(Forget(entries, x), rows)
         /\ \A entries, x, source :
              Credited(entries, rows) /\ IsSource(source, rows) => Credited(Learn(entries, x, source), rows)
BY DEF Credited, NoEntries, Forget, Learn

LEMMA KeepsSelf ==
  ASSUME NEW s, Sound(s)
  PROVE  Keeps(s, s)
BY GrownSelf DEF Keeps

LEMMA KeepsTwice ==
  ASSUME NEW s, NEW t, NEW u, Keeps(s, t), Keeps(t, u)
  PROVE  Keeps(s, u)
BY GrownTwice DEF Keeps

LEMMA KeepsSound ==
  ASSUME NEW s, NEW t, Keeps(s, t)
  PROVE  Sound(t) /\ Good(t)
BY DEF Keeps, Sound

LEMMA LedgerStep ==
  ASSUME NEW s, Sound(s), NEW t, Good(t), DOMAIN t.arena = ArenaFields, Books(t.current),
         Grown(s.current, t.current), Credited(t.arena.entries, s.current.rows),
         Credited(t.prov.generated, s.current.rows), Credited(t.prov.orbs, s.current.rows),
         t.coverage = s.coverage, t.poisoned = s.poisoned, t.arena.epoch = s.arena.epoch,
         t.arena.reported = {} => s.arena.reported = {}
  PROVE  Keeps(s, t)
<1>1. Sound(t)
  BY CreditedStill DEF Sound, Ledger
<1>2. t.current.seq = s.current.seq /\ (~t.current.rowsLost => ~s.current.rowsLost)
  BY DEF Grown
<1>3. QED
  BY <1>1, <1>2 DEF Keeps, Clean, Fed

LEMMA ReportKeeps ==
  ASSUME NEW s, Sound(s), NEW failure
  PROVE  LET t == Report(s, failure)
         IN  Keeps(s, t) /\ t.current = s.current /\ t.arena.entries = s.arena.entries
             /\ (Fed(s) => ~Clean(t))
<1> DEFINE t == Report(s, failure)
<1>1. /\ DOMAIN t.arena = ArenaFields /\ t.arena.entries = s.arena.entries
      /\ t.arena.epoch = s.arena.epoch /\ t.arena.reported = s.arena.reported \cup {failure}
      /\ t.current = s.current /\ t.prov = s.prov /\ t.coverage = s.coverage
      /\ t.poisoned = s.poisoned
  BY DEF Report, Sound, Good, Fields, Ledger, ArenaFields
<1>2. Good(t)
  BY ReportIsQuiet DEF Sound, Quiet, Alike
<1> HIDE DEF t
<1>3. Keeps(s, t)
  BY <1>1, <1>2, LedgerStep, GrownSelf DEF Sound, Ledger
<1>4. Fed(s) => ~Clean(t)
  BY <1>1 DEF Fed, Clean
<1>5. QED
  BY <1>1, <1>3, <1>4 DEF t

LEMMA RefuseKeeps ==
  ASSUME NEW s, Sound(s), NEW failure
  PROVE  LET call == Refuse(s, failure)
         IN  /\ Keeps(s, call.s) /\ call.s.current = s.current /\ call.s.arena.entries = s.arena.entries
             /\ Fed(s) => ~Clean(call.s)
             /\ call.r = Zero
BY ReportKeeps DEF Refuse

LEMMA FailedKeeps ==
  ASSUME NEW s, Sound(s), NEW reason
  PROVE  Keeps(s, Failed(s, reason)) /\ ~Clean(Failed(s, reason))
         /\ ~Failed(s, reason).coverage.complete
<1> DEFINE t == Failed(s, reason)
<1>1. /\ t.current = s.current /\ t.prov = s.prov /\ t.arena = s.arena /\ t.poisoned = s.poisoned
      /\ t.coverage.complete = FALSE
  BY DEF Failed, Sound, Good, Fields
<1>2. Good(t)
  BY FailedIsQuiet DEF Sound, Quiet, Alike
<1> HIDE DEF t
<1>3. Sound(t)
  BY <1>1, <1>2 DEF Sound, Ledger
<1>4. Keeps(s, t) /\ ~Clean(t)
  BY <1>1, <1>3, GrownSelf DEF Keeps, Clean, Fed
<1>5. QED
  BY <1>1, <1>4 DEF t

LEMMA SlotKeeps ==
  ASSUME NEW s, Sound(s), NEW slot
  PROVE  LET at == Slotted(s, slot)
         IN  /\ Keeps(s, at.s) /\ at.s.current = s.current /\ at.s.arena.entries = s.arena.entries
             /\ slot \in Slots => at.s = s /\ at.slot = slot
BY ReportKeeps, KeepsSelf DEF Slotted

LEMMA SourceEpochKeeps ==
  ASSUME NEW s, Sound(s), NEW seq
  PROVE  LET e == SourceEpoch(s, seq)
         IN  /\ Keeps(s, e.s) /\ e.s.current = s.current /\ DOMAIN e = {"s", "failure"}
             /\ e.failure = None => Fed(e.s) /\ s.current.seq = seq
             /\ e.failure = None /\ Fed(s) => e.s = s
<1> DEFINE arena == [NoArena EXCEPT !.epoch = seq]
           started == [s EXCEPT !.arena = arena]
           e == SourceEpoch(s, seq)
<1>1. Quiet(s, e.s) /\ DOMAIN e = {"s", "failure"} /\ (e.failure = None <=> Takes(s, seq))
  BY SourceEpochIs DEF Sound
<1>2. CASE e.failure # None
  <2>1. e.s = s \/ e.s = Report(s, "epoch")
    BY <1>1, <1>2 DEF Takes, SourceEpoch
  <2> HIDE DEF e
  <2>2. Keeps(s, e.s) /\ e.s.current = s.current
    BY <2>1, ReportKeeps, KeepsSelf
  <2>3. QED
    BY <1>1, <1>2, <2>2 DEF e
<1>3. CASE e.failure = None /\ s.arena.epoch = seq
  <2>1. e.s = s /\ s.current.seq = seq
    BY <1>1, <1>3 DEF Takes, SourceEpoch
  <2> HIDE DEF e
  <2>2. QED
    BY <1>1, <1>3, <2>1, KeepsSelf DEF e, Fed
<1>4. CASE e.failure = None /\ s.arena.epoch # seq
  <2>1. e.s = started /\ s.current.seq = seq
    BY <1>1, <1>4 DEF Takes, SourceEpoch
  <2>2. /\ started.current = s.current /\ started.prov = s.prov /\ started.coverage = s.coverage
        /\ started.poisoned = s.poisoned /\ started.arena = arena
    BY DEF Sound, Good, Fields
  <2>3. DOMAIN arena = ArenaFields /\ arena.epoch = seq /\ arena.entries = NoEntries
    BY DEF NoArena, ArenaFields
  <2> HIDE DEF e, started, arena
  <2>4. Good(started)
    BY <1>1, <2>1 DEF Quiet, Alike
  <2>5. Sound(started)
    BY <2>2, <2>3, <2>4, EntriesCredited DEF Sound, Ledger
  <2>6. Fed(started) /\ ~Fed(s)
    BY <1>4, <2>1, <2>2, <2>3 DEF Fed
  <2>7. Keeps(s, started)
    BY <2>2, <2>5, <2>6, GrownSelf DEF Keeps, Clean
  <2>8. QED
    BY <1>1, <1>4, <2>1, <2>2, <2>6, <2>7 DEF e
<1>5. QED
  BY <1>2, <1>3, <1>4

\* The calls of the combat that is active find its arena.
LEMMA EpochKeeps ==
  ASSUME NEW s, Sound(s), NEW seq
  PROVE  LET e == ProvenanceEpoch(s, seq)
         IN  /\ Keeps(s, e.s) /\ e.s.current = s.current
             /\ e.failure = None => Fed(e.s) /\ s.current.seq = seq
             /\ e.failure = None /\ Fed(s) => e.s.arena = s.arena
<1> DEFINE e == SourceEpoch(s, seq)
           p == ProvenanceEpoch(s, seq)
<1>1. /\ Keeps(s, e.s) /\ e.s.current = s.current /\ DOMAIN e = {"s", "failure"}
      /\ e.failure = None => Fed(e.s) /\ s.current.seq = seq
      /\ e.failure = None /\ Fed(s) => e.s = s
  BY SourceEpochKeeps
<1>2. p = InProvenance(e, seq)
  BY DEF ProvenanceEpoch
<1>3. Good(p.s)
  BY EpochIs DEF Sound, Alike
<1> HIDE DEF e, p
<1>4. CASE e.failure # None \/ e.s.prov.epoch = seq
  <2>1. p = e
    BY <1>2, <1>4 DEF InProvenance
  <2>2. QED
    BY <1>1, <2>1 DEF p
<1>5. CASE e.failure = None /\ e.s.prov.epoch # seq
  <2> DEFINE prov == [NoProvenance EXCEPT !.epoch = seq]
             u == [e EXCEPT !.s.prov = prov]
  <2>1. p = u
    BY <1>2, <1>5 DEF InProvenance
  <2>2. Good(e.s) /\ Sound(e.s)
    BY <1>1, KeepsSound
  <2>3. /\ u.failure = e.failure /\ u.s.current = e.s.current /\ u.s.arena = e.s.arena
        /\ u.s.coverage = e.s.coverage /\ u.s.poisoned = e.s.poisoned /\ u.s.prov = prov
    BY <1>1, <2>2 DEF Good, Fields
  <2>4. prov.generated = NoEntries /\ prov.orbs = NoEntries
    BY DEF NoProvenance
  <2> HIDE DEF u, prov
  <2>5. Keeps(e.s, p.s)
    BY <1>3, <2>1, <2>2, <2>3, <2>4, LedgerStep, GrownSelf, EntriesCredited DEF Sound, Ledger
  <2>6. Keeps(s, p.s)
    BY <1>1, <2>5, KeepsTwice
  <2>7. QED
    BY <1>1, <2>1, <2>3, <2>5, <2>6 DEF p, Keeps
<1>6. QED
  BY <1>4, <1>5

----------------------------------------------------------------------------
(***************************************************************************)
(* Sources keep it right.                                                  *)
(***************************************************************************)
LEMMA TokenKeeps ==
  ASSUME NEW s, Sound(s), NEW wire, NEW kind
  PROVE  Keeps(s, ProvenanceToken(s, wire, kind).s)
BY EpochKeeps, KeepsSelf DEF ProvenanceToken

\* A handle that is live is what it was made for.
LEMMA SnapshotKeeps ==
  ASSUME NEW s, Sound(s), NEW transfer
  PROVE  LET got == SourceSnapshot(s, transfer)
         IN  /\ Keeps(s, got.s) /\ got.s.current = s.current /\ IsSource(got.source, s.current.rows)
             /\ Takes(s, transfer.seq) /\ Fed(s) /\ transfer.seq # 0 /\ transfer.kind = "source"
                  /\ transfer.payload \in DOMAIN s.arena.entries =>
                  got.s = s /\ got.failure = None
                  /\ got.source = s.arena.entries[transfer.payload]
<1> DEFINE got == SourceSnapshot(s, transfer)
           e == IF Misread(transfer, "source") # None
                THEN [s |-> s, failure |-> Misread(transfer, "source")]
                ELSE SourceEpoch(s, transfer.seq)
           h == Held(e, transfer)
<1>1. Keeps(s, e.s) /\ e.s.current = s.current
  BY SourceEpochKeeps, KeepsSelf
<1>2. got = IF transfer = Zero THEN [s |-> s, failure |-> None, source |-> UnknownSource]
            ELSE Snapshotted(h, transfer)
  BY DEF SourceSnapshot, HandleToken
<1>3. Takes(s, transfer.seq) /\ Fed(s) /\ transfer.seq # 0 /\ transfer.kind = "source" =>
        e.failure = None /\ e.s = s /\ transfer # Zero
  <2>1. Zero.seq = 0
    BY DEF Zero, Number, Wire
  <2>2. SourceEpoch(s, transfer.seq).failure = None <=> Takes(s, transfer.seq)
    BY SourceEpochIs DEF Sound
  <2>3. transfer.seq # 0 /\ transfer.kind = "source" => Misread(transfer, "source") = None
    BY DEF Misread, None
  <2>4. QED
    BY <2>1, <2>2, <2>3, SourceEpochKeeps
<1> HIDE DEF e
<1>4. /\ h.failure = IF e.failure = None /\ transfer.payload \notin DOMAIN e.s.arena.entries
                     THEN "source-handle" ELSE e.failure
      /\ h.s = IF h.failure = None THEN e.s ELSE Report(e.s, h.failure)
  BY DEF Held
<1> HIDE DEF h
<1>5. Keeps(e.s, h.s) /\ h.s.current = s.current
  BY <1>1, <1>4, ReportKeeps, KeepsSelf, KeepsSound
<1>6. h.failure = None => e.failure = None /\ h.s = e.s /\ transfer.payload \in DOMAIN h.s.arena.entries
  BY <1>4 DEF None
<1>7. Keeps(s, h.s)
  BY <1>1, <1>5, KeepsTwice
<1> HIDE DEF got
<1>8. CASE transfer = Zero
  <2>1. got.s = s /\ got.failure = None /\ got.source = UnknownSource
    BY <1>2, <1>8
  <2>2. ~(Takes(s, transfer.seq) /\ Fed(s) /\ transfer.seq # 0 /\ transfer.kind = "source")
    BY <1>3, <1>8
  <2>3. Keeps(s, s) /\ IsSource(UnknownSource, s.current.rows)
    BY KeepsSelf, UnknownIsSource
  <2>4. QED
    BY <2>1, <2>2, <2>3 DEF got
<1>9. CASE transfer # Zero
  <2>1. /\ got.s = h.s /\ got.failure = h.failure
        /\ got.source = IF h.failure # None THEN UnknownSource ELSE h.s.arena.entries[transfer.payload]
    BY <1>2, <1>9 DEF Snapshotted
  <2>2. IsSource(got.source, s.current.rows)
    <3>1. CASE h.failure = None
      <4>1. Credited(h.s.arena.entries, s.current.rows)
        BY <1>5, <1>7, KeepsSound DEF Sound, Ledger
      <4>2. QED
        BY <1>6, <2>1, <3>1, <4>1 DEF Credited
    <3>2. CASE h.failure # None
      BY <2>1, <3>2, UnknownIsSource
    <3>3. QED
      BY <3>1, <3>2
  <2>3. ASSUME Takes(s, transfer.seq), Fed(s), transfer.seq # 0, transfer.kind = "source",
               transfer.payload \in DOMAIN s.arena.entries
        PROVE  got.s = s /\ got.failure = None /\ got.source = s.arena.entries[transfer.payload]
    <3>1. e.failure = None /\ e.s = s
      BY <1>3, <2>3
    <3>2. h.failure = None /\ h.s = s
      BY <1>4, <2>3, <3>1
    <3>3. QED
      BY <2>1, <3>2
  <2>4. QED
    BY <1>5, <1>7, <2>1, <2>2, <2>3 DEF got
<1>10. QED
  BY <1>8, <1>9

\* A source that is exported is to be had by its handle.
LEMMA ExportKeeps ==
  ASSUME NEW s, Sound(s), NEW source, IsSource(source, s.current.rows)
  PROVE  LET call == Export(s, source)
             handle == call.r
         IN  /\ Keeps(s, call.s) /\ call.s.current = s.current /\ call.s.prov = s.prov
             /\ Fed(s) /\ Clean(call.s) =>
                  /\ handle.seq = s.current.seq /\ handle.kind = "source"
                  /\ handle.payload \in DOMAIN call.s.arena.entries
                  /\ call.s.arena.entries[handle.payload] = source
<1> DEFINE live == {m \in DOMAIN s.arena.entries : s.arena.entries[m] = source}
           next == s.arena.serial + 1
           more == [s EXCEPT !.arena.entries = Learn(@, next, source), !.arena.serial = next]
           call == Export(s, source)
<1>1. call = IF live # {} THEN Accept(s, Wire(s.arena.epoch, "source", CHOOSE m \in live : TRUE))
             ELSE IF s.arena.serial = MaxPayload THEN Refuse(s, "capacity")
             ELSE Accept(more, Wire(s.arena.epoch, "source", next))
  BY DEF Export
<1>2. /\ \A t, r : Accept(t, r).s = t /\ Accept(t, r).r = r
      /\ \A seq, kind, n : /\ Wire(seq, kind, n).seq = seq /\ Wire(seq, kind, n).kind = kind
                           /\ Wire(seq, kind, n).payload = n
  BY DEF Accept, Wire
<1>3. Good(call.s)
  BY ExportIsQuiet DEF Sound, Quiet, Alike
<1>4. /\ more.current = s.current /\ more.prov = s.prov /\ more.coverage = s.coverage
      /\ more.poisoned = s.poisoned /\ DOMAIN more.arena = ArenaFields
      /\ more.arena.entries = Learn(s.arena.entries, next, source)
      /\ more.arena.epoch = s.arena.epoch /\ more.arena.reported = s.arena.reported
  BY DEF Sound, Good, Fields, Ledger, ArenaFields
<1>5. \A m : m \in live <=> m \in DOMAIN s.arena.entries /\ s.arena.entries[m] = source
  OBVIOUS
<1> HIDE DEF live, next, more, call
<1>6. CASE live # {}
  <2>1. PICK m \in live : m = CHOOSE k \in live : TRUE
    BY <1>6
  <2>2. call.s = s /\ call.r = Wire(s.arena.epoch, "source", m)
    BY <1>1, <1>2, <1>6, <2>1
  <2>3. QED
    BY <1>2, <1>5, <2>1, <2>2, KeepsSelf DEF call, Fed
<1>7. CASE live = {} /\ s.arena.serial = MaxPayload
  <2>1. call = Refuse(s, "capacity")
    BY <1>1, <1>7
  <2>2. Refuse(s, "capacity").s.prov = s.prov
    BY DEF Refuse, Report, Sound, Good, Fields
  <2>3. QED
    BY <2>1, <2>2, RefuseKeeps DEF call
<1>8. CASE live = {} /\ s.arena.serial # MaxPayload
  <2>1. call.s = more /\ call.r = Wire(s.arena.epoch, "source", next)
    BY <1>1, <1>2, <1>8
  <2>2. Keeps(s, more)
    <3>1. Credited(more.arena.entries, s.current.rows)
      BY <1>4, EntriesCredited DEF Sound, Ledger
    <3>2. Grown(s.current, more.current)
      BY <1>4, GrownSelf
    <3>3. QED
      BY <1>3, <1>4, <2>1, <3>1, <3>2, LedgerStep DEF Sound, Ledger
  <2>3. next \in DOMAIN more.arena.entries /\ more.arena.entries[next] = source
    BY <1>4 DEF Learn
  <2>4. QED
    BY <1>2, <1>4, <2>1, <2>2, <2>3 DEF call, Fed
<1>9. QED
  BY <1>6, <1>7, <1>8

\* A named source is the row of its name, or a row was lost.
LEMMA NamingKeeps ==
  ASSUME NEW s, Sound(s), NEW slot, NEW id, NEW kind, kind # "unknown"
  PROVE  LET named == NamedSource(s, slot, id, kind)
         IN  /\ Keeps(s, named.s) /\ IsSource(named.source, named.s.current.rows)
             /\ named.s.arena = s.arena
             /\ Clean(named.s) =>
                  \E i \in DOMAIN named.s.current.rows :
                     /\ named.source = {Row(i)}
                     /\ Key(named.s.current.rows[i]) = <<slot, id, kind>>
<1> DEFINE named == NamedSource(s, slot, id, kind)
           f == RowFor(s.current, slot, id, kind)
<1>1. /\ Sought(s.current, f)
      /\ ~f.c.rowsLost => f.row # 0 /\ Key(f.c.rows[f.row]) = <<slot, id, kind>>
  BY RowForIs DEF Sound, Ledger, Books
<1>2. /\ named.s = [s EXCEPT !.current = f.c]
      /\ named.source = {IF f.row # 0 /\ f.c.rows[f.row].kind # "unknown" THEN Row(f.row) ELSE Nobody(slot)}
  BY DEF NamedSource, Named
<1>3. Good(named.s)
  BY NamingIsQuiet DEF Sound, Quiet, Alike
<1> HIDE DEF named, f
<1>4. /\ named.s.current = f.c /\ named.s.arena = s.arena /\ named.s.prov = s.prov
      /\ named.s.coverage = s.coverage /\ named.s.poisoned = s.poisoned
  BY <1>2 DEF Sound, Good, Fields
<1>5. Books(f.c)
  BY <1>1, SoughtAdds DEF Sound, Ledger, Books
<1>6. Keeps(s, named.s)
  BY <1>1, <1>3, <1>4, <1>5, LedgerStep DEF Sound, Ledger, Sought
<1>7. IsSource(named.source, f.c.rows)
  <2>1. CASE f.row # 0 /\ f.c.rows[f.row].kind # "unknown"
    <3>1. Row(f.row).row = f.row /\ f.row \in DOMAIN f.c.rows
      BY <1>1, <2>1 DEF Row, Sought
    <3>2. QED
      BY <1>2, <2>1, <3>1 DEF IsSource, IsTo
  <2>2. CASE ~(f.row # 0 /\ f.c.rows[f.row].kind # "unknown")
    BY <1>2, <2>2, UnknownIsSource
  <2>3. QED
    BY <2>1, <2>2
<1>8. ASSUME Clean(named.s)
      PROVE  \E i \in DOMAIN named.s.current.rows :
                /\ named.source = {Row(i)}
                /\ Key(named.s.current.rows[i]) = <<slot, id, kind>>
  <2>1. f.row # 0 /\ Key(f.c.rows[f.row]) = <<slot, id, kind>> /\ f.row \in DOMAIN f.c.rows
    BY <1>1, <1>4, <1>8 DEF Clean, Sought
  <2>2. f.c.rows[f.row].kind = kind
    BY <2>1 DEF Key
  <2>3. QED
    BY <1>2, <1>4, <2>1, <2>2
<1>9. QED
  BY <1>4, <1>6, <1>7, <1>8 DEF named

AllGenerations == {"unavailable", "ordinary", "recorded", "unclassified"}

\* The source of an ordinary card is the one that is given, or that of its name.
LEMMA CardSourceKeeps ==
  ASSUME NEW s, Sound(s), NEW instance, NEW id, NEW slot, NEW generation \in AllGenerations,
         NEW given, given = {} \/ IsSource(given, s.current.rows)
  PROVE  LET got == CardSource(s, instance, id, slot, generation, given)
         IN  /\ Keeps(s, got.s) /\ IsSource(got.source, got.s.current.rows)
             /\ generation = "ordinary" /\ instance # 0 /\ id # NoId /\ instance \notin Known(s) =>
                  got = IF given = {} THEN NamedSource(s, slot, id, "card")
                        ELSE [s |-> s, source |-> given]
<1> DEFINE got == CardSource(s, instance, id, slot, generation, given)
           forgets == [s EXCEPT !.prov.generated = Forget(@, instance)]
           refused == [s |-> Report(s, "packet"), source |-> UnknownSource]
           unknown == [s |-> s, source |-> UnknownSource]
           generated == instance \in Known(s)
           fine == instance # 0 /\ id # NoId /\ ~generated
           Fits(x) == Keeps(s, x.s) /\ IsSource(x.source, x.s.current.rows)
<1>1. Fits(unknown) /\ Fits(refused)
  <2>1. Keeps(s, Report(s, "packet"))
    BY ReportKeeps
  <2>2. QED
    BY <2>1, KeepsSelf, UnknownIsSource
<1>2. given # {} => Fits([s |-> s, source |-> given]) /\ Cardinality(given) = 1
  <2>1. ASSUME given # {} PROVE \E to : given = {to}
    BY <2>1 DEF IsSource
  <2>2. given # {} => Cardinality(given) = 1
    BY <2>1, FS_Singleton
  <2>3. QED
    BY <2>2, KeepsSelf
<1>3. Fits(NamedSource(s, slot, id, "card"))
  BY NamingKeeps
<1>4. Good(got.s)
  BY CardSourceIs DEF Sound, AllGenerations
<1>5. CASE generation = "unavailable"
  <2>1. got = [s |-> forgets, source |-> UnknownSource]
    BY <1>5 DEF CardSource
  <2>2. /\ forgets.current = s.current /\ forgets.arena = s.arena /\ forgets.coverage = s.coverage
        /\ forgets.poisoned = s.poisoned /\ forgets.prov.orbs = s.prov.orbs
        /\ forgets.prov.generated = Forget(s.prov.generated, instance)
    BY DEF Sound, Good, Fields, ProvFields
  <2> HIDE DEF forgets, got
  <2>3. got.s = forgets /\ got.source = UnknownSource
    BY <2>1
  <2>4. Keeps(s, forgets)
    <3>1. Credited(forgets.prov.generated, s.current.rows)
      BY <2>2, EntriesCredited DEF Sound, Ledger
    <3>2. QED
      BY <1>4, <2>2, <2>3, <3>1, LedgerStep, GrownSelf DEF Sound, Ledger
  <2>5. QED
    BY <1>5, <2>3, <2>4, UnknownIsSource DEF got
<1>6. CASE generation = "ordinary"
  <2>1. got = IF fine THEN IF given = {} THEN NamedSource(s, slot, id, "card")
                           ELSE IF Cardinality(given) = 1 THEN [s |-> s, source |-> given]
                           ELSE refused
              ELSE refused
    BY <1>6 DEF CardSource, Known
  <2> HIDE DEF got, refused, Fits
  <2>2. Fits(got)
    BY <1>1, <1>2, <1>3, <2>1
  <2>3. fine => got = IF given = {} THEN NamedSource(s, slot, id, "card") ELSE [s |-> s, source |-> given]
    BY <1>2, <2>1
  <2>4. QED
    BY <2>2, <2>3 DEF got, Fits
<1>7. CASE generation = "recorded"
  <2>1. got = IF generated THEN [s |-> s, source |-> IF given = {} THEN s.prov.generated[instance] ELSE given]
              ELSE unknown
    BY <1>7 DEF CardSource, Known
  <2>2. generated => Fits([s |-> s, source |-> s.prov.generated[instance]])
    BY KeepsSelf DEF Sound, Ledger, Credited, Known
  <2> HIDE DEF got, unknown, Fits
  <2>3. Fits(got)
    BY <1>1, <1>2, <2>1, <2>2
  <2>4. QED
    BY <1>7, <2>3 DEF got, Fits
<1>8. CASE generation = "unclassified"
  <2>1. got = unknown
    BY <1>8 DEF CardSource
  <2> HIDE DEF got, unknown, Fits
  <2>2. QED
    BY <1>1, <1>8, <2>1 DEF got, Fits
<1>9. QED
  BY <1>5, <1>6, <1>7, <1>8 DEF AllGenerations

LEMMA CaptureKeeps ==
  ASSUME NEW s, Sound(s), NEW seq, NEW kind \in {"card", "orb"}, NEW instance, NEW id, NEW player,
         NEW generation \in AllGenerations
  PROVE  Keeps(s, SourceCapture(s, seq, kind, instance, id, player, generation).s)
<1> DEFINE e == ProvenanceEpoch(s, seq)
           at == Slotted(e.s, player)
           found == Captured(at, kind, instance, id, generation)
<1>1. Keeps(s, e.s)
  BY EpochKeeps
<1>2. Keeps(e.s, at.s)
  BY <1>1, SlotKeeps, KeepsSound
<1>3. Keeps(s, at.s)
  BY <1>1, <1>2, KeepsTwice
<1>4. SourceCapture(s, seq, kind, instance, id, player, generation)
        = IF e.failure # None THEN Accept(e.s, Zero) ELSE Export(found.s, found.source)
  BY DEF SourceCapture, CaptureIn
<1> HIDE DEF e, at
<1>5. Keeps(at.s, found.s) /\ IsSource(found.source, found.s.current.rows)
  <2>1. Sound(at.s)
    BY <1>3, KeepsSound
  <2>2. CASE kind = "card"
    <3>1. found = CardSource(at.s, instance, id, at.slot, generation, {})
      BY <2>2 DEF Captured
    <3> DEFINE got == CardSource(at.s, instance, id, at.slot, generation, {})
    <3>2. Keeps(at.s, got.s) /\ IsSource(got.source, got.s.current.rows)
      BY <2>1, CardSourceKeeps
    <3> HIDE DEF found, got
    <3>3. QED
      BY <3>1, <3>2 DEF got
  <2>3. CASE kind = "orb" /\ instance \in DOMAIN at.s.prov.orbs
    <3>1. found = [s |-> at.s, source |-> at.s.prov.orbs[instance]]
      BY <2>3 DEF Captured
    <3>2. found.s = at.s /\ found.source = at.s.prov.orbs[instance]
      BY <3>1
    <3> HIDE DEF found
    <3>3. Keeps(at.s, at.s) /\ IsSource(at.s.prov.orbs[instance], at.s.current.rows)
      BY <2>1, <2>3, KeepsSelf DEF Sound, Ledger, Credited
    <3>4. QED
      BY <3>2, <3>3
  <2>4. CASE kind = "orb" /\ instance \notin DOMAIN at.s.prov.orbs
    <3>1. found = [s |-> at.s, source |-> UnknownSource]
      BY <2>4 DEF Captured
    <3>2. found.s = at.s /\ found.source = UnknownSource
      BY <3>1
    <3> HIDE DEF found
    <3>3. QED
      BY <2>1, <3>2, KeepsSelf, UnknownIsSource
  <2>5. QED
    BY <2>2, <2>3, <2>4
<1> HIDE DEF found
<1>6. Keeps(s, found.s)
  BY <1>3, <1>5, KeepsTwice
<1>7. Keeps(found.s, Export(found.s, found.source).s)
  BY <1>5, <1>6, ExportKeeps, KeepsSound
<1>8. Keeps(s, Export(found.s, found.source).s) /\ Accept(e.s, Zero).s = e.s
  BY <1>6, <1>7, KeepsTwice DEF Accept
<1>9. QED
  BY <1>1, <1>4, <1>8

\* Of an ordinary card a handle is had for the row of its name, or something is reported.
Handle(s, seq, wire, key) ==
  /\ wire.seq = seq /\ wire.kind = "source"
  /\ wire.payload \in DOMAIN s.arena.entries
  /\ \E i \in DOMAIN s.current.rows :
        s.arena.entries[wire.payload] = {Row(i)} /\ Key(s.current.rows[i]) = key

LEMMA CardHandle ==
  ASSUME NEW s, Sound(s), NEW seq, Takes(s, seq), NEW instance, instance # 0, NEW id, id # NoId,
         NEW player \in Slots, instance \notin Known(s),
         Clean(SourceCapture(s, seq, "card", instance, id, player, "ordinary").s)
  PROVE  LET call == SourceCapture(s, seq, "card", instance, id, player, "ordinary")
         IN  Fed(call.s) /\ Handle(call.s, seq, call.r, <<player, id, "card">>)
<1> DEFINE e == ProvenanceEpoch(s, seq)
           at == Slotted(e.s, player)
           found == Captured(at, "card", instance, id, "ordinary")
           call == SourceCapture(s, seq, "card", instance, id, player, "ordinary")
<1>1. /\ Keeps(s, e.s) /\ e.failure = None /\ Fed(e.s) /\ e.s.current = s.current
      /\ s.current.seq = seq /\ Known(e.s) = Known(s)
  BY EpochKeeps, EpochIs DEF Sound, Alike
<1>2. call = IF e.failure # None THEN Accept(e.s, Zero) ELSE Export(found.s, found.source)
  BY DEF SourceCapture, CaptureIn
<1>3. found = CardSource(at.s, instance, id, at.slot, "ordinary", {})
  BY DEF Captured
<1> HIDE DEF e, found, call
<1>4. at.s = e.s /\ at.slot = player /\ Sound(e.s)
  BY <1>1, SlotKeeps, KeepsSound
<1>5. found = NamedSource(e.s, player, id, "card")
  BY <1>1, <1>3, <1>4, CardSourceKeeps DEF AllGenerations
<1>6. /\ Keeps(e.s, found.s) /\ IsSource(found.source, found.s.current.rows)
      /\ Clean(found.s) =>
           \E i \in DOMAIN found.s.current.rows :
              /\ found.source = {Row(i)}
              /\ Key(found.s.current.rows[i]) = <<player, id, "card">>
  BY <1>4, <1>5, NamingKeeps
<1>7. call = Export(found.s, found.source) /\ Sound(found.s) /\ Fed(found.s)
  BY <1>1, <1>2, <1>6, KeepsSound DEF Keeps
<1>8. /\ Keeps(found.s, call.s) /\ call.s.current = found.s.current
      /\ Fed(found.s) /\ Clean(call.s) =>
           /\ call.r.seq = found.s.current.seq /\ call.r.kind = "source"
           /\ call.r.payload \in DOMAIN call.s.arena.entries
           /\ call.s.arena.entries[call.r.payload] = found.source
  BY <1>6, <1>7, ExportKeeps
<1>9. Clean(call.s)
  BY DEF call
<1>10. Clean(found.s) /\ Fed(call.s) /\ found.s.current.seq = seq
  BY <1>1, <1>6, <1>7, <1>8, <1>9 DEF Keeps, Grown
<1>11. Handle(call.s, seq, call.r, <<player, id, "card">>)
  BY <1>6, <1>7, <1>8, <1>9, <1>10 DEF Handle
<1>12. QED
  BY <1>10, <1>11 DEF call

----------------------------------------------------------------------------
(***************************************************************************)
(* Plays that are booked.                                                  *)
(***************************************************************************)
Apart == {"recorded", "unavailable"}

\* A play that is booked: apart, or on a row.
PlayedAs(c, d, generation, to) ==
  /\ Books(d) /\ d.seq = c.seq
  /\ DOMAIN c.rows \subseteq DOMAIN d.rows
  /\ ~d.rowsLost => ~c.rowsLost
  /\ generation \in Apart => d.rows = c.rows /\ d.generatedPlays = c.generatedPlays + 1
  /\ generation \notin Apart /\ to.row # 0 =>
       d.rows = Bumped(c, to.row).rows /\ d.generatedPlays = c.generatedPlays

Staging(s, source, generation) ==
  IF generation \in Apart THEN Count(Count(Stage(s), "plays"), "generatedPlays")
  ELSE RowPlay(Count(Stage(s), "plays"), CHOOSE to \in source : TRUE)

LEMMA StagedPlay ==
  ASSUME NEW s, Sound(s), NEW to, IsTo(to, s.current.rows), NEW generation,
         Staging(s, {to}, generation).failure = None
  PROVE  PlayedAs(s.current, Staging(s, {to}, generation).c, generation, to)
<1> DEFINE c == s.current
           one == Count(Stage(s), "plays")
           stage == Staging(s, {to}, generation)
           d == [c EXCEPT !["plays"] = @ + 1]
<1>1. IsStage(Stage(s)) /\ Stage(s).c = c /\ Books(c)
  BY DEF Stage, IsStage, Sound, Ledger
<1>2. IsStage(one) /\ Table(one.c) /\ (one.failure = None => one.c = d)
  BY <1>1, CountIs DEF Books
<1>3. /\ DOMAIN d = CombatFields /\ d.rows = c.rows /\ d.plays = c.plays + 1 /\ d.seq = c.seq
      /\ d.rowsLost = c.rowsLost /\ d.generatedPlays = c.generatedPlays /\ d.triggers = c.triggers
  BY <1>1 DEF Books, Table, CombatFields
<1>4. /\ RowPlays(c.rows) \in Nat /\ c.plays \in Nat /\ c.triggers \in Nat /\ c.generatedPlays \in Nat
      /\ c.plays + c.triggers = RowPlays(c.rows) + c.generatedPlays
  BY <1>1, RowPlaysNat DEF Books, Table, Adds
<1>5. (CHOOSE other \in {to} : TRUE) = to
  OBVIOUS
<1> HIDE DEF one, d
<1>6. CASE generation \in Apart
  <2>1. stage = Count(one, "generatedPlays")
    BY <1>6 DEF Staging, one
  <2> HIDE DEF stage
  <2>2. /\ one.failure = None /\ Table(stage.c)
        /\ stage.c = [one.c EXCEPT !["generatedPlays"] = @ + 1]
    BY <1>2, <2>1, CountIs DEF stage
  <2>3. /\ stage.c.rows = c.rows /\ stage.c.plays = c.plays + 1 /\ stage.c.seq = c.seq
        /\ stage.c.rowsLost = c.rowsLost /\ stage.c.generatedPlays = c.generatedPlays + 1
        /\ stage.c.triggers = c.triggers
    BY <1>2, <1>3, <2>2 DEF CombatFields
  <2> HIDE DEF c
  <2>4. Adds(stage.c)
    BY <1>4, <2>3 DEF Adds
  <2>5. QED
    BY <1>6, <2>2, <2>3, <2>4 DEF PlayedAs, Books, stage, c
<1>7. CASE generation \notin Apart
  <2>1. stage = RowPlay(one, to)
    BY <1>5, <1>7 DEF Staging, one
  <2> DEFINE found == StageRow(one.c, to)
  <2> HIDE DEF stage
  <2>2. one.failure = None
    <3>1. IsTo(to, one.c.rows) \/ one.failure # None
      BY <1>2, <1>3
    <3>2. one.failure # None => one.c = c
      BY <1>1 DEF Count, Fails, one, Stage, None
    <3>3. IsTo(to, one.c.rows)
      BY <3>1, <3>2
    <3>4. QED
      BY <1>2, <2>1, <3>3, RowPlayIs DEF stage
  <2>3. one.c = d /\ Table(d) /\ IsTo(to, d.rows)
    BY <1>2, <1>3, <2>2
  <2>4. found.row \in DOMAIN found.c.rows /\ stage.c = Bumped(found.c, found.row)
    BY <1>2, <2>1, <2>3, RowPlayIs DEF stage
  <2>5. /\ Sought(d, found)
        /\ to.row # 0 => found.c = d /\ found.row = to.row
    BY <2>3, StageRowIs
  <2> HIDE DEF found
  <2> DEFINE b == found.c
  <2>6. /\ Table(b) /\ RowPlays(b.rows) = RowPlays(c.rows) /\ b.plays = c.plays + 1
        /\ b.generatedPlays = c.generatedPlays /\ b.triggers = c.triggers /\ b.seq = c.seq
        /\ (~b.rowsLost => ~c.rowsLost) /\ DOMAIN c.rows \subseteq DOMAIN b.rows
    BY <1>3, <2>5 DEF Sought, Grown
  <2>7. /\ Table(stage.c) /\ RowPlays(stage.c.rows) = RowPlays(b.rows) + 1
        /\ stage.c.plays = b.plays /\ stage.c.generatedPlays = b.generatedPlays
        /\ stage.c.triggers = b.triggers /\ stage.c.seq = b.seq /\ stage.c.rowsLost = b.rowsLost
        /\ DOMAIN stage.c.rows = DOMAIN b.rows
    BY <2>4, <2>6, BumpedIs
  <2>8. to.row # 0 => stage.c.rows = Bumped(c, to.row).rows
    <3>1. to.row # 0 => stage.c = Bumped(d, to.row)
      BY <2>4, <2>5
    <3>2. Bumped(d, to.row).rows = Bumped(c, to.row).rows
      BY <1>1, <1>3 DEF Bumped, Books, Table, CombatFields
    <3>3. QED
      BY <3>1, <3>2
  <2> HIDE DEF b, c
  <2>9. Adds(stage.c)
    BY <1>4, <2>6, <2>7 DEF Adds
  <2>10. QED
    BY <1>7, <2>6, <2>7, <2>8, <2>9 DEF PlayedAs, Books, stage, c
<1>8. QED
  BY <1>6, <1>7

\* What opening a play leaves alone.
LEMMA OpenLeaves ==
  ASSUME NEW s, DOMAIN s = Fields, DOMAIN s.arena = ArenaFields, DOMAIN s.prov = ProvFields,
         NEW play, NEW source
  PROVE  LET t == Open(s, play, source).s
         IN  /\ DOMAIN t.arena = ArenaFields /\ t.current = s.current /\ t.coverage = s.coverage
             /\ t.poisoned = s.poisoned /\ t.arena.epoch = s.arena.epoch
             /\ t.arena.entries = s.arena.entries
             /\ t.arena.reported = {} => s.arena.reported = {}
             /\ t.prov.generated = s.prov.generated /\ t.prov.orbs = s.prov.orbs
<1> DEFINE serial == s.prov.serial + 1
           new == [serial |-> serial, execution |-> play.execution, slot |-> play.slot,
                   source |-> source, orbUsed |-> FALSE]
           more == [s EXCEPT !.prov.serial = serial, !.prov.plays = @ \cup {new}]
           t == Open(s, play, source).s
<1>1. t = more \/ t = Report(s, "capacity")
  BY DEF Open, Accept, Refuse
<1>2. CASE t = more
  <2>1. /\ more.current = s.current /\ more.coverage = s.coverage /\ more.poisoned = s.poisoned
        /\ more.arena = s.arena /\ more.prov.generated = s.prov.generated
        /\ more.prov.orbs = s.prov.orbs
    BY DEF Fields, ProvFields
  <2> HIDE DEF t, more
  <2>2. QED
    BY <1>2, <2>1 DEF t
<1>3. CASE t = Report(s, "capacity")
  <2> DEFINE u == Report(s, "capacity")
  <2>1. /\ u.current = s.current /\ u.coverage = s.coverage /\ u.poisoned = s.poisoned
        /\ u.prov = s.prov /\ DOMAIN u.arena = ArenaFields /\ u.arena.epoch = s.arena.epoch
        /\ u.arena.entries = s.arena.entries /\ u.arena.reported = s.arena.reported \cup {"capacity"}
    BY DEF Fields, ArenaFields, Report
  <2> HIDE DEF t, u
  <2>2. t = u
    BY <1>3 DEF u
  <2>3. QED
    BY <2>1, <2>2 DEF t
<1>4. QED
  BY <1>1, <1>2, <1>3

\* A call that may have booked a play.
Advances(s, t) ==
  /\ Sound(t)
  /\ Clean(t) => Clean(s)
  /\ t.coverage.complete => s.coverage.complete
  /\ t.poisoned = s.poisoned
  /\ t.current.seq = s.current.seq
  /\ Fed(s) => Fed(t)

LEMMA KeepsAdvances ==
  ASSUME NEW s, NEW t, Keeps(s, t)
  PROVE  Advances(s, t)
BY DEF Keeps, Advances, Grown

LEMMA AdvancesTwice ==
  ASSUME NEW s, NEW t, NEW u, Advances(s, t), Advances(t, u)
  PROVE  Advances(s, u)
BY DEF Advances

\* The booking of a play, from the source it is found for.
LEMMA StartFromIs ==
  ASSUME NEW s, Sound(s), Fed(s), NEW to, IsTo(to, s.current.rows), NEW play,
         Good(StartFrom([s |-> s, source |-> {to}], play).s)
  PROVE  LET t == StartFrom([s |-> s, source |-> {to}], play).s
         IN  Advances(s, t) /\ (Clean(t) => PlayedAs(s.current, t.current, play.generation, to))
<1> DEFINE found == [s |-> s, source |-> {to}]
           stage == Staging(s, {to}, play.generation)
           died == SlotIndex(s.died, play.slot)
           booked == [s EXCEPT !.current = stage.c, !.died = died]
           t == StartFrom(found, play).s
<1>1. StartFrom(found, play) = StartWith(found, stage, play)
  BY DEF StartFrom, Staging, Apart
<1>2. StartWith(found, stage, play)
        = IF stage.failure # None THEN Refuse(s, stage.failure) ELSE Open(booked, play, {to})
  BY DEF StartWith
<1> HIDE DEF found, stage, died
<1>3. CASE stage.failure # None
  <2>1. t = Refuse(s, stage.failure).s
    BY <1>1, <1>2, <1>3
  <2> HIDE DEF t
  <2>2. Keeps(s, t) /\ ~Clean(t)
    BY <2>1, RefuseKeeps
  <2>3. QED
    BY <2>2, KeepsAdvances DEF t, found
<1>4. CASE stage.failure = None
  <2>1. PlayedAs(s.current, stage.c, play.generation, to)
    BY <1>4, StagedPlay DEF stage
  <2>2. t = Open(booked, play, {to}).s
    BY <1>1, <1>2, <1>4
  <2>3. /\ DOMAIN booked = Fields /\ booked.arena = s.arena /\ booked.prov = s.prov
        /\ booked.current = stage.c /\ booked.coverage = s.coverage
        /\ booked.poisoned = s.poisoned
    BY DEF Sound, Good, Fields
  <2> HIDE DEF t, booked
  <2>4. /\ DOMAIN t.arena = ArenaFields /\ t.current = stage.c /\ t.coverage = s.coverage
        /\ t.poisoned = s.poisoned /\ t.arena.epoch = s.arena.epoch
        /\ t.arena.entries = s.arena.entries
        /\ t.arena.reported = {} => s.arena.reported = {}
        /\ t.prov.generated = s.prov.generated /\ t.prov.orbs = s.prov.orbs
    <3>1. DOMAIN booked.arena = ArenaFields /\ DOMAIN booked.prov = ProvFields
      BY <2>3 DEF Sound, Good, Ledger
    <3> DEFINE u == Open(booked, play, {to}).s
    <3>2. /\ DOMAIN u.arena = ArenaFields /\ u.current = booked.current
          /\ u.coverage = booked.coverage /\ u.poisoned = booked.poisoned
          /\ u.arena.epoch = booked.arena.epoch /\ u.arena.entries = booked.arena.entries
          /\ u.arena.reported = {} => booked.arena.reported = {}
          /\ u.prov.generated = booked.prov.generated /\ u.prov.orbs = booked.prov.orbs
      BY <2>3, <3>1, OpenLeaves
    <3> HIDE DEF u
    <3>3. t = u
      BY <2>2 DEF u
    <3>4. QED
      BY <2>3, <3>2, <3>3
  <2>5. \A entries : Credited(entries, s.current.rows) => Credited(entries, t.current.rows)
    BY <2>1, <2>4 DEF PlayedAs, Credited, IsSource, IsTo
  <2>6. Good(t)
    BY DEF t, found
  <2>7. Sound(t)
    BY <2>1, <2>4, <2>5, <2>6 DEF Sound, Ledger, PlayedAs
  <2>8. Clean(t) => Clean(s)
    BY <2>1, <2>4 DEF Clean, Fed, PlayedAs
  <2>9. Advances(s, t)
    BY <2>1, <2>4, <2>7, <2>8 DEF Advances, Fed, PlayedAs
  <2>10. QED
    BY <2>1, <2>4, <2>9 DEF t, found
<1>5. QED
  BY <1>3, <1>4

LEMMA TakesStill ==
  ASSUME NEW s, NEW t, NEW seq, Takes(s, seq), t.current = s.current, t.poisoned = s.poisoned
  PROVE  Takes(t, seq)
BY DEF Takes, Active

\* What is found is a state and a source.
LEMMA CardSourceIsBoth ==
  ASSUME NEW s, NEW instance, NEW id, NEW slot, NEW generation \in AllGenerations, NEW given
  PROVE  LET got == CardSource(s, instance, id, slot, generation, given)
         IN  got = [s |-> got.s, source |-> got.source]
<1> DEFINE got == CardSource(s, instance, id, slot, generation, given)
           unknown == [s |-> s, source |-> UnknownSource]
<1>1. [unknown EXCEPT !.s = Report(s, "packet")] = [s |-> Report(s, "packet"), source |-> UnknownSource]
  OBVIOUS
<1>2. \E t, source : got = [s |-> t, source |-> source]
  <2>1. CASE generation = "unavailable"
    BY <2>1 DEF CardSource
  <2>2. CASE generation = "ordinary"
    <3>1. /\ got = NamedSource(s, slot, id, "card") \/ got = [s |-> s, source |-> given]
             \/ got = [s |-> Report(s, "packet"), source |-> UnknownSource]
      BY <1>1, <2>2 DEF CardSource
    <3> HIDE DEF got
    <3>2. QED
      BY <3>1 DEF NamedSource, Named
  <2>3. CASE generation = "recorded"
    <3>1. \/ got = [s |-> s, source |-> IF given = {} THEN s.prov.generated[instance] ELSE given]
          \/ got = unknown
      BY <2>3 DEF CardSource
    <3> HIDE DEF got
    <3>2. QED
      BY <3>1
  <2>4. CASE generation = "unclassified"
    BY <2>4 DEF CardSource
  <2>5. QED
    BY <2>1, <2>2, <2>3, <2>4 DEF AllGenerations
<1> HIDE DEF got
<1>3. QED
  BY <1>2 DEF got

\* A play that is started is booked, or something is reported.
LEMMA StartBooks ==
  ASSUME NEW s, Sound(s), NEW seq, NEW execution, NEW instance, NEW id, NEW player \in Slots,
         NEW generation \in AllGenerations, NEW transfer
  PROVE  LET call == CardPlayStarted(s, seq, execution, instance, id, player, generation, transfer)
         IN  /\ Advances(s, call.s)
             /\ Takes(s, seq) /\ Clean(call.s) =>
                  \E c, to : Grown(s.current, c) /\ PlayedAs(c, call.s.current, generation, to)
             /\ \A key :
                  /\ Takes(s, seq) /\ Clean(call.s) /\ Fed(s) /\ seq # 0
                  /\ generation = "ordinary" /\ instance # 0 /\ id # NoId /\ instance \notin Known(s)
                  /\ Handle(s, seq, transfer, key)
                  => \E i \in DOMAIN s.current.rows :
                       /\ Key(s.current.rows[i]) = key
                       /\ PlayedAs(s.current, call.s.current, generation, Row(i))
<1> DEFINE e == ProvenanceEpoch(s, seq)
           at == Slotted(e.s, player)
           given == SourceSnapshot(at.s, transfer)
           play == [execution |-> execution, instance |-> instance, id |-> id,
                    slot |-> at.slot, generation |-> generation]
           found == CardSource(given.s, instance, id, at.slot, generation, given.source)
           call == CardPlayStarted(s, seq, execution, instance, id, player, generation, transfer)
<1>1. /\ Keeps(s, e.s) /\ e.s.current = s.current /\ (e.failure = None <=> Takes(s, seq))
      /\ e.failure = None => Fed(e.s) /\ s.current.seq = seq
      /\ e.failure = None /\ Fed(s) => e.s.arena = s.arena
      /\ Known(e.s) = Known(s)
  BY EpochKeeps, EpochIs DEF Sound, Alike
<1>2. call = IF e.failure # None THEN Refuse(e.s, e.failure) ELSE StartBy(given, play)
  BY DEF CardPlayStarted, StartIn
<1>3. StartBy(given, play)
        = IF given.failure # None THEN Refuse(given.s, given.failure) ELSE StartFrom(found, play)
  BY DEF StartBy
<1>4. play.generation = generation
  OBVIOUS
<1>5. Good(call.s)
  BY StartIs DEF Sound, AllGenerations
<1> HIDE DEF e, play, call
<1>6. at.s = e.s /\ at.slot = player /\ Sound(e.s)
  BY <1>1, SlotKeeps, KeepsSound
<1> HIDE DEF at
<1>7. /\ Keeps(e.s, given.s) /\ given.s.current = s.current /\ IsSource(given.source, s.current.rows)
      /\ Takes(e.s, transfer.seq) /\ Fed(e.s) /\ transfer.seq # 0 /\ transfer.kind = "source"
           /\ transfer.payload \in DOMAIN e.s.arena.entries =>
           given.s = e.s /\ given.failure = None
           /\ given.source = e.s.arena.entries[transfer.payload]
  <2> DEFINE got == SourceSnapshot(e.s, transfer)
  <2>1. /\ Keeps(e.s, got.s) /\ got.s.current = e.s.current /\ IsSource(got.source, e.s.current.rows)
        /\ Takes(e.s, transfer.seq) /\ Fed(e.s) /\ transfer.seq # 0 /\ transfer.kind = "source"
             /\ transfer.payload \in DOMAIN e.s.arena.entries =>
             got.s = e.s /\ got.failure = None
             /\ got.source = e.s.arena.entries[transfer.payload]
    BY <1>6, SnapshotKeeps
  <2>2. given = got
    BY <1>6
  <2> HIDE DEF given, got
  <2>3. QED
    BY <1>1, <2>1, <2>2
<1> HIDE DEF given
<1>8. Keeps(s, given.s) /\ Sound(given.s)
  BY <1>1, <1>7, KeepsTwice, KeepsSound
<1>9. /\ Keeps(given.s, found.s) /\ IsSource(found.source, found.s.current.rows)
      /\ generation = "ordinary" /\ instance # 0 /\ id # NoId /\ instance \notin Known(given.s) =>
           found = IF given.source = {} THEN NamedSource(given.s, at.slot, id, "card")
                   ELSE [s |-> given.s, source |-> given.source]
  <2>1. given.source = {} \/ IsSource(given.source, given.s.current.rows)
    BY <1>7
  <2>2. QED
    BY <1>8, <2>1, CardSourceKeeps
<1>10. found = [s |-> found.s, source |-> found.source]
  BY CardSourceIsBoth
<1> HIDE DEF found
<1>11. Keeps(s, found.s) /\ Sound(found.s)
  BY <1>8, <1>9, KeepsTwice, KeepsSound
<1>12. CASE e.failure # None
  <2>1. call.s = Refuse(e.s, e.failure).s
    BY <1>2, <1>12
  <2>2. Keeps(s, call.s) /\ ~Takes(s, seq)
    BY <1>1, <1>6, <1>12, <2>1, RefuseKeeps, KeepsTwice
  <2>3. QED
    BY <2>2, KeepsAdvances DEF call
<1>13. CASE e.failure = None /\ given.failure # None
  <2>1. call.s = Refuse(given.s, given.failure).s
    BY <1>2, <1>3, <1>13
  <2>2. Keeps(s, call.s)
    BY <1>8, <2>1, RefuseKeeps, KeepsTwice
  <2>3. Fed(given.s)
    BY <1>1, <1>7, <1>13 DEF Keeps
  <2>4. ~Clean(call.s)
    BY <1>8, <2>1, <2>3, RefuseKeeps
  <2>5. QED
    BY <2>2, <2>4, KeepsAdvances DEF call
<1>14. CASE e.failure = None /\ given.failure = None
  <2>1. call = StartFrom(found, play)
    BY <1>2, <1>3, <1>14
  <2>2. PICK to : found.source = {to} /\ IsTo(to, found.s.current.rows)
    BY <1>9 DEF IsSource
  <2>3. Fed(found.s)
    BY <1>1, <1>7, <1>9, <1>14 DEF Keeps
  <2>4. call.s = StartFrom([s |-> found.s, source |-> {to}], play).s
    BY <1>10, <2>1, <2>2
  <2>5. Advances(found.s, call.s) /\ (Clean(call.s) => PlayedAs(found.s.current, call.s.current, generation, to))
    BY <1>4, <1>5, <1>11, <2>2, <2>3, <2>4, StartFromIs
  <2>6. Advances(s, call.s)
    BY <1>11, <2>5, KeepsAdvances, AdvancesTwice
  <2>7. Clean(call.s) => \E c, other : Grown(s.current, c) /\ PlayedAs(c, call.s.current, generation, other)
    BY <1>11, <2>5 DEF Keeps
  <2>8. ASSUME NEW key, Takes(s, seq), Clean(call.s), Fed(s), seq # 0, generation = "ordinary",
               instance # 0, id # NoId, instance \notin Known(s), Handle(s, seq, transfer, key)
        PROVE  \E i \in DOMAIN s.current.rows :
                 /\ Key(s.current.rows[i]) = key
                 /\ PlayedAs(s.current, call.s.current, generation, Row(i))
    <3>1. Takes(e.s, seq) /\ Fed(e.s) /\ e.s.arena = s.arena
      BY <1>1, <1>14, <2>8, TakesStill DEF Keeps
    <3>2. PICK i \in DOMAIN s.current.rows :
            s.arena.entries[transfer.payload] = {Row(i)} /\ Key(s.current.rows[i]) = key
      BY <2>8 DEF Handle
    <3>3. given.s = e.s /\ given.source = {Row(i)}
      BY <1>7, <2>8, <3>1, <3>2 DEF Handle
    <3>4. instance \notin Known(given.s) /\ given.source # {}
      BY <1>1, <2>8, <3>3
    <3>5. found = [s |-> given.s, source |-> given.source]
      BY <1>9, <2>8, <3>4
    <3>6. found.s = given.s /\ found.source = {Row(i)}
      BY <3>3, <3>5
    <3>7. to = Row(i) /\ found.s.current = s.current
      BY <1>7, <2>2, <3>6
    <3>8. QED
      BY <2>5, <2>8, <3>2, <3>7
  <2>9. QED
    BY <2>6, <2>7, <2>8 DEF call
<1>15. QED
  BY <1>12, <1>13, <1>14

----------------------------------------------------------------------------
(***************************************************************************)
(* The other calls of the engine, and the handlers that book no play.      *)
(***************************************************************************)
\* The provenance alone changes, and credits what is credited.
LEMMA ProvenanceStep ==
  ASSUME NEW s, Sound(s), NEW t, Good(t), t.current = s.current, t.arena = s.arena,
         t.coverage = s.coverage, t.poisoned = s.poisoned,
         Credited(t.prov.generated, s.current.rows), Credited(t.prov.orbs, s.current.rows)
  PROVE  Keeps(s, t)
BY LedgerStep, GrownSelf DEF Sound, Ledger

LEMMA PlaysStep ==
  ASSUME NEW s, Sound(s), NEW plays, NEW t, t = [s EXCEPT !.prov.plays = plays], Good(t)
  PROVE  Keeps(s, t)
<1>1. /\ t.current = s.current /\ t.arena = s.arena /\ t.coverage = s.coverage
      /\ t.poisoned = s.poisoned /\ t.prov.generated = s.prov.generated /\ t.prov.orbs = s.prov.orbs
  BY DEF Sound, Good, Fields, ProvFields
<1>2. QED
  BY <1>1, ProvenanceStep DEF Sound, Ledger

LEMMA FinishKeeps ==
  ASSUME NEW s, Sound(s), NEW token
  PROVE  Keeps(s, CardPlayFinished(s, token).s)
<1> DEFINE e == ProvenanceToken(s, token, "play")
           its == {p \in e.s.prov.plays : p.serial = token.payload}
           rest == [e.s EXCEPT !.prov.plays = @ \ its]
           t == CardPlayFinished(s, token).s
<1>1. Keeps(s, e.s)
  BY TokenKeeps
<1>2. t = rest \/ \E failure : t = Refuse(e.s, failure).s
  BY DEF CardPlayFinished, FinishIn, Accept
<1>3. Good(t)
  BY FinishIs DEF Sound
<1>4. rest = [e.s EXCEPT !.prov.plays = e.s.prov.plays \ its]
  OBVIOUS
<1> HIDE DEF e, its, rest, t
<1>5. Keeps(e.s, t)
  <2>1. Sound(e.s)
    BY <1>1, KeepsSound
  <2>2. CASE t = rest
    BY <1>3, <1>4, <2>1, <2>2, PlaysStep
  <2>3. CASE \E failure : t = Refuse(e.s, failure).s
    BY <2>1, <2>3, RefuseKeeps
  <2>4. QED
    BY <1>2, <2>2, <2>3
<1>6. QED
  BY <1>1, <1>5, KeepsTwice DEF t

LEMMA ExecutionKeeps ==
  ASSUME NEW s, Sound(s), NEW seq, NEW execution
  PROVE  Keeps(s, CardExecutionEnded(s, seq, execution).s)
<1> DEFINE e == ProvenanceEpoch(s, seq)
           rest == [e.s EXCEPT !.prov.plays = {p \in @ : p.execution # execution}]
           t == CardExecutionEnded(s, seq, execution).s
<1>1. Keeps(s, e.s)
  BY EpochKeeps
<1>2. t = rest \/ \E failure : t = Refuse(e.s, failure).s
  BY DEF CardExecutionEnded, EndIn, Accept
<1>3. Good(t)
  BY EndIs DEF Sound
<1>4. rest = [e.s EXCEPT !.prov.plays = {p \in e.s.prov.plays : p.execution # execution}]
  OBVIOUS
<1> HIDE DEF e, rest, t
<1>5. Keeps(e.s, t)
  <2>1. Sound(e.s)
    BY <1>1, KeepsSound
  <2>2. CASE t = rest
    BY <1>3, <1>4, <2>1, <2>2, PlaysStep
  <2>3. CASE \E failure : t = Refuse(e.s, failure).s
    BY <2>1, <2>3, RefuseKeeps
  <2>4. QED
    BY <1>2, <2>2, <2>3
<1>6. QED
  BY <1>1, <1>5, KeepsTwice DEF t

LEMMA ContextKeeps ==
  ASSUME NEW s, Sound(s), NEW seq, NEW instance, NEW token, NEW player
  PROVE  Keeps(s, OrbContextBegin(s, seq, instance, token, player).s)
<1> DEFINE e == ProvenanceEpoch(s, seq)
           owner == Slotted(e.s, player)
           k == ProvenanceToken(owner.s, token, "play")
           its == {p \in k.s.prov.plays : p.serial = token.payload /\ p.slot = owner.slot}
           used == [k.s EXCEPT !.prov.plays = (@ \ its) \cup {[p EXCEPT !.orbUsed = TRUE] : p \in its}]
           t == OrbContextBegin(s, seq, instance, token, player).s
<1>1. Keeps(s, e.s)
  BY EpochKeeps
<1>2. Keeps(s, owner.s)
  BY <1>1, SlotKeeps, KeepsSound, KeepsTwice
<1>3. Keeps(s, k.s)
  BY <1>2, TokenKeeps, KeepsSound, KeepsTwice
<1>4. t = IF e.failure # None THEN Refuse(e.s, e.failure).s
          ELSE IF token = Zero THEN owner.s
          ELSE ContextOf(k, its, instance).s
  BY DEF OrbContextBegin, ContextIn, ContextBy, Accept
<1>5. \/ ContextOf(k, its, instance).s = used \/ ContextOf(k, its, instance).s = k.s
      \/ \E failure : ContextOf(k, its, instance).s = Refuse(k.s, failure).s
  BY DEF ContextOf, Accept
<1>6. Good(t)
  BY ContextIsQuiet DEF Sound, Alike
<1>7. used = [k.s EXCEPT !.prov.plays = (k.s.prov.plays \ its)
                                         \cup {[p EXCEPT !.orbUsed = TRUE] : p \in its}]
  OBVIOUS
<1> HIDE DEF e, owner, k, its, used, t
<1>8. CASE t = used
  <2>1. Keeps(k.s, t)
    BY <1>3, <1>6, <1>7, <1>8, KeepsSound, PlaysStep
  <2>2. QED
    BY <1>3, <2>1, KeepsTwice DEF t
<1>9. CASE t = owner.s \/ t = k.s
  BY <1>2, <1>3, <1>9 DEF t
<1>10. CASE \E failure : t = Refuse(k.s, failure).s \/ t = Refuse(e.s, failure).s
  BY <1>1, <1>3, <1>10, RefuseKeeps, KeepsSound, KeepsTwice DEF t
<1>11. QED
  BY <1>4, <1>5, <1>8, <1>9, <1>10

LEMMA ChannelKeeps ==
  ASSUME NEW s, Sound(s), NEW seq, NEW instance, NEW transfer
  PROVE  Keeps(s, OrbChanneled(s, seq, instance, transfer).s)
<1> DEFINE e == ProvenanceEpoch(s, seq)
           u == Unchanneled(e.s, instance)
           given == SourceSnapshot(u, transfer)
           more == ChanneledBy(given.s, instance, given.source)
           t == OrbChanneled(s, seq, instance, transfer).s
<1>1. Keeps(s, e.s) /\ Good(e.s) /\ Sound(e.s) /\ (e.failure = None => e.s.prov.epoch = e.s.current.seq)
  BY EpochKeeps, EpochIs, KeepsSound DEF Sound
<1>2. t = IF e.failure # None THEN Refuse(e.s, e.failure).s ELSE ChannelBy(given, instance).s
  BY DEF OrbChanneled, ChannelIn, Unchanneled
<1>3. ChannelBy(given, instance).s = more \/ \E failure : ChannelBy(given, instance).s = Refuse(given.s, failure).s
  BY DEF ChannelBy, Accept, ChanneledBy
<1>4. Good(t)
  BY ChannelIs DEF Sound
<1> HIDE DEF t
<1>5. CASE e.failure # None
  BY <1>1, <1>2, <1>5, RefuseKeeps, KeepsTwice DEF t
<1>6. CASE e.failure = None
  <2>1. Good(u)
    BY <1>1, <1>6, ChannelingIs
  <2>2. /\ u.current = e.s.current /\ u.arena = e.s.arena /\ u.coverage = e.s.coverage
        /\ u.poisoned = e.s.poisoned /\ u.prov.generated = e.s.prov.generated
        /\ u.prov.orbs = Forget(e.s.prov.orbs, instance)
    BY <1>1 DEF Good, Fields, ProvFields, Unchanneled
  <2> HIDE DEF e, u
  <2>3. Keeps(e.s, u)
    <3>1. Credited(u.prov.generated, e.s.current.rows) /\ Credited(u.prov.orbs, e.s.current.rows)
      <4>1. /\ Credited(e.s.prov.generated, e.s.current.rows)
            /\ Credited(e.s.prov.orbs, e.s.current.rows)
        BY <1>1 DEF Sound, Ledger
      <4>2. Credited(Forget(e.s.prov.orbs, instance), e.s.current.rows)
        BY <4>1, EntriesCredited
      <4>3. QED
        BY <2>2, <4>1, <4>2
    <3>2. QED
      BY <1>1, <2>1, <2>2, <3>1, ProvenanceStep
  <2>4. Keeps(u, given.s) /\ IsSource(given.source, given.s.current.rows)
    <3>1. Sound(u)
      BY <2>3, KeepsSound
    <3>2. /\ Keeps(u, given.s) /\ given.s.current = u.current
          /\ IsSource(given.source, u.current.rows)
      BY <3>1, SnapshotKeeps
    <3> HIDE DEF given
    <3>3. QED
      BY <3>2
  <2> HIDE DEF given
  <2>5. Keeps(s, given.s) /\ Sound(given.s) /\ Good(given.s)
    BY <1>1, <2>3, <2>4, KeepsTwice, KeepsSound
  <2>6. CASE t = more
    <3>1. /\ more.current = given.s.current /\ more.arena = given.s.arena
          /\ more.coverage = given.s.coverage /\ more.poisoned = given.s.poisoned
          /\ more.prov.generated = given.s.prov.generated
          /\ more.prov.orbs = Learn(given.s.prov.orbs, instance, given.source)
      BY <2>5 DEF Good, Fields, ProvFields, ChanneledBy
    <3> HIDE DEF more
    <3>2. Credited(more.prov.orbs, given.s.current.rows)
      BY <2>4, <2>5, <3>1, EntriesCredited DEF Sound, Ledger
    <3>3. Keeps(given.s, more)
      BY <1>4, <2>5, <2>6, <3>1, <3>2, ProvenanceStep DEF Sound, Ledger
    <3>4. QED
      BY <2>5, <2>6, <3>3, KeepsTwice DEF t
  <2>7. CASE \E failure : t = Refuse(given.s, failure).s
    BY <2>5, <2>7, RefuseKeeps, KeepsTwice DEF t
  <2>8. QED
    BY <1>2, <1>3, <1>6, <2>6, <2>7
<1>7. QED
  BY <1>5, <1>6

\* What a stage has booked of a generation.
LEMMA BookingKeeps ==
  ASSUME NEW s, Sound(s), NEW stage, Books(stage.c), Grown(s.current, stage.c)
  PROVE  Keeps(s, [s EXCEPT !.current = Booked(@, stage)])
<1> DEFINE t == [s EXCEPT !.current = Booked(@, stage)]
           d == Booked(s.current, stage)
<1>1. Good(t)
  BY BookingIsQuiet DEF Sound, Quiet, Alike
<1>2. /\ t.current = d /\ t.arena = s.arena /\ t.prov = s.prov /\ t.coverage = s.coverage
      /\ t.poisoned = s.poisoned
  BY DEF Sound, Good, Fields
<1>3. /\ DOMAIN d = CombatFields /\ d.rows = stage.c.rows /\ d.rowsLost = stage.c.rowsLost
      /\ d.triggers = stage.c.triggers /\ d.plays = s.current.plays
      /\ d.generatedPlays = s.current.generatedPlays /\ d.seq = s.current.seq
  BY DEF Booked, Sound, Good, CombatFields
<1> HIDE DEF t, d
<1>4. d.plays = stage.c.plays /\ d.generatedPlays = stage.c.generatedPlays
  BY <1>3 DEF Grown
<1>5. Books(d)
  BY <1>3, <1>4 DEF Books, Table, Adds
<1>6. Grown(s.current, d)
  BY <1>3 DEF Grown
<1>7. QED
  BY <1>1, <1>2, <1>5, <1>6, LedgerStep DEF Sound, Ledger, t

LEMMA GenerationKeeps ==
  ASSUME NEW s, Sound(s), NEW seq, NEW instance, NEW transfer
  PROVE  Keeps(s, CardGenerated(s, seq, instance, transfer).s)
<1> DEFINE e == ProvenanceEpoch(s, seq)
           u == Unlearned(e.s, instance)
           given == SourceSnapshot(u, transfer)
           stage == Triggers(Stage(given.s), given.source)
           b == [given.s EXCEPT !.current = Booked(@, stage)]
           more == Learned(b, instance, given.source)
           t == CardGenerated(s, seq, instance, transfer).s
<1>1. Keeps(s, e.s) /\ Good(e.s) /\ Sound(e.s) /\ (e.failure = None => e.s.prov.epoch = e.s.current.seq)
  BY EpochKeeps, EpochIs, KeepsSound DEF Sound
<1>2. t = IF e.failure # None THEN Refuse(e.s, e.failure).s ELSE GeneratedBy(given, instance).s
  BY DEF CardGenerated, GeneratedIn, Unlearned
<1>3. GeneratedBy(given, instance).s
        = IF given.failure # None THEN Refuse(given.s, given.failure).s
          ELSE IF stage.failure # None THEN Refuse(given.s, stage.failure).s
          ELSE Remember(b, instance, given.source).s
  BY DEF GeneratedBy, GeneratedWith
<1>4. \/ Remember(b, instance, given.source).s = more
      \/ Remember(b, instance, given.source).s = Refuse(b, "capacity").s
  BY DEF Remember, Accept, Learned
<1>5. Good(t)
  BY GeneratedIs DEF Sound, Regenerates
<1> HIDE DEF t
<1>6. CASE e.failure # None
  BY <1>1, <1>2, <1>6, RefuseKeeps, KeepsTwice DEF t
<1>7. CASE e.failure = None
  <2>1. Good(u)
    BY <1>1, <1>7, LearningIs
  <2>2. /\ u.current = e.s.current /\ u.arena = e.s.arena /\ u.coverage = e.s.coverage
        /\ u.poisoned = e.s.poisoned /\ u.prov.orbs = e.s.prov.orbs
        /\ u.prov.generated = Forget(e.s.prov.generated, instance)
    BY <1>1 DEF Good, Fields, ProvFields, Unlearned
  <2> HIDE DEF e, u
  <2>3. Keeps(e.s, u)
    <3>1. Credited(u.prov.generated, e.s.current.rows) /\ Credited(u.prov.orbs, e.s.current.rows)
      <4>1. /\ Credited(e.s.prov.generated, e.s.current.rows)
            /\ Credited(e.s.prov.orbs, e.s.current.rows)
        BY <1>1 DEF Sound, Ledger
      <4>2. Credited(Forget(e.s.prov.generated, instance), e.s.current.rows)
        BY <4>1, EntriesCredited
      <4>3. QED
        BY <2>2, <4>1, <4>2
    <3>2. QED
      BY <1>1, <2>1, <2>2, <3>1, ProvenanceStep
  <2>4. /\ Keeps(u, given.s) /\ IsSource(given.source, given.s.current.rows)
    <3>1. Sound(u)
      BY <2>3, KeepsSound
    <3>2. /\ Keeps(u, given.s) /\ given.s.current = u.current
          /\ IsSource(given.source, u.current.rows)
      BY <3>1, SnapshotKeeps
    <3> HIDE DEF given
    <3>3. QED
      BY <3>2
  <2> HIDE DEF given
  <2>5. Keeps(s, given.s) /\ Sound(given.s) /\ Good(given.s)
    BY <1>1, <2>3, <2>4, KeepsTwice, KeepsSound
  <2>6. stage.failure = None => Keeps(given.s, b)
    <3>1. PICK to : given.source = {to} /\ IsTo(to, given.s.current.rows)
      BY <2>4 DEF IsSource
    <3>2. stage = TriggerOf(Stage(given.s), to)
      BY <3>1, TriggersAre
    <3>3. IsStage(Stage(given.s)) /\ Stage(given.s).c = given.s.current /\ Books(given.s.current)
      BY <2>5 DEF Stage, IsStage, Sound, Ledger
    <3> HIDE DEF stage
    <3>4. stage.failure = None => Books(stage.c) /\ Grown(given.s.current, stage.c)
      BY <3>1, <3>2, <3>3, TriggerIs
    <3>5. QED
      BY <2>5, <3>4, BookingKeeps
  <2>7. CASE \E failure : t = Refuse(given.s, failure).s
    BY <2>5, <2>7, RefuseKeeps, KeepsTwice DEF t
  <2>8. CASE stage.failure = None /\ t = Refuse(b, "capacity").s
    <3> HIDE DEF b, stage
    <3>1. Keeps(s, b)
      BY <2>5, <2>6, <2>8, KeepsTwice
    <3>2. QED
      BY <2>8, <3>1, RefuseKeeps, KeepsTwice, KeepsSound DEF t
  <2>9. CASE stage.failure = None /\ t = more
    <3> HIDE DEF b, stage
    <3>1. Keeps(s, b) /\ Sound(b) /\ Good(b)
      BY <2>5, <2>6, <2>9, KeepsTwice, KeepsSound
    <3>2. IsSource(given.source, b.current.rows)
      BY <2>4, <2>6, <2>9, CreditedStill DEF Keeps
    <3>3. /\ more.current = b.current /\ more.arena = b.arena /\ more.coverage = b.coverage
          /\ more.poisoned = b.poisoned /\ more.prov.orbs = b.prov.orbs
          /\ more.prov.generated = Learn(b.prov.generated, instance, given.source)
      BY <3>1 DEF Good, Fields, ProvFields, Learned
    <3> HIDE DEF more
    <3>4. Credited(more.prov.generated, b.current.rows)
      BY <3>1, <3>2, <3>3, EntriesCredited DEF Sound, Ledger
    <3>5. Keeps(b, more)
      BY <1>5, <2>9, <3>1, <3>3, <3>4, ProvenanceStep DEF Sound, Ledger
    <3>6. QED
      BY <2>9, <3>1, <3>5, KeepsTwice DEF t
  <2>10. QED
    BY <1>2, <1>3, <1>4, <1>7, <2>7, <2>8, <2>9
<1>8. QED
  BY <1>6, <1>7

----------------------------------------------------------------------------
(***************************************************************************)
(* What has been announced and what is booked.                             *)
(***************************************************************************)
CardKey(card) == <<PlayerOf[card], CardId[card], "card">>

\* The rows have the plays that were announced.
Tally(c, p) ==
  /\ c.generatedPlays = p.generated
  /\ \A card \in Cards :
       /\ \A i \in DOMAIN c.rows : Key(c.rows[i]) = CardKey(card) => c.rows[i].plays = p.ordinary[card]
       /\ (\A i \in DOMAIN c.rows : Key(c.rows[i]) # CardKey(card)) => p.ordinary[card] = 0

IsPlayed(p) == p.generated \in Nat /\ \A card \in Cards : p.ordinary[card] \in Nat

BooksInv ==
  /\ Sound(engine)
  /\ engine.poisoned => ~engine.coverage.complete
  /\ IsPlayed(played)
  /\ epoch # 0 /\ Clean(engine) => Tally(engine.current, played)

LEMMA TallyKept ==
  ASSUME NEW c, NEW d, NEW p, Grown(c, d), Tally(c, p),
         \A i, j \in DOMAIN d.rows : Key(d.rows[i]) = Key(d.rows[j]) => i = j
  PROVE  Tally(d, p)
<1>1. d.generatedPlays = p.generated
  BY DEF Grown, Tally
<1>2. ASSUME NEW card \in Cards, NEW i \in DOMAIN d.rows, Key(d.rows[i]) = CardKey(card)
      PROVE  d.rows[i].plays = p.ordinary[card]
  <2>1. d.rows[i].kind = "card"
    BY <1>2 DEF Key, CardKey
  <2>2. CASE i \in DOMAIN c.rows
    <3>1. Key(c.rows[i]) = CardKey(card) /\ c.rows[i].kind = "card"
      BY <1>2, <2>1, <2>2 DEF Grown, Key
    <3>2. QED
      BY <2>2, <3>1 DEF Grown, Tally
  <2>3. CASE i \notin DOMAIN c.rows
    <3>1. d.rows[i].plays = 0
      BY <2>1, <2>3 DEF Grown
    <3>2. ASSUME NEW j \in DOMAIN c.rows PROVE Key(c.rows[j]) # CardKey(card)
      BY <1>2, <2>3 DEF Grown
    <3>3. QED
      BY <3>1, <3>2 DEF Tally
  <2>4. QED
    BY <2>2, <2>3
<1>3. ASSUME NEW card \in Cards, \A i \in DOMAIN d.rows : Key(d.rows[i]) # CardKey(card)
      PROVE  p.ordinary[card] = 0
  BY <1>3 DEF Grown, Tally
<1>4. QED
  BY <1>1, <1>2, <1>3 DEF Tally

\* A step that books no play.
LEMMA KeepsStep ==
  ASSUME BooksInv, UNCHANGED <<epoch, played>>, Keeps(engine, engine')
  PROVE  BooksInv'
<1>1. Sound(engine') /\ (engine'.poisoned => ~engine'.coverage.complete)
  BY DEF Keeps, BooksInv
<1>2. ASSUME epoch # 0, Clean(engine')
      PROVE  Tally(engine'.current, played)
  <2>1. Tally(engine.current, played) /\ Grown(engine.current, engine'.current)
    BY <1>2 DEF Keeps, BooksInv
  <2>2. Table(engine'.current)
    BY <1>1 DEF Sound, Ledger, Books
  <2>3. QED
    BY <2>1, <2>2, TallyKept DEF Table
<1>3. Sound(engine)'
  BY <1>1 DEF Sound, Ledger, Good, Table, Books, Adds, Credited, IsSource, IsTo
<1>4. Clean(engine)' <=> Clean(engine')
  BY DEF Clean, Fed
<1>5. QED
  BY <1>1, <1>2 DEF BooksInv

LEMMA IdleStep ==
  ASSUME BooksInv, UNCHANGED <<engine, epoch, played>>
  PROVE  BooksInv'
BY KeepsSelf, KeepsStep DEF BooksInv

LEMMA FailKeeps ==
  ASSUME NEW s, Sound(s), NEW model
  PROVE  Keeps(s, Fail(s, model)) /\ (model \in Unidentified => ~Fail(s, model).coverage.complete)
BY FailedKeeps, KeepsSelf DEF Fail

LEMMA CardCaptureKeeps ==
  ASSUME KnownInv, NEW s, Sound(s), NEW card \in Cards
  PROVE  Keeps(s, CardCapture(s, card).s)
<1>1. metadata.generation[card] \in AllGenerations
  BY DEF KnownInv, Generations, AllGenerations
<1>2. QED
  BY <1>1, CaptureKeeps, KeepsSelf DEF CardCapture, Accept

LEMMA OrbCaptureKeeps ==
  ASSUME NEW s, Sound(s), NEW orb
  PROVE  Keeps(s, OrbCapture(s, orb).s)
<1>1. "unclassified" \in AllGenerations
  BY DEF AllGenerations
<1>2. QED
  BY <1>1, CaptureKeeps, KeepsSelf DEF OrbCapture, Accept

LEMMA FlowsBook ==
  ASSUME PlaysInv, BooksInv, NEW f \in Flows,
         EndEffect(f) \/ \E card \in Cards : Finished(f, card)
  PROVE  BooksInv'
<1>1. Sound(engine)
  BY DEF BooksInv
<1>2. CASE EndEffect(f)
  <2>1. /\ engine' = engine \/ engine' = CardExecutionEnded(engine, flows[f].execution.epoch,
                                                            flows[f].execution.identity).s
        /\ UNCHANGED <<epoch, played>>
    BY <1>2 DEF EndEffect
  <2>2. Keeps(engine, engine')
    BY <1>1, <2>1, ExecutionKeeps, KeepsSelf
  <2>3. QED
    BY <2>1, <2>2, KeepsStep
<1>3. ASSUME NEW card \in Cards, Finished(f, card)
      PROVE  BooksInv'
  <2>1. /\ \/ engine' = engine \/ engine' = Failed(engine, "play-finish-mismatch")
           \/ engine' = CardPlayFinished(engine, Head(flows[f].chain).token).s
        /\ UNCHANGED <<epoch, played>>
    BY <1>3 DEF Finished
  <2>2. Keeps(engine, engine')
    BY <1>1, <2>1, FinishKeeps, FailedKeeps, KeepsSelf
  <2>3. QED
    BY <2>1, <2>2, KeepsStep
<1>4. QED
  BY <1>2, <1>3

LEMMA GeneratedBooks ==
  ASSUME PlaysInv, BooksInv, NEW f \in Flows, NEW card \in Cards, Generated(f, card)
  PROVE  BooksInv'
<1>1. Sound(engine)
  BY DEF BooksInv
<1>2. /\ engine' = CardGenerated(Fail(engine, card), epoch, Identity(card), Supplied(f)).s
      /\ UNCHANGED <<epoch, played>>
  BY DEF Generated, Recollect
<1>3. Keeps(engine, Fail(engine, card)) /\ Sound(Fail(engine, card))
  BY <1>1, FailKeeps, KeepsSound
<1>4. Keeps(engine, engine')
  BY <1>2, <1>3, GenerationKeeps, KeepsTwice
<1>5. QED
  BY <1>2, <1>4, KeepsStep

LEMMA OrbsBook ==
  ASSUME PlaysInv, BooksInv, NEW f \in Flows, NEW orb \in Orbs, Channeled(f, orb) \/ Orb(f, orb)
  PROVE  BooksInv'
<1>1. Sound(engine)
  BY DEF BooksInv
<1>2. Keeps(engine, Fail(engine, orb))
  BY <1>1, FailKeeps
<1>3. CASE Channeled(f, orb)
  <2> DEFINE call == OrbChanneled(engine, epoch, orb, Supplied(f))
  <2>1. /\ \/ engine' = Fail(engine, orb) \/ engine' = call.s
           \/ engine' = Failed(call.s, "orb-channel")
        /\ UNCHANGED <<epoch, played>>
    BY <1>3 DEF Channeled, Channel
  <2>2. Keeps(engine, call.s)
    BY <1>1, ChannelKeeps
  <2> HIDE DEF call
  <2>3. Keeps(engine, Failed(call.s, "orb-channel"))
    BY <2>2, FailedKeeps, KeepsSound, KeepsTwice
  <2>4. QED
    BY <1>2, <2>1, <2>2, <2>3, KeepsStep
<1>4. CASE Orb(f, orb)
  <2> DEFINE token == IF flows[f].chain # << >>
                         /\ (IF flows[f].chain = << >> THEN Frame(0, Zero, 0, orb, Zero)
                             ELSE Head(flows[f].chain)).slot = PlayerOf[orb]
                      THEN (IF flows[f].chain = << >> THEN Frame(0, Zero, 0, orb, Zero)
                            ELSE Head(flows[f].chain)).token
                      ELSE Zero
             call == OrbContextBegin(engine, epoch, orb, token, PlayerOf[orb])
  <2>1. /\ \/ engine' = Fail(engine, orb) \/ engine' = engine \/ engine' = Told(orb, call)
        /\ UNCHANGED <<epoch, played>>
    BY <1>4 DEF Orb
  <2>2. Keeps(engine, call.s)
    BY <1>1, ContextKeeps
  <2> HIDE DEF call
  <2>3. Keeps(engine, Told(orb, call))
    BY <2>2, OrbCaptureKeeps, KeepsSound, KeepsTwice DEF Told
  <2>4. QED
    BY <1>1, <1>2, <2>1, <2>3, KeepsSelf, KeepsStep
<1>5. QED
  BY <1>3, <1>4

----------------------------------------------------------------------------
(***************************************************************************)
(* A play is announced.                                                    *)
(***************************************************************************)
LEMMA AnnouncedIs ==
  ASSUME IsPlayed(played), NEW card \in Cards
  PROVE  LET q == Announced(card)
         IN  /\ IsPlayed(q)
             /\ Generation(card) \in Apart =>
                  q.generated = played.generated + 1
                  /\ \A c \in Cards : q.ordinary[c] = played.ordinary[c]
             /\ Generation(card) \notin Apart =>
                  /\ q.generated = played.generated
                  /\ \A c \in Copies(card) : q.ordinary[c] = played.ordinary[c] + 1
                  /\ \A c \in Cards \ Copies(card) : q.ordinary[c] = played.ordinary[c]
<1> DEFINE q == Announced(card)
           generated == Generation(card) \in Apart
<1>1. /\ q.generated = played.generated + (IF generated THEN 1 ELSE 0)
      /\ \A c \in Cards : q.ordinary[c] = played.ordinary[c] + (IF ~generated /\ c \in Copies(card) THEN 1 ELSE 0)
  BY DEF Announced, Apart
<1>2. played.generated \in Nat /\ \A c \in Cards : played.ordinary[c] \in Nat
  BY DEF IsPlayed
<1>3. Copies(card) \subseteq Cards
  BY DEF Copies
<1> HIDE DEF q
<1>4. CASE generated
  BY <1>1, <1>2, <1>4 DEF IsPlayed, q
<1>5. CASE ~generated
  <2>1. q.generated = played.generated
    BY <1>1, <1>2, <1>5
  <2>2. \A c \in Copies(card) : q.ordinary[c] = played.ordinary[c] + 1
    BY <1>1, <1>3, <1>5
  <2>3. \A c \in Cards \ Copies(card) : q.ordinary[c] = played.ordinary[c]
    BY <1>1, <1>2, <1>5
  <2>4. IsPlayed(q)
    BY <1>2, <2>1, <2>2, <2>3 DEF IsPlayed
  <2>5. QED
    BY <1>5, <2>1, <2>2, <2>3, <2>4 DEF q
<1>6. QED
  BY <1>4, <1>5

LEMMA ApartTally ==
  ASSUME NEW c, NEW d, Tally(c, played), IsPlayed(played), NEW card \in Cards,
         Generation(card) \in Apart, d.rows = c.rows, d.generatedPlays = c.generatedPlays + 1
  PROVE  Tally(d, Announced(card))
BY AnnouncedIs DEF Tally

LEMMA OrdinaryTally ==
  ASSUME NEW c, NEW d, Tally(c, played), Table(c), IsPlayed(played), NEW card \in Cards,
         Generation(card) \notin Apart, NEW i \in DOMAIN c.rows, Key(c.rows[i]) = CardKey(card),
         d.rows = Bumped(c, i).rows, d.generatedPlays = c.generatedPlays
  PROVE  Tally(d, Announced(card))
<1> DEFINE q == Announced(card)
<1>1. /\ q.generated = played.generated
      /\ \A other \in Copies(card) : q.ordinary[other] = played.ordinary[other] + 1
      /\ \A other \in Cards \ Copies(card) : q.ordinary[other] = played.ordinary[other]
  BY AnnouncedIs
<1>2. /\ DOMAIN d.rows = DOMAIN c.rows
      /\ \A j \in DOMAIN c.rows : Key(d.rows[j]) = Key(c.rows[j])
      /\ d.rows[i].plays = c.rows[i].plays + 1
      /\ \A j \in DOMAIN c.rows : j # i => d.rows[j] = c.rows[j]
  BY BumpedIs
<1>3. \A other \in Cards : other \in Copies(card) <=> CardKey(other) = CardKey(card)
  BY DEF Copies, CardKey
<1> HIDE DEF q
<1>4. ASSUME NEW other \in Cards, NEW j \in DOMAIN d.rows, Key(d.rows[j]) = CardKey(other)
      PROVE  d.rows[j].plays = q.ordinary[other]
  <2>1. c.rows[j].plays = played.ordinary[other] /\ Key(c.rows[j]) = CardKey(other)
    BY <1>2, <1>4 DEF Tally
  <2>2. CASE j = i
    BY <1>1, <1>2, <1>3, <2>1, <2>2
  <2>3. CASE j # i
    <3>1. other \notin Copies(card)
      BY <1>2, <1>3, <2>1, <2>3 DEF Table
    <3>2. QED
      BY <1>1, <1>2, <2>1, <2>3, <3>1
  <2>4. QED
    BY <2>2, <2>3
<1>5. ASSUME NEW other \in Cards, \A j \in DOMAIN d.rows : Key(d.rows[j]) # CardKey(other)
      PROVE  q.ordinary[other] = 0
  <2>1. \A j \in DOMAIN c.rows : Key(c.rows[j]) # CardKey(other)
    BY <1>2, <1>5
  <2>2. played.ordinary[other] = 0 /\ other \notin Copies(card)
    BY <1>3, <2>1 DEF Tally
  <2>3. QED
    BY <1>1, <2>2
<1>6. d.generatedPlays = q.generated
  BY <1>1 DEF Tally
<1>7. QED
  BY <1>4, <1>5, <1>6 DEF Tally, q

LEMMA StartedBooks ==
  ASSUME PlaysInv, BooksInv, NEW f \in Flows, NEW card \in Cards, Started(f, card)
  PROVE  BooksInv'
<1> DEFINE met == IF Len(flows[f].chain) >= MaxDepth THEN Failed(engine, "managed-play-cap") ELSE engine
           s == Fail(met, card)
           src == CardCapture(s, card)
           call == CardPlayStarted(src.s, epoch, ActiveExecution(f), Identity(card), CardId[card],
                                   PlayerOf[card], Generation(card), src.r)
<1>1. engine' = call.s /\ played' = Announced(card) /\ epoch' = epoch /\ epoch # 0
  BY DEF Started, Begin, Push, Valid
<1>2. /\ Sound(engine) /\ (engine.poisoned => ~engine.coverage.complete) /\ IsPlayed(played)
      /\ Clean(engine) => Tally(engine.current, played)
  BY <1>1 DEF BooksInv
<1>3. Good(engine) /\ KnownInv /\ Active(engine) /\ engine.current.seq = epoch
  BY <1>1 DEF PlaysInv, EngineInv
<1>4. Keeps(engine, met) /\ Quiet(engine, met)
  BY <1>2, <1>3, FailedKeeps, FailedIsQuiet, KeepsSelf, QuietSelf
<1> HIDE DEF met
<1>5. /\ Keeps(met, s) /\ Quiet(met, s)
      /\ card \in Unidentified => ~s.coverage.complete
  BY <1>4, FailKeeps, FailIsQuiet, KeepsSound
<1>6. Keeps(engine, s) /\ Quiet(engine, s) /\ Sound(s)
  BY <1>4, <1>5, KeepsTwice, QuietTwice, KeepsSound
<1> HIDE DEF s
<1>7. Keeps(s, src.s)
  BY <1>3, <1>6, CardCaptureKeeps
<1>8. /\ Core(src.s) = Core(s) /\ Good(s)
      /\ Known(src.s) = Known(s) \/ Known(src.s) = Known(s) \ {card}
  BY <1>3, <1>6, CardCaptureIs DEF Sound
<1>9. Keeps(engine, src.s) /\ Sound(src.s)
  BY <1>6, <1>7, KeepsTwice, KeepsSound
<1>10. /\ Generation(card) \in AllGenerations /\ PlayerOf[card] \in Slots
       /\ card # 0 /\ CardId[card] # NoId
  <2>1. metadata.generation[card] \in AllGenerations
    BY <1>3 DEF KnownInv, Generations, AllGenerations
  <2>2. Generation(card) \in AllGenerations
    BY <2>1 DEF Generation, AllGenerations
  <2>3. QED
    BY <2>2, PlaysConstants
<1> DEFINE Fit(key) ==
             /\ Takes(src.s, epoch) /\ Clean(call.s) /\ Fed(src.s)
             /\ Generation(card) = "ordinary" /\ Identity(card) # 0 /\ CardId[card] # NoId
             /\ Identity(card) \notin Known(src.s)
             /\ Handle(src.s, epoch, src.r, key)
<1> HIDE DEF src
<1>11. /\ Advances(src.s, call.s)
       /\ Takes(src.s, epoch) /\ Clean(call.s) =>
            \E c, to : Grown(src.s.current, c) /\ PlayedAs(c, call.s.current, Generation(card), to)
       /\ \A key : Fit(key) =>
            \E i \in DOMAIN src.s.current.rows :
               /\ Key(src.s.current.rows[i]) = key
               /\ PlayedAs(src.s.current, call.s.current, Generation(card), Row(i))
  BY <1>1, <1>9, <1>10, StartBooks
<1>12. Advances(engine, call.s)
  BY <1>9, <1>11, KeepsAdvances, AdvancesTwice
<1>13. IsPlayed(Announced(card))
  BY <1>2, AnnouncedIs
<1> HIDE DEF call
<1>14. ASSUME Clean(call.s)
       PROVE  Tally(call.s.current, Announced(card))
  <2>1. /\ Clean(engine) /\ Clean(src.s) /\ ~engine.poisoned /\ card \notin Unidentified
        /\ Tally(engine.current, played)
    <3>1. Clean(engine) /\ Clean(src.s) /\ src.s.coverage.complete
      BY <1>11, <1>12, <1>14 DEF Advances, Clean
    <3>2. s.coverage.complete
      BY <1>7, <3>1 DEF Keeps
    <3>3. QED
      BY <1>2, <1>5, <3>1, <3>2 DEF Clean
  <2>2. Takes(engine, epoch) /\ Takes(s, epoch) /\ Takes(src.s, epoch)
    <3>1. Takes(engine, epoch)
      BY <1>3, <2>1 DEF Takes
    <3>2. Core(s) = Core(engine)
      BY <1>6 DEF Quiet, Alike
    <3>3. QED
      BY <1>8, <3>1, <3>2 DEF Takes, Active, Core
  <2>3. Identity(card) = card /\ Generation(card) = metadata.generation[card]
        /\ Generation(card) \in Generations
    BY <1>3, <2>1 DEF Identity, Generation, KnownInv
  <2>4. Grown(engine.current, src.s.current)
    BY <1>9 DEF Keeps
  <2>5. CASE Generation(card) \in Apart
    <3>1. PICK c, to : Grown(src.s.current, c) /\ PlayedAs(c, call.s.current, Generation(card), to)
      BY <1>11, <1>14, <2>2
    <3>2. Grown(engine.current, c)
      BY <2>4, <3>1, GrownTwice
    <3>3. call.s.current.rows = c.rows /\ call.s.current.generatedPlays = c.generatedPlays + 1
      BY <2>5, <3>1 DEF PlayedAs
    <3>4. Tally(c, played)
      <4>1. \A i, j \in DOMAIN c.rows : Key(c.rows[i]) = Key(c.rows[j]) => i = j
        BY <3>1, <3>3 DEF PlayedAs, Books, Table
      <4>2. QED
        BY <2>1, <3>2, <4>1, TallyKept
    <3>5. QED
      BY <1>2, <2>5, <3>3, <3>4, ApartTally
  <2>6. CASE Generation(card) \notin Apart
    <3>1. Generation(card) = "ordinary" /\ metadata.generation[card] = "ordinary"
      BY <2>3, <2>6 DEF Generations, Apart
    <3>2. card \notin Known(s) /\ card \notin Known(src.s)
      <4>1. card \notin Known(engine)
        BY <1>1, <1>3, <2>1, <3>1 DEF KnownInv, KnownAlike, Known
      <4>2. Known(s) = Known(engine)
        BY <1>6 DEF Quiet, Alike
      <4>3. QED
        BY <1>8, <4>1, <4>2
    <3>3. Fed(src.s) /\ Handle(src.s, epoch, src.r, CardKey(card))
      <4> DEFINE got == SourceCapture(s, epoch, "card", card, CardId[card], PlayerOf[card], "ordinary")
      <4>1. src = got
        BY <2>1, <3>1 DEF src, CardCapture
      <4>2. Clean(got.s)
        BY <2>1, <4>1
      <4>3. Fed(got.s) /\ Handle(got.s, epoch, got.r, <<PlayerOf[card], CardId[card], "card">>)
        BY <1>6, <1>10, <2>2, <3>2, <4>2, CardHandle
      <4> HIDE DEF got
      <4>4. QED
        BY <4>1, <4>3 DEF CardKey
    <3>4. Fit(CardKey(card))
      BY <1>10, <1>14, <2>2, <2>3, <3>1, <3>2, <3>3
    <3> HIDE DEF Fit
    <3>5. PICK i \in DOMAIN src.s.current.rows :
            /\ Key(src.s.current.rows[i]) = CardKey(card)
            /\ PlayedAs(src.s.current, call.s.current, Generation(card), Row(i))
      BY <1>11, <3>4
    <3>6. Table(src.s.current)
      BY <1>9 DEF Sound, Ledger, Books
    <3>7. Row(i).row = i /\ i # 0
      BY <3>6, RowsAre DEF Table, Row
    <3>8. call.s.current.rows = Bumped(src.s.current, i).rows
          /\ call.s.current.generatedPlays = src.s.current.generatedPlays
      BY <2>6, <3>5, <3>7 DEF PlayedAs
    <3>9. Tally(src.s.current, played)
      BY <2>1, <2>4, <3>6, TallyKept DEF Table
    <3>10. QED
      BY <1>2, <2>6, <3>5, <3>6, <3>8, <3>9, OrdinaryTally
  <2>7. QED
    BY <2>5, <2>6
<1>15. Sound(call.s) /\ (call.s.poisoned => ~call.s.coverage.complete)
  BY <1>2, <1>12 DEF Advances
<1>16. Sound(engine)' /\ (Clean(engine)' <=> Clean(call.s))
  BY <1>1, <1>15 DEF Sound, Ledger, Good, Table, Books, Adds, Credited, IsSource, IsTo, Clean, Fed
<1>17. QED
  BY <1>1, <1>13, <1>14, <1>15, <1>16 DEF BooksInv, IsPlayed

----------------------------------------------------------------------------
(***************************************************************************)
(* Combats begin and end.                                                  *)
(***************************************************************************)
Blank(c) ==
  /\ DOMAIN c = CombatFields
  /\ c.rows = << >> /\ c.plays = 0 /\ c.generatedPlays = 0 /\ c.triggers = 0

LEMMA BlankIs ==
  ASSUME NEW c, Blank(c)
  PROVE  Books(c) /\ Tally(c, NonePlayed) /\ IsPlayed(NonePlayed)
<1>1. IsRows(<< >>) /\ Len(<< >>) = 0 /\ DOMAIN << >> = {}
  <2>1. << >> \in Seq({}) /\ DOMAIN << >> = {}
    OBVIOUS
  <2>2. QED
    BY <2>1 DEF IsRows
<1>2. RowPlays(<< >>) = 0
  BY <1>1, RowPlaysAre, SumByIs
<1>3. Books(c)
  BY <1>1, <1>2 DEF Blank, Books, Table, Adds
<1>4. NonePlayed.generated = 0 /\ \A card \in Cards : NonePlayed.ordinary[card] = 0
  BY DEF NonePlayed
<1>5. Tally(c, NonePlayed) /\ IsPlayed(NonePlayed)
  BY <1>1, <1>4 DEF Blank, Tally, IsPlayed
<1>6. QED
  BY <1>3, <1>5

\* An engine with a new combat.
LEMMA BlankSound ==
  ASSUME NEW s, Good(s), Blank(s.current), DOMAIN s.arena = ArenaFields, s.arena.entries = NoEntries,
         s.prov.generated = NoEntries, s.prov.orbs = NoEntries
  PROVE  Sound(s)
BY BlankIs, EntriesCredited DEF Sound, Ledger

LEMMA Blanks ==
  /\ Blank(NoCombat) /\ NoCombat.rowsLost = FALSE
  /\ DOMAIN NoArena = ArenaFields /\ NoArena.entries = NoEntries
  /\ NoProvenance.generated = NoEntries /\ NoProvenance.orbs = NoEntries
BY DEF NoCombat, NoArena, NoProvenance, Blank, CombatFields, ArenaFields

LEMMA SoundStep ==
  ASSUME Sound(engine'), engine'.poisoned => ~engine'.coverage.complete, IsPlayed(played'),
         epoch' # 0 /\ Clean(engine') => Tally(engine'.current, played')
  PROVE  BooksInv'
<1>1. Sound(engine)' /\ (Clean(engine)' <=> Clean(engine'))
  BY DEF Sound, Ledger, Good, Table, Books, Adds, Credited, IsSource, IsTo, Clean, Fed
<1>2. QED
  BY <1>1 DEF BooksInv, IsPlayed, Tally, CardKey

LEMMA StartBlank ==
  ASSUME NEW s, Good(s), s.last \in Nat, s.current.seq \in Nat, s.current.seq <= s.last
  PROVE  LET t == CombatStarted(s, s.last + 1, Team).s
         IN  Sound(t) /\ Blank(t.current) /\ ~t.poisoned
<1> DEFINE seq == s.last + 1
           players == IF Team < 0 THEN 0 ELSE IF Team > Team THEN Team ELSE Team
           combat == [NoCombat EXCEPT !.seq = seq, !.phase = "active", !.players = players]
           covered == [complete |-> TRUE, reasons |-> {}]
           died == [i \in 1..players |-> FALSE]
           started == [Discarded(s) EXCEPT !.last = seq, !.poisoned = FALSE, !.current = combat,
                         !.coverage = covered, !.died = died, !.revision = @ + 1]
           t == CombatStarted(s, seq, Team).s
<1>1. Good(t) /\ ~t.poisoned
  BY CombatStartIs
<1>2. t = started \/ t = Failed(started, "player-count")
  <2>1. ~(seq = 0 \/ seq <= s.last \/ (s.current # NoCombat /\ s.current.seq >= seq))
    OBVIOUS
  <2>2. CombatStarted(s, seq, Team)
          = IF seq = 0 \/ seq <= s.last \/ (s.current # NoCombat /\ s.current.seq >= seq)
            THEN Accept(Failed(s, "combat-epoch"), Zero)
            ELSE Accept(IF Team = players THEN started ELSE Failed(started, "player-count"), Number(seq))
    BY DEF CombatStarted
  <2> HIDE DEF seq, started, players
  <2>3. QED
    BY <2>1, <2>2 DEF Accept
<1>3. Blank(combat)
  BY Blanks DEF Blank, CombatFields
<1> HIDE DEF combat, covered, died, t
<1>4. /\ DOMAIN started = Fields /\ started.current = combat /\ started.prov = NoProvenance
      /\ started.arena = NoArena
  BY DEF Discarded, Good, Fields
<1> HIDE DEF started, seq
<1>5. \A reason : /\ Failed(started, reason).current = started.current
                  /\ Failed(started, reason).prov = started.prov
                  /\ Failed(started, reason).arena = started.arena
  BY <1>4 DEF Failed, Fields
<1>6. t.current = combat /\ t.prov = NoProvenance /\ t.arena = NoArena
  BY <1>2, <1>4, <1>5
<1>7. Sound(t)
  BY <1>1, <1>3, <1>6, Blanks, BlankSound
<1>8. QED
  BY <1>1, <1>3, <1>6, <1>7 DEF t, seq

LEMMA EndSound ==
  ASSUME NEW s, Sound(s), NEW seq
  PROVE  LET t == CombatEnded(s, seq).s
         IN  Sound(t) /\ t.poisoned = s.poisoned /\ (t.coverage.complete => s.coverage.complete)
<1> DEFINE e == ProvenanceEpoch(s, seq)
           c == [e.s.current EXCEPT !.phase = Phase(e.s)]
           ended == [e.s EXCEPT !.current.phase = Phase(e.s), !.prov = NoProvenance,
                                !.arena.entries = NoEntries]
           t == CombatEnded(s, seq).s
<1>1. Keeps(s, e.s)
  BY EpochKeeps
<1>2. t = e.s \/ t = ended
  BY DEF CombatEnded, EndCombatIn, Accept
<1>3. Good(t)
  BY CombatEndIs DEF Sound
<1> HIDE DEF e, t
<1>4. CASE t = e.s
  BY <1>1, <1>4 DEF Keeps, t
<1>5. CASE t = ended
  <2>1. Sound(e.s)
    BY <1>1, KeepsSound
  <2>2. /\ ended.current = c /\ ended.prov = NoProvenance /\ ended.coverage = e.s.coverage
        /\ ended.poisoned = e.s.poisoned
        /\ DOMAIN ended.arena = ArenaFields /\ ended.arena.entries = NoEntries
    BY <2>1 DEF Sound, Good, Ledger, Fields, ArenaFields
  <2>3. /\ DOMAIN c = CombatFields /\ c.rows = e.s.current.rows /\ c.plays = e.s.current.plays
        /\ c.generatedPlays = e.s.current.generatedPlays /\ c.triggers = e.s.current.triggers
    BY <2>1 DEF Sound, Good, CombatFields
  <2> HIDE DEF ended, c
  <2>4. Books(c)
    BY <2>1, <2>3 DEF Sound, Ledger, Books, Table, Adds
  <2>5. Sound(t)
    BY <1>3, <1>5, <2>2, <2>4, Blanks, EntriesCredited DEF Sound, Ledger
  <2>6. QED
    BY <1>1, <1>5, <2>2, <2>5 DEF Keeps, t
<1>6. QED
  BY <1>2, <1>4, <1>5

LEMMA CombatsBook ==
  ASSUME PlaysInv, BooksInv, StartCombat \/ EndCombat \/ Abandon \/ Panic
  PROVE  BooksInv'
<1>1. /\ Good(engine) /\ engine.last \in Nat /\ engine.current.seq \in Nat
      /\ engine.current.seq <= engine.last
  BY DEF PlaysInv, EngineInv
<1>2. /\ Sound(engine) /\ (engine.poisoned => ~engine.coverage.complete) /\ IsPlayed(played)
  BY DEF BooksInv
<1>3. CASE StartCombat
  <2> DEFINE t == CombatStarted(engine, engine.last + 1, Team).s
  <2>1. engine' = t /\ played' = NonePlayed
    BY <1>3 DEF StartCombat
  <2>2. Sound(t) /\ Blank(t.current) /\ ~t.poisoned
    BY <1>1, StartBlank
  <2> HIDE DEF t
  <2>3. QED
    BY <2>1, <2>2, BlankIs, SoundStep
<1>4. CASE EndCombat
  <2> DEFINE t == CombatEnded(engine, epoch).s
  <2>1. engine' = t /\ played' = played /\ epoch' = 0
    BY <1>4 DEF EndCombat
  <2>2. Sound(t) /\ t.poisoned = engine.poisoned /\ (t.coverage.complete => engine.coverage.complete)
    BY <1>2, EndSound
  <2> HIDE DEF t
  <2>3. QED
    BY <1>2, <2>1, <2>2, SoundStep
<1>5. CASE Abandon
  <2> DEFINE t == Discarded(engine)
  <2>1. engine' = t /\ played' = played /\ epoch' = 0
    BY <1>5 DEF Abandon
  <2>2. /\ t.current = NoCombat /\ t.arena = NoArena /\ t.prov = NoProvenance
        /\ t.poisoned = engine.poisoned /\ t.coverage = engine.coverage
    BY <1>1 DEF Discarded, Good, Fields
  <2>3. Good(t)
    BY <1>1, DiscardIs
  <2> HIDE DEF t
  <2>4. Sound(t)
    BY <2>2, <2>3, Blanks, BlankSound
  <2>5. QED
    BY <1>2, <2>1, <2>2, <2>4, SoundStep
<1>6. CASE Panic
  <2> DEFINE s == [engine EXCEPT !.poisoned = TRUE]
             t == Failed(s, "native-panic")
  <2>1. engine' = t /\ played' = played
    BY <1>6 DEF Panic
  <2>2. /\ DOMAIN s = Fields /\ s.current = engine.current /\ s.prov = engine.prov
        /\ s.arena = engine.arena
    BY <1>1 DEF Good, Fields
  <2> HIDE DEF s
  <2>3. Sound(s)
    BY <1>2, <2>2 DEF Sound, Good, Ledger, Known
  <2>4. Keeps(s, t) /\ ~Clean(t) /\ ~t.coverage.complete
    BY <2>3, FailedKeeps
  <2> HIDE DEF t
  <2>5. QED
    BY <1>2, <2>1, <2>4, KeepsSound, SoundStep
<1>7. QED
  BY <1>3, <1>4, <1>5, <1>6

LEMMA InitBooks ==
  ASSUME Init
  PROVE  BooksInv
<1>1. engine = Fresh /\ epoch = 0 /\ played = NonePlayed
  BY DEF Init
<1>2. /\ Fresh.current = NoCombat /\ Fresh.prov = NoProvenance /\ Fresh.arena = NoArena
      /\ Fresh.poisoned = FALSE
  BY DEF Fresh
<1>3. Good(engine)
  BY InitInv DEF PlaysInv, EngineInv
<1>4. Sound(engine)
  BY <1>1, <1>2, <1>3, Blanks, BlankSound
<1>5. IsPlayed(played)
  BY <1>1, Blanks, BlankIs
<1>6. QED
  BY <1>1, <1>2, <1>4, <1>5 DEF BooksInv

\* Every state of the plays has its ledger right: the rows have keys of their own, what
\* is booked adds up, every source has one destination, and while nothing was refused
\* the rows have the plays that were announced.
THEOREM BooksInvariant == Spec => []BooksInv
<1>1. Init => BooksInv
  BY InitBooks
<1>2. PlaysInv /\ BooksInv /\ [Next]_vars => BooksInv'
  <2>1. SUFFICES ASSUME PlaysInv, BooksInv, [Next]_vars PROVE BooksInv'
    OBVIOUS
  <2>2. CASE \E g \in Flows, potion \in BOOLEAN :
                \E inherited \in Inherited : Wrapper(inherited, g, potion)
    <3>1. UNCHANGED <<engine, epoch, played>>
      BY <2>2 DEF Wrapper
    <3>2. QED
      BY <2>1, <3>1, IdleStep
  <2>3. CASE (\E f, g \in Flows : Fork(f, g)) \/ \E f \in Flows : Join(f)
    <3>1. UNCHANGED <<engine, epoch, played>>
      BY <2>3 DEF Fork, Join
    <3>2. QED
      BY <2>1, <3>1, IdleStep
  <2>4. CASE \E f \in Flows : EndEffect(f) \/ \E card \in Cards : Finished(f, card)
    BY <2>1, <2>4, FlowsBook
  <2>5. CASE \E f \in Flows, card \in Cards : Started(f, card) \/ Generated(f, card)
    BY <2>1, <2>5, StartedBooks, GeneratedBooks
  <2>6. CASE \E f \in Flows, orb \in Orbs : Channeled(f, orb) \/ Orb(f, orb)
    BY <2>1, <2>6, OrbsBook
  <2>7. CASE StartCombat \/ EndCombat \/ Abandon \/ Panic
    BY <2>1, <2>7, CombatsBook
  <2>8. CASE UNCHANGED vars
    <3>1. UNCHANGED <<engine, epoch, played>>
      BY <2>8 DEF vars
    <3>2. QED
      BY <2>1, <3>1, IdleStep
  <2>9. QED
    BY <2>1, <2>2, <2>3, <2>4, <2>5, <2>6, <2>7, <2>8 DEF Next
<1>3. QED
  BY <1>1, <1>2, PlaysInvariant, PTL DEF Spec

----------------------------------------------------------------------------
(***************************************************************************)
(* The theorems.                                                           *)
(***************************************************************************)
\* The plays that the engine has open are those of the frames of the wrappers that run
\* (PlayCapture.cs and play.rs, card_play_started to card_execution_ended).
THEOREM OpenPlaysRun == Spec => []OpenPlaysAreRunning
<1>1. PlaysInv => OpenPlaysAreRunning
  <2>1. SUFFICES ASSUME PlaysInv, Active(engine), ~engine.poisoned PROVE OpenPlaysAreRunning
    BY DEF OpenPlaysAreRunning
  <2> DEFINE seq == engine.current.seq
             opens == OpenPlays(engine)
  <2>2. Running(flows, seq, opens, engine.prov.serial)
    BY <2>1 DEF PlaysInv, RunInv, On
  <2>3. ASSUME NEW p \in engine.prov.plays
        PROVE  \E f \in Flows : flows[f].owner /\ flows[f].execution.epoch = seq
                                /\ flows[f].execution.identity = p.execution
    <3>1. <<p.serial, p.execution, p.slot>> \in opens
      BY DEF OpenPlays
    <3>2. \E f \in Flows : Runs(flows[f], seq, <<p.serial, p.execution, p.slot>>[2])
      BY <2>2, <3>1 DEF Running, Wrapped
    <3>3. QED
      BY <3>2 DEF Runs
  <2>4. ASSUME NEW f \in Flows, flows[f].owner, NEW frame \in Range(flows[f].chain),
               frame.epoch = seq, frame.token # Zero
        PROVE  \E p \in engine.prov.plays :
                 p.serial = frame.token.payload /\ p.execution = frame.execution
                 /\ p.slot = frame.slot
    <3>1. PICK i \in DOMAIN flows[f].chain : frame = flows[f].chain[i]
      BY DEF Range
    <3>2. i \in Nat
      <4>1. PICK S : flows[f].chain \in Seq(S)
        BY <2>1 DEF PlaysInv, FlowsInv, IsFlow
      <4>2. DOMAIN flows[f].chain = 1..Len(flows[f].chain) /\ Len(flows[f].chain) \in Nat
        BY <4>1
      <4>3. QED
        BY <4>2
    <3>3. Bears(flows[f], i, seq)
      BY <2>4, <3>1 DEF Bears
    <3>4. PlayOf(frame) \in opens
      BY <2>2, <3>1, <3>2, <3>3 DEF Running, Borne
    <3>5. QED
      BY <3>4 DEF PlayOf, OpenPlays
  <2>5. QED
    BY <2>3, <2>4 DEF OpenPlaysAreRunning
<1>2. QED
  BY <1>1, PlaysInvariant, PTL

\* The patches and the engine know the same generated cards, and no orb that the
\* patches have given up (ProvenanceCapture.cs, CommandCapture.cs and play.rs).
THEOREM KnownOnBothSides == Spec => []KnownAlike
<1>1. PlaysInv => KnownAlike
  BY DEF PlaysInv, KnownInv
<1>2. QED
  BY <1>1, PlaysInvariant, PTL

\* A flow of an old combat does nothing to the engine (PlayCapture.cs EndEffectPrefix and
\* CaptureRuntime.EntryEpoch): what it has inherited is never valid.
THEOREM LateFlows == Spec => LateFlowsAreInert
<1>1. ASSUME [Next]_vars
      PROVE  [\A f \in Flows : Stale(flows[f].execution.epoch) /\ Handler(f) => engine' = engine]_vars
  <2>1. SUFFICES ASSUME NEW f \in Flows, Stale(flows[f].execution.epoch), Handler(f)
                 PROVE  engine' = engine
    OBVIOUS
  <2>2. ~Valid(flows[f].execution.epoch) /\ ~Valid(EntryEpoch(f))
    BY <2>1 DEF Stale, Valid, EntryEpoch
  <2>3. ~(\E card \in Cards : Started(f, card) \/ Finished(f, card) \/ Generated(f, card))
    BY <2>2 DEF Started, Finished, Generated
  <2>4. ~(\E orb \in Orbs : Channeled(f, orb) \/ Orb(f, orb))
    BY <2>2 DEF Channeled, Orb
  <2>5. CASE EndEffect(f)
    BY <2>2, <2>5 DEF EndEffect
  <2>6. QED
    BY <2>1, <2>3, <2>4, <2>5 DEF Handler
<1>2. QED
  BY <1>1, PTL DEF Spec, LateFlowsAreInert

\* The plays and the generation triggers of a combat are its rows' plays and the generated
\* plays, whatever calls were refused and when (play.rs, card_play_started and
\* card_generated: what a refused call has booked by then stays booked).
THEOREM CountersAddUp == Spec => []PlaysAddUp
<1>1. BooksInv => PlaysAddUp
  BY DEF BooksInv, Sound, Ledger, Books, Adds, PlaysAddUp
<1>2. QED
  BY <1>1, BooksInvariant, PTL

\* An export that says it is complete has counted every play the game announced of each
\* card in the one row of its name, and those of generated cards apart (PlayCapture.cs
\* Started, play.rs card_play_started, ledger.rs and snapshot_coverage of coverage.rs).
THEOREM CompleteExportsAreCounted == Spec => []CompleteMeansCounted
<1>1. BooksInv => CompleteMeansCounted
  <2>1. SUFFICES ASSUME BooksInv, epoch # 0, SnapshotCoverage(engine).complete
                 PROVE  CompleteMeansCounted
    BY DEF CompleteMeansCounted
  <2>2. Clean(engine)
    BY <2>1 DEF SnapshotCoverage, Clean
  <2>3. Tally(engine.current, played) /\ Table(engine.current)
    BY <2>1, <2>2 DEF BooksInv, Sound, Ledger, Books
  <2>4. ASSUME NEW card \in Cards
        PROVE  LET rows == RowsOf(engine.current, PlayerOf[card], CardId[card], "card")
               IN  /\ rows = {} => played.ordinary[card] = 0
                   /\ \A i \in rows : engine.current.rows[i].plays = played.ordinary[card]
                   /\ \A i, j \in rows : i = j
    <3> DEFINE rows == RowsOf(engine.current, PlayerOf[card], CardId[card], "card")
    <3>1. \A i : i \in rows <=> /\ i \in DOMAIN engine.current.rows
                                /\ Key(engine.current.rows[i]) = CardKey(card)
      BY DEF RowsOf, Key, CardKey
    <3> HIDE DEF rows
    <3>2. rows = {} => played.ordinary[card] = 0
      BY <2>3, <3>1 DEF Tally
    <3>3. \A i \in rows : engine.current.rows[i].plays = played.ordinary[card]
      BY <2>3, <3>1 DEF Tally
    <3>4. \A i, j \in rows : i = j
      BY <2>3, <3>1 DEF Table
    <3>5. QED
      BY <3>2, <3>3, <3>4 DEF rows
  <2>5. QED
    BY <2>3, <2>4 DEF CompleteMeansCounted, Tally
<1>2. QED
  BY <1>1, BooksInvariant, PTL
=============================================================================
