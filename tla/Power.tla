-------------------------------- MODULE Power --------------------------------
(***************************************************************************)
(* Who supplied the stacks of every attached power: power provenance of    *)
(* the attribution engine, profiler-core/src/data/source/power.rs, in one  *)
(* combat.                                                                 *)
(*                                                                         *)
(* A source is the set of roots it credits; how its weights are kept and   *)
(* an amount split by them is left out here.  The grants of a power are    *)
(* written as the FIFO queue of their single stacks: grant (n, s) is n     *)
(* stacks of s in a row.  Nothing is lost by it, because the code never    *)
(* keeps two neighbouring grants of one source (a new grant is merged with *)
(* an equal last one, and stacks leave at the head), so the grants are the *)
(* runs of equal stacks.                                                   *)
(***************************************************************************)
EXTENDS Integers, Sequences, FiniteSetsExt

CONSTANTS
  Powers,          \* power instances: one identity per game object
  DoomPowers,      \* those whose ID is DOOM_POWER, on an enemy
  StrengthPowers,  \* STRENGTH_POWER, on an enemy
  PoisonPowers,    \* POISON_POWER
  Creatures,       \* who can own a power
  Roots,           \* the credited rows
  Unknown,         \* the TEAM row that stands for no known supplier
  Inputs,          \* the sources a call brings
  MaxAmount,       \* a call reports amounts up to MaxAmount (i32::MAX)
  MaxDebt,         \* and down to -MaxDebt (i32::MIN)
  MaxPowers,       \* POWER_INSTANCES
  MaxLayers,       \* POWER_GRANTS_PER_INSTANCE
  MaxExtra,        \* POWER_GRANTS_TOTAL - POWER_INSTANCES
  MaxRoots,        \* SOURCE_DESTINATIONS
  MaxReductions,   \* STR_REDUCTIONS
  MaxBatches,      \* DOOM_BATCHES
  MaxSerial,       \* PAYLOAD_MAX
  MaxTargets,      \* DOOM_TARGETS
  MaxHp,           \* bound on the hit points of a doomed creature
  MaxOwed,         \* bound on the history owed
  None             \* no earlier amount

Sources       == (SUBSET (Roots \cup {Unknown})) \ {{}}
UnknownSource == {Unknown}
Serials       == 1..MaxSerial
Amounts       == (-MaxDebt)..MaxAmount

ASSUME PowerConstants ==
  /\ DoomPowers \cup StrengthPowers \cup PoisonPowers \subseteq Powers
  /\ Unknown \notin Roots
  /\ IsFiniteSet(Roots)
  /\ Inputs \subseteq Sources
  /\ {MaxAmount, MaxDebt} \subseteq Nat
  /\ None \notin Int
  /\ {MaxPowers, MaxRoots, MaxLayers} \subseteq Nat \ {0}
  /\ {MaxExtra, MaxReductions, MaxBatches, MaxSerial, MaxTargets, MaxHp, MaxOwed} \subseteq Nat

VARIABLES
  powers,        \* the attached powers the engine knows
  reductions,    \* what took Strength from enemies, and has not been undone
  batches,       \* the open Doom batches: their targets, and whether one was lost
  serial,        \* doom_serial
  failed,        \* has a failure been reported in this combat?
  owed,          \* history: Doom stacks accepted from a source less those credited to it
  peak           \* history: the highest Strength since the engine trusts the power, or 0

vars == <<powers, reductions, batches, serial, failed, owed, peak>>

Grants    == Seq(Sources)
PowerInfo == [owner : Creatures, observed : Int, grants : Grants, source : Sources, trusted : BOOLEAN]
Reduction == [power : Powers, creature : Creatures, amount : Nat \ {0}, source : Sources]
Batch     == [whole : BOOLEAN, targets : Seq([creature : Creatures, power : Powers,
                                            stacks : Grants, rest : Nat])]

----------------------------------------------------------------------------
(***************************************************************************)
(* Grants.                                                                 *)
(***************************************************************************)
Whole(amount) == IF amount > 0 THEN amount ELSE 0

Units(n, s) == [i \in 1..n |-> s]

\* Where a grant ends and another begins: one grant less than the queue has layers.
Boundaries(q) == {i \in 1..(Len(q) - 1) : q[i] # q[i + 1]}

Mixture(q) == UNION {q[i] : i \in DOMAIN q}

\* Mutant: stacks leave at the tail.
ConsumeLast(q, n) == SubSeq(q, 1, Len(q) - n)

Consume(q, n) == SubSeq(q, n + 1, Len(q))

\* The grants after the amount went from before to after at the hand of source s.
Moved(q, before, after, s) ==
  IF Whole(after) < Whole(before) THEN Consume(q, Whole(before) - Whole(after))
  ELSE q \o Units(Whole(after) - Whole(before), s)

\* The layer ends of all powers but p.
OtherBoundaries(p) ==
  UNION {{<<o, i>> : i \in Boundaries(powers[o].grants)} : o \in DOMAIN powers \ {p}}

\* Mutant: the limit on all powers together is not looked at.
CrowdedAlone(p, q) == Cardinality(Boundaries(q)) >= MaxLayers

Crowded(p, q) ==
  \/ Cardinality(Boundaries(q)) >= MaxLayers
  \/ Cardinality(OtherBoundaries(p)) + Cardinality(Boundaries(q)) > MaxExtra

Fitted(p, q, after) == IF Crowded(p, q) THEN Units(Whole(after), UnknownSource) ELSE q

\* refresh_source: grants of more roots than a source can name become Unknown.
TooWide(q) == Cardinality(Mixture(q)) > MaxRoots

Settled(q) == IF TooWide(q) THEN Units(Len(q), UnknownSource) ELSE q

Refreshed(q, s) == IF q = <<>> THEN s ELSE Mixture(q)

----------------------------------------------------------------------------
(***************************************************************************)
(* Reductions of an enemy's Strength.                                      *)
(***************************************************************************)
\* The entries of a power; the entries at some places, in order; what those add up to.
EntriesOf(rs, p) == {i \in DOMAIN rs : rs[i].power = p}

Selected(rs, places) ==
  LET kept[n \in 0..Len(rs)] ==
        IF n = 0 THEN <<>> ELSE IF n \in places THEN Append(kept[n - 1], rs[n]) ELSE kept[n - 1]
  IN  kept[Len(rs)]

AmountOf(rs, places) ==
  LET sum[n \in 0..Len(rs)] ==
        IF n = 0 THEN 0 ELSE sum[n - 1] + (IF n \in places THEN rs[n].amount ELSE 0)
  IN  sum[Len(rs)]

Without(rs, p) == Selected(rs, DOMAIN rs \ EntriesOf(rs, p))

Matching(rs, p, c, s) == {i \in DOMAIN rs : rs[i].power = p /\ rs[i].creature = c /\ rs[i].source = s}

Lowered(rs, p, c, n, s) ==
  IF Matching(rs, p, c, s) = {} THEN Append(rs, [power |-> p, creature |-> c, amount |-> n, source |-> s])
  ELSE [rs EXCEPT ![Min(Matching(rs, p, c, s))].amount = @ + n]

\* What a rise by n takes from entry i: the later entries of the creature come first.
Taken(rs, c, n, i) ==
  LET later == {j \in DOMAIN rs : j > i /\ rs[j].creature = c}
      left  == Whole(n - AmountOf(rs, later))
  IN  IF rs[i].creature = c THEN Min({left, rs[i].amount}) ELSE 0

Lessened(rs, c, n) == [i \in DOMAIN rs |-> [rs[i] EXCEPT !.amount = @ - Taken(rs, c, n, i)]]

Raised(rs, c, n) ==
  LET less == Lessened(rs, c, n) IN Selected(less, {i \in DOMAIN less : less[i].amount > 0})

\* strength_transition; it refuses a further entry when the table is full.
Shifted(rs, p, c, delta, s) ==
  IF delta < 0 THEN Lowered(rs, p, c, -delta, s) ELSE Raised(rs, c, delta)

Full(rs, p, c, delta, s) ==
  delta < 0 /\ Matching(rs, p, c, s) = {} /\ Len(rs) = MaxReductions

----------------------------------------------------------------------------
(***************************************************************************)
(* A reported change.  old = None: the power was attached.  A power whose  *)
(* earlier amount is not the one last observed, or that was invalidated,   *)
(* has drifted: what it held before is nobody's.                           *)
(***************************************************************************)
Before(old) == IF old = None THEN 0 ELSE old

Drifted(p, old) ==
  IF p \in DOMAIN powers THEN ~powers[p].trusted \/ powers[p].observed # Before(old)
  ELSE old # None

\* Mutant: a drifted power keeps its grants.
HeldDrifted(p, old) == IF p \in DOMAIN powers THEN powers[p].grants ELSE <<>>

Held(p, old) ==
  IF Drifted(p, old) THEN Units(Whole(Before(old)), UnknownSource)
  ELSE IF p \in DOMAIN powers THEN powers[p].grants ELSE <<>>

HeldSource(p, old, s) ==
  IF Drifted(p, old) THEN UnknownSource
  ELSE IF p \in DOMAIN powers THEN powers[p].source ELSE s

\* Mutant: a drifted power keeps its reductions.
HeldReductionsDrifted(p, old) == reductions

HeldReductions(p, old) ==
  IF Drifted(p, old) THEN Without(reductions, p) ELSE reductions

Refused(p, owner, old, new, s) ==
  \/ /\ p \in DOMAIN powers
     /\ old = None \/ powers[p].owner # owner
  \/ p \notin DOMAIN powers /\ Cardinality(DOMAIN powers) >= MaxPowers
  \/ p \in StrengthPowers /\ Full(HeldReductions(p, old), p, owner, new - Before(old), s)

Distrusted(p) ==
  [q \in DOMAIN powers |-> IF q = p THEN [powers[q] EXCEPT !.trusted = FALSE] ELSE powers[q]]

----------------------------------------------------------------------------
(***************************************************************************)
(* Calls.                                                                  *)
(***************************************************************************)
Init ==
  /\ powers = [p \in {} |-> None]
  /\ reductions = <<>>
  /\ batches = [b \in {} |-> None]
  /\ serial = 0
  /\ failed = FALSE
  /\ owed = [s \in Sources |-> 0]
  /\ peak = [p \in Powers |-> 0]

\* combat_started: the first call of a new combat drops the provenance of the last.
CombatStarted ==
  /\ powers' = [p \in {} |-> None]
  /\ reductions' = <<>>
  /\ batches' = [b \in {} |-> None]
  /\ serial' = 0
  /\ failed' = FALSE
  /\ owed' = [s \in Sources |-> 0]
  /\ peak' = [p \in Powers |-> 0]

\* A call, or a batch token, of another combat.
Stale == failed' = TRUE /\ UNCHANGED <<powers, reductions, batches, serial, owed, peak>>

PowerInvalidated(p) ==
  /\ powers' = Distrusted(p)
  /\ reductions' = Without(reductions, p)
  /\ peak' = [peak EXCEPT ![p] = 0]

\* Bound of the history: what a Doom power was supplied and has not been credited.
Gain(p, old, new) == IF p \in DoomPowers THEN Whole(Whole(new) - Whole(Before(old))) ELSE 0

Accept(p, owner, old, new, s) ==
  LET moved  == Moved(Held(p, old), Before(old), new, s)
      fitted == Fitted(p, moved, new)
      grants == Settled(fitted)
      after  == [ owner    |-> owner,
                  observed |-> new,
                  grants   |-> grants,
                  source   |-> Refreshed(grants, HeldSource(p, old, s)),
                  trusted  |-> TRUE ]
  IN  /\ ~Refused(p, owner, old, new, s)
      /\ powers' = [q \in DOMAIN powers \cup {p} |-> IF q = p THEN after ELSE powers[q]]
      /\ reductions' = IF p \in StrengthPowers
                       THEN Shifted(HeldReductions(p, old), p, owner, new - Before(old), s)
                       ELSE reductions
      /\ failed' = (failed \/ Drifted(p, old) \/ Crowded(p, moved) \/ TooWide(fitted))
      /\ owed' = [owed EXCEPT ![s] = @ + Gain(p, old, new)]
      /\ peak' = IF p \in StrengthPowers
                 THEN [peak EXCEPT ![p] = Max({new, IF Drifted(p, old) THEN Before(old) ELSE @})]
                 ELSE peak
      /\ UNCHANGED <<batches, serial>>

\* A refused change costs the power its trust.
Refuse(p, owner, old, new, s) ==
  /\ Refused(p, owner, old, new, s)
  /\ PowerInvalidated(p)
  /\ failed' = TRUE
  /\ UNCHANGED <<batches, serial, owed>>

PowerAttached(p, owner, new, s) ==
  Accept(p, owner, None, new, s) \/ Refuse(p, owner, None, new, s)

PowerAmountChanged(p, owner, old, new, s) ==
  Accept(p, owner, old, new, s) \/ Refuse(p, owner, old, new, s)

PowerInvalidate(p) ==
  /\ PowerInvalidated(p)
  /\ UNCHANGED <<batches, serial, failed, owed>>

PowerRemoved(p) ==
  /\ powers' = [q \in DOMAIN powers \ {p} |-> powers[q]]
  /\ reductions' = Without(reductions, p)
  /\ peak' = [peak EXCEPT ![p] = 0]
  /\ UNCHANGED <<batches, serial, failed, owed>>

(***************************************************************************)
(* Doom kills.  A batch freezes, for every creature about to be killed,    *)
(* the stacks its hit points are credited to; they are spent only when the *)
(* kills are known to have happened.                                       *)
(***************************************************************************)
DoomBatchBegin ==
  IF Cardinality(DOMAIN batches) >= MaxBatches \/ serial = MaxSerial
  THEN Stale
  ELSE /\ serial' = serial + 1
       /\ batches' = [b \in DOMAIN batches \cup {serial + 1} |->
                        IF b = serial + 1 THEN [whole |-> TRUE, targets |-> <<>>] ELSE batches[b]]
       /\ UNCHANGED <<powers, reductions, failed, owed, peak>>

Doomed(targets, c) == \E i \in DOMAIN targets : targets[i].creature = c

\* The stacks of power p that hp hit points of creature c are credited to.
Frozen(c, p, hp) ==
  IF p \in DOMAIN powers \cap DoomPowers /\ powers[p].owner = c /\ powers[p].trusted
  THEN SubSeq(powers[p].grants, 1, Min({hp, Len(powers[p].grants)})) ELSE <<>>

DoomTargetCapture(b, c, p, hp) ==
  LET targets == batches[b].targets
      stacks  == Frozen(c, p, hp)
      refused == ~batches[b].whole \/ hp < 0 \/ Len(targets) = MaxTargets \/ Doomed(targets, c)
  IN  /\ b \in DOMAIN batches
      /\ batches' = [batches EXCEPT ![b] =
           IF refused THEN [whole |-> FALSE, targets |-> <<>>]
           ELSE [whole |-> TRUE,
                 targets |-> Append(targets, [creature |-> c, power |-> p, stacks |-> stacks,
                                              rest |-> hp - Len(stacks)])]]
      /\ failed' = (failed \/ refused)
      /\ UNCHANGED <<powers, reductions, serial, owed, peak>>

Closed(b) == [o \in DOMAIN batches \ {b} |-> batches[o]]

\* How many stacks a committed batch takes from power p.
Debit(targets, p) ==
  LET mine == {i \in DOMAIN targets : targets[i].power = p /\ targets[i].creature = powers[p].owner}
  IN  IF mine = {} THEN 0 ELSE Len(targets[Min(mine)].stacks)

Spent(targets, p) ==
  LET grants == Settled(Consume(powers[p].grants, Debit(targets, p)))
  IN  [powers[p] EXCEPT !.grants = grants, !.source = Refreshed(grants, powers[p].source)]

\* How many stacks of source s a batch credits.
Credited(targets, s) ==
  Cardinality(UNION {{<<i, j>> : j \in {k \in DOMAIN targets[i].stacks : targets[i].stacks[k] = s}} :
                     i \in DOMAIN targets})

\* The ledger takes the whole batch or, being full or closed, nothing.
DoomKillsCompleted(b, booked) ==
  LET targets == batches[b].targets
      done    == batches[b].whole /\ booked
  IN  /\ b \in DOMAIN batches
      /\ batches' = Closed(b)
      /\ powers' = IF done THEN [p \in DOMAIN powers |-> Spent(targets, p)] ELSE powers
      /\ owed' = IF done THEN [s \in Sources |-> owed[s] - Credited(targets, s)] ELSE owed
      /\ failed' = (failed \/ ~done)
      /\ UNCHANGED <<reductions, serial, peak>>

DoomBatchAbort(b) ==
  /\ b \in DOMAIN batches
  /\ batches' = Closed(b)
  /\ UNCHANGED <<powers, reductions, serial, failed, owed, peak>>

(***************************************************************************)
(* Whatever the host reports, in any order.  Assumed of it: a creature     *)
(* about to be killed by one open batch is not captured by another.        *)
(***************************************************************************)
Change ==
  \E p \in Powers, owner \in Creatures, new \in Amounts, s \in Inputs :
    \/ owed[s] + Gain(p, None, new) <= MaxOwed /\ PowerAttached(p, owner, new, s)
    \/ \E old \in Amounts :
         owed[s] + Gain(p, old, new) <= MaxOwed /\ PowerAmountChanged(p, owner, old, new, s)

Capture ==
  \E b \in DOMAIN batches, c \in Creatures, p \in Powers, hp \in (-1)..MaxHp :
    /\ \A o \in DOMAIN batches \ {b} : ~Doomed(batches[o].targets, c)
    /\ DoomTargetCapture(b, c, p, hp)

Next ==
  \/ Change
  \/ \E p \in Powers : PowerInvalidate(p) \/ PowerRemoved(p)
  \/ DoomBatchBegin
  \/ Capture
  \/ \E b \in DOMAIN batches : DoomBatchAbort(b) \/ \E booked \in BOOLEAN : DoomKillsCompleted(b, booked)
  \/ Stale
  \/ CombatStarted

Spec == Init /\ [][Next]_vars

----------------------------------------------------------------------------
(***************************************************************************)
(* Properties.                                                             *)
(***************************************************************************)
\* Layers are limited for a power and for all of them: with one reserved for every power,
\* POWER_GRANTS_TOTAL is never passed, whatever order the powers grow in.
LayersLimited ==
  /\ Cardinality(DOMAIN powers) <= MaxPowers
  /\ \A p \in DOMAIN powers : Cardinality(Boundaries(powers[p].grants)) < MaxLayers
  /\ Cardinality(UNION {{<<p, i>> : i \in Boundaries(powers[p].grants)} : p \in DOMAIN powers}) <= MaxExtra

\* The stacks a power's grants account for are the ones it was last seen with: all of them,
\* or, once Doom kills have spent some that no amount change has reported, no more.
StacksAccountedFor ==
  \A p \in DOMAIN powers :
    /\ Len(powers[p].grants) <= Whole(powers[p].observed)
    /\ p \notin DoomPowers => Len(powers[p].grants) = Whole(powers[p].observed)

\* What a capture of the power credits (source_capture): exactly the roots of the suppliers
\* whose stacks are left; the poison of an empty or distrusted power is nobody's.
Captured(p) ==
  IF p \notin DOMAIN powers THEN UnknownSource
  ELSE IF ~powers[p].trusted \/ (p \in PoisonPowers /\ powers[p].grants = <<>>) THEN UnknownSource
  ELSE powers[p].source

CreditsTheRemaining ==
  \A p \in DOMAIN powers :
    powers[p].trusted /\ powers[p].grants # <<>> => Captured(p) = Mixture(powers[p].grants)

\* No supplier is credited for more Doom than it supplied, nor keeps a stack it was credited
\* for: kills, decay, drift and collapse may come in any order.
StacksOf(s) ==
  UNION {{<<p, i>> : i \in {j \in DOMAIN powers[p].grants : powers[p].grants[j] = s}} :
         p \in DOMAIN powers \cap DoomPowers}

DoomWithinSupply == \A s \in Sources \ {UnknownSource} : Cardinality(StacksOf(s)) <= owed[s]

\* The reductions of a trusted Strength power add up to what it is below its highest amount
\* since it is trusted, and no other power has any.  (An enemy has one Strength power.)
StandingReductions ==
  /\ \A p \in DOMAIN powers \cap StrengthPowers :
       powers[p].trusted =>
         AmountOf(reductions, EntriesOf(reductions, p)) = peak[p] - powers[p].observed
  /\ \A i \in DOMAIN reductions : LET p == reductions[i].power
                                  IN  p \in DOMAIN powers \cap StrengthPowers /\ powers[p].trusted
=============================================================================
