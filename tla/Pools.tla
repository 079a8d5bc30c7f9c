-------------------------------- MODULE Pools --------------------------------
(***************************************************************************)
(* Defence in the attribution engine: the pools of block and of Osty,      *)
(* profiler-core/src/data/source/pools.rs, and the ledger stage every call *)
(* works on, LedgerStage in profiler-core/src/data/source.rs, within one   *)
(* combat.                                                                 *)
(*                                                                         *)
(* A call opens a stage, whose work is a list of steps; a step may fail,   *)
(* and the stage then puts back what it journaled.  Of the rows the ledger *)
(* keeps only what defence credits.                                        *)
(***************************************************************************)
EXTENDS Apportion, SequencesExt

CONSTANTS
  NumSlots,    \* MAX_PLAYER_SLOTS: the players and, last, the team
  Roots,       \* rows of sources, there from the start
  Osty,        \* the row of Osty itself, made when it is needed
  Snapshots,   \* the sources a call brings: sequences of weighted rows
  Receivers,   \* the slots that calls name
  Amounts,     \* the amounts a call brings
  Modifiers,   \* the modifier lists a gain brings
  Kinds,       \* the results of a damage group: what block met, what Osty met
  MaxResults,  \* bound on the results of one damage group
  MaxCredit,   \* i64::MAX
  MaxRows,     \* COMBAT_CARDS - UNKNOWN_ROWS
  MaxBlocks,   \* BLOCK_POOL
  MaxOsty,     \* OSTY_STACK
  None

Slots           == 1..NumSlots
Team            == NumSlots
UnknownOf(slot) == <<"unknown", slot>>
Rows            == Roots \cup {Osty} \cup {UnknownOf(s) : s \in Slots}
UnknownFor(s)   == <<[to |-> UnknownOf(s), weight |-> 1]>>

Shares  == [to : Rows, weight : Nat \ {0}]
Sources == Seq(Shares) \ {<<>>}

ASSUME PoolConstants ==
  /\ {NumSlots, MaxBlocks} \subseteq Nat \ {0}
  /\ {MaxCredit, MaxRows, MaxOsty, MaxResults} \subseteq Nat
  /\ Snapshots \subseteq Sources
  /\ Receivers \subseteq Slots
  /\ Kinds \subseteq {"hit", "absorb"}
  /\ Amounts \subseteq Nat \ {0}
  /\ Modifiers \subseteq Seq([source : Sources, amount : Nat])
  /\ None \notin Sources \cup Seq([source : Sources, amount : Nat])

VARIABLES
  ledger,      \* the rows there are, and what each has been credited
  pools,       \* the pools there are: one for every slot up to the last used
  blockTotal,  \* all block gained in the combat
  crowded,     \* row_capacity_logged: has a row been refused?
  reported,    \* has a failure been reported?
  stage,       \* the open stage, or None
  before,      \* history: the first four when the stage was opened
  short,       \* history: has a slice been asked for more than it holds?
  shown        \* history: the points and the credits the last call left, see module Points

data == <<ledger, pools, blockTotal, crowded>>
vars == <<data, reported, stage, before, short, shown>>

NoCredit == [gained |-> 0, effective |-> 0, modifier |-> 0]
Credits  == [gained : Int, effective : Int, modifier : Int]

Slice == [source : Sources, original : Nat \ {0}, consumed : Nat]
Block == [source : Sources, base : Nat, paid : Nat, remaining : Nat \ {0}, mods : Seq(Slice)]
Summoned == [source : Sources, paid : Nat, remaining : Nat \ {0}]
Pool  == [blocks : Seq(Block), osty : Seq(Summoned)]

EmptyPool == [blocks |-> <<>>, osty |-> <<>>]

----------------------------------------------------------------------------
(***************************************************************************)
(* Credits of a source.                                                    *)
(***************************************************************************)
Weights(source) == [i \in DOMAIN source |-> source[i].weight]

CreditStep(to, field, amount) == [op |-> "credit", to |-> to, field |-> field, amount |-> amount]

\* What of a sequence has an amount.
Picked(s, amounts) ==
  LET picked[k \in 0..Len(s)] ==
        IF k = 0 THEN <<>>
        ELSE IF amounts[k] = 0 THEN picked[k - 1] ELSE Append(picked[k - 1], s[k])
  IN  picked[Len(s)]

\* One credit for every share that is not empty.
CreditEach(source, field, amounts) ==
  Picked([i \in DOMAIN source |-> CreditStep(source[i].to, field, amounts[i])], amounts)

\* source_credit: the whole amount at once.
SourceCredit(source, field, amount) ==
  CreditEach(source, field, Proportional(amount, Weights(source)))

\* SourcePrefix::credit: the next points of a source that has paid some already.
NextShares(source, paid, amount) ==
  [i \in DOMAIN source |-> Prefix(paid + amount, Weights(source))[i] - Prefix(paid, Weights(source))[i]]

NextCredit(source, field, paid, amount) == CreditEach(source, field, NextShares(source, paid, amount))

----------------------------------------------------------------------------
(***************************************************************************)
(* A block of one gain, or of several in a row of one source: the base of  *)
(* its producer, and the fixed slices of its modifiers.                    *)
(***************************************************************************)
Originals(b) == [i \in DOMAIN b.mods |-> b.mods[i].original]
Consumed(b)  == [i \in DOMAIN b.mods |-> b.mods[i].consumed]
Whole(b)     == b.base + Total(Originals(b))

\* Mutant: every modifier has the floor of its quota.
SlicesAfterFloors(b, n) == [i \in DOMAIN b.mods |-> (b.mods[i].original * n) \div Whole(b)]

\* What the first n points of the block take of every slice.
SlicesAfter(b, n) ==
  IF Len(b.mods) <= 1 THEN [i \in DOMAIN b.mods |-> (b.mods[i].original * n) \div Whole(b)]
  ELSE SubSeq(Prefix(n, Append(Originals(b), b.base)), 1, Len(b.mods))

After(b, take)  == SlicesAfter(b, Whole(b) - b.remaining + take)
Deltas(b, take) == [i \in DOMAIN b.mods |-> After(b, take)[i] - b.mods[i].consumed]
BasePart(b, take) == take - Total(Deltas(b, take))

\* No subtraction goes below zero, the shares of the sources included.
Covers(b, take) ==
  /\ BasePart(b, take) >= 0
  /\ \A x \in Range(NextShares(b.source, b.paid, BasePart(b, take))) : x >= 0
  /\ \A i \in DOMAIN b.mods :
        /\ Deltas(b, take)[i] >= 0
        /\ \A x \in Range(NextShares(b.mods[i].source, b.mods[i].consumed, Deltas(b, take)[i])) : x >= 0

BlockCredits(b, take) ==
  NextCredit(b.source, "effective", b.paid, BasePart(b, take))
    \o FlattenSeq([i \in DOMAIN b.mods |->
         NextCredit(b.mods[i].source, "modifier", b.mods[i].consumed, Deltas(b, take)[i])])

Taken(b, take) ==
  [b EXCEPT !.paid = @ + BasePart(b, take), !.remaining = @ - take,
            !.mods = [i \in DOMAIN @ |-> [@[i] EXCEPT !.consumed = After(b, take)[i]]]]

\* The queue after its head gave some points: an empty block leaves it.
HeadTaken(q, take) ==
  IF q[1].remaining = take THEN Tail(q) ELSE <<Taken(q[1], take)>> \o Tail(q)

LastTaken(q, take) ==
  IF Last(q).remaining = take THEN Front(q)
  ELSE [q EXCEPT ![Len(q)].paid = @ + take, ![Len(q)].remaining = @ - take]

(***************************************************************************)
(* push_block.  The modifiers take at most what was gained.                *)
(***************************************************************************)
ModifierBudget(mods, amount) ==
  LET total == Total([i \in DOMAIN mods |-> mods[i].amount])
  IN  IF total < amount THEN total ELSE amount

NewSlices(mods, amount) ==
  LET budgets == Proportional(ModifierBudget(mods, amount), [i \in DOMAIN mods |-> mods[i].amount])
      slices == [i \in DOMAIN mods |-> [source |-> mods[i].source, original |-> budgets[i], consumed |-> 0]]
  IN  Picked(slices, budgets)

NewBlock(source, amount, mods) ==
  [source |-> source, base |-> amount - ModifierBudget(mods, amount), paid |-> 0,
   remaining |-> amount, mods |-> NewSlices(mods, amount)]

Merges(q, source, amount, mods) ==
  /\ q # <<>>
  /\ ModifierBudget(mods, amount) = 0
  /\ Last(q).mods = <<>>
  /\ Last(q).source = source

Forgotten(slot, b, amount) ==
  [source |-> UnknownFor(slot), base |-> b.remaining + amount, paid |-> 0,
   remaining |-> b.remaining + amount, mods |-> <<>>]

\* Mutant: the points of the merged gain are a block of their own to the prefix.
PushedAnew(q, slot, source, amount, mods) ==
  IF Merges(q, source, amount, mods)
  THEN [q EXCEPT ![Len(q)].base = Last(q).remaining + amount, ![Len(q)].paid = 0,
                 ![Len(q)].remaining = @ + amount]
  ELSE Append(q, NewBlock(source, amount, mods))

Pushed(q, slot, source, amount, mods) ==
  IF Merges(q, source, amount, mods)
  THEN [q EXCEPT ![Len(q)].base = @ + amount, ![Len(q)].remaining = @ + amount]
  ELSE IF Len(q) = MaxBlocks THEN Append(Front(q), Forgotten(slot, Last(q), amount))
  ELSE Append(q, NewBlock(source, amount, mods))

Forgets(q, source, amount, mods) == ~Merges(q, source, amount, mods) /\ Len(q) = MaxBlocks

----------------------------------------------------------------------------
(***************************************************************************)
(* The pools as queues of points with a creditor each.                     *)
(***************************************************************************)
UnitOf(source, n) ==
  LET w == Weights(source)
  IN  source[CHOOSE i \in DOMAIN source : Prefix(n, w)[i] > Prefix(n - 1, w)[i]].to

\* Whom the n-th point of a block credits.
PointLabel(b, n) ==
  LET now == SlicesAfter(b, n)
      was == SlicesAfter(b, n - 1)
      grown == {i \in DOMAIN b.mods : now[i] > was[i]}
  IN  IF grown = {} THEN [to |-> UnitOf(b.source, n - Total(now)), field |-> "effective"]
      ELSE LET i == CHOOSE i \in grown : TRUE
           IN  [to |-> UnitOf(b.mods[i].source, now[i]), field |-> "modifier"]

BlockLabels(b) == [n \in 1..b.remaining |-> PointLabel(b, Whole(b) - b.remaining + n)]

OstyLabels(o) ==
  Reverse([n \in 1..o.remaining |-> [to |-> UnitOf(o.source, o.paid + n), field |-> "effective"]])

PoolOf(slot) == IF slot <= Len(pools) THEN pools[slot] ELSE EmptyPool

CreditOf(r) == IF r \in DOMAIN ledger THEN ledger[r] ELSE NoCredit

PointsNow ==
  [block  |-> [s \in Slots |-> LET q == PoolOf(s).blocks
                               IN  FlattenSeq([k \in DOMAIN q |-> BlockLabels(q[k])])],
   osty   |-> [s \in Slots |-> LET q == PoolOf(s).osty
                               IN  FlattenSeq([k \in DOMAIN q |-> OstyLabels(q[k])])],
   ledger |-> [r \in Rows |-> CreditOf(r)]]

----------------------------------------------------------------------------
(***************************************************************************)
(* The ledger stage.                                                       *)
(***************************************************************************)
\* LedgerStage::new, with the steps of the call.
Open(steps) ==
  /\ stage = None
  /\ stage' = [steps |-> steps, known |-> DOMAIN ledger, rows |-> <<>>,
               count |-> Len(pools), pools |-> <<>>,
               blockTotal |-> blockTotal, crowded |-> crowded, lost |-> FALSE]
  /\ before' = data
  /\ UNCHANGED <<data, short, shown>>

Put(f, x, y) == [z \in DOMAIN f \cup {x} |-> IF z = x THEN y ELSE f[z]]

\* row: the first touch of a row that was there journals it.
RowJournal(to) ==
  IF to \in stage.known \ DOMAIN stage.rows THEN Put(stage.rows, to, ledger[to]) ELSE stage.rows

\* Mutant: a pool is journaled only while it is empty.
PoolJournalEmpty(slot) ==
  IF slot <= stage.count /\ slot \notin DOMAIN stage.pools /\ pools[slot] = EmptyPool
  THEN Put(stage.pools, slot, pools[slot]) ELSE stage.pools

\* pool: the first touch of a pool that was there journals it; missing ones are made.
PoolJournal(slot) ==
  IF slot <= stage.count /\ slot \notin DOMAIN stage.pools
  THEN Put(stage.pools, slot, pools[slot]) ELSE stage.pools

WithPool(slot, pool) ==
  [s \in 1..(IF slot > Len(pools) THEN slot ELSE Len(pools)) |-> IF s = slot THEN pool ELSE PoolOf(s)]

\* Drop of a stage that was not committed.
RestoredLedger == [r \in stage.known |-> IF r \in DOMAIN stage.rows THEN stage.rows[r] ELSE ledger[r]]

RestoredPools ==
  [s \in 1..stage.count |-> IF s \in DOMAIN stage.pools THEN stage.pools[s] ELSE pools[s]]

Restored == <<RestoredLedger, RestoredPools, stage.blockTotal, stage.crowded>>

RollBack ==
  /\ ledger' = RestoredLedger
  /\ pools' = RestoredPools
  /\ blockTotal' = stage.blockTotal
  /\ crowded' = stage.crowded
  /\ stage' = None
  /\ before' = None
  /\ reported' = TRUE
  /\ UNCHANGED shown

\* The next step of the stage; a step says what is left to do.
Doing(op) == stage # None /\ stage.steps # <<>> /\ Head(stage.steps).op = op

Rest == Tail(stage.steps)

\* A step that touches no pool, and one that leaves pool in place of the pool of slot:
\* a slot there is, for every call clamps the one it is given.
Proceed(steps) ==
  /\ stage' = [stage EXCEPT !.steps = steps]
  /\ UNCHANGED <<pools, before, short, shown>>

ProceedWith(slot, pool, steps, lost) ==
  /\ slot \in Slots
  /\ pools' = WithPool(slot, pool)
  /\ stage' = [stage EXCEPT !.steps = steps, !.pools = PoolJournal(slot), !.lost = @ \/ lost]
  /\ UNCHANGED <<ledger, blockTotal, crowded, before, shown>>

InRange(n) == n \in (-MaxCredit - 1)..MaxCredit

\* arithmetic_representable: the sums over rows, of either sign, and over the fields of a row.
Defense(c) == c.effective + c.modifier

FieldSum(f(_), keep(_)) ==
  SumFunction([r \in DOMAIN ledger |-> IF keep(f(ledger[r])) THEN f(ledger[r]) ELSE 0])

Summable(f(_)) ==
  InRange(FieldSum(f, LAMBDA n : n > 0)) /\ InRange(FieldSum(f, LAMBDA n : n < 0))

Representable ==
  /\ \A r \in DOMAIN ledger : InRange(Defense(ledger[r]))
  /\ Summable(LAMBDA c : c.gained)
  /\ Summable(LAMBDA c : c.effective)
  /\ Summable(LAMBDA c : c.modifier)
  /\ Summable(Defense)

Commit ==
  /\ stage # None
  /\ stage.steps = <<>>
  /\ Representable
  /\ stage' = None
  /\ before' = None
  /\ reported' = (reported \/ stage.lost)
  /\ shown' = PointsNow
  /\ UNCHANGED <<data, short>>

FailCommit ==
  /\ stage # None
  /\ stage.steps = <<>>
  /\ ~Representable
  /\ RollBack
  /\ UNCHANGED short

----------------------------------------------------------------------------
(***************************************************************************)
(* The steps of a stage.                                                   *)
(***************************************************************************)
CountGain ==
  /\ Doing("count")
  /\ LET total == blockTotal + Head(stage.steps).amount
     IN  \/ /\ InRange(total)
            /\ blockTotal' = total
            /\ Proceed(Rest)
            /\ UNCHANGED <<ledger, crowded, reported>>
         \/ ~InRange(total) /\ RollBack /\ UNCHANGED short

\* credit: a row of no supplier is made when it is first credited.
Credit ==
  /\ Doing("credit")
  /\ LET step == Head(stage.steps)
         row  == IF step.to \in DOMAIN ledger THEN ledger[step.to] ELSE NoCredit
         sum  == row[step.field] + step.amount
     IN  \/ /\ InRange(sum)
            /\ ledger' = Put(ledger, step.to, [row EXCEPT ![step.field] = sum])
            /\ stage' = [stage EXCEPT !.steps = Rest, !.rows = RowJournal(step.to)]
            /\ UNCHANGED <<pools, blockTotal, crowded, reported, before, short, shown>>
         \/ ~InRange(sum) /\ RollBack /\ UNCHANGED short

Push ==
  /\ Doing("push")
  /\ LET step == Head(stage.steps)
         pool == PoolOf(step.slot)
     IN  ProceedWith(step.slot,
                     [pool EXCEPT !.blocks = Pushed(@, step.slot, step.source, step.amount, step.mods)],
                     Rest, Forgets(pool.blocks, step.source, step.amount, step.mods))
  /\ UNCHANGED <<reported, short>>

\* consume_block, and the loop of block_pool_loss: one turn of the loop.
TakeBlock ==
  /\ Doing("hit") \/ Doing("lose")
  /\ LET step == Head(stage.steps)
         pool == PoolOf(step.slot)
         head == Head(pool.blocks)
         take == IF step.amount < head.remaining THEN step.amount ELSE head.remaining
         rest == IF step.amount = take THEN Rest
                 ELSE <<[step EXCEPT !.amount = @ - take]>> \o Rest
     IN  /\ pool.blocks # <<>>
         /\ \/ /\ Covers(head, take)
               /\ ProceedWith(step.slot, [pool EXCEPT !.blocks = HeadTaken(@, take)],
                              (IF step.op = "hit" THEN BlockCredits(head, take) ELSE <<>>) \o rest, FALSE)
               /\ UNCHANGED <<reported, short>>
            \/ ~Covers(head, take) /\ RollBack /\ short' = TRUE

\* No block is left: a hit credits the receiver's Unknown row, and either is reported.
NoBlockLeft ==
  /\ Doing("hit") \/ Doing("lose")
  /\ LET step == Head(stage.steps)
     IN  /\ PoolOf(step.slot).blocks = <<>>
         /\ ProceedWith(step.slot, PoolOf(step.slot),
                        (IF step.op = "hit"
                         THEN <<CreditStep(UnknownOf(step.slot), "effective", step.amount)>>
                         ELSE <<>>) \o Rest, FALSE)
  /\ reported' = TRUE
  /\ UNCHANGED short

\* absorb_osty: one turn of the loop.
TakeOsty ==
  /\ Doing("absorb")
  /\ LET step == Head(stage.steps)
         pool == PoolOf(step.slot)
         last == Last(pool.osty)
         take == IF step.amount < last.remaining THEN step.amount ELSE last.remaining
         rest == IF step.amount = take THEN Rest
                 ELSE <<[step EXCEPT !.amount = @ - take]>> \o Rest
     IN  /\ pool.osty # <<>>
         /\ ProceedWith(step.slot, [pool EXCEPT !.osty = LastTaken(@, take)],
                        NextCredit(last.source, "effective", last.paid, take) \o rest, FALSE)
  /\ UNCHANGED <<reported, short>>

\* No Osty is left: its own row is credited, or, where no row can be made, nobody's.
RowsFull == Osty \notin DOMAIN ledger /\ Cardinality(DOMAIN ledger \cap (Roots \cup {Osty})) >= MaxRows

NoOstyLeft ==
  /\ Doing("absorb")
  /\ LET step == Head(stage.steps)
         row == IF RowsFull THEN UnknownOf(Team) ELSE Osty
     IN  /\ step.slot \in Slots
         /\ PoolOf(step.slot).osty = <<>>
         /\ pools' = WithPool(step.slot, PoolOf(step.slot))
         /\ ledger' = IF row \in DOMAIN ledger THEN ledger ELSE Put(ledger, row, NoCredit)
         /\ crowded' = (crowded \/ RowsFull)
         /\ stage' = [stage EXCEPT !.steps = <<CreditStep(row, "effective", step.amount)>> \o Rest,
                                   !.pools = PoolJournal(step.slot)]
  /\ UNCHANGED <<blockTotal, reported, before, short, shown>>

SummonStep ==
  /\ Doing("summon")
  /\ LET step == Head(stage.steps)
         pool == PoolOf(step.slot)
     IN  \/ /\ Len(pool.osty) < MaxOsty
            /\ ProceedWith(step.slot,
                 [pool EXCEPT !.osty = Append(@, [source |-> step.source, paid |-> 0,
                                                  remaining |-> step.amount])],
                 Rest, FALSE)
            /\ UNCHANGED <<reported, short>>
         \/ Len(pool.osty) >= MaxOsty /\ RollBack /\ UNCHANGED short

\* osty_killed: the source of the play that killed it is debited what was left.
KillStep ==
  /\ Doing("kill")
  /\ LET step == Head(stage.steps)
         pool == PoolOf(step.slot)
         left == Total([i \in DOMAIN pool.osty |-> pool.osty[i].remaining])
         debits == Proportional(left, Weights(step.source))
         bury == <<[op |-> "bury", slot |-> step.slot]>> \o Rest
     IN  ProceedWith(step.slot, pool,
           IF step.source = None THEN bury
           ELSE CreditEach(step.source, "effective", [i \in DOMAIN debits |-> -debits[i]]) \o bury, FALSE)
  /\ UNCHANGED <<reported, short>>

BuryStep ==
  /\ Doing("bury")
  /\ LET step == Head(stage.steps)
     IN  ProceedWith(step.slot, [PoolOf(step.slot) EXCEPT !.osty = <<>>], Rest, FALSE)
  /\ UNCHANGED <<reported, short>>

----------------------------------------------------------------------------
(***************************************************************************)
(* The calls.                                                              *)
(***************************************************************************)
\* block_gained, after parse_block_modifiers: what is lost of the call is Unknown's.
BlockGained(slot, producer, amount, modifiers) ==
  LET source == IF producer = None THEN UnknownFor(slot) ELSE producer
      whole  == modifiers # None
  IN  /\ Open(<<[op |-> "count", amount |-> amount]>>
                 \o SourceCredit(source, "gained", amount)
                 \o <<[op |-> "push", slot |-> slot, amount |-> amount,
                       source |-> IF whole THEN source ELSE UnknownFor(slot),
                       mods |-> IF whole THEN modifiers ELSE <<>>]>>)
      /\ reported' = (reported \/ producer = None \/ ~whole)

BlockPoolLoss(slot, amount) ==
  /\ Open(<<[op |-> "lose", slot |-> slot, amount |-> amount]>>)
  /\ UNCHANGED reported

BlockPoolClear(slot) ==
  /\ stage = None
  /\ pools' = [s \in DOMAIN pools |-> IF s = slot THEN [pools[s] EXCEPT !.blocks = <<>>] ELSE pools[s]]
  /\ shown' = [shown EXCEPT !.block[slot] = <<>>]
  /\ UNCHANGED <<ledger, blockTotal, crowded, reported, stage, before, short>>

OstySummoned(slot, source, amount) ==
  /\ Open(<<[op |-> "summon", slot |-> slot, source |-> source, amount |-> amount]>>)
  /\ UNCHANGED reported

OstyKilled(slot, source) ==
  /\ Open(<<[op |-> "kill", slot |-> slot, source |-> source]>>)
  /\ UNCHANGED reported

\* apply_group: the results of a damage group that block and Osty met.
Results == [op : Kinds, slot : Receivers, amount : Amounts]

DamageCommit(results) ==
  /\ Open(results)
  /\ UNCHANGED reported

\* A call with a negative amount, a bad handle or another combat.
Refuse ==
  /\ stage = None
  /\ reported' = TRUE
  /\ UNCHANGED <<data, stage, before, short, shown>>

----------------------------------------------------------------------------
Init ==
  /\ ledger = [r \in Roots |-> NoCredit]
  /\ pools = <<>>
  /\ blockTotal = 0
  /\ crowded = FALSE
  /\ reported = FALSE
  /\ stage = None
  /\ before = None
  /\ short = FALSE
  /\ shown = PointsNow

Next ==
  \/ \E s \in Receivers, p \in Snapshots \cup {None}, n \in Amounts, m \in Modifiers \cup {None} :
        BlockGained(s, p, n, m)
  \/ \E s \in Receivers, n \in Amounts : BlockPoolLoss(s, n)
  \/ \E s \in Receivers : BlockPoolClear(s)
  \/ \E s \in Receivers, p \in Snapshots, n \in Amounts : OstySummoned(s, p, n)
  \/ \E s \in Receivers, p \in Snapshots \cup {None} : OstyKilled(s, p)
  \/ \E results \in BoundedSeq(Results, MaxResults) : DamageCommit(results)
  \/ Refuse
  \/ CountGain \/ Credit \/ Push \/ TakeBlock \/ NoBlockLeft \/ TakeOsty \/ NoOstyLeft
  \/ SummonStep \/ KillStep \/ BuryStep \/ Commit \/ FailCommit

Spec == Init /\ [][Next]_vars

----------------------------------------------------------------------------
(***************************************************************************)
(* Properties.                                                             *)
(***************************************************************************)
\* A hit cut into any pieces takes from every slice of a block what the whole
\* would: no slice and no share of a source is ever asked back what it gave, or
\* for more than it holds (SourceBlock::consume and its debug_assert; the code
\* relies on prefixes being nested and so checks each subtraction).
SlicesHold ==
  /\ ~short
  /\ \A s \in DOMAIN pools : \A k \in DOMAIN pools[s].blocks :
        LET b == pools[s].blocks[k]
        IN  /\ b.paid <= b.base
            /\ \A i \in DOMAIN b.mods : b.mods[i].consumed <= b.mods[i].original
            /\ b.paid + Total(Consumed(b)) + b.remaining = Whole(b)

\* At every step of a call, dropping its stage would put back exactly what there
\* was before the call, however many rows and pools it has made or changed by
\* then (LedgerStage::drop: a failed call changes nothing).
Recoverable == stage # None => Restored = before

AsPoints == INSTANCE Points WITH
  OstyRow <- Osty, MaxPoints <- MaxCredit,
  block <- shown.block, osty <- shown.osty, ledger <- shown.ledger, told <- reported

\* Every point of defence has its creditor from the call that brought it: hits,
\* losses, merges of equal neighbours and failures never change whom it credits;
\* only a full pool forgets, and says so (pools.rs, its module documentation).
ImplementsPoints == AsPoints!Spec
=============================================================================
