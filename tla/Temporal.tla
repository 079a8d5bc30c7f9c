------------------------------ MODULE Temporal ------------------------------
(***************************************************************************)
(* The sources that powers save for later, shim/attribution/               *)
(* TemporalPowerCapture.cs: as a card is played, for when it is done; as a *)
(* turn starts; and, for Rupture, as a mixture that grows with every gain. *)
(* It is composed with the sources themselves, module Sources: an entry    *)
(* holds its source, and a growing mixture is a call of the engine.        *)
(*                                                                         *)
(* A key is a power and a card, or a power and no card for its turn.       *)
(* Every model has an identity.                                            *)
(***************************************************************************)
EXTENDS Sources

CONSTANTS
  Frames,       \* producer frames (FlowCapture.Current)
  Keys,         \* pairs of a power and a card
  NoCard,       \* the card of a turn's entry
  Executions,   \* play executions, and None
  Amounts,      \* the amounts the game writes
  IntRange,     \* int: what a difference of two amounts has to fit
  MaxPending,   \* MaxPending, the entries there can be
  Unit          \* history: a multiple of every sum of weights there can be

Destinations == {Unknown} \cup UNION {Range(Targets(s)) : s \in Snapshots}

Shares == [to : Destinations, weight : Nat \ {0}]

\* What SourceSnapshot::normalized accepts, whatever its divisor.
IsSource(s) ==
  /\ s \in Seq(Shares)
  /\ Len(s) # 0
  /\ WeightSum(s) <= MaxTotal

ASSUME TemporalConstants ==
  /\ Holders = Frames \cup Keys
  /\ Frames \cap Keys = {}
  /\ None \notin Holders /\ None \notin Amounts /\ None \notin Seq(Shares)
  /\ None \notin [before : Amounts, second : Seq(Shares), execution : Executions]
  /\ None \notin [handle : Handles, source : Seq(Shares)]
  /\ Amounts \subseteq IntRange
  /\ IntRange \subseteq Int
  /\ MaxTotal \in Nat \ {0}
  /\ Unit \in Nat
  /\ \A n \in 1..MaxTotal : Unit % n = 0
  /\ \A s \in Snapshots : IsSource(s)

VARIABLES
  amounts,   \* the game: what it keeps for a card or its turn, None if it does not
  pending,   \* the saved entries, each with the execution it was saved in
  adding,    \* Accumulate under way: the amount before and the one added, or None
  owing      \* history: what stands in the dictionary, by supplier, in units

temporal == <<amounts, pending, adding, owing>>
vars == <<sourceVars, temporal>>

Nobody == [to \in Destinations |-> 0]

Positive(n) == IF n > 0 THEN n ELSE 0

\* Whom n of a source are owed to; nothing is owed for a negative amount.
Portion(source, n) ==
  [to \in Destinations |-> Positive(n) * (Unit \div WeightSum(source)) * WeightOf(source, to)]

Both(a, b) == [to \in Destinations |-> a[to] + b[to]]

\* What an object, or Unavailable, was captured as.
SourceOf(o) == IF o = None THEN UnknownSource ELSE object[o].source

HandleOfObject(o) == IF o = None THEN None ELSE object[o].handle

\* The frame of a write to a power of this combat: its epoch, which is that of
\* its source, is Valid.
Writes(f) ==
  /\ call = NoCall
  /\ epoch # None
  /\ held[f] # None => object[held[f]].handle[1] = epoch

NoEntry == [k \in {} |-> None]

----------------------------------------------------------------------------
(***************************************************************************)
(* Saving and taking.                                                      *)
(***************************************************************************)
\* Save keeps an entry that is there, or makes one while there is room.
Fits(key, entries) == key \in DOMAIN entries \/ Cardinality(DOMAIN entries) < MaxPending

\* The game keeps n for a key, and its bridge saves the source of the frame.
Saves(f, key, n, e) ==
  /\ Writes(f)
  /\ amounts' = [amounts EXCEPT ![key] = n]
  /\ IF Fits(key, pending)
     THEN /\ pending' = With(pending, key, e)
          /\ held' = [held EXCEPT ![key] = held[f]]
          /\ owing' = [owing EXCEPT ![key] = Portion(SourceOf(held[f]), n)]
     ELSE /\ owing' = [owing EXCEPT ![key] = Portion(UnknownSource, n)]
          /\ UNCHANGED <<pending, held>>
  /\ UNCHANGED <<native, epoch, owned, swept, object, call, refused, adding>>

\* Add, the bridge of Dictionary.Add.
Add(f, key, n, e) ==
  /\ key[2] # NoCard
  /\ amounts[key] = None
  /\ Saves(f, key, n, e)

\* SetTurnAmount: the entry of a power's turn is replaced.
SetTurnAmount(f, key, n, e) ==
  /\ key[2] = NoCard
  /\ Saves(f, key, n, e)

\* TakeBack, the bridge of Dictionary.Remove: the frame goes on with what was saved.
TakeBack(f, key) ==
  /\ Writes(f)
  /\ key[2] # NoCard
  /\ amounts[key] # None
  /\ amounts' = [amounts EXCEPT ![key] = None]
  /\ pending' = Without(pending, {key})
  /\ held' = [held EXCEPT ![f] = held[key], ![key] = None]
  /\ owing' = [owing EXCEPT ![key] = Nobody]
  /\ UNCHANGED <<native, epoch, owned, swept, object, call, refused, adding>>

(***************************************************************************)
(* Accumulate, the bridge of the dictionary's setter: the entry is taken,  *)
(* mixed by the engine with the source of the frame, and saved again.      *)
(***************************************************************************)
\* source_accumulate, for a call that reaches an engine that is on.
Mixes(key, kept, first, before, second, added) ==
  LET mine == SourceOf(first)
      theirs == SourceOf(second)
      mixed == Combined(mine, before, theirs, added)
      SayAgain(o) == Calls(key, kept, SourceOf(o), HandleOfObject(o), SweptArena)
  IN  IF added < 0 THEN Calls(key, kept, UnknownSource, None, SweptArena)
      ELSE IF before <= 0 THEN SayAgain(second)
      ELSE IF added = 0 THEN SayAgain(first)
      ELSE IF mixed = Refused THEN Calls(key, kept, UnknownSource, None, SweptArena)
      ELSE Exports(key, kept, mixed)

\* The difference overflows: the entry is consumed, and not replaced.
Overflow(f, key, n) ==
  /\ Writes(f)
  /\ key[2] # NoCard
  /\ amounts[key] # None
  /\ n - amounts[key] \notin IntRange
  /\ amounts' = [amounts EXCEPT ![key] = n]
  /\ pending' = Without(pending, {key})
  /\ held' = [held EXCEPT ![key] = None]
  /\ owing' = [owing EXCEPT ![key] = Portion(UnknownSource, n)]
  /\ UNCHANGED <<native, epoch, owned, swept, object, call, refused, adding>>

Accumulate(f, key, n, e) ==
  /\ Writes(f)
  /\ key[2] # NoCard
  /\ amounts[key] # None
  /\ n - amounts[key] \in IntRange
  /\ amounts' = [amounts EXCEPT ![key] = n]
  /\ pending' = Without(pending, {key})
  /\ held' = [held EXCEPT ![key] = None]
  /\ adding' = [before |-> amounts[key], second |-> SourceOf(held[f]), execution |-> e]
  /\ LET kept == {held[key], held[f]} \ {None}
     IN  IF engine.on
         THEN Mixes(key, kept, held[key], amounts[key], held[f], n - amounts[key])
         ELSE Calls(key, kept, UnknownSource, None, SweptArena)
  /\ UNCHANGED owing

\* ... and the rest of it, with the source o.
Accumulated(o) ==
  /\ call # NoCall
  /\ adding # None
  /\ Owns(o)
  /\ LET key == call.to
         n == amounts[key]
         was == IF adding.before > 0 THEN owing[key] ELSE Nobody
         more == n - Positive(adding.before)
     IN  IF Fits(key, pending)
         THEN /\ pending' = With(pending, key, adding.execution)
              /\ held' = [held EXCEPT ![key] = o]
              /\ owing' = [owing EXCEPT ![key] = IF o = None THEN Portion(UnknownSource, n)
                                                 ELSE Both(was, Portion(adding.second, more))]
         ELSE /\ owing' = [owing EXCEPT ![key] = Portion(UnknownSource, n)]
              /\ UNCHANGED <<pending, held>>
  /\ call' = NoCall
  /\ adding' = None
  /\ UNCHANGED <<native, epoch, swept, refused, amounts>>

----------------------------------------------------------------------------
(***************************************************************************)
(* Entries that are given up.                                              *)
(***************************************************************************)
GiveUp(keys) ==
  /\ call = NoCall
  /\ epoch # None
  /\ pending' = Without(pending, keys)
  /\ held' = [h \in Holders |-> IF h \in keys THEN None ELSE held[h]]
  /\ UNCHANGED <<native, epoch, owned, swept, object, call, refused, adding>>

\* RemovePower: the power leaves the game, its dictionary with it.
RemovePower(p) ==
  LET keys == {k \in Keys : k[1] = p}
  IN  /\ GiveUp(keys)
      /\ amounts' = [k \in Keys |-> IF k \in keys THEN None ELSE amounts[k]]
      /\ owing' = [k \in Keys |-> IF k \in keys THEN Nobody ELSE owing[k]]

\* AbandonExecution: the card's effect ended before it took what was saved.
AbandonExecution(e) ==
  LET keys == {k \in DOMAIN pending : pending[k] = e}
  IN  /\ GiveUp(keys)
      /\ owing' = [k \in Keys |-> IF k \in keys /\ amounts[k] # None
                                  THEN Portion(UnknownSource, amounts[k]) ELSE owing[k]]
      /\ UNCHANGED amounts

\* Clear, as another combat is captured or none.
Clear ==
  /\ pending' = NoEntry
  /\ held' = [h \in Holders |-> IF h \in Keys THEN None ELSE held[h]]
  /\ amounts' = [k \in Keys |-> None]
  /\ owing' = [k \in Keys |-> Nobody]
  /\ UNCHANGED adding

----------------------------------------------------------------------------
TemporalInit ==
  /\ Init
  /\ amounts = [k \in Keys |-> None]
  /\ pending = NoEntry
  /\ adding = None
  /\ owing = [k \in Keys |-> Nobody]

SourceStep ==
  /\ \/ \E f \in Frames, s \in Snapshots : Capture(f, s)
     \/ adding = None /\ Captured
     \/ \E f \in Frames : Consume(f)
     \/ \E f \in Frames, o \in Objects \cup {None} : Hold(f, o)
     \/ \E lost \in (SUBSET Garbage) \ {{}} : Reclaim(lost)
     \/ Poison
  /\ UNCHANGED temporal

TemporalNext ==
  \/ SourceStep
  \/ (StartCombat \/ EndCombat \/ InvalidateEpoch) /\ Clear
  \/ \E f \in Frames, k \in Keys, n \in Amounts, e \in Executions :
        Add(f, k, n, e) \/ SetTurnAmount(f, k, n, e) \/ Accumulate(f, k, n, e)
  \/ \E f \in Frames, k \in Keys : TakeBack(f, k)
  \/ \E f \in Frames, k \in Keys, n \in Amounts : Overflow(f, k, n)
  \/ \E o \in Objects \cup {None} : Accumulated(o)
  \/ \E p \in {k[1] : k \in Keys} : RemovePower(p)
  \/ \E e \in Executions : AbandonExecution(e)

TemporalSpec == TemporalInit /\ [][TemporalNext]_vars

----------------------------------------------------------------------------
(***************************************************************************)
(* Properties.                                                             *)
(***************************************************************************)
\* What a saved source reads is, to the last fraction, the mixture of what the
\* game keeps, supplier by supplier; when a part of it was lost, the whole of it
\* is Unknown's from then on (Accumulate, AccumulateSources, source_accumulate).
PendingIsExact ==
  engine.on =>
    \A k \in DOMAIN pending :
       LET source == Read(HandleOfObject(held[k]))
       IN  /\ source # None
           /\ \A to \in Destinations :
                WeightOf(source, to) * (Positive(amounts[k]) * Unit) = WeightSum(source) * owing[k][to]
=============================================================================
