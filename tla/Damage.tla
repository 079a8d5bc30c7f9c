-------------------------------- MODULE Damage --------------------------------
(***************************************************************************)
(* From a hit to the ledger: the engine's calculations and Doom batches    *)
(* (damage.rs, power.rs) and the patches that open, fill and close them    *)
(* (DamageCapture.cs, DoomCapture.cs).                                     *)
(*                                                                         *)
(* A call of CreatureCmd.Damage is an async flow with a DamageOperation of *)
(* its own; for each target it runs ModifyDamage, waits, and reports the   *)
(* results.  Flows interleave between those steps, and outlive combats.    *)
(* A handler is synchronous: the native calls it makes are one action, and *)
(* any of them may be refused.  How a group is split over its suppliers is *)
(* left out, and so is its data; see Apportion and Pools for the ledger.   *)
(***************************************************************************)
EXTENDS Integers, Sequences, FiniteSets

CONSTANTS
  Calls,           \* the Damage and DoomKill calls there can be in progress
  Early,           \* what is told of a hit as it begins: its Strength, its Weak
  Late,            \* what is told after the game has modified it: the contributions
  MaxReports,      \* bound on the results of a hit
  MaxCalculations, \* DAMAGE_CALCULATIONS
  MaxBatches,      \* DOOM_BATCHES
  MaxSerial,       \* PAYLOAD_MAX
  MaxSequence,     \* bound on the combats
  MaxResults,      \* DAMAGE_RESULTS, DamageCapture.MaxResults
  MaxTargets,      \* DOOM_TARGETS, DoomCapture.MaxTargets
  None             \* no call, no token, no combat, no evidence

VARIABLES
  engine,    \* the engine's combat: its sequence, and does it take calls?
  table,     \* its open calculations and batches by token: their evidence and results
  last,      \* the last serial of each kind
  epoch,     \* CaptureRuntime.Epoch: the combat that is captured, or None
  left,      \* has the game left that combat already (Backend.CurrentCombat)?
  strayed,   \* history: has a captured call of that combat run on another thread?
  failed,    \* has a failure been reported in the engine's combat?
  calls,     \* the calls in progress, with their DamageOperation or DoomState
  hits       \* history: the last hit of each call, what is known of it, and how often it is booked

native == <<engine, table, last>>
shim   == <<epoch, left, strayed>>
vars   == <<native, shim, failed, calls, hits>>

Kinds == {"calculation", "batch"}
Capacity == [calculation |-> MaxCalculations, batch |-> MaxBatches]

ASSUME DamageConstants ==
  /\ {MaxReports, MaxCalculations, MaxBatches, MaxSerial, MaxSequence, MaxResults, MaxTargets} \subseteq Nat
  /\ None \notin Nat /\ None \notin Kinds \X Nat \X Nat
  /\ None \notin [epoch : Nat \cup {None}, phase : {"between", "inside", "hit", "killing"},
               token : (Kinds \X Nat \X Nat) \cup {None}]
  /\ Early \cap Late = {}

\* A hit of a call, or a Doom kill, which is a hit of several targets.
Hit(combat, facts, size) ==
  [combat |-> combat, facts |-> facts, size |-> size, reported |-> FALSE,
   booked |-> [i \in 1..MaxReports |-> 0], with |-> None]

NoHit == Hit(None, {}, 0)

NoEntries == [t \in {} |-> None]

----------------------------------------------------------------------------
(***************************************************************************)
(* The engine.                                                             *)
(***************************************************************************)
Open(token) == engine.on /\ token \in DOMAIN table

\* damage_calculation_abort and doom_batch_abort, in a table t.
Aborted(t, token) == IF engine.on THEN [x \in DOMAIN t \ {token} |-> t[x]] ELSE t

\* damage_calculation_begin and doom_batch_begin.
Admits(t, kind) ==
  /\ engine.on
  /\ Cardinality({x \in DOMAIN t : x[1] = kind}) < Capacity[kind]
  /\ last[kind] < MaxSerial

Token(kind) == <<kind, engine.sequence, last[kind] + 1>>

Begun(t, kind, facts, results) ==
  [x \in DOMAIN t \cup {Token(kind)} |->
     IF x = Token(kind) THEN [facts |-> facts, results |-> results] ELSE t[x]]

\* A commit books every result of the group, with the group's evidence.
Booked(books, group) ==
  [c \in Calls |->
     LET mine == {i \in 1..MaxReports : <<c, i>> \in group.results}
     IN  [books[c] EXCEPT !.booked = [i \in 1..MaxReports |-> @[i] + IF i \in mine THEN 1 ELSE 0],
                          !.with = IF mine # {} THEN group.facts ELSE @]]

\* damage_unattributed, for some results of a hit.
BookedAlone(books, c, S) ==
  [books EXCEPT ![c].booked = [i \in 1..MaxReports |-> @[i] + IF i \in S THEN 1 ELSE 0]]

----------------------------------------------------------------------------
(***************************************************************************)
(* Calls.                                                                  *)
(***************************************************************************)
Valid(e, on) == on /\ e # None /\ e = epoch /\ ~left

Stale(e) == e # None /\ e # epoch

\* OnThread, at a step of a call.
Strays(c, on) == strayed \/ (~on /\ Valid(calls[c].epoch, TRUE))

\* EntryEpoch: a call made in a flow of an earlier combat stays with that one.
EntryEpochs == {epoch} \cup {e \in 1..engine.sequence : Stale(e)}

\* phase: between the hits of a Damage call, inside the game's ModifyDamage or, until
\* its results are reported, in a hit; or inside the game's DoomKill, killing.
Call(e, phase, token) == [epoch |-> e, phase |-> phase, token |-> token]

In(c, phases) == calls[c] # None /\ calls[c].phase \in phases

\* Prefix: a Damage call starts with no calculation.
Prefix(c, e) ==
  /\ calls[c] = None
  /\ calls' = [calls EXCEPT ![c] = Call(e, "between", None)]
  /\ hits' = [hits EXCEPT ![c] = NoHit]
  /\ UNCHANGED <<native, shim, failed>>

\* Mutant: ModifyDamage begins without aborting what the last hit has left.
AbandonedNot(k, on) == table

\* Abort, as ModifyDamage and the end of a call begin with it.
Abandoned(k, on) == IF Valid(k.epoch, on) THEN Aborted(table, k.token) ELSE table

\* ModifyDamage up to the game's own.  The calculation is begun and told of Strength
\* and Weak; or there is none, as the target is not of this combat; or a call fails.
\* facts: what is to be told of the hit; nothing, if there is no calculation.
ModifyDamage(c, facts, on) ==
  /\ In(c, {"between", "hit"})
  /\ LET k == calls[c]
         t == Abandoned(k, on)
     IN  /\ strayed' = Strays(c, on)
         /\ \/ /\ facts = {}
               /\ calls' = [calls EXCEPT ![c] = Call(k.epoch, "inside", None)]
               /\ table' = t
               /\ UNCHANGED <<last, failed>>
            \/ /\ Valid(k.epoch, on)
               /\ facts = {}
               /\ calls' = [calls EXCEPT ![c] = Call(k.epoch, "inside", None)]
               /\ table' = t
               /\ last' \in {last} \cup (IF Admits(t, "calculation") THEN {[last EXCEPT !.calculation = @ + 1]} ELSE {})
               /\ failed' = TRUE
            \/ /\ Valid(k.epoch, on)
               /\ Admits(t, "calculation")
               /\ calls' = [calls EXCEPT ![c] = Call(k.epoch, "inside", Token("calculation"))]
               /\ table' = Begun(t, "calculation", {<<c, f>> : f \in facts \cap Early}, {})
               /\ last' = [last EXCEPT !.calculation = @ + 1]
               /\ UNCHANGED failed
  /\ hits' = [hits EXCEPT ![c] = Hit(calls[c].epoch, facts, 0)]
  /\ UNCHANGED <<engine, epoch, left>>

\* Mutant: contributions that are refused are left out.
ToldInPart(c, told) ==
  [table |-> [table EXCEPT ![calls[c].token].facts = @ \cup {<<c, f>> : f \in told}], token |-> calls[c].token]

\* The contributions are told, all of them or the calculation is aborted.
Told(c, told) ==
  IF told = hits[c].facts \cap Late
  THEN [table |-> [table EXCEPT ![calls[c].token].facts = @ \cup {<<c, f>> : f \in told}], token |-> calls[c].token]
  ELSE [table |-> Aborted(table, calls[c].token), token |-> None]

\* The rest of ModifyDamage.  told: the contributions the engine has taken.
Contribute(c, told) ==
  /\ In(c, {"inside"})
  /\ LET k == calls[c]
         late == hits[c].facts \cap Late
     IN  IF k.token = None \/ late = {}
         THEN /\ told = {}
              /\ calls' = [calls EXCEPT ![c].phase = "hit"]
              /\ UNCHANGED <<table, failed>>
         ELSE /\ told \subseteq late
              /\ told # {} => Open(k.token) /\ Valid(k.epoch, TRUE)
              /\ table' = Told(c, told).table
              /\ calls' = [calls EXCEPT ![c] = Call(k.epoch, "hit", Told(c, told).token)]
              /\ failed' = (failed \/ told # late)
  /\ UNCHANGED <<engine, last, shim, hits>>

\* The game's own ModifyDamage throws; SetException follows.
Throw(c) ==
  /\ In(c, {"inside"})
  /\ table' = Aborted(table, calls[c].token)
  /\ calls' = [calls EXCEPT ![c] = Call(calls[c].epoch, "between", None)]
  /\ hits' = [hits EXCEPT ![c] = NoHit]
  /\ UNCHANGED <<engine, last, shim, failed>>

\* Mutant: only a group that had a calculation falls back.
FallbacksOfCalculations(token, n) == IF token # None THEN 1..n ELSE {}

\* The results that damage_unattributed is called for, when a group is not committed.
Fallbacks(token, n) == 1..n

\* A call's n results are committed as a group, if the group fits, or each booked alone;
\* appended: the results the group is yet to be told of.
Settle(c, n, appended, fits) ==
  LET token == calls[c].token
      seen == [hits EXCEPT ![c].size = n, ![c].reported = TRUE]
  IN  /\ table' = Aborted(table, token)
      /\ \/ /\ fits
            /\ Open(token)
            /\ hits' = Booked(seen, [table[token] EXCEPT !.results = @ \cup appended])
            /\ UNCHANGED failed
         \/ \E S \in IF engine.on THEN SUBSET Fallbacks(token, n) ELSE {{}} :
               /\ hits' = BookedAlone(seen, c, S)
               /\ failed' = (failed \/ ~fits \/ token # None \/ S # Fallbacks(token, n))

\* ReportResultGroup, with n results.  bad: there is one that cannot be described.
Report(c, n, on, bad) ==
  /\ In(c, {"hit"})
  /\ IF ~Valid(calls[c].epoch, on)
     THEN /\ hits' = [hits EXCEPT ![c] = NoHit]
          /\ UNCHANGED <<table, failed>>
     ELSE IF bad
     THEN /\ table' = Aborted(table, calls[c].token)
          /\ hits' = [hits EXCEPT ![c] = NoHit]
          /\ failed' = TRUE
     ELSE Settle(c, n, {<<c, i>> : i \in 1..n}, n <= MaxResults)
  /\ calls' = [calls EXCEPT ![c] = Call(calls[c].epoch, "between", None)]
  /\ strayed' = Strays(c, on)
  /\ UNCHANGED <<engine, last, epoch, left>>

\* SetResult, SetException: the call ends.
End(c, on) ==
  /\ In(c, {"between", "hit"})
  /\ table' = Abandoned(calls[c], on)
  /\ calls' = [calls EXCEPT ![c] = None]
  /\ hits' = [hits EXCEPT ![c] = NoHit]
  /\ strayed' = Strays(c, on)
  /\ UNCHANGED <<engine, last, epoch, left, failed>>

----------------------------------------------------------------------------
(***************************************************************************)
(* Doom: DoomKill is synchronous, but what dies may do damage in turn.     *)
(***************************************************************************)
\* Prefix lists n targets.  captured: has the engine taken each of them?  odd: is there
\* another that cannot be listed?
DoomPrefix(c, e, n, captured, odd) ==
  /\ calls[c] = None
  /\ LET whole == captured /\ n <= MaxTargets /\ ~odd
         Killing(token, size) ==
           /\ hits' = [hits EXCEPT ![c] = Hit(e, {}, size)]
           /\ calls' = [calls EXCEPT ![c] = Call(e, "killing", token)]
     IN  \/ /\ ~Valid(e, TRUE)
            /\ n = 0 /\ whole
            /\ Killing(None, 0)
            /\ UNCHANGED <<table, last, failed>>
         \/ /\ Valid(e, TRUE)
            /\ ~captured /\ ~odd
            /\ Killing(None, n)
            /\ failed' = TRUE
            /\ UNCHANGED <<table, last>>
         \/ /\ Valid(e, TRUE)
            /\ Admits(table, "batch")
            /\ IF whole
               THEN /\ Killing(Token("batch"), n)
                    /\ table' = Begun(table, "batch", {}, {<<c, i>> : i \in 1..n})
               ELSE /\ Killing(None, n)
                    /\ UNCHANGED table
            /\ last' = [last EXCEPT !.batch = @ + 1]
            /\ failed' = (failed \/ odd \/ n > MaxTargets)
  /\ UNCHANGED <<engine, shim>>

\* Postfix and Finalizer.  ran: has the game's DoomKill returned?
DoomPostfix(c, ran) ==
  /\ In(c, {"killing"})
  /\ IF ran /\ Valid(calls[c].epoch, TRUE)
     THEN Settle(c, hits[c].size, {}, TRUE)
     ELSE /\ table' = Abandoned(calls[c], TRUE)
          /\ hits' = [hits EXCEPT ![c] = NoHit]
          /\ UNCHANGED failed
  /\ calls' = [calls EXCEPT ![c] = None]
  /\ UNCHANGED <<engine, last, shim>>

----------------------------------------------------------------------------
(***************************************************************************)
(* Combats; none begins or ends inside the game's ModifyDamage.            *)
(***************************************************************************)
Settled == \A c \in Calls : ~In(c, {"inside"})

\* SetupPostfix: combat_start clears the provenance; Register.
StartCombat ==
  /\ Settled
  /\ engine.sequence < MaxSequence
  /\ engine' = [sequence |-> engine.sequence + 1, on |-> TRUE]
  /\ table' = NoEntries
  /\ last' = [kind \in Kinds |-> 0]
  /\ epoch' = engine.sequence + 1
  /\ left' = FALSE
  /\ strayed' = FALSE
  /\ failed' = FALSE
  /\ hits' = [c \in Calls |-> NoHit]
  /\ UNCHANGED calls

\* CombatEndedPostfix: combat_ended and InvalidateEpoch.
EndCombat ==
  /\ Settled
  /\ epoch # None
  /\ ~left
  /\ engine' = [engine EXCEPT !.on = FALSE]
  /\ table' = IF engine.on THEN NoEntries ELSE table
  /\ epoch' = None
  /\ UNCHANGED <<last, left, strayed, failed, calls, hits>>

\* InvalidateEpoch as a combat is set up, or a run starts, ends or is suspended.
InvalidateEpoch ==
  /\ Settled
  /\ epoch # None
  /\ epoch' = None
  /\ left' = FALSE
  /\ UNCHANGED <<native, strayed, failed, calls, hits>>

\* The game is in another combat, or in none, before a patch says so.
LeaveCombat ==
  /\ Settled
  /\ epoch # None
  /\ ~left
  /\ left' = TRUE
  /\ UNCHANGED <<native, epoch, strayed, failed, calls, hits>>

\* A panic in a call poisons the engine until the next combat.
Poison ==
  /\ engine.on
  /\ engine' = [engine EXCEPT !.on = FALSE]
  /\ UNCHANGED <<table, last, shim, failed, calls, hits>>

----------------------------------------------------------------------------
Init ==
  /\ engine = [sequence |-> 0, on |-> FALSE]
  /\ table = NoEntries
  /\ last = [kind \in Kinds |-> 0]
  /\ epoch = None
  /\ left = FALSE
  /\ strayed = FALSE
  /\ failed = FALSE
  /\ calls = [c \in Calls |-> None]
  /\ hits = [c \in Calls |-> NoHit]

Next ==
  \/ \E c \in Calls : \E e \in EntryEpochs : Prefix(c, e)
  \/ \E c \in Calls : \E facts \in (SUBSET Early) \cup (SUBSET Late) : \E on \in BOOLEAN : ModifyDamage(c, facts, on)
  \/ \E c \in Calls : \E told \in SUBSET Late : Contribute(c, told)
  \/ \E c \in Calls : Throw(c)
  \/ \E c \in Calls : \E n \in 1..MaxReports : \E on, bad \in BOOLEAN : Report(c, n, on, bad)
  \/ \E c \in Calls : \E on \in BOOLEAN : End(c, on)
  \/ \E c \in Calls : \E e \in EntryEpochs : \E n \in 0..MaxReports : \E captured, odd \in BOOLEAN : DoomPrefix(c, e, n, captured, odd)
  \/ \E c \in Calls : \E ran \in BOOLEAN : DoomPostfix(c, ran)
  \/ StartCombat \/ EndCombat \/ InvalidateEpoch \/ LeaveCombat
  \/ Poison

Spec == Init /\ [][Next]_vars

----------------------------------------------------------------------------
(***************************************************************************)
(* Properties.                                                             *)
(***************************************************************************)
\* However the flows interleave and whatever is refused, no result of a hit is booked
\* twice, by the group and by its fallback, none that the patches may not report is
\* booked, and all of those reported are, unless a failure is (damage.rs: complete
\* groups are staged; ReportResultGroup falls back when a group is not committed).
BookedOnce ==
  \A c \in Calls :
     /\ \A i \in 1..MaxReports : hits[c].booked[i] <= (IF hits[c].reported /\ i <= hits[c].size THEN 1 ELSE 0)
     /\ hits[c].reported /\ hits[c].combat = engine.sequence /\ ~failed =>
          \A i \in 1..hits[c].size : hits[c].booked[i] = 1

\* A hit that is credited to a group is credited with everything told of it, with
\* nothing told of another hit, and with all of its results (the header of damage.rs:
\* capture failures invalidate the whole calculation).
OwnEvidence ==
  \A c \in Calls :
     hits[c].with # None =>
       /\ hits[c].with = {<<c, f>> : f \in hits[c].facts}
       /\ \A i \in 1..hits[c].size : hits[c].booked[i] = 1

\* No calculation and no batch is left behind: each one that is open belongs to one
\* call in progress, as long as the combat goes on and no patch ran on another thread.
\* The tables are small (DAMAGE_CALCULATIONS, DOOM_BATCHES): what leaked would fill them.
HeldCalculations ==
  engine.on /\ epoch = engine.sequence /\ ~left /\ ~strayed =>
    \A x \in DOMAIN table : Cardinality({c \in Calls : calls[c] # None /\ calls[c].token = x}) = 1
=============================================================================
