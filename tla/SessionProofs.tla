----------------------------- MODULE SessionProofs -----------------------------
(***************************************************************************)
(* Proofs about the managed session.  The session is first shown to use    *)
(* the store as module Store describes it, so that every invariant proved  *)
(* of the store holds of the session's store; the invariants of the        *)
(* session itself rest on those.                                           *)
(***************************************************************************)
EXTENDS Session, Sequences, TLAPS

\* The store with what is proved of it.
Kept == INSTANCE StoreProofs WITH
  Outcomes <- {"reported", "defeat"}, Payloads <- Snapshots, Unreadable <- {},
  Unmatchable <- {}, SourceKeys <- {}, Gaps <- {}, MaxArchive <- 0

\* The instance satisfies the store's assumptions about its constants.
LEMMA StoreConstantsHold ==
  /\ MaxRun \in Nat /\ MaxCombat \in Nat /\ PageRows \in Nat \ {0} /\ 0 \in Nat
  /\ {} \subseteq Identities
  /\ {} \subseteq Snapshots
  /\ None \notin Identities \cup {"reported", "defeat"} \cup Snapshots
  /\ None \notin Kept!Owners
  /\ Kept!IsFiniteSet({})
  /\ None \notin Kept!Row
<1>1. << >> \in Seq({}) /\ \A s \in {} : \E n \in 1..Len(<< >>) : << >>[n] = s
  OBVIOUS
<1>2. QED
  BY <1>1, SessionConstants DEF Kept!Owners, Kept!Row, Kept!IsFiniteSet

(***************************************************************************)
(* Both instances of the store say the same.                               *)
(***************************************************************************)
LEMMA SameOperators ==
  /\ \A S : Store!Max(S) = Kept!Max(S)
  /\ \A pend : Store!Persist(pend) = Kept!Persist(pend)
  /\ \A pend : Store!CanPersist(pend) <=> Kept!CanPersist(pend)
  /\ \A pend : Store!Retried(pend) = Kept!Retried(pend)
  /\ \A db, r : Store!HasCombats(db, r) <=> Kept!HasCombats(db, r)
  /\ \A i : Store!Candidates(i) = Kept!Candidates(i)
  /\ \A i : Store!Ambiguous(i) <=> Kept!Ambiguous(i)
  /\ \A i, r : Store!IsMatch(i, r) <=> Kept!IsMatch(i, r)
  /\ \A c, r, i : Store!SaveAllowed(c, r, i) <=> Kept!SaveAllowed(c, r, i)
  /\ Store!RunIds = Kept!RunIds /\ Store!CombatIds = Kept!CombatIds
  /\ Store!NoPending = Kept!NoPending
<1>1. /\ Store!RunIds = Kept!RunIds /\ Store!CombatIds = Kept!CombatIds
      /\ Store!NoPending = Kept!NoPending
  BY DEF Store!RunIds, Kept!RunIds, Store!CombatIds, Kept!CombatIds, Store!NoPending, Kept!NoPending
<1>2. \A S : Store!Max(S) = Kept!Max(S)
  BY DEF Store!Max, Kept!Max
<1>3. \A pend : Store!Persist(pend) = Kept!Persist(pend)
  BY <1>1, <1>2 DEF Store!Persist, Kept!Persist
<1>4. \A pend : Store!CanPersist(pend) <=> Kept!CanPersist(pend)
  BY <1>1 DEF Store!CanPersist, Kept!CanPersist
<1>5. \A pend : Store!Retried(pend) = Kept!Retried(pend)
  BY <1>1, <1>3, <1>4 DEF Store!Retried, Kept!Retried
<1>6. \A db, r : Store!HasCombats(db, r) <=> Kept!HasCombats(db, r)
  BY <1>1 DEF Store!HasCombats, Kept!HasCombats
<1>7. \A i : Store!Candidates(i) = Kept!Candidates(i)
  BY <1>1, <1>6 DEF Store!Candidates, Kept!Candidates
<1>8. /\ \A i : Store!Ambiguous(i) <=> Kept!Ambiguous(i)
      /\ \A i, r : Store!IsMatch(i, r) <=> Kept!IsMatch(i, r)
  BY <1>7 DEF Store!Ambiguous, Kept!Ambiguous, Store!IsMatch, Kept!IsMatch
<1>9. \A c, r, i : Store!SaveAllowed(c, r, i) <=> Kept!SaveAllowed(c, r, i)
  BY DEF Store!SaveAllowed, Kept!SaveAllowed
<1>10. QED
  BY <1>1, <1>2, <1>3, <1>4, <1>5, <1>6, <1>7, <1>8, <1>9

LEMMA SameRequests ==
  /\ Store!Init <=> Kept!Init
  /\ Store!Restart <=> Kept!Restart
  /\ \A i, continued : Store!OpenRun(i, continued) <=> Kept!OpenRun(i, continued)
  /\ \A r, i, o : Store!SaveRun(r, i, o) <=> Kept!SaveRun(r, i, o)
  /\ \A r, i : Store!RefuseRun(r, i) <=> Kept!RefuseRun(r, i)
  /\ \A c, r, i, p : Store!SaveCombat(c, r, i, p) <=> Kept!SaveCombat(c, r, i, p)
  /\ \A c, r, i : Store!RefuseCombat(c, r, i) <=> Kept!RefuseCombat(c, r, i)
  /\ \A r, history : Store!ReadBegin(r, history) <=> Kept!ReadBegin(r, history)
  /\ \A page : Store!ReadPage(page) <=> Kept!ReadPage(page)
  /\ Store!Remaining = Kept!Remaining
  /\ \A row : Store!Readable(row) <=> Kept!Readable(row)
  /\ Store!ReadEnd <=> Kept!ReadEnd
<1>1. Store!Init <=> Kept!Init
  BY SameOperators DEF Store!Init, Kept!Init, Store!EmptyDatabase, Kept!EmptyDatabase
<1>2. Store!Restart <=> Kept!Restart
  BY SameOperators DEF Store!Restart, Kept!Restart
<1>3. Store!Idle <=> Kept!Idle
  BY DEF Store!Idle, Kept!Idle
<1>4. \A db, i : Store!AllocateRun(db, i) = Kept!AllocateRun(db, i)
  BY DEF Store!AllocateRun, Kept!AllocateRun
<1>5. \A db, r, o : Store!Finalized(db, r, o) = Kept!Finalized(db, r, o)
  BY DEF Store!Finalized, Kept!Finalized
<1>6. \A i, continued : Store!OpenRun(i, continued) <=> Kept!OpenRun(i, continued)
  BY <1>3, <1>4, SameOperators DEF Store!OpenRun, Kept!OpenRun
<1>7. /\ \A r, i, o : Store!SaveRun(r, i, o) <=> Kept!SaveRun(r, i, o)
      /\ \A r, i : Store!RefuseRun(r, i) <=> Kept!RefuseRun(r, i)
  BY <1>3, <1>5, SameOperators DEF Store!SaveRun, Kept!SaveRun, Store!RefuseRun, Kept!RefuseRun
<1>8. /\ \A c, r, i, p : Store!SaveCombat(c, r, i, p) <=> Kept!SaveCombat(c, r, i, p)
      /\ \A c, r, i : Store!RefuseCombat(c, r, i) <=> Kept!RefuseCombat(c, r, i)
  BY <1>3, SameOperators
     DEF Store!SaveCombat, Kept!SaveCombat, Store!RefuseCombat, Kept!RefuseCombat
<1>9. \A r, history : Store!ReadBegin(r, history) <=> Kept!ReadBegin(r, history)
  <2>1. \A r : Store!PendingReasons(r) = Kept!PendingReasons(r)
    BY SameOperators DEF Store!PendingReasons, Kept!PendingReasons
  <2>2. QED
    BY <1>3, <2>1, SameOperators DEF Store!ReadBegin, Kept!ReadBegin
<1>10. \A row : /\ Store!Readable(row) <=> Kept!Readable(row)
                /\ Store!RowReasons(row) = Kept!RowReasons(row)
  BY DEF Store!Readable, Kept!Readable, Store!Payload, Kept!Payload, Store!RowReasons, Kept!RowReasons
<1>11. /\ \A a, b : Store!Before(a, b) <=> Kept!Before(a, b)
       /\ \A r : Store!Rows(r) = Kept!Rows(r)
  BY SameOperators DEF Store!Before, Kept!Before, Store!Rows, Kept!Rows
<1>12. Store!Remaining = Kept!Remaining
  BY <1>11 DEF Store!Remaining, Kept!Remaining
<1>13. \A page : Store!ReadPage(page) <=> Kept!ReadPage(page)
  BY DEF Store!ReadPage, Kept!ReadPage,
         Store!IsPage, Kept!IsPage, Store!Remaining, Kept!Remaining, Store!Rows, Kept!Rows,
         Store!CombatIds, Kept!CombatIds, Store!Before, Kept!Before, Store!Readable, Kept!Readable,
         Store!Payload, Kept!Payload, Store!Cardinality, Kept!Cardinality,
         Store!RowReasons, Kept!RowReasons, Store!CursorAt, Kept!CursorAt
<1>14. Store!ReadEnd <=> Kept!ReadEnd
  BY DEF Store!ReadEnd, Kept!ReadEnd
<1>15. QED
  BY <1>1, <1>2, <1>6, <1>7, <1>8, <1>9, <1>10, <1>12, <1>13, <1>14

----------------------------------------------------------------------------
(***************************************************************************)
(* Types, and what the session relies on between its handlers.             *)
(***************************************************************************)
Runs      == [id : 0..MaxRun, identity : Identities]
Summaries == [run : 0..MaxRun, times : [CombatIds -> Nat], clean : BOOLEAN, ended : BOOLEAN]
Handlers  == [step : {"open", "load", "pages"}, identity : Identities, continued : BOOLEAN]

TypeOK ==
  /\ online \in BOOLEAN
  /\ run \in Runs \cup {None}
  /\ combatRun \in Runs \cup {None}
  /\ combat \in Snapshots \cup {None}
  /\ sequence \in 0..MaxCombat
  /\ activeEpoch \in {0, sequence}
  /\ cached \in BOOLEAN
  /\ call \in Handlers \cup {None}
  /\ captured \in {0, activeEpoch}
  /\ call # None => captured = 0
  /\ strayed \in BOOLEAN
  /\ engine \in [seq : 0..MaxCombat, seen : 0..MaxEvents, clean : BOOLEAN]
  /\ engine.seen <= happened
  /\ happened \in 0..MaxEvents
  /\ startedIn \in [CombatIds -> 0..MaxRun]
  /\ played \in (SUBSET Identities) \cup {None}

\* The run in progress has its live summary.
Summed ==
  /\ completed \in Summaries \cup {None}
  /\ run # None => completed \in Summaries
  /\ call # None /\ call.step # "open" => run \in Runs /\ completed \in Summaries

\* A run of a session that has a store is on disk under its identity.
Named(r) == r = None \/ (r.id \in Kept!RunIds /\ disk.identity[r.id] = r.identity)

RunsNamed == online => Named(run) /\ Named(combatRun)

Base == Kept!TypeOK /\ Kept!Safety /\ TypeOK /\ Summed /\ RunsNamed

\* What a handler may do to the store.
StoreStep == [Kept!Next]_(Kept!vars)

LEMMA BaseInit == Init => Base
<1> SUFFICES ASSUME Init PROVE Base
  OBVIOUS
<1>1. Kept!Init
  BY SameRequests DEF Init
<1>2. Kept!TypeOK /\ Kept!Safety
  BY <1>1, StoreConstantsHold, Kept!TypeInit, Kept!SafetyInit
<1>3. TypeOK
  <2>1. NoEngine \in [seq : 0..MaxCombat, seen : 0..MaxEvents, clean : BOOLEAN]
    BY SessionConstants DEF NoEngine
  <2>2. NoEngine.seen = 0 /\ 0 \in 0..MaxCombat /\ 0 \in 0..MaxEvents /\ 0 \in 0..MaxRun
    BY SessionConstants DEF NoEngine
  <2>3. startedIn \in [CombatIds -> 0..MaxRun] /\ played \in (SUBSET Identities) \cup {None}
    BY <2>2 DEF Init
  <2>4. happened = 0 /\ engine = NoEngine /\ engine.seen <= happened
    BY <2>2 DEF Init
  <2>5. QED
    BY <2>1, <2>2, <2>3, <2>4 DEF Init, TypeOK
<1>4. Summed /\ RunsNamed
  BY DEF Init, Summed, RunsNamed, Named
<1>5. QED
  BY <1>2, <1>3, <1>4 DEF Base

LEMMA StoreConstantsBounds ==
  /\ Kept!RunIds = 1..MaxRun /\ Kept!Owners = 0..MaxRun /\ Kept!CombatIds = CombatIds
  /\ CombatIds = 1..MaxCombat
BY DEF Kept!RunIds, Kept!Owners, Kept!CombatIds, CombatIds

(***************************************************************************)
(* A step of the store keeps its invariants and the identity of every run. *)
(***************************************************************************)
LEMMA StoreStepKeeps ==
  ASSUME Kept!TypeOK, Kept!Safety, StoreStep
  PROVE  /\ Kept!TypeOK' /\ Kept!Safety'
         /\ \A r \in Runs : Named(r) => Named(r)'
<1>1. Kept!TypeOK' /\ Kept!Safety'
  BY StoreConstantsHold, Kept!TypeNext, Kept!SafetyNext DEF StoreStep
<1>2. \A r \in Kept!RunIds : disk.identity[r] # None => disk'.identity[r] = disk.identity[r]
  BY StoreConstantsHold, Kept!Steps DEF StoreStep
<1>3. \A r \in Runs : r.identity # None
  BY SessionConstants DEF Runs
<1>4. QED
  BY <1>1, <1>2, <1>3 DEF Named

\* A request for a run, and what it cannot change.
LEMMA SaveRunStep ==
  ASSUME Base, NEW r \in Runs, online => Named(r), r # None, NEW o \in {"reported", "defeat"},
         NEW ok \in BOOLEAN, SaveRun(r, o, ok)
  PROVE  StoreStep
<1>1. CASE ~online /\ UNCHANGED stored
  BY <1>1 DEF stored, StoreStep, Kept!vars
<1>2. CASE online /\ (Store!SaveRun(r.id, r.identity, o) \/ Store!RefuseRun(r.id, r.identity))
  <2>1. r.id \in Kept!RunIds /\ r.identity \in Identities
    BY <1>2 DEF Named, Runs
  <2>2. Kept!SaveRun(r.id, r.identity, o) \/ Kept!RefuseRun(r.id, r.identity)
    BY <1>2, SameRequests
  <2>3. Kept!Recording
    BY <2>1, <2>2 DEF Kept!Recording
  <2>4. QED
    BY <2>3 DEF StoreStep, Kept!Next
<1>3. QED
  BY <1>1, <1>2 DEF SaveRun

\* What finishing a combat asks of the store.
LEMMA SaveCombatStep ==
  ASSUME Base, activeEpoch # 0, NEW snapshot \in Snapshots, NEW ok \in BOOLEAN,
         SaveCombat(activeEpoch, combatRun, snapshot, ok)
  PROVE  StoreStep
<1>1. CASE ~online /\ UNCHANGED stored
  BY <1>1 DEF stored, StoreStep, Kept!vars
<1>2. CASE online
  <2> DEFINE owner == IF combatRun = None THEN 0 ELSE combatRun.id
  <2>1. owner \in Kept!Owners /\ activeEpoch \in Kept!CombatIds
    BY <1>2, StoreConstantsBounds, SessionConstants DEF Base, TypeOK, RunsNamed, Named
  <2>2. PICK i \in IF combatRun = None THEN Identities ELSE {combatRun.identity} :
          \/ Store!SaveCombat(activeEpoch, owner, i, snapshot)
          \/ Store!RefuseCombat(activeEpoch, owner, i)
    BY <1>2 DEF SaveCombat
  <2>3. i \in Identities
    BY <2>2 DEF Base, TypeOK, Runs
  <2> HIDE DEF owner
  <2>4. \/ Kept!SaveCombat(activeEpoch, owner, i, snapshot)
        \/ Kept!RefuseCombat(activeEpoch, owner, i)
    BY <2>2, SameRequests
  <2>5. Kept!Recording
    BY <2>1, <2>3, <2>4 DEF Kept!Recording
  <2>6. QED
    BY <2>5 DEF StoreStep, Kept!Next
<1>3. QED
  BY <1>1, <1>2 DEF SaveCombat

LEMMA SummaryTypes ==
  ASSUME NEW summary \in Summaries, NEW c \in CombatIds, NEW complete \in BOOLEAN
  PROVE  /\ Add(summary, c, complete) \in Summaries
         /\ [summary EXCEPT !.ended = TRUE, !.clean = @ /\ complete] \in Summaries
<1>1. [summary.times EXCEPT ![c] = @ + 1] \in [CombatIds -> Nat]
  BY DEF Summaries
<1>2. (summary.clean /\ complete) \in BOOLEAN
  OBVIOUS
<1>3. QED
  BY <1>1, <1>2 DEF Add, Summaries

LEMMA BrokenType ==
  ASSUME NEW summary \in Summaries
  PROVE  Broken(summary) \in Summaries
BY DEF Broken, Summaries

LEMMA EmptySummaryType ==
  ASSUME NEW id \in 0..MaxRun
  PROVE  EmptySummary(id) \in Summaries
BY DEF EmptySummary, Summaries

LEMMA RefreshedIs ==
  ASSUME NEW e, NEW fresh \in BOOLEAN, NEW left \in Refreshed(e, fresh)
  PROVE  /\ left.cached \in BOOLEAN
         /\ \/ fresh /\ left.combat = combat
            \/ ~fresh /\ left.combat = IF combat = None THEN None
                                       ELSE [combat EXCEPT !.complete = FALSE]
            \/ /\ ~fresh /\ e.seq = activeEpoch
               /\ left.combat = [seen |-> e.seen, complete |-> e.clean]
<1> DEFINE marked == IF combat = None THEN None ELSE [combat EXCEPT !.complete = FALSE]
           taken  == [seen |-> e.seen, complete |-> e.clean]
<1>1. \/ fresh /\ left = [combat |-> combat, cached |-> TRUE]
      \/ ~fresh /\ left = [combat |-> marked, cached |-> FALSE]
      \/ ~fresh /\ e.seq = activeEpoch /\ left = [combat |-> taken, cached |-> TRUE]
  <2>1. IF fresh THEN left \in {[combat |-> combat, cached |-> TRUE]}
        ELSE left \in {[combat |-> marked, cached |-> FALSE]}
                       \cup {[combat |-> taken, cached |-> TRUE] : s \in {e.seq} \cap {activeEpoch}}
    BY DEF Refreshed
  <2> HIDE DEF marked, taken
  <2>2. QED
    BY <2>1
<1> HIDE DEF marked, taken
<1>2. /\ left.cached \in BOOLEAN
      /\ \/ fresh /\ left.combat = combat
         \/ ~fresh /\ left.combat = marked
         \/ ~fresh /\ e.seq = activeEpoch /\ left.combat = taken
  <2>1. \A x, b : left = [combat |-> x, cached |-> b] => left.combat = x /\ left.cached = b
    OBVIOUS
  <2>2. left.cached \in BOOLEAN
    BY <1>1, <2>1
  <2>3. QED
    BY <1>1, <2>1
<1>3. QED
  BY <1>2 DEF marked, taken

LEMMA RefreshedType ==
  ASSUME Base, NEW e \in [seq : 0..MaxCombat, seen : 0..MaxEvents, clean : BOOLEAN],
         NEW fresh \in BOOLEAN, NEW left \in Refreshed(e, fresh)
  PROVE  left.combat \in Snapshots \cup {None} /\ left.cached \in BOOLEAN
<1> DEFINE marked == IF combat = None THEN None ELSE [combat EXCEPT !.complete = FALSE]
           taken  == [seen |-> e.seen, complete |-> e.clean]
<1>1. taken \in Snapshots
  BY DEF Snapshots
<1>2. combat \in Snapshots \cup {None}
  BY DEF Base, TypeOK
<1>3. marked \in Snapshots \cup {None}
  <2>1. CASE combat = None
    BY <2>1
  <2>2. CASE combat # None
    <3>1. combat \in Snapshots /\ marked = [combat EXCEPT !.complete = FALSE]
      BY <1>2, <2>2
    <3> HIDE DEF marked
    <3>2. QED
      BY <3>1 DEF Snapshots
  <2>3. QED
    BY <2>1, <2>2
<1>4. left.cached \in BOOLEAN /\ left.combat \in {combat, marked, taken}
  BY RefreshedIs
<1> HIDE DEF marked, taken
<1>5. QED
  BY <1>1, <1>2, <1>3, <1>4

LEMMA FinishStep ==
  ASSUME Base, activeEpoch # 0, NEW snapshot \in Snapshots, Finish(snapshot)
  PROVE  /\ StoreStep
         /\ completed' \in Summaries \cup {None}
         /\ completed \in Summaries => completed' \in Summaries
<1>1. PICK ok \in BOOLEAN :
        /\ SaveCombat(activeEpoch, combatRun, snapshot, ok)
        /\ completed' = IF run # None /\ run = combatRun
                        THEN Add(completed, activeEpoch, snapshot.complete /\ ok)
                        ELSE completed
  BY DEF Finish
<1>2. StoreStep
  BY <1>1, SaveCombatStep
<1>3. activeEpoch \in CombatIds /\ (snapshot.complete /\ ok) \in BOOLEAN
  BY SessionConstants DEF Base, TypeOK, CombatIds
<1>4. run # None => Add(completed, activeEpoch, snapshot.complete /\ ok) \in Summaries
  BY <1>3, SummaryTypes DEF Base, Summed
<1>5. QED
  BY <1>1, <1>2, <1>4 DEF Base, Summed

LEMMA NoticedType ==
  ASSUME Base
  PROVE  /\ Noticed \in [seq : 0..MaxCombat, seen : 0..MaxEvents, clean : BOOLEAN]
         /\ Noticed.seq = engine.seq /\ Noticed.seen = engine.seen
         /\ Noticed.clean <=> engine.clean /\ ~strayed
<1>1. (engine.clean /\ ~strayed) \in BOOLEAN
  OBVIOUS
<1>2. QED
  BY <1>1 DEF Noticed, Base, TypeOK

LEMMA FinishInterruptedStep ==
  ASSUME Base, FinishInterrupted
  PROVE  /\ StoreStep
         /\ completed' \in Summaries \cup {None}
         /\ completed \in Summaries => completed' \in Summaries
<1>1. CASE UNCHANGED <<stored, completed>>
  BY <1>1 DEF stored, StoreStep, Kept!vars, Base, Summed
<1>2. ASSUME activeEpoch # 0, NEW left \in Refreshed(Noticed, cached /\ Noticed = engine),
             left.combat # None, Finish([left.combat EXCEPT !.complete = FALSE])
      PROVE  /\ StoreStep
             /\ completed' \in Summaries \cup {None}
             /\ completed \in Summaries => completed' \in Summaries
  <2>1. left.combat \in Snapshots
    BY <1>2, NoticedType, RefreshedType
  <2>2. [left.combat EXCEPT !.complete = FALSE] \in Snapshots
    BY <2>1 DEF Snapshots
  <2>3. QED
    BY <1>2, <2>2, FinishStep
<1>3. QED
  BY <1>1, <1>2 DEF FinishInterrupted

----------------------------------------------------------------------------
(***************************************************************************)
(* Every handler keeps the types, and asks the store for what it offers.   *)
(***************************************************************************)
BaseStep == StoreStep /\ TypeOK' /\ Summed' /\ RunsNamed'

LEMMA RunsStayNamed ==
  ASSUME Base, StoreStep, online' => online, run' \in {run, None},
         combatRun' \in {run, combatRun, None}
  PROVE  RunsNamed'
<1>1. \A r \in Runs : Named(r) => Named(r)'
  BY StoreStepKeeps DEF Base
<1>2. run \in Runs \cup {None} /\ combatRun \in Runs \cup {None}
  BY DEF Base, TypeOK
<1>3. ASSUME online' PROVE Named(run)' /\ Named(combatRun)'
  <2>1. Named(run) /\ Named(combatRun)
    BY <1>3 DEF Base, RunsNamed
  <2>2. \A r \in {run, combatRun, None} : Named(r)'
    BY <1>1, <1>2, <2>1 DEF Named
  <2>3. QED
    BY <2>2 DEF Named
<1>4. QED
  BY <1>3 DEF RunsNamed

LEMMA StoreRests ==
  ASSUME UNCHANGED stored
  PROVE  StoreStep
BY DEF stored, StoreStep, Kept!vars

LEMMA BaseStartRun ==
  ASSUME Base, NEW i \in Identities, NEW continued \in BOOLEAN, StartRun(i, continued)
  PROVE  BaseStep
<1>1. StoreStep
  <2>1. CASE UNCHANGED stored
    BY <2>1, StoreRests
  <2>2. ASSUME run # None, NEW ok \in BOOLEAN, SaveRun(run, "defeat", ok)
        PROVE  StoreStep
    BY <2>2, SaveRunStep DEF Base, TypeOK, RunsNamed
  <2>3. QED
    BY <2>1, <2>2 DEF StartRun
<1>2. UNCHANGED <<online, live, strayed, engine, happened, startedIn>> /\ captured' = 0
  BY DEF StartRun
<1>3. call' \in Handlers /\ call'.step = "open"
  BY DEF StartRun, Opening, Handlers
<1>4. played' \in (SUBSET Identities) \cup {None}
  BY DEF StartRun, Base, TypeOK, Orderly
<1>5. TypeOK'
  BY <1>2, <1>3, <1>4 DEF Base, TypeOK, live
<1>6. Summed'
  BY <1>2, <1>3 DEF Base, Summed, live
<1>7. RunsNamed'
  BY <1>1, <1>2, RunsStayNamed DEF live
<1>8. QED
  BY <1>1, <1>5, <1>6, <1>7 DEF BaseStep

LEMMA BaseOpenOffline ==
  ASSUME Base, OpenOffline
  PROVE  BaseStep
<1>1. StoreStep
  BY SameRequests DEF OpenOffline, Dispose, StoreStep, Kept!Next
<1>2. call \in Handlers
  BY DEF OpenOffline, Base, TypeOK
<1>3. run' \in Runs /\ completed' \in Summaries /\ call' = None /\ online' = FALSE
  <2>1. EmptySummary(0) \in Summaries /\ Broken(EmptySummary(0)) \in Summaries
    BY SessionConstants, EmptySummaryType, BrokenType
  <2>2. [id |-> 0, identity |-> call.identity] \in Runs
    BY <1>2, SessionConstants DEF Runs, Handlers
  <2>3. QED
    BY <2>1, <2>2 DEF OpenOffline, Dispose
<1>4. UNCHANGED <<combatRun, combat, sequence, activeEpoch, cached, native, past>>
  BY DEF OpenOffline
<1>5. TypeOK'
  BY <1>3, <1>4 DEF Base, TypeOK, native, past
<1>6. Summed' /\ RunsNamed'
  BY <1>3 DEF Summed, RunsNamed
<1>7. QED
  BY <1>1, <1>5, <1>6 DEF BaseStep

\* The run a reply of open_run names is on disk under the identity asked for.
LEMMA OpenedIsNamed ==
  ASSUME Base, NEW i \in Identities, NEW continued \in BOOLEAN, Store!OpenRun(i, continued),
         ~(continued /\ Store!Ambiguous(i))
  PROVE  /\ StoreStep
         /\ Opened(i, continued) \in Kept!RunIds
         /\ disk'.identity[Opened(i, continued)] = i
<1>1. Kept!OpenRun(i, continued) /\ ~(continued /\ Kept!Ambiguous(i))
  BY SameRequests, SameOperators
<1>2. StoreStep
  BY <1>1 DEF StoreStep, Kept!Next, Kept!Recording
<1>3. CASE continued /\ \E r \in Kept!RunIds : Kept!IsMatch(i, r)
  <2>1. disk' = disk
    BY <1>1, <1>3 DEF Kept!OpenRun
  <2>2. Opened(i, continued) \in Kept!RunIds /\ Kept!IsMatch(i, Opened(i, continued))
    BY <1>3, SameOperators DEF Opened
  <2>3. disk.identity[Opened(i, continued)] = i
    BY <2>2 DEF Kept!IsMatch, Kept!Candidates
  <2>4. QED
    BY <1>2, <2>1, <2>2, <2>3
<1>4. CASE ~(continued /\ \E r \in Kept!RunIds : Kept!IsMatch(i, r))
  <2>1. Opened(i, continued) = disk.lastRun + 1
    BY <1>4, SameOperators DEF Opened
  <2>2. disk.lastRun < MaxRun /\ disk' = Kept!AllocateRun(disk, i)
    BY <1>1, <1>4 DEF Kept!OpenRun
  <2>3. disk \in Kept!Database /\ disk.lastRun \in 0..MaxRun
    BY DEF Base, Kept!TypeOK, Kept!Database
  <2>4. disk.lastRun + 1 \in Kept!RunIds
    BY <2>2, <2>3, SessionConstants, StoreConstantsBounds
  <2>5. disk'.identity = [disk.identity EXCEPT ![disk.lastRun + 1] = i]
    BY <2>2, <2>3 DEF Kept!AllocateRun, Kept!Database
  <2>6. QED
    BY <1>2, <2>1, <2>3, <2>4, <2>5 DEF Kept!Database
<1>5. QED
  BY <1>3, <1>4

LEMMA BaseOpenRun ==
  ASSUME Base, OpenRun
  PROVE  BaseStep
<1> DEFINE id == Opened(call.identity, call.continued)
<1>1. call \in Handlers /\ call.identity \in Identities /\ call.continued \in BOOLEAN
  BY DEF OpenRun, Base, TypeOK, Handlers
<1>2. StoreStep /\ id \in Kept!RunIds /\ disk'.identity[id] = call.identity
  BY <1>1, OpenedIsNamed DEF OpenRun
<1>3. id \in 0..MaxRun
  BY <1>2, StoreConstantsBounds, SessionConstants
<1>4. /\ run' = [id |-> id, identity |-> call.identity]
      /\ completed' = EmptySummary(id)
      /\ call' = IF call.continued THEN [call EXCEPT !.step = "load"] ELSE None
      /\ UNCHANGED <<online, combatRun, combat, sequence, activeEpoch, cached, native, past>>
  BY DEF OpenRun
<1> HIDE DEF id
<1>5. run' \in Runs /\ completed' \in Summaries
  BY <1>1, <1>3, <1>4, EmptySummaryType DEF Runs
<1>6. call' \in Handlers \cup {None} /\ call # None
  BY <1>1, <1>4 DEF Handlers, OpenRun
<1>7. TypeOK'
  BY <1>4, <1>5, <1>6 DEF Base, TypeOK, native, past
<1>8. Summed'
  BY <1>5 DEF Summed
<1>9. RunsNamed'
  <2>1. \A r \in Runs : Named(r) => Named(r)'
    BY <1>2, StoreStepKeeps DEF Base
  <2>2. Named(run)'
    BY <1>2, <1>4 DEF Named
  <2>3. online => Named(combatRun)'
    BY <1>4, <2>1 DEF Base, TypeOK, RunsNamed, Named
  <2>4. QED
    BY <1>4, <2>2, <2>3 DEF RunsNamed
<1>10. QED
  BY <1>2, <1>7, <1>8, <1>9 DEF BaseStep

\* What is left when the combat in progress goes.
LEMMA NoCombatTypes ==
  ASSUME Base, NoCombat, captured' = 0, happened' = 0, sequence' \in 0..MaxCombat,
         online' \in BOOLEAN, run' \in Runs \cup {None}, combatRun' \in Runs \cup {None},
         call' \in Handlers \cup {None}, strayed' \in BOOLEAN, UNCHANGED <<startedIn, played>>
  PROVE  TypeOK'
<1>1. /\ NoEngine \in [seq : 0..MaxCombat, seen : 0..MaxEvents, clean : BOOLEAN]
      /\ NoEngine.seen <= 0 /\ 0 \in 0..MaxEvents
  BY SessionConstants DEF NoEngine
<1>2. engine' = NoEngine /\ activeEpoch' = 0 /\ combat' = None /\ cached' = FALSE
  BY DEF NoCombat
<1>3. QED
  BY <1>1, <1>2 DEF Base, TypeOK

LEMMA BaseOpenAmbiguous ==
  ASSUME Base, OpenAmbiguous
  PROVE  BaseStep
<1>1. call \in Handlers /\ call.identity \in Identities /\ captured = 0
  BY DEF OpenAmbiguous, Base, TypeOK, Handlers
<1>2. StoreStep
  <2>1. Kept!OpenRun(call.identity, TRUE)
    BY SameRequests DEF OpenAmbiguous
  <2>2. Kept!Recording
    BY <1>1, <2>1 DEF Kept!Recording
  <2>3. QED
    BY <2>2 DEF StoreStep, Kept!Next
<1>3. /\ run' = None /\ combatRun' = None /\ completed' = None /\ NoCombat /\ happened' = 0
      /\ call' = None /\ captured' = 0
      /\ UNCHANGED <<online, sequence, strayed, startedIn, played>>
  BY <1>1 DEF OpenAmbiguous
<1>4. TypeOK'
  BY <1>3, NoCombatTypes DEF Base, TypeOK
<1>5. Summed' /\ RunsNamed'
  BY <1>3 DEF Summed, RunsNamed, Named
<1>6. QED
  BY <1>2, <1>4, <1>5 DEF BaseStep

LEMMA BaseLoad ==
  ASSUME Base, LoadBegin \/ LoadPage \/ LoadFails
  PROVE  BaseStep
<1>1. call \in Handlers /\ call.step \in {"load", "pages"} /\ run \in Runs /\ run # None
      /\ completed \in Summaries
  BY SessionConstants DEF LoadBegin, LoadPage, LoadFails, Base, TypeOK, Summed, Runs
<1>2. StoreStep
  <2>1. CASE LoadBegin
    <3>1. run.id \in Kept!RunIds /\ Kept!ReadBegin(run.id, FALSE)
      BY <1>1, <2>1, SameRequests DEF LoadBegin, Base, RunsNamed, Named
    <3>2. QED
      BY <3>1 DEF StoreStep, Kept!Next, Kept!Reading
  <2>2. CASE LoadPage
    <3>1. read # None /\ \E page \in SUBSET Kept!Remaining : Kept!ReadPage(page)
      BY <2>2, SameRequests DEF LoadPage
    <3>2. QED
      BY <3>1 DEF StoreStep, Kept!Next, Kept!Reading, Kept!NextPage
  <2>3. CASE LoadFails
    <3>1. Kept!ReadEnd \/ UNCHANGED stored
      BY <2>3, SameRequests DEF LoadFails
    <3>2. QED
      BY <3>1, StoreRests DEF StoreStep, Kept!Next, Kept!Reading
  <2>4. QED
    BY <2>1, <2>2, <2>3
<1>3. /\ UNCHANGED <<online, run, combatRun, combat, sequence, activeEpoch, cached, native, past>>
      /\ call' \in {None, call, [call EXCEPT !.step = "pages"]}
  BY DEF LoadBegin, LoadPage, LoadFails, live
<1>4. completed' \in Summaries
  <2>1. \A page : Joined(page) \in Summaries
    <3>1. ASSUME NEW page PROVE Joined(page) \in Summaries
      <4> DEFINE found == {c \in CombatIds : \E row \in page : row.key = c /\ Store!Readable(row)}
                 times == [c \in CombatIds |-> IF c \in found THEN completed.times[c] + 1
                                               ELSE completed.times[c]]
                 clean == completed.clean /\ \A c \in found : disk.record[c].complete
      <4>1. times \in [CombatIds -> Nat] /\ clean \in BOOLEAN
        BY <1>1 DEF Summaries
      <4>2. Joined(page) = [completed EXCEPT !.times = times, !.clean = clean]
        BY DEF Joined
      <4> HIDE DEF times, clean
      <4>3. QED
        BY <1>1, <4>1, <4>2 DEF Summaries
    <3>2. QED
      BY <3>1
  <2>2. \A page : Broken(Joined(page)) \in Summaries
    BY <2>1, BrokenType
  <2>3. Broken(completed) \in Summaries
    BY <1>1, BrokenType
  <2>4. \/ completed' \in {completed, Broken(completed)}
        \/ \E page : completed' \in {Joined(page), Broken(Joined(page))}
    BY DEF LoadBegin, LoadPage, LoadFails, live
  <2>5. QED
    BY <1>1, <2>1, <2>2, <2>3, <2>4
<1>5. call' \in Handlers \cup {None} /\ call # None
  <2>1. [call EXCEPT !.step = "pages"] \in Handlers
    BY <1>1 DEF Handlers
  <2>2. QED
    BY <1>1, <1>3, <2>1 DEF LoadBegin, LoadPage, LoadFails
<1>6. TypeOK'
  BY <1>3, <1>5 DEF Base, TypeOK, native, past
<1>7. Summed'
  BY <1>1, <1>3, <1>4 DEF Summed
<1>8. RunsNamed'
  BY <1>2, <1>3, RunsStayNamed
<1>9. QED
  BY <1>2, <1>6, <1>7, <1>8 DEF BaseStep

LEMMA BaseStartCombat ==
  ASSUME Base, StartCombat
  PROVE  BaseStep
<1>1. /\ StoreStep
      /\ completed' \in Summaries \cup {None}
      /\ completed \in Summaries => completed' \in Summaries
  BY FinishInterruptedStep DEF StartCombat
<1>2. /\ sequence' = sequence + 1 /\ sequence + 1 \in CombatIds
      /\ combatRun' = run /\ activeEpoch' = sequence' /\ captured' = sequence' /\ happened' = 0
      /\ call = None /\ UNCHANGED <<online, run, call, strayed, played>>
  BY SessionConstants DEF StartCombat, Base, TypeOK, CombatIds
<1>3. /\ engine' \in [seq : 0..MaxCombat, seen : 0..MaxEvents, clean : BOOLEAN]
      /\ engine'.seen = 0 /\ combat' \in Snapshots \cup {None} /\ cached' \in BOOLEAN
  <2>1. PICK clean \in BOOLEAN, readable \in BOOLEAN :
          /\ engine' = [seq |-> sequence', seen |-> 0, clean |-> clean]
          /\ combat' = IF readable THEN [seen |-> 0, complete |-> clean] ELSE None
          /\ cached' = readable
    BY DEF StartCombat
  <2>2. [seen |-> 0, complete |-> clean] \in Snapshots
    BY SessionConstants DEF Snapshots
  <2>3. QED
    BY <1>2, <2>1, <2>2, SessionConstants DEF CombatIds
<1>4. startedIn' \in [CombatIds -> 0..MaxRun]
  <2>1. (IF run = None THEN 0 ELSE run.id) \in 0..MaxRun
    BY SessionConstants DEF Base, TypeOK, Runs
  <2>2. QED
    BY <1>2, <2>1 DEF StartCombat, Base, TypeOK
<1>5. TypeOK'
  <2>1. 0 \in 0..MaxEvents /\ 0 <= 0 /\ sequence' \in 0..MaxCombat
    BY <1>2, SessionConstants DEF CombatIds
  <2>2. QED
    BY <1>2, <1>3, <1>4, <2>1 DEF Base, TypeOK
<1>6. Summed'
  BY <1>1, <1>2 DEF Base, Summed
<1>7. RunsNamed'
  <2>1. combatRun' \in {run, combatRun, None} /\ run' \in {run, None}
    BY <1>2
  <2>2. QED
    BY <1>1, <1>2, <2>1, RunsStayNamed
<1>8. QED
  BY <1>1, <1>5, <1>6, <1>7 DEF BaseStep

LEMMA BaseStartCombatFails ==
  ASSUME Base, StartCombatFails
  PROVE  BaseStep
<1>1. /\ StoreStep
      /\ completed' \in Summaries \cup {None}
      /\ completed \in Summaries => completed' \in Summaries
  BY FinishInterruptedStep DEF StartCombatFails
<1>2. /\ NoCombat /\ captured' = 0 /\ happened' = 0 /\ call = None
      /\ UNCHANGED <<online, run, call, strayed, startedIn, played>>
      /\ combatRun' \in {run, None} /\ sequence' \in 0..MaxCombat
  BY SessionConstants DEF StartCombatFails, Base, TypeOK
<1>3. TypeOK'
  BY <1>2, NoCombatTypes DEF Base, TypeOK
<1>4. Summed'
  BY <1>1, <1>2 DEF Base, Summed
<1>5. RunsNamed'
  BY <1>1, <1>2, RunsStayNamed
<1>6. QED
  BY <1>1, <1>3, <1>4, <1>5 DEF BaseStep

LEMMA BaseEndCombat ==
  ASSUME Base, EndCombat
  PROVE  BaseStep
<1>1. /\ StoreStep
      /\ completed' \in Summaries \cup {None}
      /\ completed \in Summaries => completed' \in Summaries
  <2>1. PICK ended \in BOOLEAN :
          \E left \in Refreshed([Noticed EXCEPT !.clean = @ /\ ended], FALSE) :
            \/ left.combat = None /\ UNCHANGED <<stored, completed>>
            \/ left.combat # None /\ Finish(left.combat)
    BY DEF EndCombat
  <2> DEFINE e == [Noticed EXCEPT !.clean = @ /\ ended]
  <2>2. e \in [seq : 0..MaxCombat, seen : 0..MaxEvents, clean : BOOLEAN]
    <3>1. (Noticed.clean /\ ended) \in BOOLEAN
      OBVIOUS
    <3>2. QED
      BY <3>1, NoticedType
  <2> HIDE DEF e
  <2>3. PICK left \in Refreshed(e, FALSE) :
          \/ left.combat = None /\ UNCHANGED <<stored, completed>>
          \/ left.combat # None /\ Finish(left.combat)
    BY <2>1 DEF e
  <2>4. left.combat \in Snapshots \cup {None}
    BY <2>2, RefreshedType
  <2>5. CASE UNCHANGED <<stored, completed>>
    BY <2>5, StoreRests DEF Base, Summed
  <2>6. CASE left.combat # None /\ Finish(left.combat)
    BY <2>4, <2>6, FinishStep DEF EndCombat
  <2>7. QED
    BY <2>3, <2>5, <2>6
<1>2. /\ NoCombat /\ captured' = 0 /\ happened' = 0 /\ call = None
      /\ UNCHANGED <<online, run, combatRun, sequence, call, strayed, startedIn, played>>
  BY DEF EndCombat
<1>3. TypeOK'
  BY <1>2, NoCombatTypes DEF Base, TypeOK
<1>4. Summed'
  BY <1>1, <1>2 DEF Base, Summed
<1>5. RunsNamed'
  BY <1>1, <1>2, RunsStayNamed
<1>6. QED
  BY <1>1, <1>3, <1>4, <1>5 DEF BaseStep

LEMMA BaseEndRun ==
  ASSUME Base, EndRun
  PROVE  BaseStep
<1>1. StoreStep /\ completed' \in Summaries \cup {None}
  <2>1. CASE UNCHANGED <<stored, completed>>
    BY <2>1, StoreRests DEF Base, Summed
  <2>2. CASE run # None /\ Ended
    <3>1. PICK ok \in BOOLEAN :
            /\ SaveRun(run, "reported", ok)
            /\ completed' = [completed EXCEPT !.ended = TRUE, !.clean = @ /\ ok]
      BY <2>2 DEF Ended
    <3>2. completed \in Summaries /\ completed' \in Summaries
      <4>1. completed \in Summaries /\ (completed.clean /\ ok) \in BOOLEAN
        BY <2>2 DEF Base, Summed
      <4>2. QED
        BY <3>1, <4>1 DEF Summaries
    <3>3. QED
      BY <2>2, <3>1, <3>2, SaveRunStep DEF Base, TypeOK, RunsNamed
  <2>3. QED
    BY <2>1, <2>2 DEF EndRun
<1>2. /\ captured' = 0 /\ run' = None /\ call = None
      /\ UNCHANGED <<online, combatRun, combat, sequence, activeEpoch, cached, call,
                     strayed, engine, past>>
  BY DEF EndRun
<1>3. TypeOK'
  BY <1>2 DEF Base, TypeOK, past
<1>4. Summed'
  BY <1>1, <1>2 DEF Summed
<1>5. RunsNamed'
  BY <1>1, <1>2, RunsStayNamed
<1>6. QED
  BY <1>1, <1>3, <1>4, <1>5 DEF BaseStep

LEMMA BaseSuspend ==
  ASSUME Base, Suspend
  PROVE  BaseStep
<1>1. StoreStep
  BY StoreRests DEF Suspend
<1>2. /\ call = None /\ run' = None /\ combatRun' = None /\ completed' = None /\ NoCombat
      /\ captured' = 0 /\ happened' = 0
      /\ UNCHANGED <<online, sequence, call, strayed, startedIn, played>>
  BY DEF Suspend
<1>3. TypeOK'
  BY <1>2, NoCombatTypes DEF Base, TypeOK
<1>4. Summed' /\ RunsNamed'
  BY <1>2 DEF Summed, RunsNamed, Named
<1>5. QED
  BY <1>1, <1>3, <1>4 DEF BaseStep

LEMMA BaseRefresh ==
  ASSUME Base, Refresh
  PROVE  BaseStep
<1>1. StoreStep
  BY StoreRests DEF Refresh
<1>2. UNCHANGED <<online, run, combatRun, completed, sequence, activeEpoch, call, native, past>>
  BY DEF Refresh
<1>3. combat' \in Snapshots \cup {None} /\ cached' \in BOOLEAN
  <2>1. PICK left \in Refreshed(engine, FALSE) : combat' = left.combat /\ cached' = left.cached
    BY DEF Refresh
  <2>2. QED
    BY <2>1, RefreshedType DEF Base, TypeOK
<1>4. TypeOK'
  BY <1>2, <1>3 DEF Base, TypeOK, native, past
<1>5. Summed'
  BY <1>2 DEF Base, Summed
<1>6. RunsNamed'
  BY <1>1, <1>2, RunsStayNamed
<1>7. QED
  BY <1>1, <1>4, <1>5, <1>6 DEF BaseStep

LEMMA BaseEvent ==
  ASSUME Base, Event
  PROVE  BaseStep
<1>1. StoreStep
  BY StoreRests DEF Event
<1>2. /\ UNCHANGED <<online, run, combatRun, completed, combat, sequence, activeEpoch, call,
                     captured, startedIn, played>>
      /\ happened' = happened + 1 /\ happened < MaxEvents
  BY DEF Event
<1>3. /\ engine' \in [seq : 0..MaxCombat, seen : 0..MaxEvents, clean : BOOLEAN]
      /\ engine'.seen <= happened' /\ cached' \in BOOLEAN /\ strayed' \in BOOLEAN
      /\ happened' \in 0..MaxEvents
  <2>1. /\ engine \in [seq : 0..MaxCombat, seen : 0..MaxEvents, clean : BOOLEAN]
        /\ engine.seen <= happened /\ cached \in BOOLEAN /\ strayed \in BOOLEAN
        /\ happened \in 0..MaxEvents
    BY DEF Base, TypeOK
  <2>2. /\ happened' \in 0..MaxEvents /\ engine.seen + 1 \in 0..MaxEvents
        /\ engine.seen + 1 <= happened' /\ engine.seen <= happened'
    BY <1>2, <2>1, SessionConstants
  <2>3. \/ engine' = [engine EXCEPT !.seen = @ + 1]
        \/ engine' = [engine EXCEPT !.clean = FALSE]
        \/ engine' = engine
    BY DEF Event
  <2>4. cached' \in BOOLEAN /\ strayed' \in BOOLEAN
    BY <2>1 DEF Event
  <2>5. QED
    BY <2>1, <2>2, <2>3, <2>4
<1>4. TypeOK'
  BY <1>2, <1>3 DEF Base, TypeOK
<1>5. Summed'
  BY <1>2 DEF Base, Summed
<1>6. RunsNamed'
  BY <1>1, <1>2, RunsStayNamed
<1>7. QED
  BY <1>1, <1>4, <1>5, <1>6 DEF BaseStep

LEMMA BaseRestart ==
  ASSUME Base, LoseStore \/ Crash
  PROVE  BaseStep
<1>1. StoreStep
  <2>1. Kept!Restart
    BY SameRequests DEF LoseStore, Crash, Dispose
  <2>2. QED
    BY <2>1 DEF StoreStep, Kept!Next
<1>2. CASE LoseStore
  <2>1. online' = FALSE /\ UNCHANGED <<live, call, native, past>>
    BY <1>2 DEF LoseStore, Dispose
  <2>2. TypeOK'
    <3>1. /\ online' \in BOOLEAN
          /\ UNCHANGED <<run, combatRun, combat, sequence, activeEpoch, cached, call>>
          /\ UNCHANGED <<captured, strayed, engine, happened, startedIn, played>>
      BY <2>1 DEF live, native, past
    <3>2. QED
      BY <3>1 DEF Base, TypeOK
  <2>3. Summed' /\ RunsNamed'
    BY <2>1 DEF Base, Summed, RunsNamed, live
  <2>4. QED
    BY <1>1, <2>2, <2>3 DEF BaseStep
<1>3. CASE Crash
  <2>1. /\ online' \in BOOLEAN /\ run' = None /\ combatRun' = None /\ completed' = None
        /\ NoCombat /\ call' = None /\ captured' = 0 /\ strayed' = FALSE /\ happened' = 0
        /\ UNCHANGED <<startedIn, played>>
    BY <1>3 DEF Crash
  <2>2. sequence' \in 0..MaxCombat
    BY <1>3, SessionConstants DEF Crash, FirstSequence, Base, Kept!TypeOK, Kept!Database
  <2>3. TypeOK'
    BY <2>1, <2>2, NoCombatTypes
  <2>4. Summed' /\ RunsNamed'
    BY <2>1 DEF Summed, RunsNamed, Named
  <2>5. QED
    BY <1>1, <2>3, <2>4 DEF BaseStep
<1>4. QED
  BY <1>2, <1>3

LEMMA BaseNext == Base /\ [Next]_vars => StoreStep /\ Base'
<1> SUFFICES ASSUME Base, [Next]_vars PROVE StoreStep /\ Base'
  OBVIOUS
<1>1. BaseStep
  <2>1. CASE UNCHANGED vars
    BY <2>1, StoreRests
       DEF vars, live, native, past, Base, BaseStep, TypeOK, Summed, RunsNamed, Named, stored
  <2>2. ASSUME NEW i \in Identities, NEW continued \in BOOLEAN, StartRun(i, continued)
        PROVE  BaseStep
    BY <2>2, BaseStartRun
  <2>3. CASE OpenRun \/ OpenOffline \/ OpenAmbiguous
    BY <2>3, BaseOpenRun, BaseOpenOffline, BaseOpenAmbiguous
  <2>4. CASE LoadBegin \/ LoadPage \/ LoadFails
    BY <2>4, BaseLoad
  <2>5. CASE StartCombat \/ StartCombatFails \/ EndCombat
    BY <2>5, BaseStartCombat, BaseStartCombatFails, BaseEndCombat
  <2>6. CASE EndRun \/ Suspend \/ Refresh \/ Event
    BY <2>6, BaseEndRun, BaseSuspend, BaseRefresh, BaseEvent
  <2>7. CASE LoseStore \/ Crash
    BY <2>7, BaseRestart
  <2>8. QED
    BY <2>1, <2>2, <2>3, <2>4, <2>5, <2>6, <2>7 DEF Next
<1>2. QED
  BY <1>1, StoreStepKeeps DEF Base, BaseStep

LEMMA BaseHolds == Spec => []Base
<1>1. QED
  BY BaseInit, BaseNext, PTL DEF Spec

(***************************************************************************)
(* The session uses the store as module Store describes it: every handler  *)
(* makes requests the store offers, in states in which it offers them, and *)
(* changes nothing in it otherwise (StatisticsStore.cs; with RunsNamed, no *)
(* request names a run ID 0 or one that the store does not have).          *)
(***************************************************************************)
THEOREM SessionUsesStore == Spec => Store!Spec
<1>1. Init => Store!Init
  BY DEF Init
<1>2. Kept!Recording => Store!Recording
  BY SameRequests, SameOperators DEF Kept!Recording, Store!Recording, Kept!Owners, Store!Owners
<1>3. Kept!Reading => Store!Reading
  BY SameRequests, SameOperators DEF Kept!Reading, Store!Reading, Kept!NextPage, Store!NextPage
<1>4. Kept!Importing => Store!Importing
  BY DEF Kept!Importing, Store!Importing, Kept!ImportBegin, Store!ImportBegin, Kept!ImportRun,
         Store!ImportRun, Kept!ImportRecord, Store!ImportRecord, Kept!ImportAmbiguous,
         Store!ImportAmbiguous, Kept!ImportEnd, Store!ImportEnd, Kept!ImportId, Store!ImportId,
         Kept!ImportCommit, Store!ImportCommit, Kept!Idle, Store!Idle, Kept!Larger, Store!Larger,
         Kept!NotImported, Store!NotImported, Kept!CombatIds, Store!CombatIds
<1>5. (Kept!DropSession => Store!DropSession) /\ (Kept!Restart => Store!Restart)
  BY SameRequests DEF Kept!DropSession, Store!DropSession, Kept!Idle, Store!Idle
<1>6. StoreStep => [Store!Next]_(Store!vars)
  BY <1>2, <1>3, <1>4, <1>5 DEF StoreStep, Kept!Next, Store!Next, Kept!vars, Store!vars
<1>7. Base /\ [Next]_vars => [Store!Next]_(Store!vars)
  BY <1>6, BaseNext
<1>8. QED
  BY <1>1, <1>7, BaseHolds, PTL DEF Spec, Store!Spec

----------------------------------------------------------------------------
(***************************************************************************)
(* Where combats are stored.  A request writes rows and intents only for   *)
(* the intents that are pending and, when a combat is finished, for that   *)
(* combat under the run it was started in.                                 *)
(***************************************************************************)
CombatOwner == IF combatRun = None THEN 0 ELSE combatRun.id

\* Combat c (0: none) under run r, besides what is pending already.
Writes(c, r) ==
  \A d \in CombatIds :
    /\ disk'.owner[d] = disk.owner[d] \/ disk'.owner[d] = pending[d] \/ (d = c /\ disk'.owner[d] = r)
    /\ disk.owner[d] # None => disk'.owner[d] = disk.owner[d]
    /\ pending'[d] \in {None, pending[d]} \/ (d = c /\ pending'[d] = r)
    /\ disk'.record[d] = disk.record[d] \/ d = c

\* No run is named or renamed, and none but run r (0: none) gets an outcome.
Settles(r) ==
  /\ disk'.identity = disk.identity
  /\ disk'.ambiguous = disk.ambiguous /\ disk'.archive = disk.archive
  /\ \A s \in Kept!RunIds : disk'.final[s] = disk.final[s] \/ s = r

LEMMA SaveCombatWrites ==
  ASSUME Kept!TypeOK, Kept!Safety, NEW c \in Kept!CombatIds, NEW r \in Kept!Owners,
         NEW i \in Identities, NEW p \in Snapshots,
         Kept!SaveCombat(c, r, i, p) \/ Kept!RefuseCombat(c, r, i)
  PROVE  Writes(c, r) /\ Settles(0)
<1>1. CASE Kept!RefuseCombat(c, r, i)
  BY <1>1 DEF Kept!RefuseCombat, Writes, Settles
<1>2. CASE Kept!SaveCombat(c, r, i, p)
  <2> DEFINE pend == [pending EXCEPT ![c] = r]
  <2>1. /\ pend \in [Kept!CombatIds -> Kept!Owners \cup {None}] /\ Kept!Writable(pend)
        /\ \A d \in Kept!CombatIds : pend[d] = IF d = c THEN r ELSE pending[d]
    BY <1>2, StoreConstantsHold, Kept!AllowedIsWritable DEF Kept!SaveCombat, Kept!TypeOK
  <2>2. PICK left \in Kept!Retried(pend) :
          /\ pending' = left.pending
          /\ disk' = left.disk \/ disk' = [left.disk EXCEPT !.record[c] = p]
    BY <1>2 DEF Kept!SaveCombat
  <2> HIDE DEF pend
  <2>3. left.disk \in Kept!Database
    BY <2>1, StoreConstantsHold, Kept!RetriedFacts
  <2>4. /\ left.disk.record = disk.record /\ left.disk.identity = disk.identity
        /\ left.disk.final = disk.final /\ left.disk.archive = disk.archive
        /\ left.disk.ambiguous = disk.ambiguous
        /\ \A d \in Kept!CombatIds :
             /\ disk.owner[d] # None => left.disk.owner[d] = disk.owner[d]
             /\ \/ left.disk.owner[d] = disk.owner[d]
                \/ left.disk.owner[d] = pend[d]
             /\ left.pending[d] \in {None, pend[d]}
    BY <2>1, StoreConstantsHold, Kept!RetriedKeeps
  <2>5. /\ disk'.owner = left.disk.owner
        /\ \A d \in Kept!CombatIds : d # c => disk'.record[d] = left.disk.record[d]
        /\ disk'.identity = left.disk.identity /\ disk'.final = left.disk.final
        /\ disk'.archive = left.disk.archive /\ disk'.ambiguous = left.disk.ambiguous
    BY <2>2, <2>3 DEF Kept!Database
  <2>6. Writes(c, r)
    BY <2>1, <2>2, <2>4, <2>5, StoreConstantsBounds DEF Writes
  <2>7. QED
    BY <2>4, <2>5, <2>6 DEF Settles
<1>3. QED
  BY <1>1, <1>2

LEMMA SaveRunWrites ==
  ASSUME Kept!TypeOK, Kept!Safety, NEW r \in Kept!RunIds, NEW i \in Identities,
         NEW o \in {"reported", "defeat"}, Kept!SaveRun(r, i, o) \/ Kept!RefuseRun(r, i)
  PROVE  Writes(0, 0) /\ Settles(r)
<1>1. CASE Kept!RefuseRun(r, i)
  BY <1>1 DEF Kept!RefuseRun, Writes, Settles
<1>2. CASE Kept!SaveRun(r, i, o)
  <2>1. pending \in [Kept!CombatIds -> Kept!Owners \cup {None}] /\ Kept!Writable(pending)
    BY DEF Kept!TypeOK, Kept!Safety, Kept!PendingPersistable, Kept!Writable
  <2>2. PICK left \in Kept!Retried(pending) :
          /\ pending' = left.pending
          /\ disk' = left.disk \/ disk' = Kept!Finalized(left.disk, r, o)
    BY <1>2 DEF Kept!SaveRun
  <2>3. left.disk \in Kept!Database
    BY <2>1, StoreConstantsHold, Kept!RetriedFacts
  <2>4. /\ left.disk.record = disk.record /\ left.disk.identity = disk.identity
        /\ left.disk.final = disk.final /\ left.disk.archive = disk.archive
        /\ left.disk.ambiguous = disk.ambiguous
        /\ \A d \in Kept!CombatIds :
             /\ disk.owner[d] # None => left.disk.owner[d] = disk.owner[d]
             /\ \/ left.disk.owner[d] = disk.owner[d]
                \/ left.disk.owner[d] = pending[d]
             /\ left.pending[d] \in {None, pending[d]}
    BY <2>1, StoreConstantsHold, Kept!RetriedKeeps
  <2>5. /\ disk'.owner = left.disk.owner /\ disk'.record = left.disk.record
        /\ disk'.identity = left.disk.identity
        /\ \A s \in Kept!RunIds : s # r => disk'.final[s] = left.disk.final[s]
        /\ disk'.archive = left.disk.archive /\ disk'.ambiguous = left.disk.ambiguous
    BY <2>2, <2>3 DEF Kept!Finalized, Kept!Database
  <2>6. Writes(0, 0)
    BY <2>2, <2>4, <2>5, StoreConstantsBounds DEF Writes
  <2>7. QED
    BY <2>4, <2>5, <2>6 DEF Settles
<1>3. QED
  BY <1>1, <1>2

LEMMA OpenRunWrites ==
  ASSUME Kept!TypeOK, NEW i \in Identities, NEW continued \in BOOLEAN, Kept!OpenRun(i, continued)
  PROVE  Writes(0, 0)
<1>1. disk' = disk \/ disk' = Kept!AllocateRun(disk, i)
  BY DEF Kept!OpenRun
<1>2. disk'.owner = disk.owner /\ disk'.record = disk.record
  BY <1>1 DEF Kept!AllocateRun, Kept!TypeOK, Kept!Database
<1>3. QED
  BY <1>2 DEF Kept!OpenRun, Writes

LEMMA RestWrites ==
  ASSUME UNCHANGED <<disk, pending>> \/ Kept!Restart
  PROVE  Writes(0, 0) /\ Settles(0)
<1>1. CASE UNCHANGED <<disk, pending>>
  BY <1>1 DEF Writes, Settles
<1>2. CASE Kept!Restart
  <2>1. \A d \in CombatIds : pending'[d] = None
    BY <1>2, StoreConstantsBounds DEF Kept!Restart, Kept!NoPending
  <2>2. QED
    BY <1>2, <2>1 DEF Kept!Restart, Writes, Settles
<1>3. QED
  BY <1>1, <1>2

\* The combat in progress is the one written, under its run, or there is none.
FinishWrites == Writes(0, 0) \/ (online /\ activeEpoch # 0 /\ Writes(activeEpoch, CombatOwner))

LEMMA FinishIsWrite ==
  ASSUME Base, activeEpoch # 0, NEW snapshot \in Snapshots, Finish(snapshot)
  PROVE  FinishWrites /\ Settles(0)
<1>1. PICK ok \in BOOLEAN : SaveCombat(activeEpoch, combatRun, snapshot, ok)
  BY DEF Finish
<1>2. CASE ~online
  BY <1>1, <1>2, RestWrites DEF SaveCombat, stored, FinishWrites
<1>3. CASE online
  <2>1. CombatOwner \in Kept!Owners /\ activeEpoch \in Kept!CombatIds
    BY <1>3, StoreConstantsBounds, SessionConstants DEF CombatOwner, Base, TypeOK, RunsNamed, Named
  <2>2. PICK i \in IF combatRun = None THEN Identities ELSE {combatRun.identity} :
          \/ Store!SaveCombat(activeEpoch, CombatOwner, i, snapshot)
          \/ Store!RefuseCombat(activeEpoch, CombatOwner, i)
    BY <1>1, <1>3 DEF SaveCombat, CombatOwner
  <2>3. i \in Identities
    BY <2>2 DEF Base, TypeOK, Runs
  <2>4. \/ Kept!SaveCombat(activeEpoch, CombatOwner, i, snapshot)
        \/ Kept!RefuseCombat(activeEpoch, CombatOwner, i)
    BY <2>2, SameRequests
  <2>5. QED
    BY <1>3, <2>1, <2>3, <2>4, SaveCombatWrites DEF Base, FinishWrites
<1>4. QED
  BY <1>2, <1>3

LEMMA FinishInterruptedIsWrite ==
  ASSUME Base, FinishInterrupted
  PROVE  FinishWrites /\ Settles(0)
<1>1. CASE UNCHANGED <<stored, completed>>
  BY <1>1, RestWrites DEF stored, FinishWrites
<1>2. ASSUME activeEpoch # 0, NEW left \in Refreshed(Noticed, cached /\ Noticed = engine),
             left.combat # None, Finish([left.combat EXCEPT !.complete = FALSE])
      PROVE  FinishWrites /\ Settles(0)
  <2>1. left.combat \in Snapshots
    BY <1>2, NoticedType, RefreshedType
  <2>2. [left.combat EXCEPT !.complete = FALSE] \in Snapshots
    BY <2>1 DEF Snapshots
  <2>3. QED
    BY <1>2, <2>2, FinishIsWrite
<1>3. QED
  BY <1>1, <1>2 DEF FinishInterrupted

LEMMA EndCombatIsWrite ==
  ASSUME Base, EndCombat
  PROVE  FinishWrites /\ Settles(0)
<1>1. PICK ended \in BOOLEAN :
        \E left \in Refreshed([Noticed EXCEPT !.clean = @ /\ ended], FALSE) :
          \/ left.combat = None /\ UNCHANGED <<stored, completed>>
          \/ left.combat # None /\ Finish(left.combat)
  BY DEF EndCombat
<1> DEFINE e == [Noticed EXCEPT !.clean = @ /\ ended]
<1>2. e \in [seq : 0..MaxCombat, seen : 0..MaxEvents, clean : BOOLEAN]
  <2>1. (Noticed.clean /\ ended) \in BOOLEAN
    OBVIOUS
  <2>2. QED
    BY <2>1, NoticedType
<1> HIDE DEF e
<1>3. PICK left \in Refreshed(e, FALSE) :
        \/ left.combat = None /\ UNCHANGED <<stored, completed>>
        \/ left.combat # None /\ Finish(left.combat)
  BY <1>1 DEF e
<1>4. left.combat \in Snapshots \cup {None}
  BY <1>2, RefreshedType
<1>5. CASE UNCHANGED <<stored, completed>>
  BY <1>5, RestWrites DEF stored, FinishWrites
<1>6. CASE left.combat # None /\ Finish(left.combat)
  BY <1>4, <1>6, FinishIsWrite DEF EndCombat
<1>7. QED
  BY <1>3, <1>5, <1>6

(***************************************************************************)
(* Handlers by what they do to the combat in progress: nothing, or they    *)
(* end it, start one, or the process dies.                                 *)
(***************************************************************************)
Quiet ==
  /\ Writes(0, 0)
  /\ online' => online
  /\ UNCHANGED <<activeEpoch, combatRun, sequence, startedIn>>

Over ==
  /\ FinishWrites
  /\ Writes(0, 0) \/ StartCombatFails \/ EndCombat
  /\ activeEpoch' = 0
  /\ online' = online /\ sequence' >= sequence
  /\ UNCHANGED startedIn

LEMMA Kinds == Base /\ [Next]_vars => Quiet \/ Over \/ StartCombat \/ Crash
<1> SUFFICES ASSUME Base, [Next]_vars PROVE Quiet \/ Over \/ StartCombat \/ Crash
  OBVIOUS
<1> USE DEF live, past, native, stored
<1>1. CASE UNCHANGED vars
  BY <1>1, RestWrites DEF vars, Quiet
<1>2. ASSUME NEW r, r = run, r # None, NEW o \in {"reported", "defeat"}, NEW ok \in BOOLEAN,
             SaveRun(r, o, ok)
      PROVE  Writes(0, 0)
  <2>1. CASE ~online
    BY <1>2, <2>1, RestWrites DEF SaveRun
  <2>2. CASE online
    <3>1. r.id \in Kept!RunIds /\ r.identity \in Identities
      BY <1>2, <2>2 DEF Base, TypeOK, Runs, RunsNamed, Named
    <3>2. Kept!SaveRun(r.id, r.identity, o) \/ Kept!RefuseRun(r.id, r.identity)
      BY <1>2, <2>2, SameRequests DEF SaveRun
    <3>3. QED
      BY <3>1, <3>2, SaveRunWrites DEF Base
  <2>3. QED
    BY <2>1, <2>2
<1>3. ASSUME NEW i \in Identities, NEW continued \in BOOLEAN, StartRun(i, continued)
      PROVE  Quiet
  <2>1. Writes(0, 0)
    BY <1>2, <1>3, RestWrites DEF StartRun
  <2>2. QED
    BY <1>3, <2>1 DEF StartRun, Quiet
<1>4. CASE OpenRun \/ OpenAmbiguous
  <2>1. call.identity \in Identities /\ call.continued \in BOOLEAN
    BY <1>4 DEF OpenRun, OpenAmbiguous, Base, TypeOK, Handlers
  <2>2. Kept!OpenRun(call.identity, call.continued) \/ Kept!OpenRun(call.identity, TRUE)
    BY <1>4, SameRequests DEF OpenRun, OpenAmbiguous
  <2>3. Writes(0, 0)
    BY <2>1, <2>2, OpenRunWrites DEF Base
  <2>4. CASE OpenRun
    BY <2>3, <2>4 DEF OpenRun, Quiet
  <2>5. CASE OpenAmbiguous
    BY <2>3, <2>5 DEF OpenAmbiguous, NoCombat, Over, FinishWrites, Base, TypeOK
  <2>6. QED
    BY <1>4, <2>4, <2>5
<1>5. CASE OpenOffline \/ LoseStore
  <2>1. Writes(0, 0)
    BY <1>5, SameRequests, RestWrites DEF OpenOffline, LoseStore, Dispose
  <2>2. QED
    BY <1>5, <2>1 DEF OpenOffline, LoseStore, Dispose, Quiet
<1>6. CASE LoadBegin \/ LoadPage \/ LoadFails
  <2>1. UNCHANGED <<disk, pending>>
    BY <1>6 DEF LoadBegin, LoadPage, LoadFails, Store!ReadBegin, Store!ReadPage, Store!ReadEnd
  <2>2. QED
    BY <1>6, <2>1, RestWrites DEF LoadBegin, LoadPage, LoadFails, Quiet
<1>7. CASE StartCombatFails
  BY <1>7, FinishInterruptedIsWrite, SessionConstants
     DEF StartCombatFails, NoCombat, Over, Base, TypeOK
<1>8. CASE EndCombat
  <2>1. activeEpoch' = 0 /\ UNCHANGED <<online, sequence, startedIn>> /\ sequence \in 0..MaxCombat
    BY <1>8 DEF EndCombat, NoCombat, Base, TypeOK
  <2>2. QED
    BY <1>8, <2>1, EndCombatIsWrite, SessionConstants DEF Over
<1>9. CASE EndRun
  <2>1. Writes(0, 0)
    BY <1>2, <1>9, RestWrites DEF EndRun, Ended
  <2>2. QED
    BY <1>9, <2>1 DEF EndRun, Quiet
<1>10. CASE Suspend
  BY <1>10, RestWrites DEF Suspend, NoCombat, Over, FinishWrites, Base, TypeOK
<1>11. CASE Refresh \/ Event
  BY <1>11, RestWrites DEF Refresh, Event, Quiet
<1>12. QED
  BY <1>1, <1>3, <1>4, <1>5, <1>6, <1>7, <1>8, <1>9, <1>10, <1>11 DEF Next

\* No combat after the last one has a row or an intent, as long as there is a store.
Unused ==
  online => \A c \in CombatIds : c > sequence => disk.owner[c] = None /\ pending[c] = None

\* The combat in progress was started in combatRun and has no record yet.
InProgress ==
  online /\ activeEpoch # 0 =>
    startedIn[activeEpoch] = CombatOwner /\ disk.record[activeEpoch] = None

OwnerInv == StoredUnderItsRun /\ Unused /\ InProgress

LEMMA OwnerInit == Init => OwnerInv
<1> SUFFICES ASSUME Init PROVE OwnerInv
  OBVIOUS
<1>1. Kept!Init /\ activeEpoch = 0
  BY SameRequests DEF Init
<1>2. \A c \in CombatIds : disk.owner[c] = None /\ pending[c] = None
  BY <1>1, StoreConstantsBounds DEF Kept!Init, Kept!EmptyDatabase, Kept!NoPending
<1>3. QED
  BY <1>1, <1>2 DEF OwnerInv, StoredUnderItsRun, Unused, InProgress

\* Rows and intents that a handler writes are those of the runs the combats were started in.
LEMMA WritesKeep ==
  ASSUME Base, OwnerInv, FinishWrites
  PROVE  /\ \A d \in CombatIds : /\ disk'.owner[d] # None => disk'.owner[d] = startedIn[d]
                                 /\ pending'[d] # None => pending'[d] = startedIn[d]
         /\ online => \A d \in CombatIds : d > sequence =>
                        disk'.owner[d] = None /\ pending'[d] = None
<1>1. /\ \A d \in CombatIds : /\ disk.owner[d] # None => disk.owner[d] = startedIn[d]
                              /\ pending[d] # None => pending[d] = startedIn[d]
      /\ online => \A d \in CombatIds : d > sequence => disk.owner[d] = None /\ pending[d] = None
  BY DEF OwnerInv, StoredUnderItsRun, Unused
<1>2. CASE Writes(0, 0)
  <2>1. \A d \in CombatIds : d # 0
    BY SessionConstants DEF CombatIds
  <2>2. QED
    BY <1>1, <1>2, <2>1 DEF Writes
<1>3. CASE online /\ activeEpoch # 0 /\ Writes(activeEpoch, CombatOwner)
  <2>1. activeEpoch = sequence /\ startedIn[activeEpoch] = CombatOwner
    BY <1>3 DEF Base, TypeOK, OwnerInv, InProgress
  <2>2. \A d \in CombatIds : d > sequence => d # activeEpoch
    BY <2>1, SessionConstants DEF CombatIds, Base, TypeOK
  <2>3. QED
    BY <1>1, <1>3, <2>1, <2>2 DEF Writes
<1>4. QED
  BY <1>2, <1>3 DEF FinishWrites

LEMMA OwnerNext == Base /\ OwnerInv /\ [Next]_vars => OwnerInv'
<1> SUFFICES ASSUME Base, OwnerInv, [Next]_vars PROVE OwnerInv'
  OBVIOUS
<1>1. Base'
  BY BaseNext
<1>2. CASE Quiet
  <2>1. FinishWrites /\ UNCHANGED <<activeEpoch, combatRun, sequence, startedIn>> /\ (online' => online)
    BY <1>2 DEF Quiet, FinishWrites
  <2>2. StoredUnderItsRun' /\ Unused'
    BY <2>1, WritesKeep DEF StoredUnderItsRun, Unused
  <2>3. InProgress'
    <3>1. activeEpoch # 0 => activeEpoch \in CombatIds
      BY SessionConstants DEF Base, TypeOK, CombatIds
    <3>2. activeEpoch # 0 => disk'.record[activeEpoch] = disk.record[activeEpoch]
      BY <1>2, <3>1 DEF Quiet, Writes
    <3>3. QED
      BY <2>1, <3>2 DEF OwnerInv, InProgress, CombatOwner
  <2>4. QED
    BY <2>2, <2>3 DEF OwnerInv
<1>3. CASE Over
  <2>1. StoredUnderItsRun' /\ InProgress'
    BY <1>3, WritesKeep DEF Over, StoredUnderItsRun, InProgress
  <2>2. Unused'
    <3>1. \A c \in CombatIds : c > sequence' => c > sequence
      BY <1>1, <1>3, SessionConstants DEF Over, Base, TypeOK, CombatIds
    <3>2. QED
      BY <1>3, <3>1, WritesKeep DEF Over, Unused
  <2>3. QED
    BY <2>1, <2>2 DEF OwnerInv
<1>4. CASE StartCombat
  <2>1. /\ FinishWrites /\ UNCHANGED online /\ combatRun' = run
        /\ sequence' = sequence + 1 /\ activeEpoch' = sequence'
        /\ startedIn' = IF online
                        THEN [startedIn EXCEPT ![sequence'] = IF run = None THEN 0 ELSE run.id]
                        ELSE startedIn
    BY <1>4, FinishInterruptedIsWrite DEF StartCombat
  <2>2. sequence' \in CombatIds /\ sequence' > sequence
    BY <1>4, <2>1, SessionConstants DEF StartCombat, Base, TypeOK, CombatIds
  <2>3. online => /\ \A d \in CombatIds : d # sequence' => startedIn'[d] = startedIn[d]
                  /\ startedIn'[sequence'] = CombatOwner'
    BY <2>1, <2>2 DEF CombatOwner, Base, TypeOK
  <2>4. online => disk'.owner[sequence'] = None /\ pending'[sequence'] = None
    BY <2>1, <2>2, WritesKeep
  <2>5. StoredUnderItsRun'
    <3>1. CASE online
      BY <2>1, <2>3, <2>4, <3>1, WritesKeep DEF StoredUnderItsRun
    <3>2. CASE ~online
      BY <2>1, <3>2, WritesKeep DEF StoredUnderItsRun
    <3>3. QED
      BY <3>1, <3>2 DEF Base, TypeOK
  <2>6. Unused'
    <3>1. \A c \in CombatIds : c > sequence' => c > sequence
      BY <2>1, SessionConstants DEF Base, TypeOK, CombatIds
    <3>2. QED
      BY <2>1, <3>1, WritesKeep DEF Unused
  <2>7. InProgress'
    <3>1. \A c \in CombatIds : disk'.record[c] # None => disk'.owner[c] # None
      BY <1>1, StoreConstantsBounds DEF Base, Kept!Safety, Kept!RowsConsistent, Kept!RowsAgree
    <3>2. online => disk'.record[sequence'] = None
      BY <2>2, <2>4, <3>1
    <3>3. QED
      BY <2>1, <2>3, <3>2 DEF InProgress
  <2>8. QED
    BY <2>5, <2>6, <2>7 DEF OwnerInv
<1>5. CASE Crash
  <2>1. /\ Kept!Restart /\ activeEpoch' = 0 /\ UNCHANGED startedIn
        /\ online' => sequence' = disk.lastCombat
    BY <1>5, SameRequests DEF Crash, NoCombat, FirstSequence
  <2>2. disk' = disk /\ \A c \in CombatIds : pending'[c] = None
    BY <2>1, StoreConstantsBounds DEF Kept!Restart, Kept!NoPending
  <2>3. StoredUnderItsRun' /\ InProgress'
    BY <2>1, <2>2 DEF OwnerInv, StoredUnderItsRun, InProgress
  <2>4. Unused'
    <3>1. \A c \in CombatIds : disk.owner[c] # None => c <= disk.lastCombat
      BY StoreConstantsBounds DEF Base, Kept!Safety, Kept!IdsReserved, Kept!WithinLastIds
    <3>2. disk.lastCombat \in Nat
      BY SessionConstants DEF Base, Kept!TypeOK, Kept!Database
    <3>3. QED
      BY <2>1, <2>2, <3>1, <3>2, SessionConstants DEF Unused, CombatIds
  <2>5. QED
    BY <2>3, <2>4 DEF OwnerInv
<1>6. QED
  BY <1>2, <1>3, <1>4, <1>5, Kinds

LEMMA OwnersHold == Spec => []OwnerInv
<1>1. QED
  BY OwnerInit, OwnerNext, BaseHolds, PTL DEF Spec

(***************************************************************************)
(* StartCombat, Finish and StartRun together never store a combat under a  *)
(* run it was not started in, whatever runs were opened, ended or resumed  *)
(* before it finished (combatRun against run), and however often the       *)
(* process died in between.                                                *)
(***************************************************************************)
THEOREM CombatsKeepTheirRun == Spec => []StoredUnderItsRun
<1>1. OwnerInv => StoredUnderItsRun
  BY DEF OwnerInv
<1>2. QED
  BY <1>1, OwnersHold, PTL

(***************************************************************************)
(* The store never has a reason to refuse the combat in progress: its      *)
(* number is unused or its own, and its run is there under its identity.   *)
(***************************************************************************)
THEOREM CombatsAreSavable == Spec => []CombatIsSavable
<1>1. ASSUME Base, OwnerInv PROVE CombatIsSavable
  <2>1. SUFFICES ASSUME online, activeEpoch # 0
                 PROVE  IF combatRun = None
                        THEN \A i \in Identities : Store!SaveAllowed(activeEpoch, 0, i)
                        ELSE /\ combatRun.id # 0
                             /\ Store!SaveAllowed(activeEpoch, combatRun.id, combatRun.identity)
    BY DEF CombatIsSavable
  <2>2. activeEpoch \in CombatIds
    BY <1>1, <2>1, SessionConstants DEF Base, TypeOK, CombatIds
  <2>3. /\ disk.record[activeEpoch] = None
        /\ disk.owner[activeEpoch] # None => disk.owner[activeEpoch] = CombatOwner
        /\ pending[activeEpoch] # None => pending[activeEpoch] = CombatOwner
    BY <1>1, <2>1, <2>2 DEF OwnerInv, StoredUnderItsRun, InProgress
  <2>4. CASE combatRun = None
    BY <2>3, <2>4 DEF CombatOwner, Store!SaveAllowed
  <2>5. CASE combatRun # None
    <3>1. combatRun.id # 0 /\ disk.identity[combatRun.id] = combatRun.identity
      BY <1>1, <2>1, <2>5, StoreConstantsBounds, SessionConstants DEF Base, RunsNamed, Named
    <3>2. QED
      BY <2>3, <2>5, <3>1 DEF CombatOwner, Store!SaveAllowed
  <2>6. QED
    BY <2>4, <2>5
<1>2. QED
  BY <1>1, BaseHolds, OwnersHold, PTL

----------------------------------------------------------------------------
(***************************************************************************)
(* What a complete record holds.                                           *)
(***************************************************************************)
\* An engine with clean coverage, no event having strayed, has seen all that happened.
SeenAll ==
  activeEpoch # 0 /\ captured # 0 /\ engine.clean /\ ~strayed => engine.seen = happened

LEMMA SeenInit == Init => SeenAll
BY DEF Init, SeenAll

LEMMA SeenNext == Base /\ SeenAll /\ [Next]_vars => SeenAll'
<1> SUFFICES ASSUME Base, SeenAll, [Next]_vars PROVE SeenAll'
  OBVIOUS
<1> USE DEF live, past, native, SeenAll
<1>1. CASE UNCHANGED vars
  BY <1>1 DEF vars
<1>2. ASSUME NEW i \in Identities, NEW continued \in BOOLEAN, StartRun(i, continued)
      PROVE  SeenAll'
  BY <1>2 DEF StartRun
<1>3. CASE OpenRun \/ OpenOffline \/ OpenAmbiguous \/ LoadBegin \/ LoadPage \/ LoadFails
  BY <1>3 DEF OpenRun, OpenOffline, OpenAmbiguous, NoCombat, LoadBegin, LoadPage, LoadFails
<1>4. CASE StartCombat
  <2>1. engine'.seen = 0 /\ happened' = 0
    BY <1>4 DEF StartCombat
  <2>2. QED
    BY <2>1
<1>5. CASE StartCombatFails \/ EndCombat \/ EndRun \/ Suspend
  BY <1>5 DEF StartCombatFails, EndCombat, EndRun, Suspend, NoCombat
<1>6. CASE Refresh \/ LoseStore
  BY <1>6 DEF Refresh, LoseStore
<1>7. CASE Crash
  BY <1>7 DEF Crash, NoCombat
<1>8. CASE Event
  <2>1. /\ engine \in [seq : 0..MaxCombat, seen : 0..MaxEvents, clean : BOOLEAN]
        /\ happened' = happened + 1 /\ UNCHANGED <<activeEpoch, captured>>
    BY <1>8 DEF Event, Base, TypeOK
  <2>2. CASE captured # 0 /\ engine' = [engine EXCEPT !.seen = @ + 1] /\ UNCHANGED strayed
    BY <2>1, <2>2
  <2>3. CASE engine' = [engine EXCEPT !.clean = FALSE]
    BY <2>1, <2>3
  <2>4. CASE strayed' = TRUE
    BY <2>4
  <2>5. CASE captured = 0
    BY <2>1, <2>5
  <2>6. QED
    BY <1>8, <2>2, <2>3, <2>4, <2>5 DEF Event
<1>9. QED
  BY <1>1, <1>2, <1>3, <1>4, <1>5, <1>6, <1>7, <1>8 DEF Next

\* A record that is written is the snapshot the session saved.
LEMMA SavedRecord ==
  ASSUME Base, activeEpoch # 0, NEW snapshot \in Snapshots, Finish(snapshot)
  PROVE  \A c \in CombatIds : disk'.record[c] # disk.record[c] =>
           c = activeEpoch /\ disk'.record[c] = snapshot
<1>1. PICK ok \in BOOLEAN : SaveCombat(activeEpoch, combatRun, snapshot, ok)
  BY DEF Finish
<1>2. CASE ~online
  BY <1>1, <1>2 DEF SaveCombat, stored
<1>3. CASE online
  <2>1. CombatOwner \in Kept!Owners /\ activeEpoch \in Kept!CombatIds
    BY <1>3, StoreConstantsBounds, SessionConstants DEF CombatOwner, Base, TypeOK, RunsNamed, Named
  <2>2. PICK i \in IF combatRun = None THEN Identities ELSE {combatRun.identity} :
          \/ Store!SaveCombat(activeEpoch, CombatOwner, i, snapshot)
          \/ Store!RefuseCombat(activeEpoch, CombatOwner, i)
    BY <1>1, <1>3 DEF SaveCombat, CombatOwner
  <2>3. CASE Store!RefuseCombat(activeEpoch, CombatOwner, i)
    BY <2>3 DEF Store!RefuseCombat
  <2>4. CASE Kept!SaveCombat(activeEpoch, CombatOwner, i, snapshot)
    <3> DEFINE pend == [pending EXCEPT ![activeEpoch] = CombatOwner]
    <3>1. PICK left \in Kept!Retried(pend) :
            disk' = left.disk \/ disk' = [left.disk EXCEPT !.record[activeEpoch] = snapshot]
      BY <2>4 DEF Kept!SaveCombat
    <3>2. pend \in [Kept!CombatIds -> Kept!Owners \cup {None}]
      BY <2>1 DEF Base, Kept!TypeOK
    <3> HIDE DEF pend
    <3>3. left.disk = disk \/ left.disk = Kept!Persist(pend)
      BY <3>1, <3>2, StoreConstantsHold, Kept!RetriedFacts DEF Base
    <3>4. left.disk \in Kept!Database /\ left.disk.record = disk.record
      BY <3>2, <3>3, StoreConstantsHold, Kept!PersistFacts DEF Base, Kept!TypeOK
    <3>5. \A c \in CombatIds : disk'.record[c] = disk.record[c] \/ (c = activeEpoch /\ disk'.record[c] = snapshot)
      <4>1. \/ disk'.record = left.disk.record
            \/ disk'.record = [left.disk.record EXCEPT ![activeEpoch] = snapshot]
        BY <3>1, <3>4 DEF Kept!Database
      <4>2. left.disk.record \in [CombatIds -> Snapshots \cup {None}]
        BY <3>4, StoreConstantsBounds DEF Kept!Database
      <4>3. QED
        BY <3>4, <4>1, <4>2
    <3>6. QED
      BY <3>5
  <2>5. QED
    BY <2>2, <2>3, <2>4, SameRequests
<1>4. QED
  BY <1>2, <1>3

\* What CompleteMeansAll says of one step.
CompleteStep ==
  \A c \in CombatIds :
    disk'.record[c] # disk.record[c] /\ disk'.record[c].complete =>
      c = activeEpoch /\ disk'.record[c].seen = happened

LEMMA InterruptedIsIncomplete ==
  ASSUME Base, FinishInterrupted
  PROVE  CompleteStep
<1>1. CASE UNCHANGED <<stored, completed>>
  BY <1>1 DEF stored, CompleteStep
<1>2. ASSUME activeEpoch # 0, NEW left \in Refreshed(Noticed, cached /\ Noticed = engine),
             left.combat # None, Finish([left.combat EXCEPT !.complete = FALSE])
      PROVE  CompleteStep
  <2> DEFINE snapshot == [left.combat EXCEPT !.complete = FALSE]
  <2>1. left.combat \in Snapshots
    BY <1>2, NoticedType, RefreshedType
  <2>2. snapshot \in Snapshots /\ snapshot.complete = FALSE
    BY <2>1 DEF Snapshots
  <2> HIDE DEF snapshot
  <2>3. Finish(snapshot)
    BY <1>2 DEF snapshot
  <2>4. QED
    BY <1>2, <2>2, <2>3, SavedRecord DEF CompleteStep
<1>3. QED
  BY <1>1, <1>2 DEF FinishInterrupted

LEMMA EndedIsComplete ==
  ASSUME Base, SeenAll, EndCombat
  PROVE  CompleteStep
<1>1. PICK ended \in BOOLEAN :
        \E left \in Refreshed([Noticed EXCEPT !.clean = @ /\ ended], FALSE) :
          \/ left.combat = None /\ UNCHANGED <<stored, completed>>
          \/ left.combat # None /\ Finish(left.combat)
  BY DEF EndCombat
<1> DEFINE e == [Noticed EXCEPT !.clean = @ /\ ended]
<1>2. /\ e \in [seq : 0..MaxCombat, seen : 0..MaxEvents, clean : BOOLEAN]
      /\ e.seen = engine.seen /\ (e.clean => engine.clean /\ ~strayed)
  <2>1. (Noticed.clean /\ ended) \in BOOLEAN
    OBVIOUS
  <2>2. QED
    BY <2>1, NoticedType
<1> HIDE DEF e
<1>3. PICK left \in Refreshed(e, FALSE) :
        \/ left.combat = None /\ UNCHANGED <<stored, completed>>
        \/ left.combat # None /\ Finish(left.combat)
  BY <1>1 DEF e
<1>4. CASE UNCHANGED <<stored, completed>>
  BY <1>4 DEF stored, CompleteStep
<1>5. CASE left.combat # None /\ Finish(left.combat)
  <2>1. left.combat \in Snapshots /\ activeEpoch # 0 /\ captured # 0
    BY <1>2, <1>5, RefreshedType DEF EndCombat
  <2>2. ~left.combat.complete \/ (left.combat.seen = engine.seen /\ (left.combat.complete => e.clean))
    <3>1. \/ left.combat = IF combat = None THEN None ELSE [combat EXCEPT !.complete = FALSE]
          \/ left.combat = [seen |-> e.seen, complete |-> e.clean]
      BY RefreshedIs
    <3>2. CASE left.combat = [seen |-> e.seen, complete |-> e.clean]
      BY <1>2, <3>2
    <3>3. CASE left.combat = IF combat = None THEN None ELSE [combat EXCEPT !.complete = FALSE]
      <4>1. combat \in Snapshots /\ left.combat = [combat EXCEPT !.complete = FALSE]
        BY <1>5, <3>3 DEF Base, TypeOK
      <4>2. QED
        BY <4>1 DEF Snapshots
    <3>4. QED
      BY <3>1, <3>2, <3>3
  <2>3. left.combat.complete => left.combat.seen = happened
    BY <1>2, <2>1, <2>2 DEF SeenAll
  <2>4. QED
    BY <1>5, <2>1, <2>3, SavedRecord DEF CompleteStep
<1>6. QED
  BY <1>3, <1>4, <1>5

(***************************************************************************)
(* A record is written as complete only if it holds every event of its     *)
(* combat: Finish takes no stale snapshot, an interrupted combat is never  *)
(* complete, and an event that was refused, dropped or met on another      *)
(* thread has marked the engine by then (Refresh, EndCombat, OnThread).    *)
(***************************************************************************)
THEOREM CompleteRecordsMeanAll == Spec => CompleteMeansAll
<1>1. Base /\ SeenAll /\ [Next]_vars => [CompleteStep]_vars
  <2> SUFFICES ASSUME Base, SeenAll, [Next]_vars PROVE CompleteStep \/ UNCHANGED vars
    OBVIOUS
  <2>1. ASSUME Writes(0, 0) PROVE CompleteStep
    <3>1. \A c \in CombatIds : c # 0
      BY SessionConstants DEF CombatIds
    <3>2. QED
      BY <2>1, <3>1 DEF Writes, CompleteStep
  <2>2. CASE Quiet \/ Crash
    BY <2>1, <2>2, SameRequests, RestWrites DEF Quiet, Crash
  <2>3. CASE StartCombat \/ StartCombatFails
    BY <2>3, InterruptedIsIncomplete DEF StartCombat, StartCombatFails
  <2>4. CASE EndCombat
    BY <2>4, EndedIsComplete
  <2>5. QED
    BY <2>1, <2>2, <2>3, <2>4, Kinds DEF Over
<1>2. Spec => [][CompleteStep]_vars
  BY <1>1, BaseHolds, SeenInit, SeenNext, PTL DEF Spec
<1>3. QED
  BY <1>2, PTL DEF CompleteMeansAll, CompleteStep

----------------------------------------------------------------------------
(***************************************************************************)
(* One run of an identity.  A run is alive if it left evidence or if the   *)
(* session may still give it some: while it is the run in progress, or the *)
(* run of the combat in progress.                                          *)
(***************************************************************************)
Evident(r) ==
  \/ disk.final[r] # None
  \/ \E c \in CombatIds : disk.owner[c] = r \/ pending[c] = r

Alive(r) ==
  \/ Evident(r)
  \/ online /\ run # None /\ run.id = r
  \/ online /\ activeEpoch # 0 /\ combatRun # None /\ combatRun.id = r

Single ==
  \A r, s \in Kept!RunIds :
    Alive(r) /\ Alive(s) /\ disk.identity[r] = disk.identity[s] /\ disk.identity[r] # None => r = s

\* Runs on disk have identities of the game's, and a new run has one of its own.
OpeningFits ==
  /\ run = None /\ activeEpoch = 0 /\ call.identity \in played
  /\ ~call.continued => \A r \in Kept!RunIds : disk.identity[r] # call.identity

PlayedRuns ==
  /\ \A r \in Kept!RunIds : disk.identity[r] # None => disk.identity[r] \in played
  /\ call # None /\ call.step = "open" => OpeningFits

NoImports == disk.ambiguous = {} /\ disk.archive = << >>

OneRunInv == NoImports /\ (Orderly => Single /\ PlayedRuns)

\* The handlers that open no run in the store.
LEMMA HandlerSettles ==
  ASSUME Base, [Next]_vars, ~OpenRun
  PROVE  /\ Settles(0) \/ (online /\ run # None /\ Settles(run.id))
         /\ online' => run' \in {run, None}
<1> USE DEF live, past, native, stored
<1>1. CASE UNCHANGED vars
  BY <1>1, RestWrites DEF vars
<1>2. ASSUME NEW r, r = run, r # None, NEW o \in {"reported", "defeat"}, NEW ok \in BOOLEAN,
             SaveRun(r, o, ok)
      PROVE  Settles(0) \/ (online /\ run # None /\ Settles(run.id))
  <2>1. CASE ~online
    BY <1>2, <2>1, RestWrites DEF SaveRun
  <2>2. CASE online
    <3>1. r.id \in Kept!RunIds /\ r.identity \in Identities
      BY <1>2, <2>2 DEF Base, TypeOK, Runs, RunsNamed, Named
    <3>2. Kept!SaveRun(r.id, r.identity, o) \/ Kept!RefuseRun(r.id, r.identity)
      BY <1>2, <2>2, SameRequests DEF SaveRun
    <3>3. QED
      BY <1>2, <2>2, <3>1, <3>2, SaveRunWrites DEF Base
  <2>3. QED
    BY <2>1, <2>2
<1>3. ASSUME NEW i \in Identities, NEW continued \in BOOLEAN, StartRun(i, continued)
      PROVE  /\ Settles(0) \/ (online /\ run # None /\ Settles(run.id))
             /\ run' = run
  BY <1>2, <1>3, RestWrites DEF StartRun
<1>4. CASE OpenAmbiguous
  <2>1. Kept!OpenRun(call.identity, TRUE) /\ Kept!Ambiguous(call.identity)
    BY <1>4, SameRequests, SameOperators DEF OpenAmbiguous
  <2>2. UNCHANGED <<disk, pending>>
    BY <2>1 DEF Kept!OpenRun
  <2>3. QED
    BY <1>4, <2>2, RestWrites DEF OpenAmbiguous
<1>5. CASE OpenOffline \/ LoseStore
  BY <1>5, SameRequests, RestWrites DEF OpenOffline, LoseStore, Dispose
<1>6. CASE LoadBegin \/ LoadPage \/ LoadFails
  <2>1. UNCHANGED <<disk, pending>>
    BY <1>6 DEF LoadBegin, LoadPage, LoadFails, Store!ReadBegin, Store!ReadPage, Store!ReadEnd
  <2>2. QED
    BY <1>6, <2>1, RestWrites DEF LoadBegin, LoadPage, LoadFails
<1>7. CASE StartCombat \/ StartCombatFails
  BY <1>7, FinishInterruptedIsWrite DEF StartCombat, StartCombatFails
<1>8. CASE EndCombat
  BY <1>8, EndCombatIsWrite DEF EndCombat
<1>9. CASE EndRun
  BY <1>2, <1>9, RestWrites DEF EndRun, Ended
<1>10. CASE Suspend \/ Refresh \/ Event
  BY <1>10, RestWrites DEF Suspend, Refresh, Event
<1>11. CASE Crash
  BY <1>11, SameRequests, RestWrites DEF Crash
<1>12. QED
  BY <1>1, <1>3, <1>4, <1>5, <1>6, <1>7, <1>8, <1>9, <1>10, <1>11 DEF Next

LEMMA OneRunInit == Init => OneRunInv
<1> SUFFICES ASSUME Init PROVE OneRunInv
  OBVIOUS
<1>1. Kept!Init /\ run = None /\ activeEpoch = 0 /\ call = None
  BY SameRequests DEF Init
<1>2. /\ disk.ambiguous = {} /\ disk.archive = << >>
      /\ \A r \in Kept!RunIds : disk.identity[r] = None
  BY <1>1 DEF Kept!Init, Kept!EmptyDatabase
<1>3. QED
  BY <1>1, <1>2 DEF OneRunInv, NoImports, Single, PlayedRuns

\* A handler that opens no run brings no run to life.
LEMMA NoneRevived ==
  ASSUME Base, [Next]_vars, ~OpenRun, NEW r \in Kept!RunIds, Alive(r)'
  PROVE  Alive(r)
<1>1. r # 0 /\ r # None
  BY StoreConstantsBounds, SessionConstants
<1>2. FinishWrites
  BY Kinds, SameRequests, RestWrites, FinishInterruptedIsWrite
     DEF Quiet, Over, StartCombat, Crash, FinishWrites
<1>3. CASE Evident(r)'
  <2>1. CASE disk'.final[r] # None
    BY <1>1, <2>1, HandlerSettles DEF Settles, Alive, Evident
  <2>2. CASE \E c \in CombatIds : disk'.owner[c] = r \/ pending'[c] = r
    <3>1. PICK c \in CombatIds : disk'.owner[c] = r \/ pending'[c] = r
      BY <2>2
    <3>2. \/ disk.owner[c] = r \/ pending[c] = r
          \/ online /\ activeEpoch # 0 /\ CombatOwner = r
      BY <1>1, <1>2, <3>1 DEF FinishWrites, Writes
    <3>3. QED
      BY <1>1, <3>2 DEF Alive, Evident, CombatOwner
  <2>3. QED
    BY <1>3, <2>1, <2>2 DEF Evident
<1>4. CASE online' /\ run' # None /\ run'.id = r
  <2>1. run' = run
    BY <1>4, HandlerSettles
  <2>2. online
    BY <1>4, Kinds DEF Quiet, Over, StartCombat, Crash
  <2>3. QED
    BY <1>4, <2>1, <2>2 DEF Alive
<1>5. CASE online' /\ activeEpoch' # 0 /\ combatRun' # None /\ combatRun'.id = r
  <2>1. CASE Quiet
    BY <1>5, <2>1 DEF Quiet, Alive
  <2>2. CASE StartCombat
    BY <1>5, <2>2 DEF StartCombat, Alive
  <2>3. QED
    BY <1>5, <2>1, <2>2, Kinds DEF Over, Crash, NoCombat
<1>6. QED
  BY <1>3, <1>4, <1>5 DEF Alive

\* Runs keep living alone when none is opened.
LEMMA SingleKept ==
  ASSUME Base, [Next]_vars, ~OpenRun, Single
  PROVE  Single'
<1>1. disk'.identity = disk.identity
  BY HandlerSettles DEF Settles
<1>2. QED
  BY <1>1, NoneRevived DEF Single

LEMMA PlayedKept ==
  ASSUME Base, [Next]_vars, ~OpenRun, Orderly, PlayedRuns
  PROVE  PlayedRuns'
<1> USE DEF live, past
<1>1. disk'.identity = disk.identity
  BY HandlerSettles DEF Settles
<1>2. CASE UNCHANGED <<call, played, run, activeEpoch>>
  BY <1>1, <1>2 DEF PlayedRuns, OpeningFits
<1>3. ASSUME NEW i \in Identities, NEW continued \in BOOLEAN, StartRun(i, continued)
      PROVE  PlayedRuns'
  <2>1. /\ run' = None /\ activeEpoch' = 0 /\ played' = played \cup {i}
        /\ call' = [step |-> "open", identity |-> i, continued |-> continued]
        /\ continued <=> i \in played
    BY <1>3 DEF StartRun, Opening
  <2>2. call'.identity = i /\ call'.continued = continued /\ i \in played'
    BY <2>1
  <2>3. ~continued => \A r \in Kept!RunIds : disk.identity[r] # i
    BY <2>1, SessionConstants DEF PlayedRuns
  <2>4. QED
    BY <1>1, <2>1, <2>2, <2>3 DEF PlayedRuns, OpeningFits
<1>4. CASE OpenOffline \/ OpenAmbiguous \/ LoadBegin \/ LoadPage \/ LoadFails \/ Crash
  <2>1. played' = played /\ (call' = None \/ call'.step # "open")
    BY <1>4 DEF OpenOffline, OpenAmbiguous, LoadBegin, LoadPage, LoadFails, Crash, Base, TypeOK, Handlers
  <2>2. QED
    BY <1>1, <2>1 DEF PlayedRuns
<1>5. CASE \/ StartCombat \/ StartCombatFails \/ EndCombat \/ EndRun \/ Suspend \/ Refresh \/ Event
  <2>1. played' = played /\ call' = None
    BY <1>5 DEF StartCombat, StartCombatFails, EndCombat, EndRun, Suspend, Refresh, Event
  <2>2. QED
    BY <1>1, <2>1 DEF PlayedRuns
<1>6. CASE LoseStore
  BY <1>2, <1>6 DEF LoseStore
<1>7. CASE UNCHANGED vars
  BY <1>2, <1>7 DEF vars
<1>8. QED
  BY <1>3, <1>4, <1>5, <1>6, <1>7 DEF Next

LEMMA OneRunOpens ==
  ASSUME Base, OneRunInv, OpenRun
  PROVE  OneRunInv'
<1> DEFINE i  == call.identity
           id == Opened(i, call.continued)
<1>1. i \in Identities /\ call.continued \in BOOLEAN /\ i # None
  BY SessionConstants DEF OpenRun, Base, TypeOK, Handlers
<1>2. Kept!OpenRun(i, call.continued) /\ ~(call.continued /\ Kept!Ambiguous(i))
  BY SameRequests, SameOperators DEF OpenRun
<1>3. /\ run'.id = id /\ activeEpoch' = activeEpoch /\ combatRun' = combatRun
      /\ UNCHANGED <<online, played, pending>>
      /\ call' = None \/ call'.step # "open"
  BY <1>2 DEF OpenRun, Kept!OpenRun, past, Base, TypeOK, Handlers
<1>4. disk' = disk \/ disk' = Kept!AllocateRun(disk, i)
  BY <1>2 DEF Kept!OpenRun
<1>5. disk \in Kept!Database
  BY DEF Base, Kept!TypeOK
<1>6. /\ disk'.ambiguous = disk.ambiguous /\ disk'.archive = disk.archive
      /\ disk'.owner = disk.owner /\ disk'.final = disk.final
  BY <1>4, <1>5 DEF Kept!AllocateRun, Kept!Database
<1>7. id \in Kept!RunIds /\ disk'.identity[id] = i
  BY <1>1, OpenedIsNamed DEF OpenRun
<1>8. ASSUME Orderly PROVE Single' /\ PlayedRuns'
  <2>1. Single /\ PlayedRuns /\ OpeningFits
    BY <1>8 DEF OneRunInv, PlayedRuns, OpenRun
  <2>2. \A r \in Kept!RunIds : Alive(r) <=> Evident(r)
    BY <2>1 DEF OpeningFits, Alive
  <2>3. \A r \in Kept!RunIds : Alive(r)' => Evident(r) \/ r = id
    BY <1>3, <1>6, <2>1 DEF OpeningFits, Alive, Evident
  <2>4. \A r \in Kept!RunIds : disk.identity[r] = i /\ Evident(r) => r \in Kept!Candidates(i)
    BY StoreConstantsBounds DEF Evident, Kept!Candidates, Kept!HasCombats
  <2>5. CASE call.continued /\ \E r \in Kept!RunIds : Kept!IsMatch(i, r)
    <3>1. disk' = disk /\ Kept!IsMatch(i, id)
      BY <1>2, <2>5, SameOperators DEF Kept!OpenRun, Opened
    <3>2. Evident(id)
      BY <3>1, StoreConstantsBounds DEF Kept!IsMatch, Kept!Candidates, Kept!HasCombats, Evident,
         OneRunInv, NoImports
    <3>3. Single'
      BY <2>1, <2>2, <2>3, <3>1, <3>2 DEF Single
    <3>4. QED
      BY <1>3, <2>1, <3>1, <3>3 DEF PlayedRuns
  <2>6. CASE ~(call.continued /\ \E r \in Kept!RunIds : Kept!IsMatch(i, r))
    <3>1. id = disk.lastRun + 1 /\ disk' = Kept!AllocateRun(disk, i)
      BY <1>2, <2>6, SameOperators DEF Kept!OpenRun, Opened
    <3>2. disk'.identity = [disk.identity EXCEPT ![id] = i]
      BY <1>5, <3>1 DEF Kept!AllocateRun, Kept!Database
    <3> HIDE DEF id, i
    <3>3. \A r \in Kept!RunIds : r # id => disk'.identity[r] = disk.identity[r]
      BY <1>5, <3>2 DEF Kept!Database
    <3>4. \A r \in Kept!RunIds : Evident(r) => disk.identity[r] # i
      <4>1. CASE call.continued
        BY <1>2, <2>4, <2>6, <4>1 DEF Kept!IsMatch
      <4>2. CASE ~call.continued
        BY <2>1, <4>2 DEF OpeningFits, i
      <4>3. QED
        BY <4>1, <4>2
    <3>5. Single'
      BY <1>7, <2>1, <2>2, <2>3, <3>3, <3>4 DEF Single
    <3>6. PlayedRuns'
      BY <1>3, <1>7, <2>1, <3>3 DEF PlayedRuns, OpeningFits, i
    <3>7. QED
      BY <3>5, <3>6
  <2>7. QED
    BY <2>5, <2>6
<1>9. QED
  BY <1>3, <1>6, <1>8 DEF OneRunInv, NoImports, Orderly

LEMMA OneRunNext == Base /\ OneRunInv /\ [Next]_vars => OneRunInv'
<1> SUFFICES ASSUME Base, OneRunInv, [Next]_vars PROVE OneRunInv'
  OBVIOUS
<1>1. CASE OpenRun
  BY <1>1, OneRunOpens
<1>2. CASE ~OpenRun
  <2>1. NoImports'
    BY <1>2, HandlerSettles DEF Settles, OneRunInv, NoImports
  <2>2. Orderly' => Orderly
    <3>1. played' = played \/ \E i \in Identities : played' = IF Orderly THEN played \cup {i} ELSE played
      BY DEF Next, vars, past, StartRun, OpenRun, OpenOffline, OpenAmbiguous, LoadBegin, LoadPage,
             LoadFails, StartCombat, StartCombatFails, EndCombat, EndRun, Suspend, Refresh, Event,
             LoseStore, Crash
    <3>2. QED
      BY <3>1 DEF Orderly
  <2>3. QED
    BY <1>2, <2>1, <2>2, SingleKept, PlayedKept DEF OneRunInv
<1>3. QED
  BY <1>1, <1>2

(***************************************************************************)
(* When the game cleans up between runs and names every new run anew,      *)
(* open_run never leaves two runs of one identity with evidence, through   *)
(* lost stores and crashes in the middle of StartRun too.                  *)
(***************************************************************************)
THEOREM IdentitiesStaySingle == Spec => []OneRunPerIdentity
<1>1. ASSUME Base, OneRunInv PROVE OneRunPerIdentity
  <2>1. SUFFICES ASSUME Orderly, NEW i \in Identities, Kept!Ambiguous(i) PROVE FALSE
    BY SameOperators DEF OneRunPerIdentity
  <2>2. PICK r, s \in Kept!Candidates(i) : r # s
    BY <1>1, <2>1 DEF Kept!Ambiguous, OneRunInv, NoImports
  <2>3. \A q \in Kept!Candidates(i) : q \in Kept!RunIds /\ disk.identity[q] = i /\ Alive(q)
    BY <1>1, StoreConstantsBounds DEF Kept!Candidates, Kept!HasCombats, Alive, Evident, OneRunInv, NoImports
  <2>4. QED
    BY <1>1, <2>1, <2>2, <2>3, SessionConstants DEF OneRunInv, Single
<1>2. QED
  BY <1>1, BaseHolds, OneRunInit, OneRunNext, PTL DEF Spec

----------------------------------------------------------------------------
(***************************************************************************)
(* What a live view that calls itself complete says of the store.  While   *)
(* StartRun reads a continued run back, the view has what was delivered.   *)
(***************************************************************************)
NativeRow(c) == [legacy |-> FALSE, key |-> c]

\* What the view has counted is on disk, complete, under its run.
Counted ==
  \A c \in CombatIds : completed.times[c] # 0 =>
    /\ completed.times[c] = 1
    /\ disk.record[c] # None /\ disk.record[c].complete /\ disk.owner[c] = completed.run

\* What is on disk under the run in progress has been counted, and nothing is pending.
NoneMissing ==
  run # None /\ completed.run # 0 =>
    \A c \in CombatIds : /\ pending[c] # completed.run
                         /\ disk.owner[c] = completed.run => completed.times[c] = 1

EndStored == completed.ended => completed.run # 0 /\ disk.final[completed.run] # None

Untold == ~completed.ended /\ \A c \in CombatIds : completed.times[c] = 0

ReadingBack ==
  read # None =>
    /\ read.run = run.id /\ ~completed.ended
    /\ \A c \in CombatIds : completed.times[c] = IF NativeRow(c) \in read.delivered THEN 1 ELSE 0
    /\ \A c \in CombatIds : NativeRow(c) \in read.delivered =>
         disk.record[c] # None /\ disk.record[c].complete /\ disk.owner[c] = run.id

LiveInv ==
  /\ run # None => completed.run = run.id
  /\ completed # None /\ completed.clean =>
       /\ call = None => Counted /\ NoneMissing /\ EndStored
       /\ call # None /\ call.step = "load" => Untold
       /\ call # None /\ call.step = "pages" => ReadingBack

LEMMA LiveInit == Init => LiveInv
BY DEF Init, LiveInv

\* A handler that leaves the view, and in the store only writes what was pending.
LEMMA LiveRests ==
  ASSUME Base, LiveInv, call = None, call' = None, completed' = completed, run' \in {run, None},
         Writes(0, 0), Settles(0)
  PROVE  LiveInv'
<1>1. SUFFICES ASSUME completed # None, completed.clean
               PROVE  Counted' /\ NoneMissing' /\ EndStored'
  BY DEF LiveInv
<1>2. /\ completed \in Summaries /\ completed.run \in 0..MaxRun /\ completed.run # None
      /\ Counted /\ NoneMissing /\ EndStored
  BY <1>1, SessionConstants DEF Base, Summed, Summaries, LiveInv
<1>3. \A d \in CombatIds : /\ disk'.record[d] = disk.record[d]
                           /\ disk.owner[d] # None => disk'.owner[d] = disk.owner[d]
                           /\ disk'.owner[d] = disk.owner[d] \/ disk'.owner[d] = pending[d]
                           /\ pending'[d] \in {None, pending[d]}
  BY SessionConstants DEF Writes, CombatIds
<1>4. Counted'
  BY <1>2, <1>3 DEF Counted
<1>5. NoneMissing'
  BY <1>2, <1>3 DEF NoneMissing
<1>6. EndStored'
  <2>1. completed.run # 0 => completed.run \in Kept!RunIds
    BY <1>2, StoreConstantsBounds, SessionConstants
  <2>2. \A s \in Kept!RunIds : disk'.final[s] = disk.final[s]
    BY SessionConstants, StoreConstantsBounds DEF Settles
  <2>3. QED
    BY <1>2, <2>1, <2>2 DEF EndStored
<1>7. QED
  BY <1>4, <1>5, <1>6

\* A combat that counts was saved: its record is new, and under its run.
LEMMA LiveFinish ==
  ASSUME Base, Base', OwnerInv, LiveInv, call = None, call' = None, run' = run,
         activeEpoch # 0, NEW snapshot \in Snapshots, Finish(snapshot)
  PROVE  LiveInv'
<1>1. PICK ok \in BOOLEAN :
        /\ SaveCombat(activeEpoch, combatRun, snapshot, ok)
        /\ completed' = IF run # None /\ run = combatRun
                        THEN Add(completed, activeEpoch, snapshot.complete /\ ok)
                        ELSE completed
  BY DEF Finish
<1>2. activeEpoch \in CombatIds
  BY SessionConstants DEF Base, TypeOK, CombatIds
<1>3. CASE ~online
  <2>1. UNCHANGED stored /\ ~ok
    BY <1>1, <1>3 DEF SaveCombat
  <2>2. CASE run # None /\ run = combatRun
    <3>1. /\ completed \in Summaries
          /\ completed' = [completed EXCEPT !.times[activeEpoch] = @ + 1, !.clean = FALSE]
      BY <1>1, <2>1, <2>2 DEF Add, Base, Summed
    <3>2. completed'.clean = FALSE /\ completed'.run = completed.run
      BY <3>1 DEF Summaries
    <3>3. QED
      BY <3>2 DEF LiveInv
  <2>3. CASE ~(run # None /\ run = combatRun)
    BY <1>1, <2>1, <2>3, RestWrites, LiveRests DEF stored
  <2>4. QED
    BY <2>2, <2>3
<1>4. CASE online
  <2>1. /\ (FinishWrites /\ Settles(0))
        /\ \A c \in CombatIds : disk'.record[c] # disk.record[c] =>
             c = activeEpoch /\ disk'.record[c] = snapshot
    BY FinishIsWrite, SavedRecord
  <2>2. /\ \A d \in CombatIds : /\ disk.owner[d] # None => disk'.owner[d] = disk.owner[d]
                                /\ \/ disk'.owner[d] \in {disk.owner[d], pending[d]}
                                   \/ d = activeEpoch /\ disk'.owner[d] = CombatOwner
                                /\ \/ pending'[d] \in {None, pending[d]}
                                   \/ d = activeEpoch /\ pending'[d] = CombatOwner
    BY <2>1, SessionConstants DEF FinishWrites, Writes, CombatIds
  <2>3. disk.record[activeEpoch] = None /\ startedIn[activeEpoch] = CombatOwner
    BY <1>4 DEF OwnerInv, InProgress
  <2>4. \A d \in CombatIds : disk.record[d] # None => disk'.record[d] = disk.record[d]
    BY <2>1, <2>3
  <2>5. \A s \in Kept!RunIds : disk'.final[s] = disk.final[s]
    BY <2>1, StoreConstantsBounds, SessionConstants DEF Settles
  <2>6. CASE run # None /\ run = combatRun
    <3>1. /\ completed \in Summaries /\ completed.run = run.id /\ run.id \in 0..MaxRun
          /\ CombatOwner = run.id
      BY <2>6 DEF Base, TypeOK, Summed, Runs, CombatOwner, LiveInv
    <3>2. /\ completed'.run = completed.run /\ completed'.ended = completed.ended
          /\ completed'.clean <=> completed.clean /\ snapshot.complete /\ ok
          /\ completed'.times[activeEpoch] = completed.times[activeEpoch] + 1
          /\ \A d \in CombatIds : d # activeEpoch => completed'.times[d] = completed.times[d]
      <4>1. completed' = [completed EXCEPT !.times[activeEpoch] = @ + 1,
                                           !.clean = @ /\ snapshot.complete /\ ok]
        BY <1>1, <2>6 DEF Add
      <4>2. (completed.clean /\ snapshot.complete /\ ok) \in BOOLEAN
        OBVIOUS
      <4>3. QED
        BY <1>2, <3>1, <4>1, <4>2 DEF Summaries
    <3>3. SUFFICES ASSUME completed.clean, snapshot.complete, ok
                   PROVE  Counted' /\ NoneMissing' /\ EndStored'
      BY <3>1, <3>2, <3>3 DEF LiveInv
    <3>4. Counted /\ NoneMissing /\ EndStored
      BY <3>1, <3>3, SessionConstants DEF LiveInv, Summaries
    <3>5. disk'.record[activeEpoch] # None
      BY <1>1, <1>4, <3>3 DEF SaveCombat
    <3>6. disk'.record[activeEpoch] = snapshot /\ completed.times[activeEpoch] = 0
      BY <1>2, <2>1, <2>3, <3>4, <3>5 DEF Counted
    <3>7. disk'.owner[activeEpoch] = run.id
      <4>1. disk'.owner[activeEpoch] # None
        BY <1>2, <3>5, StoreConstantsBounds
           DEF Base, Kept!Safety, Kept!RowsConsistent, Kept!RowsAgree
      <4>2. QED
        BY <1>2, <2>1, <2>3, <3>1, <4>1, WritesKeep
    <3>8. pending'[activeEpoch] = None
      BY <1>2, <3>5, StoreConstantsBounds DEF Base, Kept!Safety, Kept!PendingPersistable
    <3>9. run.id # None /\ run.id # 0
      BY <1>4, <2>6, <3>1, StoreConstantsBounds, SessionConstants DEF Base, RunsNamed, Named
    <3>10. Counted'
      <4>1. ASSUME NEW d \in CombatIds, d # activeEpoch, completed'.times[d] # 0
            PROVE  /\ completed'.times[d] = 1 /\ disk'.record[d] # None
                   /\ disk'.record[d].complete /\ disk'.owner[d] = completed'.run
        <5>1. /\ completed.times[d] = 1 /\ disk.record[d] # None /\ disk.record[d].complete
              /\ disk.owner[d] = completed.run
          BY <3>2, <3>4, <4>1 DEF Counted
        <5>2. QED
          BY <2>2, <2>4, <3>1, <3>2, <3>9, <4>1, <5>1
      <4>2. /\ completed'.times[activeEpoch] = 1 /\ disk'.record[activeEpoch] # None
            /\ disk'.record[activeEpoch].complete /\ disk'.owner[activeEpoch] = completed'.run
        BY <3>1, <3>2, <3>3, <3>5, <3>6, <3>7
      <4>3. QED
        BY <4>1, <4>2 DEF Counted
    <3>11. NoneMissing'
      <4>1. \A d \in CombatIds : pending[d] # run.id /\ (disk.owner[d] = run.id => completed.times[d] = 1)
        BY <2>6, <3>1, <3>4, <3>9 DEF NoneMissing
      <4>2. ASSUME NEW d \in CombatIds, d # activeEpoch
            PROVE  pending'[d] # run.id /\ (disk'.owner[d] = run.id => completed'.times[d] = 1)
        BY <2>2, <3>2, <3>9, <4>1, <4>2
      <4>3. completed'.times[activeEpoch] = 1 /\ pending'[activeEpoch] # run.id
        BY <3>2, <3>6, <3>8, <3>9
      <4>4. QED
        BY <3>1, <3>2, <4>2, <4>3 DEF NoneMissing
    <3>12. EndStored'
      <4>1. run.id \in Kept!RunIds
        BY <3>1, <3>9, StoreConstantsBounds, SessionConstants
      <4>2. QED
        BY <2>5, <3>1, <3>2, <3>4, <4>1 DEF EndStored
    <3>13. QED
      BY <3>10, <3>11, <3>12
  <2>7. CASE ~(run # None /\ run = combatRun)
    <3>1. completed' = completed
      BY <1>1, <2>7
    <3>2. SUFFICES ASSUME completed # None, completed.clean
                   PROVE  Counted' /\ NoneMissing' /\ EndStored'
      BY <3>1 DEF LiveInv
    <3>3. /\ completed \in Summaries /\ completed.run \in 0..MaxRun /\ completed.run # None
          /\ Counted /\ NoneMissing /\ EndStored
      BY <3>2, SessionConstants DEF Base, Summed, Summaries, LiveInv
    <3>4. Counted'
      BY <2>2, <2>4, <3>1, <3>3 DEF Counted
    <3>5. NoneMissing'
      <4>1. SUFFICES ASSUME run # None, completed.run # 0, NEW d \in CombatIds
                     PROVE  /\ pending'[d] # completed.run
                            /\ disk'.owner[d] = completed.run => completed.times[d] = 1
        BY <3>1 DEF NoneMissing
      <4>2. completed.run = run.id /\ run \in Runs /\ combatRun \in Runs \cup {None}
        BY <4>1 DEF Base, TypeOK, LiveInv
      <4>3. CombatOwner # run.id
        <5>1. CASE combatRun = None
          BY <4>1, <4>2, <5>1 DEF CombatOwner
        <5>2. CASE combatRun # None
          <6>1. /\ disk.identity[run.id] = run.identity
                /\ disk.identity[combatRun.id] = combatRun.identity
            BY <1>4, <4>1, <5>2 DEF Base, RunsNamed, Named
          <6>2. run.id = combatRun.id => run = combatRun
            BY <4>2, <5>2, <6>1 DEF Runs
          <6>3. QED
            BY <2>7, <4>1, <5>2, <6>2 DEF CombatOwner
        <5>3. QED
          BY <5>1, <5>2
      <4>4. pending[d] # completed.run /\ (disk.owner[d] = completed.run => completed.times[d] = 1)
        BY <3>3, <4>1 DEF NoneMissing
      <4>5. QED
        BY <2>2, <3>3, <4>2, <4>3, <4>4
    <3>6. EndStored'
      <4>1. completed.run # 0 => completed.run \in Kept!RunIds
        BY <3>3, StoreConstantsBounds, SessionConstants
      <4>2. QED
        BY <2>5, <3>1, <3>3, <4>1 DEF EndStored
    <3>7. QED
      BY <3>4, <3>5, <3>6
  <2>8. QED
    BY <2>6, <2>7
<1>5. QED
  BY <1>3, <1>4

LEMMA LiveFinishInterrupted ==
  ASSUME Base, Base', OwnerInv, LiveInv, call = None, call' = None, run' = run, FinishInterrupted
  PROVE  LiveInv'
<1>1. CASE UNCHANGED <<stored, completed>>
  BY <1>1, RestWrites, LiveRests DEF stored
<1>2. ASSUME activeEpoch # 0, NEW left \in Refreshed(Noticed, cached /\ Noticed = engine),
             left.combat # None, Finish([left.combat EXCEPT !.complete = FALSE])
      PROVE  LiveInv'
  <2>1. left.combat \in Snapshots
    BY <1>2, NoticedType, RefreshedType
  <2>2. [left.combat EXCEPT !.complete = FALSE] \in Snapshots
    BY <2>1 DEF Snapshots
  <2>3. QED
    BY <1>2, <2>2, LiveFinish
<1>3. QED
  BY <1>1, <1>2 DEF FinishInterrupted

LEMMA LiveEndCombat ==
  ASSUME Base, Base', OwnerInv, LiveInv, EndCombat
  PROVE  LiveInv'
<1>1. PICK ended \in BOOLEAN :
        \E left \in Refreshed([Noticed EXCEPT !.clean = @ /\ ended], FALSE) :
          \/ left.combat = None /\ UNCHANGED <<stored, completed>>
          \/ left.combat # None /\ Finish(left.combat)
  BY DEF EndCombat
<1> DEFINE e == [Noticed EXCEPT !.clean = @ /\ ended]
<1>2. e \in [seq : 0..MaxCombat, seen : 0..MaxEvents, clean : BOOLEAN]
  <2>1. (Noticed.clean /\ ended) \in BOOLEAN
    OBVIOUS
  <2>2. QED
    BY <2>1, NoticedType
<1> HIDE DEF e
<1>3. PICK left \in Refreshed(e, FALSE) :
        \/ left.combat = None /\ UNCHANGED <<stored, completed>>
        \/ left.combat # None /\ Finish(left.combat)
  BY <1>1 DEF e
<1>4. left.combat \in Snapshots \cup {None}
  BY <1>2, RefreshedType
<1>5. call = None /\ call' = None /\ run' = run /\ (captured # 0 /\ captured = activeEpoch)
  BY DEF EndCombat
<1>6. CASE UNCHANGED <<stored, completed>>
  BY <1>5, <1>6, RestWrites, LiveRests DEF stored
<1>7. CASE left.combat # None /\ Finish(left.combat)
  BY <1>4, <1>5, <1>7, LiveFinish
<1>8. QED
  BY <1>3, <1>6, <1>7

LEMMA EmptyIsUntold ==
  ASSUME NEW id \in 0..MaxRun
  PROVE  /\ EmptySummary(id).run = id /\ ~EmptySummary(id).ended
         /\ \A c \in CombatIds : EmptySummary(id).times[c] = 0
         /\ Broken(EmptySummary(id)).run = id /\ ~Broken(EmptySummary(id)).clean
BY DEF EmptySummary, Broken

\* A new run has no combats, on disk or pending.
LEMMA LiveOpenRun ==
  ASSUME Base, LiveInv, OpenRun
  PROVE  LiveInv'
<1> DEFINE id == Opened(call.identity, call.continued)
<1>1. /\ call \in Handlers /\ call.identity \in Identities /\ call.continued \in BOOLEAN
      /\ call # None
  BY DEF OpenRun, Base, TypeOK, Handlers
<1>2. id \in Kept!RunIds /\ id \in 0..MaxRun
  BY <1>1, OpenedIsNamed, StoreConstantsBounds, SessionConstants DEF OpenRun
<1>3. /\ run' = [id |-> id, identity |-> call.identity]
      /\ completed' = EmptySummary(id)
      /\ call' = IF call.continued THEN [call EXCEPT !.step = "load"] ELSE None
  BY DEF OpenRun
<1>4. ASSUME ~call.continued
      PROVE  \A c \in CombatIds : disk'.owner[c] # id /\ pending'[c] # id
  <2>1. Kept!OpenRun(call.identity, call.continued)
    BY SameRequests DEF OpenRun
  <2>2. id = disk.lastRun + 1 /\ disk' = Kept!AllocateRun(disk, call.identity) /\ pending' = pending
    BY <1>4, <2>1 DEF Opened, Kept!OpenRun
  <2>3. disk \in Kept!Database /\ disk.lastRun \in 0..MaxRun
    BY DEF Base, Kept!TypeOK, Kept!Database
  <2>4. disk'.owner = disk.owner
    BY <2>2, <2>3 DEF Kept!AllocateRun, Kept!Database
  <2>5. disk.identity[id] = None
    <3>1. \A r \in Kept!RunIds : disk.identity[r] # None => r <= disk.lastRun
      BY DEF Base, Kept!Safety, Kept!IdsReserved, Kept!WithinLastIds
    <3>2. ~(id <= disk.lastRun)
      BY <2>2, <2>3, SessionConstants
    <3>3. QED
      BY <1>2, <3>1, <3>2
  <2>6. id # 0 /\ id # None
    BY <1>2, StoreConstantsBounds, SessionConstants
  <2> HIDE DEF id
  <2>7. \A c \in CombatIds : disk.owner[c] # id
    BY <1>2, <2>5, StoreConstantsBounds DEF Base, Kept!Safety, Kept!RowsConsistent, Kept!RowsAgree
  <2>8. \A c \in CombatIds : pending[c] # id
    BY <2>5, <2>6, StoreConstantsBounds DEF Base, Kept!Safety, Kept!PendingPersistable
  <2>9. QED
    BY <2>2, <2>4, <2>7, <2>8
<1> HIDE DEF id
<1>5. /\ completed'.run = id /\ ~completed'.ended
      /\ \A c \in CombatIds : completed'.times[c] = 0
  BY <1>2, <1>3, EmptyIsUntold
<1>6. run'.id = id
  BY <1>3
<1>7. CASE call.continued
  <2>1. call' \in Handlers /\ call'.step = "load"
    BY <1>1, <1>3, <1>7 DEF Handlers
  <2>2. call' # None
    BY <2>1, SessionConstants DEF Handlers
  <2>3. QED
    BY <1>5, <1>6, <2>1, <2>2 DEF LiveInv, Untold
<1>8. CASE ~call.continued
  <2>1. call' = None /\ \A c \in CombatIds : disk'.owner[c] # id /\ pending'[c] # id
    BY <1>3, <1>4, <1>8
  <2>2. Counted' /\ NoneMissing' /\ EndStored'
    BY <1>5, <2>1 DEF Counted, NoneMissing, EndStored
  <2>3. QED
    BY <1>5, <1>6, <2>1, <2>2 DEF LiveInv
<1>9. QED
  BY <1>1, <1>7, <1>8

LEMMA LiveLoadBegin ==
  ASSUME Base, LiveInv, LoadBegin
  PROVE  LiveInv'
<1>1. /\ call \in Handlers /\ call # None /\ call.step = "load"
      /\ call' = [call EXCEPT !.step = "pages"] /\ run' = run /\ completed' = completed
      /\ Kept!ReadBegin(run.id, FALSE)
  BY SameRequests DEF LoadBegin, Base, TypeOK, live
<1>2. /\ read'.run = run.id /\ read'.delivered = {}
  BY <1>1 DEF Kept!ReadBegin
<1>3. call' \in Handlers /\ call'.step = "pages"
  BY <1>1 DEF Handlers
<1>4. call' # None
  BY <1>3, SessionConstants DEF Handlers
<1>5. QED
  BY <1>1, <1>2, <1>3, <1>4 DEF LiveInv, Untold, ReadingBack

\* The rows of a store without imports are native ones.
LEMMA RowsAreNative ==
  ASSUME NoImports, NEW r
  PROVE  Kept!Rows(r) = {NativeRow(c) : c \in {d \in CombatIds : disk.owner[d] = r}}
<1>1. DOMAIN disk.archive = {}
  BY DEF NoImports
<1>2. QED
  BY <1>1, StoreConstantsBounds DEF Kept!Rows, NativeRow

\* What a page adds: each combat it found once, and those were not counted before.
LEMMA LiveLoadPage ==
  ASSUME Base, NoImports, Kept!ReadInv, Kept!ReadInv', LiveInv, LoadPage
  PROVE  LiveInv'
<1>1. /\ call # None /\ call.step = "pages" /\ read # None
      /\ run \in Runs /\ completed \in Summaries /\ run # None /\ run' = run
  BY SessionConstants DEF LoadPage, Base, TypeOK, Summed, Runs
<1>2. PICK page \in SUBSET Kept!Remaining :
        /\ Kept!ReadPage(page)
        /\ IF report' = None
           THEN completed' = Joined(page) /\ UNCHANGED call
           ELSE /\ completed' = IF report'.reasons = {} THEN Joined(page) ELSE Broken(Joined(page))
                /\ call' = None
  BY SameRequests DEF LoadPage
<1>3. UNCHANGED <<disk, pending>>
  BY <1>2 DEF Kept!ReadPage
<1> DEFINE found == {row \in page : Kept!Readable(row)}
           keys  == {c \in CombatIds : \E row \in page : row.key = c /\ Kept!Readable(row)}
           rows  == Kept!Rows(read.run)
<1>4. page \subseteq rows
  BY DEF Kept!Remaining
<1>5. read.delivered \subseteq rows /\ read.delivered \cap page = {}
  BY <1>1, <1>2 DEF Kept!ReadInv, Kept!Passed
<1>6. \A c \in CombatIds : c \in keys <=> NativeRow(c) \in found
  <2>1. \A row \in page : row.legacy = FALSE /\ row = NativeRow(row.key)
    BY <1>4, RowsAreNative DEF NativeRow
  <2>2. \A c : NativeRow(c).key = c
    BY DEF NativeRow
  <2>3. QED
    BY <2>1, <2>2
<1>7. \A c \in CombatIds : NativeRow(c) \in page => disk.owner[c] = read.run
  <2>1. \A c, d : NativeRow(c) = NativeRow(d) => c = d
    BY DEF NativeRow
  <2>2. QED
    BY <1>4, <2>1, RowsAreNative
<1>8. \A c \in CombatIds : NativeRow(c) \in found => disk.record[c] # None
  BY DEF Kept!Readable, Kept!Payload, NativeRow
<1>9. /\ Joined(page).run = completed.run /\ Joined(page).ended = completed.ended
      /\ \A c \in CombatIds : Joined(page).times[c] =
           IF c \in keys THEN completed.times[c] + 1 ELSE completed.times[c]
      /\ Joined(page).clean => completed.clean /\ \A c \in keys : disk.record[c].complete
      /\ Joined(page) \in Summaries
  <2> DEFINE times == [c \in CombatIds |-> IF c \in keys THEN completed.times[c] + 1
                                           ELSE completed.times[c]]
             clean == completed.clean /\ \A c \in keys : disk.record[c].complete
  <2>1. Joined(page) = [completed EXCEPT !.times = times, !.clean = clean]
    BY SameRequests DEF Joined
  <2>2. times \in [CombatIds -> Nat] /\ clean \in BOOLEAN
    BY <1>1 DEF Summaries
  <2>3. \A c \in CombatIds : times[c] = IF c \in keys THEN completed.times[c] + 1
                                        ELSE completed.times[c]
    OBVIOUS
  <2> HIDE DEF times, keys
  <2>4. /\ Joined(page).run = completed.run /\ Joined(page).ended = completed.ended
        /\ Joined(page).times = times /\ Joined(page) \in Summaries
        /\ Joined(page).clean = clean
    <3> HIDE DEF clean
    <3>1. QED
      BY <1>1, <2>1, <2>2 DEF Summaries
  <2>5. QED
    BY <2>3, <2>4
<1> HIDE DEF found, keys, rows
<1>10. completed'.run = completed.run /\ completed.run = run.id
  <2>1. completed' \in {Joined(page), Broken(Joined(page))}
    BY <1>2
  <2>2. Broken(Joined(page)).run = Joined(page).run
    BY <1>9 DEF Broken, Summaries
  <2>3. QED
    BY <1>1, <1>9, <2>1, <2>2 DEF LiveInv
<1>11. SUFFICES ASSUME completed'.clean
                PROVE  /\ call' = None => Counted' /\ NoneMissing' /\ EndStored'
                       /\ call' # None /\ call'.step = "load" => Untold'
                       /\ call' # None /\ call'.step = "pages" => ReadingBack'
  BY <1>1, <1>10 DEF LiveInv
<1>12. completed' = Joined(page) /\ (report' # None => report'.reasons = {})
  <2>1. ~Broken(Joined(page)).clean
    BY <1>9 DEF Broken, Summaries
  <2>2. QED
    BY <1>2, <1>11, <2>1
<1>13. completed.clean /\ \A c \in keys : disk.record[c].complete
  BY <1>9, <1>11, <1>12
<1>14. ReadingBack
  BY <1>1, <1>13, SessionConstants DEF LiveInv, Summaries
<1>15. /\ ~completed'.ended
       /\ \A c \in CombatIds : completed'.times[c] =
            IF NativeRow(c) \in read.delivered \cup found THEN 1 ELSE 0
       /\ \A c \in CombatIds : NativeRow(c) \in read.delivered \cup found =>
            disk'.record[c] # None /\ disk'.record[c].complete /\ disk'.owner[c] = run.id
  <2>1. ASSUME NEW c \in CombatIds, NativeRow(c) \in found
        PROVE  /\ completed'.times[c] = 1 /\ disk.record[c] # None /\ disk.record[c].complete
               /\ disk.owner[c] = run.id
    <3>1. NativeRow(c) \in page /\ NativeRow(c) \notin read.delivered /\ c \in keys
      BY <1>5, <1>6, <2>1 DEF found
    <3>2. completed.times[c] = 0 /\ read.run = run.id
      BY <1>1, <1>14, <3>1 DEF ReadingBack
    <3>3. QED
      BY <1>7, <1>8, <1>9, <1>12, <1>13, <2>1, <3>1, <3>2
  <2>2. ASSUME NEW c \in CombatIds, NativeRow(c) \notin found
        PROVE  completed'.times[c] = completed.times[c]
    BY <1>6, <1>9, <1>12, <2>2
  <2>3. \A c \in CombatIds :
          /\ completed.times[c] = IF NativeRow(c) \in read.delivered THEN 1 ELSE 0
          /\ NativeRow(c) \in read.delivered =>
               disk.record[c] # None /\ disk.record[c].complete /\ disk.owner[c] = run.id
    BY <1>1, <1>14 DEF ReadingBack
  <2>4. ~completed'.ended
    BY <1>1, <1>9, <1>12, <1>14 DEF ReadingBack
  <2>5. QED
    BY <1>3, <2>1, <2>2, <2>3, <2>4
<1>16. CASE report' = None
  <2>1. call' = call
    BY <1>2, <1>16
  <2>2. read' # None => read'.run = read.run /\ read'.delivered = read.delivered \cup found
    BY <1>1, <1>2 DEF Kept!ReadPage, found, Base, Kept!TypeOK, Kept!ReadSession
  <2>3. ReadingBack'
    BY <1>1, <1>14, <1>15, <2>2 DEF ReadingBack
  <2>4. QED
    BY <1>1, <2>1, <2>3
<1>17. CASE report' # None
  <2>1. call' = None /\ report'.reasons = {}
    BY <1>2, <1>12, <1>17
  <2>2. /\ report'.run = read.run /\ report'.delivered = read.delivered \cup found
        /\ read.reasons = {}
    <3> DEFINE valid   == read.valid + Kept!Cardinality(found)
               lacking == IF Kept!Remaining \ page = {} /\ read.finalized /\ valid = 0
                          THEN {"statistics-record-missing"} ELSE {}
               reasons == read.reasons \cup (UNION {Kept!RowReasons(row) : row \in page}) \cup lacking
    <3>1. report' = [run |-> read.run, valid |-> valid, reasons |-> reasons,
                     delivered |-> read.delivered \cup found]
      BY <1>2, <1>17 DEF Kept!ReadPage, found
    <3> HIDE DEF valid, lacking
    <3>2. read.reasons \subseteq reasons
      OBVIOUS
    <3> HIDE DEF reasons
    <3>3. QED
      BY <2>1, <3>1, <3>2
  <2>3. read.run = run.id /\ \A c \in CombatIds : pending[c] # run.id
    BY <1>1, <1>14, <2>2, StoreConstantsBounds DEF Kept!ReadInv, ReadingBack
  <2>4. \A c \in CombatIds : disk.owner[c] = run.id => NativeRow(c) \in read.delivered \cup found
    <3>1. Kept!Rows(report.run)' = report'.delivered
      BY <1>17, <2>1 DEF Kept!ReadInv, Kept!CleanReadIsComplete
    <3>2. Kept!Rows(report.run)' = rows
      BY <1>3, <2>2 DEF Kept!Rows, rows
    <3>3. \A c \in CombatIds : disk.owner[c] = run.id => NativeRow(c) \in rows
      BY <2>3, RowsAreNative DEF rows
    <3>4. QED
      BY <2>2, <3>1, <3>2, <3>3
  <2>5. Counted' /\ NoneMissing' /\ EndStored'
    <3>1. Counted'
      BY <1>10, <1>15 DEF Counted
    <3>2. NoneMissing'
      BY <1>3, <1>10, <1>15, <2>3, <2>4 DEF NoneMissing
    <3>3. EndStored'
      BY <1>15 DEF EndStored
    <3>4. QED
      BY <3>1, <3>2, <3>3
  <2>6. QED
    BY <2>1, <2>5
<1>18. QED
  BY <1>16, <1>17

\* A view that is marked, dropped or begun anew agrees with anything.
LEMMA LiveOther ==
  ASSUME Base, LiveInv, OpenOffline \/ OpenAmbiguous \/ LoadFails \/ Suspend \/ Crash
  PROVE  LiveInv'
<1>1. CASE OpenOffline
  <2>1. /\ completed' \in {EmptySummary(0), Broken(EmptySummary(0))}
        /\ run' = [id |-> 0, identity |-> call.identity] /\ call' = None
    BY <1>1 DEF OpenOffline
  <2>2. run'.id = 0 /\ completed'.run = 0
    BY <2>1, EmptyIsUntold, SessionConstants
  <2>3. completed'.clean => ~completed'.ended /\ \A c \in CombatIds : completed'.times[c] = 0
    BY <2>1, EmptyIsUntold, SessionConstants
  <2>4. QED
    BY <2>1, <2>2, <2>3 DEF LiveInv, Counted, NoneMissing, EndStored
<1>2. CASE OpenAmbiguous \/ Suspend \/ Crash
  BY <1>2 DEF OpenAmbiguous, Suspend, Crash, LiveInv
<1>3. CASE LoadFails
  <2>1. completed \in Summaries /\ completed' = Broken(completed) /\ run' = run
    BY <1>3 DEF LoadFails, Base, Summed
  <2>2. completed'.clean = FALSE /\ completed'.run = completed.run
    BY <2>1 DEF Broken, Summaries
  <2>3. QED
    BY <2>1, <2>2 DEF LiveInv
<1>4. QED
  BY <1>1, <1>2, <1>3

LEMMA LiveLoseStore ==
  ASSUME Base, LiveInv, LoseStore
  PROVE  LiveInv'
<1>1. /\ Kept!Restart /\ UNCHANGED <<run, completed, call>>
  BY SameRequests DEF LoseStore, Dispose, live
<1>2. read' = None /\ Writes(0, 0) /\ Settles(0)
  BY <1>1, RestWrites DEF Kept!Restart
<1>3. CASE call = None
  BY <1>1, <1>2, <1>3, LiveRests
<1>4. CASE call # None
  BY <1>1, <1>2, <1>4 DEF LiveInv, Untold, ReadingBack
<1>5. QED
  BY <1>3, <1>4

\* EndRun calls its view complete only if the outcome was saved.
LEMMA LiveEndRun ==
  ASSUME Base, LiveInv, EndRun
  PROVE  LiveInv'
<1>1. call = None /\ call' = None /\ run' = None
  BY DEF EndRun
<1>2. CASE UNCHANGED <<stored, completed>>
  BY <1>1, <1>2, RestWrites, LiveRests DEF stored
<1>3. CASE run # None /\ Ended
  <2>1. PICK ok \in BOOLEAN :
          /\ SaveRun(run, "reported", ok)
          /\ completed' = [completed EXCEPT !.ended = TRUE, !.clean = @ /\ ok]
    BY <1>3 DEF Ended
  <2>2. completed \in Summaries /\ run \in Runs /\ completed.run = run.id /\ completed # None
    BY <1>3, SessionConstants DEF Base, TypeOK, Summed, LiveInv, Summaries
  <2>3. /\ completed'.run = run.id /\ completed'.times = completed.times
        /\ completed'.clean <=> completed.clean /\ ok
    <3>1. (completed.clean /\ ok) \in BOOLEAN
      OBVIOUS
    <3>2. QED
      BY <2>1, <2>2, <3>1 DEF Summaries
  <2>4. SUFFICES ASSUME completed.clean, ok PROVE Counted' /\ NoneMissing' /\ EndStored'
    BY <1>1, <2>3 DEF LiveInv
  <2>5. Counted
    BY <1>1, <2>2, <2>4 DEF LiveInv
  <2>6. online /\ disk'.final[run.id] # None
    BY <2>1, <2>4 DEF SaveRun
  <2>7. run.id \in Kept!RunIds /\ run.identity \in Identities
    BY <1>3, <2>2, <2>6 DEF Base, RunsNamed, Named, Runs
  <2>8. Writes(0, 0)
    <3>1. Kept!SaveRun(run.id, run.identity, "reported") \/ Kept!RefuseRun(run.id, run.identity)
      BY <2>1, <2>6, SameRequests DEF SaveRun
    <3>2. QED
      BY <2>7, <3>1, SaveRunWrites DEF Base
  <2>9. \A d \in CombatIds : /\ disk'.record[d] = disk.record[d]
                             /\ disk.owner[d] # None => disk'.owner[d] = disk.owner[d]
    BY <2>8, SessionConstants DEF Writes, CombatIds
  <2>10. run.id # None /\ run.id # 0
    BY <2>7, StoreConstantsBounds, SessionConstants
  <2>11. Counted'
    BY <2>2, <2>3, <2>5, <2>9, <2>10 DEF Counted
  <2>12. NoneMissing' /\ EndStored'
    BY <1>1, <2>3, <2>6, <2>10 DEF NoneMissing, EndStored
  <2>13. QED
    BY <2>11, <2>12
<1>4. QED
  BY <1>2, <1>3 DEF EndRun

\* The session's reads are the store's.
LEMMA ReadsInit == Init => Kept!ReadInv
<1>1. Init => Kept!Init
  BY SameRequests DEF Init
<1>2. QED
  BY <1>1, StoreConstantsHold, Kept!ReadInit

LEMMA ReadsNext == Base /\ Kept!ReadInv /\ [Next]_vars => Kept!ReadInv'
<1>1. Base /\ [Next]_vars => StoreStep
  BY BaseNext
<1>2. QED
  BY <1>1, StoreConstantsHold, Kept!ReadInvNext DEF Base, StoreStep

LEMMA LiveNext ==
  Base /\ OwnerInv /\ NoImports /\ Kept!ReadInv /\ LiveInv /\ [Next]_vars => LiveInv'
<1> SUFFICES ASSUME Base, OwnerInv, NoImports, Kept!ReadInv, LiveInv, [Next]_vars
             PROVE  LiveInv'
  OBVIOUS
<1>1. Base'
  BY BaseNext
<1>2. Kept!ReadInv'
  BY ReadsNext
<1>3. CASE UNCHANGED vars
  <2>1. UNCHANGED <<disk, pending, read, run, completed, call>>
    BY <1>3 DEF vars, stored, live
  <2>2. QED
    BY <2>1 DEF LiveInv, Counted, NoneMissing, EndStored, Untold, ReadingBack
<1>4. ASSUME NEW i \in Identities, NEW continued \in BOOLEAN, StartRun(i, continued)
      PROVE  LiveInv'
  <2>1. UNCHANGED <<run, completed>> /\ call' = Opening(i, continued)
    BY <1>4 DEF StartRun, live
  <2>2. call' \in Handlers /\ call'.step = "open"
    BY <2>1 DEF Opening, Handlers
  <2>3. call' # None
    BY <2>2, SessionConstants DEF Handlers
  <2>4. QED
    BY <2>1, <2>2, <2>3 DEF LiveInv
<1>5. CASE OpenRun
  BY <1>5, LiveOpenRun
<1>6. CASE LoadBegin \/ LoadPage
  BY <1>2, <1>6, LiveLoadBegin, LiveLoadPage
<1>7. CASE OpenOffline \/ OpenAmbiguous \/ LoadFails \/ Suspend \/ Crash
  BY <1>7, LiveOther
<1>8. CASE StartCombat \/ StartCombatFails
  <2>1. FinishInterrupted /\ call = None /\ call' = None /\ run' = run
    BY <1>8 DEF StartCombat, StartCombatFails
  <2>2. QED
    BY <1>1, <2>1, LiveFinishInterrupted
<1>9. CASE EndCombat
  BY <1>1, <1>9, LiveEndCombat
<1>10. CASE EndRun
  BY <1>10, LiveEndRun
<1>11. CASE Refresh \/ Event
  <2>1. call = None /\ call' = None /\ UNCHANGED <<disk, pending, run, completed>>
    BY <1>11 DEF Refresh, Event, stored
  <2>2. QED
    BY <2>1, RestWrites, LiveRests
<1>12. CASE LoseStore
  BY <1>12, LiveLoseStore
<1>13. QED
  BY <1>3, <1>4, <1>5, <1>6, <1>7, <1>8, <1>9, <1>10, <1>11, <1>12 DEF Next

(***************************************************************************)
(* A live summary that calls its coverage complete is what the store would *)
(* give, whatever was loaded, saved, refused or lost on the way: Finish    *)
(* and EndRun mark what was not saved, and StartRun what could not be read *)
(* back (docs/interop.md, lines 105-106).                                  *)
(***************************************************************************)
THEOREM LiveViewsAgree == Spec => []LiveAgreesWithStore
<1>1. OneRunInv => NoImports
  BY DEF OneRunInv
<1>2. LiveInv => LiveAgreesWithStore
  BY DEF LiveInv, LiveAgreesWithStore, Counted, NoneMissing, EndStored
<1>3. QED
  BY <1>1, <1>2, BaseHolds, OwnersHold, OneRunInit, OneRunNext, ReadsInit, ReadsNext,
     LiveInit, LiveNext, PTL DEF Spec
=============================================================================
