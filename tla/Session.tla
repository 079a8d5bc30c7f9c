------------------------------- MODULE Session -------------------------------
(***************************************************************************)
(* The managed session of the profiler, shim/session/ProfilerSession.cs,   *)
(* with the store client it saves through (StatisticsStore.cs), the        *)
(* capture epoch the game's patches hold (CaptureRuntime.cs, RunPatches.cs *)
(* and the combat handlers of CommandCapture.cs), the native engine as far *)
(* as the session depends on it, and the statistics store, module Store.   *)
(*                                                                         *)
(* All handlers run on the game thread, one at a time; the process may die *)
(* between any two steps.  A handler that asks the store more than once    *)
(* (StartRun) is a sequence of steps, the rest of which stands in call.    *)
(***************************************************************************)
EXTENDS Integers, FiniteSets

CONSTANTS
  Identities,    \* (profile, seed, start time) of a playthrough
  MaxRun,        \* the last run ID
  MaxCombat,     \* the last combat ID
  MaxEvents,     \* bound on the events of one combat
  PageRows,      \* rows scanned by one page of a stored run
  None           \* an absent run, combat or view

VARIABLES
  disk, pending, import, read, claimed, report,   \* the store: see module Store
  online,        \* has the store client a native store (StatisticsStore.native # null)?
  run,           \* the run in progress, or None
  combatRun,     \* the run the last combat was started in, or None
  completed,     \* completedRun: the live summary of a run, or None
  combat,        \* the last snapshot read from the engine, or None
  sequence,      \* the last combat ID used
  activeEpoch,   \* the combat in progress, or 0
  cached,        \* is combat a snapshot of the engine's present revision?
  call,          \* what the handler in progress has still to do, or None
  captured,      \* CaptureRuntime.Epoch: the combat whose events are captured, or 0
  strayed,       \* wrongThreadObserved: an event came on another thread
  engine,        \* the native engine's combat
  happened,      \* history: the events of the combat in progress, seen or not
  startedIn,     \* history: the run ID every combat was started in, with a store
  played         \* history: the identities an orderly game has used, None for another game

stored == <<disk, pending, import, read, claimed, report>>
live   == <<run, combatRun, completed, combat, sequence, activeEpoch, cached>>
native == <<captured, strayed, engine>>
past   == <<happened, startedIn, played>>
vars   == <<stored, online, live, call, native, past>>

CombatIds == 1..MaxCombat

\* What a combat record holds: how many events, and whether its coverage is complete.
Snapshots == [seen : 0..MaxEvents, complete : BOOLEAN]

ASSUME SessionConstants ==
  /\ MaxRun \in Nat /\ MaxCombat \in Nat /\ MaxEvents \in Nat /\ PageRows \in Nat \ {0}
  /\ None \notin Identities /\ None \notin {"reported", "defeat"} /\ None \notin Snapshots
  /\ None \notin 0..MaxRun
  /\ None \notin [legacy : BOOLEAN, key : Nat] /\ None \notin [id : 0..MaxRun, identity : Identities]
  /\ None \notin [step : {"open", "load", "pages"}, identity : Identities, continued : BOOLEAN]
  /\ None \notin [run : 0..MaxRun, times : [CombatIds -> Nat], clean : BOOLEAN, ended : BOOLEAN]

\* The outcome of a run: the one the game reported, or the defeat that StartRun assumes.
Store == INSTANCE Store WITH
  Outcomes <- {"reported", "defeat"}, Payloads <- Snapshots, Unreadable <- {},
  Unmatchable <- {}, SourceKeys <- {}, Gaps <- {}, MaxArchive <- 0

(***************************************************************************)
(* The native engine as the session sees it: the combat it observes, how   *)
(* many events it has taken, and its coverage.  Neither it nor the last    *)
(* snapshot is read again once activeEpoch is 0, so both are dropped then, *)
(* although the code keeps them to be shown.                               *)
(***************************************************************************)
NoEngine == [seq |-> 0, seen |-> 0, clean |-> TRUE]

NoCombat ==
  /\ activeEpoch' = 0
  /\ combat' = None
  /\ cached' = FALSE
  /\ engine' = NoEngine

\* Does the game clean up between runs and name each run anew?
Orderly == played # None

----------------------------------------------------------------------------
(***************************************************************************)
(* Views.  A summary counts combats: times[c] says how often c entered it. *)
(***************************************************************************)
EmptySummary(id) ==
  [run |-> id, times |-> [c \in CombatIds |-> 0], clean |-> TRUE, ended |-> FALSE]

Add(summary, c, complete) ==
  [summary EXCEPT !.times[c] = @ + 1, !.clean = @ /\ complete]

Broken(summary) == [summary EXCEPT !.clean = FALSE]

(***************************************************************************)
(* Requests of the store client.  Without a native store each one fails.   *)
(***************************************************************************)
SaveRun(r, o, ok) ==
  \/ ~online /\ ~ok /\ UNCHANGED stored
  \/ /\ online
     /\ Store!SaveRun(r.id, r.identity, o) \/ Store!RefuseRun(r.id, r.identity)
     /\ ok => disk'.final[r.id] # None /\ \A c \in CombatIds : pending'[c] # r.id
     /\ disk' # disk /\ disk'.final # disk.final => ok

SaveCombat(c, r, snapshot, ok) ==
  \/ ~online /\ ~ok /\ UNCHANGED stored
  \/ /\ online
     /\ LET owner == IF r = None THEN 0 ELSE r.id
        IN  \E i \in IF r = None THEN Identities ELSE {r.identity} :
              Store!SaveCombat(c, owner, i, snapshot) \/ Store!RefuseCombat(c, owner, i)
     /\ ok <=> disk.record[c] = None /\ disk'.record[c] # None

\* Dispose: the client lets go of its store, and of the intents pending in it.
Dispose == online' = FALSE /\ Store!Restart

----------------------------------------------------------------------------
(***************************************************************************)
(* The engine.  Every call that may change it raises its revision.  Noticed *)
(* is the engine once the next patch that asks OnThread has reported a     *)
(* stray event (CaptureRuntime.OnThread).                                  *)
(***************************************************************************)
Noticed == [engine EXCEPT !.clean = @ /\ ~strayed]

\* Mutant: a failed read keeps the earlier snapshot as it is.
RefreshedSilently(e, fresh) ==
  IF fresh THEN {[combat |-> combat, cached |-> TRUE]}
  ELSE {[combat |-> combat, cached |-> FALSE]}
         \cup {[combat |-> [seen |-> e.seen, complete |-> e.clean], cached |-> TRUE]}

(***************************************************************************)
(* Refresh of a combat in progress: the snapshots it can leave, with the   *)
(* engine at e.  An unchanged revision keeps the one that is there, and a  *)
(* failed read marks it.                                                   *)
(***************************************************************************)
Refreshed(e, fresh) ==
  IF fresh THEN {[combat |-> combat, cached |-> TRUE]}
  ELSE {[combat |-> IF combat = None THEN None ELSE [combat EXCEPT !.complete = FALSE],
         cached |-> FALSE]}
         \cup {[combat |-> [seen |-> e.seen, complete |-> e.clean], cached |-> TRUE] :
                 s \in {e.seq} \cap {activeEpoch}}

Refresh ==
  /\ call = None
  /\ activeEpoch # 0
  /\ ~cached
  /\ \E left \in Refreshed(engine, FALSE) :
       combat' = left.combat /\ cached' = left.cached
  /\ UNCHANGED <<stored, online, run, combatRun, completed, sequence, activeEpoch, call,
                 native, past>>

----------------------------------------------------------------------------
(***************************************************************************)
(* StartRun: a run still open is closed as a defeat, the store names the   *)
(* new one, and a continued run's summary is read back.                    *)
(***************************************************************************)
\* Mutant: every run is opened as a new one.
OpeningAnew(i, continued) == [step |-> "open", identity |-> i, continued |-> FALSE]

Opening(i, continued) == [step |-> "open", identity |-> i, continued |-> continued]

StartRun(i, continued) ==
  /\ call = None
  /\ Orderly => /\ run = None /\ activeEpoch = 0
                /\ continued <=> i \in played
  /\ \/ run = None /\ UNCHANGED stored
     \/ run # None /\ \E ok \in BOOLEAN : SaveRun(run, "defeat", ok)
  /\ call' = Opening(i, continued)
  /\ captured' = 0
  /\ played' = IF Orderly THEN played \cup {i} ELSE played
  /\ UNCHANGED <<online, live, strayed, engine, happened, startedIn>>

\* StartRun goes on with a run the store could not name: nothing of it is saved.
OpenOffline ==
  /\ call # None /\ call.step = "open"
  /\ Dispose
  /\ run' = [id |-> 0, identity |-> call.identity]
  /\ completed' = IF call.continued THEN Broken(EmptySummary(0)) ELSE EmptySummary(0)
  /\ call' = None
  /\ UNCHANGED <<combatRun, combat, sequence, activeEpoch, cached, native, past>>

\* The run ID the store's reply names.
Opened(i, continued) ==
  IF continued /\ \E r \in Store!RunIds : Store!IsMatch(i, r)
  THEN CHOOSE r \in Store!RunIds : Store!IsMatch(i, r)
  ELSE disk.lastRun + 1

OpenRun ==
  /\ call # None /\ call.step = "open"
  /\ online
  /\ ~(call.continued /\ Store!Ambiguous(call.identity))
  /\ Store!OpenRun(call.identity, call.continued)
  /\ LET id == Opened(call.identity, call.continued)
     IN  /\ run' = [id |-> id, identity |-> call.identity]
         /\ completed' = EmptySummary(id)
  /\ call' = IF call.continued THEN [call EXCEPT !.step = "load"] ELSE None
  /\ UNCHANGED <<online, combatRun, combat, sequence, activeEpoch, cached, native, past>>

\* The store refuses to choose between two runs of this identity.
OpenAmbiguous ==
  /\ call # None /\ call.step = "open"
  /\ online
  /\ call.continued /\ Store!Ambiguous(call.identity)
  /\ Store!OpenRun(call.identity, TRUE)
  /\ run' = None /\ combatRun' = None /\ completed' = None
  /\ NoCombat
  /\ happened' = 0
  /\ call' = None
  /\ UNCHANGED <<online, sequence, captured, strayed, startedIn, played>>

LoadBegin ==
  /\ call # None /\ call.step = "load"
  /\ online
  /\ Store!ReadBegin(run.id, FALSE)
  /\ call' = [call EXCEPT !.step = "pages"]
  /\ UNCHANGED <<online, live, native, past>>

\* The combats of a page join the summary, as Add does one by one.
Joined(page) ==
  LET found == {c \in CombatIds : \E row \in page : row.key = c /\ Store!Readable(row)}
  IN  [completed EXCEPT
         !.times = [c \in CombatIds |-> IF c \in found THEN @[c] + 1 ELSE @[c]],
         !.clean = @ /\ \A c \in found : disk.record[c].complete]

LoadPage ==
  /\ call # None /\ call.step = "pages"
  /\ online /\ read # None
  /\ \E page \in SUBSET Store!Remaining :
       /\ Store!ReadPage(page)
       /\ IF report' = None
          THEN completed' = Joined(page) /\ UNCHANGED call
          ELSE /\ completed' = IF report'.reasons = {} THEN Joined(page) ELSE Broken(Joined(page))
               /\ call' = None
  /\ UNCHANGED <<online, run, combatRun, combat, sequence, activeEpoch, cached, native, past>>

LoadFails ==
  /\ call # None /\ call.step \in {"load", "pages"}
  /\ \/ read # None /\ Store!ReadEnd
     \/ read = None /\ UNCHANGED stored
  /\ completed' = Broken(completed)
  /\ call' = None
  /\ UNCHANGED <<online, run, combatRun, combat, sequence, activeEpoch, cached, native, past>>

----------------------------------------------------------------------------
\* Mutant: a combat that could not be saved is counted as if it had been.
FinishUnchecked(snapshot) ==
  \E ok \in BOOLEAN :
    /\ SaveCombat(activeEpoch, combatRun, snapshot, ok)
    /\ completed' = IF run # None /\ run = combatRun
                    THEN Add(completed, activeEpoch, snapshot.complete)
                    ELSE completed

\* Mutant: a finished combat is saved under the run in progress.
FinishInRun(snapshot) ==
  \E ok \in BOOLEAN :
    /\ SaveCombat(activeEpoch, run, snapshot, ok)
    /\ completed' = IF run # None
                    THEN Add(completed, activeEpoch, snapshot.complete /\ ok)
                    ELSE completed

\* Finish: the combat is saved, and counted if its run is still the one in progress.
Finish(snapshot) ==
  \E ok \in BOOLEAN :
    /\ SaveCombat(activeEpoch, combatRun, snapshot, ok)
    /\ completed' = IF run # None /\ run = combatRun
                    THEN Add(completed, activeEpoch, snapshot.complete /\ ok)
                    ELSE completed

\* The combat still in progress, if it had any activity, is saved as interrupted.
FinishInterrupted ==
  \/ activeEpoch = 0 /\ UNCHANGED <<stored, completed>>
  \/ /\ activeEpoch # 0
     /\ \E left \in Refreshed(Noticed, cached /\ Noticed = engine) :
          IF left.combat # None /\ left.combat.seen # 0
          THEN Finish([left.combat EXCEPT !.complete = FALSE])
          ELSE UNCHANGED <<stored, completed>>

\* StartCombat, and the registration of its epoch for capture.
StartCombat ==
  /\ call = None
  /\ sequence < MaxCombat
  /\ FinishInterrupted
  /\ combatRun' = run
  /\ sequence' = sequence + 1
  /\ \E clean \in BOOLEAN, readable \in BOOLEAN :
       /\ engine' = [seq |-> sequence', seen |-> 0, clean |-> clean]
       /\ combat' = IF readable THEN [seen |-> 0, complete |-> clean] ELSE None
       /\ cached' = readable
  /\ activeEpoch' = sequence'
  /\ captured' = sequence'
  /\ happened' = 0
  /\ startedIn' = IF online
                  THEN [startedIn EXCEPT ![sequence'] = IF run = None THEN 0 ELSE run.id]
                  ELSE startedIn
  /\ UNCHANGED <<online, run, call, strayed, played>>

\* StartCombat without an engine to start: a native panic, or no number left.
StartCombatFails ==
  /\ call = None
  /\ FinishInterrupted
  /\ \/ /\ sequence < MaxCombat
        /\ combatRun' = run
        /\ sequence' = sequence + 1
     \/ /\ sequence = MaxCombat
        /\ combatRun' = None
        /\ UNCHANGED sequence
  /\ NoCombat
  /\ captured' = 0
  /\ happened' = 0
  /\ UNCHANGED <<online, run, call, strayed, startedIn, played>>

(***************************************************************************)
(* EndCombat, reached only while its epoch is captured.  CombatEnded may   *)
(* be refused (a poisoned engine), which is reported to the engine, and    *)
(* the last snapshot may be unreadable.                                    *)
(***************************************************************************)
EndCombat ==
  /\ call = None
  /\ captured # 0 /\ captured = activeEpoch
  /\ captured' = 0
  /\ \E ended \in BOOLEAN :
       \E left \in Refreshed([Noticed EXCEPT !.clean = @ /\ ended], FALSE) :
         \/ left.combat = None /\ UNCHANGED <<stored, completed>>
         \/ left.combat # None /\ Finish(left.combat)
  /\ NoCombat
  /\ happened' = 0
  /\ UNCHANGED <<online, run, combatRun, sequence, call, strayed, startedIn, played>>

Ended ==
  \E ok \in BOOLEAN :
    /\ SaveRun(run, "reported", ok)
    /\ completed' = [completed EXCEPT !.ended = TRUE, !.clean = @ /\ ok]

EndRun ==
  /\ call = None
  /\ captured' = 0
  /\ \/ run = None /\ UNCHANGED <<stored, completed>>
     \/ run # None /\ Ended
  /\ run' = None
  /\ UNCHANGED <<online, combatRun, combat, sequence, activeEpoch, cached, call,
                 strayed, engine, past>>

Suspend ==
  /\ call = None
  /\ run' = None /\ combatRun' = None /\ completed' = None
  /\ NoCombat
  /\ captured' = 0
  /\ happened' = 0
  /\ UNCHANGED <<stored, online, sequence, call, strayed, startedIn, played>>

----------------------------------------------------------------------------
(***************************************************************************)
(* Something happens in the combat in progress.  Its patch passes it to    *)
(* the engine, reports that it could not, runs on another thread, or finds *)
(* the epoch it captured no longer valid and drops it.                     *)
(***************************************************************************)
Event ==
  /\ call = None
  /\ activeEpoch # 0
  /\ happened < MaxEvents
  /\ happened' = happened + 1
  /\ \/ /\ captured # 0
        /\ engine' = [engine EXCEPT !.seen = @ + 1]
        /\ cached' = FALSE
        /\ UNCHANGED strayed
     \/ /\ captured # 0
        /\ engine' = [engine EXCEPT !.clean = FALSE]
        /\ cached' = FALSE
        /\ UNCHANGED strayed
     \/ /\ strayed' = TRUE
        /\ UNCHANGED <<engine, cached>>
     \/ /\ captured = 0
        /\ UNCHANGED <<engine, cached, strayed>>
  /\ UNCHANGED <<stored, online, run, combatRun, completed, combat, sequence, activeEpoch,
                 call, captured, startedIn, played>>

\* A panic in the store drops its database: every later request fails.
LoseStore ==
  /\ online
  /\ Dispose
  /\ UNCHANGED <<live, call, native, past>>

----------------------------------------------------------------------------
\* Mutant: combat numbers begin again with every process.
FirstSequenceZero(opened) == 0

\* Initialize: combat IDs go on from the largest on disk (0 if there is no store).
FirstSequence(opened) == IF opened THEN disk.lastCombat ELSE 0

\* The process ends, at any point of any handler, and Initialize runs in the next.
Crash ==
  /\ Store!Restart
  /\ online' \in BOOLEAN
  /\ sequence' = FirstSequence(online')
  /\ run' = None /\ combatRun' = None /\ completed' = None
  /\ NoCombat
  /\ call' = None
  /\ captured' = 0 /\ strayed' = FALSE
  /\ happened' = 0
  /\ UNCHANGED <<startedIn, played>>

Init ==
  /\ Store!Init
  /\ online \in BOOLEAN
  /\ run = None /\ combatRun = None /\ completed = None /\ combat = None
  /\ sequence = 0
  /\ activeEpoch = 0
  /\ cached = FALSE
  /\ call = None
  /\ captured = 0 /\ strayed = FALSE /\ engine = NoEngine
  /\ happened = 0
  /\ startedIn = [c \in CombatIds |-> 0]
  /\ played \in {{}, None}

Next ==
  \/ \E i \in Identities, continued \in BOOLEAN : StartRun(i, continued)
  \/ OpenRun \/ OpenOffline \/ OpenAmbiguous
  \/ LoadBegin \/ LoadPage \/ LoadFails
  \/ StartCombat \/ StartCombatFails \/ EndCombat
  \/ EndRun
  \/ Suspend \/ Refresh \/ Event \/ LoseStore \/ Crash

Spec == Init /\ [][Next]_vars

----------------------------------------------------------------------------
(***************************************************************************)
(* A live summary with complete coverage is what the store would give: all *)
(* its combats, each counted once, are on disk with complete records,      *)
(* while its run is in progress no other combat of the run is, and once it *)
(* is ended so is its final outcome, which save_run may refuse or fail to  *)
(* write (docs/interop.md, lines 105-106: a database failure leaves live capture *)
(* with partial coverage).                                                 *)
(***************************************************************************)
LiveAgreesWithStore ==
  completed # None /\ call = None /\ completed.clean =>
    /\ \A c \in CombatIds : completed.times[c] # 0 =>
         /\ completed.times[c] = 1
         /\ disk.record[c] # None /\ disk.record[c].complete /\ disk.owner[c] = completed.run
    /\ run # None => \A c \in CombatIds :
         completed.run # 0 /\ disk.owner[c] = completed.run => completed.times[c] = 1
    /\ completed.ended => completed.run # 0 /\ disk.final[completed.run] # None

(***************************************************************************)
(* The combat in progress can be saved: no row and no pending intent has   *)
(* its number under another run or with a record, and the run it was       *)
(* started in is on disk under the identity the session will send          *)
(* (save_combat's refusals, profiler-store/src/lib.rs:460-496).            *)
(***************************************************************************)
CombatIsSavable ==
  online /\ activeEpoch # 0 =>
    IF combatRun = None
    THEN \A i \in Identities : Store!SaveAllowed(activeEpoch, 0, i)
    ELSE combatRun.id # 0 /\ Store!SaveAllowed(activeEpoch, combatRun.id, combatRun.identity)

(***************************************************************************)
(* A combat is stored under the run it was started in, whatever runs were  *)
(* opened, ended or resumed before it finished (combatRun against run).    *)
(***************************************************************************)
StoredUnderItsRun ==
  \A c \in CombatIds :
    /\ disk.owner[c] # None => disk.owner[c] = startedIn[c]
    /\ pending[c] # None => pending[c] = startedIn[c]

(***************************************************************************)
(* A record is written as complete only if it holds every event of its     *)
(* combat: the snapshot was not stale, no event was refused, dropped after *)
(* its epoch ended, or met on another thread (Refresh, EndCombat,          *)
(* CaptureRuntime.OnThread).                                               *)
(***************************************************************************)
CompleteMeansAll ==
  [][\A c \in CombatIds :
       disk'.record[c] # disk.record[c] /\ disk'.record[c].complete =>
         c = activeEpoch /\ disk'.record[c].seen = happened]_vars

(***************************************************************************)
(* If the game cleans up between runs and names every new run anew, no two *)
(* runs of an identity ever leave evidence: a run can always be continued  *)
(* and its history selected (match_identity, lib.rs:333-367).              *)
(***************************************************************************)
OneRunPerIdentity == Orderly => \A i \in Identities : ~Store!Ambiguous(i)
=============================================================================
