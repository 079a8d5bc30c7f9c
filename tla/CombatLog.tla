------------------------------ MODULE CombatLog ------------------------------
(***************************************************************************)
(* What the statistics store promises, stated without its transactions,    *)
(* sessions, retries and crashes (profiler-store/src/lib.rs, lines 1-19):  *)
(* a combat is announced before its record is written, an announced combat *)
(* keeps its run, a written record and a final outcome are never replaced, *)
(* and the legacy archive is adopted at once or not at all.                *)
(***************************************************************************)
EXTENDS Naturals, Sequences

CONSTANTS
  CombatIds,     \* the IDs of natively captured combats
  RunIds,        \* the IDs of runs
  Payloads,      \* encoded combat records
  Outcomes,      \* final outcomes of a run
  None           \* the absent value

VARIABLES
  owner,         \* [CombatIds -> the combat's run, 0 for a combat of no run, or None]
  record,        \* [CombatIds -> the combat's written record, or None]
  final,         \* [RunIds -> the run's final outcome, or None]
  archive,       \* the imported combats, in the order they were imported
  adopted        \* has the legacy archive been imported?

logVars == <<owner, record, final, archive, adopted>>

Init ==
  /\ owner   = [c \in CombatIds |-> None]
  /\ record  = [c \in CombatIds |-> None]
  /\ final   = [r \in RunIds |-> None]
  /\ archive = << >>
  /\ adopted = FALSE

(***************************************************************************)
(* Any number of combats become known, none of which was known before.     *)
(***************************************************************************)
Announced ==
  /\ owner' \in [CombatIds -> RunIds \cup {0, None}]
  /\ \A c \in CombatIds : owner[c] # None => owner'[c] = owner[c]

Announce ==
  /\ Announced
  /\ UNCHANGED <<record, final, archive, adopted>>

\* A known combat gets its only record.
Write ==
  \E c \in CombatIds, p \in Payloads :
    /\ Announced
    /\ owner'[c] # None
    /\ record[c] = None
    /\ record' = [record EXCEPT ![c] = p]
    /\ UNCHANGED <<final, archive, adopted>>

\* A run gets its only final outcome.
Close ==
  \E r \in RunIds, o \in Outcomes :
    /\ Announced
    /\ final[r] = None
    /\ final' = [final EXCEPT ![r] = o]
    /\ UNCHANGED <<record, archive, adopted>>

\* The whole legacy archive appears, with the runs it had already finalized.
Adopt ==
  /\ ~adopted
  /\ adopted' = TRUE
  /\ archive' \in Seq([run : RunIds, record : Payloads])
  /\ final' \in [RunIds -> Outcomes \cup {None}]
  /\ \A r \in RunIds : final[r] # None => final'[r] = final[r]
  /\ UNCHANGED <<owner, record>>

Next == Announce \/ Write \/ Close \/ Adopt

Spec == Init /\ [][Next]_logVars
=============================================================================
