-------------------------------- MODULE Store --------------------------------
(***************************************************************************)
(* The SQLite statistics store, profiler-store/src/lib.rs: one Store       *)
(* object, its database file, and the process that may die around it.      *)
(*                                                                         *)
(* A transaction is atomic, and every write transaction may fail (another  *)
(* connection holds the lock past the 50 ms busy limit, or the disk        *)
(* refuses).  A request is one action; a request of several transactions   *)
(* has a disjunct for each point at which it can stop.  A crash between    *)
(* two transactions of a request is such a stop followed by Restart.       *)
(***************************************************************************)
EXTENDS Integers, Sequences, FiniteSetsExt

CONSTANTS
  Identities,    \* what names a playthrough: (profile, seed, started_at)
  Unmatchable,   \* the identities match_identity refuses to look up
  MaxRun,        \* the last run ID (u32::MAX)
  MaxCombat,     \* the last combat ID (u32::MAX)
  Outcomes,      \* victory, defeat, abandoned
  Payloads,      \* encoded combat records
  Unreadable,    \* the payloads a page cannot return: damaged or oversized
  SourceKeys,    \* the legacy runs an import can name
  Gaps,          \* the coverage gaps an import can report
  PageRows,      \* rows scanned by one page (PAGE_ROWS = 128)
  MaxArchive,    \* bound on the imported combats
  None           \* an absent row, value or session

RunIds    == 1..MaxRun
CombatIds == 1..MaxCombat
Owners    == 0..MaxRun           \* 0: a combat outside any run

ASSUME StoreConstants ==
  /\ MaxRun \in Nat /\ MaxCombat \in Nat /\ PageRows \in Nat \ {0} /\ MaxArchive \in Nat
  /\ Unmatchable \subseteq Identities
  /\ Unreadable \subseteq Payloads
  /\ None \notin Identities \cup Outcomes \cup Payloads
  /\ None \notin Owners
  /\ IsFiniteSet(Gaps)

VARIABLES
  disk,          \* the committed database
  pending,       \* combat intents the last write lost: [CombatIds -> owner or None]
  import,        \* the open import session and its uncommitted database, or None
  read,          \* the open read session, or None
  claimed,       \* history: the owner of every combat whose save got past its checks
  report         \* history: what the last request read to its end, or None

vars == <<disk, pending, import, read, claimed, report>>

(***************************************************************************)
(* The database.  A run's current_json is kept only as the row's           *)
(* existence, and its identity columns, which no statement updates: what   *)
(* the later versions of it say is shown and never decides anything.       *)
(***************************************************************************)
ArchivedCombat == [run : RunIds, record : Payloads]

Database ==
  [ identity   : [RunIds -> Identities \cup {None}],   \* None: no such run
    final      : [RunIds -> Outcomes \cup {None}],     \* final_json
    legacy     : SUBSET RunIds,                        \* source_key IS NOT NULL
    owner      : [CombatIds -> Owners \cup {None}],    \* None: no such combat
    record     : [CombatIds -> Payloads \cup {None}],  \* record_json
    archive    : Seq(ArchivedCombat),                  \* the rows with imported = 1
    gaps       : SUBSET (RunIds \X Gaps),
    ambiguous  : SUBSET Identities,
    lastRun    : 0..MaxRun,
    lastCombat : 0..MaxCombat,
    imported   : BOOLEAN ]

EmptyDatabase ==
  [ identity   |-> [r \in RunIds |-> None],
    final      |-> [r \in RunIds |-> None],
    legacy     |-> {},
    owner      |-> [c \in CombatIds |-> None],
    record     |-> [c \in CombatIds |-> None],
    archive    |-> << >>,
    gaps       |-> {},
    ambiguous  |-> {},
    lastRun    |-> 0,
    lastCombat |-> 0,
    imported   |-> FALSE ]

NoPending == [c \in CombatIds |-> None]

Larger(m, n) == IF m < n THEN n ELSE m

HasCombats(db, r) ==
  \/ \E c \in CombatIds : db.owner[c] = r
  \/ \E n \in DOMAIN db.archive : db.archive[n].run = r

(***************************************************************************)
(* match_identity: the runs of this identity that left evidence, on disk   *)
(* or in an intent still to be written.  A run that saved nothing is not   *)
(* among them.                                                             *)
(***************************************************************************)
Candidates(i) ==
  IF i \in Unmatchable THEN {}
  ELSE {r \in RunIds : /\ disk.identity[r] = i
                       /\ \/ disk.final[r] # None
                          \/ HasCombats(disk, r)
                          \/ \E c \in CombatIds : pending[c] = r}

Ambiguous(i) ==
  /\ i \notin Unmatchable
  /\ \/ i \in disk.ambiguous
     \/ \E r, s \in Candidates(i) : r # s

IsMatch(i, r) == ~Ambiguous(i) /\ r \in Candidates(i)

Idle == import = None /\ read = None

(***************************************************************************)
(* open_run.  A continued run whose identity is ambiguous gets null, one   *)
(* with a unique match keeps its ID, and any other run gets a fresh one.   *)
(***************************************************************************)
\* Mutant: the metadata keeps the old last run ID.
AllocateRunUncounted(db, i) == [db EXCEPT !.identity[db.lastRun + 1] = i]

AllocateRun(db, i) ==
  [db EXCEPT !.lastRun = @ + 1, !.identity[db.lastRun + 1] = i]

OpenRun(i, continued) ==
  /\ Idle
  /\ \/ /\ continued
        /\ Ambiguous(i) \/ \E r \in RunIds : IsMatch(i, r)
        /\ UNCHANGED disk
     \/ /\ ~(continued /\ (Ambiguous(i) \/ \E r \in RunIds : IsMatch(i, r)))
        /\ disk.lastRun < MaxRun
        /\ disk' = AllocateRun(disk, i)
  /\ report' = None
  /\ UNCHANGED <<pending, import, read, claimed>>

(***************************************************************************)
(* persist_intent for every pending combat, in one transaction: the row is *)
(* inserted unless it is there, under the same run.                        *)
(***************************************************************************)
CanPersist(pend) ==
  \A c \in CombatIds : pend[c] # None =>
    /\ disk.owner[c] \in {None, pend[c]}
    /\ pend[c] # 0 => disk.identity[pend[c]] # None

Persist(pend) ==
  [disk EXCEPT
     !.owner = [c \in CombatIds |-> IF pend[c] # None /\ @[c] = None THEN pend[c] ELSE @[c]],
     !.lastCombat = Max({@} \cup {c \in CombatIds : pend[c] # None})]

(***************************************************************************)
(* retry_intents: the databases and pending intents it can leave behind.   *)
(* The transaction takes all of the pending intents or none of them.       *)
(***************************************************************************)
\* Mutant: the intents are cleared whether or not their transaction commits.
RetriedOnce(pend) ==
  {[disk |-> disk, pending |-> NoPending]}
    \cup (IF CanPersist(pend) THEN {[disk |-> Persist(pend), pending |-> NoPending]}
         ELSE {})

Retried(pend) ==
  {[disk |-> disk, pending |-> pend]}
    \cup (IF CanPersist(pend) THEN {[disk |-> Persist(pend), pending |-> NoPending]}
         ELSE {})

(***************************************************************************)
(* save_combat of combat c with record p, for a run r that the caller      *)
(* believes has identity i.                                                *)
(***************************************************************************)
\* Mutant: a save does not compare its run with the pending intent's.
SaveAllowedUnseen(c, r, i) ==
  /\ r # 0 => disk.identity[r] = i
  /\ disk.owner[c] # None => disk.record[c] = None

SaveAllowed(c, r, i) ==
  /\ r # 0 => disk.identity[r] = i
  /\ disk.owner[c] # None => disk.owner[c] = r /\ disk.record[c] = None
  /\ pending[c] # None => pending[c] = r

SaveCombat(c, r, i, p) ==
  /\ Idle
  /\ SaveAllowed(c, r, i)
  /\ claimed' = [claimed EXCEPT ![c] = r]
  /\ \E left \in Retried([pending EXCEPT ![c] = r]) :
       /\ pending' = left.pending
       /\ \/ disk' = left.disk                     \* the intents or the payload failed
          \/ /\ left.pending[c] = None
             /\ left.disk.record[c] = None
             /\ disk' = [left.disk EXCEPT !.record[c] = p]
  /\ report' = None
  /\ UNCHANGED <<import, read>>

RefuseCombat(c, r, i) ==
  /\ Idle
  /\ ~SaveAllowed(c, r, i)
  /\ report' = None
  /\ UNCHANGED <<disk, pending, import, read, claimed>>

(***************************************************************************)
(* save_run: the first final outcome of a run with combats, once none of   *)
(* its intents is pending.                                                 *)
(***************************************************************************)
\* Mutant: the upsert replaces the outcome instead of keeping the first.
FinalizedAgain(db, r, o) == [db EXCEPT !.final[r] = o]

Finalized(db, r, o) == [db EXCEPT !.final[r] = IF @ = None THEN o ELSE @]

SaveRun(r, i, o) ==
  /\ Idle
  /\ disk.identity[r] = i
  /\ \E left \in Retried(pending) :
       /\ pending' = left.pending
       /\ \/ disk' = left.disk                     \* refused, or its transaction failed
          \/ /\ \A c \in CombatIds : left.pending[c] # r
             /\ HasCombats(left.disk, r)
             /\ disk' = Finalized(left.disk, r, o)
  /\ report' = None
  /\ UNCHANGED <<import, read, claimed>>

RefuseRun(r, i) ==
  /\ Idle
  /\ disk.identity[r] # i
  /\ report' = None
  /\ UNCHANGED <<disk, pending, import, read, claimed>>

----------------------------------------------------------------------------
(***************************************************************************)
(* Reading a run.  The session's transaction holds a shared lock on a      *)
(* connection of its own, so that nothing commits while it is open, and    *)
(* any other request of this store closes it: the pages read disk itself.  *)
(* A row is a combat of the run: imported ones come first, in the order of *)
(* their import, then the native ones by ID.                               *)
(***************************************************************************)
Row == [legacy : BOOLEAN, key : Nat]

ASSUME NoneIsNoRow == None \notin Row

Rows(r) ==
  {[legacy |-> TRUE,  key |-> n] : n \in {m \in DOMAIN disk.archive : disk.archive[m].run = r}}
    \cup
  {[legacy |-> FALSE, key |-> c] : c \in {d \in CombatIds : disk.owner[d] = r}}

Before(a, b) ==
  \/ a.legacy /\ ~b.legacy
  \/ a.legacy = b.legacy /\ a.key < b.key

Payload(row) ==
  IF row.legacy THEN disk.archive[row.key].record ELSE disk.record[row.key]

Readable(row) == Payload(row) \notin Unreadable \cup {None}

\* What a scanned row adds to the reasons why the run's coverage is incomplete.
RowReasons(row) ==
  IF Payload(row) = None THEN {"statistics-record-missing"}
  ELSE IF Payload(row) \in Unreadable THEN {"statistics-read-failed"}
  ELSE {}

\* Mutant: a read does not look at the intents still to be written.
PendingReasonsOnDisk(r) == {}

PendingReasons(r) ==
  IF \E c \in CombatIds : pending[c] = r THEN {"statistics-intent-write-failed"} ELSE {}

(***************************************************************************)
(* read_begin_on.  A history view (read_begin_select) finds the run by its *)
(* identity, the view of a continued run (read_begin_load) by its ID.      *)
(***************************************************************************)
ReadBegin(r, history) ==
  /\ Idle
  /\ disk.identity[r] # None
  /\ history => IsMatch(disk.identity[r], r)
  /\ read' = [ run       |-> r,
               finalized |-> history /\ disk.final[r] # None,
               cursor    |-> None,
               valid     |-> 0,
               reasons   |-> {g \in Gaps : <<r, g>> \in disk.gaps} \cup PendingReasons(r),
               delivered |-> {} ]
  /\ report' = None
  /\ UNCHANGED <<disk, pending, import, claimed>>

\* Mutant: the row at the cursor is read again (>= for >).
RemainingAgain == {row \in Rows(read.run) : read.cursor = None \/ ~Before(row, read.cursor)}

Remaining == {row \in Rows(read.run) : read.cursor = None \/ Before(read.cursor, row)}

(***************************************************************************)
(* The rows one page scans: a prefix of what remains, cut short by the row *)
(* limit or, once the page holds a record, by a record that would pass its *)
(* byte target.                                                            *)
(***************************************************************************)
IsPage(page) ==
  /\ \A a \in page, b \in Remaining \ page : Before(a, b)
  /\ Cardinality(page) <= PageRows
  /\ Remaining \ page # {} =>
       \/ Cardinality(page) = PageRows
       \/ /\ \E a \in page : Readable(a)
          /\ \E b \in Remaining \ page :
               Readable(b) /\ \A d \in Remaining \ page : d = b \/ Before(b, d)

\* Mutant: the cursor is taken from the first row of the page.
CursorAtFirst(last, page) == \A a \in page : a = last \/ Before(last, a)

CursorAt(last, page) == \A a \in page : a = last \/ Before(a, last)

(***************************************************************************)
(* read_page.  Only the last page names the reasons, and closes the read.  *)
(***************************************************************************)
ReadPage(page) ==
  /\ import = None
  /\ read # None
  /\ IsPage(page)
  /\ LET found   == {row \in page : Readable(row)}
         valid   == read.valid + Cardinality(found)
         done    == Remaining \ page = {}
         reasons == read.reasons \cup (UNION {RowReasons(row) : row \in page})
                      \cup (IF done /\ read.finalized /\ valid = 0
                           THEN {"statistics-record-missing"} ELSE {})
     IN  IF done
         THEN /\ read' = None
              /\ report' = [ run       |-> read.run,
                             valid     |-> valid,
                             reasons   |-> reasons,
                             delivered |-> read.delivered \cup found ]
         ELSE /\ \E last \in page :
                   /\ CursorAt(last, page)
                   /\ read' = [read EXCEPT !.cursor    = last,
                                           !.valid     = valid,
                                           !.reasons   = reasons,
                                           !.delivered = @ \cup found]
              /\ report' = None
  /\ UNCHANGED <<disk, pending, import, claimed>>

\* read_end, and a page that fails.
ReadEnd ==
  /\ import = None
  /\ read # None
  /\ read' = None
  /\ report' = None
  /\ UNCHANGED <<disk, pending, import, claimed>>

----------------------------------------------------------------------------
(***************************************************************************)
(* The legacy import.  Its transaction holds the write lock from begin to  *)
(* end, so that disk cannot change under import.db.                        *)
(***************************************************************************)
NotImported == ~disk.imported

ImportBegin(maxRun, maxCombat) ==
  /\ Idle
  /\ NotImported
  /\ import' = [ db        |-> [disk EXCEPT !.lastRun    = Larger(@, maxRun),
                                            !.lastCombat = Larger(@, maxCombat)],
                 maxRun    |-> maxRun,
                 maxCombat |-> maxCombat,
                 sources   |-> [k \in SourceKeys |-> None] ]
  /\ report' = None
  /\ UNCHANGED <<disk, pending, read, claimed>>

(***************************************************************************)
(* import_run of source k, whose own ID is n (0: an archive ID that is no  *)
(* number), with final outcome o or None.  It keeps its number if no run   *)
(* has it, and gets a fresh one otherwise.                                 *)
(***************************************************************************)
\* Mutant: an imported run keeps its number even if a run has it.
ImportIdKept(n) == IF n # 0 THEN n ELSE import.db.lastRun + 1

ImportId(n) ==
  IF n # 0 /\ import.db.identity[n] = None THEN n ELSE import.db.lastRun + 1

ImportRun(k, n, i, o, reasons) ==
  /\ import # None
  /\ read = None
  /\ import.sources[k] = None
  /\ n <= import.maxRun
  /\ ImportId(n) <= MaxRun
  /\ LET id == ImportId(n)
     IN  import' = [import EXCEPT
                      !.db.lastRun      = Larger(@, id),
                      !.db.identity[id] = i,
                      !.db.final[id]    = o,
                      !.db.legacy       = @ \cup {id},
                      !.db.gaps         = @ \cup ({id} \X reasons),
                      !.sources[k]      = [run |-> id, identity |-> i]]
  /\ report' = None
  /\ UNCHANGED <<disk, pending, read, claimed>>

\* import_record: combat n of source k, whose own run has identity i.
ImportRecord(k, i, n, p) ==
  /\ import # None
  /\ read = None
  /\ import.sources[k] # None
  /\ import.sources[k].identity = i
  /\ n <= import.maxCombat
  /\ Len(import.db.archive) < MaxArchive
  /\ import' = [import EXCEPT !.db.archive =
                  Append(@, [run |-> import.sources[k].run, record |-> p])]
  /\ report' = None
  /\ UNCHANGED <<disk, pending, read, claimed>>

ImportAmbiguous(i) ==
  /\ import # None
  /\ read = None
  /\ i \notin Unmatchable
  /\ import' = [import EXCEPT !.db.ambiguous = @ \cup {i}]
  /\ report' = None
  /\ UNCHANGED <<disk, pending, read, claimed>>

\* import_end: the gaps reach every imported run, and the transaction commits.
ImportCommit(reasons) ==
  [import.db EXCEPT !.gaps     = @ \cup (import.db.legacy \X reasons),
                    !.imported = TRUE]

ImportEnd(reasons) ==
  /\ import # None
  /\ read = None
  /\ disk' = ImportCommit(reasons)
  /\ import' = None
  /\ report' = None
  /\ UNCHANGED <<pending, read, claimed>>

(***************************************************************************)
(* execute drops an open session when a request fails, is malformed, or    *)
(* belongs to the other kind of session: nothing else of it is executed.   *)
(***************************************************************************)
DropSession ==
  /\ ~Idle
  /\ import' = None
  /\ read' = None
  /\ report' = None
  /\ UNCHANGED <<disk, pending, claimed>>

(***************************************************************************)
(* The process ends, or a panic drops the Store, and the file is opened    *)
(* again.  What outlives it of a claimed combat is the row its intent      *)
(* left: an intent that reached no disk goes with the process.             *)
(***************************************************************************)
Restart ==
  /\ pending' = NoPending
  /\ import' = None
  /\ read' = None
  /\ claimed' = disk.owner
  /\ report' = None
  /\ UNCHANGED disk

Init ==
  /\ disk = EmptyDatabase
  /\ pending = NoPending
  /\ import = None
  /\ read = None
  /\ claimed = NoPending
  /\ report = None

\* OpenRun, SaveCombat and SaveRun: what a live capture asks of the store.
Recording ==
  \/ \E i \in Identities, continued \in BOOLEAN : OpenRun(i, continued)
  \/ \E c \in CombatIds, r \in Owners, i \in Identities :
       \/ \E p \in Payloads : SaveCombat(c, r, i, p)
       \/ RefuseCombat(c, r, i)
  \/ \E r \in RunIds, i \in Identities :
       \/ \E o \in Outcomes : SaveRun(r, i, o)
       \/ RefuseRun(r, i)

NextPage == \E page \in IF read = None THEN {} ELSE SUBSET Remaining : ReadPage(page)

Reading ==
  \/ \E r \in RunIds, history \in BOOLEAN : ReadBegin(r, history)
  \/ NextPage
  \/ ReadEnd

Importing ==
  \/ \E m \in 0..MaxRun, n \in 0..MaxCombat : ImportBegin(m, n)
  \/ \E k \in SourceKeys, i \in Identities :
       \/ \E n \in 0..MaxRun, o \in Outcomes \cup {None}, reasons \in SUBSET Gaps :
            ImportRun(k, n, i, o, reasons)
       \/ \E n \in CombatIds, p \in Payloads : ImportRecord(k, i, n, p)
  \/ \E i \in Identities : ImportAmbiguous(i)
  \/ \E reasons \in SUBSET Gaps : ImportEnd(reasons)

Next == Recording \/ Reading \/ Importing \/ DropSession \/ Restart

Spec == Init /\ [][Next]_vars

\* The client that begins a read asks for page after page in one loop, without a
\* return to the game in between (StatisticsStore.ReadPages), until the last one.
FairSpec == Spec /\ WF_vars(NextPage)

----------------------------------------------------------------------------
ReadReasons ==
  Gaps \cup {"statistics-intent-write-failed", "statistics-record-missing",
             "statistics-read-failed"}

ImportSession ==
  [ db : Database, maxRun : 0..MaxRun, maxCombat : 0..MaxCombat,
    sources : [SourceKeys -> [run : RunIds, identity : Identities] \cup {None}] ]

ReadSession ==
  [ run : RunIds, finalized : BOOLEAN, cursor : Row \cup {None}, valid : Nat,
    reasons : SUBSET ReadReasons, delivered : SUBSET Row ]

Report == [run : RunIds, valid : Nat, reasons : SUBSET ReadReasons, delivered : SUBSET Row]

(***************************************************************************)
(* Every variable has its type, and at most one session is open (execute,  *)
(* lib.rs:265-272).                                                        *)
(***************************************************************************)
TypeOK ==
  /\ disk \in Database
  /\ pending \in [CombatIds -> Owners \cup {None}]
  /\ import \in ImportSession \cup {None}
  /\ read \in ReadSession \cup {None}
  /\ claimed \in [CombatIds -> Owners \cup {None}]
  /\ report \in Report \cup {None}
  /\ import = None \/ read = None

(***************************************************************************)
(* IDs are never given out twice: every run and every recorded combat is   *)
(* at or below the last ID in the metadata, in the committed database and  *)
(* in an import's uncommitted one, so allocate_run cannot collide with a   *)
(* row and MaxCombatId()+1 names no combat on disk.                        *)
(***************************************************************************)
WithinLastIds(db) ==
  /\ \A r \in RunIds : db.identity[r] # None => r <= db.lastRun
  /\ \A c \in CombatIds : db.owner[c] # None => c <= db.lastCombat

IdsReserved ==
  /\ WithinLastIds(disk)
  /\ import # None => WithinLastIds(import.db)

(***************************************************************************)
(* A pending intent can always be written: its run exists, and the row of  *)
(* its combat, if there is one, is its run's and still lacks a record.  So *)
(* one lost intent never makes the transaction of all of them fail for     *)
(* good (retry_intents writes them together).                              *)
(***************************************************************************)
PendingPersistable ==
  \A c \in CombatIds : pending[c] # None =>
    /\ disk.owner[c] \in {None, pending[c]}
    /\ disk.record[c] = None
    /\ pending[c] # 0 => disk.identity[pending[c]] # None

(***************************************************************************)
(* No save is silently lost: a combat whose save got past its checks is on *)
(* disk under its run, or pending under it, until the process dies.        *)
(***************************************************************************)
NoSilentLoss ==
  \A c \in CombatIds : claimed[c] # None =>
    disk.owner[c] = claimed[c] \/ pending[c] = claimed[c]

(***************************************************************************)
(* The rows agree with each other, on disk and in an import's database: a  *)
(* record has a row, a row's run exists, a native run was finalized only   *)
(* after it had combats, and imported rows stand beside the marker that    *)
(* forbids a second import.                                                *)
(***************************************************************************)
RowsAgree(db) ==
  /\ \A c \in CombatIds : db.record[c] # None => db.owner[c] # None
  /\ \A c \in CombatIds : db.owner[c] \in RunIds => db.identity[db.owner[c]] # None
  /\ \A r \in RunIds : db.final[r] # None =>
       db.identity[r] # None /\ (r \in db.legacy \/ HasCombats(db, r))

RowsConsistent ==
  /\ RowsAgree(disk)
  /\ import # None => RowsAgree(import.db)
  /\ ~disk.imported => disk.archive = << >> /\ disk.legacy = {} /\ disk.ambiguous = {}

(***************************************************************************)
(* A read that ends without a reason is complete: every combat of the run  *)
(* whose save got past its checks, and every imported one, was delivered,  *)
(* once.                                                                   *)
(***************************************************************************)
CleanReadIsComplete ==
  report # None /\ report.reasons = {} =>
    /\ \A c \in CombatIds : claimed[c] = report.run =>
         [legacy |-> FALSE, key |-> c] \in report.delivered
    /\ Rows(report.run) = report.delivered

\* Pages deliver no row twice, whichever row each of them ended at: a combat that came
\* twice would be added twice to the run that is shown (read_page's cursor).
DeliveredOnce == report # None => report.valid = Cardinality(report.delivered)

\* A read ends, by its last page or because another request closed it: every page
\* moves the cursor on, past rows that cannot be read, cut short by the byte target
\* or not (read_page; the loop of ReadPages has no other end).
ReadEnds == read # None ~> read = None

(***************************************************************************)
(* An import changes nothing that was there: it adds runs and archived     *)
(* combats to the database it began with, which is still the one on disk.  *)
(***************************************************************************)
ImportExtendsDisk ==
  import # None =>
    /\ ~disk.imported /\ ~import.db.imported
    /\ import.db.owner = disk.owner
    /\ import.db.record = disk.record
    /\ \A r \in RunIds : disk.identity[r] # None =>
         import.db.identity[r] = disk.identity[r] /\ import.db.final[r] = disk.final[r]
    /\ disk.lastRun <= import.db.lastRun
    /\ disk.lastCombat <= import.db.lastCombat

(***************************************************************************)
(* An identity, once given to a run, is never changed, whatever import or  *)
(* resumption comes later; and the last IDs never go back.                 *)
(***************************************************************************)
IdentitiesAreFinal ==
  [][/\ \A r \in RunIds : disk.identity[r] # None => disk'.identity[r] = disk.identity[r]
     /\ disk'.lastRun >= disk.lastRun
     /\ disk'.lastCombat >= disk.lastCombat]_vars

(***************************************************************************)
(* The store implements the abstract combat log.                           *)
(***************************************************************************)
Log == INSTANCE CombatLog WITH
  owner <- disk.owner, record <- disk.record, final <- disk.final,
  archive <- disk.archive, adopted <- disk.imported

ImplementsLog == Log!Spec
=============================================================================
