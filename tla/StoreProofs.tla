----------------------------- MODULE StoreProofs -----------------------------
(***************************************************************************)
(* Theorems about the statistics store, for every number of runs, combats, *)
(* payloads and legacy sources.                                            *)
(***************************************************************************)
EXTENDS Store, FiniteSetTheorems, NaturalsInduction, WellFoundedInduction, TLAPS

(***************************************************************************)
(* A nonempty set of numbers up to N has a maximum, which Max chooses.     *)
(***************************************************************************)
LEMMA MaxOfBounded ==
  ASSUME NEW N \in Nat, NEW S \in SUBSET (0..N), S # {}
  PROVE  Max(S) \in S /\ \A x \in S : x <= Max(S)
<1> DEFINE T == {N - x : x \in S}
<1>1. T \subseteq Nat /\ T # {}
  OBVIOUS
<1>2. PICK t \in T : \A y \in T : ~(<<y, t>> \in OpToRel(<, Nat))
  BY <1>1, NatLessThanWellFounded, WFMin
<1>3. PICK m \in S : t = N - m
  OBVIOUS
<1>4. \A x \in S : x <= m
  <2>1. SUFFICES ASSUME NEW x \in S, x > m PROVE FALSE
    OBVIOUS
  <2>2. N - x \in T /\ N - x < t /\ N - x \in Nat /\ t \in Nat
    BY <2>1, <1>3
  <2>3. <<N - x, t>> \in OpToRel(<, Nat)
    BY <2>2 DEF OpToRel
  <2>4. QED
    BY <2>2, <2>3, <1>2
<1>5. \E x \in S : \A y \in S : x >= y
  BY <1>4
<1>6. QED
  BY <1>5 DEF Max

(***************************************************************************)
(* What the transaction of retry_intents makes of the database.            *)
(***************************************************************************)
LEMMA PersistFacts ==
  ASSUME TypeOK, NEW pend \in [CombatIds -> Owners \cup {None}]
  PROVE  LET db == Persist(pend)
         IN  /\ db \in Database
             /\ db.identity = disk.identity /\ db.final = disk.final
             /\ db.legacy = disk.legacy /\ db.record = disk.record
             /\ db.archive = disk.archive /\ db.gaps = disk.gaps
             /\ db.ambiguous = disk.ambiguous /\ db.lastRun = disk.lastRun
             /\ db.imported = disk.imported
             /\ \A c \in CombatIds : db.owner[c] =
                  IF pend[c] # None /\ disk.owner[c] = None THEN pend[c] ELSE disk.owner[c]
             /\ disk.lastCombat <= db.lastCombat
             /\ \A c \in CombatIds : pend[c] # None => c <= db.lastCombat
<1> DEFINE ids == {disk.lastCombat} \cup {c \in CombatIds : pend[c] # None}
           own == [c \in CombatIds |->
                    IF pend[c] # None /\ disk.owner[c] = None THEN pend[c] ELSE disk.owner[c]]
<1>1. disk \in Database
  BY DEF TypeOK
<1>2. MaxCombat \in Nat /\ ids \in SUBSET (0..MaxCombat) /\ ids # {}
  BY <1>1, StoreConstants DEF Database, CombatIds
<1>3. Max(ids) \in 0..MaxCombat /\ \A x \in ids : x <= Max(ids)
  <2> HIDE DEF ids
  <2>1. QED
    BY <1>2, MaxOfBounded
<1>4. own \in [CombatIds -> Owners \cup {None}]
  BY <1>1 DEF Database
<1>5. Persist(pend) = [disk EXCEPT !.owner = own, !.lastCombat = Max(ids)]
  BY <1>1 DEF Persist, Database
<1> HIDE DEF ids, own
<1>6. Persist(pend) \in Database
  BY <1>1, <1>3, <1>4, <1>5 DEF Database
<1>7. /\ Persist(pend).owner = own
      /\ Persist(pend).lastCombat = Max(ids)
  BY <1>1, <1>5 DEF Database
<1>8. disk.lastCombat <= Max(ids) /\ \A c \in CombatIds : pend[c] # None => c <= Max(ids)
  BY <1>3 DEF ids
<1>9. /\ Persist(pend).identity = disk.identity /\ Persist(pend).final = disk.final
      /\ Persist(pend).legacy = disk.legacy /\ Persist(pend).record = disk.record
      /\ Persist(pend).archive = disk.archive /\ Persist(pend).gaps = disk.gaps
      /\ Persist(pend).ambiguous = disk.ambiguous
      /\ Persist(pend).lastRun = disk.lastRun
      /\ Persist(pend).imported = disk.imported
  BY <1>1, <1>5 DEF Database
<1>10. \A c \in CombatIds : own[c] =
         IF pend[c] # None /\ disk.owner[c] = None THEN pend[c] ELSE disk.owner[c]
  BY DEF own
<1>11. QED
  BY <1>6, <1>7, <1>8, <1>9, <1>10

(***************************************************************************)
(* retry_intents changes nothing, or writes every pending intent.          *)
(***************************************************************************)
LEMMA RetriedFacts ==
  ASSUME TypeOK, NEW pend \in [CombatIds -> Owners \cup {None}],
         NEW left \in Retried(pend)
  PROVE  /\ left.disk \in Database
         /\ left.pending \in [CombatIds -> Owners \cup {None}]
         /\ \/ left.disk = disk /\ left.pending = pend
            \/ CanPersist(pend) /\ left.disk = Persist(pend) /\ left.pending = NoPending
<1>1. disk \in Database /\ Persist(pend) \in Database
  BY PersistFacts DEF TypeOK
<1>2. NoPending \in [CombatIds -> Owners \cup {None}]
  BY DEF NoPending
<1>3. \/ left = [disk |-> disk, pending |-> pend]
      \/ CanPersist(pend) /\ left = [disk |-> Persist(pend), pending |-> NoPending]
  BY DEF Retried
<1>4. QED
  BY <1>1, <1>2, <1>3

----------------------------------------------------------------------------
(***************************************************************************)
(* Type correctness.                                                       *)
(***************************************************************************)
LEMMA AllocateRunType ==
  ASSUME NEW db \in Database, NEW i \in Identities, db.lastRun < MaxRun
  PROVE  AllocateRun(db, i) \in Database
<1>1. db.lastRun + 1 \in RunIds /\ db.lastRun + 1 \in 0..MaxRun
  BY StoreConstants DEF Database, RunIds
<1>2. QED
  BY <1>1 DEF AllocateRun, Database

LEMMA UpdateType ==
  ASSUME NEW db \in Database
  PROVE  /\ \A c \in CombatIds, p \in Payloads : [db EXCEPT !.record[c] = p] \in Database
         /\ \A r \in RunIds, o \in Outcomes :
              [db EXCEPT !.final[r] = IF @ = None THEN o ELSE @] \in Database
<1>1. ASSUME NEW c \in CombatIds, NEW p \in Payloads
      PROVE  [db EXCEPT !.record[c] = p] \in Database
  BY DEF Database
<1>2. ASSUME NEW r \in RunIds, NEW o \in Outcomes
      PROVE  [db EXCEPT !.final[r] = IF @ = None THEN o ELSE @] \in Database
  <2> DEFINE v == IF db.final[r] = None THEN o ELSE db.final[r]
  <2>1. v \in Outcomes \cup {None}
    BY DEF Database
  <2>2. [db EXCEPT !.final[r] = IF @ = None THEN o ELSE @] = [db EXCEPT !.final[r] = v]
    OBVIOUS
  <2> HIDE DEF v
  <2>3. QED
    BY <2>1, <2>2 DEF Database
<1>3. QED
  BY <1>1, <1>2

LEMMA RowsFacts ==
  ASSUME TypeOK, NEW r \in RunIds
  PROVE  Rows(r) \subseteq Row /\ IsFiniteSet(Rows(r))
<1>1. disk \in Database /\ disk.archive \in Seq(ArchivedCombat)
  BY DEF TypeOK, Database
<1>2. DOMAIN disk.archive = 1..Len(disk.archive) /\ Len(disk.archive) \in Nat
  BY <1>1
<1> DEFINE A == {m \in DOMAIN disk.archive : disk.archive[m].run = r}
           B == {d \in CombatIds : disk.owner[d] = r}
           RA == {[legacy |-> TRUE,  key |-> n] : n \in A}
           RB == {[legacy |-> FALSE, key |-> c] : c \in B}
<1>3. IsFiniteSet(A)
  <2>1. A \in SUBSET (1..Len(disk.archive)) /\ IsFiniteSet(1..Len(disk.archive))
    BY <1>2, FS_Interval
  <2> HIDE DEF A
  <2>2. QED
    BY <2>1, FS_Subset
<1>4. IsFiniteSet(B)
  <2>1. B \in SUBSET CombatIds /\ IsFiniteSet(CombatIds)
    BY StoreConstants, FS_Interval DEF CombatIds
  <2> HIDE DEF B
  <2>2. QED
    BY <2>1, FS_Subset
<1>5. IsFiniteSet(RA)
  <2> DEFINE f == [n \in A |-> [legacy |-> TRUE, key |-> n]]
  <2> HIDE DEF A
  <2>1. f \in Surjection(A, RA)
    BY DEF Surjection
  <2> HIDE DEF f, RA
  <2>2. QED
    BY <2>1, <1>3, FS_Surjection
<1>6. IsFiniteSet(RB)
  <2> DEFINE f == [n \in B |-> [legacy |-> FALSE, key |-> n]]
  <2> HIDE DEF B
  <2>1. f \in Surjection(B, RB)
    BY DEF Surjection
  <2> HIDE DEF f, RB
  <2>2. QED
    BY <2>1, <1>4, FS_Surjection
<1>7. IsFiniteSet(RA \cup RB)
  <2> HIDE DEF RA, RB
  <2>1. QED
    BY <1>5, <1>6, FS_Union
<1>8. Rows(r) = RA \cup RB
  BY DEF Rows
<1>9. RA \subseteq Row /\ RB \subseteq Row
  <2>1. A \subseteq Nat
    BY <1>2
  <2>2. B \subseteq Nat
    BY StoreConstants DEF CombatIds
  <2> HIDE DEF A, B
  <2>3. \A n \in Nat, l \in BOOLEAN : [legacy |-> l, key |-> n] \in Row
    BY DEF Row
  <2>4. QED
    BY <2>1, <2>2, <2>3
<1>10. QED
  BY <1>7, <1>8, <1>9

LEMMA TypeInit == Init => TypeOK
<1> SUFFICES ASSUME Init PROVE TypeOK
  OBVIOUS
<1>1. EmptyDatabase \in Database
  BY StoreConstants DEF EmptyDatabase, Database
<1>2. NoPending \in [CombatIds -> Owners \cup {None}]
  BY DEF NoPending
<1>3. QED
  BY <1>1, <1>2 DEF Init, TypeOK

(***************************************************************************)
(* Every request that is neither a page nor part of an import.             *)
(***************************************************************************)
LEMMA TypeRecording == TypeOK /\ Recording => TypeOK'
<1> SUFFICES ASSUME TypeOK, Recording PROVE TypeOK'
  OBVIOUS
<1> USE DEF TypeOK
<1>1. ASSUME NEW i \in Identities, NEW continued \in BOOLEAN, OpenRun(i, continued)
      PROVE  TypeOK'
  <2>1. disk' = disk \/ (disk.lastRun < MaxRun /\ disk' = AllocateRun(disk, i))
    BY <1>1 DEF OpenRun
  <2>2. disk' \in Database
    BY <2>1, AllocateRunType
  <2>3. QED
    BY <1>1, <2>2 DEF OpenRun
<1>2. ASSUME NEW c \in CombatIds, NEW r \in Owners, NEW i \in Identities,
             NEW p \in Payloads, SaveCombat(c, r, i, p)
      PROVE  TypeOK'
  <2> DEFINE pend == [pending EXCEPT ![c] = r]
  <2>1. pend \in [CombatIds -> Owners \cup {None}]
    OBVIOUS
  <2>2. PICK left \in Retried(pend) :
          /\ pending' = left.pending
          /\ disk' = left.disk \/ disk' = [left.disk EXCEPT !.record[c] = p]
    BY <1>2 DEF SaveCombat
  <2> HIDE DEF pend
  <2>3. left.disk \in Database /\ left.pending \in [CombatIds -> Owners \cup {None}]
    BY <2>1, RetriedFacts
  <2>4. disk' \in Database
    BY <2>2, <2>3, UpdateType
  <2>5. claimed' \in [CombatIds -> Owners \cup {None}]
    BY <1>2 DEF SaveCombat
  <2>6. import' = None /\ read' = None /\ report' = None
    BY <1>2 DEF SaveCombat, Idle
  <2>7. QED
    BY <2>2, <2>3, <2>4, <2>5, <2>6
<1>3. ASSUME NEW c \in CombatIds, NEW r \in Owners, NEW i \in Identities,
             RefuseCombat(c, r, i)
      PROVE  TypeOK'
  BY <1>3 DEF RefuseCombat
<1>4. ASSUME NEW r \in RunIds, NEW i \in Identities, NEW o \in Outcomes, SaveRun(r, i, o)
      PROVE  TypeOK'
  <2>1. PICK left \in Retried(pending) :
          /\ pending' = left.pending
          /\ \/ disk' = left.disk
             \/ disk' = [left.disk EXCEPT !.final[r] = IF @ = None THEN o ELSE @]
    BY <1>4 DEF SaveRun, Finalized
  <2>2. left.disk \in Database /\ left.pending \in [CombatIds -> Owners \cup {None}]
    BY RetriedFacts
  <2>3. disk' \in Database
    BY <2>1, <2>2, UpdateType
  <2>4. import' = None /\ read' = None /\ report' = None /\ claimed' = claimed
    BY <1>4 DEF SaveRun, Idle
  <2>5. QED
    BY <2>1, <2>2, <2>3, <2>4
<1>5. ASSUME NEW r \in RunIds, NEW i \in Identities, RefuseRun(r, i)
      PROVE  TypeOK'
  BY <1>5 DEF RefuseRun
<1>6. QED
  BY <1>1, <1>2, <1>3, <1>4, <1>5 DEF Recording

LEMMA TypeReading == TypeOK /\ Reading => TypeOK'
<1> SUFFICES ASSUME TypeOK, Reading PROVE TypeOK'
  OBVIOUS
<1>1. ASSUME NEW r \in RunIds, NEW history \in BOOLEAN, ReadBegin(r, history)
      PROVE  TypeOK'
  <2> DEFINE reasons == {g \in Gaps : <<r, g>> \in disk.gaps} \cup PendingReasons(r)
             final   == history /\ disk.final[r] # None
  <2>1. reasons \in SUBSET ReadReasons
    BY DEF PendingReasons, ReadReasons
  <2>2. final \in BOOLEAN
    OBVIOUS
  <2> HIDE DEF reasons, final
  <2>3. read' = [run |-> r, finalized |-> final, cursor |-> None, valid |-> 0,
                 reasons |-> reasons, delivered |-> {}]
    BY <1>1 DEF ReadBegin, reasons, final
  <2>4. read' \in ReadSession
    BY <2>1, <2>2, <2>3 DEF ReadSession
  <2>5. QED
    BY <1>1, <2>4 DEF ReadBegin, Idle, TypeOK
<1>2. ASSUME read # None, NEW page \in SUBSET Remaining, ReadPage(page)
      PROVE  TypeOK'
  <2> DEFINE found   == {row \in page : Readable(row)}
             valid   == read.valid + Cardinality(found)
             done    == Remaining \ page = {}
             reasons == read.reasons \cup (UNION {RowReasons(row) : row \in page})
                          \cup (IF done /\ read.finalized /\ valid = 0
                               THEN {"statistics-record-missing"} ELSE {})
  <2>1. read \in ReadSession
    BY <1>2 DEF TypeOK
  <2>2. page \subseteq Row /\ IsFiniteSet(page)
    <3>1. read.run \in RunIds /\ page \in SUBSET Rows(read.run)
      BY <2>1 DEF ReadSession, Remaining
    <3>2. QED
      BY <3>1, RowsFacts, FS_Subset
  <2>3. found \in SUBSET page
    OBVIOUS
  <2>4. Cardinality(found) \in Nat
    <3> HIDE DEF found
    <3>1. QED
      BY <2>2, <2>3, FS_Subset, FS_CardinalityType
  <2>5. valid \in Nat
    <3> HIDE DEF found
    <3>1. QED
      BY <2>1, <2>4 DEF ReadSession
  <2>6. reasons \in SUBSET ReadReasons
    <3>1. read.reasons \in SUBSET ReadReasons
      BY <2>1 DEF ReadSession
    <3>2. \A row \in page : RowReasons(row) \subseteq ReadReasons
      BY DEF RowReasons, ReadReasons
    <3>3. "statistics-record-missing" \in ReadReasons
      BY DEF ReadReasons
    <3> HIDE DEF valid, done
    <3>4. QED
      BY <3>1, <3>2, <3>3
  <2>7. read.delivered \cup found \in SUBSET Row
    BY <2>1, <2>2, <2>3 DEF ReadSession
  <2> HIDE DEF found, valid, reasons
  <2>8. CASE done
    <3>1. read' = None
      BY <1>2, <2>8 DEF ReadPage
    <3>2. report' = [run |-> read.run, valid |-> valid, reasons |-> reasons,
                     delivered |-> read.delivered \cup found]
      BY <1>2, <2>8 DEF ReadPage, found, valid, reasons
    <3>3. report' \in Report
      BY <2>1, <2>5, <2>6, <2>7, <3>2 DEF Report, ReadSession
    <3>4. import' = None /\ UNCHANGED <<disk, pending, claimed>>
      BY <1>2 DEF ReadPage
    <3>5. QED
      BY <3>1, <3>3, <3>4 DEF TypeOK
  <2>9. CASE ~done
    <3>1. PICK last \in page :
            read' = [read EXCEPT !.cursor = last, !.valid = valid, !.reasons = reasons,
                                 !.delivered = @ \cup found]
      BY <1>2, <2>9 DEF ReadPage, found, valid, reasons
    <3>2. read' \in ReadSession
      BY <2>1, <2>2, <2>5, <2>6, <2>7, <3>1 DEF ReadSession
    <3>3. report' = None
      BY <1>2, <2>9 DEF ReadPage
    <3>4. import' = None /\ UNCHANGED <<disk, pending, claimed>>
      BY <1>2 DEF ReadPage
    <3>5. QED
      BY <3>2, <3>3, <3>4 DEF TypeOK
  <2>10. QED
    BY <2>8, <2>9
<1>3. ASSUME ReadEnd PROVE TypeOK'
  BY <1>3 DEF ReadEnd, TypeOK
<1>4. QED
  BY <1>1, <1>2, <1>3 DEF Reading, NextPage

LEMMA LargerBounds ==
  ASSUME NEW m \in Int, NEW n \in Int
  PROVE  /\ Larger(m, n) \in {m, n}
         /\ m <= Larger(m, n) /\ n <= Larger(m, n)
BY DEF Larger

LEMMA TypeImporting == TypeOK /\ Importing => TypeOK'
<1> SUFFICES ASSUME TypeOK, Importing PROVE TypeOK'
  OBVIOUS
<1>1. ASSUME NEW m \in 0..MaxRun, NEW n \in 0..MaxCombat, ImportBegin(m, n)
      PROVE  TypeOK'
  <2> DEFINE db      == [disk EXCEPT !.lastRun = Larger(@, m), !.lastCombat = Larger(@, n)]
             sources == [k \in SourceKeys |-> None]
  <2>1. disk \in Database
    BY DEF TypeOK
  <2>2. Larger(disk.lastRun, m) \in 0..MaxRun /\ Larger(disk.lastCombat, n) \in 0..MaxCombat
    BY <2>1, StoreConstants DEF Larger, Database
  <2>3. db \in Database
    BY <2>1, <2>2 DEF Database
  <2>4. sources \in [SourceKeys -> [run : RunIds, identity : Identities] \cup {None}]
    OBVIOUS
  <2> HIDE DEF db, sources
  <2>5. import' = [db |-> db, maxRun |-> m, maxCombat |-> n, sources |-> sources]
    BY <1>1 DEF ImportBegin, db, sources
  <2>6. import' \in ImportSession
    BY <2>3, <2>4, <2>5 DEF ImportSession
  <2>7. read' = None /\ report' = None /\ UNCHANGED <<disk, pending, claimed>>
    BY <1>1 DEF ImportBegin, Idle
  <2>8. QED
    BY <2>6, <2>7 DEF TypeOK
<1>2. ASSUME NEW k \in SourceKeys, NEW i \in Identities, NEW n \in 0..MaxRun,
             NEW o \in Outcomes \cup {None}, NEW reasons \in SUBSET Gaps,
             ImportRun(k, n, i, o, reasons)
      PROVE  TypeOK'
  <2> DEFINE id == ImportId(n)
  <2>1. import \in ImportSession /\ import.db \in Database
    BY <1>2 DEF TypeOK, ImportRun, ImportSession
  <2>2. id \in RunIds
    <3>1. import.db.lastRun \in Nat
      BY <2>1, StoreConstants DEF Database
    <3>2. (n # 0 /\ id = n) \/ id = import.db.lastRun + 1
      BY DEF ImportId
    <3>3. id <= MaxRun
      BY <1>2 DEF ImportRun
    <3> HIDE DEF id
    <3>4. QED
      BY <3>1, <3>2, <3>3, StoreConstants DEF RunIds
  <2> HIDE DEF id
  <2> DEFINE last == Larger(import.db.lastRun, id)
             gaps == import.db.gaps \cup ({id} \X reasons)
             db   == [import.db EXCEPT !.lastRun = last, !.identity[id] = i,
                        !.final[id] = o, !.legacy = @ \cup {id}, !.gaps = gaps]
  <2>3. last \in 0..MaxRun
    BY <2>1, <2>2, StoreConstants DEF Larger, Database, RunIds
  <2>4. gaps \in SUBSET (RunIds \X Gaps)
    BY <2>1, <2>2 DEF Database
  <2>5. import' = [import EXCEPT !.db = db,
                                 !.sources[k] = [run |-> id, identity |-> i]]
    <3>1. import' = [import EXCEPT !.db.lastRun      = Larger(@, id),
                                   !.db.identity[id] = i,
                                   !.db.final[id]    = o,
                                   !.db.legacy       = @ \cup {id},
                                   !.db.gaps         = @ \cup ({id} \X reasons),
                                   !.sources[k]      = [run |-> id, identity |-> i]]
      BY <1>2 DEF ImportRun, id
    <3>2. QED
      BY <2>1, <3>1, ZenonT(40) DEF ImportSession, Database
  <2> HIDE DEF last, gaps
  <2>6. db \in Database
    <3>1. /\ [import.db.identity EXCEPT ![id] = i] \in [RunIds -> Identities \cup {None}]
          /\ [import.db.final EXCEPT ![id] = o] \in [RunIds -> Outcomes \cup {None}]
          /\ import.db.legacy \cup {id} \in SUBSET RunIds
      BY <2>1, <2>2 DEF Database
    <3>2. QED
      BY <2>1, <2>3, <2>4, <3>1 DEF Database
  <2> HIDE DEF db
  <2>7. import' \in ImportSession
    BY <2>1, <2>2, <2>5, <2>6 DEF ImportSession
  <2>8. read' = None /\ report' = None /\ UNCHANGED <<disk, pending, claimed>>
    BY <1>2 DEF ImportRun
  <2>9. QED
    BY <2>7, <2>8 DEF TypeOK
<1>3. ASSUME NEW k \in SourceKeys, NEW i \in Identities, NEW n \in CombatIds,
             NEW p \in Payloads, ImportRecord(k, i, n, p)
      PROVE  TypeOK'
  <2>1. import \in ImportSession /\ import.db \in Database
    BY <1>3 DEF TypeOK, ImportRecord, ImportSession
  <2> DEFINE row     == [run |-> import.sources[k].run, record |-> p]
             archive == Append(import.db.archive, row)
             db      == [import.db EXCEPT !.archive = archive]
  <2>2. row \in ArchivedCombat
    BY <1>3, <2>1 DEF ImportRecord, ImportSession, ArchivedCombat
  <2>3. archive \in Seq(ArchivedCombat)
    BY <2>1, <2>2 DEF Database
  <2>4. import' = [import EXCEPT !.db = db]
    BY <1>3, <2>1 DEF ImportRecord, ImportSession, Database
  <2> HIDE DEF row, archive
  <2>5. db \in Database
    BY <2>1, <2>3 DEF Database
  <2> HIDE DEF db
  <2>6. import' \in ImportSession
    BY <2>1, <2>4, <2>5 DEF ImportSession
  <2>7. read' = None /\ report' = None /\ UNCHANGED <<disk, pending, claimed>>
    BY <1>3 DEF ImportRecord
  <2>8. QED
    BY <2>6, <2>7 DEF TypeOK
<1>4. ASSUME NEW i \in Identities, ImportAmbiguous(i)
      PROVE  TypeOK'
  <2>1. import \in ImportSession /\ import.db \in Database
    BY <1>4 DEF TypeOK, ImportAmbiguous, ImportSession
  <2> DEFINE ambiguous == import.db.ambiguous \cup {i}
             db        == [import.db EXCEPT !.ambiguous = ambiguous]
  <2>2. import' = [import EXCEPT !.db = db]
    BY <1>4, <2>1 DEF ImportAmbiguous, ImportSession, Database
  <2>3. ambiguous \in SUBSET Identities
    BY <2>1 DEF Database
  <2> HIDE DEF ambiguous
  <2>4. db \in Database
    BY <2>1, <2>3 DEF Database
  <2> HIDE DEF db
  <2>5. import' \in ImportSession
    BY <2>1, <2>2, <2>4 DEF ImportSession
  <2>6. read' = None /\ report' = None /\ UNCHANGED <<disk, pending, claimed>>
    BY <1>4 DEF ImportAmbiguous
  <2>7. QED
    BY <2>5, <2>6 DEF TypeOK
<1>5. ASSUME NEW reasons \in SUBSET Gaps, ImportEnd(reasons)
      PROVE  TypeOK'
  <2>1. import.db \in Database
    BY <1>5 DEF TypeOK, ImportEnd, ImportSession
  <2> DEFINE gaps == import.db.gaps \cup (import.db.legacy \X reasons)
  <2>2. gaps \in SUBSET (RunIds \X Gaps)
    BY <2>1 DEF Database
  <2>3. disk' = [import.db EXCEPT !.gaps = gaps, !.imported = TRUE]
    BY <1>5, <2>1 DEF ImportEnd, ImportCommit, Database
  <2> HIDE DEF gaps
  <2>4. disk' \in Database
    BY <2>1, <2>2, <2>3 DEF Database
  <2>5. import' = None /\ read' = None /\ report' = None /\ UNCHANGED <<pending, claimed>>
    BY <1>5 DEF ImportEnd
  <2>6. QED
    BY <2>4, <2>5 DEF TypeOK
<1>6. QED
  BY <1>1, <1>2, <1>3, <1>4, <1>5 DEF Importing

LEMMA TypeNext == TypeOK /\ [Next]_vars => TypeOK'
<1> SUFFICES ASSUME TypeOK, [Next]_vars PROVE TypeOK'
  OBVIOUS
<1>1. CASE DropSession
  BY <1>1 DEF DropSession, TypeOK
<1>2. CASE Restart
  <2>1. NoPending \in [CombatIds -> Owners \cup {None}]
    BY DEF NoPending
  <2>2. claimed' \in [CombatIds -> Owners \cup {None}]
    BY <1>2 DEF Restart, TypeOK, Database
  <2>3. QED
    BY <1>2, <2>1, <2>2 DEF Restart, TypeOK
<1>3. CASE UNCHANGED vars
  BY <1>3 DEF vars, TypeOK
<1>4. QED
  BY <1>1, <1>2, <1>3, TypeRecording, TypeReading, TypeImporting DEF Next

(***************************************************************************)
(* The store's state keeps its type: the database and an import's copy of  *)
(* it are well formed, whichever of their transactions fail, and at most   *)
(* one session is open.                                                    *)
(***************************************************************************)
THEOREM TypeCorrect == Spec => []TypeOK
<1>1. QED
  BY TypeInit, TypeNext, PTL DEF Spec

----------------------------------------------------------------------------
(***************************************************************************)
(* Safety.  The five invariants are proved together: a lost intent can be  *)
(* written because saving checked it against the rows (RowsConsistent), a  *)
(* claimed combat is never lost because its intent can be written, and an  *)
(* import can replace the database because it began with it.               *)
(***************************************************************************)
Safety ==
  /\ IdsReserved
  /\ PendingPersistable
  /\ NoSilentLoss
  /\ RowsConsistent
  /\ ImportExtendsDisk

\* What retry_intents needs of the intents it is about to write.
Writable(pend) ==
  \A c \in CombatIds : pend[c] # None =>
    /\ disk.owner[c] \in {None, pend[c]}
    /\ disk.record[c] = None
    /\ pend[c] # 0 => disk.identity[pend[c]] # None

(***************************************************************************)
(* retry_intents only adds rows, each for a run that exists, and leaves no *)
(* intent behind that it neither keeps nor writes.                         *)
(***************************************************************************)
LEMMA RetriedKeeps ==
  ASSUME TypeOK, NEW pend \in [CombatIds -> Owners \cup {None}], Writable(pend),
         NEW left \in Retried(pend)
  PROVE  /\ left.disk.identity = disk.identity /\ left.disk.final = disk.final
         /\ left.disk.legacy = disk.legacy /\ left.disk.record = disk.record
         /\ left.disk.archive = disk.archive /\ left.disk.ambiguous = disk.ambiguous
         /\ left.disk.lastRun = disk.lastRun /\ left.disk.imported = disk.imported
         /\ disk.lastCombat <= left.disk.lastCombat
         /\ \A d \in CombatIds :
              /\ disk.owner[d] # None => left.disk.owner[d] = disk.owner[d]
              /\ \/ left.disk.owner[d] = disk.owner[d]
                 \/ left.disk.owner[d] = pend[d] /\ pend[d] # None /\ d <= left.disk.lastCombat
              /\ left.pending[d] \in {None, pend[d]}
              /\ pend[d] # None => left.pending[d] = pend[d] \/ left.disk.owner[d] = pend[d]
<1>1. \/ left.disk = disk /\ left.pending = pend
      \/ left.disk = Persist(pend) /\ left.pending = NoPending
  BY RetriedFacts
<1>2. disk \in Database
  BY DEF TypeOK
<1>3. CASE left.disk = disk /\ left.pending = pend
  <2>1. disk.lastCombat \in Int
    BY <1>2, StoreConstants DEF Database
  <2>2. QED
    BY <1>3, <2>1
<1>4. CASE left.disk = Persist(pend) /\ left.pending = NoPending
  <2>1. \A d \in CombatIds : left.pending[d] = None
    BY <1>4 DEF NoPending
  <2>2. \A d \in CombatIds : pend[d] # None => disk.owner[d] \in {None, pend[d]}
    BY DEF Writable
  <2>3. \A d \in CombatIds : left.disk.owner[d] =
          IF pend[d] # None /\ disk.owner[d] = None THEN pend[d] ELSE disk.owner[d]
    BY <1>4, PersistFacts
  <2>4. /\ left.disk.identity = disk.identity /\ left.disk.final = disk.final
        /\ left.disk.legacy = disk.legacy /\ left.disk.record = disk.record
        /\ left.disk.archive = disk.archive /\ left.disk.ambiguous = disk.ambiguous
        /\ left.disk.lastRun = disk.lastRun /\ left.disk.imported = disk.imported
        /\ disk.lastCombat <= left.disk.lastCombat
        /\ \A d \in CombatIds : pend[d] # None => d <= left.disk.lastCombat
    BY <1>4, PersistFacts
  <2>5. QED
    BY <2>1, <2>2, <2>3, <2>4
<1>5. QED
  BY <1>1, <1>3, <1>4

LEMMA SafetyInit == Init => Safety
<1> SUFFICES ASSUME Init PROVE Safety
  OBVIOUS
<1>1. /\ \A r \in RunIds : disk.identity[r] = None /\ disk.final[r] = None
      /\ \A c \in CombatIds : disk.owner[c] = None /\ disk.record[c] = None
      /\ \A c \in CombatIds : pending[c] = None /\ claimed[c] = None
      /\ disk.archive = << >> /\ disk.legacy = {} /\ disk.ambiguous = {}
      /\ import = None
  BY DEF Init, EmptyDatabase, NoPending
<1>2. None \notin RunIds
  BY StoreConstants DEF Owners, RunIds
<1>3. QED
  BY <1>1, <1>2 DEF Safety, IdsReserved, WithinLastIds, PendingPersistable, NoSilentLoss,
     RowsConsistent, RowsAgree, ImportExtendsDisk

LEMMA SafetyOpenRun ==
  ASSUME TypeOK, Safety, NEW i \in Identities, NEW continued \in BOOLEAN,
         OpenRun(i, continued)
  PROVE  Safety'
<1>1. import' = None /\ UNCHANGED <<pending, claimed>>
  BY DEF OpenRun, Idle
<1>2. CASE disk' = disk
  BY <1>1, <1>2 DEF Safety, IdsReserved, WithinLastIds, PendingPersistable, NoSilentLoss,
     RowsConsistent, RowsAgree, ImportExtendsDisk, HasCombats
<1>3. CASE disk.lastRun < MaxRun /\ disk' = AllocateRun(disk, i)
  <2> DEFINE id == disk.lastRun + 1
  <2>1. disk \in Database /\ id \in RunIds /\ i # None
    BY <1>3, StoreConstants DEF TypeOK, Database, RunIds
  <2>2. /\ disk'.final = disk.final /\ disk'.legacy = disk.legacy
        /\ disk'.owner = disk.owner /\ disk'.record = disk.record
        /\ disk'.archive = disk.archive /\ disk'.ambiguous = disk.ambiguous
        /\ disk'.lastCombat = disk.lastCombat /\ disk'.imported = disk.imported
    BY <1>3, <2>1 DEF AllocateRun, Database
  <2>3. disk'.lastRun = disk.lastRun + 1
    BY <1>3, <2>1 DEF AllocateRun, Database
  <2>4. \A r \in RunIds : disk'.identity[r] = IF r = id THEN i ELSE disk.identity[r]
    BY <1>3, <2>1 DEF AllocateRun, Database
  <2>5. disk.lastRun \in Nat /\ RunIds \subseteq Nat
    BY <2>1, StoreConstants DEF Database, RunIds
  <2>6. IdsReserved'
    BY <1>1, <2>1, <2>2, <2>3, <2>4, <2>5 DEF Safety, IdsReserved, WithinLastIds
  <2>7. PendingPersistable' /\ NoSilentLoss'
    BY <1>1, <2>1, <2>2, <2>4 DEF Safety, PendingPersistable, NoSilentLoss, TypeOK, Owners, RunIds
  <2>8. RowsConsistent'
    BY <1>1, <2>1, <2>2, <2>4 DEF Safety, RowsConsistent, RowsAgree, HasCombats
  <2>9. QED
    BY <1>1, <2>6, <2>7, <2>8 DEF Safety, ImportExtendsDisk
<1>4. QED
  BY <1>2, <1>3 DEF OpenRun

(***************************************************************************)
(* A combat that may be saved has an intent that can be written.           *)
(***************************************************************************)
LEMMA AllowedIsWritable ==
  ASSUME TypeOK, Safety, NEW c \in CombatIds, NEW r \in Owners, NEW i \in Identities,
         SaveAllowed(c, r, i)
  PROVE  Writable([pending EXCEPT ![c] = r])
<1> DEFINE pend == [pending EXCEPT ![c] = r]
<1>1. pend[c] = r /\ \A d \in CombatIds : d # c => pend[d] = pending[d]
  BY DEF TypeOK
<1>2. i # None /\ None \notin Owners
  BY StoreConstants
<1>3. disk.owner[c] \in {None, r} /\ disk.record[c] = None /\ (r # 0 => disk.identity[r] # None)
  BY <1>2 DEF SaveAllowed, Safety, RowsConsistent, RowsAgree
<1> HIDE DEF pend
<1>4. Writable(pend)
  BY <1>1, <1>3 DEF Writable, Safety, PendingPersistable
<1>5. QED
  BY <1>4 DEF pend

(***************************************************************************)
(* The invariants that any request of the recording side keeps because it  *)
(* only adds rows for runs that exist.                                     *)
(***************************************************************************)
LEMMA SafetyRetried ==
  ASSUME TypeOK, Safety, NEW pend \in [CombatIds -> Owners \cup {None}], Writable(pend),
         NEW left \in Retried(pend)
  PROVE  WithinLastIds(left.disk) /\ RowsAgree(left.disk)
<1>1. disk \in Database /\ left.disk \in Database
  BY RetriedFacts DEF TypeOK
<1> DEFINE db == left.disk
<1>2. /\ db.identity = disk.identity /\ db.final = disk.final
      /\ db.legacy = disk.legacy /\ db.record = disk.record
      /\ db.archive = disk.archive /\ db.lastRun = disk.lastRun
      /\ disk.lastCombat <= db.lastCombat
      /\ \A d \in CombatIds :
           /\ disk.owner[d] # None => db.owner[d] = disk.owner[d]
           /\ \/ db.owner[d] = disk.owner[d]
              \/ db.owner[d] = pend[d] /\ pend[d] # None /\ d <= db.lastCombat
  BY RetriedKeeps
<1> HIDE DEF db
<1>3. WithinLastIds(db)
  <2>1. db.lastCombat \in Nat /\ disk.lastCombat \in Nat /\ CombatIds \subseteq Nat
    BY <1>1, StoreConstants DEF Database, CombatIds, db
  <2>2. WithinLastIds(disk)
    BY DEF Safety, IdsReserved
  <2>3. \A d \in CombatIds : db.owner[d] # None => d <= db.lastCombat
    BY <1>2, <2>1, <2>2 DEF WithinLastIds
  <2>4. QED
    BY <1>2, <2>2, <2>3 DEF WithinLastIds
<1>4. RowsAgree(db)
  <2>1. RowsAgree(disk)
    BY DEF Safety, RowsConsistent
  <2>2. 0 \notin RunIds
    BY StoreConstants DEF RunIds
  <2>3. \A d \in CombatIds : db.owner[d] \in RunIds => db.identity[db.owner[d]] # None
    BY <1>2, <2>1, <2>2 DEF RowsAgree, Writable
  <2>4. \A r \in RunIds : HasCombats(disk, r) => HasCombats(db, r)
    <3>1. None \notin RunIds
      BY StoreConstants DEF Owners, RunIds
    <3>2. QED
      BY <1>2, <3>1 DEF HasCombats
  <2>5. QED
    BY <1>2, <2>1, <2>3, <2>4 DEF RowsAgree
<1>5. QED
  BY <1>3, <1>4 DEF db

LEMMA SafetySaveCombat ==
  ASSUME TypeOK, Safety, NEW c \in CombatIds, NEW r \in Owners, NEW i \in Identities,
         NEW p \in Payloads, SaveCombat(c, r, i, p)
  PROVE  Safety'
<1> DEFINE pend == [pending EXCEPT ![c] = r]
<1>1. pend \in [CombatIds -> Owners \cup {None}] /\ Writable(pend)
  BY AllowedIsWritable DEF SaveCombat, TypeOK
<1>2. pend[c] = r /\ r # None /\ \A d \in CombatIds : d # c => pend[d] = pending[d]
  BY StoreConstants DEF TypeOK
<1>3. PICK left \in Retried(pend) :
        /\ pending' = left.pending
        /\ \/ disk' = left.disk
           \/ left.pending[c] = None /\ disk' = [left.disk EXCEPT !.record[c] = p]
  BY DEF SaveCombat
<1>4. import' = None /\ claimed' = [claimed EXCEPT ![c] = r]
  BY DEF SaveCombat, Idle
<1> HIDE DEF pend
<1> DEFINE db == left.disk
<1>5. db \in Database /\ left.pending \in [CombatIds -> Owners \cup {None}]
  BY <1>1, RetriedFacts
<1>6. /\ db.identity = disk.identity /\ db.record = disk.record
      /\ db.archive = disk.archive /\ db.legacy = disk.legacy
      /\ db.ambiguous = disk.ambiguous /\ db.imported = disk.imported
      /\ \A d \in CombatIds :
           /\ disk.owner[d] # None => db.owner[d] = disk.owner[d]
           /\ db.owner[d] \in {disk.owner[d], pend[d]}
           /\ left.pending[d] \in {None, pend[d]}
           /\ pend[d] # None => left.pending[d] = pend[d] \/ db.owner[d] = pend[d]
  BY <1>1, RetriedKeeps
<1>7. WithinLastIds(db) /\ RowsAgree(db)
  BY <1>1, SafetyRetried
<1> HIDE DEF db
<1>8. /\ disk'.identity = db.identity /\ disk'.final = db.final /\ disk'.owner = db.owner
      /\ disk'.archive = db.archive /\ disk'.legacy = db.legacy
      /\ disk'.ambiguous = db.ambiguous /\ disk'.imported = db.imported
      /\ disk'.lastRun = db.lastRun /\ disk'.lastCombat = db.lastCombat
      /\ \A d \in CombatIds : disk'.record[d] = db.record[d] \/ (d = c /\ left.pending[c] = None)
  BY <1>3, <1>5 DEF db, Database
<1>9. IdsReserved'
  BY <1>4, <1>7, <1>8 DEF IdsReserved, WithinLastIds
<1>10. PendingPersistable'
  <2>1. \A d \in CombatIds : left.pending[d] # None =>
          /\ db.owner[d] \in {None, left.pending[d]}
          /\ disk'.record[d] = None
          /\ left.pending[d] # 0 => db.identity[left.pending[d]] # None
    BY <1>1, <1>6, <1>8 DEF Writable
  <2>2. QED
    BY <1>3, <1>8, <2>1 DEF PendingPersistable
<1>11. NoSilentLoss'
  <2>1. \A d \in CombatIds : claimed'[d] # None =>
          db.owner[d] = claimed'[d] \/ left.pending[d] = claimed'[d]
    <3>1. SUFFICES ASSUME NEW d \in CombatIds, claimed'[d] # None
                   PROVE  db.owner[d] = claimed'[d] \/ left.pending[d] = claimed'[d]
      OBVIOUS
    <3>2. CASE d = c
      BY <1>2, <1>4, <1>6, <3>2 DEF TypeOK
    <3>3. CASE d # c
      <4>1. claimed'[d] = claimed[d] /\ pend[d] = pending[d]
        BY <1>2, <1>4, <3>3 DEF TypeOK
      <4>2. QED
        BY <1>6, <3>1, <4>1 DEF Safety, NoSilentLoss
    <3>4. QED
      BY <3>2, <3>3
  <2>2. QED
    BY <1>3, <1>8, <2>1 DEF NoSilentLoss
<1>12. RowsConsistent'
  <2>1. \A d \in CombatIds : disk'.record[d] # None => db.owner[d] # None
    BY <1>2, <1>6, <1>7, <1>8 DEF RowsAgree
  <2>2. RowsAgree(disk')
    BY <1>7, <1>8, <2>1 DEF RowsAgree, HasCombats
  <2>3. QED
    BY <1>4, <1>6, <1>8, <2>2 DEF RowsConsistent, Safety
<1>13. QED
  BY <1>4, <1>9, <1>10, <1>11, <1>12 DEF Safety, ImportExtendsDisk

LEMMA SafetySaveRun ==
  ASSUME TypeOK, Safety, NEW r \in RunIds, NEW i \in Identities, NEW o \in Outcomes,
         SaveRun(r, i, o)
  PROVE  Safety'
<1>1. pending \in [CombatIds -> Owners \cup {None}] /\ Writable(pending)
  BY DEF TypeOK, Safety, PendingPersistable, Writable
<1>2. PICK left \in Retried(pending) :
        /\ pending' = left.pending
        /\ \/ disk' = left.disk
           \/ /\ HasCombats(left.disk, r)
              /\ disk' = [left.disk EXCEPT !.final[r] = IF @ = None THEN o ELSE @]
  BY DEF SaveRun, Finalized
<1>3. import' = None /\ claimed' = claimed /\ disk.identity[r] = i /\ i # None
  BY StoreConstants DEF SaveRun, Idle
<1> DEFINE db == left.disk
<1>4. db \in Database /\ left.pending \in [CombatIds -> Owners \cup {None}]
  BY <1>1, RetriedFacts
<1>5. /\ db.identity = disk.identity /\ db.record = disk.record
      /\ db.archive = disk.archive /\ db.legacy = disk.legacy
      /\ db.ambiguous = disk.ambiguous /\ db.imported = disk.imported
      /\ \A d \in CombatIds :
           /\ disk.owner[d] # None => db.owner[d] = disk.owner[d]
           /\ db.owner[d] \in {disk.owner[d], pending[d]}
           /\ left.pending[d] \in {None, pending[d]}
           /\ pending[d] # None => left.pending[d] = pending[d] \/ db.owner[d] = pending[d]
  BY <1>1, RetriedKeeps
<1>6. WithinLastIds(db) /\ RowsAgree(db)
  BY <1>1, SafetyRetried
<1> HIDE DEF db
<1>7. /\ disk'.identity = db.identity /\ disk'.record = db.record /\ disk'.owner = db.owner
      /\ disk'.archive = db.archive /\ disk'.legacy = db.legacy
      /\ disk'.ambiguous = db.ambiguous /\ disk'.imported = db.imported
      /\ disk'.lastRun = db.lastRun /\ disk'.lastCombat = db.lastCombat
  BY <1>2, <1>4 DEF db, Database
<1>8. \A s \in RunIds : disk'.final[s] = db.final[s] \/ (s = r /\ HasCombats(db, r))
  BY <1>2, <1>4 DEF db, Database
<1>9. IdsReserved'
  BY <1>3, <1>6, <1>7 DEF IdsReserved, WithinLastIds
<1>10. PendingPersistable'
  <2>1. \A d \in CombatIds : left.pending[d] # None =>
          /\ db.owner[d] \in {None, left.pending[d]}
          /\ db.record[d] = None
          /\ left.pending[d] # 0 => db.identity[left.pending[d]] # None
    BY <1>1, <1>5 DEF Writable
  <2>2. QED
    BY <1>2, <1>7, <2>1 DEF PendingPersistable
<1>11. NoSilentLoss'
  <2>1. \A d \in CombatIds : claimed[d] # None =>
          db.owner[d] = claimed[d] \/ left.pending[d] = claimed[d]
    BY <1>5 DEF Safety, NoSilentLoss
  <2>2. QED
    BY <1>2, <1>3, <1>7, <2>1 DEF NoSilentLoss
<1>12. RowsConsistent'
  <2>1. RowsAgree(disk')
    BY <1>3, <1>5, <1>6, <1>7, <1>8 DEF RowsAgree, HasCombats
  <2>2. QED
    BY <1>3, <1>5, <1>7, <2>1 DEF RowsConsistent, Safety
<1>13. QED
  BY <1>3, <1>9, <1>10, <1>11, <1>12 DEF Safety, ImportExtendsDisk

\* A step that leaves the database and the intents alone, and may close an import.
LEMMA SafetyUnchanged ==
  ASSUME Safety, UNCHANGED <<disk, pending, claimed>>, import' \in {import, None}
  PROVE  Safety'
<1>1. IdsReserved' /\ PendingPersistable' /\ NoSilentLoss'
  BY DEF Safety, IdsReserved, WithinLastIds, PendingPersistable, NoSilentLoss
<1>2. RowsConsistent' /\ ImportExtendsDisk'
  BY DEF Safety, RowsConsistent, RowsAgree, ImportExtendsDisk, HasCombats
<1>3. QED
  BY <1>1, <1>2 DEF Safety

\* A restart forgets the intents, and with them the claims they stood for.
LEMMA SafetyRestart ==
  ASSUME TypeOK, Safety, Restart
  PROVE  Safety'
<1>1. import' = None /\ disk' = disk /\ claimed' = disk.owner
  BY DEF Restart
<1>2. \A c \in CombatIds : pending'[c] = None
  BY DEF Restart, NoPending
<1>3. QED
  BY <1>1, <1>2 DEF Safety, IdsReserved, WithinLastIds, PendingPersistable, NoSilentLoss,
     RowsConsistent, RowsAgree, ImportExtendsDisk, HasCombats

(***************************************************************************)
(* An import works on a copy: until it ends, nothing on disk changes, and  *)
(* the copy differs from disk only where ImportExtendsDisk allows.         *)
(***************************************************************************)
ImportSafety ==
  import # None =>
    /\ WithinLastIds(import.db)
    /\ RowsAgree(import.db)

LEMMA SafetyDuringImport ==
  ASSUME Safety, UNCHANGED <<disk, pending, claimed>>, ImportSafety', ImportExtendsDisk'
  PROVE  Safety'
<1>1. IdsReserved' /\ PendingPersistable' /\ NoSilentLoss'
  BY DEF Safety, IdsReserved, WithinLastIds, PendingPersistable, NoSilentLoss, ImportSafety
<1>2. RowsConsistent'
  BY DEF Safety, RowsConsistent, RowsAgree, HasCombats, ImportSafety
<1>3. QED
  BY <1>1, <1>2 DEF Safety

LEMMA SafetyImportBegin ==
  ASSUME TypeOK, Safety, NEW m \in 0..MaxRun, NEW n \in 0..MaxCombat, ImportBegin(m, n)
  PROVE  Safety'
<1> DEFINE db == [disk EXCEPT !.lastRun = Larger(@, m), !.lastCombat = Larger(@, n)]
<1>1. disk \in Database
  BY DEF TypeOK
<1>2. /\ disk.lastRun \in Int /\ disk.lastCombat \in Int /\ m \in Int /\ n \in Int
      /\ RunIds \subseteq Int /\ CombatIds \subseteq Int
  BY <1>1, StoreConstants DEF Database, RunIds, CombatIds
<1>3. import'.db = db /\ UNCHANGED <<disk, pending, claimed>> /\ ~disk.imported
  BY DEF ImportBegin, NotImported
<1>4. /\ db.identity = disk.identity /\ db.final = disk.final /\ db.legacy = disk.legacy
      /\ db.owner = disk.owner /\ db.record = disk.record /\ db.archive = disk.archive
      /\ db.imported = disk.imported
      /\ db.lastRun = Larger(disk.lastRun, m) /\ db.lastCombat = Larger(disk.lastCombat, n)
  BY <1>1 DEF Database
<1> HIDE DEF db
<1>5. disk.lastRun <= db.lastRun /\ disk.lastCombat <= db.lastCombat
      /\ db.lastRun \in Int /\ db.lastCombat \in Int
  BY <1>2, <1>4, LargerBounds
<1>6. WithinLastIds(db)
  BY <1>2, <1>4, <1>5 DEF Safety, IdsReserved, WithinLastIds
<1>7. RowsAgree(db)
  BY <1>4 DEF Safety, RowsConsistent, RowsAgree, HasCombats
<1>8. ImportSafety'
  <2>1. WithinLastIds(import'.db) /\ RowsAgree(import'.db)
    BY <1>3, <1>6, <1>7
  <2>2. QED
    BY <2>1 DEF ImportSafety, WithinLastIds, RowsAgree, HasCombats
<1>9. ImportExtendsDisk'
  BY <1>3, <1>4, <1>5 DEF ImportExtendsDisk
<1>10. QED
  BY <1>3, <1>8, <1>9, SafetyDuringImport

LEMMA SafetyImportRun ==
  ASSUME TypeOK, Safety, NEW k \in SourceKeys, NEW i \in Identities, NEW n \in 0..MaxRun,
         NEW o \in Outcomes \cup {None}, NEW reasons \in SUBSET Gaps,
         ImportRun(k, n, i, o, reasons)
  PROVE  Safety'
<1> DEFINE id == ImportId(n)
           db == import.db
<1>1. import # None /\ import \in ImportSession /\ db \in Database
  BY DEF TypeOK, ImportRun, ImportSession
<1>2. id \in RunIds /\ i # None
  <2>1. import.db.lastRun \in Nat
    BY <1>1, StoreConstants DEF Database
  <2>2. (n # 0 /\ id = n) \/ id = import.db.lastRun + 1
    BY DEF ImportId
  <2>3. id <= MaxRun
    BY DEF ImportRun
  <2> HIDE DEF id
  <2>4. QED
    BY <2>1, <2>2, <2>3, StoreConstants DEF RunIds
<1>3. db.identity[id] = None
  <2>1. WithinLastIds(db)
    BY <1>1 DEF Safety, IdsReserved
  <2>2. db.lastRun \in Nat
    BY <1>1, StoreConstants DEF Database
  <2>3. CASE id = n
    BY <1>2, <2>1, <2>2, <2>3 DEF ImportId, WithinLastIds
  <2>4. CASE id = db.lastRun + 1
    BY <1>2, <2>1, <2>2, <2>4 DEF WithinLastIds
  <2>5. QED
    BY <2>3, <2>4 DEF ImportId
<1>4. import' = [import EXCEPT !.db.lastRun      = Larger(@, id),
                               !.db.identity[id] = i,
                               !.db.final[id]    = o,
                               !.db.legacy       = @ \cup {id},
                               !.db.gaps         = @ \cup ({id} \X reasons),
                               !.sources[k]      = [run |-> id, identity |-> i]]
  BY DEF ImportRun
<1>5. UNCHANGED <<disk, pending, claimed>>
  BY DEF ImportRun
<1> HIDE DEF id
<1> DEFINE new == import'.db
<1>6. /\ new.lastRun = Larger(db.lastRun, id) /\ new.legacy = db.legacy \cup {id}
      /\ new.owner = db.owner /\ new.record = db.record /\ new.archive = db.archive
      /\ new.lastCombat = db.lastCombat /\ new.imported = db.imported
  <2>1. new = [db EXCEPT !.lastRun = Larger(@, id), !.identity[id] = i, !.final[id] = o,
                         !.legacy = @ \cup {id}, !.gaps = @ \cup ({id} \X reasons)]
    BY <1>1, <1>4 DEF ImportSession, Database
  <2> HIDE DEF db, new
  <2>2. QED
    BY <1>1, <2>1 DEF Database
<1>7. \A r \in RunIds : /\ new.identity[r] = IF r = id THEN i ELSE db.identity[r]
                        /\ new.final[r] = IF r = id THEN o ELSE db.final[r]
  BY <1>1, <1>4 DEF ImportSession, Database
<1> HIDE DEF new
<1>8. db.lastRun <= new.lastRun /\ id <= new.lastRun /\ db.lastRun \in Int /\ id \in Int
      /\ new.lastRun \in Int /\ RunIds \subseteq Int
  BY <1>1, <1>2, <1>6, StoreConstants, LargerBounds DEF Database, RunIds
<1>9. WithinLastIds(new)
  <2>1. WithinLastIds(db)
    BY <1>1 DEF Safety, IdsReserved
  <2> HIDE DEF db
  <2>2. \A r \in RunIds : new.identity[r] # None => r <= new.lastRun
    <3>1. SUFFICES ASSUME NEW r \in RunIds, new.identity[r] # None PROVE r <= new.lastRun
      OBVIOUS
    <3>2. CASE r = id
      BY <1>8, <3>2
    <3>3. CASE r # id
      <4>1. r <= db.lastRun /\ r \in Int
        BY <1>7, <1>8, <2>1, <3>1, <3>3 DEF WithinLastIds
      <4>2. QED
        BY <1>8, <4>1
    <3>4. QED
      BY <3>2, <3>3
  <2>3. \A c \in CombatIds : new.owner[c] # None => c <= new.lastCombat
    BY <1>6, <2>1 DEF WithinLastIds
  <2>4. QED
    BY <2>2, <2>3 DEF WithinLastIds
<1>10. RowsAgree(new)
  <2>1. RowsAgree(db)
    BY <1>1 DEF Safety, RowsConsistent
  <2>2. QED
    BY <1>2, <1>6, <1>7, <2>1 DEF RowsAgree, HasCombats
<1>11. ImportSafety'
  <2>1. WithinLastIds(import'.db) /\ RowsAgree(import'.db)
    BY <1>9, <1>10 DEF new
  <2>2. QED
    BY <2>1 DEF ImportSafety, WithinLastIds, RowsAgree, HasCombats
<1>12. ImportExtendsDisk'
  <2>1. ImportExtendsDisk /\ disk.lastRun \in Int
    BY StoreConstants DEF Safety, TypeOK, Database
  <2>2. /\ ~disk.imported /\ ~new.imported
        /\ new.owner = disk.owner /\ new.record = disk.record
        /\ \A r \in RunIds : disk.identity[r] # None =>
             new.identity[r] = disk.identity[r] /\ new.final[r] = disk.final[r]
        /\ disk.lastRun <= new.lastRun /\ disk.lastCombat <= new.lastCombat
    BY <1>1, <1>3, <1>6, <1>7, <1>8, <2>1 DEF ImportExtendsDisk
  <2>3. QED
    BY <1>5, <2>2 DEF ImportExtendsDisk, new
<1>13. QED
  BY <1>5, <1>11, <1>12, SafetyDuringImport

LEMMA SafetyImportRecord ==
  ASSUME TypeOK, Safety, NEW k \in SourceKeys, NEW i \in Identities, NEW n \in CombatIds,
         NEW p \in Payloads, ImportRecord(k, i, n, p)
  PROVE  Safety'
<1> DEFINE db  == import.db
           row == [run |-> import.sources[k].run, record |-> p]
           new == import'.db
<1>1. import # None /\ import \in ImportSession /\ db \in Database
  BY DEF TypeOK, ImportRecord, ImportSession
<1>2. UNCHANGED <<disk, pending, claimed>>
  BY DEF ImportRecord
<1>3. /\ new.identity = db.identity /\ new.final = db.final /\ new.legacy = db.legacy
      /\ new.owner = db.owner /\ new.record = db.record
      /\ new.lastRun = db.lastRun /\ new.lastCombat = db.lastCombat
      /\ new.imported = db.imported /\ new.archive = Append(db.archive, row)
  BY <1>1 DEF ImportRecord, ImportSession, Database
<1>4. \A r \in RunIds : HasCombats(db, r) => HasCombats(new, r)
  <2>1. db.archive \in Seq(ArchivedCombat)
    BY <1>1 DEF Database
  <2> HIDE DEF row
  <2>2. \A n_ \in DOMAIN db.archive :
          n_ \in DOMAIN new.archive /\ new.archive[n_] = db.archive[n_]
    BY <1>3, <2>1
  <2> HIDE DEF new, db
  <2>3. QED
    BY <1>3, <2>2 DEF HasCombats
<1> HIDE DEF row, new
<1>5. WithinLastIds(new) /\ RowsAgree(new)
  <2>1. WithinLastIds(db) /\ RowsAgree(db)
    BY <1>1 DEF Safety, IdsReserved, RowsConsistent
  <2>2. QED
    BY <1>3, <1>4, <2>1 DEF WithinLastIds, RowsAgree
<1>6. ImportSafety'
  <2>1. WithinLastIds(import'.db) /\ RowsAgree(import'.db)
    BY <1>5 DEF new
  <2>2. QED
    BY <2>1 DEF ImportSafety, WithinLastIds, RowsAgree, HasCombats
<1>7. ImportExtendsDisk'
  BY <1>1, <1>2, <1>3 DEF ImportExtendsDisk, Safety, new
<1>8. QED
  BY <1>2, <1>6, <1>7, SafetyDuringImport

LEMMA SafetyImportAmbiguous ==
  ASSUME TypeOK, Safety, NEW i \in Identities, ImportAmbiguous(i)
  PROVE  Safety'
<1> DEFINE db  == import.db
           new == import'.db
<1>1. import # None /\ import \in ImportSession /\ db \in Database
  BY DEF TypeOK, ImportAmbiguous, ImportSession
<1>2. UNCHANGED <<disk, pending, claimed>>
  BY DEF ImportAmbiguous
<1>3. /\ new.identity = db.identity /\ new.final = db.final /\ new.legacy = db.legacy
      /\ new.owner = db.owner /\ new.record = db.record /\ new.archive = db.archive
      /\ new.lastRun = db.lastRun /\ new.lastCombat = db.lastCombat
      /\ new.imported = db.imported
  BY <1>1 DEF ImportAmbiguous, ImportSession, Database
<1> HIDE DEF new
<1>4. WithinLastIds(new) /\ RowsAgree(new)
  <2>1. WithinLastIds(db) /\ RowsAgree(db)
    BY <1>1 DEF Safety, IdsReserved, RowsConsistent
  <2>2. QED
    BY <1>3, <2>1 DEF WithinLastIds, RowsAgree, HasCombats
<1>5. ImportSafety'
  <2>1. WithinLastIds(import'.db) /\ RowsAgree(import'.db)
    BY <1>4 DEF new
  <2>2. QED
    BY <2>1 DEF ImportSafety, WithinLastIds, RowsAgree, HasCombats
<1>6. ImportExtendsDisk'
  BY <1>1, <1>2, <1>3 DEF ImportExtendsDisk, Safety, new
<1>7. QED
  BY <1>2, <1>5, <1>6, SafetyDuringImport

LEMMA SafetyImportEnd ==
  ASSUME TypeOK, Safety, NEW reasons \in SUBSET Gaps, ImportEnd(reasons)
  PROVE  Safety'
<1> DEFINE db == import.db
<1>1. import # None /\ db \in Database
  BY DEF TypeOK, ImportEnd, ImportSession
<1>2. import' = None /\ UNCHANGED <<pending, claimed>>
  BY DEF ImportEnd
<1>3. /\ disk'.identity = db.identity /\ disk'.final = db.final /\ disk'.legacy = db.legacy
      /\ disk'.owner = db.owner /\ disk'.record = db.record /\ disk'.archive = db.archive
      /\ disk'.lastRun = db.lastRun /\ disk'.lastCombat = db.lastCombat
      /\ disk'.imported = TRUE
  BY <1>1 DEF ImportEnd, ImportCommit, Database
<1>4. ImportExtendsDisk /\ WithinLastIds(db) /\ RowsAgree(db)
  BY <1>1 DEF Safety, IdsReserved, RowsConsistent
<1>5. IdsReserved'
  BY <1>2, <1>3, <1>4 DEF IdsReserved, WithinLastIds
<1>6. PendingPersistable' /\ NoSilentLoss'
  <2>1. \A c \in CombatIds : pending[c] \in RunIds \cup {0, None}
    BY StoreConstants DEF TypeOK, Owners, RunIds
  <2>2. db.owner = disk.owner /\ db.record = disk.record
        /\ \A r \in RunIds : disk.identity[r] # None => db.identity[r] = disk.identity[r]
    BY <1>1, <1>4 DEF ImportExtendsDisk
  <2>3. QED
    BY <1>2, <1>3, <2>1, <2>2 DEF PendingPersistable, NoSilentLoss, Safety
<1>7. RowsConsistent'
  <2>1. RowsAgree(disk')
    BY <1>3, <1>4 DEF RowsAgree, HasCombats
  <2>2. QED
    BY <1>2, <1>3, <2>1 DEF RowsConsistent
<1>8. QED
  BY <1>2, <1>5, <1>6, <1>7 DEF Safety, ImportExtendsDisk

LEMMA SafetyNext == TypeOK /\ Safety /\ [Next]_vars => Safety'
<1> SUFFICES ASSUME TypeOK, Safety, [Next]_vars PROVE Safety'
  OBVIOUS
<1>1. CASE Recording
  <2>1. ASSUME NEW c \in CombatIds, NEW r \in Owners, NEW i \in Identities,
               RefuseCombat(c, r, i)
        PROVE  Safety'
    BY <2>1, SafetyUnchanged DEF RefuseCombat
  <2>2. ASSUME NEW r \in RunIds, NEW i \in Identities, RefuseRun(r, i)
        PROVE  Safety'
    BY <2>2, SafetyUnchanged DEF RefuseRun
  <2>3. QED
    BY <1>1, <2>1, <2>2, SafetyOpenRun, SafetySaveCombat, SafetySaveRun DEF Recording
<1>2. CASE Reading
  <2>1. UNCHANGED <<disk, pending, import, claimed>>
    BY <1>2 DEF Reading, NextPage, ReadBegin, ReadPage, ReadEnd
  <2>2. QED
    BY <2>1, SafetyUnchanged
<1>3. CASE Importing
  BY <1>3, SafetyImportBegin, SafetyImportRun, SafetyImportRecord, SafetyImportAmbiguous,
     SafetyImportEnd DEF Importing
<1>4. CASE DropSession
  BY <1>4, SafetyUnchanged DEF DropSession
<1>5. CASE Restart
  BY <1>5, SafetyRestart
<1>6. CASE UNCHANGED vars
  BY <1>6, SafetyUnchanged DEF vars
<1>7. QED
  BY <1>1, <1>2, <1>3, <1>4, <1>5, <1>6 DEF Next

LEMMA SafetyHolds == Spec => []Safety
<1>1. QED
  BY SafetyInit, SafetyNext, TypeInit, TypeNext, PTL DEF Spec

(***************************************************************************)
(* allocate_run, save_combat and import_run never give out an ID twice:    *)
(* every row is at or below the last ID in the metadata.                   *)
(***************************************************************************)
THEOREM IdsAreReserved == Spec => []IdsReserved
<1>1. Safety => IdsReserved
  BY DEF Safety
<1>2. QED
  BY <1>1, SafetyHolds, PTL

(***************************************************************************)
(* retry_intents can always write every pending intent: the checks that    *)
(* save_combat made against the database still hold, whatever happened     *)
(* since.                                                                  *)
(***************************************************************************)
THEOREM PendingIsPersistable == Spec => []PendingPersistable
<1>1. Safety => PendingPersistable
  BY DEF Safety
<1>2. QED
  BY <1>1, SafetyHolds, PTL

(***************************************************************************)
(* A save that got past its checks is on disk or pending until the process *)
(* dies, whichever of its transactions failed.                             *)
(***************************************************************************)
THEOREM NothingIsLost == Spec => []NoSilentLoss
<1>1. Safety => NoSilentLoss
  BY DEF Safety
<1>2. QED
  BY <1>1, SafetyHolds, PTL

(***************************************************************************)
(* The rows of combats, runs and final outcomes agree with each other.     *)
(***************************************************************************)
THEOREM RowsStayConsistent == Spec => []RowsConsistent
<1>1. Safety => RowsConsistent
  BY DEF Safety
<1>2. QED
  BY <1>1, SafetyHolds, PTL

(***************************************************************************)
(* The database an import commits extends the one it began with.           *)
(***************************************************************************)
THEOREM ImportsExtendDisk == Spec => []ImportExtendsDisk
<1>1. Safety => ImportExtendsDisk
  BY DEF Safety
<1>2. QED
  BY <1>1, SafetyHolds, PTL

----------------------------------------------------------------------------
(***************************************************************************)
(* Steps.  What every step does to the committed database: it changes only *)
(* by an opened run, by retry_intents with at most one record or outcome,  *)
(* or by the end of an import.                                             *)
(***************************************************************************)
LEMMA RecordingSteps ==
  ASSUME TypeOK, Safety, Recording
  PROVE  /\ \A r \in RunIds : disk.identity[r] # None => disk'.identity[r] = disk.identity[r]
         /\ disk'.lastRun >= disk.lastRun
         /\ disk'.lastCombat >= disk.lastCombat
         /\ Log!Next \/ UNCHANGED Log!logVars
<1> DEFINE Goal ==
       /\ \A r \in RunIds : disk.identity[r] # None => disk'.identity[r] = disk.identity[r]
       /\ disk'.lastRun >= disk.lastRun
       /\ disk'.lastCombat >= disk.lastCombat
       /\ Log!Next \/ UNCHANGED Log!logVars
<1>1. disk \in Database /\ disk.lastRun \in Nat /\ disk.lastCombat \in Nat
  BY StoreConstants DEF TypeOK, Database
<1>2. ASSUME UNCHANGED disk PROVE Goal
  BY <1>1, <1>2 DEF Log!logVars
<1>3. ASSUME NEW i \in Identities, disk.lastRun < MaxRun, disk' = AllocateRun(disk, i)
      PROVE  Goal
  <2> DEFINE id == disk.lastRun + 1
  <2>1. /\ disk'.final = disk.final /\ disk'.owner = disk.owner /\ disk'.record = disk.record
        /\ disk'.archive = disk.archive /\ disk'.lastCombat = disk.lastCombat
        /\ disk'.imported = disk.imported /\ disk'.lastRun = id
    BY <1>1, <1>3 DEF AllocateRun, Database
  <2>2. \A r \in RunIds : r # id => disk'.identity[r] = disk.identity[r]
    BY <1>1, <1>3 DEF AllocateRun, Database
  <2>3. \A r \in RunIds : disk.identity[r] # None => r # id
    BY <1>1, StoreConstants DEF Safety, IdsReserved, WithinLastIds, RunIds
  <2>4. QED
    BY <1>1, <2>1, <2>2, <2>3 DEF Log!logVars
<1>4. ASSUME NEW pend \in [CombatIds -> Owners \cup {None}], Writable(pend),
             NEW left \in Retried(pend)
      PROVE  /\ disk' = left.disk => Goal
             /\ \A c \in CombatIds, p \in Payloads :
                  /\ disk' = [left.disk EXCEPT !.record[c] = p]
                  /\ left.disk.owner[c] # None
                  /\ left.disk.record[c] = None
                  => Goal
             /\ \A r \in RunIds, o \in Outcomes :
                  disk' = [left.disk EXCEPT !.final[r] = IF @ = None THEN o ELSE @] => Goal
  <2> DEFINE db == left.disk
  <2>1. db \in Database
    BY <1>4, RetriedFacts
  <2>2. /\ db.identity = disk.identity /\ db.final = disk.final /\ db.record = disk.record
        /\ db.archive = disk.archive /\ db.lastRun = disk.lastRun
        /\ db.imported = disk.imported /\ disk.lastCombat <= db.lastCombat
        /\ \A d \in CombatIds : disk.owner[d] # None => db.owner[d] = disk.owner[d]
    BY <1>4, RetriedKeeps
  <2>3. db.owner \in [CombatIds -> RunIds \cup {0, None}] /\ db.lastCombat \in Nat
    BY <2>1, StoreConstants DEF Database, Owners, RunIds
  <2>4. disk.lastRun \in Nat /\ disk.lastCombat \in Nat
    BY <1>1
  <2> HIDE DEF db
  <2>5. ASSUME disk' = db PROVE Goal
    BY <2>2, <2>3, <2>4, <2>5 DEF Log!Next, Log!Announce, Log!Announced
  <2>6. ASSUME NEW c \in CombatIds, NEW p \in Payloads,
               disk' = [db EXCEPT !.record[c] = p], db.owner[c] # None, db.record[c] = None
        PROVE  Goal
    <3>1. /\ disk'.identity = db.identity /\ disk'.final = db.final /\ disk'.owner = db.owner
          /\ disk'.archive = db.archive /\ disk'.lastRun = db.lastRun
          /\ disk'.lastCombat = db.lastCombat /\ disk'.imported = db.imported
          /\ disk'.record = [db.record EXCEPT ![c] = p]
      BY <2>1, <2>6 DEF Database, db
    <3>2. Log!Write
      BY <2>2, <2>3, <2>6, <3>1 DEF Log!Write, Log!Announced
    <3>3. QED
      BY <2>2, <2>3, <2>4, <3>1, <3>2 DEF Log!Next
  <2>7. ASSUME NEW r \in RunIds, NEW o \in Outcomes,
               disk' = [db EXCEPT !.final[r] = IF @ = None THEN o ELSE @]
        PROVE  Goal
    <3>1. /\ disk'.identity = db.identity /\ disk'.record = db.record /\ disk'.owner = db.owner
          /\ disk'.archive = db.archive /\ disk'.lastRun = db.lastRun
          /\ disk'.lastCombat = db.lastCombat /\ disk'.imported = db.imported
          /\ disk'.final = [db.final EXCEPT ![r] = IF db.final[r] = None THEN o ELSE db.final[r]]
      BY <2>1, <2>7 DEF Database, db
    <3>2. CASE db.final[r] = None
      <4>1. disk'.final = [disk.final EXCEPT ![r] = o] /\ disk.final[r] = None
        BY <2>2, <3>1, <3>2
      <4>2. Log!Close
        BY <2>2, <2>3, <3>1, <4>1 DEF Log!Close, Log!Announced
      <4>3. QED
        BY <2>2, <2>3, <2>4, <3>1, <4>2 DEF Log!Next
    <3>3. CASE db.final[r] # None
      <4>1. disk'.final = disk.final
        BY <2>1, <2>2, <3>1, <3>3 DEF Database, db
      <4>2. Log!Announce
        BY <2>2, <2>3, <3>1, <4>1 DEF Log!Announce, Log!Announced
      <4>3. QED
        BY <2>2, <2>3, <2>4, <3>1, <4>2 DEF Log!Next
    <3>4. QED
      BY <3>2, <3>3
  <2>8. QED
    BY <2>5, <2>6, <2>7 DEF db
<1>5. ASSUME NEW i \in Identities, NEW continued \in BOOLEAN, OpenRun(i, continued)
      PROVE  Goal
  BY <1>2, <1>3, <1>5 DEF OpenRun
<1>6. ASSUME NEW c \in CombatIds, NEW r \in Owners, NEW i \in Identities,
             NEW p \in Payloads, SaveCombat(c, r, i, p)
      PROVE  Goal
  <2> DEFINE pend == [pending EXCEPT ![c] = r]
  <2>1. pend \in [CombatIds -> Owners \cup {None}] /\ Writable(pend) /\ pend[c] # None
    BY <1>6, AllowedIsWritable, StoreConstants DEF SaveCombat, TypeOK
  <2>2. PICK left \in Retried(pend) :
          \/ disk' = left.disk
          \/ /\ left.pending[c] = None /\ left.disk.record[c] = None
             /\ disk' = [left.disk EXCEPT !.record[c] = p]
    BY <1>6 DEF SaveCombat
  <2> HIDE DEF pend, Goal
  <2>3. left.pending[c] = None => left.disk.owner[c] # None
    BY <2>1, RetriedKeeps
  <2>4. QED
    BY <1>4, <2>1, <2>2, <2>3
<1>7. ASSUME NEW r \in RunIds, NEW i \in Identities, NEW o \in Outcomes, SaveRun(r, i, o)
      PROVE  Goal
  <2>1. pending \in [CombatIds -> Owners \cup {None}] /\ Writable(pending)
    BY DEF TypeOK, Safety, PendingPersistable, Writable
  <2>2. PICK left \in Retried(pending) :
          \/ disk' = left.disk
          \/ disk' = [left.disk EXCEPT !.final[r] = IF @ = None THEN o ELSE @]
    BY <1>7 DEF SaveRun, Finalized
  <2> HIDE DEF Goal
  <2>3. QED
    BY <1>4, <2>1, <2>2
<1>8. ASSUME NEW c \in CombatIds, NEW r \in Owners, NEW i \in Identities, RefuseCombat(c, r, i)
      PROVE  Goal
  BY <1>2, <1>8 DEF RefuseCombat
<1>9. ASSUME NEW r \in RunIds, NEW i \in Identities, RefuseRun(r, i)
      PROVE  Goal
  BY <1>2, <1>9 DEF RefuseRun
<1> HIDE DEF Goal
<1>10. Goal
  BY <1>5, <1>6, <1>7, <1>8, <1>9 DEF Recording
<1>11. QED
  BY <1>10 DEF Goal

LEMMA ImportEndSteps ==
  ASSUME TypeOK, Safety, NEW reasons \in SUBSET Gaps, ImportEnd(reasons)
  PROVE  /\ \A r \in RunIds : disk.identity[r] # None => disk'.identity[r] = disk.identity[r]
         /\ disk'.lastRun >= disk.lastRun
         /\ disk'.lastCombat >= disk.lastCombat
         /\ Log!Next
<1> DEFINE db == import.db
<1>1. import # None /\ db \in Database
  BY DEF TypeOK, ImportEnd, ImportSession
<1>2. /\ disk'.identity = db.identity /\ disk'.final = db.final
      /\ disk'.owner = db.owner /\ disk'.record = db.record /\ disk'.archive = db.archive
      /\ disk'.lastRun = db.lastRun /\ disk'.lastCombat = db.lastCombat
      /\ disk'.imported = TRUE
  BY <1>1 DEF ImportEnd, ImportCommit, Database
<1>3. /\ ~disk.imported
      /\ db.owner = disk.owner /\ db.record = disk.record
      /\ \A r \in RunIds : disk.identity[r] # None =>
           db.identity[r] = disk.identity[r] /\ db.final[r] = disk.final[r]
      /\ disk.lastRun <= db.lastRun /\ disk.lastCombat <= db.lastCombat
  BY <1>1 DEF Safety, ImportExtendsDisk
<1>4. \A r \in RunIds : disk.final[r] # None => disk.identity[r] # None
  BY DEF Safety, RowsConsistent, RowsAgree
<1>5. /\ disk'.archive \in Seq([run : RunIds, record : Payloads])
      /\ disk'.final \in [RunIds -> Outcomes \cup {None}]
      /\ disk.lastRun \in Int /\ db.lastRun \in Int
      /\ disk.lastCombat \in Int /\ db.lastCombat \in Int
      /\ disk.imported = FALSE
  BY <1>1, <1>2, <1>3, StoreConstants DEF Database, ArchivedCombat, TypeOK
<1> HIDE DEF db
<1>6. Log!Adopt
  BY <1>2, <1>3, <1>4, <1>5 DEF Log!Adopt
<1>7. QED
  BY <1>2, <1>3, <1>5, <1>6 DEF Log!Next

LEMMA Steps ==
  ASSUME TypeOK, Safety, [Next]_vars
  PROVE  /\ \A r \in RunIds : disk.identity[r] # None => disk'.identity[r] = disk.identity[r]
         /\ disk'.lastRun >= disk.lastRun
         /\ disk'.lastCombat >= disk.lastCombat
         /\ Log!Next \/ UNCHANGED Log!logVars
<1>1. CASE Recording
  BY <1>1, RecordingSteps
<1>2. ASSUME NEW reasons \in SUBSET Gaps, ImportEnd(reasons)
      PROVE  /\ \A r \in RunIds : disk.identity[r] # None => disk'.identity[r] = disk.identity[r]
             /\ disk'.lastRun >= disk.lastRun
             /\ disk'.lastCombat >= disk.lastCombat
             /\ Log!Next
  BY <1>2, ImportEndSteps
<1>3. CASE UNCHANGED disk
  <2>1. disk.lastRun \in Int /\ disk.lastCombat \in Int
    BY StoreConstants DEF TypeOK, Database
  <2>2. QED
    BY <1>3, <2>1 DEF Log!logVars
<1>4. Reading \/ DropSession \/ Restart \/ UNCHANGED vars => UNCHANGED disk
  BY DEF Reading, NextPage, ReadBegin, ReadPage, ReadEnd, DropSession, Restart, vars
<1>5. Importing => UNCHANGED disk \/ \E reasons \in SUBSET Gaps : ImportEnd(reasons)
  <2>1. \A m, n : ImportBegin(m, n) => UNCHANGED disk
    BY DEF ImportBegin
  <2>2. \A k, n, i, o, reasons : ImportRun(k, n, i, o, reasons) => UNCHANGED disk
    BY DEF ImportRun
  <2>3. \A k, i, n, p : ImportRecord(k, i, n, p) => UNCHANGED disk
    BY DEF ImportRecord
  <2>4. \A i : ImportAmbiguous(i) => UNCHANGED disk
    BY DEF ImportAmbiguous
  <2>5. QED
    BY <2>1, <2>2, <2>3, <2>4 DEF Importing
<1>6. QED
  BY <1>1, <1>2, <1>3, <1>4, <1>5 DEF Next

(***************************************************************************)
(* No save, import or resumption changes the identity a run was opened or  *)
(* imported with, or takes back an ID it has reserved.                     *)
(***************************************************************************)
THEOREM IdentitiesStayFinal == Spec => IdentitiesAreFinal
<1> DEFINE Final ==
       /\ \A r \in RunIds : disk.identity[r] # None => disk'.identity[r] = disk.identity[r]
       /\ disk'.lastRun >= disk.lastRun
       /\ disk'.lastCombat >= disk.lastCombat
<1>1. TypeOK /\ Safety /\ [Next]_vars => [Final]_vars
  BY Steps
<1>2. Spec => [][Final]_vars
  <2> HIDE DEF Final
  <2>1. QED
    BY <1>1, TypeCorrect, SafetyHolds, PTL DEF Spec
<1>3. QED
  BY <1>2 DEF IdentitiesAreFinal

(***************************************************************************)
(* The store implements the combat log: retries, failed transactions,      *)
(* sessions and crashes only ever announce combats under the run that      *)
(* claimed them, write each record and outcome once, and adopt the legacy  *)
(* archive as a whole.                                                     *)
(***************************************************************************)
THEOREM StoreImplementsLog == Spec => ImplementsLog
<1>1. Init => Log!Init
  BY DEF Init, EmptyDatabase, Log!Init
<1>2. TypeOK /\ Safety /\ [Next]_vars => [Log!Next]_(Log!logVars)
  BY Steps
<1>3. Spec => Log!Init /\ [][Log!Next]_(Log!logVars)
  BY <1>1, <1>2, TypeCorrect, SafetyHolds, PTL DEF Spec
<1>4. QED
  BY <1>3 DEF ImplementsLog, Log!Spec

----------------------------------------------------------------------------
(***************************************************************************)
(* Paged reads, which rest on the safety of the store.                     *)
(***************************************************************************)
(***************************************************************************)
(* The inductive invariant of a read.  What the cursor has passed was      *)
(* delivered, unless a reason says that something is missing; and nothing  *)
(* that was delivered is still to come.                                    *)
(***************************************************************************)
Passed == Rows(read.run) \ Remaining

ReadInv ==
  /\ read # None =>
       /\ read.delivered \subseteq Passed
       /\ read.valid = Cardinality(read.delivered)
       /\ read.reasons = {} =>
            /\ Passed \subseteq read.delivered
            /\ \A c \in CombatIds : pending[c] # read.run
  /\ CleanReadIsComplete
  /\ DeliveredOnce

LEMMA BeforeOrder ==
  ASSUME NEW a \in Row, NEW b \in Row
  PROVE  /\ ~Before(a, a)
         /\ Before(a, b) => ~Before(b, a)
         /\ \A c \in Row : Before(a, b) /\ Before(b, c) => Before(a, c)
<1>1. \A c \in Row : c.legacy \in BOOLEAN /\ c.key \in Nat
  BY DEF Row
<1>2. QED
  BY <1>1 DEF Before

LEMMA ReadInit == Init => ReadInv
BY DEF Init, ReadInv, CleanReadIsComplete, DeliveredOnce

LEMMA ReadInvBegin ==
  ASSUME TypeOK, NEW r \in RunIds, NEW history \in BOOLEAN, ReadBegin(r, history)
  PROVE  ReadInv'
<1>1. /\ read'.run = r /\ read'.cursor = None /\ read'.valid = 0 /\ read'.delivered = {}
      /\ PendingReasons(r) \subseteq read'.reasons
      /\ report' = None /\ UNCHANGED <<disk, pending>>
  BY DEF ReadBegin
<1>2. Remaining' = Rows(read.run)'
  BY <1>1 DEF Remaining
<1>3. Passed' = {}
  BY <1>2 DEF Passed
<1>4. read'.reasons = {} => \A c \in CombatIds : pending'[c] # read'.run
  BY <1>1 DEF PendingReasons
<1>5. Cardinality({}) = 0
  BY FS_EmptySet
<1>6. QED
  BY <1>1, <1>3, <1>4, <1>5 DEF ReadInv, CleanReadIsComplete, DeliveredOnce

LEMMA ReadInvPage ==
  ASSUME TypeOK, Safety, ReadInv, read # None, NEW page \in SUBSET Remaining, ReadPage(page)
  PROVE  ReadInv'
<1> DEFINE found   == {row \in page : Readable(row)}
           valid   == read.valid + Cardinality(found)
           done    == Remaining \ page = {}
           rows    == Rows(read.run)
           reasons == read.reasons \cup (UNION {RowReasons(row) : row \in page})
                        \cup (IF done /\ read.finalized /\ valid = 0
                             THEN {"statistics-record-missing"} ELSE {})
<1>1. read \in ReadSession /\ read.run \in RunIds
  BY DEF TypeOK, ReadSession
<1>2. rows \subseteq Row /\ IsFiniteSet(rows)
  BY <1>1, RowsFacts
<1>3. Remaining \subseteq rows /\ page \subseteq rows /\ found \subseteq page
  BY DEF Remaining
<1>4. read.delivered \subseteq Passed /\ read.valid = Cardinality(read.delivered)
  BY DEF ReadInv
<1>5. valid = Cardinality(read.delivered \cup found)
  <2>1. read.delivered \in SUBSET rows /\ found \in SUBSET rows
    BY <1>3, <1>4 DEF Passed
  <2>2. read.delivered \cap found = {}
    BY <1>3, <1>4 DEF Passed
  <2> HIDE DEF found, rows
  <2>3. IsFiniteSet(read.delivered) /\ IsFiniteSet(found)
    BY <1>2, <2>1, FS_Subset
  <2>4. Cardinality(read.delivered \cup found) = Cardinality(read.delivered) + Cardinality(found)
    <3>1. Cardinality(read.delivered \cup found) =
            Cardinality(read.delivered) + Cardinality(found) - Cardinality({})
      BY <2>2, <2>3, FS_Union
    <3>2. Cardinality({}) = 0
      BY FS_EmptySet
    <3>3. Cardinality(read.delivered) \in Nat /\ Cardinality(found) \in Nat
      BY <2>3, FS_CardinalityType
    <3>4. QED
      BY <3>1, <3>2, <3>3
  <2>5. QED
    BY <1>4, <2>4
<1>6. reasons = {} => read.reasons = {} /\ page \subseteq found
  <2>1. SUFFICES ASSUME reasons = {} PROVE read.reasons = {} /\ page \subseteq found
    OBVIOUS
  <2>2. read.reasons = {} /\ \A row \in page : RowReasons(row) = {}
    BY <2>1
  <2>3. \A row \in page : Readable(row)
    BY <2>2 DEF RowReasons, Readable
  <2>4. QED
    BY <2>2, <2>3
<1>7. UNCHANGED <<disk, pending, claimed>>
  BY DEF ReadPage
<1>8. CASE done
  <2>1. read' = None
    BY <1>8 DEF ReadPage
  <2>2. report' = [run |-> read.run, valid |-> valid, reasons |-> reasons,
                   delivered |-> read.delivered \cup found]
    BY <1>8 DEF ReadPage
  <2> HIDE DEF found, valid, reasons
  <2>3. DeliveredOnce'
    BY <1>5, <2>2 DEF DeliveredOnce
  <2>4. Rows(report.run)' = rows
    BY <1>7, <2>2 DEF Rows
  <2>5. reasons = {} => read.delivered \cup found = rows
    BY <1>3, <1>4, <1>6, <1>8 DEF ReadInv, Passed
  <2>6. ASSUME reasons = {}, NEW c \in CombatIds, claimed[c] = read.run
        PROVE  [legacy |-> FALSE, key |-> c] \in rows
    <3>1. pending[c] # read.run
      BY <1>6, <2>6 DEF ReadInv
    <3>2. claimed[c] # None
      BY <1>1, <2>6, StoreConstants DEF Owners, RunIds
    <3>3. disk.owner[c] = read.run
      BY <2>6, <3>1, <3>2 DEF Safety, NoSilentLoss
    <3>4. QED
      BY <3>3 DEF Rows
  <2> HIDE DEF rows
  <2>7. CleanReadIsComplete'
    BY <1>7, <2>2, <2>4, <2>5, <2>6 DEF CleanReadIsComplete
  <2>8. QED
    BY <2>1, <2>3, <2>7 DEF ReadInv
<1>9. CASE ~done
  <2>1. PICK last \in page :
          /\ \A a \in page : a = last \/ Before(a, last)
          /\ read' = [read EXCEPT !.cursor    = last,
                                  !.valid     = valid,
                                  !.reasons   = reasons,
                                  !.delivered = @ \cup found]
    BY <1>9 DEF ReadPage, CursorAt
  <2>2. report' = None
    BY <1>9 DEF ReadPage
  <2> HIDE DEF found, valid, reasons
  <2>3. /\ read'.run = read.run /\ read'.cursor = last /\ read'.valid = valid
        /\ read'.reasons = reasons /\ read'.delivered = read.delivered \cup found
        /\ last # None
    <3>1. last \in Row
      BY <1>2, <1>3
    <3>2. last # None
      BY <3>1, NoneIsNoRow
    <3>3. QED
      BY <1>1, <2>1, <3>2 DEF ReadSession
  <2>4. Rows(read.run)' = rows
    BY <1>7, <2>3 DEF Rows
  <2>5. Remaining' = {row \in rows : Before(last, row)}
    BY <2>3, <2>4 DEF Remaining
  <2>6. last \in Remaining /\ \A row \in Remaining : read.cursor = None \/ Before(read.cursor, row)
    BY DEF Remaining
  <2>7. read.cursor \in Row \cup {None}
    BY <1>1 DEF ReadSession
  <2>8. \A row \in page : ~Before(last, row)
    BY <1>2, <1>3, <2>1, BeforeOrder
  <2>9. \A row \in rows \ Remaining : ~Before(last, row)
    BY <1>2, <1>3, <2>6, <2>7, BeforeOrder DEF Remaining
  <2>10. \A row \in Remaining \ page : Before(last, row)
    BY DEF ReadPage, IsPage
  <2> HIDE DEF rows
  <2>11. Passed' = (rows \ Remaining) \cup page
    BY <1>3, <2>4, <2>5, <2>8, <2>9, <2>10 DEF Passed
  <2>12. read'.delivered \subseteq Passed'
    BY <1>3, <1>4, <2>3, <2>11 DEF Passed, rows
  <2>13. reasons = {} => Passed' \subseteq read'.delivered
    BY <1>6, <2>3, <2>11 DEF Passed, ReadInv, rows
  <2>14. reasons = {} => \A c \in CombatIds : pending'[c] # read'.run
    BY <1>6, <1>7, <2>3 DEF ReadInv
  <2>15. QED
    BY <1>5, <2>2, <2>3, <2>12, <2>13, <2>14 DEF ReadInv, CleanReadIsComplete, DeliveredOnce
<1>10. QED
  BY <1>8, <1>9

\* Any other request closes the read and reports nothing.
LEMMA ReadInvClosed ==
  ASSUME read' = None, report' = None
  PROVE  ReadInv'
BY DEF ReadInv, CleanReadIsComplete, DeliveredOnce

LEMMA ReadInvNext == TypeOK /\ Safety /\ ReadInv /\ [Next]_vars => ReadInv'
<1> SUFFICES ASSUME TypeOK, Safety, ReadInv, [Next]_vars PROVE ReadInv'
  OBVIOUS
<1>1. CASE Recording
  <2>1. read' = None /\ report' = None
    BY <1>1 DEF Recording, OpenRun, SaveCombat, RefuseCombat, SaveRun, RefuseRun, Idle
  <2>2. QED
    BY <2>1, ReadInvClosed
<1>2. CASE Reading
  <2>1. ReadEnd => read' = None /\ report' = None
    BY DEF ReadEnd
  <2>2. QED
    BY <1>2, <2>1, ReadInvBegin, ReadInvPage, ReadInvClosed DEF Reading, NextPage
<1>3. CASE Importing
  <2>1. \A m, n : ImportBegin(m, n) => read' = None /\ report' = None
    BY DEF ImportBegin, Idle
  <2>2. \A k, n, i, o, reasons : ImportRun(k, n, i, o, reasons) => read' = None /\ report' = None
    BY DEF ImportRun
  <2>3. \A k, i, n, p : ImportRecord(k, i, n, p) => read' = None /\ report' = None
    BY DEF ImportRecord
  <2>4. \A i : ImportAmbiguous(i) => read' = None /\ report' = None
    BY DEF ImportAmbiguous
  <2>5. \A reasons : ImportEnd(reasons) => read' = None /\ report' = None
    BY DEF ImportEnd
  <2>6. read' = None /\ report' = None
    BY <1>3, <2>1, <2>2, <2>3, <2>4, <2>5 DEF Importing
  <2>7. QED
    BY <2>6, ReadInvClosed
<1>4. CASE DropSession \/ Restart
  BY <1>4, ReadInvClosed DEF DropSession, Restart
<1>5. CASE UNCHANGED vars
  BY <1>5 DEF vars, ReadInv, Passed, Remaining, Rows, CleanReadIsComplete, DeliveredOnce
<1>6. QED
  BY <1>1, <1>2, <1>3, <1>4, <1>5 DEF Next

LEMMA ReadsHold == Spec => []ReadInv
<1>1. QED
  BY TypeCorrect, SafetyHolds, ReadInit, ReadInvNext, PTL DEF Spec

(***************************************************************************)
(* read_begin, read_page and read_end: a read that ends without a reason   *)
(* has delivered every combat of the run whose save got past its checks,   *)
(* and every imported one, however its rows fell into pages.               *)
(***************************************************************************)
THEOREM CleanReadsAreComplete == Spec => []CleanReadIsComplete
<1>1. ReadInv => CleanReadIsComplete
  BY DEF ReadInv
<1>2. QED
  BY <1>1, ReadsHold, PTL

(***************************************************************************)
(* The pages of a read deliver no combat twice.                            *)
(***************************************************************************)
THEOREM ReadsDeliverOnce == Spec => []DeliveredOnce
<1>1. ReadInv => DeliveredOnce
  BY DEF ReadInv
<1>2. QED
  BY <1>1, ReadsHold, PTL
=============================================================================
