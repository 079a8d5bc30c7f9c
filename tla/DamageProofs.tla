----------------------------- MODULE DamageProofs -----------------------------
(***************************************************************************)
(* Proofs about the damage calculations, for any number of calls, of       *)
(* results and of combats: whose token is whose, what is kept under it,    *)
(* and therefore what is booked.                                           *)
(***************************************************************************)
EXTENDS Damage, FiniteSetTheorems, TLAPS

Tokens   == Kinds \X Nat \X Nat
Evidence == SUBSET (Calls \X (Early \cup Late))
Groups   == [facts : Evidence, results : SUBSET (Calls \X (1..MaxReports))]
Phases   == {"between", "inside", "hit", "killing"}

CallRecords == [epoch : Nat \cup {None}, phase : Phases, token : Tokens \cup {None}]

HitRecords ==
  [combat : Nat \cup {None}, facts : SUBSET (Early \cup Late), size : 0..MaxReports,
   reported : BOOLEAN, booked : [1..MaxReports -> Nat], with : Evidence \cup {None}]

TypeOK ==
  /\ engine \in [sequence : Nat, on : BOOLEAN]
  /\ \A x \in DOMAIN table : x \in Tokens /\ table[x] \in Groups
  /\ last \in [Kinds -> Nat]
  /\ epoch \in {None, engine.sequence}
  /\ left \in BOOLEAN /\ strayed \in BOOLEAN /\ failed \in BOOLEAN
  /\ calls \in [Calls -> CallRecords \cup {None}]
  /\ hits \in [Calls -> HitRecords]

(***************************************************************************)
(* Tokens are unique: a token is of the combat that its call was entered   *)
(* in, and in the present combat none has been given out beyond last.      *)
(***************************************************************************)
Has(c) == calls[c] # None /\ calls[c].token # None

Given(x) == x[2] <= engine.sequence /\ (x[2] = engine.sequence => x[3] <= last[x[1]])

TokenInv ==
  /\ \A x \in DOMAIN table : x[2] = engine.sequence /\ x[3] <= last[x[1]]
  /\ \A c \in Calls : Has(c) => calls[c].token[2] = calls[c].epoch /\ Given(calls[c].token)
  /\ \A c, d \in Calls : Has(c) /\ Has(d) /\ c # d => calls[c].token # calls[d].token

\* As long as every captured call runs on its thread, each open token has its call.
Watched == engine.on /\ epoch = engine.sequence /\ ~left /\ ~strayed

Held == Watched => \A x \in DOMAIN table : \E c \in Calls : Has(c) /\ calls[c].token = x

(***************************************************************************)
(* What is kept under the token of a call is told of its present hit, and  *)
(* the results of that hit are booked only as the hit is settled.          *)
(***************************************************************************)
Of(c, facts) == {<<c, f>> : f \in facts}

Results(c, n) == {<<c, i>> : i \in 1..n}

Evident(c) ==
  Has(c) /\ calls[c].token \in DOMAIN table =>
    LET group == table[calls[c].token]
    IN  /\ calls[c].phase = "inside" =>
             group.facts = Of(c, hits[c].facts \cap Early) /\ group.results = {}
        /\ calls[c].phase = "hit" => group.facts = Of(c, hits[c].facts) /\ group.results = {}
        /\ calls[c].phase = "killing" =>
             group.facts = Of(c, hits[c].facts) /\ group.results = Results(c, hits[c].size)
        /\ calls[c].phase # "between"

Fresh(c) ==
  calls[c] # None /\ calls[c].phase # "between" =>
    ~hits[c].reported /\ hits[c].with = None /\ \A i \in 1..MaxReports : hits[c].booked[i] = 0

BookedRight(c) ==
  /\ \A i \in 1..MaxReports : hits[c].booked[i] <= (IF hits[c].reported /\ i <= hits[c].size THEN 1 ELSE 0)
  /\ hits[c].reported /\ hits[c].combat = engine.sequence /\ ~failed =>
       \A i \in 1..hits[c].size : hits[c].booked[i] = 1

CreditedRight(c) ==
  hits[c].with # None =>
    /\ hits[c].with = Of(c, hits[c].facts)
    /\ \A i \in 1..hits[c].size : hits[c].booked[i] = 1

Sound(c) == Evident(c) /\ Fresh(c) /\ BookedRight(c) /\ CreditedRight(c)

Inv == TypeOK /\ TokenInv /\ Held /\ \A c \in Calls : Sound(c)

----------------------------------------------------------------------------
(***************************************************************************)
(* The values the definitions return.                                      *)
(***************************************************************************)
LEMMA Limits ==
  /\ MaxReports \in Nat /\ MaxCalculations \in Nat /\ MaxBatches \in Nat /\ MaxSerial \in Nat
  /\ MaxSequence \in Nat /\ MaxResults \in Nat /\ MaxTargets \in Nat
  /\ None \notin Nat /\ None \notin Tokens /\ None \notin CallRecords
BY DamageConstants DEF Tokens, CallRecords, Phases

LEMMA CallType ==
  ASSUME NEW e \in Nat \cup {None}, NEW phase \in Phases, NEW token \in Tokens \cup {None}
  PROVE  /\ Call(e, phase, token) \in CallRecords /\ Call(e, phase, token) # None
         /\ Call(e, phase, token).epoch = e /\ Call(e, phase, token).phase = phase
         /\ Call(e, phase, token).token = token
BY Limits DEF Call, CallRecords

LEMMA IdleType ==
  ASSUME NEW e \in Nat \cup {None}
  PROVE  LET k == Call(e, "between", None)
         IN  k \in CallRecords /\ k # None /\ k.phase = "between" /\ k.token = None
<1>1. "between" \in Phases /\ None \in Tokens \cup {None}
  BY DEF Phases
<1>2. QED
  BY <1>1, CallType

LEMMA HitType ==
  ASSUME NEW combat \in Nat \cup {None}, NEW facts \in SUBSET (Early \cup Late), NEW size \in 0..MaxReports
  PROVE  /\ Hit(combat, facts, size) \in HitRecords
         /\ Hit(combat, facts, size).facts = facts /\ Hit(combat, facts, size).size = size
         /\ Hit(combat, facts, size).combat = combat
         /\ ~Hit(combat, facts, size).reported /\ Hit(combat, facts, size).with = None
         /\ \A i \in 1..MaxReports : Hit(combat, facts, size).booked[i] = 0
BY Limits DEF Hit, HitRecords

LEMMA NoHitType ==
  /\ NoHit \in HitRecords /\ ~NoHit.reported /\ NoHit.with = None /\ NoHit.size = 0
  /\ NoHit.facts = {}
  /\ \A i \in 1..MaxReports : NoHit.booked[i] = 0
<1>1. None \in Nat \cup {None} /\ {} \in SUBSET (Early \cup Late) /\ 0 \in 0..MaxReports
  BY Limits
<1> DEFINE none == None
<1>2. none \in Nat \cup {None}
  OBVIOUS
<1> HIDE DEF none
<1>3. LET h == Hit(none, {}, 0)
      IN  /\ h \in HitRecords /\ h.facts = {} /\ h.size = 0
          /\ ~h.reported /\ h.with = None
          /\ \A i \in 1..MaxReports : h.booked[i] = 0
  BY <1>1, <1>2, HitType
<1>4. QED
  BY <1>3 DEF NoHit, none

LEMMA AbortedIs ==
  ASSUME NEW token
  PROVE  /\ DOMAIN Aborted(table, token) \subseteq DOMAIN table
         /\ engine.on => token \notin DOMAIN Aborted(table, token)
         /\ \A x \in DOMAIN Aborted(table, token) : Aborted(table, token)[x] = table[x]
BY DEF Aborted

LEMMA TokenIs ==
  ASSUME TypeOK, NEW kind \in Kinds
  PROVE  /\ Token(kind) \in Tokens /\ Token(kind) # None
         /\ Token(kind)[1] = kind /\ Token(kind)[2] = engine.sequence /\ Token(kind)[3] = last[kind] + 1
BY Limits DEF Token, Tokens, TypeOK

----------------------------------------------------------------------------
(***************************************************************************)
(* One handler of one call.  It touches no other call, gives up its token  *)
(* or keeps it, or begins a new one; and what it gives up it aborts, if    *)
(* there is anybody to notice.                                             *)
(***************************************************************************)
NewToken(c, kind) ==
  /\ calls'[c] # None /\ calls'[c].token = Token(kind) /\ calls'[c].epoch = engine.sequence
  /\ last' = [last EXCEPT ![kind] = @ + 1]
  /\ DOMAIN table' \subseteq DOMAIN table \cup {Token(kind)}

OldToken(c) ==
  /\ calls'[c] # None /\ calls'[c].token # None =>
       calls[c] # None /\ calls'[c].token = calls[c].token /\ calls'[c].epoch = calls[c].epoch
  /\ last' = last \/ \E kind \in Kinds : last' = [last EXCEPT ![kind] = @ + 1]
  /\ DOMAIN table' \subseteq DOMAIN table

Handled(c) ==
  /\ UNCHANGED <<engine, epoch, left>>
  /\ (strayed => strayed') /\ (failed => failed')
  /\ \A d \in Calls : d # c => calls'[d] = calls[d] /\ hits'[d] = hits[d]
  /\ OldToken(c) \/ \E kind \in Kinds : NewToken(c, kind)
  /\ \A x \in DOMAIN table : x \in DOMAIN table' /\ ~(Has(c) /\ x = calls[c].token) =>
       table'[x] = table[x]
  /\ Watched' /\ Has(c) /\ calls[c].token \in DOMAIN table' =>
       calls'[c] # None /\ calls'[c].token = calls[c].token

LEMMA HandledKeeps ==
  ASSUME Inv, TypeOK', NEW c \in Calls, Handled(c), Sound(c)'
  PROVE  Inv'
<1>1. /\ engine'.sequence = engine.sequence /\ engine.sequence \in Nat
      /\ last \in [Kinds -> Nat] /\ last' \in [Kinds -> Nat]
      /\ \A kind \in Kinds : last'[kind] >= last[kind]
  BY DEF Inv, TypeOK, Handled, OldToken, NewToken
<1>2. \A x \in Tokens : x[1] \in Kinds /\ x[2] \in Nat /\ x[3] \in Nat
  BY DEF Tokens
<1>3. \A x \in Tokens : Given(x) => Given(x)'
  BY <1>1, <1>2 DEF Given
<1>4. \A d \in Calls : Has(d) => calls[d].token \in Tokens
  BY DEF Inv, TypeOK, Has, CallRecords
<1>5. \A kind \in Kinds : ~Given(Token(kind))
  BY <1>1, TokenIs DEF Inv, Given
<1>6. ASSUME NEW kind \in Kinds, NewToken(c, kind)
      PROVE  Token(kind)[2] = engine.sequence /\ Token(kind)[3] <= last'[Token(kind)[1]]
  <2>1. last'[kind] = last[kind] + 1
    BY <1>1, <1>6 DEF NewToken
  <2>2. QED
    BY <1>1, <2>1, TokenIs DEF Inv
<1>7. TokenInv'
  <2>1. ASSUME NEW x \in DOMAIN table'
        PROVE  x[2] = engine'.sequence /\ x[3] <= last'[x[1]]
    <3>1. CASE x \in DOMAIN table
      BY <1>1, <1>2, <3>1 DEF Inv, TokenInv, TypeOK
    <3>2. CASE x \notin DOMAIN table
      BY <1>1, <1>6, <2>1, <3>2 DEF Handled, OldToken, NewToken
    <3>3. QED
      BY <3>1, <3>2
  <2>2. ASSUME NEW d \in Calls, Has(d)'
        PROVE  calls'[d].token[2] = calls'[d].epoch /\ Given(calls[d].token)'
    <3>1. CASE Has(d) /\ calls'[d].token = calls[d].token /\ calls'[d].epoch = calls[d].epoch
      <4>1. Given(calls[d].token) /\ calls[d].token[2] = calls[d].epoch
        BY <3>1 DEF Inv, TokenInv
      <4>2. QED
        BY <1>1, <1>2, <1>4, <3>1, <4>1 DEF Given
    <3>2. ASSUME NEW kind \in Kinds, NewToken(c, kind), d = c
          PROVE  calls'[d].token[2] = calls'[d].epoch /\ Given(calls[d].token)'
      <4>1. calls'[d].token = Token(kind) /\ calls'[d].epoch = engine.sequence
        BY <3>2 DEF NewToken
      <4>2. /\ Token(kind)[2] = engine.sequence /\ Token(kind)[3] <= last'[Token(kind)[1]]
        BY <1>6, <3>2
      <4>3. QED
        BY <1>1, <4>1, <4>2 DEF Given
    <3>3. QED
      BY <2>2, <3>1, <3>2 DEF Handled, OldToken, Has
  <2>3. ASSUME NEW d \in Calls, d # c, Has(d)', Has(c)'
        PROVE  calls'[c].token # calls'[d].token
    <3>1. Has(d) /\ calls'[d].token = calls[d].token
      BY <2>3 DEF Handled, Has
    <3>2. CASE OldToken(c)
      BY <2>3, <3>1, <3>2 DEF OldToken, Has, Inv, TokenInv
    <3>3. ASSUME NEW kind \in Kinds, NewToken(c, kind)
          PROVE  calls'[c].token # calls'[d].token
      BY <1>5, <3>1, <3>3 DEF NewToken, Inv, TokenInv
    <3>4. QED
      BY <3>2, <3>3 DEF Handled
  <2>4. \A d, b \in Calls : Has(d)' /\ Has(b)' /\ d # b => calls'[d].token # calls'[b].token
    <3>1. ASSUME NEW d \in Calls, NEW b \in Calls, d # b, d # c, b # c, Has(d)', Has(b)'
          PROVE  calls'[d].token # calls'[b].token
      BY <3>1 DEF Handled, Has, Inv, TokenInv
    <3>2. QED
      BY <2>3, <3>1
  <2>5. QED
    BY <2>1, <2>2, <2>4 DEF TokenInv
<1>8. Held'
  <2>1. SUFFICES ASSUME Watched', NEW x \in DOMAIN table'
                 PROVE  \E d \in Calls : Has(d)' /\ calls'[d].token = x
    BY DEF Held
  <2>2. CASE x \in DOMAIN table
    <3>1. Watched
      BY <2>1 DEF Watched, Handled, Inv, TypeOK
    <3>2. PICK d \in Calls : Has(d) /\ calls[d].token = x
      BY <2>2, <3>1 DEF Inv, Held
    <3>3. Has(d)' /\ calls'[d].token = x
      BY <2>1, <3>2 DEF Handled, Has
    <3>4. QED
      BY <3>3
  <2>3. CASE x \notin DOMAIN table
    <3>1. PICK kind \in Kinds : NewToken(c, kind) /\ x = Token(kind)
      BY <2>1, <2>3 DEF Handled, OldToken, NewToken
    <3>2. QED
      BY <3>1, TokenIs DEF NewToken, Has, Inv
  <2>4. QED
    BY <2>2, <2>3
<1>9. ASSUME NEW d \in Calls, d # c PROVE Sound(d)'
  <2>1. calls'[d] = calls[d] /\ hits'[d] = hits[d] /\ Sound(d)
    BY <1>9 DEF Handled, Inv
  <2>2. Evident(d)'
    <3>1. SUFFICES ASSUME Has(d)', calls'[d].token \in DOMAIN table'
                   PROVE  /\ Has(d) /\ calls[d].token \in DOMAIN table
                          /\ table'[calls[d].token] = table[calls[d].token]
      BY <2>1 DEF Sound, Evident, Has
    <3>2. Has(d) /\ calls[d].token = calls'[d].token
      BY <2>1, <3>1 DEF Has
    <3>3. calls[d].token \in DOMAIN table
      <4>1. ASSUME NEW kind \in Kinds, calls[d].token = Token(kind) PROVE FALSE
        BY <1>5, <3>2, <4>1 DEF Inv, TokenInv
      <4>2. QED
        BY <3>1, <3>2, <4>1 DEF Handled, OldToken, NewToken
    <3>4. ~(Has(c) /\ calls[d].token = calls[c].token)
      BY <1>9, <3>2 DEF Inv, TokenInv
    <3>5. QED
      BY <3>1, <3>2, <3>3, <3>4 DEF Handled
  <2>3. Fresh(d)' /\ CreditedRight(d)'
    BY <2>1 DEF Sound, Fresh, CreditedRight
  <2>4. BookedRight(d)'
    BY <1>1, <2>1 DEF Sound, BookedRight, Handled
  <2>5. QED
    BY <2>2, <2>3, <2>4 DEF Sound
<1>10. QED
  BY <1>7, <1>8, <1>9 DEF Inv
----------------------------------------------------------------------------
(***************************************************************************)
(* The two things that a handler does with tokens: it goes on without one, *)
(* or it begins a new one.                                                 *)
(***************************************************************************)
Frame(c) ==
  /\ UNCHANGED <<engine, epoch, left>>
  /\ strayed' \in BOOLEAN /\ failed' \in BOOLEAN
  /\ (strayed => strayed') /\ (failed => failed')
  /\ calls' \in [Calls -> CallRecords \cup {None}] /\ hits' \in [Calls -> HitRecords]
  /\ \A d \in Calls : d # c => calls'[d] = calls[d] /\ hits'[d] = hits[d]

\* t is the table, or what is left of it when the token of c has been aborted.
Left(c, t) ==
  /\ DOMAIN t \subseteq DOMAIN table
  /\ \A x \in DOMAIN t : t[x] = table[x]
  /\ Watched' /\ Has(c) => calls[c].token \notin DOMAIN t

LEMMA ReleaseKeeps ==
  ASSUME Inv, NEW c \in Calls, Frame(c), Left(c, table'),
         last' = last \/ \E kind \in Kinds : last' = [last EXCEPT ![kind] = @ + 1],
         calls'[c] = None \/ calls'[c].token = None,
         Fresh(c)', BookedRight(c)', CreditedRight(c)'
  PROVE  Inv'
<1>1. last' \in [Kinds -> Nat]
  BY DEF Inv, TypeOK
<1>2. TypeOK'
  BY <1>1 DEF Inv, TypeOK, Frame, Left
<1>3. OldToken(c)
  BY DEF OldToken, Left
<1>4. Handled(c)
  BY <1>3 DEF Handled, Frame, Left
<1>5. Sound(c)'
  BY DEF Sound, Evident, Has
<1>6. QED
  BY <1>2, <1>4, <1>5, HandledKeeps

LEMMA BeginKeeps ==
  ASSUME Inv, NEW c \in Calls, Frame(c), NEW kind \in Kinds, NEW t, Left(c, t),
         NEW facts \in Evidence, NEW results \in SUBSET (Calls \X (1..MaxReports)),
         table' = Begun(t, kind, facts, results),
         last' = [last EXCEPT ![kind] = @ + 1],
         calls'[c] # None, calls'[c].token = Token(kind), calls'[c].epoch = engine.sequence,
         Sound(c)'
  PROVE  Inv'
<1>1. last' \in [Kinds -> Nat]
  BY DEF Inv, TypeOK
<1>2. /\ DOMAIN table' = DOMAIN t \cup {Token(kind)}
      /\ table'[Token(kind)] = [facts |-> facts, results |-> results]
      /\ \A x \in DOMAIN t : x # Token(kind) => table'[x] = t[x]
  BY DEF Begun
<1>3. Token(kind) \in Tokens /\ ~Given(Token(kind))
  BY TokenIs DEF Inv, TypeOK, Given
<1>4. \A x \in DOMAIN table : x # Token(kind)
  <2>1. \A x \in DOMAIN table : Given(x)
    BY DEF Inv, TypeOK, TokenInv, Given
  <2>2. QED
    BY <1>3, <2>1
<1>5. [facts |-> facts, results |-> results] \in Groups
  BY DEF Groups
<1>6. \A x \in DOMAIN table' : x \in Tokens /\ table'[x] \in Groups
  BY <1>2, <1>3, <1>5 DEF Inv, TypeOK, Left
<1>7. TypeOK'
  BY <1>1, <1>6 DEF Inv, TypeOK, Frame
<1>8. NewToken(c, kind)
  BY <1>2 DEF NewToken, Left
<1>9. Has(c) => calls[c].token # Token(kind)
  BY <1>3 DEF Inv, TokenInv
<1>10. Handled(c)
  BY <1>2, <1>4, <1>8, <1>9 DEF Handled, Frame, Left
<1>11. QED
  BY <1>7, <1>10, HandledKeeps

----------------------------------------------------------------------------
(***************************************************************************)
(* What a call has left behind is aborted, or nobody will notice.          *)
(***************************************************************************)
LEMMA LeftByAborting ==
  ASSUME Inv, NEW c \in Calls, UNCHANGED engine
  PROVE  Left(c, Aborted(table, calls[c].token))
BY AbortedIs DEF Left, Watched

LEMMA LeftByAbandoning ==
  ASSUME Inv, NEW c \in Calls, NEW on \in BOOLEAN, calls[c] # None,
         strayed' = Strays(c, on), UNCHANGED <<engine, epoch, left>>
  PROVE  Left(c, Abandoned(calls[c], on))
<1>1. /\ DOMAIN Abandoned(calls[c], on) \subseteq DOMAIN table
      /\ \A x \in DOMAIN Abandoned(calls[c], on) : Abandoned(calls[c], on)[x] = table[x]
  BY AbortedIs DEF Abandoned
<1>2. ASSUME Watched', Has(c), calls[c].token \in DOMAIN Abandoned(calls[c], on)
      PROVE  FALSE
  <2>1. calls[c].token[2] = engine.sequence /\ calls[c].token[2] = calls[c].epoch
    BY <1>1, <1>2 DEF Inv, TokenInv
  <2>2. calls[c].epoch = epoch /\ epoch # None /\ ~left /\ engine.on
    BY <1>2, <2>1, Limits DEF Watched, Inv, TypeOK
  <2>3. on
    BY <1>2, <2>2 DEF Watched, Strays, Valid
  <2>4. QED
    BY <1>2, <2>2, <2>3, AbortedIs DEF Abandoned, Valid
<1>3. QED
  BY <1>1, <1>2 DEF Left

LEMMA StraysType ==
  ASSUME Inv, NEW c \in Calls, NEW on \in BOOLEAN
  PROVE  /\ Strays(c, on) \in BOOLEAN
         /\ strayed => Strays(c, on)
BY DEF Strays, Valid, Inv, TypeOK

\* One call and its hit are replaced.
LEMMA OneCall ==
  ASSUME Inv, NEW c \in Calls, NEW k \in CallRecords \cup {None}, NEW h \in HitRecords,
         calls' = [calls EXCEPT ![c] = k], hits' = [hits EXCEPT ![c] = h],
         UNCHANGED <<engine, epoch, left>>,
         strayed' \in BOOLEAN, failed' \in BOOLEAN, strayed => strayed', failed => failed'
  PROVE  Frame(c) /\ calls'[c] = k /\ hits'[c] = h
BY DEF Frame, Inv, TypeOK

\* Nothing is booked for a hit that has just begun, or for no hit at all.
LEMMA Unbooked ==
  ASSUME NEW c \in Calls, NEW h, hits'[c] = h, ~h.reported, h.with = None,
         \A i \in 1..MaxReports : h.booked[i] = 0
  PROVE  Fresh(c)' /\ BookedRight(c)' /\ CreditedRight(c)'
BY DEF Fresh, BookedRight, CreditedRight
----------------------------------------------------------------------------
(***************************************************************************)
(* The Damage calls up to their results.                                   *)
(***************************************************************************)
LEMMA EpochsOfEntry ==
  ASSUME Inv, NEW e \in EntryEpochs
  PROVE  e \in Nat \cup {None}
BY DEF EntryEpochs, Inv, TypeOK

LEMMA CallsTyped ==
  ASSUME Inv, NEW c \in Calls, calls[c] # None
  PROVE  /\ calls[c] \in CallRecords
         /\ calls[c].epoch \in Nat \cup {None} /\ calls[c].phase \in Phases
         /\ calls[c].token \in Tokens \cup {None}
BY DEF Inv, TypeOK, CallRecords

LEMMA ValidIsPresent ==
  ASSUME Inv, NEW e, NEW on, Valid(e, on)
  PROVE  e = engine.sequence
BY DEF Valid, Inv, TypeOK

LEMMA PrefixKeeps ==
  ASSUME Inv, NEW c \in Calls, NEW e \in EntryEpochs, Prefix(c, e)
  PROVE  Inv'
<1> DEFINE k == Call(e, "between", None)
<1>1. e \in Nat \cup {None}
  BY EpochsOfEntry
<1>2. k \in CallRecords /\ k # None /\ k.phase = "between" /\ k.token = None
  BY <1>1, IdleType
<1>3. calls' = [calls EXCEPT ![c] = k] /\ hits' = [hits EXCEPT ![c] = NoHit] /\ calls[c] = None
  BY DEF Prefix
<1> HIDE DEF k
<1>4. UNCHANGED <<native, shim, failed>>
  BY DEF Prefix
<1>5. Frame(c) /\ calls'[c] = k /\ hits'[c] = NoHit
  BY <1>2, <1>3, <1>4, NoHitType, OneCall DEF native, shim, Inv, TypeOK
<1>6. Left(c, table')
  BY <1>3, <1>4 DEF Left, Has, native
<1>7. Fresh(c)' /\ BookedRight(c)' /\ CreditedRight(c)'
  BY <1>5, NoHitType, Unbooked
<1>8. QED
  BY <1>2, <1>4, <1>5, <1>6, <1>7, ReleaseKeeps DEF native

LEMMA ThrowKeeps ==
  ASSUME Inv, NEW c \in Calls, Throw(c)
  PROVE  Inv'
<1> DEFINE k == Call(calls[c].epoch, "between", None)
<1>1. calls[c] # None /\ calls[c].epoch \in Nat \cup {None}
  BY CallsTyped DEF Throw, In
<1>2. k \in CallRecords /\ k # None /\ k.phase = "between" /\ k.token = None
  BY <1>1, IdleType
<1>3. /\ calls' = [calls EXCEPT ![c] = k] /\ hits' = [hits EXCEPT ![c] = NoHit]
      /\ table' = Aborted(table, calls[c].token)
      /\ UNCHANGED <<engine, last, shim, failed>>
  BY DEF Throw
<1> HIDE DEF k
<1>4. Frame(c) /\ calls'[c] = k /\ hits'[c] = NoHit
  BY <1>2, <1>3, NoHitType, OneCall DEF shim, Inv, TypeOK
<1>5. Left(c, table')
  BY <1>3, LeftByAborting
<1>6. Fresh(c)' /\ BookedRight(c)' /\ CreditedRight(c)'
  BY <1>4, NoHitType, Unbooked
<1>7. QED
  BY <1>2, <1>3, <1>4, <1>5, <1>6, ReleaseKeeps

LEMMA EndKeeps ==
  ASSUME Inv, NEW c \in Calls, NEW on \in BOOLEAN, End(c, on)
  PROVE  Inv'
<1>1. /\ calls' = [calls EXCEPT ![c] = None] /\ hits' = [hits EXCEPT ![c] = NoHit]
      /\ table' = Abandoned(calls[c], on) /\ strayed' = Strays(c, on)
      /\ UNCHANGED <<engine, last, epoch, left, failed>> /\ calls[c] # None
  BY DEF End, In
<1>2. strayed' \in BOOLEAN /\ (strayed => strayed')
  BY <1>1, StraysType
<1>3. Frame(c) /\ calls'[c] = None /\ hits'[c] = NoHit
  BY <1>1, <1>2, NoHitType, OneCall DEF Inv, TypeOK
<1>4. Left(c, table')
  BY <1>1, LeftByAbandoning
<1>5. Fresh(c)' /\ BookedRight(c)' /\ CreditedRight(c)'
  BY <1>3, NoHitType, Unbooked
<1>6. QED
  BY <1>1, <1>3, <1>4, <1>5, ReleaseKeeps

LEMMA ModifyDamageKeeps ==
  ASSUME Inv, NEW c \in Calls, NEW facts \in (SUBSET Early) \cup (SUBSET Late), NEW on \in BOOLEAN,
         ModifyDamage(c, facts, on)
  PROVE  Inv'
<1> DEFINE k == calls[c]
           t == Abandoned(k, on)
           h == Hit(k.epoch, facts, 0)
           out == Call(k.epoch, "inside", None)
           in == Call(k.epoch, "inside", Token("calculation"))
           told == {<<c, f>> : f \in facts \cap Early}
<1>1. k # None /\ k.epoch \in Nat \cup {None} /\ facts \in SUBSET (Early \cup Late)
  BY CallsTyped DEF ModifyDamage, In
<1>2. /\ h \in HitRecords /\ h.facts = facts /\ ~h.reported /\ h.with = None
      /\ \A i \in 1..MaxReports : h.booked[i] = 0
  <2> DEFINE e == k.epoch
  <2>1. e \in Nat \cup {None} /\ 0 \in 0..MaxReports /\ facts \in SUBSET (Early \cup Late)
    BY <1>1, Limits
  <2> HIDE DEF e
  <2>2. LET g == Hit(e, facts, 0)
        IN  /\ g \in HitRecords /\ g.facts = facts /\ ~g.reported /\ g.with = None
            /\ \A i \in 1..MaxReports : g.booked[i] = 0
    BY <2>1, HitType
  <2>3. QED
    BY <2>2 DEF e
<1>3. /\ UNCHANGED <<engine, epoch, left>> /\ strayed' = Strays(c, on)
      /\ strayed' \in BOOLEAN /\ (strayed => strayed') /\ hits' = [hits EXCEPT ![c] = h]
  BY StraysType DEF ModifyDamage
<1>4. Left(c, t)
  BY <1>1, <1>3, LeftByAbandoning
<1>5. "calculation" \in Kinds
  BY DEF Kinds
<1>6. /\ out \in CallRecords /\ out # None /\ out.token = None
      /\ in \in CallRecords /\ in # None /\ in.token = Token("calculation")
      /\ in.epoch = k.epoch /\ in.phase = "inside"
  <2>1. /\ "inside" \in Phases /\ None \in Tokens \cup {None}
        /\ Token("calculation") \in Tokens \cup {None}
    BY <1>5, TokenIs DEF Phases, Inv
  <2> DEFINE e == k.epoch
  <2>2. e \in Nat \cup {None}
    BY <1>1
  <2> HIDE DEF e
  <2>3. out \in CallRecords /\ out # None /\ out.token = None
    <3>1. LET r == Call(e, "inside", None) IN r \in CallRecords /\ r # None /\ r.token = None
      BY <2>1, <2>2, CallType
    <3>2. QED
      BY <3>1 DEF e
  <2>4. /\ in \in CallRecords /\ in # None /\ in.token = Token("calculation")
        /\ in.epoch = k.epoch /\ in.phase = "inside"
    <3>1. LET r == Call(e, "inside", Token("calculation"))
          IN  /\ r \in CallRecords /\ r # None /\ r.token = Token("calculation")
              /\ r.epoch = e /\ r.phase = "inside"
      BY <2>1, <2>2, CallType
    <3>2. QED
      BY <3>1 DEF e
  <2>5. QED
    BY <2>3, <2>4
<1>7. /\ failed' \in BOOLEAN /\ (failed => failed')
      /\ \/ /\ calls' = [calls EXCEPT ![c] = out] /\ table' = t
            /\ last' = last \/ last' = [last EXCEPT !["calculation"] = @ + 1]
         \/ /\ calls' = [calls EXCEPT ![c] = in]
            /\ Valid(k.epoch, on)
            /\ table' = Begun(t, "calculation", told, {})
            /\ last' = [last EXCEPT !["calculation"] = @ + 1]
  <2> HIDE DEF t, out, in, told
  <2>1. failed \in BOOLEAN
    BY DEF Inv, TypeOK
  <2>2. \/ /\ calls' = [calls EXCEPT ![c] = out] /\ table' = t
           /\ UNCHANGED <<last, failed>>
        \/ /\ calls' = [calls EXCEPT ![c] = out] /\ table' = t
           /\ last' \in {last} \cup (IF Admits(t, "calculation") THEN {[last EXCEPT !.calculation = @ + 1]} ELSE {})
           /\ failed' = TRUE
        \/ /\ calls' = [calls EXCEPT ![c] = in]
           /\ Valid(k.epoch, on)
           /\ table' = Begun(t, "calculation", told, {})
           /\ last' = [last EXCEPT !.calculation = @ + 1]
           /\ UNCHANGED failed
    BY DEF ModifyDamage, t, out, in, told
  <2>3. QED
    BY <2>1, <2>2
<1>8. CASE /\ calls' = [calls EXCEPT ![c] = out] /\ table' = t
           /\ last' = last \/ last' = [last EXCEPT !["calculation"] = @ + 1]
  <2> HIDE DEF k, t, h, out
  <2>1. Frame(c) /\ calls'[c] = out /\ hits'[c] = h
    BY <1>2, <1>3, <1>6, <1>7, <1>8, OneCall
  <2>2. Fresh(c)' /\ BookedRight(c)' /\ CreditedRight(c)'
    BY <1>2, <2>1, Unbooked
  <2>3. QED
    BY <1>4, <1>5, <1>6, <1>8, <2>1, <2>2, ReleaseKeeps
<1>9. CASE /\ calls' = [calls EXCEPT ![c] = in]
           /\ Valid(k.epoch, on)
           /\ table' = Begun(t, "calculation", told, {})
           /\ last' = [last EXCEPT !["calculation"] = @ + 1]
  <2>1. told \in Evidence
    BY <1>1 DEF Evidence
  <2>2. k.epoch = engine.sequence
    BY <1>9, ValidIsPresent
  <2> HIDE DEF k, t, h, in
  <2>3. Frame(c) /\ calls'[c] = in /\ hits'[c] = h
    BY <1>2, <1>3, <1>6, <1>7, <1>9 DEF Frame, Inv, TypeOK
  <2>4. Fresh(c)' /\ BookedRight(c)' /\ CreditedRight(c)'
    BY <1>2, <2>3, Unbooked
  <2>5. table'[Token("calculation")] = [facts |-> told, results |-> {}]
    BY <1>9 DEF Begun
  <2>6. told = Of(c, h.facts \cap Early)
    BY <1>2 DEF Of
  <2> HIDE DEF told
  <2>7. Evident(c)'
    BY <1>6, <2>3, <2>5, <2>6 DEF Evident
  <2>8. Sound(c)'
    BY <2>4, <2>7 DEF Sound
  <2>9. {} \in SUBSET (Calls \X (1..MaxReports))
    OBVIOUS
  <2>10. QED
    BY <1>4, <1>5, <1>6, <1>9, <2>1, <2>2, <2>3, <2>8, <2>9, BeginKeeps
<1>10. QED
  BY <1>7, <1>8, <1>9
LEMMA ContributeKeeps ==
  ASSUME Inv, NEW c \in Calls, NEW told \in SUBSET Late, Contribute(c, told)
  PROVE  Inv'
<1> DEFINE k == calls[c]
           late == hits[c].facts \cap Late
<1>1. /\ k # None /\ k.phase = "inside"
      /\ k \in CallRecords /\ k.epoch \in Nat \cup {None} /\ k.token \in Tokens \cup {None}
  BY CallsTyped DEF Contribute, In
<1>2. /\ hits' = hits /\ UNCHANGED <<engine, last, epoch, left, strayed>>
      /\ strayed \in BOOLEAN /\ failed \in BOOLEAN
      /\ hits \in [Calls -> HitRecords] /\ calls \in [Calls -> CallRecords \cup {None}]
      /\ hits[c].facts \in SUBSET (Early \cup Late)
  BY DEF Contribute, shim, Inv, TypeOK, HitRecords
<1>3. /\ Fresh(c) /\ BookedRight(c) /\ CreditedRight(c) /\ Evident(c)
      /\ k.phase # "between"
  BY <1>1 DEF Inv, Sound
<1>4. \/ /\ k.token = None \/ late = {}
         /\ calls' = [calls EXCEPT ![c].phase = "hit"]
         /\ UNCHANGED <<table, failed>>
      \/ /\ k.token # None /\ told = late /\ Open(k.token)
         /\ table' = [table EXCEPT ![k.token].facts = @ \cup {<<c, f>> : f \in told}]
         /\ calls' = [calls EXCEPT ![c] = Call(k.epoch, "hit", k.token)]
         /\ failed' = failed
      \/ /\ table' = Aborted(table, k.token)
         /\ calls' = [calls EXCEPT ![c] = Call(k.epoch, "hit", None)]
         /\ failed' = TRUE
  BY <1>2 DEF Contribute, Told
<1>5. CASE /\ table' = Aborted(table, k.token)
           /\ calls' = [calls EXCEPT ![c] = Call(k.epoch, "hit", None)]
           /\ failed' = TRUE
  <2> DEFINE r == Call(k.epoch, "hit", None)
  <2>1. "hit" \in Phases /\ None \in Tokens \cup {None}
    BY DEF Phases
  <2>2. r \in CallRecords /\ r # None /\ r.token = None /\ r.phase = "hit"
    <3> DEFINE e == k.epoch
    <3>1. e \in Nat \cup {None}
      BY <1>1
    <3> HIDE DEF e
    <3>2. LET x == Call(e, "hit", None) IN x \in CallRecords /\ x # None /\ x.token = None /\ x.phase = "hit"
      BY <2>1, <3>1, CallType
    <3>3. QED
      BY <3>2 DEF e
  <2>3. calls' = [calls EXCEPT ![c] = r]
    BY <1>5
  <2> HIDE DEF r
  <2>4. Frame(c) /\ calls'[c] = r
    BY <1>2, <1>5, <2>2, <2>3 DEF Frame
  <2>5. Left(c, table')
    BY <1>2, <1>5, LeftByAborting
  <2>6. Fresh(c)' /\ BookedRight(c)' /\ CreditedRight(c)'
    BY <1>1, <1>2, <1>3, <1>5 DEF Fresh, BookedRight, CreditedRight
  <2>7. QED
    BY <1>2, <2>2, <2>4, <2>5, <2>6, ReleaseKeeps
<1>6. ASSUME calls'[c] \in CallRecords, calls'[c] # None,
             calls'[c].epoch = k.epoch, calls'[c].token = k.token, calls'[c].phase = "hit",
             calls' \in [Calls -> CallRecords \cup {None}],
             \A d \in Calls : d # c => calls'[d] = calls[d],
             failed' = failed, DOMAIN table' = DOMAIN table,
             \A x \in DOMAIN table : ~(Has(c) /\ x = k.token) => table'[x] = table[x],
             Has(c) /\ k.token \in DOMAIN table =>
               table'[k.token].facts = Of(c, hits[c].facts) /\ table'[k.token].results = {},
             \A x \in DOMAIN table : table'[x] \in Groups
      PROVE  Inv'
  <2>1. TypeOK'
    BY <1>2, <1>6 DEF Inv, TypeOK
  <2>2. OldToken(c)
    BY <1>1, <1>2, <1>6 DEF OldToken
  <2>3. Handled(c)
    BY <1>2, <1>6, <2>2 DEF Handled
  <2>4. Evident(c)'
    BY <1>1, <1>2, <1>6 DEF Evident, Has
  <2>5. Fresh(c)' /\ BookedRight(c)' /\ CreditedRight(c)'
    BY <1>1, <1>2, <1>3, <1>6 DEF Fresh, BookedRight, CreditedRight
  <2>6. QED
    BY <2>1, <2>3, <2>4, <2>5, HandledKeeps DEF Sound
<1>7. Has(c) /\ k.token \in DOMAIN table =>
        table[k.token].facts = Of(c, hits[c].facts \cap Early) /\ table[k.token].results = {}
  BY <1>1, <1>3 DEF Evident
<1>8. CASE /\ k.token = None \/ late = {}
           /\ calls' = [calls EXCEPT ![c].phase = "hit"]
           /\ UNCHANGED <<table, failed>>
  <2> DEFINE r == [k EXCEPT !.phase = "hit"]
  <2>1. "hit" \in Phases
    BY DEF Phases
  <2>2. r \in CallRecords /\ r.epoch = k.epoch /\ r.token = k.token /\ r.phase = "hit"
    BY <1>1, <2>1 DEF CallRecords
  <2>3. r # None
    BY <2>2, Limits
  <2>4. calls' = [calls EXCEPT ![c] = r]
    BY <1>8
  <2> HIDE DEF r
  <2>5. /\ calls'[c] = r /\ calls' \in [Calls -> CallRecords \cup {None}]
        /\ \A d \in Calls : d # c => calls'[d] = calls[d]
    BY <1>2, <2>2, <2>4
  <2>6. Has(c) => hits[c].facts \cap Early = hits[c].facts
    BY <1>2, <1>8 DEF Has
  <2>7. \A x \in DOMAIN table : table'[x] \in Groups
    BY <1>8 DEF Inv, TypeOK
  <2>8. QED
    BY <1>6, <1>7, <1>8, <2>2, <2>3, <2>5, <2>6, <2>7
<1>9. CASE /\ k.token # None /\ told = late /\ Open(k.token)
           /\ table' = [table EXCEPT ![k.token].facts = @ \cup {<<c, f>> : f \in told}]
           /\ calls' = [calls EXCEPT ![c] = Call(k.epoch, "hit", k.token)]
           /\ failed' = failed
  <2> DEFINE r == Call(k.epoch, "hit", k.token)
             new == table[k.token].facts \cup Of(c, told)
  <2>1. "hit" \in Phases
    BY DEF Phases
  <2>2. r \in CallRecords /\ r # None /\ r.token = k.token /\ r.phase = "hit" /\ r.epoch = k.epoch
    <3> DEFINE e == k.epoch
               token == k.token
    <3>1. e \in Nat \cup {None} /\ token \in Tokens \cup {None}
      BY <1>1
    <3> HIDE DEF e, token
    <3>2. LET x == Call(e, "hit", token)
          IN  x \in CallRecords /\ x # None /\ x.token = token /\ x.phase = "hit" /\ x.epoch = e
      BY <2>1, <3>1, CallType
    <3>3. QED
      BY <3>2 DEF e, token
  <2>3. calls' = [calls EXCEPT ![c] = r]
    BY <1>9
  <2> HIDE DEF r
  <2>4. /\ calls'[c] = r /\ calls' \in [Calls -> CallRecords \cup {None}]
        /\ \A d \in Calls : d # c => calls'[d] = calls[d]
    BY <1>2, <2>2, <2>3
  <2>5. k.token \in DOMAIN table /\ Has(c) /\ table[k.token] \in Groups
    BY <1>1, <1>9 DEF Open, Has, Inv, TypeOK
  <2>6. new = Of(c, hits[c].facts)
    BY <1>2, <1>7, <1>9, <2>5 DEF Of
  <2>7. new \in Evidence
    BY <1>2, <2>6 DEF Evidence, Of
  <2>8. table' = [table EXCEPT ![k.token] = [@ EXCEPT !.facts = new]]
    BY <1>9 DEF Of
  <2> HIDE DEF new
  <2>9. /\ [table[k.token] EXCEPT !.facts = new] \in Groups
        /\ [table[k.token] EXCEPT !.facts = new].facts = new
        /\ [table[k.token] EXCEPT !.facts = new].results = table[k.token].results
    BY <2>5, <2>7 DEF Groups
  <2>10. /\ DOMAIN table' = DOMAIN table
         /\ table'[k.token] = [table[k.token] EXCEPT !.facts = new]
         /\ \A x \in DOMAIN table : x # k.token => table'[x] = table[x]
    BY <2>5, <2>8
  <2>11. \A x \in DOMAIN table : table'[x] \in Groups
    BY <2>9, <2>10 DEF Inv, TypeOK
  <2>12. table'[k.token].facts = Of(c, hits[c].facts) /\ table'[k.token].results = {}
    BY <1>7, <2>5, <2>6, <2>9, <2>10
  <2>13. QED
    BY <1>6, <1>9, <2>2, <2>4, <2>5, <2>10, <2>11, <2>12
<1>10. QED
  BY <1>4, <1>5, <1>8, <1>9
----------------------------------------------------------------------------
(***************************************************************************)
(* Results: what is booked for a hit, by its group or one by one.          *)
(***************************************************************************)
\* h is the hit g with some of its results booked.
AddedTo(g, h) ==
  /\ h \in HitRecords /\ h.combat = g.combat /\ h.facts = g.facts /\ h.size = g.size
  /\ h.reported = g.reported

LEMMA BookedIs ==
  ASSUME NEW books \in [Calls -> HitRecords], NEW c \in Calls, NEW n \in 0..MaxReports,
         NEW group, group.results = Results(c, n), group.facts \in Evidence
  PROVE  LET now == Booked(books, group)
         IN  /\ now \in [Calls -> HitRecords]
             /\ \A d \in Calls : d # c => now[d] = books[d]
             /\ AddedTo(books[c], now[c])
             /\ \A i \in 1..MaxReports : now[c].booked[i] = books[c].booked[i] + IF i <= n THEN 1 ELSE 0
             /\ now[c].with \in {books[c].with, group.facts}
<1> DEFINE mine(d) == {i \in 1..MaxReports : <<d, i>> \in group.results}
           counts(d) == [i \in 1..MaxReports |-> books[d].booked[i] + IF i \in mine(d) THEN 1 ELSE 0]
           with(d) == IF mine(d) # {} THEN group.facts ELSE books[d].with
           hit(d) == [books[d] EXCEPT !.booked = counts(d), !.with = with(d)]
<1>1. Booked(books, group) = [d \in Calls |-> hit(d)]
  BY DEF Booked
<1>2. \A d \in Calls : mine(d) = IF d = c THEN 1..n ELSE {}
  BY Limits DEF Results
<1>3. ASSUME NEW d \in Calls
      PROVE  /\ hit(d) \in HitRecords /\ AddedTo(books[d], hit(d))
             /\ hit(d).booked = counts(d) /\ hit(d).with = with(d)
  <2>1. books[d] \in HitRecords /\ \A i \in 1..MaxReports : books[d].booked[i] \in Nat
    BY DEF HitRecords
  <2>2. counts(d) \in [1..MaxReports -> Nat]
    BY <2>1
  <2>3. with(d) \in Evidence \cup {None}
    BY <2>1 DEF HitRecords
  <2> HIDE DEF counts, with
  <2>4. QED
    BY <2>1, <2>2, <2>3 DEF HitRecords, AddedTo
<1>4. ASSUME NEW d \in Calls, d # c PROVE hit(d) = books[d]
  <2>1. books[d] \in HitRecords /\ \A i \in 1..MaxReports : books[d].booked[i] \in Nat
    BY DEF HitRecords
  <2>2. mine(d) = {}
    BY <1>2, <1>4
  <2>3. counts(d) = books[d].booked
    <3>1. books[d].booked \in [1..MaxReports -> Nat]
      BY <2>1 DEF HitRecords
    <3>2. \A i \in 1..MaxReports : counts(d)[i] = books[d].booked[i]
      BY <2>1, <2>2
    <3> HIDE DEF counts
    <3>3. counts(d) \in [1..MaxReports -> Nat] /\ DOMAIN counts(d) = 1..MaxReports
      BY <2>1, <3>1, <3>2 DEF counts
    <3>4. /\ counts(d) = [i \in 1..MaxReports |-> counts(d)[i]]
          /\ books[d].booked = [i \in 1..MaxReports |-> books[d].booked[i]]
      BY <3>1, <3>3
    <3>5. QED
      BY <3>2, <3>4
  <2>4. with(d) = books[d].with
    BY <2>2
  <2> HIDE DEF counts, with, mine
  <2>5. QED
    BY <2>1, <2>3, <2>4 DEF HitRecords
<1>5. \A i \in 1..MaxReports : counts(c)[i] = books[c].booked[i] + IF i <= n THEN 1 ELSE 0
  <2>1. mine(c) = 1..n
    BY <1>2
  <2>2. \A i \in 1..MaxReports : i \in 1..n <=> i <= n
    BY Limits
  <2> HIDE DEF mine
  <2>3. QED
    BY <2>1, <2>2
<1>6. with(c) \in {books[c].with, group.facts}
  OBVIOUS
<1> HIDE DEF hit, counts, with
<1>7. QED
  BY <1>1, <1>3, <1>4, <1>5, <1>6

LEMMA BookedAloneIs ==
  ASSUME NEW books \in [Calls -> HitRecords], NEW c \in Calls, NEW S
  PROVE  LET now == BookedAlone(books, c, S)
         IN  /\ now \in [Calls -> HitRecords]
             /\ \A d \in Calls : d # c => now[d] = books[d]
             /\ AddedTo(books[c], now[c])
             /\ \A i \in 1..MaxReports : now[c].booked[i] = books[c].booked[i] + IF i \in S THEN 1 ELSE 0
             /\ now[c].with = books[c].with
<1> DEFINE counts == [i \in 1..MaxReports |-> books[c].booked[i] + IF i \in S THEN 1 ELSE 0]
           hit == [books[c] EXCEPT !.booked = counts]
<1>1. BookedAlone(books, c, S) = [books EXCEPT ![c] = hit]
  BY DEF BookedAlone
<1>2. books[c] \in HitRecords /\ \A i \in 1..MaxReports : books[c].booked[i] \in Nat
  BY DEF HitRecords
<1>3. counts \in [1..MaxReports -> Nat]
  BY <1>2
<1>4. \A i \in 1..MaxReports : counts[i] = books[c].booked[i] + IF i \in S THEN 1 ELSE 0
  OBVIOUS
<1> HIDE DEF counts
<1>5. /\ hit \in HitRecords /\ hit.booked = counts /\ hit.with = books[c].with
      /\ AddedTo(books[c], hit)
  BY <1>2, <1>3 DEF HitRecords, AddedTo
<1> HIDE DEF hit
<1>6. QED
  BY <1>1, <1>4, <1>5
LEMMA SettleIs ==
  ASSUME Inv, NEW c \in Calls, calls[c] # None, calls[c].phase # "between",
         NEW n \in 0..MaxReports, NEW appended, NEW fits \in BOOLEAN,
         Settle(c, n, appended, fits), UNCHANGED engine,
         Open(calls[c].token) =>
           LET group == table[calls[c].token]
           IN  /\ group.facts = Of(c, hits[c].facts)
               /\ group.results \cup appended = Results(c, n)
  PROVE  /\ table' = Aborted(table, calls[c].token)
         /\ failed' \in BOOLEAN /\ (failed => failed')
         /\ hits' \in [Calls -> HitRecords]
         /\ \A d \in Calls : d # c => hits'[d] = hits[d]
         /\ BookedRight(c)' /\ CreditedRight(c)'
<1> DEFINE token == calls[c].token
           s == [hits[c] EXCEPT !.size = n, !.reported = TRUE]
           seen == [hits EXCEPT ![c].size = n, ![c].reported = TRUE]
<1>1. /\ hits \in [Calls -> HitRecords] /\ failed \in BOOLEAN /\ engine.on \in BOOLEAN
      /\ hits[c] \in HitRecords
  BY DEF Inv, TypeOK
<1>2. hits[c].with = None /\ \A i \in 1..MaxReports : hits[c].booked[i] = 0
  BY DEF Inv, Sound, Fresh
<1>3. /\ s \in HitRecords /\ s.size = n /\ s.reported = TRUE /\ s.facts = hits[c].facts
      /\ s.combat = hits[c].combat /\ s.with = hits[c].with /\ s.booked = hits[c].booked
  BY <1>1 DEF HitRecords
<1>4. seen = [hits EXCEPT ![c] = s]
  BY <1>1
<1> HIDE DEF s
<1>5. /\ seen \in [Calls -> HitRecords] /\ seen[c] = s
      /\ \A d \in Calls : d # c => seen[d] = hits[d]
  BY <1>1, <1>3, <1>4
<1>6. /\ table' = Aborted(table, token)
      /\ \/ /\ fits
            /\ Open(token)
            /\ hits' = Booked(seen, [table[token] EXCEPT !.results = @ \cup appended])
            /\ UNCHANGED failed
         \/ \E S \in IF engine.on THEN SUBSET Fallbacks(token, n) ELSE {{}} :
               /\ hits' = BookedAlone(seen, c, S)
               /\ failed' = (failed \/ ~fits \/ token # None \/ S # Fallbacks(token, n))
  BY DEF Settle
<1> HIDE DEF seen
<1>7. SUFFICES /\ failed' \in BOOLEAN /\ (failed => failed')
               /\ hits' \in [Calls -> HitRecords]
               /\ \A d \in Calls : d # c => hits'[d] = seen[d]
               /\ BookedRight(c)' /\ CreditedRight(c)'
  BY <1>5, <1>6
<1>8. n \in Nat /\ 1..n \subseteq 1..MaxReports /\ \A i \in 1..MaxReports : i \in 1..n <=> i <= n
  BY Limits
<1>9. CASE /\ fits
           /\ Open(token)
           /\ hits' = Booked(seen, [table[token] EXCEPT !.results = @ \cup appended])
           /\ UNCHANGED failed
  <2> DEFINE group == [table[token] EXCEPT !.results = @ \cup appended]
  <2>1. table[token] \in Groups
    BY <1>9 DEF Open, Inv, TypeOK
  <2>2. group.facts = Of(c, s.facts) /\ group.results = Results(c, n) /\ group.facts \in Evidence
    BY <1>3, <1>9, <2>1 DEF Groups
  <2>3. hits' = Booked(seen, group)
    BY <1>9
  <2> HIDE DEF group
  <2>4. /\ hits' \in [Calls -> HitRecords]
        /\ \A d \in Calls : d # c => hits'[d] = seen[d]
        /\ AddedTo(s, hits'[c])
        /\ \A i \in 1..MaxReports : hits'[c].booked[i] = s.booked[i] + IF i <= n THEN 1 ELSE 0
        /\ hits'[c].with \in {s.with, group.facts}
    BY <1>5, <2>2, <2>3, BookedIs
  <2>5. \A i \in 1..MaxReports : hits'[c].booked[i] = (IF i <= n THEN 1 ELSE 0)
    BY <1>2, <1>3, <2>4
  <2>6. BookedRight(c)'
    BY <1>3, <1>8, <2>4, <2>5 DEF BookedRight, AddedTo
  <2>7. CreditedRight(c)'
    BY <1>2, <1>3, <1>8, <2>2, <2>4, <2>5 DEF CreditedRight, AddedTo
  <2>8. QED
    BY <1>1, <1>9, <2>4, <2>6, <2>7
<1>10. ASSUME NEW S \in (IF engine.on THEN SUBSET Fallbacks(token, n) ELSE {{}}),
              hits' = BookedAlone(seen, c, S),
              failed' = (failed \/ ~fits \/ token # None \/ S # Fallbacks(token, n))
       PROVE  /\ failed' \in BOOLEAN /\ (failed => failed')
              /\ hits' \in [Calls -> HitRecords]
              /\ \A d \in Calls : d # c => hits'[d] = seen[d]
              /\ BookedRight(c)' /\ CreditedRight(c)'
  <2>1. failed' \in BOOLEAN /\ (failed => failed') /\ (~failed' => S = 1..n) /\ S \subseteq 1..n
    BY <1>1, <1>10 DEF Fallbacks
  <2>2. /\ hits' \in [Calls -> HitRecords]
        /\ \A d \in Calls : d # c => hits'[d] = seen[d]
        /\ AddedTo(s, hits'[c])
        /\ \A i \in 1..MaxReports : hits'[c].booked[i] = s.booked[i] + IF i \in S THEN 1 ELSE 0
        /\ hits'[c].with = s.with
    BY <1>5, <1>10, BookedAloneIs
  <2>3. \A i \in 1..MaxReports : hits'[c].booked[i] = (IF i \in S THEN 1 ELSE 0)
    BY <1>2, <1>3, <2>2
  <2>4. BookedRight(c)'
    BY <1>3, <1>8, <2>1, <2>2, <2>3 DEF BookedRight, AddedTo
  <2>5. CreditedRight(c)'
    BY <1>2, <1>3, <2>2 DEF CreditedRight
  <2>6. QED
    BY <2>1, <2>2, <2>4, <2>5
<1>11. QED
  BY <1>6, <1>9, <1>10
LEMMA ReportKeeps ==
  ASSUME Inv, NEW c \in Calls, NEW n \in 1..MaxReports, NEW on \in BOOLEAN, NEW bad \in BOOLEAN,
         Report(c, n, on, bad)
  PROVE  Inv'
<1> DEFINE k == Call(calls[c].epoch, "between", None)
<1>1. calls[c] # None /\ calls[c].phase = "hit" /\ calls[c].epoch \in Nat \cup {None}
  BY CallsTyped DEF Report, In
<1>2. k \in CallRecords /\ k # None /\ k.phase = "between" /\ k.token = None
  BY <1>1, IdleType
<1>3. /\ calls' = [calls EXCEPT ![c] = k] /\ strayed' = Strays(c, on)
      /\ UNCHANGED <<engine, last, epoch, left>>
  BY DEF Report
<1>4. \/ /\ ~Valid(calls[c].epoch, on)
         /\ hits' = [hits EXCEPT ![c] = NoHit]
         /\ UNCHANGED <<table, failed>>
      \/ /\ Valid(calls[c].epoch, on)
         /\ table' = Aborted(table, calls[c].token)
         /\ hits' = [hits EXCEPT ![c] = NoHit]
         /\ failed' = TRUE
      \/ /\ Valid(calls[c].epoch, on)
         /\ Settle(c, n, {<<c, i>> : i \in 1..n}, n <= MaxResults)
  BY DEF Report
<1> HIDE DEF k
<1>5. strayed' \in BOOLEAN /\ (strayed => strayed')
  BY <1>3, StraysType
<1>6. /\ calls' \in [Calls -> CallRecords \cup {None}] /\ calls'[c] = k
      /\ \A d \in Calls : d # c => calls'[d] = calls[d]
  BY <1>2, <1>3 DEF Inv, TypeOK
<1>7. Fresh(c)'
  BY <1>2, <1>6 DEF Fresh
<1>8. /\ table' = Abandoned(calls[c], on)
      /\ failed' \in BOOLEAN /\ (failed => failed')
      /\ hits' \in [Calls -> HitRecords]
      /\ \A d \in Calls : d # c => hits'[d] = hits[d]
      /\ BookedRight(c)' /\ CreditedRight(c)'
  <2>1. /\ hits \in [Calls -> HitRecords] /\ failed \in BOOLEAN /\ NoHit \in HitRecords
    BY NoHitType DEF Inv, TypeOK
  <2>2. ASSUME hits' = [hits EXCEPT ![c] = NoHit]
        PROVE  /\ hits' \in [Calls -> HitRecords]
               /\ \A d \in Calls : d # c => hits'[d] = hits[d]
               /\ BookedRight(c)' /\ CreditedRight(c)'
    <3>1. /\ hits' \in [Calls -> HitRecords] /\ hits'[c] = NoHit
          /\ \A d \in Calls : d # c => hits'[d] = hits[d]
      BY <2>1, <2>2
    <3>2. QED
      BY <3>1, NoHitType, Unbooked
  <2>3. CASE /\ ~Valid(calls[c].epoch, on)
             /\ hits' = [hits EXCEPT ![c] = NoHit]
             /\ UNCHANGED <<table, failed>>
    BY <2>1, <2>2, <2>3 DEF Abandoned
  <2>4. CASE /\ Valid(calls[c].epoch, on)
             /\ table' = Aborted(table, calls[c].token)
             /\ hits' = [hits EXCEPT ![c] = NoHit]
             /\ failed' = TRUE
    BY <2>2, <2>4 DEF Abandoned
  <2>5. CASE /\ Valid(calls[c].epoch, on)
             /\ Settle(c, n, {<<c, i>> : i \in 1..n}, n <= MaxResults)
    <3> DEFINE fits == n <= MaxResults
    <3>1. /\ n \in 0..MaxReports /\ fits \in BOOLEAN /\ calls[c].phase # "between"
          /\ Settle(c, n, Results(c, n), fits) /\ UNCHANGED engine
      BY <1>1, <1>3, <2>5, Limits DEF Results
    <3> HIDE DEF fits
    <3>2. Open(calls[c].token) =>
            LET group == table[calls[c].token]
            IN  /\ group.facts = Of(c, hits[c].facts)
                /\ group.results \cup Results(c, n) = Results(c, n)
      <4>1. SUFFICES ASSUME Open(calls[c].token)
                     PROVE  LET group == table[calls[c].token]
                            IN  group.facts = Of(c, hits[c].facts) /\ group.results = {}
        OBVIOUS
      <4>2. calls[c].token \in DOMAIN table /\ Has(c)
        BY <1>1, <4>1, Limits DEF Open, Has, Inv, TypeOK
      <4>3. QED
        BY <1>1, <4>2 DEF Inv, Sound, Evident
    <3>3. table' = Aborted(table, calls[c].token)
      BY <1>1, <3>1, <3>2, SettleIs
    <3>4. /\ failed' \in BOOLEAN /\ (failed => failed')
          /\ hits' \in [Calls -> HitRecords]
          /\ \A d \in Calls : d # c => hits'[d] = hits[d]
          /\ BookedRight(c)' /\ CreditedRight(c)'
      BY <1>1, <3>1, <3>2, SettleIs
    <3>5. QED
      BY <2>5, <3>3, <3>4 DEF Abandoned
  <2>6. QED
    BY <1>4, <2>3, <2>4, <2>5
<1>9. Left(c, table')
  BY <1>1, <1>3, <1>8, LeftByAbandoning
<1>10. Frame(c)
  BY <1>3, <1>5, <1>6, <1>8 DEF Frame
<1>11. QED
  BY <1>2, <1>3, <1>6, <1>7, <1>8, <1>9, <1>10, ReleaseKeeps

----------------------------------------------------------------------------
(***************************************************************************)
(* The Doom kills.                                                         *)
(***************************************************************************)
LEMMA DoomPrefixKeeps ==
  ASSUME Inv, NEW c \in Calls, NEW e \in EntryEpochs, NEW n \in 0..MaxReports,
         NEW captured \in BOOLEAN, NEW odd \in BOOLEAN, DoomPrefix(c, e, n, captured, odd)
  PROVE  Inv'
<1> DEFINE token == Token("batch")
           out == Call(e, "killing", None)
           in == Call(e, "killing", token)
           h(size) == Hit(e, {}, size)
           all == {<<c, i>> : i \in 1..n}
<1>1. /\ e \in Nat \cup {None} /\ {} \in SUBSET (Early \cup Late) /\ 0 \in 0..MaxReports
      /\ "batch" \in Kinds /\ "killing" \in Phases
  BY EpochsOfEntry, Limits DEF Kinds, Phases
<1>2. \A size \in 0..MaxReports :
        /\ h(size) \in HitRecords /\ h(size).facts = {} /\ h(size).size = size
        /\ ~h(size).reported /\ h(size).with = None
        /\ \A i \in 1..MaxReports : h(size).booked[i] = 0
  <2>1. ASSUME NEW size \in 0..MaxReports
        PROVE  LET g == Hit(e, {}, size)
               IN  /\ g \in HitRecords /\ g.facts = {} /\ g.size = size
                   /\ ~g.reported /\ g.with = None
                   /\ \A i \in 1..MaxReports : g.booked[i] = 0
    BY <1>1, HitType
  <2>2. QED
    BY <2>1
<1>3. token \in Tokens \cup {None} /\ None \in Tokens \cup {None}
  BY <1>1, TokenIs DEF Inv
<1>4. /\ calls[c] = None /\ ~Has(c) /\ UNCHANGED <<engine, epoch, left, strayed>>
      /\ strayed \in BOOLEAN /\ failed \in BOOLEAN
  BY DEF DoomPrefix, Has, shim, Inv, TypeOK
<1>5. /\ failed' \in BOOLEAN /\ (failed => failed')
      /\ \/ /\ calls' = [calls EXCEPT ![c] = out] /\ UNCHANGED table
            /\ \E size \in {0, n} : hits' = [hits EXCEPT ![c] = h(size)]
            /\ last' = last \/ last' = [last EXCEPT !["batch"] = @ + 1]
         \/ /\ calls' = [calls EXCEPT ![c] = in] /\ hits' = [hits EXCEPT ![c] = h(n)]
            /\ Valid(e, TRUE)
            /\ table' = Begun(table, "batch", {}, all)
            /\ last' = [last EXCEPT !["batch"] = @ + 1]
  <2> HIDE DEF out, in, h, all
  <2>1. \/ /\ calls' = [calls EXCEPT ![c] = out] /\ hits' = [hits EXCEPT ![c] = h(0)]
           /\ UNCHANGED <<table, last, failed>>
        \/ /\ calls' = [calls EXCEPT ![c] = out] /\ hits' = [hits EXCEPT ![c] = h(n)]
           /\ UNCHANGED <<table, last>> /\ failed' = TRUE
        \/ /\ calls' = [calls EXCEPT ![c] = out] /\ hits' = [hits EXCEPT ![c] = h(n)]
           /\ UNCHANGED table /\ last' = [last EXCEPT !.batch = @ + 1]
           /\ failed' = (failed \/ odd \/ n > MaxTargets)
        \/ /\ calls' = [calls EXCEPT ![c] = in] /\ hits' = [hits EXCEPT ![c] = h(n)]
           /\ Valid(e, TRUE)
           /\ table' = Begun(table, "batch", {}, all)
           /\ last' = [last EXCEPT !.batch = @ + 1]
           /\ failed' = (failed \/ odd \/ n > MaxTargets)
    BY DEF DoomPrefix, out, in, h, all
  <2>2. QED
    BY <1>4, <2>1
<1>6. CASE /\ calls' = [calls EXCEPT ![c] = out] /\ UNCHANGED table
           /\ \E size \in {0, n} : hits' = [hits EXCEPT ![c] = h(size)]
           /\ last' = last \/ last' = [last EXCEPT !["batch"] = @ + 1]
  <2>1. PICK size \in {0, n} : hits' = [hits EXCEPT ![c] = h(size)]
    BY <1>6
  <2>2. out \in CallRecords /\ out # None /\ out.token = None
    BY <1>1, <1>3, CallType
  <2>3. size \in 0..MaxReports
    BY <1>1
  <2> DEFINE g == h(size)
  <2>4. g \in HitRecords /\ ~g.reported /\ g.with = None /\ \A i \in 1..MaxReports : g.booked[i] = 0
    BY <1>2, <2>3
  <2>5. calls' = [calls EXCEPT ![c] = out] /\ hits' = [hits EXCEPT ![c] = g]
    BY <1>6, <2>1
  <2> HIDE DEF out, h, g
  <2>6. Frame(c) /\ calls'[c] = out /\ hits'[c] = g
    BY <1>4, <1>5, <2>2, <2>4, <2>5 DEF Frame, Inv, TypeOK
  <2>7. Fresh(c)' /\ BookedRight(c)' /\ CreditedRight(c)'
    BY <2>4, <2>6, Unbooked
  <2>8. Left(c, table')
    BY <1>4, <1>6 DEF Left
  <2>9. QED
    BY <1>1, <1>6, <2>2, <2>6, <2>7, <2>8, ReleaseKeeps
<1>7. CASE /\ calls' = [calls EXCEPT ![c] = in] /\ hits' = [hits EXCEPT ![c] = h(n)]
           /\ Valid(e, TRUE)
           /\ table' = Begun(table, "batch", {}, all)
           /\ last' = [last EXCEPT !["batch"] = @ + 1]
  <2>1. /\ in \in CallRecords /\ in # None /\ in.token = token /\ in.epoch = e /\ in.phase = "killing"
    <3> HIDE DEF token
    <3>1. QED
      BY <1>1, <1>3, CallType
  <2> DEFINE g == h(n)
  <2>2. /\ g \in HitRecords /\ ~g.reported /\ g.with = None /\ g.facts = {} /\ g.size = n
        /\ \A i \in 1..MaxReports : g.booked[i] = 0
    BY <1>2
  <2>3. e = engine.sequence
    BY <1>7, ValidIsPresent
  <2>4. {} \in Evidence /\ all \in SUBSET (Calls \X (1..MaxReports)) /\ all = Results(c, n)
    BY Limits DEF Evidence, Results
  <2>5. calls' = [calls EXCEPT ![c] = in] /\ hits' = [hits EXCEPT ![c] = g]
    BY <1>7
  <2>6. table'[Token("batch")] = [facts |-> {}, results |-> all]
    BY <1>7 DEF Begun
  <2> HIDE DEF in, h, g, all
  <2>7. Frame(c) /\ calls'[c] = in /\ hits'[c] = g
    BY <1>4, <1>5, <2>1, <2>2, <2>5 DEF Frame, Inv, TypeOK
  <2>8. Fresh(c)' /\ BookedRight(c)' /\ CreditedRight(c)'
    BY <2>2, <2>7, Unbooked
  <2>9. Of(c, {}) = {}
    BY DEF Of
  <2>10. Evident(c)'
    BY <2>1, <2>2, <2>4, <2>6, <2>7, <2>9 DEF Evident
  <2>11. Left(c, table)
    BY <1>4 DEF Left
  <2>12. Sound(c)'
    BY <2>8, <2>10 DEF Sound
  <2>13. QED
    BY <1>1, <1>7, <2>1, <2>3, <2>4, <2>7, <2>11, <2>12, BeginKeeps
<1>8. QED
  BY <1>5, <1>6, <1>7

LEMMA DoomPostfixKeeps ==
  ASSUME Inv, NEW c \in Calls, NEW ran \in BOOLEAN, DoomPostfix(c, ran)
  PROVE  Inv'
<1>1. calls[c] # None /\ calls[c].phase = "killing"
  BY DEF DoomPostfix, In
<1>2. /\ calls' = [calls EXCEPT ![c] = None]
      /\ UNCHANGED <<engine, last, epoch, left, strayed>>
      /\ strayed \in BOOLEAN /\ failed \in BOOLEAN
  BY DEF DoomPostfix, shim, Inv, TypeOK
<1>3. strayed' = Strays(c, TRUE)
  BY <1>2 DEF Strays
<1>4. /\ calls' \in [Calls -> CallRecords \cup {None}] /\ calls'[c] = None
      /\ \A d \in Calls : d # c => calls'[d] = calls[d]
  BY <1>2 DEF Inv, TypeOK
<1>5. /\ table' = Abandoned(calls[c], TRUE)
      /\ failed' \in BOOLEAN /\ (failed => failed')
      /\ hits' \in [Calls -> HitRecords]
      /\ \A d \in Calls : d # c => hits'[d] = hits[d]
      /\ BookedRight(c)' /\ CreditedRight(c)'
  <2>1. CASE ran /\ Valid(calls[c].epoch, TRUE)
    <3> DEFINE n == hits[c].size
    <3>1. /\ n \in 0..MaxReports /\ calls[c].phase # "between" /\ TRUE \in BOOLEAN
          /\ Settle(c, n, {}, TRUE) /\ UNCHANGED engine
      BY <1>1, <1>2, <2>1 DEF DoomPostfix, Inv, TypeOK, HitRecords
    <3>2. Open(calls[c].token) =>
            LET group == table[calls[c].token]
            IN  /\ group.facts = Of(c, hits[c].facts)
                /\ group.results \cup {} = Results(c, n)
      <4>1. SUFFICES ASSUME Open(calls[c].token)
                     PROVE  LET group == table[calls[c].token]
                            IN  group.facts = Of(c, hits[c].facts) /\ group.results = Results(c, n)
        OBVIOUS
      <4>2. calls[c].token \in DOMAIN table /\ Has(c)
        BY <1>1, <4>1, Limits DEF Open, Has, Inv, TypeOK
      <4>3. QED
        BY <1>1, <4>2 DEF Inv, Sound, Evident
    <3> HIDE DEF n
    <3>3. table' = Aborted(table, calls[c].token)
      BY <1>1, <3>1, <3>2, SettleIs
    <3>4. /\ failed' \in BOOLEAN /\ (failed => failed')
          /\ hits' \in [Calls -> HitRecords]
          /\ \A d \in Calls : d # c => hits'[d] = hits[d]
          /\ BookedRight(c)' /\ CreditedRight(c)'
      BY <1>1, <3>1, <3>2, SettleIs
    <3>5. QED
      BY <2>1, <3>3, <3>4 DEF Abandoned
  <2>2. CASE ~(ran /\ Valid(calls[c].epoch, TRUE))
    <3>1. /\ table' = Abandoned(calls[c], TRUE) /\ hits' = [hits EXCEPT ![c] = NoHit]
          /\ UNCHANGED failed
      BY <2>2 DEF DoomPostfix
    <3>2. /\ hits' \in [Calls -> HitRecords] /\ hits'[c] = NoHit
          /\ \A d \in Calls : d # c => hits'[d] = hits[d]
      BY <3>1, NoHitType DEF Inv, TypeOK
    <3>3. BookedRight(c)' /\ CreditedRight(c)'
      BY <3>2, NoHitType, Unbooked
    <3>4. QED
      BY <1>2, <3>1, <3>2, <3>3
  <2>3. QED
    BY <2>1, <2>2
<1>6. Left(c, table')
  BY <1>1, <1>2, <1>3, <1>5, LeftByAbandoning
<1>7. Frame(c)
  BY <1>2, <1>4, <1>5 DEF Frame
<1>8. Fresh(c)'
  BY <1>4 DEF Fresh
<1>9. QED
  BY <1>2, <1>4, <1>5, <1>6, <1>7, <1>8, ReleaseKeeps
----------------------------------------------------------------------------
(***************************************************************************)
(* Combats.  A new one starts with an empty table, and the tokens of the   *)
(* calls that are still running are of earlier combats.                    *)
(***************************************************************************)
LEMMA StartCombatKeeps ==
  ASSUME Inv, StartCombat
  PROVE  Inv'
<1>1. /\ engine.sequence \in Nat /\ engine' = [sequence |-> engine.sequence + 1, on |-> TRUE]
      /\ table' = NoEntries /\ DOMAIN table' = {}
      /\ last' = [kind \in Kinds |-> 0] /\ epoch' = engine.sequence + 1
      /\ left' = FALSE /\ strayed' = FALSE /\ failed' = FALSE
      /\ hits' = [c \in Calls |-> NoHit] /\ calls' = calls
  BY DEF StartCombat, Inv, TypeOK, NoEntries
<1>2. engine'.sequence = engine.sequence + 1 /\ engine' \in [sequence : Nat, on : BOOLEAN]
  BY <1>1
<1>3. TypeOK'
  BY <1>1, <1>2, NoHitType DEF Inv, TypeOK
<1>4. TokenInv'
  <2>1. \A c \in Calls : Has(c)' => Has(c) /\ calls'[c].token = calls[c].token /\ calls'[c].epoch = calls[c].epoch
    BY <1>1 DEF Has
  <2>2. \A c \in Calls : Has(c) => calls[c].token \in Tokens
    BY DEF Inv, TypeOK, Has, CallRecords
  <2>3. \A x \in Tokens : Given(x) => Given(x)'
    BY <1>1, <1>2 DEF Given, Tokens
  <2>4. ASSUME NEW c \in Calls, Has(c)' PROVE Given(calls[c].token)'
    <3>1. calls'[c].token \in Tokens /\ Given(calls[c].token) /\ calls'[c].token = calls[c].token
      BY <2>1, <2>2, <2>4 DEF Inv, TokenInv
    <3>2. calls[c].token[2] \in Nat /\ calls[c].token[2] <= engine.sequence
      BY <3>1 DEF Given, Tokens
    <3>3. QED
      BY <1>1, <1>2, <3>1, <3>2 DEF Given
  <2>5. QED
    BY <1>1, <2>1, <2>4 DEF Inv, TokenInv
<1>5. Held'
  BY <1>1 DEF Held
<1>6. ASSUME NEW c \in Calls PROVE Sound(c)'
  <2>1. hits'[c] = NoHit
    BY <1>1
  <2>2. Fresh(c)' /\ BookedRight(c)' /\ CreditedRight(c)'
    BY <2>1, NoHitType, Unbooked
  <2>3. QED
    BY <1>1, <2>2 DEF Sound, Evident
<1>7. QED
  BY <1>3, <1>4, <1>5, <1>6 DEF Inv

\* The combat ends, is given up or is left: nobody has to hold what is open.
LEMMA CombatOverKeeps ==
  ASSUME Inv, TypeOK', engine'.sequence = engine.sequence,
         table' = table \/ table' = NoEntries,
         UNCHANGED <<last, strayed, failed, calls, hits>>, ~Watched'
  PROVE  Inv'
<1>1. DOMAIN table' \subseteq DOMAIN table /\ \A x \in DOMAIN table' : table'[x] = table[x]
  BY DEF NoEntries
<1>2. TokenInv'
  BY <1>1 DEF Inv, TokenInv, Has, Given
<1>3. Held'
  BY DEF Held
<1>4. ASSUME NEW c \in Calls PROVE Sound(c)'
  <2>1. Sound(c)
    BY DEF Inv
  <2>2. Evident(c)'
    BY <1>1, <2>1 DEF Sound, Evident, Has
  <2>3. Fresh(c)' /\ BookedRight(c)' /\ CreditedRight(c)'
    BY <2>1 DEF Sound, Fresh, BookedRight, CreditedRight
  <2>4. QED
    BY <2>2, <2>3 DEF Sound
<1>5. QED
  BY <1>2, <1>3, <1>4 DEF Inv

LEMMA CombatEndsKeep ==
  ASSUME Inv, EndCombat \/ InvalidateEpoch \/ LeaveCombat \/ Poison
  PROVE  Inv'
<1>1. engine \in [sequence : Nat, on : BOOLEAN] /\ None # engine.sequence
  BY Limits DEF Inv, TypeOK
<1>2. CASE EndCombat
  <2>1. /\ engine' = [engine EXCEPT !.on = FALSE] /\ epoch' = None
        /\ table' = table \/ table' = NoEntries
        /\ UNCHANGED <<last, left, strayed, failed, calls, hits>>
    BY <1>2 DEF EndCombat
  <2>2. engine' \in [sequence : Nat, on : BOOLEAN] /\ engine'.sequence = engine.sequence /\ ~engine'.on
    BY <1>1, <2>1
  <2>3. TypeOK'
    BY <2>1, <2>2 DEF Inv, TypeOK, NoEntries
  <2>4. QED
    BY <2>1, <2>2, <2>3, CombatOverKeeps DEF Watched
<1>3. CASE InvalidateEpoch
  <2>1. epoch' = None /\ left' = FALSE /\ UNCHANGED <<native, strayed, failed, calls, hits>>
    BY <1>3 DEF InvalidateEpoch
  <2>2. TypeOK'
    BY <2>1 DEF native, Inv, TypeOK
  <2>3. ~Watched'
    BY <1>1, <2>1 DEF Watched, native
  <2>4. QED
    BY <2>1, <2>2, <2>3, CombatOverKeeps DEF native
<1>4. CASE LeaveCombat
  <2>1. left' = TRUE /\ UNCHANGED <<native, epoch, strayed, failed, calls, hits>>
    BY <1>4 DEF LeaveCombat
  <2>2. TypeOK'
    BY <2>1 DEF native, Inv, TypeOK
  <2>3. ~Watched'
    BY <2>1 DEF Watched
  <2>4. QED
    BY <2>1, <2>2, <2>3, CombatOverKeeps DEF native
<1>5. CASE Poison
  <2>1. engine' = [engine EXCEPT !.on = FALSE] /\ UNCHANGED <<table, last, shim, failed, calls, hits>>
    BY <1>5 DEF Poison
  <2>2. engine' \in [sequence : Nat, on : BOOLEAN] /\ engine'.sequence = engine.sequence /\ ~engine'.on
    BY <1>1, <2>1
  <2>3. TypeOK'
    BY <2>1, <2>2 DEF shim, Inv, TypeOK
  <2>4. QED
    BY <2>1, <2>2, <2>3, CombatOverKeeps DEF Watched, shim
<1>6. QED
  BY <1>2, <1>3, <1>4, <1>5

----------------------------------------------------------------------------
(***************************************************************************)
(* The invariant, and the properties that follow from it.                  *)
(***************************************************************************)
LEMMA InvInit == Init => Inv
<1> SUFFICES ASSUME Init PROVE Inv
  OBVIOUS
<1>1. /\ engine = [sequence |-> 0, on |-> FALSE] /\ DOMAIN table = {}
      /\ last = [kind \in Kinds |-> 0] /\ epoch = None
      /\ left = FALSE /\ strayed = FALSE /\ failed = FALSE
      /\ \A c \in Calls : calls[c] = None /\ hits[c] = NoHit
      /\ calls \in [Calls -> CallRecords \cup {None}] /\ hits \in [Calls -> HitRecords]
  BY NoHitType DEF Init, NoEntries
<1>2. TypeOK
  BY <1>1 DEF TypeOK
<1>3. TokenInv /\ Held
  BY <1>1 DEF TokenInv, Held, Has
<1>4. ASSUME NEW c \in Calls PROVE Sound(c)
  BY <1>1, NoHitType DEF Sound, Evident, Has, Fresh, BookedRight, CreditedRight
<1>5. QED
  BY <1>2, <1>3, <1>4 DEF Inv

LEMMA StutterKeeps ==
  ASSUME Inv, UNCHANGED vars
  PROVE  Inv'
<1>1. UNCHANGED <<engine, table, last, epoch, left, strayed, failed, calls, hits>>
  BY DEF vars, native, shim
<1>2. TypeOK'
  BY <1>1 DEF Inv, TypeOK
<1>3. TokenInv' /\ Held'
  BY <1>1 DEF Inv, TokenInv, Held, Has, Given, Watched
<1>4. ASSUME NEW c \in Calls PROVE Sound(c)'
  BY <1>1 DEF Inv, Sound, Evident, Has, Fresh, BookedRight, CreditedRight
<1>5. QED
  BY <1>2, <1>3, <1>4 DEF Inv

LEMMA InvNext == Inv /\ [Next]_vars => Inv'
<1> SUFFICES ASSUME Inv, [Next]_vars PROVE Inv'
  OBVIOUS
<1>1. ASSUME NEW c \in Calls, NEW e \in EntryEpochs, Prefix(c, e) PROVE Inv'
  BY <1>1, PrefixKeeps
<1>2. ASSUME NEW c \in Calls, NEW facts \in (SUBSET Early) \cup (SUBSET Late), NEW on \in BOOLEAN,
             ModifyDamage(c, facts, on)
      PROVE  Inv'
  BY <1>2, ModifyDamageKeeps
<1>3. ASSUME NEW c \in Calls, NEW told \in SUBSET Late, Contribute(c, told) PROVE Inv'
  BY <1>3, ContributeKeeps
<1>4. ASSUME NEW c \in Calls, Throw(c) PROVE Inv'
  BY <1>4, ThrowKeeps
<1>5. ASSUME NEW c \in Calls, NEW n \in 1..MaxReports, NEW on \in BOOLEAN, NEW bad \in BOOLEAN,
             Report(c, n, on, bad)
      PROVE  Inv'
  BY <1>5, ReportKeeps
<1>6. ASSUME NEW c \in Calls, NEW on \in BOOLEAN, End(c, on) PROVE Inv'
  BY <1>6, EndKeeps
<1>7. ASSUME NEW c \in Calls, NEW e \in EntryEpochs, NEW n \in 0..MaxReports,
             NEW captured \in BOOLEAN, NEW odd \in BOOLEAN, DoomPrefix(c, e, n, captured, odd)
      PROVE  Inv'
  BY <1>7, DoomPrefixKeeps
<1>8. ASSUME NEW c \in Calls, NEW ran \in BOOLEAN, DoomPostfix(c, ran) PROVE Inv'
  BY <1>8, DoomPostfixKeeps
<1>9. CASE StartCombat
  BY <1>9, StartCombatKeeps
<1>10. CASE EndCombat \/ InvalidateEpoch \/ LeaveCombat \/ Poison
  BY <1>10, CombatEndsKeep
<1>11. CASE UNCHANGED vars
  BY <1>11, StutterKeeps
<1>12. QED
  BY <1>1, <1>2, <1>3, <1>4, <1>5, <1>6, <1>7, <1>8, <1>9, <1>10, <1>11 DEF Next

LEMMA Invariance == Spec => []Inv
<1>1. QED
  BY InvInit, InvNext, PTL DEF Spec

\* However the calls interleave and whatever is refused, in any number of combats, no
\* result is booked twice or without being reported, and all of those reported are
\* booked unless a failure is reported (damage.rs; ReportResultGroup and its fallback).
THEOREM ResultsAreBookedOnce == Spec => []BookedOnce
<1>1. Inv => BookedOnce
  BY DEF Inv, Sound, BookedRight, BookedOnce
<1>2. QED
  BY <1>1, Invariance, PTL

\* A group's credit is by everything told of its hit and by nothing else, for all of
\* the hit's results (damage.rs: a failure invalidates the whole calculation).
THEOREM CreditIsByOwnEvidence == Spec => []OwnEvidence
<1>1. Inv => OwnEvidence
  BY DEF Inv, Sound, CreditedRight, OwnEvidence, Of
<1>2. QED
  BY <1>1, Invariance, PTL

\* Nothing is left behind in the tables of calculations and batches: in the present
\* combat each open token has exactly one call that will commit or abort it
\* (DamageOperation.Abort, DoomCapture's finalizer), unless a patch strayed.
THEOREM CalculationsAreHeld == Spec => []HeldCalculations
<1>1. ASSUME Inv, engine.on /\ epoch = engine.sequence /\ ~left /\ ~strayed,
             NEW x \in DOMAIN table
      PROVE  Cardinality({c \in Calls : calls[c] # None /\ calls[c].token = x}) = 1
  <2>1. x # None
    BY <1>1, Limits DEF Inv, TypeOK
  <2>2. PICK c \in Calls : Has(c) /\ calls[c].token = x
    BY <1>1 DEF Inv, Held, Watched
  <2>3. \A d \in Calls : calls[d] # None /\ calls[d].token = x => d = c
    BY <1>1, <2>1, <2>2 DEF Inv, TokenInv, Has
  <2>4. {d \in Calls : calls[d] # None /\ calls[d].token = x} = {c}
    BY <2>2, <2>3 DEF Has
  <2>5. QED
    BY <2>4, FS_Singleton
<1>2. Inv => HeldCalculations
  BY <1>1 DEF HeldCalculations
<1>3. QED
  BY <1>2, Invariance, PTL
=============================================================================
