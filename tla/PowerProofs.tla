----------------------------- MODULE PowerProofs -----------------------------
(***************************************************************************)
(* Theorems about power provenance, and about the patches that report the  *)
(* game's powers to it, for every number of powers, creatures, roots and   *)
(* layers and every depth of nested calls.                                 *)
(***************************************************************************)
EXTENDS PowerCapture, SequenceTheorems, FiniteSetTheorems, NaturalsInduction, WellFoundedInduction, TLAPS

(***************************************************************************)
(* Grants.                                                                 *)
(***************************************************************************)
LEMMA UnknownIsSource == UnknownSource \in Sources
BY DEF UnknownSource, Sources

LEMMA WholeFacts ==
  ASSUME NEW a \in Int
  PROVE  Whole(a) \in Nat /\ (a > 0 => Whole(a) = a) /\ (a <= 0 => Whole(a) = 0)
BY DEF Whole

LEMMA WholeBounded ==
  ASSUME NEW d \in Int, NEW n \in Nat, d <= n
  PROVE  Whole(d) <= n /\ (d = n => Whole(d) = n)
BY DEF Whole

LEMMA UnitsFacts ==
  ASSUME NEW n \in Nat, NEW s \in Sources
  PROVE  /\ Units(n, s) \in Grants
         /\ Len(Units(n, s)) = n
         /\ Boundaries(Units(n, s)) = {}
         /\ n # 0 => Mixture(Units(n, s)) = s
<1>1. Units(n, s) \in [1..n -> Sources]
  BY DEF Units
<1>2. Units(n, s) \in Grants /\ Len(Units(n, s)) = n
  BY <1>1, SeqDef DEF Grants
<1>3. Boundaries(Units(n, s)) = {}
  BY <1>2 DEF Boundaries, Units
<1>4. n # 0 => Mixture(Units(n, s)) = s
  <2>1. SUFFICES ASSUME n # 0 PROVE Mixture(Units(n, s)) = s
    OBVIOUS
  <2>2. {Units(n, s)[i] : i \in DOMAIN Units(n, s)} = {s}
    BY <2>1 DEF Units
  <2>3. QED
    BY <2>2 DEF Mixture
<1>5. QED
  BY <1>2, <1>3, <1>4

LEMMA ConsumeFacts ==
  ASSUME NEW q \in Grants, NEW n \in Nat
  PROVE  /\ Consume(q, n) \in Grants
         /\ Len(Consume(q, n)) = Whole(Len(q) - n)
         /\ \A i \in 1..(Len(q) - n) : Consume(q, n)[i] = q[i + n]
<1>1. Len(q) \in Nat /\ \A i \in 1..Len(q) : q[i] \in Sources
  BY ElementOfSeq, LenProperties DEF Grants
<1>2. \A i \in (n + 1)..Len(q) : q[i] \in Sources
  BY <1>1
<1>3. /\ SubSeq(q, n + 1, Len(q)) \in Seq(Sources)
      /\ Len(SubSeq(q, n + 1, Len(q))) = IF n + 1 <= Len(q) THEN Len(q) - (n + 1) + 1 ELSE 0
      /\ \A i \in 1..(Len(q) - (n + 1) + 1) : SubSeq(q, n + 1, Len(q))[i] = q[n + 1 + i - 1]
  <2>1. n + 1 \in Int /\ Len(q) \in Int
    BY <1>1
  <2>2. QED
    BY <2>1, <1>2, SubSeqProperties
<1>4. QED
  BY <1>1, <1>3 DEF Consume, Grants, Whole

LEMMA MixtureIsSource ==
  ASSUME NEW q \in Grants, q # <<>>
  PROVE  Mixture(q) \in Sources
<1>1. Len(q) \in Nat \ {0} /\ DOMAIN q = 1..Len(q) /\ \A i \in 1..Len(q) : q[i] \in Sources
  BY EmptySeq, ElementOfSeq, LenProperties DEF Grants
<1>2. q[1] \subseteq Mixture(q) /\ q[1] # {}
  BY <1>1 DEF Mixture, Sources
<1>3. Mixture(q) \subseteq Roots \cup {Unknown}
  BY <1>1 DEF Mixture, Sources
<1>4. QED
  BY <1>2, <1>3 DEF Sources

LEMMA BoundariesFacts ==
  ASSUME NEW q \in Grants
  PROVE  IsFiniteSet(Boundaries(q)) /\ Boundaries(q) \subseteq Nat
<1>1. Len(q) \in Nat
  BY LenProperties DEF Grants
<1>2. IsFiniteSet(1..(Len(q) - 1))
  BY <1>1, FS_Interval
<1>3. Boundaries(q) \in SUBSET (1..(Len(q) - 1))
  BY DEF Boundaries
<1>4. QED
  BY <1>1, <1>2, <1>3, FS_Subset

\* Consuming stacks leaves the layer ends where they are, counted from the tail.
LEMMA ConsumeBoundaries ==
  ASSUME NEW q \in Grants, NEW n \in Nat
  PROVE  \A i \in Boundaries(Consume(q, n)) : i + n \in Boundaries(q)
<1>1. SUFFICES ASSUME NEW i \in Boundaries(Consume(q, n)) PROVE i + n \in Boundaries(q)
  OBVIOUS
<1>2. /\ Len(q) \in Nat
      /\ i \in 1..(Len(Consume(q, n)) - 1)
      /\ Consume(q, n)[i] # Consume(q, n)[i + 1]
  BY LenProperties DEF Boundaries, Grants
<1>3. i \in 1..(Len(q) - n - 1) /\ i \in Nat
  BY <1>2, ConsumeFacts DEF Whole
<1>4. i \in 1..(Len(q) - n) /\ i + 1 \in 1..(Len(q) - n)
  BY <1>2, <1>3
<1>5. Consume(q, n)[i] = q[i + n] /\ Consume(q, n)[i + 1] = q[(i + 1) + n]
  BY <1>4, ConsumeFacts
<1>6. (i + 1) + n = (i + n) + 1 /\ i + n \in 1..(Len(q) - 1)
  BY <1>2, <1>3
<1>7. QED
  BY <1>2, <1>5, <1>6 DEF Boundaries

(***************************************************************************)
(* What the grants become when an amount moves: as many stacks as it, if   *)
(* there were as many as it before, and no more if there were no more.     *)
(***************************************************************************)
LEMMA MovedFacts ==
  ASSUME NEW q \in Grants, NEW before \in Int, NEW after \in Int, NEW s \in Sources,
         Len(q) <= Whole(before)
  PROVE  /\ Moved(q, before, after, s) \in Grants
         /\ Len(Moved(q, before, after, s)) <= Whole(after)
         /\ Len(q) = Whole(before) => Len(Moved(q, before, after, s)) = Whole(after)
<1>1. Whole(before) \in Nat /\ Whole(after) \in Nat /\ Len(q) \in Nat
  BY WholeFacts, LenProperties DEF Grants
<1>2. CASE Whole(after) < Whole(before)
  <2>1. Whole(before) - Whole(after) \in Nat
    BY <1>1, <1>2
  <2>2. /\ Moved(q, before, after, s) \in Grants
        /\ Len(Moved(q, before, after, s)) = Whole(Len(q) - (Whole(before) - Whole(after)))
    BY <1>2, <2>1, ConsumeFacts DEF Moved
  <2>3. PICK d \in Int : d = Len(q) - (Whole(before) - Whole(after)) /\ d <= Whole(after)
                         /\ (Len(q) = Whole(before) => d = Whole(after))
    BY <1>1
  <2>4. Whole(d) <= Whole(after) /\ (d = Whole(after) => Whole(d) = Whole(after))
    BY <1>1, <2>3, WholeBounded
  <2>5. QED
    BY <2>2, <2>3, <2>4
<1>3. CASE ~(Whole(after) < Whole(before))
  <2>1. Whole(after) - Whole(before) \in Nat
    BY <1>1, <1>3
  <2>2. /\ Units(Whole(after) - Whole(before), s) \in Seq(Sources)
        /\ Len(Units(Whole(after) - Whole(before), s)) = Whole(after) - Whole(before)
    BY <2>1, UnitsFacts DEF Grants
  <2>3. /\ Moved(q, before, after, s) \in Seq(Sources)
        /\ Len(Moved(q, before, after, s)) = Len(q) + (Whole(after) - Whole(before))
    BY <1>3, <2>2, ConcatProperties DEF Moved, Grants
  <2>4. QED
    BY <1>1, <2>3 DEF Grants
<1>4. QED
  BY <1>2, <1>3

LEMMA SettledFacts ==
  ASSUME NEW q \in Grants
  PROVE  /\ Settled(q) \in Grants
         /\ Len(Settled(q)) = Len(q)
         /\ Boundaries(Settled(q)) \subseteq Boundaries(q)
<1>1. Len(q) \in Nat
  BY LenProperties DEF Grants
<1>2. QED
  BY <1>1, UnitsFacts, UnknownIsSource DEF Settled

LEMMA RefreshedFacts ==
  ASSUME NEW q \in Grants, NEW s \in Sources
  PROVE  /\ Refreshed(q, s) \in Sources
         /\ q # <<>> => Refreshed(q, s) = Mixture(q)
BY MixtureIsSource DEF Refreshed

(***************************************************************************)
(* The inductive invariant: what is promised of every power, together with *)
(* the source an invalidated power still holds and the stacks open batches *)
(* froze.                                                                  *)
(***************************************************************************)
LayerEnds(ps) == UNION {{<<p, i>> : i \in Boundaries(ps[p].grants)} : p \in DOMAIN ps}

GoodPower(p, w) ==
  /\ w \in PowerInfo
  /\ Len(w.grants) <= Whole(w.observed)
  /\ p \notin DoomPowers => Len(w.grants) = Whole(w.observed)
  /\ Cardinality(Boundaries(w.grants)) < MaxLayers
  /\ w.grants # <<>> => w.source = Mixture(w.grants)

GoodPowers(ps) ==
  /\ IsFiniteSet(DOMAIN ps)
  /\ Cardinality(DOMAIN ps) <= MaxPowers
  /\ \A p \in DOMAIN ps : GoodPower(p, ps[p])
  /\ IsFiniteSet(LayerEnds(ps))
  /\ Cardinality(LayerEnds(ps)) <= MaxExtra

GoodBatch(w) ==
  /\ w \in Batch
  /\ \A i \in DOMAIN w.targets : w.targets[i].power \notin DoomPowers => w.targets[i].stacks = <<>>

GoodBatches(bs) == \A b \in DOMAIN bs : GoodBatch(bs[b])

IInv == GoodPowers(powers) /\ GoodBatches(batches)

(***************************************************************************)
(* Layer ends.                                                             *)
(***************************************************************************)
LEMMA PairsFacts ==
  ASSUME NEW p, NEW B, IsFiniteSet(B)
  PROVE  /\ IsFiniteSet({<<p, i>> : i \in B})
         /\ Cardinality({<<p, i>> : i \in B}) <= Cardinality(B)
<1> DEFINE f == [i \in B |-> <<p, i>>]
<1>1. f \in Surjection(B, {<<p, i>> : i \in B})
  BY DEF Surjection
<1>2. QED
  BY <1>1, FS_Surjection

LEMMA OtherBoundariesFacts ==
  ASSUME GoodPowers(powers), NEW p
  PROVE  /\ IsFiniteSet(OtherBoundaries(p))
         /\ Cardinality(OtherBoundaries(p)) \in Nat
         /\ Cardinality(OtherBoundaries(p)) <= MaxExtra
<1>1. OtherBoundaries(p) \in SUBSET LayerEnds(powers)
  BY DEF OtherBoundaries, LayerEnds
<1>2. IsFiniteSet(LayerEnds(powers)) /\ Cardinality(LayerEnds(powers)) <= MaxExtra
  BY DEF GoodPowers
<1>3. /\ IsFiniteSet(OtherBoundaries(p))
      /\ Cardinality(OtherBoundaries(p)) <= Cardinality(LayerEnds(powers))
  BY <1>1, <1>2, FS_Subset
<1>4. Cardinality(OtherBoundaries(p)) \in Nat /\ Cardinality(LayerEnds(powers)) \in Nat
  BY <1>2, <1>3, FS_CardinalityType
<1>5. MaxExtra \in Nat
  BY PowerConstants
<1>6. QED
  BY <1>2, <1>3, <1>4, <1>5

\* A collapsed power has one layer, which is always reserved for it.
LEMMA FittedFacts ==
  ASSUME GoodPowers(powers), NEW p, NEW q \in Grants, NEW after \in Int, Len(q) <= Whole(after)
  PROVE  LET g == Fitted(p, q, after)
         IN  /\ g \in Grants
             /\ Len(g) <= Whole(after)
             /\ Len(q) = Whole(after) => Len(g) = Whole(after)
             /\ Cardinality(Boundaries(g)) < MaxLayers
             /\ Cardinality(OtherBoundaries(p)) + Cardinality(Boundaries(g)) <= MaxExtra
<1>1. Cardinality(Boundaries(q)) \in Nat
  BY BoundariesFacts, FS_CardinalityType
<1>2. MaxLayers \in Nat \ {0} /\ MaxExtra \in Nat
  BY PowerConstants
<1>3. Whole(after) \in Nat
  BY WholeFacts
<1>4. Cardinality(OtherBoundaries(p)) \in Nat /\ Cardinality(OtherBoundaries(p)) <= MaxExtra
  BY OtherBoundariesFacts
<1>5. CASE Crowded(p, q)
  <2>1. /\ Units(Whole(after), UnknownSource) \in Grants
        /\ Len(Units(Whole(after), UnknownSource)) = Whole(after)
        /\ Boundaries(Units(Whole(after), UnknownSource)) = {}
    BY <1>3, UnknownIsSource, UnitsFacts
  <2>2. Cardinality({}) = 0
    BY FS_EmptySet
  <2>3. Fitted(p, q, after) = Units(Whole(after), UnknownSource)
    BY <1>5 DEF Fitted
  <2>4. Cardinality(Boundaries(Fitted(p, q, after))) = 0 /\ Len(Fitted(p, q, after)) = Whole(after)
    BY <2>1, <2>2, <2>3
  <2>5. QED
    BY <1>2, <1>3, <1>4, <2>1, <2>3, <2>4
<1>6. CASE ~Crowded(p, q)
  BY <1>1, <1>2, <1>4, <1>6 DEF Fitted, Crowded
<1>7. QED
  BY <1>5, <1>6

LEMMA SettledLayers ==
  ASSUME NEW q \in Grants
  PROVE  /\ Cardinality(Boundaries(Settled(q))) \in Nat
         /\ Cardinality(Boundaries(q)) \in Nat
         /\ Cardinality(Boundaries(Settled(q))) <= Cardinality(Boundaries(q))
<1>1. Boundaries(Settled(q)) \in SUBSET Boundaries(q) /\ IsFiniteSet(Boundaries(q))
  BY SettledFacts, BoundariesFacts
<1>2. QED
  BY <1>1, FS_Subset, FS_CardinalityType

(***************************************************************************)
(* An accepted report.                                                     *)
(***************************************************************************)
LEMMA HeldFacts ==
  ASSUME GoodPowers(powers), NEW p \in Powers, NEW old \in Int \cup {None}, NEW s \in Sources
  PROVE  /\ Before(old) \in Int
         /\ Held(p, old) \in Grants
         /\ Len(Held(p, old)) <= Whole(Before(old))
         /\ p \notin DoomPowers => Len(Held(p, old)) = Whole(Before(old))
         /\ HeldSource(p, old, s) \in Sources
<1>1. Before(old) \in Int
  BY PowerConstants DEF Before
<1>2. Whole(Before(old)) \in Nat
  BY <1>1, WholeFacts
<1>3. CASE Drifted(p, old)
  BY <1>1, <1>2, <1>3, UnitsFacts, UnknownIsSource DEF Held, HeldSource
<1>4. CASE ~Drifted(p, old) /\ p \in DOMAIN powers
  <2>1. GoodPower(p, powers[p]) /\ powers[p].observed = Before(old)
    BY <1>4 DEF GoodPowers, Drifted
  <2>2. Held(p, old) = powers[p].grants /\ HeldSource(p, old, s) = powers[p].source
    BY <1>4 DEF Held, HeldSource
  <2>3. QED
    BY <1>1, <2>1, <2>2 DEF GoodPower, PowerInfo
<1>5. CASE ~Drifted(p, old) /\ p \notin DOMAIN powers
  <2>1. Before(old) = 0
    BY <1>5 DEF Drifted, Before
  <2>2. Held(p, old) = <<>> /\ HeldSource(p, old, s) = s
    BY <1>5 DEF Held, HeldSource
  <2>3. Whole(0) = 0 /\ <<>> \in Grants /\ Len(<<>>) = 0
    BY EmptySeq DEF Whole, Grants
  <2>4. QED
    BY <1>1, <2>1, <2>2, <2>3
<1>6. QED
  BY <1>3, <1>4, <1>5

LEMMA AcceptKeepsPowers ==
  ASSUME GoodPowers(powers),
         NEW p \in Powers, NEW owner \in Creatures, NEW old \in Int \cup {None}, NEW new \in Int,
         NEW s \in Sources, Accept(p, owner, old, new, s)
  PROVE  GoodPowers(powers')
<1> DEFINE moved  == Moved(Held(p, old), Before(old), new, s)
           fitted == Fitted(p, moved, new)
           grants == Settled(fitted)
           source == Refreshed(grants, HeldSource(p, old, s))
           after  == [owner |-> owner, observed |-> new, grants |-> grants, source |-> source,
                      trusted |-> TRUE]
<1>1. /\ Before(old) \in Int /\ Held(p, old) \in Grants
      /\ Len(Held(p, old)) <= Whole(Before(old))
      /\ p \notin DoomPowers => Len(Held(p, old)) = Whole(Before(old))
      /\ HeldSource(p, old, s) \in Sources
  BY HeldFacts
<1>2. /\ moved \in Grants /\ Len(moved) <= Whole(new)
      /\ p \notin DoomPowers => Len(moved) = Whole(new)
  BY <1>1, MovedFacts
<1>3. /\ fitted \in Grants /\ Len(fitted) <= Whole(new)
      /\ p \notin DoomPowers => Len(fitted) = Whole(new)
      /\ Cardinality(Boundaries(fitted)) < MaxLayers
      /\ Cardinality(OtherBoundaries(p)) + Cardinality(Boundaries(fitted)) <= MaxExtra
  <2> HIDE DEF moved
  <2>1. QED
    BY <1>2, FittedFacts
<1>4. /\ grants \in Grants /\ Len(grants) = Len(fitted)
      /\ Cardinality(Boundaries(grants)) \in Nat /\ Cardinality(Boundaries(fitted)) \in Nat
      /\ Cardinality(Boundaries(grants)) <= Cardinality(Boundaries(fitted))
  <2> HIDE DEF fitted
  <2>1. QED
    BY <1>3, SettledFacts, SettledLayers
<1>5. source \in Sources /\ (grants # <<>> => source = Mixture(grants))
  <2> HIDE DEF grants
  <2>1. QED
    BY <1>1, <1>4, RefreshedFacts
<1>6. powers' = [q \in DOMAIN powers \cup {p} |-> IF q = p THEN after ELSE powers[q]]
  BY DEF Accept
<1>7. p \notin DOMAIN powers => Cardinality(DOMAIN powers) < MaxPowers
  <2>1. ~Refused(p, owner, old, new, s)
    BY DEF Accept
  <2>2. Cardinality(DOMAIN powers) \in Nat /\ MaxPowers \in Nat
    BY FS_CardinalityType, PowerConstants DEF GoodPowers
  <2>3. QED
    BY <2>1, <2>2 DEF Refused
<1> HIDE DEF grants, fitted, moved, source
<1>8. MaxLayers \in Nat /\ MaxExtra \in Nat /\ MaxPowers \in Nat
  BY PowerConstants
<1>9. GoodPower(p, after)
  <2>1. after \in PowerInfo
    BY <1>4, <1>5 DEF PowerInfo
  <2>2. after.grants = grants /\ after.observed = new /\ after.source = source
    OBVIOUS
  <2>3. Cardinality(Boundaries(grants)) < MaxLayers
    BY <1>3, <1>4, <1>8
  <2>4. QED
    BY <1>3, <1>4, <1>5, <2>1, <2>2, <2>3 DEF GoodPower
<1>10. \A q \in DOMAIN powers' : GoodPower(q, powers'[q])
  BY <1>6, <1>9 DEF GoodPowers
<1>11. IsFiniteSet(DOMAIN powers') /\ Cardinality(DOMAIN powers') <= MaxPowers
  <2>1. DOMAIN powers' = DOMAIN powers \cup {p}
    BY <1>6
  <2>2. IsFiniteSet(DOMAIN powers) /\ Cardinality(DOMAIN powers) <= MaxPowers
    BY DEF GoodPowers
  <2>3. /\ IsFiniteSet(DOMAIN powers \cup {p})
        /\ Cardinality(DOMAIN powers \cup {p}) =
             IF p \in DOMAIN powers THEN Cardinality(DOMAIN powers) ELSE Cardinality(DOMAIN powers) + 1
    BY <2>2, FS_AddElement
  <2>4. Cardinality(DOMAIN powers) \in Nat
    BY <2>2, FS_CardinalityType
  <2>5. QED
    BY <1>7, <1>8, <2>1, <2>2, <2>3, <2>4
<1>12. IsFiniteSet(LayerEnds(powers')) /\ Cardinality(LayerEnds(powers')) <= MaxExtra
  <2> DEFINE mine == {<<p, i>> : i \in Boundaries(grants)}
  <2>1. LayerEnds(powers') = OtherBoundaries(p) \cup mine
    <3>1. after.grants = grants
      OBVIOUS
    <3>2. DOMAIN powers' = (DOMAIN powers \ {p}) \cup {p} /\ powers'[p] = after
          /\ \A q \in DOMAIN powers \ {p} : powers'[q] = powers[q]
      BY <1>6
    <3> HIDE DEF after
    <3>3. QED
      BY <3>1, <3>2 DEF LayerEnds, OtherBoundaries
  <2>2. IsFiniteSet(mine) /\ Cardinality(mine) <= Cardinality(Boundaries(grants))
    BY <1>4, BoundariesFacts, PairsFacts
  <2>3. IsFiniteSet(OtherBoundaries(p)) /\ Cardinality(OtherBoundaries(p)) \in Nat
    BY OtherBoundariesFacts
  <2>4. Cardinality(mine) \in Nat
    BY <2>2, FS_CardinalityType
  <2> HIDE DEF mine
  <2>5. /\ IsFiniteSet(OtherBoundaries(p) \cup mine)
        /\ Cardinality(OtherBoundaries(p) \cup mine) =
             Cardinality(OtherBoundaries(p)) + Cardinality(mine) - Cardinality(OtherBoundaries(p) \cap mine)
        /\ Cardinality(OtherBoundaries(p) \cap mine) \in Nat
    BY <2>2, <2>3, FS_Union, FS_Intersection, FS_CardinalityType
  <2>6. QED
    BY <1>3, <1>4, <1>8, <2>1, <2>2, <2>3, <2>4, <2>5
<1>13. QED
  BY <1>10, <1>11, <1>12 DEF GoodPowers

(***************************************************************************)
(* Powers that lose stacks, trust or their place.                          *)
(***************************************************************************)
LEMMA ShrinkKeepsPowers ==
  ASSUME GoodPowers(powers), NEW ps, DOMAIN ps \subseteq DOMAIN powers,
         \A p \in DOMAIN ps : GoodPower(p, ps[p]),
         NEW d \in [DOMAIN ps -> Nat],
         \A p \in DOMAIN ps : \A i \in Boundaries(ps[p].grants) : i + d[p] \in Boundaries(powers[p].grants)
  PROVE  GoodPowers(ps)
<1> DEFINE f == [e \in LayerEnds(ps) |-> <<e[1], e[2] + d[e[1]]>>]
<1>1. IsFiniteSet(DOMAIN powers) /\ Cardinality(DOMAIN powers) <= MaxPowers
      /\ IsFiniteSet(LayerEnds(powers)) /\ Cardinality(LayerEnds(powers)) <= MaxExtra
  BY DEF GoodPowers
<1>2. IsFiniteSet(DOMAIN ps) /\ Cardinality(DOMAIN ps) <= MaxPowers
  <2>1. IsFiniteSet(DOMAIN ps) /\ Cardinality(DOMAIN ps) <= Cardinality(DOMAIN powers)
    BY <1>1, FS_Subset
  <2>2. Cardinality(DOMAIN ps) \in Nat /\ Cardinality(DOMAIN powers) \in Nat /\ MaxPowers \in Nat
    BY <1>1, <2>1, FS_CardinalityType, PowerConstants
  <2>3. QED
    BY <1>1, <2>1, <2>2
<1>3. \A e \in LayerEnds(ps) : /\ e = <<e[1], e[2]>> /\ e[1] \in DOMAIN ps /\ e[2] \in Nat
                               /\ e[2] \in Boundaries(ps[e[1]].grants)
  <2>1. \A p \in DOMAIN ps : Boundaries(ps[p].grants) \subseteq Nat
    BY BoundariesFacts DEF GoodPower, PowerInfo
  <2>2. QED
    BY <2>1 DEF LayerEnds
<1>4. f \in Injection(LayerEnds(ps), LayerEnds(powers))
  <2>1. \A e \in LayerEnds(ps) : f[e] = <<e[1], e[2] + d[e[1]]>> /\ f[e] \in LayerEnds(powers)
    BY <1>3 DEF LayerEnds
  <2>2. ASSUME NEW a \in LayerEnds(ps), NEW b \in LayerEnds(ps), f[a] = f[b]
        PROVE  a = b
    <3>1. a[1] = b[1] /\ a[2] + d[a[1]] = b[2] + d[b[1]]
      BY <2>2
    <3>2. a[2] = b[2]
      BY <1>3, <3>1
    <3>3. QED
      BY <1>3, <3>1, <3>2
  <2>3. QED
    BY <2>1, <2>2 DEF Injection, IsInjective
<1>5. IsFiniteSet(LayerEnds(ps)) /\ Cardinality(LayerEnds(ps)) <= Cardinality(LayerEnds(powers))
  <2> HIDE DEF f
  <2>1. QED
    BY <1>1, <1>4, FS_Injection
<1>6. Cardinality(LayerEnds(ps)) <= MaxExtra
  <2>1. Cardinality(LayerEnds(ps)) \in Nat /\ Cardinality(LayerEnds(powers)) \in Nat /\ MaxExtra \in Nat
    BY <1>1, <1>5, FS_CardinalityType, PowerConstants
  <2>2. QED
    BY <1>1, <1>5, <2>1
<1>7. QED
  BY <1>2, <1>5, <1>6 DEF GoodPowers

LEMMA DistrustKeepsPowers ==
  ASSUME GoodPowers(powers), NEW p PROVE GoodPowers(Distrusted(p))
<1> DEFINE ps == Distrusted(p)
           d  == [q \in DOMAIN ps |-> 0]
<1>1. DOMAIN ps = DOMAIN powers
  BY DEF Distrusted
<1>2. ASSUME NEW q \in DOMAIN ps
      PROVE  GoodPower(q, ps[q]) /\ ps[q].grants = powers[q].grants
  <2>1. GoodPower(q, powers[q])
    BY <1>1, <1>2 DEF GoodPowers
  <2>2. CASE q = p
    BY <1>1, <1>2, <2>1, <2>2 DEF Distrusted, GoodPower, PowerInfo
  <2>3. CASE q # p
    BY <1>1, <1>2, <2>1, <2>3 DEF Distrusted
  <2>4. QED
    BY <2>2, <2>3
<1>3. \A q \in DOMAIN ps : Boundaries(powers[q].grants) \subseteq Nat
  BY <1>1, BoundariesFacts DEF GoodPowers, GoodPower, PowerInfo
<1>4. d \in [DOMAIN ps -> Nat]
  OBVIOUS
<1>5. \A q \in DOMAIN ps : \A i \in Boundaries(ps[q].grants) : i + d[q] \in Boundaries(powers[q].grants)
  BY <1>2, <1>3
<1> HIDE DEF ps, d
<1>6. GoodPowers(ps)
  BY <1>1, <1>2, <1>4, <1>5, ShrinkKeepsPowers
<1>7. QED
  BY <1>6 DEF ps

LEMMA RemovalKeepsPowers ==
  ASSUME GoodPowers(powers), NEW p PROVE GoodPowers([q \in DOMAIN powers \ {p} |-> powers[q]])
<1> DEFINE ps == [q \in DOMAIN powers \ {p} |-> powers[q]]
           d  == [q \in DOMAIN ps |-> 0]
<1>1. DOMAIN ps \subseteq DOMAIN powers /\ \A q \in DOMAIN ps : ps[q] = powers[q]
  OBVIOUS
<1>2. \A q \in DOMAIN ps : GoodPower(q, ps[q])
  BY <1>1 DEF GoodPowers
<1>3. \A q \in DOMAIN ps : Boundaries(powers[q].grants) \subseteq Nat
  BY <1>1, <1>2, BoundariesFacts DEF GoodPower, PowerInfo
<1>4. d \in [DOMAIN ps -> Nat]
  OBVIOUS
<1>5. \A q \in DOMAIN ps : \A i \in Boundaries(ps[q].grants) : i + d[q] \in Boundaries(powers[q].grants)
  BY <1>1, <1>3
<1> HIDE DEF ps, d
<1>6. GoodPowers(ps)
  BY <1>1, <1>2, <1>4, <1>5, ShrinkKeepsPowers
<1>7. QED
  BY <1>6 DEF ps

LEMMA MinIsMember ==
  ASSUME NEW S \in SUBSET Nat, S # {}
  PROVE  Min(S) \in S /\ \A y \in S : Min(S) <= y
<1>1. PICK m \in S : \A y \in S : ~(<<y, m>> \in OpToRel(<, Nat))
  BY NatLessThanWellFounded, WFMin
<1>2. \A y \in S : m <= y
  <2>1. SUFFICES ASSUME NEW y \in S, ~(m <= y) PROVE FALSE
    OBVIOUS
  <2>2. y < m /\ y \in Nat /\ m \in Nat
    BY <2>1
  <2>3. <<y, m>> \in OpToRel(<, Nat)
    BY <2>2 DEF OpToRel
  <2>4. QED
    BY <2>3, <1>1
<1>3. QED
  BY <1>2 DEF Min

\* A batch takes stacks from Doom powers only.
LEMMA DebitFacts ==
  ASSUME NEW b \in DOMAIN batches, GoodBatches(batches), NEW p
  PROVE  LET n == Debit(batches[b].targets, p) IN n \in Nat /\ (p \notin DoomPowers => n = 0)
<1> DEFINE ts   == batches[b].targets
           mine == {i \in DOMAIN ts : ts[i].power = p /\ ts[i].creature = powers[p].owner}
<1>1. GoodBatch(batches[b])
  BY DEF GoodBatches
<1>2. ts \in Seq([creature : Creatures, power : Powers, stacks : Grants, rest : Nat])
  BY <1>1 DEF GoodBatch, Batch
<1>3. DOMAIN ts \subseteq Nat /\ \A i \in DOMAIN ts : ts[i].stacks \in Seq(Sources)
  <2>1. Len(ts) \in Nat /\ DOMAIN ts = 1..Len(ts)
    BY <1>2, LenProperties
  <2>2. \A i \in 1..Len(ts) : ts[i] \in [creature : Creatures, power : Powers, stacks : Grants, rest : Nat]
    BY <1>2, ElementOfSeq
  <2>3. QED
    BY <2>1, <2>2 DEF Grants
<1>4. \A i \in mine : Len(ts[i].stacks) \in Nat /\ (p \notin DoomPowers => Len(ts[i].stacks) = 0)
  BY <1>1, <1>3, LenProperties, EmptySeq DEF GoodBatch
<1>5. mine # {} => Min(mine) \in mine
  BY <1>3, MinIsMember
<1>6. QED
  BY <1>4, <1>5 DEF Debit

LEMMA ConsumeLayers ==
  ASSUME NEW q \in Grants, NEW n \in Nat
  PROVE  Cardinality(Boundaries(Consume(q, n))) <= Cardinality(Boundaries(q))
<1> DEFINE f == [i \in Boundaries(Consume(q, n)) |-> i + n]
<1>1. Consume(q, n) \in Grants
  BY ConsumeFacts
<1>2. Boundaries(Consume(q, n)) \subseteq Nat /\ IsFiniteSet(Boundaries(q))
  BY <1>1, BoundariesFacts
<1>3. f \in Injection(Boundaries(Consume(q, n)), Boundaries(q))
  BY <1>2, ConsumeBoundaries DEF Injection, IsInjective
<1>4. QED
  BY <1>2, <1>3, FS_Injection

LEMMA SpentKeepsPowers ==
  ASSUME GoodPowers(powers), GoodBatches(batches), NEW b \in DOMAIN batches
  PROVE  GoodPowers([p \in DOMAIN powers |-> Spent(batches[b].targets, p)])
<1> DEFINE ps == [p \in DOMAIN powers |-> Spent(batches[b].targets, p)]
           d  == [p \in DOMAIN ps |-> Debit(batches[b].targets, p)]
<1>1. DOMAIN ps = DOMAIN powers
  OBVIOUS
<1>2. ASSUME NEW p \in DOMAIN ps
      PROVE  /\ GoodPower(p, ps[p])
             /\ d[p] \in Nat
             /\ \A i \in Boundaries(ps[p].grants) : i + d[p] \in Boundaries(powers[p].grants)
  <2> DEFINE q == powers[p].grants
             n == Debit(batches[b].targets, p)
             rest == Consume(q, n)
             left == Settled(rest)
             source == Refreshed(left, powers[p].source)
  <2>1. GoodPower(p, powers[p])
    BY <1>2 DEF GoodPowers
  <2>2. /\ powers[p] \in PowerInfo /\ q \in Grants /\ powers[p].source \in Sources
        /\ powers[p].observed \in Int
    BY <2>1 DEF GoodPower, PowerInfo
  <2>3. n \in Nat /\ (p \notin DoomPowers => n = 0)
    BY DebitFacts
  <2>4. ps[p] = [powers[p] EXCEPT !.grants = left, !.source = source]
    BY <1>2 DEF Spent
  <2> HIDE DEF n, ps
  <2>5. rest \in Grants /\ Len(rest) = Whole(Len(q) - n)
    BY <2>2, <2>3, ConsumeFacts
  <2>6. /\ left \in Grants /\ Len(left) = Len(rest)
        /\ Boundaries(left) \subseteq Boundaries(rest)
        /\ Cardinality(Boundaries(left)) \in Nat /\ Cardinality(Boundaries(rest)) \in Nat
        /\ Cardinality(Boundaries(left)) <= Cardinality(Boundaries(rest))
    <3> HIDE DEF rest
    <3>1. QED
      BY <2>5, SettledFacts, SettledLayers
  <2>7. source \in Sources /\ (left # <<>> => source = Mixture(left))
    <3> HIDE DEF left
    <3>1. QED
      BY <2>2, <2>6, RefreshedFacts
  <2>8. Cardinality(Boundaries(left)) < MaxLayers
    <3>1. /\ Cardinality(Boundaries(rest)) <= Cardinality(Boundaries(q))
          /\ Cardinality(Boundaries(q)) \in Nat /\ MaxLayers \in Nat
      BY <2>2, <2>3, ConsumeLayers, SettledLayers, PowerConstants
    <3>2. Cardinality(Boundaries(q)) < MaxLayers
      BY <2>1 DEF GoodPower
    <3> HIDE DEF left, rest, q
    <3>3. QED
      BY <2>6, <3>1, <3>2
  <2>9. Len(left) <= Whole(powers[p].observed)
        /\ (p \notin DoomPowers => Len(left) = Whole(powers[p].observed))
    <3>1. /\ Len(q) \in Nat /\ Whole(powers[p].observed) \in Nat
          /\ Len(q) <= Whole(powers[p].observed)
          /\ p \notin DoomPowers => Len(q) = Whole(powers[p].observed)
      BY <2>1, <2>2, LenProperties, WholeFacts DEF GoodPower, Grants
    <3>2. Whole(Len(q) - n) <= Len(q) /\ (n = 0 => Whole(Len(q) - n) = Len(q))
          /\ Whole(Len(q) - n) \in Nat
      BY <2>3, <3>1 DEF Whole
    <3> HIDE DEF left, rest, q
    <3>3. QED
      BY <2>3, <2>5, <2>6, <3>1, <3>2
  <2> HIDE DEF left, source
  <2>10. ps[p] \in PowerInfo /\ ps[p].grants = left /\ ps[p].source = source
         /\ ps[p].observed = powers[p].observed
    BY <2>2, <2>4, <2>6, <2>7 DEF PowerInfo
  <2>11. \A i \in Boundaries(left) : i + n \in Boundaries(q)
    BY <2>2, <2>3, <2>6, ConsumeBoundaries
  <2>12. GoodPower(p, ps[p])
    BY <2>7, <2>8, <2>9, <2>10 DEF GoodPower
  <2>13. d[p] = n
    BY DEF n
  <2>14. QED
    BY <2>3, <2>10, <2>11, <2>12, <2>13
<1>3. d \in [DOMAIN ps -> Nat]
  BY <1>2
<1> HIDE DEF ps, d
<1>4. GoodPowers(ps)
  BY <1>1, <1>2, <1>3, ShrinkKeepsPowers
<1>5. QED
  BY <1>4 DEF ps

(***************************************************************************)
(* Doom batches.                                                           *)
(***************************************************************************)
LEMMA FrozenFacts ==
  ASSUME GoodPowers(powers), NEW c, NEW p, NEW hp \in Nat
  PROVE  /\ Frozen(c, p, hp) \in Grants
         /\ Len(Frozen(c, p, hp)) <= hp
         /\ p \notin DoomPowers => Frozen(c, p, hp) = <<>>
<1>1. <<>> \in Grants /\ Len(<<>>) = 0
  BY EmptySeq DEF Grants
<1>2. CASE ~(p \in DOMAIN powers \cap DoomPowers /\ powers[p].owner = c /\ powers[p].trusted)
  BY <1>1, <1>2 DEF Frozen
<1>3. CASE p \in DOMAIN powers \cap DoomPowers /\ powers[p].owner = c /\ powers[p].trusted
  <2> DEFINE q == powers[p].grants
             n == Min({hp, Len(q)})
  <2>1. q \in Seq(Sources)
    BY <1>3 DEF GoodPowers, GoodPower, PowerInfo, Grants
  <2>2. Len(q) \in Nat /\ \A i \in 1..Len(q) : q[i] \in Sources
    BY <2>1, LenProperties, ElementOfSeq
  <2>3. n \in Nat /\ n <= hp /\ n <= Len(q)
    <3>1. {hp, Len(q)} \in SUBSET Nat /\ {hp, Len(q)} # {}
      BY <2>2
    <3>2. n \in {hp, Len(q)} /\ \A y \in {hp, Len(q)} : n <= y
      BY <3>1, MinIsMember
    <3>3. QED
      BY <2>2, <3>2
  <2>4. Frozen(c, p, hp) = SubSeq(q, 1, n)
    BY <1>3 DEF Frozen
  <2> HIDE DEF n, q
  <2>5. \A i \in 1..n : q[i] \in Sources
    BY <2>2, <2>3
  <2>6. SubSeq(q, 1, n) \in Seq(Sources) /\ Len(SubSeq(q, 1, n)) = IF 1 <= n THEN n - 1 + 1 ELSE 0
    BY <2>3, <2>5, SubSeqProperties
  <2>7. QED
    BY <1>3, <2>3, <2>4, <2>6 DEF Grants
<1>4. QED
  BY <1>2, <1>3

LEMMA CaptureKeepsBatches ==
  ASSUME GoodPowers(powers), GoodBatches(batches), NEW b \in DOMAIN batches, NEW c \in Creatures,
         NEW p \in Powers, NEW hp \in Int, DoomTargetCapture(b, c, p, hp)
  PROVE  GoodBatches(batches')
<1> DEFINE ts      == batches[b].targets
           stacks  == Frozen(c, p, hp)
           target  == [creature |-> c, power |-> p, stacks |-> stacks, rest |-> hp - Len(stacks)]
           refused == ~batches[b].whole \/ hp < 0 \/ Len(ts) = MaxTargets \/ Doomed(ts, c)
           after   == IF refused THEN [whole |-> FALSE, targets |-> <<>>]
                      ELSE [whole |-> TRUE, targets |-> Append(ts, target)]
           Target  == [creature : Creatures, power : Powers, stacks : Grants, rest : Nat]
<1>1. batches' = [batches EXCEPT ![b] = after]
  BY DEF DoomTargetCapture
<1>2. GoodBatch(batches[b]) /\ ts \in Seq(Target)
  BY DEF GoodBatches, GoodBatch, Batch
<1>3. CASE refused
  <2>1. after = [whole |-> FALSE, targets |-> <<>>]
    BY <1>3
  <2> HIDE DEF after
  <2>2. <<>> \in Seq(Target) /\ DOMAIN <<>> = {}
    OBVIOUS
  <2>3. GoodBatch(after)
    BY <2>1, <2>2 DEF GoodBatch, Batch
  <2>4. QED
    BY <1>1, <2>3 DEF GoodBatches
<1>4. CASE ~refused
  <2>1. hp \in Nat
    BY <1>4
  <2>2. stacks \in Grants /\ Len(stacks) <= hp /\ (p \notin DoomPowers => stacks = <<>>)
    BY <2>1, FrozenFacts
  <2>3. Len(stacks) \in Nat
    BY <2>2, LenProperties DEF Grants
  <2> HIDE DEF stacks
  <2>4. target \in Target /\ target.power = p /\ target.stacks = stacks
    BY <2>1, <2>2, <2>3
  <2>5. after.targets = Append(ts, target) /\ after = [whole |-> TRUE, targets |-> Append(ts, target)]
    BY <1>4
  <2> HIDE DEF after, target
  <2>6. /\ Append(ts, target) \in Seq(Target)
        /\ \A i \in DOMAIN Append(ts, target) :
             \/ i \in DOMAIN ts /\ Append(ts, target)[i] = ts[i]
             \/ Append(ts, target)[i] = target
    BY <1>2, <2>4
  <2>7. after \in Batch
    BY <2>5, <2>6 DEF Batch
  <2>8. \A i \in DOMAIN ts : ts[i].power \notin DoomPowers => ts[i].stacks = <<>>
    BY <1>2 DEF GoodBatch
  <2>9. GoodBatch(after)
    BY <2>2, <2>4, <2>5, <2>6, <2>7, <2>8 DEF GoodBatch
  <2>10. QED
    BY <1>1, <2>9 DEF GoodBatches
<1>5. QED
  BY <1>3, <1>4

LEMMA ClosedKeepsBatches ==
  ASSUME GoodBatches(batches), NEW b PROVE GoodBatches(Closed(b))
BY DEF GoodBatches, Closed

(***************************************************************************)
(* The invariant is one.                                                   *)
(***************************************************************************)
LEMMA NothingIsGood ==
  ASSUME NEW ps, NEW bs, ps = [p \in {} |-> None], bs = [b \in {} |-> None]
  PROVE  GoodPowers(ps) /\ GoodBatches(bs)
<1>1. DOMAIN ps = {} /\ DOMAIN bs = {} /\ LayerEnds(ps) = {}
  BY DEF LayerEnds
<1>2. IsFiniteSet({}) /\ Cardinality({}) = 0 /\ MaxPowers \in Nat /\ MaxExtra \in Nat
  BY FS_EmptySet, PowerConstants
<1>3. QED
  BY <1>1, <1>2 DEF GoodPowers, GoodBatches

LEMMA ChangeKeepsPowers ==
  ASSUME GoodPowers(powers),
         NEW p \in Powers, NEW owner \in Creatures, NEW old \in Int \cup {None}, NEW new \in Int,
         NEW s \in Sources, Accept(p, owner, old, new, s) \/ Refuse(p, owner, old, new, s)
  PROVE  GoodPowers(powers') /\ batches' = batches
<1>1. CASE Accept(p, owner, old, new, s)
  BY <1>1, AcceptKeepsPowers DEF Accept
<1>2. CASE Refuse(p, owner, old, new, s)
  BY <1>2, DistrustKeepsPowers DEF Refuse, PowerInvalidated
<1>3. QED
  BY <1>1, <1>2

LEMMA StepKeepsInvariant == IInv /\ [Next]_vars => IInv'
<1> SUFFICES ASSUME IInv, [Next]_vars PROVE IInv'
  OBVIOUS
<1>0. GoodPowers(powers) /\ GoodBatches(batches)
  BY DEF IInv
<1>1. CASE Change
  <2>1. PICK p \in Powers, owner \in Creatures, new \in Amounts, s \in Inputs :
          \/ PowerAttached(p, owner, new, s)
          \/ \E old \in Amounts : PowerAmountChanged(p, owner, old, new, s)
    BY <1>1 DEF Change
  <2>2. PICK old \in Amounts \cup {None} : Accept(p, owner, old, new, s) \/ Refuse(p, owner, old, new, s)
    BY <2>1 DEF PowerAttached, PowerAmountChanged
  <2>3. old \in Int \cup {None} /\ new \in Int /\ s \in Sources
    BY PowerConstants DEF Amounts
  <2>4. QED
    BY <1>0, <2>2, <2>3, ChangeKeepsPowers DEF IInv
<1>2. ASSUME NEW p \in Powers, PowerInvalidate(p) PROVE IInv'
  BY <1>0, <1>2, DistrustKeepsPowers DEF PowerInvalidate, PowerInvalidated, IInv
<1>3. ASSUME NEW p \in Powers, PowerRemoved(p) PROVE IInv'
  BY <1>0, <1>3, RemovalKeepsPowers DEF PowerRemoved, IInv
<1>4. CASE DoomBatchBegin
  <2>1. CASE UNCHANGED <<powers, batches>>
    BY <1>0, <2>1 DEF IInv
  <2>2. CASE /\ UNCHANGED powers
             /\ batches' = [b \in DOMAIN batches \cup {serial + 1} |->
                             IF b = serial + 1 THEN [whole |-> TRUE, targets |-> <<>>] ELSE batches[b]]
    <3>1. GoodBatch([whole |-> TRUE, targets |-> <<>>])
      BY DEF GoodBatch, Batch
    <3>2. QED
      BY <1>0, <2>2, <3>1 DEF GoodBatches, IInv
  <2>3. QED
    BY <1>4, <2>1, <2>2 DEF DoomBatchBegin, Stale
<1>5. CASE Capture
  <2>1. PICK b \in DOMAIN batches, c \in Creatures, p \in Powers, hp \in (-1)..MaxHp :
          DoomTargetCapture(b, c, p, hp)
    BY <1>5 DEF Capture
  <2>2. hp \in Int
    BY PowerConstants
  <2>3. powers' = powers
    BY <2>1 DEF DoomTargetCapture
  <2>4. GoodBatches(batches')
    BY <1>0, <2>1, <2>2, CaptureKeepsBatches
  <2>5. QED
    BY <1>0, <2>3, <2>4 DEF IInv
<1>6. ASSUME NEW b \in DOMAIN batches, DoomBatchAbort(b) PROVE IInv'
  BY <1>0, <1>6, ClosedKeepsBatches DEF DoomBatchAbort, IInv
<1>7. ASSUME NEW b \in DOMAIN batches, NEW booked \in BOOLEAN, DoomKillsCompleted(b, booked) PROVE IInv'
  <2>1. batches' = Closed(b)
    BY <1>7 DEF DoomKillsCompleted
  <2>2. powers' = powers \/ powers' = [p \in DOMAIN powers |-> Spent(batches[b].targets, p)]
    BY <1>7 DEF DoomKillsCompleted
  <2>3. GoodPowers(powers')
    BY <1>0, <2>2, SpentKeepsPowers
  <2>4. QED
    BY <1>0, <2>1, <2>3, ClosedKeepsBatches DEF IInv
<1>8. CASE Stale
  BY <1>0, <1>8 DEF Stale, IInv
<1>9. CASE CombatStarted
  BY <1>9, NothingIsGood DEF CombatStarted, IInv
<1>10. CASE UNCHANGED vars
  BY <1>0, <1>10 DEF vars, IInv
<1>11. QED
  BY <1>1, <1>2, <1>3, <1>4, <1>5, <1>6, <1>7, <1>8, <1>9, <1>10 DEF Next

THEOREM PowersInvariant == Spec => []IInv
<1>1. Init => IInv
  BY NothingIsGood DEF Init, IInv
<1>2. QED
  BY <1>1, StepKeepsInvariant, PTL DEF Spec

(***************************************************************************)
(* However powers grow, shrink, drift and die, the layers of one and of    *)
(* all stay within their limits: the collapse of update_power_grants is    *)
(* enough, and Doom kills, which look at no limit, pass none.              *)
(***************************************************************************)
THEOREM LayersStayLimited == Spec => []LayersLimited
<1>1. IInv => LayersLimited
  BY DEF IInv, GoodPowers, GoodPower, LayersLimited, LayerEnds
<1>2. QED
  BY <1>1, PowersInvariant, PTL

(***************************************************************************)
(* A power's grants account for the stacks it was last seen with, and a    *)
(* Doom power's for no more.                                               *)
(***************************************************************************)
THEOREM StacksStayAccountedFor == Spec => []StacksAccountedFor
<1>1. IInv => StacksAccountedFor
  BY DEF IInv, GoodPowers, GoodPower, StacksAccountedFor
<1>2. QED
  BY <1>1, PowersInvariant, PTL

(***************************************************************************)
(* A trusted power is captured with exactly the roots whose stacks remain. *)
(***************************************************************************)
THEOREM RemainingAreCredited == Spec => []CreditsTheRemaining
<1>1. IInv => CreditsTheRemaining
  BY DEF IInv, GoodPowers, GoodPower, CreditsTheRemaining, Captured
<1>2. QED
  BY <1>1, PowersInvariant, PTL

(***************************************************************************)
(* The Doom that a supplier still has a claim to: the stacks that batches  *)
(* froze, and the stacks left on powers that those batches, when they are  *)
(* committed, will not take.  Any set of open batches may be the one that  *)
(* commits, so what was supplied must cover the claims for every set.      *)
(***************************************************************************)
FrozenFor(bs, B, s) ==
  UNION {UNION {{<<"frozen", b, i, j>> : j \in {k \in DOMAIN bs[b].targets[i].stacks :
                                                  bs[b].targets[i].stacks[k] = s}} :
                i \in DOMAIN bs[b].targets} : b \in B}

\* How many stacks a committed batch takes from power p while creature c has it.
Takes(targets, p, c) ==
  LET mine == {i \in DOMAIN targets : targets[i].power = p /\ targets[i].creature = c}
  IN  IF mine = {} THEN 0 ELSE Len(targets[Min(mine)].stacks)

LeftFor(ps, bs, B, s) ==
  UNION {{<<"left", p, 0, j>> : j \in {k \in DOMAIN ps[p].grants :
                                        /\ ps[p].grants[k] = s
                                        /\ \A b \in B : k > Takes(bs[b].targets, p, ps[p].owner)}} :
         p \in DOMAIN ps \cap DoomPowers}

Claims(ps, bs, B, s) == FrozenFor(bs, B, s) \cup LeftFor(ps, bs, B, s)

Covered(ps, bs, ow, B, s) ==
  /\ IsFiniteSet(Claims(ps, bs, B, s))
  /\ Cardinality(Claims(ps, bs, B, s)) <= ow[s]

DoomInv ==
  /\ DOMAIN owed = Sources
  /\ \A s \in Sources \ {UnknownSource} : owed[s] \in Int
  /\ \A B \in SUBSET DOMAIN batches, s \in Sources \ {UnknownSource} : Covered(powers, batches, owed, B, s)

\* What a claim is.
LEMMA FrozenAre ==
  ASSUME NEW bs, NEW B, NEW s, NEW x
  PROVE  x \in FrozenFor(bs, B, s) <=>
           \E b \in B : \E i \in DOMAIN bs[b].targets : \E j \in DOMAIN bs[b].targets[i].stacks :
             x = <<"frozen", b, i, j>> /\ bs[b].targets[i].stacks[j] = s
<1> DEFINE Stacks(b, i) == {k \in DOMAIN bs[b].targets[i].stacks : bs[b].targets[i].stacks[k] = s}
           OfTarget(b, i) == {<<"frozen", b, i, j>> : j \in Stacks(b, i)}
           OfBatch(b) == UNION {OfTarget(b, i) : i \in DOMAIN bs[b].targets}
<1>1. FrozenFor(bs, B, s) = UNION {OfBatch(b) : b \in B}
  BY DEF FrozenFor
<1>2. ASSUME x \in FrozenFor(bs, B, s)
      PROVE  \E b \in B : \E i \in DOMAIN bs[b].targets : \E j \in DOMAIN bs[b].targets[i].stacks :
               x = <<"frozen", b, i, j>> /\ bs[b].targets[i].stacks[j] = s
  <2> HIDE DEF OfBatch
  <2>1. PICK b \in B : x \in OfBatch(b)
    BY <1>1, <1>2
  <2> HIDE DEF OfTarget
  <2>2. PICK i \in DOMAIN bs[b].targets : x \in OfTarget(b, i)
    BY <2>1 DEF OfBatch
  <2>3. PICK j \in Stacks(b, i) : x = <<"frozen", b, i, j>>
    BY <2>2 DEF OfTarget
  <2>4. QED
    BY <2>3
<1>3. ASSUME NEW b \in B, NEW i \in DOMAIN bs[b].targets, NEW j \in DOMAIN bs[b].targets[i].stacks,
             x = <<"frozen", b, i, j>>, bs[b].targets[i].stacks[j] = s
      PROVE  x \in FrozenFor(bs, B, s)
  <2>1. x \in OfTarget(b, i)
    BY <1>3
  <2> HIDE DEF OfTarget
  <2>2. x \in OfBatch(b)
    BY <2>1
  <2> HIDE DEF OfBatch
  <2>3. QED
    BY <1>1, <2>2
<1>4. QED
  BY <1>2, <1>3

LEMMA LeftAre ==
  ASSUME NEW ps, NEW bs, NEW B, NEW s, NEW x
  PROVE  x \in LeftFor(ps, bs, B, s) <=>
           \E p \in DOMAIN ps \cap DoomPowers : \E j \in DOMAIN ps[p].grants :
             /\ x = <<"left", p, 0, j>> /\ ps[p].grants[j] = s
             /\ \A b \in B : j > Takes(bs[b].targets, p, ps[p].owner)
<1> DEFINE Spared(p) == {k \in DOMAIN ps[p].grants :
                          /\ ps[p].grants[k] = s
                          /\ \A b \in B : k > Takes(bs[b].targets, p, ps[p].owner)}
           OfPower(p) == {<<"left", p, 0, j>> : j \in Spared(p)}
<1>1. LeftFor(ps, bs, B, s) = UNION {OfPower(p) : p \in DOMAIN ps \cap DoomPowers}
  BY DEF LeftFor
<1>2. ASSUME x \in LeftFor(ps, bs, B, s)
      PROVE  \E p \in DOMAIN ps \cap DoomPowers : \E j \in DOMAIN ps[p].grants :
               /\ x = <<"left", p, 0, j>> /\ ps[p].grants[j] = s
               /\ \A b \in B : j > Takes(bs[b].targets, p, ps[p].owner)
  <2> HIDE DEF OfPower
  <2>1. PICK p \in DOMAIN ps \cap DoomPowers : x \in OfPower(p)
    BY <1>1, <1>2
  <2>2. PICK j \in Spared(p) : x = <<"left", p, 0, j>>
    BY <2>1 DEF OfPower
  <2>3. QED
    BY <2>2
<1>3. ASSUME NEW p \in DOMAIN ps \cap DoomPowers, NEW j \in DOMAIN ps[p].grants,
             x = <<"left", p, 0, j>>, ps[p].grants[j] = s,
             \A b \in B : j > Takes(bs[b].targets, p, ps[p].owner)
      PROVE  x \in LeftFor(ps, bs, B, s)
  <2>1. x \in OfPower(p)
    BY <1>3
  <2> HIDE DEF OfPower
  <2>2. QED
    BY <1>1, <2>1
<1>4. QED
  BY <1>2, <1>3

LEMMA DebitTakes ==
  ASSUME NEW ts, NEW p PROVE Debit(ts, p) = Takes(ts, p, powers[p].owner)
BY DEF Debit, Takes

LEMMA TakesFacts ==
  ASSUME NEW w, GoodBatch(w), NEW p, NEW c
  PROVE  Takes(w.targets, p, c) \in Nat
<1> DEFINE ts   == w.targets
           mine == {i \in DOMAIN ts : ts[i].power = p /\ ts[i].creature = c}
           Target == [creature : Creatures, power : Powers, stacks : Grants, rest : Nat]
<1>1. ts \in Seq(Target)
  BY DEF GoodBatch, Batch
<1>2. DOMAIN ts \subseteq Nat /\ \A i \in DOMAIN ts : ts[i] \in Target
  <2> HIDE DEF ts, Target
  <2>1. Len(ts) \in Nat /\ DOMAIN ts = 1..Len(ts) /\ \A i \in 1..Len(ts) : ts[i] \in Target
    BY <1>1, LenProperties, ElementOfSeq
  <2>2. QED
    BY <2>1
<1>3. \A i \in DOMAIN ts : Len(ts[i].stacks) \in Nat
  BY <1>2, LenProperties DEF Grants
<1>4. mine # {} => Min(mine) \in mine
  BY <1>2, MinIsMember
<1>5. QED
  BY <1>3, <1>4 DEF Takes

(***************************************************************************)
(* What a step leaves of the claims.  From ps and bs to qs and cs, batches *)
(* of B keep their targets or lose them all; those of B1 keep theirs, or   *)
(* have taken their stacks; the stacks of s were d further from the head,  *)
(* but for those in T.  Then every claim after the step was one before,    *)
(* but for those in T.                                                     *)
(***************************************************************************)
TargetsKept(bs, cs, B, B1) ==
  \A b \in B : (b \in B1 /\ cs[b].targets = bs[b].targets) \/ cs[b].targets = <<>>

TargetsTaken(ps, bs, cs, B, B1, d) ==
  \A b \in B1 : \/ b \in B /\ cs[b].targets = bs[b].targets
                \/ \A p \in DOMAIN ps : Takes(bs[b].targets, p, ps[p].owner) <= d[p]

Offsets(ps, d) == \A p \in DOMAIN ps : d[p] \in Nat

Survive(ps, qs, d, T, s) ==
  \A p \in DOMAIN qs \cap DoomPowers : \A j \in DOMAIN qs[p].grants :
    qs[p].grants[j] = s =>
      \/ <<"left", p, 0, j>> \in T
      \/ /\ p \in DOMAIN ps /\ qs[p].owner = ps[p].owner
         /\ j + d[p] \in DOMAIN ps[p].grants
         /\ ps[p].grants[j + d[p]] = s

LEMMA ClaimsCarry ==
  ASSUME NEW B, NEW B1, NEW s, NEW T, NEW d,
         IsFiniteSet(T), IsFiniteSet(FrozenFor(batches, B \cap B1, s) \cup LeftFor(powers, batches, B1, s)),
         GoodPowers(powers'), GoodBatches(batches), B1 \subseteq DOMAIN batches,
         Offsets(powers, d), TargetsKept(batches, batches', B, B1),
         TargetsTaken(powers, batches, batches', B, B1, d), Survive(powers, powers', d, T, s)
  PROVE  /\ IsFiniteSet(Claims(powers', batches', B, s))
         /\ Cardinality(Claims(powers', batches', B, s)) <=
              Cardinality(FrozenFor(batches, B \cap B1, s) \cup LeftFor(powers, batches, B1, s)) + Cardinality(T)
<1> DEFINE Old  == FrozenFor(batches, B \cap B1, s) \cup LeftFor(powers, batches, B1, s)
           New  == Claims(powers', batches', B, s)
           Rest == New \ T
           f    == [x \in Rest |-> IF x[1] = "left" THEN <<"left", x[2], 0, x[4] + d[x[2]]>> ELSE x]
<1>1. ASSUME NEW x \in Rest, x \in FrozenFor(batches', B, s)
      PROVE  x \in Old /\ f[x] = x /\ x[1] = "frozen"
  <2>1. PICK b \in B : \E i \in DOMAIN batches'[b].targets :
          \E j \in DOMAIN batches'[b].targets[i].stacks :
            x = <<"frozen", b, i, j>> /\ batches'[b].targets[i].stacks[j] = s
    BY <1>1, FrozenAre
  <2>2. b \in B \cap B1 /\ batches'[b].targets = batches[b].targets
    BY <2>1 DEF TargetsKept
  <2>3. x \in FrozenFor(batches, B \cap B1, s)
    BY <2>1, <2>2, FrozenAre
  <2>4. QED
    BY <2>1, <2>3
<1>2. ASSUME NEW x \in Rest, x \in LeftFor(powers', batches', B, s)
      PROVE  \E p \in DOMAIN powers : \E j \in Nat :
               x = <<"left", p, 0, j>> /\ f[x] = <<"left", p, 0, j + d[p]>> /\ f[x] \in Old
  <2>1. PICK p \in DOMAIN powers' \cap DoomPowers : \E j \in DOMAIN powers'[p].grants :
          /\ x = <<"left", p, 0, j>> /\ powers'[p].grants[j] = s
          /\ \A b \in B : j > Takes(batches'[b].targets, p, powers'[p].owner)
    BY <1>2, LeftAre
  <2>2. PICK j \in DOMAIN powers'[p].grants :
          /\ x = <<"left", p, 0, j>> /\ powers'[p].grants[j] = s
          /\ \A b \in B : j > Takes(batches'[b].targets, p, powers'[p].owner)
    BY <2>1
  <2>3. /\ p \in DOMAIN powers /\ powers'[p].owner = powers[p].owner
        /\ j + d[p] \in DOMAIN powers[p].grants
        /\ powers[p].grants[j + d[p]] = s
    BY <1>2, <2>2 DEF Survive
  <2>4. j \in Nat /\ j > 0 /\ d[p] \in Nat
    <3>1. powers'[p].grants \in Seq(Sources)
      BY <2>2 DEF GoodPowers, GoodPower, PowerInfo, Grants
    <3>2. QED
      BY <2>2, <2>3, <3>1, LenProperties DEF Offsets
  <2>5. ASSUME NEW b \in B1 PROVE j + d[p] > Takes(batches[b].targets, p, powers[p].owner)
    <3>1. Takes(batches[b].targets, p, powers[p].owner) \in Nat
      BY TakesFacts DEF GoodBatches
    <3>2. CASE b \in B /\ batches'[b].targets = batches[b].targets
      <4>1. j > Takes(batches[b].targets, p, powers[p].owner)
        BY <2>2, <2>3, <3>2
      <4>2. QED
        BY <2>4, <3>1, <4>1
    <3>3. CASE Takes(batches[b].targets, p, powers[p].owner) <= d[p]
      BY <2>4, <3>1, <3>3
    <3>4. QED
      BY <2>3, <3>2, <3>3 DEF TargetsTaken
  <2>6. <<"left", p, 0, j + d[p]>> \in LeftFor(powers, batches, B1, s)
    BY <2>2, <2>3, <2>5, LeftAre
  <2>7. QED
    BY <2>2, <2>3, <2>4, <2>6
<1>3. \A x \in Rest : x \in FrozenFor(batches', B, s) \/ x \in LeftFor(powers', batches', B, s)
  BY DEF Claims
<1> HIDE DEF Old, New
<1>4. f \in Injection(Rest, Old)
  <2>1. \A x \in Rest : f[x] \in Old
    BY <1>1, <1>2, <1>3
  <2>2. ASSUME NEW x \in Rest, NEW y \in Rest, f[x] = f[y] PROVE x = y
    <3>1. CASE x \in FrozenFor(batches', B, s) /\ y \in FrozenFor(batches', B, s)
      BY <1>1, <2>2, <3>1
    <3>2. CASE x \in FrozenFor(batches', B, s) /\ y \in LeftFor(powers', batches', B, s)
      BY <1>1, <1>2, <2>2, <3>2
    <3>3. CASE x \in LeftFor(powers', batches', B, s) /\ y \in FrozenFor(batches', B, s)
      BY <1>1, <1>2, <2>2, <3>3
    <3>4. CASE x \in LeftFor(powers', batches', B, s) /\ y \in LeftFor(powers', batches', B, s)
      <4>1. PICK p \in DOMAIN powers, j \in Nat : x = <<"left", p, 0, j>> /\ f[x] = <<"left", p, 0, j + d[p]>>
        BY <1>2, <3>4
      <4>2. PICK q \in DOMAIN powers, k \in Nat : y = <<"left", q, 0, k>> /\ f[y] = <<"left", q, 0, k + d[q]>>
        BY <1>2, <3>4
      <4>3. p = q /\ j + d[p] = k + d[p]
        BY <2>2, <4>1, <4>2
      <4>4. j = k
        BY <4>3 DEF Offsets
      <4>5. QED
        BY <4>1, <4>2, <4>3, <4>4
    <3>5. QED
      BY <1>3, <3>1, <3>2, <3>3, <3>4
  <2> HIDE DEF f
  <2>3. QED
    <3>1. f \in [Rest -> Old]
      BY <2>1 DEF f
    <3>2. QED
      BY <2>2, <3>1 DEF Injection, IsInjective
<1> HIDE DEF f, Rest
<1>5. IsFiniteSet(Rest) /\ Cardinality(Rest) <= Cardinality(Old)
  BY <1>4, FS_Injection DEF Old
<1>6. New \in SUBSET (Rest \cup T)
  BY DEF Rest
<1>7. /\ IsFiniteSet(Rest \cup T)
      /\ Cardinality(Rest \cup T) = Cardinality(Rest) + Cardinality(T) - Cardinality(Rest \cap T)
      /\ Cardinality(Rest \cap T) \in Nat
  BY <1>5, FS_Union, FS_Intersection, FS_CardinalityType
<1>8. IsFiniteSet(New) /\ Cardinality(New) <= Cardinality(Rest \cup T)
  BY <1>6, <1>7, FS_Subset
<1>9. /\ Cardinality(Rest) \in Nat /\ Cardinality(T) \in Nat /\ Cardinality(Old) \in Nat
      /\ Cardinality(New) \in Nat /\ Cardinality(Rest \cup T) \in Nat
  BY <1>5, <1>7, <1>8, FS_CardinalityType DEF Old
<1>10. IsFiniteSet(New) /\ Cardinality(New) <= Cardinality(Old) + Cardinality(T)
  BY <1>5, <1>7, <1>8, <1>9
<1>11. QED
  BY <1>10 DEF New, Old

LEMMA KeptCovers ==
  ASSUME NEW B, NEW B1, NEW s, NEW T, NEW d,
         IsFiniteSet(T), Covered(powers, batches, owed, B1, s),
         GoodPowers(powers'), GoodBatches(batches), B1 \subseteq DOMAIN batches, B1 \subseteq B,
         Offsets(powers, d), Survive(powers, powers', d, T, s),
         \A b \in B : b \in B1 \/ batches'[b].targets = <<>>,
         \A b \in B1 : batches'[b].targets = batches[b].targets,
         owed[s] \in Int, owed'[s] \in Int, owed'[s] >= owed[s] + Cardinality(T)
  PROVE  Covered(powers', batches', owed', B, s)
<1>1. FrozenFor(batches, B \cap B1, s) \cup LeftFor(powers, batches, B1, s) = Claims(powers, batches, B1, s)
  <2>1. B \cap B1 = B1
    OBVIOUS
  <2>2. QED
    BY <2>1 DEF Claims
<1>2. /\ IsFiniteSet(Claims(powers, batches, B1, s))
      /\ Cardinality(Claims(powers, batches, B1, s)) <= owed[s]
  BY DEF Covered
<1>3. /\ IsFiniteSet(Claims(powers', batches', B, s))
      /\ Cardinality(Claims(powers', batches', B, s)) <=
           Cardinality(Claims(powers, batches, B1, s)) + Cardinality(T)
  <2>1. TargetsKept(batches, batches', B, B1) /\ TargetsTaken(powers, batches, batches', B, B1, d)
    BY DEF TargetsKept, TargetsTaken
  <2>2. QED
    BY <1>1, <1>2, <2>1, ClaimsCarry
<1>4. /\ Cardinality(Claims(powers', batches', B, s)) \in Nat /\ Cardinality(T) \in Nat
      /\ Cardinality(Claims(powers, batches, B1, s)) \in Nat
  BY <1>2, <1>3, FS_CardinalityType
<1>5. Cardinality(Claims(powers', batches', B, s)) <= owed'[s]
  BY <1>2, <1>3, <1>4
<1>6. QED
  BY <1>3, <1>5 DEF Covered

\* Powers that only lose their place or their trust, batches that only close or lose their targets.
LEMMA FadingCovers ==
  ASSUME DoomInv, GoodPowers(powers'), GoodBatches(batches), owed' = owed,
         \A p \in DOMAIN powers' : /\ p \in DOMAIN powers /\ powers'[p].grants = powers[p].grants
                                   /\ powers'[p].owner = powers[p].owner,
         \A b \in DOMAIN batches' :
           \/ b \in DOMAIN batches /\ batches'[b].targets = batches[b].targets
           \/ batches'[b].targets = <<>>
  PROVE  DoomInv'
<1>1. ASSUME NEW B \in SUBSET DOMAIN batches', NEW s \in Sources \ {UnknownSource}
      PROVE  Covered(powers', batches', owed', B, s)
  <2> DEFINE B1 == {b \in B : b \in DOMAIN batches /\ batches'[b].targets = batches[b].targets}
             d  == [p \in DOMAIN powers |-> 0]
             T  == {}
  <2>1. B1 \in SUBSET DOMAIN batches /\ B1 \subseteq B
    OBVIOUS
  <2>2. /\ \A b \in B : b \in B1 \/ batches'[b].targets = <<>>
        /\ \A b \in B1 : batches'[b].targets = batches[b].targets
    OBVIOUS
  <2>3. Offsets(powers, d) /\ \A p \in DOMAIN powers : d[p] = 0
    BY DEF Offsets
  <2>4. ASSUME NEW p \in DOMAIN powers' \cap DoomPowers, NEW j \in DOMAIN powers'[p].grants,
               powers'[p].grants[j] = s
        PROVE  /\ p \in DOMAIN powers /\ powers'[p].owner = powers[p].owner
               /\ j + d[p] \in DOMAIN powers[p].grants
               /\ powers[p].grants[j + d[p]] = s
    <3>1. powers'[p].grants \in Seq(Sources)
      BY DEF GoodPowers, GoodPower, PowerInfo, Grants
    <3>2. j \in Nat
      BY <3>1, LenProperties
    <3>3. p \in DOMAIN powers /\ d[p] = 0 /\ j + d[p] = j
      BY <3>2
    <3>4. QED
      BY <2>4, <3>3
  <2>5. Survive(powers, powers', d, T, s)
    BY <2>4 DEF Survive
  <2>6. Covered(powers, batches, owed, B1, s) /\ owed[s] \in Int
    BY <2>1 DEF DoomInv
  <2>7. IsFiniteSet(T) /\ Cardinality(T) = 0
    BY FS_EmptySet
  <2>8. owed'[s] \in Int /\ owed'[s] >= owed[s] + Cardinality(T)
    BY <2>6, <2>7
  <2> HIDE DEF B1, d, T
  <2>9. QED
    BY <2>1, <2>2, <2>3, <2>5, <2>6, <2>7, <2>8, KeptCovers
<1>2. DOMAIN owed' = Sources /\ \A s \in Sources \ {UnknownSource} : owed'[s] \in Int
  BY DEF DoomInv
<1>3. QED
  BY <1>1, <1>2 DEF DoomInv

(***************************************************************************)
(* Where the stacks of a known supplier come from when an amount changes:  *)
(* they were there, further from the head, or are among the gained ones.   *)
(***************************************************************************)
LEMMA UnitsAre ==
  ASSUME NEW n \in Nat, NEW s, NEW i \in DOMAIN Units(n, s)
  PROVE  Units(n, s)[i] = s /\ i \in 1..n
BY DEF Units

LEMMA MovedStacks ==
  ASSUME NEW q \in Grants, NEW before \in Int, NEW after \in Int, NEW s \in Sources, NEW t
  PROVE  \E k \in Nat : \A j \in DOMAIN Moved(q, before, after, s) :
           Moved(q, before, after, s)[j] = t =>
             \/ /\ t = s
                /\ j \in (Len(q) + 1)..(Len(q) + Whole(Whole(after) - Whole(before)))
             \/ j + k \in DOMAIN q /\ q[j + k] = t
<1>1. Whole(before) \in Nat /\ Whole(after) \in Nat /\ Len(q) \in Nat /\ DOMAIN q = 1..Len(q)
  BY WholeFacts, LenProperties DEF Grants
<1>2. CASE Whole(after) < Whole(before)
  <2> DEFINE k == Whole(before) - Whole(after)
             r == Consume(q, k)
  <2>1. k \in Nat /\ Moved(q, before, after, s) = r
    BY <1>1, <1>2 DEF Moved
  <2> HIDE DEF k
  <2>2. /\ r \in Grants /\ Len(r) = Whole(Len(q) - k)
        /\ \A i \in 1..(Len(q) - k) : r[i] = q[i + k]
    BY <2>1, ConsumeFacts
  <2> HIDE DEF r
  <2>3. ASSUME NEW j \in DOMAIN r PROVE j + k \in DOMAIN q /\ r[j] = q[j + k]
    <3>1. j \in 1..Whole(Len(q) - k)
      BY <2>2, LenProperties DEF Grants
    <3>2. j \in 1..(Len(q) - k)
      BY <1>1, <2>1, <3>1 DEF Whole
    <3>3. QED
      BY <1>1, <2>1, <2>2, <3>2
  <2>4. QED
    BY <2>1, <2>3
<1>3. CASE ~(Whole(after) < Whole(before))
  <2> DEFINE n == Whole(after) - Whole(before)
             u == Units(n, s)
  <2>1. n \in Nat /\ Whole(n) = n /\ Moved(q, before, after, s) = q \o u
    BY <1>1, <1>3 DEF Moved, Whole
  <2> HIDE DEF n
  <2>2. u \in Seq(Sources) /\ Len(u) = n
    BY <2>1, UnitsFacts DEF Grants
  <2>3. \A i \in 1..n : u[i] = s
    BY DEF Units
  <2> HIDE DEF u
  <2>4. /\ Len(q \o u) = Len(q) + n /\ q \o u \in Seq(Sources)
        /\ \A i \in 1..(Len(q) + n) : (q \o u)[i] = IF i <= Len(q) THEN q[i] ELSE u[i - Len(q)]
    BY <2>2, ConcatProperties DEF Grants
  <2>5. ASSUME NEW j \in DOMAIN (q \o u), (q \o u)[j] = t
        PROVE  \/ t = s /\ j \in (Len(q) + 1)..(Len(q) + n)
               \/ j + 0 \in DOMAIN q /\ q[j + 0] = t
    <3>1. j \in 1..(Len(q) + n)
      BY <2>4, LenProperties
    <3>2. CASE j <= Len(q)
      <4>1. j + 0 = j /\ j \in DOMAIN q
        BY <1>1, <3>1, <3>2
      <4>2. q[j] = t
        BY <2>4, <2>5, <3>1, <3>2
      <4>3. QED
        BY <4>1, <4>2
    <3>3. CASE ~(j <= Len(q))
      <4>1. j - Len(q) \in 1..n /\ j \in (Len(q) + 1)..(Len(q) + n)
        BY <1>1, <2>1, <3>1, <3>3
      <4>2. t = u[j - Len(q)]
        BY <2>4, <2>5, <3>1, <3>3
      <4>3. QED
        BY <2>3, <4>1, <4>2
    <3>4. QED
      BY <3>2, <3>3
  <2>6. Whole(Whole(after) - Whole(before)) = n
    BY <2>1 DEF n
  <2>7. QED
    BY <2>1, <2>5, <2>6
<1>4. QED
  BY <1>2, <1>3

GrantsCome(ps, qs, p, s, t, k, l, n) ==
  \A j \in DOMAIN qs[p].grants :
    qs[p].grants[j] = t =>
      \/ t = s /\ j \in (l + 1)..(l + n)
      \/ /\ p \in DOMAIN ps /\ qs[p].owner = ps[p].owner
         /\ j + k \in DOMAIN ps[p].grants
         /\ ps[p].grants[j + k] = t

LEMMA AcceptStacks ==
  ASSUME GoodPowers(powers), NEW p \in DoomPowers, p \in Powers,
         NEW owner \in Creatures, NEW old \in Int \cup {None}, NEW new \in Int,
         NEW s \in Sources, NEW t \in Sources \ {UnknownSource}, Accept(p, owner, old, new, s)
  PROVE  \E k \in Nat, l \in Nat : GrantsCome(powers, powers', p, s, t, k, l, Gain(p, old, new))
<1> DEFINE held   == Held(p, old)
           moved  == Moved(held, Before(old), new, s)
           fitted == Fitted(p, moved, new)
           grants == Settled(fitted)
<1>1. Before(old) \in Int /\ held \in Grants /\ Len(held) <= Whole(Before(old))
  BY HeldFacts
<1>2. moved \in Grants
  BY <1>1, MovedFacts
<1>3. powers'[p].grants = grants /\ powers'[p].owner = owner
  <2> HIDE DEF grants
  <2>1. \E source : powers' = [q \in DOMAIN powers \cup {p} |->
                      IF q = p THEN [owner |-> owner, observed |-> new, grants |-> grants,
                                     source |-> source, trusted |-> TRUE] ELSE powers[q]]
    BY Zenon DEF Accept, grants, fitted, moved, held
  <2>2. QED
    BY <2>1
<1>4. Gain(p, old, new) = Whole(Whole(new) - Whole(Before(old)))
  BY DEF Gain
<1>5. PICK k \in Nat : \A j \in DOMAIN moved : moved[j] = t =>
        \/ /\ t = s
           /\ j \in (Len(held) + 1)..(Len(held) + Gain(p, old, new))
        \/ j + k \in DOMAIN held /\ held[j + k] = t
  <2> HIDE DEF held
  <2>1. QED
    BY <1>1, <1>4, MovedStacks
<1>6. Len(held) \in Nat
  BY <1>1, LenProperties DEF Grants
<1>7. \A j \in DOMAIN grants : grants[j] = t => j \in DOMAIN moved /\ moved[j] = t
  <2> HIDE DEF moved
  <2>1. fitted \in {moved, Units(Whole(new), UnknownSource)}
    BY DEF Fitted
  <2>2. grants \in {fitted, Units(Len(fitted), UnknownSource)}
    BY DEF Settled
  <2>3. fitted \in Grants
    <3>1. Whole(new) \in Nat
      BY WholeFacts
    <3>2. QED
      BY <1>2, <2>1, <3>1, UnitsFacts, UnknownIsSource
  <2>4. Len(fitted) \in Nat /\ Whole(new) \in Nat
    BY <2>3, WholeFacts, LenProperties DEF Grants
  <2> HIDE DEF fitted, grants
  <2>5. \A n \in Nat : \A i \in DOMAIN Units(n, UnknownSource) : Units(n, UnknownSource)[i] # t
    BY UnitsAre
  <2>6. QED
    BY <2>1, <2>2, <2>4, <2>5
<1>8. ASSUME NEW i \in DOMAIN held, held[i] = t
      PROVE  p \in DOMAIN powers /\ powers[p].owner = owner /\ held = powers[p].grants
  <2>1. Whole(Before(old)) \in Nat
    BY <1>1, WholeFacts
  <2>2. ~Drifted(p, old)
    <3>1. Drifted(p, old) => held = Units(Whole(Before(old)), UnknownSource)
      BY DEF Held
    <3> HIDE DEF held
    <3>2. QED
      BY <1>8, <2>1, <3>1, UnitsAre
  <2>3. p \in DOMAIN powers
    <3>1. p \notin DOMAIN powers => held = <<>>
      BY <2>2 DEF Held
    <3> HIDE DEF held
    <3>2. QED
      BY <1>8, <3>1
  <2>4. powers[p].owner = owner
    BY <2>3 DEF Accept, Refused
  <2>5. QED
    BY <2>2, <2>3, <2>4 DEF Held
<1> HIDE DEF held, moved, grants
<1>9. ASSUME NEW j \in DOMAIN powers'[p].grants, powers'[p].grants[j] = t
      PROVE  \/ t = s /\ j \in (Len(held) + 1)..(Len(held) + Gain(p, old, new))
             \/ /\ p \in DOMAIN powers /\ powers'[p].owner = powers[p].owner
                /\ j + k \in DOMAIN powers[p].grants
                /\ powers[p].grants[j + k] = t
  <2>1. j \in DOMAIN moved /\ moved[j] = t
    BY <1>3, <1>7, <1>9
  <2>2. CASE j + k \in DOMAIN held /\ held[j + k] = t
    <3>1. p \in DOMAIN powers /\ powers[p].owner = owner /\ held = powers[p].grants
      BY <1>8, <2>2
    <3>2. QED
      BY <1>3, <2>2, <3>1
  <2>3. QED
    BY <1>5, <2>1, <2>2
<1> USE <1>6
<1>10. WITNESS k \in Nat, Len(held) \in Nat
<1>11. QED
  BY <1>9 DEF GrantsCome

LEMMA AcceptCovers ==
  ASSUME GoodPowers(powers), GoodBatches(batches), DoomInv,
         NEW p \in Powers, NEW owner \in Creatures, NEW old \in Int \cup {None}, NEW new \in Int,
         NEW s \in Sources, Accept(p, owner, old, new, s)
  PROVE  DoomInv'
<1> DEFINE gain == Gain(p, old, new)
<1>1. gain \in Nat /\ Before(old) \in Int
  <2>1. Before(old) \in Int
    BY PowerConstants DEF Before
  <2>2. Whole(new) \in Int /\ Whole(Before(old)) \in Int
    BY <2>1, WholeFacts
  <2>3. Whole(Whole(new) - Whole(Before(old))) \in Nat
    BY <2>2, WholeFacts
  <2>4. QED
    BY <2>1, <2>3 DEF Gain
<1>2. /\ DOMAIN owed = Sources /\ \A t \in Sources \ {UnknownSource} : owed[t] \in Int
      /\ owed' = [owed EXCEPT ![s] = @ + gain]
  BY DEF DoomInv, Accept
<1>3. GoodPowers(powers')
  BY AcceptKeepsPowers
<1>4. batches' = batches
  BY DEF Accept
<1>5. /\ DOMAIN powers' = DOMAIN powers \cup {p}
      /\ \A q \in DOMAIN powers \ {p} : powers'[q] = powers[q]
  BY DEF Accept
<1> HIDE DEF gain
<1>6. DOMAIN owed' = Sources /\ \A t \in Sources \ {UnknownSource} : owed'[t] \in Int
  BY <1>1, <1>2
<1>7. ASSUME NEW B \in SUBSET DOMAIN batches, NEW t \in Sources \ {UnknownSource}
      PROVE  Covered(powers', batches', owed', B, t)
  <2>1. PICK k \in Nat, l \in Nat : p \in DoomPowers => GrantsCome(powers, powers', p, s, t, k, l, gain)
    <3>1. gain = Gain(p, old, new)
      BY DEF gain
    <3>2. CASE p \in DoomPowers
      <4>1. \E k \in Nat, l \in Nat : GrantsCome(powers, powers', p, s, t, k, l, Gain(p, old, new))
        BY <3>2, AcceptStacks
      <4>2. QED
        BY <3>1, <4>1
    <3>3. CASE p \notin DoomPowers
      BY <3>3
    <3>4. QED
      BY <3>2, <3>3
  <2> DEFINE I == IF t = s THEN (l + 1)..(l + gain) ELSE {}
             T == {<<"left", p, 0, i>> : i \in I}
             d == [q \in DOMAIN powers |-> IF q = p THEN k ELSE 0]
  <2>2. IsFiniteSet(T) /\ Cardinality(T) <= (IF t = s THEN gain ELSE 0) /\ Cardinality(T) \in Nat
    <3>1. IsFiniteSet(I) /\ Cardinality(I) = (IF t = s THEN gain ELSE 0)
      BY <1>1, FS_Interval, FS_EmptySet
    <3> DEFINE f == [i \in I |-> <<"left", p, 0, i>>]
    <3>2. f \in Surjection(I, T)
      BY DEF Surjection
    <3> HIDE DEF f, I, T
    <3>3. IsFiniteSet(T) /\ Cardinality(T) <= Cardinality(I)
      BY <3>1, <3>2, FS_Surjection
    <3>4. QED
      BY <3>1, <3>3, FS_CardinalityType
  <2>3. owed'[t] = owed[t] + (IF t = s THEN gain ELSE 0) /\ owed[t] \in Int
    BY <1>2
  <2>4. owed[t] \in Int /\ owed'[t] \in Int /\ owed'[t] >= owed[t] + Cardinality(T)
    <3> HIDE DEF T
    <3>1. QED
      BY <1>1, <2>2, <2>3
  <2>5. Offsets(powers, d)
    BY DEF Offsets
  <2>6. Survive(powers, powers', d, T, t)
    <3>1. ASSUME NEW q \in DOMAIN powers' \cap DoomPowers, NEW j \in DOMAIN powers'[q].grants,
                 powers'[q].grants[j] = t
          PROVE  \/ <<"left", q, 0, j>> \in T
                 \/ /\ q \in DOMAIN powers /\ powers'[q].owner = powers[q].owner
                    /\ j + d[q] \in DOMAIN powers[q].grants
                    /\ powers[q].grants[j + d[q]] = t
      <4>1. CASE q = p
        <5>1. CASE t = s /\ j \in (l + 1)..(l + gain)
          BY <4>1, <5>1
        <5>2. CASE /\ p \in DOMAIN powers /\ powers'[p].owner = powers[p].owner
                   /\ j + k \in DOMAIN powers[p].grants
                   /\ powers[p].grants[j + k] = t
          BY <4>1, <5>2
        <5>3. QED
          BY <2>1, <3>1, <4>1, <5>1, <5>2 DEF GrantsCome
      <4>2. CASE q # p
        <5>1. q \in DOMAIN powers /\ powers'[q] = powers[q] /\ d[q] = 0
          BY <1>5, <4>2
        <5>2. powers[q].grants \in Seq(Sources)
          BY <5>1 DEF GoodPowers, GoodPower, PowerInfo, Grants
        <5>3. j \in Nat /\ j + d[q] = j
          BY <5>1, <5>2, LenProperties
        <5>4. QED
          BY <3>1, <5>1, <5>3
      <4>3. QED
        BY <4>1, <4>2
    <3> HIDE DEF T, d
    <3>2. QED
      BY <3>1 DEF Survive
  <2>7. Covered(powers, batches, owed, B, t)
    BY DEF DoomInv
  <2>8. \A b \in B : batches'[b].targets = batches[b].targets
    BY <1>4
  <2> HIDE DEF T, d
  <2>9. QED
    BY <1>3, <2>2, <2>4, <2>5, <2>6, <2>7, <2>8, KeptCovers
<1>8. QED
  BY <1>4, <1>6, <1>7 DEF DoomInv

(***************************************************************************)
(* A capture turns stacks that are left into frozen ones.                  *)
(***************************************************************************)
Target == [creature : Creatures, power : Powers, stacks : Grants, rest : Nat]

LEMMA TakesAppended ==
  ASSUME NEW ts \in Seq(Target), NEW t \in Target, ~Doomed(ts, t.creature), NEW q, NEW o
  PROVE  /\ Takes(Append(ts, t), q, o) =
              IF q = t.power /\ o = t.creature THEN Len(t.stacks) ELSE Takes(ts, q, o)
         /\ o = t.creature => Takes(ts, q, o) = 0
<1> DEFINE n    == Len(ts)
           us   == Append(ts, t)
           mine == {i \in DOMAIN ts : ts[i].power = q /\ ts[i].creature = o}
           ours == {i \in DOMAIN us : us[i].power = q /\ us[i].creature = o}
<1>1. n \in Nat /\ DOMAIN ts = 1..n
  BY LenProperties
<1>2. /\ DOMAIN us = 1..(n + 1) /\ us[n + 1] = t
      /\ \A i \in 1..n : us[i] = ts[i]
  BY <1>1, AppendProperties
<1>3. o = t.creature => mine = {}
  BY DEF Doomed
<1>4. CASE q = t.power /\ o = t.creature
  <2> HIDE DEF us
  <2>1. ours = {n + 1}
    BY <1>1, <1>2, <1>3, <1>4
  <2>2. Min({n + 1}) = n + 1
    <3>1. {n + 1} \in SUBSET Nat /\ {n + 1} # {}
      BY <1>1
    <3>2. Min({n + 1}) \in {n + 1}
      BY <3>1, MinIsMember
    <3>3. QED
      BY <3>2
  <2>3. Takes(us, q, o) = Len(us[Min(ours)].stacks)
    BY <2>1 DEF Takes
  <2>4. Takes(us, q, o) = Len(t.stacks)
    BY <1>2, <2>1, <2>2, <2>3
  <2>5. Takes(ts, q, o) = 0
    BY <1>3, <1>4 DEF Takes
  <2>6. QED
    BY <1>4, <2>4, <2>5 DEF us
<1>5. CASE ~(q = t.power /\ o = t.creature)
  <2> HIDE DEF us
  <2>1. ours = mine
    BY <1>1, <1>2, <1>5
  <2>2. mine # {} => Min(mine) \in mine
    <3>1. mine \in SUBSET Nat
      BY <1>1
    <3> HIDE DEF mine
    <3>2. QED
      BY <3>1, MinIsMember
  <2>3. mine # {} => us[Min(mine)] = ts[Min(mine)]
    BY <1>1, <1>2, <2>2
  <2>4. Takes(us, q, o) = Takes(ts, q, o)
    BY <2>1, <2>3 DEF Takes
  <2>5. o = t.creature => Takes(ts, q, o) = 0
    BY <1>3 DEF Takes
  <2>6. QED
    BY <1>5, <2>4, <2>5 DEF us
<1>6. QED
  BY <1>4, <1>5

LEMMA FrozenStacks ==
  ASSUME GoodPowers(powers), NEW c, NEW p, NEW hp \in Nat, NEW j \in DOMAIN Frozen(c, p, hp)
  PROVE  /\ p \in DOMAIN powers \cap DoomPowers /\ powers[p].owner = c
         /\ j \in DOMAIN powers[p].grants
         /\ powers[p].grants[j] = Frozen(c, p, hp)[j]
         /\ j \in 1..Len(Frozen(c, p, hp))
<1> DEFINE q == powers[p].grants
           n == Min({hp, Len(q)})
<1>1. p \in DOMAIN powers \cap DoomPowers /\ powers[p].owner = c /\ powers[p].trusted
  BY DEF Frozen
<1>2. q \in Seq(Sources)
  BY <1>1 DEF GoodPowers, GoodPower, PowerInfo, Grants
<1>3. Len(q) \in Nat /\ DOMAIN q = 1..Len(q) /\ \A i \in 1..Len(q) : q[i] \in Sources
  BY <1>2, LenProperties, ElementOfSeq
<1>4. n \in Nat /\ n <= Len(q)
  <2>1. {hp, Len(q)} \in SUBSET Nat /\ {hp, Len(q)} # {}
    BY <1>3
  <2>2. n \in {hp, Len(q)} /\ \A y \in {hp, Len(q)} : n <= y
    BY <2>1, MinIsMember
  <2>3. QED
    BY <1>3, <2>2
<1>5. Frozen(c, p, hp) = SubSeq(q, 1, n)
  BY <1>1 DEF Frozen
<1> HIDE DEF n, q
<1>6. \A i \in 1..n : q[i] \in Sources
  BY <1>3, <1>4
<1>7. /\ SubSeq(q, 1, n) \in Seq(Sources)
      /\ Len(SubSeq(q, 1, n)) = IF 1 <= n THEN n - 1 + 1 ELSE 0
      /\ \A i \in 1..(n - 1 + 1) : SubSeq(q, 1, n)[i] = q[1 + i - 1]
  BY <1>4, <1>6, SubSeqProperties
<1>8. j \in 1..n /\ Len(Frozen(c, p, hp)) = n
  BY <1>4, <1>5, <1>7, LenProperties
<1>9. Frozen(c, p, hp)[j] = q[j] /\ j \in DOMAIN q
  BY <1>3, <1>4, <1>5, <1>7, <1>8
<1>10. QED
  BY <1>1, <1>8, <1>9 DEF q

LEMMA CaptureCovers ==
  ASSUME GoodPowers(powers), GoodBatches(batches), DoomInv, NEW b \in DOMAIN batches, NEW c \in Creatures,
         NEW p \in Powers, NEW hp \in Int, DoomTargetCapture(b, c, p, hp),
         \A o \in DOMAIN batches \ {b} : ~Doomed(batches[o].targets, c)
  PROVE  DoomInv'
<1> DEFINE ts      == batches[b].targets
           stacks  == Frozen(c, p, hp)
           t       == [creature |-> c, power |-> p, stacks |-> stacks, rest |-> hp - Len(stacks)]
           refused == ~batches[b].whole \/ hp < 0 \/ Len(ts) = MaxTargets \/ Doomed(ts, c)
<1>1. /\ powers' = powers /\ owed' = owed
      /\ batches' = [batches EXCEPT ![b] = IF refused THEN [whole |-> FALSE, targets |-> <<>>]
                                           ELSE [whole |-> TRUE, targets |-> Append(ts, t)]]
  BY DEF DoomTargetCapture
<1>2. DOMAIN batches' = DOMAIN batches /\ \A o \in DOMAIN batches \ {b} : batches'[o] = batches[o]
  BY <1>1
<1>3. CASE refused
  <2>1. batches'[b].targets = <<>>
    BY <1>1, <1>3
  <2>2. QED
    BY <1>1, <1>2, <2>1, FadingCovers
<1>4. CASE ~refused
  <2>1. batches'[b].targets = Append(ts, t)
    BY <1>1, <1>4
  <2>2. hp \in Nat /\ ~Doomed(ts, c)
    BY <1>4
  <2>3. stacks \in Grants /\ Len(stacks) \in Nat /\ Len(stacks) <= hp /\ DOMAIN stacks = 1..Len(stacks)
    BY <2>2, FrozenFacts, LenProperties DEF Grants
  <2>4. \A j \in DOMAIN stacks : /\ p \in DOMAIN powers \cap DoomPowers /\ powers[p].owner = c
                                 /\ j \in DOMAIN powers[p].grants
                                 /\ powers[p].grants[j] = stacks[j]
    BY <2>2, FrozenStacks
  <2> HIDE DEF stacks
  <2>5. t \in Target /\ t.creature = c /\ t.power = p /\ t.stacks = stacks
    BY <2>2, <2>3 DEF Target
  <2> HIDE DEF t
  <2>6. GoodBatch(batches[b]) /\ ts \in Seq(Target)
    BY DEF GoodBatches, GoodBatch, Batch, Target
  <2>7. Len(ts) \in Nat /\ DOMAIN ts = 1..Len(ts)
    BY <2>6, LenProperties
  <2> HIDE DEF ts
  <2>8. /\ DOMAIN batches'[b].targets = 1..(Len(ts) + 1)
        /\ batches'[b].targets[Len(ts) + 1] = t
        /\ \A i \in 1..Len(ts) : batches'[b].targets[i] = ts[i]
    BY <2>1, <2>6, <2>7, AppendProperties
  <2>9. \A q, o : /\ Takes(batches'[b].targets, q, o) =
                       IF q = p /\ o = c THEN Len(stacks) ELSE Takes(ts, q, o)
                  /\ o = c => Takes(ts, q, o) = 0
    BY <2>1, <2>2, <2>5, <2>6, TakesAppended
  <2>10. \A o \in DOMAIN batches : \A q : Takes(batches[o].targets, q, c) = 0
    <3>1. ASSUME NEW o \in DOMAIN batches \ {b}, NEW q PROVE Takes(batches[o].targets, q, c) = 0
      BY DEF Takes, Doomed
    <3>2. QED
      BY <2>9, <3>1 DEF ts
  <2>11. ASSUME NEW B \in SUBSET DOMAIN batches, NEW s \in Sources \ {UnknownSource}
         PROVE  Covered(powers, batches', owed, B, s)
    <3> DEFINE Old == Claims(powers, batches, B, s)
               New == Claims(powers, batches', B, s)
               Turned == {j \in DOMAIN stacks : stacks[j] = s}
               n == Len(ts) + 1
               f == [x \in New |-> IF x[1] = "frozen" /\ x[2] = b /\ x[3] = n
                                   THEN <<"left", p, 0, x[4]>> ELSE x]
    <3>1. ASSUME NEW x \in FrozenFor(batches', B, s)
          PROVE  \/ x \in FrozenFor(batches, B, s) /\ x[1] = "frozen" /\ ~(x[2] = b /\ x[3] = n)
                 \/ \E j \in Turned : x = <<"frozen", b, n, j>> /\ b \in B
      <4>1. PICK o \in B : \E i \in DOMAIN batches'[o].targets :
              \E j \in DOMAIN batches'[o].targets[i].stacks :
                x = <<"frozen", o, i, j>> /\ batches'[o].targets[i].stacks[j] = s
        BY FrozenAre
      <4>2. PICK i \in DOMAIN batches'[o].targets : \E j \in DOMAIN batches'[o].targets[i].stacks :
              x = <<"frozen", o, i, j>> /\ batches'[o].targets[i].stacks[j] = s
        BY <4>1
      <4>3. PICK j \in DOMAIN batches'[o].targets[i].stacks :
              x = <<"frozen", o, i, j>> /\ batches'[o].targets[i].stacks[j] = s
        BY <4>2
      <4>4. CASE o = b /\ i = n
        BY <2>5, <2>8, <4>3, <4>4
      <4>5. CASE o = b /\ i # n
        <5>1. i \in DOMAIN batches[o].targets /\ batches'[o].targets[i] = batches[o].targets[i]
          <6>1. batches[b].targets = ts
            BY DEF ts
          <6>2. i \in 1..Len(ts)
            BY <2>7, <2>8, <4>2, <4>5
          <6>3. QED
            BY <2>7, <2>8, <4>5, <6>1, <6>2
        <5>2. x \in FrozenFor(batches, B, s)
          BY <4>3, <5>1, FrozenAre
        <5>3. QED
          BY <4>3, <4>5, <5>2
      <4>6. CASE o # b
        <5>1. batches'[o].targets = batches[o].targets
          BY <1>2, <4>6
        <5>2. x \in FrozenFor(batches, B, s)
          BY <4>3, <5>1, FrozenAre
        <5>3. QED
          BY <4>3, <4>6, <5>2
      <4>7. QED
        BY <4>4, <4>5, <4>6
    <3>2. ASSUME NEW x \in LeftFor(powers, batches', B, s)
          PROVE  /\ x \in LeftFor(powers, batches, B, s) /\ x[1] = "left"
                 /\ b \in B => \A j \in Turned : x # <<"left", p, 0, j>>
      <4>1. PICK q \in DOMAIN powers \cap DoomPowers : \E j \in DOMAIN powers[q].grants :
              /\ x = <<"left", q, 0, j>> /\ powers[q].grants[j] = s
              /\ \A o \in B : j > Takes(batches'[o].targets, q, powers[q].owner)
        BY LeftAre
      <4>2. PICK j \in DOMAIN powers[q].grants :
              /\ x = <<"left", q, 0, j>> /\ powers[q].grants[j] = s
              /\ \A o \in B : j > Takes(batches'[o].targets, q, powers[q].owner)
        BY <4>1
      <4>3. j \in Nat /\ j > 0
        <5>1. powers[q].grants \in Seq(Sources)
          BY DEF GoodPowers, GoodPower, PowerInfo, Grants
        <5>2. QED
          BY <4>2, <5>1, LenProperties
      <4>4. ASSUME NEW o \in B PROVE j > Takes(batches[o].targets, q, powers[q].owner)
        <5>1. CASE o # b
          <6>1. batches'[o].targets = batches[o].targets
            BY <1>2, <5>1
          <6>2. QED
            BY <4>2, <6>1
        <5>2. CASE o = b /\ powers[q].owner = c
          BY <2>10, <4>3, <5>2
        <5>3. CASE o = b /\ powers[q].owner # c
          <6>1. Takes(batches'[b].targets, q, powers[q].owner) = Takes(ts, q, powers[q].owner)
            BY <2>9, <5>3
          <6>2. QED
            BY <4>2, <5>3, <6>1 DEF ts
        <5>4. QED
          BY <5>1, <5>2, <5>3
      <4>5. x \in LeftFor(powers, batches, B, s)
        BY <4>2, <4>4, LeftAre
      <4>6. ASSUME b \in B, NEW k \in Turned PROVE x # <<"left", p, 0, k>>
        <5>1. powers[p].owner = c /\ k \in Nat /\ k <= Len(stacks)
          BY <2>3, <2>4
        <5>2. q = p => j > Len(stacks)
          BY <2>9, <4>2, <4>6, <5>1
        <5>3. QED
          BY <2>3, <4>2, <4>3, <5>1, <5>2
      <4>7. QED
        BY <4>2, <4>5, <4>6
    <3>3. \A x \in New : x \in FrozenFor(batches', B, s) \/ x \in LeftFor(powers, batches', B, s)
      BY DEF Claims
    <3>4. ASSUME b \in B, NEW j \in Turned PROVE <<"left", p, 0, j>> \in LeftFor(powers, batches, B, s)
      <4>1. /\ p \in DOMAIN powers \cap DoomPowers /\ powers[p].owner = c
            /\ j \in DOMAIN powers[p].grants /\ powers[p].grants[j] = s
            /\ j \in Nat /\ j > 0
        BY <2>3, <2>4
      <4>2. \A o \in B : j > Takes(batches[o].targets, p, powers[p].owner)
        BY <2>10, <4>1
      <4>3. QED
        BY <4>1, <4>2, LeftAre
    <3> DEFINE Kept(x)   == /\ x \in FrozenFor(batches, B, s) \/ x \in LeftFor(powers, batches, B, s)
                            /\ f[x] = x
                            /\ b \in B => \A j \in Turned : x # <<"left", p, 0, j>>
               Gone(x)   == \E j \in Turned : /\ x = <<"frozen", b, n, j>> /\ b \in B
                                              /\ f[x] = <<"left", p, 0, j>>
    <3>5. \A x \in New : Kept(x) \/ Gone(x)
      <4>1. ASSUME NEW x \in New, x \in FrozenFor(batches', B, s) PROVE Kept(x) \/ Gone(x)
        <5>1. CASE x \in FrozenFor(batches, B, s) /\ x[1] = "frozen" /\ ~(x[2] = b /\ x[3] = n)
          <6>1. f[x] = x /\ \A j \in Turned : x # <<"left", p, 0, j>>
            BY <5>1
          <6>2. QED
            BY <5>1, <6>1
        <5>2. CASE \E j \in Turned : x = <<"frozen", b, n, j>> /\ b \in B
          BY <5>2
        <5>3. QED
          BY <3>1, <4>1, <5>1, <5>2
      <4>2. ASSUME NEW x \in New, x \in LeftFor(powers, batches', B, s) PROVE Kept(x) \/ Gone(x)
        <5>1. /\ x \in LeftFor(powers, batches, B, s) /\ x[1] = "left"
              /\ b \in B => \A j \in Turned : x # <<"left", p, 0, j>>
          BY <3>2, <4>2
        <5>2. f[x] = x
          BY <5>1
        <5>3. QED
          BY <5>1, <5>2
      <4>3. QED
        BY <3>3, <4>1, <4>2
    <3>6. \A x \in New : f[x] \in Old
      <4>1. Old = FrozenFor(batches, B, s) \cup LeftFor(powers, batches, B, s)
        BY DEF Claims
      <4> HIDE DEF f, New, Old
      <4>2. ASSUME NEW x \in New PROVE f[x] \in Old
        <5>1. CASE Kept(x)
          BY <4>1, <5>1
        <5>2. CASE Gone(x)
          BY <3>4, <4>1, <5>2
        <5>3. QED
          BY <3>5, <5>1, <5>2
      <4>3. QED
        BY <4>2
    <3> HIDE DEF f, New
    <3>7. \A x, y \in New : f[x] = f[y] => x = y
      BY <3>5
    <3>8. f \in Injection(New, Old)
      <4>1. f \in [New -> Old]
        BY <3>6 DEF f
      <4>2. QED
        BY <3>7, <4>1 DEF Injection, IsInjective
    <3>9. Covered(powers, batches, owed, B, s) /\ owed[s] \in Int
      BY DEF DoomInv
    <3>10. IsFiniteSet(Old) /\ Cardinality(Old) <= owed[s]
      BY <3>9 DEF Covered
    <3>11. IsFiniteSet(New) /\ Cardinality(New) <= Cardinality(Old)
      BY <3>8, <3>10, FS_Injection
    <3>12. Cardinality(New) \in Nat /\ Cardinality(Old) \in Nat
      BY <3>10, <3>11, FS_CardinalityType
    <3>13. Cardinality(New) <= owed[s]
      BY <3>9, <3>10, <3>11, <3>12
    <3>14. QED
      BY <3>11, <3>13 DEF Covered, New
  <2>12. QED
    BY <1>1, <1>2, <2>11 DEF DoomInv
<1>5. QED
  BY <1>3, <1>4

(***************************************************************************)
(* A commit spends what the batch froze, and credits just that.            *)
(***************************************************************************)
LEMMA CreditedFrozen ==
  ASSUME NEW b, NEW s, IsFiniteSet(FrozenFor(batches, {b}, s))
  PROVE  /\ Credited(batches[b].targets, s) \in Nat
         /\ Credited(batches[b].targets, s) <= Cardinality(FrozenFor(batches, {b}, s))
<1> DEFINE ts == batches[b].targets
           Of(i) == {<<i, j>> : j \in {k \in DOMAIN ts[i].stacks : ts[i].stacks[k] = s}}
           Pairs == UNION {Of(i) : i \in DOMAIN ts}
           Froze == FrozenFor(batches, {b}, s)
           f == [e \in Pairs |-> <<"frozen", b, e[1], e[2]>>]
<1>1. ASSUME NEW e \in Pairs
      PROVE  f[e] \in Froze /\ e = <<e[1], e[2]>> /\ f[e] = <<"frozen", b, e[1], e[2]>>
  <2>1. PICK i \in DOMAIN ts : e \in Of(i)
    OBVIOUS
  <2>2. PICK j \in DOMAIN ts[i].stacks : ts[i].stacks[j] = s /\ e = <<i, j>>
    BY <2>1
  <2>3. f[e] = <<"frozen", b, i, j>>
    BY <2>2
  <2>4. QED
    BY <2>2, <2>3, FrozenAre
<1> HIDE DEF Pairs, Froze, f
<1>2. \A e, g \in Pairs : f[e] = f[g] => e = g
  <2>1. ASSUME NEW e \in Pairs, NEW g \in Pairs, f[e] = f[g] PROVE e = g
    <3>1. e[1] = g[1] /\ e[2] = g[2]
      BY <1>1, <2>1
    <3>2. QED
      BY <1>1, <3>1
  <2>2. QED
    BY <2>1
<1>3. f \in Injection(Pairs, Froze)
  <2>1. f \in [Pairs -> Froze]
    BY <1>1 DEF f
  <2>2. QED
    BY <1>2, <2>1 DEF Injection, IsInjective
<1>4. IsFiniteSet(Pairs) /\ Cardinality(Pairs) <= Cardinality(Froze)
  BY <1>3, FS_Injection DEF Froze
<1>5. Credited(ts, s) = Cardinality(Pairs)
  BY DEF Credited, Pairs
<1>6. QED
  BY <1>4, <1>5, FS_CardinalityType DEF Froze

LEMMA CommitCovers ==
  ASSUME GoodPowers(powers), GoodBatches(batches), DoomInv, NEW b \in DOMAIN batches,
         batches' = Closed(b),
         powers' = [p \in DOMAIN powers |-> Spent(batches[b].targets, p)],
         owed' = [s \in Sources |-> owed[s] - Credited(batches[b].targets, s)]
  PROVE  DoomInv'
<1> DEFINE ts == batches[b].targets
           d == [p \in DOMAIN powers |-> Takes(ts, p, powers[p].owner)]
<1>1. GoodPowers(powers')
  BY SpentKeepsPowers
<1>2. \A p \in DOMAIN powers : d[p] \in Nat /\ d[p] = Takes(ts, p, powers[p].owner)
  BY TakesFacts DEF GoodBatches
<1>3. ASSUME NEW s \in Sources \ {UnknownSource} PROVE Survive(powers, powers', d, {}, s)
  <2>1. ASSUME NEW p \in DOMAIN powers' \cap DoomPowers, NEW j \in DOMAIN powers'[p].grants,
               powers'[p].grants[j] = s
        PROVE  /\ p \in DOMAIN powers /\ powers'[p].owner = powers[p].owner
               /\ j + d[p] \in DOMAIN powers[p].grants
               /\ powers[p].grants[j + d[p]] = s
    <3> DEFINE q == powers[p].grants
               n == d[p]
               r == Consume(q, n)
    <3>1. p \in DOMAIN powers /\ powers[p] \in PowerInfo /\ q \in Grants
      BY DEF GoodPowers, GoodPower, PowerInfo
    <3>2. n \in Nat /\ n = Debit(ts, p)
      BY <1>2, <3>1, DebitTakes
    <3>3. powers'[p].grants = Settled(Consume(q, Debit(ts, p))) /\ powers'[p].owner = powers[p].owner
      BY <3>1 DEF Spent, PowerInfo
    <3>4. powers'[p].grants = Settled(r)
      BY <3>2, <3>3
    <3> HIDE DEF n, q
    <3>5. /\ r \in Grants /\ Len(r) = Whole(Len(q) - n)
          /\ \A i \in 1..(Len(q) - n) : r[i] = q[i + n]
      BY <3>1, <3>2, ConsumeFacts
    <3>6. Len(q) \in Nat /\ DOMAIN q = 1..Len(q) /\ Len(r) \in Nat /\ DOMAIN r = 1..Len(r)
      BY <3>1, <3>5, LenProperties DEF Grants
    <3> HIDE DEF r
    <3>7. Settled(r) = r
      <4>1. Settled(r) \in {r, Units(Len(r), UnknownSource)}
        BY DEF Settled
      <4>2. Settled(r) # Units(Len(r), UnknownSource)
        BY <2>1, <3>4, <3>6, UnitsAre
      <4>3. QED
        BY <4>1, <4>2
    <3>8. j \in 1..Whole(Len(q) - n) /\ r[j] = s
      BY <2>1, <3>4, <3>5, <3>6, <3>7
    <3>9. j \in 1..(Len(q) - n)
      BY <3>2, <3>6, <3>8 DEF Whole
    <3>10. j + n \in DOMAIN q /\ q[j + n] = s
      BY <3>2, <3>5, <3>6, <3>8, <3>9
    <3>11. QED
      BY <3>1, <3>3, <3>10 DEF n, q
  <2> HIDE DEF d
  <2>2. QED
    BY <2>1 DEF Survive
<1> HIDE DEF d
<1>4. ASSUME NEW B \in SUBSET DOMAIN batches', NEW s \in Sources \ {UnknownSource}
      PROVE  Covered(powers', batches', owed', B, s) /\ owed'[s] \in Int
  <2> DEFINE B1 == B \cup {b}
             Froze == FrozenFor(batches, {b}, s)
             Old == FrozenFor(batches, B \cap B1, s) \cup LeftFor(powers, batches, B1, s)
             All == Claims(powers, batches, B1, s)
  <2>1. /\ B \subseteq DOMAIN batches /\ b \notin B
        /\ \A o \in B : batches'[o] = batches[o]
    BY DEF Closed
  <2>2. Covered(powers, batches, owed, B1, s) /\ owed[s] \in Int
    BY <2>1 DEF DoomInv
  <2>3. IsFiniteSet(All) /\ Cardinality(All) <= owed[s]
    BY <2>2 DEF Covered
  <2>4. B \cap B1 = B
    OBVIOUS
  <2>5. All = Old \cup Froze
    <3>1. ASSUME NEW x PROVE x \in FrozenFor(batches, B1, s) <=>
                               x \in FrozenFor(batches, B, s) \/ x \in FrozenFor(batches, {b}, s)
      BY FrozenAre
    <3>2. FrozenFor(batches, B1, s) = FrozenFor(batches, B, s) \cup FrozenFor(batches, {b}, s)
      BY <3>1
    <3>3. QED
      BY <2>4, <3>2 DEF Claims
  <2>6. Old \cap Froze = {}
    <3>1. ASSUME NEW x \in Froze PROVE x \notin Old
      <4>1. x[1] = "frozen" /\ x[2] = b
        BY FrozenAre
      <4>2. ASSUME x \in FrozenFor(batches, B, s) PROVE x[2] \in B
        BY <4>2, FrozenAre
      <4>3. ASSUME x \in LeftFor(powers, batches, B1, s) PROVE x[1] = "left"
        BY <4>3, LeftAre
      <4>4. QED
        BY <2>1, <2>4, <4>1, <4>2, <4>3
    <3>2. QED
      BY <3>1
  <2> HIDE DEF Old, Froze, All
  <2>7. /\ IsFiniteSet(Old) /\ IsFiniteSet(Froze)
        /\ Cardinality(All) = Cardinality(Old) + Cardinality(Froze)
        /\ Cardinality(Old) \in Nat /\ Cardinality(Froze) \in Nat
    <3>1. Old \in SUBSET All /\ Froze \in SUBSET All
      BY <2>5
    <3>2. IsFiniteSet(Old) /\ IsFiniteSet(Froze)
      BY <2>3, <3>1, FS_Subset
    <3>3. /\ Cardinality(Old) \in Nat /\ Cardinality(Froze) \in Nat /\ Cardinality({}) = 0
          /\ Cardinality(Old \cup Froze) = Cardinality(Old) + Cardinality(Froze) - Cardinality(Old \cap Froze)
      BY <3>2, FS_Union, FS_CardinalityType, FS_EmptySet
    <3>4. Cardinality(Old \cap Froze) = 0
      BY <2>6, <3>3
    <3>5. Cardinality(All) = Cardinality(Old \cup Froze)
      BY <2>5
    <3>6. QED
      BY <3>2, <3>3, <3>4, <3>5
  <2>8. /\ owed'[s] = owed[s] - Credited(ts, s)
        /\ Credited(ts, s) \in Nat /\ Credited(ts, s) <= Cardinality(Froze)
    BY <2>7, CreditedFrozen DEF Froze
  <2>9. TargetsKept(batches, batches', B, B1)
    BY <2>1 DEF TargetsKept
  <2>10. TargetsTaken(powers, batches, batches', B, B1, d)
    <3>1. ASSUME NEW o \in B1
          PROVE  \/ o \in B /\ batches'[o].targets = batches[o].targets
                 \/ \A p \in DOMAIN powers : Takes(batches[o].targets, p, powers[p].owner) <= d[p]
      <4>1. CASE o \in B
        BY <2>1, <4>1
      <4>2. CASE o = b
        BY <1>2, <4>2
      <4>3. QED
        BY <4>1, <4>2
    <3>2. QED
      BY <3>1 DEF TargetsTaken
  <2>11. Offsets(powers, d)
    BY <1>2 DEF Offsets
  <2>12. IsFiniteSet({}) /\ Cardinality({}) = 0
    BY FS_EmptySet
  <2>13. B1 \subseteq DOMAIN batches
    BY <2>1
  <2>14. /\ IsFiniteSet(Claims(powers', batches', B, s))
         /\ Cardinality(Claims(powers', batches', B, s)) <= Cardinality(Old) + Cardinality({})
    <3>1. Survive(powers, powers', d, {}, s)
      BY <1>3
    <3> HIDE DEF B1
    <3>2. QED
      BY <1>1, <2>7, <2>9, <2>10, <2>11, <2>12, <2>13, <3>1, ClaimsCarry DEF Old
  <2>15. Cardinality(Claims(powers', batches', B, s)) \in Nat /\ Cardinality(All) \in Nat
    BY <2>3, <2>14, FS_CardinalityType
  <2>16. Cardinality(Claims(powers', batches', B, s)) <= owed'[s] /\ owed'[s] \in Int
    BY <2>2, <2>3, <2>7, <2>8, <2>12, <2>14, <2>15
  <2>17. QED
    BY <2>14, <2>16 DEF Covered
<1>5. DOMAIN owed' = Sources
  OBVIOUS
<1>6. \A s \in Sources \ {UnknownSource} : owed'[s] \in Int
  <2>1. {} \in SUBSET DOMAIN batches'
    OBVIOUS
  <2>2. QED
    BY <1>4, <2>1
<1>7. QED
  BY <1>4, <1>5, <1>6 DEF DoomInv

LEMMA DistrustFades ==
  ASSUME NEW p, NEW q \in DOMAIN Distrusted(p), GoodPowers(powers)
  PROVE  /\ q \in DOMAIN powers
         /\ Distrusted(p)[q].grants = powers[q].grants
         /\ Distrusted(p)[q].owner = powers[q].owner
<1>1. q \in DOMAIN powers
  BY DEF Distrusted
<1>2. powers[q] \in PowerInfo
  BY <1>1 DEF GoodPowers, GoodPower
<1>3. QED
  BY <1>1, <1>2 DEF Distrusted, PowerInfo

LEMMA ClosedFades ==
  ASSUME NEW b, NEW o \in DOMAIN Closed(b)
  PROVE  o \in DOMAIN batches /\ Closed(b)[o] = batches[o]
BY DEF Closed

LEMMA NothingIsClaimed ==
  ASSUME NEW ps, NEW bs, NEW ow, ps = [p \in {} |-> None], bs = [b \in {} |-> None],
         ow = [t \in Sources |-> 0],
         NEW B \in SUBSET DOMAIN bs, NEW s \in Sources
  PROVE  Covered(ps, bs, ow, B, s)
<1>1. DOMAIN ps = {} /\ B = {}
  OBVIOUS
<1>2. Claims(ps, bs, B, s) = {}
  BY <1>1, FrozenAre, LeftAre DEF Claims
<1>3. IsFiniteSet({}) /\ Cardinality({}) = 0 /\ ow[s] = 0
  BY FS_EmptySet
<1>4. IsFiniteSet(Claims(ps, bs, B, s)) /\ Cardinality(Claims(ps, bs, B, s)) = 0
  BY <1>2, <1>3
<1>5. Cardinality(Claims(ps, bs, B, s)) <= ow[s]
  BY <1>3, <1>4
<1>6. QED
  BY <1>4, <1>5 DEF Covered

LEMMA DoomInvStep == IInv /\ DoomInv /\ [Next]_vars => DoomInv'
<1> SUFFICES ASSUME IInv, DoomInv, [Next]_vars PROVE DoomInv'
  OBVIOUS
<1>0. GoodPowers(powers) /\ GoodBatches(batches) /\ GoodPowers(powers')
  BY StepKeepsInvariant DEF IInv
<1>1. CASE Change
  <2>1. PICK p \in Powers, owner \in Creatures, new \in Amounts, s \in Inputs :
          \/ PowerAttached(p, owner, new, s)
          \/ \E old \in Amounts : PowerAmountChanged(p, owner, old, new, s)
    BY <1>1 DEF Change
  <2>2. PICK old \in Amounts \cup {None} : Accept(p, owner, old, new, s) \/ Refuse(p, owner, old, new, s)
    BY <2>1 DEF PowerAttached, PowerAmountChanged
  <2>3. old \in Int \cup {None} /\ new \in Int /\ s \in Sources
    BY PowerConstants DEF Amounts
  <2>4. CASE Accept(p, owner, old, new, s)
    BY <1>0, <2>3, <2>4, AcceptCovers
  <2>5. CASE Refuse(p, owner, old, new, s)
    <3>1. powers' = Distrusted(p) /\ batches' = batches /\ owed' = owed
      BY <2>5 DEF Refuse, PowerInvalidated
    <3>2. QED
      BY <1>0, <3>1, DistrustFades, FadingCovers
  <2>6. QED
    BY <2>2, <2>4, <2>5
<1>2. ASSUME NEW p \in Powers, PowerInvalidate(p) PROVE DoomInv'
  <2>1. powers' = Distrusted(p) /\ batches' = batches /\ owed' = owed
    BY <1>2 DEF PowerInvalidate, PowerInvalidated
  <2>2. QED
    BY <1>0, <2>1, DistrustFades, FadingCovers
<1>3. ASSUME NEW p \in Powers, PowerRemoved(p) PROVE DoomInv'
  <2>1. batches' = batches /\ owed' = owed
        /\ \A q \in DOMAIN powers' : q \in DOMAIN powers /\ powers'[q] = powers[q]
    BY <1>3 DEF PowerRemoved
  <2>2. QED
    BY <1>0, <2>1, FadingCovers
<1>4. CASE DoomBatchBegin
  <2>1. powers' = powers /\ owed' = owed
        /\ \A b \in DOMAIN batches' : \/ b \in DOMAIN batches /\ batches'[b].targets = batches[b].targets
                                      \/ batches'[b].targets = <<>>
    BY <1>4 DEF DoomBatchBegin, Stale
  <2>2. QED
    BY <1>0, <2>1, FadingCovers
<1>5. CASE Capture
  <2>1. PICK b \in DOMAIN batches, c \in Creatures, p \in Powers, hp \in (-1)..MaxHp :
          /\ \A o \in DOMAIN batches \ {b} : ~Doomed(batches[o].targets, c)
          /\ DoomTargetCapture(b, c, p, hp)
    BY <1>5 DEF Capture
  <2>2. hp \in Int
    BY PowerConstants
  <2>3. QED
    BY <1>0, <2>1, <2>2, CaptureCovers
<1>6. ASSUME NEW b \in DOMAIN batches, DoomBatchAbort(b) PROVE DoomInv'
  <2>1. powers' = powers /\ owed' = owed /\ batches' = Closed(b)
    BY <1>6 DEF DoomBatchAbort
  <2>2. QED
    BY <1>0, <2>1, ClosedFades, FadingCovers
<1>7. ASSUME NEW b \in DOMAIN batches, NEW booked \in BOOLEAN, DoomKillsCompleted(b, booked) PROVE DoomInv'
  <2>1. batches' = Closed(b)
    BY <1>7 DEF DoomKillsCompleted
  <2>2. CASE batches[b].whole /\ booked
    <3>1. /\ powers' = [p \in DOMAIN powers |-> Spent(batches[b].targets, p)]
          /\ owed' = [s \in Sources |-> owed[s] - Credited(batches[b].targets, s)]
      BY <1>7, <2>2 DEF DoomKillsCompleted
    <3>2. QED
      BY <1>0, <2>1, <3>1, CommitCovers
  <2>3. CASE ~(batches[b].whole /\ booked)
    <3>1. powers' = powers /\ owed' = owed
      BY <1>7, <2>3 DEF DoomKillsCompleted
    <3>2. QED
      BY <1>0, <2>1, <3>1, ClosedFades, FadingCovers
  <2>4. QED
    BY <2>2, <2>3
<1>8. CASE Stale
  BY <1>8 DEF Stale, DoomInv
<1>9. CASE CombatStarted
  BY <1>9, NothingIsClaimed DEF CombatStarted, DoomInv
<1>10. CASE UNCHANGED vars
  BY <1>10 DEF vars, DoomInv
<1>11. QED
  BY <1>1, <1>2, <1>3, <1>4, <1>5, <1>6, <1>7, <1>8, <1>9, <1>10 DEF Next

LEMMA StacksAreClaimed == IInv /\ DoomInv => DoomWithinSupply
<1> SUFFICES ASSUME IInv, DoomInv, NEW s \in Sources \ {UnknownSource}
             PROVE  Cardinality(StacksOf(s)) <= owed[s]
  BY DEF DoomWithinSupply
<1> DEFINE All == Claims(powers, batches, {}, s)
           Stacks == StacksOf(s)
           f == [e \in Stacks |-> <<"left", e[1], 0, e[2]>>]
<1>1. IsFiniteSet(All) /\ Cardinality(All) <= owed[s] /\ owed[s] \in Int
  <2>1. {} \in SUBSET DOMAIN batches
    OBVIOUS
  <2>2. Covered(powers, batches, owed, {}, s) /\ owed[s] \in Int
    BY <2>1 DEF DoomInv
  <2>3. QED
    BY <2>2 DEF Covered
<1>2. ASSUME NEW e \in Stacks
      PROVE  f[e] \in All /\ e = <<e[1], e[2]>> /\ f[e] = <<"left", e[1], 0, e[2]>>
  <2> DEFINE Of(p) == {<<p, i>> : i \in {j \in DOMAIN powers[p].grants : powers[p].grants[j] = s}}
  <2>1. PICK p \in DOMAIN powers \cap DoomPowers : e \in Of(p)
    BY DEF StacksOf
  <2>2. PICK j \in DOMAIN powers[p].grants : powers[p].grants[j] = s /\ e = <<p, j>>
    BY <2>1
  <2>3. f[e] = <<"left", p, 0, j>>
    BY <2>2
  <2>4. f[e] \in LeftFor(powers, batches, {}, s)
    BY <2>2, <2>3, LeftAre
  <2>5. QED
    BY <2>2, <2>3, <2>4 DEF Claims
<1> HIDE DEF All, Stacks, f
<1>3. \A e, g \in Stacks : f[e] = f[g] => e = g
  <2>1. ASSUME NEW e \in Stacks, NEW g \in Stacks, f[e] = f[g] PROVE e = g
    <3>1. e[1] = g[1] /\ e[2] = g[2]
      BY <1>2, <2>1
    <3>2. QED
      BY <1>2, <3>1
  <2>2. QED
    BY <2>1
<1>4. f \in Injection(Stacks, All)
  <2>1. f \in [Stacks -> All]
    BY <1>2 DEF f
  <2>2. QED
    BY <1>3, <2>1 DEF Injection, IsInjective
<1>5. IsFiniteSet(Stacks) /\ Cardinality(Stacks) <= Cardinality(All)
  BY <1>1, <1>4, FS_Injection
<1>6. Cardinality(Stacks) \in Nat /\ Cardinality(All) \in Nat
  BY <1>1, <1>5, FS_CardinalityType
<1>7. QED
  BY <1>1, <1>5, <1>6 DEF Stacks

(***************************************************************************)
(* No supplier of Doom is credited for more than it supplied, nor keeps a  *)
(* stack that a kill has credited: update_power_grants, doom_target and    *)
(* doom_kills_completed may come in any order, with any number of batches  *)
(* open, while the powers they froze decay, drift, collapse, die and come  *)
(* back.                                                                   *)
(***************************************************************************)
THEOREM DoomStaysWithinSupply == Spec => []DoomWithinSupply
<1>1. Init => IInv /\ DoomInv
  BY NothingIsGood, NothingIsClaimed DEF Init, IInv, DoomInv
<1>2. IInv /\ DoomInv /\ [Next]_vars => (IInv /\ DoomInv)'
  BY StepKeepsInvariant, DoomInvStep
<1>3. IInv /\ DoomInv => DoomWithinSupply
  BY StacksAreClaimed
<1>4. QED
  BY <1>1, <1>2, <1>3, PTL DEF Spec

----------------------------------------------------------------------------
(***************************************************************************)
(* Power capture: the calls in progress, the game and the engine together. *)
(*                                                                         *)
(* CompleteMeansExact and NeverOverCredits are about powers that no call is *)
(* changing.  Inductively, a power that calls are changing must be known up *)
(* to what those calls still have to report: Knows, as long as nothing has *)
(* failed, and Careful afterwards.                                         *)
(***************************************************************************)
\* Only the innermost call is ever past its original, and a power is not changed within
\* a change of it that has not been written.
FramesNest ==
  /\ frames \in Seq(Frame)
  /\ \A i \in DOMAIN frames : i < Len(frames) => frames[i].phase = "inside"
  /\ \A i, j \in DOMAIN frames : i < j /\ frames[i].power = frames[j].power => frames[i].written

\* A frame's notes are true until the frame writes, and what it wrote is what it noted not
\* to be so, unless a change escaped; and it reports only what it did.
Truthful(f) ==
  /\ f.seen /\ ~f.written => f.was = bearer[f.power] /\ f.before = amount[f.power]
  /\ f.seen /\ f.written /\ f.op = "Attachment" => f.was = None
  /\ f.seen /\ f.written /\ f.op = "Removal" => f.was # None

Grounded(f) ==
  /\ f.phase \in {"clearing", "reporting"} => f.seen /\ f.op # "Removal" /\ Changed(f)
  /\ f.phase = "removing" => f.op = "Removal" /\ bearer[f.power] = None

NotesHold ==
  \A i \in DOMAIN frames : /\ ~failed \/ ~missed => Truthful(frames[i])
                           /\ Grounded(frames[i])

\* Until a failure every call could see its power, no call found it dirty, and the marks on
\* a power are those of the calls in progress.
Steady ==
  ~failed =>
    /\ \A i \in DOMAIN frames :
          /\ frames[i].seen /\ ~frames[i].priorDirty
          /\ frames[i].phase \in {"inside", "reporting", "removing"}
    /\ \A p \in Powers :
          /\ dirty[p] => \E i \in Open(p) : frames[i].phase \in {"reporting", "removing"}
          /\ bearer[p] # None /\ detached[p] # None =>
               \E i \in Open(p) : \/ frames[i].op = "Removal"
                                  \/ frames[i].op = "Attachment" /\ frames[i].was = None

\* What the call at i means to do, by what it noted, and the calls within it on its power.
Attaches(i) == frames[i].op = "Attachment" /\ frames[i].was = None
Moves(i)    == frames[i].op = "AmountChange" /\ frames[i].was # None
Removes(i)  == frames[i].op = "Removal" /\ frames[i].was # None

Within(i) == {k \in Open(frames[i].power) : k > i}

Trusts(p) == powers[p].trusted /\ powers[p].owner = bearer[p]

\* Until a failure, the engine knows p exactly, or a call in progress will tell it: that p
\* is gone, that it is attached, that it was attached after the removal within that call, or
\* that its amount moved from the one last observed.
Exact(p) ==
  /\ (p \in DOMAIN powers) = (bearer[p] # None)
  /\ p \in DOMAIN powers => /\ Trusts(p) /\ powers[p].observed = amount[p]
                            /\ powers[p].grants = supplied[p]

ToRemove(p) ==
  /\ bearer[p] = None /\ p \in DOMAIN powers
  /\ \E i \in Open(p) : Removes(i)

ToAttach(p) ==
  /\ bearer[p] # None /\ p \notin DOMAIN powers
  /\ \E i \in Open(p) :
       /\ Attaches(i) /\ frames[i].written
       /\ \A k \in Within(i) : ~Attaches(k)
       /\ \/ supplied[p] = Units(Whole(amount[p]), frames[i].source)
          \/ \E k \in Within(i) : Moves(k)

ToRefuse(p) ==
  /\ bearer[p] # None /\ p \in DOMAIN powers
  /\ \E i \in Open(p) : Attaches(i)

ToMove(p) ==
  /\ bearer[p] # None /\ p \in DOMAIN powers
  /\ \E i \in Open(p) :
       /\ Moves(i) /\ frames[i].written
       /\ Trusts(p)
       /\ \A k \in Within(i) : Moves(k) => frames[k].before # powers[p].observed
       /\ \/ supplied[p] = Moved(powers[p].grants, powers[p].observed, amount[p], frames[i].source)
          \/ \E k \in Within(i) : Moves(k)

\* How deep the changes of one power are nested, by the history kept of it.
TwoAtMost == ~knotted => \A p \in Powers : \A i, j, k \in Open(p) : i = j \/ j = k \/ i = k

OneAtMost == ~missed => \A p \in Powers : \A i, j \in Open(p) : i = j

\* q is r but for stacks whose supplier was lost.
Behind(q, r) ==
  /\ Len(q) = Len(r)
  /\ \A i \in DOMAIN q : q[i] = r[i] \/ q[i] = UnknownSource

Alike(p) == p \in DOMAIN powers => bearer[p] # None /\ Behind(powers[p].grants, supplied[p])

\* After failures, if no call escaped or is nested in another of its power: what a call in
\* progress knows of its power, and how far behind the game the engine may be meanwhile.
Lost(f) ==
  LET p == f.power
  IN  /\ f.phase # "inside" => dirty[p]
      /\ f.seen /\ f.phase = "inside" => dirty[p] = f.priorDirty
      /\ (~f.written \/ (bearer[p] = None /\ f.op = "AmountChange")) /\ ~dirty[p] => Alike(p)
      /\ f.seen /\ f.op = "AmountChange" => f.was = bearer[p]
      /\ f.written /\ f.op = "Attachment" => bearer[p] # None
      /\ f.written /\ f.op = "Removal" => bearer[p] = None
      /\ f.written /\ f.op = "Attachment" => supplied[p] = Units(Whole(amount[p]), f.source)
      /\ f.seen /\ f.op = "AmountChange" /\ bearer[p] # None =>
           \E q \in Grants :
             /\ Len(q) = Whole(f.before)
             /\ supplied[p] = Moved(q, f.before, amount[p], f.source)
             /\ ~f.priorDirty /\ p \in DOMAIN powers => Behind(powers[p].grants, q)
      /\ f.phase = "reporting" /\ f.priorDirty /\ p \in DOMAIN powers => ~powers[p].trusted

Careful ==
  ~missed => /\ \A i \in DOMAIN frames : Lost(frames[i])
             /\ \A p \in Powers : Quiet(p) /\ ~dirty[p] => Alike(p)

----------------------------------------------------------------------------
(***************************************************************************)
(* The stack of the calls in progress.                                     *)
(***************************************************************************)
Depth == Len(frames)

LEMMA StackFacts ==
  ASSUME frames \in Seq(Frame)
  PROVE  /\ Depth \in Nat /\ DOMAIN frames = 1..Depth
         /\ \A i \in 1..Depth : frames[i] \in Frame
         /\ frames # <<>> <=> Depth # 0
BY LenProperties, ElementOfSeq, EmptySeq DEF Depth

\* A call begins; the innermost one ends; it goes on, as g.
Pushes(f) ==
  /\ frames' \in Seq(Frame) /\ Depth' = Depth + 1 /\ DOMAIN frames' = 1..(Depth + 1)
  /\ \A i \in 1..Depth : frames'[i] = frames[i]
  /\ frames'[Depth + 1] = f

Pops ==
  /\ frames' \in Seq(Frame) /\ Depth # 0 /\ Depth' = Depth - 1 /\ DOMAIN frames' = 1..(Depth - 1)
  /\ \A i \in 1..(Depth - 1) : frames'[i] = frames[i]

GoesOn(g) ==
  /\ frames' \in Seq(Frame) /\ Depth # 0 /\ Depth' = Depth /\ DOMAIN frames' = 1..Depth
  /\ \A i \in 1..Depth : i # Depth => frames'[i] = frames[i]
  /\ frames'[Depth] = g

LEMMA PushFacts ==
  ASSUME frames \in Seq(Frame), NEW f \in Frame, frames' = Append(frames, f)
  PROVE  Pushes(f)
BY StackFacts, AppendProperties, LenProperties DEF Pushes, Depth

LEMMA PopFacts ==
  ASSUME frames \in Seq(Frame), frames # <<>>, Return
  PROVE  Pops
<1>1. Depth \in Nat \ {0} /\ \A i \in 1..Depth : frames[i] \in Frame
  BY StackFacts
<1>2. frames' = SubSeq(frames, 1, Depth - 1)
  BY DEF Return, Outer, Depth
<1>3. /\ SubSeq(frames, 1, Depth - 1) \in Seq(Frame)
      /\ Len(SubSeq(frames, 1, Depth - 1)) = IF 1 <= Depth - 1 THEN Depth - 1 - 1 + 1 ELSE 0
      /\ \A i \in 1..(Depth - 1 - 1 + 1) : SubSeq(frames, 1, Depth - 1)[i] = frames[1 + i - 1]
  <2>1. 1 \in Int /\ Depth - 1 \in Int /\ \A i \in 1..(Depth - 1) : frames[i] \in Frame
    BY <1>1
  <2>2. QED
    BY <2>1, SubSeqProperties
<1>4. Len(frames') = Depth - 1 /\ \A i \in 1..(Depth - 1) : frames'[i] = frames[i]
  BY <1>1, <1>2, <1>3
<1>5. QED
  BY <1>1, <1>2, <1>3, <1>4, LenProperties DEF Pops, Depth

LEMMA GoOnFacts ==
  ASSUME frames \in Seq(Frame), frames # <<>>, NEW g \in Frame,
         frames' = [frames EXCEPT ![Len(frames)] = g]
  PROVE  GoesOn(g)
<1>1. Depth \in Nat \ {0} /\ DOMAIN frames = 1..Depth /\ \A i \in 1..Depth : frames[i] \in Frame
  BY StackFacts
<1>2. frames' = [i \in 1..Depth |-> IF i = Depth THEN g ELSE frames[i]]
  BY <1>1 DEF Depth
<1>3. /\ frames' \in [1..Depth -> Frame] /\ DOMAIN frames' = 1..Depth /\ frames'[Depth] = g
      /\ \A i \in 1..Depth : i # Depth => frames'[i] = frames[i]
  <2>. HIDE DEF Depth
  <2>1. QED
    BY <1>1, <1>2
<1>4. frames' \in Seq(Frame)
  BY <1>1, <1>3, SeqDef
<1>5. Len(frames') = Depth
  BY <1>1, <1>3, <1>4, LenProperties
<1>6. QED
  BY <1>1, <1>3, <1>4, <1>5 DEF GoesOn, Depth

LEMMA WrittenFacts ==
  ASSUME frames \in Seq(Frame), frames # <<>>,
         frames' = [frames EXCEPT ![Len(frames)].written = TRUE]
  PROVE  GoesOn([Top EXCEPT !.written = TRUE])
<1>1. Top \in Frame
  BY StackFacts DEF Top, Depth
<1>2. [Top EXCEPT !.written = TRUE] \in Frame
  BY <1>1 DEF Frame
<1>3. frames' = [frames EXCEPT ![Len(frames)] = [Top EXCEPT !.written = TRUE]]
  BY DEF Top
<1>4. QED
  BY <1>2, <1>3, GoOnFacts

LEMMA ProceedFacts ==
  ASSUME frames \in Seq(Frame), frames # <<>>,
         NEW step \in {"inside", "clearing", "reporting", "removing", "failing"}, Proceed(step)
  PROVE  GoesOn([Top EXCEPT !.phase = step])
<1>1. Top \in Frame
  BY StackFacts DEF Top, Depth
<1>2. [Top EXCEPT !.phase = step] \in Frame
  BY <1>1 DEF Frame
<1>3. frames' = [frames EXCEPT ![Len(frames)] = [Top EXCEPT !.phase = step]]
  BY DEF Top, Proceed
<1>4. QED
  BY <1>2, <1>3, GoOnFacts

\* What the stack itself promises.
Stacked == FramesNest /\ TwoAtMost /\ OneAtMost

LEMMA PushKeepsStack ==
  ASSUME Stacked, NEW f, Pushes(f), f.phase = "inside", f.power \in Powers,
         frames # <<>> => Top.phase = "inside",
         \A i \in Open(f.power) : frames[i].written,
         missed' = (missed \/ Open(f.power) # {}),
         knotted' = (knotted \/ \E i, j \in Open(f.power) : i # j)
  PROVE  Stacked'
<1>1. /\ Depth \in Nat /\ DOMAIN frames = 1..Depth
      /\ frames # <<>> <=> Depth # 0
  BY StackFacts DEF Stacked, FramesNest
<1>2. FramesNest'
  <2>1. ASSUME NEW i \in DOMAIN frames', i < Depth' PROVE frames'[i].phase = "inside"
    BY <1>1, <2>1 DEF Pushes, Stacked, FramesNest, Top, Depth
  <2>2. ASSUME NEW i \in DOMAIN frames', NEW j \in DOMAIN frames', i < j,
               frames'[i].power = frames'[j].power
        PROVE  frames'[i].written
    BY <1>1, <2>2 DEF Pushes, Stacked, FramesNest, Open
  <2>3. QED
    BY <2>1, <2>2 DEF FramesNest, Pushes, Depth
<1>3. ASSUME NEW p \in Powers, NEW i \in Open(p)', NEW j \in Open(p)'
      PROVE  /\ i # Depth + 1 => i \in Open(p)
             /\ i = Depth + 1 => p = f.power
  BY <1>1 DEF Pushes, Open
<1>4. TwoAtMost'
  <2>1. SUFFICES ASSUME ~knotted', NEW p \in Powers, NEW i \in Open(p)', NEW j \in Open(p)', NEW k \in Open(p)'
                 PROVE  i = j \/ j = k \/ i = k
    BY DEF TwoAtMost
  <2>2. ~knotted /\ (p = f.power => \A x, y \in Open(p) : x = y)
    BY <2>1
  <2>3. QED
    BY <1>3, <2>1, <2>2 DEF Stacked, TwoAtMost
<1>5. OneAtMost'
  <2>1. SUFFICES ASSUME ~missed', NEW p \in Powers, NEW i \in Open(p)', NEW j \in Open(p)'
                 PROVE  i = j
    BY DEF OneAtMost
  <2>2. ~missed /\ (p = f.power => Open(p) = {})
    BY <2>1
  <2>3. QED
    BY <1>3, <2>1, <2>2 DEF Stacked, OneAtMost
<1>6. QED
  BY <1>2, <1>4, <1>5 DEF Stacked

LEMMA PopKeepsStack ==
  ASSUME Stacked, Pops, UNCHANGED history
  PROVE  Stacked'
<1>1. Depth \in Nat /\ DOMAIN frames = 1..Depth
  BY StackFacts DEF Stacked, FramesNest
<1>2. FramesNest'
  <2>1. ASSUME NEW i \in DOMAIN frames', i < Depth' PROVE frames'[i].phase = "inside"
    BY <1>1, <2>1 DEF Pops, Stacked, FramesNest, Depth
  <2>2. ASSUME NEW i \in DOMAIN frames', NEW j \in DOMAIN frames', i < j,
               frames'[i].power = frames'[j].power
        PROVE  frames'[i].written
    BY <1>1, <2>2 DEF Pops, Stacked, FramesNest
  <2>3. QED
    BY <2>1, <2>2 DEF FramesNest, Pops, Depth
<1>3. ASSUME NEW p PROVE Open(p)' = Open(p) \ {Depth}
  BY <1>1 DEF Pops, Open
<1>4. TwoAtMost'
  BY <1>3 DEF TwoAtMost, Stacked, history
<1>5. OneAtMost'
  BY <1>3 DEF OneAtMost, Stacked, history
<1>6. QED
  BY <1>2, <1>4, <1>5 DEF Stacked

LEMMA GoOnKeepsStack ==
  ASSUME Stacked, NEW g, GoesOn(g), g.power = Top.power, Top.written => g.written, UNCHANGED history
  PROVE  Stacked'
<1>1. Depth \in Nat /\ DOMAIN frames = 1..Depth /\ Top = frames[Depth]
  BY StackFacts DEF Stacked, FramesNest, Top, Depth
<1>2. FramesNest'
  <2>1. ASSUME NEW i \in DOMAIN frames', i < Depth' PROVE frames'[i].phase = "inside"
    <3>1. i \in 1..Depth /\ i < Depth /\ frames'[i] = frames[i]
      BY <1>1, <2>1 DEF GoesOn
    <3>2. QED
      BY <1>1, <3>1 DEF Stacked, FramesNest, Depth
  <2>2. ASSUME NEW i \in DOMAIN frames', NEW j \in DOMAIN frames', i < j,
               frames'[i].power = frames'[j].power
        PROVE  frames'[i].written
    <3>1. /\ i \in 1..Depth /\ j \in 1..Depth /\ i # Depth /\ frames'[i] = frames[i]
          /\ frames'[j].power = frames[j].power
      BY <1>1, <2>2 DEF GoesOn
    <3>2. QED
      BY <1>1, <2>2, <3>1 DEF Stacked, FramesNest
  <2>3. QED
    BY <2>1, <2>2 DEF FramesNest, GoesOn, Depth
<1>3. ASSUME NEW p PROVE Open(p)' = Open(p)
  BY <1>1 DEF GoesOn, Open
<1>4. TwoAtMost'
  BY <1>3 DEF TwoAtMost, Stacked, history
<1>5. OneAtMost'
  BY <1>3 DEF OneAtMost, Stacked, history
<1>6. QED
  BY <1>2, <1>4, <1>5 DEF Stacked

(***************************************************************************)
(* What a write of the game does.                                          *)
(***************************************************************************)
GameOk ==
  /\ bearer \in [Powers -> Creatures \cup {None}]
  /\ amount \in [Powers -> Amounts]
  /\ supplied \in [Powers -> Grants]
  /\ \A p \in Powers : bearer[p] # None => Len(supplied[p]) = Whole(amount[p])

LEMMA AmountsAreInt == Amounts \subseteq Int /\ 0 \in Amounts
BY PowerConstants DEF Amounts

LEMMA WriteFacts ==
  ASSUME GameOk, NEW op \in Operations, NEW p \in Powers, NEW s \in Sources, Write(op, p, s)
  PROVE  /\ GameOk'
         /\ \A q \in Powers : q # p => /\ bearer'[q] = bearer[q] /\ amount'[q] = amount[q]
                                       /\ supplied'[q] = supplied[q]
         /\ op = "Attachment" =>
              /\ bearer[p] = None /\ bearer'[p] # None /\ amount'[p] = amount[p]
              /\ supplied'[p] = Units(Whole(amount[p]), s)
         /\ op = "AmountChange" =>
              /\ bearer'[p] = bearer[p]
              /\ supplied'[p] = IF bearer[p] = None THEN supplied[p]
                                ELSE Moved(supplied[p], amount[p], amount'[p], s)
         /\ op = "Removal" => /\ bearer[p] # None /\ bearer'[p] = None
                              /\ amount'[p] = amount[p] /\ supplied'[p] = supplied[p]
<1>1. amount[p] \in Int /\ Whole(amount[p]) \in Nat /\ amount[p] \in Amounts
  BY AmountsAreInt, WholeFacts DEF GameOk
<1>2. CASE op = "Attachment"
  <2>1. PICK c \in Creatures : Attach(p, c, s)
    BY <1>2 DEF Write
  <2>2. Units(Whole(amount[p]), s) \in Grants /\ Len(Units(Whole(amount[p]), s)) = Whole(amount[p])
    BY <1>1, UnitsFacts
  <2>3. c # None
    BY CaptureConstants
  <2>4. /\ bearer' \in [Powers -> Creatures \cup {None}]
        /\ supplied' \in [Powers -> Grants] /\ amount' = amount
        /\ bearer'[p] = c /\ supplied'[p] = Units(Whole(amount[p]), s) /\ bearer[p] = None
        /\ \A q \in Powers : q # p => bearer'[q] = bearer[q] /\ supplied'[q] = supplied[q]
    BY <2>1, <2>2 DEF Attach, GameOk
  <2>5. QED
    BY <1>1, <1>2, <2>2, <2>3, <2>4 DEF GameOk
<1>3. CASE op = "AmountChange"
  <2>1. PICK a \in Amounts : SetAmount(p, a, s)
    BY <1>3 DEF Write
  <2>2. bearer[p] # None => /\ Moved(supplied[p], amount[p], a, s) \in Grants
                            /\ Len(Moved(supplied[p], amount[p], a, s)) = Whole(a)
    <3>1. SUFFICES ASSUME bearer[p] # None PROVE /\ Moved(supplied[p], amount[p], a, s) \in Grants
                            /\ Len(Moved(supplied[p], amount[p], a, s)) = Whole(a)
      OBVIOUS
    <3>2. supplied[p] \in Grants /\ a \in Int /\ Len(supplied[p]) = Whole(amount[p])
      BY <3>1, AmountsAreInt DEF GameOk
    <3>3. Len(supplied[p]) <= Whole(amount[p])
      BY <1>1, <3>2
    <3>4. QED
      BY <1>1, <3>2, <3>3, MovedFacts
  <2>3. /\ bearer' = bearer /\ amount' \in [Powers -> Amounts] /\ amount'[p] = a
        /\ \A q \in Powers : q # p => amount'[q] = amount[q]
    BY <2>1 DEF SetAmount, GameOk
  <2>4. /\ supplied' \in [Powers -> Grants]
        /\ supplied'[p] = IF bearer[p] = None THEN supplied[p] ELSE Moved(supplied[p], amount[p], a, s)
        /\ \A q \in Powers : q # p => supplied'[q] = supplied[q]
    BY <2>1, <2>2 DEF SetAmount, GameOk
  <2>5. QED
    BY <1>3, <2>2, <2>3, <2>4 DEF GameOk
<1>4. CASE op = "Removal"
  BY <1>4 DEF Write, Detach, GameOk
<1>5. QED
  BY <1>2, <1>3, <1>4 DEF Operations

\* Failures and misses are never forgotten.
Remembers == (failed => failed') /\ (missed => missed')

LEMMA PushKeepsNotes ==
  ASSUME Stacked, NotesHold, NEW f, Pushes(f), Remembers, UNCHANGED game, f.power \in Powers,
         f.phase = "inside", ~f.written,
         f.seen => f.was = bearer[f.power] /\ f.before = amount[f.power]
  PROVE  NotesHold'
<1>1. Depth \in Nat /\ DOMAIN frames = 1..Depth
  BY StackFacts DEF Stacked, FramesNest
<1>2. ASSUME NEW i \in DOMAIN frames'
      PROVE  (~failed' \/ ~missed' => Truthful(frames[i])') /\ Grounded(frames[i])'
  <2>1. CASE i = Depth + 1
    BY <2>1 DEF Pushes, Truthful, Grounded, game
  <2>2. CASE i \in 1..Depth
    <3>1. frames'[i] = frames[i] /\ i \in DOMAIN frames
      BY <1>1, <2>2 DEF Pushes
    <3>2. QED
      BY <3>1 DEF NotesHold, Truthful, Grounded, Changed, game, Remembers
  <2>3. QED
    BY <1>1, <1>2, <2>1, <2>2 DEF Pushes
<1>3. QED
  BY <1>2 DEF NotesHold

LEMMA PopKeepsNotes ==
  ASSUME Stacked, NotesHold, Pops, Remembers, UNCHANGED game
  PROVE  NotesHold'
<1>1. Depth \in Nat /\ DOMAIN frames = 1..Depth
  BY StackFacts DEF Stacked, FramesNest
<1>2. ASSUME NEW i \in DOMAIN frames'
      PROVE  (~failed' \/ ~missed' => Truthful(frames[i])') /\ Grounded(frames[i])'
  <2>1. frames'[i] = frames[i] /\ i \in DOMAIN frames
    BY <1>1, <1>2 DEF Pops
  <2>2. QED
    BY <2>1 DEF NotesHold, Truthful, Grounded, Changed, game, Remembers
<1>3. QED
  BY <1>2 DEF NotesHold

\* The innermost call goes on to another phase.
LEMMA GoOnKeepsNotes ==
  ASSUME Stacked, NotesHold, NEW step, GoesOn([Top EXCEPT !.phase = step]), Remembers, UNCHANGED game,
         step \in {"clearing", "reporting"} => Top.seen /\ Top.op # "Removal" /\ Changed(Top),
         step = "removing" => Top.op = "Removal" /\ bearer[Top.power] = None
  PROVE  NotesHold'
<1>1. Depth \in Nat /\ DOMAIN frames = 1..Depth /\ Top = frames[Depth]
  BY StackFacts DEF Stacked, FramesNest, Top, Depth
<1>2. ASSUME NEW i \in DOMAIN frames'
      PROVE  (~failed' \/ ~missed' => Truthful(frames[i])') /\ Grounded(frames[i])'
  <2>1. i \in DOMAIN frames /\ (i # Depth => frames'[i] = frames[i])
    BY <1>1, <1>2 DEF GoesOn
  <2>2. CASE i # Depth
    BY <2>1, <2>2 DEF NotesHold, Truthful, Grounded, Changed, game, Remembers
  <2>3. CASE i = Depth
    <3>1. Top \in Frame /\ frames'[i] = [Top EXCEPT !.phase = step]
      BY <1>1, <2>1, <2>3, StackFacts DEF GoesOn, Stacked, FramesNest
    <3> DEFINE g == [Top EXCEPT !.phase = step]
    <3>2. /\ g.op = Top.op /\ g.power = Top.power /\ g.seen = Top.seen /\ g.was = Top.was
          /\ g.before = Top.before /\ g.written = Top.written /\ g.phase = step
      BY <3>1 DEF Frame
    <3> HIDE DEF g
    <3>3. frames'[i] = g /\ i \in DOMAIN frames /\ frames[i] = Top
      BY <1>1, <2>1, <2>3, <3>1 DEF g
    <3>4. UNCHANGED <<bearer, amount, supplied>>
      BY DEF game
    <3>5. ~failed' \/ ~missed' => Truthful(frames[i])'
      BY <3>2, <3>3, <3>4 DEF NotesHold, Truthful, Remembers
    <3>6. Changed(Top) => Changed(frames[i])'
      BY <3>2, <3>3, <3>4 DEF Changed
    <3>7. Grounded(frames[i])'
      BY <3>2, <3>3, <3>4, <3>6 DEF Grounded
    <3>8. QED
      BY <3>5, <3>7
  <2>4. QED
    BY <2>2, <2>3
<1>3. QED
  BY <1>2 DEF NotesHold

\* A write where every call is inside its original.
LEMMA WriteKeepsNotes ==
  ASSUME Stacked, NotesHold, GameOk, frames # <<>>, Top.phase = "inside", ~Top.written, Top \in Frame,
         GoesOn([Top EXCEPT !.written = TRUE]), Remembers, Write(Top.op, Top.power, Top.source)
  PROVE  NotesHold'
<1>1. Depth \in Nat /\ DOMAIN frames = 1..Depth /\ Top = frames[Depth] /\ Depth # 0
  BY StackFacts DEF Stacked, FramesNest, Top, Depth
<1> DEFINE p == Top.power
           g == [Top EXCEPT !.written = TRUE]
<1>2. /\ Top.op \in Operations /\ p \in Powers /\ Top.source \in Sources
      /\ g.op = Top.op /\ g.power = Top.power /\ g.seen = Top.seen /\ g.was = Top.was
      /\ g.before = Top.before /\ g.written /\ g.phase = "inside"
  BY DEF Frame
<1> HIDE DEF p, g
<1>3. /\ \A q \in Powers : q # p => bearer'[q] = bearer[q] /\ amount'[q] = amount[q]
      /\ Top.op = "Attachment" => bearer[p] = None
      /\ Top.op = "Removal" => bearer[p] # None
  BY <1>2, WriteFacts DEF p
<1>4. ASSUME NEW i \in DOMAIN frames'
      PROVE  (~failed' \/ ~missed' => Truthful(frames[i])') /\ frames'[i].phase = "inside"
  <2>1. ~failed' \/ ~missed' => ~failed \/ ~missed
    BY DEF Remembers
  <2>2. i \in DOMAIN frames /\ (i # Depth => frames'[i] = frames[i])
    BY <1>1, <1>4 DEF GoesOn
  <2>3. CASE i # Depth
    <3>1. frames[i].phase = "inside" /\ (frames[i].power = p => frames[i].written)
      BY <1>1, <2>2, <2>3 DEF Stacked, FramesNest, Depth, p
    <3>2. frames[i] \in Frame
      BY <1>1, <2>2, StackFacts DEF Stacked, FramesNest
    <3>3. frames[i].power \in Powers
      BY <3>2 DEF Frame
    <3>4. QED
      BY <1>3, <2>1, <2>2, <2>3, <3>1, <3>3 DEF NotesHold, Truthful
  <2>4. CASE i = Depth
    <3>1. frames'[i] = g
      BY <2>4 DEF GoesOn, g
    <3>2. ~failed' \/ ~missed' => (Top.seen => Top.was = bearer[p])
      BY <1>1, <2>1 DEF NotesHold, Truthful, p
    <3>3. QED
      BY <1>2, <1>3, <3>1, <3>2 DEF Truthful
  <2>5. QED
    BY <2>3, <2>4
<1>5. QED
  BY <1>4 DEF NotesHold, Grounded

\* The marks of the patches, and the shapes of all of it.
ShimOk ==
  /\ dirty \in [Powers -> BOOLEAN]
  /\ detached \in [Powers -> Sources \cup {None}]
  /\ failed \in BOOLEAN

Base == GoodPowers(powers) /\ GameOk /\ ShimOk /\ Stacked /\ NotesHold

LEMMA TopFacts ==
  ASSUME Base, frames # <<>>
  PROVE  /\ Top \in Frame /\ Top = frames[Depth] /\ Depth \in Nat \ {0} /\ Depth \in DOMAIN frames
         /\ DOMAIN frames = 1..Depth
         /\ Top.op \in Operations /\ Top.power \in Powers /\ Top.was \in Creatures \cup {None}
         /\ Top.before \in Amounts /\ Top.source \in Sources
<1>1. Top \in Frame /\ Top = frames[Depth] /\ Depth \in Nat \ {0} /\ DOMAIN frames = 1..Depth
  BY StackFacts DEF Base, Stacked, FramesNest, Top, Depth
<1>2. QED
  BY <1>1 DEF Frame

LEMMA SourceIsSource ==
  ASSUME Base, NEW p \in Powers
  PROVE  Source(p) \in Sources
<1>1. Captured(p) \in Sources
  BY UnknownIsSource DEF Captured, Base, GoodPowers, GoodPower, PowerInfo
<1>2. QED
  BY <1>1, UnknownIsSource DEF Source, Base, ShimOk

----------------------------------------------------------------------------
(***************************************************************************)
(* The shape of the calls, the notes and the marks is kept by every step.  *)
(***************************************************************************)
LEMMA InitIsBase == CaptureInit => Base
<1> SUFFICES ASSUME CaptureInit PROVE Base
  OBVIOUS
<1>1. GoodPowers(powers)
  BY NothingIsGood DEF CaptureInit, Init
<1>2. GameOk
  <2>1. <<>> \in Grants
    BY EmptySeq DEF Grants
  <2>2. QED
    BY <2>1 DEF CaptureInit, GameOk
<1>3. ShimOk
  BY DEF CaptureInit, Init, ShimOk
<1>4. frames = <<>> /\ DOMAIN frames = {} /\ frames \in Seq(Frame)
  BY EmptySeq DEF CaptureInit
<1>5. Stacked
  BY <1>4 DEF Stacked, FramesNest, TwoAtMost, OneAtMost, Open
<1>6. NotesHold
  BY <1>4 DEF NotesHold
<1>7. QED
  BY <1>1, <1>2, <1>3, <1>5, <1>6 DEF Base

\* A frame as the prefix makes it.
Noted(op, p, s, seen) ==
  [op |-> op, power |-> p, seen |-> seen, was |-> IF seen THEN bearer[p] ELSE None,
   before |-> IF seen THEN amount[p] ELSE 0, source |-> IF op = "Removal" THEN Source(p) ELSE s,
   priorDirty |-> seen /\ dirty[p], written |-> FALSE, phase |-> "inside"]

LEMMA PrefixFacts ==
  ASSUME Base, NEW op \in Operations, NEW p \in Powers, NEW s \in Inputs, NEW seen \in BOOLEAN,
         MutationPrefix(op, p, s, seen)
  PROVE  LET f == Noted(op, p, s, seen)
         IN  /\ f \in Frame /\ Pushes(f)
             /\ frames # <<>> => Top.phase = "inside"
             /\ \A i \in Open(p) : frames[i].written
             /\ missed' = (missed \/ Open(p) # {})
             /\ knotted' = (knotted \/ \E i, j \in Open(p) : i # j)
             /\ UNCHANGED <<powers, game, dirty>>
             /\ detached' = IF op = "Removal" /\ seen THEN [detached EXCEPT ![p] = f.source] ELSE detached
             /\ failed' = (failed \/ ~seen)
<1> DEFINE f == Noted(op, p, s, seen)
<1>1. frames' = Append(frames, f)
  BY DEF MutationPrefix, Noted
<1>2. f \in Frame
  <2>1. f.source \in Sources
    BY SourceIsSource, PowerConstants DEF Noted
  <2>2. f.was \in Creatures \cup {None} /\ f.before \in Amounts /\ f.priorDirty \in BOOLEAN
    BY AmountsAreInt DEF Noted, Base, GameOk, ShimOk
  <2>3. QED
    BY <2>1, <2>2 DEF Noted, Frame
<1>3. Pushes(f)
  <2> HIDE DEF f
  <2>1. QED
    BY <1>1, <1>2, PushFacts DEF Base, Stacked, FramesNest
<1>4. f.source = IF op = "Removal" THEN Source(p) ELSE s
  BY DEF Noted
<1>5. failed' = (failed \/ ~seen) /\ powers' = powers
  BY DEF MutationPrefix, Fail, Stale, vars, Base, ShimOk
<1>6. QED
  BY <1>2, <1>3, <1>4, <1>5 DEF MutationPrefix

LEMMA PrefixKeepsBase ==
  ASSUME Base, NEW op \in Operations, NEW p \in Powers, NEW s \in Inputs, NEW seen \in BOOLEAN,
         MutationPrefix(op, p, s, seen)
  PROVE  Base'
<1> DEFINE f == Noted(op, p, s, seen)
<1>1. f.power = p /\ f.phase = "inside" /\ ~f.written /\ f.seen = seen
      /\ (seen => f.was = bearer[p] /\ f.before = amount[p])
  BY DEF Noted
<1> HIDE DEF f
<1>2. /\ f \in Frame /\ Pushes(f)
      /\ frames # <<>> => Top.phase = "inside"
      /\ \A i \in Open(p) : frames[i].written
      /\ missed' = (missed \/ Open(p) # {})
      /\ knotted' = (knotted \/ \E i, j \in Open(p) : i # j)
      /\ UNCHANGED <<powers, game, dirty>>
      /\ detached' = IF op = "Removal" /\ seen THEN [detached EXCEPT ![p] = f.source] ELSE detached
      /\ failed' = (failed \/ ~seen)
  BY PrefixFacts DEF f
<1>3. Remembers
  BY <1>2 DEF Remembers
<1>4. Stacked'
  BY <1>1, <1>2, PushKeepsStack DEF Base
<1>5. NotesHold'
  BY <1>1, <1>2, <1>3, PushKeepsNotes DEF Base
<1>6. f.source \in Sources
  BY <1>2 DEF Frame
<1>7. ShimOk'
  BY <1>2, <1>6 DEF Base, ShimOk
<1>8. GoodPowers(powers') /\ GameOk'
  BY <1>2 DEF Base, game, GameOk
<1>9. QED
  BY <1>4, <1>5, <1>7, <1>8 DEF Base

LEMMA OriginalFacts ==
  ASSUME Base, Original
  PROVE  /\ frames # <<>> /\ Top.phase = "inside" /\ ~Top.written
         /\ GoesOn([Top EXCEPT !.written = TRUE])
         /\ Write(Top.op, Top.power, Top.source)
         /\ UNCHANGED <<powers, failed, dirty, detached, history>>
BY WrittenFacts DEF Original, At, Base, Stacked, FramesNest, vars, shim

LEMMA OriginalKeepsBase == ASSUME Base, Original PROVE Base'
<1>1. /\ frames # <<>> /\ Top.phase = "inside" /\ ~Top.written
      /\ GoesOn([Top EXCEPT !.written = TRUE])
      /\ Write(Top.op, Top.power, Top.source)
      /\ UNCHANGED <<powers, failed, dirty, detached, history>>
  BY OriginalFacts
<1>2. Top \in Frame /\ Top.op \in Operations /\ Top.power \in Powers /\ Top.source \in Sources
  BY <1>1, TopFacts
<1>3. Remembers
  BY <1>1 DEF Remembers, history
<1>4. NotesHold'
  BY <1>1, <1>2, <1>3, WriteKeepsNotes DEF Base
<1>5. GameOk'
  BY <1>1, <1>2, WriteFacts DEF Base
<1>6. Stacked'
  <2> DEFINE g == [Top EXCEPT !.written = TRUE]
  <2>1. g.power = Top.power /\ g.written
    BY <1>2 DEF Frame
  <2> HIDE DEF g
  <2>2. QED
    BY <1>1, <2>1, GoOnKeepsStack DEF Base, g
<1>7. QED
  BY <1>1, <1>4, <1>5, <1>6 DEF Base, ShimOk

\* What a finalizer does up to its first native call.
Unobserved ==
  /\ failed' = TRUE /\ dirty' = [dirty EXCEPT ![Top.power] = TRUE] /\ detached' = detached
  /\ GoesOn([Top EXCEPT !.phase = "failing"])

StartsRemoval ==
  /\ Top.seen /\ Top.op = "Removal" /\ Top.was # None /\ bearer[Top.power] = None
  /\ failed' = failed /\ dirty' = [dirty EXCEPT ![Top.power] = TRUE]
  /\ detached' = [detached EXCEPT ![Top.power] = Top.source]
  /\ GoesOn([Top EXCEPT !.phase = "removing"])

StartsReport ==
  /\ Top.seen /\ Top.op # "Removal" /\ Changed(Top)
  /\ failed' = failed /\ dirty' = [dirty EXCEPT ![Top.power] = TRUE] /\ detached' = detached
  /\ GoesOn([Top EXCEPT !.phase = NextStep(Top)])

StaysAttached ==
  /\ Top.seen /\ Top.op = "Removal" /\ bearer[Top.power] # None
  /\ failed' = failed /\ dirty' = dirty /\ detached' = [detached EXCEPT ![Top.power] = None]
  /\ Pops

Nothing ==
  /\ Top.seen
  /\ \/ Top.op = "Removal" /\ Top.was = None /\ bearer[Top.power] = None
     \/ Top.op # "Removal" /\ ~Changed(Top)
  /\ failed' = failed /\ dirty' = dirty /\ detached' = detached
  /\ Pops

LEMMA FinalizerFacts ==
  ASSUME Base, NEW reads \in BOOLEAN, MutationFinalizer(reads)
  PROVE  /\ frames # <<>> /\ Top.phase = "inside" /\ UNCHANGED <<powers, game, history>>
         /\ Unobserved \/ StartsRemoval \/ StartsReport \/ StaysAttached \/ Nothing
<1>1. /\ frames # <<>> /\ Top.phase = "inside" /\ UNCHANGED <<game, calls, history>>
      /\ frames \in Seq(Frame)
  BY DEF MutationFinalizer, At, Base, Stacked, FramesNest
<1>2. CASE ~Top.seen \/ ~reads
  <2>1. Fail /\ Proceed("failing") /\ UNCHANGED detached /\ dirty' = [dirty EXCEPT ![Top.power] = TRUE]
    BY <1>2 DEF MutationFinalizer
  <2>2. Unobserved
    BY <1>1, <2>1, ProceedFacts DEF Unobserved, Fail, Stale
  <2>3. QED
    BY <1>1, <2>1, <2>2 DEF Fail, Stale
<1>3. CASE ~(~Top.seen \/ ~reads)
  <2>1. UNCHANGED vars
    BY <1>3 DEF MutationFinalizer
  <2>2. \/ /\ Top.op = "Removal" /\ Top.was # None /\ bearer[Top.power] = None
           /\ dirty' = [dirty EXCEPT ![Top.power] = TRUE]
           /\ detached' = [detached EXCEPT ![Top.power] = Top.source]
           /\ Proceed("removing")
        \/ /\ Top.op = "Removal" /\ bearer[Top.power] # None
           /\ detached' = [detached EXCEPT ![Top.power] = None]
           /\ Return /\ UNCHANGED dirty
        \/ /\ Top.op = "Removal" /\ Top.was = None /\ bearer[Top.power] = None
           /\ Return /\ UNCHANGED shim
        \/ /\ Top.op # "Removal" /\ Changed(Top)
           /\ dirty' = [dirty EXCEPT ![Top.power] = TRUE]
           /\ Proceed(NextStep(Top)) /\ UNCHANGED detached
        \/ /\ Top.op # "Removal" /\ ~Changed(Top)
           /\ Return /\ UNCHANGED shim
    BY <1>3 DEF MutationFinalizer
  <2>3. NextStep(Top) \in {"inside", "clearing", "reporting", "removing", "failing"}
    BY DEF NextStep
  <2>4. Proceed("removing") => GoesOn([Top EXCEPT !.phase = "removing"])
    BY <1>1, ProceedFacts
  <2>5. Proceed(NextStep(Top)) => GoesOn([Top EXCEPT !.phase = NextStep(Top)])
    BY <1>1, <2>3, ProceedFacts
  <2>6. Return => Pops
    BY <1>1, PopFacts
  <2>7. powers' = powers /\ failed' = failed
    BY <2>1 DEF vars
  <2>8. Unobserved \/ StartsRemoval \/ StartsReport \/ StaysAttached \/ Nothing
    BY <1>3, <2>2, <2>4, <2>5, <2>6, <2>7 DEF StartsRemoval, StartsReport, StaysAttached, Nothing, shim
  <2>9. QED
    BY <1>1, <2>7, <2>8
<1>4. QED
  BY <1>2, <1>3

\* The innermost call goes on or ends, and the game does not change.
LEMMA ShimKeepsBase ==
  ASSUME Base, frames # <<>>, Remembers, UNCHANGED <<game, history>>, ShimOk', GoodPowers(powers'),
         NEW step, Pops \/ GoesOn([Top EXCEPT !.phase = step]),
         step \in {"clearing", "reporting"} => Top.seen /\ Top.op # "Removal" /\ Changed(Top),
         step = "removing" => Top.op = "Removal" /\ bearer[Top.power] = None
  PROVE  Base'
<1>1. Top \in Frame
  BY TopFacts
<1>2. Stacked'
  <2>1. CASE Pops
    BY <2>1, PopKeepsStack DEF Base
  <2>2. CASE GoesOn([Top EXCEPT !.phase = step])
    <3> DEFINE g == [Top EXCEPT !.phase = step]
    <3>1. g.power = Top.power /\ g.written = Top.written
      BY <1>1 DEF Frame
    <3> HIDE DEF g
    <3>2. QED
      BY <2>2, <3>1, GoOnKeepsStack DEF Base, g
  <2>3. QED
    BY <2>1, <2>2
<1>3. NotesHold'
  BY PopKeepsNotes, GoOnKeepsNotes DEF Base
<1>4. GameOk'
  BY DEF Base, game, GameOk
<1>5. QED
  BY <1>2, <1>3, <1>4 DEF Base

LEMMA FinalizerKeepsBase ==
  ASSUME Base, NEW reads \in BOOLEAN, MutationFinalizer(reads)
  PROVE  Base'
<1>1. /\ frames # <<>> /\ Top.phase = "inside" /\ UNCHANGED <<powers, game, history>>
      /\ Unobserved \/ StartsRemoval \/ StartsReport \/ StaysAttached \/ Nothing
  BY FinalizerFacts
<1>2. Top.power \in Powers /\ Top.source \in Sources /\ ShimOk /\ GoodPowers(powers')
  BY <1>1, TopFacts DEF Base
<1>3. CASE Unobserved
  <2>1. Remembers /\ ShimOk' /\ GoesOn([Top EXCEPT !.phase = "failing"])
    BY <1>1, <1>2, <1>3 DEF Unobserved, Remembers, history, ShimOk
  <2>2. QED
    BY <1>1, <1>2, <2>1, ShimKeepsBase
<1>4. CASE StartsRemoval
  <2>1. Remembers /\ ShimOk' /\ GoesOn([Top EXCEPT !.phase = "removing"])
        /\ Top.op = "Removal" /\ bearer[Top.power] = None
    BY <1>1, <1>2, <1>4 DEF StartsRemoval, Remembers, history, ShimOk
  <2>2. QED
    BY <1>1, <1>2, <2>1, ShimKeepsBase
<1>5. CASE StartsReport
  <2>1. Remembers /\ ShimOk' /\ GoesOn([Top EXCEPT !.phase = NextStep(Top)])
        /\ Top.seen /\ Top.op # "Removal" /\ Changed(Top) /\ NextStep(Top) # "removing"
    BY <1>1, <1>2, <1>5 DEF StartsReport, Remembers, history, ShimOk, NextStep
  <2>2. QED
    BY <1>1, <1>2, <2>1, ShimKeepsBase
<1>6. CASE StaysAttached \/ Nothing
  <2>1. Remembers /\ ShimOk' /\ Pops
    BY <1>1, <1>2, <1>6 DEF StaysAttached, Nothing, Remembers, history, ShimOk
  <2>2. QED
    BY <1>1, <1>2, <2>1, ShimKeepsBase
<1>7. QED
  BY <1>1, <1>3, <1>4, <1>5, <1>6

\* A native call was not made or failed; the next one is made.
FailsOn ==
  /\ failed' = TRUE /\ powers' = powers /\ UNCHANGED <<dirty, detached>>
  /\ GoesOn([Top EXCEPT !.phase = "failing"])

LEMMA CallFailsFacts ==
  ASSUME Base, frames # <<>>, CallFails
  PROVE  FailsOn /\ UNCHANGED <<game, history>>
<1>1. GoesOn([Top EXCEPT !.phase = "failing"])
  BY ProceedFacts DEF CallFails, Base, Stacked, FramesNest
<1>2. QED
  BY <1>1 DEF CallFails, FailsOn, Fail, Stale, shim

Clears ==
  /\ powers' = Distrusted(Top.power) /\ failed' = failed /\ UNCHANGED <<dirty, detached>>
  /\ GoesOn([Top EXCEPT !.phase = "reporting"])

LEMMA ClearFacts ==
  ASSUME Base, ClearPriorDirty
  PROVE  /\ frames # <<>> /\ Top.phase = "clearing" /\ UNCHANGED <<game, history>>
         /\ Clears \/ FailsOn
<1>1. frames # <<>> /\ Top.phase = "clearing" /\ frames \in Seq(Frame)
  BY DEF ClearPriorDirty, At, Base, Stacked, FramesNest
<1>2. CASE CallFails
  BY <1>1, <1>2, CallFailsFacts
<1>3. CASE PowerInvalidate(Top.power) /\ Proceed("reporting") /\ UNCHANGED <<game, shim, calls, history>>
  <2>1. GoesOn([Top EXCEPT !.phase = "reporting"])
    BY <1>1, <1>3, ProceedFacts
  <2>2. QED
    BY <1>1, <1>3, <2>1 DEF Clears, PowerInvalidate, PowerInvalidated, shim
<1>4. QED
  BY <1>2, <1>3 DEF ClearPriorDirty

Old(f) == IF f.op = "Attachment" THEN None ELSE f.before

Reports ==
  LET p == Top.power
  IN  /\ Accept(p, bearer[p], Old(Top), amount[p], Top.source)
      /\ dirty' = [dirty EXCEPT ![p] = FALSE]
      /\ detached' = [detached EXCEPT ![p] = None]
      /\ Pops

IsRefused ==
  /\ powers' = Distrusted(Top.power) /\ failed' = TRUE /\ UNCHANGED <<dirty, detached>>
  /\ GoesOn([Top EXCEPT !.phase = "failing"])

LEMMA ReportFacts ==
  ASSUME Base, Report
  PROVE  /\ frames # <<>> /\ Top.phase = "reporting" /\ UNCHANGED <<game, history>>
         /\ bearer[Top.power] \in Creatures /\ Old(Top) \in Int \cup {None}
         /\ Reports \/ IsRefused \/ FailsOn
<1>1. frames # <<>> /\ Top.phase = "reporting" /\ frames \in Seq(Frame)
  BY DEF Report, At, Base, Stacked, FramesNest
<1>2. bearer[Top.power] \in Creatures
  BY <1>1, TopFacts DEF Base, NotesHold, Grounded, Changed, GameOk
<1>3. Old(Top) \in Int \cup {None}
  BY <1>1, TopFacts, AmountsAreInt DEF Old
<1>4. CASE CallFails
  BY <1>1, <1>2, <1>3, <1>4, CallFailsFacts
<1>5. CASE /\ Refuse(Top.power, bearer[Top.power], Old(Top), amount[Top.power], Top.source)
           /\ Proceed("failing")
           /\ UNCHANGED <<game, shim, calls, history>>
  <2>1. GoesOn([Top EXCEPT !.phase = "failing"])
    BY <1>1, <1>5, ProceedFacts
  <2>2. QED
    BY <1>1, <1>2, <1>3, <1>5, <2>1 DEF IsRefused, Refuse, PowerInvalidated, shim
<1>6. CASE /\ Accept(Top.power, bearer[Top.power], Old(Top), amount[Top.power], Top.source)
           /\ dirty' = [dirty EXCEPT ![Top.power] = FALSE]
           /\ detached' = [detached EXCEPT ![Top.power] = None]
           /\ Return
           /\ UNCHANGED <<game, calls, history>>
  <2>1. Pops
    BY <1>1, <1>6, PopFacts
  <2>2. QED
    BY <1>1, <1>2, <1>3, <1>6, <2>1 DEF Reports
<1>7. QED
  BY <1>4, <1>5, <1>6 DEF Report, Old

\* The engine is told of a removal; it refuses without an exception.
Forgets ==
  /\ powers' = [q \in DOMAIN powers \ {Top.power} |-> powers[q]] /\ failed' = failed
  /\ dirty' = [dirty EXCEPT ![Top.power] = FALSE] /\ detached' = detached
  /\ Pops

GivesUp ==
  /\ powers' = powers /\ failed' = TRUE /\ UNCHANGED <<dirty, detached>>
  /\ Pops

LEMMA ReportRemovalFacts ==
  ASSUME Base, ReportRemoval
  PROVE  /\ frames # <<>> /\ Top.phase = "removing" /\ UNCHANGED <<game, history>>
         /\ Forgets \/ GivesUp \/ FailsOn
<1>1. frames # <<>> /\ Top.phase = "removing" /\ frames \in Seq(Frame)
  BY DEF ReportRemoval, At, Base, Stacked, FramesNest
<1>2. CASE CallFails
  BY <1>1, <1>2, CallFailsFacts
<1>3. Return => Pops
  BY <1>1, PopFacts
<1>4. QED
  BY <1>1, <1>2, <1>3 DEF ReportRemoval, Forgets, GivesUp, PowerRemoved, Fail, Stale, shim

Distrusts ==
  /\ powers' = Distrusted(Top.power) /\ failed' = failed /\ UNCHANGED <<dirty, detached>>
  /\ Pops

LEMMA InvalidateFacts ==
  ASSUME Base, Invalidate
  PROVE  /\ frames # <<>> /\ Top.phase = "failing" /\ UNCHANGED <<game, history>>
         /\ Distrusts \/ GivesUp
<1>1. frames # <<>> /\ Top.phase = "failing" /\ frames \in Seq(Frame)
  BY DEF Invalidate, At, Base, Stacked, FramesNest
<1>2. Return => Pops
  BY <1>1, PopFacts
<1>3. QED
  BY <1>1, <1>2 DEF Invalidate, Distrusts, GivesUp, PowerInvalidate, PowerInvalidated, Fail, Stale, shim

\* The innermost call ends.
LEMMA EndKeepsBase ==
  ASSUME Base, frames # <<>>, Remembers, UNCHANGED <<game, history>>, ShimOk', GoodPowers(powers'), Pops
  PROVE  Base'
BY ShimKeepsBase, Pops \/ GoesOn([Top EXCEPT !.phase = "inside"])

LEMMA CallsKeepBase ==
  ASSUME Base, frames # <<>>, UNCHANGED <<game, history>>,
         \/ FailsOn \/ (Clears /\ Top.phase = "clearing") \/ IsRefused \/ Forgets \/ GivesUp \/ Distrusts
         \/ /\ Reports /\ bearer[Top.power] \in Creatures /\ Old(Top) \in Int \cup {None}
  PROVE  Base'
<1>1. Top.power \in Powers /\ Top.source \in Sources /\ ShimOk /\ GoodPowers(powers)
  BY TopFacts DEF Base
<1>2. CASE FailsOn
  <2>1. Remembers /\ ShimOk' /\ GoodPowers(powers') /\ GoesOn([Top EXCEPT !.phase = "failing"])
    BY <1>1, <1>2 DEF FailsOn, Remembers, history, ShimOk
  <2>2. QED
    BY <2>1, ShimKeepsBase
<1>3. CASE Clears /\ Top.phase = "clearing"
  <2>1. Remembers /\ ShimOk' /\ GoodPowers(powers') /\ GoesOn([Top EXCEPT !.phase = "reporting"])
    BY <1>1, <1>3, DistrustKeepsPowers DEF Clears, Remembers, history, ShimOk
  <2>2. Top.seen /\ Top.op # "Removal" /\ Changed(Top)
    BY <1>3, TopFacts DEF Base, NotesHold, Grounded
  <2>3. QED
    BY <2>1, <2>2, ShimKeepsBase
<1>4. CASE IsRefused
  <2>1. Remembers /\ ShimOk' /\ GoodPowers(powers') /\ GoesOn([Top EXCEPT !.phase = "failing"])
    BY <1>1, <1>4, DistrustKeepsPowers DEF IsRefused, Remembers, history, ShimOk
  <2>2. QED
    BY <2>1, ShimKeepsBase
<1>5. CASE Forgets \/ GivesUp \/ Distrusts
  <2>1. Remembers /\ ShimOk' /\ GoodPowers(powers') /\ Pops
    BY <1>1, <1>5, DistrustKeepsPowers, RemovalKeepsPowers
    DEF Forgets, GivesUp, Distrusts, Remembers, history, ShimOk
  <2>2. QED
    BY <2>1, EndKeepsBase
<1>6. CASE Reports /\ bearer[Top.power] \in Creatures /\ Old(Top) \in Int \cup {None}
  <2>1. amount[Top.power] \in Int
    BY <1>1, AmountsAreInt DEF Base, GameOk
  <2>2. GoodPowers(powers')
    BY <1>1, <1>6, <2>1, ChangeKeepsPowers DEF Reports
  <2>3. failed' \in BOOLEAN /\ (failed => failed')
    BY <1>6 DEF Reports, Accept
  <2>4. Remembers /\ ShimOk' /\ Pops
    BY <1>1, <1>6, <2>3 DEF Reports, Remembers, history, ShimOk
  <2>5. QED
    BY <2>2, <2>4, EndKeepsBase
<1>7. QED
  BY <1>2, <1>3, <1>4, <1>5, <1>6

LEMMA UnseenFacts ==
  ASSUME Base, Unseen
  PROVE  /\ \E op \in Operations, p \in Powers, s \in Sources : Write(op, p, s)
         /\ \A i \in DOMAIN frames : frames[i].phase = "inside"
         /\ failed' = TRUE /\ missed' = TRUE /\ UNCHANGED <<powers, shim, frames, knotted>>
<1>1. \A i \in DOMAIN frames : frames[i].phase = "inside"
  <2>1. ASSUME NEW i \in DOMAIN frames PROVE frames[i].phase = "inside"
    <3>1. frames # <<>> /\ Depth \in Nat /\ DOMAIN frames = 1..Depth /\ Top = frames[Depth]
      BY <2>1, StackFacts DEF Base, Stacked, FramesNest, Top, Depth
    <3>2. QED
      BY <2>1, <3>1 DEF Unseen, Base, Stacked, FramesNest, Depth
  <2>2. QED
    BY <2>1
<1>2. \E op \in Operations, p \in Powers, s \in Sources : Write(op, p, s)
  BY PowerConstants DEF Unseen
<1>3. QED
  BY <1>1, <1>2 DEF Unseen, Fail, Stale

LEMMA UnseenKeepsBase == ASSUME Base, Unseen PROVE Base'
<1>1. /\ \A i \in DOMAIN frames : frames[i].phase = "inside"
      /\ failed' = TRUE /\ missed' = TRUE /\ UNCHANGED <<powers, shim, frames, knotted>>
  BY UnseenFacts
<1>2. PICK op \in Operations, p \in Powers, s \in Sources : Write(op, p, s)
  BY UnseenFacts
<1>3. GameOk'
  BY <1>2, WriteFacts DEF Base
<1>4. Stacked' /\ ShimOk' /\ GoodPowers(powers')
  BY <1>1 DEF Base, Stacked, FramesNest, TwoAtMost, OneAtMost, Open, ShimOk, shim
<1>5. NotesHold'
  BY <1>1 DEF NotesHold, Grounded
<1>6. QED
  BY <1>3, <1>4, <1>5 DEF Base

LEMMA StepKeepsBase == Base /\ [CaptureNext]_captureVars => Base'
<1> SUFFICES ASSUME Base, [CaptureNext]_captureVars PROVE Base'
  OBVIOUS
<1>1. ASSUME NEW op \in Operations, NEW p \in Powers, NEW s \in Inputs, NEW seen \in BOOLEAN,
             MutationPrefix(op, p, s, seen)
      PROVE  Base'
  BY <1>1, PrefixKeepsBase
<1>2. CASE Original
  BY <1>2, OriginalKeepsBase
<1>3. ASSUME NEW reads \in BOOLEAN, MutationFinalizer(reads) PROVE Base'
  BY <1>3, FinalizerKeepsBase
<1>4. CASE ClearPriorDirty
  BY <1>4, ClearFacts, CallsKeepBase
<1>5. CASE Report
  BY <1>5, ReportFacts, CallsKeepBase
<1>6. CASE ReportRemoval
  BY <1>6, ReportRemovalFacts, CallsKeepBase
<1>7. CASE Invalidate
  BY <1>7, InvalidateFacts, CallsKeepBase
<1>8. CASE Unseen
  BY <1>8, UnseenKeepsBase
<1>9. CASE UNCHANGED captureVars
  BY <1>9 DEF captureVars, vars, game, shim, history, Base, GameOk, ShimOk, Stacked, FramesNest,
              TwoAtMost, OneAtMost, Open, NotesHold, Truthful, Grounded, Changed
<1>10. QED
  BY <1>1, <1>2, <1>3, <1>4, <1>5, <1>6, <1>7, <1>8, <1>9 DEF CaptureNext

\* The base of both theorems, an invariant of its own.
LEMMA CaptureBase == CaptureSpec => []Base
<1>1. QED
  BY InitIsBase, StepKeepsBase, PTL DEF CaptureSpec

----------------------------------------------------------------------------
(***************************************************************************)
(* Until a failure, marks belong to calls in progress.                     *)
(***************************************************************************)
LEMMA OpenFacts ==
  ASSUME Base, NEW q
  PROVE  /\ Open(q) \subseteq DOMAIN frames /\ DOMAIN frames = 1..Depth /\ Depth \in Nat
         /\ \A i \in Open(q) : i \in 1..Depth /\ frames[i] \in Frame /\ frames[i].power = q
         /\ frames # <<>> => /\ Depth \in Open(Top.power) /\ frames[Depth] = Top
                             /\ q # Top.power => Depth \notin Open(q)
                             /\ \A i \in Open(Top.power) : i # Depth => frames[i].written
                             /\ \A i \in DOMAIN frames : i # Depth => frames[i].phase = "inside"
<1>1. /\ DOMAIN frames = 1..Depth /\ Depth \in Nat /\ \A i \in 1..Depth : frames[i] \in Frame
      /\ frames # <<>> => Depth # 0 /\ frames[Depth] = Top
  BY StackFacts DEF Base, Stacked, FramesNest, Top, Depth
<1>2. /\ \A i \in DOMAIN frames : i < Depth => frames[i].phase = "inside"
      /\ \A i, j \in DOMAIN frames : i < j /\ frames[i].power = frames[j].power => frames[i].written
  BY DEF Base, Stacked, FramesNest, Depth
<1>3. QED
  BY <1>1, <1>2 DEF Open

\* Without a failure, only the call that is being reported leaves its power dirty.
LEMMA OnlyTopIsDirty ==
  ASSUME Base, Steady, ~failed, NEW q \in Powers, dirty[q]
  PROVE  frames # <<>> /\ Top.phase # "inside" /\ q = Top.power
<1>1. PICK i \in Open(q) : frames[i].phase \in {"reporting", "removing"}
  BY DEF Steady
<1>2. i \in DOMAIN frames /\ frames[i].phase # "inside" /\ frames[i].power = q /\ frames # <<>>
  BY <1>1, OpenFacts, StackFacts DEF Base, Stacked, FramesNest
<1>3. i = Depth /\ frames[Depth] = Top
  BY <1>2, OpenFacts
<1>4. QED
  BY <1>2, <1>3

\* Whose a removed power was stays noted only while its return is.
Owing(i) == \/ frames[i].op = "Removal"
            \/ frames[i].op = "Attachment" /\ frames[i].was = None

\* A frame as it was, but for its phase.
SameCall(f, g) ==
  /\ f.op = g.op /\ f.power = g.power /\ f.seen = g.seen /\ f.was = g.was /\ f.before = g.before
  /\ f.source = g.source /\ f.priorDirty = g.priorDirty

LEMMA GoOnIsSame ==
  ASSUME Base, frames # <<>>, NEW step, GoesOn([Top EXCEPT !.phase = step])
  PROVE  /\ DOMAIN frames' = DOMAIN frames
         /\ \A i \in DOMAIN frames : /\ SameCall(frames'[i], frames[i])
                                     /\ frames'[i].written = frames[i].written
         /\ frames'[Depth].phase = step
         /\ \A i \in DOMAIN frames : i # Depth => frames'[i] = frames[i]
<1>1. Top \in Frame /\ DOMAIN frames = 1..Depth /\ frames[Depth] = Top
  BY TopFacts
<1> DEFINE g == [Top EXCEPT !.phase = step]
<1>2. SameCall(g, Top) /\ g.phase = step /\ g.written = Top.written
  BY <1>1 DEF Frame, SameCall
<1> HIDE DEF g
<1>3. /\ frames'[Depth] = g /\ DOMAIN frames' = 1..Depth
      /\ \A i \in 1..Depth : i # Depth => frames'[i] = frames[i]
  BY DEF GoesOn, g
<1>4. QED
  BY <1>1, <1>2, <1>3 DEF SameCall

LEMMA InitIsSteady == CaptureInit => Steady
<1> SUFFICES ASSUME CaptureInit PROVE Steady
  OBVIOUS
<1>1. frames = <<>> /\ DOMAIN frames = {}
  BY EmptySeq DEF CaptureInit
<1>2. QED
  BY <1>1 DEF CaptureInit, Steady

LEMMA PrefixKeepsSteady ==
  ASSUME Base, Steady, NEW op \in Operations, NEW p \in Powers, NEW s \in Inputs, NEW seen \in BOOLEAN,
         MutationPrefix(op, p, s, seen)
  PROVE  Steady'
<1> DEFINE f == Noted(op, p, s, seen)
<1>1. f.power = p /\ f.op = op /\ f.phase = "inside" /\ f.seen = seen /\ f.priorDirty = (seen /\ dirty[p])
  BY DEF Noted
<1> HIDE DEF f
<1>2. /\ Pushes(f)
      /\ frames # <<>> => Top.phase = "inside"
      /\ UNCHANGED <<powers, game, dirty>>
      /\ detached' = IF op = "Removal" /\ seen THEN [detached EXCEPT ![p] = f.source] ELSE detached
      /\ failed' = (failed \/ ~seen)
  BY PrefixFacts DEF f
<1>3. SUFFICES ASSUME ~failed' PROVE Steady'
  BY DEF Steady
<1>4. ~failed /\ seen
  BY <1>2, <1>3
<1>5. \A q \in Powers : ~dirty[q]
  BY <1>2, <1>4, OnlyTopIsDirty
<1>6. /\ DOMAIN frames = 1..Depth /\ Depth \in Nat /\ DOMAIN frames' = 1..(Depth + 1)
      /\ \A i \in DOMAIN frames : frames'[i] = frames[i] /\ i \in DOMAIN frames'
      /\ frames'[Depth + 1] = f
  <2>1. DOMAIN frames = 1..Depth /\ Depth \in Nat
    BY OpenFacts
  <2>2. DOMAIN frames' = 1..(Depth + 1) /\ (\A i \in 1..Depth : frames'[i] = frames[i]) /\ frames'[Depth + 1] = f
    BY <1>2 DEF Pushes
  <2>3. \A i \in 1..Depth : i \in 1..(Depth + 1)
    BY <2>1
  <2>4. QED
    BY <2>1, <2>2, <2>3
<1>7. ASSUME NEW i \in DOMAIN frames'
      PROVE  /\ frames'[i].seen /\ ~frames'[i].priorDirty
             /\ frames'[i].phase \in {"inside", "reporting", "removing"}
  <2>1. i = Depth + 1 \/ i \in DOMAIN frames
    BY <1>6
  <2>2. QED
    BY <1>1, <1>4, <1>5, <1>6, <2>1 DEF Steady
<1>8. ASSUME NEW q \in Powers, bearer'[q] # None, detached'[q] # None
      PROVE  \E i \in Open(q)' : Owing(i)'
  <2>1. CASE q = p /\ op = "Removal"
    <3>1. PICK n : n = Depth + 1
      OBVIOUS
    <3>2. n \in Open(q)' /\ Owing(n)'
      BY <1>1, <1>6, <2>1, <3>1 DEF Open, Owing
    <3>3. QED
      BY <3>2
  <2>2. CASE ~(q = p /\ op = "Removal")
    <3>1. bearer[q] # None /\ detached[q] # None
      BY <1>2, <1>8, <2>2 DEF game, Base, ShimOk
    <3>2. PICK i \in Open(q) : Owing(i)
      BY <1>4, <3>1 DEF Steady, Owing
    <3>3. i \in Open(q)' /\ Owing(i)'
      BY <1>6, <3>2 DEF Open, Owing
    <3>4. QED
      BY <3>3
  <2>3. QED
    BY <2>1, <2>2
<1>9. \A q \in Powers : ~dirty'[q]
  BY <1>2, <1>5
<1>10. QED
  BY <1>7, <1>8, <1>9 DEF Steady, Owing

LEMMA OriginalKeepsSteady == ASSUME Base, Steady, Original PROVE Steady'
<1> DEFINE p == Top.power
           g == [Top EXCEPT !.written = TRUE]
<1>1. /\ frames # <<>> /\ Top.phase = "inside" /\ ~Top.written
      /\ GoesOn(g)
      /\ Write(Top.op, Top.power, Top.source)
      /\ UNCHANGED <<powers, failed, dirty, detached, history>>
  BY OriginalFacts
<1>2. /\ Top \in Frame /\ Top.op \in Operations /\ p \in Powers /\ Top.source \in Sources
      /\ DOMAIN frames = 1..Depth /\ frames[Depth] = Top /\ Depth \in DOMAIN frames
  BY <1>1, TopFacts
<1>3. SameCall(g, Top) /\ g.phase = "inside"
  BY <1>1, <1>2 DEF Frame, SameCall
<1> HIDE DEF g, p
<1>4. /\ DOMAIN frames' = DOMAIN frames
      /\ \A i \in DOMAIN frames : SameCall(frames'[i], frames[i]) /\ frames'[i].phase = frames[i].phase
  <2>1. frames'[Depth] = g /\ DOMAIN frames' = 1..Depth /\ \A i \in 1..Depth : i # Depth => frames'[i] = frames[i]
    BY <1>1 DEF GoesOn
  <2>2. QED
    BY <1>1, <1>2, <1>3, <2>1 DEF SameCall
<1>5. SUFFICES ASSUME ~failed PROVE Steady'
  BY <1>1 DEF Steady
<1>6. \A q : Open(q)' = Open(q)
  BY <1>4 DEF Open, SameCall
<1>7. /\ \A q \in Powers : q # p => bearer'[q] = bearer[q]
      /\ Top.op = "Attachment" => bearer[p] = None
      /\ Top.op = "AmountChange" => bearer'[p] = bearer[p]
      /\ Top.op = "Removal" => bearer'[p] = None
  BY <1>1, <1>2, WriteFacts DEF Base, p
<1>8. ASSUME NEW q \in Powers, bearer'[q] # None, detached'[q] # None
      PROVE  \E i \in Open(q)' : Owing(i)'
  <2>1. CASE bearer[q] # None
    <3>1. PICK i \in Open(q) : Owing(i)
      BY <1>1, <1>5, <1>8, <2>1 DEF Steady, Owing
    <3>2. i \in Open(q)' /\ Owing(i)'
      BY <1>4, <1>6, <3>1 DEF Owing, SameCall, Open
    <3>3. QED
      BY <3>2
  <2>2. CASE bearer[q] = None
    <3>1. q = p /\ Top.op = "Attachment"
      BY <1>2, <1>7, <1>8, <2>2 DEF Operations
    <3>2. Top.was = None
      BY <1>1, <1>2, <1>5, <2>2, <3>1 DEF Base, NotesHold, Truthful, Steady, p
    <3>3. PICK n : n = Depth
      OBVIOUS
    <3>4. n \in Open(q)' /\ Owing(n)'
      BY <1>2, <1>4, <1>6, <3>1, <3>2, <3>3 DEF Owing, SameCall, Open, p
    <3>5. QED
      BY <3>4
  <2>3. QED
    BY <2>1, <2>2
<1>9. ASSUME NEW q \in Powers, dirty'[q]
      PROVE  \E i \in Open(q)' : frames'[i].phase \in {"reporting", "removing"}
  BY <1>1, <1>5, <1>9, OnlyTopIsDirty
<1>10. ASSUME NEW i \in DOMAIN frames'
       PROVE  /\ frames'[i].seen /\ ~frames'[i].priorDirty
              /\ frames'[i].phase \in {"inside", "reporting", "removing"}
  BY <1>4, <1>5, <1>10 DEF Steady, SameCall
<1>11. QED
  BY <1>8, <1>9, <1>10 DEF Steady, Owing

\* A finalizer that starts its report.
LEMMA GoOnKeepsSteady ==
  ASSUME Base, Steady, frames # <<>>, NEW step \in {"reporting", "removing"},
         GoesOn([Top EXCEPT !.phase = step]), UNCHANGED <<game, failed>>, Top.phase = "inside",
         dirty' = [dirty EXCEPT ![Top.power] = TRUE],
         \/ detached' = detached
         \/ bearer[Top.power] = None /\ \E s : detached' = [detached EXCEPT ![Top.power] = s]
  PROVE  Steady'
<1>1. SUFFICES ASSUME ~failed PROVE Steady'
  BY DEF Steady
<1>2. Top \in Frame /\ DOMAIN frames = 1..Depth /\ frames[Depth] = Top /\ Depth \in DOMAIN frames
      /\ Top.power \in Powers /\ Depth \in Open(Top.power)
  BY TopFacts DEF Open
<1>3. /\ DOMAIN frames' = DOMAIN frames
      /\ \A i \in DOMAIN frames : SameCall(frames'[i], frames[i])
      /\ frames'[Depth].phase = step
      /\ \A i \in DOMAIN frames : i # Depth => frames'[i] = frames[i]
  BY GoOnIsSame
<1>4. \A q : Open(q)' = Open(q)
  BY <1>3 DEF Open, SameCall
<1>5. ASSUME NEW q \in Powers, bearer'[q] # None, detached'[q] # None
      PROVE  \E i \in Open(q)' : Owing(i)'
  <2>1. bearer[q] # None /\ detached[q] # None
    BY <1>2, <1>5 DEF game, Base, ShimOk
  <2>2. PICK i \in Open(q) : Owing(i)
    BY <1>1, <2>1 DEF Steady, Owing
  <2>3. i \in Open(q)' /\ Owing(i)'
    BY <1>3, <1>4, <2>2 DEF Owing, SameCall, Open
  <2>4. QED
    BY <2>3
<1>6. ASSUME NEW q \in Powers, dirty'[q]
      PROVE  \E i \in Open(q)' : frames'[i].phase \in {"reporting", "removing"}
  <2>1. CASE q = Top.power
    BY <1>2, <1>3, <1>4, <2>1
  <2>2. CASE q # Top.power
    BY <1>1, <1>6, <2>2, OnlyTopIsDirty DEF Base, ShimOk
  <2>3. QED
    BY <2>1, <2>2
<1>7. ASSUME NEW i \in DOMAIN frames'
      PROVE  /\ frames'[i].seen /\ ~frames'[i].priorDirty
             /\ frames'[i].phase \in {"inside", "reporting", "removing"}
  BY <1>1, <1>3, <1>7 DEF Steady, SameCall
<1>8. QED
  BY <1>5, <1>6, <1>7 DEF Steady, Owing

\* A call that ends and leaves nothing to note.
LEMMA PopKeepsSteady ==
  ASSUME Base, Steady, frames # <<>>, Pops, UNCHANGED game, ShimOk',
         ~failed' => ~failed,
         \A q \in Powers : dirty'[q] => dirty[q] /\ q # Top.power,
         \A q \in Powers : detached'[q] # None => detached[q] # None,
         \/ bearer[Top.power] = None \/ detached'[Top.power] = None \/ ~Owing(Depth)
  PROVE  Steady'
<1>1. SUFFICES ASSUME ~failed, ~failed' PROVE Steady'
  BY DEF Steady
<1>2. /\ DOMAIN frames = 1..Depth /\ Depth \in Nat \ {0} /\ DOMAIN frames' = 1..(Depth - 1)
      /\ \A i \in DOMAIN frames' : i \in DOMAIN frames /\ frames'[i] = frames[i]
      /\ \A i \in DOMAIN frames : i # Depth => i \in DOMAIN frames'
  BY TopFacts DEF Pops
<1>3. \A q \in Powers : ~dirty'[q]
  BY <1>1, OnlyTopIsDirty
<1>4. ASSUME NEW q \in Powers, bearer'[q] # None, detached'[q] # None
      PROVE  \E i \in Open(q)' : Owing(i)'
  <2>1. bearer[q] # None /\ detached[q] # None
    BY <1>4 DEF game
  <2>2. PICK i \in Open(q) : Owing(i)
    BY <1>1, <2>1 DEF Steady, Owing
  <2>3. i # Depth
    BY <1>4, <2>1, <2>2, OpenFacts
  <2>4. i \in Open(q)' /\ Owing(i)'
    BY <1>2, <2>2, <2>3 DEF Owing, Open
  <2>5. QED
    BY <2>4
<1>5. ASSUME NEW i \in DOMAIN frames'
      PROVE  /\ frames'[i].seen /\ ~frames'[i].priorDirty
             /\ frames'[i].phase \in {"inside", "reporting", "removing"}
  BY <1>1, <1>2, <1>5 DEF Steady
<1>6. QED
  BY <1>3, <1>4, <1>5 DEF Steady, Owing

----------------------------------------------------------------------------
(***************************************************************************)
(* Until a failure, the engine knows every power or is about to be told.   *)
(***************************************************************************)
Knows(p) == Exact(p) \/ ToRemove(p) \/ ToAttach(p) \/ ToRefuse(p) \/ ToMove(p)

\* What the engine and the game have of a power is as it was.
SamePower(q) ==
  /\ bearer'[q] = bearer[q] /\ amount'[q] = amount[q] /\ supplied'[q] = supplied[q]
  /\ (q \in DOMAIN powers') <=> (q \in DOMAIN powers)
  /\ q \in DOMAIN powers => powers'[q] = powers[q]

SameNote(i) ==
  /\ Attaches(i)' <=> Attaches(i)
  /\ Moves(i)' <=> Moves(i)
  /\ Removes(i)' <=> Removes(i)
  /\ frames'[i].source = frames[i].source /\ frames'[i].before = frames[i].before
  /\ frames'[i].written = frames[i].written /\ frames'[i].power = frames[i].power

\* Calls that end or begin say nothing of the power, if they would be no witness.
LEMMA KnowsKept ==
  ASSUME Base, NEW q \in Powers, Knows(q), SamePower(q),
         \A i \in Open(q) \cap Open(q)' : SameNote(i),
         \A i \in Open(q) \ Open(q)' : IF bearer[q] = None THEN ~Removes(i)
                                      ELSE ~Attaches(i) /\ ~Moves(i),
         Open(q)' \subseteq Open(q)
  PROVE  Knows(q)'
<1>1. /\ Exact(q)' <=> Exact(q)
      /\ q \in DOMAIN powers => (Trusts(q)' <=> Trusts(q))
  BY DEF SamePower, Exact, Trusts
<1>2. \A i \in Open(q) : frames[i].power = q
  BY DEF Open
<1>3. ASSUME NEW i \in Open(q)', SameNote(i) PROVE Within(i)' = Within(i) \cap Open(q)'
  BY <1>2, <1>3 DEF Within, SameNote
<1>4. \A i \in Open(q)' : i \in Open(q) /\ SameNote(i) /\ Within(i)' = Within(i) \cap Open(q)'
                         /\ Within(i) \subseteq Open(q)
  BY <1>2, <1>3 DEF Within
<1>5. CASE Exact(q)
  BY <1>1, <1>5 DEF Knows
<1>6. CASE ToRemove(q)
  <2>1. PICK i \in Open(q) : Removes(i)
    BY <1>6 DEF ToRemove
  <2>2. i \in Open(q)' /\ Removes(i)'
    BY <1>4, <1>6, <2>1 DEF ToRemove, SameNote
  <2>3. ToRemove(q)'
    BY <1>6, <2>2 DEF ToRemove, SamePower
  <2>4. QED
    BY <2>3 DEF Knows
<1>7. CASE ToAttach(q)
  <2>1. PICK i \in Open(q) :
          /\ Attaches(i) /\ frames[i].written
          /\ \A k \in Within(i) : ~Attaches(k)
          /\ \/ supplied[q] = Units(Whole(amount[q]), frames[i].source)
             \/ \E k \in Within(i) : Moves(k)
    BY <1>7 DEF ToAttach
  <2>2. i \in Open(q)' /\ bearer[q] # None
    BY <1>7, <2>1 DEF ToAttach
  <2>3. Attaches(i)' /\ frames'[i].written /\ frames'[i].source = frames[i].source
    BY <1>4, <2>1, <2>2 DEF SameNote
  <2>4. ASSUME NEW k \in Within(i)' PROVE ~Attaches(k)'
    BY <1>4, <2>1, <2>2, <2>4 DEF SameNote
  <2>5. ASSUME NEW k \in Within(i), Moves(k) PROVE k \in Within(i)' /\ Moves(k)'
    BY <1>4, <2>2, <2>5 DEF SameNote
  <2>6. ToAttach(q)'
    BY <1>7, <2>1, <2>2, <2>3, <2>4, <2>5 DEF ToAttach, SamePower
  <2>7. QED
    BY <2>6 DEF Knows
<1>8. CASE ToRefuse(q)
  <2>1. PICK i \in Open(q) : Attaches(i)
    BY <1>8 DEF ToRefuse
  <2>2. i \in Open(q)' /\ Attaches(i)'
    BY <1>4, <1>8, <2>1 DEF ToRefuse, SameNote
  <2>3. ToRefuse(q)'
    BY <1>8, <2>2 DEF ToRefuse, SamePower
  <2>4. QED
    BY <2>3 DEF Knows
<1>9. CASE ToMove(q)
  <2>1. PICK i \in Open(q) :
          /\ Moves(i) /\ frames[i].written
          /\ Trusts(q)
          /\ \A k \in Within(i) : Moves(k) => frames[k].before # powers[q].observed
          /\ \/ supplied[q] = Moved(powers[q].grants, powers[q].observed, amount[q], frames[i].source)
             \/ \E k \in Within(i) : Moves(k)
    BY <1>9 DEF ToMove
  <2>2. i \in Open(q)' /\ bearer[q] # None /\ q \in DOMAIN powers
    BY <1>9, <2>1 DEF ToMove
  <2>3. Moves(i)' /\ frames'[i].written /\ frames'[i].source = frames[i].source
    BY <1>4, <2>1, <2>2 DEF SameNote
  <2>4. ASSUME NEW k \in Within(i)', Moves(k)' PROVE frames'[k].before # powers'[q].observed
    BY <1>4, <2>1, <2>2, <2>4 DEF SameNote, SamePower
  <2>5. ASSUME NEW k \in Within(i), Moves(k) PROVE k \in Within(i)' /\ Moves(k)'
    BY <1>4, <2>2, <2>5 DEF SameNote
  <2>6. ToMove(q)'
    BY <1>1, <2>1, <2>2, <2>3, <2>4, <2>5 DEF ToMove, SamePower
  <2>7. QED
    BY <2>6 DEF Knows
<1>10. QED
  BY <1>5, <1>6, <1>7, <1>8, <1>9 DEF Knows

\* A power whose call is not the innermost is as well known as before, when that one goes on
\* or ends.
LEMMA OthersAreKept ==
  ASSUME Base, NEW q \in Powers, Knows(q), SamePower(q), frames # <<>>, q # Top.power,
         NEW g, (GoesOn(g) /\ g.power = Top.power) \/ Pops
  PROVE  Knows(q)'
<1>1. /\ DOMAIN frames = 1..Depth /\ Depth \in Nat \ {0} /\ frames[Depth] = Top
  BY TopFacts
<1>2. Open(q)' = Open(q) /\ \A i \in Open(q) : frames'[i] = frames[i]
  <2>1. \A i \in Open(q) : i # Depth
    BY OpenFacts
  <2>2. CASE Pops
    BY <1>1, <2>1, <2>2 DEF Pops, Open
  <2>3. CASE GoesOn(g) /\ g.power = Top.power
    BY <1>1, <2>1, <2>3 DEF GoesOn, Open
  <2>4. QED
    BY <2>2, <2>3
<1>3. \A i \in Open(q) : SameNote(i)
  BY <1>2 DEF SameNote, Attaches, Moves, Removes
<1>4. QED
  BY <1>2, <1>3, KnowsKept

LEMMA PopKeepsKnows ==
  ASSUME Base, NEW q \in Powers, Knows(q), SamePower(q), frames # <<>>, Pops,
         q = Top.power => IF bearer[q] = None THEN ~Removes(Depth) ELSE ~Attaches(Depth) /\ ~Moves(Depth)
  PROVE  Knows(q)'
<1>1. /\ DOMAIN frames = 1..Depth /\ Depth \in Nat \ {0} /\ frames[Depth] = Top
  BY TopFacts
<1>2. /\ Open(q)' = Open(q) \ {Depth} /\ \A i \in Open(q)' : frames'[i] = frames[i]
  BY <1>1 DEF Pops, Open
<1>3. \A i \in Open(q)' : SameNote(i)
  BY <1>2 DEF SameNote, Attaches, Moves, Removes
<1>4. Depth \in Open(q) => q = Top.power
  BY OpenFacts
<1>5. QED
  BY <1>2, <1>3, <1>4, KnowsKept

LEMMA GoOnKeepsKnows ==
  ASSUME Base, NEW q \in Powers, Knows(q), SamePower(q), frames # <<>>, NEW step,
         GoesOn([Top EXCEPT !.phase = step])
  PROVE  Knows(q)'
<1>1. /\ DOMAIN frames' = DOMAIN frames
      /\ \A i \in DOMAIN frames : SameCall(frames'[i], frames[i]) /\ frames'[i].written = frames[i].written
  BY GoOnIsSame
<1>2. Open(q)' = Open(q)
  BY <1>1 DEF Open, SameCall
<1>3. \A i \in Open(q) : SameNote(i)
  BY <1>1, OpenFacts DEF SameNote, Attaches, Moves, Removes, SameCall
<1>4. QED
  BY <1>2, <1>3, KnowsKept

\* An amount that does not change moves nothing.
LEMMA MovedNowhere ==
  ASSUME NEW q \in Grants, NEW a \in Int, NEW s \in Sources
  PROVE  Moved(q, a, a, s) = q
<1>1. Whole(a) \in Nat
  BY WholeFacts
<1>2. Units(0, s) \in Grants /\ Len(Units(0, s)) = 0
  BY UnitsFacts
<1>3. Units(0, s) = <<>>
  BY <1>2, EmptySeq DEF Grants
<1>4. Moved(q, a, a, s) = q \o <<>>
  <2>1. Whole(a) - Whole(a) = 0 /\ ~(Whole(a) < Whole(a))
    BY <1>1
  <2>2. QED
    BY <1>3, <2>1 DEF Moved
<1>5. QED
  BY <1>4, ConcatEmptySeq DEF Grants

\* A call begins: it opens no question, unless it is the third on a power.
LEMMA PrefixKeepsKnows ==
  ASSUME Base, Steady, NEW op \in Operations, NEW p \in Powers, NEW s \in Inputs, NEW seen \in BOOLEAN,
         MutationPrefix(op, p, s, seen), ~failed', ~knotted', NEW q \in Powers, Knows(q)
  PROVE  Knows(q)'
<1> DEFINE f == Noted(op, p, s, seen)
<1>1. f.power = p /\ f.op = op /\ f.was = (IF seen THEN bearer[p] ELSE None)
      /\ f.before = (IF seen THEN amount[p] ELSE 0)
  BY DEF Noted
<1> HIDE DEF f
<1>2. /\ Pushes(f) /\ UNCHANGED <<powers, game>> /\ failed' = (failed \/ ~seen)
      /\ \A i \in Open(p) : frames[i].written
      /\ knotted' = (knotted \/ \E i, j \in Open(p) : i # j)
  BY PrefixFacts DEF f
<1>3. seen /\ SamePower(q) /\ \A i, j \in Open(p) : i = j
  BY <1>2 DEF SamePower, game
<1>4. PICK n : n = Depth + 1
  OBVIOUS
<1>5. /\ \A i \in DOMAIN frames : frames'[i] = frames[i] /\ i \in DOMAIN frames' /\ i < n /\ i # n
      /\ frames'[n] = f /\ n \in DOMAIN frames' /\ \A i \in DOMAIN frames' : i = n \/ i \in DOMAIN frames
  BY <1>2, <1>4, OpenFacts DEF Pushes
<1>6. \A i \in DOMAIN frames : SameNote(i)
  BY <1>5 DEF SameNote, Attaches, Moves, Removes
<1>7. /\ Open(q) \subseteq Open(q)' /\ \A i \in Open(q)' : i \in Open(q) \/ (i = n /\ q = p)
      /\ Open(q) \subseteq DOMAIN frames /\ \A i \in Open(q) : frames[i].power = q
  BY <1>1, <1>5 DEF Open
<1>8. ASSUME NEW i \in Open(q)
      PROVE  /\ i \in Open(q)' /\ SameNote(i) /\ Within(i) \subseteq Within(i)'
             /\ \A k \in Within(i)' : k \in Within(i) \/ (k = n /\ q = p)
  BY <1>6, <1>7, <1>8 DEF Within, SameNote
<1>9. Attaches(n)' => bearer[p] = None
  BY <1>1, <1>3, <1>5 DEF Attaches
<1>10. Moves(n)' => frames'[n].before = amount[p]
  BY <1>1, <1>3, <1>5
<1>11. Exact(q) => Exact(q)'
  BY <1>2 DEF Exact, Trusts, game
<1>12. CASE ToRemove(q)
  <2>1. PICK i \in Open(q) : Removes(i)
    BY <1>12 DEF ToRemove
  <2>2. i \in Open(q)' /\ Removes(i)'
    BY <1>8, <2>1 DEF SameNote
  <2>3. ToRemove(q)'
    BY <1>3, <1>12, <2>2 DEF ToRemove, SamePower
  <2>4. QED
    BY <2>3 DEF Knows
<1>13. CASE ToAttach(q)
  <2>1. PICK i \in Open(q) :
          /\ Attaches(i) /\ frames[i].written
          /\ \A k \in Within(i) : ~Attaches(k)
          /\ \/ supplied[q] = Units(Whole(amount[q]), frames[i].source)
             \/ \E k \in Within(i) : Moves(k)
    BY <1>13 DEF ToAttach
  <2>2. i \in Open(q)' /\ Attaches(i)' /\ frames'[i].written /\ frames'[i].source = frames[i].source
    BY <1>8, <2>1 DEF SameNote
  <2>3. ASSUME NEW k \in Within(i)' PROVE ~Attaches(k)'
    <3>1. CASE k \in Within(i)
      BY <1>8, <2>1, <3>1 DEF SameNote, Within, Open
    <3>2. CASE k = n /\ q = p
      BY <1>9, <1>13, <3>2 DEF ToAttach
    <3>3. QED
      BY <1>8, <2>3, <3>1, <3>2
  <2>4. ASSUME NEW k \in Within(i), Moves(k) PROVE k \in Within(i)' /\ Moves(k)'
    BY <1>8, <2>4, <1>7 DEF SameNote, Within
  <2>5. ToAttach(q)'
    BY <1>3, <1>13, <2>1, <2>2, <2>3, <2>4 DEF ToAttach, SamePower
  <2>6. QED
    BY <2>5 DEF Knows
<1>14. CASE ToRefuse(q)
  <2>1. PICK i \in Open(q) : Attaches(i)
    BY <1>14 DEF ToRefuse
  <2>2. i \in Open(q)' /\ Attaches(i)'
    BY <1>8, <2>1 DEF SameNote
  <2>3. ToRefuse(q)'
    BY <1>3, <1>14, <2>2 DEF ToRefuse, SamePower
  <2>4. QED
    BY <2>3 DEF Knows
<1>15. CASE ToMove(q)
  <2>1. PICK i \in Open(q) :
          /\ Moves(i) /\ frames[i].written
          /\ Trusts(q)
          /\ \A k \in Within(i) : Moves(k) => frames[k].before # powers[q].observed
          /\ \/ supplied[q] = Moved(powers[q].grants, powers[q].observed, amount[q], frames[i].source)
             \/ \E k \in Within(i) : Moves(k)
    BY <1>15 DEF ToMove
  <2>2. i \in Open(q)' /\ Moves(i)' /\ frames'[i].written /\ frames'[i].source = frames[i].source
        /\ bearer[q] # None /\ q \in DOMAIN powers
    BY <1>8, <1>15, <2>1 DEF SameNote, ToMove
  <2>3. CASE q = p /\ amount[q] = powers[q].observed
    <3>1. Within(i) = {}
      BY <1>3, <1>7, <2>3, <2>1, OpenFacts DEF Within
    <3>2. frames[i].source \in Sources
      BY OpenFacts, <2>1 DEF Frame
    <3>3. powers[q].grants \in Grants /\ powers[q].observed \in Int
      BY <2>2 DEF Base, GoodPowers, GoodPower, PowerInfo
    <3>4. supplied[q] = powers[q].grants
      BY <2>1, <2>3, <3>1, <3>2, <3>3, MovedNowhere
    <3>5. Exact(q)
      BY <2>1, <2>2, <2>3, <3>4 DEF Exact
    <3>6. QED
      BY <1>11, <3>5 DEF Knows
  <2>4. CASE ~(q = p /\ amount[q] = powers[q].observed)
    <3>1. ASSUME NEW k \in Within(i)', Moves(k)' PROVE frames'[k].before # powers'[q].observed
      <4>1. CASE k \in Within(i)
        BY <1>3, <1>8, <2>1, <2>2, <3>1, <4>1 DEF SameNote, Within, Open, SamePower
      <4>2. CASE k = n /\ q = p
        BY <1>3, <1>10, <2>2, <2>4, <3>1, <4>2 DEF SamePower
      <4>3. QED
        BY <1>8, <3>1, <4>1, <4>2
    <3>2. ASSUME NEW k \in Within(i), Moves(k) PROVE k \in Within(i)' /\ Moves(k)'
      BY <1>8, <3>2, <1>7 DEF SameNote, Within
    <3>3. Trusts(q)'
      BY <1>3, <2>1, <2>2 DEF Trusts, SamePower
    <3>4. ToMove(q)'
      BY <1>3, <2>1, <2>2, <3>1, <3>2, <3>3 DEF ToMove, SamePower
    <3>5. QED
      BY <3>4 DEF Knows
  <2>5. QED
    BY <2>3, <2>4
<1>16. QED
  BY <1>11, <1>12, <1>13, <1>14, <1>15 DEF Knows

\* The original writes.
LEMMA OriginalKeepsKnows ==
  ASSUME Base, Steady, Original, ~failed, NEW q \in Powers, Knows(q)
  PROVE  Knows(q)'
<1> DEFINE p == Top.power
           g == [Top EXCEPT !.written = TRUE]
<1>1. /\ frames # <<>> /\ Top.phase = "inside" /\ ~Top.written
      /\ GoesOn(g)
      /\ Write(Top.op, Top.power, Top.source)
      /\ UNCHANGED <<powers, failed, dirty, detached, history>>
  BY OriginalFacts
<1>2. /\ Top \in Frame /\ Top.op \in Operations /\ p \in Powers /\ Top.source \in Sources
      /\ DOMAIN frames = 1..Depth /\ frames[Depth] = Top /\ Depth \in DOMAIN frames /\ Depth \in Nat
  BY <1>1, TopFacts
<1>3. SameCall(g, Top) /\ g.power = p /\ g.written
  BY <1>1, <1>2 DEF Frame, SameCall
<1> HIDE DEF g
<1>4. /\ \A r \in Powers : r # p => /\ bearer'[r] = bearer[r] /\ amount'[r] = amount[r]
                                    /\ supplied'[r] = supplied[r]
      /\ Top.op = "Attachment" =>
           /\ bearer[p] = None /\ bearer'[p] # None /\ amount'[p] = amount[p]
           /\ supplied'[p] = Units(Whole(amount[p]), Top.source)
      /\ Top.op = "AmountChange" =>
           /\ bearer'[p] = bearer[p]
           /\ supplied'[p] = IF bearer[p] = None THEN supplied[p]
                             ELSE Moved(supplied[p], amount[p], amount'[p], Top.source)
      /\ Top.op = "Removal" => /\ bearer[p] # None /\ bearer'[p] = None
                               /\ amount'[p] = amount[p] /\ supplied'[p] = supplied[p]
  BY <1>1, <1>2, WriteFacts DEF Base
<1>5. CASE q # p
  <2>1. SamePower(q)
    BY <1>1, <1>4, <1>5 DEF SamePower
  <2>2. QED
    BY <1>1, <1>3, <1>5, <2>1, OthersAreKept
<1>6. CASE q = p
  <2>1. Top.seen
    BY <1>2 DEF Steady
  <2>2. Top.was = bearer[p]
    BY <1>1, <1>2, <2>1 DEF Base, NotesHold, Truthful
  <2> HIDE DEF p
  <2>3. PICK n : n = Depth
    OBVIOUS
  <2>4. /\ DOMAIN frames' = DOMAIN frames /\ n \in DOMAIN frames /\ frames[n] = Top /\ frames'[n] = g
        /\ \A i \in DOMAIN frames : i # n => frames'[i] = frames[i]
        /\ \A i \in DOMAIN frames : ~(i > n)
    BY <1>1, <1>2, <2>3 DEF GoesOn
  <2>5. Open(q)' = Open(q) /\ n \in Open(q) /\ Open(q) \subseteq DOMAIN frames
        /\ \A i \in Open(q) : frames[i].power = q
    BY <1>3, <1>6, <2>4 DEF Open, p
  <2>6. \A i \in Open(q) : /\ Attaches(i)' <=> Attaches(i)
                           /\ Moves(i)' <=> Moves(i)
                           /\ Removes(i)' <=> Removes(i)
                           /\ frames'[i].source = frames[i].source /\ frames'[i].before = frames[i].before
                           /\ frames'[i].power = frames[i].power
                           /\ i # n => frames'[i].written = frames[i].written
    BY <1>3, <2>4, <2>5 DEF SameCall, Attaches, Moves, Removes
  <2>7. frames'[n].written
    BY <1>3, <2>4
  <2>8. \A i \in Open(q) : /\ Within(i)' = Within(i) /\ Within(i) \subseteq Open(q)
                           /\ i # n => i < n /\ n \in Within(i)
    <3>1. \A i \in Open(q) : i # n => i < n
      BY <2>3, <2>4, <2>5, <1>2
    <3>2. QED
      BY <2>5, <2>6, <3>1 DEF Within
  <2>9. Within(n) = {} /\ Within(n)' = {}
    BY <2>4, <2>5, <2>8 DEF Within
  <2>10. powers' = powers
    BY <1>1
  <2>11. CASE Top.op = "Attachment"
    <3>1. bearer[q] = None /\ bearer'[q] # None /\ amount'[q] = amount[q]
          /\ supplied'[q] = Units(Whole(amount'[q]), frames'[n].source) /\ Attaches(n)'
      BY <1>4, <1>6, <2>2, <2>4, <2>5, <2>6, <2>11 DEF Attaches
    <3>2. CASE q \notin DOMAIN powers
      <4>1. ToAttach(q)'
        BY <2>5, <2>7, <2>9, <2>10, <3>1, <3>2 DEF ToAttach
      <4>2. QED
        BY <4>1 DEF Knows
    <3>3. CASE q \in DOMAIN powers
      <4>1. ToRefuse(q)'
        BY <2>5, <2>10, <3>1, <3>3 DEF ToRefuse
      <4>2. QED
        BY <4>1 DEF Knows
    <3>4. QED
      BY <3>2, <3>3
  <2>12. CASE Top.op = "AmountChange" /\ bearer[q] = None
    <3>1. bearer'[q] = None
      BY <1>4, <1>6, <2>12
    <3>2. CASE q \notin DOMAIN powers
      BY <2>10, <3>1, <3>2 DEF Knows, Exact
    <3>3. CASE q \in DOMAIN powers
      <4>1. ToRemove(q)
        BY <2>12, <3>3 DEF Knows, Exact, ToAttach, ToRefuse, ToMove
      <4>2. PICK i \in Open(q) : Removes(i)
        BY <4>1 DEF ToRemove
      <4>3. i \in Open(q)' /\ Removes(i)'
        BY <2>5, <2>6, <4>2
      <4>4. ToRemove(q)'
        BY <2>10, <3>1, <3>3, <4>3 DEF ToRemove
      <4>5. QED
        BY <4>4 DEF Knows
    <3>4. QED
      BY <3>2, <3>3
  <2>13. CASE Top.op = "AmountChange" /\ bearer[q] # None
    <3>1. bearer'[q] # None /\ bearer'[q] = bearer[q]
          /\ supplied'[q] = Moved(supplied[q], amount[q], amount'[q], frames'[n].source) /\ Moves(n) /\ Moves(n)'
      BY <1>4, <1>6, <2>2, <2>4, <2>5, <2>6, <2>13 DEF Moves
    <3>2. CASE Exact(q)
      <4>1. /\ q \in DOMAIN powers /\ Trusts(q) /\ powers[q].observed = amount[q]
            /\ powers[q].grants = supplied[q]
        BY <2>13, <3>2 DEF Exact
      <4>2. /\ q \in DOMAIN powers' /\ Trusts(q)'
            /\ supplied'[q] = Moved(powers'[q].grants, powers'[q].observed, amount'[q], frames'[n].source)
        BY <2>10, <3>1, <4>1 DEF Trusts
      <4>3. ToMove(q)'
        BY <2>5, <2>7, <2>9, <3>1, <4>2 DEF ToMove
      <4>4. QED
        BY <4>3 DEF Knows
    <3>3. CASE ToAttach(q)
      <4>1. PICK i \in Open(q) : Attaches(i) /\ frames[i].written /\ \A k \in Within(i) : ~Attaches(k)
        BY <3>3 DEF ToAttach
      <4>2. i # n /\ n \in Within(i)' /\ Attaches(i)' /\ frames'[i].written /\ i \in Open(q)'
            /\ \A k \in Within(i)' : ~Attaches(k)'
        BY <1>1, <2>4, <2>5, <2>6, <2>8, <4>1
      <4>3. ToAttach(q)'
        BY <2>10, <3>1, <3>3, <4>2 DEF ToAttach
      <4>4. QED
        BY <4>3 DEF Knows
    <3>4. CASE ToRefuse(q)
      <4>1. PICK i \in Open(q) : Attaches(i)
        BY <3>4 DEF ToRefuse
      <4>2. i \in Open(q)' /\ Attaches(i)'
        BY <2>5, <2>6, <4>1
      <4>3. ToRefuse(q)'
        BY <2>10, <3>1, <3>4, <4>2 DEF ToRefuse
      <4>4. QED
        BY <4>3 DEF Knows
    <3>5. CASE ToMove(q)
      <4>1. PICK i \in Open(q) : /\ Moves(i) /\ frames[i].written /\ Trusts(q)
                                 /\ \A k \in Within(i) : Moves(k) => frames[k].before # powers[q].observed
        BY <3>5 DEF ToMove
      <4>2. i # n /\ n \in Within(i)' /\ Moves(i)' /\ frames'[i].written /\ i \in Open(q)'
            /\ \A k \in Within(i)' : Moves(k)' => frames'[k].before # powers'[q].observed
        BY <1>1, <2>4, <2>5, <2>6, <2>8, <2>10, <4>1
      <4>3. Trusts(q)'
        BY <2>10, <3>1, <4>1 DEF Trusts
      <4>4. ToMove(q)'
        BY <2>10, <3>1, <3>5, <4>2, <4>3 DEF ToMove
      <4>5. QED
        BY <4>4 DEF Knows
    <3>6. QED
      BY <2>13, <3>2, <3>3, <3>4, <3>5 DEF Knows, ToRemove
  <2>14. CASE Top.op = "Removal"
    <3>1. bearer[q] # None /\ bearer'[q] = None /\ Removes(n)'
      BY <1>4, <1>6, <2>2, <2>4, <2>5, <2>6, <2>14 DEF Removes
    <3>2. CASE q \notin DOMAIN powers
      BY <2>10, <3>1, <3>2 DEF Knows, Exact
    <3>3. CASE q \in DOMAIN powers
      <4>1. ToRemove(q)'
        BY <2>5, <2>10, <3>1, <3>3 DEF ToRemove
      <4>2. QED
        BY <4>1 DEF Knows
    <3>4. QED
      BY <3>2, <3>3
  <2>15. QED
    BY <1>2, <2>11, <2>12, <2>13, <2>14 DEF Operations
<1>7. QED
  BY <1>5, <1>6

\* What the engine kept of a power.
Kept(p) == IF p \in DOMAIN powers THEN powers[p].grants ELSE <<>>

\* What an accepted report that loses nothing makes of the power.
Becomes(p, owner, old, new, s) ==
  /\ ~Drifted(p, old)
  /\ DOMAIN powers' = DOMAIN powers \cup {p}
  /\ \A q \in DOMAIN powers : q # p => powers'[q] = powers[q]
  /\ powers'[p].owner = owner /\ powers'[p].observed = new /\ powers'[p].trusted
  /\ powers'[p].grants = Moved(Kept(p), Before(old), new, s)

LEMMA AcceptedExactly ==
  ASSUME Base, NEW p \in Powers, NEW owner \in Creatures, NEW old \in Int \cup {None}, NEW new \in Int,
         NEW s \in Sources, Accept(p, owner, old, new, s), ~failed'
  PROVE  Becomes(p, owner, old, new, s)
<1> DEFINE moved == Moved(Held(p, old), Before(old), new, s)
           fitted == Fitted(p, moved, new)
           grants == Settled(fitted)
           after  == [owner |-> owner, observed |-> new, grants |-> grants,
                      source |-> Refreshed(grants, HeldSource(p, old, s)), trusted |-> TRUE]
<1>1. /\ powers' = [q \in DOMAIN powers \cup {p} |-> IF q = p THEN after ELSE powers[q]]
      /\ failed' = (failed \/ Drifted(p, old) \/ Crowded(p, moved) \/ TooWide(fitted))
  BY DEF Accept
<1>2. ~Drifted(p, old) /\ ~Crowded(p, moved) /\ ~TooWide(fitted)
  <2> HIDE DEF moved, fitted
  <2>1. QED
    BY <1>1
<1>3. grants = moved
  BY <1>2 DEF Settled, Fitted
<1>4. Held(p, old) = Kept(p)
  BY <1>2 DEF Held, Kept
<1>5. after.owner = owner /\ after.observed = new /\ after.trusted /\ after.grants = grants
  OBVIOUS
<1> HIDE DEF after, grants, fitted
<1>6. QED
  BY <1>1, <1>2, <1>3, <1>4, <1>5 DEF Becomes

LEMMA ReportKeepsKnows ==
  ASSUME Base, Steady, frames # <<>>, Top.phase = "reporting", UNCHANGED <<game, history>>,
         bearer[Top.power] \in Creatures, Old(Top) \in Int \cup {None}, Reports, ~failed, ~failed',
         NEW q \in Powers, Knows(q)
  PROVE  Knows(q)'
<1>0. PICK p : p = Top.power
  OBVIOUS
<1>1. /\ Top \in Frame /\ DOMAIN frames = 1..Depth /\ Depth \in Nat \ {0} /\ Depth \in DOMAIN frames
      /\ frames[Depth] = Top /\ Top.op \in Operations
      /\ p \in Powers /\ Top.source \in Sources /\ Top.before \in Int
  BY <1>0, TopFacts, AmountsAreInt
<1>2. amount[p] \in Int /\ amount'[p] = amount[p] /\ bearer' = bearer /\ supplied' = supplied
      /\ amount' = amount
  BY <1>1, AmountsAreInt DEF Base, GameOk, game
<1>3. Accept(p, bearer[p], Old(Top), amount[p], Top.source) /\ Pops
  BY <1>0 DEF Reports
<1>4. bearer[p] # None
  BY <1>0, CaptureConstants
<1>5. Top.seen /\ Top.op # "Removal" /\ Changed(Top)
  BY <1>1 DEF Base, NotesHold, Grounded
<1>6. /\ ~Drifted(p, Old(Top))
      /\ DOMAIN powers' = DOMAIN powers \cup {p}
      /\ \A r \in DOMAIN powers : r # p => powers'[r] = powers[r]
      /\ powers'[p].owner = bearer[p] /\ powers'[p].observed = amount[p] /\ powers'[p].trusted
      /\ powers'[p].grants = Moved(Kept(p), Before(Old(Top)), amount[p], Top.source)
  <2>1. PICK owner \in Creatures, old \in Int \cup {None}, new \in Int, s \in Sources :
          owner = bearer[p] /\ old = Old(Top) /\ new = amount[p] /\ s = Top.source
    BY <1>0, <1>1, <1>2
  <2>2. p \in Powers /\ Accept(p, owner, old, new, s)
    BY <1>0, <1>1, <1>3, <2>1
  <2>3. owner \in Creatures /\ old \in Int \cup {None} /\ new \in Int /\ s \in Sources
    BY <2>1
  <2>4. Becomes(p, owner, old, new, s)
    BY <2>2, <2>3, AcceptedExactly
  <2>5. QED
    BY <2>1, <2>4 DEF Becomes
<1>7. ~Refused(p, bearer[p], Old(Top), amount[p], Top.source)
  BY <1>3 DEF Accept
<1>8. Top.op = "Attachment" => Top.was = None
  BY <1>0, <1>4, <1>5 DEF Changed
<1>9. Top.op = "AmountChange" => Top.was # None
  BY <1>0, <1>4, <1>5 DEF Changed
<1>10. CASE q # p
  <2>1. SamePower(q)
    BY <1>2, <1>6, <1>10 DEF SamePower
  <2>2. QED
    BY <1>0, <1>3, <1>10, <2>1, PopKeepsKnows
<1>11. ASSUME supplied[p] = powers'[p].grants PROVE Knows(p)'
  BY <1>2, <1>4, <1>6, <1>11 DEF Knows, Exact, Trusts
<1>12. /\ Depth \in Open(p) /\ Within(Depth) = {}
       /\ \A i \in Open(p) : i # Depth => Depth \in Within(i)
  <2>1. /\ \A i \in Open(p) : i \in 1..Depth /\ frames[i].power = p
        /\ Depth \in Open(p)
    BY <1>0, OpenFacts
  <2>2. QED
    BY <1>1, <2>1 DEF Within
<1>13. CASE q = p /\ Top.op = "Attachment"
  <2>1. Old(Top) = None /\ Attaches(Depth)
    BY <1>1, <1>8, <1>13 DEF Old, Attaches
  <2>2. p \notin DOMAIN powers
    BY <1>7, <2>1 DEF Refused
  <2>3. ToAttach(p)
    BY <1>4, <1>13, <2>2 DEF Knows, Exact, ToRemove, ToRefuse, ToMove
  <2>4. PICK i \in Open(p) : /\ \A k \in Within(i) : ~Attaches(k)
                             /\ \/ supplied[p] = Units(Whole(amount[p]), frames[i].source)
                                \/ \E k \in Within(i) : Moves(k)
    BY <2>3 DEF ToAttach
  <2>5. supplied[p] = Units(Whole(amount[p]), Top.source)
    BY <1>1, <1>12, <2>1, <2>4
  <2>6. powers'[p].grants = Units(Whole(amount[p]), Top.source)
    <3>1. Before(None) = 0 /\ Whole(0) = 0 /\ Whole(amount[p]) \in Nat
      BY <1>2, WholeFacts DEF Before
    <3>2. ~(Whole(amount[p]) < Whole(0)) /\ Whole(amount[p]) - Whole(0) = Whole(amount[p])
      BY <3>1
    <3>3. Moved(<<>>, 0, amount[p], Top.source) = <<>> \o Units(Whole(amount[p]), Top.source)
      BY <3>2 DEF Moved
    <3>4. Units(Whole(amount[p]), Top.source) \in Seq(Sources)
      BY <1>1, <3>1, UnitsFacts DEF Grants
    <3>5. QED
      BY <1>6, <2>1, <2>2, <3>1, <3>3, <3>4, ConcatEmptySeq DEF Kept
  <2>7. QED
    BY <1>11, <1>13, <2>5, <2>6
<1>14. CASE q = p /\ Top.op = "AmountChange"
  <2>1. Old(Top) = Top.before /\ Old(Top) # None /\ Moves(Depth) /\ Before(Old(Top)) = Top.before
    BY <1>1, <1>9, <1>14, PowerConstants DEF Old, Moves, Before
  <2>2. p \in DOMAIN powers /\ powers[p].trusted /\ powers[p].observed = Top.before
    BY <1>6, <2>1 DEF Drifted
  <2>3. powers[p].owner = bearer[p]
    BY <1>7, <2>1, <2>2 DEF Refused
  <2>4. powers'[p].grants = Moved(powers[p].grants, powers[p].observed, amount[p], Top.source)
    BY <1>6, <2>1, <2>2 DEF Kept
  <2>5. powers[p].grants \in Grants
    BY <2>2 DEF Base, GoodPowers, GoodPower, PowerInfo
  <2>6. CASE Exact(p)
    <3>1. powers[p].observed = amount[p] /\ powers[p].grants = supplied[p]
      BY <2>2, <2>6 DEF Exact
    <3>2. powers'[p].grants = supplied[p]
      BY <1>1, <1>2, <2>4, <2>5, <3>1, MovedNowhere
    <3>3. QED
      BY <1>11, <1>14, <3>2
  <2>7. CASE ToRefuse(p)
    <3>1. PICK i \in Open(p) : Attaches(i)
      BY <2>7 DEF ToRefuse
    <3>2. i # Depth
      BY <1>1, <1>14, <3>1 DEF Attaches
    <3>3. i \in Open(p)' /\ frames'[i] = frames[i]
      BY <1>1, <1>3, <3>2, OpenFacts DEF Pops, Open
    <3>4. ToRefuse(p)'
      BY <1>2, <1>4, <1>6, <3>1, <3>3 DEF ToRefuse, Attaches
    <3>5. QED
      BY <1>14, <3>4 DEF Knows
  <2>8. CASE ToMove(p)
    <3>1. PICK i \in Open(p) :
            /\ \A k \in Within(i) : Moves(k) => frames[k].before # powers[p].observed
            /\ \/ supplied[p] = Moved(powers[p].grants, powers[p].observed, amount[p], frames[i].source)
               \/ \E k \in Within(i) : Moves(k)
      BY <2>8 DEF ToMove
    <3>2. i = Depth
      BY <1>1, <1>12, <2>1, <2>2, <3>1
    <3>3. supplied[p] = powers'[p].grants
      BY <1>1, <1>12, <2>4, <3>1, <3>2
    <3>4. QED
      BY <1>11, <1>14, <3>3
  <2>9. QED
    BY <1>4, <1>14, <2>2, <2>6, <2>7, <2>8 DEF Knows, ToRemove, ToAttach
<1>15. QED
  BY <1>1, <1>5, <1>10, <1>13, <1>14 DEF Operations

\* Three nested changes a -> b -> a -> b of one power look to the engine, which compares
\* amounts, like one; hence ~knotted.
AllKnown == ~failed /\ ~knotted => \A q \in Powers : Knows(q)

ExactInv == Base /\ Steady /\ AllKnown

LEMMA InitIsExact == CaptureInit => ExactInv
<1> SUFFICES ASSUME CaptureInit PROVE ExactInv
  OBVIOUS
<1>1. Base /\ Steady
  BY InitIsBase, InitIsSteady
<1>2. DOMAIN powers = {} /\ \A q \in Powers : bearer[q] = None
  BY DEF CaptureInit, Init
<1>3. QED
  BY <1>1, <1>2 DEF ExactInv, AllKnown, Knows, Exact

LEMMA FinalizerKeepsExact ==
  ASSUME ExactInv, NEW reads \in BOOLEAN, MutationFinalizer(reads)
  PROVE  Steady' /\ AllKnown'
<1>1. /\ frames # <<>> /\ Top.phase = "inside" /\ UNCHANGED <<powers, game, history>>
      /\ Unobserved \/ StartsRemoval \/ StartsReport \/ StaysAttached \/ Nothing
  BY FinalizerFacts DEF ExactInv
<1>2. /\ Base /\ Steady /\ Base'
      /\ Top \in Frame /\ Top.op \in Operations /\ Top.power \in Powers /\ Depth \in DOMAIN frames
      /\ frames[Depth] = Top
  BY <1>1, TopFacts, FinalizerKeepsBase DEF ExactInv
<1>3. \A q \in Powers : SamePower(q)
  BY <1>1 DEF SamePower, game
<1>4. CASE Unobserved
  BY <1>4 DEF Unobserved, Steady, AllKnown
<1>5. SUFFICES ASSUME ~Unobserved PROVE Steady' /\ AllKnown'
  BY <1>4
<1>6. failed' = failed
  BY <1>1, <1>5 DEF StartsRemoval, StartsReport, StaysAttached, Nothing
<1>7. ASSUME ~failed, ~knotted PROVE \A q \in Powers : Knows(q)
  BY <1>7 DEF ExactInv, AllKnown
<1>8. CASE StartsRemoval \/ StartsReport
  <2>1. CASE failed
    BY <1>6, <2>1 DEF Steady, AllKnown
  <2>2. CASE ~failed
    <3>1. NextStep(Top) = "reporting"
      BY <1>2, <2>2 DEF NextStep, Steady
    <3>2. PICK step \in {"reporting", "removing"} :
            /\ GoesOn([Top EXCEPT !.phase = step])
            /\ dirty' = [dirty EXCEPT ![Top.power] = TRUE]
            /\ \/ detached' = detached
               \/ bearer[Top.power] = None /\ \E s : detached' = [detached EXCEPT ![Top.power] = s]
      BY <1>8, <3>1 DEF StartsRemoval, StartsReport
    <3>3. Steady'
      BY <1>1, <1>2, <1>6, <3>2, GoOnKeepsSteady
    <3>4. AllKnown'
      BY <1>1, <1>2, <1>3, <1>6, <1>7, <3>2, GoOnKeepsKnows DEF AllKnown, history
    <3>5. QED
      BY <3>3, <3>4
  <2>3. QED
    BY <2>1, <2>2
<1>9. CASE StaysAttached \/ Nothing
  <2>1. Pops /\ dirty' = dirty /\ ShimOk'
        /\ (detached' = detached \/ detached' = [detached EXCEPT ![Top.power] = None])
        /\ (Top.op = "Removal" => detached' = [detached EXCEPT ![Top.power] = None] \/ bearer[Top.power] = None)
    BY <1>2, <1>9 DEF StaysAttached, Nothing, Base
  <2>2. ~failed => \A q \in Powers : ~dirty[q]
    BY <1>1, <1>2, OnlyTopIsDirty
  <2>3. /\ Top.op = "Attachment" => bearer[Top.power] = None \/ Top.was # None
        /\ Top.op = "AmountChange" => bearer[Top.power] = None \/ Top.was = None
        /\ Top.op = "Removal" => bearer[Top.power] # None \/ Top.was = None
    BY <1>9 DEF StaysAttached, Nothing, Changed
  <2>4. IF bearer[Top.power] = None THEN ~Removes(Depth) ELSE ~Attaches(Depth) /\ ~Moves(Depth)
    BY <1>2, <2>3 DEF Removes, Attaches, Moves
  <2>5. bearer[Top.power] = None \/ detached'[Top.power] = None \/ ~Owing(Depth)
    BY <1>2, <2>1, <2>3 DEF Owing, Base, ShimOk
  <2>6. \A q \in Powers : detached'[q] # None => detached[q] # None
    BY <1>2, <2>1 DEF Base, ShimOk
  <2>7. Steady'
    <3>1. CASE failed
      BY <1>6, <3>1 DEF Steady
    <3>2. CASE ~failed
      BY <1>1, <1>2, <1>6, <2>1, <2>2, <2>5, <2>6, <3>2, PopKeepsSteady
    <3>3. QED
      BY <3>1, <3>2
  <2>8. AllKnown'
    BY <1>1, <1>2, <1>3, <1>6, <1>7, <2>1, <2>4, PopKeepsKnows DEF AllKnown, history
  <2>9. QED
    BY <2>7, <2>8
<1>10. QED
  BY <1>1, <1>5, <1>8, <1>9

LEMMA ReportKeepsExact ==
  ASSUME ExactInv, Report
  PROVE  Steady' /\ AllKnown'
<1>1. /\ frames # <<>> /\ Top.phase = "reporting" /\ UNCHANGED <<game, history>>
      /\ bearer[Top.power] \in Creatures /\ Old(Top) \in Int \cup {None}
      /\ Reports \/ IsRefused \/ FailsOn
  BY ReportFacts DEF ExactInv
<1>2. Base /\ Steady /\ Base' /\ Top.power \in Powers
  BY <1>1, TopFacts, CallsKeepBase DEF ExactInv
<1>3. SUFFICES ASSUME ~failed', Reports PROVE Steady' /\ AllKnown'
  BY <1>1 DEF IsRefused, FailsOn, Steady, AllKnown
<1>4. ~failed
  BY <1>3 DEF Reports, Accept
<1>5. Steady'
  <2>1. Pops /\ dirty' = [dirty EXCEPT ![Top.power] = FALSE] /\ detached' = [detached EXCEPT ![Top.power] = None]
        /\ ShimOk' /\ ShimOk
    BY <1>2, <1>3 DEF Reports, Base
  <2>2. \A q \in Powers : dirty'[q] => dirty[q] /\ q # Top.power
    BY <1>2, <2>1 DEF ShimOk
  <2>3. /\ \A q \in Powers : detached'[q] # None => detached[q] # None
        /\ detached'[Top.power] = None
    BY <1>2, <2>1 DEF ShimOk
  <2>4. QED
    BY <1>1, <1>2, <1>3, <1>4, <2>1, <2>2, <2>3, PopKeepsSteady
<1>6. AllKnown'
  BY <1>1, <1>2, <1>3, <1>4, ReportKeepsKnows DEF AllKnown, ExactInv, history
<1>7. QED
  BY <1>5, <1>6

LEMMA RemovalKeepsExact ==
  ASSUME ExactInv, ReportRemoval
  PROVE  Steady' /\ AllKnown'
<1>1. /\ frames # <<>> /\ Top.phase = "removing" /\ UNCHANGED <<game, history>>
      /\ Forgets \/ GivesUp \/ FailsOn
  BY ReportRemovalFacts DEF ExactInv
<1>2. /\ Base /\ Steady /\ Base' /\ Top.power \in Powers /\ Top.op = "Removal"
      /\ bearer[Top.power] = None
  BY <1>1, TopFacts, CallsKeepBase DEF ExactInv, Base, NotesHold, Grounded
<1>3. SUFFICES ASSUME ~failed', Forgets PROVE Steady' /\ AllKnown'
  BY <1>1 DEF GivesUp, FailsOn, Steady, AllKnown
<1>4. ~failed /\ Pops /\ detached' = detached /\ dirty' = [dirty EXCEPT ![Top.power] = FALSE]
      /\ powers' = [q \in DOMAIN powers \ {Top.power} |-> powers[q]]
  BY <1>3 DEF Forgets
<1>5. Steady'
  <2>1. \A q \in Powers : dirty'[q] => dirty[q] /\ q # Top.power
    BY <1>2, <1>4 DEF Base, ShimOk
  <2>2. QED
    BY <1>1, <1>2, <1>4, <2>1, PopKeepsSteady DEF Base
<1>6. AllKnown'
  <2>1. SUFFICES ASSUME ~knotted', NEW q \in Powers PROVE Knows(q)'
    BY DEF AllKnown
  <2>2. Knows(q)
    BY <1>1, <1>4, <2>1 DEF ExactInv, AllKnown, history
  <2>3. CASE q = Top.power
    BY <1>1, <1>2, <1>4, <2>3 DEF Knows, Exact, game
  <2>4. CASE q # Top.power
    <3>1. SamePower(q)
      BY <1>1, <1>4, <2>4 DEF SamePower, game
    <3>2. QED
      BY <1>1, <1>2, <1>4, <2>2, <2>4, <3>1, PopKeepsKnows
  <2>5. QED
    BY <2>3, <2>4
<1>7. QED
  BY <1>5, <1>6

LEMMA StepKeepsExact == ExactInv /\ [CaptureNext]_captureVars => ExactInv'
<1> SUFFICES ASSUME ExactInv, [CaptureNext]_captureVars PROVE ExactInv'
  OBVIOUS
<1>1. Base /\ Steady /\ Base' /\ AllKnown
  BY StepKeepsBase DEF ExactInv
<1> SUFFICES Steady' /\ AllKnown'
  BY <1>1 DEF ExactInv
<1>2. ASSUME NEW op \in Operations, NEW p \in Powers, NEW s \in Inputs, NEW seen \in BOOLEAN,
             MutationPrefix(op, p, s, seen)
      PROVE  Steady' /\ AllKnown'
  <2>1. failed' = (failed \/ ~seen) /\ knotted' = (knotted \/ \E i, j \in Open(p) : i # j)
    BY <1>1, <1>2, PrefixFacts
  <2>2. AllKnown'
    <3>1. SUFFICES ASSUME ~failed', ~knotted', NEW q \in Powers PROVE Knows(q)'
      BY DEF AllKnown
    <3>2. Knows(q)
      BY <1>1, <2>1, <3>1 DEF AllKnown
    <3>3. QED
      BY <1>1, <1>2, <3>1, <3>2, PrefixKeepsKnows
  <2>3. QED
    BY <1>1, <1>2, <2>2, PrefixKeepsSteady
<1>3. CASE Original
  <2>1. failed' = failed /\ knotted' = knotted
    BY <1>1, <1>3, OriginalFacts DEF history
  <2>2. AllKnown'
    <3>1. SUFFICES ASSUME ~failed', ~knotted', NEW q \in Powers PROVE Knows(q)'
      BY DEF AllKnown
    <3>2. Knows(q)
      BY <1>1, <2>1, <3>1 DEF AllKnown
    <3>3. QED
      BY <1>1, <1>3, <2>1, <3>1, <3>2, OriginalKeepsKnows
  <2>3. QED
    BY <1>1, <1>3, <2>2, OriginalKeepsSteady
<1>4. ASSUME NEW reads \in BOOLEAN, MutationFinalizer(reads) PROVE Steady' /\ AllKnown'
  BY <1>4, FinalizerKeepsExact
<1>5. CASE ClearPriorDirty \/ Invalidate
  <2>1. frames # <<>> /\ Top.phase \in {"clearing", "failing"}
    BY <1>1, <1>5, ClearFacts, InvalidateFacts
  <2>2. failed
    BY <1>1, <2>1, TopFacts DEF Steady
  <2>3. failed'
    BY <1>1, <1>5, <2>2, ClearFacts, InvalidateFacts DEF Clears, FailsOn, Distrusts, GivesUp
  <2>4. QED
    BY <2>3 DEF Steady, AllKnown
<1>6. CASE Report
  BY <1>6, ReportKeepsExact
<1>7. CASE ReportRemoval
  BY <1>7, RemovalKeepsExact
<1>8. CASE Unseen
  BY <1>1, <1>8, UnseenFacts DEF Steady, AllKnown
<1>9. CASE UNCHANGED captureVars
  <2>1. UNCHANGED <<powers, failed, bearer, amount, supplied, dirty, detached, frames, knotted>>
    BY <1>9 DEF captureVars, vars, game, shim, history
  <2>2. Steady'
    BY <1>1, <2>1 DEF Steady, Open
  <2>3. \A q \in Powers : SamePower(q) /\ Open(q)' = Open(q) /\ \A i \in Open(q) : SameNote(i)
    BY <2>1 DEF SamePower, Open, SameNote, Attaches, Moves, Removes
  <2>4. AllKnown'
    BY <1>1, <2>1, <2>3, KnowsKept DEF AllKnown
  <2>5. QED
    BY <2>2, <2>4
<1>10. QED
  BY <1>1, <1>2, <1>3, <1>4, <1>5, <1>6, <1>7, <1>8, <1>9 DEF CaptureNext, ExactInv

\* CompleteMeansExact (the patches of ProvenanceCapture.cs around power.rs): however the
\* changes of the powers nest, throw, are skipped by other mods or fail to be reported, an
\* engine that was told of no failure knows every power that no change is in progress on: its
\* owner, its amount and the supplier of each of its stacks; for every number of powers,
\* creatures and roots and every depth, unless three changes of one power were nested.
THEOREM CompleteExportsAreExact == CaptureSpec => []CompleteMeansExact
<1>1. ExactInv => CompleteMeansExact
  <2>1. SUFFICES ASSUME ExactInv, ~failed, ~knotted, NEW p \in Powers, Quiet(p)
                 PROVE  /\ (p \in DOMAIN powers) = (bearer[p] # None)
                        /\ p \in DOMAIN powers =>
                             /\ powers[p].trusted /\ powers[p].owner = bearer[p]
                             /\ powers[p].observed = amount[p] /\ powers[p].grants = supplied[p]
                        /\ bearer[p] # None /\ supplied[p] # <<>> => Source(p) = Mixture(supplied[p])
    BY DEF CompleteMeansExact
  <2>2. Open(p) = {} /\ Knows(p)
    BY <2>1 DEF Quiet, ExactInv, AllKnown
  <2>3. Exact(p)
    BY <2>2 DEF Knows, ToRemove, ToAttach, ToRefuse, ToMove
  <2>4. ~dirty[p] /\ (bearer[p] # None => detached[p] = None)
    BY <2>1, <2>2 DEF ExactInv, Steady
  <2>5. ASSUME bearer[p] # None, supplied[p] # <<>> PROVE Source(p) = Mixture(supplied[p])
    <3>1. Source(p) = Captured(p) /\ p \in DOMAIN powers
      BY <2>3, <2>4, <2>5 DEF Source, Exact
    <3>2. powers[p].trusted /\ powers[p].grants = supplied[p] /\ powers[p].source = Mixture(supplied[p])
      BY <2>1, <2>3, <2>5, <3>1 DEF Exact, Trusts, ExactInv, Base, GoodPowers, GoodPower
    <3>3. QED
      BY <2>5, <3>1, <3>2 DEF Captured
  <2>6. QED
    BY <2>3, <2>5 DEF Exact, Trusts
<1>2. QED
  BY <1>1, InitIsExact, StepKeepsExact, PTL DEF CaptureSpec

(***************************************************************************)
(* Grants that are another's, but for stacks that became Unknown.          *)
(***************************************************************************)
----------------------------------------------------------------------------
(***************************************************************************)
(* After failures: a clean power's stacks are the ones supplied, or Unknown. *)
(***************************************************************************)
LEMMA UnknownIsBehind ==
  ASSUME NEW r \in Grants PROVE Behind(Units(Len(r), UnknownSource), r)
<1>1. Len(r) \in Nat
  BY LenProperties DEF Grants
<1>2. Len(Units(Len(r), UnknownSource)) = Len(r)
  BY <1>1, UnitsFacts, UnknownIsSource
<1>3. QED
  BY <1>2 DEF Behind, Units

LEMMA SettledIsBehind ==
  ASSUME NEW q \in Grants, NEW r \in Grants, Behind(q, r) PROVE Behind(Settled(q), r)
BY UnknownIsBehind DEF Settled, Behind

LEMMA FittedIsBehind ==
  ASSUME NEW q \in Grants, NEW r \in Grants, Behind(q, r), NEW p, NEW a, Len(r) = Whole(a)
  PROVE  Behind(Fitted(p, q, a), r)
BY UnknownIsBehind DEF Fitted

LEMMA MovedIsBehind ==
  ASSUME NEW q \in Grants, NEW r \in Grants, Behind(q, r), NEW before \in Int, NEW after \in Int,
         NEW s \in Sources, Len(r) = Whole(before)
  PROVE  Behind(Moved(q, before, after, s), Moved(r, before, after, s))
<1>1. /\ Whole(before) \in Nat /\ Whole(after) \in Nat /\ Len(q) = Len(r)
      /\ DOMAIN q = 1..Len(q) /\ DOMAIN r = 1..Len(r)
  BY WholeFacts, LenProperties DEF Grants, Behind
<1>2. CASE Whole(after) < Whole(before)
  <2>1. PICK n \in Nat : n = Whole(before) - Whole(after)
    BY <1>1, <1>2
  <2>2. /\ Moved(q, before, after, s) = Consume(q, n) /\ Moved(r, before, after, s) = Consume(r, n)
    BY <1>2, <2>1 DEF Moved
  <2>3. /\ Consume(q, n) \in Seq(Sources) /\ Consume(r, n) \in Seq(Sources)
        /\ Len(Consume(q, n)) = Whole(Len(q) - n) /\ Len(Consume(r, n)) = Whole(Len(r) - n)
        /\ \A i \in 1..(Len(q) - n) : Consume(q, n)[i] = q[i + n]
        /\ \A i \in 1..(Len(r) - n) : Consume(r, n)[i] = r[i + n]
    BY ConsumeFacts DEF Grants
  <2>4. Whole(Len(q) - n) = Len(q) - n
    BY <1>1, <1>2, <2>1 DEF Whole
  <2>5. DOMAIN Consume(q, n) = 1..(Len(q) - n)
    BY <2>3, <2>4, LenProperties
  <2>6. ASSUME NEW i \in 1..(Len(q) - n) PROVE i + n \in DOMAIN q
    BY <1>1, <2>1, <2>6
  <2>7. QED
    BY <1>1, <2>2, <2>3, <2>5, <2>6 DEF Behind
<1>3. CASE ~(Whole(after) < Whole(before))
  <2>1. PICK n \in Nat : n = Whole(after) - Whole(before)
    BY <1>1, <1>3
  <2>2. /\ Moved(q, before, after, s) = q \o Units(n, s) /\ Moved(r, before, after, s) = r \o Units(n, s)
    BY <1>3, <2>1 DEF Moved
  <2>3. /\ Units(n, s) \in Seq(Sources) /\ Len(Units(n, s)) = n
        /\ q \in Seq(Sources) /\ r \in Seq(Sources)
    BY UnitsFacts DEF Grants
  <2>4. /\ Len(q \o Units(n, s)) = Len(q) + n /\ Len(r \o Units(n, s)) = Len(r) + n
        /\ q \o Units(n, s) \in Seq(Sources)
        /\ \A i \in 1..(Len(q) + n) : (q \o Units(n, s))[i] = IF i <= Len(q) THEN q[i] ELSE Units(n, s)[i - Len(q)]
        /\ \A i \in 1..(Len(r) + n) : (r \o Units(n, s))[i] = IF i <= Len(r) THEN r[i] ELSE Units(n, s)[i - Len(r)]
    <3>1. ASSUME NEW u \in Seq(Sources), NEW v \in Seq(Sources)
          PROVE  /\ Len(u \o v) = Len(u) + Len(v) /\ u \o v \in Seq(Sources)
                 /\ \A i \in 1..(Len(u) + Len(v)) : (u \o v)[i] = IF i <= Len(u) THEN u[i] ELSE v[i - Len(u)]
      BY ConcatProperties
    <3>2. PICK u : u = Units(n, s)
      OBVIOUS
    <3>3. /\ Len(q \o u) = Len(q) + Len(u) /\ q \o u \in Seq(Sources)
          /\ \A i \in 1..(Len(q) + Len(u)) : (q \o u)[i] = IF i <= Len(q) THEN q[i] ELSE u[i - Len(q)]
      BY <2>3, <3>1, <3>2
    <3>4. /\ Len(r \o u) = Len(r) + Len(u)
          /\ \A i \in 1..(Len(r) + Len(u)) : (r \o u)[i] = IF i <= Len(r) THEN r[i] ELSE u[i - Len(r)]
      BY <2>3, <3>1, <3>2
    <3>5. Len(u) = n
      BY <2>3, <3>2
    <3>6. QED
      BY <3>2, <3>3, <3>4, <3>5
  <2>5. DOMAIN (q \o Units(n, s)) = 1..(Len(q) + n)
    BY <2>4, LenProperties
  <2>6. \A i \in 1..(Len(q) + n) : i <= Len(q) => i \in DOMAIN q
    BY <1>1
  <2>7. QED
    BY <1>1, <2>2, <2>4, <2>5, <2>6 DEF Behind
<1>4. QED
  BY <1>2, <1>3

\* Nobody has more stacks of his in grants that are behind.
LEMMA BehindCreditsLess ==
  ASSUME NEW q \in Grants, NEW r \in Grants, Behind(q, r), NEW s, s # UnknownSource
  PROVE  StacksFrom(q, s) <= StacksFrom(r, s)
<1> DEFINE Q == {i \in DOMAIN q : q[i] = s}
           R == {i \in DOMAIN r : r[i] = s}
<1>1. DOMAIN q = 1..Len(q) /\ DOMAIN r = 1..Len(r) /\ Len(r) \in Nat /\ Len(q) = Len(r)
  BY LenProperties DEF Grants, Behind
<1>2. Q \in SUBSET R /\ R \in SUBSET (1..Len(r))
  BY <1>1 DEF Behind
<1>3. IsFiniteSet(1..Len(r))
  BY <1>1, FS_Interval
<1>4. IsFiniteSet(R)
  BY <1>2, <1>3, FS_Subset
<1>5. Cardinality(Q) <= Cardinality(R)
  BY <1>2, <1>4, FS_Subset
<1>6. QED
  BY <1>5 DEF StacksFrom

(***************************************************************************)
(* The invariant.                                                          *)
(***************************************************************************)
LEMMA OtherLost ==
  ASSUME NEW f, NEW q, f.power = q, SamePower(q), dirty'[q] = dirty[q], Lost(f)
  PROVE  Lost(f)'
BY DEF Lost, SamePower, Alike

LEMMA GoOnKeepsCareful ==
  ASSUME Base, Careful, frames # <<>>, ~missed, NEW step, step # "inside",
         GoesOn([Top EXCEPT !.phase = step]), UNCHANGED game,
         dirty' \in [Powers -> BOOLEAN], dirty'[Top.power],
         \A q \in Powers : q # Top.power => dirty'[q] = dirty[q],
         DOMAIN powers' = DOMAIN powers,
         \A q \in DOMAIN powers : /\ powers'[q].grants = powers[q].grants
                                  /\ q # Top.power => powers'[q] = powers[q],
         step = "reporting" /\ Top.priorDirty /\ Top.power \in DOMAIN powers =>
           ~powers'[Top.power].trusted
  PROVE  Careful'
<1>1. /\ Top \in Frame /\ frames[Depth] = Top /\ Depth \in DOMAIN frames /\ Top.power \in Powers
      /\ DOMAIN frames = 1..Depth
  BY TopFacts
<1>2. PICK p : p = Top.power
  OBVIOUS
<1>3. PICK g : g = [Top EXCEPT !.phase = step]
  OBVIOUS
<1>4. /\ g.op = Top.op /\ g.power = p /\ g.seen = Top.seen /\ g.was = Top.was /\ g.before = Top.before
      /\ g.source = Top.source /\ g.priorDirty = Top.priorDirty /\ g.written = Top.written
      /\ g.phase = step
  BY <1>1, <1>2, <1>3 DEF Frame
<1>5. /\ DOMAIN frames' = DOMAIN frames /\ frames'[Depth] = g
      /\ \A i \in DOMAIN frames : i # Depth => frames'[i] = frames[i]
  BY <1>1, <1>3 DEF GoesOn
<1>6. \A i \in DOMAIN frames : i # Depth => frames[i].power # p
  <2>1. \A i, j \in Open(p) : i = j
    BY <1>1, <1>2 DEF Base, Stacked, OneAtMost
  <2>2. QED
    BY <1>1, <1>2, <2>1 DEF Open
<1>7. \A q \in Powers : q # p => SamePower(q) /\ dirty'[q] = dirty[q]
  BY <1>2 DEF SamePower, game
<1>8. \A q : Open(q)' = Open(q)
  BY <1>1, <1>2, <1>4, <1>5 DEF Open
<1>9. bearer'[p] = bearer[p] /\ amount'[p] = amount[p] /\ supplied'[p] = supplied[p]
      /\ dirty'[p] /\ (p \in DOMAIN powers' <=> p \in DOMAIN powers)
      /\ (p \in DOMAIN powers => powers'[p].grants = powers[p].grants)
      /\ (step = "reporting" /\ Top.priorDirty /\ p \in DOMAIN powers' => ~powers'[p].trusted)
  BY <1>2 DEF game
<1>10. Lost(g)'
  <2>1. Lost(Top)
    BY <1>1 DEF Careful
  <2>2. \/ ~(Top.seen /\ Top.op = "AmountChange" /\ bearer[p] # None)
        \/ \E q \in Grants :
             /\ Len(q) = Whole(Top.before)
             /\ supplied[p] = Moved(q, Top.before, amount[p], Top.source)
             /\ ~Top.priorDirty /\ p \in DOMAIN powers => Behind(powers[p].grants, q)
    BY <1>2, <2>1 DEF Lost
  <2>3. \/ ~(g.seen /\ g.op = "AmountChange" /\ bearer'[p] # None)
        \/ \E q \in Grants :
             /\ Len(q) = Whole(g.before)
             /\ supplied'[p] = Moved(q, g.before, amount'[p], g.source)
             /\ ~g.priorDirty /\ p \in DOMAIN powers' => Behind(powers'[p].grants, q)
    BY <1>4, <1>9, <2>2
  <2>4. /\ g.seen /\ g.op = "AmountChange" => g.was = bearer'[p]
        /\ g.written /\ g.op = "Attachment" => bearer'[p] # None
        /\ g.written /\ g.op = "Removal" => bearer'[p] = None
        /\ g.written /\ g.op = "Attachment" => supplied'[p] = Units(Whole(amount'[p]), g.source)
    BY <1>2, <1>4, <1>9, <2>1 DEF Lost
  <2>5. QED
    BY <1>4, <1>9, <2>3, <2>4 DEF Lost
<1>11. ASSUME NEW i \in DOMAIN frames' PROVE Lost(frames[i])'
  <2>1. CASE i = Depth
    <3>1. frames'[i] = g
      BY <1>5, <2>1
    <3>2. QED
      BY <1>10, <3>1 DEF Lost, Alike
  <2>2. CASE i # Depth
    <3>1. frames'[i] = frames[i] /\ i \in DOMAIN frames
      BY <1>5, <1>11, <2>2
    <3>2. PICK f \in Frame : f = frames[i]
      BY <1>1, <3>1, OpenFacts, StackFacts DEF Base, Stacked, FramesNest
    <3>3. f.power \in Powers /\ f.power # p /\ Lost(f)
      BY <1>6, <2>2, <3>1, <3>2 DEF Frame, Careful
    <3>4. Lost(f)'
      BY <1>7, <3>3, OtherLost
    <3>5. QED
      BY <3>1, <3>2, <3>4 DEF Lost, Alike
  <2>3. QED
    BY <2>1, <2>2
<1>12. ASSUME NEW q \in Powers, Open(q)' = {}, ~dirty'[q] PROVE Alike(q)'
  <2>1. q # p /\ Open(q) = {}
    BY <1>8, <1>9, <1>12
  <2>2. Alike(q)
    BY <1>7, <1>12, <2>1 DEF Careful, Quiet
  <2>3. QED
    BY <1>7, <2>1, <2>2 DEF Alike, SamePower
<1>13. QED
  BY <1>11, <1>12 DEF Careful, Quiet

LEMMA EndKeepsCareful ==
  ASSUME Base, Careful, frames # <<>>, ~missed, Pops, UNCHANGED game,
         \A q \in Powers : q # Top.power => SamePower(q) /\ dirty'[q] = dirty[q],
         NEW p, p = Top.power, ~dirty'[p] => Alike(p)'
  PROVE  Careful'
<1>1. /\ Top \in Frame /\ frames[Depth] = Top /\ Depth \in DOMAIN frames /\ Top.power \in Powers
      /\ DOMAIN frames = 1..Depth /\ Depth \in Nat
  BY TopFacts
<1>2. DOMAIN frames' \subseteq DOMAIN frames /\ Depth \notin DOMAIN frames'
      /\ (\A i \in DOMAIN frames' : frames'[i] = frames[i])
      /\ \A i \in DOMAIN frames : i # Depth => i \in DOMAIN frames'
  BY <1>1 DEF Pops
<1>3. \A i \in DOMAIN frames : i # Depth => frames[i].power # p
  <2>1. \A i, j \in Open(p) : i = j
    BY <1>1 DEF Base, Stacked, OneAtMost
  <2>2. QED
    BY <1>1, <2>1 DEF Open
<1>4. ASSUME NEW i \in DOMAIN frames' PROVE Lost(frames[i])'
  <2>1. frames'[i] = frames[i] /\ i \in DOMAIN frames /\ i # Depth
    BY <1>2, <1>4
  <2>2. PICK f \in Frame : f = frames[i]
    BY <1>1, <2>1, StackFacts DEF Base, Stacked, FramesNest
  <2>3. f.power \in Powers /\ f.power # p /\ Lost(f)
    BY <1>3, <2>1, <2>2 DEF Frame, Careful
  <2>4. Lost(f)'
    BY <2>3, OtherLost
  <2>5. QED
    BY <2>1, <2>2, <2>4 DEF Lost, Alike
<1>5. ASSUME NEW q \in Powers, Open(q)' = {}, ~dirty'[q] PROVE Alike(q)'
  <2>1. CASE q = p
    BY <1>5, <2>1
  <2>2. CASE q # p
    <3>1. Open(q) = {}
      BY <1>1, <1>2, <1>5, <2>2 DEF Open
    <3>2. Alike(q)
      BY <1>5, <2>2, <3>1 DEF Careful, Quiet
    <3>3. QED
      BY <2>2, <3>2 DEF Alike, SamePower
  <2>3. QED
    BY <2>1, <2>2
<1>6. QED
  BY <1>4, <1>5 DEF Careful, Quiet

LEMMA InitIsCareful == CaptureInit => Careful
<1> SUFFICES ASSUME CaptureInit PROVE Careful
  OBVIOUS
<1>1. DOMAIN frames = {} /\ DOMAIN powers = {}
  BY EmptySeq DEF CaptureInit, Init
<1>2. QED
  BY <1>1 DEF Careful, Alike

LEMMA PrefixKeepsCareful ==
  ASSUME Base, Careful, NEW op \in Operations, NEW p \in Powers, NEW s \in Inputs, NEW seen \in BOOLEAN,
         MutationPrefix(op, p, s, seen)
  PROVE  Careful'
<1>1. PICK f : f = Noted(op, p, s, seen)
  OBVIOUS
<1>2. /\ f.power = p /\ f.op = op /\ f.was = (IF seen THEN bearer[p] ELSE None) /\ f.seen = seen
      /\ f.before = (IF seen THEN amount[p] ELSE 0) /\ ~f.written /\ f.phase = "inside"
      /\ f.priorDirty = (seen /\ dirty[p])
  BY <1>1 DEF Noted
<1>3. /\ f \in Frame /\ Pushes(f) /\ UNCHANGED <<powers, game, dirty>>
      /\ missed' = (missed \/ Open(p) # {})
  BY <1>1, PrefixFacts
<1>4. SUFFICES ASSUME ~missed' PROVE Careful'
  BY DEF Careful
<1>5. ~missed /\ Open(p) = {} /\ \A q \in Powers : SamePower(q)
  BY <1>3, <1>4 DEF SamePower, game
<1>6. /\ \A i \in DOMAIN frames : frames'[i] = frames[i] /\ i \in DOMAIN frames'
      /\ frames'[Depth + 1] = f /\ \A i \in DOMAIN frames' : i = Depth + 1 \/ i \in DOMAIN frames
      /\ Depth + 1 \in DOMAIN frames'
  BY <1>3, OpenFacts DEF Pushes
<1>7. dirty[p] \in BOOLEAN /\ (~dirty[p] => Alike(p))
  BY <1>5 DEF Careful, Quiet, Base, ShimOk
<1>8. Alike(p)' <=> Alike(p)
  BY <1>5 DEF Alike, SamePower
<1>9. bearer[p] # None => /\ supplied[p] \in Grants /\ Len(supplied[p]) = Whole(amount[p])
                         /\ supplied[p] = Moved(supplied[p], amount[p], amount[p], f.source)
  <2>1. f.source \in Sources /\ amount[p] \in Int /\ supplied[p] \in Grants
    BY <1>3, AmountsAreInt DEF Frame, Base, GameOk
  <2>2. QED
    BY <2>1, MovedNowhere DEF Base, GameOk
<1>10. Lost(f)'
  <2>1. ASSUME seen, op = "AmountChange", bearer'[p] # None
        PROVE  \E q \in Grants :
             /\ Len(q) = Whole(f.before)
             /\ supplied'[p] = Moved(q, f.before, amount'[p], f.source)
             /\ ~f.priorDirty /\ p \in DOMAIN powers' => Behind(powers'[p].grants, q)
    <3>1. UNCHANGED <<powers, bearer, amount, supplied>>
      BY <1>3 DEF game
    <3>2. ~f.priorDirty /\ p \in DOMAIN powers => Behind(powers[p].grants, supplied[p])
      BY <1>2, <1>7, <2>1 DEF Alike
    <3>3. QED
      BY <1>2, <1>9, <2>1, <3>1, <3>2
  <2>2. bearer'[p] = bearer[p] /\ dirty'[p] = dirty[p]
    BY <1>3 DEF game
  <2>3. QED
    BY <1>2, <1>7, <1>8, <2>1, <2>2 DEF Lost
<1>11. ASSUME NEW i \in DOMAIN frames' PROVE Lost(frames[i])'
  <2>1. CASE i = Depth + 1
    BY <1>6, <1>10, <2>1 DEF Lost, Alike
  <2>2. CASE i \in DOMAIN frames
    <3>1. PICK g \in Frame : g = frames[i]
      BY <2>2, StackFacts DEF Base, Stacked, FramesNest
    <3>2. g.power \in Powers /\ Lost(g)
      BY <1>5, <2>2, <3>1 DEF Frame, Careful
    <3>3. Lost(g)'
      BY <1>3, <1>5, <3>2, OtherLost
    <3>4. frames'[i] = g
      BY <1>6, <2>2, <3>1
    <3>5. QED
      BY <3>3, <3>4 DEF Lost, Alike
  <2>3. QED
    BY <1>6, <1>11, <2>1, <2>2
<1>12. ASSUME NEW q \in Powers, Open(q)' = {}, ~dirty'[q] PROVE Alike(q)'
  <2>1. Open(q) = {} /\ ~dirty[q]
    BY <1>3, <1>6, <1>12 DEF Open
  <2>2. Alike(q)
    BY <1>5, <2>1 DEF Careful, Quiet
  <2>3. QED
    BY <1>5, <2>2 DEF Alike, SamePower
<1>13. QED
  BY <1>11, <1>12 DEF Careful, Quiet

LEMMA OriginalKeepsCareful == ASSUME Base, Careful, Original PROVE Careful'
<1>1. PICK p : p = Top.power
  OBVIOUS
<1>2. PICK g : g = [Top EXCEPT !.written = TRUE]
  OBVIOUS
<1>3. /\ frames # <<>> /\ Top.phase = "inside" /\ ~Top.written
      /\ GoesOn(g)
      /\ Write(Top.op, p, Top.source)
      /\ UNCHANGED <<powers, failed, dirty, detached, history>>
  BY <1>1, <1>2, OriginalFacts
<1>4. /\ Top \in Frame /\ Top.op \in Operations /\ p \in Powers /\ Top.source \in Sources
      /\ DOMAIN frames = 1..Depth /\ frames[Depth] = Top /\ Depth \in DOMAIN frames /\ Depth \in Nat
  BY <1>1, <1>3, TopFacts
<1>5. /\ g.op = Top.op /\ g.power = p /\ g.seen = Top.seen /\ g.was = Top.was /\ g.before = Top.before
      /\ g.source = Top.source /\ g.priorDirty = Top.priorDirty /\ g.written
      /\ g.phase = "inside"
  BY <1>1, <1>2, <1>3, <1>4 DEF Frame
<1>6. /\ \A r \in Powers : r # p => /\ bearer'[r] = bearer[r] /\ amount'[r] = amount[r]
                                    /\ supplied'[r] = supplied[r]
      /\ Top.op = "Attachment" =>
           /\ bearer[p] = None /\ bearer'[p] # None /\ amount'[p] = amount[p]
           /\ supplied'[p] = Units(Whole(amount[p]), Top.source)
      /\ Top.op = "AmountChange" =>
           /\ bearer'[p] = bearer[p]
           /\ supplied'[p] = IF bearer[p] = None THEN supplied[p]
                             ELSE Moved(supplied[p], amount[p], amount'[p], Top.source)
      /\ Top.op = "Removal" => /\ bearer[p] # None /\ bearer'[p] = None
                               /\ amount'[p] = amount[p] /\ supplied'[p] = supplied[p]
  BY <1>3, <1>4, WriteFacts DEF Base
<1>7. SUFFICES ASSUME ~missed PROVE Careful'
  BY <1>3 DEF Careful, history
<1>8. /\ DOMAIN frames' = DOMAIN frames /\ frames'[Depth] = g
      /\ \A i \in DOMAIN frames : i # Depth => frames'[i] = frames[i]
  BY <1>3, <1>4 DEF GoesOn
<1>9. \A i \in DOMAIN frames : i # Depth => frames[i].power # p
  <2>1. \A i, j \in Open(p) : i = j
    BY <1>4, <1>7 DEF Base, Stacked, OneAtMost
  <2>2. QED
    BY <1>1, <1>4, <2>1 DEF Open
<1>10. \A q \in Powers : q # p => SamePower(q) /\ dirty'[q] = dirty[q]
  BY <1>3, <1>6 DEF SamePower
<1>11. \A q : Open(q)' = Open(q)
  BY <1>1, <1>4, <1>5, <1>8 DEF Open
<1>12. Lost(Top) /\ Truthful(Top)
  BY <1>4, <1>7 DEF Careful, Base, NotesHold
<1>13. /\ ~dirty[p] => Alike(p)
       /\ Top.seen => dirty[p] = Top.priorDirty
       /\ Top.seen => Top.was = bearer[p] /\ Top.before = amount[p]
  BY <1>1, <1>3, <1>12 DEF Lost, Truthful
<1>14. UNCHANGED <<powers, dirty>>
  BY <1>3
<1>15. Lost(g)'
  <2>1. ASSUME bearer'[p] = None, g.op = "AmountChange", ~dirty'[p] PROVE Alike(p)'
    <3>1. bearer[p] = None /\ Alike(p)
      BY <1>5, <1>6, <1>13, <1>14, <2>1
    <3>2. QED
      BY <1>14, <3>1 DEF Alike
  <2>2. ASSUME g.seen, g.op = "AmountChange", bearer'[p] # None
        PROVE  \E q \in Grants :
             /\ Len(q) = Whole(g.before)
             /\ supplied'[p] = Moved(q, g.before, amount'[p], g.source)
             /\ ~g.priorDirty /\ p \in DOMAIN powers' => Behind(powers'[p].grants, q)
    <3>1. bearer[p] # None /\ supplied'[p] = Moved(supplied[p], amount[p], amount'[p], Top.source)
      BY <1>5, <1>6, <2>2
    <3>2. supplied[p] \in Grants /\ Len(supplied[p]) = Whole(amount[p])
      BY <1>4, <3>1 DEF Base, GameOk
    <3>3. ~g.priorDirty /\ p \in DOMAIN powers => Behind(powers[p].grants, supplied[p])
      BY <1>5, <1>13, <2>2 DEF Alike
    <3>4. QED
      BY <1>5, <1>13, <1>14, <2>2, <3>1, <3>2, <3>3
  <2>3. /\ g.seen /\ g.op = "AmountChange" => g.was = bearer'[p]
        /\ g.op = "Attachment" => bearer'[p] # None
        /\ g.op = "Removal" => bearer'[p] = None
        /\ g.op = "Attachment" => supplied'[p] = Units(Whole(amount'[p]), g.source)
        /\ g.seen => dirty'[p] = g.priorDirty
    BY <1>5, <1>6, <1>13, <1>14
  <2>4. QED
    BY <1>5, <2>1, <2>2, <2>3 DEF Lost
<1>16. ASSUME NEW i \in DOMAIN frames' PROVE Lost(frames[i])'
  <2>1. CASE i = Depth
    BY <1>8, <1>15, <2>1 DEF Lost, Alike
  <2>2. CASE i # Depth
    <3>1. frames'[i] = frames[i] /\ i \in DOMAIN frames
      BY <1>8, <1>16, <2>2
    <3>2. PICK f \in Frame : f = frames[i]
      BY <3>1, StackFacts DEF Base, Stacked, FramesNest
    <3>3. f.power \in Powers /\ f.power # p /\ Lost(f)
      BY <1>7, <1>9, <2>2, <3>1, <3>2 DEF Frame, Careful
    <3>4. Lost(f)'
      BY <1>10, <3>3, OtherLost
    <3>5. QED
      BY <3>1, <3>2, <3>4 DEF Lost, Alike
  <2>3. QED
    BY <2>1, <2>2
<1>17. ASSUME NEW q \in Powers, Open(q)' = {}, ~dirty'[q] PROVE Alike(q)'
  <2>1. q # p /\ Open(q) = {}
    <3>1. Open(q) = {}
      BY <1>11, <1>17
    <3>2. Depth \in Open(p)
      BY <1>1, <1>4 DEF Open
    <3>3. QED
      BY <3>1, <3>2
  <2>2. Quiet(q) /\ ~dirty[q]
    BY <1>10, <1>17, <2>1 DEF Quiet
  <2>3. Alike(q)
    BY <1>7, <1>17, <2>2 DEF Careful
  <2>4. QED
    BY <1>10, <1>17, <2>1, <2>3 DEF Alike, SamePower
<1>18. QED
  BY <1>16, <1>17 DEF Careful, Quiet

LEMMA FinalizerKeepsCareful ==
  ASSUME Base, Careful, NEW reads \in BOOLEAN, MutationFinalizer(reads)
  PROVE  Careful'
<1>1. /\ frames # <<>> /\ Top.phase = "inside" /\ UNCHANGED <<powers, game, history>>
      /\ Unobserved \/ StartsRemoval \/ StartsReport \/ StaysAttached \/ Nothing
  BY FinalizerFacts
<1>2. PICK p : p = Top.power
  OBVIOUS
<1>3. /\ Top \in Frame /\ Top.op \in Operations /\ p \in Powers /\ frames[Depth] = Top
      /\ Depth \in DOMAIN frames
  BY <1>1, <1>2, TopFacts
<1>4. SUFFICES ASSUME ~missed PROVE Careful'
  BY <1>1 DEF Careful, history
<1>5. CASE Unobserved \/ StartsRemoval \/ StartsReport
  <2>1. PICK step : /\ GoesOn([Top EXCEPT !.phase = step]) /\ step # "inside"
                    /\ step = "reporting" => ~Top.priorDirty
    <3>1. CASE Unobserved
      <4>1. GoesOn([Top EXCEPT !.phase = "failing"])
        BY <3>1 DEF Unobserved
      <4>2. QED
        BY <4>1
    <3>2. CASE StartsRemoval
      <4>1. GoesOn([Top EXCEPT !.phase = "removing"])
        BY <3>2 DEF StartsRemoval
      <4>2. QED
        BY <4>1
    <3>3. CASE StartsReport
      <4>1. GoesOn([Top EXCEPT !.phase = NextStep(Top)])
        BY <3>3 DEF StartsReport
      <4>2. NextStep(Top) # "inside" /\ (NextStep(Top) = "reporting" => ~Top.priorDirty)
        BY DEF NextStep
      <4>3. QED
        BY <4>1, <4>2
    <3>4. QED
      BY <1>5, <3>1, <3>2, <3>3
  <2>2. dirty' = [dirty EXCEPT ![p] = TRUE]
    BY <1>2, <1>5 DEF Unobserved, StartsRemoval, StartsReport
  <2>3. dirty' \in [Powers -> BOOLEAN] /\ dirty'[p] /\ \A q \in Powers : q # p => dirty'[q] = dirty[q]
    BY <1>3, <2>2 DEF Base, ShimOk
  <2>4. QED
    BY <1>1, <1>2, <1>4, <2>1, <2>3, GoOnKeepsCareful
<1>6. CASE StaysAttached \/ Nothing
  <2>1. Pops /\ dirty' = dirty
    BY <1>6 DEF StaysAttached, Nothing
  <2>2. Lost(Top) /\ Truthful(Top)
    BY <1>3, <1>4 DEF Careful, Base, NotesHold
  <2>3. ~Top.written \/ (bearer[p] = None /\ Top.op = "AmountChange")
    BY <1>2, <1>3, <1>6, <2>2 DEF StaysAttached, Nothing, Changed, Lost, Truthful, Operations
  <2>4. ~dirty[p] => Alike(p)
    BY <1>2, <2>2, <2>3 DEF Lost
  <2>5. \A q \in Powers : SamePower(q)
    BY <1>1 DEF SamePower, game
  <2>6. ~dirty'[p] => Alike(p)'
    BY <1>3, <2>1, <2>4, <2>5 DEF Alike, SamePower
  <2>7. QED
    BY <1>1, <1>2, <1>4, <2>1, <2>5, <2>6, EndKeepsCareful
<1>7. QED
  BY <1>1, <1>5, <1>6

\* What an accepted report makes of the power, whatever it loses.
NewGrants(p, old, new, s) == Settled(Fitted(p, Moved(Held(p, old), Before(old), new, s), new))

ComesTo(p, old, new, s) ==
  /\ \A q \in DOMAIN powers : q # p => powers'[q] = powers[q]
  /\ DOMAIN powers' = DOMAIN powers \cup {p}
  /\ powers'[p].grants = NewGrants(p, old, new, s)

LEMMA AcceptedSomehow ==
  ASSUME NEW p, NEW owner, NEW old, NEW new, NEW s, Accept(p, owner, old, new, s)
  PROVE  ComesTo(p, old, new, s)
<1> DEFINE grants == NewGrants(p, old, new, s)
           after  == [owner |-> owner, observed |-> new, grants |-> grants,
                      source |-> Refreshed(grants, HeldSource(p, old, s)), trusted |-> TRUE]
<1>1. powers' = [q \in DOMAIN powers \cup {p} |-> IF q = p THEN after ELSE powers[q]]
  BY DEF Accept, NewGrants
<1>2. after.grants = grants
  OBVIOUS
<1> HIDE DEF after, grants
<1>3. QED
  BY <1>1, <1>2 DEF grants, ComesTo

LEMMA ReportedIsBehind ==
  ASSUME Base, NEW p \in Powers, NEW owner, NEW old \in Int \cup {None}, NEW s \in Sources,
         Accept(p, owner, old, amount[p], s), bearer[p] # None,
         Behind(Moved(Held(p, old), Before(old), amount[p], s), supplied[p])
  PROVE  Behind(powers'[p].grants, supplied[p])
<1>1. PICK m : m = Moved(Held(p, old), Before(old), amount[p], s)
  OBVIOUS
<1>2. amount[p] \in Int /\ supplied[p] \in Grants /\ Len(supplied[p]) = Whole(amount[p])
  BY AmountsAreInt DEF Base, GameOk
<1>3. /\ Before(old) \in Int /\ Held(p, old) \in Grants
      /\ Len(Held(p, old)) <= Whole(Before(old))
  BY HeldFacts DEF Base
<1>4. m \in Grants /\ Len(m) <= Whole(amount[p])
  BY <1>1, <1>2, <1>3, MovedFacts
<1>5. Behind(m, supplied[p])
  BY <1>1
<1>6. PICK f : f = Fitted(p, m, amount[p])
  OBVIOUS
<1>7. f \in Grants /\ Behind(f, supplied[p])
  BY <1>2, <1>4, <1>5, <1>6, FittedFacts, FittedIsBehind DEF Base
<1>8. powers'[p].grants = Settled(f)
  <2>1. PICK a : a = amount[p]
    OBVIOUS
  <2>2. Accept(p, owner, old, a, s)
    BY <2>1
  <2>3. ComesTo(p, old, a, s)
    BY <2>2, AcceptedSomehow
  <2>4. QED
    BY <1>1, <1>6, <2>1, <2>3 DEF ComesTo, NewGrants
<1>9. QED
  BY <1>2, <1>7, <1>8, SettledIsBehind

LEMMA ReportKeepsCareful ==
  ASSUME Base, Careful, ~missed, frames # <<>>, Top.phase = "reporting", UNCHANGED <<game, history>>,
         bearer[Top.power] \in Creatures, Old(Top) \in Int \cup {None}, Reports
  PROVE  Careful'
<1>0. PICK p : p = Top.power
  OBVIOUS
<1>1. PICK old \in Int \cup {None}, s \in Sources : old = Old(Top) /\ s = Top.source
  BY TopFacts
<1>2. /\ Top \in Frame /\ frames[Depth] = Top /\ Depth \in DOMAIN frames /\ p \in Powers
      /\ Top.op \in Operations /\ Top.before \in Int /\ old \in Int \cup {None} /\ s \in Sources
  BY <1>0, <1>1, TopFacts, AmountsAreInt
<1>3. /\ Accept(p, bearer[p], old, amount[p], s) /\ Pops
      /\ dirty' = [dirty EXCEPT ![p] = FALSE]
  BY <1>0, <1>1 DEF Reports
<1>4. bearer[p] # None
  BY <1>0, CaptureConstants
<1>5. /\ Lost(Top) /\ Truthful(Top) /\ Top.seen /\ Top.op # "Removal" /\ Changed(Top)
  BY <1>2 DEF Careful, Base, NotesHold, Grounded
<1>6. /\ amount[p] \in Int /\ supplied[p] \in Grants /\ Len(supplied[p]) = Whole(amount[p])
  BY <1>2, <1>4, AmountsAreInt DEF Base, GameOk
<1>7. Behind(Moved(Held(p, old), Before(old), amount[p], s), supplied[p])
  <2>1. CASE Top.op = "Attachment"
    <3>1. old = None /\ Top.was = None /\ Top.written
      BY <1>0, <1>1, <1>4, <1>5, <2>1 DEF Old, Changed, Truthful
    <3>2. supplied[p] = Units(Whole(amount[p]), s)
      BY <1>0, <1>1, <1>5, <2>1, <3>1 DEF Lost
    <3>3. p \notin DOMAIN powers
      BY <1>3, <3>1 DEF Accept, Refused
    <3>4. Held(p, old) = <<>> /\ Before(old) = 0
      BY <3>1, <3>3 DEF Held, Drifted, Before
    <3>5. Whole(0) = 0 /\ Whole(amount[p]) \in Nat
      BY <1>6, WholeFacts DEF Whole
    <3>6. ~(Whole(amount[p]) < Whole(0)) /\ Whole(amount[p]) - Whole(0) = Whole(amount[p])
      BY <3>5
    <3>7. Moved(<<>>, 0, amount[p], s) = <<>> \o Units(Whole(amount[p]), s)
      BY <3>6 DEF Moved
    <3>8. Units(Whole(amount[p]), s) \in Seq(Sources)
      BY <1>2, <3>5, UnitsFacts DEF Grants
    <3>9. Moved(Held(p, old), Before(old), amount[p], s) = supplied[p]
      BY <3>2, <3>4, <3>7, <3>8, ConcatEmptySeq
    <3>10. QED
      BY <3>9 DEF Behind
  <2>2. CASE Top.op = "AmountChange"
    <3>1. old = Top.before /\ old # None /\ Before(old) = Top.before
      BY <1>1, <1>2, <2>2, PowerConstants DEF Old, Before
    <3>2. PICK q \in Grants :
            /\ Len(q) = Whole(Top.before)
            /\ supplied[p] = Moved(q, Top.before, amount[p], s)
            /\ ~Top.priorDirty /\ p \in DOMAIN powers => Behind(powers[p].grants, q)
      BY <1>0, <1>1, <1>4, <1>5, <2>2 DEF Lost
    <3>3. Behind(Held(p, old), q)
      <4>1. CASE Drifted(p, old)
        <5>1. Held(p, old) = Units(Len(q), UnknownSource)
          BY <3>1, <3>2, <4>1 DEF Held
        <5>2. QED
          BY <3>2, <5>1, UnknownIsBehind
      <4>2. CASE ~Drifted(p, old)
        <5>1. p \in DOMAIN powers /\ powers[p].trusted /\ Held(p, old) = powers[p].grants
          BY <3>1, <4>2 DEF Held, Drifted
        <5>2. Top.priorDirty \in BOOLEAN /\ ~Top.priorDirty
          BY <1>0, <1>2, <1>5, <5>1 DEF Lost, Frame
        <5>3. QED
          BY <3>2, <5>1, <5>2
      <4>3. QED
        BY <4>1, <4>2
    <3>4. Held(p, old) \in Grants
      BY <1>2, HeldFacts DEF Base
    <3>5. QED
      BY <1>2, <1>6, <3>1, <3>2, <3>3, <3>4, MovedIsBehind
  <2>3. QED
    BY <1>2, <1>5, <2>1, <2>2 DEF Operations
<1>8. Behind(powers'[p].grants, supplied[p])
  BY <1>2, <1>3, <1>4, <1>7, ReportedIsBehind
<1>9. Alike(p)'
  BY <1>4, <1>8 DEF Alike, game
<1>10. \A q \in Powers : q # p => SamePower(q) /\ dirty'[q] = dirty[q]
  <2>1. \A q \in DOMAIN powers : q # p => powers'[q] = powers[q]
    BY <1>3, AcceptedSomehow DEF ComesTo
  <2>2. DOMAIN powers' = DOMAIN powers \cup {p}
    BY <1>3, AcceptedSomehow DEF ComesTo
  <2>3. QED
    BY <1>3, <2>1, <2>2 DEF SamePower, game, Base, ShimOk
<1>11. QED
  BY <1>0, <1>3, <1>9, <1>10, EndKeepsCareful

LEMMA DistrustFacts ==
  ASSUME GoodPowers(powers), NEW p
  PROVE  /\ DOMAIN Distrusted(p) = DOMAIN powers
         /\ \A q \in DOMAIN powers : /\ Distrusted(p)[q].grants = powers[q].grants
                                     /\ q # p => Distrusted(p)[q] = powers[q]
         /\ p \in DOMAIN powers => ~Distrusted(p)[p].trusted
<1>1. \A q \in DOMAIN powers : powers[q] \in PowerInfo
  BY DEF GoodPowers, GoodPower
<1>2. QED
  BY <1>1 DEF Distrusted, PowerInfo

\* A call that goes on, with the power as it was or distrusted.
LEMMA FailingKeepsCareful ==
  ASSUME Base, Careful, ~missed, frames # <<>>, Top.phase # "inside", UNCHANGED <<game, history>>,
         \/ FailsOn \/ IsRefused \/ Clears
  PROVE  Careful'
<1>1. Top.power \in Powers /\ Lost(Top)
  BY TopFacts DEF Careful
<1>2. dirty' = dirty /\ dirty \in [Powers -> BOOLEAN] /\ dirty[Top.power]
  BY <1>1 DEF Lost, FailsOn, IsRefused, Clears, Base, ShimOk
<1>3. CASE FailsOn
  BY <1>2, <1>3, GoOnKeepsCareful DEF FailsOn
<1>4. CASE IsRefused \/ Clears
  <2>1. powers' = Distrusted(Top.power)
    BY <1>4 DEF IsRefused, Clears
  <2>2. /\ DOMAIN powers' = DOMAIN powers
        /\ \A q \in DOMAIN powers : /\ powers'[q].grants = powers[q].grants
                                    /\ q # Top.power => powers'[q] = powers[q]
        /\ Top.power \in DOMAIN powers => ~powers'[Top.power].trusted
    BY <2>1, DistrustFacts DEF Base
  <2>3. CASE GoesOn([Top EXCEPT !.phase = "failing"])
    BY <1>2, <2>2, <2>3, GoOnKeepsCareful
  <2>4. CASE GoesOn([Top EXCEPT !.phase = "reporting"])
    BY <1>2, <2>2, <2>4, GoOnKeepsCareful
  <2>5. QED
    BY <1>4, <2>3, <2>4 DEF IsRefused, Clears
<1>5. QED
  BY <1>3, <1>4

\* A call that ends with the power forgotten, or left dirty.
LEMMA ClosingKeepsCareful ==
  ASSUME Base, Careful, ~missed, frames # <<>>, Top.phase # "inside", UNCHANGED <<game, history>>,
         \/ Forgets \/ GivesUp \/ Distrusts
  PROVE  Careful'
<1>0. PICK p : p = Top.power
  OBVIOUS
<1>1. p \in Powers /\ Lost(Top)
  BY <1>0, TopFacts DEF Careful
<1>2. dirty \in [Powers -> BOOLEAN] /\ dirty[p]
  BY <1>0, <1>1 DEF Lost, Base, ShimOk
<1>3. CASE Forgets
  <2>1. Alike(p)' /\ \A q \in Powers : q # p => SamePower(q) /\ dirty'[q] = dirty[q]
    BY <1>0, <1>2, <1>3 DEF Forgets, Alike, SamePower, game
  <2>2. QED
    BY <1>0, <1>3, <2>1, EndKeepsCareful DEF Forgets
<1>4. CASE GivesUp
  <2>1. dirty'[p] /\ \A q \in Powers : q # p => SamePower(q) /\ dirty'[q] = dirty[q]
    BY <1>0, <1>2, <1>4 DEF GivesUp, SamePower, game
  <2>2. QED
    BY <1>0, <1>4, <2>1, EndKeepsCareful DEF GivesUp
<1>5. CASE Distrusts
  <2>1. powers' = Distrusted(p) /\ dirty' = dirty
    BY <1>0, <1>5 DEF Distrusts
  <2>2. dirty'[p] /\ \A q \in Powers : q # p => SamePower(q) /\ dirty'[q] = dirty[q]
    BY <1>2, <2>1, DistrustFacts DEF SamePower, game, Base
  <2>3. QED
    BY <1>0, <1>5, <2>2, EndKeepsCareful DEF Distrusts
<1>6. QED
  BY <1>3, <1>4, <1>5

\* The engine knows of no power that the game does not have.
OnlyPowers == DOMAIN powers \subseteq Powers

LEMMA StepKeepsOnlyPowers == Base /\ OnlyPowers /\ [CaptureNext]_captureVars => OnlyPowers'
<1> SUFFICES ASSUME Base, OnlyPowers, [CaptureNext]_captureVars PROVE OnlyPowers'
  OBVIOUS
<1>1. ASSUME frames # <<>>, \/ FailsOn \/ IsRefused \/ Clears \/ Forgets \/ GivesUp \/ Distrusts PROVE OnlyPowers'
  BY <1>1, DistrustFacts DEF FailsOn, IsRefused, Clears, Forgets, GivesUp, Distrusts, OnlyPowers, Base
<1>2. ASSUME frames # <<>>, Reports PROVE OnlyPowers'
  <2>1. Accept(Top.power, bearer[Top.power], Old(Top), amount[Top.power], Top.source)
    BY <1>2 DEF Reports
  <2>2. DOMAIN powers' = DOMAIN powers \cup {Top.power}
    BY <2>1, AcceptedSomehow DEF ComesTo
  <2>3. QED
    BY <1>2, <2>2, TopFacts DEF OnlyPowers
<1>3. ASSUME UNCHANGED powers PROVE OnlyPowers'
  BY <1>3 DEF OnlyPowers
<1>4. ASSUME NEW op \in Operations, NEW p \in Powers, NEW s \in Inputs, NEW seen \in BOOLEAN,
             MutationPrefix(op, p, s, seen)
      PROVE  OnlyPowers'
  BY <1>3, <1>4, PrefixFacts
<1>5. ASSUME NEW reads \in BOOLEAN, MutationFinalizer(reads) PROVE OnlyPowers'
  BY <1>3, <1>5, FinalizerFacts
<1>6. CASE Original \/ Unseen
  BY <1>3, <1>6, OriginalFacts, UnseenFacts
<1>7. CASE ClearPriorDirty \/ Report \/ ReportRemoval \/ Invalidate
  BY <1>1, <1>2, <1>7, ClearFacts, ReportFacts, ReportRemovalFacts, InvalidateFacts
<1>8. CASE UNCHANGED captureVars
  BY <1>3, <1>8 DEF captureVars, vars
<1>9. QED
  BY <1>4, <1>5, <1>6, <1>7, <1>8 DEF CaptureNext

CarefulInv == Base /\ OnlyPowers /\ Careful

LEMMA StepKeepsCareful == CarefulInv /\ [CaptureNext]_captureVars => CarefulInv'
<1> SUFFICES ASSUME CarefulInv, [CaptureNext]_captureVars PROVE CarefulInv'
  OBVIOUS
<1>1. Base /\ Careful /\ Base' /\ OnlyPowers'
  BY StepKeepsBase, StepKeepsOnlyPowers DEF CarefulInv
<1> SUFFICES Careful'
  BY <1>1 DEF CarefulInv
<1>2. ASSUME NEW op \in Operations, NEW p \in Powers, NEW s \in Inputs, NEW seen \in BOOLEAN,
             MutationPrefix(op, p, s, seen)
      PROVE  Careful'
  BY <1>1, <1>2, PrefixKeepsCareful
<1>3. CASE Original
  BY <1>1, <1>3, OriginalKeepsCareful
<1>4. ASSUME NEW reads \in BOOLEAN, MutationFinalizer(reads) PROVE Careful'
  BY <1>1, <1>4, FinalizerKeepsCareful
<1>5. CASE missed /\ (ClearPriorDirty \/ Report \/ ReportRemoval \/ Invalidate)
  <2>1. missed' = missed
    BY <1>1, <1>5, ClearFacts, ReportFacts, ReportRemovalFacts, InvalidateFacts DEF history
  <2>2. QED
    BY <1>5, <2>1 DEF Careful
<1>6. CASE ~missed /\ ClearPriorDirty
  BY <1>1, <1>6, ClearFacts, FailingKeepsCareful
<1>7. CASE ~missed /\ Report
  <2>1. /\ frames # <<>> /\ Top.phase = "reporting" /\ UNCHANGED <<game, history>>
        /\ bearer[Top.power] \in Creatures /\ Old(Top) \in Int \cup {None}
        /\ Reports \/ IsRefused \/ FailsOn
    BY <1>1, <1>7, ReportFacts
  <2>2. QED
    BY <1>1, <1>7, <2>1, ReportKeepsCareful, FailingKeepsCareful
<1>8. CASE ~missed /\ ReportRemoval
  BY <1>1, <1>8, ReportRemovalFacts, ClosingKeepsCareful, FailingKeepsCareful
<1>9. CASE ~missed /\ Invalidate
  BY <1>1, <1>9, InvalidateFacts, ClosingKeepsCareful
<1>10. CASE Unseen
  BY <1>1, <1>10, UnseenFacts DEF Careful
<1>11. CASE UNCHANGED captureVars
  BY <1>1, <1>11 DEF captureVars, vars, game, shim, history, Careful, Lost, Alike, Quiet, Open
<1>12. QED
  BY <1>2, <1>3, <1>4, <1>5, <1>6, <1>7, <1>8, <1>9, <1>10, <1>11 DEF CaptureNext

\* NeverOverCredits (the Dirty mark and the invalidation before the next report,
\* ProvenanceCapture.cs:165-199): also after any number of failed or refused native calls, the
\* stacks of a power that the shim calls clean are each known to come from the one who
\* supplied it, or from Unknown, unless changes escaped the patches or were nested.
THEOREM SuppliersAreNotOverCredited == CaptureSpec => []NeverOverCredits
<1>1. CarefulInv => NeverOverCredits
  <2>1. SUFFICES ASSUME CarefulInv, ~missed, NEW p \in DOMAIN powers, Quiet(p), ~dirty[p],
                        NEW s \in Sources \ {UnknownSource}
                 PROVE  StacksFrom(powers[p].grants, s) <= StacksFrom(supplied[p], s)
    BY DEF NeverOverCredits
  <2>2. p \in Powers /\ Base /\ Alike(p)
    BY <2>1 DEF CarefulInv, OnlyPowers, Careful
  <2>3. Behind(powers[p].grants, supplied[p]) /\ powers[p].grants \in Grants /\ supplied[p] \in Grants
    BY <2>1, <2>2 DEF Alike, Base, GameOk, GoodPowers, GoodPower, PowerInfo
  <2>4. QED
    BY <2>1, <2>3, BehindCreditsLess
<1>2. CaptureInit => CarefulInv
  BY InitIsBase, InitIsCareful DEF CarefulInv, OnlyPowers, CaptureInit, Init
<1>3. QED
  BY <1>1, <1>2, StepKeepsCareful, PTL DEF CaptureSpec

----------------------------------------------------------------------------
(***************************************************************************)
(* Reductions of Strength.  An entry whose amount may be 0: what a rise    *)
(* leaves before the empty entries go.                                     *)
(***************************************************************************)
Entry == [power : Powers, creature : Creatures, amount : Nat, source : Sources]

\* What holds at 0 and at each next number up to n holds up to n.
LEMMA UpTo ==
  ASSUME NEW T, NEW n \in Nat, 0 \in T, \A k \in 0..(n - 1) : k \in T => k + 1 \in T
  PROVE  0..n \subseteq T
<1>1. SUFFICES ASSUME (0..n) \ T # {} PROVE FALSE
  OBVIOUS
<1>2. PICK m \in (0..n) \ T : \A k \in (0..n) \ T : m <= k
  <2>1. (0..n) \ T \in SUBSET Nat
    OBVIOUS
  <2>2. QED
    BY <1>1, <2>1, MinIsMember
<1>3. m # 0 /\ m - 1 \in 0..(n - 1) /\ m - 1 \notin (0..n) \ T
  BY <1>2
<1>4. m - 1 \in T
  BY <1>3
<1>5. (m - 1) + 1 = m
  BY <1>2
<1>6. QED
  BY <1>2, <1>3, <1>4, <1>5

LEMMA EntriesFacts ==
  ASSUME NEW rs \in Seq(Entry)
  PROVE  /\ Len(rs) \in Nat /\ DOMAIN rs = 1..Len(rs)
         /\ \A i \in DOMAIN rs : rs[i] \in Entry /\ rs[i].amount \in Nat
<1>1. Len(rs) \in Nat /\ DOMAIN rs = 1..Len(rs) /\ \A i \in 1..Len(rs) : rs[i] \in Entry
  BY LenProperties, ElementOfSeq
<1>2. QED
  BY <1>1 DEF Entry

\* What entry i adds at the given places; the sums of what the entries up to each add.
Worth(rs, places, i) == IF i \in places THEN rs[i].amount ELSE 0

Sums(f, rs, places, n) ==
  f = [i \in 0..n |-> IF i = 0 THEN 0 ELSE f[i - 1] + (IF i \in places THEN rs[i].amount ELSE 0)]

LEMMA SumsFacts ==
  ASSUME NEW f, NEW rs, NEW places, NEW n \in Nat, Sums(f, rs, places, n)
  PROVE  f[0] = 0 /\ \A i \in 1..n : f[i] = f[i - 1] + Worth(rs, places, i)
<1> DEFINE F(i) == IF i = 0 THEN 0 ELSE f[i - 1] + (IF i \in places THEN rs[i].amount ELSE 0)
<1>1. f = [i \in 0..n |-> F(i)]
  BY DEF Sums
<1> HIDE DEF F
<1>2. \A i \in 0..n : f[i] = F(i)
  BY <1>1
<1>3. QED
  BY <1>2 DEF F, Worth

LEMMA SumsExist ==
  ASSUME NEW rs, NEW places, NEW n \in Nat
  PROVE  \E f : Sums(f, rs, places, n)
<1> DEFINE T == {m \in Nat : \E f : Sums(f, rs, places, m)}
<1>1. 0 \in T
  <2> DEFINE f == [i \in 0..0 |-> 0]
  <2>1. Sums(f, rs, places, 0)
    BY DEF Sums
  <2>2. QED
    BY <2>1
<1>2. ASSUME NEW m \in 0..(n - 1), m \in T
      PROVE  m + 1 \in T
  <2>1. PICK f : Sums(f, rs, places, m)
    BY <1>2
  <2>2. m \in Nat /\ f[0] = 0 /\ \A i \in 1..m : f[i] = f[i - 1] + Worth(rs, places, i)
    BY <2>1, SumsFacts
  <2> DEFINE w(i) == IF i \in places THEN rs[i].amount ELSE 0
             g == [i \in 0..(m + 1) |-> IF i = m + 1 THEN f[m] + w(m + 1) ELSE f[i]]
             h == [i \in 0..(m + 1) |-> IF i = 0 THEN 0 ELSE g[i - 1] + w(i)]
  <2>3. \A i : w(i) = Worth(rs, places, i)
    BY DEF Worth
  <2>4. Sums(g, rs, places, m + 1) <=> g = h
    BY DEF Sums
  <2> HIDE DEF w
  <2>5. g[0] = 0 /\ h[0] = 0 /\ g[m + 1] = f[m] + w(m + 1) /\ h[m + 1] = f[m] + w(m + 1)
    BY <2>2
  <2>6. ASSUME NEW i \in 1..m PROVE g[i] = h[i]
    <3>1. g[i] = f[i] /\ g[i - 1] = f[i - 1] /\ h[i] = g[i - 1] + w(i)
      BY <2>2
    <3>2. QED
      BY <2>2, <2>3, <3>1
  <2>7. \A i \in 0..(m + 1) : g[i] = h[i]
    <3> HIDE DEF g, h
    <3>1. QED
      BY <2>2, <2>5, <2>6
  <2>8. g = h
    BY <2>7
  <2>9. QED
    BY <2>2, <2>4, <2>8
<1> HIDE DEF T
<1>3. n \in T
  BY <1>1, <1>2, UpTo
<1>4. QED
  BY <1>3 DEF T

\* The amounts of the entries up to i.
Upto(rs, places, i) == (CHOOSE f : Sums(f, rs, places, Len(rs)))[i]

LEMMA UptoIs ==
  ASSUME NEW rs \in Seq(Entry), NEW places
  PROVE  /\ Upto(rs, places, 0) = 0
         /\ \A i \in DOMAIN rs : Upto(rs, places, i) = Upto(rs, places, i - 1) + Worth(rs, places, i)
         /\ AmountOf(rs, places) = Upto(rs, places, Len(rs))
<1> DEFINE sum == CHOOSE f : Sums(f, rs, places, Len(rs))
<1>1. Sums(sum, rs, places, Len(rs))
  BY SumsExist, EntriesFacts
<1>2. \A i : Upto(rs, places, i) = sum[i]
  BY DEF Upto
<1>3. AmountOf(rs, places) = sum[Len(rs)]
  BY DEF AmountOf, Sums
<1> HIDE DEF sum
<1>4. QED
  BY <1>1, <1>2, <1>3, SumsFacts, EntriesFacts

LEMMA UptoNat ==
  ASSUME NEW rs \in Seq(Entry), NEW places
  PROVE  /\ \A i \in 0..Len(rs) : Upto(rs, places, i) \in Nat
         /\ AmountOf(rs, places) \in Nat
<1> DEFINE T == {i \in Nat : Upto(rs, places, i) \in Nat}
<1>1. 0 \in T
  BY UptoIs
<1>2. ASSUME NEW i \in 0..(Len(rs) - 1), i \in T PROVE i + 1 \in T
  <2>1. i + 1 \in DOMAIN rs /\ i + 1 \in Nat /\ (i + 1) - 1 = i /\ rs[i + 1].amount \in Nat
    BY EntriesFacts
  <2>2. Worth(rs, places, i + 1) \in Nat
    BY <2>1 DEF Worth
  <2>3. Upto(rs, places, i + 1) = Upto(rs, places, i) + Worth(rs, places, i + 1)
    BY <2>1, UptoIs
  <2>4. QED
    BY <1>2, <2>1, <2>2, <2>3
<1> HIDE DEF T
<1>3. 0..Len(rs) \subseteq T
  BY <1>1, <1>2, UpTo, EntriesFacts
<1>4. Len(rs) \in 0..Len(rs)
  BY EntriesFacts
<1>5. QED
  BY <1>3, <1>4, UptoIs DEF T

\* Entries that add the same as those of another list add up to the same.
LEMMA SameWorth ==
  ASSUME NEW rs \in Seq(Entry), NEW ts \in Seq(Entry), NEW P, NEW Q, NEW n \in Nat,
         n <= Len(rs), n <= Len(ts), \A i \in 1..n : Worth(rs, P, i) = Worth(ts, Q, i)
  PROVE  Upto(rs, P, n) = Upto(ts, Q, n)
<1> DEFINE T == {i \in Nat : Upto(rs, P, i) = Upto(ts, Q, i)}
<1>1. 0 \in T
  BY UptoIs
<1>2. ASSUME NEW i \in 0..(n - 1), i \in T PROVE i + 1 \in T
  <2>1. /\ i + 1 \in 1..n /\ i + 1 \in DOMAIN rs /\ i + 1 \in DOMAIN ts
        /\ i + 1 \in Nat /\ (i + 1) - 1 = i
    BY EntriesFacts
  <2>2. /\ Upto(rs, P, i + 1) = Upto(rs, P, i) + Worth(rs, P, i + 1)
        /\ Upto(ts, Q, i + 1) = Upto(ts, Q, i) + Worth(ts, Q, i + 1)
    BY <2>1, UptoIs
  <2>3. QED
    BY <1>2, <2>1, <2>2
<1> HIDE DEF T
<1>3. n \in 0..n /\ 0..n \subseteq T
  BY <1>1, <1>2, UpTo
<1>4. QED
  BY <1>3 DEF T

\* An entry more adds what it is worth.
LEMMA OneEntryMore ==
  ASSUME NEW rs \in Seq(Entry), NEW e \in Entry, NEW P, NEW Q,
         \A i \in DOMAIN rs : i \in P <=> i \in Q
  PROVE  /\ Append(rs, e) \in Seq(Entry)
         /\ AmountOf(Append(rs, e), Q) = AmountOf(rs, P) + Worth(Append(rs, e), Q, Len(rs) + 1)
<1> DEFINE ts == Append(rs, e)
           n  == Len(rs)
<1>1. /\ ts \in Seq(Entry) /\ Len(ts) = n + 1 /\ n \in Nat
      /\ \A i \in 1..n : ts[i] = rs[i]
  BY AppendProperties, EntriesFacts
<1> HIDE DEF ts
<1>2. \A i \in 1..n : Worth(rs, P, i) = Worth(ts, Q, i)
  BY <1>1, EntriesFacts DEF Worth
<1>3. Upto(rs, P, n) = Upto(ts, Q, n)
  BY <1>1, <1>2, SameWorth
<1>4. n + 1 \in DOMAIN ts /\ (n + 1) - 1 = n
  BY <1>1, EntriesFacts
<1>5. AmountOf(ts, Q) = Upto(ts, Q, n) + Worth(ts, Q, n + 1)
  BY <1>1, <1>4, UptoIs
<1>6. QED
  BY <1>1, <1>3, <1>5, UptoIs DEF ts

\* An entry that is d larger makes the sums from it on d larger.
LEMMA OneEntryLarger ==
  ASSUME NEW rs \in Seq(Entry), NEW ts \in Seq(Entry), NEW P, NEW d \in Nat, NEW m \in DOMAIN rs,
         Len(ts) = Len(rs), \A i \in DOMAIN rs \ {m} : Worth(ts, P, i) = Worth(rs, P, i),
         Worth(ts, P, m) = Worth(rs, P, m) + d
  PROVE  AmountOf(ts, P) = AmountOf(rs, P) + d
<1> DEFINE T == {i \in Nat : Upto(ts, P, i) = Upto(rs, P, i) + (IF i >= m THEN d ELSE 0)}
<1>0. Len(rs) \in Nat /\ DOMAIN rs = 1..Len(rs) /\ DOMAIN ts = 1..Len(rs) /\ m \in 1..Len(rs)
  BY EntriesFacts
<1>1. 0 \in T
  BY <1>0, UptoIs
<1>2. ASSUME NEW i \in 0..(Len(rs) - 1), i \in T PROVE i + 1 \in T
  <2>1. i + 1 \in DOMAIN rs /\ i + 1 \in DOMAIN ts /\ i + 1 \in Nat /\ (i + 1) - 1 = i /\ i \in 0..Len(rs)
    BY <1>0
  <2>2. /\ Upto(rs, P, i + 1) = Upto(rs, P, i) + Worth(rs, P, i + 1)
        /\ Upto(ts, P, i + 1) = Upto(ts, P, i) + Worth(ts, P, i + 1)
    BY <2>1, UptoIs
  <2>3. Upto(rs, P, i) \in Nat /\ Worth(rs, P, i + 1) \in Nat
    BY <2>1, UptoNat, EntriesFacts DEF Worth
  <2>4. Upto(ts, P, i) = Upto(rs, P, i) + (IF i >= m THEN d ELSE 0)
    BY <1>2
  <2>5. Worth(ts, P, i + 1) = Worth(rs, P, i + 1) + (IF i + 1 = m THEN d ELSE 0)
    <3>1. i + 1 = m => Worth(ts, P, i + 1) = Worth(rs, P, i + 1) + d
      OBVIOUS
    <3>2. i + 1 # m => Worth(ts, P, i + 1) = Worth(rs, P, i + 1)
      BY <2>1
    <3>3. QED
      BY <2>3, <3>1, <3>2
  <2>6. Upto(ts, P, i + 1) = Upto(rs, P, i + 1) + (IF i + 1 >= m THEN d ELSE 0)
    <3>1. CASE i + 1 = m
      BY <1>0, <2>2, <2>3, <2>4, <2>5, <3>1
    <3>2. CASE i + 1 # m
      BY <1>0, <2>2, <2>3, <2>4, <2>5, <3>2
    <3>3. QED
      BY <3>1, <3>2
  <2>7. QED
    BY <2>1, <2>6
<1> HIDE DEF T
<1>3. Len(rs) \in T
  <2>1. 0..Len(rs) \subseteq T
    BY <1>0, <1>1, <1>2, UpTo
  <2>2. QED
    BY <1>0, <2>1
<1>4. Upto(ts, P, Len(rs)) = Upto(rs, P, Len(rs)) + d
  BY <1>0, <1>3 DEF T
<1>5. AmountOf(ts, P) = Upto(ts, P, Len(rs)) /\ AmountOf(rs, P) = Upto(rs, P, Len(rs))
  BY UptoIs
<1>6. QED
  BY <1>4, <1>5

----------------------------------------------------------------------------
\* The selected entries, one by one.
Keeps(f, rs, places, n) ==
  f = [i \in 0..n |-> IF i = 0 THEN <<>> ELSE IF i \in places THEN Append(f[i - 1], rs[i]) ELSE f[i - 1]]

KeptAt(f, rs, places, i) == IF i \in places THEN Append(f[i - 1], rs[i]) ELSE f[i - 1]

LEMMA KeepsFacts ==
  ASSUME NEW f, NEW rs, NEW places, NEW n \in Nat, Keeps(f, rs, places, n)
  PROVE  f[0] = <<>> /\ \A i \in 1..n : f[i] = KeptAt(f, rs, places, i)
<1> DEFINE F(i) == IF i = 0 THEN <<>> ELSE IF i \in places THEN Append(f[i - 1], rs[i]) ELSE f[i - 1]
<1>1. f = [i \in 0..n |-> F(i)]
  BY DEF Keeps
<1> HIDE DEF F
<1>2. \A i \in 0..n : f[i] = F(i)
  BY <1>1
<1>3. QED
  BY <1>2 DEF F, KeptAt

LEMMA KeepsExist ==
  ASSUME NEW rs, NEW places, NEW n \in Nat
  PROVE  \E f : Keeps(f, rs, places, n)
<1> DEFINE T == {m \in Nat : \E f : Keeps(f, rs, places, m)}
<1>1. 0 \in T
  <2> DEFINE f == [i \in 0..0 |-> <<>>]
  <2>1. Keeps(f, rs, places, 0)
    BY DEF Keeps
  <2>2. QED
    BY <2>1
<1>2. ASSUME NEW m \in 0..(n - 1), m \in T
      PROVE  m + 1 \in T
  <2>1. PICK f : Keeps(f, rs, places, m)
    BY <1>2
  <2>2. m \in Nat /\ f[0] = <<>> /\ \A i \in 1..m : f[i] = KeptAt(f, rs, places, i)
    BY <2>1, KeepsFacts
  <2> DEFINE w(q, i) == IF i \in places THEN Append(q, rs[i]) ELSE q
             g == [i \in 0..(m + 1) |-> IF i = m + 1 THEN w(f[m], m + 1) ELSE f[i]]
             h == [i \in 0..(m + 1) |-> IF i = 0 THEN <<>> ELSE w(g[i - 1], i)]
  <2>3. \A i : w(f[i - 1], i) = KeptAt(f, rs, places, i)
    BY DEF KeptAt
  <2>4. Keeps(g, rs, places, m + 1) <=> g = h
    BY DEF Keeps
  <2> HIDE DEF w
  <2>5. g[0] = <<>> /\ h[0] = <<>> /\ g[m + 1] = w(f[m], m + 1) /\ h[m + 1] = w(f[m], m + 1)
    BY <2>2
  <2>6. ASSUME NEW i \in 1..m PROVE g[i] = h[i]
    <3>1. g[i] = f[i] /\ g[i - 1] = f[i - 1] /\ h[i] = w(g[i - 1], i)
      BY <2>2
    <3>2. QED
      BY <2>2, <2>3, <3>1
  <2>7. \A i \in 0..(m + 1) : g[i] = h[i]
    <3> HIDE DEF g, h
    <3>1. QED
      BY <2>2, <2>5, <2>6
  <2>8. g = h
    BY <2>7
  <2>9. QED
    BY <2>2, <2>4, <2>8
<1> HIDE DEF T
<1>3. n \in 0..n /\ 0..n \subseteq T
  BY <1>1, <1>2, UpTo
<1>4. QED
  BY <1>3 DEF T

\* What is selected is a list of entries of rs; of a power it adds up to what was selected of it.
SelectionOf(q, rs, places, n) ==
  /\ q \in Seq(Entry)
  /\ \A j \in DOMAIN q : \E i \in DOMAIN rs \cap places : q[j] = rs[i]
  /\ \A p \in Powers : AmountOf(q, EntriesOf(q, p)) = Upto(rs, places \cap EntriesOf(rs, p), n)

LEMMA NoEntries == <<>> \in Seq(Entry) /\ \A P : AmountOf(<<>>, P) = 0
<1>1. <<>> \in Seq(Entry) /\ Len(<<>>) = 0
  BY EmptySeq
<1>2. QED
  BY <1>1, UptoIs

LEMMA OneMoreSelected ==
  ASSUME NEW rs \in Seq(Entry), NEW places, NEW n \in DOMAIN rs, NEW q,
         SelectionOf(q, rs, places, n - 1)
  PROVE  SelectionOf(IF n \in places THEN Append(q, rs[n]) ELSE q, rs, places, n)
<1>1. rs[n] \in Entry /\ rs[n].amount \in Nat /\ n \in 0..Len(rs) /\ n - 1 \in 0..Len(rs) /\ q \in Seq(Entry)
  BY EntriesFacts DEF SelectionOf
<1>2. \A p : LET P == places \cap EntriesOf(rs, p) IN Upto(rs, P, n) = Upto(rs, P, n - 1) + Worth(rs, P, n)
  BY UptoIs
<1>3. \A P : Upto(rs, P, n - 1) \in Nat
  BY <1>1, UptoNat
<1>4. CASE n \notin places
  <2>1. \A p : Worth(rs, places \cap EntriesOf(rs, p), n) = 0
    BY <1>4 DEF Worth
  <2>2. ASSUME NEW p PROVE LET P == places \cap EntriesOf(rs, p) IN Upto(rs, P, n) = Upto(rs, P, n - 1)
    <3> DEFINE P == places \cap EntriesOf(rs, p)
    <3>1. Upto(rs, P, n) = Upto(rs, P, n - 1) + Worth(rs, P, n)
      BY <1>2
    <3>2. Worth(rs, P, n) = 0
      BY <2>1
    <3>3. Upto(rs, P, n - 1) \in Nat
      BY <1>3
    <3> HIDE DEF P
    <3>4. Upto(rs, P, n) = Upto(rs, P, n - 1)
      BY <3>1, <3>2, <3>3
    <3>5. QED
      BY <3>4 DEF P
  <2>3. QED
    BY <1>4, <2>2 DEF SelectionOf
<1>5. CASE n \in places
  <2> DEFINE e  == rs[n]
             ts == Append(q, e)
  <2>1. /\ ts \in Seq(Entry) /\ Len(ts) = Len(q) + 1 /\ Len(q) \in Nat
        /\ DOMAIN ts = 1..(Len(q) + 1) /\ DOMAIN q = 1..Len(q)
        /\ \A i \in 1..Len(q) : ts[i] = q[i]
        /\ ts[Len(q) + 1] = e
    BY <1>1, AppendProperties, EntriesFacts
  <2> HIDE DEF ts
  <2>2. \A j \in DOMAIN ts : \E i \in DOMAIN rs \cap places : ts[j] = rs[i]
    BY <1>5, <2>1 DEF SelectionOf
  <2>3. ASSUME NEW p \in Powers
        PROVE  AmountOf(ts, EntriesOf(ts, p)) = Upto(rs, places \cap EntriesOf(rs, p), n)
    <3> DEFINE P == places \cap EntriesOf(rs, p)
    <3>1. \A i \in DOMAIN q : i \in EntriesOf(q, p) <=> i \in EntriesOf(ts, p)
      BY <2>1 DEF EntriesOf
    <3>2. AmountOf(ts, EntriesOf(ts, p)) =
            AmountOf(q, EntriesOf(q, p)) + Worth(ts, EntriesOf(ts, p), Len(q) + 1)
      BY <1>1, <3>1, OneEntryMore DEF ts
    <3>3. Worth(ts, EntriesOf(ts, p), Len(q) + 1) = Worth(rs, P, n)
      BY <1>5, <2>1 DEF Worth, EntriesOf
    <3>4. AmountOf(q, EntriesOf(q, p)) = Upto(rs, P, n - 1)
      BY DEF SelectionOf
    <3>5. QED
      BY <1>2, <3>2, <3>3, <3>4
  <2>4. QED
    BY <1>5, <2>1, <2>2, <2>3 DEF SelectionOf, ts
<1>6. QED
  BY <1>4, <1>5

LEMMA SelectedFacts ==
  ASSUME NEW rs \in Seq(Entry), NEW places
  PROVE  SelectionOf(Selected(rs, places), rs, places, Len(rs))
<1> DEFINE f == CHOOSE g : Keeps(g, rs, places, Len(rs))
           T == {i \in Nat : SelectionOf(f[i], rs, places, i)}
<1>1. Keeps(f, rs, places, Len(rs))
  BY KeepsExist, EntriesFacts
<1>2. Selected(rs, places) = f[Len(rs)]
  BY DEF Selected, Keeps
<1> HIDE DEF f
<1>3. f[0] = <<>> /\ \A i \in 1..Len(rs) : f[i] = KeptAt(f, rs, places, i)
  BY <1>1, EntriesFacts, KeepsFacts
<1>4. 0 \in T
  <2>1. \A p : Upto(rs, places \cap EntriesOf(rs, p), 0) = 0
    BY UptoIs
  <2>2. <<>> \in Seq(Entry) /\ DOMAIN <<>> = {} /\ \A P : AmountOf(<<>>, P) = 0
    BY NoEntries, EmptySeq
  <2>3. SelectionOf(<<>>, rs, places, 0)
    BY <2>1, <2>2 DEF SelectionOf
  <2>4. QED
    BY <1>3, <2>3
<1>5. ASSUME NEW i \in 0..(Len(rs) - 1), i \in T PROVE i + 1 \in T
  <2>1. i + 1 \in 1..Len(rs) /\ i + 1 \in DOMAIN rs /\ i + 1 \in Nat /\ (i + 1) - 1 = i
    BY EntriesFacts
  <2>2. f[i + 1] = IF i + 1 \in places THEN Append(f[i], rs[i + 1]) ELSE f[i]
    BY <1>3, <2>1 DEF KeptAt
  <2>3. SelectionOf(f[i + 1], rs, places, i + 1)
    BY <1>5, <2>1, <2>2, OneMoreSelected
  <2>4. QED
    BY <2>1, <2>3
<1> HIDE DEF T
<1>6. Len(rs) \in T
  <2>1. 0..Len(rs) \subseteq T
    BY <1>4, <1>5, UpTo, EntriesFacts
  <2>2. QED
    BY <2>1, EntriesFacts
<1>7. QED
  BY <1>2, <1>6 DEF T

----------------------------------------------------------------------------
\* A rise by n takes, of the entries of c up to i, what the later ones leave of it.
LEMMA SmallerOf ==
  ASSUME NEW a \in Nat, NEW b \in Nat
  PROVE  Min({a, b}) = IF a <= b THEN a ELSE b
<1>1. Min({a, b}) \in {a, b} /\ Min({a, b}) <= a /\ Min({a, b}) <= b
  BY MinIsMember
<1>2. QED
  BY <1>1

LEMMA LargerOf ==
  ASSUME NEW a \in Int, NEW b \in Int
  PROVE  Max({a, b}) = IF a >= b THEN a ELSE b
<1>1. \E m \in {a, b} : \A y \in {a, b} : m >= y
  BY a >= b \/ b >= a
<1>2. Max({a, b}) \in {a, b} /\ \A y \in {a, b} : Max({a, b}) >= y
  BY <1>1 DEF Max
<1>3. QED
  BY <1>2

EntriesBy(rs, c) == {i \in DOMAIN rs : rs[i].creature = c}
Later(rs, c, i)  == {j \in DOMAIN rs : j > i /\ rs[j].creature = c}

LEMMA LaterAre ==
  ASSUME NEW rs \in Seq(Entry), NEW c, NEW i \in 0..Len(rs)
  PROVE  AmountOf(rs, Later(rs, c, i)) = AmountOf(rs, EntriesBy(rs, c)) - Upto(rs, EntriesBy(rs, c), i)
<1> DEFINE P == EntriesBy(rs, c)
           Q == Later(rs, c, i)
           T == {k \in Nat : Upto(rs, Q, k) = IF k <= i THEN 0 ELSE Upto(rs, P, k) - Upto(rs, P, i)}
<1>0. Len(rs) \in Nat /\ DOMAIN rs = 1..Len(rs) /\ i \in Nat /\ i <= Len(rs)
  BY EntriesFacts
<1>1. 0 \in T
  BY <1>0, UptoIs
<1>2. ASSUME NEW k \in 0..(Len(rs) - 1), k \in T PROVE k + 1 \in T
  <2>1. k + 1 \in DOMAIN rs /\ k + 1 \in Nat /\ (k + 1) - 1 = k /\ k \in 0..Len(rs)
    BY <1>0
  <2>2. /\ Upto(rs, P, k + 1) = Upto(rs, P, k) + Worth(rs, P, k + 1)
        /\ Upto(rs, Q, k + 1) = Upto(rs, Q, k) + Worth(rs, Q, k + 1)
    BY <2>1, UptoIs
  <2>3. Upto(rs, P, k) \in Nat /\ Upto(rs, P, i) \in Nat /\ Worth(rs, P, k + 1) \in Nat
    BY <2>1, UptoNat, EntriesFacts DEF Worth
  <2>4. Upto(rs, Q, k) = IF k <= i THEN 0 ELSE Upto(rs, P, k) - Upto(rs, P, i)
    BY <1>2
  <2>5. Worth(rs, Q, k + 1) = IF k + 1 <= i THEN 0 ELSE Worth(rs, P, k + 1)
    BY <1>0, <2>1 DEF Worth, EntriesBy, Later
  <2> HIDE DEF P, Q
  <2>6. CASE k + 1 <= i
    BY <1>0, <2>1, <2>2, <2>4, <2>5, <2>6
  <2>7. CASE k = i
    BY <1>0, <2>1, <2>2, <2>3, <2>4, <2>5, <2>7
  <2>8. CASE k > i
    BY <1>0, <2>1, <2>2, <2>3, <2>4, <2>5, <2>8
  <2>9. QED
    BY <1>0, <2>1, <2>6, <2>7, <2>8
<1> HIDE DEF T
<1>3. Len(rs) \in T
  <2>1. 0..Len(rs) \subseteq T
    BY <1>0, <1>1, <1>2, UpTo
  <2>2. QED
    BY <1>0, <2>1
<1>4. Upto(rs, Q, Len(rs)) = IF Len(rs) <= i THEN 0 ELSE Upto(rs, P, Len(rs)) - Upto(rs, P, i)
  BY <1>3 DEF T
<1>5. AmountOf(rs, Q) = Upto(rs, Q, Len(rs)) /\ AmountOf(rs, P) = Upto(rs, P, Len(rs))
  BY UptoIs
<1>6. Upto(rs, P, Len(rs)) \in Nat /\ Upto(rs, P, i) \in Nat
  BY <1>0, UptoNat
<1> HIDE DEF P, Q
<1>7. AmountOf(rs, Q) = AmountOf(rs, P) - Upto(rs, P, i)
  <2>1. CASE Len(rs) <= i
    <3>1. \A x, y \in Nat : x <= y /\ y <= x => x = y
      OBVIOUS
    <3>2. i = Len(rs)
      BY <1>0, <2>1, <3>1
    <3>3. QED
      BY <1>4, <1>5, <1>6, <2>1, <3>2
  <2>2. CASE ~(Len(rs) <= i)
    BY <1>4, <1>5, <2>2
  <2>3. QED
    BY <2>1, <2>2
<1>8. QED
  BY <1>7 DEF P, Q

LEMMA TakenIs ==
  ASSUME NEW rs \in Seq(Entry), NEW c, NEW n \in Nat, NEW i \in DOMAIN rs
  PROVE  LET P    == EntriesBy(rs, c)
             left == Whole(n - (AmountOf(rs, P) - Upto(rs, P, i)))
         IN  Taken(rs, c, n, i) = IF i \notin P THEN 0
                                  ELSE IF left <= rs[i].amount THEN left ELSE rs[i].amount
<1> DEFINE P    == EntriesBy(rs, c)
           left == Whole(n - (AmountOf(rs, P) - Upto(rs, P, i)))
<1>1. i \in 0..Len(rs) /\ rs[i].amount \in Nat
  BY EntriesFacts
<1>2. AmountOf(rs, P) \in Nat /\ Upto(rs, P, i) \in Nat
  BY <1>1, UptoNat
<1>3. left \in Nat
  BY <1>2, WholeFacts
<1>4. AmountOf(rs, Later(rs, c, i)) = AmountOf(rs, P) - Upto(rs, P, i)
  BY <1>1, LaterAre
<1>5. Taken(rs, c, n, i) = IF i \in P THEN Min({left, rs[i].amount}) ELSE 0
  BY <1>4 DEF Taken, Later, EntriesBy
<1> HIDE DEF left, P
<1>6. Taken(rs, c, n, i) = IF i \notin P THEN 0 ELSE IF left <= rs[i].amount THEN left ELSE rs[i].amount
  BY <1>1, <1>3, <1>5, SmallerOf
<1>7. QED
  BY <1>6 DEF left, P

LEMMA LessenedFacts ==
  ASSUME NEW rs \in Seq(Entry), NEW c, NEW n \in Nat
  PROVE  LET ts == Lessened(rs, c, n)
         IN  /\ ts \in Seq(Entry) /\ Len(ts) = Len(rs) /\ DOMAIN ts = DOMAIN rs
             /\ \A i \in DOMAIN rs :
                  /\ ts[i].power = rs[i].power /\ ts[i].creature = rs[i].creature
                  /\ ts[i].source = rs[i].source
                  /\ ts[i].amount = rs[i].amount - Taken(rs, c, n, i)
<1> DEFINE ts == Lessened(rs, c, n)
<1>1. ASSUME NEW i \in DOMAIN rs
      PROVE  /\ Taken(rs, c, n, i) \in Nat /\ Taken(rs, c, n, i) <= rs[i].amount
             /\ rs[i] \in Entry /\ rs[i].amount \in Nat
  <2> DEFINE P    == EntriesBy(rs, c)
             left == Whole(n - (AmountOf(rs, P) - Upto(rs, P, i)))
  <2>1. i \in 0..Len(rs) /\ rs[i] \in Entry /\ rs[i].amount \in Nat
    BY EntriesFacts
  <2>2. AmountOf(rs, P) \in Nat /\ Upto(rs, P, i) \in Nat
    BY <2>1, UptoNat
  <2>3. left \in Nat
    BY <2>2, WholeFacts
  <2>4. Taken(rs, c, n, i) = IF i \notin P THEN 0 ELSE IF left <= rs[i].amount THEN left ELSE rs[i].amount
    BY TakenIs
  <2> HIDE DEF left, P
  <2>5. QED
    BY <2>1, <2>3, <2>4
<1>2. ASSUME NEW i \in DOMAIN rs
      PROVE  /\ [rs[i] EXCEPT !.amount = @ - Taken(rs, c, n, i)] \in Entry
  <2>1. rs[i].amount - Taken(rs, c, n, i) \in Nat
    BY <1>1
  <2>2. QED
    BY <1>1, <2>1 DEF Entry
<1>3. DOMAIN rs = 1..Len(rs) /\ Len(rs) \in Nat
  BY EntriesFacts
<1>4. ts \in [1..Len(rs) -> Entry]
  BY <1>2, <1>3 DEF Lessened
<1>5. ts \in Seq(Entry) /\ Len(ts) = Len(rs) /\ DOMAIN ts = DOMAIN rs
  <2> HIDE DEF ts
  <2>1. QED
    BY <1>3, <1>4, SeqDef
<1>6. \A i \in DOMAIN rs : ts[i] = [rs[i] EXCEPT !.amount = @ - Taken(rs, c, n, i)]
  BY DEF Lessened
<1>7. \A i \in DOMAIN rs : /\ ts[i].power = rs[i].power /\ ts[i].creature = rs[i].creature
                           /\ ts[i].source = rs[i].source
                           /\ ts[i].amount = rs[i].amount - Taken(rs, c, n, i)
  BY <1>1, <1>6 DEF Entry
<1>8. QED
  BY <1>5, <1>7

LEMMA SpareOf ==
  ASSUME NEW n \in Nat, NEW w \in Nat, NEW x \in Nat, NEW d \in Nat,
         d = IF Whole(n - x) <= w THEN Whole(n - x) ELSE w
  PROVE  Whole((x + w) - n) = Whole(x - n) + (w - d) /\ Whole(x - n) \in Nat /\ d <= w
<1>1. CASE x >= n
  BY <1>1 DEF Whole
<1>2. CASE x < n /\ n - x <= w
  BY <1>2 DEF Whole
<1>3. CASE x < n /\ n - x > w
  BY <1>3 DEF Whole
<1>4. QED
  BY <1>1, <1>2, <1>3

\* Of the entries of c, what a rise by n leaves is what they exceed n by.
LEMMA LessenedSum ==
  ASSUME NEW rs \in Seq(Entry), NEW c, NEW n \in Nat
  PROVE  AmountOf(Lessened(rs, c, n), EntriesBy(rs, c)) = Whole(AmountOf(rs, EntriesBy(rs, c)) - n)
<1> DEFINE P  == EntriesBy(rs, c)
           ts == Lessened(rs, c, n)
           A  == AmountOf(rs, P)
           F(i) == Upto(rs, P, i)
           T  == {i \in Nat : Upto(ts, P, i) = Whole(A - n) - Whole(A - F(i) - n)}
<1>0. Len(rs) \in Nat /\ DOMAIN rs = 1..Len(rs)
  BY EntriesFacts
<1>1. /\ ts \in Seq(Entry) /\ Len(ts) = Len(rs) /\ DOMAIN ts = DOMAIN rs
      /\ \A i \in DOMAIN rs : ts[i].amount = rs[i].amount - Taken(rs, c, n, i)
  BY LessenedFacts
<1>2. A \in Nat /\ A = F(Len(rs)) /\ F(0) = 0 /\ \A i \in 0..Len(rs) : F(i) \in Nat
  BY UptoIs, UptoNat
<1>3. \A i \in DOMAIN rs : AmountOf(rs, Later(rs, c, i)) = A - F(i) /\ AmountOf(rs, Later(rs, c, i)) \in Nat
  BY <1>0, LaterAre, UptoNat
<1>4. 0 \in T
  <2>1. Upto(ts, P, 0) = 0 /\ Whole(A - n) \in Nat
    BY <1>1, <1>2, UptoIs, WholeFacts
  <2>2. A - F(0) - n = A - n
    BY <1>2
  <2>3. QED
    BY <2>1, <2>2
<1>5. ASSUME NEW i \in 0..(Len(rs) - 1), i \in T PROVE i + 1 \in T
  <2> DEFINE k == i + 1
             a == rs[k].amount
             left == Whole(n - (A - F(k)))
  <2>1. k \in DOMAIN rs /\ k \in Nat /\ k - 1 = i /\ i \in 0..Len(rs) /\ k \in 0..Len(rs)
    BY <1>0
  <2>2. /\ F(k) = F(i) + Worth(rs, P, k)
        /\ Upto(ts, P, k) = Upto(ts, P, i) + Worth(ts, P, k)
    BY <1>1, <2>1, UptoIs
  <2>3. F(k) \in Nat /\ F(i) \in Nat /\ a \in Nat /\ A - F(k) \in Nat
    BY <1>2, <1>3, <2>1, EntriesFacts
  <2>4. Upto(ts, P, i) = Whole(A - n) - Whole(A - F(i) - n)
    BY <1>5
  <2>5. Taken(rs, c, n, k) = IF k \notin P THEN 0 ELSE IF left <= a THEN left ELSE a
    BY <2>1, TakenIs
  <2>6. /\ Worth(rs, P, k) = IF k \in P THEN a ELSE 0
        /\ Worth(ts, P, k) = IF k \in P THEN a - Taken(rs, c, n, k) ELSE 0
    BY <1>1, <2>1 DEF Worth
  <2> HIDE DEF k, a, left, A, P, ts, F
  <2>7. CASE k \notin P
    <3>1. F(k) = F(i) /\ Upto(ts, P, k) = Upto(ts, P, i) + 0
      BY <2>2, <2>3, <2>6, <2>7
    <3>2. A - n \in Int /\ A - F(i) - n \in Int
      BY <1>2, <2>3
    <3>3. Whole(A - n) \in Nat /\ Whole(A - F(i) - n) \in Nat
      BY <3>2, WholeFacts
    <3>4. Upto(ts, P, k) = Upto(ts, P, i)
      BY <2>4, <3>1, <3>3
    <3>5. QED
      BY <2>1, <2>4, <3>1, <3>4 DEF k
  <2>8. CASE k \in P
    <3>1. F(k) = F(i) + a /\ Upto(ts, P, k) = Upto(ts, P, i) + (a - Taken(rs, c, n, k))
      BY <2>2, <2>6, <2>8
    <3>2. PICK x \in Nat : x = A - F(k)
      BY <2>3
    <3>3. Taken(rs, c, n, k) = (IF Whole(n - x) <= a THEN Whole(n - x) ELSE a) /\ Taken(rs, c, n, k) \in Nat
      BY <2>3, <2>5, <2>8, <3>2, WholeFacts DEF left
    <3>4. Whole((x + a) - n) = Whole(x - n) + (a - Taken(rs, c, n, k)) /\ Whole(x - n) \in Nat
      <4>1. PICK w \in Nat : w = a
        BY <2>3
      <4>2. PICK d \in Nat : d = Taken(rs, c, n, k)
        BY <3>3
      <4>3. d = IF Whole(n - x) <= w THEN Whole(n - x) ELSE w
        BY <3>3, <4>1, <4>2
      <4>4. Whole((x + w) - n) = Whole(x - n) + (w - d) /\ Whole(x - n) \in Nat
        BY <4>3, SpareOf
      <4>5. QED
        BY <4>1, <4>2, <4>4
    <3>5. x + a = A - F(i)
      <4>1. PICK f \in Nat : f = F(i)
        BY <2>3
      <4>2. x = A - (f + a)
        BY <3>1, <3>2, <4>1
      <4>3. QED
        BY <1>2, <2>3, <4>1, <4>2
    <3>6. Upto(ts, P, i) = Whole(A - n) - Whole((x + a) - n)
      BY <2>4, <3>5
    <3>7. A - n \in Int
      BY <1>2
    <3>8. Whole(A - n) \in Nat
      BY <3>7, WholeFacts
    <3>9. Upto(ts, P, k) = Whole(A - n) - Whole(x - n)
      BY <2>3, <3>1, <3>3, <3>4, <3>6, <3>8
    <3>10. QED
      BY <2>1, <3>2, <3>9 DEF k
  <2>9. QED
    BY <2>7, <2>8
<1> HIDE DEF T
<1>6. Len(rs) \in T
  <2>1. 0..Len(rs) \subseteq T
    BY <1>0, <1>4, <1>5, UpTo
  <2>2. QED
    BY <1>0, <2>1
<1>7. Upto(ts, P, Len(rs)) = Whole(A - n) - Whole(A - F(Len(rs)) - n)
  BY <1>6 DEF T
<1>8. AmountOf(ts, P) = Upto(ts, P, Len(rs))
  BY <1>1, UptoIs
<1> HIDE DEF A, P, ts, F
<1>9. Whole(A - F(Len(rs)) - n) = 0 /\ Whole(A - n) \in Nat
  <2>1. A - F(Len(rs)) - n <= 0 /\ A - F(Len(rs)) - n \in Int /\ A - n \in Int
    BY <1>0, <1>2
  <2>2. QED
    BY <2>1, WholeFacts
<1>10. AmountOf(ts, P) = Whole(A - n)
  BY <1>7, <1>8, <1>9
<1>11. QED
  BY <1>10 DEF A, P, ts

----------------------------------------------------------------------------
\* What each call makes of the reductions.  Sum: what those of a power add up to.
SumOf(rs, p) == AmountOf(rs, EntriesOf(rs, p))

\* Every entry of q has the power and the creature of one of rs.
ComesFrom(q, rs) ==
  \A j \in DOMAIN q : \E i \in DOMAIN rs : q[j].power = rs[i].power /\ q[j].creature = rs[i].creature

LEMMA ReductionsFacts ==
  ASSUME NEW rs \in Seq(Reduction)
  PROVE  /\ rs \in Seq(Entry) /\ Len(rs) \in Nat /\ DOMAIN rs = 1..Len(rs)
         /\ \A i \in DOMAIN rs : rs[i] \in Reduction /\ rs[i].amount \in Nat \ {0}
<1>1. Len(rs) \in Nat /\ DOMAIN rs = 1..Len(rs) /\ \A i \in 1..Len(rs) : rs[i] \in Reduction
  BY LenProperties, ElementOfSeq
<1>2. Reduction \subseteq Entry
  BY DEF Reduction, Entry
<1>3. rs \in [1..Len(rs) -> Entry]
  BY <1>1, <1>2, LenProperties
<1>4. rs \in Seq(Entry)
  BY <1>1, <1>3, SeqDef
<1>5. QED
  BY <1>1, <1>4 DEF Reduction

LEMMA AreReductions ==
  ASSUME NEW q \in Seq(Entry), \A j \in DOMAIN q : q[j].amount # 0
  PROVE  q \in Seq(Reduction)
<1>1. Len(q) \in Nat /\ DOMAIN q = 1..Len(q) /\ \A j \in DOMAIN q : q[j] \in Entry
  BY EntriesFacts
<1>2. \A j \in 1..Len(q) : q[j] \in Reduction
  BY <1>1 DEF Reduction, Entry
<1>3. q \in [1..Len(q) -> Reduction]
  BY <1>1, <1>2, LenProperties
<1>4. QED
  BY <1>1, <1>3, SeqDef

LEMMA NoPlaces ==
  ASSUME NEW rs \in Seq(Entry)
  PROVE  AmountOf(rs, {}) = 0
<1> DEFINE T == {i \in Nat : Upto(rs, {}, i) = 0}
<1>1. 0 \in T
  BY UptoIs
<1>2. ASSUME NEW i \in 0..(Len(rs) - 1), i \in T PROVE i + 1 \in T
  <2>1. i + 1 \in DOMAIN rs /\ i + 1 \in Nat /\ (i + 1) - 1 = i
    BY EntriesFacts
  <2>2. Upto(rs, {}, i + 1) = Upto(rs, {}, i) + Worth(rs, {}, i + 1)
    BY <2>1, UptoIs
  <2>3. Worth(rs, {}, i + 1) = 0
    BY DEF Worth
  <2>4. QED
    BY <1>2, <2>1, <2>2, <2>3
<1> HIDE DEF T
<1>3. Len(rs) \in T
  <2>1. 0..Len(rs) \subseteq T
    BY <1>1, <1>2, UpTo, EntriesFacts
  <2>2. QED
    BY <2>1, EntriesFacts
<1>4. QED
  BY <1>3, UptoIs DEF T

LEMMA WithoutFacts ==
  ASSUME NEW rs \in Seq(Reduction), NEW p \in Powers
  PROVE  LET q == Without(rs, p)
         IN  /\ q \in Seq(Reduction)
             /\ \A j \in DOMAIN q : \E i \in DOMAIN rs : q[j] = rs[i] /\ rs[i].power # p
             /\ SumOf(q, p) = 0
             /\ \A o \in Powers \ {p} : SumOf(q, o) = SumOf(rs, o)
<1> DEFINE q == Without(rs, p)
           K == DOMAIN rs \ EntriesOf(rs, p)
<1>1. rs \in Seq(Entry) /\ \A i \in DOMAIN rs : rs[i].amount # 0
  BY ReductionsFacts
<1>2. SelectionOf(q, rs, K, Len(rs))
  BY <1>1, SelectedFacts DEF Without
<1> HIDE DEF q
<1>3. q \in Seq(Entry) /\ \A j \in DOMAIN q : \E i \in DOMAIN rs : q[j] = rs[i] /\ rs[i].power # p
  BY <1>2 DEF SelectionOf, EntriesOf
<1>4. q \in Seq(Reduction)
  BY <1>1, <1>3, AreReductions
<1>5. \A o \in Powers : SumOf(q, o) = Upto(rs, K \cap EntriesOf(rs, o), Len(rs))
  BY <1>2 DEF SelectionOf, SumOf
<1>6. SumOf(q, p) = 0
  <2>1. K \cap EntriesOf(rs, p) = {}
    OBVIOUS
  <2>2. QED
    BY <1>1, <1>5, <2>1, NoPlaces, UptoIs
<1>7. ASSUME NEW o \in Powers \ {p} PROVE SumOf(q, o) = SumOf(rs, o)
  <2>1. K \cap EntriesOf(rs, o) = EntriesOf(rs, o)
    BY DEF EntriesOf
  <2>2. QED
    BY <1>1, <1>5, <2>1, UptoIs DEF SumOf
<1>8. QED
  BY <1>3, <1>4, <1>6, <1>7 DEF q

LEMMA RaisedFacts ==
  ASSUME NEW rs \in Seq(Reduction), NEW p \in Powers, NEW c, NEW n \in Nat,
         \A i \in DOMAIN rs : rs[i].creature = c <=> rs[i].power = p
  PROVE  LET q == Raised(rs, c, n)
         IN  /\ q \in Seq(Reduction) /\ ComesFrom(q, rs)
             /\ SumOf(q, p) = Whole(SumOf(rs, p) - n)
             /\ \A o \in Powers \ {p} : SumOf(q, o) = SumOf(rs, o)
<1> DEFINE q  == Raised(rs, c, n)
           ts == Lessened(rs, c, n)
           K  == {i \in DOMAIN ts : ts[i].amount > 0}
<1>1. rs \in Seq(Entry) /\ Len(rs) \in Nat /\ DOMAIN rs = 1..Len(rs) /\ \A i \in DOMAIN rs : rs[i].amount \in Nat
  BY ReductionsFacts
<1>2. /\ ts \in Seq(Entry) /\ Len(ts) = Len(rs) /\ DOMAIN ts = DOMAIN rs
      /\ \A i \in DOMAIN rs :
           /\ ts[i].power = rs[i].power /\ ts[i].creature = rs[i].creature
           /\ ts[i].amount = rs[i].amount - Taken(rs, c, n, i)
  BY <1>1, LessenedFacts
<1>3. \A i \in DOMAIN ts : ts[i].amount \in Nat
  BY <1>2, EntriesFacts
<1>4. SelectionOf(q, ts, K, Len(ts))
  BY <1>2, SelectedFacts DEF Raised
<1>5. EntriesOf(rs, p) = EntriesBy(rs, c) /\ \A o : EntriesOf(ts, o) = EntriesOf(rs, o)
  BY <1>2 DEF EntriesOf, EntriesBy
<1>6. AmountOf(ts, EntriesBy(rs, c)) = Whole(AmountOf(rs, EntriesBy(rs, c)) - n)
  BY <1>1, LessenedSum
<1>7. \A i \in DOMAIN rs : i \notin EntriesBy(rs, c) => Taken(rs, c, n, i) = 0
  BY <1>1, TakenIs
<1> HIDE DEF q, ts
<1>8. q \in Seq(Entry) /\ \A j \in DOMAIN q : \E i \in DOMAIN ts : q[j] = ts[i] /\ ts[i].amount > 0
  BY <1>4 DEF SelectionOf
<1>9. q \in Seq(Reduction)
  <2>1. \A j \in DOMAIN q : q[j].amount # 0
    BY <1>3, <1>8
  <2>2. QED
    BY <1>8, <2>1, AreReductions
<1>10. ComesFrom(q, rs)
  BY <1>2, <1>8 DEF ComesFrom
<1>11. ASSUME NEW o \in Powers PROVE SumOf(q, o) = AmountOf(ts, EntriesOf(rs, o))
  <2>1. SumOf(q, o) = Upto(ts, K \cap EntriesOf(ts, o), Len(ts))
    BY <1>4 DEF SelectionOf, SumOf
  <2>2. \A i \in 1..Len(ts) : Worth(ts, K \cap EntriesOf(ts, o), i) = Worth(ts, EntriesOf(ts, o), i)
    <3>1. ASSUME NEW i \in 1..Len(ts)
          PROVE  Worth(ts, K \cap EntriesOf(ts, o), i) = Worth(ts, EntriesOf(ts, o), i)
      <4>1. i \in DOMAIN ts /\ ts[i].amount \in Nat
        BY <1>1, <1>2, <1>3
      <4>2. i \in K \/ ts[i].amount = 0
        BY <4>1
      <4>3. QED
        BY <4>2 DEF Worth
    <3>2. QED
      BY <3>1
  <2>3. Upto(ts, K \cap EntriesOf(ts, o), Len(ts)) = Upto(ts, EntriesOf(ts, o), Len(ts))
    <3> DEFINE P == K \cap EntriesOf(ts, o)
               Q == EntriesOf(ts, o)
               k == Len(ts)
    <3>1. k \in Nat /\ k <= Len(ts) /\ \A i \in 1..k : Worth(ts, P, i) = Worth(ts, Q, i)
      BY <1>1, <1>2, <2>2
    <3> HIDE DEF K, P, Q, k
    <3>2. Upto(ts, P, k) = Upto(ts, Q, k)
      BY <1>2, <3>1, SameWorth
    <3>3. QED
      BY <3>2 DEF P, Q, k
  <2> HIDE DEF K
  <2>4. QED
    BY <1>2, <1>5, <2>1, <2>3, UptoIs
<1>12. SumOf(q, p) = Whole(SumOf(rs, p) - n)
  BY <1>5, <1>6, <1>11 DEF SumOf
<1>13. ASSUME NEW o \in Powers \ {p} PROVE SumOf(q, o) = SumOf(rs, o)
  <2> DEFINE P == EntriesOf(rs, o)
  <2>1. ASSUME NEW i \in 1..Len(ts) PROVE Worth(ts, P, i) = Worth(rs, P, i)
    <3>1. CASE i \notin P
      BY <3>1 DEF Worth
    <3>2. CASE i \in P
      <4>1. i \in DOMAIN rs /\ i \notin EntriesBy(rs, c)
        BY <3>2, <1>5 DEF EntriesOf
      <4>2. ts[i].amount = rs[i].amount - 0 /\ rs[i].amount \in Nat
        BY <1>1, <1>2, <1>7, <4>1
      <4>3. QED
        BY <4>2 DEF Worth
    <3>3. QED
      BY <3>1, <3>2
  <2> HIDE DEF P
  <2>2. Upto(ts, P, Len(ts)) = Upto(rs, P, Len(ts))
    BY <1>1, <1>2, <2>1, SameWorth
  <2>3. AmountOf(ts, P) = AmountOf(rs, P)
    BY <1>1, <1>2, <2>2, UptoIs
  <2>4. QED
    BY <1>11, <2>3 DEF P, SumOf
<1>14. QED
  BY <1>9, <1>10, <1>12, <1>13 DEF q

LEMMA LoweredFacts ==
  ASSUME NEW rs \in Seq(Reduction), NEW p \in Powers, NEW c \in Creatures, NEW n \in Nat \ {0}, NEW s \in Sources
  PROVE  LET q == Lowered(rs, p, c, n, s)
         IN  /\ q \in Seq(Reduction)
             /\ \A j \in DOMAIN q : \/ q[j].power = p /\ q[j].creature = c
                                    \/ \E i \in DOMAIN rs : q[j].power = rs[i].power /\ q[j].creature = rs[i].creature
             /\ SumOf(q, p) = SumOf(rs, p) + n
             /\ \A o \in Powers \ {p} : SumOf(q, o) = SumOf(rs, o)
<1> DEFINE q == Lowered(rs, p, c, n, s)
<1>1. /\ rs \in Seq(Entry) /\ Len(rs) \in Nat /\ DOMAIN rs = 1..Len(rs)
      /\ \A i \in DOMAIN rs : rs[i] \in Reduction /\ rs[i].amount \in Nat \ {0}
  BY ReductionsFacts
<1>2. CASE Matching(rs, p, c, s) = {}
  <2> DEFINE e == [power |-> p, creature |-> c, amount |-> n, source |-> s]
  <2>1. q = Append(rs, e) /\ e \in Entry /\ e \in Reduction
    BY <1>2 DEF Lowered, Entry, Reduction
  <2> HIDE DEF q
  <2>2. /\ q \in Seq(Reduction) /\ Len(q) = Len(rs) + 1 /\ DOMAIN q = 1..(Len(rs) + 1)
        /\ \A i \in 1..Len(rs) : q[i] = rs[i]
        /\ q[Len(rs) + 1] = e
    BY <1>1, <2>1, AppendProperties, ReductionsFacts
  <2>3. ASSUME NEW o \in Powers PROVE SumOf(q, o) = SumOf(rs, o) + Worth(q, EntriesOf(q, o), Len(rs) + 1)
    <3>1. \A i \in DOMAIN rs : i \in EntriesOf(rs, o) <=> i \in EntriesOf(q, o)
      BY <1>1, <2>2 DEF EntriesOf
    <3>2. QED
      BY <1>1, <2>1, <3>1, OneEntryMore DEF SumOf
  <2>4. /\ Worth(q, EntriesOf(q, p), Len(rs) + 1) = n
        /\ \A o \in Powers \ {p} : Worth(q, EntriesOf(q, o), Len(rs) + 1) = 0
    BY <1>1, <2>2 DEF Worth, EntriesOf
  <2>5. \A o : SumOf(rs, o) \in Nat
    BY <1>1, UptoNat DEF SumOf
  <2>6. \A o \in Powers \ {p} : SumOf(q, o) = SumOf(rs, o)
    BY <2>3, <2>4, <2>5
  <2>7. \A j \in DOMAIN q : \/ q[j].power = p /\ q[j].creature = c
                            \/ \E i \in DOMAIN rs : q[j].power = rs[i].power /\ q[j].creature = rs[i].creature
    BY <1>1, <2>2
  <2>8. QED
    BY <2>2, <2>3, <2>4, <2>6, <2>7 DEF q
<1>3. CASE Matching(rs, p, c, s) # {}
  <2> DEFINE m == Min(Matching(rs, p, c, s))
  <2>1. m \in DOMAIN rs /\ rs[m].power = p /\ rs[m].creature = c
    <3>1. Matching(rs, p, c, s) \in SUBSET Nat
      BY <1>1 DEF Matching
    <3>2. QED
      BY <1>3, <3>1, MinIsMember DEF Matching
  <2>2. q = [rs EXCEPT ![m].amount = @ + n]
    BY <1>3 DEF Lowered
  <2> HIDE DEF m, q
  <2>3. \A i \in DOMAIN rs : q[i] = IF i = m THEN [rs[m] EXCEPT !.amount = rs[m].amount + n] ELSE rs[i]
    BY <2>1, <2>2
  <2>4. /\ q[m].power = p /\ q[m].creature = c /\ q[m].amount = rs[m].amount + n
        /\ q[m] \in Reduction
    <3>1. q[m] = [rs[m] EXCEPT !.amount = rs[m].amount + n] /\ rs[m] \in Reduction
      BY <1>1, <2>1, <2>3
    <3>2. rs[m].amount + n \in Nat \ {0}
      BY <1>1, <2>1
    <3>3. QED
      BY <2>1, <3>1, <3>2 DEF Reduction
  <2>5. q \in Seq(Reduction) /\ Len(q) = Len(rs) /\ DOMAIN q = DOMAIN rs
    <3>1. q \in [1..Len(rs) -> Reduction]
      BY <1>1, <2>2, <2>3, <2>4
    <3>2. QED
      BY <1>1, <3>1, SeqDef
  <2>6. q \in Seq(Entry)
    BY <2>5, ReductionsFacts
  <2>7. \A o : EntriesOf(q, o) = EntriesOf(rs, o)
    BY <2>1, <2>3, <2>4, <2>5 DEF EntriesOf
  <2>8. SumOf(q, p) = SumOf(rs, p) + n
    <3> DEFINE P == EntriesOf(rs, p)
    <3>1. \A i \in DOMAIN rs \ {m} : Worth(q, P, i) = Worth(rs, P, i)
      BY <2>3 DEF Worth
    <3>2. Worth(q, P, m) = Worth(rs, P, m) + n
      BY <2>1, <2>4 DEF Worth, EntriesOf
    <3>3. QED
      BY <1>1, <2>1, <2>5, <2>6, <2>7, <3>1, <3>2, OneEntryLarger DEF SumOf
  <2>9. ASSUME NEW o \in Powers \ {p} PROVE SumOf(q, o) = SumOf(rs, o)
    <3> DEFINE P == EntriesOf(rs, o)
    <3>1. \A i \in 1..Len(rs) : Worth(q, P, i) = Worth(rs, P, i)
      BY <1>1, <2>1, <2>3 DEF Worth, EntriesOf
    <3> HIDE DEF P
    <3>2. Upto(q, P, Len(rs)) = Upto(rs, P, Len(rs))
      BY <1>1, <2>5, <2>6, <3>1, SameWorth
    <3>3. AmountOf(q, P) = AmountOf(rs, P)
      BY <1>1, <2>5, <2>6, <3>2, UptoIs
    <3>4. QED
      BY <2>7, <3>3 DEF P, SumOf
  <2>10. \A j \in DOMAIN q : \/ q[j].power = p /\ q[j].creature = c
                             \/ \E i \in DOMAIN rs : q[j].power = rs[i].power /\ q[j].creature = rs[i].creature
    BY <2>3, <2>4, <2>5
  <2>11. QED
    BY <2>5, <2>8, <2>9, <2>10 DEF q
<1>4. QED
  BY <1>2, <1>3

LEMMA ShiftedFacts ==
  ASSUME NEW rs \in Seq(Reduction), NEW p \in Powers, NEW c \in Creatures, NEW delta \in Int, NEW s \in Sources,
         \A i \in DOMAIN rs : rs[i].creature = c <=> rs[i].power = p
  PROVE  LET q == Shifted(rs, p, c, delta, s)
         IN  /\ q \in Seq(Reduction)
             /\ \A j \in DOMAIN q : \/ q[j].power = p /\ q[j].creature = c
                                    \/ \E i \in DOMAIN rs : q[j].power = rs[i].power /\ q[j].creature = rs[i].creature
             /\ SumOf(q, p) = Whole(SumOf(rs, p) - delta)
             /\ \A o \in Powers \ {p} : SumOf(q, o) = SumOf(rs, o)
<1>1. CASE delta < 0
  <2>1. -delta \in Nat \ {0}
    BY <1>1
  <2>2. Shifted(rs, p, c, delta, s) = Lowered(rs, p, c, -delta, s)
    BY <1>1 DEF Shifted
  <2>3. SumOf(rs, p) \in Nat
    BY ReductionsFacts, UptoNat DEF SumOf
  <2>4. SumOf(rs, p) + (-delta) = Whole(SumOf(rs, p) - delta)
    BY <1>1, <2>3 DEF Whole
  <2>5. QED
    BY <2>1, <2>2, <2>4, LoweredFacts
<1>2. CASE ~(delta < 0)
  <2>1. delta \in Nat /\ Shifted(rs, p, c, delta, s) = Raised(rs, c, delta)
    BY <1>2 DEF Shifted
  <2>2. QED
    BY <2>1, RaisedFacts DEF ComesFrom
<1>3. QED
  BY <1>1, <1>2

----------------------------------------------------------------------------
(***************************************************************************)
(* Reductions are of trusted Strength powers, and add up.                  *)
(***************************************************************************)
\* The assumption: no two Strength powers the engine knows are of one enemy.
OneStrengthEach ==
  \A p, q \in DOMAIN powers \cap StrengthPowers : powers[p].owner = powers[q].owner => p = q

OfTrusted(rs) ==
  \A i \in DOMAIN rs :
    LET p == rs[i].power
    IN  /\ p \in DOMAIN powers \cap StrengthPowers
        /\ powers[p].trusted /\ powers[p].owner = rs[i].creature

Standing ==
  /\ reductions \in Seq(Reduction) /\ peak \in [Powers -> Int]
  /\ OfTrusted(reductions)
  /\ \A p \in StrengthPowers :
       /\ p \notin DOMAIN powers => peak[p] = 0
       /\ p \in DOMAIN powers /\ powers[p].trusted =>
            SumOf(reductions, p) = peak[p] - powers[p].observed

LEMMA StrengthArePowers == StrengthPowers \subseteq Powers
BY PowerConstants

LEMMA SumsAreNat ==
  ASSUME NEW rs \in Seq(Reduction), NEW p
  PROVE  SumOf(rs, p) \in Nat /\ (EntriesOf(rs, p) = {} => SumOf(rs, p) = 0)
BY ReductionsFacts, UptoNat, NoPlaces DEF SumOf

LEMMA NothingStands ==
  ASSUME reductions = <<>>, powers = [p \in {} |-> None], peak = [p \in Powers |-> 0]
  PROVE  Standing
<1>1. reductions \in Seq(Reduction) /\ DOMAIN reductions = {} /\ DOMAIN powers = {}
  BY EmptySeq
<1>2. QED
  BY <1>1, StrengthArePowers DEF Standing, OfTrusted

LEMMA SameStanding ==
  ASSUME Standing, UNCHANGED <<reductions, peak>>, DOMAIN powers' = DOMAIN powers,
         \A p \in DOMAIN powers : /\ powers'[p].owner = powers[p].owner
                                  /\ powers'[p].observed = powers[p].observed
                                  /\ powers'[p].trusted = powers[p].trusted
  PROVE  Standing'
BY DEF Standing, OfTrusted, SumOf

\* A power loses the engine's trust, or is no longer known.
LEMMA ForgettingStands ==
  ASSUME Standing, NEW p \in Powers, reductions' = Without(reductions, p), peak' = [peak EXCEPT ![p] = 0],
         DOMAIN powers' \subseteq DOMAIN powers, DOMAIN powers \ {p} \subseteq DOMAIN powers',
         p \in DOMAIN powers' => ~powers'[p].trusted,
         \A q \in DOMAIN powers \ {p} : powers'[q] = powers[q]
  PROVE  Standing'
<1>1. reductions \in Seq(Reduction) /\ peak \in [Powers -> Int]
  BY DEF Standing
<1>2. /\ reductions' \in Seq(Reduction)
      /\ \A j \in DOMAIN reductions' : \E i \in DOMAIN reductions :
           reductions'[j] = reductions[i] /\ reductions[i].power # p
      /\ \A o \in Powers \ {p} : SumOf(reductions', o) = SumOf(reductions, o)
  BY <1>1, WithoutFacts
<1>3. peak' \in [Powers -> Int] /\ peak'[p] = 0 /\ \A o \in Powers \ {p} : peak'[o] = peak[o]
  BY <1>1
<1>4. OfTrusted(reductions)'
  <2>1. ASSUME NEW j \in DOMAIN reductions'
        PROVE  LET o == reductions'[j].power
               IN  /\ o \in DOMAIN powers' \cap StrengthPowers
                   /\ powers'[o].trusted /\ powers'[o].owner = reductions'[j].creature
    <3>1. PICK i \in DOMAIN reductions : reductions'[j] = reductions[i] /\ reductions[i].power # p
      BY <1>2
    <3>2. QED
      BY <3>1 DEF Standing, OfTrusted
  <2>2. QED
    BY <2>1 DEF OfTrusted
<1>5. ASSUME NEW o \in StrengthPowers
      PROVE  /\ o \notin DOMAIN powers' => peak'[o] = 0
             /\ o \in DOMAIN powers' /\ powers'[o].trusted =>
                  SumOf(reductions', o) = peak'[o] - powers'[o].observed
  <2>1. CASE o = p
    BY <1>3, <2>1
  <2>2. CASE o # p
    <3>1. o \in Powers \ {p}
      BY <2>2, StrengthArePowers
    <3>2. QED
      BY <1>2, <1>3, <3>1 DEF Standing
  <2>3. QED
    BY <2>1, <2>2
<1>6. QED
  BY <1>2, <1>3, <1>4, <1>5 DEF Standing, SumOf

LEMMA InvalidatedStands ==
  ASSUME Standing, GoodPowers(powers), NEW p \in Powers, PowerInvalidated(p)
  PROVE  Standing'
<1>1. \A q \in DOMAIN powers : powers[q] \in PowerInfo
  BY DEF GoodPowers, GoodPower
<1>2. /\ DOMAIN powers' = DOMAIN powers
      /\ \A q \in DOMAIN powers : powers'[q] = IF q = p THEN [powers[q] EXCEPT !.trusted = FALSE] ELSE powers[q]
  BY DEF PowerInvalidated, Distrusted
<1>3. p \in DOMAIN powers => ~powers'[p].trusted
  BY <1>1, <1>2 DEF PowerInfo
<1>4. QED
  BY <1>2, <1>3, ForgettingStands DEF PowerInvalidated

LEMMA RemovedStands ==
  ASSUME Standing, NEW p \in Powers, PowerRemoved(p)
  PROVE  Standing'
<1>1. DOMAIN powers' = DOMAIN powers \ {p} /\ \A q \in DOMAIN powers \ {p} : powers'[q] = powers[q]
  BY DEF PowerRemoved
<1>2. QED
  BY <1>1, ForgettingStands DEF PowerRemoved

\* What a change is measured against: the highest amount, or after a drift the earlier one.
Measure(p, old) == IF Drifted(p, old) THEN Before(old) ELSE peak[p]

LEMMA HeldStands ==
  ASSUME Standing, NEW p \in StrengthPowers, NEW old \in Int \cup {None}
  PROVE  LET rs == HeldReductions(p, old)
         IN  /\ rs \in Seq(Reduction)
             /\ \A j \in DOMAIN rs : \E i \in DOMAIN reductions : rs[j] = reductions[i]
             /\ SumOf(rs, p) = Measure(p, old) - Before(old)
             /\ Measure(p, old) \in Int
             /\ \A o \in Powers \ {p} : SumOf(rs, o) = SumOf(reductions, o)
             /\ p \notin DOMAIN powers => EntriesOf(rs, p) = {}
<1>0. p \in Powers /\ Before(old) \in Int /\ peak[p] \in Int /\ reductions \in Seq(Reduction)
  BY StrengthArePowers, PowerConstants DEF Before, Standing
<1>1. p \notin DOMAIN powers => EntriesOf(reductions, p) = {}
  BY DEF Standing, OfTrusted, EntriesOf
<1>2. CASE Drifted(p, old)
  <2> DEFINE rs == Without(reductions, p)
  <2>1. /\ rs \in Seq(Reduction)
        /\ \A j \in DOMAIN rs : \E i \in DOMAIN reductions : rs[j] = reductions[i] /\ reductions[i].power # p
        /\ SumOf(rs, p) = 0
        /\ \A o \in Powers \ {p} : SumOf(rs, o) = SumOf(reductions, o)
    BY <1>0, WithoutFacts
  <2>2. EntriesOf(rs, p) = {}
    BY <2>1 DEF EntriesOf
  <2>3. HeldReductions(p, old) = rs /\ Measure(p, old) = Before(old)
    BY <1>2 DEF HeldReductions, Measure
  <2> HIDE DEF rs
  <2>4. QED
    BY <1>0, <2>1, <2>2, <2>3
<1>3. CASE ~Drifted(p, old)
  <2>1. HeldReductions(p, old) = reductions /\ Measure(p, old) = peak[p]
    BY <1>3 DEF HeldReductions, Measure
  <2>2. SumOf(reductions, p) = peak[p] - Before(old)
    <3>1. CASE p \in DOMAIN powers
      BY <1>3, <3>1 DEF Drifted, Standing
    <3>2. CASE p \notin DOMAIN powers
      <4>1. Before(old) = 0 /\ peak[p] = 0
        BY <1>3, <3>2 DEF Drifted, Before, Standing
      <4>2. QED
        BY <1>0, <1>1, <3>2, <4>1, SumsAreNat
    <3>3. QED
      BY <3>1, <3>2
  <2>3. QED
    BY <1>0, <1>1, <2>1, <2>2
<1>4. QED
  BY <1>2, <1>3

LEMMA AcceptedStands ==
  ASSUME Standing, OneStrengthEach', NEW p \in Powers, NEW owner \in Creatures, NEW old \in Int \cup {None},
         NEW new \in Int, NEW s \in Sources, Accept(p, owner, old, new, s)
  PROVE  Standing'
<1>1. /\ DOMAIN powers' = DOMAIN powers \cup {p}
      /\ powers'[p].owner = owner /\ powers'[p].observed = new /\ powers'[p].trusted
      /\ \A q \in DOMAIN powers \ {p} : powers'[q] = powers[q]
      /\ p \in DOMAIN powers => powers[p].owner = owner
  BY DEF Accept, Refused
<1>2. Before(old) \in Int /\ reductions \in Seq(Reduction) /\ peak \in [Powers -> Int]
  BY PowerConstants DEF Before, Standing
<1>3. CASE p \notin StrengthPowers
  <2>1. reductions' = reductions /\ peak' = peak
    BY <1>3 DEF Accept
  <2>2. QED
    BY <1>1, <1>3, <2>1 DEF Standing, OfTrusted, SumOf
<1>4. CASE p \in StrengthPowers
  <2> DEFINE rs    == HeldReductions(p, old)
             delta == new - Before(old)
             top   == Measure(p, old)
  <2>1. /\ reductions' = Shifted(rs, p, owner, delta, s)
        /\ peak' = [peak EXCEPT ![p] = Max({new, top})]
    BY <1>2, <1>4 DEF Accept, Measure
  <2>2. /\ rs \in Seq(Reduction)
        /\ \A j \in DOMAIN rs : \E i \in DOMAIN reductions : rs[j] = reductions[i]
        /\ SumOf(rs, p) = top - Before(old)
        /\ top \in Int
        /\ \A o \in Powers \ {p} : SumOf(rs, o) = SumOf(reductions, o)
        /\ p \notin DOMAIN powers => EntriesOf(rs, p) = {}
    BY <1>4, HeldStands
  <2> HIDE DEF rs, top
  <2>3. OfTrusted(rs)
    BY <2>2 DEF Standing, OfTrusted
  <2>4. ASSUME NEW i \in DOMAIN rs PROVE rs[i].creature = owner <=> rs[i].power = p
    <3> DEFINE q == rs[i].power
    <3>1. q \in DOMAIN powers \cap StrengthPowers /\ powers[q].owner = rs[i].creature
      BY <2>3 DEF OfTrusted
    <3>2. q = p => rs[i].creature = owner
      BY <1>1, <3>1
    <3>3. ASSUME rs[i].creature = owner PROVE q = p
      <4>1. q # p => powers'[q].owner = powers'[p].owner
        BY <1>1, <3>1, <3>3
      <4>2. q \in DOMAIN powers' \cap StrengthPowers /\ p \in DOMAIN powers' \cap StrengthPowers
        BY <1>1, <1>4, <3>1
      <4>3. QED
        BY <4>1, <4>2 DEF OneStrengthEach
    <3>4. QED
      BY <3>2, <3>3
  <2>5. delta \in Int
    BY <1>2
  <2>6. /\ reductions' \in Seq(Reduction)
        /\ \A j \in DOMAIN reductions' :
             \/ reductions'[j].power = p /\ reductions'[j].creature = owner
             \/ \E i \in DOMAIN rs : /\ reductions'[j].power = rs[i].power
                                     /\ reductions'[j].creature = rs[i].creature
        /\ SumOf(reductions', p) = Whole(SumOf(rs, p) - delta)
        /\ \A o \in Powers \ {p} : SumOf(reductions', o) = SumOf(rs, o)
    <3> HIDE DEF delta
    <3>1. QED
      BY <2>1, <2>2, <2>4, <2>5, ShiftedFacts
  <2>7. /\ peak' \in [Powers -> Int] /\ \A o \in Powers \ {p} : peak'[o] = peak[o]
        /\ peak'[p] = IF new >= top THEN new ELSE top
    BY <1>2, <2>1, <2>2, LargerOf
  <2>8. SumOf(reductions', p) = peak'[p] - new
    <3>1. SumOf(rs, p) - delta = top - new
      BY <1>2, <2>2
    <3>2. Whole(top - new) = (IF new >= top THEN new ELSE top) - new
      BY <2>2 DEF Whole
    <3>3. QED
      BY <2>6, <2>7, <3>1, <3>2
  <2>9. OfTrusted(reductions)'
    <3>1. ASSUME NEW j \in DOMAIN reductions'
          PROVE  LET o == reductions'[j].power
                 IN  /\ o \in DOMAIN powers' \cap StrengthPowers
                     /\ powers'[o].trusted /\ powers'[o].owner = reductions'[j].creature
      <4>1. CASE reductions'[j].power = p /\ reductions'[j].creature = owner
        BY <1>1, <1>4, <4>1
      <4>2. ASSUME NEW i \in DOMAIN rs, reductions'[j].power = rs[i].power,
                   reductions'[j].creature = rs[i].creature, rs[i].power # p
            PROVE  LET o == reductions'[j].power
                   IN  /\ o \in DOMAIN powers' \cap StrengthPowers
                       /\ powers'[o].trusted /\ powers'[o].owner = reductions'[j].creature
        BY <1>1, <2>3, <4>2 DEF OfTrusted
      <4>3. QED
        BY <2>4, <2>6, <4>1, <4>2
    <3>2. QED
      BY <3>1 DEF OfTrusted
  <2>10. ASSUME NEW o \in StrengthPowers
         PROVE  /\ o \notin DOMAIN powers' => peak'[o] = 0
                /\ o \in DOMAIN powers' /\ powers'[o].trusted =>
                     SumOf(reductions', o) = peak'[o] - powers'[o].observed
    <3>1. CASE o = p
      BY <1>1, <2>8, <3>1
    <3>2. CASE o # p
      <4>1. o \in Powers \ {p}
        BY <3>2, StrengthArePowers
      <4>2. QED
        BY <1>1, <2>2, <2>6, <2>7, <4>1 DEF Standing
    <3>3. QED
      BY <3>1, <3>2
  <2>11. QED
    BY <2>6, <2>7, <2>9, <2>10 DEF Standing, SumOf
<1>5. QED
  BY <1>3, <1>4

LEMMA ChangeStands ==
  ASSUME Standing, GoodPowers(powers), OneStrengthEach', NEW p \in Powers, NEW owner \in Creatures,
         NEW old \in Int \cup {None}, NEW new \in Int, NEW s \in Sources,
         Accept(p, owner, old, new, s) \/ Refuse(p, owner, old, new, s)
  PROVE  Standing'
BY AcceptedStands, InvalidatedStands DEF Refuse

LEMMA StandingIsEnough == Standing => StandingReductions
BY DEF Standing, OfTrusted, StandingReductions, SumOf

LEMMA StepStands == IInv /\ Standing /\ OneStrengthEach' /\ [Next]_vars => Standing'
<1> SUFFICES ASSUME IInv, Standing, OneStrengthEach', [Next]_vars PROVE Standing'
  OBVIOUS
<1>0. GoodPowers(powers) /\ \A p \in DOMAIN powers : powers[p] \in PowerInfo
  BY DEF IInv, GoodPowers, GoodPower
<1>1. CASE Change
  <2>1. PICK p \in Powers, owner \in Creatures, new \in Amounts, s \in Inputs :
          \/ PowerAttached(p, owner, new, s)
          \/ \E old \in Amounts : PowerAmountChanged(p, owner, old, new, s)
    BY <1>1 DEF Change
  <2>2. PICK old \in Amounts \cup {None} : Accept(p, owner, old, new, s) \/ Refuse(p, owner, old, new, s)
    BY <2>1 DEF PowerAttached, PowerAmountChanged
  <2>3. old \in Int \cup {None} /\ new \in Int /\ s \in Sources
    BY PowerConstants DEF Amounts
  <2>4. QED
    BY <1>0, <2>2, <2>3, ChangeStands
<1>2. ASSUME NEW p \in Powers, PowerInvalidate(p) PROVE Standing'
  BY <1>0, <1>2, InvalidatedStands DEF PowerInvalidate
<1>3. ASSUME NEW p \in Powers, PowerRemoved(p) PROVE Standing'
  BY <1>3, RemovedStands
<1>4. CASE UNCHANGED <<powers, reductions, peak>>
  BY <1>4, SameStanding
<1>5. ASSUME NEW b \in DOMAIN batches, NEW booked \in BOOLEAN, DoomKillsCompleted(b, booked) PROVE Standing'
  <2>1. UNCHANGED <<reductions, peak>>
    BY <1>5 DEF DoomKillsCompleted
  <2>2. powers' = powers \/ powers' = [p \in DOMAIN powers |-> Spent(batches[b].targets, p)]
    BY <1>5 DEF DoomKillsCompleted
  <2>3. \A p \in DOMAIN powers : LET w == Spent(batches[b].targets, p)
                                 IN  /\ w.owner = powers[p].owner /\ w.observed = powers[p].observed
                                     /\ w.trusted = powers[p].trusted
    BY <1>0 DEF Spent, PowerInfo
  <2>4. QED
    BY <2>1, <2>2, <2>3, SameStanding
<1>6. CASE DoomBatchBegin \/ Capture \/ Stale \/ UNCHANGED vars
  BY <1>4, <1>6 DEF DoomBatchBegin, Capture, DoomTargetCapture, Stale, vars
<1>7. ASSUME NEW b \in DOMAIN batches, DoomBatchAbort(b) PROVE Standing'
  BY <1>4, <1>7 DEF DoomBatchAbort
<1>8. CASE CombatStarted
  <2>1. reductions' = <<>> /\ powers' = [p \in {} |-> None] /\ peak' = [p \in Powers |-> 0]
    BY <1>8 DEF CombatStarted
  <2>2. reductions' \in Seq(Reduction) /\ DOMAIN reductions' = {} /\ DOMAIN powers' = {}
    BY <2>1, EmptySeq
  <2>3. QED
    BY <2>1, <2>2, StrengthArePowers DEF Standing, OfTrusted
<1>9. QED
  BY <1>1, <1>2, <1>3, <1>5, <1>6, <1>7, <1>8 DEF Next

(***************************************************************************)
(* StandingReductions (strength_transition, power.rs:235-281): the         *)
(* reductions of a trusted Strength power add up to what it is below its   *)
(* highest amount, however falls, rises over several merged entries,       *)
(* drifts, refusals and removals follow each other, and an entry outlives  *)
(* neither its power nor the trust in it; as long as no two Strength       *)
(* powers the engine knows are of one enemy.                               *)
(***************************************************************************)
THEOREM ReductionsStand == Spec /\ []OneStrengthEach => []StandingReductions
<1>1. Init => Standing
  BY NothingStands DEF Init
<1>2. QED
  BY <1>1, PowersInvariant, StepStands, StandingIsEnough, PTL DEF Spec

\* What the patches tell the engine: a change, an invalidation or a removal of one power.
LEMMA CaptureTells ==
  ASSUME Base, [CaptureNext]_captureVars
  PROVE  \/ UNCHANGED <<powers, reductions, peak>>
         \/ \E p \in Powers : \/ PowerInvalidated(p) \/ PowerRemoved(p)
                              \/ \E owner \in Creatures, old \in Int \cup {None}, new \in Int, s \in Sources :
                                   Accept(p, owner, old, new, s) \/ Refuse(p, owner, old, new, s)
<1> DEFINE Idle == UNCHANGED <<powers, reductions, peak>>
<1>1. Fail => Idle
  BY DEF Fail, Stale
<1>2. CallFails => Idle
  BY <1>1 DEF CallFails
<1>3. UNCHANGED vars => Idle
  BY DEF vars
<1>4. ASSUME NEW op \in Operations, NEW p \in Powers, NEW s \in Inputs, NEW seen \in BOOLEAN,
             MutationPrefix(op, p, s, seen)
      PROVE  Idle
  BY <1>1, <1>3, <1>4 DEF MutationPrefix
<1>5. CASE Original
  BY <1>3, <1>5 DEF Original
<1>6. ASSUME NEW reads \in BOOLEAN, MutationFinalizer(reads) PROVE Idle
  BY <1>1, <1>3, <1>6 DEF MutationFinalizer
<1>7. CASE Unseen
  BY <1>1, <1>7 DEF Unseen
<1>8. CASE ClearPriorDirty
  <2>1. Top.power \in Powers
    BY <1>8, TopFacts DEF ClearPriorDirty, At
  <2>2. QED
    BY <1>2, <1>8, <2>1 DEF ClearPriorDirty, PowerInvalidate
<1>9. CASE Report
  <2>1. /\ frames # <<>> /\ bearer[Top.power] \in Creatures /\ Old(Top) \in Int \cup {None}
    BY <1>9, ReportFacts
  <2>2. Top.power \in Powers /\ Top.source \in Sources /\ amount[Top.power] \in Int
    BY <2>1, TopFacts, AmountsAreInt DEF Base, GameOk
  <2>3. \/ Accept(Top.power, bearer[Top.power], Old(Top), amount[Top.power], Top.source)
        \/ Refuse(Top.power, bearer[Top.power], Old(Top), amount[Top.power], Top.source)
        \/ CallFails
    BY <1>9 DEF Report, Old
  <2>4. QED
    BY <1>2, <2>1, <2>2, <2>3
<1>10. CASE ReportRemoval
  <2>1. Top.power \in Powers
    BY <1>10, TopFacts DEF ReportRemoval, At
  <2>2. QED
    BY <1>1, <1>2, <1>10, <2>1 DEF ReportRemoval
<1>11. CASE Invalidate
  <2>1. Top.power \in Powers
    BY <1>11, TopFacts DEF Invalidate, At
  <2>2. QED
    BY <1>1, <1>11, <2>1 DEF Invalidate, PowerInvalidate
<1>12. CASE UNCHANGED captureVars
  BY <1>3, <1>12 DEF captureVars
<1>13. QED
  BY <1>4, <1>5, <1>6, <1>7, <1>8, <1>9, <1>10, <1>11, <1>12 DEF CaptureNext

LEMMA CaptureStepStands == Base /\ Standing /\ OneStrengthEach' /\ [CaptureNext]_captureVars => Standing'
<1> SUFFICES ASSUME Base, Standing, OneStrengthEach', [CaptureNext]_captureVars PROVE Standing'
  OBVIOUS
<1>1. GoodPowers(powers)
  BY DEF Base
<1>2. CASE UNCHANGED <<powers, reductions, peak>>
  BY <1>2, SameStanding
<1>3. ASSUME NEW p \in Powers, PowerInvalidated(p) \/ PowerRemoved(p) PROVE Standing'
  BY <1>1, <1>3, InvalidatedStands, RemovedStands
<1>4. ASSUME NEW p \in Powers, NEW owner \in Creatures, NEW old \in Int \cup {None}, NEW new \in Int,
             NEW s \in Sources, Accept(p, owner, old, new, s) \/ Refuse(p, owner, old, new, s)
      PROVE  Standing'
  BY <1>1, <1>4, ChangeStands
<1>5. QED
  BY <1>2, <1>3, <1>4, CaptureTells

(***************************************************************************)
(* The same of what the patches report: also with calls nested to any      *)
(* depth, changes that escape them, and native calls that fail or are      *)
(* refused.                                                                *)
(***************************************************************************)
THEOREM ReportedReductionsStand == CaptureSpec /\ []OneStrengthEach => []StandingReductions
<1>1. CaptureInit => Standing
  BY NothingStands DEF CaptureInit, Init
<1>2. QED
  BY <1>1, CaptureBase, CaptureStepStands, StandingIsEnough, PTL DEF CaptureSpec
=============================================================================
