------------------------------ MODULE Mixtures ------------------------------
(***************************************************************************)
(* Sources of the attribution engine as it keeps them: destinations with   *)
(* whole weights, in the order they were first seen, reduced by their      *)
(* greatest common divisor, profiler-core/src/data/source/snapshot.rs.     *)
(***************************************************************************)
EXTENDS Apportion, SequencesExt

CONSTANTS
  MaxShares,   \* SOURCE_DESTINATIONS
  MaxTotal,    \* u64::MAX, the largest sum of the weights
  Refused      \* the result of a combination that was refused

Targets(source) == [i \in DOMAIN source |-> source[i].to]

WeightSum(source) == Total([i \in DOMAIN source |-> source[i].weight])

\* The weight a source gives to a destination, 0 if it does not name it.
WeightOf(source, to) ==
  Total([i \in DOMAIN source |-> IF source[i].to = to THEN source[i].weight ELSE 0])

\* Destinations in the order they are first seen.
FirstSeen(targets) ==
  LET seen[n \in 0..Len(targets)] ==
        IF n = 0 THEN << >>
        ELSE IF targets[n] \in Range(seen[n - 1]) THEN seen[n - 1]
        ELSE Append(seen[n - 1], targets[n])
  IN  seen[Len(targets)]

CommonDivisor(S) ==
  LET common == {d \in UNION {1..n : n \in S} : \A n \in S : n % d = 0}
  IN  CHOOSE d \in common : \A e \in common : e <= d

Reduced(source) ==
  LET d == CommonDivisor({source[i].weight : i \in DOMAIN source})
  IN  [i \in DOMAIN source |-> [to |-> source[i].to, weight |-> source[i].weight \div d]]

\* Mutant: the weights of the two sources are taken as they are.
CombinedAsTheyAre(first, amount, second, added) ==
  LET order == FirstSeen(Targets(first) \o Targets(second))
  IN  Reduced([i \in DOMAIN order |->
                 [to |-> order[i],
                  weight |-> WeightOf(first, order[i]) * amount + WeightOf(second, order[i]) * added]])

\* SourceSnapshot::combine: amount parts of the first and added parts of the second.
Combined(first, amount, second, added) ==
  LET divisor == CommonDivisor({WeightSum(first), WeightSum(second)})
      mine == amount * (WeightSum(second) \div divisor)
      theirs == added * (WeightSum(first) \div divisor)
      order == FirstSeen(Targets(first) \o Targets(second))
      mixed == Reduced([i \in DOMAIN order |->
                 [to |-> order[i],
                  weight |-> WeightOf(first, order[i]) * mine + WeightOf(second, order[i]) * theirs]])
  IN  IF Len(order) > MaxShares \/ WeightSum(mixed) > MaxTotal THEN Refused ELSE mixed

\* SourceSnapshot::mixture of grants, one after the other over a running denominator.
Joined(m, order, old, new, grant) ==
  LET weight(to) == WeightOf(m.entries, to) * old + WeightOf(grant.source, to) * grant.remaining * new
      common == CommonDivisor({m.denominator * old} \cup {weight(order[i]) : i \in DOMAIN order})
  IN  [denominator |-> (m.denominator * old) \div common,
       entries |-> [i \in DOMAIN order |-> [to |-> order[i], weight |-> weight(order[i]) \div common]]]

JoinedBy(m, grant, divisor) ==
  Joined(m, FirstSeen(Targets(m.entries) \o Targets(grant.source)),
         WeightSum(grant.source) \div divisor, m.denominator \div divisor, grant)

MixtureOf(grants) ==
  Reduced(FoldLeft(LAMBDA m, grant :
                     JoinedBy(m, grant, CommonDivisor({m.denominator, WeightSum(grant.source)})),
                   [denominator |-> 1, entries |-> << >>], grants).entries)
=============================================================================
