------------------------------- MODULE MCPools -------------------------------
EXTENDS Pools

CONSTANTS r1, r2

Alone == <<[to |-> r1, weight |-> 1]>>
Both  == <<[to |-> r1, weight |-> 2], [to |-> r2, weight |-> 1]>>

MCSnapshots == {Alone, Both}

MCModifiers ==
  {<<>>,
   <<[source |-> Both, amount |-> 2]>>,
   <<[source |-> Alone, amount |-> 1], [source |-> Both, amount |-> 1]>>}

\* Bounds: a combat in which block was gained has no Osty and had none that credited
\* anybody, for the two share no pool; and in one without block a row is credited or
\* debited at most two points.
OneDefence ==
  IF blockTotal = 0 THEN \A r \in DOMAIN ledger : ledger[r].effective \in (-2)..2
  ELSE /\ Osty \notin DOMAIN ledger
       /\ \A s \in DOMAIN pools : pools[s].osty = <<>>
       /\ \A r \in Roots : ledger[r].effective \in 0..(ledger[r].gained + 1)
=============================================================================
