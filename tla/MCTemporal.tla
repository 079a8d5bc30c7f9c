----------------------------- MODULE MCTemporal -----------------------------
EXTENDS Temporal

CONSTANTS r1, r2, f1, p, card

MCSnapshots ==
  {<<[to |-> r1, weight |-> 1]>>,
   <<[to |-> r1, weight |-> 1], [to |-> r2, weight |-> 1]>>}

MCKeys == {<<p, card>>, <<p, NoCard>>}

MCHolders == {f1} \cup MCKeys

MCAmounts == {-3, 1, 2}

MCInts == -3..2
=============================================================================
