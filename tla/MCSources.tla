----------------------------- MODULE MCSources -----------------------------
EXTENDS Sources

CONSTANTS r1, r2

MCSnapshots ==
  {<<[to |-> r1, weight |-> 1]>>,
   <<[to |-> r1, weight |-> 1], [to |-> r2, weight |-> 1]>>}
=============================================================================
