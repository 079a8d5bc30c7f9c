------------------------------ MODULE Apportion ------------------------------
(***************************************************************************)
(* How the attribution engine splits an amount among weighted shares,      *)
(* profiler-core/src/data/source/snapshot.rs.  Weights and results are     *)
(* sequences of naturals, one entry per share.                             *)
(***************************************************************************)
EXTENDS Integers, Sequences

Cumulative(w, n) ==
  LET sum[i \in 0..Len(w)] == IF i = 0 THEN 0 ELSE sum[i - 1] + w[i]
  IN  sum[n]

Total(w) == Cumulative(w, Len(w))

Nothing(w) == [i \in DOMAIN w |-> 0]

\* RootBudgets::proportional: the differences of the cumulative floors.
Proportional(amount, w) ==
  IF Total(w) = 0 THEN Nothing(w)
  ELSE [i \in DOMAIN w |-> (amount * Cumulative(w, i)) \div Total(w)
                           - (amount * Cumulative(w, i - 1)) \div Total(w)]

(***************************************************************************)
(* SourcePrefix::allocation: every share has the floor of its quota, and   *)
(* the rest goes one by one to the share with the highest quotient, the    *)
(* later one of two equal ones.                                            *)
(***************************************************************************)
Floors(total, w) == [i \in DOMAIN w |-> (total * w[i]) \div Total(w)]

Ahead(c, w, i, j) ==
  \/ w[j] * (c[i] + 1) > w[i] * (c[j] + 1)
  \/ w[j] * (c[i] + 1) = w[i] * (c[j] + 1) /\ j > i

Winner(c, w) == CHOOSE j \in DOMAIN w : \A i \in DOMAIN w \ {j} : Ahead(c, w, i, j)

Seated(c, w) ==
  LET winner == Winner(c, w)
  IN  [i \in DOMAIN w |-> c[i] + (IF i = winner THEN 1 ELSE 0)]

Prefix(total, w) ==
  IF Total(w) = 0 THEN Nothing(w)
  ELSE LET floors == Floors(total, w)
           missing == total - Total(floors)
           seats[k \in 0..missing] == IF k = 0 THEN floors ELSE Seated(seats[k - 1], w)
       IN  seats[missing]
=============================================================================
