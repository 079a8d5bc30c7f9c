------------------------------- MODULE Points -------------------------------
(***************************************************************************)
(* What the block and Osty pools of the attribution engine promise: every  *)
(* point of defence is born with the row and the field it will be credited *)
(* to.  A hit takes the oldest points of block and the newest points of    *)
(* Osty and credits each to its own row, so that how a hit is cut into     *)
(* smaller ones decides nothing; a call either does all it should or       *)
(* nothing; and what the pools cannot explain is credited to no supplier,  *)
(* and for block it is said so.                                            *)
(* It is the queue of single points which the tests of the pools compare   *)
(* them with, profiler-core/src/data/source/block_tests.rs.                *)
(***************************************************************************)
EXTENDS Integers, SequencesExt

CONSTANTS
  Slots,         \* the players, and the team
  Rows,          \* the rows of the ledger
  UnknownOf(_),  \* the row of a slot that stands for no known supplier
  Team,          \* the slot of what belongs to no player
  OstyRow,       \* the row of Osty itself
  MaxPoints      \* bound on the points of one call

VARIABLES
  block,   \* the points of block of every slot, the oldest first
  osty,    \* the points of Osty of every slot, the oldest first
  ledger,  \* what every row has been credited
  told     \* has a failure been reported?

vars == <<block, osty, ledger, told>>

Numbers == 0..MaxPoints
Labels  == [to : Rows, field : {"effective", "modifier"}]
Credits == [gained : Int, effective : Int, modifier : Int]

Init ==
  /\ block = [s \in Slots |-> <<>>]
  /\ osty = [s \in Slots |-> <<>>]
  /\ ledger = [r \in Rows |-> [gained |-> 0, effective |-> 0, modifier |-> 0]]
  /\ told = FALSE

Lower(m, n) == IF m < n THEN m ELSE n

\* How many of the labels in q credit field f of row r.
Count(q, r, f) == Len(SelectSeq(q, LAMBDA l : l.to = r /\ l.field = f))

OfAll(f(_)) == SumFunction([r \in Rows |-> f(r)])

Unexplained(s) == [to |-> UnknownOf(s), field |-> "effective"]

\* Points are added behind the ones there are, each with its label.
Adds(s, n) ==
  /\ Len(block'[s]) = Len(block[s]) + n
  /\ \A i \in DOMAIN block'[s] : block'[s][i] \in Labels
  /\ IsPrefix(block[s], block'[s])

\* A pool that is full forgets the suppliers of its newest points, and says so.
Forgets(s, n) ==
  /\ Len(block'[s]) = Len(block[s]) + n
  /\ \E k \in 0..Len(block[s]) :
        \A i \in DOMAIN block'[s] :
           block'[s][i] = IF i <= k THEN block[s][i] ELSE Unexplained(s)
  /\ told'

\* Block is gained: the points are added, and their producer is credited the gain.
Gain ==
  \E s \in Slots, n \in Numbers \ {0} :
    /\ Adds(s, n) \/ Forgets(s, n)
    /\ block' = [block EXCEPT ![s] = block'[s]]
    /\ \A r \in Rows : /\ ledger'[r].gained >= ledger[r].gained
                       /\ ledger' [r] = [ledger[r] EXCEPT !.gained = ledger'[r].gained]
    /\ OfAll(LAMBDA r : ledger'[r].gained - ledger[r].gained) = n
    /\ told => told'
    /\ UNCHANGED osty

\* What row r was credited in field f, and how much of it the points taken explain.
Rise(r, f) == ledger'[r][f] - ledger[r][f]

Taken(s)  == SubSeq(block[s], 1, Len(block[s]) - Len(block'[s]))
Popped(s) == SubSeq(osty[s], Len(osty'[s]) + 1, Len(osty[s]))

\* Hits take points, and each point credits its row.  A hit goes beyond the points
\* only when there are none left: of block for a receiver's Unknown row, and it is
\* reported; of Osty for its own row, or nobody's.
Defend ==
  /\ \A s \in Slots : IsSuffix(block'[s], block[s]) /\ IsPrefix(osty'[s], osty[s])
  /\ LET all == FlattenSeq([s \in Slots |-> Taken(s) \o Popped(s)])
         Beyond(r) == Rise(r, "effective") - Count(all, r, "effective")
         exposed == {UnknownOf(s) : s \in {s \in Slots : block'[s] = <<>>}}
         killed == IF \E s \in Slots : osty'[s] = <<>> THEN {OstyRow, UnknownOf(Team)} ELSE {}
     IN  /\ \A r \in Rows :
              /\ Rise(r, "gained") = 0
              /\ Rise(r, "modifier") = Count(all, r, "modifier")
              /\ Beyond(r) >= 0
              /\ Beyond(r) > 0 => r \in killed \/ (r \in exposed /\ told')
         /\ told' # told => told' /\ \E r \in exposed : Beyond(r) > 0

\* Block is lost: the oldest points are, and nobody is credited.
Lose ==
  \E s \in Slots, n \in Numbers :
    /\ block' = [block EXCEPT ![s] = SubSeq(@, Lower(n, Len(@)) + 1, Len(@))]
    /\ told' = (told \/ n > Len(block[s]))
    /\ UNCHANGED <<osty, ledger>>

Clear ==
  \E s \in Slots :
    /\ block' = [block EXCEPT ![s] = <<>>]
    /\ UNCHANGED <<osty, ledger, told>>

Summon ==
  \E s \in Slots, n \in Numbers \ {0} :
    /\ Len(osty'[s]) = Len(osty[s]) + n
    /\ IsPrefix(osty[s], osty'[s])
    /\ osty' = [osty EXCEPT ![s] = osty'[s]]
    /\ UNCHANGED <<block, ledger, told>>

\* Osty dies: at the hand of a card its source is debited the points that were left.
Kill ==
  \E s \in Slots :
    /\ osty' = [osty EXCEPT ![s] = <<>>]
    /\ \A r \in Rows : /\ ledger'[r].effective <= ledger[r].effective
                       /\ ledger'[r] = [ledger[r] EXCEPT !.effective = ledger'[r].effective]
    /\ OfAll(LAMBDA r : ledger[r].effective - ledger'[r].effective) \in {0, Len(osty[s])}
    /\ UNCHANGED <<block, told>>

\* A failure is reported; nothing else changes.
Report == told' /\ UNCHANGED <<block, osty, ledger>>

\* A call still under way shows nothing.
Work == UNCHANGED vars

Next == Work \/ Gain \/ Defend \/ Lose \/ Clear \/ Summon \/ Kill \/ Report

Spec == Init /\ [][Next]_vars
=============================================================================
