------------------------------ MODULE MCAudit ------------------------------
(***************************************************************************)
(* Two states are taken for the same when the game is, and what the        *)
(* reconstruction would believe if everything open ended now: the order in *)
(* which they came about is in the journal, but nothing reads it again.    *)
(***************************************************************************)
EXTENDS Audit

\* The cards of the deck differ in nothing.
Symmetry == Permutations(Cards)

Budget(play, attack, tick, odd) == [play |-> play, attack |-> attack, tick |-> tick, odd |-> odd]

\* Cards against each other, Envenom against a card, and ticks against each other.
MCBudgets == {Budget(2, 0, 1, 1), Budget(1, 1, 1, 1), Budget(1, 0, 2, 1)}

InOrder(S) == SetToSortSeq(S, LAMBDA c, d : c.frame < d.frame)

\* The events that end whatever is open, next being the number of the first of them.
AnswerNow(next) ==
  IF trigger # NoTrigger /\ trigger.due /\ ~trigger.applied
  THEN LET c == Application(next, Poison, Enemy, trigger.amount, trigger.supplier,
                            envenom.id, trigger.frame, trigger.seq)
       IN  << AttemptEvent(c, Snapshot(poison, truth)), EndEvent(c, "completed") >>
  ELSE << >>

ResultsNow(next) ==
  LET open == InOrder({t \in ticks : t.seq # 0})
  IN  [i \in DOMAIN open |->
         [seq |-> 0, name |-> "poison_damage", tick |-> open[i].seq, result |-> next + i, target |-> Enemy,
          index |-> 0, count |-> 1, damage |-> 1, unblocked |-> 1, native |-> Snapshot(poison, truth)]]

EndNow ==
  AnswerNow(Upcoming)
  \o FlattenSeq([i \in 1..Cardinality(commands) |-> Ending(InOrder(commands)[i], "completed")])
  \o (IF trigger = NoTrigger THEN << >> ELSE CallbackEnding(trigger, "completed"))
  \o ResultsNow(Upcoming)

Ended == Emit([journal EXCEPT !.off = FALSE], EndNow).events

Believed(r) ==
  LET source(frame) == IF frame \in DOMAIN r.frames THEN r.frames[frame].source ELSE << >>
  IN  << r.complete,
         IF poison.id \in DOMAIN r.powers THEN r.powers[poison.id] ELSE Absent,
         [i \in 1..Cardinality(commands) |-> source(InOrder(commands)[i].frame)],
         IF trigger = NoTrigger THEN << >> ELSE source(trigger.frame),
         [i \in 1..Cardinality(ticks) |-> source(InOrder(ticks)[i].frame)] >>

Underway ==
  << poison.stacks, envenom.stacks,
     [i \in 1..Cardinality(commands) |->
        << InOrder(commands)[i].supplier, InOrder(commands)[i].amount, InOrder(commands)[i].cause = 0 >>],
     IF trigger = NoTrigger THEN << >> ELSE << trigger.supplier, trigger.due, trigger.applied >>,
     [i \in 1..Cardinality(ticks) |->
        << InOrder(ticks)[i].supplier, InOrder(ticks)[i].id = poison.id,
           IF InOrder(ticks)[i].seq \in 1..Len(journal.events)
           THEN journal.events[InOrder(ticks)[i].seq].native.cards ELSE << >> >>] >>

View ==
  << IF journal.open THEN Underway ELSE << >>, truth, left, limit, IF limit = Max(Limits) THEN 0 ELSE Len(journal.events),
     journal.open, journal.complete, journal.off, report, Overlapping,
     IF journal.open THEN Believed(Replayed(Indexed(Ended))) ELSE << >> >>
=============================================================================
