--------------------------- MODULE Reconstruction ---------------------------
(***************************************************************************)
(* What `xtask audit` makes of a journal of version 2: who supplied the    *)
(* Poison that did the recorded damage, from the raw events alone          *)
(* (xtask/src/audit/poison.rs, with Trace, Weights and Native of           *)
(* xtask/src/audit.rs).  The value of Run is what the report says: whether *)
(* all ticks are reconstructed, the credits, and the discrepancies found   *)
(* with the engine's own snapshots.                                        *)
(*                                                                         *)
(* An event is a record with its seq, its name and the fields its handler  *)
(* reads; identities are those the recorder gives, and the engine's        *)
(* instance of a power is its raw identity.  Left out: reading the JSON    *)
(* and its size limits, the texts, the arithmetic limits, and the checks   *)
(* of hit points, which never enter a credit.                              *)
(***************************************************************************)
EXTENDS Mixtures

Poison  == "POISON_POWER"
Envenom == "ENVENOM_POWER"

\* Evidence<Weights>: Err, as an empty mixture, which no source has.
NoEvidence == << >>

----------------------------------------------------------------------------
(* Weights *)

FirstNamed(entries) ==
  FoldLeft(LAMBDA named, entry : IF entry.to \in Range(named) THEN named ELSE Append(named, entry.to),
           << >>, entries)

\* Weights::normalize: destinations in the order they are first named.
Normalized(entries) ==
  LET order == FirstNamed(entries)
  IN  Reduced([i \in DOMAIN order |-> [to |-> order[i], weight |-> WeightOf(entries, order[i])]])

\* Power::weights, of grants that are not empty: over their common denominator.
QueueWeights(grants) ==
  LET sums == {WeightSum(grants[g].source) : g \in DOMAIN grants}
      product == FoldLeft(LAMBDA n, g : n * WeightSum(g.source), 1, grants)
      common == CHOOSE n \in 1..product : /\ \A d \in sums : n % d = 0
                                          /\ \A m \in 1..(n - 1) : \E d \in sums : m % d # 0
  IN  Normalized(FlattenSeq([g \in DOMAIN grants |->
        [i \in DOMAIN grants[g].source |->
           [to |-> grants[g].source[i].to,
            weight |-> grants[g].source[i].weight * grants[g].remaining
                         * (common \div WeightSum(grants[g].source))]]]))

\* Weights::allocate: the differences of the cumulative floors.
Allocated(weights, damage, to) ==
  LET upto(i) == SumFunctionOnSet([j \in DOMAIN weights |-> weights[j].weight], 1..i)
      floor(i) == (damage * upto(i)) \div WeightSum(weights)
  IN  SumFunction([i \in DOMAIN weights |->
                     IF weights[i].to = to THEN floor(i) - floor(i - 1) ELSE 0])

----------------------------------------------------------------------------
(* The journal *)

\* Mutant: a diagnostic is one more event that no handler reads.
BreaksAtGaps(event, position) == event.seq # position \/ event.name = "trace_truncated"

Breaks(event, position) ==
  event.seq # position \/ event.name \in {"diagnostic", "trace_truncated"}

\* Reconstruction::run, indexed: the events before the first gap or diagnostic.
Indexed(events) ==
  LET breaks == {k \in DOMAIN events : Breaks(events[k], k)}
  IN  SubSeq(events, 1, Min(breaks \cup {Len(events) + 1}) - 1)

Named(events, name) == {k \in DOMAIN events : events[k].name = name}

\* Trace::read: nothing is missing between a start and an end that affirms itself.
Bounded(events) ==
  /\ \A k \in DOMAIN events : events[k].seq = k
  /\ Named(events, "combat_start") = {1}
  /\ Named(events, "combat_end") = {Len(events)}
  /\ events[Len(events)].complete

----------------------------------------------------------------------------
(* Joins of raw events; trace is the indexed part of the journal. *)

\* command_end: the position of the one completion of a command, 0 if there is none.
CommandEnd(attempt, trace) ==
  LET ends == {k \in Named(trace, "command_end") : trace[k].action = attempt.seq}
      sound == {k \in ends : /\ k > attempt.seq
                             /\ trace[k].command = attempt.command
                             /\ trace[k].target = attempt.target
                             /\ trace[k].requested = attempt.id
                             /\ trace[k].outcome \in {"completed", "faulted", "cancelled"}}
  IN  IF Cardinality(ends) = 1 /\ sound = ends THEN Max(ends) ELSE 0

\* trigger_end
TriggerEnd(trigger, trace) ==
  LET ends == {k \in Named(trace, "envenom_end") : trace[k].trigger = trigger.seq}
  IN  IF Cardinality(ends) = 1 /\ Max(ends) > trigger.seq THEN Max(ends) ELSE 0

\* eligible: what the callback had to do, of the one raw result it answers.
Eligible(trigger, trace) ==
  LET results == {k \in Named(trace, "damage_result") \cup Named(trace, "poison_damage") :
                    trace[k].result = trigger.result}
      sound == {k \in results :
                  /\ k < trigger.seq
                  /\ trace[k].target = trigger.target
                  /\ trace[k].unblocked = trigger.unblocked
                  /\ trace[k].tick \in 1..(k - 1)
                  /\ trace[trace[k].tick].name \in {"damage_begin", "poison_tick"}
                  /\ trace[trace[k].tick].dealer = trigger.dealer
                  /\ trace[trace[k].tick].powered = trigger.powered}
  IN  CASE Cardinality(results) # 1 \/ sound # results -> "unknown"
        [] Cardinality(results) = 1 /\ sound = results ->
             IF trigger.dealer = trigger.owner /\ trigger.powered /\ trigger.unblocked > 0
             THEN "yes" ELSE "no"

\* source, the part for an application by Envenom.
AppliedByEnvenom(frame, e, attempt, trigger, trace) ==
  /\ frame.context = "producer"
  /\ trigger.name = "envenom_trigger"
  /\ trigger.frame = e.frame
  /\ trigger.id = frame.id
  /\ trigger.target = e.target
  /\ Eligible(trigger, trace) = "yes"
  /\ trigger.owner = frame.owner
  /\ attempt.amount = trigger.amount
  /\ trigger.amount = frame.amount
  /\ e.power = Poison
  /\ TriggerEnd(trigger, trace) > e.seq

\* source: the mixture that the frame of the mutation's own command froze.
SupplierOf(r, e, attempt, end, trace) ==
  IF /\ attempt.name = "power_attempt"
     /\ attempt.power = e.power
     /\ attempt.target = e.target
     /\ end > e.seq
     /\ trace[end].id = e.id
     /\ e.frame \in DOMAIN r.frames
     /\ e.frame < attempt.seq
     /\ attempt.frame = e.frame
     /\ attempt.source = r.frames[e.frame].id
     /\ r.frames[e.frame].model = Envenom =>
          /\ attempt.cause \in 1..(attempt.seq - 1)
          /\ AppliedByEnvenom(r.frames[e.frame], e, attempt, trace[attempt.cause], trace)
  THEN r.frames[e.frame].source
  ELSE NoEvidence

Supplier(r, e, trace) ==
  IF e.action \in 1..(e.seq - 1) /\ trace[e.action].name = "power_attempt"
  THEN SupplierOf(r, e, trace[e.action], CommandEnd(trace[e.action], trace), trace)
  ELSE NoEvidence

----------------------------------------------------------------------------
(* What is reconstructed: r *)

Start == [powers |-> << >>, frames |-> << >>, credits |-> << >>, complete |-> TRUE, accused |-> {}]

Put(map, key, value) == [k \in DOMAIN map \cup {key} |-> IF k = key THEN value ELSE map[k]]

CreditOf(credits, to) == IF to \in DOMAIN credits THEN credits[to] ELSE 0

Failing(r) == [r EXCEPT !.complete = FALSE]

\* frame: what a source frame froze, if the raw evidence establishes it.
Frozen(r, e) ==
  IF \/ e.role = "card" /\ e.ordinary
     \/ /\ e.role = "power"
        /\ e.id \in DOMAIN r.powers
        /\ r.powers[e.id].model = e.model
        /\ r.powers[e.id].owner = e.owner
        /\ r.powers[e.id].amount = e.amount
        /\ r.powers[e.id].known
        /\ r.powers[e.id].grants # << >>
  THEN IF e.role = "card" THEN << [to |-> e.model, weight |-> 1] >>
                          ELSE QueueWeights(r.powers[e.id].grants)
  ELSE NoEvidence

Frame(r, e) ==
  [r EXCEPT !.frames =
     Put(@, e.seq, [id |-> e.id, model |-> e.model, owner |-> e.owner, amount |-> e.amount,
                    context |-> e.context, source |-> Frozen(r, e)])]

\* Mutant: every increase is a grant of its own.
GrantedApart(grants, added, supplier) == Append(grants, [remaining |-> added, source |-> supplier])

\* change: an increase is granted to its supplier, together with the last grant if that is its too.
Granted(grants, added, supplier) ==
  IF grants # << >> /\ Last(grants).source = supplier
  THEN [grants EXCEPT ![Len(grants)].remaining = @ + added]
  ELSE Append(grants, [remaining |-> added, source |-> supplier])

\* change: the oldest stacks are consumed first.
Consumed(grants, removed) ==
  SelectSeq([i \in DOMAIN grants |->
    LET older == SumFunctionOnSet([j \in DOMAIN grants |-> grants[j].remaining], 1..(i - 1))
    IN  [grants[i] EXCEPT !.remaining = @ - Min({@, Max({removed - older, 0})})]],
    LAMBDA grant : grant.remaining # 0)

Observed(r, e, before) ==
  IF e.id \in DOMAIN r.powers THEN r.powers[e.id]
  ELSE [model |-> e.power, owner |-> e.target, amount |-> before, grants |-> << >>,
        known |-> before = 0]

Mutated(power, e, before, after, supplier) ==
  LET coherent == /\ power.known
                  /\ power.model = e.power
                  /\ power.owner = e.target
                  /\ power.amount = before
                  /\ after > before => supplier # NoEvidence
  IN  [power EXCEPT !.amount = after,
                    !.known = coherent \/ after = 0,
                    !.grants = IF after = 0 \/ ~coherent THEN << >>
                               ELSE IF after > before THEN Granted(@, after - before, supplier)
                               ELSE Consumed(@, before - after)]

ChangedTo(r, e, power) ==
  [r EXCEPT !.powers = Put(@, e.id, power), !.complete = @ /\ power.known]

Changed(r, e, before, after, trace) ==
  ChangedTo(r, e, Mutated(Observed(r, e, before), e, before, after,
                          IF after > before THEN Supplier(r, e, trace) ELSE NoEvidence))

Change(r, e, trace) ==
  Changed(r, e, IF e.beforeAttached THEN e.before ELSE 0, IF e.attached THEN e.after ELSE 0, trace)

Command(r, e, trace) == IF CommandEnd(e, trace) = 0 THEN Failing(r) ELSE r

\* envenom: the callback ran to its end and applied Poison exactly if it had to.
EnvenomTrigger(r, e, trace) ==
  LET end == TriggerEnd(e, trace)
      child == \E k \in (e.seq + 1)..(end - 1) :
                  trace[k].name = "power_attempt" /\ trace[k].power = Poison /\ trace[k].cause = e.seq
  IN  IF /\ e.frame \in DOMAIN r.frames
         /\ r.frames[e.frame].model = Envenom
         /\ r.frames[e.frame].context = "producer"
         /\ r.frames[e.frame].id = e.id
         /\ r.frames[e.frame].owner = e.owner
         /\ r.frames[e.frame].amount = e.amount
         /\ end # 0
         /\ trace[end].outcome = "completed"
         /\ Eligible(e, trace) = (IF child THEN "yes" ELSE "no")
      THEN r ELSE Failing(r)

\* tick: the results of one tick, in the order they were recorded.
Results(e, trace) == SetToSortSeq({k \in Named(trace, "poison_damage") : trace[k].tick = e.seq}, <)

\* Mutant: the supplier is read off the power as the tick's results find it.
TickedLive(r, e, results, trace) ==
  LET owned == e.id \in DOMAIN r.powers /\ r.powers[e.id].known /\ r.powers[e.id].grants # << >>
      weights == QueueWeights(r.powers[e.id].grants)
      damage == SumFunction([i \in DOMAIN results |-> trace[results[i]].damage])
  IN  IF results # << >> /\ owned
      THEN [r EXCEPT !.credits =
              [to \in DOMAIN @ \cup Range(Targets(weights)) |->
                 CreditOf(@, to) + Allocated(weights, damage, to)]]
      ELSE Failing(r)

\* tick: the damage goes to the weights the frame froze when the command began.
Credited(r, e, weights, damage, after) ==
  [r EXCEPT !.credits = [to \in DOMAIN @ \cup Range(Targets(weights)) |->
                           CreditOf(@, to) + Allocated(weights, damage, to)],
            !.accused = IF \A to \in DOMAIN e.native.cards \cup DOMAIN after.cards
                                       \cup Range(Targets(weights)) :
                             CreditOf(after.cards, to) - CreditOf(e.native.cards, to)
                               = Allocated(weights, damage, to)
                        THEN @ ELSE @ \cup {"delta"}]

Ticked(r, e, results, trace) ==
  IF /\ results # << >>
     /\ e.frame \in DOMAIN r.frames
     /\ e.frame < e.seq
     /\ r.frames[e.frame].model = Poison
     /\ r.frames[e.frame].context = "damage"
     /\ r.frames[e.frame].id = e.id
     /\ r.frames[e.frame].owner = e.target
     /\ r.frames[e.frame].source # NoEvidence
     /\ \A i \in DOMAIN results : /\ trace[results[i]].target = e.target
                                  /\ results[i] > e.seq
                                  /\ trace[results[i]].index = i - 1
                                  /\ trace[results[i]].count = Len(results)
  THEN Credited(r, e, r.frames[e.frame].source,
                SumFunction([i \in DOMAIN results |-> trace[results[i]].damage]),
                trace[Last(results)].native)
  ELSE Failing(r)

Tick(r, e, trace) == Ticked(r, e, Results(e, trace), trace)

Damaged(r, e, trace) ==
  IF e.tick \in 1..(e.seq - 1) /\ trace[e.tick].name = "poison_tick" THEN r ELSE Failing(r)

\* checkpoint: how the engine's inventory of Poison differs from a queue that is known.
Differences(power, id, poison) ==
  LET held == id \in DOMAIN poison
  IN  {d \in {"amount", "queue", "weights", "missing"} :
         \/ d = "amount"  /\ power.amount # (IF held THEN poison[id].amount ELSE 0)
         \/ d = "queue"   /\ held /\ \/ poison[id].owner # power.owner
                                     \/ poison[id].grants # power.grants
         \/ d = "weights" /\ held /\ power.amount > 0 /\ poison[id].source # QueueWeights(power.grants)
         \/ d = "missing" /\ ~held /\ power.amount > 0}

Checkpoint(r, native) ==
  [r EXCEPT !.accused = @ \cup UNION {Differences(r.powers[id], id, native.poison) :
      id \in {p \in DOMAIN r.powers : r.powers[p].model = Poison /\ r.powers[p].known}}]

Handled(r, e, trace) ==
  CASE e.name = "source_frame"    -> Frame(r, e)
    [] e.name = "power_change"    -> Change(r, e, trace)
    [] e.name = "power_attempt"   -> Command(r, e, trace)
    [] e.name = "envenom_trigger" -> EnvenomTrigger(r, e, trace)
    [] e.name = "poison_tick"     -> Tick(r, e, trace)
    [] e.name = "poison_damage"   -> Damaged(r, e, trace)
    [] OTHER                      -> r

Read(r, e, trace) ==
  IF "native" \in DOMAIN e THEN Checkpoint(Handled(r, e, trace), e.native)
                           ELSE Handled(r, e, trace)

\* Reconstruction::run: the events before the first break, in their order.
Replayed(trace) == FoldLeft(LAMBDA r, e : Read(r, e, trace), Start, trace)

Reported(r, events) ==
  [complete |-> r.complete /\ Indexed(events) = events /\ Bounded(events),
   credits |-> r.credits, accused |-> r.accused]

Run(events) == Reported(Replayed(Indexed(events)), events)
=============================================================================
