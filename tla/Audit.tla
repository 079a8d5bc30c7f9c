------------------------------- MODULE Audit -------------------------------
(***************************************************************************)
(* The Poison journal of one combat (shim/audit/PoisonAudit.cs and         *)
(* AuditJournal.cs) written while the game goes on, and what module        *)
(* Reconstruction makes of the file as it stands after every step.         *)
(*                                                                         *)
(* The game is one enemy with at most one attachment of Poison, a player   *)
(* who may have Envenom, and commands, callbacks and ticks that overlap    *)
(* because they await each other.  What really supplied every stack is     *)
(* kept beside the journal, and credited when a tick's results exist: the  *)
(* journal never shows it to the reconstruction.  The engine's snapshots   *)
(* in the events are those of an engine that follows it exactly.           *)
(*                                                                         *)
(* Events that the reconstruction does not read are left out, and so is    *)
(* the game once the journal is closed.                                    *)
(***************************************************************************)
EXTENDS Reconstruction

CONSTANTS
  Cards,        \* cards of the deck that apply Poison
  Conjured,     \* generated cards that do
  Stray,        \* what else supplies Poison: outside of any command
  Limits,       \* the event limits to consider
  MaxPending,   \* commands and callbacks that may be open
  Amounts,      \* the stacks that a card may apply
  MaxStacks,    \* bound: stacks of Poison
  Budgets       \* bounds: how many applications by cards (play), attacks (attack), Poison damage
                \* commands (tick), and decays, increases and faults of any kind (odd) a game has

ASSUME AuditConstants ==
  /\ Cards # {} /\ Cards \cap Conjured = {} /\ Stray \notin Cards \cup Conjured
  /\ IsFiniteSet(Cards \cup Conjured) /\ Limits # {}
  /\ Limits \cup Amounts \cup {MaxPending, MaxStacks} \subseteq Nat \ {0}
  /\ Budgets \subseteq [{"play", "attack", "tick", "odd"} -> Nat]

VARIABLES
  limit,      \* AuditJournal.eventLimit
  journal,    \* AuditJournal: its events, closed, Complete; and offThread
  commands,   \* PoisonAudit.commands, with what the game knows of each
  trigger,    \* the Envenom callback that is open, NoTrigger if none is
  ticks,      \* Poison damage commands that are open
  poison,     \* the enemy's Poison: its identity, 0 if none, and the supplier of every stack
  envenom,    \* the player's Envenom, likewise
  truth,      \* what every supplier's Poison has really done
  left,       \* what is left of the budget
  report      \* what the audit says of the file as it stands

vars == << limit, journal, commands, trigger, ticks, poison, envenom, truth, left, report >>

Enemy  == 1
Player == 2

Absent == [id |-> 0, stacks |-> << >>]
NoTrigger == [seq |-> 0]

Sole(supplier) == << [to |-> supplier, weight |-> 1] >>

Copies(supplier, n) == [i \in 1..n |-> supplier]

\* The queue as the engine holds it: equal neighbours are one grant.
Grouped(stacks) ==
  LET starts == SetToSortSeq({i \in DOMAIN stacks : i = 1 \/ stacks[i] # stacks[i - 1]}, <)
      after(g) == IF g = Len(starts) THEN Len(stacks) + 1 ELSE starts[g + 1]
  IN  [g \in DOMAIN starts |-> [remaining |-> after(g) - starts[g], source |-> stacks[starts[g]]]]

\* The mixture that the engine credits for a queue.
Mixed(stacks) == MixtureOf(Grouped(stacks))

\* PoisonAudit.Native, audit_snapshot
Snapshot(power, credits) ==
  [poison |-> IF power.id = 0 THEN << >>
              ELSE [id \in {power.id} |->
                      [amount |-> Len(power.stacks), owner |-> Enemy,
                       grants |-> Grouped(power.stacks),
                       source |-> IF power.stacks = << >> THEN << >> ELSE Mixed(power.stacks)]],
   cards |-> credits]

----------------------------------------------------------------------------
(* The journal *)

Entry(j, event) == [event EXCEPT !.seq = Len(j.events) + 1]

\* AuditJournal.Append
Appended(j, event) ==
  CASE ~j.open -> j
    [] j.open /\ Len(j.events) >= limit ->
         [j EXCEPT !.events = Append(@, Entry(j, [seq |-> 0, name |-> "trace_truncated"])),
                   !.complete = FALSE, !.open = FALSE]
    [] j.open /\ Len(j.events) < limit ->
         [j EXCEPT !.events = Append(@, Entry(j, event)),
                   !.complete = @ /\ event.name # "diagnostic"]

Diagnostic == [seq |-> 0, name |-> "diagnostic"]

\* PoisonAudit.Emit
Emitted(j, event) ==
  IF j.off THEN Appended(Appended([j EXCEPT !.off = FALSE], Diagnostic), event)
  ELSE Appended(j, event)

Emit(j, events) == FoldLeft(Emitted, j, events)

\* The number that the first event of the next step gets.
Upcoming == Len(journal.events) + (IF journal.off THEN 2 ELSE 1)

----------------------------------------------------------------------------
(* The events.  SourceFrame and Describe: *)

CardFrame(card) ==
  [seq |-> 0, name |-> "source_frame", role |-> "card", id |-> card, model |-> card,
   ordinary |-> card \in Cards, owner |-> Player, amount |-> 0, context |-> "producer"]

PowerFrame(model, power, owner, context) ==
  [seq |-> 0, name |-> "source_frame", role |-> "power", id |-> power.id, model |-> model,
   ordinary |-> FALSE, owner |-> owner, amount |-> Len(power.stacks), context |-> context]

AttemptEvent(c, native) ==
  [seq |-> 0, name |-> "power_attempt", command |-> c.command, power |-> c.model, id |-> c.requested,
   target |-> c.target, amount |-> c.amount, source |-> c.source, frame |-> c.frame,
   cause |-> c.cause, native |-> native]

EndEvent(c, outcome) ==
  [seq |-> 0, name |-> "command_end", action |-> c.action, command |-> c.command,
   outcome |-> outcome, requested |-> c.requested, id |-> c.power, target |-> c.target]

ChangeEvent(action, frame, model, target, old, new, native) ==
  [seq |-> 0, name |-> "power_change", action |-> action, frame |-> frame, power |-> model,
   id |-> IF new.id = 0 THEN old.id ELSE new.id, target |-> target,
   before |-> Len(old.stacks), beforeAttached |-> old.id # 0,
   after |-> Len(new.stacks), attached |-> new.id # 0, native |-> native]

\* PoisonAudit.Complete: a command that did not run to its end leaves a diagnostic.
Ending(c, outcome) ==
  IF outcome = "completed" THEN << EndEvent(c, outcome) >>
                           ELSE << EndEvent(c, outcome), Diagnostic >>

CallbackEnding(t, outcome) ==
  << [seq |-> 0, name |-> "envenom_end", trigger |-> t.seq, outcome |-> outcome] >>
  \o (IF outcome = "completed" THEN << >> ELSE << Diagnostic >>)

----------------------------------------------------------------------------
\* Past a diagnostic, only ticks and the end are followed.
Step(kind, j) ==
  /\ journal.open /\ (journal.complete \/ kind \in {"tick", "on", "end"})
  /\ kind \in DOMAIN left => left[kind] > 0
  /\ left' = [k \in DOMAIN left |-> left[k] - (IF k = kind THEN 1 ELSE 0)]
  /\ journal' = j /\ report' = Run(j.events)
  /\ UNCHANGED limit

\* An application of model to target: the identity of its new power is the number of its attempt.
Application(action, model, target, amount, supplier, source, frame, cause) ==
  [action |-> action, command |-> "Apply", model |-> model, requested |-> action, power |-> action,
   target |-> target, amount |-> amount, supplier |-> supplier, source |-> source,
   frame |-> frame, cause |-> cause]

Opened(kind, frames, c) ==
  /\ Cardinality(commands) < MaxPending
  /\ commands' = commands \cup {c}
  /\ Step(kind, Emit(journal, Append(frames, AttemptEvent(c, Snapshot(poison, truth)))))

\* PoisonAudit.Attempt in the flow of a card that is played (Producer gives its frame).
Play(card, amount) ==
  /\ Opened(IF card \in Cards THEN "play" ELSE "odd", << CardFrame(card) >>,
            Application(Upcoming + 1, Poison, Enemy, amount, Sole(card), card, Upcoming, 0))
  /\ UNCHANGED << trigger, ticks, poison, envenom, truth >>

\* PoisonAudit.Attempt with too many commands open.
Crowded(card) ==
  /\ Cardinality(commands) >= MaxPending
  /\ Step("odd", Emit(journal, << CardFrame(card), Diagnostic >>))
  /\ UNCHANGED << commands, trigger, ticks, poison, envenom, truth >>

\* The command attaches its new power, BeforeMutation and AfterMutation, and ends.
Attach(c, outcome) ==
  /\ poison.id = 0
  /\ poison' = [id |-> c.requested, stacks |-> Copies(c.supplier, c.amount)]
  /\ Step(IF outcome = "completed" THEN "free" ELSE "odd",
          Emit(journal, << ChangeEvent(c.action, c.frame, Poison, Enemy, poison, poison',
                                       Snapshot(poison', truth)) >> \o Ending(c, outcome)))
  /\ commands' = commands \ {c}
  /\ UNCHANGED << trigger, ticks, envenom, truth >>

\* The command finds Poison attached, adds to it by a command of its own, ModifyAmount, which
\* is recorded unless too many are open, and ends with that power as its own.
Stack(c, outcome) ==
  /\ poison.id # 0 /\ Len(poison.stacks) + c.amount <= MaxStacks
  /\ poison' = [poison EXCEPT !.stacks = @ \o Copies(c.supplier, c.amount)]
  /\ LET child == [c EXCEPT !.action = Upcoming, !.command = "ModifyAmount",
                            !.requested = poison.id, !.power = poison.id]
         change(action, frame) ==
           ChangeEvent(action, frame, Poison, Enemy, poison, poison', Snapshot(poison', truth))
     IN  Step(IF outcome = "completed" THEN "free" ELSE "odd",
              Emit(journal, (IF Cardinality(commands) < MaxPending
                             THEN << AttemptEvent(child, Snapshot(poison, truth)),
                                     change(child.action, c.frame), EndEvent(child, "completed") >>
                             ELSE << Diagnostic, change(0, 0) >>)
                            \o Ending([c EXCEPT !.power = poison.id], outcome)))
  /\ commands' = commands \ {c}
  /\ UNCHANGED << trigger, ticks, envenom, truth >>

\* The command ends without a change.
Refuse(c, outcome) ==
  /\ commands' = commands \ {c}
  /\ Step(IF outcome = "completed" THEN "free" ELSE "odd", Emit(journal, Ending(c, outcome)))
  /\ UNCHANGED << trigger, ticks, poison, envenom, truth >>

\* Poison decays, and its last stack takes the attachment with it.
Decay ==
  /\ poison.id # 0
  /\ LET fewer == [poison EXCEPT !.stacks = Tail(@)]
         change(old, new) == ChangeEvent(0, 0, Poison, Enemy, old, new, Snapshot(new, truth))
     IN  /\ poison' = IF fewer.stacks = << >> THEN Absent ELSE fewer
         /\ Step("odd", Emit(journal, IF fewer.stacks = << >>
                               THEN << change(poison, fewer), change(fewer, Absent) >>
                               ELSE << change(poison, fewer) >>))
  /\ UNCHANGED << commands, trigger, ticks, envenom, truth >>

\* Poison is increased outside of any command.
Increase ==
  /\ poison.id # 0 /\ Len(poison.stacks) < MaxStacks
  /\ poison' = [poison EXCEPT !.stacks = Append(@, Sole(Stray))]
  /\ Step("odd", Emit(journal, << ChangeEvent(0, 0, Poison, Enemy, poison, poison',
                                              Snapshot(poison', truth)) >>))
  /\ UNCHANGED << commands, trigger, ticks, envenom, truth >>

\* Another thread changes Poison: Active says no, and remembers it.
OffThread ==
  /\ poison.id # 0
  /\ poison' = [poison EXCEPT !.stacks = Append(Tail(@), Sole(Stray))]
  /\ Step("odd", [journal EXCEPT !.off = TRUE])
  /\ UNCHANGED << commands, trigger, ticks, envenom, truth >>

----------------------------------------------------------------------------
\* An attack of the player hits, Tick and Damage; Envenom answers it, Producer.
Attack(powered) ==
  /\ envenom.id # 0 /\ trigger = NoTrigger
  /\ trigger' = [seq |-> Upcoming + 3, frame |-> Upcoming + 2, supplier |-> Mixed(envenom.stacks),
                 amount |-> Len(envenom.stacks), due |-> powered, applied |-> FALSE]
  /\ Step(IF powered THEN "attack" ELSE "odd", Emit(journal,
       << [seq |-> 0, name |-> "damage_begin", dealer |-> Player, powered |-> powered],
          [seq |-> 0, name |-> "damage_result", tick |-> Upcoming, result |-> Upcoming,
           target |-> Enemy, unblocked |-> 1],
          PowerFrame(Envenom, envenom, Player, "producer"),
          [seq |-> 0, name |-> "envenom_trigger", id |-> envenom.id, target |-> Enemy,
           owner |-> Player, dealer |-> Player, result |-> Upcoming, unblocked |-> 1,
           powered |-> powered, amount |-> Len(envenom.stacks), frame |-> Upcoming + 2] >>))
  /\ UNCHANGED << commands, ticks, poison, envenom, truth >>

\* PoisonAudit.Attempt in the flow of the callback.
Answer ==
  /\ trigger # NoTrigger /\ trigger.due /\ ~trigger.applied
  /\ trigger' = [trigger EXCEPT !.applied = TRUE]
  /\ Opened("free", << >>, Application(Upcoming, Poison, Enemy, trigger.amount, trigger.supplier,
                               envenom.id, trigger.frame, trigger.seq))
  /\ UNCHANGED << ticks, poison, envenom, truth >>

\* EnvenomCompleted, EnvenomFailed: the callback awaits its application.
EnvenomEnd(outcome) ==
  /\ trigger # NoTrigger /\ \A c \in commands : c.cause # trigger.seq
  /\ outcome = "completed" => (trigger.due = trigger.applied)
  /\ trigger' = NoTrigger
  /\ Step(IF outcome = "completed" THEN "free" ELSE "odd",
          Emit(journal, CallbackEnding(trigger, outcome)))
  /\ UNCHANGED << commands, ticks, poison, envenom, truth >>

----------------------------------------------------------------------------
\* A damage command of Poison begins: DamageSource samples the queue.
TickEntry ==
  /\ poison.id # 0
  /\ ticks' = ticks \cup {[frame |-> Upcoming, seq |-> 0, id |-> poison.id,
                           supplier |-> Mixed(poison.stacks)]}
  /\ Step("tick", Emit(journal, << PowerFrame(Poison, poison, Enemy, "damage") >>))
  /\ UNCHANGED << commands, trigger, poison, envenom, truth >>

\* Its damage goes through the modifiers: Tick.
TickModified(t) ==
  /\ t.seq = 0
  /\ ticks' = (ticks \ {t}) \cup {[t EXCEPT !.seq = Upcoming]}
  /\ Step("on", Emit(journal, << [seq |-> 0, name |-> "poison_tick", id |-> t.id, frame |-> t.frame,
                            target |-> Enemy, dealer |-> 0, powered |-> FALSE,
                            native |-> Snapshot(poison, truth)] >>))
  /\ UNCHANGED << commands, trigger, poison, envenom, truth >>

\* Its results exist, and the suppliers that the entry sampled are credited: Damage.
TickResults(t, parts) ==
  /\ t.seq # 0
  /\ ticks' = ticks \ {t}
  /\ truth' = LET weights == [i \in DOMAIN t.supplier |-> t.supplier[i].weight]
                  split == Proportional(SumFunction(parts), weights)
                  share(to) == [i \in DOMAIN split |-> IF t.supplier[i].to = to THEN split[i] ELSE 0]
              IN  [to \in DOMAIN truth |-> truth[to] + SumFunction(share(to))]
  /\ Step("on", Emit(journal, [i \in DOMAIN parts |->
       [seq |-> 0, name |-> "poison_damage", tick |-> t.seq, result |-> Upcoming + i - 1,
        target |-> Enemy, index |-> i - 1, count |-> Len(parts), damage |-> parts[i],
        unblocked |-> parts[i], native |-> Snapshot(poison, truth')]]))
  /\ UNCHANGED << commands, trigger, poison, envenom >>

----------------------------------------------------------------------------
\* PoisonAudit.Finish: what is still open is interrupted.
Interruptions ==
  FlattenSeq([i \in 1..Cardinality(commands) |->
                Ending(SetToSortSeq(commands, LAMBDA c, d : c.action < d.action)[i], "interrupted")])
  \o (IF trigger = NoTrigger THEN << >> ELSE CallbackEnding(trigger, "interrupted"))

Footer(j, result) ==
  Emit(j, << [seq |-> 0, name |-> "combat_end",
              complete |-> j.complete /\ ~j.off /\ result # "interrupted",
              native |-> Snapshot(poison, truth)] >>)

Finish(result) ==
  /\ Step(IF result = "interrupted" THEN "odd" ELSE "end",
          [Footer(Emit(journal, Interruptions), result) EXCEPT !.open = FALSE])
  /\ commands' = {} /\ trigger' = NoTrigger
  /\ UNCHANGED << ticks, poison, envenom, truth >>

----------------------------------------------------------------------------
\* A combat begins: PoisonAudit.Start.
Begun ==
  [journal |-> Emit([events |-> << >>, open |-> TRUE, complete |-> TRUE, off |-> FALSE],
                    << [seq |-> 0, name |-> "combat_start"] >>),
   poison |-> Absent, envenom |-> Absent]

\* An ordinary card has given a power at once, by Apply or, if it was there, by ModifyAmount.
Given(g, model, target, card, amount) ==
  LET first == Len(g.journal.events) + 1
      old == IF model = Poison THEN g.poison ELSE g.envenom
      new == [id |-> IF old.id = 0 THEN first + 1 ELSE old.id,
              stacks |-> old.stacks \o Copies(Sole(card), amount)]
      apply == Application(first + 1, model, target, amount, Sole(card), card, first, 0)
      command == [apply EXCEPT !.command = IF old.id = 0 THEN "Apply" ELSE "ModifyAmount",
                               !.requested = new.id, !.power = new.id]
      after == IF model = Poison THEN new ELSE g.poison
  IN  [journal |-> Emit(g.journal,
          << CardFrame(card), AttemptEvent(command, Snapshot(g.poison, truth)),
             ChangeEvent(first + 1, first, model, target, old, new, Snapshot(after, truth)),
             EndEvent(command, "completed") >>),
       poison |-> after,
       envenom |-> IF model = Poison THEN g.envenom ELSE new]

Going(game) == journal = game.journal /\ poison = game.poison /\ envenom = game.envenom

Init ==
  /\ limit \in Limits /\ left \in Budgets
  /\ commands = {} /\ trigger = NoTrigger /\ ticks = {}
  /\ truth = [supplier \in Cards \cup Conjured \cup {Stray} |-> 0]
  /\ \E card, other \in Cards : \E amount \in Amounts :
       LET poisoned == Given(Begun, Poison, Enemy, card, amount)
           enabled(g) == Given(Given(g, Envenom, Player, card, 1), Envenom, Player, other, 1)
       IN  IF left.attack > 0 THEN Going(enabled(Begun)) \/ Going(enabled(poisoned))
                              ELSE Going(Begun) \/ Going(poisoned)
  /\ report = Run(journal.events)

Next ==
  \/ \E card \in Cards \cup Conjured : \E amount \in Amounts : Play(card, amount)
  \/ \E card \in Cards : Crowded(card)
  \/ \E c \in commands : \E outcome \in {"completed", "faulted"} : Attach(c, outcome)
  \/ \E c \in commands : \E outcome \in {"completed", "faulted"} : Stack(c, outcome)
  \/ \E c \in commands : \E outcome \in {"completed", "faulted"} : Refuse(c, outcome)
  \/ Decay \/ Increase \/ OffThread
  \/ \E powered \in BOOLEAN : Attack(powered)
  \/ Answer
  \/ \E outcome \in {"completed", "cancelled"} : EnvenomEnd(outcome)
  \/ TickEntry
  \/ \E t \in ticks : TickModified(t)
  \/ \E t \in ticks : TickResults(t, << 2, 1 >>)
  \/ \E result \in {"victory", "interrupted"} : Finish(result)

Spec == Init /\ [][Next]_vars

----------------------------------------------------------------------------
(* Properties *)

Within(credits) == \A to \in DOMAIN credits : credits[to] <= CreditOf(truth, to)

\* "all recorded ticks reconstructed": when the report says so, the credits in it are what
\* every supplier's Poison has really done, whatever awaited what while it was recorded.
CompleteIsTrue ==
  report.complete => \A to \in DOMAIN truth : CreditOf(report.credits, to) = truth[to]

\* "PARTIAL; only reconstructable ticks included": nobody is ever given more than they did,
\* in the file of a combat that is under way or was cut off, and in a complete
\* file that has lost the line of any one mutation.
PartialIsSound ==
  /\ Within(report.credits)
  /\ report.complete => \A k \in Named(journal.events, "power_change") :
       Within(Run(RemoveAt(journal.events, k)).credits)

\* Two ticks of which one had its results while the other was under way.
Overlapping ==
  \E i, j \in Named(journal.events, "poison_damage") :
     /\ journal.events[i].tick # journal.events[j].tick
     /\ journal.events[i].tick < j /\ j < i

\* An engine that follows the game exactly is not accused: no queue, amount or mixture differs,
\* and no credit does unless two ticks overlap ("interleaved credits require manual review").
EngineNotAccused ==
  report.accused \subseteq (IF Overlapping THEN {"delta"} ELSE {})
=============================================================================
