------------------------------- MODULE MCPlays -------------------------------
(***************************************************************************)
(* The instance of Plays that TLC checks: a player for every card and orb, *)
(* flows that differ in nothing, and what two states may differ in with    *)
(* the same future and the same properties: which failures were reported,  *)
(* how often an incomplete combat has been told of each card, in what      *)
(* order rows and sources were entered, and, once an engine takes no more  *)
(* calls of its combat or a flow has outlived it, its ledger and the       *)
(* frames of its flows.                                                    *)
(***************************************************************************)
EXTENDS Plays

PlayerOfAll == [model \in Cards \cup Orbs |-> IF model = 2 THEN 1 ELSE 0]
CardIdOfAll == [card \in Cards |-> "STRIKE"]
Symmetric   == Permutations(Flows)

Said ==
  IF engine.arena.epoch = engine.current.seq THEN <<SnapshotCoverage(engine).complete>>
  ELSE <<engine.coverage.complete, engine.arena.reported = {}>>

Counts(exact) ==
  <<played.starts, played.cards, IF exact THEN <<played.generated, played.ordinary>> ELSE << >>>>

\* A source by its rows, whatever their numbers; and by its handle.
Names(source) ==
  {IF to.row = 0 THEN <<to.slot>> ELSE <<engine.current.rows[to.row].player, engine.current.rows[to.row].id>>
     : to \in source}

Behind(wire) ==
  IF wire.payload \in DOMAIN engine.arena.entries THEN Names(engine.arena.entries[wire.payload]) ELSE {}

Provenance ==
  <<engine.prov.epoch, engine.prov.serial,
    [x \in DOMAIN engine.prov.generated |-> Names(engine.prov.generated[x])],
    [x \in DOMAIN engine.prov.orbs |-> Names(engine.prov.orbs[x])],
    {<<p.serial, p.execution, p.slot, p.orbUsed>> : p \in engine.prov.plays}>>

EngineView ==
  IF ~Active(engine) \/ engine.poisoned THEN <<engine.last, Active(engine)>>
  ELSE <<Said, [engine.current EXCEPT !.rowsLost = FALSE, !.rows = Range(@)],
         {Names(engine.arena.entries[n]) : n \in DOMAIN engine.arena.entries}, engine.arena.epoch,
         Provenance, metadata, Counts(Said # <<FALSE>>)>>

FlowView(f) ==
  IF Stale(flows[f].execution.epoch) \/ engine.poisoned
  THEN <<flows[f].live, flows[f].owner, flows[f].execution.wraps>>
  ELSE <<[flows[f] EXCEPT !.chain = << >>],
         [i \in DOMAIN flows[f].chain |-> [flows[f].chain[i] EXCEPT !.source = Behind(@)]]>>

View == <<epoch, executions, EngineView, [f \in Flows |-> FlowView(f)]>>
=============================================================================
