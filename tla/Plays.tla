-------------------------------- MODULE Plays --------------------------------
(***************************************************************************)
(* The plays of a combat as the patches follow them: PlayCapture.cs over   *)
(* the engine's plays, generated cards and orbs (module Engine), with the  *)
(* cards' part of ProvenanceCapture.cs and the orbs' of CommandCapture.cs. *)
(*                                                                         *)
(* A card or potion runs in a wrapper, an asynchronous method of its own.  *)
(* Its execution and the chain of its play frames are AsyncLocal: they go  *)
(* with the wrapper's flow of control and with the flows that are started  *)
(* under it, whatever the other flows do, whatever combat it is by then.   *)
(* Every handler runs on the game's thread and is one step.                *)
(***************************************************************************)
EXTENDS Engine

CONSTANTS
  Flows,          \* flows of control there can be at a time
  Cards,          \* cards, each with an identity of its own: a number from 1
  Orbs,           \* orbs, likewise
  Unidentified,   \* those of them that IdentityCapture met after its cap
  PlayerOf,       \* the player slot of every card and orb
  CardId,         \* the name of every card, which its copies share
  MaxDepth,       \* MaxActivePlays, the managed frames of one chain
  MaxExecutions,  \* bound on the executions
  MaxStarts,      \* bound on the plays of a combat
  MaxCombats      \* bound on the combats

VARIABLES
  engine,      \* the native engine
  epoch,       \* CaptureRuntime.Epoch: the captured combat's sequence, 0 if none is
  flows,       \* every flow: its execution and its chain of play frames, newest first
  executions,  \* nextExecution
  metadata,    \* IdentityMetadata: the generation of every card, who of the orbs is Dirty
  played       \* history: how many plays of this combat the game has announced, of which
               \* cards, of generated ones, and of all others by the name of each card

vars == <<engine, epoch, flows, executions, metadata, played>>

ASSUME PlaysConstants ==
  /\ Cards \cup Orbs \subseteq Nat \ {0} /\ Cards \cap Orbs = {}
  /\ Unidentified \subseteq Cards \cup Orbs
  /\ PlayerOf \in [Cards \cup Orbs -> Slots]
  /\ CardId \in [Cards -> STRING \ {NoId}]
  /\ {MaxDepth, MaxExecutions, MaxStarts, MaxCombats} \subseteq Nat \ {0}

Barrier  == [epoch |-> 0, identity |-> 0, wraps |-> FALSE, potion |-> FALSE]
Idle     == [execution |-> Barrier, chain |-> << >>, owner |-> FALSE, live |-> FALSE]
Ordinaries == [generation |-> [c \in Cards |-> "ordinary"], dirty |-> {}]
NonePlayed == [starts |-> 0, cards |-> {}, generated |-> 0, ordinary |-> [c \in Cards |-> 0]]

----------------------------------------------------------------------------
(***************************************************************************)
(* Helpers of the handlers.                                                *)
(***************************************************************************)
\* CaptureRuntime.Valid and Stale
Valid(e) == e # 0 /\ e = epoch
Stale(e) == e # 0 /\ e # epoch

\* Mutant: only the frames of a flow tell of what combat it is.
EntryEpochOfFrames(f) ==
  LET flow == flows[f]
  IN  IF flow.chain # << >> /\ Stale(Head(flow.chain).epoch) THEN Head(flow.chain).epoch ELSE epoch

\* EntryEpoch: what a flow has inherited from another combat prevails.
EntryEpoch(f) ==
  LET flow == flows[f]
  IN  CASE Stale(flow.execution.epoch) -> flow.execution.epoch
        [] ~Stale(flow.execution.epoch) /\ flow.chain # << >> /\ Stale(Head(flow.chain).epoch) ->
             Head(flow.chain).epoch
        [] OTHER -> epoch

\* IdentityCapture.Get: zero at its cap.
Identity(model) == IF model \in Unidentified THEN 0 ELSE model

\* CaptureRuntime.Fail
Fail(s, model) == IF model \in Unidentified THEN Failed(s, "identity-cap") ELSE s

\* FlowCapture.Source of a card, and of an orb.
CardCapture(s, card) ==
  IF card \in Unidentified THEN Accept(s, Zero)
  ELSE SourceCapture(s, epoch, "card", card, CardId[card], PlayerOf[card], metadata.generation[card])

OrbCapture(s, orb) ==
  IF orb \in metadata.dirty THEN Accept(s, Zero)
  ELSE SourceCapture(s, epoch, "orb", orb, NoId, PlayerOf[orb], "unclassified")

\* FlowCapture.Supplied(null): the source of the producer that runs in the flow, the
\* played card's if there is one.
Supplied(f) ==
  IF flows[f].chain = << >> THEN Zero ELSE Head(flows[f].chain).source

Frame(e, token, execution, card, source) ==
  [epoch |-> e, token |-> token, execution |-> execution, card |-> card,
   slot |-> PlayerOf[card], source |-> source]

----------------------------------------------------------------------------
(***************************************************************************)
(* The wrappers.                                                           *)
(***************************************************************************)
\* WrapperPrefix and WrapperFinalizer, called in an execution of any epoch, or in none:
\* the wrapper's own flow starts at a barrier; its caller's goes on as it was.
Inherited == {epoch} \cup {e \in {flows[f].execution.epoch : f \in Flows} : Stale(e)}

Wrapper(inherited, g, potion) ==
  LET barrier == [Barrier EXCEPT !.epoch = inherited]
  IN  /\ ~flows[g].live
      /\ executions < MaxExecutions
      /\ flows' = [flows EXCEPT ![g] =
                     [execution |-> IF Valid(inherited)
                                    THEN [epoch |-> inherited, identity |-> executions + 1,
                                          wraps |-> TRUE, potion |-> potion]
                                    ELSE barrier,
                      chain |-> << >>, owner |-> TRUE, live |-> TRUE]]
      /\ executions' = IF Valid(inherited) THEN executions + 1 ELSE executions
      /\ UNCHANGED <<engine, epoch, metadata, played>>

\* A flow that is started under another one takes its execution and chain along.
Fork(f, g) ==
  /\ flows[f].live /\ flows[f].execution.wraps /\ ~flows[g].live
  /\ flows' = [flows EXCEPT ![g] = [flows[f] EXCEPT !.owner = FALSE]]
  /\ UNCHANGED <<engine, epoch, executions, metadata, played>>

\* ... and ends.
Join(g) ==
  /\ flows[g].live /\ ~flows[g].owner /\ flows[g].execution.wraps
  /\ flows' = [flows EXCEPT ![g] = Idle]
  /\ UNCHANGED <<engine, epoch, executions, metadata, played>>

\* Mutant: the engine is told only of the wrappers that have closed all of their plays.
EndEffectOfClosed(f) ==
  LET execution == flows[f].execution
  IN  /\ flows[f].live /\ flows[f].owner
      /\ engine' = IF Valid(execution.epoch) /\ execution.identity # 0 /\ flows[f].chain = << >>
                   THEN CardExecutionEnded(engine, execution.epoch, execution.identity).s
                   ELSE engine
      /\ flows' = [flows EXCEPT ![f] = Idle]
      /\ UNCHANGED <<epoch, executions, metadata, played>>

\* EndEffectPrefix: a wrapper ends, as it was meant to or by an exception.
EndEffect(f) ==
  LET execution == flows[f].execution
  IN  /\ flows[f].live /\ flows[f].owner
      /\ engine' = IF Valid(execution.epoch) /\ execution.identity # 0
                   THEN CardExecutionEnded(engine, execution.epoch, execution.identity).s
                   ELSE engine
      /\ flows' = [flows EXCEPT ![f] = Idle]
      /\ UNCHANGED <<epoch, executions, metadata, played>>

----------------------------------------------------------------------------
(***************************************************************************)
(* The plays.                                                              *)
(***************************************************************************)
\* StartedPostfix and Started, of a card that the game describes.
ActiveExecution(f) ==
  LET execution == flows[f].execution
  IN  IF Valid(execution.epoch) /\ ~execution.potion THEN execution.identity ELSE 0

Generation(card) == IF card \in Unidentified THEN "unclassified" ELSE metadata.generation[card]

Push(f, card, prior, source, call) ==
  /\ engine' = call.s
  /\ flows' = [flows EXCEPT ![f].chain =
                 <<Frame(epoch, call.r, ActiveExecution(f), card, source)>> \o prior]

Begin(f, card, prior, source) ==
  Push(f, card, prior, source.r,
       CardPlayStarted(source.s, epoch, ActiveExecution(f), Identity(card), CardId[card],
                       PlayerOf[card], Generation(card), source.r))

Copies(card) == {c \in Cards : CardId[c] = CardId[card] /\ PlayerOf[c] = PlayerOf[card]}

Announced(card) ==
  LET generated == Generation(card) \in {"recorded", "unavailable"}
  IN  [starts    |-> played.starts + 1,
       cards     |-> played.cards \cup {card},
       generated |-> played.generated + (IF generated THEN 1 ELSE 0),
       ordinary  |-> [c \in Cards |-> played.ordinary[c]
                                        + (IF ~generated /\ c \in Copies(card) THEN 1 ELSE 0)]]

Started(f, card) ==
  LET deep == Len(flows[f].chain) >= MaxDepth
      met == IF deep THEN Failed(engine, "managed-play-cap") ELSE engine
  IN  /\ flows[f].live /\ flows[f].owner
      /\ Valid(EntryEpoch(f))
      /\ played.starts < MaxStarts
      /\ Begin(f, card, IF deep THEN << >> ELSE flows[f].chain, CardCapture(Fail(met, card), card))
      /\ played' = Announced(card)
      /\ UNCHANGED <<epoch, executions, metadata>>

\* FinishedPostfix and Finished
Finished(f, card) ==
  LET flow == flows[f]
      frame == Head(flow.chain)
      matches == flow.chain # << >> /\ frame.card = card
  IN  /\ flow.live /\ flow.owner
      /\ Valid(EntryEpoch(f))
      /\ engine' = IF ~matches THEN Failed(engine, "play-finish-mismatch")
                   ELSE IF frame.token # Zero /\ Valid(frame.epoch)
                        THEN CardPlayFinished(engine, frame.token).s
                        ELSE engine
      /\ flows' = IF matches THEN [flows EXCEPT ![f].chain = Tail(@)] ELSE flows
      /\ UNCHANGED <<epoch, executions, metadata, played>>

\* GeneratedPrefix and Generated: a new card, or one that is generated again.
Recollect(card, call) ==
  /\ engine' = call.s
  /\ metadata' = IF card \in Unidentified THEN metadata
                 ELSE [metadata EXCEPT !.generation[card] =
                         IF call.r = Number(1) THEN "recorded" ELSE "unavailable"]

Generated(f, card) ==
  /\ flows[f].live
  /\ Valid(EntryEpoch(f))
  /\ metadata.generation[card] = "ordinary" => card \notin played.cards
  /\ Recollect(card, CardGenerated(Fail(engine, card), epoch, Identity(card), Supplied(f)))
  /\ UNCHANGED <<epoch, flows, executions, played>>

\* OrbChanneled of CommandCapture
Channel(orb, call) ==
  LET known == call.r = Number(1)
  IN  /\ engine' = IF known THEN call.s ELSE Failed(call.s, "orb-channel")
      /\ metadata' = [metadata EXCEPT !.dirty = IF known THEN @ \ {orb} ELSE @ \cup {orb}]

Channeled(f, orb) ==
  /\ flows[f].live
  /\ Valid(EntryEpoch(f))
  /\ IF orb \in Unidentified THEN engine' = Fail(engine, orb) /\ UNCHANGED metadata
     ELSE Channel(orb, OrbChanneled(engine, epoch, orb, Supplied(f)))
  /\ UNCHANGED <<epoch, flows, executions, played>>

\* OrbPrefix: which play an orb is counted to, and whose it is.
Told(orb, call) == IF call.r = Number(1) THEN OrbCapture(call.s, orb).s ELSE call.s

Orb(f, orb) ==
  LET flow == flows[f]
      current == IF flow.chain = << >> THEN Frame(0, Zero, 0, orb, Zero) ELSE Head(flow.chain)
      unavailable == \/ flow.chain # << >> /\ (~Valid(current.epoch) \/ current.token = Zero)
                     \/ flow.execution.wraps /\ flow.execution.identity = 0
      token == IF flow.chain # << >> /\ current.slot = PlayerOf[orb] THEN current.token ELSE Zero
  IN  /\ flow.live
      /\ Valid(EntryEpoch(f))
      /\ engine' = IF orb \in Unidentified THEN Fail(engine, orb)
                   ELSE IF unavailable THEN engine
                   ELSE Told(orb, OrbContextBegin(engine, epoch, orb, token, PlayerOf[orb]))
      /\ UNCHANGED <<epoch, flows, executions, metadata, played>>

----------------------------------------------------------------------------
(***************************************************************************)
(* The combats.                                                            *)
(***************************************************************************)
\* SetupPostfix: combat_started, Register and what the objects are known as.
StartCombat ==
  LET seq == engine.last + 1
  IN  /\ epoch = 0
      /\ engine.last < MaxCombats
      /\ engine' = CombatStarted(engine, seq, Team).s
      /\ epoch' = seq
      /\ metadata' = Ordinaries
      /\ played' = NonePlayed
      /\ UNCHANGED <<flows, executions>>

\* CombatEndedPostfix
EndCombat ==
  /\ epoch # 0
  /\ engine' = CombatEnded(engine, epoch).s
  /\ epoch' = 0
  /\ UNCHANGED <<flows, executions, metadata, played>>

\* The run is left: InvalidateEpoch, and the combat is discarded.
Abandon ==
  /\ epoch # 0
  /\ engine' = Discarded(engine)
  /\ epoch' = 0
  /\ UNCHANGED <<flows, executions, metadata, played>>

\* A handler of the engine panics: it takes no call until the next combat.
Panic ==
  /\ Active(engine) /\ ~engine.poisoned
  /\ engine' = Failed([engine EXCEPT !.poisoned = TRUE], "native-panic")
  /\ UNCHANGED <<epoch, flows, executions, metadata, played>>

----------------------------------------------------------------------------
Init ==
  /\ engine = Fresh
  /\ epoch = 0
  /\ flows = [f \in Flows |-> Idle]
  /\ executions = 0
  /\ metadata = Ordinaries
  /\ played = NonePlayed

Next ==
  \/ \E g \in Flows, potion \in BOOLEAN :
        \E inherited \in Inherited : Wrapper(inherited, g, potion)
  \/ \E f, g \in Flows : Fork(f, g)
  \/ \E f \in Flows : Join(f) \/ EndEffect(f)
  \/ \E f \in Flows, card \in Cards :
       \/ Started(f, card)
       \/ Finished(f, card)
       \/ Generated(f, card)
  \/ \E f \in Flows, orb \in Orbs :
       Channeled(f, orb) \/ Orb(f, orb)
  \/ StartCombat \/ EndCombat \/ Abandon \/ Panic

Spec == Init /\ [][Next]_vars

----------------------------------------------------------------------------
(***************************************************************************)
(* Properties.                                                             *)
(***************************************************************************)
\* The identity of the ledger's counters (state.rs, Combat::generation_triggers), after
\* whatever part of a refused call has been booked: the plays and the generation
\* triggers of the combat are the rows' plays and the generated plays.
RowPlays(rows) ==
  LET sum[i \in 0..Len(rows)] == IF i = 0 THEN 0 ELSE sum[i - 1] + rows[i].plays
  IN  sum[Len(rows)]

PlaysAddUp ==
  LET c == engine.current
  IN  c.plays + c.triggers = RowPlays(c.rows) + c.generatedPlays

\* While the engine takes calls, the plays it has open are those of the frames: it
\* has none of an execution that has ended, by an exception or in another order than
\* it began, and no play of a running wrapper was closed under it by another's end.
OpenPlaysAreRunning ==
  Active(engine) /\ ~engine.poisoned =>
     /\ \A p \in engine.prov.plays :
           \E f \in Flows : flows[f].owner /\ flows[f].execution.epoch = engine.current.seq
                            /\ flows[f].execution.identity = p.execution
     /\ \A f \in Flows : flows[f].owner =>
           \A frame \in Range(flows[f].chain) :
              frame.epoch = engine.current.seq /\ frame.token # Zero =>
                 \E p \in engine.prov.plays :
                    p.serial = frame.token.payload /\ p.execution = frame.execution
                    /\ p.slot = frame.slot

\* A complete export of the active combat has counted every play that was announced:
\* each card's in the one row of its name, those of generated cards apart (play.rs: a
\* refused start books what it books all the same, and reports that it was refused).
CompleteMeansCounted ==
  epoch # 0 /\ SnapshotCoverage(engine).complete =>
     /\ engine.current.generatedPlays = played.generated
     /\ \A card \in Cards :
           LET rows == RowsOf(engine.current, PlayerOf[card], CardId[card], "card")
           IN  /\ rows = {} => played.ordinary[card] = 0
               /\ \A i \in rows : engine.current.rows[i].plays = played.ordinary[card]
               /\ \A i, j \in rows : i = j

\* What the patches take a generated card for is what the engine takes it for, and
\* an orb that the engine has a source for is not one the patches have given up,
\* whichever calls were refused for lack of room.
KnownAlike ==
  epoch # 0 /\ ~engine.poisoned =>
     /\ \A card \in Cards :
           card \in DOMAIN engine.prov.generated <=> metadata.generation[card] = "recorded"
     /\ \A orb \in Orbs : orb \in DOMAIN engine.prov.orbs => orb \notin metadata.dirty

\* The handlers that run in a flow.
Handler(f) ==
  \/ EndEffect(f)
  \/ \E card \in Cards :
       \/ Started(f, card)
       \/ Finished(f, card)
       \/ Generated(f, card)
  \/ \E orb \in Orbs : Channeled(f, orb) \/ Orb(f, orb)

\* A flow that outlives its combat does nothing to the next one, nor do the flows that
\* are started under it (PlayCapture.cs WrapperPrefix and CaptureRuntime.EntryEpoch).
LateFlowsAreInert ==
  [][\A f \in Flows : Stale(flows[f].execution.epoch) /\ Handler(f) => engine' = engine]_vars
=============================================================================
