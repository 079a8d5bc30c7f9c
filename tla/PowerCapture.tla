---------------------------- MODULE PowerCapture ----------------------------
(***************************************************************************)
(* How the engine learns of power changes: the patches around the game's   *)
(* ApplyPowerInternal, SetAmount and RemovePowerInternal                   *)
(* (shim/attribution/ProvenanceCapture.cs), composed with the engine's     *)
(* power provenance, module Power, and with the game.                      *)
(*                                                                         *)
(* A patched call is a frame: its prefix notes what the power was, the     *)
(* original writes (or throws, or is skipped by another mod), and its      *)
(* finalizer compares and reports.  Frames nest: the callbacks that the    *)
(* original runs after its write may change the same power.  All of it     *)
(* happens on the game thread, so a                                        *)
(* finalizer runs to its end before anything else; it is a step per native *)
(* call, and any of them may fail.                                         *)
(***************************************************************************)
EXTENDS Power

CONSTANTS
  MaxDepth,      \* bound on nested frames
  MaxCalls       \* bound on the changes of one combat

ASSUME CaptureConstants ==
  /\ None \notin Creatures
  /\ \A s \in Sources : s # None
  /\ {MaxDepth, MaxCalls} \subseteq Nat

VARIABLES
  bearer,        \* the game: whom a power is attached to, or None
  amount,        \* the game: PowerModel.Amount
  supplied,      \* the stacks of an attached power by who supplied them; kept after removal
  dirty,         \* IdentityMetadata.Dirty: the engine may not know this power as it is
  detached,      \* IdentityMetadata.Detached: whose a removed power was, or None
  frames,        \* the patched calls in progress, outermost first
  calls,         \* how many changes there were
  missed,        \* history: did a change escape the patches, or happen inside another?
  knotted        \* history: did one happen inside another that was itself inside one?

game   == <<bearer, amount, supplied>>
shim   == <<dirty, detached>>
history == <<missed, knotted>>

captureVars == <<vars, game, shim, frames, calls, history>>

Operations == {"Attachment", "AmountChange", "Removal"}

\* seen: could the prefix observe the power?  was, before: its owner and amount then.
Frame ==
  [ op : Operations, power : Powers, seen : BOOLEAN, was : Creatures \cup {None},
    before : Amounts, source : Sources, priorDirty : BOOLEAN, written : BOOLEAN,
    phase : {"inside", "clearing", "reporting", "removing", "failing"} ]

Top      == frames[Len(frames)]
Outer    == SubSeq(frames, 1, Len(frames) - 1)
At(step) == frames # <<>> /\ Top.phase = step

Return       == frames' = Outer
Proceed(step) == frames' = [frames EXCEPT ![Len(frames)].phase = step]

CaptureInit ==
  /\ Init
  /\ bearer = [p \in Powers |-> None]
  /\ amount \in [Powers -> Amounts]
  /\ supplied = [p \in Powers |-> <<>>]
  /\ dirty = [p \in Powers |-> FALSE]
  /\ detached = [p \in Powers |-> None]
  /\ frames = <<>>
  /\ calls = 0
  /\ missed = FALSE
  /\ knotted = FALSE

\* A failure the shim reports leaves its mark on the coverage the engine's snapshots carry.
Fail == Stale

\* The changes of a power that are in progress.
Open(p) == {i \in DOMAIN frames : frames[i].power = p}

Quiet(p) == Open(p) = {}

----------------------------------------------------------------------------
(***************************************************************************)
(* The game.                                                               *)
(***************************************************************************)
Attach(p, c, s) ==
  /\ bearer[p] = None
  /\ bearer' = [bearer EXCEPT ![p] = c]
  /\ supplied' = [supplied EXCEPT ![p] = Units(Whole(amount[p]), s)]
  /\ UNCHANGED amount

SetAmount(p, a, s) ==
  /\ amount' = [amount EXCEPT ![p] = a]
  /\ supplied' = IF bearer[p] = None THEN supplied
                 ELSE [supplied EXCEPT ![p] = Moved(@, amount[p], a, s)]
  /\ UNCHANGED bearer

Detach(p) ==
  /\ bearer[p] # None
  /\ bearer' = [bearer EXCEPT ![p] = None]
  /\ UNCHANGED <<amount, supplied>>

Write(op, p, s) ==
  \/ op = "Attachment" /\ \E c \in Creatures : Attach(p, c, s)
  \/ op = "AmountChange" /\ \E a \in Amounts : SetAmount(p, a, s)
  \/ op = "Removal" /\ Detach(p)

----------------------------------------------------------------------------
(***************************************************************************)
(* The patches.                                                            *)
(***************************************************************************)
\* FlowCapture.Source of a power.
Source(p) ==
  IF dirty[p] THEN UnknownSource
  ELSE IF detached[p] # None THEN detached[p] ELSE Captured(p)

\* MutationPrefix.  What supplies the change is the command or producer in scope, s; a
\* removal notes whose the power is.
MutationPrefix(op, p, s, seen) ==
  LET source == IF op = "Removal" THEN Source(p) ELSE s
  IN  /\ Len(frames) < MaxDepth /\ calls < MaxCalls
      /\ frames # <<>> => Top.phase = "inside"
      /\ \A i \in Open(p) : frames[i].written
      /\ frames' = Append(frames, [op |-> op, power |-> p, seen |-> seen,
                                   was |-> IF seen THEN bearer[p] ELSE None,
                                   before |-> IF seen THEN amount[p] ELSE 0,
                                   source |-> source, priorDirty |-> seen /\ dirty[p],
                                   written |-> FALSE, phase |-> "inside"])
      /\ detached' = IF op = "Removal" /\ seen THEN [detached EXCEPT ![p] = source] ELSE detached
      /\ IF seen THEN UNCHANGED vars ELSE Fail
      /\ calls' = calls + 1
      /\ missed' = (missed \/ Open(p) # {})
      /\ knotted' = (knotted \/ \E i, j \in Open(p) : i # j)
      /\ UNCHANGED <<game, dirty>>

\* The original method writes; it may also return or throw without having written.
Original ==
  /\ At("inside")
  /\ ~Top.written
  /\ Write(Top.op, Top.power, Top.source)
  /\ frames' = [frames EXCEPT ![Len(frames)].written = TRUE]
  /\ UNCHANGED <<vars, shim, calls, history>>

\* Mutant: a call that leaves the amount as it was is not reported.
ChangedAmount(f) == bearer[f.power] # None /\ amount[f.power] # f.before

\* Did the call attach the power, or change the amount of one that was attached?
Changed(f) ==
  /\ bearer[f.power] # None
  /\ IF f.op = "Attachment" THEN f.was = None ELSE f.was # None

\* Mutant: a power that was dirty is reported like any other.
NextStepTrusting(f) == "reporting"

NextStep(f) == IF f.priorDirty THEN "clearing" ELSE "reporting"

\* MutationFinalizer up to its first native call.
MutationFinalizer(reads) ==
  LET f == Top
      p == f.power
  IN  /\ At("inside")
      /\ IF ~f.seen \/ ~reads
         THEN \* the power could not be observed
              /\ dirty' = [dirty EXCEPT ![p] = TRUE]
              /\ Fail /\ Proceed("failing") /\ UNCHANGED detached
         ELSE /\ UNCHANGED vars
              /\ \/ /\ f.op = "Removal" /\ f.was # None /\ bearer[p] = None
                    /\ dirty' = [dirty EXCEPT ![p] = TRUE]
                    /\ detached' = [detached EXCEPT ![p] = f.source]
                    /\ Proceed("removing")
                 \/ /\ f.op = "Removal" /\ bearer[p] # None
                    /\ detached' = [detached EXCEPT ![p] = None]
                    /\ Return /\ UNCHANGED dirty
                 \/ /\ f.op = "Removal" /\ f.was = None /\ bearer[p] = None
                    /\ Return /\ UNCHANGED shim
                 \/ /\ f.op # "Removal" /\ Changed(f)
                    /\ dirty' = [dirty EXCEPT ![p] = TRUE]
                    /\ Proceed(NextStep(f)) /\ UNCHANGED detached
                 \/ /\ f.op # "Removal" /\ ~Changed(f)
                    /\ Return /\ UNCHANGED shim
      /\ UNCHANGED <<game, calls, history>>

\* A native call, or the exception that keeps it from being made, fails.
CallFails ==
  /\ Fail /\ Proceed("failing")
  /\ UNCHANGED <<game, shim, calls, history>>

ClearPriorDirty ==
  /\ At("clearing")
  /\ \/ /\ PowerInvalidate(Top.power) /\ Proceed("reporting")
        /\ UNCHANGED <<game, shim, calls, history>>
     \/ CallFails

Report ==
  LET f == Top
      p == f.power
      old == IF f.op = "Attachment" THEN None ELSE f.before
  IN  /\ At("reporting")
      /\ \/ /\ Accept(p, bearer[p], old, amount[p], f.source)
            /\ dirty' = [dirty EXCEPT ![p] = FALSE]
            /\ detached' = [detached EXCEPT ![p] = None]
            /\ Return
            /\ UNCHANGED <<game, calls, history>>
         \/ /\ Refuse(p, bearer[p], old, amount[p], f.source)
            /\ Proceed("failing")
            /\ UNCHANGED <<game, shim, calls, history>>
         \/ CallFails

ReportRemoval ==
  /\ At("removing")
  /\ \/ /\ PowerRemoved(Top.power)
        /\ dirty' = [dirty EXCEPT ![Top.power] = FALSE]
        /\ Return
        /\ UNCHANGED <<game, detached, calls, history>>
     \/ CallFails
     \/ /\ Fail /\ Return                       \* refused, without an exception
        /\ UNCHANGED <<game, shim, calls, history>>

Invalidate ==
  /\ At("failing")
  /\ \/ PowerInvalidate(Top.power)
     \/ Fail
  /\ Return
  /\ UNCHANGED <<game, shim, calls, history>>

\* A change the patches do not see: on another thread, or past the identity limit.
Unseen ==
  /\ frames # <<>> => Top.phase = "inside"
  /\ calls < MaxCalls
  /\ calls' = calls + 1
  /\ \E op \in Operations, p \in Powers, s \in Inputs : Write(op, p, s)
  /\ Fail
  /\ missed' = TRUE
  /\ UNCHANGED <<shim, frames, knotted>>

CaptureNext ==
  \/ \E op \in Operations, p \in Powers, s \in Inputs, seen \in BOOLEAN : MutationPrefix(op, p, s, seen)
  \/ Original
  \/ \E reads \in BOOLEAN : MutationFinalizer(reads)
  \/ ClearPriorDirty
  \/ Report
  \/ ReportRemoval
  \/ Invalidate
  \/ Unseen

CaptureSpec == CaptureInit /\ [][CaptureNext]_captureVars

----------------------------------------------------------------------------
(***************************************************************************)
(* Properties.                                                             *)
(***************************************************************************)
\* As long as no failure is reported, the engine knows every attached power exactly: its
\* amount, the supplier of every stack in the order they came, and hence whom its effects
\* are credited to, however the game's calls nested.
CompleteMeansExact ==
  ~failed /\ ~knotted => \A p \in Powers : Quiet(p) =>
    /\ (p \in DOMAIN powers) = (bearer[p] # None)
    /\ p \in DOMAIN powers =>
         /\ powers[p].trusted /\ powers[p].owner = bearer[p] /\ powers[p].observed = amount[p]
         /\ powers[p].grants = supplied[p]
    /\ bearer[p] # None /\ supplied[p] # <<>> => Source(p) = Mixture(supplied[p])

\* After failures too, a power the shim calls clean credits nobody for more stacks than he
\* supplied, unless a change escaped the patches or happened inside another one: what the
\* engine lost sight of is Unknown, and is not given back by a later report.
StacksFrom(q, s) == Cardinality({i \in DOMAIN q : q[i] = s})

NeverOverCredits ==
  ~missed => \A p \in DOMAIN powers : Quiet(p) /\ ~dirty[p] =>
    \A s \in Sources \ {UnknownSource} :
      StacksFrom(powers[p].grants, s) <= StacksFrom(supplied[p], s)
=============================================================================
