------------------------------- MODULE Sources -------------------------------
(***************************************************************************)
(* The sources that the patches hold on to: the engine's arena of exported *)
(* snapshots (SourceArena in profiler-core/src/data/source.rs), the        *)
(* managed objects that own its handles (SourceSnapshot.cs), and the       *)
(* capture epoch that keeps combats apart (CaptureRuntime.cs).             *)
(*                                                                         *)
(* The engine is called on the game thread only, one handler at a time.    *)
(* The garbage collector runs at any time: it may reclaim an object that   *)
(* nothing holds between any two steps of a handler.                       *)
(***************************************************************************)
EXTENDS Mixtures

CONSTANTS
  Holders,      \* what can hold a source: async frames, saved entries
  Objects,      \* the heap: the SourceSnapshot objects there can be at a time
  Snapshots,    \* the sources a capture can find
  Unknown,      \* the destination of what has no supplier
  MaxPayload,   \* PAYLOAD_MAX, the largest serial
  MaxSequence,  \* bound on the combats
  None          \* no handle, no object, no combat, nothing to return to

VARIABLES
  engine,    \* the engine's combat: its sequence, and does it take calls?
  arena,     \* the snapshots of its live handles, the index by content, the last serial
  epoch,     \* CaptureRuntime.Epoch: the combat that is captured, or None
  owned,     \* SourceSnapshot.owned: the weak reference of a handle, None once it is dead
  swept,     \* is collections = GC.CollectionCount(0)?
  object,    \* the heap: what every object is, None if it is free
  held,      \* the object every holder holds, or None for Unavailable
  call,      \* the call of the engine that has returned to no object yet, or NoCall
  refused    \* history: was a release refused while the combat was captured?

native  == <<engine, arena>>
managed == <<epoch, owned, swept, object, held>>
sourceVars == <<native, managed, call, refused>>

UnknownSource == <<[to |-> Unknown, weight |-> 1]>>

ASSUME SourceConstants ==
  /\ {MaxPayload, MaxSequence} \subseteq Nat
  /\ None \notin Objects \cup ((1..MaxSequence) \X (1..MaxPayload))

Handles == (1..MaxSequence) \X (1..MaxPayload)

NoEntries == [x \in {} |-> None]
NoCall    == [to |-> None, kept |-> {}, source |-> UnknownSource, handle |-> None]
NoArena   == [entries |-> NoEntries, index |-> NoEntries, serial |-> 0]

Without(f, S) == [x \in DOMAIN f \ S |-> f[x]]
With(f, x, y) == [z \in DOMAIN f \cup {x} |-> IF z = x THEN y ELSE f[z]]

----------------------------------------------------------------------------
(***************************************************************************)
(* The engine.                                                             *)
(***************************************************************************)
\* source_handle_token: a handle of the combat in progress, not yet released.
Lives(handle) ==
  /\ handle # None
  /\ engine.on
  /\ handle[1] = engine.sequence
  /\ handle[2] \in DOMAIN arena.entries

\* source_snapshot: what a call reads for a handle, None if it refuses it.
Read(handle) ==
  IF handle = None THEN UnknownSource
  ELSE IF Lives(handle) THEN arena.entries[handle[2]]
  ELSE None

\* source_release of some handles.
Released(handles) ==
  LET gone == {h[2] : h \in {x \in handles : Lives(x)}}
  IN  [arena EXCEPT !.entries = Without(@, gone),
                    !.index = Without(@, {arena.entries[n] : n \in gone})]

\* source_export to an arena: a snapshot there is already keeps its handle.
Exported(a, source) ==
  IF source \in DOMAIN a.index \/ a.serial = MaxPayload THEN a
  ELSE [entries |-> With(a.entries, a.serial + 1, source),
        index |-> With(a.index, source, a.serial + 1),
        serial |-> a.serial + 1]

HandleOf(a, source) ==
  IF source \in DOMAIN Exported(a, source).index
  THEN <<engine.sequence, Exported(a, source).index[source]>> ELSE None

----------------------------------------------------------------------------
(***************************************************************************)
(* The owners of the handles.                                              *)
(***************************************************************************)
Dead == {h \in DOMAIN owned : owned[h] = None}

\* SourceSnapshot.Collect: after a garbage collection, the handles whose owners died.
Collected == IF swept THEN {} ELSE Dead

Collect ==
  /\ owned' = Without(owned, Collected)
  /\ swept' = TRUE
  /\ refused' = (refused \/ (engine.on /\ \E h \in Collected : ~Lives(h)))

SweptArena == Released(Collected)

\* Mutant: every export makes an owner of its own.
NoOwner(handle) == None

\* SourceSnapshot.Own: the living owner of a handle, None if there is none.
OwnerOf(handle) == IF handle \in DOMAIN owned THEN owned[handle] ELSE None

\* The arguments of the call that own the handle it returned.
Reused == {o \in call.kept : object[o].handle = call.handle}

Free == {o \in Objects : object[o] = None}

\* What the engine returned has been given the owner o.
Owns(o) ==
  \/ /\ call.handle = None
     /\ o = None
     /\ UNCHANGED <<object, owned>>
  \/ /\ call.handle # None
     /\ o \in Reused
     /\ UNCHANGED <<object, owned>>
  \/ /\ call.handle # None
     /\ Reused = {}
     /\ OwnerOf(call.handle) # None
     /\ o = OwnerOf(call.handle)
     /\ UNCHANGED <<object, owned>>
  \/ /\ call.handle # None
     /\ Reused = {}
     /\ OwnerOf(call.handle) = None
     /\ Free # {}
     /\ o = CHOOSE free \in Free : TRUE
     /\ object' = [object EXCEPT ![o] = [handle |-> call.handle, source |-> call.source]]
     /\ owned' = With(owned, call.handle, o)

\* A call of the engine, after a collection: it leaves the arena after, and has
\* returned a handle of source for holder to.  It keeps its arguments alive.
Calls(to, kept, source, handle, after) ==
  /\ call = NoCall
  /\ epoch # None
  /\ Collect
  /\ arena' = after
  /\ call' = [to |-> to, kept |-> kept, source |-> source, handle |-> handle]
  /\ UNCHANGED <<engine, epoch, object>>

\* ... that exports source, unless the engine is poisoned.
Exports(to, kept, source) ==
  IF engine.on
  THEN Calls(to, kept, source, HandleOf(SweptArena, source), Exported(SweptArena, source))
  ELSE Calls(to, kept, source, None, SweptArena)

----------------------------------------------------------------------------
(***************************************************************************)
(* The handlers.                                                           *)
(***************************************************************************)
\* CaptureSource, up to the return of the engine.
Capture(h, source) ==
  /\ Exports(h, {}, source)
  /\ UNCHANGED held

\* ... and the rest of it.
Captured ==
  /\ call # NoCall
  /\ \E o \in Objects \cup {None} : Owns(o) /\ held' = [held EXCEPT ![call.to] = o]
  /\ call' = NoCall
  /\ UNCHANGED <<native, epoch, swept, refused>>

\* WithSource: whatever consumes a source first collects.
Consume(h) ==
  /\ call = NoCall
  /\ epoch # None
  /\ held[h] # None => object[held[h]].handle[1] = epoch
  /\ Collect
  /\ arena' = SweptArena
  /\ UNCHANGED <<engine, epoch, object, held, call>>

\* A frame ends, or starts with what another one holds.
Hold(h, o) ==
  /\ call = NoCall
  /\ o \in {None} \cup {held[g] : g \in Holders}
  /\ held' = [held EXCEPT ![h] = o]
  /\ UNCHANGED <<native, epoch, owned, swept, object, call, refused>>

\* The garbage collector: weak references to what it reclaims die.  A collection
\* that finds none of these objects is left out: it has the next Collect find nothing.
Garbage ==
  {o \in Objects : object[o] # None /\ (\A h \in Holders : held[h] # o)
                   /\ o \notin call.kept}

Reclaim(lost) ==
  /\ object' = [o \in Objects |-> IF o \in lost THEN None ELSE object[o]]
  /\ owned' = [h \in DOMAIN owned |-> IF owned[h] \in lost THEN None ELSE owned[h]]
  /\ swept' = FALSE
  /\ UNCHANGED <<native, epoch, held, call, refused>>

\* Mutant: the owners of the last combat's handles are still known.
ResetKeeping == swept' = TRUE /\ UNCHANGED owned

\* SourceSnapshot.Reset
Reset == swept' = TRUE /\ owned' = NoEntries

\* SetupPrefix and SetupPostfix: combat_started and Register.
StartCombat ==
  /\ call = NoCall
  /\ engine.sequence < MaxSequence
  /\ engine' = [sequence |-> engine.sequence + 1, on |-> TRUE]
  /\ arena' = NoArena
  /\ epoch' = engine.sequence + 1
  /\ Reset
  /\ UNCHANGED <<object, call, refused>>

\* CombatEndedPostfix: combat_ended and InvalidateEpoch.
EndCombat ==
  /\ call = NoCall
  /\ epoch # None
  /\ engine' = [engine EXCEPT !.on = FALSE]
  /\ arena' = IF engine.on THEN [arena EXCEPT !.entries = NoEntries, !.index = NoEntries] ELSE arena
  /\ epoch' = None
  /\ Reset
  /\ UNCHANGED <<object, call, refused>>

\* InvalidateEpoch as a combat is set up, or a run starts, ends or is suspended;
\* the session may also discard the engine's combat.
InvalidateEpoch ==
  /\ call = NoCall
  /\ epoch' = None
  /\ Reset
  /\ \/ UNCHANGED native
     \/ engine' = [engine EXCEPT !.on = FALSE] /\ arena' = NoArena
  /\ UNCHANGED <<object, call, refused>>

\* A panic in a call poisons the engine until the next combat.
Poison ==
  /\ call = NoCall
  /\ engine.on
  /\ engine' = [engine EXCEPT !.on = FALSE]
  /\ UNCHANGED <<arena, managed, call, refused>>

----------------------------------------------------------------------------
Init ==
  /\ engine = [sequence |-> 0, on |-> FALSE]
  /\ arena = NoArena
  /\ epoch = None
  /\ owned = NoEntries
  /\ swept = TRUE
  /\ object = [o \in Objects |-> None]
  /\ held = [h \in Holders |-> None]
  /\ call = NoCall
  /\ refused = FALSE

Next ==
  \/ \E h \in Holders, s \in Snapshots : Capture(h, s)
  \/ Captured
  \/ \E h \in Holders : Consume(h)
  \/ \E h \in Holders, o \in Objects \cup {None} : Hold(h, o)
  \/ \E lost \in (SUBSET Garbage) \ {{}} : Reclaim(lost)
  \/ (StartCombat \/ EndCombat \/ InvalidateEpoch) /\ UNCHANGED held
  \/ Poison

Spec == Init /\ [][Next]_sourceVars

----------------------------------------------------------------------------
(***************************************************************************)
(* Properties.                                                             *)
(***************************************************************************)
\* While the combat of a living object takes calls, the object's handle reads
\* what it was captured as: it is never released under it, whatever the garbage
\* collector reclaims when (the header of SourceSnapshot.cs: one managed object
\* owns each handle; source.rs: serials never repeat).
OwnersResolve ==
  \A o \in Objects :
     object[o] # None /\ engine.on /\ object[o].handle[1] = engine.sequence
        => Read(object[o].handle) = object[o].source

\* Every handle is released once, by the first collection after its owner died:
\* no release is refused, and what the arena holds is owned, or about to be.
ReleasedOnce ==
  /\ ~refused
  /\ engine.on /\ epoch # None =>
        \A n \in DOMAIN arena.entries :
           LET handle == <<engine.sequence, n>>
           IN  handle \in DOMAIN owned \/ call.handle = handle
=============================================================================
