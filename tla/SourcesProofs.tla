--------------------------- MODULE SourcesProofs ---------------------------
(***************************************************************************)
(* Handles and their owners, for any number of holders, objects, sources   *)
(* and combats: no handle is released under a living owner, none is        *)
(* released twice, and none is left behind.                                *)
(*                                                                         *)
(* Then what two sources combine to, for any sources and amounts: exactly  *)
(* what they stand for together.  And, from both, that what powers save    *)
(* for later is exact, supplier by supplier, however it was accumulated.   *)
(***************************************************************************)
EXTENDS Temporal, SequenceTheorems, FiniteSetTheorems, NaturalsInduction, WellFoundedInduction, TLAPS

Living == {o \in Objects : object[o] # None}

IsArena(a) ==
  /\ a = [entries |-> a.entries, index |-> a.index, serial |-> a.serial]
  /\ a.serial \in 0..MaxPayload
  /\ DOMAIN a.entries \subseteq 1..a.serial
  /\ \A s \in DOMAIN a.index : a.index[s] \in DOMAIN a.entries /\ a.entries[a.index[s]] = s

Shape ==
  /\ engine = [sequence |-> engine.sequence, on |-> engine.on]
  /\ engine.sequence \in 0..MaxSequence
  /\ engine.on => engine.sequence # 0
  /\ IsArena(arena)
  /\ object = [o \in Objects |-> object[o]]
  /\ epoch # None => epoch = engine.sequence

\* No object is of a combat to come.
PastHandles ==
  \A o \in Living : \E q \in 0..engine.sequence, n \in 1..MaxPayload : object[o].handle = <<q, n>>

\* A living owner of the combat is the one its handle is registered with ...
Registered ==
  epoch # None => \A o \in Living : object[o].handle[1] = engine.sequence =>
                     object[o].handle \in DOMAIN owned /\ owned[object[o].handle] = o

\* ... and what is registered is in the arena.
InArena ==
  epoch # None /\ engine.on =>
     \A h \in DOMAIN owned : \E n \in DOMAIN arena.entries : h = <<engine.sequence, n>>

\* The handle a call returned is in the arena until it is owned.
Returning ==
  /\ call.kept \subseteq Living
  /\ call.handle # None =>
        /\ engine.on
        /\ \E n \in DOMAIN arena.entries :
              call.handle = <<engine.sequence, n>> /\ arena.entries[n] = call.source

IInv ==
  Shape /\ PastHandles /\ Registered /\ InArena /\ Returning /\ OwnersResolve /\ ReleasedOnce

LEMMA NoHandle == ASSUME Shape, NEW n \in DOMAIN arena.entries, engine.on
                  PROVE  <<engine.sequence, n>> # None
BY SourceConstants DEF Shape, IsArena

LEMMA ArenaExcept ==
  ASSUME NEW a, IsArena(a), NEW e, NEW i
  PROVE  [a EXCEPT !.entries = e, !.index = i] = [entries |-> e, index |-> i, serial |-> a.serial]
<1>1. [a EXCEPT !.entries = e, !.index = i] = [[a EXCEPT !.entries = e] EXCEPT !.index = i]
  BY DEF IsArena
<1>. DEFINE b == [a EXCEPT !.entries = e]
<1>2. b = [entries |-> e, index |-> a.index, serial |-> a.serial]
  BY DEF IsArena
<1>. HIDE DEF b
<1>3. [b EXCEPT !.index = i] = [entries |-> e, index |-> i, serial |-> a.serial]
  BY <1>2
<1>. QED BY <1>1, <1>3 DEF b

\* What a collection leaves in the arena.
LEMMA Sweeping ==
  ASSUME IInv, epoch # None, call = NoCall
  PROVE  /\ IsArena(SweptArena)
         /\ SweptArena.serial = arena.serial
         /\ DOMAIN SweptArena.entries \subseteq DOMAIN arena.entries
         /\ \A n \in DOMAIN SweptArena.entries : SweptArena.entries[n] = arena.entries[n]
         /\ engine.on =>
              /\ \A o \in Living : object[o].handle[1] = engine.sequence =>
                    object[o].handle[2] \in DOMAIN SweptArena.entries
              /\ \A h \in DOMAIN owned \ Collected :
                    \E n \in DOMAIN SweptArena.entries : h = <<engine.sequence, n>>
              /\ \A n \in DOMAIN SweptArena.entries : <<engine.sequence, n>> \in DOMAIN owned \ Collected
              /\ \A h \in Collected : Lives(h)
<1>. DEFINE gone == {h[2] : h \in {x \in Collected : Lives(x)}}
            lost == {arena.entries[n] : n \in gone}
<1>0. Collected \subseteq DOMAIN owned /\ \A h \in Collected : owned[h] = None
  BY DEF Collected, Dead
<1>1. SweptArena = [entries |-> Without(arena.entries, gone), index |-> Without(arena.index, lost),
                    serial |-> arena.serial]
  <2>1. IsArena(arena)
    BY DEF IInv, Shape
  <2>2. SweptArena = [arena EXCEPT !.entries = Without(arena.entries, gone), !.index = Without(arena.index, lost)]
    BY DEF SweptArena, Released
  <2>. HIDE DEF gone, lost
  <2>. QED BY <2>1, <2>2, ArenaExcept
<1>2. DOMAIN SweptArena.entries = DOMAIN arena.entries \ gone
      /\ \A n \in DOMAIN SweptArena.entries : SweptArena.entries[n] = arena.entries[n]
  BY <1>1 DEF Without
<1>3. DOMAIN SweptArena.index = DOMAIN arena.index \ lost
      /\ \A s \in DOMAIN SweptArena.index : SweptArena.index[s] = arena.index[s]
  BY <1>1 DEF Without
<1>4. ASSUME NEW s \in DOMAIN SweptArena.index
      PROVE  SweptArena.index[s] \in DOMAIN SweptArena.entries /\ SweptArena.entries[SweptArena.index[s]] = s
  <2>1. s \in DOMAIN arena.index /\ s \notin lost /\ SweptArena.index[s] = arena.index[s]
    BY <1>3
  <2>2. arena.index[s] \in DOMAIN arena.entries /\ arena.entries[arena.index[s]] = s
    BY <2>1 DEF IInv, Shape, IsArena
  <2>3. arena.index[s] \notin gone
    BY <2>1, <2>2
  <2>. QED BY <1>2, <2>1, <2>2, <2>3
<1>5. IsArena(SweptArena)
  <2>1. SweptArena = [entries |-> SweptArena.entries, index |-> SweptArena.index, serial |-> SweptArena.serial]
    BY <1>1, Zenon
  <2>2. SweptArena.serial = arena.serial
    BY <1>1
  <2>3. arena.serial \in 0..MaxPayload /\ DOMAIN arena.entries \subseteq 1..arena.serial
    BY DEF IInv, Shape, IsArena
  <2>4. DOMAIN SweptArena.entries \subseteq 1..SweptArena.serial
    BY <1>2, <2>2, <2>3
  <2>. HIDE DEF gone, lost
  <2>. QED BY <1>4, <2>1, <2>2, <2>3, <2>4 DEF IsArena
<1>6. ASSUME engine.on, NEW h \in Collected PROVE Lives(h)
  <2>1. PICK n \in DOMAIN arena.entries : h = <<engine.sequence, n>>
    BY <1>0, <1>6 DEF IInv, InArena
  <2>. QED BY <1>6, <2>1, NoHandle DEF Lives, IInv
<1>7. ASSUME engine.on, NEW n \in gone PROVE <<engine.sequence, n>> \in Collected
  <2>1. PICK h \in Collected : Lives(h) /\ n = h[2]
    OBVIOUS
  <2>2. PICK m \in DOMAIN arena.entries : h = <<engine.sequence, m>>
    BY <1>0, <1>7 DEF IInv, InArena
  <2>. QED BY <2>1, <2>2
<1>8. ASSUME engine.on, NEW o \in Living, object[o].handle[1] = engine.sequence
      PROVE  object[o].handle[2] \in DOMAIN SweptArena.entries
  <2>1. PICK n \in 1..MaxPayload : object[o].handle = <<engine.sequence, n>>
    BY <1>8 DEF IInv, PastHandles
  <2>2. owned[object[o].handle] = o
    BY <1>8 DEF IInv, Registered
  <2>3. object[o].handle \notin Collected
    BY <1>0, <2>2, SourceConstants DEF Living
  <2>4. Lives(object[o].handle)
    <3>1. Read(object[o].handle) = object[o].source
      BY <1>8 DEF IInv, OwnersResolve, Living
    <3>2. object[o].handle \in DOMAIN owned
      BY <1>8 DEF IInv, Registered
    <3>3. PICK m \in DOMAIN arena.entries : object[o].handle = <<engine.sequence, m>>
      BY <1>8, <3>2 DEF IInv, InArena
    <3>. QED BY <1>8, <3>3, NoHandle DEF Lives, IInv
  <2>5. n \notin gone
    BY <1>7, <1>8, <2>1, <2>3
  <2>. QED BY <1>2, <2>1, <2>4, <2>5 DEF Lives
<1>9. ASSUME engine.on, NEW h \in DOMAIN owned \ Collected
      PROVE  \E n \in DOMAIN SweptArena.entries : h = <<engine.sequence, n>>
  <2>1. PICK n \in DOMAIN arena.entries : h = <<engine.sequence, n>>
    BY <1>9 DEF IInv, InArena
  <2>2. n \notin gone
    BY <1>7, <1>9, <2>1
  <2>. QED BY <1>2, <2>1, <2>2
<1>10. ASSUME engine.on, NEW n \in DOMAIN SweptArena.entries
       PROVE  <<engine.sequence, n>> \in DOMAIN owned \ Collected
  <2>1. n \in DOMAIN arena.entries /\ n \notin gone
    BY <1>2
  <2>2. <<engine.sequence, n>> \in DOMAIN owned
    <3>1. <<engine.sequence, n>> # None
      BY <1>10, <2>1, NoHandle DEF IInv
    <3>2. call.handle = None
      BY DEF NoCall
    <3>. QED BY <1>10, <2>1, <3>1, <3>2 DEF IInv, ReleasedOnce
  <2>3. <<engine.sequence, n>> \notin Collected
    <3>. SUFFICES ASSUME <<engine.sequence, n>> \in Collected PROVE n \in gone
      BY <2>1
    <3>1. Lives(<<engine.sequence, n>>)
      BY <1>6, <1>10
    <3>2. <<engine.sequence, n>>[2] = n
      OBVIOUS
    <3>. QED BY <3>1, <3>2
  <2>. QED BY <2>2, <2>3
<1>11. SweptArena.serial = arena.serial
  BY <1>1
<1>12. DOMAIN SweptArena.entries \subseteq DOMAIN arena.entries
  BY <1>2
<1>13. \A n \in DOMAIN SweptArena.entries : SweptArena.entries[n] = arena.entries[n]
  BY <1>2
<1>. HIDE DEF gone, lost
<1>. QED BY <1>5, <1>6, <1>8, <1>9, <1>10, <1>11, <1>12, <1>13

----------------------------------------------------------------------------
\* An arena that has grown by the snapshot a call returned the handle of.
Grown(a, source, handle, after) ==
  /\ IsArena(after)
  /\ DOMAIN a.entries \subseteq DOMAIN after.entries
  /\ \A n \in DOMAIN a.entries : after.entries[n] = a.entries[n]
  /\ \A n \in DOMAIN after.entries \ DOMAIN a.entries : handle = <<engine.sequence, n>>
  /\ handle # None =>
        /\ engine.on
        /\ \E n \in DOMAIN after.entries : handle = <<engine.sequence, n>> /\ after.entries[n] = source

LEMMA Growing ==
  ASSUME NEW a, IsArena(a), engine.on, NEW source
  PROVE  Grown(a, source, HandleOf(a, source), Exported(a, source))
<1>. DEFINE b == Exported(a, source)
            new == ~(source \in DOMAIN a.index \/ a.serial = MaxPayload)
<1>1. CASE ~new
  <2>1. b = a
    BY <1>1 DEF Exported
  <2>. HIDE DEF b, new
  <2>2. ASSUME HandleOf(a, source) # None
        PROVE  \E n \in DOMAIN a.entries : HandleOf(a, source) = <<engine.sequence, n>> /\ a.entries[n] = source
    <3>1. source \in DOMAIN a.index /\ HandleOf(a, source) = <<engine.sequence, a.index[source]>>
      BY <2>1, <2>2 DEF HandleOf, b
    <3>. QED BY <3>1 DEF IsArena
  <2>3. Grown(a, source, HandleOf(a, source), b)
    BY <2>1, <2>2 DEF Grown
  <2>. QED BY <2>3 DEF b
<1>2. CASE new
  <2>. DEFINE last == a.serial + 1
              e == With(a.entries, last, source)
              i == With(a.index, source, last)
  <2>1. b = [entries |-> e, index |-> i, serial |-> last]
    BY <1>2 DEF Exported
  <2>2. last \in 1..MaxPayload /\ last \notin DOMAIN a.entries /\ DOMAIN a.entries \subseteq 1..last
    BY <1>2, SourceConstants DEF IsArena
  <2>3. DOMAIN e = DOMAIN a.entries \cup {last} /\ e[last] = source
        /\ \A n \in DOMAIN a.entries : e[n] = a.entries[n]
    BY <2>2 DEF With
  <2>4. DOMAIN i = DOMAIN a.index \cup {source} /\ i[source] = last
        /\ \A s \in DOMAIN a.index : s # source => i[s] = a.index[s]
    BY DEF With
  <2>5. ASSUME NEW s \in DOMAIN i PROVE i[s] \in DOMAIN e /\ e[i[s]] = s
    <3>1. CASE s = source
      BY <2>3, <2>4, <3>1
    <3>2. CASE s # source
      <4>1. s \in DOMAIN a.index /\ i[s] = a.index[s]
        BY <2>4, <2>5, <3>2
      <4>. QED BY <2>3, <4>1 DEF IsArena
    <3>. QED BY <3>1, <3>2
  <2>6. HandleOf(a, source) = <<engine.sequence, last>>
    BY <2>1, <2>4 DEF HandleOf, b
  <2>. HIDE DEF b, new, e, i, last
  <2>7. b.entries = e /\ b.index = i /\ b.serial = last
    BY <2>1
  <2>8. IsArena(b)
    <3>1. b = [entries |-> b.entries, index |-> b.index, serial |-> b.serial]
      BY <2>1
    <3>2. last \in 0..MaxPayload /\ DOMAIN e \subseteq 1..last
      BY <2>2, <2>3, SourceConstants
    <3>. QED BY <2>5, <2>7, <3>1, <3>2 DEF IsArena
  <2>9. Grown(a, source, HandleOf(a, source), b)
    BY <2>3, <2>6, <2>7, <2>8 DEF Grown
  <2>. QED BY <2>9 DEF b
<1>. QED BY <1>1, <1>2

\* A call of the engine keeps the invariant.
LEMMA Calling ==
  ASSUME IInv, NEW to, NEW kept, kept \subseteq Living, NEW source, NEW handle, NEW after,
         Calls(to, kept, source, handle, after), Grown(SweptArena, source, handle, after)
  PROVE  IInv'
<1>1. /\ call = NoCall /\ epoch # None /\ arena' = after
      /\ UNCHANGED <<engine, epoch, object>>
      /\ owned' = Without(owned, Collected)
      /\ refused' = (refused \/ (engine.on /\ \E h \in Collected : ~Lives(h)))
  BY DEF Calls, Collect
<1>2. call' = [to |-> to, kept |-> kept, source |-> source, handle |-> handle]
  BY DEF Calls
<1>3. call'.kept = kept /\ call'.handle = handle /\ call'.source = source
  BY <1>2
<1>4. DOMAIN owned' = DOMAIN owned \ Collected /\ \A h \in DOMAIN owned' : owned'[h] = owned[h]
  BY <1>1 DEF Without
<1>5. Living' = Living
  BY <1>1 DEF Living
<1>6. Shape'
  BY <1>1 DEF IInv, Shape, Grown
<1>7. PastHandles'
  BY <1>1, <1>5 DEF IInv, PastHandles
<1>8. Registered'
  <2>. SUFFICES ASSUME NEW o \in Living, object[o].handle[1] = engine.sequence
                PROVE  object[o].handle \in DOMAIN owned' /\ owned'[object[o].handle] = o
    BY <1>1, <1>5 DEF Registered
  <2>1. object[o].handle \in DOMAIN owned /\ owned[object[o].handle] = o
    BY <1>1 DEF IInv, Registered
  <2>2. o # None
    BY SourceConstants DEF Living
  <2>3. object[o].handle \notin Collected
    BY <2>1, <2>2 DEF Collected, Dead
  <2>. QED BY <1>4, <2>1, <2>3
<1>9. InArena'
  <2>. SUFFICES ASSUME engine.on, NEW h \in DOMAIN owned \ Collected
                PROVE  \E n \in DOMAIN after.entries : h = <<engine.sequence, n>>
    BY <1>1, <1>4 DEF InArena
  <2>1. PICK n \in DOMAIN SweptArena.entries : h = <<engine.sequence, n>>
    BY <1>1, Sweeping
  <2>. QED BY <2>1 DEF Grown
<1>10. Returning'
  <2>1. handle # None =>
          engine.on /\ \E n \in DOMAIN after.entries : handle = <<engine.sequence, n>> /\ after.entries[n] = source
    BY DEF Grown
  <2>. QED BY <1>1, <1>3, <1>5, <2>1 DEF Returning
<1>11. OwnersResolve'
  <2>. SUFFICES ASSUME NEW o \in Living, engine.on, object[o].handle[1] = engine.sequence
                PROVE  Read(object[o].handle)' = object[o].source
    BY <1>1, <1>5 DEF OwnersResolve, Living
  <2>1. PICK n \in 1..MaxPayload : object[o].handle = <<engine.sequence, n>>
    BY DEF IInv, PastHandles
  <2>2. n \in DOMAIN SweptArena.entries
    BY <1>1, <2>1, Sweeping
  <2>3. n \in DOMAIN arena.entries /\ SweptArena.entries[n] = arena.entries[n]
    BY <1>1, <2>2, Sweeping
  <2>4. n \in DOMAIN after.entries /\ after.entries[n] = arena.entries[n]
    BY <2>2, <2>3 DEF Grown
  <2>5. <<engine.sequence, n>> # None
    BY <2>3, NoHandle DEF IInv
  <2>6. Read(object[o].handle) = object[o].source
    BY DEF IInv, OwnersResolve, Living
  <2>7. arena.entries[n] = object[o].source
    BY <2>1, <2>3, <2>5, <2>6 DEF Read, Lives
  <2>. QED BY <1>1, <2>1, <2>4, <2>5, <2>7 DEF Read, Lives
<1>12. ReleasedOnce'
  <2>1. ~refused'
    BY <1>1, Sweeping DEF IInv, ReleasedOnce
  <2>2. ASSUME engine.on, NEW n \in DOMAIN after.entries
        PROVE  <<engine.sequence, n>> \in DOMAIN owned' \/ handle = <<engine.sequence, n>>
    <3>1. CASE n \in DOMAIN SweptArena.entries
      BY <1>1, <1>4, <2>2, <3>1, Sweeping
    <3>2. CASE n \notin DOMAIN SweptArena.entries
      BY <2>2, <3>2 DEF Grown
    <3>. QED BY <3>1, <3>2
  <2>3. call' # None \/ call' = NoCall => \A n \in DOMAIN after.entries : TRUE
    OBVIOUS
  <2>. QED BY <1>1, <1>3, <2>1, <2>2 DEF ReleasedOnce
<1>. QED BY <1>6, <1>7, <1>8, <1>9, <1>10, <1>11, <1>12 DEF IInv

\* ... and so does what follows its return.
LEMMA Owning ==
  ASSUME IInv, NEW o, Owns(o), call' = NoCall, UNCHANGED <<engine, arena, epoch, refused>>
  PROVE  IInv'
<1>1. Owns(o)
  OBVIOUS
<1>2. call' = NoCall /\ UNCHANGED <<engine, arena, epoch, refused>>
  OBVIOUS
<1>3. call'.kept = {} /\ call'.handle = None
  BY <1>2 DEF NoCall
<1>4. Returning'
  BY <1>2, <1>3 DEF Returning
<1>5. ASSUME UNCHANGED <<object, owned>>,
             call.handle # None => epoch = None \/ call.handle \in DOMAIN owned
      PROVE  IInv'
  <2>1. Living' = Living
    BY <1>5 DEF Living
  <2>2. ReleasedOnce'
    <3>. SUFFICES ASSUME engine.on, epoch # None, NEW n \in DOMAIN arena.entries
                  PROVE  <<engine.sequence, n>> \in DOMAIN owned
      BY <1>2, <1>5 DEF IInv, ReleasedOnce
    <3>1. <<engine.sequence, n>> # None
      BY NoHandle DEF IInv
    <3>2. <<engine.sequence, n>> \in DOMAIN owned \/ call.handle = <<engine.sequence, n>>
      BY DEF IInv, ReleasedOnce
    <3>. QED BY <1>5, <3>1, <3>2
  <2>3. Shape' /\ PastHandles' /\ Registered' /\ InArena'
    <3>1. Shape'
      BY <1>2, <1>5 DEF IInv, Shape
    <3>2. PastHandles' /\ Registered'
      BY <1>2, <1>5, <2>1 DEF IInv, PastHandles, Registered
    <3>3. InArena'
      BY <1>2, <1>5 DEF IInv, InArena
    <3>. QED BY <3>1, <3>2, <3>3
  <2>4. OwnersResolve'
    BY <1>2, <1>5 DEF IInv, OwnersResolve, Read, Lives
  <2>. QED BY <1>4, <2>2, <2>3, <2>4 DEF IInv
<1>6. CASE call.handle = None
  BY <1>1, <1>5, <1>6 DEF Owns
<1>7. CASE call.handle # None /\ o \in Reused
  <2>1. o \in Living /\ object[o].handle = call.handle
    BY <1>7 DEF Reused, IInv, Returning
  <2>2. call.handle[1] = engine.sequence
    BY <1>7 DEF IInv, Returning
  <2>3. epoch = None \/ call.handle \in DOMAIN owned
    BY <2>1, <2>2 DEF IInv, Registered
  <2>. QED BY <1>1, <1>5, <1>7, <2>3 DEF Owns
<1>8. CASE call.handle # None /\ OwnerOf(call.handle) # None /\ UNCHANGED <<object, owned>>
  BY <1>5, <1>8 DEF OwnerOf
<1>9. CASE /\ call.handle # None
           /\ OwnerOf(call.handle) = None
           /\ o \in Free
           /\ object' = [object EXCEPT ![o] = [handle |-> call.handle, source |-> call.source]]
           /\ owned' = With(owned, call.handle, o)
  <2>. DEFINE record == [handle |-> call.handle, source |-> call.source]
  <2>1. PICK n \in DOMAIN arena.entries : call.handle = <<engine.sequence, n>> /\ arena.entries[n] = call.source
    BY <1>9 DEF IInv, Returning
  <2>2. engine.on /\ n \in 1..MaxPayload /\ engine.sequence \in 0..engine.sequence
    <3>1. engine.on
      BY <1>9 DEF IInv, Returning
    <3>2. n \in 1..arena.serial /\ arena.serial \in 0..MaxPayload /\ engine.sequence \in 0..MaxSequence
      BY <2>1 DEF IInv, Shape, IsArena
    <3>. QED BY <3>1, <3>2, SourceConstants
  <2>3. o \in Objects /\ object[o] = None
    BY <1>9 DEF Free
  <2>4. DOMAIN object = Objects /\ object = [x \in Objects |-> object[x]]
    BY DEF IInv, Shape
  <2>5. object'[o] = record /\ \A x \in Objects : x # o => object'[x] = object[x]
    BY <1>9, <2>3, <2>4
  <2>6. DOMAIN owned' = DOMAIN owned \cup {call.handle} /\ owned'[call.handle] = o
        /\ \A h \in DOMAIN owned : h # call.handle => owned'[h] = owned[h]
    BY <1>9 DEF With
  <2>7. record.handle = call.handle /\ record.source = call.source
    OBVIOUS
  <2>. HIDE DEF record
  <2>8. Living' \subseteq Living \cup {o} /\ \A x \in Living' : x # o => x \in Living /\ object'[x] = object[x]
    BY <2>5 DEF Living
  <2>9. Shape'
    <3>1. object' = [x \in Objects |-> object'[x]]
      BY <1>9, <2>4
    <3>. QED BY <1>2, <3>1 DEF IInv, Shape
  <2>10. PastHandles'
    <3>. SUFFICES ASSUME NEW x \in Living'
                  PROVE  \E q \in 0..engine.sequence, m \in 1..MaxPayload : object'[x].handle = <<q, m>>
      BY <1>2 DEF PastHandles
    <3>1. CASE x = o
      BY <2>1, <2>2, <2>5, <2>7, <3>1
    <3>2. CASE x # o
      BY <2>8, <3>2 DEF IInv, PastHandles
    <3>. QED BY <3>1, <3>2
  <2>11. Registered'
    <3>. SUFFICES ASSUME epoch # None, NEW x \in Living', object'[x].handle[1] = engine.sequence
                  PROVE  object'[x].handle \in DOMAIN owned' /\ owned'[object'[x].handle] = x
      BY <1>2 DEF Registered
    <3>1. CASE x = o
      BY <2>5, <2>6, <2>7, <3>1
    <3>2. CASE x # o
      <4>1. x \in Living /\ object'[x] = object[x]
        BY <2>8, <3>2
      <4>2. object[x].handle \in DOMAIN owned /\ owned[object[x].handle] = x
        BY <4>1 DEF IInv, Registered
      <4>3. x # None
        BY <4>1, SourceConstants DEF Living
      <4>4. object[x].handle # call.handle
        BY <1>9, <4>2, <4>3 DEF OwnerOf
      <4>. QED BY <2>6, <4>1, <4>2, <4>4
    <3>. QED BY <3>1, <3>2
  <2>12. InArena'
    BY <1>2, <2>1, <2>6 DEF IInv, InArena
  <2>13. OwnersResolve'
    <3>. SUFFICES ASSUME NEW x \in Living', object'[x].handle[1] = engine.sequence
                  PROVE  Read(object'[x].handle) = object'[x].source
      BY <1>2 DEF OwnersResolve, Living, Read, Lives
    <3>1. CASE x = o
      <4>1. <<engine.sequence, n>> # None
        BY <2>2, NoHandle DEF IInv
      <4>. QED BY <2>1, <2>2, <2>5, <2>7, <3>1, <4>1 DEF Read, Lives
    <3>2. CASE x # o
      BY <2>2, <2>8, <3>2 DEF IInv, OwnersResolve, Living
    <3>. QED BY <3>1, <3>2
  <2>14. ReleasedOnce'
    BY <1>2, <2>6 DEF IInv, ReleasedOnce
  <2>. QED BY <1>4, <2>9, <2>10, <2>11, <2>12, <2>13, <2>14 DEF IInv
<1>. QED BY <1>1, <1>6, <1>7, <1>8, <1>9 DEF Owns

\* A collection of the garbage collector.
LEMMA Reclaiming == ASSUME IInv, NEW lost \in SUBSET Garbage, Reclaim(lost) PROVE IInv'
<1>1. /\ UNCHANGED <<engine, arena, epoch, call, refused>>
      /\ object' = [o \in Objects |-> IF o \in lost THEN None ELSE object[o]]
      /\ owned' = [h \in DOMAIN owned |-> IF owned[h] \in lost THEN None ELSE owned[h]]
  BY DEF Reclaim, native
<1>2. Living' = Living \ lost /\ \A o \in Living' : object'[o] = object[o]
  BY <1>1 DEF Living
<1>3. DOMAIN owned' = DOMAIN owned /\ \A h \in DOMAIN owned : owned[h] \notin lost => owned'[h] = owned[h]
  BY <1>1
<1>4. Shape' /\ PastHandles' /\ Registered' /\ InArena'
  <2>1. Shape'
    BY <1>1 DEF IInv, Shape
  <2>2. PastHandles'
    BY <1>1, <1>2 DEF IInv, PastHandles
  <2>3. Registered'
    BY <1>1, <1>2, <1>3 DEF IInv, Registered
  <2>4. InArena'
    BY <1>1, <1>3 DEF IInv, InArena
  <2>. QED BY <2>1, <2>2, <2>3, <2>4
<1>5. Returning'
  BY <1>1, <1>2 DEF IInv, Returning, Garbage
<1>6. OwnersResolve'
  BY <1>1, <1>2 DEF IInv, OwnersResolve, Read, Lives, Living
<1>7. ReleasedOnce'
  BY <1>1, <1>3 DEF IInv, ReleasedOnce
<1>. QED BY <1>4, <1>5, <1>6, <1>7 DEF IInv

----------------------------------------------------------------------------
LEMMA Resting ==
  ASSUME IInv, UNCHANGED <<engine, arena, epoch, owned, object, call, refused>>
  PROVE  IInv'
BY DEF IInv, Shape, PastHandles, Registered, InArena, Returning, OwnersResolve, ReleasedOnce,
       Living, Read, Lives

\* Capturing and consuming: a call that exports, and one that only collects.
LEMMA Exporting ==
  ASSUME IInv, NEW to, NEW kept, kept \subseteq Living, NEW source, Exports(to, kept, source)
  PROVE  IInv'
<1>1. call = NoCall /\ epoch # None
  BY DEF Exports, Calls
<1>2. IsArena(SweptArena)
  BY <1>1, Sweeping
<1>3. CASE engine.on
  BY <1>2, <1>3, Growing, Calling DEF Exports
<1>4. CASE ~engine.on
  <2>1. Grown(SweptArena, source, None, SweptArena)
    BY <1>2 DEF Grown
  <2>. QED BY <1>4, <2>1, Calling DEF Exports
<1>. QED BY <1>3, <1>4

LEMMA Consuming == ASSUME IInv, NEW h, Consume(h) PROVE IInv'
<1>1. Calls(None, {}, UnknownSource, None, SweptArena)
  BY DEF Consume, Calls, NoCall
<1>2. Grown(SweptArena, UnknownSource, None, SweptArena)
  BY Sweeping DEF Grown, Consume
<1>. QED BY <1>1, <1>2, Calling

\* No handle of an earlier combat is read in the next one.
LEMMA Starting == ASSUME IInv, StartCombat PROVE IInv'
<1>1. /\ engine.sequence < MaxSequence
      /\ engine' = [sequence |-> engine.sequence + 1, on |-> TRUE]
      /\ arena' = NoArena /\ epoch' = engine.sequence + 1 /\ owned' = NoEntries
      /\ UNCHANGED <<object, call, refused>> /\ call = NoCall
  BY DEF StartCombat, Reset
<1>2. engine.sequence \in 0..MaxSequence /\ MaxSequence \in Nat /\ MaxPayload \in Nat
  BY SourceConstants DEF IInv, Shape
<1>3. engine'.sequence = engine.sequence + 1 /\ engine.sequence + 1 \in 1..MaxSequence
  BY <1>1, <1>2
<1>4. IsArena(arena') /\ DOMAIN arena'.entries = {} /\ DOMAIN owned' = {}
  BY <1>1, <1>2 DEF IsArena, NoArena, NoEntries
<1>5. Living' = Living
  BY <1>1 DEF Living
<1>6. PastHandles'
  <2>1. 0..engine.sequence \subseteq 0..engine'.sequence
    BY <1>2, <1>3
  <2>. QED BY <1>1, <1>5, <2>1 DEF IInv, PastHandles
<1>7. ASSUME NEW o \in Living PROVE object[o].handle[1] # engine'.sequence
  <2>1. PICK q \in 0..engine.sequence, n \in 1..MaxPayload : object[o].handle = <<q, n>>
    BY DEF IInv, PastHandles
  <2>. QED BY <1>2, <1>3, <2>1
<1>8. Shape'
  <2>1. engine' = [sequence |-> engine'.sequence, on |-> engine'.on]
    BY <1>1
  <2>. HIDE DEF IInv
  <2>2. object = [o \in Objects |-> object[o]]
    BY DEF IInv, Shape
  <2>. QED BY <1>1, <1>2, <1>3, <1>4, <2>1, <2>2 DEF Shape
<1>9. Registered' /\ OwnersResolve'
  BY <1>1, <1>5, <1>7 DEF Registered, OwnersResolve, Living
<1>10. InArena' /\ ReleasedOnce'
  BY <1>1, <1>4 DEF InArena, IInv, ReleasedOnce
<1>11. Returning'
  BY <1>1, <1>5 DEF IInv, Returning, NoCall
<1>. QED BY <1>6, <1>8, <1>9, <1>10, <1>11 DEF IInv

\* Nothing is captured between two combats.
LEMMA Ending ==
  ASSUME IInv, call = NoCall, epoch' = None, UNCHANGED <<object, call, refused>>,
         engine'.sequence = engine.sequence, IsArena(arena'),
         (engine' = engine /\ arena' = arena) \/ engine' = [sequence |-> engine.sequence, on |-> FALSE]
  PROVE  IInv'
<1>1. Living' = Living
  BY DEF Living
<1>2. Shape'
  BY DEF IInv, Shape
<1>3. PastHandles' /\ Registered' /\ InArena'
  BY <1>1 DEF IInv, PastHandles, Registered, InArena
<1>4. Returning'
  BY <1>1 DEF IInv, Returning, NoCall
<1>5. OwnersResolve'
  BY DEF IInv, OwnersResolve, Read, Lives
<1>6. ReleasedOnce'
  BY DEF IInv, ReleasedOnce
<1>. QED BY <1>2, <1>3, <1>4, <1>5, <1>6 DEF IInv

LEMMA NoArenaIsArena == IsArena(NoArena)
BY SourceConstants DEF IsArena, NoArena, NoEntries

LEMMA Stopping == ASSUME IInv, EndCombat \/ InvalidateEpoch PROVE IInv'
<1>1. call = NoCall /\ epoch' = None /\ UNCHANGED <<object, call, refused>>
  BY DEF EndCombat, InvalidateEpoch
<1>2. engine = [sequence |-> engine.sequence, on |-> engine.on] /\ IsArena(arena)
  BY DEF IInv, Shape
<1>3. ASSUME engine' = [engine EXCEPT !.on = FALSE]
      PROVE  engine' = [sequence |-> engine.sequence, on |-> FALSE] /\ engine'.sequence = engine.sequence
  BY <1>2, <1>3
<1>4. CASE EndCombat
  <2>. DEFINE a == [arena EXCEPT !.entries = NoEntries, !.index = NoEntries]
  <2>1. a = [entries |-> NoEntries, index |-> NoEntries, serial |-> arena.serial]
    BY <1>2, ArenaExcept
  <2>2. arena' = a \/ arena' = arena
    BY <1>4 DEF EndCombat
  <2>. HIDE DEF a
  <2>3. IsArena(a)
    <3>1. a.entries = NoEntries /\ a.index = NoEntries /\ a.serial = arena.serial
      BY <2>1
    <3>2. a = [entries |-> a.entries, index |-> a.index, serial |-> a.serial]
      BY <2>1
    <3>. QED BY <1>2, <3>1, <3>2 DEF IsArena, NoEntries
  <2>4. engine' = [engine EXCEPT !.on = FALSE]
    BY <1>4 DEF EndCombat
  <2>. QED BY <1>1, <1>2, <1>3, <2>2, <2>3, <2>4, Ending
<1>5. CASE InvalidateEpoch
  <2>1. \/ engine' = engine /\ arena' = arena
        \/ engine' = [engine EXCEPT !.on = FALSE] /\ arena' = NoArena
    BY <1>5 DEF InvalidateEpoch, native
  <2>. QED BY <1>1, <1>2, <1>3, <2>1, NoArenaIsArena, Ending
<1>. QED BY <1>4, <1>5

LEMMA Poisoning == ASSUME IInv, Poison PROVE IInv'
<1>1. UNCHANGED <<arena, epoch, owned, object, call, refused>> /\ call = NoCall
  BY DEF Poison, managed
<1>2. engine' = [sequence |-> engine.sequence, on |-> FALSE] /\ engine'.sequence = engine.sequence /\ ~engine'.on
  BY DEF Poison, IInv, Shape
<1>3. Living' = Living
  BY <1>1 DEF Living
<1>4. Shape'
  BY <1>1, <1>2 DEF IInv, Shape
<1>5. PastHandles' /\ Registered'
  BY <1>1, <1>2, <1>3 DEF IInv, PastHandles, Registered
<1>6. InArena' /\ OwnersResolve' /\ ReleasedOnce'
  BY <1>1, <1>2 DEF IInv, InArena, OwnersResolve, ReleasedOnce
<1>7. Returning'
  BY <1>1, <1>3 DEF IInv, Returning, NoCall
<1>. QED BY <1>4, <1>5, <1>6, <1>7 DEF IInv

----------------------------------------------------------------------------
LEMMA Starts == Init => IInv
<1>. SUFFICES ASSUME Init PROVE IInv
  OBVIOUS
<1>1. Living = {} /\ DOMAIN owned = {} /\ DOMAIN arena.entries = {}
  BY DEF Init, Living, NoArena, NoEntries
<1>2. engine.sequence = 0 /\ ~engine.on
  BY DEF Init
<1>3. Shape
  BY <1>2, NoArenaIsArena, SourceConstants DEF Init, Shape
<1>4. PastHandles /\ Registered /\ OwnersResolve
  BY <1>1, <1>2 DEF PastHandles, Registered, OwnersResolve
<1>5. InArena /\ Returning /\ ReleasedOnce
  BY <1>1, <1>2 DEF Init, InArena, Returning, ReleasedOnce, NoCall
<1>. QED BY <1>3, <1>4, <1>5 DEF IInv

LEMMA Steps == IInv /\ [Next]_sourceVars => IInv'
<1>. SUFFICES ASSUME IInv, [Next]_sourceVars PROVE IInv'
  OBVIOUS
<1>1. ASSUME NEW h \in Holders, NEW s \in Snapshots, Capture(h, s) PROVE IInv'
  <2>1. Exports(h, {}, s)
    BY <1>1 DEF Capture
  <2>. QED BY <2>1, Exporting
<1>2. CASE Captured
  BY <1>2, Owning DEF Captured, native
<1>3. ASSUME NEW h \in Holders, Consume(h) PROVE IInv'
  BY <1>3, Consuming
<1>4. ASSUME NEW h \in Holders, NEW o \in Objects \cup {None}, Hold(h, o) PROVE IInv'
  BY <1>4, Resting DEF Hold, native
<1>5. ASSUME NEW lost \in (SUBSET Garbage) \ {{}}, Reclaim(lost) PROVE IInv'
  BY <1>5, Reclaiming
<1>6. CASE StartCombat \/ EndCombat \/ InvalidateEpoch
  BY <1>6, Starting, Stopping
<1>7. CASE Poison
  BY <1>7, Poisoning
<1>8. CASE UNCHANGED sourceVars
  BY <1>8, Resting DEF sourceVars, native, managed
<1>. QED BY <1>1, <1>2, <1>3, <1>4, <1>5, <1>6, <1>7, <1>8 DEF Next

\* A source that is still held reads what it was captured as, whenever the
\* garbage collector ran (Own and Collect in SourceSnapshot.cs).
THEOREM HeldSourcesResolve == Spec => []OwnersResolve
<1>1. IInv => OwnersResolve
  BY DEF IInv
<1>. QED BY <1>1, Starts, Steps, PTL DEF Spec

\* No handle is released twice, and none outlives its owner in the arena.
THEOREM HandlesAreReleasedOnce == Spec => []ReleasedOnce
<1>1. IInv => ReleasedOnce
  BY DEF IInv
<1>. QED BY <1>1, Starts, Steps, PTL DEF Spec

----------------------------------------------------------------------------
(***************************************************************************)
(* Induction.  What holds at 0 and at each next number up to n holds at n: *)
(* of the numbers where it failed, one would be the least.                 *)
(***************************************************************************)
LEMMA Least ==
  ASSUME NEW T \in SUBSET Nat, T # {}
  PROVE  \E m \in T : \A k \in T : m <= k
<1> DEFINE R == OpToRel(<, Nat)
<1>1. PICK m \in T : \A k \in T : ~ (<<k, m>> \in R)
  BY NatLessThanWellFounded, WFMin
<1>2. \A k \in T : <<k, m>> \in R <=> k < m
  BY DEF OpToRel
<1> HIDE DEF R
<1>3. \A k \in T : ~(k < m)
  BY <1>1, <1>2
<1>4. QED
  BY <1>3

\* A set that holds 0 and with each number below n the next one.
LEMMA UpTo ==
  ASSUME NEW T, NEW n \in Nat, 0 \in T, \A k \in 0..(n - 1) : k \in T => k + 1 \in T
  PROVE  n \in T /\ 0..n \subseteq T
<1>1. SUFFICES ASSUME (0..n) \ T # {} PROVE FALSE
  OBVIOUS
<1>2. PICK m \in (0..n) \ T : \A k \in (0..n) \ T : m <= k
  <2>1. (0..n) \ T \in SUBSET Nat
    OBVIOUS
  <2>2. QED
    BY <1>1, <2>1, Least
<1>3. m # 0 /\ m - 1 \in 0..(n - 1) /\ m - 1 \notin (0..n) \ T
  BY <1>2
<1>4. m - 1 \in T
  BY <1>3
<1>5. (m - 1) + 1 = m
  BY <1>2
<1>6. QED
  BY <1>2, <1>3, <1>4, <1>5

----------------------------------------------------------------------------
\* Sums.
SumBy(f, w, n) == f = [i \in 0..n |-> IF i = 0 THEN 0 ELSE f[i - 1] + w[i]]

LEMMA SumByFacts ==
  ASSUME NEW f, NEW w, NEW n \in Nat, SumBy(f, w, n)
  PROVE  f[0] = 0 /\ \A i \in 1..n : f[i] = f[i - 1] + w[i]
<1> DEFINE F(i) == IF i = 0 THEN 0 ELSE f[i - 1] + w[i]
<1>1. f = [i \in 0..n |-> F(i)]
  BY DEF SumBy
<1> HIDE DEF F
<1>2. \A i \in 0..n : f[i] = F(i)
  BY <1>1
<1>3. QED
  BY <1>2 DEF F

LEMMA SumExists ==
  ASSUME NEW w, NEW n \in Nat
  PROVE  \E f : SumBy(f, w, n)
<1> DEFINE T == {m \in Nat : \E f : SumBy(f, w, m)}
<1>1. 0 \in T
  <2> DEFINE f == [i \in 0..0 |-> 0]
  <2>1. SumBy(f, w, 0)
    BY DEF SumBy
  <2>2. QED
    BY <2>1
<1>2. ASSUME NEW m \in 0..(n - 1), m \in T
      PROVE  m + 1 \in T
  <2>1. PICK f : SumBy(f, w, m)
    BY <1>2
  <2>2. m \in Nat /\ f[0] = 0 /\ \A i \in 1..m : f[i] = f[i - 1] + w[i]
    BY <2>1, SumByFacts
  <2> DEFINE g == [i \in 0..(m + 1) |-> IF i = m + 1 THEN f[m] + w[m + 1] ELSE f[i]]
             h == [i \in 0..(m + 1) |-> IF i = 0 THEN 0 ELSE g[i - 1] + w[i]]
  <2>3. g[0] = 0 /\ h[0] = 0
    BY <2>2
  <2>4. g[m + 1] = f[m] + w[m + 1] /\ h[m + 1] = f[m] + w[m + 1]
    BY <2>2
  <2>5. ASSUME NEW i \in 1..m PROVE g[i] = h[i]
    <3>1. g[i] = f[i] /\ g[i - 1] = f[i - 1] /\ h[i] = g[i - 1] + w[i]
      BY <2>2
    <3>2. QED
      BY <2>2, <3>1
  <2>6. \A i \in 0..(m + 1) : g[i] = h[i]
    <3> HIDE DEF g, h
    <3>1. QED
      BY <2>2, <2>3, <2>4, <2>5
  <2>7. g = h
    BY <2>6
  <2>8. SumBy(g, w, m + 1)
    BY <2>7 DEF SumBy
  <2>9. QED
    BY <2>2, <2>8
<1> HIDE DEF T
<1>3. n \in T
  BY <1>1, <1>2, UpTo
<1>4. QED
  BY <1>3 DEF T

LEMMA CumulativeIs ==
  ASSUME NEW w, Len(w) \in Nat
  PROVE  /\ Cumulative(w, 0) = 0
         /\ \A i \in 1..Len(w) : Cumulative(w, i) = Cumulative(w, i - 1) + w[i]
<1> DEFINE sum == CHOOSE f : SumBy(f, w, Len(w))
<1>1. SumBy(sum, w, Len(w))
  BY SumExists
<1>2. \A n : Cumulative(w, n) = sum[n]
  BY DEF Cumulative, SumBy
<1> HIDE DEF sum
<1>3. QED
  BY <1>1, <1>2, SumByFacts

----------------------------------------------------------------------------
(***************************************************************************)
(* Sums of sequences of naturals.                                          *)
(***************************************************************************)

LEMMA WeightsFacts ==
  ASSUME NEW w \in Seq(Nat)
  PROVE  Len(w) \in Nat /\ DOMAIN w = 1..Len(w) /\ \A i \in 1..Len(w) : w[i] \in Nat
BY LenProperties, ElementOfSeq

LEMMA CumulativeNat ==
  ASSUME NEW w \in Seq(Nat)
  PROVE  \A i \in 0..Len(w) : Cumulative(w, i) \in Nat
<1> DEFINE T == {i \in Nat : Cumulative(w, i) \in Nat}
<1>1. 0 \in T
  BY WeightsFacts, CumulativeIs
<1>2. ASSUME NEW i \in 0..(Len(w) - 1), i \in T PROVE i + 1 \in T
  <2>1. i + 1 \in 1..Len(w) /\ i + 1 \in Nat /\ w[i + 1] \in Nat /\ (i + 1) - 1 = i
    BY WeightsFacts
  <2>2. Cumulative(w, i + 1) = Cumulative(w, i) + w[i + 1]
    BY <2>1, WeightsFacts, CumulativeIs
  <2>3. QED
    BY <1>2, <2>1, <2>2
<1> HIDE DEF T
<1>3. 0..Len(w) \subseteq T
  BY <1>1, <1>2, UpTo, WeightsFacts
<1>4. QED
  BY <1>3 DEF T

LEMMA TotalNat == ASSUME NEW w \in Seq(Nat) PROVE Total(w) \in Nat
BY CumulativeNat, WeightsFacts DEF Total

LEMMA SumsAdd ==
  ASSUME NEW w \in Seq(Nat), NEW v \in Seq(Nat), NEW u \in Seq(Nat), Len(v) = Len(w), Len(u) = Len(w),
         \A i \in 1..Len(w) : u[i] = w[i] + v[i]
  PROVE  Total(u) = Total(w) + Total(v)
<1> DEFINE T == {i \in Nat : Cumulative(u, i) = Cumulative(w, i) + Cumulative(v, i)}
<1>1. 0 \in T
  BY WeightsFacts, CumulativeIs
<1>2. ASSUME NEW i \in 0..(Len(w) - 1), i \in T PROVE i + 1 \in T
  <2>1. /\ i + 1 \in 1..Len(w) /\ i \in 0..Len(w) /\ i + 1 \in Nat /\ (i + 1) - 1 = i
        /\ w[i + 1] \in Nat /\ v[i + 1] \in Nat /\ u[i + 1] = w[i + 1] + v[i + 1]
    BY WeightsFacts
  <2>2. /\ Cumulative(w, i + 1) = Cumulative(w, i) + w[i + 1]
        /\ Cumulative(v, i + 1) = Cumulative(v, i) + v[i + 1]
        /\ Cumulative(u, i + 1) = Cumulative(u, i) + u[i + 1]
    BY <2>1, WeightsFacts, CumulativeIs
  <2>3. Cumulative(w, i) \in Nat /\ Cumulative(v, i) \in Nat /\ Cumulative(u, i) \in Nat
    BY <2>1, CumulativeNat
  <2>4. Cumulative(u, i) = Cumulative(w, i) + Cumulative(v, i)
    BY <1>2
  <2>5. Cumulative(u, i + 1) = Cumulative(w, i + 1) + Cumulative(v, i + 1)
    <3>1. \A a, b, x, y \in Nat : (a + b) + (x + y) = (a + x) + (b + y)
      OBVIOUS
    <3>2. Cumulative(u, i + 1) = (Cumulative(w, i) + Cumulative(v, i)) + (w[i + 1] + v[i + 1])
      BY <2>1, <2>2, <2>4
    <3>3. Cumulative(w, i) \in Nat /\ Cumulative(v, i) \in Nat /\ w[i + 1] \in Nat /\ v[i + 1] \in Nat
      BY <2>1, <2>3
    <3>4. PICK a \in Nat : a = Cumulative(w, i)
      BY <3>3
    <3>5. PICK b \in Nat : b = Cumulative(v, i)
      BY <3>3
    <3>6. PICK x \in Nat : x = w[i + 1]
      BY <3>3
    <3>7. PICK y \in Nat : y = v[i + 1]
      BY <3>3
    <3>8. (a + b) + (x + y) = (a + x) + (b + y)
      BY <3>1
    <3>9. QED
      BY <2>2, <3>2, <3>4, <3>5, <3>6, <3>7, <3>8
  <2>6. QED
    BY <2>1, <2>5
<1> HIDE DEF T
<1>3. Len(w) \in T
  BY <1>1, <1>2, UpTo, WeightsFacts
<1>4. QED
  BY <1>3 DEF T, Total

\* The sum of multiples is the multiple of the sum.
LEMMA SumsScale ==
  ASSUME NEW w \in Seq(Nat), NEW v \in Seq(Nat), NEW c \in Nat, Len(v) = Len(w),
         \A i \in 1..Len(w) : v[i] = c * w[i]
  PROVE  Total(v) = c * Total(w)
<1> DEFINE T == {i \in Nat : Cumulative(v, i) = c * Cumulative(w, i)}
<1>1. 0 \in T
  BY WeightsFacts, CumulativeIs
<1>2. ASSUME NEW i \in 0..(Len(w) - 1), i \in T PROVE i + 1 \in T
  <2>1. /\ i + 1 \in 1..Len(w) /\ i \in 0..Len(w) /\ i + 1 \in Nat /\ (i + 1) - 1 = i
        /\ w[i + 1] \in Nat /\ v[i + 1] = c * w[i + 1]
    BY WeightsFacts
  <2>2. /\ Cumulative(w, i + 1) = Cumulative(w, i) + w[i + 1]
        /\ Cumulative(v, i + 1) = Cumulative(v, i) + v[i + 1]
    BY <2>1, WeightsFacts, CumulativeIs
  <2>3. Cumulative(w, i) \in Nat
    BY <2>1, CumulativeNat
  <2>4. Cumulative(v, i) = c * Cumulative(w, i)
    BY <1>2
  <2>5. \A a, b \in Nat : c * a + c * b = c * (a + b)
    OBVIOUS
  <2>6. c * Cumulative(w, i) + c * w[i + 1] = c * (Cumulative(w, i) + w[i + 1])
    BY <2>1, <2>3, <2>5
  <2>7. Cumulative(v, i + 1) = c * Cumulative(w, i + 1)
    BY <2>1, <2>2, <2>4, <2>6
  <2>8. QED
    BY <2>1, <2>7
<1> HIDE DEF T
<1>3. Len(w) \in T
  BY <1>1, <1>2, UpTo, WeightsFacts
<1>4. QED
  BY <1>3, WeightsFacts DEF T, Total

\* What is in one place only is the sum.
LEMMA SumOfOnePlace ==
  ASSUME NEW w \in Seq(Nat), NEW k \in 1..Len(w), \A i \in 1..Len(w) : i # k => w[i] = 0
  PROVE  Total(w) = w[k]
<1> DEFINE T == {i \in Nat : (i < k => Cumulative(w, i) = 0) /\ (k <= i => Cumulative(w, i) = w[k])}
<1>0. k \in Nat /\ k # 0 /\ w[k] \in Nat
  BY WeightsFacts
<1>1. 0 \in T
  BY <1>0, WeightsFacts, CumulativeIs
<1>2. ASSUME NEW i \in 0..(Len(w) - 1), i \in T PROVE i + 1 \in T
  <2>1. /\ i + 1 \in 1..Len(w) /\ i \in 0..Len(w) /\ i + 1 \in Nat /\ (i + 1) - 1 = i
        /\ w[i + 1] \in Nat
    BY WeightsFacts
  <2>2. Cumulative(w, i + 1) = Cumulative(w, i) + w[i + 1]
    BY <2>1, WeightsFacts, CumulativeIs
  <2>3. Cumulative(w, i) \in Nat
    BY <2>1, CumulativeNat
  <2>4. CASE i + 1 = k
    BY <1>0, <1>2, <2>1, <2>2, <2>3, <2>4
  <2>5. CASE i + 1 # k
    <3>1. w[i + 1] = 0
      BY <2>1, <2>5
    <3>2. QED
      BY <1>0, <1>2, <2>1, <2>2, <2>3, <2>5, <3>1
  <2>6. QED
    BY <2>4, <2>5
<1> HIDE DEF T
<1>3. Len(w) \in T
  BY <1>1, <1>2, UpTo, WeightsFacts
<1>4. QED
  BY <1>0, <1>3, WeightsFacts DEF T, Total

LEMMA SumOfNothing ==
  ASSUME NEW w \in Seq(Nat), \A i \in 1..Len(w) : w[i] = 0
  PROVE  Total(w) = 0
<1>1. Len(w) \in Nat
  BY WeightsFacts
<1>2. \A i \in 1..Len(w) : w[i] = 0 * w[i]
  BY WeightsFacts
<1>3. Total(w) = 0 * Total(w)
  BY <1>1, <1>2, SumsScale
<1>4. QED
  BY <1>3, TotalNat

\* A part is no more than the whole.
LEMMA PlaceWithinTotal ==
  ASSUME NEW w \in Seq(Nat), NEW k \in 1..Len(w)
  PROVE  w[k] <= Total(w)
<1> DEFINE T == {i \in Nat : k <= i => w[k] <= Cumulative(w, i)}
<1>0. k \in Nat /\ k # 0 /\ w[k] \in Nat
  BY WeightsFacts
<1>1. 0 \in T
  BY <1>0
<1>2. ASSUME NEW i \in 0..(Len(w) - 1), i \in T PROVE i + 1 \in T
  <2>1. /\ i + 1 \in 1..Len(w) /\ i \in 0..Len(w) /\ i + 1 \in Nat /\ (i + 1) - 1 = i
        /\ w[i + 1] \in Nat
    BY WeightsFacts
  <2>2. Cumulative(w, i + 1) = Cumulative(w, i) + w[i + 1]
    BY <2>1, WeightsFacts, CumulativeIs
  <2>3. Cumulative(w, i) \in Nat
    BY <2>1, CumulativeNat
  <2>4. CASE i + 1 = k
    BY <1>0, <1>2, <2>1, <2>2, <2>3, <2>4
  <2>5. CASE i + 1 # k
    BY <1>0, <1>2, <2>1, <2>2, <2>3, <2>5
  <2>6. QED
    BY <2>4, <2>5
<1> HIDE DEF T
<1>3. Len(w) \in T
  BY <1>1, <1>2, UpTo, WeightsFacts
<1>4. QED
  BY <1>0, <1>3, WeightsFacts DEF T, Total

----------------------------------------------------------------------------
WeightsIn(s) == [i \in DOMAIN s |-> s[i].weight]

WeightsFor(s, to) == [i \in DOMAIN s |-> IF s[i].to = to THEN s[i].weight ELSE 0]

\* What a source is made of, with destinations in D.
Entries(D) == [to : D, weight : Nat]

\* The weights of a source, all of them and those of a destination, are naturals.
LEMMA SourceFacts ==
  ASSUME NEW D, NEW s \in Seq(Entries(D))
  PROVE  /\ Len(s) \in Nat /\ DOMAIN s = 1..Len(s)
         /\ \A i \in 1..Len(s) : s[i].to \in D /\ s[i].weight \in Nat
         /\ WeightsIn(s) \in Seq(Nat) /\ Len(WeightsIn(s)) = Len(s)
         /\ \A i \in 1..Len(s) : WeightsIn(s)[i] = s[i].weight
         /\ WeightSum(s) = Total(WeightsIn(s))
<1>1. Len(s) \in Nat /\ DOMAIN s = 1..Len(s) /\ \A i \in 1..Len(s) : s[i] \in Entries(D)
  BY LenProperties, ElementOfSeq
<1>2. \A i \in 1..Len(s) : s[i].to \in D /\ s[i].weight \in Nat
  BY <1>1 DEF Entries
<1>3. WeightsIn(s) \in [1..Len(s) -> Nat]
  BY <1>1, <1>2 DEF WeightsIn
<1>4. WeightsIn(s) \in Seq(Nat) /\ Len(WeightsIn(s)) = Len(s)
  BY <1>1, <1>3, IsASeq
<1>5. \A i \in 1..Len(s) : WeightsIn(s)[i] = s[i].weight
  BY <1>1 DEF WeightsIn
<1>6. WeightSum(s) = Total(WeightsIn(s))
  BY DEF WeightSum, WeightsIn
<1>7. QED
  BY <1>1, <1>2, <1>4, <1>5, <1>6

LEMMA WeightsForFacts ==
  ASSUME NEW D, NEW s \in Seq(Entries(D)), NEW to
  PROVE  /\ WeightsFor(s, to) \in Seq(Nat) /\ Len(WeightsFor(s, to)) = Len(s)
         /\ WeightOf(s, to) = Total(WeightsFor(s, to))
         /\ \A i \in 1..Len(s) : /\ s[i].to = to => WeightsFor(s, to)[i] = s[i].weight
                                 /\ s[i].to # to => WeightsFor(s, to)[i] = 0
<1>1. Len(s) \in Nat /\ DOMAIN s = 1..Len(s) /\ \A i \in 1..Len(s) : s[i].weight \in Nat
  BY SourceFacts
<1>2. WeightsFor(s, to) \in [1..Len(s) -> Nat]
  BY <1>1 DEF WeightsFor
<1>3. WeightsFor(s, to) \in Seq(Nat) /\ Len(WeightsFor(s, to)) = Len(s)
  BY <1>1, <1>2, IsASeq
<1>4. \A i \in 1..Len(s) : /\ s[i].to = to => WeightsFor(s, to)[i] = s[i].weight
                           /\ s[i].to # to => WeightsFor(s, to)[i] = 0
  BY <1>1 DEF WeightsFor
<1>5. WeightOf(s, to) = Total(WeightsFor(s, to))
  BY DEF WeightOf, WeightsFor
<1>6. QED
  BY <1>3, <1>4, <1>5

LEMMA WeightsAreNat ==
  ASSUME NEW D, NEW s \in Seq(Entries(D))
  PROVE  WeightSum(s) \in Nat /\ \A to : WeightOf(s, to) \in Nat
BY SourceFacts, WeightsForFacts, TotalNat

\* A list of destinations, each of them once ...
Once(order, D) == order \in Seq(D) /\ \A i, j \in 1..Len(order) : order[i] = order[j] => i = j

\* ... that names every destination of a source.
Names(order, s) == \A i \in 1..Len(s) : \E j \in 1..Len(order) : s[i].to = order[j]

\* What each destination of a list has adds up to what the source has, when the list
\* names every destination of the source once.
LEMMA WeightsAddUp ==
  ASSUME NEW D, NEW s \in Seq(Entries(D)), NEW order, Once(order, D), Names(order, s)
  PROVE  Total([j \in 1..Len(order) |-> WeightOf(s, order[j])]) = WeightSum(s)
<1>e. /\ order \in Seq(D) /\ \A i, j \in 1..Len(order) : order[i] = order[j] => i = j
      /\ \A i \in 1..Len(s) : \E j \in 1..Len(order) : s[i].to = order[j]
  BY DEF Once, Names
<1> DEFINE V(n) == [j \in 1..Len(order) |-> Cumulative(WeightsFor(s, order[j]), n)]
           T == {n \in Nat : n <= Len(s) => Total(V(n)) = Cumulative(WeightsIn(s), n)}
<1>0. Len(order) \in Nat /\ Len(s) \in Nat
  BY <1>e, SourceFacts, LenProperties
<1>a. \A f \in [1..Len(order) -> Nat] : f \in Seq(Nat) /\ Len(f) = Len(order)
  BY <1>0, IsASeq
<1>b. ASSUME NEW n \in 0..Len(s) PROVE V(n) \in Seq(Nat) /\ Len(V(n)) = Len(order)
  <2>1. \A to : Cumulative(WeightsFor(s, to), n) \in Nat
    BY <1>b, WeightsForFacts, CumulativeNat
  <2>2. V(n) \in [1..Len(order) -> Nat]
    BY <2>1
  <2> HIDE DEF V
  <2>3. QED
    BY <1>a, <2>2
<1>c. \A n : \A j \in 1..Len(order) : V(n)[j] = Cumulative(WeightsFor(s, order[j]), n)
  OBVIOUS
<1> HIDE DEF V
<1>1. 0 \in T
  <2>1. \A to : Cumulative(WeightsFor(s, to), 0) = 0
    BY <1>0, WeightsForFacts, CumulativeIs
  <2>2. \A j \in 1..Len(V(0)) : V(0)[j] = 0
    BY <1>0, <1>b, <1>c, <2>1
  <2>3. Total(V(0)) = 0
    BY <1>0, <1>b, <2>2, SumOfNothing
  <2>4. Cumulative(WeightsIn(s), 0) = 0
    BY SourceFacts, CumulativeIs
  <2>5. QED
    BY <2>3, <2>4
<1>2. ASSUME NEW n \in 0..(Len(s) - 1), n \in T PROVE n + 1 \in T
  <2>1. n + 1 \in 1..Len(s) /\ n + 1 \in 0..Len(s) /\ n \in 0..Len(s) /\ (n + 1) - 1 = n /\ n + 1 \in Nat
    BY <1>0
  <2> DEFINE u == [j \in 1..Len(order) |-> IF s[n + 1].to = order[j] THEN s[n + 1].weight ELSE 0]
  <2>2. s[n + 1].weight \in Nat
    BY <2>1, SourceFacts
  <2>3. u \in Seq(Nat) /\ Len(u) = Len(order)
    BY <1>a, <2>2
  <2>4. \A j \in 1..Len(order) : /\ s[n + 1].to = order[j] => u[j] = s[n + 1].weight
                                 /\ s[n + 1].to # order[j] => u[j] = 0
    OBVIOUS
  <2> HIDE DEF u
  <2>5. PICK k \in 1..Len(order) : s[n + 1].to = order[k]
    BY <1>e, <2>1
  <2>6. Total(u) = s[n + 1].weight
    <3>1. \A i \in 1..Len(u) : i # k => u[i] = 0
      BY <1>e, <2>3, <2>4, <2>5
    <3>2. Total(u) = u[k]
      BY <2>3, <3>1, SumOfOnePlace
    <3>3. QED
      BY <2>4, <2>5, <3>2
  <2>7. \A j \in 1..Len(V(n)) : V(n + 1)[j] = V(n)[j] + u[j]
    <3>. SUFFICES ASSUME NEW j \in 1..Len(order) PROVE V(n + 1)[j] = V(n)[j] + u[j]
      BY <1>b, <2>1
    <3>1. Cumulative(WeightsFor(s, order[j]), n + 1)
            = Cumulative(WeightsFor(s, order[j]), n) + WeightsFor(s, order[j])[n + 1]
      BY <1>0, <2>1, WeightsForFacts, CumulativeIs
    <3>2. WeightsFor(s, order[j])[n + 1] = u[j]
      <4>1. PICK to : to = order[j]
        OBVIOUS
      <4>2. /\ s[n + 1].to = to => WeightsFor(s, to)[n + 1] = s[n + 1].weight
            /\ s[n + 1].to # to => WeightsFor(s, to)[n + 1] = 0
        BY <2>1, WeightsForFacts
      <4>3. QED
        BY <2>4, <4>1, <4>2
    <3>3. QED
      BY <1>c, <3>1, <3>2
  <2>8. Total(V(n + 1)) = Total(V(n)) + Total(u)
    <3>1. PICK a : a = V(n)
      OBVIOUS
    <3>2. PICK b : b = V(n + 1)
      OBVIOUS
    <3>3. a \in Seq(Nat) /\ b \in Seq(Nat) /\ Len(a) = Len(order) /\ Len(b) = Len(order)
      BY <1>b, <2>1, <3>1, <3>2
    <3>4. \A j \in 1..Len(a) : b[j] = a[j] + u[j]
      BY <2>7, <3>1, <3>2
    <3>5. Total(b) = Total(a) + Total(u)
      BY <2>3, <3>3, <3>4, SumsAdd
    <3>6. QED
      BY <3>1, <3>2, <3>5
  <2>9. Cumulative(WeightsIn(s), n + 1) = Cumulative(WeightsIn(s), n) + s[n + 1].weight
    <3>1. PICK w : w = WeightsIn(s)
      OBVIOUS
    <3>2. w \in Seq(Nat) /\ Len(w) = Len(s) /\ \A i \in 1..Len(s) : w[i] = s[i].weight
      BY <3>1, SourceFacts
    <3>3. Cumulative(w, n + 1) = Cumulative(w, n) + w[n + 1]
      BY <1>0, <2>1, <3>2, CumulativeIs
    <3>4. QED
      BY <2>1, <3>1, <3>2, <3>3
  <2>10. QED
    BY <1>2, <2>1, <2>6, <2>8, <2>9
<1> HIDE DEF T
<1>3. Len(s) \in T
  BY <1>0, <1>1, <1>2, UpTo
<1>4. Total(V(Len(s))) = Cumulative(WeightsIn(s), Len(s))
  BY <1>0, <1>3 DEF T
<1>5. V(Len(s)) = [j \in 1..Len(order) |-> WeightOf(s, order[j])]
  <2>1. \A j \in 1..Len(order) : WeightOf(s, order[j]) = Cumulative(WeightsFor(s, order[j]), Len(s))
    BY WeightsForFacts DEF Total
  <2>2. QED
    BY <2>1 DEF V
<1>6. QED
  BY <1>4, <1>5, SourceFacts DEF Total

\* A source that lists destinations with their weights.
Listed(s, order, c, D) ==
  /\ s \in Seq(Entries(D)) /\ Len(s) = Len(order)
  /\ \A i \in 1..Len(order) : s[i].to = order[i] /\ s[i].weight = c[i]

LEMMA ListIsSource ==
  ASSUME NEW D, NEW order \in Seq(D), NEW c \in Seq(Nat), Len(c) = Len(order),
         NEW s, s = [i \in DOMAIN order |-> [to |-> order[i], weight |-> c[i]]]
  PROVE  Listed(s, order, c, D)
<1>1. /\ Len(order) \in Nat /\ DOMAIN order = 1..Len(order)
      /\ \A i \in 1..Len(order) : order[i] \in D /\ c[i] \in Nat
  BY LenProperties, ElementOfSeq
<1>2. \A i \in 1..Len(order) : s[i].to = order[i] /\ s[i].weight = c[i]
  BY <1>1
<1>3. s \in [1..Len(order) -> Entries(D)]
  BY <1>1 DEF Entries
<1>4. s \in Seq(Entries(D)) /\ Len(s) = Len(order)
  BY <1>1, <1>3, IsASeq
<1>5. QED
  BY <1>2, <1>4 DEF Listed

\* The weights of a source that names each of its destinations once.
LEMMA WeightsOfList ==
  ASSUME NEW D, NEW order, Once(order, D), NEW c \in Seq(Nat), Len(c) = Len(order),
         NEW s, Listed(s, order, c, D)
  PROVE  /\ WeightSum(s) = Total(c)
         /\ \A j \in 1..Len(order) : WeightOf(s, order[j]) = c[j]
         /\ \A to : (\A j \in 1..Len(order) : to # order[j]) => WeightOf(s, to) = 0
<1>1. order \in Seq(D) /\ \A i, j \in 1..Len(order) : order[i] = order[j] => i = j
  BY DEF Once
<1>2. /\ s \in Seq(Entries(D)) /\ Len(s) = Len(order)
      /\ \A i \in 1..Len(order) : s[i].to = order[i] /\ s[i].weight = c[i]
  BY DEF Listed
<1>3. /\ Len(order) \in Nat /\ DOMAIN order = 1..Len(order)
      /\ \A i \in 1..Len(order) : order[i] \in D /\ c[i] \in Nat
  BY <1>1, LenProperties, ElementOfSeq
<1>5. WeightSum(s) = Total(c)
  <2>1. WeightsIn(s) \in [1..Len(order) -> Nat] /\ c \in [1..Len(order) -> Nat]
    BY <1>2, <1>3, SourceFacts, LenProperties DEF WeightsIn
  <2>2. \A i \in 1..Len(order) : WeightsIn(s)[i] = c[i]
    <3>1. \A i \in 1..Len(s) : WeightsIn(s)[i] = s[i].weight
      BY <1>2, SourceFacts
    <3>2. QED
      BY <1>2, <3>1
  <2>3. WeightsIn(s) = c
    BY <2>1, <2>2
  <2>4. QED
    BY <1>2, <2>3, SourceFacts
<1>6. ASSUME NEW j \in 1..Len(order) PROVE WeightOf(s, order[j]) = c[j]
  <2>1. PICK to : to = order[j]
    OBVIOUS
  <2>2. \A i \in 1..Len(s) : /\ s[i].to = to => WeightsFor(s, to)[i] = s[i].weight
                             /\ s[i].to # to => WeightsFor(s, to)[i] = 0
    BY <1>2, WeightsForFacts
  <2>3. WeightsFor(s, to) \in Seq(Nat) /\ Len(WeightsFor(s, to)) = Len(s) /\ WeightOf(s, to) = Total(WeightsFor(s, to))
    BY <1>2, WeightsForFacts
  <2>4. PICK w : w = WeightsFor(s, to)
    OBVIOUS
  <2>5. s[j].to = to /\ s[j].weight = c[j] /\ \A i \in 1..Len(order) : i # j => s[i].to # to
    BY <1>1, <1>2, <2>1
  <2>6. w[j] = c[j] /\ \A i \in 1..Len(w) : i # j => w[i] = 0
    BY <1>2, <2>2, <2>3, <2>4, <2>5
  <2>7. Total(w) = c[j]
    BY <1>2, <2>3, <2>4, <2>6, SumOfOnePlace
  <2>8. QED
    BY <2>1, <2>3, <2>4, <2>7
<1>7. ASSUME NEW to, \A j \in 1..Len(order) : to # order[j] PROVE WeightOf(s, to) = 0
  <2>1. \A i \in 1..Len(s) : s[i].to # to => WeightsFor(s, to)[i] = 0
    BY <1>2, WeightsForFacts
  <2>2. WeightsFor(s, to) \in Seq(Nat) /\ Len(WeightsFor(s, to)) = Len(s) /\ WeightOf(s, to) = Total(WeightsFor(s, to))
    BY <1>2, WeightsForFacts
  <2>3. PICK w : w = WeightsFor(s, to)
    OBVIOUS
  <2>4. \A i \in 1..Len(s) : s[i].to # to
    BY <1>2, <1>7
  <2>5. \A i \in 1..Len(w) : w[i] = 0
    BY <1>2, <2>1, <2>2, <2>3, <2>4
  <2>6. QED
    BY <2>2, <2>3, <2>5, SumOfNothing
<1>8. QED
  BY <1>5, <1>6, <1>7

----------------------------------------------------------------------------
(***************************************************************************)
(* The order in which destinations are first seen.                         *)
(***************************************************************************)
NextSeen(seen, to) == IF to \in Range(seen) THEN seen ELSE Append(seen, to)

SeenBy(f, t, n) == f = [i \in 0..n |-> IF i = 0 THEN << >> ELSE NextSeen(f[i - 1], t[i])]

LEMMA SeenByFacts ==
  ASSUME NEW f, NEW t, NEW n \in Nat, SeenBy(f, t, n)
  PROVE  f[0] = << >> /\ \A i \in 1..n : f[i] = NextSeen(f[i - 1], t[i])
<1> DEFINE F(i) == IF i = 0 THEN << >> ELSE NextSeen(f[i - 1], t[i])
<1>1. f = [i \in 0..n |-> F(i)]
  BY DEF SeenBy
<1> HIDE DEF F
<1>2. \A i \in 0..n : f[i] = F(i)
  BY <1>1
<1>3. QED
  BY <1>2 DEF F

LEMMA SeenExists ==
  ASSUME NEW t, NEW n \in Nat
  PROVE  \E f : SeenBy(f, t, n)
<1> DEFINE T == {m \in Nat : \E f : SeenBy(f, t, m)}
<1>1. 0 \in T
  <2> DEFINE f == [i \in 0..0 |-> << >>]
  <2>1. SeenBy(f, t, 0)
    BY DEF SeenBy
  <2>2. QED
    BY <2>1
<1>2. ASSUME NEW m \in 0..(n - 1), m \in T
      PROVE  m + 1 \in T
  <2>1. PICK f : SeenBy(f, t, m)
    BY <1>2
  <2>2. m \in Nat /\ f[0] = << >> /\ \A i \in 1..m : f[i] = NextSeen(f[i - 1], t[i])
    BY <2>1, SeenByFacts
  <2> DEFINE g == [i \in 0..(m + 1) |-> IF i = m + 1 THEN NextSeen(f[m], t[m + 1]) ELSE f[i]]
             h == [i \in 0..(m + 1) |-> IF i = 0 THEN << >> ELSE NextSeen(g[i - 1], t[i])]
  <2>3. g[0] = << >> /\ h[0] = << >>
    BY <2>2
  <2>4. g[m + 1] = NextSeen(f[m], t[m + 1]) /\ h[m + 1] = NextSeen(f[m], t[m + 1])
    BY <2>2
  <2>5. ASSUME NEW i \in 1..m PROVE g[i] = h[i]
    <3>1. g[i] = f[i] /\ g[i - 1] = f[i - 1] /\ h[i] = NextSeen(g[i - 1], t[i])
      BY <2>2
    <3>2. QED
      BY <2>2, <3>1
  <2>6. \A i \in 0..(m + 1) : g[i] = h[i]
    <3> HIDE DEF g, h
    <3>1. QED
      BY <2>2, <2>3, <2>4, <2>5
  <2>7. g = h
    BY <2>6
  <2>8. SeenBy(g, t, m + 1)
    BY <2>7 DEF SeenBy
  <2>9. QED
    BY <2>2, <2>8
<1> HIDE DEF T
<1>3. n \in T
  BY <1>1, <1>2, UpTo
<1>4. QED
  BY <1>3 DEF T

\* A list of the destinations in the first n places, each of them once.
Lists(seen, t, n, D) ==
  /\ seen \in Seq(D)
  /\ \A i, j \in 1..Len(seen) : seen[i] = seen[j] => i = j
  /\ \A i \in 1..n : \E j \in 1..Len(seen) : t[i] = seen[j]
  /\ \A j \in 1..Len(seen) : \E i \in 1..n : seen[j] = t[i]

LEMMA NextSeenLists ==
  ASSUME NEW D, NEW seen, NEW t, NEW n \in Nat, Lists(seen, t, n, D), t[n + 1] \in D
  PROVE  Lists(NextSeen(seen, t[n + 1]), t, n + 1, D)
<1>1. PICK to \in D : to = t[n + 1]
  OBVIOUS
<1>2. /\ seen \in Seq(D) /\ Len(seen) \in Nat /\ DOMAIN seen = 1..Len(seen)
      /\ \A i, j \in 1..Len(seen) : seen[i] = seen[j] => i = j
      /\ \A i \in 1..n : \E j \in 1..Len(seen) : t[i] = seen[j]
      /\ \A j \in 1..Len(seen) : \E i \in 1..n : seen[j] = t[i]
  BY LenProperties DEF Lists
<1>3. CASE to \in Range(seen)
  <2>1. NextSeen(seen, to) = seen
    BY <1>3 DEF NextSeen
  <2>2. \E j \in 1..Len(seen) : to = seen[j]
    BY <1>2, <1>3 DEF Range
  <2>3. Lists(seen, t, n + 1, D)
    <3>1. \A i \in 1..(n + 1) : i \in 1..n \/ i = n + 1
      OBVIOUS
    <3>2. \A i \in 1..n : i \in 1..(n + 1)
      OBVIOUS
    <3>3. \A i \in 1..(n + 1) : \E j \in 1..Len(seen) : t[i] = seen[j]
      BY <1>1, <1>2, <2>2, <3>1
    <3>4. \A j \in 1..Len(seen) : \E i \in 1..(n + 1) : seen[j] = t[i]
      BY <1>2, <3>2
    <3>5. QED
      BY <1>2, <3>3, <3>4 DEF Lists
  <2>4. QED
    BY <1>1, <2>1, <2>3
<1>4. CASE to \notin Range(seen)
  <2>1. PICK s : s = Append(seen, to)
    OBVIOUS
  <2>2. NextSeen(seen, to) = s
    BY <1>4, <2>1 DEF NextSeen
  <2>3. \A j \in 1..Len(seen) : to # seen[j]
    BY <1>2, <1>4 DEF Range
  <2>4. PICK m \in Nat : m = Len(seen)
    BY <1>2
  <2>5. s \in Seq(D) /\ Len(s) = m + 1 /\ s[m + 1] = to /\ \A i \in 1..m : s[i] = seen[i]
    BY <1>2, <2>1, <2>4, AppendProperties
  <2>6. \A i \in 1..(m + 1) : i \in 1..m \/ i = m + 1
    BY <2>4
  <2>7. \A i \in 1..m : i \in 1..(m + 1) /\ i # m + 1
    BY <2>4
  <2>8. m + 1 \in 1..(m + 1) /\ n + 1 \in 1..(n + 1)
    BY <2>4
  <2>9. \A i, j \in 1..(m + 1) : s[i] = s[j] => i = j
    <3>. SUFFICES ASSUME NEW i \in 1..(m + 1), NEW j \in 1..(m + 1), s[i] = s[j] PROVE i = j
      OBVIOUS
    <3>1. CASE i \in 1..m /\ j \in 1..m
      BY <1>2, <2>4, <2>5, <3>1
    <3>2. CASE i = m + 1 /\ j \in 1..m
      BY <2>3, <2>4, <2>5, <3>2
    <3>3. CASE i \in 1..m /\ j = m + 1
      BY <2>3, <2>4, <2>5, <3>3
    <3>4. QED
      BY <2>6, <3>1, <3>2, <3>3
  <2>10. \A i \in 1..(n + 1) : \E j \in 1..(m + 1) : t[i] = s[j]
    <3>1. \A i \in 1..(n + 1) : i \in 1..n \/ i = n + 1
      OBVIOUS
    <3>2. ASSUME NEW i \in 1..n PROVE \E j \in 1..(m + 1) : t[i] = s[j]
      <4>1. PICK j \in 1..m : t[i] = seen[j]
        BY <1>2, <2>4
      <4>2. QED
        BY <2>5, <2>7, <4>1
    <3>3. t[n + 1] = s[m + 1]
      BY <1>1, <2>5
    <3>4. QED
      BY <2>8, <3>1, <3>2, <3>3
  <2>11. \A j \in 1..(m + 1) : \E i \in 1..(n + 1) : s[j] = t[i]
    <3>1. ASSUME NEW j \in 1..m PROVE \E i \in 1..(n + 1) : s[j] = t[i]
      <4>1. PICK i \in 1..n : seen[j] = t[i]
        BY <1>2, <2>4
      <4>2. i \in 1..(n + 1)
        OBVIOUS
      <4>3. QED
        BY <2>5, <4>1, <4>2
    <3>2. s[m + 1] = t[n + 1]
      BY <1>1, <2>5
    <3>3. QED
      BY <2>6, <2>8, <3>1, <3>2
  <2>12. Lists(s, t, n + 1, D)
    BY <2>5, <2>9, <2>10, <2>11 DEF Lists
  <2>13. QED
    BY <1>1, <2>2, <2>12
<1>5. QED
  BY <1>3, <1>4

LEMMA FirstSeenLists ==
  ASSUME NEW D, NEW t \in Seq(D)
  PROVE  Lists(FirstSeen(t), t, Len(t), D)
<1>0. Len(t) \in Nat /\ \A i \in 1..Len(t) : t[i] \in D
  BY LenProperties, ElementOfSeq
<1> DEFINE f == CHOOSE g : SeenBy(g, t, Len(t))
           T == {i \in Nat : i <= Len(t) => Lists(f[i], t, i, D)}
<1>1. SeenBy(f, t, Len(t))
  BY <1>0, SeenExists
<1>2. FirstSeen(t) = f[Len(t)]
  BY DEF FirstSeen, SeenBy, NextSeen
<1> HIDE DEF f
<1>3. f[0] = << >> /\ \A i \in 1..Len(t) : f[i] = NextSeen(f[i - 1], t[i])
  BY <1>0, <1>1, SeenByFacts
<1>4. 0 \in T
  <2>1. Lists(<< >>, t, 0, D)
    BY DEF Lists
  <2>2. QED
    BY <1>3, <2>1
<1>5. ASSUME NEW i \in 0..(Len(t) - 1), i \in T PROVE i + 1 \in T
  <2>1. i \in Nat /\ i <= Len(t) /\ i + 1 \in 1..Len(t) /\ i + 1 \in Nat /\ (i + 1) - 1 = i
    BY <1>0
  <2>2. Lists(f[i], t, i, D) /\ t[i + 1] \in D
    BY <1>0, <1>5, <2>1
  <2>3. f[i + 1] = NextSeen(f[i], t[i + 1])
    BY <1>3, <2>1
  <2>4. Lists(f[i + 1], t, i + 1, D)
    BY <2>1, <2>2, <2>3, NextSeenLists
  <2>5. QED
    BY <2>1, <2>4
<1> HIDE DEF T
<1>6. Len(t) \in T
  BY <1>0, <1>4, <1>5, UpTo
<1>7. QED
  BY <1>0, <1>2, <1>6 DEF T

----------------------------------------------------------------------------
LEMMA ExactQuotient ==
  ASSUME NEW n \in Nat, NEW d \in Nat \ {0}, n % d = 0
  PROVE  n \div d \in Nat /\ d * (n \div d) = n /\ (n # 0 => n \div d # 0 /\ d <= n)
<1>1. n \div d \in Nat /\ n = d * (n \div d) + (n % d)
  OBVIOUS
<1>2. PICK q \in Nat : q = n \div d
  BY <1>1
<1>3. d * q = n
  BY <1>1, <1>2
<1>4. n # 0 => q # 0
  BY <1>3
<1>5. q # 0 => d <= d * q
  OBVIOUS
<1>6. QED
  BY <1>2, <1>3, <1>4, <1>5

\* There is a greatest common divisor, and it divides.
LEMMA CommonDivisorDivides ==
  ASSUME NEW S \in SUBSET (Nat \ {0}), S # {}
  PROVE  CommonDivisor(S) \in Nat \ {0} /\ \A n \in S : n % CommonDivisor(S) = 0
<1> DEFINE common == {d \in UNION {1..n : n \in S} : \A n \in S : n % d = 0}
<1>1. PICK top \in S : top \in Nat \ {0}
  OBVIOUS
<1>2. common \subseteq Nat \ {0}
  OBVIOUS
<1>3. \A d \in common : \A n \in S : n % d = 0
  OBVIOUS
<1>4. 1 \in common
  <2>1. 1 \in 1..top
    BY <1>1
  <2>2. \A n \in S : n % 1 = 0
    OBVIOUS
  <2>3. QED
    BY <2>1, <2>2
<1>5. CommonDivisor(S) = CHOOSE d \in common : \A e \in common : e <= d
  BY DEF CommonDivisor
<1> HIDE DEF common
<1>6. \A e \in common : e <= top
  BY <1>1, <1>2, <1>3, ExactQuotient
<1> DEFINE below == {top - e : e \in common}
<1>7. below \in SUBSET Nat /\ below # {}
  BY <1>1, <1>2, <1>4, <1>6
<1>8. PICK m \in below : \A k \in below : m <= k
  BY <1>7, Least
<1>9. PICK d \in common : m = top - d
  OBVIOUS
<1>10. \A e \in common : e <= d
  BY <1>1, <1>2, <1>8, <1>9
<1>11. CommonDivisor(S) \in common
  BY <1>5, <1>9, <1>10
<1>12. QED
  BY <1>2, <1>3, <1>11

----------------------------------------------------------------------------
\* A source that credits somebody, and nobody for nothing.
Weighs(s, D) == s \in Seq(Entries(D)) /\ Len(s) # 0 /\ \A i \in 1..Len(s) : s[i].weight # 0

\* A destination has at least what one of its entries has.
LEMMA EntryWithinWeight ==
  ASSUME NEW D, NEW s, Weighs(s, D), NEW i \in 1..Len(s)
  PROVE  WeightOf(s, s[i].to) \in Nat \ {0} /\ WeightSum(s) \in Nat \ {0}
<1>1. s \in Seq(Entries(D)) /\ s[i].weight # 0
  BY DEF Weighs
<1>2. PICK to : to = s[i].to
  OBVIOUS
<1>3. PICK w : w = WeightsFor(s, to)
  OBVIOUS
<1>4. PICK v : v = WeightsIn(s)
  OBVIOUS
<1>5. w \in Seq(Nat) /\ Len(w) = Len(s) /\ w[i] = s[i].weight /\ WeightOf(s, to) = Total(w)
  BY <1>1, <1>2, <1>3, WeightsForFacts
<1>6. v \in Seq(Nat) /\ Len(v) = Len(s) /\ v[i] = s[i].weight /\ WeightSum(s) = Total(v) /\ s[i].weight \in Nat
  BY <1>1, <1>4, SourceFacts
<1>7. w[i] <= Total(w) /\ Total(w) \in Nat
  BY <1>5, PlaceWithinTotal, TotalNat
<1>8. v[i] <= Total(v) /\ Total(v) \in Nat
  BY <1>6, PlaceWithinTotal, TotalNat
<1>9. Total(w) # 0 /\ Total(v) # 0
  BY <1>1, <1>5, <1>6, <1>7, <1>8
<1>10. QED
  BY <1>2, <1>5, <1>6, <1>7, <1>8, <1>9

LEMMA SumIsPositive ==
  ASSUME NEW D, NEW s, Weighs(s, D)
  PROVE  WeightSum(s) \in Nat \ {0}
<1>1. s \in Seq(Entries(D)) /\ Len(s) # 0
  BY DEF Weighs
<1>2. Len(s) \in Nat
  BY <1>1, SourceFacts
<1>3. 1 \in 1..Len(s)
  BY <1>1, <1>2
<1>4. QED
  BY <1>3, EntryWithinWeight

\* Divided by what divides them all, weights keep their proportions.
LEMMA ReducedWeights ==
  ASSUME NEW D, NEW s, Weighs(s, D)
  PROVE  \E d \in Nat \ {0} :
            /\ Weighs(Reduced(s), D)
            /\ WeightSum(s) = d * WeightSum(Reduced(s))
            /\ \A to : WeightOf(s, to) = d * WeightOf(Reduced(s), to)
<1> DEFINE W == {s[i].weight : i \in DOMAIN s}
<1>1. /\ s \in Seq(Entries(D)) /\ Len(s) \in Nat /\ Len(s) # 0 /\ DOMAIN s = 1..Len(s)
      /\ \A i \in 1..Len(s) : s[i].to \in D /\ s[i].weight \in Nat \ {0}
  BY SourceFacts DEF Weighs
<1>2. W \in SUBSET (Nat \ {0}) /\ W # {}
  <2>1. 1 \in DOMAIN s
    BY <1>1
  <2>2. QED
    BY <1>1, <2>1
<1>3. PICK d : d = CommonDivisor(W)
  OBVIOUS
<1>4. d \in Nat \ {0} /\ \A n \in W : n % d = 0
  BY <1>2, <1>3, CommonDivisorDivides
<1>5. PICK r : r = [i \in DOMAIN s |-> [to |-> s[i].to, weight |-> s[i].weight \div d]]
  OBVIOUS
<1>6. Reduced(s) = r
  BY <1>3, <1>5 DEF Reduced
<1>7. \A i \in 1..Len(s) : r[i].to = s[i].to /\ r[i].weight = s[i].weight \div d
  BY <1>1, <1>5
<1>8. ASSUME NEW i \in 1..Len(s)
      PROVE  s[i].weight \div d \in Nat \ {0} /\ s[i].weight = d * (s[i].weight \div d)
  <2>1. s[i].weight \in Nat /\ s[i].weight # 0 /\ s[i].weight % d = 0
    BY <1>1, <1>4
  <2>2. QED
    BY <1>4, <2>1, ExactQuotient
<1>9. r \in [1..Len(s) -> Entries(D)]
  BY <1>1, <1>5, <1>8 DEF Entries
<1>10. r \in Seq(Entries(D)) /\ Len(r) = Len(s)
  BY <1>1, <1>9, IsASeq
<1>11. Weighs(r, D)
  <2>1. \A i \in 1..Len(r) : r[i].weight # 0
    BY <1>7, <1>8, <1>10
  <2>2. QED
    BY <1>1, <1>10, <2>1 DEF Weighs
<1> HIDE DEF W
<1>12. \A i \in 1..Len(s) : r[i].weight \in Nat /\ r[i].to = s[i].to /\ s[i].weight = d * r[i].weight
  BY <1>7, <1>8
<1>13. WeightSum(s) = d * WeightSum(r)
  <2>1. PICK v : v = WeightsIn(s)
    OBVIOUS
  <2>2. PICK w : w = WeightsIn(r)
    OBVIOUS
  <2>3. v \in Seq(Nat) /\ Len(v) = Len(s) /\ WeightSum(s) = Total(v) /\ \A i \in 1..Len(s) : v[i] = s[i].weight
    BY <1>1, <2>1, SourceFacts
  <2>4. w \in Seq(Nat) /\ Len(w) = Len(r) /\ WeightSum(r) = Total(w) /\ \A i \in 1..Len(r) : w[i] = r[i].weight
    BY <1>10, <2>2, SourceFacts
  <2>5. \A i \in 1..Len(w) : v[i] = d * w[i]
    BY <1>10, <1>12, <2>3, <2>4
  <2>6. Len(v) = Len(w)
    BY <1>10, <2>3, <2>4
  <2>7. Total(v) = d * Total(w)
    BY <1>4, <2>3, <2>4, <2>5, <2>6, SumsScale
  <2>8. QED
    BY <2>3, <2>4, <2>7
<1>14. ASSUME NEW to PROVE WeightOf(s, to) = d * WeightOf(r, to)
  <2>1. PICK v : v = WeightsFor(s, to)
    OBVIOUS
  <2>2. PICK w : w = WeightsFor(r, to)
    OBVIOUS
  <2>3. /\ v \in Seq(Nat) /\ Len(v) = Len(s) /\ WeightOf(s, to) = Total(v)
        /\ \A i \in 1..Len(s) : (s[i].to = to => v[i] = s[i].weight) /\ (s[i].to # to => v[i] = 0)
    BY <1>1, <2>1, WeightsForFacts
  <2>4. /\ w \in Seq(Nat) /\ Len(w) = Len(r) /\ WeightOf(r, to) = Total(w)
        /\ \A i \in 1..Len(r) : (r[i].to = to => w[i] = r[i].weight) /\ (r[i].to # to => w[i] = 0)
    BY <1>10, <2>2, WeightsForFacts
  <2>5. d * 0 = 0
    BY <1>4
  <2>6. \A i \in 1..Len(w) : v[i] = d * w[i]
    <3>. SUFFICES ASSUME NEW i \in 1..Len(s) PROVE v[i] = d * w[i]
      BY <1>10, <2>4
    <3>1. CASE s[i].to = to
      BY <1>10, <1>12, <2>3, <2>4, <3>1
    <3>2. CASE s[i].to # to
      BY <1>10, <1>12, <2>3, <2>4, <2>5, <3>2
    <3>3. QED
      BY <3>1, <3>2
  <2>7. Len(v) = Len(w)
    BY <1>10, <2>3, <2>4
  <2>8. Total(v) = d * Total(w)
    BY <1>4, <2>3, <2>4, <2>6, <2>7, SumsScale
  <2>9. QED
    BY <2>3, <2>4, <2>8
<1>15. QED
  BY <1>4, <1>6, <1>11, <1>13, <1>14

----------------------------------------------------------------------------
\* What two sources have together, before it is reduced.
Joint(first, mine, second, theirs, order) ==
  [i \in DOMAIN order |->
     [to |-> order[i], weight |-> WeightOf(first, order[i]) * mine + WeightOf(second, order[i]) * theirs]]

\* A list that names no other destinations.
OnlyNames(order, first, second) ==
  \A j \in 1..Len(order) : \/ \E i \in 1..Len(first) : order[j] = first[i].to
                           \/ \E i \in 1..Len(second) : order[j] = second[i].to

\* The list that names every destination of two sources once.
LEMMA BothListed ==
  ASSUME NEW D, NEW first \in Seq(Entries(D)), NEW second \in Seq(Entries(D)),
         NEW order, order = FirstSeen(Targets(first) \o Targets(second))
  PROVE  Once(order, D) /\ Names(order, first) /\ Names(order, second) /\ OnlyNames(order, first, second)
<1> DEFINE a == Targets(first)
           b == Targets(second)
           t == a \o b
<1>1. /\ Len(first) \in Nat /\ DOMAIN first = 1..Len(first) /\ \A i \in 1..Len(first) : first[i].to \in D
      /\ Len(second) \in Nat /\ DOMAIN second = 1..Len(second) /\ \A i \in 1..Len(second) : second[i].to \in D
  BY SourceFacts
<1>2. a \in [1..Len(first) -> D] /\ b \in [1..Len(second) -> D]
  BY <1>1 DEF Targets
<1>3. /\ a \in Seq(D) /\ Len(a) = Len(first) /\ \A i \in 1..Len(first) : a[i] = first[i].to
      /\ b \in Seq(D) /\ Len(b) = Len(second) /\ \A i \in 1..Len(second) : b[i] = second[i].to
  <2>1. \A i \in 1..Len(first) : a[i] = first[i].to
    BY <1>1 DEF Targets
  <2>2. \A i \in 1..Len(second) : b[i] = second[i].to
    BY <1>1 DEF Targets
  <2> HIDE DEF a, b
  <2>3. a \in Seq(D) /\ Len(a) = Len(first)
    BY <1>1, <1>2, IsASeq
  <2>4. b \in Seq(D) /\ Len(b) = Len(second)
    BY <1>1, <1>2, IsASeq
  <2>5. QED
    BY <2>1, <2>2, <2>3, <2>4
<1>4. order = FirstSeen(t)
  OBVIOUS
<1> HIDE DEF a, b
<1>5. PICK m \in Nat : m = Len(first)
  BY <1>1
<1>6. PICK n \in Nat : n = Len(second)
  BY <1>1
<1>7. /\ t \in Seq(D) /\ Len(t) = m + n
      /\ \A i \in 1..(m + n) : t[i] = IF i <= m THEN a[i] ELSE b[i - m]
  <2>1. t = a \o b
    OBVIOUS
  <2> HIDE DEF t
  <2>2. t \in Seq(D) /\ Len(t) = Len(a) + Len(b)
    BY <1>3, <2>1, ConcatProperties
  <2>3. \A i \in 1..(Len(a) + Len(b)) : t[i] = IF i <= Len(a) THEN a[i] ELSE b[i - Len(a)]
    BY <1>3, <2>1, ConcatProperties
  <2>4. QED
    BY <1>3, <1>5, <1>6, <2>2, <2>3
<1> HIDE DEF t
<1>8. Lists(order, t, m + n, D)
  BY <1>4, <1>7, FirstSeenLists
<1>9. ASSUME NEW i \in 1..m PROVE i \in 1..(m + n) /\ t[i] = first[i].to
  <2>1. i \in 1..(m + n) /\ i <= m
    OBVIOUS
  <2>2. QED
    BY <1>3, <1>5, <1>7, <2>1
<1>10. ASSUME NEW i \in 1..n PROVE m + i \in 1..(m + n) /\ t[m + i] = second[i].to
  <2>1. m + i \in 1..(m + n) /\ ~(m + i <= m) /\ (m + i) - m = i
    OBVIOUS
  <2>2. t[m + i] = b[(m + i) - m]
    BY <1>7, <2>1
  <2>3. QED
    BY <1>3, <1>6, <2>1, <2>2
<1>11. \A j \in 1..Len(order) : \E i \in 1..(m + n) : order[j] = t[i]
  BY <1>8 DEF Lists
<1>12. ASSUME NEW i \in 1..(m + n) PROVE i \in 1..m \/ \E k \in 1..n : i = m + k
  <2>1. CASE i <= m
    BY <2>1
  <2>2. CASE ~(i <= m)
    <3>1. i - m \in 1..n /\ i = m + (i - m)
      BY <2>2
    <3>2. QED
      BY <3>1
  <2>3. QED
    BY <2>1, <2>2
<1>13. OnlyNames(order, first, second)
  <2>. SUFFICES ASSUME NEW j \in 1..Len(order)
                PROVE  \/ \E i \in 1..m : order[j] = first[i].to
                       \/ \E i \in 1..n : order[j] = second[i].to
    BY <1>5, <1>6 DEF OnlyNames
  <2>1. PICK i \in 1..(m + n) : order[j] = t[i]
    BY <1>11
  <2>2. CASE i \in 1..m
    BY <1>9, <2>1, <2>2
  <2>3. CASE \E k \in 1..n : i = m + k
    BY <1>10, <2>1, <2>3
  <2>4. QED
    BY <1>12, <2>2, <2>3
<1>14. Names(order, first)
  BY <1>5, <1>8, <1>9 DEF Lists, Names
<1>15. Names(order, second)
  BY <1>6, <1>8, <1>10 DEF Lists, Names
<1>16. Once(order, D)
  BY <1>8 DEF Lists, Once
<1>17. QED
  BY <1>13, <1>14, <1>15, <1>16

\* A destination that no entry names has nothing.
LEMMA UnnamedHasNothing ==
  ASSUME NEW D, NEW s \in Seq(Entries(D)), NEW to, \A i \in 1..Len(s) : s[i].to # to
  PROVE  WeightOf(s, to) = 0
<1>1. PICK w : w = WeightsFor(s, to)
  OBVIOUS
<1>2. /\ w \in Seq(Nat) /\ Len(w) = Len(s) /\ WeightOf(s, to) = Total(w)
      /\ \A i \in 1..Len(s) : s[i].to # to => w[i] = 0
  BY <1>1, WeightsForFacts
<1>3. \A i \in 1..Len(w) : w[i] = 0
  BY <1>2
<1>4. QED
  BY <1>2, <1>3, SumOfNothing

\* What each destination has of the two is what it had of one and of the other.
LEMMA JointWeights ==
  ASSUME NEW D, NEW first, Weighs(first, D), NEW second, Weighs(second, D),
         NEW mine \in Nat \ {0}, NEW theirs \in Nat \ {0},
         NEW order, order = FirstSeen(Targets(first) \o Targets(second)),
         NEW u, u = Joint(first, mine, second, theirs, order)
  PROVE  /\ Weighs(u, D)
         /\ WeightSum(u) = WeightSum(first) * mine + WeightSum(second) * theirs
         /\ \A to : WeightOf(u, to) = WeightOf(first, to) * mine + WeightOf(second, to) * theirs
<1>0. first \in Seq(Entries(D)) /\ second \in Seq(Entries(D)) /\ Len(first) # 0
  BY DEF Weighs
<1>1. Once(order, D) /\ Names(order, first) /\ Names(order, second) /\ OnlyNames(order, first, second)
  BY <1>0, BothListed
<1>2. Len(order) \in Nat /\ DOMAIN order = 1..Len(order) /\ Len(order) # 0
  <2>1. Len(order) \in Nat /\ DOMAIN order = 1..Len(order) /\ Len(first) \in Nat
    BY <1>0, <1>1, SourceFacts, LenProperties DEF Once
  <2>2. 1 \in 1..Len(first)
    BY <1>0, <2>1
  <2>3. PICK j \in 1..Len(order) : first[1].to = order[j]
    BY <1>1, <2>2 DEF Names
  <2>4. QED
    BY <2>1, <2>3
<1>3. \A to : WeightOf(first, to) \in Nat /\ WeightOf(second, to) \in Nat
  BY <1>0, WeightsAreNat
<1>n. \A f \in [1..Len(order) -> Nat] : f \in Seq(Nat) /\ Len(f) = Len(order)
  BY <1>2, IsASeq
<1> DEFINE C(j) == WeightOf(first, order[j]) * mine + WeightOf(second, order[j]) * theirs
           c == [j \in 1..Len(order) |-> C(j)]
           p == [j \in 1..Len(order) |-> WeightOf(first, order[j])]
           q == [j \in 1..Len(order) |-> WeightOf(second, order[j])]
<1>p. p \in Seq(Nat) /\ Len(p) = Len(order) /\ \A j \in 1..Len(order) : p[j] = WeightOf(first, order[j])
  BY <1>3, <1>n
<1>q. q \in Seq(Nat) /\ Len(q) = Len(order) /\ \A j \in 1..Len(order) : q[j] = WeightOf(second, order[j])
  BY <1>3, <1>n
<1>4. \A x, y \in Nat : x * mine + y * theirs \in Nat /\ (x # 0 \/ y # 0 => x * mine + y * theirs # 0)
  <2>1. \A x \in Nat : x * mine \in Nat /\ x * theirs \in Nat
    OBVIOUS
  <2>2. \A x \in Nat : x # 0 => x * mine # 0 /\ x * theirs # 0
    OBVIOUS
  <2>3. \A a, b \in Nat : a + b \in Nat /\ (a # 0 \/ b # 0 => a + b # 0)
    OBVIOUS
  <2>4. QED
    BY <2>1, <2>2, <2>3
<1>5. c \in Seq(Nat) /\ Len(c) = Len(order) /\ \A j \in 1..Len(order) : c[j] = C(j)
  <2>1. \A j \in 1..Len(order) : C(j) \in Nat
    BY <1>3, <1>4
  <2> HIDE DEF C
  <2>2. c \in [1..Len(order) -> Nat] /\ \A j \in 1..Len(order) : c[j] = C(j)
    BY <2>1
  <2> HIDE DEF c
  <2>3. QED
    BY <1>n, <2>2
<1>6. u = [i \in DOMAIN order |-> [to |-> order[i], weight |-> c[i]]]
  BY <1>2 DEF Joint
<1>t. \A to : (\A j \in 1..Len(order) : to # order[j]) => WeightOf(first, to) = 0 /\ WeightOf(second, to) = 0
  <2>. SUFFICES ASSUME NEW to, \A j \in 1..Len(order) : to # order[j]
                PROVE  WeightOf(first, to) = 0 /\ WeightOf(second, to) = 0
    OBVIOUS
  <2>1. \A i \in 1..Len(first) : first[i].to # to
    BY <1>1 DEF Names
  <2>2. \A i \in 1..Len(second) : second[i].to # to
    BY <1>1 DEF Names
  <2>3. QED
    BY <1>0, <2>1, <2>2, UnnamedHasNothing
<1>s. Total(c) = Total(p) * mine + Total(q) * theirs
  <2> DEFINE pm == [j \in 1..Len(order) |-> mine * p[j]]
             qt == [j \in 1..Len(order) |-> theirs * q[j]]
  <2>1. \A j \in 1..Len(order) : p[j] \in Nat /\ q[j] \in Nat
    BY <1>3, <1>p, <1>q
  <2>2. pm \in [1..Len(order) -> Nat] /\ qt \in [1..Len(order) -> Nat]
    <3> HIDE DEF p, q
    <3>1. QED
      BY <2>1
  <2>3. pm \in Seq(Nat) /\ Len(pm) = Len(order) /\ \A j \in 1..Len(order) : pm[j] = mine * p[j]
    BY <1>n, <2>2
  <2>4. qt \in Seq(Nat) /\ Len(qt) = Len(order) /\ \A j \in 1..Len(order) : qt[j] = theirs * q[j]
    BY <1>n, <2>2
  <2>5. \A j \in 1..Len(order) : c[j] = pm[j] + qt[j]
    <3>1. \A x, y \in Nat : x * mine + y * theirs = mine * x + theirs * y
      OBVIOUS
    <3>2. \A j \in 1..Len(order) : c[j] = p[j] * mine + q[j] * theirs
      BY <1>5, <1>p, <1>q
    <3> HIDE DEF p, q, c, pm, qt
    <3>3. SUFFICES ASSUME NEW j \in 1..Len(order) PROVE c[j] = pm[j] + qt[j]
      OBVIOUS
    <3>4. PICK x \in Nat : x = p[j]
      BY <2>1
    <3>5. PICK y \in Nat : y = q[j]
      BY <2>1
    <3>6. c[j] = x * mine + y * theirs /\ pm[j] = mine * x /\ qt[j] = theirs * y
      BY <2>3, <2>4, <3>2, <3>4, <3>5
    <3>7. QED
      BY <3>1, <3>6
  <2> HIDE DEF p, q, c, pm, qt
  <2>6. Total(c) = Total(pm) + Total(qt)
    BY <1>5, <2>3, <2>4, <2>5, SumsAdd
  <2>7. Total(pm) = mine * Total(p)
    BY <1>p, <2>3, SumsScale
  <2>8. Total(qt) = theirs * Total(q)
    BY <1>q, <2>4, SumsScale
  <2>9. PICK x \in Nat : x = Total(p)
    BY <1>p, TotalNat
  <2>10. PICK y \in Nat : y = Total(q)
    BY <1>q, TotalNat
  <2>11. mine * x + theirs * y = x * mine + y * theirs
    OBVIOUS
  <2>12. QED
    BY <2>6, <2>7, <2>8, <2>9, <2>10, <2>11
<1>7. Total(p) = WeightSum(first) /\ Total(q) = WeightSum(second)
  BY <1>0, <1>1, WeightsAddUp
<1> HIDE DEF p, q, c
<1>d. order \in Seq(D)
  BY <1>1 DEF Once
<1>8. Listed(u, order, c, D)
  BY <1>d, <1>5, <1>6, ListIsSource
<1>9. /\ WeightSum(u) = Total(c)
      /\ \A j \in 1..Len(order) : WeightOf(u, order[j]) = c[j]
      /\ \A to : (\A j \in 1..Len(order) : to # order[j]) => WeightOf(u, to) = 0
  BY <1>1, <1>5, <1>8, WeightsOfList
<1>10. Weighs(u, D)
  <2>. SUFFICES ASSUME NEW i \in 1..Len(order) PROVE u[i].weight # 0
    BY <1>2, <1>8 DEF Weighs, Listed
  <2>1. WeightOf(first, order[i]) # 0 \/ WeightOf(second, order[i]) # 0
    <3>1. \A k \in 1..Len(first) : WeightOf(first, first[k].to) # 0
      BY EntryWithinWeight
    <3>2. \A k \in 1..Len(second) : WeightOf(second, second[k].to) # 0
      BY EntryWithinWeight
    <3>3. QED
      BY <1>1, <3>1, <3>2 DEF OnlyNames
  <2>2. C(i) # 0
    BY <1>3, <1>4, <2>1
  <2> HIDE DEF C
  <2>3. QED
    BY <1>5, <1>8, <2>2 DEF Listed
<1>11. ASSUME NEW to
       PROVE  WeightOf(u, to) = WeightOf(first, to) * mine + WeightOf(second, to) * theirs
  <2>1. CASE \E j \in 1..Len(order) : to = order[j]
    <3>1. PICK j \in 1..Len(order) : to = order[j]
      BY <2>1
    <3>2. WeightOf(u, to) = C(j)
      BY <1>5, <1>9, <3>1
    <3>3. QED
      BY <3>1, <3>2
  <2>2. CASE \A j \in 1..Len(order) : to # order[j]
    <3>1. WeightOf(u, to) = 0 /\ WeightOf(first, to) = 0 /\ WeightOf(second, to) = 0
      BY <1>9, <1>t, <2>2
    <3>2. 0 * mine + 0 * theirs = 0
      OBVIOUS
    <3>3. QED
      BY <3>1, <3>2
  <2>3. QED
    BY <2>1, <2>2
<1>12. QED
  BY <1>7, <1>9, <1>10, <1>11, <1>s

----------------------------------------------------------------------------
\* Combining is exact: the amounts of the two, each split as its source says, are the sum of
\* the amounts split as the combination says.
THEOREM CombinedIsExact ==
  ASSUME MaxTotal \in Nat, NEW D, NEW first, Weighs(first, D), NEW second, Weighs(second, D),
         NEW a \in Nat \ {0}, NEW b \in Nat \ {0},
         NEW c, c = Combined(first, a, second, b), c # Refused
  PROVE  /\ Weighs(c, D)
         /\ WeightSum(c) <= MaxTotal
         /\ \A to : (WeightOf(first, to) * (a * WeightSum(second)) + WeightOf(second, to) * (b * WeightSum(first)))
                      * WeightSum(c)
                    = WeightOf(c, to) * ((a + b) * (WeightSum(first) * WeightSum(second)))
<1>1. PICK s \in Nat \ {0} : s = WeightSum(first)
  BY SumIsPositive
<1>2. PICK t \in Nat \ {0} : t = WeightSum(second)
  BY SumIsPositive
<1>3. PICK g : g = CommonDivisor({s, t})
  OBVIOUS
<1>4. g \in Nat \ {0} /\ s % g = 0 /\ t % g = 0
  BY <1>3, CommonDivisorDivides
<1>5. PICK x : x = s \div g
  OBVIOUS
<1>6. PICK y : y = t \div g
  OBVIOUS
<1>7. x \in Nat \ {0} /\ g * x = s /\ y \in Nat \ {0} /\ g * y = t
  BY <1>4, <1>5, <1>6, ExactQuotient
<1>8. PICK mine : mine = a * y
  OBVIOUS
<1>9. PICK theirs : theirs = b * x
  OBVIOUS
<1>10. mine \in Nat \ {0} /\ theirs \in Nat \ {0}
  <2>1. \A k, l \in Nat \ {0} : k * l \in Nat \ {0}
    OBVIOUS
  <2>2. QED
    BY <1>7, <1>8, <1>9, <2>1
<1>11. PICK order : order = FirstSeen(Targets(first) \o Targets(second))
  OBVIOUS
<1>12. PICK u : u = Joint(first, mine, second, theirs, order)
  OBVIOUS
<1>13. c = IF Len(order) > MaxShares \/ WeightSum(Reduced(u)) > MaxTotal THEN Refused ELSE Reduced(u)
  BY <1>1, <1>2, <1>3, <1>5, <1>6, <1>8, <1>9, <1>11, <1>12 DEF Combined, Joint
<1>14. c = Reduced(u) /\ ~(WeightSum(Reduced(u)) > MaxTotal)
  BY <1>13
<1>15. /\ Weighs(u, D) /\ WeightSum(u) = WeightSum(first) * mine + WeightSum(second) * theirs
       /\ \A to : WeightOf(u, to) = WeightOf(first, to) * mine + WeightOf(second, to) * theirs
  BY <1>10, <1>11, <1>12, JointWeights
<1>16. PICK d \in Nat \ {0} : /\ Weighs(c, D) /\ WeightSum(u) = d * WeightSum(c)
                             /\ \A to : WeightOf(u, to) = d * WeightOf(c, to)
  BY <1>14, <1>15, ReducedWeights
<1>17. PICK z \in Nat \ {0} : z = WeightSum(c)
  BY <1>16, SumIsPositive
<1>18. z <= MaxTotal
  BY <1>14, <1>17
<1>19. ASSUME NEW to
       PROVE  (WeightOf(first, to) * (a * t) + WeightOf(second, to) * (b * s)) * z = WeightOf(c, to) * ((a + b) * (s * t))
  <2>1. PICK p \in Nat : p = WeightOf(first, to)
    BY WeightsAreNat DEF Weighs
  <2>2. PICK q \in Nat : q = WeightOf(second, to)
    BY WeightsAreNat DEF Weighs
  <2>3. PICK r \in Nat : r = WeightOf(c, to)
    BY <1>16, WeightsAreNat DEF Weighs
  <2>4. p * mine + q * theirs = d * r
    BY <1>15, <1>16, <2>1, <2>2, <2>3
  <2>5. s * mine + t * theirs = d * z
    BY <1>1, <1>2, <1>15, <1>16, <1>17
  <2>6. a * t = g * mine
    <3>1. a * (g * y) = g * (a * y)
      BY <1>4, <1>7
    <3>2. QED
      BY <1>7, <1>8, <3>1
  <2>7. b * s = g * theirs
    <3>1. b * (g * x) = g * (b * x)
      BY <1>4, <1>7
    <3>2. QED
      BY <1>7, <1>9, <3>1
  <2>8. PICK h \in Nat \ {0} : h = g
    BY <1>4
  <2>9. PICK m \in Nat \ {0} : m = mine
    BY <1>10
  <2>10. PICK n \in Nat \ {0} : n = theirs
    BY <1>10
  <2>11. p * (h * m) + q * (h * n) = h * (p * m + q * n)
    OBVIOUS
  <2>12. s * (h * m) + t * (h * n) = h * (s * m + t * n)
    OBVIOUS
  <2>13. (a + b) * (s * t) = s * (a * t) + t * (b * s)
    OBVIOUS
  <2>14. p * (a * t) + q * (b * s) = h * (d * r)
    BY <2>4, <2>6, <2>7, <2>8, <2>9, <2>10, <2>11
  <2>15. (a + b) * (s * t) = h * (d * z)
    BY <2>5, <2>6, <2>7, <2>8, <2>9, <2>10, <2>12, <2>13
  <2>16. (h * (d * r)) * z = r * (h * (d * z))
    OBVIOUS
  <2>17. (p * (a * t) + q * (b * s)) * z = r * ((a + b) * (s * t))
    BY <2>14, <2>15, <2>16
  <2>18. QED
    BY <2>1, <2>2, <2>3, <2>17
<1>20. QED
  BY <1>1, <1>2, <1>16, <1>17, <1>18, <1>19

----------------------------------------------------------------------------
(***************************************************************************)
(* What is owed of an amount.                                              *)
(***************************************************************************)
\* What is owed of n, supplier by supplier, is what a source says.
Exact(s, n, owed) ==
  \A to \in Destinations : WeightOf(s, to) * (Positive(n) * Unit) = WeightSum(s) * owed[to]

\* A source that credits somebody, in what the engine can hold.
Good(s) == Weighs(s, Destinations) /\ WeightSum(s) <= MaxTotal

LEMMA SourcesAreGood == ASSUME NEW s, IsSource(s) PROVE Good(s)
<1>1. s \in Seq(Shares) /\ Len(s) # 0 /\ WeightSum(s) <= MaxTotal
  BY DEF IsSource
<1>2. /\ Len(s) \in Nat /\ DOMAIN s = 1..Len(s) /\ s \in [1..Len(s) -> Shares]
      /\ \A i \in 1..Len(s) : s[i] \in Shares
  BY <1>1, LenProperties, ElementOfSeq
<1>3. Shares \subseteq Entries(Destinations) /\ \A e \in Shares : e.weight # 0
  BY DEF Shares, Entries
<1>4. s \in Seq(Entries(Destinations))
  <2>1. s \in [1..Len(s) -> Entries(Destinations)]
    BY <1>2, <1>3
  <2>2. QED
    BY <1>2, <2>1, IsASeq
<1>5. QED
  BY <1>1, <1>2, <1>3, <1>4 DEF Good, Weighs

LEMMA GoodIsNotNone == ASSUME NEW s, Good(s) PROVE s \in Seq(Shares) /\ s # None
<1>1. s \in Seq(Entries(Destinations)) /\ Len(s) # 0 /\ \A i \in 1..Len(s) : s[i].weight # 0
  BY DEF Good, Weighs
<1>2. /\ Len(s) \in Nat /\ DOMAIN s = 1..Len(s) /\ s \in [1..Len(s) -> Entries(Destinations)]
      /\ \A i \in 1..Len(s) : s[i] \in Entries(Destinations)
  BY <1>1, LenProperties, ElementOfSeq
<1>3. \A e \in Entries(Destinations) : e.weight # 0 => e \in Shares
  BY DEF Shares, Entries
<1>4. \A i \in 1..Len(s) : s[i] \in Shares
  BY <1>1, <1>2, <1>3
<1>5. s \in [1..Len(s) -> Shares]
  BY <1>2, <1>4
<1>6. s \in Seq(Shares)
  BY <1>2, <1>5, IsASeq
<1>7. QED
  BY <1>6, TemporalConstants

LEMMA UnknownIsGood == Good(UnknownSource)
<1>1. PICK e : e = [to |-> Unknown, weight |-> 1]
  OBVIOUS
<1>2. UnknownSource = <<e>> /\ e \in Entries(Destinations) /\ e.weight = 1
  <2>1. UnknownSource = <<e>>
    BY <1>1 DEF UnknownSource
  <2>2. Unknown \in Destinations
    BY DEF Destinations
  <2>3. e \in Entries(Destinations) /\ e.weight = 1
    BY <1>1, <2>2 DEF Entries
  <2>4. QED
    BY <2>1, <2>3
<1>3. PICK s : s = UnknownSource
  OBVIOUS
<1>4. s \in Seq(Entries(Destinations)) /\ Len(s) = 1 /\ s[1] = e
  BY <1>2, <1>3
<1>5. PICK w : w = WeightsIn(s)
  OBVIOUS
<1>6. w \in Seq(Nat) /\ Len(w) = Len(s) /\ WeightSum(s) = Total(w) /\ \A i \in 1..Len(s) : w[i] = s[i].weight
  BY <1>4, <1>5, SourceFacts
<1>7. Total(w) = w[1]
  <2>1. 1 \in 1..Len(w) /\ \A i \in 1..Len(w) : i # 1 => w[i] = 0
    BY <1>4, <1>6
  <2>2. QED
    BY <1>6, <2>1, SumOfOnePlace
<1>8. WeightSum(s) = 1
  BY <1>2, <1>4, <1>6, <1>7
<1>9. 1 <= MaxTotal
  BY TemporalConstants
<1>10. Weighs(s, Destinations)
  <2>1. \A i \in 1..Len(s) : s[i].weight # 0
    BY <1>2, <1>4
  <2>2. QED
    BY <1>4, <2>1 DEF Weighs
<1>11. QED
  BY <1>3, <1>8, <1>9, <1>10 DEF Good

LEMMA GoodSum ==
  ASSUME NEW s, Good(s)
  PROVE  /\ WeightSum(s) \in Nat \ {0} /\ Unit \div WeightSum(s) \in Nat
         /\ WeightSum(s) * (Unit \div WeightSum(s)) = Unit
         /\ \A to : WeightOf(s, to) \in Nat
<1>1. WeightSum(s) \in Nat \ {0} /\ WeightSum(s) <= MaxTotal
  BY SumIsPositive DEF Good
<1>2. \A to : WeightOf(s, to) \in Nat
  BY WeightsAreNat DEF Good, Weighs
<1>3. PICK n \in Nat \ {0} : n = WeightSum(s)
  BY <1>1
<1>4. n \in 1..MaxTotal /\ Unit \in Nat
  BY <1>1, <1>3, TemporalConstants
<1>5. Unit % n = 0
  BY <1>4, TemporalConstants
<1>6. Unit \div n \in Nat /\ n * (Unit \div n) = Unit
  BY <1>4, <1>5, ExactQuotient
<1>7. QED
  BY <1>2, <1>3, <1>6

LEMMA PositiveIsNat == ASSUME NEW n \in Int PROVE Positive(n) \in Nat
BY DEF Positive

\* A portion is what its source says ...
LEMMA PortionIsExact ==
  ASSUME NEW s, Good(s), NEW n \in Int
  PROVE  Portion(s, n) \in [Destinations -> Nat] /\ Exact(s, n, Portion(s, n))
<1>1. PICK t \in Nat \ {0} : t = WeightSum(s)
  BY GoodSum
<1>2. PICK q \in Nat : q = Unit \div t /\ t * q = Unit
  BY <1>1, GoodSum
<1>3. PICK p \in Nat : p = Positive(n)
  BY PositiveIsNat
<1>4. Portion(s, n) = [to \in Destinations |-> p * q * WeightOf(s, to)]
  BY <1>1, <1>2, <1>3 DEF Portion
<1>5. \A w \in Nat : p * q * w \in Nat
  OBVIOUS
<1>6. \A to : WeightOf(s, to) \in Nat
  BY GoodSum
<1>7. Portion(s, n) \in [Destinations -> Nat]
  BY <1>4, <1>5, <1>6
<1>8. ASSUME NEW to \in Destinations
      PROVE  WeightOf(s, to) * (Positive(n) * Unit) = WeightSum(s) * Portion(s, n)[to]
  <2>1. PICK w \in Nat : w = WeightOf(s, to)
    BY <1>6
  <2>2. Portion(s, n)[to] = p * q * w
    BY <1>4, <2>1
  <2>3. w * (p * (t * q)) = t * (p * q * w)
    OBVIOUS
  <2>4. QED
    BY <1>1, <1>2, <1>3, <2>1, <2>2, <2>3
<1>9. QED
  BY <1>7, <1>8 DEF Exact

LEMMA NobodyIsNothing ==
  ASSUME NEW owed \in [Destinations -> Nat]
  PROVE  Both(Nobody, owed) = owed
<1>1. Both(Nobody, owed) = [to \in Destinations |-> Nobody[to] + owed[to]]
  BY DEF Both
<1>2. \A to \in Destinations : Nobody[to] + owed[to] = owed[to]
  BY DEF Nobody
<1>3. QED
  BY <1>1, <1>2

\* ... nothing more of a source changes nothing ...
LEMMA NothingMore ==
  ASSUME NEW s, Good(s), NEW owed \in [Destinations -> Nat]
  PROVE  Both(owed, Portion(s, 0)) = owed
<1>1. PICK q \in Nat : q = Unit \div WeightSum(s)
  BY GoodSum
<1>2. Positive(0) = 0
  BY DEF Positive
<1>3. \A w \in Nat : 0 * q * w = 0
  BY <1>1
<1>4. \A to \in Destinations : Portion(s, 0)[to] = 0
  BY <1>1, <1>2, <1>3, GoodSum DEF Portion
<1>5. Both(owed, Portion(s, 0)) = [to \in Destinations |-> owed[to] + Portion(s, 0)[to]]
  BY DEF Both
<1>6. \A to \in Destinations : owed[to] + Portion(s, 0)[to] = owed[to]
  BY <1>4
<1>7. QED
  BY <1>5, <1>6

LEMMA BothIsTyped ==
  ASSUME NEW a \in [Destinations -> Nat], NEW b \in [Destinations -> Nat]
  PROVE  Both(a, b) \in [Destinations -> Nat] /\ \A to \in Destinations : Both(a, b)[to] = a[to] + b[to]
BY DEF Both

\* ... and a combination is what it says of both.
LEMMA BothIsExact ==
  ASSUME NEW first, Good(first), NEW second, Good(second), NEW a \in Int, NEW b \in Int, a > 0, b > 0,
         NEW owed \in [Destinations -> Nat], Exact(first, a, owed),
         NEW c, c = Combined(first, a, second, b), c # Refused
  PROVE  Good(c) /\ Exact(c, a + b, Both(owed, Portion(second, b)))
<1>1. a \in Nat \ {0} /\ b \in Nat \ {0} /\ a + b \in Nat /\ MaxTotal \in Nat /\ Unit \in Nat
  BY TemporalConstants
<1>2. Positive(a) = a /\ Positive(b) = b /\ Positive(a + b) = a + b
  BY DEF Positive
<1>3. Weighs(first, Destinations) /\ Weighs(second, Destinations)
  BY DEF Good
<1>4. /\ Weighs(c, Destinations)
      /\ WeightSum(c) <= MaxTotal
      /\ \A to : (WeightOf(first, to) * (a * WeightSum(second)) + WeightOf(second, to) * (b * WeightSum(first)))
                   * WeightSum(c)
                 = WeightOf(c, to) * ((a + b) * (WeightSum(first) * WeightSum(second)))
  BY <1>1, <1>3, CombinedIsExact
<1>5. Good(c)
  BY <1>4 DEF Good
<1>6. PICK more \in [Destinations -> Nat] : more = Portion(second, b) /\ Exact(second, b, more)
  BY PortionIsExact
<1>7. PICK s \in Nat \ {0} : s = WeightSum(first)
  BY GoodSum
<1>8. PICK t \in Nat \ {0} : t = WeightSum(second)
  BY GoodSum
<1>9. PICK z \in Nat \ {0} : z = WeightSum(c)
  BY <1>5, GoodSum
<1>10. PICK l \in Nat : l = Unit
  BY <1>1
<1>11. ASSUME NEW to \in Destinations
       PROVE  WeightOf(c, to) * (Positive(a + b) * Unit) = WeightSum(c) * Both(owed, more)[to]
  <2>1. PICK p \in Nat : p = WeightOf(first, to)
    BY GoodSum
  <2>2. PICK q \in Nat : q = WeightOf(second, to)
    BY GoodSum
  <2>3. PICK r \in Nat : r = WeightOf(c, to)
    BY <1>5, GoodSum
  <2>4. PICK o \in Nat : o = owed[to]
    OBVIOUS
  <2>5. PICK v \in Nat : v = more[to]
    OBVIOUS
  <2>6. p * (a * l) = s * o
    BY <1>2, <1>7, <1>10, <2>1, <2>4 DEF Exact
  <2>7. q * (b * l) = t * v
    BY <1>2, <1>6, <1>8, <1>10, <2>2, <2>5 DEF Exact
  <2>8. (p * (a * t) + q * (b * s)) * z = r * ((a + b) * (s * t))
    BY <1>4, <1>7, <1>8, <1>9, <2>1, <2>2, <2>3
  <2>9. PICK x \in Nat : x = a
    BY <1>1
  <2>10. PICK y \in Nat : y = b
    BY <1>1
  <2>11. (r * ((x + y) * l)) * (s * t) = (r * ((x + y) * (s * t))) * l
    OBVIOUS
  <2>12. ((p * (x * t) + q * (y * s)) * z) * l = (t * (p * (x * l)) + s * (q * (y * l))) * z
    OBVIOUS
  <2>13. (t * (s * o) + s * (t * v)) * z = (z * (o + v)) * (s * t)
    OBVIOUS
  <2>14. (r * ((x + y) * l)) * (s * t) = (z * (o + v)) * (s * t)
    BY <2>6, <2>7, <2>8, <2>9, <2>10, <2>11, <2>12, <2>13
  <2>15. \A i, j \in Nat : \A n \in Nat \ {0} : i * n = j * n => i = j
    OBVIOUS
  <2>16. s * t \in Nat \ {0} /\ r * ((x + y) * l) \in Nat /\ z * (o + v) \in Nat
    OBVIOUS
  <2>17. r * ((x + y) * l) = z * (o + v)
    BY <2>14, <2>15, <2>16
  <2>18. Both(owed, more)[to] = o + v
    BY <2>4, <2>5, BothIsTyped
  <2>19. QED
    BY <1>2, <1>9, <1>10, <2>3, <2>9, <2>10, <2>17, <2>18
<1>12. QED
  BY <1>5, <1>6, <1>11 DEF Exact

----------------------------------------------------------------------------
(***************************************************************************)
(* The saved entries and the accumulation that is under way.               *)
(***************************************************************************)
Typed ==
  /\ amounts \in [Keys -> Amounts \cup {None}]
  /\ owing \in [Keys -> [Destinations -> Nat]]
  /\ held \in [Holders -> Objects \cup {None}]
  /\ DOMAIN pending \subseteq Keys
  /\ \A k \in DOMAIN pending : amounts[k] # None

\* What is held is alive, and so is the owner a handle is registered with.
Alive ==
  /\ \A h \in Holders : held[h] # None => held[h] \in Living
  /\ \A h \in DOMAIN owned : owned[h] # None => owned[h] \in Living /\ object[owned[h]].handle = h
  /\ \A o \in Living : Good(object[o].source)

\* An entry that holds a source is saved, in this combat.
Current ==
  \A k \in Keys : held[k] # None =>
     k \in DOMAIN pending /\ epoch # None /\ object[held[k]].handle[1] = epoch

\* What is owed once the addition that is under way is done, supplier by supplier.
Mixture(key, a, before, second) ==
  Both(IF before > 0 THEN owing[key] ELSE Nobody, Portion(second, a - Positive(before)))

\* While the engine is called, it captures for a frame, or mixes for a key that
\* is not saved; what it has mixed is what is owed.
Underway ==
  /\ call = NoCall => adding = None
  /\ call # NoCall => /\ epoch # None
                      /\ call.handle # None => Good(call.source)
                      /\ adding = None => call.to \in Frames
  /\ adding # None =>
       /\ call.to \in Keys \ DOMAIN pending /\ amounts[call.to] # None
       /\ adding.before \in Int /\ Good(adding.second)
       /\ call.handle # None =>
            Exact(call.source, amounts[call.to], Mixture(call.to, amounts[call.to], adding.before, adding.second))

\* What a key holds, saved or not, says whom its amount is owed to.
Exacts ==
  \A k \in Keys : amounts[k] # None /\ (adding # None => call.to # k) =>
     Exact(SourceOf(held[k]), amounts[k], owing[k])

TInv == Typed /\ Alive /\ Current /\ Underway /\ Exacts

LEMMA SourceOfIsGood == ASSUME Alive, NEW h \in Holders PROVE Good(SourceOf(held[h]))
<1>1. held[h] # None => Good(object[held[h]].source)
  BY DEF Alive
<1>2. QED
  BY <1>1, UnknownIsGood DEF SourceOf

LEMMA UnknownIsOwed ==
  ASSUME NEW n \in Amounts
  PROVE  /\ Portion(UnknownSource, n) \in [Destinations -> Nat]
         /\ Exact(UnknownSource, n, Portion(UnknownSource, n))
<1>1. n \in Int
  BY TemporalConstants
<1>2. QED
  BY <1>1, UnknownIsGood, PortionIsExact

LEMMA NobodyIsTyped == Nobody \in [Destinations -> Nat]
BY DEF Nobody

\* What the engine returned has an owner, which is what it was asked for.
Taken(o) ==
  /\ Living \subseteq Living'
  /\ \A x \in Living : object'[x] = object[x]
  /\ call.handle = None => o = None
  /\ call.handle # None => o \in Living' /\ object'[o].handle[1] = epoch /\ object'[o].source = call.source
  /\ \A h \in DOMAIN owned' : owned'[h] # None => owned'[h] \in Living' /\ object'[owned'[h]].handle = h
  /\ \A x \in Living' : Good(object'[x].source)

LEMMA Taking ==
  ASSUME IInv, Alive, epoch # None, call.handle # None => Good(call.source), NEW o, Owns(o)
  PROVE  Taken(o)
<1>0. /\ \A h \in DOMAIN owned : owned[h] # None => owned[h] \in Living /\ object[owned[h]].handle = h
      /\ \A x \in Living : Good(object[x].source)
  BY DEF Alive
<1>1. CASE call.handle = None
  <2>1. o = None /\ UNCHANGED <<object, owned>>
    BY <1>1 DEF Owns
  <2>2. Living' = Living
    BY <2>1 DEF Living
  <2>3. QED
    BY <1>0, <1>1, <2>1, <2>2 DEF Taken
<1>2. ASSUME call.handle # None PROVE
        /\ engine.on /\ epoch = engine.sequence
        /\ \E n \in DOMAIN arena.entries : call.handle = <<engine.sequence, n>> /\ arena.entries[n] = call.source
  BY <1>2 DEF IInv, Shape, Returning
<1>3. ASSUME call.handle # None, o \in Living, object[o].handle = call.handle, UNCHANGED <<object, owned>>
      PROVE  Taken(o)
  <2>1. PICK n \in DOMAIN arena.entries : call.handle = <<engine.sequence, n>> /\ arena.entries[n] = call.source
    BY <1>2, <1>3
  <2>2. Read(object[o].handle) = object[o].source
    BY <1>2, <1>3, <2>1 DEF IInv, OwnersResolve, Living
  <2>3. Read(object[o].handle) = call.source
    BY <1>2, <1>3, <2>1, NoHandle DEF Read, Lives, IInv
  <2>4. Living' = Living
    BY <1>3 DEF Living
  <2>5. object[o].handle[1] = epoch
    BY <1>2, <1>3, <2>1
  <2>6. QED
    BY <1>0, <1>3, <2>2, <2>3, <2>4, <2>5 DEF Taken
<1>4. CASE call.handle # None /\ o \in Reused /\ UNCHANGED <<object, owned>>
  <2>1. o \in Living /\ object[o].handle = call.handle
    BY <1>4 DEF Reused, IInv, Returning
  <2>2. QED
    BY <1>3, <1>4, <2>1
<1>5. CASE /\ call.handle # None /\ OwnerOf(call.handle) # None
           /\ o = OwnerOf(call.handle) /\ UNCHANGED <<object, owned>>
  <2>1. o \in Living /\ object[o].handle = call.handle
    BY <1>0, <1>5 DEF OwnerOf
  <2>2. QED
    BY <1>3, <1>5, <2>1
<1>6. CASE /\ call.handle # None /\ o \in Free
           /\ object' = [object EXCEPT ![o] = [handle |-> call.handle, source |-> call.source]]
           /\ owned' = With(owned, call.handle, o)
  <2>1. PICK record : record = [handle |-> call.handle, source |-> call.source]
    OBVIOUS
  <2>2. record.handle = call.handle /\ record.source = call.source
    BY <2>1
  <2>3. o \in Objects /\ object[o] = None
    BY <1>6 DEF Free
  <2>4. object = [x \in Objects |-> object[x]]
    BY DEF IInv, Shape
  <2>5. object' = [object EXCEPT ![o] = record]
    BY <1>6, <2>1
  <2>6. object'[o] = record /\ \A x \in Objects : x # o => object'[x] = object[x]
    BY <2>3, <2>4, <2>5
  <2>7. Living \subseteq Objects /\ o \notin Living
    BY <2>3 DEF Living
  <2>8. PICK n \in DOMAIN arena.entries : call.handle = <<engine.sequence, n>> /\ arena.entries[n] = call.source
    BY <1>2, <1>6
  <2>9. record # None
    <3>1. engine.sequence \in 1..MaxSequence /\ n \in 1..MaxPayload
      <4>1. engine.sequence \in 0..MaxSequence /\ engine.sequence # 0
        BY <1>2, <1>6 DEF IInv, Shape
      <4>2. n \in 1..arena.serial /\ arena.serial \in 0..MaxPayload
        BY <2>8 DEF IInv, Shape, IsArena
      <4>3. QED
        BY <4>1, <4>2, SourceConstants
    <3>2. call.handle \in Handles
      BY <2>8, <3>1 DEF Handles
    <3>3. call.source \in Seq(Shares)
      BY <1>6, GoodIsNotNone
    <3>4. record \in [handle : Handles, source : Seq(Shares)]
      BY <2>1, <3>2, <3>3
    <3>5. QED
      BY <3>4, TemporalConstants
  <2>10. Living' = Living \cup {o}
    BY <2>3, <2>6, <2>9 DEF Living
  <2>11. \A x \in Living : object'[x] = object[x]
    BY <2>6, <2>7
  <2>12. /\ DOMAIN owned' = DOMAIN owned \cup {call.handle} /\ owned'[call.handle] = o
         /\ \A h \in DOMAIN owned : h # call.handle => owned'[h] = owned[h]
    BY <1>6 DEF With
  <2>13. ASSUME NEW h \in DOMAIN owned', owned'[h] # None
         PROVE  owned'[h] \in Living' /\ object'[owned'[h]].handle = h
    <3>1. CASE h = call.handle
      BY <2>2, <2>6, <2>10, <2>12, <3>1
    <3>2. CASE h # call.handle
      BY <1>0, <2>10, <2>11, <2>12, <2>13, <3>2
    <3>3. QED
      BY <3>1, <3>2
  <2>14. \A x \in Living' : Good(object'[x].source)
    BY <1>0, <1>6, <2>2, <2>6, <2>10, <2>11
  <2>15. call.handle[1] = epoch
    BY <1>2, <1>6, <2>8
  <2>16. o \in Living' /\ object'[o].handle[1] = epoch /\ object'[o].source = call.source
    BY <2>2, <2>6, <2>10, <2>15
  <2>17. QED
    BY <1>6, <2>10, <2>11, <2>13, <2>14, <2>16 DEF Taken
<1>7. QED
  BY <1>1, <1>4, <1>5, <1>6 DEF Owns

----------------------------------------------------------------------------
\* A mixture that has nothing to mix returns the handle of a living object again.
LEMMA SayingAgain ==
  ASSUME IInv, epoch # None, call = NoCall, engine.on, NEW o \in Living, object[o].handle[1] = epoch
  PROVE  Grown(SweptArena, object[o].source, object[o].handle, SweptArena)
<1>1. epoch = engine.sequence /\ IsArena(SweptArena)
  BY Sweeping DEF IInv, Shape
<1>2. PICK n \in 1..MaxPayload : object[o].handle = <<engine.sequence, n>>
  BY <1>1 DEF IInv, PastHandles
<1>3. n \in DOMAIN SweptArena.entries /\ n \in DOMAIN arena.entries /\ SweptArena.entries[n] = arena.entries[n]
  BY <1>1, <1>2, Sweeping
<1>4. Read(object[o].handle) = object[o].source
  BY <1>1 DEF IInv, OwnersResolve, Living
<1>5. arena.entries[n] = object[o].source
  BY <1>2, <1>3, <1>4, NoHandle DEF Read, Lives, IInv
<1>6. \E m \in DOMAIN SweptArena.entries :
         object[o].handle = <<engine.sequence, m>> /\ SweptArena.entries[m] = object[o].source
  BY <1>2, <1>3, <1>5
<1>7. QED
  BY <1>1, <1>6 DEF Grown

\* What a call that mixes returns.
Returns(key, kept, source, handle, after, total, owed) ==
  /\ Calls(key, kept, source, handle, after)
  /\ Grown(SweptArena, source, handle, after)
  /\ handle # None => Good(source) /\ Exact(source, total, owed)

LEMMA Refusing ==
  ASSUME IInv, epoch # None, call = NoCall, NEW key, NEW kept, NEW total, NEW owed,
         Calls(key, kept, UnknownSource, None, SweptArena)
  PROVE  \E source, handle, after : Returns(key, kept, source, handle, after, total, owed)
<1>1. Grown(SweptArena, UnknownSource, None, SweptArena)
  BY Sweeping DEF Grown
<1>2. Returns(key, kept, UnknownSource, None, SweptArena, total, owed)
  BY <1>1 DEF Returns
<1>3. QED
  BY <1>2

LEMMA Repeating ==
  ASSUME IInv, epoch # None, call = NoCall, engine.on, NEW key, NEW kept, NEW total, NEW owed,
         NEW o, o # None => o \in Living /\ object[o].handle[1] = epoch,
         Calls(key, kept, SourceOf(o), HandleOfObject(o), SweptArena),
         Good(SourceOf(o)), Exact(SourceOf(o), total, owed)
  PROVE  \E source, handle, after : Returns(key, kept, source, handle, after, total, owed)
<1>1. CASE o = None
  <2>1. Calls(key, kept, UnknownSource, None, SweptArena)
    BY <1>1 DEF SourceOf, HandleOfObject
  <2>2. QED
    BY <2>1, Refusing
<1>2. CASE o # None
  <2>1. SourceOf(o) = object[o].source /\ HandleOfObject(o) = object[o].handle
    BY <1>2 DEF SourceOf, HandleOfObject
  <2>2. Grown(SweptArena, SourceOf(o), HandleOfObject(o), SweptArena)
    BY <1>2, <2>1, SayingAgain
  <2>3. Returns(key, kept, SourceOf(o), HandleOfObject(o), SweptArena, total, owed)
    BY <2>2 DEF Returns
  <2>4. QED
    BY <2>3
<1>3. QED
  BY <1>1, <1>2

LEMMA Mixing ==
  ASSUME IInv, TInv, NEW f \in Frames, NEW key \in Keys, NEW n \in Amounts, NEW e \in Executions,
         Accumulate(f, key, n, e)
  PROVE  \E kept \in SUBSET Living : \E source, handle, after :
            Returns(key, kept, source, handle, after, n, Mixture(key, n, amounts[key], SourceOf(held[f])))
<1>1. /\ call = NoCall /\ epoch # None /\ amounts[key] # None
      /\ held[f] # None => object[held[f]].handle[1] = epoch
  BY DEF Accumulate, Writes
<1>2. f \in Holders /\ key \in Holders /\ held[f] \in Objects \cup {None} /\ held[key] \in Objects \cup {None}
  BY TemporalConstants DEF TInv, Typed
<1>3. /\ held[f] # None => held[f] \in Living
      /\ held[key] # None => held[key] \in Living /\ object[held[key]].handle[1] = epoch
  BY <1>2 DEF TInv, Alive, Current
<1>4. PICK kept : kept = {held[key], held[f]} \ {None}
  OBVIOUS
<1>5. kept \in SUBSET Living
  BY <1>3, <1>4
<1>6. PICK before \in Int : before = amounts[key]
  BY <1>1, TemporalConstants DEF TInv, Typed
<1>7. n \in Int /\ n - before \in Int
  BY <1>6, TemporalConstants
<1>8. PICK mine : mine = SourceOf(held[key])
  OBVIOUS
<1>9. PICK theirs : theirs = SourceOf(held[f])
  OBVIOUS
<1>10. Good(mine) /\ Good(theirs)
  BY <1>2, <1>8, <1>9, SourceOfIsGood DEF TInv
<1>11. PICK owed \in [Destinations -> Nat] : owed = owing[key]
  BY DEF TInv, Typed
<1>12. Exact(mine, before, owed)
  <2>1. adding = None
    BY <1>1 DEF TInv, Underway
  <2>2. QED
    BY <1>1, <1>6, <1>8, <1>11, <2>1 DEF TInv, Exacts
<1>13. PICK goal : goal = Mixture(key, n, before, theirs)
  OBVIOUS
<1>14. goal = Both(IF before > 0 THEN owed ELSE Nobody, Portion(theirs, n - Positive(before)))
  BY <1>11, <1>13 DEF Mixture
<1>15. CASE ~engine.on
  <2>1. Calls(key, kept, UnknownSource, None, SweptArena)
    BY <1>4, <1>15 DEF Accumulate
  <2>2. QED
    BY <1>1, <1>5, <1>6, <1>9, <1>13, <2>1, Refusing
<1>16. CASE engine.on
  <2>1. Mixes(key, kept, held[key], before, held[f], n - before)
    BY <1>4, <1>6, <1>16 DEF Accumulate
  <2>2. CASE n - before < 0
    <3>1. Calls(key, kept, UnknownSource, None, SweptArena)
      BY <2>1, <2>2 DEF Mixes
    <3>2. QED
      BY <1>1, <1>5, <1>6, <1>9, <1>13, <3>1, Refusing
  <2>3. CASE ~(n - before < 0) /\ before <= 0
    <3>1. Calls(key, kept, SourceOf(held[f]), HandleOfObject(held[f]), SweptArena)
      BY <2>1, <2>3 DEF Mixes
    <3>2. ~(before > 0) /\ Positive(before) = 0 /\ n - 0 = n
      BY <1>6, <1>7, <2>3 DEF Positive
    <3>3. goal = Both(Nobody, Portion(theirs, n))
      BY <1>14, <3>2
    <3>4. Portion(theirs, n) \in [Destinations -> Nat] /\ Exact(theirs, n, Portion(theirs, n))
      BY <1>7, <1>10, PortionIsExact
    <3>5. Exact(theirs, n, goal)
      BY <3>3, <3>4, NobodyIsNothing
    <3>6. \E source, handle, after : Returns(key, kept, source, handle, after, n, goal)
      BY <1>1, <1>3, <1>9, <1>10, <1>16, <3>1, <3>5, Repeating
    <3>7. QED
      BY <1>5, <1>6, <1>9, <1>13, <3>6
  <2>4. CASE ~(n - before < 0) /\ ~(before <= 0) /\ n - before = 0
    <3>1. Calls(key, kept, SourceOf(held[key]), HandleOfObject(held[key]), SweptArena)
      BY <2>1, <2>4 DEF Mixes
    <3>2. before > 0 /\ Positive(before) = before /\ n = before
      BY <1>6, <1>7, <2>4 DEF Positive
    <3>3. goal = Both(owed, Portion(theirs, 0))
      BY <1>14, <2>4, <3>2
    <3>4. Exact(mine, n, goal)
      BY <1>10, <1>12, <3>2, <3>3, NothingMore
    <3>5. \E source, handle, after : Returns(key, kept, source, handle, after, n, goal)
      BY <1>1, <1>3, <1>8, <1>10, <1>16, <3>1, <3>4, Repeating
    <3>6. QED
      BY <1>5, <1>6, <1>9, <1>13, <3>5
  <2>5. CASE ~(n - before < 0) /\ ~(before <= 0) /\ n - before # 0
    <3>1. PICK mixed : mixed = Combined(mine, before, theirs, n - before)
      OBVIOUS
    <3>2. CASE mixed = Refused
      <4>1. Calls(key, kept, UnknownSource, None, SweptArena)
        BY <1>8, <1>9, <2>1, <2>5, <3>1, <3>2 DEF Mixes
      <4>2. QED
        BY <1>1, <1>5, <1>6, <1>9, <1>13, <4>1, Refusing
    <3>3. CASE mixed # Refused
      <4>1. Exports(key, kept, mixed)
        BY <1>8, <1>9, <2>1, <2>5, <3>1, <3>3 DEF Mixes
      <4>2. Calls(key, kept, mixed, HandleOf(SweptArena, mixed), Exported(SweptArena, mixed))
        BY <1>16, <4>1 DEF Exports
      <4>3. Grown(SweptArena, mixed, HandleOf(SweptArena, mixed), Exported(SweptArena, mixed))
        BY <1>1, <1>16, Sweeping, Growing
      <4>4. PICK added \in Int : added = n - before
        BY <1>7
      <4>5. before > 0 /\ added > 0 /\ before + added = n /\ Positive(before) = before
        BY <1>6, <1>7, <2>5, <4>4 DEF Positive
      <4>6. mixed = Combined(mine, before, theirs, added)
        BY <3>1, <4>4
      <4>7. Good(mixed) /\ Exact(mixed, before + added, Both(owed, Portion(theirs, added)))
        BY <1>10, <1>12, <3>3, <4>5, <4>6, BothIsExact
      <4>8. goal = Both(owed, Portion(theirs, added))
        BY <1>14, <4>4, <4>5
      <4>9. Returns(key, kept, mixed, HandleOf(SweptArena, mixed), Exported(SweptArena, mixed), n, goal)
        BY <4>2, <4>3, <4>5, <4>7, <4>8 DEF Returns
      <4>10. QED
        BY <1>5, <1>6, <1>9, <1>13, <4>9
    <3>4. QED
      BY <3>2, <3>3
  <2>6. QED
    BY <2>2, <2>3, <2>4, <2>5
<1>17. QED
  BY <1>15, <1>16

----------------------------------------------------------------------------
\* The entries stay as they are.
LEMMA Staying ==
  ASSUME TInv, UNCHANGED <<amounts, pending, adding, owing, epoch>>, Alive', Underway',
         held' \in [Holders -> Objects \cup {None}],
         \A k \in Keys : held'[k] = held[k] /\ (held[k] # None => object'[held[k]] = object[held[k]]),
         adding = None \/ call' = call
  PROVE  TInv'
<1>1. Typed'
  BY DEF TInv, Typed
<1>2. Current'
  BY DEF TInv, Current
<1>3. ASSUME NEW k \in Keys, amounts[k] # None, adding # None => call'.to # k
      PROVE  Exact(SourceOf(held[k])', amounts[k], owing[k])
  <2>1. Exact(SourceOf(held[k]), amounts[k], owing[k])
    BY <1>3 DEF TInv, Exacts
  <2>2. SourceOf(held[k])' = SourceOf(held[k])
    BY DEF SourceOf
  <2>3. QED
    BY <2>1, <2>2
<1>4. Exacts'
  BY <1>3 DEF Exacts
<1>5. QED
  BY <1>1, <1>2, <1>4 DEF TInv

LEMMA KeysAreHolders ==
  ASSUME TInv
  PROVE  /\ \A f \in Frames : f \in Holders /\ f \notin Keys
         /\ \A k \in Keys : k \in Holders
         /\ \A h \in Holders : held[h] \in Objects \cup {None} /\ h # None
         /\ \A k \in Keys : amounts[k] \in Amounts \cup {None}
         /\ Amounts \subseteq Int
BY TemporalConstants DEF TInv, Typed

LEMMA Owners ==
  ASSUME Alive, Collect, UNCHANGED object, \A h \in Holders : held'[h] # None => held'[h] \in Living
  PROVE  Alive'
<1>1. Living' = Living
  BY DEF Living
<1>2. DOMAIN owned' = DOMAIN owned \ Collected /\ \A h \in DOMAIN owned' : owned'[h] = owned[h]
  BY DEF Collect, Without
<1>3. QED
  BY <1>1, <1>2 DEF Alive

LEMMA Capturing ==
  ASSUME TInv, NEW f \in Frames, NEW s \in Snapshots, Capture(f, s), UNCHANGED temporal
  PROVE  TInv'
<1>1. PICK handle, after : Calls(f, {}, s, handle, after)
  BY DEF Capture, Exports
<1>2. /\ call = NoCall /\ epoch # None /\ Collect /\ UNCHANGED <<epoch, object, held>>
      /\ call' = [to |-> f, kept |-> {}, source |-> s, handle |-> handle]
  BY <1>1 DEF Calls, Capture
<1>3. call'.to = f /\ call'.source = s
  BY <1>2
<1>4. f # None /\ NoCall.to = None
  BY KeysAreHolders DEF NoCall
<1>5. call' # NoCall
  BY <1>3, <1>4
<1>6. Good(s)
  BY TemporalConstants, SourcesAreGood
<1>7. UNCHANGED <<amounts, pending, adding, owing>> /\ adding = None
  BY <1>2 DEF temporal, TInv, Underway
<1>8. Underway'
  BY <1>2, <1>3, <1>5, <1>6, <1>7 DEF Underway
<1>9. Alive'
  BY <1>2, Owners DEF TInv, Alive
<1>10. held' \in [Holders -> Objects \cup {None}] /\ \A k \in Keys : held'[k] = held[k]
  BY <1>2 DEF TInv, Typed
<1>11. QED
  BY <1>2, <1>7, <1>8, <1>9, <1>10, Staying

LEMMA Returned ==
  ASSUME IInv, TInv, adding = None, Captured, UNCHANGED temporal
  PROVE  TInv'
<1>1. PICK o \in Objects \cup {None} : Owns(o) /\ held' = [held EXCEPT ![call.to] = o]
  BY DEF Captured
<1>2. call # NoCall /\ call' = NoCall /\ UNCHANGED epoch /\ UNCHANGED <<amounts, pending, adding, owing>>
  BY DEF Captured, temporal
<1>3. epoch # None /\ (call.handle # None => Good(call.source)) /\ call.to \in Frames
  BY <1>2 DEF TInv, Underway
<1>4. Taken(o)
  BY <1>1, <1>3, Taking DEF TInv
<1>5. /\ held' \in [Holders -> Objects \cup {None}] /\ call.to \in Holders /\ held'[call.to] = o
      /\ \A h \in Holders : h # call.to => held'[h] = held[h]
  BY <1>1, <1>3, KeysAreHolders DEF TInv, Typed
<1>6. \A h \in Holders : held[h] # None => held[h] \in Living
  BY DEF TInv, Alive
<1>7. Alive'
  <2>1. \A h \in Holders : held'[h] # None => held'[h] \in Living'
    BY <1>4, <1>5, <1>6 DEF Taken
  <2>2. QED
    BY <1>4, <2>1 DEF Alive, Taken
<1>8. \A k \in Keys : held'[k] = held[k] /\ (held[k] # None => object'[held[k]] = object[held[k]])
  BY <1>3, <1>4, <1>5, <1>6, KeysAreHolders DEF Taken
<1>9. Underway'
  BY <1>2 DEF Underway
<1>10. QED
  BY <1>2, <1>5, <1>7, <1>8, <1>9, Staying

LEMMA Collecting ==
  ASSUME TInv, NEW f, Consume(f), UNCHANGED temporal
  PROVE  TInv'
<1>1. UNCHANGED <<amounts, pending, adding, owing, epoch, object, held, call>> /\ Collect /\ call = NoCall
  BY DEF Consume, temporal
<1>2. Alive'
  BY <1>1, Owners DEF TInv, Alive
<1>3. Underway'
  BY <1>1 DEF TInv, Underway
<1>4. held' \in [Holders -> Objects \cup {None}] /\ \A k \in Keys : held'[k] = held[k]
  BY <1>1 DEF TInv, Typed
<1>5. QED
  BY <1>1, <1>2, <1>3, <1>4, Staying

LEMMA Holding ==
  ASSUME TInv, NEW f \in Frames, NEW o, Hold(f, o), UNCHANGED temporal
  PROVE  TInv'
<1>1. /\ UNCHANGED <<amounts, pending, adding, owing, epoch, object, owned, call>> /\ call = NoCall
      /\ held' = [held EXCEPT ![f] = o] /\ o \in {None} \cup {held[g] : g \in Holders}
  BY DEF Hold, temporal
<1>2. o \in Objects \cup {None} /\ (o # None => o \in Living)
  BY <1>1, KeysAreHolders DEF TInv, Alive
<1>3. /\ held' \in [Holders -> Objects \cup {None}] /\ held'[f] = o
      /\ \A h \in Holders : h # f => held'[h] = held[h]
  BY <1>1, <1>2, KeysAreHolders DEF TInv, Typed
<1>4. Living' = Living
  BY <1>1 DEF Living
<1>5. Alive'
  BY <1>1, <1>2, <1>3, <1>4 DEF TInv, Alive
<1>6. Underway'
  BY <1>1 DEF TInv, Underway, Mixture
<1>7. \A k \in Keys : held'[k] = held[k]
  BY <1>3, KeysAreHolders
<1>8. QED
  BY <1>1, <1>3, <1>5, <1>6, <1>7, Staying

LEMMA Losing ==
  ASSUME TInv, NEW lost \in SUBSET Garbage, Reclaim(lost), UNCHANGED temporal
  PROVE  TInv'
<1>1. /\ UNCHANGED <<amounts, pending, adding, owing, epoch, held, call>>
      /\ object' = [o \in Objects |-> IF o \in lost THEN None ELSE object[o]]
      /\ owned' = [h \in DOMAIN owned |-> IF owned[h] \in lost THEN None ELSE owned[h]]
  BY DEF Reclaim, temporal
<1>2. Living' = Living \ lost /\ \A o \in Living' : object'[o] = object[o]
  BY <1>1 DEF Living
<1>3. \A h \in Holders : held[h] \notin lost
  BY DEF Garbage
<1>4. \A h \in DOMAIN owned' : owned'[h] # None => owned'[h] = owned[h] /\ owned[h] # None /\ owned[h] \notin lost
  BY <1>1
<1>5. DOMAIN owned' = DOMAIN owned
  BY <1>1
<1>6. Alive'
  <2>1. \A h \in Holders : held'[h] # None => held'[h] \in Living'
    BY <1>1, <1>2, <1>3 DEF TInv, Alive
  <2>2. \A h \in DOMAIN owned' : owned'[h] # None => owned'[h] \in Living' /\ object'[owned'[h]].handle = h
    BY <1>2, <1>4, <1>5 DEF TInv, Alive
  <2>3. \A o \in Living' : Good(object'[o].source)
    BY <1>2 DEF TInv, Alive
  <2>4. QED
    BY <2>1, <2>2, <2>3 DEF Alive
<1>7. Underway'
  BY <1>1 DEF TInv, Underway, Mixture
<1>8. held' \in [Holders -> Objects \cup {None}]
  BY <1>1 DEF TInv, Typed
<1>9. \A k \in Keys : held'[k] = held[k] /\ (held[k] # None => object'[held[k]] = object[held[k]])
  BY <1>1, <1>2, <1>3, KeysAreHolders DEF TInv, Alive
<1>10. QED
  BY <1>1, <1>6, <1>7, <1>8, <1>9, Staying

LEMMA Idling ==
  ASSUME TInv, UNCHANGED <<amounts, pending, adding, owing, epoch, owned, object, held, call>>
  PROVE  TInv'
<1>1. Alive'
  BY DEF TInv, Alive, Living
<1>2. Underway'
  BY DEF TInv, Underway, Mixture
<1>3. held' \in [Holders -> Objects \cup {None}]
  BY DEF TInv, Typed
<1>4. QED
  BY <1>1, <1>2, <1>3, Staying

LEMMA Clearing ==
  ASSUME TInv, StartCombat \/ EndCombat \/ InvalidateEpoch, Clear
  PROVE  TInv'
<1>1. call = NoCall /\ owned' = NoEntries /\ UNCHANGED <<object, call>>
  BY DEF StartCombat, EndCombat, InvalidateEpoch, Reset
<1>2. /\ pending' = NoEntry /\ held' = [h \in Holders |-> IF h \in Keys THEN None ELSE held[h]]
      /\ amounts' = [k \in Keys |-> None] /\ owing' = [k \in Keys |-> Nobody] /\ UNCHANGED adding
  BY DEF Clear
<1>3. DOMAIN pending' = {} /\ DOMAIN owned' = {}
  BY <1>1, <1>2 DEF NoEntry, NoEntries
<1>4. Living' = Living
  BY <1>1 DEF Living
<1>5. Typed'
  <2>1. amounts' \in [Keys -> Amounts \cup {None}] /\ owing' \in [Keys -> [Destinations -> Nat]]
    BY <1>2, NobodyIsTyped
  <2>2. held' \in [Holders -> Objects \cup {None}]
    BY <1>2, KeysAreHolders
  <2>3. QED
    BY <1>3, <2>1, <2>2 DEF Typed
<1>6. Alive'
  BY <1>1, <1>2, <1>3, <1>4 DEF TInv, Alive
<1>7. Current' /\ Exacts'
  BY <1>2, KeysAreHolders DEF Current, Exacts
<1>8. adding = None
  BY <1>1 DEF TInv, Underway
<1>9. Underway'
  BY <1>1, <1>2, <1>8 DEF Underway
<1>10. QED
  BY <1>5, <1>6, <1>7, <1>9 DEF TInv

----------------------------------------------------------------------------
\* Between two calls every key holds what its amount is owed to.
LEMMA OwedNow ==
  ASSUME TInv, call = NoCall
  PROVE  /\ adding = None
         /\ \A k \in Keys : amounts[k] # None => Exact(SourceOf(held[k]), amounts[k], owing[k])
BY DEF TInv, Underway, Exacts

LEMMA Rewriting ==
  ASSUME TInv, call = NoCall, UNCHANGED <<epoch, owned, object, call, adding>>, Typed',
         \A h \in Holders : held'[h] # None => held'[h] \in Living,
         \A k \in Keys : held'[k] # None =>
            k \in DOMAIN pending' /\ epoch # None /\ object[held'[k]].handle[1] = epoch,
         \A k \in Keys : amounts'[k] # None => Exact(SourceOf(held'[k]), amounts'[k], owing'[k])
  PROVE  TInv'
<1>1. Living' = Living
  BY DEF Living
<1>2. Alive'
  BY <1>1 DEF TInv, Alive
<1>3. Current'
  BY DEF Current
<1>4. Underway'
  BY OwedNow DEF Underway
<1>5. \A k \in Keys : SourceOf(held[k])' = SourceOf(held'[k])
  BY DEF SourceOf
<1>6. Exacts'
  BY <1>5 DEF Exacts
<1>7. QED
  BY <1>2, <1>3, <1>4, <1>6 DEF TInv

\* What one key is written, and who holds what for it.
LEMMA WritingKey ==
  ASSUME TInv, call = NoCall, UNCHANGED <<epoch, owned, object, call, adding>>,
         NEW key \in Keys, NEW n \in Amounts \cup {None}, NEW owed \in [Destinations -> Nat],
         amounts' = [amounts EXCEPT ![key] = n], owing' = [owing EXCEPT ![key] = owed],
         held' \in [Holders -> Objects \cup {None}],
         \A h \in Holders : held'[h] # None => held'[h] \in Living,
         \A k \in Keys : k # key => held'[k] = held[k],
         DOMAIN pending \ {key} \subseteq DOMAIN pending', DOMAIN pending' \subseteq DOMAIN pending \cup {key},
         key \in DOMAIN pending' => n # None,
         held'[key] # None => key \in DOMAIN pending' /\ epoch # None /\ object[held'[key]].handle[1] = epoch,
         n # None => Exact(SourceOf(held'[key]), n, owed)
  PROVE  TInv'
<1>1. amounts'[key] = n /\ \A k \in Keys : k # key => amounts'[k] = amounts[k]
  BY DEF TInv, Typed
<1>2. owing'[key] = owed /\ \A k \in Keys : k # key => owing'[k] = owing[k]
  BY DEF TInv, Typed
<1>3. Typed'
  <2>1. amounts' \in [Keys -> Amounts \cup {None}] /\ owing' \in [Keys -> [Destinations -> Nat]]
    BY DEF TInv, Typed
  <2>2. DOMAIN pending' \subseteq Keys /\ \A k \in DOMAIN pending' : amounts'[k] # None
    BY <1>1 DEF TInv, Typed
  <2>3. QED
    BY <2>1, <2>2 DEF Typed
<1>4. \A k \in Keys : held'[k] # None =>
         k \in DOMAIN pending' /\ epoch # None /\ object[held'[k]].handle[1] = epoch
  BY DEF TInv, Current
<1>5. \A k \in Keys : amounts'[k] # None => Exact(SourceOf(held'[k]), amounts'[k], owing'[k])
  BY <1>1, <1>2, OwedNow
<1>6. QED
  BY <1>3, <1>4, <1>5, Rewriting

LEMMA UnsavedHoldsNothing ==
  ASSUME TInv, NEW k \in Keys, k \notin DOMAIN pending
  PROVE  held[k] = None
BY DEF TInv, Current

LEMMA Saving ==
  ASSUME TInv, NEW f \in Frames, NEW key \in Keys, NEW n \in Amounts, NEW e, Saves(f, key, n, e)
  PROVE  TInv'
<1>1. /\ call = NoCall /\ epoch # None /\ UNCHANGED <<epoch, owned, object, call, adding>>
      /\ held[f] # None => object[held[f]].handle[1] = epoch
      /\ amounts' = [amounts EXCEPT ![key] = n]
  BY DEF Saves, Writes
<1>2. n \in Int /\ n # None
  BY TemporalConstants
<1>3. \A h \in Holders : held[h] # None => held[h] \in Living
  BY DEF TInv, Alive
<1>4. f \in Holders /\ key \in Holders /\ held[f] \in Objects \cup {None}
  BY KeysAreHolders
<1>5. held \in [Holders -> Objects \cup {None}]
  BY DEF TInv, Typed
<1>6. CASE Fits(key, pending)
  <2>1. /\ pending' = With(pending, key, e) /\ held' = [held EXCEPT ![key] = held[f]]
        /\ owing' = [owing EXCEPT ![key] = Portion(SourceOf(held[f]), n)]
    BY <1>6 DEF Saves
  <2>2. DOMAIN pending' = DOMAIN pending \cup {key}
    BY <2>1 DEF With
  <2>3. /\ held' \in [Holders -> Objects \cup {None}] /\ held'[key] = held[f]
        /\ \A h \in Holders : h # key => held'[h] = held[h]
    BY <1>4, <1>5, <2>1
  <2>4. PICK source : source = SourceOf(held[f]) /\ source = SourceOf(held'[key])
    BY <2>3
  <2>5. Good(source)
    BY <1>4, <2>4, SourceOfIsGood DEF TInv
  <2>6. PICK owed : owed = Portion(source, n)
    OBVIOUS
  <2>7. owed \in [Destinations -> Nat] /\ Exact(source, n, owed)
    BY <1>2, <2>5, <2>6, PortionIsExact
  <2>8. owing' = [owing EXCEPT ![key] = owed]
    BY <2>1, <2>4, <2>6
  <2>9. \A h \in Holders : held'[h] # None => held'[h] \in Living
    BY <1>3, <1>4, <2>3
  <2>10. \A k \in Keys : k # key => held'[k] = held[k]
    BY <2>3, KeysAreHolders
  <2>11. held'[key] # None => key \in DOMAIN pending' /\ epoch # None /\ object[held'[key]].handle[1] = epoch
    BY <1>1, <2>2, <2>3
  <2>12. QED
    BY <1>1, <1>2, <2>2, <2>3, <2>4, <2>7, <2>8, <2>9, <2>10, <2>11, WritingKey
<1>7. CASE ~Fits(key, pending)
  <2>1. UNCHANGED <<pending, held>> /\ owing' = [owing EXCEPT ![key] = Portion(UnknownSource, n)]
    BY <1>7 DEF Saves
  <2>2. key \notin DOMAIN pending
    BY <1>7 DEF Fits
  <2>3. held'[key] = None /\ SourceOf(held'[key]) = UnknownSource
    BY <2>1, <2>2, UnsavedHoldsNothing DEF SourceOf
  <2>4. PICK owed : owed = Portion(UnknownSource, n)
    OBVIOUS
  <2>5. owed \in [Destinations -> Nat] /\ Exact(SourceOf(held'[key]), n, owed)
    BY <2>3, <2>4, UnknownIsOwed
  <2>6. owing' = [owing EXCEPT ![key] = owed]
    BY <2>1, <2>4
  <2>7. \A h \in Holders : held'[h] # None => held'[h] \in Living
    BY <1>3, <2>1
  <2>8. /\ held' \in [Holders -> Objects \cup {None}] /\ \A k \in Keys : held'[k] = held[k]
        /\ DOMAIN pending' = DOMAIN pending
    BY <1>5, <2>1
  <2>9. QED
    BY <1>1, <1>2, <2>2, <2>3, <2>5, <2>6, <2>7, <2>8, WritingKey
<1>8. QED
  BY <1>6, <1>7

LEMMA TakingBack ==
  ASSUME TInv, NEW f \in Frames, NEW key \in Keys, TakeBack(f, key)
  PROVE  TInv'
<1>1. /\ call = NoCall /\ UNCHANGED <<epoch, owned, object, call, adding>>
      /\ amounts' = [amounts EXCEPT ![key] = None] /\ owing' = [owing EXCEPT ![key] = Nobody]
      /\ pending' = Without(pending, {key}) /\ held' = [held EXCEPT ![f] = held[key], ![key] = None]
  BY DEF TakeBack, Writes
<1>2. f \in Holders /\ key \in Holders /\ f # key /\ held[key] \in Objects \cup {None}
  BY KeysAreHolders
<1>3. /\ held' \in [Holders -> Objects \cup {None}] /\ held'[key] = None /\ held'[f] = held[key]
      /\ \A h \in Holders : h # key /\ h # f => held'[h] = held[h]
  BY <1>1, <1>2 DEF TInv, Typed
<1>4. \A h \in Holders : held'[h] # None => held'[h] \in Living
  BY <1>2, <1>3 DEF TInv, Alive
<1>5. \A k \in Keys : k # key => held'[k] = held[k]
  BY <1>3, KeysAreHolders
<1>6. DOMAIN pending' = DOMAIN pending \ {key}
  BY <1>1 DEF Without
<1>7. None \in Amounts \cup {None}
  OBVIOUS
<1>8. QED
  BY <1>1, <1>3, <1>4, <1>5, <1>6, <1>7, NobodyIsTyped, WritingKey

LEMMA Overflowing ==
  ASSUME TInv, NEW f \in Frames, NEW key \in Keys, NEW n \in Amounts, Overflow(f, key, n)
  PROVE  TInv'
<1>1. /\ call = NoCall /\ UNCHANGED <<epoch, owned, object, call, adding>>
      /\ amounts' = [amounts EXCEPT ![key] = n] /\ owing' = [owing EXCEPT ![key] = Portion(UnknownSource, n)]
      /\ pending' = Without(pending, {key}) /\ held' = [held EXCEPT ![key] = None]
  BY DEF Overflow, Writes
<1>2. key \in Holders
  BY KeysAreHolders
<1>3. /\ held' \in [Holders -> Objects \cup {None}] /\ held'[key] = None
      /\ \A h \in Holders : h # key => held'[h] = held[h]
  BY <1>1, <1>2 DEF TInv, Typed
<1>4. \A h \in Holders : held'[h] # None => held'[h] \in Living
  BY <1>3 DEF TInv, Alive
<1>5. \A k \in Keys : k # key => held'[k] = held[k]
  BY <1>3, KeysAreHolders
<1>6. DOMAIN pending' = DOMAIN pending \ {key}
  BY <1>1 DEF Without
<1>7. PICK owed : owed = Portion(UnknownSource, n)
  OBVIOUS
<1>8. owed \in [Destinations -> Nat] /\ Exact(SourceOf(held'[key]), n, owed)
  BY <1>3, <1>7, UnknownIsOwed DEF SourceOf
<1>9. owing' = [owing EXCEPT ![key] = owed]
  BY <1>1, <1>7
<1>10. QED
  BY <1>1, <1>3, <1>4, <1>5, <1>6, <1>8, <1>9, WritingKey

----------------------------------------------------------------------------
LEMMA GivingUp ==
  ASSUME TInv, NEW keys \in SUBSET Keys, GiveUp(keys)
  PROVE  /\ call = NoCall /\ UNCHANGED <<epoch, owned, object, call, adding>>
         /\ held' \in [Holders -> Objects \cup {None}]
         /\ \A h \in Holders : held'[h] # None => held'[h] \in Living
         /\ \A k \in Keys : held'[k] = IF k \in keys THEN None ELSE held[k]
         /\ DOMAIN pending' = DOMAIN pending \ keys
         /\ \A k \in Keys : held'[k] # None =>
               k \in DOMAIN pending' /\ epoch # None /\ object[held'[k]].handle[1] = epoch
<1>1. /\ call = NoCall /\ UNCHANGED <<epoch, owned, object, call, adding>>
      /\ held' = [h \in Holders |-> IF h \in keys THEN None ELSE held[h]]
      /\ pending' = Without(pending, keys)
  BY DEF GiveUp
<1>2. held' \in [Holders -> Objects \cup {None}]
  BY <1>1, KeysAreHolders
<1>3. \A h \in Holders : held'[h] # None => held'[h] \in Living
  BY <1>1 DEF TInv, Alive
<1>4. \A k \in Keys : held'[k] = IF k \in keys THEN None ELSE held[k]
  BY <1>1, KeysAreHolders
<1>5. DOMAIN pending' = DOMAIN pending \ keys
  BY <1>1 DEF Without
<1>6. \A k \in Keys : held'[k] # None =>
         k \in DOMAIN pending' /\ epoch # None /\ object[held'[k]].handle[1] = epoch
  BY <1>4, <1>5 DEF TInv, Current
<1>7. QED
  BY <1>1, <1>2, <1>3, <1>4, <1>5, <1>6

LEMMA Removing == ASSUME TInv, NEW p, RemovePower(p) PROVE TInv'
<1>1. PICK keys \in SUBSET Keys : keys = {k \in Keys : k[1] = p}
  OBVIOUS
<1>2. /\ GiveUp(keys)
      /\ amounts' = [k \in Keys |-> IF k \in keys THEN None ELSE amounts[k]]
      /\ owing' = [k \in Keys |-> IF k \in keys THEN Nobody ELSE owing[k]]
  BY <1>1 DEF RemovePower
<1>3. Typed'
  <2>1. amounts' \in [Keys -> Amounts \cup {None}] /\ owing' \in [Keys -> [Destinations -> Nat]]
    BY <1>2, NobodyIsTyped DEF TInv, Typed
  <2>2. DOMAIN pending' \subseteq Keys /\ \A k \in DOMAIN pending' : amounts'[k] # None
    BY <1>2, GivingUp DEF TInv, Typed
  <2>3. QED
    BY <1>2, <2>1, <2>2, GivingUp DEF Typed
<1>4. call = NoCall
  BY <1>2, GivingUp
<1>5. \A k \in Keys : amounts'[k] # None =>
         k \notin keys /\ amounts'[k] = amounts[k] /\ owing'[k] = owing[k] /\ held'[k] = held[k]
  BY <1>2, GivingUp
<1>6. \A k \in Keys : amounts'[k] # None => Exact(SourceOf(held'[k]), amounts'[k], owing'[k])
  BY <1>4, <1>5, OwedNow
<1>7. QED
  BY <1>2, <1>3, <1>6, GivingUp, Rewriting

LEMMA Abandoning == ASSUME TInv, NEW e, AbandonExecution(e) PROVE TInv'
<1>1. PICK keys : keys = {k \in DOMAIN pending : pending[k] = e}
  OBVIOUS
<1>2. keys \in SUBSET Keys
  BY <1>1 DEF TInv, Typed
<1>3. /\ GiveUp(keys) /\ UNCHANGED amounts
      /\ owing' = [k \in Keys |-> IF k \in keys /\ amounts[k] # None
                                  THEN Portion(UnknownSource, amounts[k]) ELSE owing[k]]
  BY <1>1 DEF AbandonExecution
<1>4. \A k \in Keys : amounts[k] # None =>
         /\ Portion(UnknownSource, amounts[k]) \in [Destinations -> Nat]
         /\ Exact(UnknownSource, amounts[k], Portion(UnknownSource, amounts[k]))
  BY KeysAreHolders, UnknownIsOwed
<1>5. Typed'
  <2>1. \A k \in Keys : owing'[k] \in [Destinations -> Nat]
    BY <1>3, <1>4 DEF TInv, Typed
  <2>2. owing' \in [Keys -> [Destinations -> Nat]]
    BY <1>3, <2>1
  <2>3. DOMAIN pending' \subseteq Keys /\ \A k \in DOMAIN pending' : amounts'[k] # None
    BY <1>2, <1>3, GivingUp DEF TInv, Typed
  <2>4. QED
    BY <1>2, <1>3, <2>2, <2>3, GivingUp DEF TInv, Typed
<1>6. call = NoCall
  BY <1>2, <1>3, GivingUp
<1>7. ASSUME NEW k \in Keys, amounts[k] # None
      PROVE  Exact(SourceOf(held'[k]), amounts[k], owing'[k])
  <2>1. CASE k \in keys
    <3>1. held'[k] = None /\ owing'[k] = Portion(UnknownSource, amounts[k])
      BY <1>2, <1>3, <1>7, <2>1, GivingUp
    <3>2. SourceOf(held'[k]) = UnknownSource
      BY <3>1 DEF SourceOf
    <3>3. QED
      BY <1>4, <1>7, <3>1, <3>2
  <2>2. CASE k \notin keys
    <3>1. held'[k] = held[k] /\ owing'[k] = owing[k]
      BY <1>2, <1>3, <2>2, GivingUp
    <3>2. QED
      BY <1>6, <1>7, <3>1, OwedNow
  <2>3. QED
    BY <2>1, <2>2
<1>8. QED
  BY <1>2, <1>3, <1>5, <1>7, GivingUp, Rewriting

----------------------------------------------------------------------------
LEMMA Accumulating ==
  ASSUME IInv, TInv, NEW f \in Frames, NEW key \in Keys, NEW n \in Amounts, NEW e \in Executions,
         Accumulate(f, key, n, e)
  PROVE  IInv' /\ TInv'
<1>0. PICK kept \in SUBSET Living :
         \E source, handle, after :
            Returns(key, kept, source, handle, after, n, Mixture(key, n, amounts[key], SourceOf(held[f])))
  BY Mixing
<1>1. PICK source, handle, after :
         Returns(key, kept, source, handle, after, n, Mixture(key, n, amounts[key], SourceOf(held[f])))
  BY <1>0
<1>2. Calls(key, kept, source, handle, after) /\ Grown(SweptArena, source, handle, after)
  BY <1>1 DEF Returns
<1>3. IInv'
  BY <1>2, Calling
<1>4. /\ call = NoCall /\ epoch # None /\ Collect /\ UNCHANGED <<epoch, object>>
      /\ call' = [to |-> key, kept |-> kept, source |-> source, handle |-> handle]
  BY <1>2 DEF Calls
<1>5. call'.to = key /\ call'.source = source /\ call'.handle = handle
  BY <1>4
<1>6. /\ amounts[key] # None /\ amounts' = [amounts EXCEPT ![key] = n] /\ pending' = Without(pending, {key})
      /\ held' = [held EXCEPT ![key] = None] /\ UNCHANGED owing
  BY DEF Accumulate
<1>7. PICK second : second = SourceOf(held[f])
  OBVIOUS
<1>8. PICK before \in Amounts : before = amounts[key]
  BY <1>6, KeysAreHolders
<1>9. adding' = [before |-> before, second |-> second, execution |-> e]
  BY <1>7, <1>8 DEF Accumulate
<1>10. Good(second)
  BY <1>7, KeysAreHolders, SourceOfIsGood DEF TInv
<1>11. adding' # None /\ adding'.before = before /\ adding'.second = second
  <2>1. adding' \in [before : Amounts, second : Seq(Shares), execution : Executions]
    BY <1>9, <1>10, GoodIsNotNone
  <2>2. QED
    BY <1>9, <2>1, TemporalConstants
<1>12. call' # NoCall
  BY <1>5, KeysAreHolders DEF NoCall
<1>13. n \in Int /\ n # None /\ before \in Int /\ key \in Holders
  BY KeysAreHolders, TemporalConstants
<1>14. amounts'[key] = n /\ \A k \in Keys : k # key => amounts'[k] = amounts[k]
  BY <1>6 DEF TInv, Typed
<1>15. held' \in [Holders -> Objects \cup {None}] /\ held'[key] = None
       /\ \A h \in Holders : h # key => held'[h] = held[h]
  BY <1>6, <1>13 DEF TInv, Typed
<1>16. DOMAIN pending' = DOMAIN pending \ {key}
  BY <1>6 DEF Without
<1>17. Typed'
  <2>1. amounts' \in [Keys -> Amounts \cup {None}]
    BY <1>6 DEF TInv, Typed
  <2>2. DOMAIN pending' \subseteq Keys /\ \A k \in DOMAIN pending' : amounts'[k] # None
    BY <1>14, <1>16 DEF TInv, Typed
  <2>3. QED
    BY <1>6, <1>15, <2>1, <2>2 DEF TInv, Typed
<1>18. Alive'
  <2>1. \A h \in Holders : held'[h] # None => held'[h] \in Living
    BY <1>15 DEF TInv, Alive
  <2>2. QED
    BY <1>4, <2>1, Owners DEF TInv
<1>19. Current'
  BY <1>4, <1>15, <1>16, KeysAreHolders DEF TInv, Current
<1>20. Underway'
  <2>1. handle # None => Good(source) /\ Exact(source, n, Mixture(key, n, before, second))
    BY <1>1, <1>7, <1>8 DEF Returns
  <2>2. Mixture(key, n, before, second)' = Mixture(key, n, before, second)
    BY <1>6 DEF Mixture
  <2>3. call'.to \in Keys \ DOMAIN pending' /\ amounts'[call'.to] = n
    BY <1>5, <1>14, <1>16
  <2>4. call'.handle # None => Exact(call'.source, n, Mixture(key, n, before, second)')
    BY <1>5, <2>1, <2>2
  <2>5. call'.handle # None => Exact(call.source, amounts[call.to],
            Mixture(call.to, amounts[call.to], adding.before, adding.second))'
    BY <1>5, <1>11, <1>14, <2>4
  <2>6. QED
    BY <1>4, <1>5, <1>10, <1>11, <1>12, <1>13, <2>1, <2>3, <2>5 DEF Underway
<1>21. Exacts'
  <2>1. ASSUME NEW k \in Keys, amounts'[k] # None, k # key
        PROVE  Exact(SourceOf(held[k])', amounts'[k], owing'[k])
    <3>1. SourceOf(held[k])' = SourceOf(held[k])
      BY <1>4, <1>15, <2>1, KeysAreHolders DEF SourceOf
    <3>2. amounts'[k] = amounts[k] /\ owing'[k] = owing[k]
      BY <1>6, <1>14, <2>1
    <3>3. QED
      BY <1>4, <2>1, <3>1, <3>2, OwedNow
  <2>2. QED
    BY <1>5, <1>11, <2>1 DEF Exacts
<1>22. QED
  BY <1>3, <1>17, <1>18, <1>19, <1>20, <1>21 DEF TInv

LEMMA Accumulates ==
  ASSUME IInv, TInv, NEW o \in Objects \cup {None}, Accumulated(o)
  PROVE  TInv'
<1>1. /\ call # NoCall /\ adding # None /\ Owns(o) /\ call' = NoCall /\ adding' = None
      /\ UNCHANGED <<epoch, amounts>>
  BY DEF Accumulated
<1>2. PICK key \in Keys : key = call.to
  BY <1>1 DEF TInv, Underway
<1>3. /\ epoch # None /\ (call.handle # None => Good(call.source)) /\ key \notin DOMAIN pending
      /\ amounts[key] # None /\ adding.before \in Int /\ Good(adding.second)
  BY <1>1, <1>2 DEF TInv, Underway
<1>4. Taken(o)
  BY <1>1, <1>3, Taking DEF TInv
<1>5. PICK n \in Amounts : n = amounts[key]
  BY <1>3, KeysAreHolders
<1>6. n \in Int /\ key \in Holders
  BY KeysAreHolders
<1>7. PICK more \in Int : more = n - Positive(adding.before)
  BY <1>3, <1>6, PositiveIsNat
<1>8. PICK was \in [Destinations -> Nat] : was = IF adding.before > 0 THEN owing[key] ELSE Nobody
  BY NobodyIsTyped DEF TInv, Typed
<1>9. PICK mixed : mixed = Both(was, Portion(adding.second, more))
  OBVIOUS
<1>10. mixed \in [Destinations -> Nat]
  BY <1>3, <1>9, PortionIsExact, BothIsTyped
<1>11. call.handle # None => Exact(call.source, n, mixed)
  <2>1. mixed = Mixture(call.to, amounts[call.to], adding.before, adding.second)
    BY <1>2, <1>5, <1>7, <1>8, <1>9 DEF Mixture
  <2>2. QED
    BY <1>1, <1>2, <1>5, <2>1 DEF TInv, Underway
<1>12. held[key] = None
  BY <1>3, UnsavedHoldsNothing
<1>13. \A h \in Holders : held[h] # None => held[h] \in Living
  BY DEF TInv, Alive
<1>14. PICK owed : owed = owing'[key]
  OBVIOUS
\* Either way the key holds what it is owed to.
<1>15. /\ owing' = [owing EXCEPT ![key] = owed] /\ owed \in [Destinations -> Nat]
       /\ DOMAIN pending \subseteq DOMAIN pending' /\ DOMAIN pending' \subseteq DOMAIN pending \cup {key}
       /\ held' \in [Holders -> Objects \cup {None}] /\ \A h \in Holders : h # key => held'[h] = held[h]
       /\ held'[key] = None => Exact(UnknownSource, n, owed)
       /\ held'[key] # None => /\ held'[key] = o /\ o \in Living' /\ key \in DOMAIN pending'
                               /\ object'[o].handle[1] = epoch /\ Exact(object'[o].source, n, owed)
  <2>1. Portion(UnknownSource, n) \in [Destinations -> Nat] /\ Exact(UnknownSource, n, Portion(UnknownSource, n))
    BY UnknownIsOwed
  <2>2. CASE Fits(key, pending)
    <3>1. /\ pending' = With(pending, key, adding.execution) /\ held' = [held EXCEPT ![key] = o]
          /\ owing' = [owing EXCEPT ![key] = IF o = None THEN Portion(UnknownSource, n) ELSE mixed]
      BY <1>2, <1>5, <1>7, <1>8, <1>9, <2>2 DEF Accumulated
    <3>2. owed = IF o = None THEN Portion(UnknownSource, n) ELSE mixed
      BY <1>14, <3>1 DEF TInv, Typed
    <3>3. DOMAIN pending' = DOMAIN pending \cup {key}
      BY <3>1 DEF With
    <3>4. held' \in [Holders -> Objects \cup {None}] /\ held'[key] = o /\ \A h \in Holders : h # key => held'[h] = held[h]
      BY <1>6, <3>1 DEF TInv, Typed
    <3>5. owed \in [Destinations -> Nat] /\ (o = None => Exact(UnknownSource, n, owed))
      BY <1>10, <2>1, <3>2
    <3>6. o # None => o \in Living' /\ object'[o].handle[1] = epoch /\ Exact(object'[o].source, n, owed)
      BY <1>4, <1>11, <3>2 DEF Taken
    <3>7. owing' = [owing EXCEPT ![key] = owed]
      BY <3>1, <3>2
    <3>8. QED
      BY <3>3, <3>4, <3>5, <3>6, <3>7
  <2>3. CASE ~Fits(key, pending)
    <3>1. UNCHANGED <<pending, held>> /\ owing' = [owing EXCEPT ![key] = Portion(UnknownSource, n)]
      BY <1>2, <1>5, <2>3 DEF Accumulated
    <3>2. owed = Portion(UnknownSource, n)
      BY <1>14, <3>1 DEF TInv, Typed
    <3>3. held' \in [Holders -> Objects \cup {None}]
      BY <3>1 DEF TInv, Typed
    <3>4. owing' = [owing EXCEPT ![key] = owed]
      BY <3>1, <3>2
    <3>5. QED
      BY <1>12, <2>1, <3>1, <3>2, <3>3, <3>4
  <2>4. QED
    BY <2>2, <2>3
<1>16. owing'[key] = owed /\ \A k \in Keys : k # key => owing'[k] = owing[k]
  BY <1>15 DEF TInv, Typed
<1>17. Typed'
  <2>1. owing' \in [Keys -> [Destinations -> Nat]]
    BY <1>15 DEF TInv, Typed
  <2>2. DOMAIN pending' \subseteq Keys /\ \A k \in DOMAIN pending' : amounts[k] # None
    BY <1>3, <1>15 DEF TInv, Typed
  <2>3. QED
    BY <1>1, <1>15, <2>1, <2>2 DEF TInv, Typed
<1>18. \A k \in Keys : k # key => held'[k] = held[k] /\ (held[k] # None => object'[held[k]] = object[held[k]])
  BY <1>4, <1>13, <1>15, KeysAreHolders DEF Taken
<1>19. Alive'
  <2>1. \A h \in Holders : held'[h] # None => held'[h] \in Living'
    BY <1>4, <1>13, <1>15 DEF Taken
  <2>2. QED
    BY <1>4, <2>1 DEF Alive, Taken
<1>20. Current'
  <2>1. ASSUME NEW k \in Keys, held'[k] # None
        PROVE  k \in DOMAIN pending' /\ epoch # None /\ object'[held'[k]].handle[1] = epoch
    <3>1. CASE k = key
      BY <1>3, <1>15, <2>1, <3>1
    <3>2. CASE k # key
      BY <1>15, <1>18, <2>1, <3>2 DEF TInv, Current
    <3>3. QED
      BY <3>1, <3>2
  <2>2. QED
    BY <1>1, <2>1 DEF Current
<1>21. Underway'
  BY <1>1 DEF Underway
<1>22. Exacts'
  <2>1. ASSUME NEW k \in Keys, amounts[k] # None
        PROVE  Exact(SourceOf(held[k])', amounts[k], owing'[k])
    <3>1. CASE k = key
      <4>1. SourceOf(held[k])' = IF held'[k] = None THEN UnknownSource ELSE object'[held'[k]].source
        BY DEF SourceOf
      <4>2. CASE held'[key] = None
        BY <1>5, <1>15, <1>16, <3>1, <4>1, <4>2
      <4>3. CASE held'[key] # None
        BY <1>5, <1>15, <1>16, <3>1, <4>1, <4>3
      <4>4. QED
        BY <4>2, <4>3
    <3>2. CASE k # key
      <4>1. SourceOf(held[k])' = SourceOf(held[k])
        BY <1>18, <3>2 DEF SourceOf
      <4>2. Exact(SourceOf(held[k]), amounts[k], owing[k])
        BY <1>2, <2>1, <3>2 DEF TInv, Exacts
      <4>3. QED
        BY <1>16, <3>2, <4>1, <4>2
    <3>3. QED
      BY <3>1, <3>2
  <2>2. QED
    BY <1>1, <2>1 DEF Exacts
<1>23. QED
  BY <1>17, <1>19, <1>20, <1>21, <1>22 DEF TInv

----------------------------------------------------------------------------
LEMMA TemporalStarts == TemporalInit => IInv /\ TInv
<1>. SUFFICES ASSUME TemporalInit PROVE IInv /\ TInv
  OBVIOUS
<1>1. IInv
  BY Starts DEF TemporalInit
<1>2. /\ amounts = [k \in Keys |-> None] /\ owing = [k \in Keys |-> Nobody] /\ adding = None
      /\ held = [h \in Holders |-> None] /\ call = NoCall
  BY DEF TemporalInit, Init
<1>3. DOMAIN pending = {} /\ DOMAIN owned = {} /\ Living = {}
  BY DEF TemporalInit, Init, NoEntry, NoEntries, Living
<1>4. Typed
  BY <1>2, <1>3, NobodyIsTyped DEF Typed
<1>5. Alive /\ Current
  BY <1>2, <1>3, TemporalConstants DEF Alive, Current
<1>6. Underway /\ Exacts
  BY <1>2 DEF Underway, Exacts
<1>7. QED
  BY <1>1, <1>4, <1>5, <1>6 DEF TInv

LEMMA SourceSteps == ASSUME IInv, TInv, SourceStep PROVE IInv' /\ TInv'
<1>1. UNCHANGED temporal
  BY DEF SourceStep
<1>2. ASSUME NEW f \in Frames, NEW s \in Snapshots, Capture(f, s) PROVE IInv' /\ TInv'
  <2>1. Exports(f, {}, s)
    BY <1>2 DEF Capture
  <2>2. QED
    BY <1>1, <1>2, <2>1, Exporting, Capturing
<1>3. CASE adding = None /\ Captured
  <2>1. PICK o : Owns(o)
    BY <1>3 DEF Captured
  <2>2. call' = NoCall /\ UNCHANGED <<engine, arena, epoch, refused>>
    BY <1>3 DEF Captured, native
  <2>3. QED
    BY <1>1, <1>3, <2>1, <2>2, Owning, Returned
<1>4. ASSUME NEW f \in Frames, Consume(f) PROVE IInv' /\ TInv'
  BY <1>1, <1>4, Consuming, Collecting
<1>5. ASSUME NEW f \in Frames, NEW o \in Objects \cup {None}, Hold(f, o) PROVE IInv' /\ TInv'
  <2>1. IInv'
    BY <1>5, Resting DEF Hold, native
  <2>2. QED
    BY <1>1, <1>5, <2>1, Holding
<1>6. ASSUME NEW lost \in (SUBSET Garbage) \ {{}}, Reclaim(lost) PROVE IInv' /\ TInv'
  <2>1. lost \in SUBSET Garbage
    OBVIOUS
  <2>2. QED
    BY <1>1, <1>6, <2>1, Reclaiming, Losing
<1>7. CASE Poison
  <2>1. UNCHANGED <<amounts, pending, adding, owing, epoch, owned, object, held, call>>
    BY <1>1, <1>7 DEF Poison, managed, temporal
  <2>2. QED
    BY <1>7, <2>1, Poisoning, Idling
<1>8. QED
  BY <1>2, <1>3, <1>4, <1>5, <1>6, <1>7 DEF SourceStep

LEMMA SourcesRest ==
  ASSUME IInv, UNCHANGED <<native, epoch, owned, swept, object, call, refused>>
  PROVE  IInv'
BY Resting DEF native

LEMMA TemporalSteps == IInv /\ TInv /\ [TemporalNext]_vars => IInv' /\ TInv'
<1>. SUFFICES ASSUME IInv, TInv, [TemporalNext]_vars PROVE IInv' /\ TInv'
  OBVIOUS
<1>1. CASE SourceStep
  BY <1>1, SourceSteps
<1>2. CASE (StartCombat \/ EndCombat \/ InvalidateEpoch) /\ Clear
  BY <1>2, Starting, Stopping, Clearing
<1>3. ASSUME NEW f \in Frames, NEW k \in Keys, NEW n \in Amounts, NEW e \in Executions,
             Add(f, k, n, e) \/ SetTurnAmount(f, k, n, e)
      PROVE  IInv' /\ TInv'
  <2>1. Saves(f, k, n, e)
    BY <1>3 DEF Add, SetTurnAmount
  <2>2. IInv'
    BY <2>1, SourcesRest DEF Saves
  <2>3. QED
    BY <2>1, <2>2, Saving
<1>4. ASSUME NEW f \in Frames, NEW k \in Keys, NEW n \in Amounts, NEW e \in Executions,
             Accumulate(f, k, n, e)
      PROVE  IInv' /\ TInv'
  BY <1>4, Accumulating
<1>5. ASSUME NEW f \in Frames, NEW k \in Keys, TakeBack(f, k) PROVE IInv' /\ TInv'
  <2>1. IInv'
    BY <1>5, SourcesRest DEF TakeBack
  <2>2. QED
    BY <1>5, <2>1, TakingBack
<1>6. ASSUME NEW f \in Frames, NEW k \in Keys, NEW n \in Amounts, Overflow(f, k, n) PROVE IInv' /\ TInv'
  <2>1. IInv'
    BY <1>6, SourcesRest DEF Overflow
  <2>2. QED
    BY <1>6, <2>1, Overflowing
<1>7. ASSUME NEW o \in Objects \cup {None}, Accumulated(o) PROVE IInv' /\ TInv'
  <2>1. Owns(o) /\ call' = NoCall /\ UNCHANGED <<engine, arena, epoch, refused>>
    BY <1>7 DEF Accumulated, native
  <2>2. QED
    BY <1>7, <2>1, Owning, Accumulates
<1>8. ASSUME NEW p, RemovePower(p) PROVE IInv' /\ TInv'
  <2>1. IInv'
    BY <1>8, SourcesRest DEF RemovePower, GiveUp
  <2>2. QED
    BY <1>8, <2>1, Removing
<1>9. ASSUME NEW e \in Executions, AbandonExecution(e) PROVE IInv' /\ TInv'
  <2>1. IInv'
    BY <1>9, SourcesRest DEF AbandonExecution, GiveUp
  <2>2. QED
    BY <1>9, <2>1, Abandoning
<1>10. CASE UNCHANGED vars
  <2>1. UNCHANGED <<amounts, pending, adding, owing, epoch, owned, object, held, call>>
    BY <1>10 DEF vars, sourceVars, managed, temporal
  <2>2. UNCHANGED <<native, epoch, owned, swept, object, call, refused>>
    BY <1>10 DEF vars, sourceVars, native, managed
  <2>3. QED
    BY <2>1, <2>2, Idling, SourcesRest
<1>11. QED
  BY <1>1, <1>2, <1>3, <1>4, <1>5, <1>6, <1>7, <1>8, <1>9, <1>10 DEF TemporalNext

LEMMA SavedIsExact == IInv /\ TInv => PendingIsExact
<1>. SUFFICES ASSUME IInv, TInv, engine.on, NEW k \in DOMAIN pending
              PROVE  LET source == Read(HandleOfObject(held[k]))
                     IN  /\ source # None
                         /\ \A to \in Destinations :
                              WeightOf(source, to) * (Positive(amounts[k]) * Unit) = WeightSum(source) * owing[k][to]
  BY DEF PendingIsExact
<1>1. k \in Keys /\ amounts[k] # None
  BY DEF TInv, Typed
<1>2. k \in Holders /\ held[k] \in Objects \cup {None}
  BY <1>1, KeysAreHolders
<1>3. adding # None => call.to # k
  BY DEF TInv, Underway
<1>4. PICK source : source = SourceOf(held[k])
  OBVIOUS
<1>5. Exact(source, amounts[k], owing[k])
  BY <1>1, <1>3, <1>4 DEF TInv, Exacts
<1>6. source # None
  BY <1>2, <1>4, SourceOfIsGood, GoodIsNotNone DEF TInv
<1>7. Read(HandleOfObject(held[k])) = source
  <2>1. CASE held[k] = None
    BY <1>4, <2>1 DEF Read, HandleOfObject, SourceOf
  <2>2. CASE held[k] # None
    <3>1. held[k] \in Living /\ object[held[k]].handle[1] = epoch /\ epoch # None
      BY <1>1, <1>2, <2>2 DEF TInv, Alive, Current
    <3>2. epoch = engine.sequence
      BY <3>1 DEF IInv, Shape
    <3>3. Read(object[held[k]].handle) = object[held[k]].source
      BY <3>1, <3>2 DEF IInv, OwnersResolve, Living
    <3>4. QED
      BY <1>4, <2>2, <3>3 DEF HandleOfObject, SourceOf
  <2>3. QED
    BY <2>1, <2>2
<1>8. QED
  BY <1>5, <1>6, <1>7 DEF Exact

\* What stands in a power's dictionary reads, supplier by supplier, as the very
\* mixture of what was saved for it and of what every gain added, or as Unknown's
\* when a part of it was lost, whatever the collector reclaimed between the
\* steps of an accumulation (TemporalPowerCapture.cs, source_accumulate).
THEOREM SavedSourcesAreExact == TemporalSpec => []PendingIsExact
<1>. QED BY TemporalStarts, TemporalSteps, SavedIsExact, PTL DEF TemporalSpec

\* The owners resolve, and every handle is released once, in the composition too.
THEOREM TemporalOwnersResolve == TemporalSpec => [](OwnersResolve /\ ReleasedOnce)
<1>1. IInv => OwnersResolve /\ ReleasedOnce
  BY DEF IInv
<1>. QED BY <1>1, TemporalStarts, TemporalSteps, PTL DEF TemporalSpec
=============================================================================
