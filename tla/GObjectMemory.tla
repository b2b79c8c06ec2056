--------------------------- MODULE GObjectMemory ---------------------------
(***************************************************************************)
(* The GObject helpers of include/lomiri/util: GObjectMemory.h (smart      *)
(* pointers, assigners, signal connections) and the source manager of      *)
(* GlibMemory.h; the assigner of GlibMemory.h and the connection of        *)
(* GioMemory.h are the same but for the function that frees or             *)
(* disconnects.                                                            *)
(*                                                                         *)
(* A shared_ptr is a control block with one reference to its object, which *)
(* the block gives back when its last holder goes.  A connection is a      *)
(* ResourcePtr whose resource is a handler id and whose deleter holds a    *)
(* shared_ptr to the object, and a source manager one whose resource is a  *)
(* tag and whose deleter holds nothing.  All of it is one thread's.        *)
(***************************************************************************)
EXTENDS Naturals, FiniteSets, Functions

CONSTANTS
  Object,        \* GObject instances: the memory of one that is gone is used again
  Block,         \* control blocks of shared_ptr
  Slot,          \* GObjectSPtr variables of the program
  Connection,    \* GObjectSignalConnection and GSourceManager variables
  MaxId,         \* bound: handler ids and tags that GLib gives out
  MainContext,   \* what sources are attached to
  Over,          \* and a source that has ended by itself
  None           \* a null pointer

ASSUME ConnectionAssumption ==
  /\ MaxId \in Nat /\ MainContext # Over
  /\ {None, MainContext, Over} \cap (Object \cup Block) = {}
  /\ IsFiniteSet(Block) /\ IsFiniteSet(Slot)

VARIABLES
  refs,          \* the reference count that GObject keeps
  raw,           \* objects that the program owns a plain reference to
  floating,      \* those of them whose reference is floating
  block,         \* the object of each control block
  slot,          \* the control block of each GObjectSPtr
  assigner,      \* ptr_ of the assigner of a GObjectSPtr, or {} when it has none
  conn,          \* initialized_, resource_ and delete_.obj_ of each connection
  handlers,      \* the handlers and sources that there are, and their objects
  ids,           \* ids and tags that the program has, and no connection
  lastId

vars == <<refs, raw, floating, block, slot, assigner, conn, handlers, ids, lastId>>
outside == <<raw, floating, assigner, lastId>>

Id == 1 .. MaxId
Unconnected == [initialized |-> FALSE, handle |-> 0, obj |-> None]

Init ==
  /\ refs = [o \in Object |-> 0]
  /\ raw = {} /\ floating = {}
  /\ block = [b \in Block |-> None]
  /\ slot = [s \in Slot |-> None]
  /\ assigner = [s \in Slot |-> {}]
  /\ conn = [c \in Connection |-> Unconnected]
  /\ handlers = [i \in {} |-> None]
  /\ ids = {} /\ lastId = 0

-----------------------------------------------------------------------------
ObjectOf(b) == IF b = None THEN None ELSE block[b]
Reached == raw \cup ({ObjectOf(slot[s]) : s \in Slot} \ {None})
Free == {b \in Block : block[b] = None}

\* GObjectDeleter: a block without holders unrefs its object, and an object
\* without references is finalized, together with its handlers, whose ids are
\* of no use to the program any more.
Settle(counts, blocks, slots, conns, connected, given) ==
  LET held == {slots[s] : s \in Slot} \cup {conns[c].obj : c \in Connection}
      dead == {b \in Block : blocks[b] # None /\ b \notin held}
      left == [o \in Object |-> counts[o] - Cardinality({b \in dead : blocks[b] = o})]
  IN  /\ slot' = slots /\ conn' = conns
      /\ block' = [b \in Block |-> IF b \in dead THEN None ELSE blocks[b]]
      /\ refs' = left
      /\ handlers' = Restrict(connected,
                       {i \in DOMAIN connected : connected[i] \in Object => left[connected[i]] > 0})
      /\ ids' = given \cap DOMAIN handlers'

SetSlot(s, b) == Settle(refs, block, [slot EXCEPT ![s] = b], conn, handlers, ids)

\* A constructor of the library: floating for a GInitiallyUnowned
New(o) ==
  /\ refs[o] = 0
  /\ refs' = [refs EXCEPT ![o] = 1]
  /\ raw' = raw \cup {o}
  /\ floating' \in {floating, floating \cup {o}}
  /\ UNCHANGED <<block, slot, assigner, conn, handlers, ids, lastId>>

\* g_object_ref_sink(), also by make_gobject()
Sink(o) ==
  /\ o \in floating
  /\ floating' = floating \ {o}
  /\ UNCHANGED <<refs, raw, block, slot, assigner, conn, handlers, ids, lastId>>

Ref(o) ==
  /\ o \in Reached \ raw
  /\ refs' = [refs EXCEPT ![o] = @ + 1]
  /\ raw' = raw \cup {o}
  /\ UNCHANGED <<floating, block, slot, assigner, conn, handlers, ids, lastId>>

Unref(o) ==
  /\ o \in raw
  /\ raw' = raw \ {o} /\ floating' = floating \ {o}
  /\ Settle([refs EXCEPT ![o] = @ - 1], block, slot, conn, handlers, ids)
  /\ UNCHANGED <<assigner, lastId>>

\* Mutant: floating references are not refused.
ShareUnchecked(s, o, b) ==
  /\ o \in raw /\ b \in Free
  /\ raw' = raw \ {o}
  /\ Settle(refs, [block EXCEPT ![b] = o], [slot EXCEPT ![s] = b], conn, handlers, ids)
  /\ UNCHANGED <<floating, assigner, lastId>>

\* s = share_gobject(o), or unique_gobject(), takes the program's reference,
\* and throws when it is a floating one.
Share(s, o, b) ==
  /\ o \in raw \ floating /\ b \in Free
  /\ raw' = raw \ {o}
  /\ Settle(refs, [block EXCEPT ![b] = o], [slot EXCEPT ![s] = b], conn, handlers, ids)
  /\ UNCHANGED <<floating, assigner, lastId>>

Copy(s, q) == slot[s] # slot[q] /\ SetSlot(s, slot[q]) /\ UNCHANGED outside
Reset(s)   == slot[s] # None /\ SetSlot(s, None) /\ UNCHANGED outside

-----------------------------------------------------------------------------
(* assign_gobject(s), the argument of a function that returns an object.   *)

\* The bound: a function has one such argument.
Assign(s) ==
  /\ \A q \in Slot : assigner[q] = {}
  /\ assigner' = [assigner EXCEPT ![s] = {None}]
  /\ UNCHANGED <<refs, raw, floating, block, slot, conn, handlers, ids, lastId>>

\* The function stores a reference of the caller's own, to a new object or
\* to one that others hold.
WriteOut(s, o) ==
  /\ assigner[s] = {None}
  /\ assigner' = [assigner EXCEPT ![s] = {o}]
  /\ refs' = [refs EXCEPT ![o] = @ + 1]
  /\ UNCHANGED <<raw, floating, block, slot, conn, handlers, ids, lastId>>

\* Mutant: other.ptr_ is not cleared, and other owns the object as well.
MoveAssignerCopies(s) ==
  \E b \in Free, o \in assigner[s] :
    /\ Settle(refs, [block EXCEPT ![b] = o], [slot EXCEPT ![s] = b], conn, handlers, ids)
    /\ UNCHANGED outside

\* An assigner is returned by value and the one it was moved from destroyed,
\* which assigns a null pointer.
MoveAssigner(s) ==
  /\ assigner[s] # {}
  /\ SetSlot(s, None)
  /\ UNCHANGED outside

\* ~GObjectAssigner() assigns what the function has stored, if anything.
CloseAssigner(s) ==
  /\ \/ assigner[s] = {None} /\ SetSlot(s, None)
     \/ \E b \in Free, o \in assigner[s] \ {None} :
          Settle(refs, [block EXCEPT ![b] = o], [slot EXCEPT ![s] = b], conn, handlers, ids)
  /\ assigner' = [assigner EXCEPT ![s] = {}]
  /\ UNCHANGED <<raw, floating, lastId>>

-----------------------------------------------------------------------------
(* Connections.  What is left in resource_ without a resource is not read, *)
(* and is 0 here.                                                          *)

\* Something gets the next id,
Attach(o) ==
  /\ lastId < MaxId
  /\ lastId' = lastId + 1
  /\ handlers' = [i \in DOMAIN handlers \cup {lastId'} |-> IF i = lastId' THEN o ELSE handlers[i]]
  /\ ids' = ids \cup {lastId'}
  /\ UNCHANGED <<refs, raw, floating, block, slot, assigner, conn>>

\* a handler from g_signal_connect(), which gives 0 when there is no such
\* signal, and a source from g_timeout_add() or g_idle_add().
Connect(o) == o \in Reached /\ Attach(o)
AddSource  == Attach(MainContext)

\* The callback of the source returns FALSE, and whoever has the tag is not told.
SourceEnds(i) ==
  /\ i \in DOMAIN handlers /\ handlers[i] = MainContext
  /\ handlers' = [handlers EXCEPT ![i] = Over]
  /\ UNCHANGED <<refs, raw, floating, block, slot, assigner, conn, ids, lastId>>

Disconnect(i) ==
  /\ i \in ids
  /\ ids' = ids \ {i}
  /\ handlers' = Restrict(handlers, DOMAIN handlers \ {i})
  /\ UNCHANGED <<refs, raw, floating, block, slot, assigner, conn, lastId>>

\* Which of the two kinds a variable is; Unconnected is either.
IsSignal(x) == x.obj # None
IsSource(x) == x.obj = None /\ x.initialized
Alike(x, y) == ~(IsSignal(x) /\ IsSource(y)) /\ ~(IsSource(x) /\ IsSignal(y))

\* GObjectSignalUnsubscriber asks GObject for a handler of its obj_,
SignalGone(x) ==
  IF x.handle \in DOMAIN handlers /\ handlers[x.handle] = ObjectOf(x.obj) THEN {x.handle} ELSE {}

\* and GSourceUnsubscriber GLib for a source, which complains of one that is over.
SourceGone(x) ==
  IF x.handle \in DOMAIN handlers /\ handlers[x.handle] \in {MainContext, Over}
  THEN {x.handle} ELSE {}

\* The deleter is called with the resource, if there is one.
Unsubscribed(x) ==
  Restrict(handlers, DOMAIN handlers \
    (IF ~x.initialized THEN {} ELSE IF IsSignal(x) THEN SignalGone(x) ELSE SourceGone(x)))

Emptied(x) == [x EXCEPT !.initialized = FALSE, !.handle = 0]

SetConn(conns, connected, given) ==
  Settle(refs, block, slot, conns, connected, given) /\ UNCHANGED outside

\* May the program hand i, a handler of what s points to, to a connection?
Manageable(s, i) ==
  /\ slot[s] # None
  /\ i # 0 => i \in ids \cap DOMAIN handlers /\ handlers[i] = ObjectOf(slot[s])

Managing(s, i) == [initialized |-> TRUE, handle |-> i, obj |-> slot[s]]

\* Mutants: the connection does not share the object; the new deleter is
\* installed before the old handler is disconnected.
ManageUnshared(c, s, i) ==
  /\ Manageable(s, i)
  /\ SetConn([conn EXCEPT ![c] = [Managing(s, i) EXCEPT !.obj = None]],
             Unsubscribed(conn[c]), ids \ {i})

ManageDeleterFirst(c, s, i) ==
  /\ Manageable(s, i)
  /\ SetConn([conn EXCEPT ![c] = Managing(s, i)],
             Unsubscribed([conn[c] EXCEPT !.obj = slot[s]]), ids \ {i})

\* c = gobject_signal_connection(i, s): operator= disconnects the handler it
\* has with the object it has, and then takes id and object.
Manage(c, s, i) ==
  /\ Manageable(s, i) /\ ~IsSource(conn[c])
  /\ SetConn([conn EXCEPT ![c] = Managing(s, i)], Unsubscribed(conn[c]), ids \ {i})

\* c = g_source_manager(i), where the source may be over.
ManageSource(c, i) ==
  /\ i # 0 => i \in ids \cap DOMAIN handlers /\ handlers[i] \in {MainContext, Over}
  /\ ~IsSignal(conn[c])
  /\ SetConn([conn EXCEPT ![c] = [Unconnected EXCEPT !.initialized = TRUE, !.handle = i]],
             Unsubscribed(conn[c]), ids \ {i})

\* c = std::move(d): d keeps the object but not the handler.  Moving to
\* itself disconnects.
Move(c, d) ==
  /\ conn[c] # Unconnected \/ conn[d] # Unconnected
  /\ Alike(conn[c], conn[d])
  /\ SetConn(IF c = d THEN [conn EXCEPT ![c] = Emptied(@)]
             ELSE [conn EXCEPT ![c] = conn[d], ![d] = Emptied(@)],
             Unsubscribed(conn[c]), ids)

Swap(c, d) ==
  /\ conn[c] # conn[d] /\ Alike(conn[c], conn[d])
  /\ SetConn([conn EXCEPT ![c] = conn[d], ![d] = conn[c]], handlers, ids)

\* dealloc(): the handler goes, the object stays.
Dealloc(c) ==
  /\ conn[c].initialized
  /\ SetConn([conn EXCEPT ![c] = Emptied(@)], Unsubscribed(conn[c]), ids)

Release(c) ==
  /\ conn[c].initialized
  /\ SetConn([conn EXCEPT ![c] = Emptied(@)], handlers, ids \cup ({conn[c].handle} \ {0}))

\* The end of its scope, and a new connection in its place
Destroy(c) ==
  /\ conn[c] # Unconnected
  /\ SetConn([conn EXCEPT ![c] = Unconnected], Unsubscribed(conn[c]), ids)

-----------------------------------------------------------------------------
Next ==
  \/ \E o \in Object : New(o) \/ Sink(o) \/ Ref(o) \/ Unref(o) \/ Connect(o)
  \/ \E s \in Slot :
       \/ Reset(s) \/ Assign(s) \/ MoveAssigner(s) \/ CloseAssigner(s)
       \/ \E q \in Slot : Copy(s, q)
       \/ \E o \in Object : WriteOut(s, o) \/ \E b \in Block : Share(s, o, b)
  \/ AddSource
  \/ \E i \in Id : Disconnect(i) \/ SourceEnds(i)
  \/ \E c \in Connection :
       \/ Dealloc(c) \/ Release(c) \/ Destroy(c)
       \/ \E i \in Id \cup {0} : ManageSource(c, i) \/ \E s \in Slot : Manage(c, s, i)
       \/ \E d \in Connection : Move(c, d) \/ Swap(c, d)

Spec == Init /\ [][Next]_vars

-----------------------------------------------------------------------------
TypeOK ==
  /\ refs \in [Object -> Nat]
  /\ raw \subseteq Object /\ floating \subseteq raw
  /\ block \in [Block -> Object \cup {None}]
  /\ slot \in [Slot -> Block \cup {None}]
  /\ \A s \in Slot : assigner[s] \in {{x} : x \in Object \cup {None}} \cup {{}}
  /\ conn \in [Connection -> [initialized : BOOLEAN, handle : Id \cup {0}, obj : Block \cup {None}]]
  /\ DOMAIN handlers \subseteq Id
  /\ \A i \in DOMAIN handlers : handlers[i] \in Object \cup {MainContext, Over}
  /\ ids \subseteq Id /\ lastId \in 0 .. MaxId

\* Each object has as many references as there are owners of one: the
\* program, control blocks, and assigners between the call of a function and
\* the assignment.  Neither assigners nor connections leak one or give one
\* back twice.
ReferencesAreOwned ==
  \A o \in Object :
    refs[o] = Cardinality({o} \cap raw) + Cardinality({b \in Block : block[b] = o})
                + Cardinality({s \in Slot : o \in assigner[s]})

\* A handler that a connection is going to disconnect is connected to the
\* object it will be disconnected from: the object cannot be finalized before
\* the connection, whoever else drops it.  A tag that a manager is going to
\* remove is that of its own source, running or over, and not one that
\* another manager has removed already.
HandlerIsConnected ==
  \A c \in Connection : conn[c].handle # 0 =>
    /\ conn[c].handle \in DOMAIN handlers
    /\ handlers[conn[c].handle] \in
         IF IsSignal(conn[c]) THEN {ObjectOf(conn[c].obj)} ELSE {MainContext, Over}

\* A connected handler or a source is the program's, or is going to be
\* disconnected by exactly one connection, after any moves, swaps and
\* assignments over others.
OneDisconnects ==
  \A i \in DOMAIN handlers :
    Cardinality({c \in Connection : conn[c].handle = i}) = IF i \in ids THEN 0 ELSE 1
=============================================================================
