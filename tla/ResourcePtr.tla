---------------------------- MODULE ResourcePtr ----------------------------
(***************************************************************************)
(* lomiri::util::ResourcePtr<R, D>, include/lomiri/util/ResourcePtr.h.     *)
(*                                                                         *)
(* Threads call the methods of a set of ResourcePtr objects.  A call is    *)
(* cut where another thread can get in between: waiting for the mutex,     *)
(* having read the fields under it, running the deleter (which happens     *)
(* with the mutex held), and, in the two moves, between the statements     *)
(* that touch the source object, which they never lock.                    *)
(*                                                                         *)
(* The resource type is an opaque handle, as file descriptors and X        *)
(* display handles are: copying one does not copy the resource, and a      *)
(* std::move of one leaves its value in place.                             *)
(***************************************************************************)
EXTENDS Naturals, FiniteSets

CONSTANTS
  Thread,         \* the threads of the program
  Ptr,            \* storage in which ResourcePtr objects live and die
  Resource,       \* handles of allocated resources
  Deleter,        \* deleters
  Nobody,         \* "owner" of a free mutex
  Nothing         \* no handle, no object, no deleter; an uninitialized resource_

ASSUME ConstantsAssumption ==
  /\ Nobody \notin Thread
  /\ Nothing \notin Resource \cup Deleter \cup Ptr
  /\ {"caller", "doomed", "deleted", "lost"} \cap Ptr = {}

VARIABLES
  alive,          \* the objects whose lifetime has begun and not ended
  resource,       \* resource_, one per object
  initialized,    \* initialized_
  delete,         \* delete_
  mutex,          \* m_: the thread that owns it, or Nobody
  pc,             \* where each thread is in its call
  call,           \* the method it runs
  this, other,    \* and the objects it runs it on
  arg,            \* the handle it carries: the argument, then the one to delete
  hasOld,         \* what it has read of initialized_
  oldResource,    \* and resource_ under the lock
  caller,         \* handles that client code owns
  calls,          \* how often a deleter has been called for each handle
  bound           \* history: the deleter each handle was installed with, until it is deleted

fields == <<resource, initialized, delete>>
params == <<call, this, other>>
seen   == <<hasOld, oldResource>>
locals == <<pc, params, arg, seen>>
ghosts == <<caller, calls, bound>>
vars   == <<alive, fields, mutex, locals, ghosts>>

OneLock == {"get", "reset", "release", "dealloc", "destroy", "assign"}
TwoLock == {"swap", "compare"}
Method  == OneLock \cup TwoLock \cup {"construct"}
Handle  == Resource \cup {Nothing}

-----------------------------------------------------------------------------
(* What a call may assume of the program that makes it.                    *)

\* Objects that the call t is in uses, and the two of them nobody else may
\* use meanwhile: one whose lifetime begins or ends, and, as the comments
\* "r is a temporary" have it, the source of a move.
Uses(t)    == {this[t], other[t]}
Private(t) == (IF call[t] \in {"construct", "destroy"} THEN {this[t]} ELSE {})
              \cup (IF call[t] \in {"construct", "assign"} THEN {other[t]} ELSE {})

Reachable(t, p) == \A u \in Thread \ {t} : p \notin Private(u)
Untouched(t, p) == \A u \in Thread \ {t} : p \notin Uses(u)

Needs(t) == IF call[t] \in TwoLock THEN {this[t], other[t]} ELSE {this[t]}
Holds(t, p) == mutex[p] = t

Read(t, p) ==
  /\ hasOld' = [hasOld EXCEPT ![t] = initialized[p]]
  /\ oldResource' = [oldResource EXCEPT ![t] = resource[p]]
Forget(t) ==
  /\ call' = [call EXCEPT ![t] = "none"]
  /\ this' = [this EXCEPT ![t] = Nothing]
  /\ other' = [other EXCEPT ![t] = Nothing]
  /\ hasOld' = [hasOld EXCEPT ![t] = FALSE]
  /\ oldResource' = [oldResource EXCEPT ![t] = Nothing]

\* Return or throw: the lock_guard releases every mutex of the call, and a
\* constructor or destructor begins or ends the life of its object.
Leave(t) ==
  /\ pc' = [pc EXCEPT ![t] = "idle"]
  /\ arg' = [arg EXCEPT ![t] = Nothing]
  /\ Forget(t)
  /\ mutex' = [p \in Ptr |-> IF Holds(t, p) THEN Nobody ELSE mutex[p]]
  /\ alive' = CASE call[t] = "construct" -> alive \cup {this[t]}
                [] call[t] = "destroy"   -> alive \ {this[t]}
                [] OTHER                 -> alive

Goto(t, stage) ==
  /\ pc' = [pc EXCEPT ![t] = stage]
  /\ UNCHANGED <<alive, mutex, params>>

-----------------------------------------------------------------------------
Init ==
  /\ alive = {}
  /\ resource = [p \in Ptr |-> Nothing]
  /\ initialized = [p \in Ptr |-> FALSE]
  /\ delete \in {[p \in Ptr |-> d] : d \in Deleter}
  /\ mutex = [p \in Ptr |-> Nobody]
  /\ pc = [t \in Thread |-> "idle"]
  /\ call = [t \in Thread |-> "none"]
  /\ this = [t \in Thread |-> Nothing]
  /\ other = [t \in Thread |-> Nothing]
  /\ arg = [t \in Thread |-> Nothing]
  /\ hasOld = [t \in Thread |-> FALSE]
  /\ oldResource = [t \in Thread |-> Nothing]
  /\ caller = Resource
  /\ calls = [r \in Resource |-> 0]
  /\ bound = [r \in Resource |-> Nothing]

\* Mutant: the deleter stays null, which a static_assert keeps out.
ConstructWithoutDeleter(t, p, d) ==
  /\ pc[t] = "idle" /\ p \notin alive /\ Untouched(t, p)
  /\ alive' = alive \cup {p}
  /\ delete' = [delete EXCEPT ![p] = Nothing]
  /\ UNCHANGED <<resource, initialized, mutex, locals, ghosts>>

(* Constructors that take no other ResourcePtr.                            *)

\* ResourcePtr(), ResourcePtr(D)
ConstructEmpty(t, p, d) ==
  /\ pc[t] = "idle" /\ p \notin alive /\ Untouched(t, p)
  /\ alive' = alive \cup {p}
  /\ resource' = [resource EXCEPT ![p] = Nothing]
  /\ initialized' = [initialized EXCEPT ![p] = FALSE]
  /\ delete' = [delete EXCEPT ![p] = d]
  /\ UNCHANGED <<mutex, locals, ghosts>>

\* ResourcePtr(R, D)
ConstructHolding(t, p, r, d) ==
  /\ pc[t] = "idle" /\ p \notin alive /\ Untouched(t, p)
  /\ r \in caller
  /\ alive' = alive \cup {p}
  /\ resource' = [resource EXCEPT ![p] = r]
  /\ initialized' = [initialized EXCEPT ![p] = TRUE]
  /\ delete' = [delete EXCEPT ![p] = d]
  /\ caller' = caller \ {r}
  /\ bound' = [bound EXCEPT ![r] = d]
  /\ UNCHANGED <<mutex, locals, calls>>

(* Calls.                                                                  *)

Begin(t, method, p, q, r, stage) ==
  /\ pc[t] = "idle"
  /\ pc' = [pc EXCEPT ![t] = stage]
  /\ call' = [call EXCEPT ![t] = method]
  /\ this' = [this EXCEPT ![t] = p]
  /\ other' = [other EXCEPT ![t] = q]
  /\ arg' = [arg EXCEPT ![t] = r]
  /\ caller' = caller \ {r}
  /\ UNCHANGED <<alive, fields, mutex, seen, calls, bound>>

\* get(), has_resource(), operator bool, get_deleter(), release(), dealloc()
CallPlain(t, method, p) ==
  /\ method \in {"get", "release", "dealloc"}
  /\ p \in alive /\ Reachable(t, p)
  /\ Begin(t, method, p, p, Nothing, "lock")

\* reset(r)
CallReset(t, p, r) ==
  /\ p \in alive /\ Reachable(t, p)
  /\ r \in caller
  /\ Begin(t, "reset", p, p, r, "lock")

\* ~ResourcePtr()
CallDestroy(t, p) ==
  /\ p \in alive /\ Untouched(t, p)
  /\ Begin(t, "destroy", p, p, Nothing, "lock")

\* swap(other) and the comparisons; they return at once when other is *this.
CallPair(t, method, p, q) ==
  /\ method \in TwoLock
  /\ p # q /\ {p, q} \subseteq alive
  /\ Reachable(t, p) /\ Reachable(t, q)
  /\ Begin(t, method, p, q, Nothing, "lock")

\* May t move from q?
Movable(t, q) == q \in alive /\ Untouched(t, q)

\* operator=(ResourcePtr&&), self-assignment included
CallAssign(t, p, q) ==
  /\ p \in alive /\ Reachable(t, p) /\ Movable(t, q)
  /\ Begin(t, "assign", p, q, Nothing, "lock")

\* ResourcePtr(ResourcePtr&&)
CallMoveConstruct(t, p, q) ==
  /\ p \notin alive /\ Untouched(t, p) /\ Movable(t, q)
  /\ Begin(t, "construct", p, q, Nothing, "take")

-----------------------------------------------------------------------------
(* Locking.  lock_guard blocks on m_.  std::lock takes one of its two      *)
(* mutexes, tries the other, and starts again when that one is taken.      *)

\* Mutant: methods on one object have no AutoLock.
LockTwoOnly(t, p) ==
  /\ pc[t] = "lock" /\ p \in Needs(t)
  /\ IF call[t] \in TwoLock
     THEN /\ mutex[p] = Nobody /\ mutex' = [mutex EXCEPT ![p] = t]
          /\ pc' = [pc EXCEPT ![t] = "second"] /\ UNCHANGED seen
     ELSE UNCHANGED mutex /\ pc' = [pc EXCEPT ![t] = "locked"] /\ Read(t, p)
  /\ UNCHANGED <<alive, fields, params, arg, ghosts>>

Lock(t, p) ==
  /\ pc[t] = "lock"
  /\ p \in Needs(t) /\ mutex[p] = Nobody
  /\ mutex' = [mutex EXCEPT ![p] = t]
  /\ IF call[t] \in TwoLock
     THEN pc' = [pc EXCEPT ![t] = "second"] /\ UNCHANGED seen
     ELSE pc' = [pc EXCEPT ![t] = "locked"] /\ Read(t, p)
  /\ UNCHANGED <<alive, fields, params, arg, ghosts>>

TryLock(t, p) ==
  /\ pc[t] = "second"
  /\ p \in Needs(t) /\ mutex[p] = Nobody
  /\ mutex' = [mutex EXCEPT ![p] = t]
  /\ pc' = [pc EXCEPT ![t] = "locked"]
  /\ Read(t, this[t])
  /\ UNCHANGED <<alive, fields, params, arg, ghosts>>

\* Mutant: the first mutex is kept while waiting for the second.
BackOffHolding(t, p) ==
  /\ pc[t] = "second"
  /\ p \in Needs(t) /\ mutex[p] \notin {t, Nobody}
  /\ pc' = [pc EXCEPT ![t] = "lock"]
  /\ UNCHANGED <<alive, fields, mutex, params, arg, seen, ghosts>>

BackOff(t, p) ==
  /\ pc[t] = "second"
  /\ p \in Needs(t) /\ mutex[p] \notin {t, Nobody}
  /\ mutex' = [q \in Ptr |-> IF Holds(t, q) THEN Nobody ELSE mutex[q]]
  /\ pc' = [pc EXCEPT ![t] = "lock"]
  /\ UNCHANGED <<alive, fields, params, arg, seen, ghosts>>

-----------------------------------------------------------------------------
(* Bodies, run with the mutex held.                                        *)

InBody(t, methods) == pc[t] = "locked" /\ call[t] \in methods

\* get() and the other readers copy a field out, or throw
GetBody(t) == InBody(t, {"get"}) /\ Leave(t) /\ UNCHANGED <<fields, ghosts>>

\* Mutant: reset() does not delete the old resource.
ResetBodyKeepsOld(t) ==
  LET p == this[t] IN
  /\ InBody(t, {"reset"})
  /\ resource' = [resource EXCEPT ![p] = arg[t]]
  /\ initialized' = [initialized EXCEPT ![p] = TRUE]
  /\ bound' = [bound EXCEPT ![arg[t]] = delete[p]]
  /\ Leave(t)
  /\ UNCHANGED <<delete, caller, calls>>

\* reset() installs the new resource first and deletes the old one then
ResetBody(t) ==
  LET p == this[t]  r == arg[t] IN
  /\ InBody(t, {"reset"})
  /\ resource' = [resource EXCEPT ![p] = r]
  /\ initialized' = [initialized EXCEPT ![p] = TRUE]
  /\ bound' = [bound EXCEPT ![r] = delete[p]]
  /\ IF hasOld[t]
     THEN Goto(t, "delete") /\ arg' = [arg EXCEPT ![t] = oldResource[t]] /\ UNCHANGED seen
     ELSE Leave(t)
  /\ UNCHANGED <<delete, caller, calls>>

\* release() hands the resource to the caller, or throws logic_error
ReleaseBody(t) ==
  LET p == this[t] IN
  /\ InBody(t, {"release"})
  /\ IF hasOld[t]
     THEN /\ initialized' = [initialized EXCEPT ![p] = FALSE]
          /\ caller' = caller \cup {oldResource[t]}
          /\ bound' = [bound EXCEPT ![oldResource[t]] = Nothing]
     ELSE UNCHANGED <<initialized, caller, bound>>
  /\ Leave(t)
  /\ UNCHANGED <<resource, delete, calls>>

\* Mutant: the flag stays set while the deleter runs, and when it throws.
DropBodyKeepsFlag(t) ==
  /\ InBody(t, {"dealloc", "destroy", "assign"})
  /\ hasOld[t]
  /\ arg' = [arg EXCEPT ![t] = oldResource[t]]
  /\ Goto(t, "delete")
  /\ UNCHANGED <<fields, seen, ghosts>>

\* dealloc(), also from the destructor, and the first half of operator=
DropBody(t) ==
  /\ InBody(t, {"dealloc", "destroy", "assign"})
  /\ hasOld[t]
  /\ initialized' = [initialized EXCEPT ![this[t]] = FALSE]
  /\ arg' = [arg EXCEPT ![t] = oldResource[t]]
  /\ Goto(t, "delete")
  /\ UNCHANGED <<resource, delete, seen, ghosts>>

\* the early return of dealloc() when there is no resource
DropNothing(t) ==
  /\ InBody(t, {"dealloc", "destroy"}) /\ ~hasOld[t]
  /\ Leave(t)
  /\ UNCHANGED <<fields, ghosts>>

\* Mutant: operator= overwrites the resource it holds.
AssignOver(t) ==
  /\ InBody(t, {"assign"})
  /\ Goto(t, "take")
  /\ UNCHANGED <<fields, arg, seen, ghosts>>

AssignEmpty(t) ==
  /\ InBody(t, {"assign"}) /\ ~hasOld[t]
  /\ Goto(t, "take")
  /\ UNCHANGED <<fields, arg, seen, ghosts>>

\* delete_(resource_) returns: operator= goes on, the others are done.
RunDeleter(t) ==
  /\ pc[t] = "delete"
  /\ calls' = [calls EXCEPT ![arg[t]] = @ + 1]
  /\ bound' = [bound EXCEPT ![arg[t]] = Nothing]
  /\ IF call[t] = "assign"
     THEN Goto(t, "take") /\ arg' = [arg EXCEPT ![t] = Nothing] /\ UNCHANGED seen
     ELSE Leave(t)
  /\ UNCHANGED <<fields, caller>>

\* Mutant: the mutex is unlocked after the deleter, but not when it throws.
ThrowDeleterLocked(t) ==
  /\ pc[t] = "delete"
  /\ calls' = [calls EXCEPT ![arg[t]] = @ + 1]
  /\ bound' = [bound EXCEPT ![arg[t]] = Nothing]
  /\ pc' = [pc EXCEPT ![t] = "idle"]
  /\ arg' = [arg EXCEPT ![t] = Nothing]
  /\ Forget(t)
  /\ UNCHANGED <<alive, fields, mutex, caller>>

\* delete_(resource_) throws out of the method; the destructor swallows it.
ThrowDeleter(t) ==
  /\ pc[t] = "delete"
  /\ calls' = [calls EXCEPT ![arg[t]] = @ + 1]
  /\ bound' = [bound EXCEPT ![arg[t]] = Nothing]
  /\ Leave(t)
  /\ UNCHANGED <<fields, caller>>

\* resource_ = std::move(r.resource_); initialized_ = r.initialized_.  A
\* constructor also copies the deleter here, an assignment at the very end.
TakeSource(t) ==
  LET p == this[t]  q == other[t] IN
  /\ pc[t] = "take"
  /\ resource' = [resource EXCEPT ![p] = resource[q]]
  /\ initialized' = [initialized EXCEPT ![p] = initialized[q]]
  /\ delete' = IF call[t] = "construct" THEN [delete EXCEPT ![p] = delete[q]] ELSE delete
  /\ Goto(t, "clear")
  /\ UNCHANGED <<arg, seen, ghosts>>

\* Mutant: the source keeps its resource.
ClearNothing(t) ==
  /\ pc[t] = "clear"
  /\ delete' = IF call[t] = "assign" THEN [delete EXCEPT ![this[t]] = delete[other[t]]]
               ELSE delete
  /\ Leave(t)
  /\ UNCHANGED <<resource, initialized, ghosts>>

\* r.initialized_ = false; delete_ = r.delete_
ClearSource(t) ==
  LET p == this[t]  q == other[t] IN
  /\ pc[t] = "clear"
  /\ initialized' = [initialized EXCEPT ![q] = FALSE]
  /\ delete' = IF call[t] = "assign" THEN [delete EXCEPT ![p] = delete[q]] ELSE delete
  /\ Leave(t)
  /\ UNCHANGED <<resource, ghosts>>

\* Mutant: the deleters stay where they are.
SwapResources(t) ==
  LET p == this[t]  q == other[t] IN
  /\ InBody(t, {"swap"})
  /\ resource' = [resource EXCEPT ![p] = resource[q], ![q] = resource[p]]
  /\ initialized' = [initialized EXCEPT ![p] = initialized[q], ![q] = initialized[p]]
  /\ Leave(t)
  /\ UNCHANGED <<delete, ghosts>>

SwapBody(t) ==
  LET p == this[t]  q == other[t] IN
  /\ InBody(t, {"swap"})
  /\ resource' = [resource EXCEPT ![p] = resource[q], ![q] = resource[p]]
  /\ delete' = [delete EXCEPT ![p] = delete[q], ![q] = delete[p]]
  /\ initialized' = [initialized EXCEPT ![p] = initialized[q], ![q] = initialized[p]]
  /\ Leave(t)
  /\ UNCHANGED ghosts

\* A comparison has read *this (see TryLock) and now reads rhs.
CompareBody(t) ==
  InBody(t, {"compare"}) /\ Leave(t) /\ UNCHANGED <<fields, ghosts>>

-----------------------------------------------------------------------------
\* What t does in a call it has begun, and the calls it may begin.
Continue(t) ==
  \/ \E p \in Ptr : Lock(t, p) \/ TryLock(t, p) \/ BackOff(t, p)
  \/ GetBody(t) \/ ResetBody(t) \/ ReleaseBody(t) \/ DropBody(t) \/ DropNothing(t)
  \/ AssignEmpty(t) \/ SwapBody(t) \/ CompareBody(t)
  \/ RunDeleter(t) \/ ThrowDeleter(t) \/ TakeSource(t) \/ ClearSource(t)

Call(t) ==
  \E p \in Ptr :
    \/ \E d \in Deleter : ConstructEmpty(t, p, d)
    \/ \E d \in Deleter, r \in Resource : ConstructHolding(t, p, r, d)
    \/ \E m \in Method : CallPlain(t, m, p)
    \/ \E r \in Resource : CallReset(t, p, r)
    \/ CallDestroy(t, p)
    \/ \E q \in Ptr, m \in TwoLock : CallPair(t, m, p, q)
    \/ \E q \in Ptr : CallAssign(t, p, q) \/ CallMoveConstruct(t, p, q)

Next == \E t \in Thread : Continue(t) \/ Call(t)

Spec == Init /\ [][Next]_vars

\* A thread inside a call is not stopped there for good: deleters return or
\* throw, and a runnable thread is scheduled.
FairSpec == Spec /\ \A t \in Thread : WF_vars(Continue(t))

-----------------------------------------------------------------------------
Stage == {"idle", "lock", "second", "locked", "delete", "take", "clear"}

ControlTypes ==
  /\ alive \subseteq Ptr
  /\ mutex \in [Ptr -> Thread \cup {Nobody}]
  /\ pc \in [Thread -> Stage]
  /\ call \in [Thread -> Method \cup {"none"}]
  /\ this \in [Thread -> Ptr \cup {Nothing}]
  /\ other \in [Thread -> Ptr \cup {Nothing}]
  /\ \A t \in Thread : pc[t] = "idle" <=> call[t] = "none"
  /\ \A t \in Thread : pc[t] = "idle" <=> this[t] = Nothing
  /\ \A t \in Thread : pc[t] = "idle" <=> other[t] = Nothing
  /\ arg \in [Thread -> Handle]

DataTypes ==
  /\ resource \in [Ptr -> Handle]
  /\ initialized \in [Ptr -> BOOLEAN]
  /\ delete \in [Ptr -> Deleter]
  /\ hasOld \in [Thread -> BOOLEAN]
  /\ oldResource \in [Thread -> Handle]
  /\ caller \subseteq Resource
  /\ calls \in [Resource -> Nat]
  /\ bound \in [Resource -> Deleter \cup {Nothing}]

TypeOK == ControlTypes /\ DataTypes

(* Who is responsible for r: the client, a thread that carries it between  *)
(* the client and an object or to the deleter, or an object.  An object    *)
(* whose content has been taken but whose flag is not cleared yet is not.  *)
Drained(p) == \E t \in Thread : pc[t] = "clear" /\ other[t] = p /\ this[t] # p
Owns(p, r) == initialized[p] /\ resource[p] = r /\ ~Drained(p)
Holder(r)  == {p \in Ptr : Owns(p, r)}
Carrier(r) == {t \in Thread : arg[t] = r}

\* A resource is never the responsibility of two parties, which would both
\* have it deleted, and of nobody any more once it has been deleted.
OneOwner ==
  \A r \in Resource :
    /\ \A p, q \in Holder(r) : p = q
    /\ \A t, u \in Carrier(r) : t = u
    /\ Holder(r) # {} => Carrier(r) = {}
    /\ r \in caller => Holder(r) = {} /\ Carrier(r) = {}
    /\ calls[r] > 0 => Holder(r) = {} /\ Carrier(r) = {} /\ r \notin caller

\* A resource that has not been deleted has somebody to answer for it: no
\* move, swap, reset or throwing deleter leaks one.
NeverLost ==
  \A r \in Resource :
    r \in caller \/ calls[r] > 0 \/ Holder(r) # {} \/ Carrier(r) # {}

\* The deleter is called at most once for a resource, whoever resets, moves,
\* swaps, deallocates and destroys concurrently and whether deleters throw.
NoDoubleDelete == \A r \in Resource : calls[r] <= 1

\* A resource is deleted by the deleter it was installed with, after any
\* number of moves and swaps: both carry resource and deleter together.
RightDeleter ==
  \A t \in Thread : pc[t] = "delete" => delete[this[t]] = bound[arg[t]]

\* What a method has read of *this under the lock (has_old and old_resource,
\* the tests of initialized_, the left operand of a comparison) still holds
\* when it acts on it.
SnapshotHeld ==
  \A t \in Thread : pc[t] = "locked" =>
    hasOld[t] = initialized[this[t]] /\ oldResource[t] = resource[this[t]]

\* Who holds a mutex is in a call on that object, and waits for no other one:
\* threads that swap and compare the same objects in opposite orders cannot
\* block each other, and no exit, a throwing deleter's included, keeps a lock.
NoHoldAndWait ==
  \A p \in Ptr, t \in Thread : Holds(t, p) =>
    p \in Needs(t) /\ pc[t] \notin {"idle", "lock"}

\* No mutex stays locked: std::lock backs off instead of waiting for the
\* second mutex, and every exit, a throwing deleter's included, unlocks.
MutexReleased == \A p \in Ptr : []<>(mutex[p] = Nobody)

(* The abstract view: an object owns what it holds, and a resource on its  *)
(* way to the deleter is doomed.  "lost" is a resource that nobody owns.   *)
OwnerOf(r) ==
  IF calls[r] > 0 THEN "deleted"
  ELSE IF \E t \in Carrier(r) : pc[t] = "delete" THEN "doomed"
  ELSE IF r \in caller \/ Carrier(r) # {} THEN "caller"
  ELSE IF Holder(r) = {} THEN "lost"
  ELSE CHOOSE p \in Ptr : p \in Holder(r)

Ownership == INSTANCE ResourceOwnership
  WITH Object <- Ptr, Caller <- "caller", Doomed <- "doomed", Deleted <- "deleted",
       owner <- [r \in Resource |-> OwnerOf(r)]

\* Every step of every method is one transfer of ownership or none.
OwnershipMoves == Ownership!Safety

\* And a resource that an object has given up is deleted in the end.
OwnershipIsKept == Ownership!Spec
=============================================================================
