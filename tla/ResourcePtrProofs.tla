------------------------- MODULE ResourcePtrProofs -------------------------
(***************************************************************************)
(* The safety of ResourcePtr for any number of threads, objects, resources *)
(* and deleters, in programs that leave the source of a move to the thread *)
(* that moves, as the guard Movable has it.                                *)
(***************************************************************************)
EXTENDS ResourcePtr, TLAPS

(* Which stages a method goes through, what it carries and needs alive.    *)
Stages ==
  \A t \in Thread :
    /\ pc[t] \in {"lock", "locked"} => call[t] \in OneLock \cup TwoLock
    /\ pc[t] = "second" => call[t] \in TwoLock
    /\ pc[t] = "delete" => call[t] \in {"reset", "dealloc", "destroy", "assign"}
    /\ pc[t] \in {"take", "clear"} => call[t] \in {"assign", "construct"}
    /\ arg[t] # Nothing <=> \/ pc[t] \in {"lock", "locked"} /\ call[t] = "reset"
                            \/ pc[t] = "delete"
    /\ pc[t] # "idle" => other[t] \in alive
    /\ pc[t] # "idle" => (this[t] \in alive <=> call[t] # "construct")
    /\ call[t] \in TwoLock => this[t] # other[t]

(* The objects whose mutexes t is bound to hold.                           *)
InSection(t) == \/ pc[t] \in {"locked", "delete"}
                \/ pc[t] \in {"take", "clear"} /\ call[t] = "assign"
Critical(t)  == {p \in Ptr : InSection(t) /\ (p = this[t] \/ (call[t] \in TwoLock /\ p = other[t]))}

MutexHeld ==
  \A t \in Thread :
    /\ \A p \in Critical(t) : mutex[p] = t
    /\ pc[t] = "second" => mutex[this[t]] = t \/ mutex[other[t]] = t

PrivateKept ==
  \A t, u \in Thread : \A p \in Private(t) : p \in Uses(u) /\ p \in Ptr => t = u

(* What the fields of an object hold, by the stage of who works on it.     *)
Contents ==
  /\ \A p \in Ptr : initialized[p] => resource[p] \in Resource
  /\ \A p \in Ptr : initialized[p] /\ p \notin alive =>
       \E t \in Thread : pc[t] = "clear" /\ call[t] = "construct" /\ this[t] = p

WorksOn(t) ==
  /\ pc[t] = "take" => ~initialized[this[t]]
  /\ pc[t] = "delete" /\ call[t] # "reset" => ~initialized[this[t]]
  /\ pc[t] = "clear" => /\ resource[this[t]] = resource[other[t]]
                        /\ initialized[this[t]] = initialized[other[t]]
                        /\ this[t] = other[t] => ~initialized[this[t]]
Working == \A t \in Thread : WorksOn(t)

(* The deleter of an object is the one its resource was installed with,    *)
(* except in the middle of operator=, when only the source has it.         *)
Awaiting(p) ==
  \E t \in Thread : pc[t] = "clear" /\ call[t] = "assign" /\ this[t] = p
DeleterTravels ==
  \A p \in Ptr : initialized[p] /\ ~Awaiting(p) => bound[resource[p]] = delete[p]

Control   == ControlTypes /\ Stages /\ MutexHeld /\ PrivateKept
Owned     == OneOwner /\ NeverLost /\ NoDoubleDelete
Deleters  == DeleterTravels /\ RightDeleter

IInv == Control /\ DataTypes /\ SnapshotHeld /\ Contents /\ Working /\ Owned /\ Deleters

-----------------------------------------------------------------------------
(* Control: locking, privacy and the stages of a call.                     *)

\* An object that t has in its critical section, or to itself, is not the
\* object that another thread is at work on.
LEMMA Apart ==
  ASSUME Control,
         NEW t \in Thread, NEW u \in Thread, t # u, NEW p \in Ptr,
         p \in Critical(t) \/ p \in Private(t)
  PROVE  /\ pc[u] \in {"locked", "delete", "take", "clear"} => this[u] # p
         /\ pc[u] \in {"take", "clear"} => other[u] # p
         /\ p \in Private(t) => this[u] # p /\ other[u] # p
  <1>1. p \in Private(t) => this[u] # p /\ other[u] # p
    BY DEF Control, PrivateKept, Uses
  <1>2. p \notin Private(u)
    BY DEF Control, PrivateKept, Uses, Critical, Private
  <1>3. pc[u] \in {"take", "clear"} => call[u] \in {"assign", "construct"}
    BY DEF Control, Stages
  <1>4. pc[u] \in {"take", "clear"} => other[u] # p
    BY <1>2, <1>3 DEF Private
  <1>5. pc[u] \in {"locked", "delete", "take", "clear"} => this[u] # p
    <2>1. CASE pc[u] \in {"take", "clear"} /\ call[u] = "construct"
      BY <1>2, <2>1 DEF Private
    <2>2. CASE pc[u] \in {"locked", "delete"} \/ call[u] = "assign"
      BY <1>1, <2>2, ConstantsAssumption DEF Control, MutexHeld, Critical, InSection
    <2> QED BY <1>3, <2>1, <2>2
  <1> QED BY <1>1, <1>4, <1>5

\* Returning or throwing unlocks, ends the call and keeps the control
\* invariant, a constructed or destroyed object included.
LEMMA LeaveControl ==
  ASSUME Control, NEW t \in Thread, pc[t] # "idle", Leave(t)
  PROVE  Control'
  <1> USE ConstantsAssumption
  <1>1. this[t] \in Ptr /\ other[t] \in Ptr
    BY DEF Control, ControlTypes
  <1>2. ControlTypes'
    <2>1. alive' \subseteq Ptr
      BY DEF Control, ControlTypes, Leave
    <2>2. mutex' \in [Ptr -> Thread \cup {Nobody}]
      BY DEF Control, ControlTypes, Leave
    <2>3. pc' \in [Thread -> Stage] /\ arg' \in [Thread -> Handle]
      BY DEF Control, ControlTypes, Leave, Stage, Handle
    <2>4. /\ call' \in [Thread -> Method \cup {"none"}]
          /\ this' \in [Thread -> Ptr \cup {Nothing}]
          /\ other' \in [Thread -> Ptr \cup {Nothing}]
      BY DEF Control, ControlTypes, Leave, Forget
    <2>5. \A u \in Thread : /\ pc'[u] = "idle" <=> call'[u] = "none"
                            /\ pc'[u] = "idle" <=> this'[u] = Nothing
                            /\ pc'[u] = "idle" <=> other'[u] = Nothing
      BY DEF Control, ControlTypes, Leave, Forget
    <2> QED BY <2>1, <2>2, <2>3, <2>4, <2>5 DEF ControlTypes
  <1>3. Stages'
    <2> SUFFICES ASSUME NEW u \in Thread, u # t
                 PROVE  /\ other[u] \in alive => other[u] \in alive'
                        /\ this[u] \in alive <=> this[u] \in alive'
      BY DEF Control, ControlTypes, Stages, Leave, Forget, OneLock, TwoLock
    <2> QED BY <1>1 DEF Control, PrivateKept, Private, Uses, Leave
  <1>4. MutexHeld'
    <2>1. ASSUME NEW u \in Thread, u # t, NEW p \in Ptr, mutex[p] = u PROVE mutex'[p] = u
      BY <2>1 DEF Leave, Holds
    <2>2. \A u \in Thread : u # t => Critical(u)' = Critical(u)
      BY DEF Control, ControlTypes, Critical, InSection, Leave, Forget
    <2>3. Critical(t)' = {} /\ pc'[t] = "idle"
      BY DEF Control, ControlTypes, Critical, InSection, Leave
    <2>4. \A u \in Thread : u # t => pc'[u] = pc[u] /\ this'[u] = this[u] /\ other'[u] = other[u]
      BY DEF Control, ControlTypes, Leave, Forget
    <2>5. \A u \in Thread : pc[u] = "second" => this[u] \in Ptr /\ other[u] \in Ptr
      BY DEF Control, ControlTypes
    <2>6. \A u \in Thread : Critical(u) \subseteq Ptr
      BY DEF Critical
    <2> QED BY <2>1, <2>2, <2>3, <2>4, <2>5, <2>6 DEF MutexHeld, Control
  <1>5. PrivateKept'
    <2>1. \A u \in Thread : u # t => Private(u)' = Private(u) /\ Uses(u)' = Uses(u)
      BY DEF Control, ControlTypes, Private, Uses, Leave, Forget
    <2>2. Private(t)' = {} /\ Uses(t)' = {Nothing}
      BY DEF Control, ControlTypes, Private, Uses, Leave, Forget
    <2> QED BY <2>1, <2>2 DEF Control, PrivateKept
  <1> QED BY <1>2, <1>3, <1>4, <1>5 DEF Control

\* Going on to the next stage with the same mutexes keeps it, if the new
\* stage carries the handle it should.
LEMMA GotoControl ==
  ASSUME Control, NEW t \in Thread, NEW stage, NEW r \in Handle, Goto(t, stage),
         arg' \in [Thread -> Handle], arg'[t] = r,
         \A u \in Thread : u # t => arg'[u] = arg[u],
         \/ /\ stage = "delete" /\ pc[t] = "locked" /\ r # Nothing
            /\ call[t] \in {"reset", "dealloc", "destroy", "assign"}
         \/ /\ stage = "take" /\ pc[t] \in {"locked", "delete"} /\ r = Nothing
            /\ call[t] = "assign"
         \/ stage = "clear" /\ pc[t] = "take" /\ r = Nothing
  PROVE  Control'
  <1> USE ConstantsAssumption DEF Goto, params
  <1>1. ControlTypes'
    BY DEF Control, ControlTypes, Stage
  <1>2. Stages'
    BY DEF Control, ControlTypes, Stages
  <1>3. MutexHeld'
    <2>1. Critical(t)' = Critical(t)
      BY DEF Control, ControlTypes, Stages, Critical, InSection
    <2>2. \A u \in Thread : u # t => Critical(u)' = Critical(u)
      BY DEF Control, ControlTypes, Critical, InSection
    <2> QED BY <2>1, <2>2 DEF Control, ControlTypes, MutexHeld
  <1>4. PrivateKept'
    BY DEF Control, PrivateKept, Private, Uses
  <1> QED BY <1>1, <1>2, <1>3, <1>4 DEF Control


\* What a call needs of the other threads when it begins.
Admitted(t, method, p, q) ==
  /\ \A u \in Thread \ {t} : p \notin Private(u) /\ q \notin Private(u)
  /\ method \in {"construct", "destroy"} => Untouched(t, p)
  /\ method \in {"construct", "assign"} => Untouched(t, q)

\* A call that the other threads admit keeps it.
LEMMA BeginControl ==
  ASSUME Control,
         NEW t \in Thread, NEW method \in Method, NEW p \in Ptr, NEW q \in Ptr,
         NEW r \in Handle, NEW stage, Begin(t, method, p, q, r, stage),
         Admitted(t, method, p, q),
         q \in alive, p \in alive <=> method # "construct",
         r # Nothing <=> method = "reset",
         IF method = "construct" THEN stage = "take" ELSE stage = "lock",
         method \in TwoLock => p # q
  PROVE  Control'
  <1> USE ConstantsAssumption DEF Begin
  <1>1. ControlTypes'
    BY DEF Control, ControlTypes, Stage, Method, OneLock, TwoLock, Handle
  <1>2. Stages'
    BY DEF Control, ControlTypes, Stages, Method, OneLock, TwoLock
  <1>3. MutexHeld'
    <2>1. Critical(t)' = {}
      BY DEF Control, ControlTypes, Critical, InSection
    <2>2. \A u \in Thread : u # t => Critical(u)' = Critical(u)
      BY DEF Control, ControlTypes, Critical, InSection
    <2> QED BY <2>1, <2>2 DEF Control, ControlTypes, MutexHeld
  <1>4. PrivateKept'
    <2>1. \A u \in Thread : u # t => Private(u)' = Private(u) /\ Uses(u)' = Uses(u)
      BY DEF Control, ControlTypes, Private, Uses
    <2>2. /\ Uses(t)' = {p, q}
          /\ \A x \in Private(t)' : x \in {p, q} /\ Untouched(t, x)
      BY DEF Control, ControlTypes, Private, Uses, Admitted
    <2>3. \A u \in Thread \ {t} : \A x \in Private(u)' : x \notin Uses(t)'
      BY <2>1, <2>2 DEF Admitted
    <2>4. \A u \in Thread \ {t} : \A x \in Private(t)' : x \notin Uses(u)'
      BY <2>1, <2>2 DEF Untouched
    <2> QED BY <2>1, <2>3, <2>4 DEF Control, PrivateKept
  <1> QED BY <1>1, <1>2, <1>3, <1>4 DEF Control

\* lock_guard and std::lock keep it: what a thread has locked is its own.
LEMMA LockControl ==
  ASSUME Control, NEW t \in Thread, NEW p \in Ptr,
         Lock(t, p) \/ TryLock(t, p) \/ BackOff(t, p)
  PROVE  Control'
  <1> USE ConstantsAssumption DEF params, Needs
  <1>1. /\ p \in {this[t], other[t]} /\ mutex[p] # t
        /\ UNCHANGED <<alive, call, this, other, arg>>
        /\ pc[t] \in {"lock", "second"} /\ call[t] \in OneLock \cup TwoLock
    BY DEF Control, Stages, Lock, TryLock, BackOff, OneLock, TwoLock
  <1>2. ControlTypes'
    BY <1>1 DEF Control, ControlTypes, Stage, Lock, TryLock, BackOff, Holds
  <1>3. Stages'
    BY <1>1 DEF Control, ControlTypes, Stages, Lock, TryLock, BackOff, OneLock, TwoLock
  <1>4. PrivateKept'
    BY <1>1 DEF Control, PrivateKept, Private, Uses
  <1>5. \A u \in Thread, x \in Ptr : u # t /\ mutex[x] = u => mutex'[x] = u
    BY DEF Control, ControlTypes, Lock, TryLock, BackOff, Holds
  <1>6. MutexHeld'
    <2>1. \A u \in Thread : u # t => Critical(u)' = Critical(u) /\ pc'[u] = pc[u]
      BY <1>1 DEF Control, ControlTypes, Critical, InSection, Lock, TryLock, BackOff
    <2>2. \A u \in Thread : pc[u] = "second" => this[u] \in Ptr /\ other[u] \in Ptr
      BY DEF Control, ControlTypes
    <2>3. \A x \in Critical(t)' : mutex'[x] = t
      BY <1>1 DEF Control, ControlTypes, MutexHeld, Stages, Critical, InSection,
                  Lock, TryLock, BackOff, OneLock, TwoLock
    <2>4. pc'[t] = "second" => mutex'[this[t]] = t \/ mutex'[other[t]] = t
      BY <1>1 DEF Control, ControlTypes, Lock, TryLock, BackOff
    <2>5. \A u \in Thread : Critical(u) \subseteq Ptr
      BY DEF Critical
    <2> QED BY <1>1, <1>5, <2>1, <2>2, <2>3, <2>4, <2>5 DEF Control, MutexHeld
  <1> QED BY <1>2, <1>3, <1>4, <1>6 DEF Control

-----------------------------------------------------------------------------
(* Steps that leave the fields alone.                                      *)

\* The step of t changes nothing of the other threads' calls.
OthersSame(t) ==
  \A u \in Thread \ {t} :
    /\ pc'[u] = pc[u] /\ call'[u] = call[u] /\ this'[u] = this[u] /\ other'[u] = other[u]
    /\ arg'[u] = arg[u] /\ hasOld'[u] = hasOld[u] /\ oldResource'[u] = oldResource[u]

\* A step that leaves fields and deletions alone keeps the whole invariant,
\* if it keeps control, types and ownership.
LEMMA QuietStep ==
  ASSUME IInv, NEW t \in Thread, OthersSame(t), UNCHANGED <<fields, calls, bound>>,
         Control', DataTypes', Owned',
         pc[t] # "clear", pc'[t] \notin {"delete", "clear"},
         pc'[t] = "locked" => /\ hasOld'[t] = initialized[this'[t]]
                              /\ oldResource'[t] = resource[this'[t]],
         pc'[t] = "take" => ~initialized[this'[t]],
         \A p \in Ptr : initialized[p] /\ p \notin alive' => p \notin alive
  PROVE  IInv'
  <1> USE DEF OthersSame, fields
  <1>1. SnapshotHeld'
    BY DEF IInv, SnapshotHeld
  <1>2. Contents'
    BY DEF IInv, Contents
  <1>3. Working'
    BY DEF IInv, Working, WorksOn
  <1>4. Deleters'
    BY DEF IInv, Deleters, DeleterTravels, RightDeleter, Awaiting
  <1> QED BY <1>1, <1>2, <1>3, <1>4 DEF IInv

\* Such a step changes nobody's ownership.
LEMMA QuietOwns ==
  ASSUME NEW t \in Thread, OthersSame(t), UNCHANGED <<resource, initialized>>,
         pc[t] # "clear", pc'[t] # "clear"
  PROVE  \A p \in Ptr, r \in Resource : Owns(p, r)' <=> Owns(p, r)
  BY DEF OthersSame, Owns, Drained

\* Ownership that does not move is kept.
LEMMA NoTransfer ==
  ASSUME Owned, UNCHANGED <<caller, calls>>,
         \A p \in Ptr, r \in Resource : Owns(p, r)' <=> Owns(p, r),
         \A u \in Thread, r \in Resource : arg'[u] = r <=> arg[u] = r
  PROVE  Owned'
  <1>1. \A r \in Resource : Holder(r)' = Holder(r) /\ Carrier(r)' = Carrier(r)
    BY DEF Holder, Carrier
  <1> QED BY <1>1 DEF Owned, OneOwner, NeverLost, NoDoubleDelete

\* The calls of methods, which take at most an argument from the client.
LEMMA BeginStep ==
  ASSUME IInv,
         NEW t \in Thread, NEW method \in Method, NEW p \in Ptr, NEW q \in Ptr,
         NEW r \in caller \cup {Nothing}, NEW stage, Begin(t, method, p, q, r, stage),
         Admitted(t, method, p, q),
         q \in alive, p \in alive <=> method # "construct",
         r # Nothing <=> method = "reset",
         IF method = "construct" THEN stage = "take" ELSE stage = "lock",
         method \in TwoLock => p # q
  PROVE  IInv'
  <1> USE ConstantsAssumption
  <1>1. r \in Handle
    BY DEF IInv, DataTypes, Handle
  <1>2. Control'
    BY <1>1, BeginControl DEF IInv
  <1>3. OthersSame(t) /\ pc[t] = "idle" /\ pc'[t] = stage /\ this'[t] = p /\ arg[t] = Nothing /\ arg'[t] = r
    BY DEF IInv, Control, ControlTypes, Stages, OthersSame, Begin, seen
  <1>4. DataTypes'
    BY DEF IInv, DataTypes, Begin, fields, seen
  <1>5. \A x \in Ptr, s \in Resource : Owns(x, s)' <=> Owns(x, s)
    BY <1>3, QuietOwns DEF Begin, fields
  <1>6. Owned'
    <2>1. \A s \in Resource : Holder(s)' = Holder(s)
      BY <1>5 DEF Holder
    <2>2. \A s \in Resource : s # r => Carrier(s)' = Carrier(s)
      BY <1>3 DEF Carrier, OthersSame
    <2>3. r \in Resource => Carrier(r) = {} /\ Holder(r) = {} /\ calls[r] = 0
      BY DEF IInv, Owned, OneOwner, DataTypes
    <2>4. r \in Resource => Carrier(r)' = {t}
      BY <1>3, <2>3 DEF Carrier, OthersSame
    <2> QED BY <2>1, <2>2, <2>3, <2>4 DEF IInv, Owned, OneOwner, NeverLost, NoDoubleDelete, Begin
  <1>7. stage = "take" => ~initialized[p]
    <2> SUFFICES ASSUME stage = "take", initialized[p] PROVE FALSE
      OBVIOUS
    <2>1. PICK u \in Thread : pc[u] = "clear" /\ this[u] = p
      BY DEF IInv, Contents
    <2> QED BY <1>3, <2>1 DEF Admitted, Untouched, Uses
  <1> QED BY <1>2, <1>3, <1>4, <1>6, <1>7, QuietStep DEF Begin, fields

\* Waiting for the mutexes, and the snapshot that is taken with the last.
LEMMA LockStep ==
  ASSUME IInv, NEW t \in Thread, NEW p \in Ptr,
         Lock(t, p) \/ TryLock(t, p) \/ BackOff(t, p)
  PROVE  IInv'
  <1> USE DEF params, seen, fields, ghosts
  <1>1. Control'
    BY LockControl DEF IInv
  <1>2. /\ pc[t] \in {"lock", "second"} /\ pc'[t] \in {"lock", "second", "locked"}
        /\ UNCHANGED <<alive, this, arg, resource, initialized, delete, caller, calls, bound>>
        /\ OthersSame(t)
    BY DEF IInv, Control, ControlTypes, DataTypes, OthersSame, Lock, TryLock, BackOff, Read
  <1>3. DataTypes'
    <2>1. this[t] \in Ptr
      BY <1>2 DEF IInv, Control, ControlTypes
    <2> QED BY <2>1 DEF IInv, DataTypes, Lock, TryLock, BackOff, Read
  <1>4. pc'[t] = "locked" => /\ hasOld'[t] = initialized[this[t]]
                             /\ oldResource'[t] = resource[this[t]]
    BY DEF IInv, Control, ControlTypes, DataTypes, Stages, Lock, TryLock, BackOff, Read, Needs,
           OneLock, TwoLock
  <1>5. Owned'
    BY <1>2, NoTransfer, QuietOwns DEF IInv
  <1> QED BY <1>1, <1>2, <1>3, <1>4, <1>5, QuietStep DEF IInv

\* A body that only returns, or throws, keeps the invariant.
LEMMA LeaveQuietly ==
  ASSUME IInv, NEW t \in Thread, pc[t] = "locked", arg[t] = Nothing, Leave(t),
         call[t] = "destroy" => ~hasOld[t], UNCHANGED <<fields, ghosts>>
  PROVE  IInv'
  <1> USE ConstantsAssumption DEF fields, ghosts
  <1>1. Control'
    BY LeaveControl DEF IInv
  <1>2. pc'[t] = "idle" /\ arg' = arg /\ OthersSame(t)
    BY DEF IInv, Control, ControlTypes, DataTypes, OthersSame, Leave, Forget
  <1>3. DataTypes'
    BY DEF IInv, DataTypes, Leave, Forget, Handle
  <1>4. Owned'
    BY <1>2, NoTransfer, QuietOwns DEF IInv
  <1>5. \A p \in Ptr : initialized[p] /\ p \notin alive' => p \notin alive
    BY DEF IInv, SnapshotHeld, Leave
  <1> QED BY <1>1, <1>2, <1>3, <1>4, <1>5, QuietStep

\* get() and the other readers, the comparisons, dealloc() of nothing.
LEMMA ReadStep ==
  ASSUME IInv, NEW t \in Thread, GetBody(t) \/ CompareBody(t) \/ DropNothing(t)
  PROVE  IInv'
  BY LeaveQuietly DEF IInv, Control, Stages, GetBody, CompareBody, DropNothing, InBody

\* operator= of an object that holds no resource.
LEMMA AssignEmptyStep ==
  ASSUME IInv, NEW t \in Thread, AssignEmpty(t)
  PROVE  IInv'
  <1> USE ConstantsAssumption DEF fields, ghosts, seen, AssignEmpty, InBody
  <1>1. /\ pc[t] = "locked" /\ call[t] = "assign" /\ arg[t] = Nothing /\ ~initialized[this[t]]
        /\ Goto(t, "take") /\ UNCHANGED <<arg, hasOld, oldResource>>
    BY DEF IInv, Control, Stages, SnapshotHeld
  <1>2. Control'
    BY <1>1, GotoControl DEF IInv, Control, ControlTypes, Handle
  <1>3. pc'[t] = "take" /\ OthersSame(t) /\ UNCHANGED <<alive, this>>
    BY <1>1 DEF IInv, Control, ControlTypes, OthersSame, Goto, params
  <1>4. DataTypes'
    BY DEF IInv, DataTypes
  <1>5. Owned'
    BY <1>1, <1>3, NoTransfer, QuietOwns DEF IInv
  <1> QED BY <1>1, <1>2, <1>3, <1>4, <1>5, QuietStep

-----------------------------------------------------------------------------
(* Constructors.                                                           *)

\* Storage that nobody uses and no object lives in owns no resource.
LEMMA DeadIsEmpty ==
  ASSUME IInv, NEW t \in Thread, pc[t] = "idle", NEW p \in Ptr, p \notin alive, Untouched(t, p)
  PROVE  /\ ~initialized[p] /\ ~Drained(p)
         /\ \A u \in Thread : this[u] # p /\ other[u] # p
  BY ConstantsAssumption DEF IInv, Control, ControlTypes, Contents, Untouched, Uses, Drained

\* ResourcePtr() and ResourcePtr(D).
LEMMA ConstructEmptyStep ==
  ASSUME IInv, NEW t \in Thread, NEW p \in Ptr, NEW d \in Deleter, ConstructEmpty(t, p, d)
  PROVE  IInv'
  <1> USE ConstantsAssumption DEF ConstructEmpty, locals, params, seen, ghosts
  <1>1. ~initialized[p] /\ \A u \in Thread : this[u] # p /\ other[u] # p
    BY DeadIsEmpty
  <1>2. Control'
    BY <1>1 DEF IInv, Control, ControlTypes, Stages, MutexHeld, Critical, InSection,
                PrivateKept, Private, Uses
  <1>3. DataTypes'
    BY DEF IInv, DataTypes, Handle
  <1>4. SnapshotHeld' /\ Working'
    <2>1. \A u \in Thread : pc[u] # "idle" => this[u] \in Ptr /\ other[u] \in Ptr
      BY DEF IInv, Control, ControlTypes
    <2>2. SnapshotHeld'
      BY <1>1, <2>1 DEF IInv, DataTypes, SnapshotHeld
    <2>3. Working'
      BY <1>1, <2>1 DEF IInv, DataTypes, Working, WorksOn
    <2> QED BY <2>2, <2>3
  <1>5. Contents'
    BY <1>1 DEF IInv, DataTypes, Contents
  <1>6. \A q \in Ptr, r \in Resource : Owns(q, r)' <=> Owns(q, r)
    BY <1>1 DEF IInv, DataTypes, Owns, Drained
  <1>7. Owned'
    BY <1>6, NoTransfer DEF IInv
  <1>8. Deleters'
    BY <1>1 DEF IInv, DataTypes, Deleters, DeleterTravels, RightDeleter, Awaiting
  <1> QED BY <1>2, <1>3, <1>4, <1>5, <1>7, <1>8 DEF IInv

\* A resource that is in some object has an owner: that object, or the one
\* that is just taking it over.
LEMMA HeldIsOwned ==
  ASSUME IInv, NEW p \in Ptr, initialized[p]
  PROVE  \/ p \in Holder(resource[p])
         \/ \E u \in Thread : pc[u] = "clear" /\ this[u] \in Holder(resource[p])
  <1> USE ConstantsAssumption
  <1>1. CASE ~Drained(p)
    BY <1>1 DEF Holder, Owns
  <1>2. CASE Drained(p)
    <2>1. PICK u \in Thread : pc[u] = "clear" /\ other[u] = p /\ this[u] # p
      BY <1>2 DEF Drained
    <2>2. this[u] \in Ptr /\ initialized[this[u]] /\ resource[this[u]] = resource[p]
      BY <2>1 DEF IInv, Control, ControlTypes, DataTypes, Working, WorksOn
    <2>3. ~Drained(this[u])
      <3> SUFFICES ASSUME NEW v \in Thread, pc[v] = "clear", other[v] = this[u] PROVE u = v
        BY <2>1 DEF Drained
      <3>1. this[u] \in Private(v)
        BY DEF IInv, Control, Stages, Private
      <3> QED BY <2>2, <3>1 DEF IInv, Control, PrivateKept, Uses
    <2> QED BY <2>1, <2>2, <2>3 DEF Holder, Owns
  <1> QED BY <1>1, <1>2

\* ResourcePtr(R, D): the resource goes from the client to the object.
LEMMA ConstructHoldingStep ==
  ASSUME IInv, NEW t \in Thread, NEW p \in Ptr, NEW r \in Resource, NEW d \in Deleter,
         ConstructHolding(t, p, r, d)
  PROVE  IInv'
  <1> USE ConstantsAssumption DEF ConstructHolding, locals, params, seen, ghosts
  <1>1. ~initialized[p] /\ ~Drained(p) /\ \A u \in Thread : this[u] # p /\ other[u] # p
    BY DeadIsEmpty
  <1>2. Control'
    BY <1>1 DEF IInv, Control, ControlTypes, Stages, MutexHeld, Critical, InSection,
                PrivateKept, Private, Uses
  <1>3. DataTypes'
    BY DEF IInv, DataTypes, Handle
  <1>4. SnapshotHeld' /\ Working'
    <2>1. \A u \in Thread : pc[u] # "idle" => this[u] \in Ptr /\ other[u] \in Ptr
      BY DEF IInv, Control, ControlTypes
    <2>2. SnapshotHeld'
      BY <1>1, <2>1 DEF IInv, DataTypes, SnapshotHeld
    <2>3. Working'
      BY <1>1, <2>1 DEF IInv, DataTypes, Working, WorksOn
    <2> QED BY <2>2, <2>3
  <1>5. Contents'
    BY <1>1 DEF IInv, DataTypes, Contents
  <1>6. Holder(r) = {} /\ Carrier(r) = {} /\ calls[r] = 0
    BY DEF IInv, DataTypes, Owned, OneOwner
  <1>7. Owned'
    <2>1. Holder(r)' = {p} /\ \A s \in Resource \ {r} : Holder(s)' = Holder(s)
      BY <1>1, <1>6 DEF IInv, DataTypes, Holder, Owns, Drained
    <2>2. \A s \in Resource : Carrier(s)' = Carrier(s)
      BY DEF Carrier
    <2> QED BY <1>6, <2>1, <2>2 DEF IInv, Owned, OneOwner, NeverLost, NoDoubleDelete
  <1>8. Deleters'
    <2>1. \A q \in Ptr : initialized[q] => resource[q] # r
      BY <1>6, HeldIsOwned
    <2>2. DeleterTravels'
      BY <1>1, <2>1 DEF IInv, Control, ControlTypes, DataTypes, Deleters, DeleterTravels, Awaiting
    <2>3. RightDeleter'
      BY <1>1, <1>6 DEF IInv, Control, ControlTypes, DataTypes, Deleters, RightDeleter, Carrier
    <2> QED BY <2>2, <2>3 DEF Deleters
  <1> QED BY <1>2, <1>3, <1>4, <1>5, <1>7, <1>8 DEF IInv

-----------------------------------------------------------------------------
(* Bodies: the step of t, in its critical section, on p == this[t].        *)

\* In its critical section a thread knows its snapshot to be current and
\* its object untouched by the others.
LEMMA BodyFacts ==
  ASSUME IInv, NEW t \in Thread,
         pc[t] \in {"locked", "delete"} \/ (pc[t] = "take" /\ call[t] = "assign")
  PROVE  /\ this[t] \in Ptr /\ this[t] \in alive /\ this[t] \in Critical(t)
         /\ pc[t] = "locked" => hasOld[t] = initialized[this[t]] /\ oldResource[t] = resource[this[t]]
         /\ ~Drained(this[t]) /\ ~Awaiting(this[t])
         /\ \A u \in Thread \ {t} :
              /\ pc[u] \in {"locked", "delete", "take", "clear"} => this[u] # this[t]
              /\ pc[u] \in {"take", "clear"} => other[u] # this[t]
  <1> USE ConstantsAssumption
  <1>1. this[t] \in Ptr /\ this[t] \in alive /\ this[t] \in Critical(t)
    BY DEF IInv, Control, ControlTypes, Stages, Critical, InSection, OneLock, TwoLock
  <1>2. \A u \in Thread \ {t} :
              /\ pc[u] \in {"locked", "delete", "take", "clear"} => this[u] # this[t]
              /\ pc[u] \in {"take", "clear"} => other[u] # this[t]
    BY <1>1, Apart DEF IInv
  <1> QED BY <1>1, <1>2 DEF IInv, SnapshotHeld, Drained, Awaiting

\* A step of t that writes the fields of the objects in W only, which the
\* others keep away from, leaves what the others rely on alone.
LEMMA OthersUndisturbed ==
  ASSUME IInv, NEW t \in Thread, OthersSame(t), NEW W \in SUBSET Ptr,
         \A x \in Ptr \ W : resource'[x] = resource[x] /\ initialized'[x] = initialized[x],
         \A u \in Thread \ {t} :
              /\ pc[u] \in {"locked", "delete", "take", "clear"} => this[u] \notin W
              /\ pc[u] \in {"take", "clear"} => other[u] \notin W,
         pc'[t] # "locked", WorksOn(t)'
  PROVE  SnapshotHeld' /\ Working'
  <1>1. \A u \in Thread : pc[u] # "idle" => this[u] \in Ptr /\ other[u] \in Ptr
    BY DEF IInv, Control, ControlTypes
  <1>2. SnapshotHeld'
    <2> SUFFICES ASSUME NEW u \in Thread \ {t}, pc[u] = "locked"
                 PROVE  hasOld[u] = initialized'[this[u]] /\ oldResource[u] = resource'[this[u]]
      BY DEF SnapshotHeld, OthersSame
    <2> QED BY <1>1 DEF IInv, SnapshotHeld
  <1>3. Working'
    BY <1>1 DEF IInv, Working, WorksOn, OthersSame
  <1> QED BY <1>2, <1>3

\* reset(): the object gets the new resource, the thread carries the old.
LEMMA ResetStep ==
  ASSUME IInv, NEW t \in Thread, ResetBody(t)
  PROVE  IInv'
  <1> USE ConstantsAssumption
  <1>0. PICK p, r, old : p = this[t] /\ r = arg[t] /\ old = resource[p]
    OBVIOUS
  <1>1. pc[t] = "locked" /\ call[t] = "reset" /\ r \in Resource
    BY <1>0 DEF IInv, Control, ControlTypes, Stages, ResetBody, InBody, Handle
  <1>2. /\ p \in Ptr /\ p \in alive /\ ~Drained(p) /\ ~Awaiting(p)
        /\ hasOld[t] = initialized[p] /\ oldResource[t] = old
        /\ \A u \in Thread \ {t} :
              /\ pc[u] \in {"locked", "delete", "take", "clear"} => this[u] # p
              /\ pc[u] \in {"take", "clear"} => other[u] # p
        /\ \A u \in Thread : pc[u] # "idle" => this[u] \in Ptr /\ other[u] \in Ptr
    BY <1>0, <1>1, BodyFacts DEF IInv, Control, ControlTypes
  <1>3. /\ resource' = [resource EXCEPT ![p] = r] /\ initialized' = [initialized EXCEPT ![p] = TRUE]
        /\ bound' = [bound EXCEPT ![r] = delete[p]] /\ UNCHANGED <<delete, caller, calls>>
    BY <1>0 DEF ResetBody
  <1>4. initialized[p] => old \in Resource
    BY <1>0, <1>2 DEF IInv, Contents
  <1>5. /\ OthersSame(t) /\ alive' = alive
        /\ IF initialized[p] THEN pc'[t] = "delete" /\ arg'[t] = old /\ call'[t] = "reset" /\ this'[t] = p
                             ELSE pc'[t] = "idle" /\ arg'[t] = Nothing
    BY <1>0, <1>1, <1>2 DEF IInv, Control, ControlTypes, DataTypes, OthersSame, ResetBody, Goto, Leave,
                      Forget, params, seen
  <1>6. Control'
    <2>1. CASE hasOld[t]
      <3>1. Goto(t, "delete") /\ arg' = [arg EXCEPT ![t] = old] /\ old \in Handle /\ old # Nothing
        BY <1>0, <1>2, <1>4, <2>1 DEF ResetBody, Handle
      <3> QED BY <1>1, <3>1, GotoControl DEF IInv, Control, ControlTypes
    <2>2. CASE ~hasOld[t]
      BY <1>0, <1>1, <2>2, LeaveControl DEF IInv, ResetBody
    <2> QED BY <2>1, <2>2
  <1>7. DataTypes'
    <2>1. UNCHANGED seen \/ Forget(t)
      BY DEF ResetBody, Leave
    <2> QED BY <1>1, <1>2, <1>3, <2>1 DEF IInv, DataTypes, Forget, Handle, seen
  <1>8. SnapshotHeld' /\ Working'
    <2>1. \A x \in Ptr \ {p} : resource'[x] = resource[x] /\ initialized'[x] = initialized[x]
      BY <1>3 DEF IInv, DataTypes
    <2>2. pc'[t] # "locked" /\ WorksOn(t)' /\ OthersSame(t)
      BY <1>5 DEF WorksOn
    <2>3. {p} \in SUBSET Ptr
      BY <1>2
    <2> QED BY <1>2, <2>1, <2>2, <2>3, OthersUndisturbed
  <1>9. Contents'
    BY <1>0, <1>1, <1>2, <1>3, <1>5 DEF IInv, DataTypes, Contents, OthersSame
  <1>11. /\ Holder(r) = {} /\ Carrier(r) = {t} /\ calls[r] = 0 /\ r \notin caller
         /\ initialized[p] => /\ Holder(old) = {p} /\ Carrier(old) = {} /\ old # r
                              /\ calls[old] = 0 /\ old \notin caller
    BY <1>0, <1>1, <1>2, <1>4 DEF IInv, DataTypes, Owned, OneOwner, Holder, Owns, Carrier
  <1>12. Owned'
    <2>1. \A q \in Ptr : Drained(q)' <=> Drained(q)
      BY <1>1, <1>5 DEF Drained, OthersSame
    <2>2. Holder(r)' = {p} /\ (initialized[p] => Holder(old)' = {})
      BY <1>0, <1>2, <1>3, <1>11, <2>1 DEF IInv, DataTypes, Holder, Owns
    <2>3. Carrier(r)' = {} /\ (initialized[p] => Carrier(old)' = {t})
      BY <1>0, <1>1, <1>4, <1>5, <1>11 DEF Carrier, OthersSame
    <2>4. \A s \in Resource : s # r /\ (initialized[p] => s # old) =>
             Holder(s)' = Holder(s) /\ Carrier(s)' = Carrier(s)
      BY <1>0, <1>1, <1>2, <1>3, <1>5, <2>1 DEF IInv, DataTypes, Holder, Owns, Carrier, OthersSame
    <2> QED BY <1>3, <1>11, <2>2, <2>3, <2>4 DEF IInv, Owned, OneOwner, NeverLost, NoDoubleDelete
  <1>13. Deleters'
    <2>1. \A q \in Ptr : initialized[q] => resource[q] # r
      BY <1>11, HeldIsOwned
    <2>2. \A q \in Ptr : Awaiting(q)' <=> Awaiting(q)
      BY <1>1, <1>5 DEF Awaiting, OthersSame
    <2>3. DeleterTravels'
      BY <1>0, <1>1, <1>2, <1>3, <1>5, <2>1, <2>2
         DEF IInv, Control, ControlTypes, DataTypes, Deleters, DeleterTravels, OthersSame
    <2>4. RightDeleter'
      BY <1>0, <1>1, <1>2, <1>3, <1>4, <1>5, <1>11
         DEF IInv, DataTypes, Deleters, DeleterTravels, RightDeleter, OthersSame, Carrier
    <2> QED BY <2>3, <2>4 DEF Deleters
  <1> QED BY <1>6, <1>7, <1>8, <1>9, <1>12, <1>13 DEF IInv

\* release(): the client gets the resource, or the call throws.
LEMMA ReleaseStep ==
  ASSUME IInv, NEW t \in Thread, ReleaseBody(t)
  PROVE  IInv'
  <1> USE ConstantsAssumption
  <1>0. PICK p, old : p = this[t] /\ old = resource[p]
    OBVIOUS
  <1>1. pc[t] = "locked" /\ call[t] = "release" /\ arg[t] = Nothing
    BY DEF IInv, Control, Stages, ReleaseBody, InBody
  <1>2. /\ p \in Ptr /\ p \in alive /\ ~Drained(p) /\ ~Awaiting(p)
        /\ hasOld[t] = initialized[p] /\ oldResource[t] = old
        /\ \A u \in Thread \ {t} :
              /\ pc[u] \in {"locked", "delete", "take", "clear"} => this[u] # p
              /\ pc[u] \in {"take", "clear"} => other[u] # p
    BY <1>0, <1>1, BodyFacts
  <1>3. CASE ~hasOld[t]
    BY <1>1, <1>3, LeaveQuietly DEF ReleaseBody, fields, ghosts
  <1>4. CASE hasOld[t]
    <2>1. /\ initialized' = [initialized EXCEPT ![p] = FALSE] /\ caller' = caller \cup {old}
          /\ bound' = [bound EXCEPT ![old] = Nothing] /\ UNCHANGED <<resource, delete, calls>>
          /\ initialized[p] /\ old \in Resource /\ Leave(t)
      BY <1>0, <1>2, <1>4 DEF IInv, Contents, ReleaseBody
    <2>2. OthersSame(t) /\ alive' = alive /\ pc'[t] = "idle" /\ arg' = arg
      BY <1>1, <2>1 DEF IInv, Control, ControlTypes, DataTypes, OthersSame, Leave, Forget
    <2>3. Control'
      BY <1>1, <2>1, LeaveControl DEF IInv
    <2>4. DataTypes'
      BY <1>2, <2>1 DEF IInv, DataTypes, Leave, Forget, Handle
    <2>5. SnapshotHeld' /\ Working'
      <3>1. \A x \in Ptr \ {p} : resource'[x] = resource[x] /\ initialized'[x] = initialized[x]
        BY <2>1 DEF IInv, DataTypes
      <3>2. WorksOn(t)' /\ {p} \in SUBSET Ptr
        BY <1>2, <2>2 DEF WorksOn
      <3> QED BY <1>2, <2>2, <3>1, <3>2, OthersUndisturbed
    <2>6. Contents'
      BY <1>1, <1>2, <2>1, <2>2 DEF IInv, DataTypes, Contents, OthersSame
    <2>7. Holder(old) = {p} /\ Carrier(old) = {} /\ calls[old] = 0
      BY <1>0, <1>2, <2>1 DEF IInv, DataTypes, Owned, OneOwner, Holder, Owns
    <2>8. Owned'
      <3>1. \A q \in Ptr : Drained(q)' <=> Drained(q)
        BY <1>1, <2>2 DEF Drained, OthersSame
      <3>2. Holder(old)' = {} /\ \A s \in Resource \ {old} : Holder(s)' = Holder(s)
        BY <1>0, <1>2, <2>1, <2>7, <3>1 DEF IInv, DataTypes, Holder, Owns
      <3>3. \A s \in Resource : Carrier(s)' = Carrier(s)
        BY <2>2 DEF Carrier
      <3> QED BY <2>1, <2>7, <3>2, <3>3 DEF IInv, Owned, OneOwner, NeverLost, NoDoubleDelete
    <2>9. Deleters'
      <3>1. \A q \in Ptr : initialized'[q] => resource[q] # old
        <4> SUFFICES ASSUME NEW q \in Ptr \ {p}, initialized[q], resource[q] = old PROVE FALSE
          BY <2>1 DEF IInv, DataTypes
        <4>1. PICK u \in Thread : pc[u] = "clear" /\ this[u] = p
          BY <2>7, HeldIsOwned
        <4> QED BY <1>1, <1>2, <4>1
      <3>2. DeleterTravels'
        BY <1>1, <2>1, <2>2, <3>1 DEF IInv, DataTypes, Deleters, DeleterTravels, Awaiting, OthersSame
      <3>3. RightDeleter'
        BY <2>1, <2>2, <2>7 DEF IInv, DataTypes, Deleters, RightDeleter, OthersSame, Carrier
      <3> QED BY <3>2, <3>3 DEF Deleters
    <2> QED BY <2>3, <2>4, <2>5, <2>6, <2>8, <2>9 DEF IInv
  <1> QED BY <1>3, <1>4

\* dealloc(), the destructor and operator= take the resource to the deleter.
LEMMA DropStep ==
  ASSUME IInv, NEW t \in Thread, DropBody(t)
  PROVE  IInv'
  <1> USE ConstantsAssumption
  <1>0. PICK p, old : p = this[t] /\ old = resource[p]
    OBVIOUS
  <1>1. pc[t] = "locked" /\ call[t] \in {"dealloc", "destroy", "assign"} /\ arg[t] = Nothing
    BY DEF IInv, Control, Stages, DropBody, InBody
  <1>2. /\ p \in Ptr /\ p \in alive /\ ~Drained(p) /\ ~Awaiting(p)
        /\ hasOld[t] = initialized[p] /\ oldResource[t] = old
        /\ \A u \in Thread \ {t} :
              /\ pc[u] \in {"locked", "delete", "take", "clear"} => this[u] # p
              /\ pc[u] \in {"take", "clear"} => other[u] # p
    BY <1>0, <1>1, BodyFacts
  <1>3. /\ initialized' = [initialized EXCEPT ![p] = FALSE] /\ arg' = [arg EXCEPT ![t] = old]
        /\ Goto(t, "delete") /\ UNCHANGED <<resource, delete, seen, ghosts>>
        /\ initialized[p] /\ old \in Resource
    BY <1>0, <1>2 DEF IInv, Contents, DropBody
  <1>4. OthersSame(t) /\ alive' = alive /\ pc'[t] = "delete" /\ arg'[t] = old /\ this'[t] = p
    BY <1>0, <1>3 DEF IInv, Control, ControlTypes, OthersSame, Goto, params, seen
  <1>5. Control'
    <2>1. old \in Handle /\ old # Nothing /\ arg' \in [Thread -> Handle]
      BY <1>3 DEF IInv, Control, ControlTypes, Handle
    <2> QED BY <1>1, <1>3, <1>4, <2>1, GotoControl DEF IInv, OthersSame
  <1>6. DataTypes'
    BY <1>3 DEF IInv, DataTypes, ghosts, seen
  <1>7. SnapshotHeld' /\ Working'
    <2>1. \A x \in Ptr \ {p} : resource'[x] = resource[x] /\ initialized'[x] = initialized[x]
      BY <1>3 DEF IInv, DataTypes
    <2>2. WorksOn(t)' /\ {p} \in SUBSET Ptr
      BY <1>2, <1>3, <1>4 DEF IInv, DataTypes, WorksOn
    <2> QED BY <1>2, <1>4, <2>1, <2>2, OthersUndisturbed
  <1>8. Contents'
    BY <1>1, <1>2, <1>3, <1>4 DEF IInv, DataTypes, Contents, OthersSame
  <1>9. Holder(old) = {p} /\ Carrier(old) = {} /\ calls[old] = 0 /\ old \notin caller
    BY <1>0, <1>2, <1>3 DEF IInv, DataTypes, Owned, OneOwner, Holder, Owns
  <1>10. Owned'
    <2>1. \A q \in Ptr : Drained(q)' <=> Drained(q)
      BY <1>1, <1>4 DEF Drained, OthersSame
    <2>2. Holder(old)' = {} /\ \A s \in Resource \ {old} : Holder(s)' = Holder(s)
      BY <1>0, <1>2, <1>3, <1>9, <2>1 DEF IInv, DataTypes, Holder, Owns
    <2>3. Carrier(old)' = {t} /\ \A s \in Resource \ {old} : Carrier(s)' = Carrier(s)
      BY <1>1, <1>4, <1>9 DEF Carrier, OthersSame
    <2> QED BY <1>3, <1>9, <2>2, <2>3 DEF IInv, Owned, OneOwner, NeverLost, NoDoubleDelete, ghosts
  <1>11. Deleters'
    <2>1. DeleterTravels'
      BY <1>1, <1>2, <1>3, <1>4 DEF IInv, DataTypes, Deleters, DeleterTravels, Awaiting, OthersSame, ghosts
    <2>2. bound[old] = delete[p]
      BY <1>0, <1>2, <1>3 DEF IInv, Deleters, DeleterTravels
    <2>3. RightDeleter'
      BY <1>3, <1>4, <2>2 DEF IInv, Deleters, RightDeleter, OthersSame, ghosts
    <2> QED BY <2>1, <2>3 DEF Deleters
  <1> QED BY <1>5, <1>6, <1>7, <1>8, <1>10, <1>11 DEF IInv

\* What no object holds, none has in resource_ either: the object that a move
\* has filled would hold what its source still has.
LEMMA NobodyKeeps ==
  ASSUME IInv, NEW r \in Resource, Holder(r) = {}, NEW p \in Ptr, initialized[p]
  PROVE  resource[p] # r
  <1> SUFFICES ASSUME resource[p] = r PROVE FALSE
    OBVIOUS
  <1>1. PICK u \in Thread : pc[u] = "clear" /\ other[u] = p /\ this[u] # p
    BY DEF Holder, Owns, Drained
  <1>2. this[u] \in Ptr
    BY <1>1, ConstantsAssumption DEF IInv, Control, ControlTypes
  <1>3. initialized[this[u]] /\ resource[this[u]] = r
    BY <1>1 DEF IInv, Working, WorksOn
  <1>4. PICK w \in Thread : pc[w] = "clear" /\ other[w] = this[u]
    BY <1>2, <1>3 DEF Holder, Owns, Drained
  <1>5. call[w] \in {"assign", "construct"}
    BY <1>4 DEF IInv, Control, Stages
  <1>6. this[u] \in Private(w) /\ this[u] \in Uses(u)
    BY <1>4, <1>5 DEF Private, Uses
  <1>7. w = u
    BY <1>2, <1>6 DEF IInv, Control, PrivateKept
  <1> QED BY <1>1, <1>4, <1>7

\* The deleter returns or throws; the resource is deleted either way.
LEMMA DeleterStep ==
  ASSUME IInv, NEW t \in Thread, RunDeleter(t) \/ ThrowDeleter(t)
  PROVE  IInv'
  <1> USE ConstantsAssumption
  <1>0. PICK r : r = arg[t]
    OBVIOUS
  <1>1. /\ pc[t] = "delete" /\ call[t] \in {"reset", "dealloc", "destroy", "assign"}
        /\ r \in Resource
        /\ calls' = [calls EXCEPT ![r] = @ + 1] /\ UNCHANGED <<fields, caller>>
        /\ bound' = [bound EXCEPT ![r] = Nothing]
    BY <1>0 DEF IInv, Control, ControlTypes, Stages, Handle, RunDeleter, ThrowDeleter
  <1>2. \/ Leave(t)
        \/ /\ call[t] = "assign" /\ Goto(t, "take")
           /\ arg' = [arg EXCEPT ![t] = Nothing] /\ UNCHANGED seen
    BY DEF RunDeleter, ThrowDeleter
  <1>3. /\ OthersSame(t) /\ arg'[t] = Nothing
        /\ \/ pc'[t] = "idle"
           \/ pc'[t] = "take" /\ this'[t] = this[t] /\ call[t] = "assign"
    BY <1>2 DEF IInv, Control, ControlTypes, DataTypes, OthersSame, Leave, Forget, Goto, params, seen
  <1>4. Control'
    <2>1. CASE Leave(t)
      BY <1>1, <2>1, LeaveControl DEF IInv
    <2>2. CASE /\ call[t] = "assign" /\ Goto(t, "take")
               /\ arg' = [arg EXCEPT ![t] = Nothing]
      BY <1>1, <2>2, GotoControl DEF IInv, Control, ControlTypes, Handle
    <2> QED BY <1>2, <2>1, <2>2
  <1>5. DataTypes'
    <2>1. hasOld' \in [Thread -> BOOLEAN] /\ oldResource' \in [Thread -> Handle]
      BY <1>2 DEF IInv, DataTypes, Leave, Forget, seen, Handle
    <2> QED BY <1>1, <2>1 DEF IInv, DataTypes, fields
  <1>6. call[t] # "reset" => ~initialized[this[t]]
    BY <1>1 DEF IInv, Working, WorksOn
  <1>7. \A p \in Ptr : initialized[p] /\ p \notin alive' => p \notin alive
    <2>1. CASE Leave(t)
      BY <1>1, <1>6, <2>1 DEF Leave
    <2>2. CASE Goto(t, "take")
      BY <2>2 DEF Goto
    <2> QED BY <1>2, <2>1, <2>2
  <1>8. SnapshotHeld' /\ Contents' /\ Working'
    <2>1. SnapshotHeld'
      BY <1>1, <1>3 DEF IInv, SnapshotHeld, OthersSame, fields
    <2>2. Contents'
      BY <1>1, <1>3, <1>7 DEF IInv, Contents, OthersSame, fields
    <2>3. Working'
      BY <1>1, <1>3, <1>6 DEF IInv, Working, WorksOn, OthersSame, fields
    <2> QED BY <2>1, <2>2, <2>3
  <1>9. Holder(r) = {} /\ Carrier(r) = {t} /\ calls[r] = 0 /\ r \notin caller
    BY <1>0, <1>1 DEF IInv, DataTypes, Owned, OneOwner, Carrier
  <1>10. Owned'
    <2>1. \A p \in Ptr, s \in Resource : Owns(p, s)' <=> Owns(p, s)
      BY <1>1, <1>3, QuietOwns DEF fields
    <2>2. \A s \in Resource : Holder(s)' = Holder(s)
      BY <2>1 DEF Holder
    <2>3. Carrier(r)' = {} /\ \A s \in Resource \ {r} : Carrier(s)' = Carrier(s)
      BY <1>0, <1>1, <1>3, <1>9 DEF Carrier, OthersSame
    <2>4. calls'[r] = 1 /\ \A s \in Resource \ {r} : calls'[s] = calls[s]
      BY <1>1, <1>9 DEF IInv, DataTypes
    <2> QED BY <1>1, <1>9, <2>2, <2>3, <2>4 DEF IInv, Owned, OneOwner, NeverLost, NoDoubleDelete
  <1>11. Deleters'
    <2>1. \A p \in Ptr : initialized[p] => resource[p] # r
      BY <1>1, <1>9, NobodyKeeps
    <2>2. \A s \in Handle \ {r} : s \in Resource => bound'[s] = bound[s]
      BY <1>1 DEF IInv, DataTypes
    <2>3. DeleterTravels'
      <3> SUFFICES ASSUME NEW p \in Ptr, initialized[p], ~Awaiting(p)'
                   PROVE  bound'[resource[p]] = delete[p]
        BY <1>1 DEF DeleterTravels, fields
      <3>1. ~Awaiting(p)
        BY <1>1, <1>3 DEF Awaiting, OthersSame
      <3>2. bound[resource[p]] = delete[p]
        BY <3>1 DEF IInv, Deleters, DeleterTravels
      <3>3. resource[p] \in Resource /\ resource[p] # r
        BY <2>1 DEF IInv, Contents
      <3> QED BY <2>2, <3>2, <3>3 DEF Handle
    <2>4. RightDeleter'
      <3> SUFFICES ASSUME NEW u \in Thread, pc'[u] = "delete" PROVE delete[this'[u]] = bound'[arg'[u]]
        BY <1>1 DEF RightDeleter, fields
      <3>1. u # t /\ pc[u] = "delete" /\ this'[u] = this[u] /\ arg'[u] = arg[u]
        BY <1>3 DEF OthersSame
      <3>2. arg[u] \in Resource
        BY <3>1 DEF IInv, Control, ControlTypes, Stages, Handle
      <3>3. arg[u] # r
        BY <1>9, <3>1 DEF Carrier
      <3>4. delete[this[u]] = bound[arg[u]]
        BY <3>1 DEF IInv, Deleters, RightDeleter
      <3> QED BY <2>2, <3>1, <3>2, <3>3, <3>4 DEF Handle
    <2> QED BY <2>3, <2>4 DEF Deleters
  <1> QED BY <1>4, <1>5, <1>8, <1>10, <1>11 DEF IInv

-----------------------------------------------------------------------------
(* The two halves of a move, from q == other[t] to p == this[t].           *)

\* In a move nobody else uses the source, or is at work on the target.
LEMMA MoveFacts ==
  ASSUME IInv, NEW t \in Thread, pc[t] \in {"take", "clear"}
  PROVE  /\ this[t] \in Ptr /\ other[t] \in Ptr /\ other[t] \in alive
         /\ call[t] \in {"assign", "construct"} /\ arg[t] = Nothing
         /\ this[t] \in alive <=> call[t] = "assign"
         /\ \A u \in Thread \ {t} :
              /\ pc[u] \in {"locked", "delete", "take", "clear"} => this[u] # this[t]
              /\ pc[u] \in {"take", "clear"} => other[u] # this[t]
              /\ this[u] # other[t] /\ other[u] # other[t]
  <1> USE ConstantsAssumption
  <1>1. /\ this[t] \in Ptr /\ other[t] \in Ptr /\ other[t] \in alive
        /\ call[t] \in {"assign", "construct"} /\ arg[t] = Nothing
        /\ this[t] \in alive <=> call[t] = "assign"
    BY DEF IInv, Control, ControlTypes, Stages
  <1>2. other[t] \in Private(t) /\ (this[t] \in Critical(t) \/ this[t] \in Private(t))
    BY <1>1 DEF Private, Critical, InSection
  <1> QED BY <1>1, <1>2, Apart DEF IInv

\* The first half: the target gets the resource, the source is drained.
LEMMA TakeStep ==
  ASSUME IInv, NEW t \in Thread, TakeSource(t)
  PROVE  IInv'
  <1> USE ConstantsAssumption
  <1>0. PICK p, q, r : p = this[t] /\ q = other[t] /\ r = resource[q]
    OBVIOUS
  <1>1. /\ p \in Ptr /\ q \in Ptr /\ arg[t] = Nothing /\ call[t] \in {"assign", "construct"}
        /\ p \in alive <=> call[t] = "assign"
        /\ \A u \in Thread \ {t} :
              /\ pc[u] \in {"locked", "delete", "take", "clear"} => this[u] # p
              /\ pc[u] \in {"take", "clear"} => other[u] # p
              /\ this[u] # q /\ other[u] # q
        /\ pc[t] = "take"
    BY <1>0, MoveFacts DEF TakeSource
  <1>2. /\ resource' = [resource EXCEPT ![p] = r]
        /\ initialized' = [initialized EXCEPT ![p] = initialized[q]]
        /\ delete' = IF call[t] = "construct" THEN [delete EXCEPT ![p] = delete[q]] ELSE delete
        /\ Goto(t, "clear") /\ UNCHANGED <<arg, seen, ghosts>>
        /\ ~initialized[p]
    BY <1>0, <1>1 DEF IInv, Working, WorksOn, TakeSource
  <1>3. /\ OthersSame(t) /\ alive' = alive /\ arg' = arg
        /\ pc'[t] = "clear" /\ this'[t] = p /\ other'[t] = q /\ call'[t] = call[t]
    BY <1>0, <1>2 DEF IInv, Control, ControlTypes, OthersSame, Goto, params, seen
  <1>4. Control'
    BY <1>1, <1>2, <1>3, GotoControl DEF IInv, Control, ControlTypes, Handle, OthersSame
  <1>5. DataTypes'
    BY <1>0, <1>1, <1>2 DEF IInv, DataTypes, ghosts, seen
  <1>6. SnapshotHeld' /\ Working'
    <2>1. \A x \in Ptr \ {p} : resource'[x] = resource[x] /\ initialized'[x] = initialized[x]
      BY <1>2 DEF IInv, DataTypes
    <2>2. WorksOn(t)' /\ {p} \in SUBSET Ptr
      BY <1>0, <1>1, <1>2, <1>3 DEF IInv, DataTypes, WorksOn
    <2> QED BY <1>1, <1>3, <2>1, <2>2, OthersUndisturbed
  <1>7. Contents'
    <2>1. \A x \in Ptr : initialized'[x] => resource'[x] \in Resource
      BY <1>0, <1>1, <1>2 DEF IInv, DataTypes, Contents
    <2>2. ASSUME NEW x \in Ptr, initialized'[x], x \notin alive'
          PROVE \E u \in Thread : pc'[u] = "clear" /\ call'[u] = "construct" /\ this'[u] = x
      BY <1>1, <1>2, <1>3, <2>2 DEF IInv, DataTypes, Contents, OthersSame
    <2> QED BY <2>1, <2>2 DEF Contents
  <1>8. /\ ~Drained(q) /\ ~Drained(p) /\ (p = q => ~initialized[q])
        /\ initialized[q] => r \in Resource /\ Holder(r) = {q}
    <2>1. ~Drained(q) /\ ~Drained(p) /\ (p = q => ~initialized[q])
      BY <1>1, <1>2 DEF Drained
    <2> QED BY <1>0, <1>1, <2>1 DEF IInv, DataTypes, Contents, Owned, OneOwner, Holder, Owns
  <1>9. Owned'
    <2>1. \A x \in Ptr \ {q} : Drained(x)' <=> Drained(x)
      BY <1>1, <1>3 DEF Drained, OthersSame
    <2>2. p # q => Drained(q)'
      BY <1>3 DEF Drained
    <2>3. \A s \in Resource : Holder(s)' = IF initialized[q] /\ s = r THEN {p} ELSE Holder(s)
      BY <1>0, <1>1, <1>2, <1>8, <2>1, <2>2 DEF IInv, DataTypes, Holder, Owns
    <2>4. \A s \in Resource : Carrier(s)' = Carrier(s)
      BY <1>3 DEF Carrier
    <2> QED BY <1>2, <1>8, <2>3, <2>4 DEF IInv, Owned, OneOwner, NeverLost, NoDoubleDelete, ghosts
  <1>10. Deleters'
    <2>1. \A x \in Ptr \ {p} : Awaiting(x)' <=> Awaiting(x)
      BY <1>1, <1>3 DEF Awaiting, OthersSame
    <2>2. call[t] = "assign" => Awaiting(p)'
      BY <1>3 DEF Awaiting
    <2>3. p # q => ~Awaiting(q)
      BY <1>1 DEF Awaiting
    <2>4. DeleterTravels'
      BY <1>0, <1>1, <1>2, <1>8, <2>1, <2>2, <2>3 DEF IInv, DataTypes, Deleters, DeleterTravels, ghosts
    <2>5. RightDeleter'
      BY <1>1, <1>2, <1>3 DEF IInv, Control, ControlTypes, DataTypes, Deleters, RightDeleter, OthersSame, ghosts
    <2> QED BY <2>4, <2>5 DEF Deleters
  <1> QED BY <1>4, <1>5, <1>6, <1>7, <1>9, <1>10 DEF IInv

\* The second half: the source is empty, the deleter has followed.
LEMMA ClearStep ==
  ASSUME IInv, NEW t \in Thread, ClearSource(t)
  PROVE  IInv'
  <1> USE ConstantsAssumption
  <1>0. PICK p, q : p = this[t] /\ q = other[t]
    OBVIOUS
  <1>1. /\ p \in Ptr /\ q \in Ptr /\ q \in alive /\ arg[t] = Nothing /\ pc[t] = "clear"
        /\ call[t] \in {"assign", "construct"}
        /\ p \in alive <=> call[t] = "assign"
        /\ \A u \in Thread \ {t} :
              /\ pc[u] \in {"locked", "delete", "take", "clear"} => this[u] # p
              /\ pc[u] \in {"take", "clear"} => other[u] # p
              /\ this[u] # q /\ other[u] # q
    BY <1>0, MoveFacts DEF ClearSource
  <1>2. /\ initialized' = [initialized EXCEPT ![q] = FALSE]
        /\ delete' = IF call[t] = "assign" THEN [delete EXCEPT ![p] = delete[q]] ELSE delete
        /\ Leave(t) /\ UNCHANGED <<resource, ghosts>>
    BY <1>0 DEF ClearSource
  <1>3. /\ OthersSame(t) /\ pc'[t] = "idle" /\ arg' = arg /\ alive \subseteq alive'
        /\ p \in alive'
    <2>1. OthersSame(t) /\ pc'[t] = "idle" /\ arg' = arg
      BY <1>1, <1>2 DEF IInv, Control, ControlTypes, DataTypes, OthersSame, Leave, Forget
    <2>2. alive \subseteq alive' /\ p \in alive'
      <3>1. CASE call[t] = "construct"
        BY <1>0, <1>2, <3>1 DEF Leave
      <3>2. CASE call[t] = "assign"
        <4>1. alive' = alive
          BY <1>2, <3>2 DEF Leave
        <4> QED BY <1>1, <3>2, <4>1
      <3> QED BY <1>1, <3>1, <3>2
    <2> QED BY <2>1, <2>2
  <1>4. resource[p] = resource[q] /\ initialized[p] = initialized[q] /\ (p = q => ~initialized[p])
    BY <1>0, <1>1 DEF IInv, Working, WorksOn
  <1>5. Control'
    BY <1>1, <1>2, LeaveControl DEF IInv
  <1>6. DataTypes'
    <2>1. hasOld' \in [Thread -> BOOLEAN] /\ oldResource' \in [Thread -> Handle]
      BY <1>2 DEF IInv, DataTypes, Leave, Forget, Handle
    <2> QED BY <1>1, <1>2, <2>1 DEF IInv, DataTypes, ghosts
  <1>7. SnapshotHeld' /\ Working'
    <2>1. \A x \in Ptr \ {q} : resource'[x] = resource[x] /\ initialized'[x] = initialized[x]
      BY <1>2 DEF IInv, DataTypes
    <2>2. WorksOn(t)' /\ {q} \in SUBSET Ptr
      BY <1>1, <1>3 DEF WorksOn
    <2> QED BY <1>1, <1>3, <2>1, <2>2, OthersUndisturbed
  <1>8. Contents'
    BY <1>0, <1>1, <1>2, <1>3 DEF IInv, DataTypes, Contents, OthersSame
  <1>9. Owned'
    <2>1. \A x \in Ptr \ {q} : Drained(x)' <=> Drained(x)
      BY <1>0, <1>1, <1>3 DEF Drained, OthersSame
    <2>2. Drained(q) \/ ~initialized[q]
      BY <1>0, <1>1, <1>4 DEF Drained
    <2>3. \A x \in Ptr, s \in Resource : Owns(x, s)' <=> Owns(x, s)
      BY <1>1, <1>2, <2>1, <2>2 DEF IInv, DataTypes, Owns
    <2> QED BY <1>2, <1>3, <2>3, NoTransfer DEF IInv, ghosts
  <1>10. Deleters'
    <2>1. \A x \in Ptr \ {p} : Awaiting(x)' <=> Awaiting(x)
      BY <1>0, <1>1, <1>3 DEF Awaiting, OthersSame
    <2>2. p # q => ~Awaiting(q)
      BY <1>0, <1>1 DEF Awaiting
    <2>3. call[t] # "assign" => ~Awaiting(p)
      BY <1>0, <1>1 DEF Awaiting
    <2>4. DeleterTravels'
      BY <1>1, <1>2, <1>4, <2>1, <2>2, <2>3 DEF IInv, DataTypes, Deleters, DeleterTravels, ghosts
    <2>5. RightDeleter'
      BY <1>1, <1>2, <1>3 DEF IInv, Control, ControlTypes, DataTypes, Deleters, RightDeleter, OthersSame, ghosts
    <2> QED BY <2>4, <2>5 DEF Deleters
  <1> QED BY <1>5, <1>6, <1>7, <1>8, <1>9, <1>10 DEF IInv

\* swap(): resource, deleter and flag change places together.
LEMMA SwapStep ==
  ASSUME IInv, NEW t \in Thread, SwapBody(t)
  PROVE  IInv'
  <1> USE ConstantsAssumption
  <1>0. PICK p, q : p = this[t] /\ q = other[t]
    OBVIOUS
  <1>1. /\ p \in Ptr /\ q \in Ptr /\ p # q /\ p \in alive /\ q \in alive
        /\ arg[t] = Nothing /\ pc[t] = "locked" /\ call[t] = "swap"
        /\ p \in Critical(t) /\ q \in Critical(t)
    BY <1>0 DEF IInv, Control, ControlTypes, Stages, Critical, InSection, TwoLock, SwapBody, InBody
  <1>2. \A u \in Thread \ {t} :
          /\ pc[u] \in {"locked", "delete", "take", "clear"} => this[u] # p /\ this[u] # q
          /\ pc[u] \in {"take", "clear"} => other[u] # p /\ other[u] # q
    BY <1>1, Apart DEF IInv
  <1>3. /\ resource' = [resource EXCEPT ![p] = resource[q], ![q] = resource[p]]
        /\ delete' = [delete EXCEPT ![p] = delete[q], ![q] = delete[p]]
        /\ initialized' = [initialized EXCEPT ![p] = initialized[q], ![q] = initialized[p]]
        /\ Leave(t) /\ UNCHANGED ghosts
    BY <1>0 DEF SwapBody
  <1>4. OthersSame(t) /\ pc'[t] = "idle" /\ arg' = arg /\ alive' = alive
    BY <1>1, <1>3 DEF IInv, Control, ControlTypes, DataTypes, OthersSame, Leave, Forget
  <1>5. /\ \A x \in Ptr \ {p, q} : /\ resource'[x] = resource[x] /\ delete'[x] = delete[x]
                                   /\ initialized'[x] = initialized[x]
        /\ resource'[p] = resource[q] /\ delete'[p] = delete[q] /\ initialized'[p] = initialized[q]
        /\ resource'[q] = resource[p] /\ delete'[q] = delete[p] /\ initialized'[q] = initialized[p]
    BY <1>1, <1>3 DEF IInv, DataTypes
  <1>6. Control'
    BY <1>1, <1>3, LeaveControl DEF IInv
  <1>7. DataTypes'
    <2>1. hasOld' \in [Thread -> BOOLEAN] /\ oldResource' \in [Thread -> Handle]
      BY <1>3 DEF IInv, DataTypes, Leave, Forget, Handle
    <2> QED BY <1>1, <1>3, <2>1 DEF IInv, DataTypes, ghosts
  <1>8. SnapshotHeld' /\ Working'
    <2>1. \A x \in Ptr \ {p, q} : resource'[x] = resource[x] /\ initialized'[x] = initialized[x]
      BY <1>1, <1>3 DEF IInv, DataTypes
    <2>2. WorksOn(t)' /\ {p, q} \in SUBSET Ptr
      BY <1>1, <1>4 DEF WorksOn
    <2> QED BY <1>2, <1>4, <2>1, <2>2, OthersUndisturbed
  <1>9. Contents'
    BY <1>1, <1>4, <1>5 DEF IInv, DataTypes, Contents, OthersSame
  <1>10. Owned'
    <2>1. /\ ~Drained(p) /\ ~Drained(q) /\ ~Drained(p)' /\ ~Drained(q)'
          /\ \A x \in Ptr : Drained(x)' <=> Drained(x)
      BY <1>1, <1>2, <1>4 DEF Drained, OthersSame
    <2>2. \A s \in Resource :
            /\ \A x \in Ptr \ {p, q} : Owns(x, s)' <=> Owns(x, s)
            /\ Owns(p, s)' <=> Owns(q, s)
            /\ Owns(q, s)' <=> Owns(p, s)
      BY <1>1, <1>5, <2>1 DEF Owns
    <2>3. \A s \in Resource : Carrier(s)' = Carrier(s) /\ calls'[s] = calls[s] /\ caller' = caller
      BY <1>3, <1>4 DEF Carrier, ghosts
    <2>4. \A s \in Resource : Holder(s)' = {} <=> Holder(s) = {}
      BY <1>1, <2>2 DEF Holder
    <2>5. \A s \in Resource : \A x, y \in Holder(s)' : x = y
      BY <1>1, <2>2 DEF IInv, Owned, OneOwner, Holder
    <2> QED BY <2>3, <2>4, <2>5 DEF IInv, Owned, OneOwner, NeverLost, NoDoubleDelete
  <1>11. Deleters'
    <2>1. /\ ~Awaiting(p) /\ ~Awaiting(q)
          /\ \A x \in Ptr : Awaiting(x)' <=> Awaiting(x)
      BY <1>1, <1>2, <1>4 DEF Awaiting, OthersSame
    <2>2. DeleterTravels'
      <3> SUFFICES ASSUME NEW x \in Ptr, initialized'[x], ~Awaiting(x)
                   PROVE  bound[resource'[x]] = delete'[x]
        BY <1>3, <2>1 DEF DeleterTravels, ghosts
      <3>1. CASE x \in {p, q}
        BY <1>1, <1>5, <2>1, <3>1 DEF IInv, Deleters, DeleterTravels
      <3>2. CASE x \notin {p, q}
        BY <1>5, <3>2 DEF IInv, Deleters, DeleterTravels
      <3> QED BY <3>1, <3>2
    <2>3. RightDeleter'
      <3> SUFFICES ASSUME NEW u \in Thread \ {t}, pc[u] = "delete"
                   PROVE  delete'[this[u]] = bound[arg[u]]
        <4>1. bound' = bound
          BY <1>3 DEF ghosts
        <4> QED BY <1>4, <4>1 DEF RightDeleter, OthersSame
      <3>1. this[u] \in Ptr \ {p, q}
        BY <1>2 DEF IInv, Control, ControlTypes
      <3> QED BY <1>5, <3>1 DEF IInv, Deleters, RightDeleter
    <2> QED BY <2>2, <2>3 DEF Deleters
  <1> QED BY <1>6, <1>7, <1>8, <1>9, <1>10, <1>11 DEF IInv

-----------------------------------------------------------------------------
\* Whatever a thread calls keeps the invariant.
LEMMA CallStep ==
  ASSUME IInv, NEW t \in Thread, Call(t)
  PROVE  IInv'
  <1> USE ConstantsAssumption DEF Method, OneLock, TwoLock
  <1>0. PICK p \in Ptr :
          \/ \E d \in Deleter : ConstructEmpty(t, p, d)
          \/ \E d \in Deleter, r \in Resource : ConstructHolding(t, p, r, d)
          \/ \E m \in Method : CallPlain(t, m, p)
          \/ \E r \in Resource : CallReset(t, p, r)
          \/ CallDestroy(t, p)
          \/ \E q \in Ptr, m \in TwoLock : CallPair(t, m, p, q)
          \/ \E q \in Ptr : CallAssign(t, p, q) \/ CallMoveConstruct(t, p, q)
    BY DEF Call
  <1>a. \A x \in Ptr : Untouched(t, x) => Reachable(t, x)
    BY DEF Untouched, Reachable, Uses, Private
  <1>1. ASSUME NEW d \in Deleter, ConstructEmpty(t, p, d) PROVE IInv'
    BY <1>1, ConstructEmptyStep
  <1>2. ASSUME NEW d \in Deleter, NEW r \in Resource, ConstructHolding(t, p, r, d) PROVE IInv'
    BY <1>2, ConstructHoldingStep
  <1>3. ASSUME NEW m \in Method, CallPlain(t, m, p) PROVE IInv'
    BY <1>3, BeginStep DEF CallPlain, Admitted, Reachable
  <1>4. ASSUME NEW r \in Resource, CallReset(t, p, r) PROVE IInv'
    BY <1>4, BeginStep DEF CallReset, Admitted, Reachable
  <1>5. CASE CallDestroy(t, p)
    BY <1>a, <1>5, BeginStep DEF CallDestroy, Admitted, Reachable
  <1>6. ASSUME NEW q \in Ptr, NEW m \in TwoLock, CallPair(t, m, p, q) PROVE IInv'
    BY <1>6, BeginStep DEF CallPair, Admitted, Reachable
  <1>7. ASSUME NEW q \in Ptr, CallAssign(t, p, q) PROVE IInv'
    BY <1>a, <1>7, BeginStep DEF CallAssign, Movable, Admitted, Reachable
  <1>8. ASSUME NEW q \in Ptr, CallMoveConstruct(t, p, q) PROVE IInv'
    BY <1>a, <1>8, BeginStep DEF CallMoveConstruct, Movable, Admitted, Reachable
  <1> QED BY <1>0, <1>1, <1>2, <1>3, <1>4, <1>5, <1>6, <1>7, <1>8

\* Whatever a thread does inside a call keeps it.
LEMMA ContinueStep ==
  ASSUME IInv, NEW t \in Thread, Continue(t)
  PROVE  IInv'
  BY LockStep, ReadStep, ResetStep, ReleaseStep, DropStep, AssignEmptyStep, SwapStep,
     DeleterStep, TakeStep, ClearStep DEF Continue

\* The invariant holds at the start, with all resources the client's.
LEMMA InitIInv == Init => IInv
  <1> SUFFICES ASSUME Init PROVE IInv
    OBVIOUS
  <1> USE ConstantsAssumption DEF Init
  <1>1. Control
    BY DEF Control, ControlTypes, Stages, MutexHeld, PrivateKept, Critical, InSection, Private,
           Uses, Stage, Handle, TwoLock, OneLock, Method
  <1>2. DataTypes
    BY DEF DataTypes, Handle
  <1>3. SnapshotHeld /\ Contents /\ Working /\ Deleters
    BY DEF SnapshotHeld, Contents, Working, WorksOn, Deleters, DeleterTravels, RightDeleter
  <1>4. Owned
    BY DEF Owned, OneOwner, NeverLost, NoDoubleDelete, Holder, Owns, Carrier
  <1> QED BY <1>1, <1>2, <1>3, <1>4 DEF IInv

\* Every step, and stuttering, keeps it.
LEMMA NextIInv ==
  IInv /\ [Next]_vars => IInv'
  <1> SUFFICES ASSUME IInv, [Next]_vars PROVE IInv'
    OBVIOUS
  <1>1. CASE Next
    BY <1>1, CallStep, ContinueStep DEF Next
  <1>2. CASE UNCHANGED vars
    <2> USE <1>2 DEF vars, fields, locals, params, seen, ghosts, IInv
    <2>1. Control'
      BY DEF Control, ControlTypes, Stages, MutexHeld, Critical, InSection, PrivateKept, Private, Uses
    <2>2. DataTypes' /\ SnapshotHeld' /\ Contents' /\ Working'
      BY DEF DataTypes, SnapshotHeld, Contents, Working, WorksOn
    <2>3. Owned'
      <3>1. \A p \in Ptr, r \in Resource : Owns(p, r)' <=> Owns(p, r)
        BY DEF Owns, Drained
      <3> QED BY <3>1, NoTransfer
    <2>4. Deleters'
      BY DEF Deleters, DeleterTravels, RightDeleter, Awaiting
    <2> QED BY <2>1, <2>2, <2>3, <2>4
  <1> QED BY <1>1, <1>2

-----------------------------------------------------------------------------
\* The inductive invariant holds throughout.
THEOREM Invariance ==
  Spec => []IInv
  <1>1. Init => IInv
    BY InitIInv
  <1>2. IInv /\ [Next]_vars => IInv'
    BY NextIInv
  <1> QED BY <1>1, <1>2, PTL DEF Spec

\* The state of objects, threads and resources stays well formed.
THEOREM TypeCorrect ==
  Spec => []TypeOK
  <1>1. IInv => TypeOK
    BY DEF IInv, Control, TypeOK
  <1> QED BY <1>1, Invariance, PTL

\* No two objects, threads or clients are ever answerable for one resource.
THEOREM OneOwnerHolds ==
  Spec => []OneOwner
  <1>1. IInv => OneOwner
    BY DEF IInv, Owned
  <1> QED BY <1>1, Invariance, PTL

\* No deleter is called twice for one resource, whether deleters throw or not.
THEOREM NoDoubleDeleteHolds ==
  Spec => []NoDoubleDelete
  <1>1. IInv => NoDoubleDelete
    BY DEF IInv, Owned
  <1> QED BY <1>1, Invariance, PTL

\* No method loses a resource: one that has not been deleted has an owner.
THEOREM NeverLostHolds ==
  Spec => []NeverLost
  <1>1. IInv => NeverLost
    BY DEF IInv, Owned
  <1> QED BY <1>1, Invariance, PTL

\* The deleter that runs is the one its resource was installed with.
THEOREM RightDeleterHolds ==
  Spec => []RightDeleter
  <1>1. IInv => RightDeleter
    BY DEF IInv, Deleters
  <1> QED BY <1>1, Invariance, PTL

\* What a method has read under the lock is still so when it acts on it.
THEOREM SnapshotHeldHolds ==
  Spec => []SnapshotHeld
  <1>1. IInv => SnapshotHeld
    BY DEF IInv
  <1> QED BY <1>1, Invariance, PTL

-----------------------------------------------------------------------------
(* Mutexes are held where they are needed, and only there.                 *)

\* The converse of MutexHeld.
HeldInside ==
  \A t \in Thread, p \in Ptr : Holds(t, p) =>
    p \in Critical(t) \/ (pc[t] = "second" /\ p \in Needs(t))

\* A thread that neither locks nor leaves goes on in its critical section,
\* or outside of it.
GoesOn(t) ==
  /\ UNCHANGED <<mutex, call, this, other>>
  /\ \A u \in Thread : InSection(u)' <=> InSection(u)
  /\ \A u \in Thread : pc'[u] = "second" <=> pc[u] = "second"

\* The steps of a call, as far as mutexes are concerned.
LEMMA LocksOrGoesOn ==
  ASSUME IInv, NEW t \in Thread, Continue(t)
  PROVE  Leave(t) \/ GoesOn(t) \/ \E p \in Ptr : Lock(t, p) \/ TryLock(t, p) \/ BackOff(t, p)
  <1>1. ASSUME NEW stage \in {"delete", "take"}, Goto(t, stage),
               pc[t] \in {"locked", "delete"}, stage = "take" => call[t] = "assign"
        PROVE  GoesOn(t)
    BY <1>1 DEF IInv, Control, ControlTypes, Goto, params, GoesOn, InSection
  <1>2. CASE pc[t] = "take" /\ Goto(t, "clear")
    BY <1>2 DEF IInv, Control, ControlTypes, Goto, params, GoesOn, InSection
  <1>3. CASE ResetBody(t) \/ DropBody(t) \/ AssignEmpty(t) \/ RunDeleter(t)
    BY <1>1, <1>3 DEF ResetBody, DropBody, AssignEmpty, RunDeleter, InBody
  <1>4. CASE TakeSource(t)
    BY <1>2, <1>4 DEF TakeSource
  <1>5. CASE \/ GetBody(t) \/ ReleaseBody(t) \/ DropNothing(t) \/ SwapBody(t) \/ CompareBody(t)
             \/ ThrowDeleter(t) \/ ClearSource(t)
    BY <1>5 DEF GetBody, ReleaseBody, DropNothing, SwapBody, CompareBody, ThrowDeleter, ClearSource
  <1> QED BY <1>3, <1>4, <1>5 DEF Continue

\* Threads that keep their stage keep their mutexes where they were needed.
LEMMA OthersInside ==
  ASSUME HeldInside, NEW u \in Thread, NEW p \in Ptr, Holds(u, p),
         pc'[u] = pc[u], call'[u] = call[u], this'[u] = this[u], other'[u] = other[u]
  PROVE  p \in Critical(u)' \/ (pc'[u] = "second" /\ p \in Needs(u)')
  BY DEF HeldInside, Critical, InSection, Needs

\* Returning, throwing and backing off give every mutex back.
LEMMA LeaveInside ==
  ASSUME IInv, HeldInside, NEW t \in Thread, Leave(t) \/ \E p \in Ptr : BackOff(t, p)
  PROVE  HeldInside'
  <1>1. mutex' = [p \in Ptr |-> IF Holds(t, p) THEN Nobody ELSE mutex[p]]
    BY DEF Leave, BackOff
  <1>2. \A u \in Thread \ {t} : /\ pc'[u] = pc[u] /\ call'[u] = call[u]
                                /\ this'[u] = this[u] /\ other'[u] = other[u]
    BY DEF IInv, Control, ControlTypes, Leave, BackOff, Forget, params
  <1>3. \A u \in Thread, p \in Ptr : Holds(u, p)' => u # t /\ Holds(u, p)
    BY <1>1, ConstantsAssumption DEF Holds
  <1> QED BY <1>2, <1>3, OthersInside DEF HeldInside

\* A mutex is taken for the critical section that the call is going to enter.
LEMMA LockInside ==
  ASSUME IInv, HeldInside, NEW t \in Thread, NEW x \in Ptr, Lock(t, x) \/ TryLock(t, x)
  PROVE  HeldInside'
  <1> USE DEF params
  <1>1. /\ mutex' = [mutex EXCEPT ![x] = t] /\ x \in Needs(t)
        /\ \A u \in Thread : call'[u] = call[u] /\ this'[u] = this[u] /\ other'[u] = other[u]
        /\ \A u \in Thread \ {t} : pc'[u] = pc[u]
    BY DEF IInv, Control, ControlTypes, Lock, TryLock
  <1>2. \A u \in Thread \ {t}, p \in Ptr : Holds(u, p)' => Holds(u, p)
    BY <1>1 DEF IInv, Control, ControlTypes, Holds
  <1>3. \A p \in Ptr : Holds(t, p)' => p = x \/ Holds(t, p)
    BY <1>1 DEF IInv, Control, ControlTypes, Holds
  <1>4. \A p \in Ptr : Holds(t, p) => pc[t] = "second" /\ p \in Needs(t)
    BY DEF HeldInside, Critical, InSection, Lock, TryLock
  <1>5. \/ pc'[t] = "second"
        \/ pc'[t] = "locked" /\ (call[t] \in TwoLock \/ Needs(t) = {this[t]})
    BY DEF IInv, Control, ControlTypes, Lock, TryLock, Needs
  <1>6. \A p \in Needs(t) \cap Ptr : p \in Critical(t)' \/ (pc'[t] = "second" /\ p \in Needs(t)')
    BY <1>1, <1>5 DEF Critical, InSection, Needs
  <1> QED BY <1>1, <1>2, <1>3, <1>4, <1>6, OthersInside DEF HeldInside

\* Every step of every call keeps it.
LEMMA NextInside == IInv /\ HeldInside /\ [Next]_vars => HeldInside'
  <1> SUFFICES ASSUME IInv, HeldInside, [Next]_vars PROVE HeldInside'
    OBVIOUS
  <1>1. ASSUME NEW t \in Thread, Continue(t) PROVE HeldInside'
    <2>1. CASE GoesOn(t)
      BY <2>1 DEF GoesOn, HeldInside, Holds, Critical, Needs
    <2> QED BY <1>1, <2>1, LocksOrGoesOn, LeaveInside, LockInside
  <1>2. ASSUME NEW t \in Thread, NEW method, NEW p, NEW q, NEW r, NEW stage,
               Begin(t, method, p, q, r, stage)
        PROVE  HeldInside'
    <2>1. \A x \in Ptr : ~Holds(t, x)
      BY <1>2 DEF HeldInside, Critical, InSection, Begin
    <2>2. mutex' = mutex /\ \A u \in Thread \ {t} : /\ pc'[u] = pc[u] /\ call'[u] = call[u]
                                                    /\ this'[u] = this[u] /\ other'[u] = other[u]
      BY <1>2 DEF IInv, Control, ControlTypes, Begin
    <2> QED BY <2>1, <2>2, OthersInside DEF HeldInside, Holds
  <1>3. CASE UNCHANGED <<mutex, pc, params>>
    BY <1>3 DEF params, HeldInside, Holds, Critical, InSection, Needs
  <1>4. ASSUME NEW t \in Thread, NEW p \in Ptr, NEW d \in Deleter,
               ConstructEmpty(t, p, d) \/ \E r \in Resource : ConstructHolding(t, p, r, d)
        PROVE  HeldInside'
    BY <1>3, <1>4 DEF ConstructEmpty, ConstructHolding, locals
  <1>5. ASSUME NEW t \in Thread, NEW p \in Ptr, NEW q \in Ptr, NEW m, NEW r,
               \/ CallPlain(t, m, p) \/ CallReset(t, p, r) \/ CallDestroy(t, p)
               \/ CallPair(t, m, p, q) \/ CallAssign(t, p, q) \/ CallMoveConstruct(t, p, q)
        PROVE  HeldInside'
    BY <1>2, <1>5 DEF CallPlain, CallReset, CallDestroy, CallPair, CallAssign, CallMoveConstruct
  <1>6. CASE UNCHANGED vars
    BY <1>3, <1>6 DEF vars, locals
  <1> QED BY <1>1, <1>4, <1>5, <1>6 DEF Next, Call

\* Nobody waits for a mutex with another one in hand, and nobody keeps one
\* that it does not need, for any number of threads and objects.
THEOREM NoHoldAndWaitHolds ==
  Spec => []NoHoldAndWait
  <1>1. Init => HeldInside
    BY ConstantsAssumption DEF Init, HeldInside, Holds
  <1>2. IInv /\ HeldInside /\ [Next]_vars => HeldInside'
    BY NextInside
  <1>3. HeldInside => NoHoldAndWait
    BY DEF HeldInside, NoHoldAndWait, Critical, InSection, Needs
  <1> QED BY <1>1, <1>2, <1>3, Invariance, PTL DEF Spec

-----------------------------------------------------------------------------
(* The methods implement the transfer of ownership that ResourceOwnership  *)
(* describes: each of their steps is one abstract step, or leaves every    *)
(* resource with its owner.                                                *)

Given(r)   == r \in caller \/ \E t \in Thread : arg[t] = r /\ pc[t] # "delete"
GivenUp(r) == \E t \in Thread : arg[t] = r /\ pc[t] = "delete"

(* What it takes for r to have each of the abstract owners.                *)
OwnerIs(r) ==
  /\ OwnerOf(r) = "deleted" <=> calls[r] > 0
  /\ OwnerOf(r) = "doomed" <=> GivenUp(r)
  /\ OwnerOf(r) = "caller" <=> Given(r)
  /\ \A p \in Ptr : OwnerOf(r) = p <=> Owns(p, r)
  /\ OwnerOf(r) \in {"deleted", "doomed", "caller"} \cup Ptr
Reading == \A r \in Resource : OwnerIs(r)

\* The invariant makes the cases of OwnerOf exclusive and complete.
LEMMA OwnerReads == IInv => Reading
  <1> SUFFICES ASSUME IInv, NEW r \in Resource PROVE OwnerIs(r)
    BY DEF Reading
  <1> USE ConstantsAssumption
  <1>1. calls[r] \in Nat
    BY DEF IInv, DataTypes
  <1>2. /\ \A p, q \in Holder(r) : p = q
        /\ \A t, u \in Carrier(r) : t = u
        /\ Holder(r) # {} => Carrier(r) = {}
        /\ r \in caller => Holder(r) = {} /\ Carrier(r) = {}
        /\ calls[r] > 0 => Holder(r) = {} /\ Carrier(r) = {} /\ r \notin caller
        /\ r \in caller \/ calls[r] > 0 \/ Holder(r) # {} \/ Carrier(r) # {}
    BY DEF IInv, Owned, OneOwner, NeverLost
  <1>3. /\ GivenUp(r) <=> \E t \in Carrier(r) : pc[t] = "delete"
        /\ Given(r) <=> r \in caller \/ \E t \in Carrier(r) : pc[t] # "delete"
        /\ \A p \in Ptr : Owns(p, r) <=> p \in Holder(r)
    BY DEF GivenUp, Given, Carrier, Holder
  <1>4. Holder(r) \subseteq Ptr
    BY DEF Holder
  <1>5. CASE calls[r] > 0
    BY <1>2, <1>3, <1>5 DEF OwnerOf, OwnerIs
  <1>6. CASE ~(calls[r] > 0) /\ GivenUp(r)
    BY <1>2, <1>3, <1>6 DEF OwnerOf, OwnerIs
  <1>7. CASE ~(calls[r] > 0) /\ ~GivenUp(r) /\ Given(r)
    BY <1>2, <1>3, <1>7 DEF OwnerOf, OwnerIs
  <1>8. CASE ~(calls[r] > 0) /\ ~GivenUp(r) /\ ~Given(r)
    <2>1. Carrier(r) = {} /\ r \notin caller /\ Holder(r) # {}
      BY <1>2, <1>3, <1>8
    <2>2. PICK p \in Ptr : p \in Holder(r)
      BY <1>4, <2>1
    <2>3. OwnerOf(r) = CHOOSE q \in Ptr : q \in Holder(r)
      BY <1>8, <2>1 DEF OwnerOf
    <2>4. OwnerOf(r) \in Ptr /\ OwnerOf(r) \in Holder(r)
      BY <2>2, <2>3
    <2> QED BY <1>2, <1>3, <1>8, <2>4 DEF OwnerIs
  <1> QED BY <1>5, <1>6, <1>7, <1>8

LEMMA OwnerReadsNext == IInv' => Reading'
  BY OwnerReads, PTL

\* A resource that is carried, owned and deleted as before keeps its owner.
Unmoved(r) ==
  /\ calls'[r] = calls[r]
  /\ Given(r)' <=> Given(r)
  /\ GivenUp(r)' <=> GivenUp(r)
  /\ \A p \in Ptr : Owns(p, r)' <=> Owns(p, r)

LEMMA SameOwner ==
  ASSUME Reading, Reading', NEW r \in Resource, Unmoved(r)
  PROVE  OwnerOf(r)' = OwnerOf(r)
  <1>1. OwnerIs(r) /\ OwnerIs(r)'
    BY DEF Reading
  <1>2. CASE OwnerOf(r) \in Ptr
    BY <1>1, <1>2 DEF OwnerIs, Unmoved
  <1>3. CASE OwnerOf(r) \in {"deleted", "doomed", "caller"}
    BY <1>1, <1>3 DEF OwnerIs, Unmoved
  <1> QED BY <1>1, <1>2, <1>3 DEF OwnerIs

Owners == [r \in Resource |-> OwnerOf(r)]

LEMMA NobodyMoves ==
  ASSUME Reading, Reading', \A r \in Resource : Unmoved(r)
  PROVE  UNCHANGED Owners
  BY SameOwner DEF Owners

LEMMA OneMoves ==
  ASSUME Reading, Reading', NEW r \in Resource, \A s \in Resource \ {r} : Unmoved(s)
  PROVE  Owners' = [Owners EXCEPT ![r] = OwnerOf(r)']
  <1>1. \A s \in Resource \ {r} : OwnerOf(s)' = OwnerOf(s)
    BY SameOwner
  <1> QED BY <1>1 DEF Owners

\* A step of t that touches neither fields nor deletions, and keeps hold of
\* what t carries, moves nothing.
LEMMA CarriesOn ==
  ASSUME NEW t \in Thread, OthersSame(t),
         UNCHANGED <<resource, initialized, calls, caller, arg>>,
         pc[t] # "clear", pc'[t] # "clear",
         arg[t] # Nothing => (pc'[t] = "delete" <=> pc[t] = "delete")
  PROVE  \A r \in Resource : Unmoved(r)
  <1> USE ConstantsAssumption
  <1>1. \A p \in Ptr, r \in Resource : Owns(p, r)' <=> Owns(p, r)
    BY QuietOwns
  <1>2. \A u \in Thread, r \in Resource : arg[u] = r => (pc'[u] = "delete" <=> pc[u] = "delete")
    BY DEF OthersSame
  <1>3. \A r \in Resource : (Given(r)' <=> Given(r)) /\ (GivenUp(r)' <=> GivenUp(r))
    BY <1>2 DEF Given, GivenUp
  <1> QED BY <1>1, <1>3 DEF Unmoved

-----------------------------------------------------------------------------
(* Steps that change no owner.                                             *)

\* The call of a method; the argument of reset() stays the client's.
LEMMA BeginMoves ==
  ASSUME IInv, IInv', NEW t \in Thread, NEW method, NEW p, NEW q, NEW r \in caller \cup {Nothing},
         NEW stage, stage \in {"lock", "take"}, Begin(t, method, p, q, r, stage)
  PROVE  UNCHANGED Owners
  <1> USE ConstantsAssumption
  <1>1. /\ OthersSame(t) /\ pc[t] = "idle" /\ pc'[t] = stage /\ arg[t] = Nothing /\ arg'[t] = r
        /\ UNCHANGED <<resource, initialized, calls>> /\ caller' = caller \ {r}
    BY DEF IInv, Control, ControlTypes, Stages, OthersSame, Begin, seen, fields
  <1>2. \A x \in Ptr, s \in Resource : Owns(x, s)' <=> Owns(x, s)
    BY <1>1, QuietOwns
  <1>3. \A s \in Resource : (Given(s)' <=> Given(s)) /\ (GivenUp(s)' <=> GivenUp(s))
    BY <1>1 DEF Given, GivenUp, OthersSame
  <1>4. \A s \in Resource : Unmoved(s)
    BY <1>1, <1>2, <1>3 DEF Unmoved
  <1> QED BY <1>4, NobodyMoves, OwnerReads, OwnerReadsNext

\* Waiting for the mutexes.
LEMMA LockMoves ==
  ASSUME IInv, IInv', NEW t \in Thread, NEW p \in Ptr,
         Lock(t, p) \/ TryLock(t, p) \/ BackOff(t, p)
  PROVE  UNCHANGED Owners
  <1>1. /\ pc[t] \in {"lock", "second"} /\ pc'[t] \in {"lock", "second", "locked"}
        /\ UNCHANGED <<arg, resource, initialized, caller, calls>>
        /\ OthersSame(t)
    BY DEF IInv, Control, ControlTypes, DataTypes, OthersSame, Lock, TryLock, BackOff, Read,
           params, seen, fields, ghosts
  <1> QED BY <1>1, CarriesOn, NobodyMoves, OwnerReads, OwnerReadsNext

\* Bodies that only return or throw.
LEMMA LeaveMoves ==
  ASSUME IInv, IInv', NEW t \in Thread, pc[t] = "locked", arg[t] = Nothing, Leave(t),
         UNCHANGED <<resource, initialized, caller, calls>>
  PROVE  UNCHANGED Owners
  <1>1. pc'[t] = "idle" /\ arg' = arg /\ OthersSame(t)
    BY DEF IInv, Control, ControlTypes, DataTypes, OthersSame, Leave, Forget
  <1> QED BY <1>1, CarriesOn, NobodyMoves, OwnerReads, OwnerReadsNext

LEMMA ReadMoves ==
  ASSUME IInv, IInv', NEW t \in Thread, GetBody(t) \/ CompareBody(t) \/ DropNothing(t)
  PROVE  UNCHANGED Owners
  BY LeaveMoves DEF IInv, Control, Stages, GetBody, CompareBody, DropNothing, InBody, fields, ghosts

\* operator= of an object without a resource.
LEMMA AssignEmptyMoves ==
  ASSUME IInv, IInv', NEW t \in Thread, AssignEmpty(t)
  PROVE  UNCHANGED Owners
  <1>1. /\ pc[t] = "locked" /\ pc'[t] = "take" /\ arg[t] = Nothing
        /\ OthersSame(t) /\ UNCHANGED <<resource, initialized, calls, caller, arg>>
    BY DEF IInv, Control, ControlTypes, Stages, AssignEmpty, InBody, Goto, OthersSame, params,
           fields, ghosts, seen
  <1> QED BY <1>1, CarriesOn, NobodyMoves, OwnerReads, OwnerReadsNext

\* The end of a move: the source had given its resource up already.
LEMMA ClearMoves ==
  ASSUME IInv, IInv', NEW t \in Thread, ClearSource(t)
  PROVE  UNCHANGED Owners
  <1> USE ConstantsAssumption
  <1>0. PICK p, q : p = this[t] /\ q = other[t]
    OBVIOUS
  <1>1. /\ p \in Ptr /\ q \in Ptr /\ arg[t] = Nothing /\ pc[t] = "clear"
        /\ \A u \in Thread \ {t} : this[u] # q /\ other[u] # q
    BY <1>0, MoveFacts DEF ClearSource
  <1>2. /\ initialized' = [initialized EXCEPT ![q] = FALSE]
        /\ Leave(t) /\ UNCHANGED <<resource, caller, calls>>
    BY <1>0 DEF ClearSource, ghosts
  <1>3. OthersSame(t) /\ pc'[t] = "idle" /\ arg' = arg
    BY <1>1, <1>2 DEF IInv, Control, ControlTypes, DataTypes, OthersSame, Leave, Forget
  <1>4. resource[p] = resource[q] /\ initialized[p] = initialized[q] /\ (p = q => ~initialized[p])
    BY <1>0, <1>1 DEF IInv, Working, WorksOn
  <1>5. \A x \in Ptr \ {q} : Drained(x)' <=> Drained(x)
    BY <1>0, <1>1, <1>3 DEF Drained, OthersSame
  <1>6. Drained(q) \/ ~initialized[q]
    BY <1>0, <1>1, <1>4 DEF Drained
  <1>7. \A x \in Ptr, s \in Resource : Owns(x, s)' <=> Owns(x, s)
    BY <1>1, <1>2, <1>5, <1>6 DEF IInv, DataTypes, Owns
  <1>8. \A s \in Resource : (Given(s)' <=> Given(s)) /\ (GivenUp(s)' <=> GivenUp(s))
    BY <1>1, <1>2, <1>3 DEF Given, GivenUp, OthersSame
  <1>9. \A s \in Resource : Unmoved(s)
    BY <1>2, <1>7, <1>8 DEF Unmoved
  <1> QED BY <1>9, NobodyMoves, OwnerReads, OwnerReadsNext

-----------------------------------------------------------------------------
(* Steps that move a resource from one owner to another.                   *)

\* The constructor that is given a resource, and reset() of an object that
\* holds none.
LEMMA AdoptMoves ==
  ASSUME IInv, IInv', NEW p \in Ptr, NEW r \in Resource,
         Given(r), ~initialized[p], Owns(p, r)', \A s \in Resource \ {r} : Unmoved(s)
  PROVE  Ownership!Next
  <1>1. Reading /\ Reading'
    BY OwnerReads, OwnerReadsNext
  <1>2. OwnerOf(r) = "caller" /\ OwnerOf(r)' = p
    BY <1>1 DEF Reading, OwnerIs
  <1>3. \A s \in Resource : OwnerOf(s) # p
    BY <1>1 DEF Reading, OwnerIs, Owns
  <1>4. Owners' = [Owners EXCEPT ![r] = p]
    BY <1>1, <1>2, OneMoves
  <1>5. Ownership!Adopt(r, p)
    BY <1>2, <1>3, <1>4 DEF Ownership!Adopt, Ownership!Vacant, Owners
  <1> QED BY <1>5 DEF Ownership!Next

LEMMA ConstructHoldingMoves ==
  ASSUME IInv, IInv', NEW t \in Thread, NEW p \in Ptr, NEW r \in Resource, NEW d \in Deleter,
         ConstructHolding(t, p, r, d)
  PROVE  Ownership!Next
  <1> USE ConstantsAssumption DEF ConstructHolding, locals, params, seen
  <1>1. ~initialized[p] /\ ~Drained(p)
    BY DeadIsEmpty
  <1>2. \A x \in Ptr : Drained(x)' <=> Drained(x)
    BY DEF Drained
  <1>3. Given(r) /\ Owns(p, r)'
    BY <1>1, <1>2 DEF IInv, DataTypes, Given, Owns
  <1>4. \A x \in Ptr, s \in Resource \ {r} : Owns(x, s)' <=> Owns(x, s)
    BY <1>1, <1>2 DEF IInv, DataTypes, Owns
  <1>5. \A s \in Resource \ {r} : Unmoved(s)
    BY <1>4 DEF Unmoved, Given, GivenUp
  <1> QED BY <1>1, <1>3, <1>5, AdoptMoves

LEMMA ResetMoves ==
  ASSUME IInv, IInv', NEW t \in Thread, ResetBody(t)
  PROVE  Ownership!Next
  <1> USE ConstantsAssumption
  <1>0. PICK p, r, old : p = this[t] /\ r = arg[t] /\ old = resource[p]
    OBVIOUS
  <1>1. pc[t] = "locked" /\ call[t] = "reset" /\ r \in Resource
    BY <1>0 DEF IInv, Control, ControlTypes, Stages, ResetBody, InBody, Handle
  <1>2. /\ p \in Ptr /\ ~Drained(p) /\ hasOld[t] = initialized[p] /\ oldResource[t] = old
    BY <1>0, <1>1, BodyFacts
  <1>3. /\ resource' = [resource EXCEPT ![p] = r] /\ initialized' = [initialized EXCEPT ![p] = TRUE]
        /\ UNCHANGED <<caller, calls>>
    BY <1>0 DEF ResetBody
  <1>4. initialized[p] => old \in Resource
    BY <1>0, <1>2 DEF IInv, Contents
  <1>5. /\ OthersSame(t)
        /\ IF initialized[p] THEN pc'[t] = "delete" /\ arg'[t] = old
                             ELSE pc'[t] = "idle" /\ arg'[t] = Nothing
    BY <1>0, <1>1, <1>2 DEF IInv, Control, ControlTypes, DataTypes, OthersSame, ResetBody, Goto, Leave,
                      Forget, params, seen
  <1>6. \A q \in Ptr : Drained(q)' <=> Drained(q)
    BY <1>1, <1>5 DEF Drained, OthersSame
  <1>7. Given(r) /\ Owns(p, r)'
    BY <1>0, <1>1, <1>2, <1>3, <1>6 DEF IInv, DataTypes, Given, Owns
  <1>8. \A s \in Resource : s # r /\ (initialized[p] => s # old) => Unmoved(s)
    <2>1. \A s \in Resource : s # r /\ (initialized[p] => s # old) =>
            /\ \A x \in Ptr : Owns(x, s)' <=> Owns(x, s)
      BY <1>0, <1>2, <1>3, <1>6 DEF IInv, DataTypes, Owns
    <2>2. \A s \in Resource : s # r /\ (initialized[p] => s # old) =>
            (Given(s)' <=> Given(s)) /\ (GivenUp(s)' <=> GivenUp(s))
      BY <1>0, <1>1, <1>3, <1>5 DEF Given, GivenUp, OthersSame
    <2> QED BY <1>3, <2>1, <2>2 DEF Unmoved
  <1>9. CASE ~initialized[p]
    BY <1>1, <1>2, <1>7, <1>8, <1>9, AdoptMoves
  <1>10. CASE initialized[p]
    <2>1. Reading /\ Reading'
      BY OwnerReads, OwnerReadsNext
    <2>2. OwnerOf(r) = "caller" /\ OwnerOf(r)' = p
      BY <1>1, <1>2, <1>7, <2>1 DEF Reading, OwnerIs
    <2>3. OwnerOf(old) = p
      BY <1>0, <1>2, <1>4, <1>10, <2>1 DEF Reading, OwnerIs, Owns
    <2>4. OwnerOf(old)' = "doomed"
      BY <1>4, <1>5, <1>10, <2>1 DEF Reading, OwnerIs, GivenUp
    <2>5. \A s \in Resource : s # r /\ s # old => OwnerOf(s)' = OwnerOf(s)
      BY <1>8, <2>1, SameOwner
    <2>6. Owners' = [Owners EXCEPT ![old] = "doomed", ![r] = p]
      BY <1>1, <1>2, <2>2, <2>3, <2>4, <2>5 DEF Owners
    <2>7. Ownership!Replace(old, r, p)
      BY <1>1, <1>4, <1>10, <2>2, <2>3, <2>6 DEF Ownership!Replace, Owners
    <2> QED BY <1>1, <1>2, <1>4, <1>10, <2>7 DEF Ownership!Next
  <1> QED BY <1>9, <1>10

\* What a body knows of the resource that its object holds.
LEMMA HeldMoves ==
  ASSUME IInv, NEW t \in Thread, pc[t] = "locked", hasOld[t]
  PROVE  /\ this[t] \in Ptr /\ initialized[this[t]]
         /\ oldResource[t] \in Resource /\ oldResource[t] = resource[this[t]]
         /\ Owns(this[t], oldResource[t])
  BY BodyFacts DEF IInv, Contents, Owns

LEMMA ReleaseMoves ==
  ASSUME IInv, IInv', NEW t \in Thread, ReleaseBody(t)
  PROVE  Ownership!Next \/ UNCHANGED Owners
  <1> USE ConstantsAssumption
  <1>1. pc[t] = "locked" /\ arg[t] = Nothing /\ Leave(t) /\ UNCHANGED <<resource, calls>>
    BY DEF IInv, Control, Stages, ReleaseBody, InBody
  <1>2. CASE ~hasOld[t]
    BY <1>1, <1>2, LeaveMoves DEF ReleaseBody
  <1>3. CASE hasOld[t]
    <2>0. PICK p, old : p = this[t] /\ old = oldResource[t]
      OBVIOUS
    <2>1. /\ p \in Ptr /\ old \in Resource /\ resource[p] = old /\ Owns(p, old)
          /\ initialized' = [initialized EXCEPT ![p] = FALSE] /\ caller' = caller \cup {old}
      BY <1>1, <1>3, <2>0, HeldMoves DEF ReleaseBody
    <2>2. OthersSame(t) /\ pc'[t] = "idle" /\ arg' = arg
      BY <1>1 DEF IInv, Control, ControlTypes, DataTypes, OthersSame, Leave, Forget
    <2>3. \A q \in Ptr : Drained(q)' <=> Drained(q)
      BY <1>1, <2>2 DEF Drained, OthersSame
    <2>4. \A x \in Ptr, s \in Resource \ {old} : Owns(x, s)' <=> Owns(x, s)
      BY <1>1, <2>1, <2>3 DEF IInv, DataTypes, Owns
    <2>5. \A s \in Resource \ {old} : Unmoved(s)
      BY <1>1, <2>1, <2>2, <2>4 DEF Unmoved, Given, GivenUp, OthersSame
    <2>6. Reading /\ Reading'
      BY OwnerReads, OwnerReadsNext
    <2>7. OwnerOf(old) = p /\ OwnerOf(old)' = "caller"
      BY <2>1, <2>6 DEF Reading, OwnerIs, Given
    <2>8. Owners' = [Owners EXCEPT ![old] = "caller"]
      BY <2>1, <2>5, <2>6, <2>7, OneMoves
    <2>9. Ownership!Release(old)
      BY <2>1, <2>7, <2>8 DEF Ownership!Release, Owners
    <2> QED BY <2>1, <2>9 DEF Ownership!Next
  <1> QED BY <1>2, <1>3

\* dealloc(), the destructor and the target of a move.
LEMMA DropMoves ==
  ASSUME IInv, IInv', NEW t \in Thread, DropBody(t)
  PROVE  Ownership!Next
  <1> USE ConstantsAssumption
  <1>0. PICK p, old : p = this[t] /\ old = oldResource[t]
    OBVIOUS
  <1>1. pc[t] = "locked" /\ hasOld[t] /\ arg[t] = Nothing
    BY DEF IInv, Control, Stages, DropBody, InBody
  <1>2. p \in Ptr /\ old \in Resource /\ resource[p] = old /\ Owns(p, old)
    BY <1>0, <1>1, HeldMoves
  <1>3. /\ initialized' = [initialized EXCEPT ![p] = FALSE]
        /\ UNCHANGED <<resource, caller, calls>>
    BY <1>0 DEF DropBody, ghosts
  <1>4. OthersSame(t) /\ pc'[t] = "delete" /\ arg'[t] = old
    BY <1>0, <1>1 DEF IInv, Control, ControlTypes, OthersSame, DropBody, Goto, params, seen
  <1>5. \A q \in Ptr : Drained(q)' <=> Drained(q)
    BY <1>1, <1>4 DEF Drained, OthersSame
  <1>6. \A x \in Ptr, s \in Resource \ {old} : Owns(x, s)' <=> Owns(x, s)
    BY <1>2, <1>3, <1>5 DEF IInv, DataTypes, Owns
  <1>7. \A s \in Resource \ {old} : Unmoved(s)
    BY <1>1, <1>2, <1>3, <1>4, <1>6 DEF Unmoved, Given, GivenUp, OthersSame
  <1>8. Reading /\ Reading'
    BY OwnerReads, OwnerReadsNext
  <1>9. OwnerOf(old) = p /\ OwnerOf(old)' = "doomed"
    BY <1>2, <1>4, <1>8 DEF Reading, OwnerIs, GivenUp
  <1>10. Owners' = [Owners EXCEPT ![old] = "doomed"]
    BY <1>2, <1>7, <1>8, <1>9, OneMoves
  <1>11. Ownership!Drop(old)
    BY <1>2, <1>9, <1>10 DEF Ownership!Drop, Owners
  <1> QED BY <1>2, <1>11 DEF Ownership!Next

\* The deleter, whether it returns or throws.
LEMMA DeleterMoves ==
  ASSUME IInv, IInv', NEW t \in Thread, RunDeleter(t) \/ ThrowDeleter(t)
  PROVE  Ownership!Next
  <1> USE ConstantsAssumption
  <1>0. PICK r : r = arg[t]
    OBVIOUS
  <1>1. /\ pc[t] = "delete" /\ r \in Resource
        /\ calls' = [calls EXCEPT ![r] = @ + 1] /\ UNCHANGED <<resource, initialized, caller>>
    BY <1>0 DEF IInv, Control, ControlTypes, Stages, Handle, RunDeleter, ThrowDeleter, fields
  <1>2. OthersSame(t) /\ arg'[t] = Nothing /\ pc'[t] \in {"idle", "take"}
    BY DEF IInv, Control, ControlTypes, DataTypes, OthersSame, RunDeleter, ThrowDeleter, Leave,
           Forget, Goto, params, seen
  <1>3. \A x \in Ptr, s \in Resource : Owns(x, s)' <=> Owns(x, s)
    BY <1>1, <1>2, QuietOwns
  <1>4. \A s \in Resource \ {r} : Unmoved(s)
    BY <1>0, <1>1, <1>2, <1>3 DEF IInv, DataTypes, Unmoved, Given, GivenUp, OthersSame
  <1>5. Reading /\ Reading'
    BY OwnerReads, OwnerReadsNext
  <1>6. OwnerOf(r) = "doomed"
    BY <1>0, <1>1, <1>5 DEF Reading, OwnerIs, GivenUp
  <1>7. OwnerOf(r)' = "deleted"
    <2>1. calls'[r] > 0
      BY <1>1 DEF IInv, DataTypes
    <2> QED BY <1>1, <1>5, <2>1 DEF Reading, OwnerIs
  <1>8. Owners' = [Owners EXCEPT ![r] = "deleted"]
    BY <1>1, <1>4, <1>5, <1>7, OneMoves
  <1>9. Ownership!Delete(r)
    BY <1>1, <1>6, <1>8 DEF Ownership!Delete, Owners
  <1> QED BY <1>1, <1>9 DEF Ownership!Next

\* Two objects whose contents change places, all others left alone.
LEMMA ExchangeMoves ==
  ASSUME IInv, IInv', NEW p \in Ptr, NEW q \in Ptr,
         \A s \in Resource :
           /\ calls'[s] = calls[s]
           /\ (Given(s)' <=> Given(s)) /\ (GivenUp(s)' <=> GivenUp(s))
           /\ \A x \in Ptr \ {p, q} : Owns(x, s)' <=> Owns(x, s)
           /\ Owns(p, s)' <=> Owns(q, s)
           /\ Owns(q, s)' <=> Owns(p, s)
  PROVE  Ownership!Next
  <1> USE ConstantsAssumption
  <1>1. Reading /\ Reading'
    BY OwnerReads, OwnerReadsNext
  <1>2. ASSUME NEW s \in Resource
        PROVE  OwnerOf(s)' = CASE OwnerOf(s) = p -> q
                               [] OwnerOf(s) = q -> p
                               [] OTHER -> OwnerOf(s)
    <2>1. OwnerIs(s) /\ OwnerIs(s)'
      BY <1>1 DEF Reading
    <2>2. CASE OwnerOf(s) = p
      BY <2>1, <2>2 DEF OwnerIs
    <2>3. CASE OwnerOf(s) = q /\ p # q
      BY <2>1, <2>3 DEF OwnerIs
    <2>4. CASE OwnerOf(s) # p /\ OwnerOf(s) # q /\ OwnerOf(s) \in Ptr
      BY <2>1, <2>4 DEF OwnerIs
    <2>5. CASE OwnerOf(s) \in {"deleted", "doomed", "caller"}
      BY <2>1, <2>5 DEF OwnerIs
    <2> QED BY <2>1, <2>2, <2>3, <2>4, <2>5 DEF OwnerIs
  <1>3. Ownership!Exchange(p, q)
    BY <1>2 DEF Ownership!Exchange
  <1> QED BY <1>3 DEF Ownership!Next

\* A move into an object that is empty by then: the source is drained.
LEMMA TakeMoves ==
  ASSUME IInv, IInv', NEW t \in Thread, TakeSource(t)
  PROVE  Ownership!Next \/ UNCHANGED Owners
  <1> USE ConstantsAssumption
  <1>0. PICK p, q : p = this[t] /\ q = other[t]
    OBVIOUS
  <1>1. /\ p \in Ptr /\ q \in Ptr /\ arg[t] = Nothing /\ pc[t] = "take"
        /\ \A u \in Thread \ {t} :
              /\ pc[u] \in {"take", "clear"} => other[u] # p
              /\ this[u] # q /\ other[u] # q
    BY <1>0, MoveFacts DEF TakeSource
  <1>2. /\ resource' = [resource EXCEPT ![p] = resource[q]]
        /\ initialized' = [initialized EXCEPT ![p] = initialized[q]]
        /\ UNCHANGED <<arg, caller, calls>>
        /\ ~initialized[p]
    BY <1>0, <1>1 DEF IInv, Working, WorksOn, TakeSource, ghosts
  <1>3. OthersSame(t) /\ pc'[t] = "clear" /\ this'[t] = p /\ other'[t] = q
    BY <1>0 DEF IInv, Control, ControlTypes, OthersSame, TakeSource, Goto, params, seen
  <1>4. \A s \in Resource : (Given(s)' <=> Given(s)) /\ (GivenUp(s)' <=> GivenUp(s))
    BY <1>1, <1>2, <1>3 DEF Given, GivenUp, OthersSame
  <1>5. /\ ~Drained(q) /\ ~Drained(p) /\ ~Drained(p)' /\ (p # q => Drained(q)')
        /\ \A x \in Ptr \ {p, q} : Drained(x)' <=> Drained(x)
    BY <1>1, <1>3 DEF Drained, OthersSame
  <1>6. ASSUME NEW s \in Resource
        PROVE  /\ \A x \in Ptr \ {p, q} : Owns(x, s)' <=> Owns(x, s)
               /\ Owns(p, s)' <=> Owns(q, s)
               /\ Owns(q, s)' <=> Owns(p, s)
    BY <1>1, <1>2, <1>5 DEF IInv, DataTypes, Owns
  <1> QED BY <1>1, <1>2, <1>4, <1>6, ExchangeMoves

LEMMA SwapMoves ==
  ASSUME IInv, IInv', NEW t \in Thread, SwapBody(t)
  PROVE  Ownership!Next
  <1> USE ConstantsAssumption
  <1>0. PICK p, q : p = this[t] /\ q = other[t]
    OBVIOUS
  <1>1. /\ p \in Ptr /\ q \in Ptr /\ p # q /\ arg[t] = Nothing /\ pc[t] = "locked"
        /\ p \in Critical(t) /\ q \in Critical(t)
    BY <1>0 DEF IInv, Control, ControlTypes, Stages, Critical, InSection, TwoLock, SwapBody, InBody
  <1>2. \A u \in Thread \ {t} : pc[u] \in {"take", "clear"} => other[u] # p /\ other[u] # q
    BY <1>1, Apart DEF IInv
  <1>3. /\ resource' = [resource EXCEPT ![p] = resource[q], ![q] = resource[p]]
        /\ initialized' = [initialized EXCEPT ![p] = initialized[q], ![q] = initialized[p]]
        /\ UNCHANGED <<caller, calls>> /\ Leave(t)
    BY <1>0 DEF SwapBody, ghosts
  <1>4. OthersSame(t) /\ pc'[t] = "idle" /\ arg' = arg
    BY <1>1, <1>3 DEF IInv, Control, ControlTypes, DataTypes, OthersSame, Leave, Forget
  <1>5. \A s \in Resource : (Given(s)' <=> Given(s)) /\ (GivenUp(s)' <=> GivenUp(s))
    BY <1>1, <1>3, <1>4 DEF Given, GivenUp, OthersSame
  <1>6. /\ ~Drained(p) /\ ~Drained(q) /\ ~Drained(p)' /\ ~Drained(q)'
        /\ \A x \in Ptr : Drained(x)' <=> Drained(x)
    BY <1>1, <1>2, <1>4 DEF Drained, OthersSame
  <1>7. ASSUME NEW s \in Resource
        PROVE  /\ \A x \in Ptr \ {p, q} : Owns(x, s)' <=> Owns(x, s)
               /\ Owns(p, s)' <=> Owns(q, s)
               /\ Owns(q, s)' <=> Owns(p, s)
    BY <1>1, <1>3, <1>6 DEF IInv, DataTypes, Owns
  <1> QED BY <1>1, <1>3, <1>5, <1>7, ExchangeMoves

-----------------------------------------------------------------------------
LEMMA CallMoves ==
  ASSUME IInv, IInv', NEW t \in Thread, Call(t)
  PROVE  Ownership!Next \/ UNCHANGED Owners
  <1> USE ConstantsAssumption
  <1>1. PICK p \in Ptr :
          \/ \E d \in Deleter : ConstructEmpty(t, p, d)
          \/ \E d \in Deleter, r \in Resource : ConstructHolding(t, p, r, d)
          \/ \E m \in Method : CallPlain(t, m, p)
          \/ \E r \in Resource : CallReset(t, p, r)
          \/ CallDestroy(t, p)
          \/ \E q \in Ptr, m \in TwoLock : CallPair(t, m, p, q)
          \/ \E q \in Ptr : CallAssign(t, p, q) \/ CallMoveConstruct(t, p, q)
    BY DEF Call
  <1>2. ASSUME NEW d \in Deleter, ConstructEmpty(t, p, d) PROVE UNCHANGED Owners
    <2>1. ~initialized[p]
      BY <1>2, DeadIsEmpty DEF ConstructEmpty
    <2>2. \A x \in Ptr, s \in Resource : Owns(x, s)' <=> Owns(x, s)
      BY <1>2, <2>1 DEF IInv, DataTypes, ConstructEmpty, Owns, Drained, locals, params
    <2>3. \A s \in Resource : Unmoved(s)
      BY <1>2, <2>2 DEF ConstructEmpty, Unmoved, Given, GivenUp, locals, ghosts
    <2> QED BY <2>3, NobodyMoves, OwnerReads, OwnerReadsNext
  <1>3. ASSUME NEW d \in Deleter, NEW r \in Resource, ConstructHolding(t, p, r, d)
        PROVE Ownership!Next
    BY <1>3, ConstructHoldingMoves
  <1>4. ASSUME NEW m \in Method, CallPlain(t, m, p) PROVE UNCHANGED Owners
    BY <1>4, BeginMoves DEF CallPlain
  <1>5. ASSUME NEW r \in Resource, CallReset(t, p, r) PROVE UNCHANGED Owners
    BY <1>5, BeginMoves DEF CallReset
  <1>6. CASE CallDestroy(t, p)
    BY <1>6, BeginMoves DEF CallDestroy
  <1>7. ASSUME NEW q \in Ptr, NEW m \in TwoLock, CallPair(t, m, p, q) PROVE UNCHANGED Owners
    BY <1>7, BeginMoves DEF CallPair
  <1>8. ASSUME NEW q \in Ptr, CallAssign(t, p, q) \/ CallMoveConstruct(t, p, q)
        PROVE UNCHANGED Owners
    BY <1>8, BeginMoves DEF CallAssign, CallMoveConstruct
  <1> QED BY <1>1, <1>2, <1>3, <1>4, <1>5, <1>6, <1>7, <1>8

LEMMA ContinueMoves ==
  ASSUME IInv, IInv', NEW t \in Thread, Continue(t)
  PROVE  Ownership!Next \/ UNCHANGED Owners
  BY LockMoves, ReadMoves, ResetMoves, ReleaseMoves, DropMoves, AssignEmptyMoves, SwapMoves,
     DeleterMoves, TakeMoves, ClearMoves DEF Continue

\* Every resource is the client's at the start.
LEMMA InitOwners == Init => Ownership!Init
  <1> SUFFICES ASSUME Init PROVE Owners = [r \in Resource |-> "caller"]
    BY DEF Ownership!Init, Owners
  <1>1. \A r \in Resource : OwnerOf(r) = "caller"
    BY ConstantsAssumption DEF Init, OwnerOf, Carrier
  <1> QED BY <1>1 DEF Owners

\* Every step is one transfer of ownership, or none.
LEMMA StepOwners ==
  IInv /\ IInv' /\ [Next]_vars => [Ownership!Next]_Owners
  <1> SUFFICES ASSUME IInv, IInv', [Next]_vars PROVE Ownership!Next \/ UNCHANGED Owners
    OBVIOUS
  <1>1. CASE Next
    BY <1>1, CallMoves, ContinueMoves DEF Next
  <1>2. CASE UNCHANGED vars
    <2>1. \A r \in Resource : Unmoved(r)
      BY <1>2 DEF vars, fields, locals, params, ghosts, Unmoved, Given, GivenUp, Owns, Drained
    <2> QED BY <2>1, NobodyMoves, OwnerReads, OwnerReadsNext
  <1> QED BY <1>1, <1>2

\* ResourcePtr implements the transfer of ownership for any threads, objects,
\* resources and deleters.
THEOREM OwnershipMovesHolds ==
  Spec => OwnershipMoves
  <1>1. Init => Ownership!Init
    BY InitOwners
  <1>2. IInv /\ IInv' /\ [Next]_vars => [Ownership!Next]_Owners
    BY StepOwners
  <1> QED BY <1>1, <1>2, Invariance, PTL DEF Spec, OwnershipMoves, Ownership!Safety, Owners
=============================================================================
