-------------------------- MODULE ResourcePtrOrder --------------------------
(***************************************************************************)
(* The comparison operators of lomiri::util::ResourcePtr<R, D>,            *)
(* include/lomiri/util/ResourcePtr.h, on objects whose fields have gone    *)
(* through any sequence of the methods that change them.  Resources are    *)
(* numbers here, since an order on them is what the operators need.        *)
(*                                                                         *)
(* All operators hold both mutexes, so each compares one state; how they   *)
(* lock is modelled in ResourcePtr.  What resource_ holds while            *)
(* initialized_ is false is whatever was there before: the value that was  *)
(* released, deleted or moved away, or, after a constructor that does not  *)
(* mention resource_, anything at all.                                     *)
(***************************************************************************)
EXTENDS Integers

CONSTANTS
  Ptr,            \* the objects
  Resource        \* the values of R, ordered by <

ASSUME OrderAssumption == Resource \subseteq Int

VARIABLES
  resource,       \* resource_
  initialized     \* initialized_

vars == <<resource, initialized>>

\* ResourcePtr() and ResourcePtr(D) leave resource_ uninitialized.
Init ==
  /\ resource \in [Ptr -> Resource]
  /\ initialized = [p \in Ptr |-> FALSE]

-----------------------------------------------------------------------------
(* The methods that change the fields.                                     *)

\* reset(r), and ResourcePtr(R, D)
Reset(p, r) ==
  /\ resource' = [resource EXCEPT ![p] = r]
  /\ initialized' = [initialized EXCEPT ![p] = TRUE]

\* release() and dealloc()
GiveUp(p) ==
  /\ initialized[p]
  /\ initialized' = [initialized EXCEPT ![p] = FALSE]
  /\ UNCHANGED resource

\* operator=(ResourcePtr&&), and the move constructor
Move(p, q) ==
  /\ resource' = [resource EXCEPT ![p] = resource[q]]
  /\ initialized' = [initialized EXCEPT ![p] = p # q /\ initialized[q], ![q] = FALSE]

Swap(p, q) ==
  /\ resource' = [resource EXCEPT ![p] = resource[q], ![q] = resource[p]]
  /\ initialized' = [initialized EXCEPT ![p] = initialized[q], ![q] = initialized[p]]

Next ==
  \E p \in Ptr :
    \/ GiveUp(p)
    \/ \E r \in Resource : Reset(p, r)
    \/ \E q \in Ptr : Move(p, q) \/ Swap(p, q)

Spec == Init /\ [][Next]_vars

-----------------------------------------------------------------------------
(* The operators.                                                          *)

\* Mutants: tests of initialized_, or of equality, that are left out.
EqualResources(p, q) == p = q \/ resource[p] = resource[q]
LessThanAny(p, q) == p # q /\ (initialized[p] => resource[p] < resource[q])
LessOnly(p, q) == p = q \/ resource[p] < resource[q]

Equal(p, q) ==
  \/ p = q
  \/ ~initialized[p] /\ ~initialized[q]
  \/ initialized[p] /\ initialized[q] /\ resource[p] = resource[q]

Less(p, q) ==
  /\ p # q /\ initialized[q]
  /\ initialized[p] => resource[p] < resource[q]

\* This one reads resource_ without asking whether there is a resource.
LessOrEqual(p, q) == p = q \/ resource[p] < resource[q] \/ resource[p] = resource[q]

NotEqual(p, q)       == ~Equal(p, q)
Greater(p, q)        == ~LessOrEqual(p, q)
GreaterOrEqual(p, q) == ~Less(p, q)

-----------------------------------------------------------------------------
TypeOK == resource \in [Ptr -> Resource] /\ initialized \in [Ptr -> BOOLEAN]

\* == is an equivalence and < orders its classes, so that ordered
\* containers work: whatever value an object without a resource still has in
\* resource_, it is less than all that hold one and equal to those that do not.
LessIsWeakOrder ==
  \A p, q, r \in Ptr :
    /\ ~(Less(p, q) /\ Less(q, p))
    /\ Less(p, q) /\ Less(q, r) => Less(p, r)
    /\ Less(p, q) => Less(p, r) \/ Less(r, q)

\* Exactly one of <, == and > (as >= and == define it) holds of two objects.
LessAgreesWithEqual ==
  \A p, q \in Ptr :
    /\ NotEqual(p, q) <=> (Less(p, q) \/ Less(q, p))
    /\ GreaterOrEqual(p, q) <=> (Less(q, p) \/ Equal(q, p))

\* "An instance that does not hold a resource is less than any instance that
\* holds a resource.  Two instances that do not hold a resource are equal."
\* (the documentation of operator<=): it is the <= of operators < and ==.
LessOrEqualAgrees ==
  \A p, q \in Ptr : LessOrEqual(p, q) <=> (Less(p, q) \/ Equal(p, q))

\* While all objects hold a resource, <= and > agree with < and ==.
OrderOfHolders ==
  \A p, q \in Ptr : initialized[p] /\ initialized[q] =>
    /\ LessOrEqual(p, q) <=> (Less(p, q) \/ Equal(p, q))
    /\ Greater(p, q) <=> Less(q, p)
=============================================================================
