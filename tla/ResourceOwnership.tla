------------------------- MODULE ResourceOwnership -------------------------
(***************************************************************************)
(* What ResourcePtr promises its clients, whatever its locking looks like: *)
(* a resource belongs to one owner at a time, the client or one object,    *)
(* until it is given up for deletion, and what is given up is deleted once.*)
(***************************************************************************)
CONSTANTS Resource, Object, Caller, Doomed, Deleted

VARIABLE owner

Vacant(p) == \A r \in Resource : owner[r] # p

Init == owner = [r \in Resource |-> Caller]

\* A constructor or reset() installs a resource in an object that has none.
Adopt(r, p) ==
  /\ owner[r] = Caller /\ Vacant(p)
  /\ owner' = [owner EXCEPT ![r] = p]

\* reset() replaces a resource by another one in a single step.
Replace(old, new, p) ==
  /\ owner[old] = p /\ owner[new] = Caller
  /\ owner' = [owner EXCEPT ![old] = Doomed, ![new] = p]

\* dealloc(), the destructor and the target of a move give theirs up.
Drop(r) == owner[r] \in Object /\ owner' = [owner EXCEPT ![r] = Doomed]

\* release() returns it.
Release(r) == owner[r] \in Object /\ owner' = [owner EXCEPT ![r] = Caller]

\* swap(), and a move into an object that is empty by then.
Exchange(p, q) ==
  owner' = [r \in Resource |-> CASE owner[r] = p -> q
                                 [] owner[r] = q -> p
                                 [] OTHER -> owner[r]]

\* The deleter is called.
Delete(r) == owner[r] = Doomed /\ owner' = [owner EXCEPT ![r] = Deleted]

Next ==
  \/ \E r \in Resource : Drop(r) \/ Release(r) \/ Delete(r)
  \/ \E r \in Resource, p \in Object : Adopt(r, p)
  \/ \E old, new \in Resource, p \in Object : Replace(old, new, p)
  \/ \E p, q \in Object : Exchange(p, q)

Safety == Init /\ [][Next]_owner
Spec   == Safety /\ \A r \in Resource : WF_owner(Delete(r))
=============================================================================
