----------------------- MODULE ResourcePtrOrderProofs -----------------------
(***************************************************************************)
(* The laws of the comparison operators, for any objects and any integers  *)
(* as resources.  They follow from the types of the two fields: nothing    *)
(* else that the methods do to the objects can break them.                 *)
(***************************************************************************)
EXTENDS ResourcePtrOrder, TLAPS

LEMMA InitTypeOK == Init => TypeOK
  BY DEF Init, TypeOK

LEMMA NextTypeOK == TypeOK /\ [Next]_vars => TypeOK'
  <1> SUFFICES ASSUME TypeOK, [Next]_vars PROVE TypeOK'
    OBVIOUS
  <1> USE DEF TypeOK
  <1>1. ASSUME NEW p \in Ptr, GiveUp(p) PROVE TypeOK'
    BY <1>1 DEF GiveUp
  <1>2. ASSUME NEW p \in Ptr, NEW r \in Resource, Reset(p, r) PROVE TypeOK'
    BY <1>2 DEF Reset
  <1>3. ASSUME NEW p \in Ptr, NEW q \in Ptr, Move(p, q) PROVE TypeOK'
    <2>1. resource' \in [Ptr -> Resource]
      BY <1>3 DEF Move
    <2>2. (p # q /\ initialized[q]) \in BOOLEAN
      OBVIOUS
    <2>3. initialized' \in [Ptr -> BOOLEAN]
      BY <1>3, <2>2 DEF Move
    <2> QED BY <2>1, <2>3
  <1>4. ASSUME NEW p \in Ptr, NEW q \in Ptr, Swap(p, q) PROVE TypeOK'
    BY <1>4 DEF Swap
  <1>5. CASE UNCHANGED vars
    BY <1>5 DEF vars
  <1> QED BY <1>1, <1>2, <1>3, <1>4, <1>5 DEF Next

LEMMA TypeCorrect == Spec => []TypeOK
  BY InitTypeOK, NextTypeOK, PTL DEF Spec

-----------------------------------------------------------------------------
\* operator< is a strict weak order of the objects, with or without a
\* resource: ordered containers of them are well-defined.
THEOREM LessIsWeakOrderHolds == Spec => []LessIsWeakOrder
  <1>1. ASSUME TypeOK PROVE LessIsWeakOrder
    <2>1. SUFFICES ASSUME NEW p \in Ptr, NEW q \in Ptr, NEW r \in Ptr
                   PROVE  /\ ~(Less(p, q) /\ Less(q, p))
                          /\ Less(p, q) /\ Less(q, r) => Less(p, r)
                          /\ Less(p, q) => Less(p, r) \/ Less(r, q)
      BY DEF LessIsWeakOrder
    <2>2. resource[p] \in Int /\ resource[q] \in Int /\ resource[r] \in Int
      BY <1>1, OrderAssumption DEF TypeOK
    <2> QED BY <2>2 DEF Less
  <1> QED BY <1>1, TypeCorrect, PTL

\* operator== is the equivalence that operator< leaves undecided.
THEOREM LessAgreesWithEqualHolds == Spec => []LessAgreesWithEqual
  <1>1. ASSUME TypeOK PROVE LessAgreesWithEqual
    <2>1. SUFFICES ASSUME NEW p \in Ptr, NEW q \in Ptr
                   PROVE  /\ NotEqual(p, q) <=> (Less(p, q) \/ Less(q, p))
                          /\ GreaterOrEqual(p, q) <=> (Less(q, p) \/ Equal(q, p))
      BY DEF LessAgreesWithEqual
    <2>2. resource[p] \in Int /\ resource[q] \in Int
      BY <1>1, OrderAssumption DEF TypeOK
    <2> QED BY <2>2 DEF NotEqual, GreaterOrEqual, Less, Equal
  <1> QED BY <1>1, TypeCorrect, PTL

\* operator<= is wrong only where an object holds no resource.
THEOREM OrderOfHoldersHolds == Spec => []OrderOfHolders
  <1>1. ASSUME TypeOK PROVE OrderOfHolders
    <2>1. SUFFICES ASSUME NEW p \in Ptr, NEW q \in Ptr, initialized[p], initialized[q]
                   PROVE  /\ LessOrEqual(p, q) <=> (Less(p, q) \/ Equal(p, q))
                          /\ Greater(p, q) <=> Less(q, p)
      BY DEF OrderOfHolders
    <2>2. resource[p] \in Int /\ resource[q] \in Int
      BY <1>1, OrderAssumption DEF TypeOK
    <2> QED BY <2>1, <2>2 DEF LessOrEqual, Greater, Less, Equal
  <1> QED BY <1>1, TypeCorrect, PTL
=============================================================================
