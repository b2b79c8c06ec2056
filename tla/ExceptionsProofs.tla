-------------------------- MODULE ExceptionsProofs --------------------------
(***************************************************************************)
(* Exceptions in any number: if the program makes no loops, what was       *)
(* remembered stays as it was, and strings are complete and show it.       *)
(***************************************************************************)
EXTENDS Exceptions, SequenceTheorems, WellFoundedInduction, TLAPS

Exception(n) == [kind : Kind, origin : 1 .. n, nested : 0 .. n, earlier : 0 .. n]

(* Only a std::nested_exception has a nested one, and only a               *)
(* lomiri::Exception an earlier one.                                       *)
Kinds ==
  \A o \in DOMAIN heap :
    /\ heap[o].nested # None => heap[o].kind # "plain"
    /\ heap[o].earlier # None => heap[o].kind = "lomiri"

(* Links lead to objects of lower rank.  The numbers of the objects are no *)
(* ranks, since an old exception can remember a new one.                   *)
Ranked(k, r) ==
  /\ r \in [DOMAIN heap -> 0 .. k - 1]
  /\ \A o \in DOMAIN heap :
       /\ heap[o].nested # None => r[heap[o].nested] < r[o]
       /\ heap[o].earlier # None => r[heap[o].earlier] < r[o]
Acyclic == \E k \in Nat : \E r : Ranked(k, r)

(* The log is what the links say, and everything in it can be reached from *)
(* ep by links to earlier exceptions alone.                                *)
Remembered == DOMAIN log \ {None}
Kept ==
  /\ log[None] = <<>>
  /\ \A o \in DOMAIN heap : heap[o].earlier \in DOMAIN log
  /\ \A o \in Remembered : log[o] = Append(log[heap[o].earlier], heap[o].origin)
OneHistory ==
  \A C : /\ ep # None => ep \in C
         /\ \A o \in C \cap Remembered : heap[o].earlier \in C \cup {None}
         => Remembered \subseteq C

IInv == TypeOK /\ Kinds /\ Acyclic /\ Kept /\ OneHistory

-----------------------------------------------------------------------------
(* What the actions do to the objects.                                     *)

LEMMA HeapShape ==
  ASSUME TypeOK
  PROVE  \E n \in Nat :
           /\ n = Len(heap) /\ DOMAIN heap = 1 .. n /\ heap \in Seq(Exception(n))
           /\ ep \in 0 .. n /\ DOMAIN log \subseteq 0 .. n /\ Current \in 0 .. n
           /\ \A o \in 1 .. n : /\ heap[o] \in Exception(n)
                                /\ heap[o].kind \in Kind /\ heap[o].origin \in 1 .. n
                                /\ heap[o].nested \in 0 .. n /\ heap[o].earlier \in 0 .. n
  <1>1. PICK n \in Nat : n = Len(heap)
    <2>1. PICK S : heap \in Seq(S)
      BY Zenon DEF TypeOK
    <2>2. Len(heap) \in Nat
      BY ONLY <2>1
    <2> QED BY ONLY <2>2
  <1>2. heap \in Seq(Exception(n)) /\ DOMAIN heap = 1 .. n
    BY <1>1 DEF TypeOK, Exception
  <1>3. ep \in 0 .. n /\ DOMAIN log \subseteq 0 .. n
    BY <1>1 DEF TypeOK
  <1>4. Current \in 0 .. n
    <2>1. CASE handlers = <<>>
      BY <2>1 DEF Current, None
    <2>2. CASE handlers # <<>>
      <3>1. handlers \in Seq(1 .. n)
        BY <1>1 DEF TypeOK
      <3>2. handlers[Len(handlers)] \in 1 .. n
        BY <2>2, <3>1
      <3> QED BY <2>2, <3>2 DEF Current, Last
    <2> QED BY <2>1, <2>2
  <1>5. ASSUME NEW o \in 1 .. n
        PROVE  /\ heap[o] \in Exception(n)
               /\ heap[o].kind \in Kind /\ heap[o].origin \in 1 .. n
               /\ heap[o].nested \in 0 .. n /\ heap[o].earlier \in 0 .. n
    <2>1. heap[o] \in Exception(n)
      BY <1>1, <1>2
    <2> QED BY <2>1 DEF Exception
  <1> QED BY <1>1, <1>2, <1>3, <1>4, <1>5

LEMMA ThrowEffect ==
  ASSUME TypeOK, NEW kind \in Kind, Throw(kind), NEW n \in Nat, n = Len(heap)
  PROVE  /\ heap' \in Seq(Exception(n + 1)) /\ Len(heap') = n + 1 /\ DOMAIN heap' = 1 .. n + 1
         /\ \A o \in 1 .. n : heap'[o] = heap[o]
         /\ heap'[n + 1].kind = kind /\ heap'[n + 1].origin = n + 1
         /\ heap'[n + 1].earlier = None
         /\ heap'[n + 1].nested = IF kind = "plain" THEN None ELSE Current
  <1>1. heap \in Seq(Exception(n)) /\ Current \in 0 .. n
    BY HeapShape
  <1>2. PICK e : e = [kind |-> kind, origin |-> n + 1, earlier |-> None,
                      nested |-> IF kind = "plain" THEN None ELSE Current]
    OBVIOUS
  <1>3. e \in Exception(n + 1)
    BY <1>1, <1>2 DEF Exception, None
  <1>4. heap \in Seq(Exception(n + 1))
    <2>1. Exception(n) \subseteq Exception(n + 1)
      BY DEF Exception
    <2> QED BY <1>1, <2>1, SeqMonotonic
  <1>5. heap' = Append(heap, e)
    BY <1>2 DEF Throw, New
  <1>6. /\ heap' \in Seq(Exception(n + 1)) /\ Len(heap') = n + 1
        /\ \A o \in 1 .. n : heap'[o] = heap[o]
        /\ heap'[n + 1] = e
    BY <1>3, <1>4, <1>5, AppendProperties
  <1>7. DOMAIN heap' = 1 .. n + 1
    BY <1>6
  <1> QED BY <1>2, <1>6, <1>7

LEMMA RememberEffect ==
  ASSUME TypeOK, Remember, NEW n \in Nat, n = Len(heap), NEW c, c = Current
  PROVE  /\ heap' \in Seq(Exception(n + 1)) /\ Len(heap') = n + 1 /\ DOMAIN heap' = 1 .. n + 1
         /\ c \in 1 .. n /\ heap[c].kind = "lomiri" /\ ~Loop
         /\ \A o \in 1 .. n : o # c => heap'[o] = heap[o]
         /\ heap'[n + 1] = heap'[c]
         /\ heap'[c].kind = "lomiri" /\ heap'[c].origin = heap[c].origin
         /\ heap'[c].earlier = ep /\ heap'[c].nested = heap[c].nested
         /\ ep' = n + 1 /\ handlers' = handlers
         /\ log' = [o \in DOMAIN log \cup {n + 1} |-> log'[o]]
         /\ log'[n + 1] = Append(log[ep], heap[c].origin)
         /\ \A o \in DOMAIN log : log'[o] = log[o]
  <1>1. heap \in Seq(Exception(n)) /\ Current \in 0 .. n /\ ep \in 0 .. n
    BY HeapShape
  <1>2. c \in 1 .. n /\ heap[c].kind = "lomiri" /\ ~Loop
    BY <1>1 DEF Remember, None
  <1>3. heap[c] \in Exception(n)
    BY <1>1, <1>2
  <1>4. PICK e : e = [heap[c] EXCEPT !.earlier = ep]
    OBVIOUS
  <1>5. /\ e \in Exception(n) /\ e.kind = "lomiri" /\ e.origin = heap[c].origin
        /\ e.earlier = ep /\ e.nested = heap[c].nested
    BY <1>1, <1>2, <1>3, <1>4 DEF Exception
  <1>6. Exception(n) \subseteq Exception(n + 1)
    BY DEF Exception
  <1>7. PICK h : h = [heap EXCEPT ![c] = e]
    OBVIOUS
  <1>8. /\ h \in Seq(Exception(n)) /\ Len(h) = n
        /\ \A o \in 1 .. n : h[o] = IF o = c THEN e ELSE heap[o]
    BY <1>1, <1>2, <1>5, <1>7, ExceptSeq
  <1>9. h \in Seq(Exception(n + 1)) /\ e \in Exception(n + 1)
    BY <1>5, <1>6, <1>8, SeqMonotonic
  <1>10. heap' = Append(h, e)
    BY <1>4, <1>7 DEF Remember
  <1>11. /\ heap' \in Seq(Exception(n + 1)) /\ Len(heap') = n + 1
         /\ \A o \in 1 .. n : heap'[o] = h[o]
         /\ heap'[n + 1] = e
    BY <1>8, <1>9, <1>10, AppendProperties
  <1>12. DOMAIN heap' = 1 .. n + 1
    BY <1>11
  <1>13. ep' = n + 1 /\ handlers' = handlers
    BY DEF Remember, New
  <1>14. /\ log' = [o \in DOMAIN log \cup {n + 1} |-> log'[o]]
         /\ log'[n + 1] = Append(log[ep], heap[c].origin)
         /\ \A o \in DOMAIN log : log'[o] = log[o]
    <2>1. log' = [o \in DOMAIN log \cup {n + 1} |->
                    IF o = n + 1 THEN Append(log[ep], heap[c].origin) ELSE log[o]]
      BY <1>4, <1>5 DEF Remember, New
    <2>2. n + 1 \notin DOMAIN log
      <3>1. DOMAIN log \subseteq 0 .. n
        BY DEF TypeOK
      <3> QED BY <3>1
    <2> QED BY <2>1, <2>2
  <1> QED BY <1>2, <1>5, <1>8, <1>11, <1>12, <1>13, <1>14

-----------------------------------------------------------------------------
(* A new exception                                                         *)

LEMMA ThrowTypes ==
  ASSUME TypeOK, NEW kind \in Kind, Throw(kind) PROVE TypeOK'
  <1>1. PICK n \in Nat : n = Len(heap) /\ Len(heap') = n + 1 /\ heap' \in Seq(Exception(n + 1))
    BY HeapShape, ThrowEffect
  <1>2. UNCHANGED <<ep, log>> /\ handlers' = Append(handlers, n + 1)
    BY <1>1 DEF Throw, New
  <1>3. handlers' \in Seq(1 .. n + 1)
    <2>1. handlers \in Seq(1 .. n) /\ 1 .. n \subseteq 1 .. n + 1
      BY <1>1 DEF TypeOK
    <2>2. handlers \in Seq(1 .. n + 1)
      BY <2>1, SeqMonotonic
    <2> QED BY <1>2, <2>2, AppendProperties
  <1>4. log' \in [DOMAIN log' -> Seq(1 .. n + 1)]
    <2>1. \A o \in DOMAIN log : log[o] \in Seq(1 .. n + 1)
      <3>1. 1 .. n \subseteq 1 .. n + 1 /\ \A o \in DOMAIN log : log[o] \in Seq(1 .. n)
        BY <1>1 DEF TypeOK
      <3> QED BY <3>1, SeqMonotonic
    <2>2. log = [o \in DOMAIN log |-> log[o]]
      BY DEF TypeOK
    <2> QED BY <1>2, <2>1, <2>2
  <1>5. ep' \in DOMAIN log' /\ None \in DOMAIN log' /\ DOMAIN log' \subseteq 0 .. n + 1
    BY <1>1, <1>2 DEF TypeOK
  <1> QED BY <1>1, <1>3, <1>4, <1>5 DEF TypeOK, Exception

LEMMA ThrowKinds ==
  ASSUME TypeOK, Kinds, NEW kind \in Kind, Throw(kind) PROVE Kinds'
  <1>1. PICK n \in Nat : n = Len(heap) /\ DOMAIN heap = 1 .. n
    BY HeapShape
  <1>2. /\ DOMAIN heap' = 1 .. n + 1 /\ \A o \in 1 .. n : heap'[o] = heap[o]
        /\ heap'[n + 1].kind = kind /\ heap'[n + 1].earlier = None
        /\ heap'[n + 1].nested = IF kind = "plain" THEN None ELSE Current
    BY <1>1, ThrowEffect
  <1>3. \A o \in 1 .. n + 1 : o \in 1 .. n \/ o = n + 1
    OBVIOUS
  <1> QED BY <1>1, <1>2, <1>3, Zenon DEF Kinds

LEMMA ThrowAcyclic ==
  ASSUME TypeOK, Acyclic, NEW kind \in Kind, Throw(kind) PROVE Acyclic'
  <1>1. PICK n \in Nat : /\ n = Len(heap) /\ DOMAIN heap = 1 .. n /\ Current \in 0 .. n
                        /\ \A o \in 1 .. n : heap[o].nested \in 0 .. n /\ heap[o].earlier \in 0 .. n
    BY HeapShape
  <1>2. /\ DOMAIN heap' = 1 .. n + 1 /\ \A o \in 1 .. n : heap'[o] = heap[o]
        /\ heap'[n + 1].earlier = None
        /\ heap'[n + 1].nested = IF kind = "plain" THEN None ELSE Current
    BY <1>1, ThrowEffect
  <1>k. PICK k \in Nat : \E r : Ranked(k, r)
    BY DEF Acyclic
  <1>3. PICK r : Ranked(k, r)
    BY <1>k
  <1>4. /\ r \in [1 .. n -> 0 .. k - 1]
        /\ \A o \in 1 .. n : /\ heap[o].nested # None => r[heap[o].nested] < r[o]
                             /\ heap[o].earlier # None => r[heap[o].earlier] < r[o]
    BY <1>1, <1>3 DEF Ranked
  <1>5. PICK q : q = [o \in 1 .. n + 1 |-> IF o = n + 1 THEN k ELSE r[o]]
    OBVIOUS
  <1>6. /\ q[n + 1] = k /\ \A o \in 1 .. n : q[o] = r[o] /\ q[o] \in 0 .. k - 1
        /\ q \in [1 .. n + 1 -> 0 .. (k + 1) - 1]
    <2>1. \A o \in 1 .. n : r[o] \in 0 .. k - 1 /\ o # n + 1 /\ o \in 1 .. n + 1
      BY ONLY <1>4, n \in Nat
    <2>2. q[n + 1] = k /\ \A o \in 1 .. n : q[o] = r[o] /\ q[o] \in 0 .. k - 1
      BY ONLY <1>5, <2>1, n \in Nat
    <2>3. \A o \in 1 .. n + 1 : o \in 1 .. n \/ o = n + 1
      OBVIOUS
    <2>4. k \in 0 .. (k + 1) - 1 /\ \A i \in 0 .. k - 1 : i \in 0 .. (k + 1) - 1
      BY ONLY k \in Nat
    <2>5. \A o \in 1 .. n + 1 : q[o] \in 0 .. (k + 1) - 1
      BY ONLY <2>2, <2>3, <2>4
    <2> QED BY ONLY <1>5, <2>2, <2>5
  <1>7. ASSUME NEW o \in 1 .. n + 1
        PROVE  /\ heap'[o].nested # None => q[heap'[o].nested] < q[o]
               /\ heap'[o].earlier # None => q[heap'[o].earlier] < q[o]
    <2>1. CASE o \in 1 .. n
      <3>1. heap'[o] = heap[o] /\ q[o] = r[o]
        BY <1>2, <1>6, <2>1
      <3>2. heap[o].nested # None => heap[o].nested \in 1 .. n /\ q[heap[o].nested] = r[heap[o].nested]
        BY <1>1, <1>6, <2>1 DEF None
      <3>3. heap[o].earlier # None => heap[o].earlier \in 1 .. n /\ q[heap[o].earlier] = r[heap[o].earlier]
        BY <1>1, <1>6, <2>1 DEF None
      <3> QED BY <1>4, <2>1, <3>1, <3>2, <3>3, Zenon
    <2>2. CASE o = n + 1
      <3>1. Current # None => q[Current] < k
        BY <1>1, <1>6 DEF None
      <3>2. heap'[o].earlier = None /\ (heap'[o].nested # None => heap'[o].nested = Current)
        BY <1>2, <2>2
      <3> QED BY <1>6, <2>2, <3>1, <3>2, Zenon
    <2> QED BY <2>1, <2>2
  <1>8. k + 1 \in Nat /\ Ranked(k + 1, q)'
    BY <1>2, <1>6, <1>7 DEF Ranked
  <1> QED BY <1>8 DEF Acyclic

LEMMA ThrowKept ==
  ASSUME TypeOK, Kept, OneHistory, NEW kind \in Kind, Throw(kind) PROVE Kept' /\ OneHistory'
  <1>1. PICK n \in Nat : n = Len(heap) /\ DOMAIN heap = 1 .. n /\ DOMAIN log \subseteq 0 .. n
    BY HeapShape
  <1>2. /\ DOMAIN heap' = 1 .. n + 1 /\ \A o \in 1 .. n : heap'[o] = heap[o]
        /\ heap'[n + 1].earlier = None
    BY <1>1, ThrowEffect
  <1>3. log' = log /\ ep' = ep /\ Remembered' = Remembered /\ None \in DOMAIN log
    BY DEF Throw, Remembered, TypeOK
  <1>4. \A o \in Remembered : heap'[o] = heap[o]
    BY <1>1, <1>2 DEF Remembered, None
  <1>5. \A o \in 1 .. n + 1 : o \in 1 .. n \/ o = n + 1
    OBVIOUS
  <1>6. Kept'
    BY <1>1, <1>2, <1>3, <1>4, <1>5, Zenon DEF Kept
  <1>7. OneHistory'
    <2> SUFFICES ASSUME NEW C, ep' # None => ep' \in C,
                        \A o \in C \cap Remembered' : heap'[o].earlier \in C \cup {None}
                 PROVE  Remembered' \subseteq C
      BY DEF OneHistory
    <2>1. \A o \in C \cap Remembered : heap[o].earlier \in C \cup {None}
      BY <1>3, <1>4
    <2> QED BY <1>3, <2>1 DEF OneHistory
  <1> QED BY <1>6, <1>7

-----------------------------------------------------------------------------
(* An exception that remembers                                             *)

LEMMA RememberTypes ==
  ASSUME TypeOK, Remember PROVE TypeOK'
  <1>1. PICK n \in Nat : n = Len(heap) /\ \A o \in 1 .. n : heap[o].origin \in 1 .. n
    BY HeapShape
  <1>2. PICK c : c = Current
    OBVIOUS
  <1>3. /\ heap' \in Seq(Exception(n + 1)) /\ Len(heap') = n + 1 /\ c \in 1 .. n
        /\ ep' = n + 1 /\ handlers' = handlers
        /\ log' = [o \in DOMAIN log \cup {n + 1} |-> log'[o]]
        /\ log'[n + 1] = Append(log[ep], heap[c].origin)
        /\ \A o \in DOMAIN log : log'[o] = log[o]
    BY <1>1, <1>2, RememberEffect
  <1>4. 1 .. n \subseteq 1 .. n + 1
    OBVIOUS
  <1>5. handlers' \in Seq(1 .. n + 1)
    BY <1>1, <1>3, <1>4, SeqMonotonic DEF TypeOK
  <1>6. \A o \in DOMAIN log : log[o] \in Seq(1 .. n + 1)
    <2>1. \A o \in DOMAIN log : log[o] \in Seq(1 .. n)
      BY <1>1 DEF TypeOK
    <2> QED BY <1>4, <2>1, SeqMonotonic
  <1>7. Append(log[ep], heap[c].origin) \in Seq(1 .. n + 1)
    <2>1. log[ep] \in Seq(1 .. n + 1) /\ heap[c].origin \in 1 .. n + 1
      BY <1>1, <1>3, <1>4, <1>6 DEF TypeOK
    <2> QED BY <2>1, AppendProperties
  <1>8. DOMAIN log' = DOMAIN log \cup {n + 1}
    BY <1>3
  <1>9. log' \in [DOMAIN log' -> Seq(1 .. n + 1)]
    BY <1>3, <1>6, <1>7
  <1>10. ep' \in DOMAIN log' /\ None \in DOMAIN log' /\ DOMAIN log' \subseteq 0 .. n + 1
    <2>1. None \in DOMAIN log /\ DOMAIN log \subseteq 0 .. n /\ 0 .. n \subseteq 0 .. n + 1
      BY <1>1 DEF TypeOK
    <2>2. n + 1 \in 0 .. n + 1
      OBVIOUS
    <2> QED BY ONLY <1>3, <1>8, <2>1, <2>2
  <1> QED BY <1>3, <1>5, <1>9, <1>10 DEF TypeOK, Exception

LEMMA RememberKinds ==
  ASSUME TypeOK, Kinds, Remember PROVE Kinds'
  <1>1. PICK n \in Nat : n = Len(heap) /\ DOMAIN heap = 1 .. n
    BY HeapShape
  <1>2. PICK c : c = Current
    OBVIOUS
  <1>3. /\ DOMAIN heap' = 1 .. n + 1 /\ c \in 1 .. n
        /\ \A o \in 1 .. n : o # c => heap'[o] = heap[o]
        /\ heap'[n + 1] = heap'[c] /\ heap'[c].kind = "lomiri"
    BY <1>1, <1>2, RememberEffect
  <1>4. \A o \in 1 .. n + 1 : (o \in 1 .. n /\ o # c) \/ o = c \/ o = n + 1
    OBVIOUS
  <1>5. "lomiri" # "plain"
    OBVIOUS
  <1> QED BY <1>1, <1>3, <1>4, <1>5, Zenon DEF Kinds

\* No loop: there are objects, ep among them and Current not, that no link
\* leads out of.
LEMMA NoLoopIsClosed ==
  ASSUME TypeOK, ~Loop, Current \in DOMAIN heap
  PROVE  \E C \in SUBSET DOMAIN heap :
           (ep # None => ep \in C) /\ Current \notin C /\ Closed(C)
  <1>1. CASE ep = None
    <2>1. Closed({})
      BY DEF Closed
    <2> QED BY <1>1, <2>1
  <1>2. CASE ep # None
    <2>1. Current \notin Reach({ep})
      BY <1>2 DEF Loop
    <2>2. PICK C \in SUBSET (DOMAIN heap \ {Current}) : {ep} \subseteq C /\ Closed(C)
      BY <2>1 DEF Reach
    <2> QED BY <2>2
  <1> QED BY <1>1, <1>2

\* What remembers is outside of what was remembered: its rank, and that of all
\* others out there, can be raised above the rank of ep.
LEMMA RememberAcyclic ==
  ASSUME TypeOK, Acyclic, Remember PROVE Acyclic'
  <1>1. PICK n \in Nat : /\ n = Len(heap) /\ DOMAIN heap = 1 .. n /\ ep \in 0 .. n
                        /\ \A o \in 1 .. n : heap[o].nested \in 0 .. n /\ heap[o].earlier \in 0 .. n
    BY HeapShape
  <1>2. PICK c : c = Current
    OBVIOUS
  <1>3. /\ DOMAIN heap' = 1 .. n + 1 /\ c \in 1 .. n /\ ~Loop
        /\ \A o \in 1 .. n : o # c => heap'[o] = heap[o]
        /\ heap'[n + 1] = heap'[c] /\ heap'[c].earlier = ep /\ heap'[c].nested = heap[c].nested
    BY <1>1, <1>2, RememberEffect
  <1>4. PICK C \in SUBSET (1 .. n) : (ep # None => ep \in C) /\ c \notin C /\ Closed(C)
    BY <1>1, <1>2, <1>3, NoLoopIsClosed
  <1>k. PICK k \in Nat : \E r : Ranked(k, r)
    BY DEF Acyclic
  <1>5. PICK r : Ranked(k, r)
    BY <1>k
  <1>6. /\ r \in [1 .. n -> 0 .. k - 1]
        /\ \A o \in 1 .. n : /\ heap[o].nested # None => r[heap[o].nested] < r[o]
                             /\ heap[o].earlier # None => r[heap[o].earlier] < r[o]
    BY <1>1, <1>5 DEF Ranked
  <1>7. PICK q : q = [o \in 1 .. n + 1 |-> IF o = n + 1 THEN r[c] + k
                                         ELSE IF o \in C THEN r[o] ELSE r[o] + k]
    OBVIOUS
  <1>8. /\ \A o \in C : q[o] = r[o]
        /\ \A o \in 1 .. n : o \notin C => q[o] = r[o] + k
        /\ q[n + 1] = q[c] /\ q[c] = r[c] + k
        /\ \A o \in 1 .. n : r[o] \in 0 .. k - 1
    BY <1>3, <1>4, <1>6, <1>7
  <1>9. q \in [1 .. n + 1 -> 0 .. (k + k) - 1]
    <2>1. ASSUME NEW o \in 1 .. n PROVE q[o] \in 0 .. (k + k) - 1
      <3>1. r[o] \in 0 .. k - 1 /\ (q[o] = r[o] \/ q[o] = r[o] + k)
        BY <1>8
      <3> QED BY ONLY <3>1, k \in Nat
    <2>2. q[n + 1] \in 0 .. (k + k) - 1
      BY ONLY <1>3, <1>8, <2>1
    <2>3. \A o \in 1 .. n + 1 : o \in 1 .. n \/ o = n + 1
      OBVIOUS
    <2>4. \A o \in 1 .. n + 1 : q[o] \in 0 .. (k + k) - 1
      BY ONLY <2>1, <2>2, <2>3
    <2> QED BY ONLY <1>7, <2>4
  \* A link that was there still leads downwards.
  <1>10. ASSUME NEW o \in 1 .. n, NEW x \in 1 .. n, r[x] < r[o], o \in C => x \in C
         PROVE  q[x] < q[o]
    <2>1. r[x] \in 0 .. k - 1 /\ r[o] \in 0 .. k - 1 /\ (q[x] = r[x] \/ q[x] = r[x] + k)
      BY <1>8
    <2>2. CASE o \in C
      BY <1>8, <1>10, <2>2
    <2>3. CASE o \notin C
      <3>1. q[o] = r[o] + k
        BY <1>8, <2>3
      <3> QED BY <1>10, <2>1, <3>1
    <2> QED BY <2>2, <2>3
  <1>11. ASSUME NEW o \in 1 .. n
         PROVE  /\ heap[o].nested # None => q[heap[o].nested] < q[o]
                /\ heap[o].earlier # None => q[heap[o].earlier] < q[o]
    <2>1. ASSUME heap[o].nested # None PROVE q[heap[o].nested] < q[o]
      <3>1. heap[o].nested \in 1 .. n
        BY <1>1, <2>1 DEF None
      <3>2. o \in C => heap[o].nested \in C
        BY <1>4, <2>1 DEF Closed, Links
      <3> QED BY <1>6, <1>10, <2>1, <3>1, <3>2
    <2>2. ASSUME heap[o].earlier # None PROVE q[heap[o].earlier] < q[o]
      <3>1. heap[o].earlier \in 1 .. n
        BY <1>1, <2>2 DEF None
      <3>2. o \in C => heap[o].earlier \in C
        BY <1>4, <2>2 DEF Closed, Links
      <3> QED BY <1>6, <1>10, <2>2, <3>1, <3>2
    <2> QED BY <2>1, <2>2
  <1>12. ep # None => q[ep] < q[c]
    <2> SUFFICES ASSUME ep # None PROVE q[ep] < q[c]
      OBVIOUS
    <2>1. ep \in 1 .. n /\ q[ep] = r[ep]
      BY <1>4, <1>8
    <2> QED BY <1>3, <1>8, <2>1
  <1>13. ASSUME NEW o \in 1 .. n + 1
         PROVE  /\ heap'[o].nested # None => q[heap'[o].nested] < q[o]
                /\ heap'[o].earlier # None => q[heap'[o].earlier] < q[o]
    <2>1. CASE o \in 1 .. n /\ o # c
      BY <1>3, <1>11, <2>1
    <2>2. CASE o = c
      BY <1>3, <1>11, <1>12, <2>2
    <2>3. CASE o = n + 1
      BY <1>3, <1>8, <1>11, <1>12, <2>3
    <2> QED BY <2>1, <2>2, <2>3
  <1>14. k + k \in Nat /\ Ranked(k + k, q)'
    BY <1>3, <1>9, <1>13 DEF Ranked
  <1> QED BY <1>14 DEF Acyclic

\* What remembers has not been remembered: all of that can be reached from ep.
LEMMA NotRemembered ==
  ASSUME TypeOK, OneHistory, ~Loop, Current \in DOMAIN heap
  PROVE  Current \notin Remembered
  <1>1. PICK C \in SUBSET DOMAIN heap :
          (ep # None => ep \in C) /\ Current \notin C /\ Closed(C)
    BY NoLoopIsClosed
  <1>2. \A o \in C \cap Remembered : heap[o].earlier \in C \cup {None}
    BY <1>1 DEF Closed, Links
  <1>3. Remembered \subseteq C
    BY <1>1, <1>2 DEF OneHistory
  <1> QED BY <1>1, <1>3

LEMMA RememberKept ==
  ASSUME TypeOK, Kept, OneHistory, Remember PROVE Kept' /\ OneHistory'
  <1>1. PICK n \in Nat : /\ n = Len(heap) /\ DOMAIN heap = 1 .. n
                        /\ DOMAIN log \subseteq 0 .. n /\ ep \in 0 .. n
    BY HeapShape
  <1>2. PICK c : c = Current
    OBVIOUS
  <1>3. /\ DOMAIN heap' = 1 .. n + 1 /\ c \in 1 .. n /\ ~Loop
        /\ \A o \in 1 .. n : o # c => heap'[o] = heap[o]
        /\ heap'[n + 1] = heap'[c] /\ heap'[c].earlier = ep /\ heap'[c].origin = heap[c].origin
        /\ ep' = n + 1
        /\ log' = [o \in DOMAIN log \cup {n + 1} |-> log'[o]]
        /\ log'[n + 1] = Append(log[ep], heap[c].origin)
        /\ \A o \in DOMAIN log : log'[o] = log[o]
    BY <1>1, <1>2, RememberEffect
  <1>4. c \notin Remembered
    BY <1>1, <1>2, <1>3, NotRemembered
  <1>5. None \in DOMAIN log /\ ep \in DOMAIN log /\ None # n + 1 /\ n + 1 \notin DOMAIN log
    BY <1>1 DEF TypeOK, None
  <1>6. /\ DOMAIN log' = DOMAIN log \cup {n + 1} /\ Remembered' = Remembered \cup {n + 1}
        /\ log'[n + 1] = Append(log[ep], heap[c].origin)
        /\ \A o \in DOMAIN log : log'[o] = log[o]
    <2>1. DOMAIN log' = DOMAIN log \cup {n + 1}
      BY <1>3
    <2>2. Remembered' = Remembered \cup {n + 1}
      BY <1>5, <2>1 DEF Remembered
    <2> QED BY <1>3, <2>1, <2>2
  <1>7. ASSUME NEW o \in Remembered PROVE heap'[o] = heap[o]
    <2>1. o \in 1 .. n
      BY <1>1 DEF Remembered, None
    <2>2. o # c
      BY <1>4
    <2> QED BY ONLY <1>3, <2>1, <2>2
  <1>8. Kept'
    <2>1. log'[None] = <<>>
      BY <1>5, <1>6 DEF Kept
    <2>2. ASSUME NEW o \in 1 .. n + 1 PROVE heap'[o].earlier \in DOMAIN log'
      <3>1. CASE o \in 1 .. n /\ o # c
        BY <1>1, <1>3, <1>6, <3>1 DEF Kept
      <3>2. CASE o = c \/ o = n + 1
        BY <1>3, <1>5, <1>6, <3>2
      <3> QED BY <3>1, <3>2
    <2>3. ASSUME NEW o \in Remembered'
          PROVE  log'[o] = Append(log'[heap'[o].earlier], heap'[o].origin)
      <3>1. CASE o \in Remembered
        <4>1. o \in DOMAIN log /\ o \in DOMAIN heap
          BY <1>1, <3>1 DEF Remembered, None
        <4>2. heap[o].earlier \in DOMAIN log /\ log[o] = Append(log[heap[o].earlier], heap[o].origin)
          BY <3>1, <4>1 DEF Kept
        <4> QED BY <1>6, <1>7, <3>1, <4>1, <4>2
      <3>2. CASE o = n + 1
        BY <1>3, <1>5, <1>6, <3>2
      <3> QED BY <1>6, <3>1, <3>2
    <2> QED BY <1>3, <2>1, <2>2, <2>3 DEF Kept
  <1>9. OneHistory'
    <2> SUFFICES ASSUME NEW C, ep' # None => ep' \in C,
                        \A o \in C \cap Remembered' : heap'[o].earlier \in C \cup {None}
                 PROVE  Remembered' \subseteq C
      BY DEF OneHistory
    <2>1. n + 1 \in C
      BY <1>3, <1>5
    <2>2. ep # None => ep \in C
      BY <1>3, <1>6, <2>1
    <2>3. \A o \in C \cap Remembered : heap[o].earlier \in C \cup {None}
      BY <1>6, <1>7
    <2>4. Remembered \subseteq C
      BY <2>2, <2>3 DEF OneHistory
    <2> QED BY <1>6, <2>1, <2>4
  <1> QED BY <1>8, <1>9

-----------------------------------------------------------------------------
(* Handlers begin and end.                                                 *)

LEMMA RethrowTypes ==
  ASSUME TypeOK, Rethrow PROVE TypeOK'
  <1>1. ep \in 1 .. Len(heap) /\ handlers' = Append(handlers, ep) /\ UNCHANGED <<heap, ep, log>>
    BY DEF TypeOK, Rethrow, None
  <1>2. handlers' \in Seq(1 .. Len(heap))
    BY <1>1, AppendProperties DEF TypeOK
  <1> QED BY <1>1, <1>2 DEF TypeOK

LEMMA LeaveTypes ==
  ASSUME TypeOK, Leave PROVE TypeOK'
  <1>1. handlers # <<>> /\ handlers' = Front(handlers) /\ UNCHANGED <<heap, ep, log>>
    BY DEF Leave
  <1>2. handlers' \in Seq(1 .. Len(heap))
    <2>1. handlers \in Seq(1 .. Len(heap))
      BY DEF TypeOK
    <2>2. \A i \in 1 .. Len(handlers) - 1 : handlers[i] \in 1 .. Len(heap)
      BY <2>1
    <2>3. 1 \in Int /\ Len(handlers) - 1 \in Int
      BY <2>1
    <2> QED BY <1>1, <2>2, <2>3, SubSeqProperties DEF Front
  <1> QED BY <1>1, <1>2 DEF TypeOK

LEMMA HeapUnchanged ==
  ASSUME Kinds, Acyclic, Kept, OneHistory, UNCHANGED <<heap, ep, log>>
  PROVE  Kinds' /\ Acyclic' /\ Kept' /\ OneHistory'
  <1> USE DEF Remembered
  <1>1. Kinds'
    BY DEF Kinds
  <1>2. Acyclic'
    BY DEF Acyclic, Ranked
  <1>3. Kept'
    BY DEF Kept
  <1>4. OneHistory'
    BY DEF OneHistory
  <1> QED BY <1>1, <1>2, <1>3, <1>4

LEMMA Initially == Init => IInv
  <1> SUFFICES ASSUME Init PROVE IInv
    OBVIOUS
  <1>1. /\ heap = <<>> /\ Len(heap) = 0 /\ DOMAIN heap = {} /\ handlers = <<>>
        /\ ep = None /\ DOMAIN log = {None} /\ log[None] = <<>>
    BY DEF Init
  <1>2. TypeOK
    <2>1. log \in [DOMAIN log -> Seq(1 .. 0)]
      BY DEF Init
    <2> QED BY <1>1, <2>1 DEF TypeOK, None
  <1>3. Ranked(0, [o \in {} |-> 0])
    BY <1>1 DEF Ranked
  <1>4. Remembered = {}
    BY <1>1 DEF Remembered
  <1> QED BY <1>1, <1>2, <1>3, <1>4 DEF IInv, Kinds, Acyclic, Kept, OneHistory

LEMMA Inductive == IInv /\ [Next]_vars => IInv'
  <1> SUFFICES ASSUME IInv, [Next]_vars PROVE IInv'
    OBVIOUS
  <1> USE DEF IInv
  <1>1. CASE Remember
    BY <1>1, RememberTypes, RememberKinds, RememberAcyclic, RememberKept
  <1>2. CASE Rethrow
    BY <1>2, RethrowTypes, HeapUnchanged DEF Rethrow
  <1>3. CASE Leave
    BY <1>3, LeaveTypes, HeapUnchanged DEF Leave
  <1>4. ASSUME NEW k \in Kind, Throw(k) PROVE IInv'
    BY <1>4, ThrowTypes, ThrowKinds, ThrowAcyclic, ThrowKept
  <1>5. CASE UNCHANGED vars
    <2>1. TypeOK'
      BY <1>5 DEF vars, TypeOK
    <2> QED BY <1>5, <2>1, HeapUnchanged DEF vars
  <1> QED BY <1>1, <1>2, <1>3, <1>4, <1>5 DEF Next

\* Ranks exist, the log agrees with the links, and what has been remembered can
\* be reached from ep, in whatever order exceptions are thrown and remembered.
THEOREM Invariance == Spec => []IInv
  <1>1. Init => IInv
    BY Initially
  <1>2. IInv /\ [Next]_vars => IInv'
    BY Inductive
  <1> QED BY <1>1, <1>2, PTL DEF Spec

\* Objects, handlers, ep and the log are well-formed.
THEOREM TypeOKHolds == Spec => []TypeOK
  <1>1. IInv => TypeOK
    BY DEF IInv
  <1> QED BY <1>1, Invariance, PTL

-----------------------------------------------------------------------------
(* Induction along the links                                               *)

\* Induction up to n, over the set of the numbers that something holds for
LEMMA UpTo ==
  ASSUME NEW n \in Nat, NEW T, 0 \in T, \A m \in 0 .. n - 1 : m \in T => m + 1 \in T
  PROVE  0 .. n \subseteq T
  <1> SUFFICES ASSUME ~(0 .. n \subseteq T) PROVE FALSE
    OBVIOUS
  <1>1. PICK R : R = OpToRel(<, Nat)
    OBVIOUS
  <1>2. IsWellFoundedOn(R, Nat)
    BY <1>1, NatLessThanWellFounded
  <1>3. \A k, m \in Nat : <<k, m>> \in R <=> k < m
    BY <1>1 DEF OpToRel
  <1>4. PICK U : U = (0 .. n) \ T
    OBVIOUS
  <1>5. U \subseteq Nat /\ U # {}
    BY <1>4
  <1>6. PICK x \in U : \A y \in U : ~(<<y, x>> \in R)
    BY <1>2, <1>5, WFMin
  <1>7. x \in 0 .. n /\ x \notin T
    BY <1>4, <1>6
  <1>8. x # 0
    BY <1>7
  <1>9. x - 1 \in 0 .. n - 1 /\ (x - 1) + 1 = x
    BY <1>7, <1>8
  <1>10. x - 1 \notin T
    BY <1>7, <1>9
  <1>11. x - 1 \in U
    BY <1>4, <1>9, <1>10
  <1>12. <<x - 1, x>> \in R
    BY <1>3, <1>7, <1>9
  <1> QED BY <1>6, <1>11, <1>12

LEMMA LinkIsLower ==
  ASSUME TypeOK, NEW k, NEW r, Ranked(k, r), NEW o \in DOMAIN heap, NEW x \in Links(o)
  PROVE  x \in DOMAIN heap /\ r[x] < r[o]
  <1>1. PICK n \in Nat : DOMAIN heap = 1 .. n /\ heap[o].nested \in 0 .. n /\ heap[o].earlier \in 0 .. n
    BY HeapShape
  <1>2. (x = heap[o].nested \/ x = heap[o].earlier) /\ x # None
    BY DEF Links
  <1>3. x \in DOMAIN heap
    BY <1>1, <1>2 DEF None
  <1>4. r[x] < r[o]
    BY <1>2 DEF Ranked
  <1> QED BY <1>3, <1>4

(* Among any exceptions is one that has no link to any of them: what a     *)
(* program that keeps to ~Loop gets, and all that is needed for induction  *)
(* along the links.                                                        *)
NoLoops == \A S \in (SUBSET DOMAIN heap) \ {{}} : \E o \in S : Links(o) \cap S = {}

LEMMA RanksLeaveNoLoops ==
  ASSUME TypeOK, Acyclic
  PROVE  NoLoops
  <1> SUFFICES ASSUME NEW S \in SUBSET DOMAIN heap, S # {}
               PROVE  \E o \in S : Links(o) \cap S = {}
    BY DEF NoLoops
  <1>k. PICK k \in Nat : \E r : Ranked(k, r)
    BY DEF Acyclic
  <1>1. PICK r : Ranked(k, r)
    BY <1>k
  <1>2. \A o \in S : r[o] \in 0 .. k - 1
    BY <1>1 DEF Ranked
  <1>3. PICK T : T = {m \in 0 .. k : \A o \in S : ~(r[o] < m)}
    OBVIOUS
  <1>4. 0 \in T
    BY <1>2, <1>3
  <1>5. PICK m \in 0 .. k - 1 : m \in T /\ m + 1 \notin T
    <2>1. k \notin T
      BY <1>2, <1>3
    <2>2. ~(\A m \in 0 .. k - 1 : m \in T => m + 1 \in T)
      <3>1. k \in 0 .. k
        OBVIOUS
      <3> QED BY <1>4, <2>1, <3>1, UpTo
    <2> QED BY <2>2
  <1>6. PICK o \in S : r[o] < m + 1
    <2>1. m + 1 \in 0 .. k
      OBVIOUS
    <2> QED BY <1>3, <1>5, <2>1
  <1>7. ASSUME NEW x \in Links(o), x \in S PROVE FALSE
    <2>1. r[x] < r[o]
      BY <1>1, LinkIsLower
    <2>2. ~(r[x] < m)
      BY <1>3, <1>5, <1>7
    <2> QED BY <1>2, <1>6, <1>7, <2>1, <2>2
  <1> QED BY <1>6, <1>7

\* T has an exception if it has those it has links to: then it has all.
LEMMA ByLinks ==
  ASSUME NoLoops, NEW T, \A o \in DOMAIN heap : Links(o) \cap DOMAIN heap \subseteq T => o \in T
  PROVE  DOMAIN heap \subseteq T
  <1> SUFFICES ASSUME ~(DOMAIN heap \subseteq T) PROVE FALSE
    OBVIOUS
  <1>1. PICK S : S = DOMAIN heap \ T
    OBVIOUS
  <1>2. S \in (SUBSET DOMAIN heap) \ {{}}
    BY <1>1
  <1>3. PICK o \in S : Links(o) \cap S = {}
    BY <1>2 DEF NoLoops
  <1> QED BY <1>1, <1>3

-----------------------------------------------------------------------------
(* What the recursive functions are: without loops there is a function     *)
(* that is what their definitions say.                                     *)

CountAt(g, e) == IF heap[e].earlier = None THEN 1 ELSE g[heap[e].earlier] + 1

TextAt(g, e) ==
  [to_string      |-> [level \in Nat |-> Describe(g, e, level)],
   follow_nested  |-> [level \in Nat |-> FollowNested(g, e, level)],
   follow_history |-> [level \in Nat |-> FollowHistory(g, e, level)]]

LEMMA CountIsLocal ==
  ASSUME NEW e, NEW f, NEW g, \A x \in Links(e) : f[x] = g[x]
  PROVE  CountAt(f, e) = CountAt(g, e)
  BY DEF CountAt, Links

LEMMA TextIsLocal ==
  ASSUME NEW e, NEW f, NEW g, \A x \in Links(e) : f[x] = g[x]
  PROVE  TextAt(f, e) = TextAt(g, e)
  <1>1. heap[e].nested # None => f[heap[e].nested] = g[heap[e].nested]
    BY DEF Links
  <1>2. heap[e].earlier # None => f[heap[e].earlier] = g[heap[e].earlier]
    BY DEF Links
  <1>3. \A l : FollowNested(f, e, l) = FollowNested(g, e, l)
    BY <1>1, Zenon DEF FollowNested
  <1>4. \A l : FollowHistory(f, e, l) = FollowHistory(g, e, l)
    BY <1>2, <1>3, Zenon DEF FollowHistory
  <1>5. \A l : Describe(f, e, l) = Describe(g, e, l)
    BY <1>2, <1>3, Zenon DEF Describe
  <1> QED BY <1>3, <1>4, <1>5, Zenon DEF TextAt

LEMMA CountExists ==
  ASSUME TypeOK, Acyclic
  PROVE  \E g : g = [e \in DOMAIN heap |-> CountAt(g, e)]
  <1>k. PICK k \in Nat : \E r : Ranked(k, r)
    BY DEF Acyclic
  <1>1. PICK r : Ranked(k, r)
    BY <1>k
  <1>2. \A e \in DOMAIN heap : r[e] \in 0 .. k - 1
    BY <1>1 DEF Ranked
  <1>3. PICK T : T = {m \in 0 .. k : \E g : \A e \in DOMAIN heap : r[e] < m => g[e] = CountAt(g, e)}
    OBVIOUS
  <1>4. 0 \in T
    <2>1. \A e \in DOMAIN heap : ~(r[e] < 0)
      BY <1>2
    <2>2. 0 \in 0 .. k
      OBVIOUS
    <2> QED BY <1>3, <2>1, <2>2
  <1>5. ASSUME NEW m \in 0 .. k - 1, m \in T PROVE m + 1 \in T
    <2>1. PICK g : \A e \in DOMAIN heap : r[e] < m => g[e] = CountAt(g, e)
      BY <1>3, <1>5
    <2>2. PICK h : h = [e \in DOMAIN heap |-> IF r[e] < m THEN g[e] ELSE CountAt(g, e)]
      OBVIOUS
    <2>3. ASSUME NEW e \in DOMAIN heap, r[e] < m + 1 PROVE h[e] = CountAt(h, e)
      <3>1. \A x \in Links(e) : x \in DOMAIN heap /\ r[x] < m
        <4>1. ASSUME NEW x \in Links(e) PROVE x \in DOMAIN heap /\ r[x] < r[e]
          BY <1>1, LinkIsLower
        <4>2. ASSUME NEW x \in DOMAIN heap, r[x] < r[e] PROVE r[x] < m
          BY <1>2, <2>3, <4>2
        <4> QED BY <4>1, <4>2
      <3>2. \A x \in Links(e) : h[x] = g[x]
        BY <2>2, <3>1
      <3>3. CountAt(h, e) = CountAt(g, e)
        BY <3>2, CountIsLocal
      <3>4. h[e] = CountAt(g, e)
        BY <2>1, <2>2
      <3> QED BY <3>3, <3>4
    <2>4. m + 1 \in 0 .. k
      OBVIOUS
    <2> QED BY <1>3, <2>3, <2>4
  <1>6. k \in T
    <2>1. 0 .. k \subseteq T
      BY <1>4, <1>5, UpTo
    <2> QED BY <2>1
  <1>7. PICK g : \A e \in DOMAIN heap : r[e] < k => g[e] = CountAt(g, e)
    BY <1>3, <1>6
  <1>8. \A e \in DOMAIN heap : g[e] = CountAt(g, e)
    BY <1>2, <1>7
  <1>9. PICK h : h = [e \in DOMAIN heap |-> CountAt(g, e)]
    OBVIOUS
  <1>10. \A e \in DOMAIN heap : h[e] = g[e]
    BY <1>8, <1>9
  <1>11. ASSUME NEW e \in DOMAIN heap PROVE CountAt(h, e) = CountAt(g, e)
    <2>1. \A x \in Links(e) : x \in DOMAIN heap
      BY <1>1, LinkIsLower
    <2>2. \A x \in Links(e) : h[x] = g[x]
      BY <1>10, <2>1
    <2> QED BY <2>2, CountIsLocal
  <1>12. h = [e \in DOMAIN heap |-> CountAt(h, e)]
    BY <1>9, <1>11
  <1> QED BY <1>12

LEMMA TextExists ==
  ASSUME TypeOK, Acyclic
  PROVE  \E g : g = [e \in DOMAIN heap |-> TextAt(g, e)]
  <1>k. PICK k \in Nat : \E r : Ranked(k, r)
    BY DEF Acyclic
  <1>1. PICK r : Ranked(k, r)
    BY <1>k
  <1>2. \A e \in DOMAIN heap : r[e] \in 0 .. k - 1
    BY <1>1 DEF Ranked
  <1>3. PICK T : T = {m \in 0 .. k : \E g : \A e \in DOMAIN heap : r[e] < m => g[e] = TextAt(g, e)}
    OBVIOUS
  <1>4. 0 \in T
    <2>1. \A e \in DOMAIN heap : ~(r[e] < 0)
      BY <1>2
    <2>2. 0 \in 0 .. k
      OBVIOUS
    <2> QED BY <1>3, <2>1, <2>2
  <1>5. ASSUME NEW m \in 0 .. k - 1, m \in T PROVE m + 1 \in T
    <2>1. PICK g : \A e \in DOMAIN heap : r[e] < m => g[e] = TextAt(g, e)
      BY <1>3, <1>5
    <2>2. PICK h : h = [e \in DOMAIN heap |-> IF r[e] < m THEN g[e] ELSE TextAt(g, e)]
      OBVIOUS
    <2>3. ASSUME NEW e \in DOMAIN heap, r[e] < m + 1 PROVE h[e] = TextAt(h, e)
      <3>1. \A x \in Links(e) : x \in DOMAIN heap /\ r[x] < m
        <4>1. ASSUME NEW x \in Links(e) PROVE x \in DOMAIN heap /\ r[x] < r[e]
          BY <1>1, LinkIsLower
        <4>2. ASSUME NEW x \in DOMAIN heap, r[x] < r[e] PROVE r[x] < m
          BY <1>2, <2>3, <4>2
        <4> QED BY <4>1, <4>2
      <3>2. \A x \in Links(e) : h[x] = g[x]
        BY <2>2, <3>1
      <3>3. TextAt(h, e) = TextAt(g, e)
        BY <3>2, TextIsLocal
      <3>4. h[e] = TextAt(g, e)
        BY <2>1, <2>2
      <3> QED BY <3>3, <3>4
    <2>4. m + 1 \in 0 .. k
      OBVIOUS
    <2> QED BY <1>3, <2>3, <2>4
  <1>6. k \in T
    <2>1. 0 .. k \subseteq T
      BY <1>4, <1>5, UpTo
    <2> QED BY <2>1
  <1>7. PICK g : \A e \in DOMAIN heap : r[e] < k => g[e] = TextAt(g, e)
    BY <1>3, <1>6
  <1>8. \A e \in DOMAIN heap : g[e] = TextAt(g, e)
    BY <1>2, <1>7
  <1>9. PICK h : h = [e \in DOMAIN heap |-> TextAt(g, e)]
    OBVIOUS
  <1>10. \A e \in DOMAIN heap : h[e] = g[e]
    BY <1>8, <1>9
  <1>11. ASSUME NEW e \in DOMAIN heap PROVE TextAt(h, e) = TextAt(g, e)
    <2>1. \A x \in Links(e) : x \in DOMAIN heap
      BY <1>1, LinkIsLower
    <2>2. \A x \in Links(e) : h[x] = g[x]
      BY <1>10, <2>1
    <2> QED BY <2>2, TextIsLocal
  <1>12. h = [e \in DOMAIN heap |-> TextAt(h, e)]
    BY <1>9, <1>11
  <1> QED BY <1>12

LEMMA CountIs ==
  ASSUME TypeOK, Acyclic, NEW e \in DOMAIN heap
  PROVE  Count[e] = IF heap[e].earlier = None THEN 1 ELSE Count[heap[e].earlier] + 1
  <1>1. \E g : g = [x \in DOMAIN heap |-> CountAt(g, x)]
    BY CountExists
  <1>2. Count = CHOOSE g : g = [x \in DOMAIN heap |-> CountAt(g, x)]
    BY Zenon DEF Count, CountAt
  <1>3. Count = [x \in DOMAIN heap |-> CountAt(Count, x)]
    BY <1>1, <1>2, Zenon
  <1>4. Count[e] = CountAt(Count, e)
    BY <1>3, Zenon
  <1> QED BY <1>4 DEF CountAt

LEMMA TextIs ==
  ASSUME TypeOK, Acyclic, NEW e \in DOMAIN heap, NEW level \in Nat
  PROVE  /\ Text[e].to_string[level] = Describe(Text, e, level)
         /\ Text[e].follow_nested[level] = FollowNested(Text, e, level)
         /\ Text[e].follow_history[level] = FollowHistory(Text, e, level)
  <1>1. \E g : g = [x \in DOMAIN heap |-> TextAt(g, x)]
    BY TextExists
  <1>2. Text = CHOOSE g : g = [x \in DOMAIN heap |-> TextAt(g, x)]
    BY Zenon DEF Text, TextAt
  <1>3. Text = [x \in DOMAIN heap |-> TextAt(Text, x)]
    BY <1>1, <1>2, Zenon
  <1>4. Text[e] = TextAt(Text, e)
    BY <1>3, Zenon
  <1>5. /\ Text[e].to_string = [l \in Nat |-> Describe(Text, e, l)]
        /\ Text[e].follow_nested = [l \in Nat |-> FollowNested(Text, e, l)]
        /\ Text[e].follow_history = [l \in Nat |-> FollowHistory(Text, e, l)]
    BY <1>4 DEF TextAt
  <1> QED BY <1>5, Zenon

-----------------------------------------------------------------------------
(* Sequences of lines                                                      *)

Row == [origin : Nat, level : Nat, number : Nat]

\* x is u and after it w, of length m and n.
Beside(x, u, w, m, n) ==
  /\ DOMAIN x = 1 .. m + n /\ DOMAIN u = 1 .. m /\ DOMAIN w = 1 .. n
  /\ \A i \in 1 .. m : i \in 1 .. m + n /\ x[i] = u[i]
  /\ \A j \in 1 .. n : m + j \in 1 .. m + n /\ x[m + j] = w[j]
  /\ \A i \in 1 .. m + n : i \in 1 .. m \/ \E j \in 1 .. n : i = m + j

LEMMA Concat2 ==
  ASSUME NEW S, NEW u \in Seq(S), NEW w \in Seq(S)
  PROVE  u \o w \in Seq(S) /\ \E m, n \in Nat : Beside(u \o w, u, w, m, n)
  <1>1. u \o w \in Seq(S)
    OBVIOUS
  <1>2. PICK m, n \in Nat : m = Len(u) /\ n = Len(w)
    OBVIOUS
  <1>3. DOMAIN (u \o w) = 1 .. m + n /\ DOMAIN u = 1 .. m /\ DOMAIN w = 1 .. n
    BY <1>2
  <1>4. \A i \in 1 .. m : (u \o w)[i] = u[i]
    BY <1>2
  <1>5. \A j \in 1 .. n : (u \o w)[m + j] = w[j]
    BY <1>2
  <1>6. /\ \A i \in 1 .. m : i \in 1 .. m + n
        /\ \A j \in 1 .. n : m + j \in 1 .. m + n
    OBVIOUS
  <1>7. ASSUME NEW i \in 1 .. m + n PROVE i \in 1 .. m \/ \E j \in 1 .. n : i = m + j
    <2>1. i \in 1 .. m \/ (i - m \in 1 .. n /\ i = m + (i - m))
      OBVIOUS
    <2> QED BY <2>1
  <1>8. Beside(u \o w, u, w, m, n)
    BY <1>3, <1>4, <1>5, <1>6, <1>7, Zenon DEF Beside
  <1> QED BY <1>1, <1>8

Deep(s, l)  == \A i \in DOMAIN s : s[i].number > 0 => s[i].level > l
Origins(s)  == {s[i].origin : i \in DOMAIN s}

\* s has no numbered line at level l or above, and tells of these origins.
Piece(s, l, O) == s \in Seq(Row) /\ Deep(s, l) /\ Origins(s) = O

LEMMA PieceEmpty == ASSUME NEW l PROVE Piece(<<>>, l, {})
  BY DEF Piece, Deep, Origins

LEMMA PieceWeaker ==
  ASSUME NEW s, NEW l \in Nat, NEW m \in Nat, l <= m, NEW O, Piece(s, m, O)
  PROVE  Piece(s, l, O)
  <1>1. s \in Seq(Row)
    BY DEF Piece
  <1>2. ASSUME NEW i \in DOMAIN s, s[i].number > 0 PROVE s[i].level > l
    <2>1. s[i].level \in Nat
      <3>1. s[i] \in Row
        BY <1>1
      <3> QED BY <3>1 DEF Row
    <2>2. s[i].level > m
      BY <1>2, Zenon DEF Piece, Deep
    <2> QED BY <2>1, <2>2
  <1> QED BY <1>2 DEF Piece, Deep

LEMMA LineShape ==
  ASSUME TypeOK, NEW e \in DOMAIN heap, NEW level \in Nat, NEW number \in Nat
  PROVE  \E q : /\ q = Line(e, level, number) /\ q \in Seq(Row) /\ Len(q) = 1 /\ DOMAIN q = {1}
               /\ q[1].origin = heap[e].origin /\ q[1].level = level /\ q[1].number = number
  <1>1. heap[e].origin \in Nat
    BY HeapShape
  <1>2. PICK q : q = Line(e, level, number)
    OBVIOUS
  <1>3. PICK x : x = [origin |-> heap[e].origin, level |-> level, number |-> number]
    OBVIOUS
  <1>4. q = <<x>> /\ x \in Row
    BY <1>1, <1>2, <1>3 DEF Line, Row
  <1>5. q \in Seq(Row) /\ Len(q) = 1 /\ DOMAIN q = {1} /\ q[1] = x
    BY <1>4
  <1> QED BY <1>2, <1>3, <1>5

LEMMA PieceLine ==
  ASSUME TypeOK, NEW e \in DOMAIN heap, NEW level \in Nat, NEW number \in Nat, NEW l \in Nat,
         number > 0 => level > l
  PROVE  Piece(Line(e, level, number), l, {heap[e].origin})
  <1>1. PICK q : /\ q = Line(e, level, number) /\ q \in Seq(Row) /\ Len(q) = 1 /\ DOMAIN q = {1}
                 /\ q[1].origin = heap[e].origin /\ q[1].level = level /\ q[1].number = number
    BY LineShape
  <1>2. Deep(q, l)
    BY <1>1 DEF Deep
  <1>3. Origins(q) = {heap[e].origin}
    BY <1>1 DEF Origins
  <1> QED BY <1>1, <1>2, <1>3 DEF Piece

LEMMA DeepConcat ==
  ASSUME NEW u, NEW w, NEW x, NEW m, NEW n, Beside(x, u, w, m, n), NEW l, Deep(u, l), Deep(w, l)
  PROVE  Deep(x, l)
  <1> SUFFICES ASSUME NEW i \in DOMAIN x, x[i].number > 0 PROVE x[i].level > l
    BY Zenon DEF Deep
  <1>1. CASE i \in 1 .. m
    BY <1>1, Zenon DEF Beside, Deep
  <1>2. ASSUME NEW j \in 1 .. n, i = m + j PROVE x[i].level > l
    BY <1>2, Zenon DEF Beside, Deep
  <1> QED BY <1>1, <1>2, Zenon DEF Beside

LEMMA OriginsConcat ==
  ASSUME NEW u, NEW w, NEW x, NEW m, NEW n, Beside(x, u, w, m, n)
  PROVE  Origins(x) = Origins(u) \cup Origins(w)
  <1>1. ASSUME NEW i \in DOMAIN x PROVE x[i].origin \in Origins(u) \cup Origins(w)
    <2>1. CASE i \in 1 .. m
      BY <2>1, Zenon DEF Beside, Origins
    <2>2. ASSUME NEW j \in 1 .. n, i = m + j PROVE x[i].origin \in Origins(w)
      BY <2>2, Zenon DEF Beside, Origins
    <2> QED BY <2>1, <2>2, Zenon DEF Beside
  <1>2. ASSUME NEW i \in DOMAIN u PROVE u[i].origin \in Origins(x)
    BY Zenon DEF Beside, Origins
  <1>3. ASSUME NEW i \in DOMAIN w PROVE w[i].origin \in Origins(x)
    BY Zenon DEF Beside, Origins
  <1> QED BY <1>1, <1>2, <1>3 DEF Origins

LEMMA PieceConcat ==
  ASSUME NEW u, NEW w, NEW l, NEW O, NEW P, Piece(u, l, O), Piece(w, l, P)
  PROVE  Piece(u \o w, l, O \cup P)
  <1>1. u \in Seq(Row) /\ w \in Seq(Row)
    BY DEF Piece
  <1>2. PICK x : x = u \o w
    OBVIOUS
  <1>3. x \in Seq(Row) /\ \E m, n \in Nat : Beside(x, u, w, m, n)
    BY <1>1, <1>2, Concat2, Zenon
  <1>4. PICK m, n \in Nat : Beside(x, u, w, m, n)
    BY <1>3
  <1>5. Deep(x, l)
    BY <1>4, DeepConcat, Zenon DEF Piece
  <1>6. Origins(x) = O \cup P
    BY <1>4, OriginsConcat, Zenon DEF Piece
  <1> QED BY <1>2, <1>3, <1>5, <1>6 DEF Piece

-----------------------------------------------------------------------------
(* What can be reached                                                     *)

SeenFrom(n) == IF n = None THEN {} ELSE {heap[o].origin : o \in Reach({n})}

LEMMA ReachOfLinks ==
  ASSUME TypeOK, NEW e \in DOMAIN heap
  PROVE  /\ e \in Reach({e})
         /\ \A x \in Links(e) : Reach({x}) \subseteq Reach({e})
         /\ \A o \in Reach({e}) : o = e \/ \E x \in Links(e) : o \in Reach({x})
  <1>1. e \in Reach({e})
    BY DEF Reach
  <1>2. ASSUME NEW x \in Links(e), NEW o \in Reach({x}) PROVE o \in Reach({e})
    <2>1. ASSUME NEW C \in SUBSET (DOMAIN heap \ {o}), {e} \subseteq C, Closed(C) PROVE FALSE
      <3>1. {x} \subseteq C
        BY <2>1 DEF Closed
      <3> QED BY <1>2, <2>1, <3>1 DEF Reach
    <2> QED BY <1>2, <2>1 DEF Reach
  <1>3. ASSUME NEW o \in Reach({e}), o # e, \A x \in Links(e) : o \notin Reach({x})
        PROVE  FALSE
    <2>1. o \in DOMAIN heap
      BY DEF Reach
    <2>2. PICK C : C = {y \in DOMAIN heap : y = e \/ \E x \in Links(e) : y \in Reach({x})}
      OBVIOUS
    <2>3. C \in SUBSET (DOMAIN heap \ {o}) /\ {e} \subseteq C
      BY <1>3, <2>2
    <2>4. \A y \in DOMAIN heap : Links(y) \subseteq DOMAIN heap
      <3>1. PICK n \in Nat : DOMAIN heap = 1 .. n /\ \A y \in 1 .. n : heap[y].nested \in 0 .. n /\ heap[y].earlier \in 0 .. n
        BY HeapShape
      <3> QED BY <3>1 DEF Links, None
    <2>5. ASSUME NEW y \in C, NEW z \in Links(y) PROVE z \in C
      <3>1. z \in DOMAIN heap
        BY <2>2, <2>4
      <3>2. CASE y = e
        <4>1. z \in Reach({z})
          BY <3>1 DEF Reach
        <4> QED BY <2>2, <3>1, <3>2, <4>1
      <3>3. ASSUME NEW x \in Links(e), y \in Reach({x}) PROVE z \in C
        <4>1. z \in Reach({x})
          <5>1. ASSUME NEW D \in SUBSET (DOMAIN heap \ {z}), {x} \subseteq D, Closed(D) PROVE FALSE
            <6>1. y \notin D
              BY <5>1 DEF Closed
            <6>2. D \in SUBSET (DOMAIN heap \ {y})
              BY <6>1
            <6> QED BY <3>3, <5>1, <6>2 DEF Reach
          <5> QED BY <3>1, <5>1 DEF Reach
        <4> QED BY <2>2, <3>1, <4>1
      <3> QED BY <2>2, <3>2, <3>3
    <2>6. Closed(C)
      BY <2>5 DEF Closed
    <2> QED BY <2>3, <2>6 DEF Reach
  <1> QED BY <1>1, <1>2, <1>3

LEMMA SeenIs ==
  ASSUME TypeOK, NEW e \in DOMAIN heap
  PROVE  SeenFrom(e) = {heap[e].origin} \cup SeenFrom(heap[e].nested) \cup SeenFrom(heap[e].earlier)
  <1>1. e # None
    BY HeapShape DEF None
  <1>2. SeenFrom(e) = {heap[o].origin : o \in Reach({e})}
    BY <1>1 DEF SeenFrom
  <1>3. /\ \A x \in Links(e) : SeenFrom(x) = {heap[o].origin : o \in Reach({x})}
        /\ SeenFrom(None) = {}
    BY DEF SeenFrom, Links
  <1>4. ASSUME NEW y \in SeenFrom(e)
        PROVE  y \in {heap[e].origin} \cup SeenFrom(heap[e].nested) \cup SeenFrom(heap[e].earlier)
    <2>1. PICK o \in Reach({e}) : y = heap[o].origin
      BY <1>2
    <2>2. CASE o = e
      BY <2>1, <2>2
    <2>3. ASSUME NEW x \in Links(e), o \in Reach({x})
          PROVE  y \in SeenFrom(heap[e].nested) \cup SeenFrom(heap[e].earlier)
      <3>1. y \in SeenFrom(x)
        BY <1>3, <2>1, <2>3
      <3> QED BY <3>1 DEF Links
    <2> QED BY <2>2, <2>3, ReachOfLinks
  <1>5. heap[e].origin \in SeenFrom(e)
    BY <1>2, ReachOfLinks
  <1>6. ASSUME NEW x \in Links(e), NEW y \in SeenFrom(x) PROVE y \in SeenFrom(e)
    <2>1. PICK o \in Reach({x}) : y = heap[o].origin
      BY <1>3, <1>6
    <2>2. o \in Reach({e})
      BY <2>1, ReachOfLinks
    <2> QED BY <1>2, <2>1, <2>2
  <1>7. SeenFrom(heap[e].nested) \subseteq SeenFrom(e) /\ SeenFrom(heap[e].earlier) \subseteq SeenFrom(e)
    BY <1>3, <1>6 DEF Links
  <1> QED BY <1>4, <1>5, <1>7

-----------------------------------------------------------------------------
(* Strings are complete                                                    *)

\* What the three functions write for e: its levels, and of whom it tells.
Good(e) ==
  \A l \in Nat :
    /\ Piece(Text[e].to_string[l], l + 2, SeenFrom(e))
    /\ Piece(Text[e].follow_nested[l], l + 3, SeenFrom(heap[e].nested))
    /\ Piece(Text[e].follow_history[l], l, SeenFrom(e))

LEMMA CountIsNat ==
  ASSUME TypeOK, Acyclic, NEW e \in DOMAIN heap
  PROVE  Count[e] \in Nat /\ Count[e] > 0
  <1>1. PICK T : T = {o \in DOMAIN heap : Count[o] \in Nat /\ Count[o] > 0}
    OBVIOUS
  <1>2. ASSUME NEW o \in DOMAIN heap, Links(o) \cap DOMAIN heap \subseteq T PROVE o \in T
    <2>1. Count[o] = IF heap[o].earlier = None THEN 1 ELSE Count[heap[o].earlier] + 1
      BY CountIs
    <2>2. heap[o].earlier = None \/ heap[o].earlier \in T
      <3>1. PICK n \in Nat : DOMAIN heap = 1 .. n /\ heap[o].earlier \in 0 .. n
        BY HeapShape
      <3> QED BY <1>2, <3>1 DEF Links, None
    <2> QED BY <1>1, <2>1, <2>2
  <1>3. DOMAIN heap \subseteq T
    BY <1>2, RanksLeaveNoLoops, ByLinks
  <1> QED BY <1>1, <1>3

LEMMA NestedPiece ==
  ASSUME TypeOK, Kinds, NEW e \in DOMAIN heap, NEW l \in Nat,
         heap[e].nested # None => Good(heap[e].nested)
  PROVE  Piece(FollowNested(Text, e, l), l + 3, SeenFrom(heap[e].nested))
  <1>1. PICK n : n = heap[e].nested
    OBVIOUS
  <1>2. PICK a, b, c \in Nat : a = l + 1 /\ b = l + 3 /\ c = a + 3 /\ b = a + 2 /\ b <= c
    <2>1. l + 1 \in Nat /\ l + 3 \in Nat /\ l + 4 \in Nat /\ l + 4 = (l + 1) + 3 /\ l + 3 = (l + 1) + 2 /\ l + 3 <= l + 4
      OBVIOUS
    <2> QED BY <2>1
  <1>3. CASE n = None
    <2>1. FollowNested(Text, e, l) = <<>> /\ SeenFrom(n) = {}
      BY <1>1, <1>3 DEF FollowNested, SeenFrom
    <2> QED BY <1>1, <2>1, PieceEmpty, Zenon
  <1>4. ASSUME n # None PROVE n \in DOMAIN heap /\ Good(n)
    <2>1. PICK k \in Nat : DOMAIN heap = 1 .. k /\ heap[e].nested \in 0 .. k
      BY HeapShape
    <2> QED BY <1>1, <1>4, <2>1 DEF None
  <1>5. CASE n # None /\ heap[n].kind = "lomiri"
    <2>1. FollowNested(Text, e, l) = Text[n].to_string[a]
      BY <1>1, <1>2, <1>5, Zenon DEF FollowNested
    <2>2. Piece(Text[n].to_string[a], a + 2, SeenFrom(n))
      BY <1>2, <1>4, <1>5, Zenon DEF Good
    <2> QED BY ONLY <1>1, <1>2, <2>1, <2>2
  <1>6. CASE n # None /\ heap[n].kind # "lomiri"
    <2>1. PICK w : w = IF heap[n].kind = "nested" THEN Text[n].follow_nested[a] ELSE <<>>
      OBVIOUS
    <2>2. FollowNested(Text, e, l) = Line(n, a, 0) \o w
      BY <1>1, <1>2, <1>6, <2>1, Zenon DEF FollowNested
    <2>3. heap[n].earlier = None
      BY <1>4, <1>6, Zenon DEF Kinds
    <2>4. SeenFrom(n) = {heap[n].origin} \cup SeenFrom(heap[n].nested)
      <3>1. SeenFrom(n) = {heap[n].origin} \cup SeenFrom(heap[n].nested) \cup SeenFrom(heap[n].earlier)
        BY <1>4, <1>6, SeenIs
      <3>2. SeenFrom(heap[n].earlier) = {}
        BY <2>3 DEF SeenFrom
      <3> QED BY ONLY <3>1, <3>2
    <2>5. Piece(w, b, SeenFrom(heap[n].nested))
      <3>1. CASE heap[n].kind = "nested"
        <4>1. Piece(Text[n].follow_nested[a], a + 3, SeenFrom(heap[n].nested))
          BY <1>2, <1>4, <1>6, Zenon DEF Good
        <4>2. Piece(w, c, SeenFrom(heap[n].nested))
          BY ONLY <1>2, <2>1, <3>1, <4>1
        <4>3. b \in Nat /\ c \in Nat /\ b <= c
          BY ONLY <1>2
        <4> QED BY ONLY <4>2, <4>3, PieceWeaker, Zenon
      <3>2. CASE heap[n].kind # "nested"
        <4>1. heap[n].nested = None
          <5>1. heap[n].kind \in Kind
            BY <1>4, <1>6, HeapShape
          <5>2. heap[n].kind = "plain"
            BY <1>6, <3>2, <5>1 DEF Kind
          <5> QED BY <1>4, <1>6, <5>2 DEF Kinds
        <4>2. w = <<>> /\ SeenFrom(heap[n].nested) = {}
          BY <2>1, <3>2, <4>1 DEF SeenFrom
        <4> QED BY <4>2, PieceEmpty, Zenon
      <3> QED BY <3>1, <3>2
    <2>6. Piece(Line(n, a, 0), b, {heap[n].origin})
      <3>1. n \in DOMAIN heap
        BY <1>4, <1>6
      <3> QED BY <1>2, <3>1, PieceLine
    <2>7. Piece(Line(n, a, 0) \o w, b, {heap[n].origin} \cup SeenFrom(heap[n].nested))
      BY <2>5, <2>6, PieceConcat, Zenon
    <2> QED BY ONLY <1>1, <1>2, <2>2, <2>4, <2>7
  <1> QED BY <1>3, <1>5, <1>6

LEMMA HistoryPiece ==
  ASSUME TypeOK, Kinds, Acyclic, NEW e \in DOMAIN heap, NEW l \in Nat,
         heap[e].nested # None => Good(heap[e].nested),
         heap[e].earlier # None => Good(heap[e].earlier)
  PROVE  Piece(FollowHistory(Text, e, l), l, SeenFrom(e))
  <1>1. PICK p, u : /\ p = heap[e].earlier
                    /\ u = IF p = None THEN <<>> ELSE Text[p].follow_history[l]
    OBVIOUS
  <1>2. PICK a, b \in Nat : a = l + 1 /\ b = a + 3 /\ l <= b /\ l < a
    <2>1. l + 1 \in Nat /\ (l + 1) + 3 \in Nat /\ l <= (l + 1) + 3 /\ l < l + 1
      OBVIOUS
    <2> QED BY <2>1
  <1>3. FollowHistory(Text, e, l) = u \o Line(e, a, Count[e]) \o FollowNested(Text, e, a)
    BY <1>1, <1>2, Zenon DEF FollowHistory
  <1>4. Piece(u, l, SeenFrom(p))
    <2>1. CASE p = None
      <3>1. u = <<>> /\ SeenFrom(p) = {}
        BY <1>1, <2>1 DEF SeenFrom
      <3> QED BY <3>1, PieceEmpty, Zenon
    <2>2. CASE p # None
      BY <1>1, <2>2, Zenon DEF Good
    <2> QED BY <2>1, <2>2
  <1>5. Piece(Line(e, a, Count[e]), l, {heap[e].origin})
    BY <1>2, CountIsNat, PieceLine
  <1>6. Piece(FollowNested(Text, e, a), l, SeenFrom(heap[e].nested))
    <2>1. Piece(FollowNested(Text, e, a), a + 3, SeenFrom(heap[e].nested))
      BY <1>2, NestedPiece, Zenon
    <2>2. Piece(FollowNested(Text, e, a), b, SeenFrom(heap[e].nested))
      BY ONLY <1>2, <2>1
    <2>3. l \in Nat /\ b \in Nat /\ l <= b
      BY ONLY <1>2, l \in Nat
    <2> QED BY ONLY <2>2, <2>3, PieceWeaker, Zenon
  <1>7. Piece(u \o Line(e, a, Count[e]), l, SeenFrom(p) \cup {heap[e].origin})
    BY <1>4, <1>5, PieceConcat, Zenon
  <1>8. Piece(u \o Line(e, a, Count[e]) \o FollowNested(Text, e, a), l,
              (SeenFrom(p) \cup {heap[e].origin}) \cup SeenFrom(heap[e].nested))
    BY <1>6, <1>7, PieceConcat, Zenon
  <1>9. SeenFrom(e) = (SeenFrom(p) \cup {heap[e].origin}) \cup SeenFrom(heap[e].nested)
    <2>1. SeenFrom(e) = {heap[e].origin} \cup SeenFrom(heap[e].nested) \cup SeenFrom(heap[e].earlier)
      BY SeenIs
    <2> QED BY ONLY <1>1, <2>1
  <1> QED BY ONLY <1>3, <1>8, <1>9

LEMMA DescribePiece ==
  ASSUME TypeOK, Kinds, NEW e \in DOMAIN heap, NEW l \in Nat,
         heap[e].nested # None => Good(heap[e].nested),
         heap[e].earlier # None => Good(heap[e].earlier)
  PROVE  Piece(Describe(Text, e, l), l + 2, SeenFrom(e))
  <1>1. PICK p : p = heap[e].earlier
    OBVIOUS
  <1>2. PICK a, b \in Nat : a = l + 2 /\ b = l + 3 /\ a <= b
    <2>1. l + 2 \in Nat /\ l + 3 \in Nat /\ l + 2 <= l + 3
      OBVIOUS
    <2> QED BY <2>1
  <1>3. PICK u : u = IF p = None THEN Line(e, l, 0) ELSE Line(e, l, 0) \o Text[p].follow_history[a]
    OBVIOUS
  <1>4. Describe(Text, e, l) = u \o FollowNested(Text, e, l)
    BY <1>1, <1>2, <1>3, Zenon DEF Describe
  <1>5. Piece(Line(e, l, 0), a, {heap[e].origin})
    BY <1>2, PieceLine
  <1>6. Piece(u, a, {heap[e].origin} \cup SeenFrom(p))
    <2>1. CASE p = None
      <3>1. u = Line(e, l, 0) /\ SeenFrom(p) = {}
        BY <1>3, <2>1 DEF SeenFrom
      <3>2. {heap[e].origin} \cup SeenFrom(p) = {heap[e].origin}
        BY ONLY <3>1
      <3> QED BY ONLY <1>5, <3>1, <3>2
    <2>2. CASE p # None
      <3>1. Piece(Text[p].follow_history[a], a, SeenFrom(p))
        BY <1>1, <1>2, <2>2, Zenon DEF Good
      <3>2. u = Line(e, l, 0) \o Text[p].follow_history[a]
        BY <1>3, <2>2
      <3> QED BY <1>5, <3>1, <3>2, PieceConcat, Zenon
    <2> QED BY <2>1, <2>2
  <1>7. Piece(FollowNested(Text, e, l), a, SeenFrom(heap[e].nested))
    <2>1. Piece(FollowNested(Text, e, l), l + 3, SeenFrom(heap[e].nested))
      BY NestedPiece, Zenon
    <2>2. Piece(FollowNested(Text, e, l), b, SeenFrom(heap[e].nested))
      BY ONLY <1>2, <2>1
    <2>3. a \in Nat /\ b \in Nat /\ a <= b
      BY ONLY <1>2
    <2> QED BY ONLY <2>2, <2>3, PieceWeaker, Zenon
  <1>8. Piece(u \o FollowNested(Text, e, l), a,
              ({heap[e].origin} \cup SeenFrom(p)) \cup SeenFrom(heap[e].nested))
    BY <1>6, <1>7, PieceConcat, Zenon
  <1>9. SeenFrom(e) = ({heap[e].origin} \cup SeenFrom(p)) \cup SeenFrom(heap[e].nested)
    <2>1. SeenFrom(e) = {heap[e].origin} \cup SeenFrom(heap[e].nested) \cup SeenFrom(heap[e].earlier)
      BY SeenIs
    <2> QED BY ONLY <1>1, <2>1
  <1> QED BY ONLY <1>2, <1>4, <1>8, <1>9

LEMMA AllGood ==
  ASSUME TypeOK, Kinds, Acyclic
  PROVE  \A e \in DOMAIN heap : Good(e)
  <1>1. PICK T : T = {o \in DOMAIN heap : Good(o)}
    OBVIOUS
  <1>2. ASSUME NEW e \in DOMAIN heap, Links(e) \cap DOMAIN heap \subseteq T PROVE e \in T
    <2>1. /\ heap[e].nested # None => Good(heap[e].nested)
          /\ heap[e].earlier # None => Good(heap[e].earlier)
      <3>1. PICK n \in Nat : DOMAIN heap = 1 .. n /\ heap[e].nested \in 0 .. n /\ heap[e].earlier \in 0 .. n
        BY HeapShape
      <3>2. /\ heap[e].nested # None => heap[e].nested \in T
            /\ heap[e].earlier # None => heap[e].earlier \in T
        BY <1>2, <3>1 DEF Links, None
      <3> QED BY <1>1, <3>2
    <2>2. ASSUME NEW l \in Nat
          PROVE  /\ Piece(Text[e].to_string[l], l + 2, SeenFrom(e))
                 /\ Piece(Text[e].follow_nested[l], l + 3, SeenFrom(heap[e].nested))
                 /\ Piece(Text[e].follow_history[l], l, SeenFrom(e))
      <3>1. /\ Text[e].to_string[l] = Describe(Text, e, l)
            /\ Text[e].follow_nested[l] = FollowNested(Text, e, l)
            /\ Text[e].follow_history[l] = FollowHistory(Text, e, l)
        BY TextIs
      <3>2. Piece(Describe(Text, e, l), l + 2, SeenFrom(e))
        BY <2>1, DescribePiece, Zenon
      <3>3. Piece(FollowNested(Text, e, l), l + 3, SeenFrom(heap[e].nested))
        BY <2>1, NestedPiece, Zenon
      <3>4. Piece(FollowHistory(Text, e, l), l, SeenFrom(e))
        BY <2>1, HistoryPiece, Zenon
      <3> QED BY <3>1, <3>2, <3>3, <3>4, Zenon
    <2>3. Good(e)
      BY <2>2, Zenon DEF Good
    <2> QED BY <1>1, <2>3
  <1>3. DOMAIN heap \subseteq T
    BY <1>2, RanksLeaveNoLoops, ByLinks
  <1> QED BY <1>1, <1>3

\* The string of an exception tells of every exception that can be reached from
\* it through nested and earlier ones, and of no other.
THEOREM StringIsCompleteHolds == Spec => []StringIsComplete
  <1>1. ASSUME IInv PROVE StringIsComplete
    <2> SUFFICES ASSUME NEW e \in Lomiri
                 PROVE  {heap[o].origin : o \in Reach({e})} = {line.origin : line \in ToSet(Shown(e))}
      BY DEF StringIsComplete
    <2>1. e \in DOMAIN heap /\ e # None
      BY <1>1, HeapShape DEF Lomiri, IInv, None
    <2>2. Good(e)
      BY <1>1, <2>1, AllGood DEF IInv
    <2>3. Piece(Shown(e), 0 + 2, SeenFrom(e))
      BY <2>2, Zenon DEF Good, Shown
    <2>4. Origins(Shown(e)) = {heap[o].origin : o \in Reach({e})}
      BY <2>1, <2>3, Zenon DEF Piece, SeenFrom
    <2>5. Origins(Shown(e)) = {line.origin : line \in ToSet(Shown(e))}
      BY DEF Origins, ToSet
    <2> QED BY <2>4, <2>5
  <1>2. IInv => StringIsComplete
    BY <1>1
  <1> QED BY <1>2, Invariance, PTL

-----------------------------------------------------------------------------
(* Strings show the history                                                *)

Own(s, l) == {i \in DOMAIN s : s[i].number > 0 /\ s[i].level = l}

\* Shows, for a set of indices
Tells(s, own, r) ==
  /\ {s[i].number : i \in own} = DOMAIN r
  /\ \A i \in own : s[i].origin = r[s[i].number]
  /\ \A i, j \in own : i < j => s[i].number < s[j].number

LEMMA ShowsIs ==
  ASSUME NEW s, NEW l, NEW r
  PROVE  Shows(s, l, r) <=> Tells(s, Own(s, l), r)
  BY Zenon DEF Shows, Tells, Own

LEMMA ShowsEmpty == ASSUME NEW l PROVE Shows(<<>>, l, <<>>)
  BY DEF Shows

LEMMA ShowsThenDeep ==
  ASSUME NEW u, NEW w, NEW x, NEW m \in Nat, NEW n \in Nat, Beside(x, u, w, m, n),
         NEW l \in Nat, NEW r, Shows(u, l, r), Deep(w, l)
  PROVE  Shows(x, l, r)
  <1>1. ASSUME NEW i \in Own(x, l) PROVE i \in 1 .. m
    <2>1. ASSUME NEW j \in 1 .. n, i = m + j PROVE FALSE
      <3>1. w[j].number > 0 /\ w[j].level = l /\ j \in DOMAIN w
        BY <2>1, Zenon DEF Own, Beside
      <3>2. w[j].level > l
        BY <3>1, Zenon DEF Deep
      <3> QED BY ONLY <3>1, <3>2, l \in Nat
    <2> QED BY <2>1, Zenon DEF Own, Beside
  <1>2. \A i \in 1 .. m : i \in DOMAIN x /\ i \in DOMAIN u /\ x[i] = u[i]
    BY Zenon DEF Beside
  <1>3. \A i \in Own(u, l) : i \in 1 .. m
    BY Zenon DEF Own, Beside
  <1>4. Own(x, l) = Own(u, l)
    <2>1. ASSUME NEW i \in Own(x, l) PROVE i \in Own(u, l)
      BY <1>1, <1>2, Zenon DEF Own
    <2>2. ASSUME NEW i \in Own(u, l) PROVE i \in Own(x, l)
      BY <1>2, <1>3, Zenon DEF Own
    <2> QED BY <2>1, <2>2
  <1>5. PICK O : O = Own(u, l)
    OBVIOUS
  <1>6. Tells(u, O, r)
    BY <1>5, ShowsIs, Zenon
  <1>7. \A i \in O : x[i] = u[i]
    BY <1>2, <1>3, <1>5
  <1>8. Tells(x, O, r)
    <2>1. {x[i].number : i \in O} = {u[i].number : i \in O}
      BY ONLY <1>7
    <2>2. \A i \in O : x[i].origin = r[x[i].number]
      BY ONLY <1>6, <1>7, Zenon DEF Tells
    <2>3. \A i, j \in O : i < j => x[i].number < x[j].number
      BY ONLY <1>6, <1>7, Zenon DEF Tells
    <2> QED BY ONLY <1>6, <2>1, <2>2, <2>3 DEF Tells
  <1> QED BY <1>4, <1>5, <1>8, ShowsIs, Zenon

LEMMA DeepThenShows ==
  ASSUME NEW u, NEW w, NEW x, NEW m \in Nat, NEW n \in Nat, Beside(x, u, w, m, n),
         NEW l \in Nat, NEW r, Deep(u, l), Shows(w, l, r)
  PROVE  Shows(x, l, r)
  <1>1. ASSUME NEW i \in Own(x, l) PROVE \E j \in Own(w, l) : i = m + j
    <2>1. ASSUME i \in 1 .. m PROVE FALSE
      <3>1. u[i].number > 0 /\ u[i].level = l /\ i \in DOMAIN u
        BY <2>1, Zenon DEF Own, Beside
      <3>2. u[i].level > l
        BY <3>1, Zenon DEF Deep
      <3> QED BY ONLY <3>1, <3>2, l \in Nat
    <2>2. PICK j \in 1 .. n : i = m + j
      BY <2>1, Zenon DEF Own, Beside
    <2>3. j \in Own(w, l)
      BY <2>2, Zenon DEF Own, Beside
    <2> QED BY <2>2, <2>3
  <1>2. ASSUME NEW j \in Own(w, l)
        PROVE  m + j \in Own(x, l) /\ x[m + j] = w[j] /\ j \in 1 .. n
    BY Zenon DEF Own, Beside
  <1>3. PICK O, Q : O = Own(w, l) /\ Q = Own(x, l)
    OBVIOUS
  <1>4. Tells(w, O, r)
    BY <1>3, ShowsIs, Zenon
  <1>5. \A i \in Q : \E j \in O : i = m + j
    BY <1>1, <1>3
  <1>6. \A j \in O : m + j \in Q /\ x[m + j] = w[j] /\ j \in 1 .. n
    BY <1>2, <1>3
  <1>7. {x[i].number : i \in Q} = DOMAIN r
    <2>1. {x[i].number : i \in Q} = {w[j].number : j \in O}
      BY ONLY <1>5, <1>6
    <2> QED BY <1>4, <2>1 DEF Tells
  <1>8. \A i \in Q : x[i].origin = r[x[i].number]
    BY ONLY <1>4, <1>5, <1>6 DEF Tells
  <1>9. ASSUME NEW i \in Q, NEW j \in Q, i < j PROVE x[i].number < x[j].number
    <2>1. PICK a \in O, b \in O : i = m + a /\ j = m + b
      BY <1>5
    <2>2. a < b
      <3>1. a \in Nat /\ b \in Nat
        BY <1>6
      <3> QED BY <1>9, <2>1, <3>1
    <2>3. w[a].number < w[b].number
      BY <1>4, <2>2 DEF Tells
    <2> QED BY <1>6, <2>1, <2>3
  <1>10. Tells(x, Q, r)
    BY <1>7, <1>8, <1>9 DEF Tells
  <1> QED BY <1>3, <1>10, ShowsIs, Zenon

LEMMA ShowsNext ==
  ASSUME NEW u, NEW w, NEW x, NEW m \in Nat, NEW n \in Nat, Beside(x, u, w, m, n),
         NEW l \in Nat, NEW r \in Seq(Nat), NEW o \in Nat, Shows(u, l, r),
         DOMAIN w = {1}, w[1].origin = o, w[1].level = l, w[1].number = Len(r) + 1
  PROVE  Shows(x, l, Append(r, o))
  <1>k. PICK k \in Nat : k = Len(r)
    BY ONLY r \in Seq(Nat)
  <1>r. PICK r1 : r1 = Append(r, o)
    OBVIOUS
  <1>1. /\ k = Len(r) /\ r1 = Append(r, o) /\ DOMAIN r = 1 .. k
        /\ DOMAIN r1 = 1 .. k + 1 /\ r1[k + 1] = o
        /\ \A i \in 1 .. k : r1[i] = r[i]
    <2>1. /\ Len(r) \in Nat /\ DOMAIN r = 1 .. Len(r)
          /\ DOMAIN Append(r, o) = 1 .. Len(r) + 1 /\ Append(r, o)[Len(r) + 1] = o
          /\ \A i \in 1 .. Len(r) : Append(r, o)[i] = r[i]
      BY ONLY r \in Seq(Nat), o \in Nat
    <2> QED BY ONLY <1>k, <1>r, <2>1
  <1>2. n = 1
    <2>1. 1 .. n = {1}
      BY Zenon DEF Beside
    <2>2. 1 \in 1 .. n
      BY ONLY <2>1
    <2>3. n \in 1 .. n
      BY ONLY <2>2, n \in Nat
    <2> QED BY ONLY <2>1, <2>3
  <1>3. m + 1 \in DOMAIN x /\ x[m + 1] = w[1]
    BY <1>2 DEF Beside
  <1>4. /\ \A i \in 1 .. m : i \in DOMAIN x /\ i \in DOMAIN u /\ x[i] = u[i]
        /\ \A i \in DOMAIN u : i \in 1 .. m
        /\ \A i \in DOMAIN x : i \in 1 .. m \/ \E j \in 1 .. n : i = m + j
    BY Zenon DEF Beside
  <1>5. PICK O, Q : O = Own(u, l) /\ Q = Own(x, l)
    OBVIOUS
  <1>6. O \subseteq 1 .. m
    BY <1>4, <1>5 DEF Own
  <1>7. Q = O \cup {m + 1}
    <2>1. ASSUME NEW i \in Q PROVE i \in O \cup {m + 1}
      <3>1. i \in DOMAIN x /\ x[i].number > 0 /\ x[i].level = l
        BY <1>5 DEF Own
      <3>2. CASE i \in 1 .. m
        BY <1>4, <1>5, <3>1, <3>2 DEF Own
      <3>3. CASE i \notin 1 .. m
        BY <1>2, <1>4, <3>1, <3>3
      <3> QED BY <3>2, <3>3
    <2>2. ASSUME NEW i \in O PROVE i \in Q
      <3>1. i \in DOMAIN u /\ u[i].number > 0 /\ u[i].level = l
        BY <1>5 DEF Own
      <3> QED BY <1>4, <1>5, <3>1, Zenon DEF Own
    <2>3. m + 1 \in Q
      <3>1. x[m + 1].number > 0 /\ x[m + 1].level = l
        BY <1>1, <1>3
      <3> QED BY <1>3, <1>5, <3>1 DEF Own
    <2> QED BY <2>1, <2>2, <2>3
  <1>8. Tells(u, O, r)
    BY <1>5, ShowsIs, Zenon
  <1>9. \A i \in O : x[i] = u[i] /\ i \in 1 .. m
    BY <1>4, <1>6
  <1>10. \A i \in O : u[i].number \in 1 .. k
    <2>1. \A i \in O : u[i].number \in DOMAIN r
      BY <1>8 DEF Tells
    <2> QED BY <1>1, <2>1
  <1>11. x[m + 1].number = k + 1 /\ x[m + 1].origin = o
    BY <1>1, <1>3
  <1>12. {x[i].number : i \in Q} = DOMAIN r1
    <2>1. {x[i].number : i \in O} = {u[i].number : i \in O}
      BY <1>9
    <2>2. {u[i].number : i \in O} = 1 .. k
      BY <1>1, <1>8 DEF Tells
    <2>3. {x[i].number : i \in Q} = {x[i].number : i \in O} \cup {x[m + 1].number}
      BY ONLY <1>7
    <2>4. (1 .. k) \cup {k + 1} = 1 .. k + 1
      OBVIOUS
    <2> QED BY ONLY <1>1, <1>11, <2>1, <2>2, <2>3, <2>4
  <1>13. ASSUME NEW i \in Q PROVE x[i].origin = r1[x[i].number]
    <2>1. CASE i = m + 1
      BY <1>1, <1>11, <2>1
    <2>2. CASE i \in O
      <3>1. u[i].origin = r[u[i].number]
        BY <1>8, <2>2, Zenon DEF Tells
      <3>2. r1[u[i].number] = r[u[i].number]
        BY <1>1, <1>10, <2>2
      <3> QED BY <1>9, <2>2, <3>1, <3>2
    <2> QED BY <1>7, <2>1, <2>2
  <1>14. ASSUME NEW i \in Q, NEW j \in Q, i < j PROVE x[i].number < x[j].number
    <2>1. CASE i \in O /\ j \in O
      <3>1. u[i].number < u[j].number
        BY <1>8, <1>14, <2>1, Zenon DEF Tells
      <3> QED BY <1>9, <2>1, <3>1
    <2>2. CASE i \in O /\ j = m + 1
      <3>1. x[i].number \in 1 .. k
        BY <1>9, <1>10, <2>2
      <3> QED BY <1>11, <2>2, <3>1
    <2>3. CASE i = m + 1
      <3>1. j \in 1 .. m \/ j = m + 1
        BY <1>6, <1>7
      <3> QED BY <1>14, <2>3, <3>1
    <2> QED BY <1>7, <2>1, <2>2, <2>3
  <1>15. Tells(x, Q, r1)
    BY <1>12, <1>13, <1>14 DEF Tells
  <1> QED BY <1>1, <1>5, <1>15, ShowsIs, Zenon

LEMMA LogShape ==
  ASSUME TypeOK, NEW o \in DOMAIN log
  PROVE  log[o] \in Seq(Nat)
  <1>1. PICK n \in Nat : n = Len(heap)
    BY HeapShape
  <1>2. log[o] \in Seq(1 .. n)
    BY <1>1 DEF TypeOK
  <1>3. 1 .. n \subseteq Nat
    OBVIOUS
  <1> QED BY ONLY <1>2, <1>3

\* What follow_history() writes for an exception that was remembered.
Told(o) ==
  /\ Count[o] = Len(log[o])
  /\ \A l \in Nat : Shows(Text[o].follow_history[l], l + 1, log[o])

LEMMA ToldNext ==
  ASSUME TypeOK, Kinds, Acyclic, Kept, NEW e \in Remembered,
         heap[e].earlier # None => Told(heap[e].earlier)
  PROVE  Told(e)
  <1>1. e \in DOMAIN heap /\ e \in DOMAIN log
    <2>1. PICK n \in Nat : DOMAIN heap = 1 .. n /\ DOMAIN log \subseteq 0 .. n
      BY HeapShape
    <2> QED BY <2>1 DEF Remembered, None
  <1>2. PICK p, r, o : p = heap[e].earlier /\ r = log[p] /\ o = heap[e].origin
    OBVIOUS
  <1>3. /\ p \in DOMAIN log /\ log[e] = Append(r, o) /\ o \in Nat /\ r \in Seq(Nat)
        /\ p = None => r = <<>>
    <2>1. p \in DOMAIN log /\ log[e] = Append(r, o) /\ (p = None => r = <<>>)
      BY <1>1, <1>2, Zenon DEF Kept
    <2>2. o \in Nat
      BY <1>1, <1>2, HeapShape
    <2> QED BY <1>2, <2>1, <2>2, LogShape
  <1>4. Count[e] = Len(r) + 1
    <2>1. Count[e] = IF p = None THEN 1 ELSE Count[p] + 1
      BY <1>1, <1>2, CountIs
    <2>2. CASE p = None
      BY <1>3, <2>1, <2>2
    <2>3. CASE p # None
      <3>1. Count[p] = Len(log[p])
        BY <1>2, <2>3, Zenon DEF Told
      <3> QED BY <1>2, <2>1, <2>3, <3>1
    <2> QED BY <2>2, <2>3
  <1>5. Count[e] = Len(log[e])
    BY <1>3, <1>4
  <1>6. ASSUME NEW l \in Nat PROVE Shows(Text[e].follow_history[l], l + 1, log[e])
    <2>1. PICK a, b \in Nat : a = l + 1 /\ b = a + 3 /\ a <= b
      <3>1. l + 1 \in Nat /\ (l + 1) + 3 \in Nat /\ l + 1 <= (l + 1) + 3
        OBVIOUS
      <3> QED BY <3>1
    <2>2. PICK u, v, w : /\ u = IF p = None THEN <<>> ELSE Text[p].follow_history[l]
                         /\ v = Line(e, a, Count[e])
                         /\ w = FollowNested(Text, e, a)
      OBVIOUS
    <2>3. Text[e].follow_history[l] = u \o v \o w
      <3>1. Text[e].follow_history[l] = FollowHistory(Text, e, l)
        BY <1>1, TextIs
      <3>2. FollowHistory(Text, e, l) = u \o v \o w
        BY <1>2, <2>1, <2>2, Zenon DEF FollowHistory
      <3> QED BY ONLY <3>1, <3>2
    <2>4. u \in Seq(Row) /\ Shows(u, a, r)
      <3>1. CASE p = None
        <4>1. u = <<>> /\ r = <<>>
          BY <1>3, <2>2, <3>1
        <4>2. Shows(u, a, r)
          BY <4>1, ShowsEmpty, Zenon
        <4>3. u \in Seq(Row)
          BY <4>1
        <4> QED BY <4>2, <4>3
      <3>2. CASE p # None
        <4>1. Shows(Text[p].follow_history[l], l + 1, log[p])
          BY <1>2, <3>2, Zenon DEF Told
        <4>2. p \in DOMAIN heap
          <5>1. PICK n \in Nat : DOMAIN heap = 1 .. n /\ DOMAIN log \subseteq 0 .. n
            BY HeapShape
          <5> QED BY <1>3, <3>2, <5>1 DEF None
        <4>3. Text[p].follow_history[l] \in Seq(Row)
          BY <4>2, AllGood, Zenon DEF Good, Piece
        <4> QED BY ONLY <1>2, <2>1, <2>2, <3>2, <4>1, <4>3
      <3> QED BY <3>1, <3>2
    <2>5. /\ v \in Seq(Row) /\ DOMAIN v = {1}
          /\ v[1].origin = o /\ v[1].level = a /\ v[1].number = Len(r) + 1
      <3>1. Count[e] \in Nat
        BY <1>1, CountIsNat
      <3> QED BY <1>1, <1>2, <1>4, <2>2, <3>1, LineShape
    <2>6. PICK x : x = u \o v
      OBVIOUS
    <2>7. x \in Seq(Row) /\ \E m, n \in Nat : Beside(x, u, v, m, n)
      BY <2>4, <2>5, <2>6, Concat2, Zenon
    <2>8. Shows(x, a, log[e])
      <3>1. PICK m, n \in Nat : Beside(x, u, v, m, n)
        BY <2>7
      <3>2. Shows(x, a, Append(r, o))
        BY <1>3, <2>4, <2>5, <3>1, ShowsNext, Zenon
      <3> QED BY <1>3, <3>2, Zenon
    <2>9. w \in Seq(Row) /\ Deep(w, a)
      <3>1. heap[e].nested # None => Good(heap[e].nested)
        <4>1. PICK n \in Nat : DOMAIN heap = 1 .. n /\ heap[e].nested \in 0 .. n
          BY <1>1, HeapShape
        <4> QED BY <4>1, AllGood DEF None
      <3>2. Piece(FollowNested(Text, e, a), a + 3, SeenFrom(heap[e].nested))
        BY <1>1, <3>1, NestedPiece, Zenon
      <3>3. Piece(w, b, SeenFrom(heap[e].nested))
        BY ONLY <2>1, <2>2, <3>2
      <3>4. Piece(w, a, SeenFrom(heap[e].nested))
        <4>1. a \in Nat /\ b \in Nat /\ a <= b
          BY ONLY <2>1
        <4> QED BY ONLY <3>3, <4>1, PieceWeaker, Zenon
      <3> QED BY <3>4, Zenon DEF Piece
    <2>10. PICK y : y = x \o w
      OBVIOUS
    <2>11. PICK m, n \in Nat : Beside(y, x, w, m, n)
      BY <2>7, <2>9, <2>10, Concat2, Zenon
    <2>12. Shows(y, a, log[e])
      BY <2>8, <2>9, <2>11, ShowsThenDeep, Zenon
    <2> QED BY ONLY <2>1, <2>3, <2>6, <2>10, <2>12
  <1> QED BY <1>5, <1>6, Zenon DEF Told

LEMMA AllTold ==
  ASSUME TypeOK, Kinds, Acyclic, Kept
  PROVE  \A o \in Remembered : Told(o)
  <1>1. PICK T : T = {o \in DOMAIN heap : o \in Remembered => Told(o)}
    OBVIOUS
  <1>2. ASSUME NEW e \in DOMAIN heap, Links(e) \cap DOMAIN heap \subseteq T PROVE e \in T
    <2>1. heap[e].earlier \in DOMAIN log
      BY DEF Kept
    <2>2. heap[e].earlier # None => Told(heap[e].earlier)
      <3>1. PICK n \in Nat : DOMAIN heap = 1 .. n /\ heap[e].earlier \in 0 .. n
        BY HeapShape
      <3>2. heap[e].earlier # None => heap[e].earlier \in T
        BY <1>2, <3>1 DEF Links, None
      <3> QED BY <1>1, <2>1, <3>2 DEF Remembered
    <2>3. e \in Remembered => Told(e)
      BY <2>2, ToldNext, Zenon
    <2> QED BY <1>1, <2>3
  <1>3. DOMAIN heap \subseteq T
    BY <1>2, RanksLeaveNoLoops, ByLinks
  <1>4. Remembered \subseteq DOMAIN heap
    <2>1. PICK n \in Nat : DOMAIN heap = 1 .. n /\ DOMAIN log \subseteq 0 .. n
      BY HeapShape
    <2> QED BY <2>1 DEF Remembered, None
  <1> QED BY <1>1, <1>3, <1>4

\* The string of an exception shows the history it was told to remember, oldest
\* first and numbered from 1, as it was then, whatever was remembered since.
THEOREM HistoryIsShownHolds == Spec => []HistoryIsShown
  <1>1. ASSUME IInv PROVE HistoryIsShown
    <2> SUFFICES ASSUME NEW e \in Lomiri PROVE Shows(Shown(e), 3, log[heap[e].earlier])
      BY DEF HistoryIsShown
    <2>1. TypeOK /\ Kinds /\ Acyclic /\ Kept
      BY <1>1 DEF IInv
    <2>2. PICK k \in Nat : /\ DOMAIN heap = 1 .. k /\ DOMAIN log \subseteq 0 .. k
                           /\ e \in DOMAIN heap /\ heap[e].nested \in 0 .. k
      BY <2>1, HeapShape DEF Lomiri
    <2>3. PICK p, r, w : /\ p = heap[e].earlier /\ r = log[p]
                         /\ w = FollowNested(Text, e, 0)
      OBVIOUS
    <2>4. p \in DOMAIN log /\ (p = None => r = <<>>)
      BY <2>1, <2>2, <2>3, Zenon DEF Kept
    <2>5. PICK u : u = IF p = None THEN Line(e, 0, 0) ELSE Line(e, 0, 0) \o Text[p].follow_history[2]
      OBVIOUS
    <2>6. Shown(e) = u \o w
      <3>1. Shown(e) = Describe(Text, e, 0)
        BY <2>1, <2>2, TextIs DEF Shown
      <3>2. 0 + 2 = 2
        OBVIOUS
      <3>3. Describe(Text, e, 0) = u \o w
        BY <2>3, <2>5, <3>2, Zenon DEF Describe
      <3> QED BY ONLY <3>1, <3>3
    <2>7. PICK q : /\ q = Line(e, 0, 0) /\ q \in Seq(Row) /\ Len(q) = 1 /\ DOMAIN q = {1}
                   /\ q[1].origin = heap[e].origin /\ q[1].level = 0 /\ q[1].number = 0
      BY <2>1, <2>2, LineShape
    <2>8. u \in Seq(Row) /\ Shows(u, 3, r)
      <3>1. CASE p = None
        <4>1. u = q /\ r = <<>>
          BY <2>4, <2>5, <2>7, <3>1
        <4>2. Shows(q, 3, <<>>)
          BY ONLY <2>7 DEF Shows
        <4> QED BY <2>7, <4>1, <4>2, Zenon
      <3>2. CASE p # None
        <4>1. p \in Remembered /\ p \in DOMAIN heap
          BY <2>2, <2>4, <3>2 DEF Remembered, None
        <4>2. PICK t : t = Text[p].follow_history[2]
          OBVIOUS
        <4>3. t \in Seq(Row)
          <5>1. Good(p)
            BY <2>1, <4>1, AllGood
          <5>2. Piece(Text[p].follow_history[2], 2, SeenFrom(p))
            BY <5>1 DEF Good
          <5> QED BY <4>2, <5>2 DEF Piece
        <4>4. Shows(t, 3, r)
          <5>1. Told(p)
            BY <2>1, <4>1, AllTold
          <5>2. Shows(Text[p].follow_history[2], 2 + 1, r)
            BY <2>3, <5>1 DEF Told
          <5> QED BY ONLY <4>2, <5>2
        <4>5. u = q \o t
          BY <2>5, <2>7, <3>2, <4>2
        <4>6. u \in Seq(Row) /\ \E m, n \in Nat : Beside(u, q, t, m, n)
          BY <2>7, <4>3, <4>5, Concat2, Zenon
        <4>7. PICK m, n \in Nat : Beside(u, q, t, m, n)
          BY <4>6
        <4>8. Deep(q, 3)
          BY ONLY <2>7 DEF Deep
        <4>9. Shows(u, 3, r)
          <5>1. 3 \in Nat
            OBVIOUS
          <5> QED BY <4>4, <4>7, <4>8, <5>1, DeepThenShows, Zenon
        <4> QED BY <4>6, <4>9
      <3> QED BY <3>1, <3>2
    <2>9. w \in Seq(Row) /\ Deep(w, 3)
      <3>1. heap[e].nested # None => Good(heap[e].nested)
        BY <2>1, <2>2, AllGood DEF None
      <3>2. 0 \in Nat /\ 0 + 3 = 3
        OBVIOUS
      <3>3. Piece(FollowNested(Text, e, 0), 0 + 3, SeenFrom(heap[e].nested))
        BY <2>1, <2>2, <3>1, <3>2, NestedPiece, Zenon
      <3>4. Piece(w, 3, SeenFrom(heap[e].nested))
        BY ONLY <2>3, <3>2, <3>3
      <3> QED BY <3>4, Zenon DEF Piece
    <2>10. PICK y : y = u \o w
      OBVIOUS
    <2>11. PICK m, n \in Nat : Beside(y, u, w, m, n)
      BY <2>8, <2>9, <2>10, Concat2, Zenon
    <2>12. Shows(y, 3, r)
      <3>1. PICK c \in Nat : c = 3
        OBVIOUS
      <3>2. Shows(u, c, r) /\ Deep(w, c)
        BY ONLY <2>8, <2>9, <3>1
      <3>3. Shows(y, c, r)
        BY <2>11, <3>2, ShowsThenDeep, Zenon
      <3> QED BY ONLY <3>1, <3>3
    <2> QED BY ONLY <2>3, <2>6, <2>10, <2>12
  <1>2. IInv => HistoryIsShown
    BY <1>1
  <1> QED BY <1>2, Invariance, PTL
=============================================================================
