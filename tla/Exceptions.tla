----------------------------- MODULE Exceptions -----------------------------
(***************************************************************************)
(* lomiri::Exception, src/lomiri/Exception.cpp: exceptions that hold the   *)
(* exception that was being handled when they were constructed (nested)    *)
(* and the one that was remembered before them (earlier), and to_string(), *)
(* which follows both.                                                     *)
(*                                                                         *)
(* A program throws and catches exceptions in handlers inside handlers and *)
(* collects them in an exception_ptr, as the class documentation shows.    *)
(* self() copies, so what remember() returns is a new object.  Objects are *)
(* numbered as they come into being; a copy has the name and reason of its *)
(* origin, which is all that tells one exception from another in a string. *)
(***************************************************************************)
EXTENDS Naturals, SequencesExt

CONSTANTS
  MaxObject,       \* bound: exception objects that come into being
  MaxHandler       \* bound: handlers inside handlers

ASSUME ExceptionsAssumption == MaxObject \in Nat /\ MaxHandler \in Nat

Object == 1 .. MaxObject
None   == 0          \* a null exception_ptr

\* lomiri::Exception; another std::nested_exception; any other type
Kind == {"lomiri", "nested", "plain"}

VARIABLES
  heap,            \* the exception objects
  handlers,        \* the exceptions being handled, the current one last
  ep,              \* the program's exception_ptr to what it has remembered
  log              \* history: for each object, the origins that led to it in ep

vars == <<heap, handlers, ep, log>>

-----------------------------------------------------------------------------
New == Len(heap) + 1
Current == IF handlers = <<>> THEN None ELSE Last(handlers)

\* Objects that those of S keep alive, they included: every set that has S and
\* not o has a link that leads out of it.
Links(o)  == {heap[o].nested, heap[o].earlier} \ {None}
Closed(C) == \A o \in C : Links(o) \subseteq C
Reach(S)  == {o \in DOMAIN heap :
                \A C \in SUBSET (DOMAIN heap \ {o}) : S \subseteq C => ~Closed(C)}

Init ==
  /\ heap = <<>>
  /\ handlers = <<>>
  /\ ep = None
  /\ log = [o \in {None} |-> <<>>]

\* An exception is constructed, thrown and caught, in the handlers that are
\* active; std::nested_exception captures the current exception.
Throw(kind) ==
  /\ New \in Object /\ Len(handlers) < MaxHandler
  /\ heap' = Append(heap, [kind |-> kind, origin |-> New, earlier |-> None,
                           nested |-> IF kind = "plain" THEN None ELSE Current])
  /\ handlers' = Append(handlers, New)
  /\ UNCHANGED <<ep, log>>

\* Mutant: ep is not tested before it is rethrown.
RethrowUntested ==
  /\ Len(handlers) < MaxHandler
  /\ handlers' = Append(handlers, ep)
  /\ UNCHANGED <<heap, ep, log>>

\* rethrow_exception(ep), caught by reference
Rethrow ==
  /\ ep \notin {None, Current} /\ Len(handlers) < MaxHandler
  /\ handlers' = Append(handlers, ep)
  /\ UNCHANGED <<heap, ep, log>>

Leave ==
  /\ handlers # <<>>
  /\ handlers' = Front(handlers)
  /\ UNCHANGED <<heap, ep, log>>

\* remember() "doesn't prevent loops", which to_string() follows without end.
\* What it documents of its argument, that it was remembered earlier, does not
\* exclude them either: when X is thrown and remembered in the handler of e, and
\* e remembers it then, e leads to X and X, which is nested in e, to e.  Neither
\* does the code, so that what follows is about programs that do not do that.
Loop == ep # None /\ Current \in Reach({ep})

\* Mutant: self() is taken before earlier_ is set.
RememberCopiesFirst ==
  /\ Current # None /\ New \in Object /\ heap[Current].kind = "lomiri"
  /\ ~Loop
  /\ heap' = Append([heap EXCEPT ![Current].earlier = ep], heap[Current])
  /\ ep' = New
  /\ log' = [o \in DOMAIN log \cup {New} |->
               IF o = New THEN Append(log[ep], heap[Current].origin) ELSE log[o]]
  /\ UNCHANGED handlers

\* ep = e.remember(ep), e being the exception that is handled; ~Loop is an
\* assumption about the program, beyond what is documented.
Remember ==
  LET e == [heap[Current] EXCEPT !.earlier = ep] IN
  /\ Current # None /\ New \in Object /\ heap[Current].kind = "lomiri"
  /\ ~Loop
  /\ heap' = Append([heap EXCEPT ![Current] = e], e)
  /\ ep' = New
  /\ log' = [o \in DOMAIN log \cup {New} |->
               IF o = New THEN Append(log[ep], e.origin) ELSE log[o]]
  /\ UNCHANGED handlers

Next == Remember \/ Rethrow \/ Leave \/ \E k \in Kind : Throw(k)

Spec == Init /\ [][Next]_vars

-----------------------------------------------------------------------------
(* to_string(): a line for each exception it shows, with its level of      *)
(* indentation and, for one out of the history, its number.  text has what *)
(* each of the functions writes for an exception, at any level.            *)

Line(o, level, number) ==
  <<[origin |-> heap[o].origin, level |-> level, number |-> number]>>

\* Mutant: an exception that is no lomiri::Exception ends the chain.
FollowLomiri(text, e, level) ==
  LET n == heap[e].nested IN
  IF n = None THEN <<>>
  ELSE IF heap[n].kind = "lomiri" THEN text[n].to_string[level + 1]
  ELSE Line(n, level + 1, 0)

FollowNested(text, e, level) ==
  LET n == heap[e].nested IN
  IF n = None THEN <<>>
  ELSE IF heap[n].kind = "lomiri" THEN text[n].to_string[level + 1]
  ELSE Line(n, level + 1, 0)
         \o (IF heap[n].kind = "nested" THEN text[n].follow_nested[level + 1] ELSE <<>>)

\* The number of e in the history that it ends.
Count[e \in DOMAIN heap] == IF heap[e].earlier = None THEN 1 ELSE Count[heap[e].earlier] + 1

FollowHistory(text, e, level) ==
  (IF heap[e].earlier = None THEN <<>> ELSE text[heap[e].earlier].follow_history[level])
    \o Line(e, level + 1, Count[e]) \o FollowNested(text, e, level + 1)

Describe(text, e, level) ==
  (IF heap[e].earlier = None THEN Line(e, level, 0)
   ELSE Line(e, level, 0) \o text[heap[e].earlier].follow_history[level + 2])
    \o FollowNested(text, e, level)

Text[e \in DOMAIN heap] ==
  [to_string      |-> [level \in Nat |-> Describe(Text, e, level)],
   follow_nested  |-> [level \in Nat |-> FollowNested(Text, e, level)],
   follow_history |-> [level \in Nat |-> FollowHistory(Text, e, level)]]

Shown(e) == Text[e].to_string[0]

-----------------------------------------------------------------------------
TypeOK ==
  /\ heap \in Seq([kind : Kind, origin : 1 .. Len(heap), nested : 0 .. Len(heap),
                   earlier : 0 .. Len(heap)])
  /\ handlers \in Seq(1 .. Len(heap))
  /\ ep \in DOMAIN log /\ None \in DOMAIN log /\ DOMAIN log \subseteq 0 .. Len(heap)
  /\ log \in [DOMAIN log -> Seq(1 .. Len(heap))]

Lomiri == {o \in DOMAIN heap : heap[o].kind = "lomiri"}

\* The lines of s at this level that have a number tell of the origins in r, in
\* their order and numbered from 1.
Shows(s, level, r) ==
  LET own == {i \in DOMAIN s : s[i].number > 0 /\ s[i].level = level}
  IN  /\ {s[i].number : i \in own} = DOMAIN r
      /\ \A i \in own : s[i].origin = r[s[i].number]
      /\ \A i, j \in own : i < j => s[i].number < s[j].number

\* The string of an exception shows its history, oldest first and numbered
\* from 1, just as it was when it was remembered: neither a later remember()
\* nor a rethrow of what was remembered has changed it.
HistoryIsShown == \A e \in Lomiri : Shows(Shown(e), 3, log[heap[e].earlier])

\* "A string with the entire exception history (both nested and chained)":
\* it shows every exception that can be reached through both kinds of link.
StringIsComplete ==
  \A e \in Lomiri :
    {heap[o].origin : o \in Reach({e})} = {line.origin : line \in ToSet(Shown(e))}
=============================================================================
