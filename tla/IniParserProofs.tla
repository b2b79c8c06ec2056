-------------------------- MODULE IniParserProofs --------------------------
(***************************************************************************)
(* The safety of IniParser for any number of threads, parsers, groups,     *)
(* keys and values.                                                        *)
(***************************************************************************)
EXTENDS IniParser, TLAPS

(* A call is on an object that exists: nobody destroys one that is in use. *)
CallsAreOpen ==
  \A t \in Thread : pc[t] # "idle" => request[t] \in Request /\ request[t].on \in open

(* Between saving the file and clearing dirty, the object is what it saved. *)
BaseIsSaved ==
  \A t \in Thread : pc[t] = "clear" => base[request[t].on] = keyfile[request[t].on]

Types == TypeOK /\ CallsAreOpen /\ LockedInside
IInv  == Types /\ SetsAreRemembered /\ BaseIsSaved /\ ClearedIsSaved

-----------------------------------------------------------------------------
(* Key files.                                                              *)

\* A key file without groups is well-formed, and so is what a load gives.
LEMMA EmptyIsKeyFile == Empty \in KeyFile
  BY DEF Empty, KeyFile, NoEntries

\* So is one that a setter or remove_key() leaves.
LEMMA PutIsKeyFile ==
  ASSUME NEW kf \in KeyFile, NEW g \in Group, NEW k \in Key, NEW v \in Value \cup {Absent}
  PROVE  Put(kf, g, k, v) \in KeyFile
  BY DEF KeyFile, Put

\* Only the entry that a setter sets changes.
LEMMA PutChangesOne ==
  ASSUME NEW kf \in KeyFile, NEW g \in Group, NEW k \in Key, NEW v,
         NEW h \in Group, NEW l \in Key
  PROVE  Put(kf, g, k, v).entries[h][l] = IF h = g /\ l = k THEN v ELSE kf.entries[h][l]
  BY DEF KeyFile, Put

\* remove_group() leaves a well-formed key file.
LEMMA RemovalIsKeyFile ==
  ASSUME NEW kf \in KeyFile, NEW g \in Group
  PROVE  [groups |-> kf.groups \ {g},
          entries |-> [kf.entries EXCEPT ![g] = NoEntries]] \in KeyFile
  BY DEF KeyFile, NoEntries

\* It changes no entry but to remove it.
LEMMA RemovalClearsGroup ==
  ASSUME NEW kf \in KeyFile, NEW g \in Group, NEW h \in Group, NEW l \in Key
  PROVE  [kf.entries EXCEPT ![g] = NoEntries][h][l] \in {Absent, kf.entries[h][l]}
  BY DEF KeyFile, NoEntries

-----------------------------------------------------------------------------
(* Types, locking, and which objects exist.                                *)

\* The request of a thread in a body has the fields that the body reads.
LEMMA RequestFields ==
  ASSUME NEW r \in Request
  PROVE  /\ r.on \in Parser
         /\ r.op \in {"has_key", "remove_group", "remove_key", "get_value", "set"} => r.group \in Group
         /\ r.op \in {"remove_key", "get_value", "set"} => r.key \in Key
         /\ r.op = "set" => r.value \in Value
  BY DEF Request

\* The end of a method unlocks and ends the call.
LEMMA ReturnTypes ==
  ASSUME Types, NEW t \in Thread, pc[t] \in {"body", "clear"},
         NEW how \in {"ok", "LogicException", "FileException", "logic_error"}, Return(t, how)
  PROVE  /\ pc' \in [Thread -> {"idle", "lock", "body", "clear"}]
         /\ request' \in [Thread -> Request \cup {NoRequest}]
         /\ outcome' \in [Thread -> {"none", "ok", "LogicException", "FileException", "logic_error"}]
         /\ mutex' \in Thread \cup {Nobody}
         /\ \A u \in Thread : pc'[u] # "idle" => u # t /\ pc'[u] = pc[u] /\ request'[u] = request[u]
         /\ \A u \in Thread : pc'[u] \notin {"body", "clear"}
         /\ LockedInside'
  <1> USE IniAssumption DEF Types, TypeOK, Return, End
  <1>1. /\ pc' \in [Thread -> {"idle", "lock", "body", "clear"}]
        /\ request' \in [Thread -> Request \cup {NoRequest}]
        /\ outcome' \in [Thread -> {"none", "ok", "LogicException", "FileException", "logic_error"}]
        /\ mutex' \in Thread \cup {Nobody}
    OBVIOUS
  <1>2. \A u \in Thread : pc'[u] # "idle" => u # t /\ pc'[u] = pc[u] /\ request'[u] = request[u]
    OBVIOUS
  <1>3. \A u \in Thread : pc'[u] \notin {"body", "clear"}
    BY DEF LockedInside
  <1>4. LockedInside'
    BY <1>3 DEF LockedInside
  <1> QED BY <1>1, <1>2, <1>3, <1>4

\* A body that ends the call, having put kf in place of its key file.
LEMMA BodyTypes ==
  ASSUME Types, NEW t \in Thread, pc[t] \in {"body", "clear"},
         NEW how \in {"ok", "LogicException", "FileException", "logic_error"}, Return(t, how),
         NEW kf \in KeyFile, NEW d \in BOOLEAN,
         keyfile' = keyfile \/ keyfile' = [keyfile EXCEPT ![request[t].on] = kf],
         dirty' = dirty \/ dirty' = [dirty EXCEPT ![request[t].on] = d],
         UNCHANGED <<file, open, base>>
  PROVE  Types'
  <1>1. keyfile' \in [Parser -> KeyFile] /\ dirty' \in [Parser -> BOOLEAN]
    BY DEF Types, TypeOK
  <1>2. TypeOK'
    BY <1>1, ReturnTypes DEF Types, TypeOK
  <1>3. CallsAreOpen'
    BY ReturnTypes DEF Types, CallsAreOpen
  <1> QED BY <1>2, <1>3, ReturnTypes DEF Types

LEMMA InitTypes == Init => Types
  BY IniAssumption, EmptyIsKeyFile DEF Init, Types, TypeOK, CallsAreOpen, LockedInside

LEMMA NextTypes == Types /\ [Next]_vars => Types'
  <1> SUFFICES ASSUME Types, [Next]_vars PROVE Types'
    OBVIOUS
  <1> USE IniAssumption
  <1>1. CASE UNCHANGED vars
    BY <1>1 DEF vars, Types, TypeOK, CallsAreOpen, LockedInside
  <1>2. ASSUME NEW t \in Thread, NEW p \in Parser, Construct(t, p)
        PROVE  Types'
    <2>1. TypeOK'
      <3>1. PICK how \in {"ok", "FileException"} : End(t, how)
        BY <1>2 DEF Construct
      <3>2. /\ pc' \in [Thread -> {"idle", "lock", "body", "clear"}]
            /\ request' \in [Thread -> Request \cup {NoRequest}]
            /\ outcome' \in [Thread -> {"none", "ok", "LogicException", "FileException", "logic_error"}]
        BY <3>1 DEF Types, TypeOK, End
      <3>3. /\ open' \subseteq Parser
            /\ keyfile' \in [Parser -> KeyFile] /\ base' \in [Parser -> KeyFile]
            /\ dirty' \in [Parser -> BOOLEAN]
            /\ UNCHANGED <<file, mutex>>
        BY <1>2, ZenonT(40) DEF Types, TypeOK, Construct
      <3> QED BY <3>2, <3>3 DEF Types, TypeOK
    <2>2. CallsAreOpen'
      BY <1>2 DEF Types, TypeOK, CallsAreOpen, Construct, End
    <2>3. LockedInside'
      BY <1>2 DEF Types, TypeOK, LockedInside, Construct, End
    <2> QED BY <2>1, <2>2, <2>3 DEF Types
  <1>3. ASSUME NEW t \in Thread, NEW p \in Parser, Destroy(t, p)
        PROVE  Types'
    <2>1. TypeOK'
      BY <1>3, EmptyIsKeyFile DEF Types, TypeOK, Destroy
    <2>2. CallsAreOpen' /\ LockedInside'
      BY <1>3 DEF Types, CallsAreOpen, LockedInside, Destroy, InUse
    <2> QED BY <2>1, <2>2 DEF Types
  <1>4. ASSUME NEW t \in Thread, NEW r \in Request, Call(t, r)
        PROVE  Types'
    <2>1. TypeOK'
      BY <1>4 DEF Types, TypeOK, Call
    <2>2. CallsAreOpen' /\ LockedInside'
      BY <1>4 DEF Types, TypeOK, CallsAreOpen, LockedInside, Call
    <2> QED BY <2>1, <2>2 DEF Types
  <1>5. ASSUME NEW t \in Thread, Lock(t)
        PROVE  Types'
    <2>1. TypeOK'
      BY <1>5 DEF Types, TypeOK, Lock
    <2>2. CallsAreOpen' /\ LockedInside'
      BY <1>5 DEF Types, TypeOK, CallsAreOpen, LockedInside, Lock
    <2> QED BY <2>1, <2>2 DEF Types
  <1>6. ASSUME NEW t \in Thread, SyncSave(t)
        PROVE  Types'
    <2>1. request[t].on \in Parser
      BY <1>6, RequestFields DEF Types, CallsAreOpen, SyncSave, Body
    <2>2. TypeOK'
      BY <1>6, <2>1 DEF Types, TypeOK, SyncSave
    <2>3. CallsAreOpen' /\ LockedInside'
      BY <1>6 DEF Types, TypeOK, CallsAreOpen, LockedInside, SyncSave, Body
    <2> QED BY <2>2, <2>3 DEF Types
  <1>7. ASSUME NEW t \in Thread,
               Get(t) \/ HasKey(t) \/ GetValue(t) \/ GetStartGroup(t) \/ SyncNothing(t) \/ SyncFails(t)
        PROVE  Types'
    <2>1. PICK how \in {"ok", "LogicException", "FileException", "logic_error"} : Return(t, how)
      BY <1>7 DEF Get, HasKey, GetValue, GetStartGroup, SyncNothing, SyncFails
    <2>2. pc[t] = "body" /\ UNCHANGED <<file, open, keyfile, dirty, base>>
      BY <1>7 DEF Get, HasKey, GetValue, GetStartGroup, SyncNothing, SyncFails, Body
    <2> QED BY <2>1, <2>2, BodyTypes, EmptyIsKeyFile
  <1>8. ASSUME NEW t \in Thread, RemoveGroup(t)
        PROVE  Types'
    <2> DEFINE r == request[t]
    <2>1. r.on \in Parser /\ r.group \in Group
      BY <1>8, RequestFields DEF Types, CallsAreOpen, RemoveGroup, Body
    <2>2. keyfile[r.on] \in KeyFile
      BY <2>1 DEF Types, TypeOK
    <2> DEFINE kf == [groups |-> keyfile[r.on].groups \ {r.group},
                      entries |-> [keyfile[r.on].entries EXCEPT ![r.group] = NoEntries]]
    <2>3. kf \in KeyFile
      BY <2>1, <2>2, RemovalIsKeyFile
    <2>4. PICK how \in {"ok", "LogicException"} : Return(t, how)
      BY <1>8 DEF RemoveGroup
    <2>5. /\ pc[t] = "body" /\ UNCHANGED <<file, open, dirty, base>>
          /\ keyfile' = keyfile \/ keyfile' = [keyfile EXCEPT ![r.on] = kf]
      BY <1>8 DEF RemoveGroup, Body
    <2> QED BY <2>3, <2>4, <2>5, BodyTypes
  <1>9. ASSUME NEW t \in Thread, RemoveKey(t)
        PROVE  Types'
    <2> DEFINE r == request[t]
    <2>1. r.on \in Parser /\ r.group \in Group /\ r.key \in Key
      BY <1>9, RequestFields DEF Types, CallsAreOpen, RemoveKey, Body
    <2> DEFINE kf == Put(keyfile[r.on], r.group, r.key, Absent)
    <2>2. kf \in KeyFile
      BY <2>1, PutIsKeyFile DEF Types, TypeOK
    <2>3. PICK how \in {"ok", "LogicException"} : Return(t, how)
      BY <1>9 DEF RemoveKey
    <2>4. /\ pc[t] = "body" /\ UNCHANGED <<file, open, dirty, base>>
          /\ keyfile' = keyfile \/ keyfile' = [keyfile EXCEPT ![r.on] = kf]
      BY <1>9 DEF RemoveKey, Body
    <2> QED BY <2>2, <2>3, <2>4, BodyTypes
  <1>10. ASSUME NEW t \in Thread, SetValue(t)
         PROVE  Types'
    <2> DEFINE r == request[t]
    <2>1. r.on \in Parser /\ r.group \in Group /\ r.key \in Key /\ r.value \in Value
      BY <1>10, RequestFields DEF Types, CallsAreOpen, SetValue, Body
    <2> DEFINE kf == Put(keyfile[r.on], r.group, r.key, r.value)
    <2>2. kf \in KeyFile
      BY <2>1, PutIsKeyFile DEF Types, TypeOK
    <2>3. /\ pc[t] = "body" /\ Return(t, "ok") /\ UNCHANGED <<file, open, base>>
          /\ keyfile' = [keyfile EXCEPT ![r.on] = kf]
          /\ dirty' = [dirty EXCEPT ![r.on] = TRUE]
      BY <1>10 DEF SetValue, Body
    <2> QED BY <2>2, <2>3, BodyTypes
  <1>11. ASSUME NEW t \in Thread, SyncClear(t)
         PROVE  Types'
    BY <1>11, BodyTypes, EmptyIsKeyFile DEF SyncClear
  <1> QED
    BY <1>1, <1>2, <1>3, <1>4, <1>5, <1>6, <1>7, <1>8, <1>9, <1>10, <1>11 DEF Next, Continue

-----------------------------------------------------------------------------
(* Values: what dirty knows of the difference between object and file.     *)

Values == SetsAreRemembered /\ BaseIsSaved /\ ClearedIsSaved

LEMMA InitValues == Init => Values
  BY DEF Init, Values, SetsAreRemembered, BaseIsSaved, ClearedIsSaved, Empty, NoEntries

\* With the mutex, a thread in a body knows that nobody is between saving the
\* file and clearing dirty; the end of a body puts nobody there.
LEMMA NobodyClears ==
  ASSUME Types, NEW t \in Thread, pc[t] = "body"
  PROVE  \A u \in Thread : pc[u] # "clear"
  BY DEF Types, LockedInside

LEMMA BodyValues ==
  ASSUME Types, NEW t \in Thread, pc[t] \in {"body", "clear"},
         NEW how \in {"ok", "LogicException", "FileException", "logic_error"}, Return(t, how)
  PROVE  BaseIsSaved' /\ ClearedIsSaved'
  BY ReturnTypes DEF BaseIsSaved, ClearedIsSaved

LEMMA NextValues == Types /\ Values /\ [Next]_vars => Values'
  <1> SUFFICES ASSUME Types, Values, [Next]_vars PROVE Values'
    OBVIOUS
  <1> USE DEF Values
  <1>1. CASE UNCHANGED vars
    BY <1>1 DEF vars, SetsAreRemembered, BaseIsSaved, ClearedIsSaved
  <1>2. ASSUME NEW t \in Thread, NEW p \in Parser, Construct(t, p)
        PROVE  Values'
    <2>1. SetsAreRemembered'
      <3>1. ASSUME NEW q \in Parser
            PROVE  \/ keyfile'[q] = base'[q]
                   \/ keyfile'[q] = keyfile[q] /\ base'[q] = base[q] /\ dirty'[q] = dirty[q]
        BY <1>2 DEF Types, TypeOK, Construct
      <3> QED BY <3>1, Zenon DEF SetsAreRemembered
    <2>2. \A u \in Thread : pc'[u] = "clear" =>
             /\ pc[u] = "clear" /\ request'[u] = request[u] /\ request[u].on # p
             /\ request[u].on \in Parser
      BY <1>2 DEF Types, TypeOK, CallsAreOpen, Construct, End
    <2>3. BaseIsSaved' /\ ClearedIsSaved'
      BY <1>2, <2>2 DEF Types, TypeOK, BaseIsSaved, ClearedIsSaved, Construct
    <2> QED BY <2>1, <2>3
  <1>3. ASSUME NEW t \in Thread, NEW p \in Parser, Destroy(t, p)
        PROVE  Values'
    <2>1. SetsAreRemembered'
      BY <1>3 DEF Types, TypeOK, SetsAreRemembered, Destroy, Empty, NoEntries
    <2>2. \A u \in Thread : pc[u] = "clear" => request[u].on \in Parser \ {p}
      BY <1>3 DEF Types, TypeOK, CallsAreOpen, Destroy, InUse
    <2>3. BaseIsSaved' /\ ClearedIsSaved'
      BY <1>3, <2>2 DEF Types, TypeOK, BaseIsSaved, ClearedIsSaved, Destroy
    <2> QED BY <2>1, <2>3
  <1>4. ASSUME NEW t \in Thread, NEW r \in Request, Call(t, r)
        PROVE  Values'
    BY <1>4 DEF Types, TypeOK, SetsAreRemembered, BaseIsSaved, ClearedIsSaved, Call
  <1>5. ASSUME NEW t \in Thread, Lock(t)
        PROVE  Values'
    BY <1>5 DEF Types, TypeOK, SetsAreRemembered, BaseIsSaved, ClearedIsSaved, Lock
  <1>6. ASSUME NEW t \in Thread, SyncSave(t)
        PROVE  Values'
    <2>1. request[t].on \in Parser /\ \A u \in Thread : pc[u] # "clear"
      BY <1>6, RequestFields, NobodyClears DEF Types, CallsAreOpen, SyncSave, Body
    <2>2. SetsAreRemembered'
      BY <1>6, <2>1 DEF Types, TypeOK, SetsAreRemembered, SyncSave
    <2>3. BaseIsSaved' /\ ClearedIsSaved'
      BY <1>6, <2>1 DEF Types, TypeOK, BaseIsSaved, ClearedIsSaved, SyncSave
    <2> QED BY <2>2, <2>3
  <1>7. ASSUME NEW t \in Thread,
               Get(t) \/ HasKey(t) \/ GetValue(t) \/ GetStartGroup(t) \/ SyncNothing(t) \/ SyncFails(t)
        PROVE  Values'
    <2>1. PICK how \in {"ok", "LogicException", "FileException", "logic_error"} : Return(t, how)
      BY <1>7 DEF Get, HasKey, GetValue, GetStartGroup, SyncNothing, SyncFails
    <2>2. pc[t] = "body" /\ UNCHANGED <<keyfile, dirty, base>>
      BY <1>7 DEF Get, HasKey, GetValue, GetStartGroup, SyncNothing, SyncFails, Body
    <2> QED BY <2>1, <2>2, BodyValues DEF SetsAreRemembered
  <1>8. ASSUME NEW t \in Thread, RemoveGroup(t)
        PROVE  Values'
    <2> DEFINE r == request[t]
    <2>1. pc[t] = "body" /\ r.on \in Parser /\ r.group \in Group
      BY <1>8, RequestFields DEF Types, CallsAreOpen, RemoveGroup, Body
    <2>2. BaseIsSaved' /\ ClearedIsSaved'
      BY <1>8, <2>1, BodyValues DEF RemoveGroup
    <2>3. SetsAreRemembered'
      <3> SUFFICES ASSUME NEW p \in Parser, NEW g \in Group, NEW k \in Key
                   PROVE  keyfile'[p].entries[g][k] \in {Absent, keyfile[p].entries[g][k]}
        BY <1>8 DEF SetsAreRemembered, RemoveGroup
      <3>1. keyfile[p] \in KeyFile
        BY DEF Types, TypeOK
      <3>2. [keyfile[p].entries EXCEPT ![r.group] = NoEntries][g][k]
               \in {Absent, keyfile[p].entries[g][k]}
        BY <2>1, <3>1, RemovalClearsGroup
      <3>3. keyfile'[p] # keyfile[p] =>
               keyfile'[p].entries = [keyfile[p].entries EXCEPT ![r.group] = NoEntries]
        BY <1>8, <2>1 DEF Types, TypeOK, RemoveGroup
      <3> QED BY <3>2, <3>3
    <2> QED BY <2>2, <2>3
  <1>9. ASSUME NEW t \in Thread, RemoveKey(t)
        PROVE  Values'
    <2> DEFINE r == request[t]
    <2>1. pc[t] = "body" /\ r.on \in Parser /\ r.group \in Group /\ r.key \in Key
      BY <1>9, RequestFields DEF Types, CallsAreOpen, RemoveKey, Body
    <2>2. BaseIsSaved' /\ ClearedIsSaved'
      BY <1>9, <2>1, BodyValues DEF RemoveKey
    <2>3. SetsAreRemembered'
      <3> SUFFICES ASSUME NEW p \in Parser, NEW g \in Group, NEW k \in Key
                   PROVE  keyfile'[p].entries[g][k] \in {Absent, keyfile[p].entries[g][k]}
        BY <1>9 DEF SetsAreRemembered, RemoveKey
      <3>1. keyfile[p] \in KeyFile
        BY DEF Types, TypeOK
      <3>2. Put(keyfile[p], r.group, r.key, Absent).entries[g][k]
               \in {Absent, keyfile[p].entries[g][k]}
        BY <2>1, <3>1, PutChangesOne
      <3> QED BY <1>9, <2>1, <3>2 DEF Types, TypeOK, RemoveKey
    <2> QED BY <2>2, <2>3
  <1>10. ASSUME NEW t \in Thread, SetValue(t)
         PROVE  Values'
    <2>1. pc[t] = "body" /\ request[t].on \in Parser
      BY <1>10, RequestFields DEF Types, CallsAreOpen, SetValue, Body
    <2>2. BaseIsSaved' /\ ClearedIsSaved'
      BY <1>10, <2>1, BodyValues DEF SetValue
    <2>3. SetsAreRemembered'
      BY <1>10, <2>1 DEF Types, TypeOK, SetsAreRemembered, SetValue
    <2> QED BY <2>2, <2>3
  <1>11. ASSUME NEW t \in Thread, SyncClear(t)
         PROVE  Values'
    <2>1. BaseIsSaved' /\ ClearedIsSaved'
      BY <1>11, BodyValues DEF SyncClear
    <2>2. keyfile[request[t].on] = base[request[t].on]
      BY <1>11 DEF BaseIsSaved, SyncClear
    <2>3. SetsAreRemembered'
      BY <1>11, <2>2 DEF Types, TypeOK, SetsAreRemembered, SyncClear
    <2> QED BY <2>1, <2>3
  <1> QED
    BY <1>1, <1>2, <1>3, <1>4, <1>5, <1>6, <1>7, <1>8, <1>9, <1>10, <1>11 DEF Next, Continue

-----------------------------------------------------------------------------
\* The inductive invariant holds in every state of every behaviour.
LEMMA Invariance == Spec => []IInv
  <1>1. Init => IInv
    BY InitTypes, InitValues DEF IInv, Values
  <1>2. IInv /\ [Next]_vars => IInv'
    BY NextTypes, NextValues DEF IInv, Values
  <1> QED BY <1>1, <1>2, PTL DEF Spec

\* Type correctness of the parsers, their key files and the calls on them.
THEOREM TypeCorrect == Spec => []TypeOK
  <1>1. IInv => TypeOK
    BY DEF IInv, Types
  <1> QED BY <1>1, Invariance, PTL

\* parser_mutex is owned exactly by the thread that is inside a method: every
\* return and every exception unlocks it, and no two bodies overlap.
THEOREM LockedInsideHolds == Spec => []LockedInside
  <1>1. IInv => LockedInside
    BY DEF IInv, Types
  <1> QED BY <1>1, Invariance, PTL

\* A value that was set and is not yet in the file makes the object dirty,
\* whatever syncs, failures and calls of other threads came in between.
THEOREM SetsAreRememberedHolds == Spec => []SetsAreRemembered
  <1>1. IInv => SetsAreRemembered
    BY DEF IInv
  <1> QED BY <1>1, Invariance, PTL

\* sync() clears dirty only while the file holds what the object holds.
THEOREM ClearedIsSavedHolds == Spec => []ClearedIsSaved
  <1>1. IInv => ClearedIsSaved
    BY DEF IInv
  <1> QED BY <1>1, Invariance, PTL

-----------------------------------------------------------------------------
(* The abstract specification.                                             *)

StoreVars == <<file, open, keyfile, Unsaved>>

LEMMA InitStore == Init => Store!Init
  <1> SUFFICES ASSUME Init PROVE Store!Init
    OBVIOUS
  <1>1. Unsaved = {}
    BY DEF Init, Unsaved
  <1> QED BY <1>1 DEF Init, Store!Init

\* Where nobody is between saving and clearing, dirty says what is unsaved.
LEMMA DirtyIsUnsaved ==
  ASSUME \A u \in Thread : pc[u] # "clear"
  PROVE  Unsaved = {p \in Parser : dirty[p]}
  BY DEF Unsaved

\* What a body that returns does to the file and the copies.
LEMMA BodyUnsaved ==
  ASSUME Types, NEW t \in Thread, pc[t] = "body",
         NEW how \in {"ok", "LogicException", "FileException", "logic_error"}, Return(t, how)
  PROVE  Unsaved = {p \in Parser : dirty[p]} /\ Unsaved' = {p \in Parser : dirty'[p]}
  <1>1. Unsaved = {p \in Parser : dirty[p]}
    BY NobodyClears, DirtyIsUnsaved
  <1>2. \A u \in Thread : pc'[u] # "clear"
    BY ReturnTypes
  <1> QED BY <1>1, <1>2 DEF Unsaved

\* A step inside a call that touches neither the file nor an object.
LEMMA UnsavedStays ==
  ASSUME UNCHANGED <<file, open, keyfile, dirty>>,
         \A u \in Thread : \/ pc'[u] = pc[u] /\ request'[u] = request[u]
                           \/ pc'[u] # "clear" /\ pc[u] # "clear"
  PROVE  UNCHANGED StoreVars
  <1>1. Unsaved' = Unsaved
    BY DEF Unsaved
  <1> QED BY <1>1 DEF StoreVars

LEMMA StepStore == IInv /\ [Next]_vars => [Store!Next]_StoreVars
  <1> SUFFICES ASSUME IInv, [Next]_vars PROVE Store!Next \/ UNCHANGED StoreVars
    OBVIOUS
  <1>0. Types
    BY DEF IInv
  <1>1. CASE UNCHANGED vars
    BY <1>1, UnsavedStays DEF vars
  <1>2. ASSUME NEW t \in Thread, NEW p \in Parser, Construct(t, p)
        PROVE  Store!Next \/ UNCHANGED StoreVars
    <2>1. \A u \in Thread : \/ pc'[u] = pc[u] /\ request'[u] = request[u]
                            \/ pc'[u] # "clear" /\ pc[u] # "clear"
      BY <1>0, <1>2 DEF Types, TypeOK, Construct, End
    <2>2. CASE UNCHANGED <<open, keyfile, dirty, base>>
      <3>1. UNCHANGED file
        BY <1>2 DEF Construct
      <3> QED BY <2>1, <2>2, <3>1, UnsavedStays
    <2>3. CASE /\ open' = open \cup {p}
               /\ keyfile' = [keyfile EXCEPT ![p] = file]
               /\ dirty' = [dirty EXCEPT ![p] = FALSE]
      <3>1. p \notin open /\ UNCHANGED file
        BY <1>2 DEF Construct
      <3>2. \A q \in Parser : dirty'[q] <=> (dirty[q] /\ q # p)
        BY <1>0, <2>3 DEF Types, TypeOK
      <3>3. Unsaved' = Unsaved \ {p}
        BY <2>1, <3>2 DEF Unsaved
      <3>4. Store!Load(p)
        BY <2>3, <3>1, <3>3 DEF Store!Load
      <3> QED BY <3>4 DEF Store!Next
    <2> QED BY <1>2, <2>2, <2>3 DEF Construct
  <1>3. ASSUME NEW t \in Thread, NEW p \in Parser, Destroy(t, p)
        PROVE  Store!Next \/ UNCHANGED StoreVars
    <2>1. \A q \in Parser : dirty'[q] <=> (dirty[q] /\ q # p)
      BY <1>0, <1>3 DEF Types, TypeOK, Destroy
    <2>2. Unsaved' = Unsaved \ {p}
      BY <1>3, <2>1 DEF Unsaved, Destroy
    <2>3. Store!Close(p)
      BY <1>3, <2>2 DEF Destroy, Store!Close
    <2> QED BY <2>3 DEF Store!Next
  <1>4. ASSUME NEW t \in Thread, NEW r \in Request, Call(t, r)
        PROVE  UNCHANGED StoreVars
    <2>1. \A u \in Thread : \/ pc'[u] = pc[u] /\ request'[u] = request[u]
                            \/ pc'[u] # "clear" /\ pc[u] # "clear"
      BY <1>0, <1>4 DEF Types, TypeOK, Call
    <2> QED BY <1>4, <2>1, UnsavedStays DEF Call
  <1>5. ASSUME NEW t \in Thread, Lock(t)
        PROVE  UNCHANGED StoreVars
    <2>1. \A u \in Thread : \/ pc'[u] = pc[u] /\ request'[u] = request[u]
                            \/ pc'[u] # "clear" /\ pc[u] # "clear"
      BY <1>0, <1>5 DEF Types, TypeOK, Lock
    <2> QED BY <1>5, <2>1, UnsavedStays DEF Lock
  <1>6. ASSUME NEW t \in Thread, SyncSave(t)
        PROVE  Store!Next
    <2>1. PICK p : p = request[t].on
      OBVIOUS
    <2>2. p \in Parser /\ pc[t] = "body" /\ dirty[p]
      BY <1>0, <1>6, <2>1, RequestFields DEF Types, CallsAreOpen, SyncSave, Body
    <2>3. Unsaved = {q \in Parser : dirty[q]}
      BY <1>0, <2>2, NobodyClears, DirtyIsUnsaved
    <2>4. \A u \in Thread : pc'[u] = "clear" <=> u = t
      <3>1. \A u \in Thread : pc[u] # "clear"
        BY <1>0, <2>2, NobodyClears
      <3>2. \A u \in Thread : pc'[u] = IF u = t THEN "clear" ELSE pc[u]
        BY <1>0, <1>6 DEF Types, TypeOK, SyncSave
      <3> QED BY <3>1, <3>2
    <2>5. Unsaved' = {q \in Parser : dirty[q] /\ q # p}
      BY <1>6, <2>1, <2>4 DEF SyncSave, Unsaved
    <2>6. p \in Unsaved /\ Unsaved' = Unsaved \ {p}
      BY ONLY <2>2, <2>3, <2>5
    <2>7. file' = keyfile[p] /\ UNCHANGED <<open, keyfile>>
      BY <1>6, <2>1 DEF SyncSave
    <2>8. Store!Sync(p)
      BY <2>6, <2>7 DEF Store!Sync
    <2> QED BY <2>2, <2>8 DEF Store!Next
  <1>7. ASSUME NEW t \in Thread,
               Get(t) \/ HasKey(t) \/ GetValue(t) \/ GetStartGroup(t) \/ SyncNothing(t) \/ SyncFails(t)
        PROVE  UNCHANGED StoreVars
    <2>1. PICK how \in {"ok", "LogicException", "FileException", "logic_error"} : Return(t, how)
      BY <1>7 DEF Get, HasKey, GetValue, GetStartGroup, SyncNothing, SyncFails
    <2>2. pc[t] = "body" /\ UNCHANGED <<file, open, keyfile, dirty>>
      BY <1>7 DEF Get, HasKey, GetValue, GetStartGroup, SyncNothing, SyncFails, Body
    <2>3. Unsaved' = Unsaved
      BY <1>0, <2>1, <2>2, BodyUnsaved
    <2> QED BY <2>2, <2>3 DEF StoreVars
  <1>8. ASSUME NEW t \in Thread, RemoveGroup(t)
        PROVE  Store!Next \/ UNCHANGED StoreVars
    <2>1. PICK p, g, c : /\ p = request[t].on /\ g = request[t].group
                         /\ c = [groups |-> keyfile[p].groups \ {g},
                                 entries |-> [keyfile[p].entries EXCEPT ![g] = NoEntries]]
      OBVIOUS
    <2>2. /\ pc[t] = "body" /\ UNCHANGED <<file, open, dirty>>
          /\ keyfile' = keyfile \/ keyfile' = [keyfile EXCEPT ![p] = c]
      BY <1>8, <2>1 DEF RemoveGroup, Body
    <2>3. p \in Parser /\ p \in open /\ g \in Group
      BY <1>0, <1>8, <2>1, RequestFields DEF Types, CallsAreOpen, RemoveGroup, Body
    <2>4. Unsaved' = Unsaved
      <3>1. PICK how \in {"ok", "LogicException"} : Return(t, how)
        BY <1>8 DEF RemoveGroup
      <3> QED BY <1>0, <2>2, <3>1, BodyUnsaved
    <2>5. keyfile[p] \in KeyFile
      BY <1>0, <2>3 DEF Types, TypeOK
    <2>6. c \in KeyFile
      BY <2>1, <2>3, <2>5, RemovalIsKeyFile
    <2>7. <<keyfile[p], c>> \in Removal
      <3>1. \A h \in Group, k \in Key : c.entries[h][k] \in {Absent, keyfile[p].entries[h][k]}
        BY <2>1, <2>3, <2>5, RemovalClearsGroup
      <3>2. c.groups \subseteq keyfile[p].groups
        BY ONLY <2>1
      <3> QED BY ONLY <2>5, <2>6, <3>1, <3>2 DEF Removal
    <2>8. CASE keyfile' = [keyfile EXCEPT ![p] = c]
      <3>1. Store!Remove(p, c)
        BY <2>2, <2>3, <2>4, <2>7, <2>8 DEF Store!Remove
      <3> QED BY <2>3, <2>6, <3>1 DEF Store!Next
    <2> QED BY <2>2, <2>4, <2>8 DEF StoreVars
  <1>9. ASSUME NEW t \in Thread, RemoveKey(t)
        PROVE  Store!Next \/ UNCHANGED StoreVars
    <2>1. PICK p, g, l, c : /\ p = request[t].on /\ g = request[t].group /\ l = request[t].key
                            /\ c = Put(keyfile[p], g, l, Absent)
      OBVIOUS
    <2>2. p \in Parser /\ p \in open /\ g \in Group /\ l \in Key
      BY <1>0, <1>9, <2>1, RequestFields DEF Types, CallsAreOpen, RemoveKey, Body
    <2>3. keyfile[p] \in KeyFile
      BY <1>0, <2>2 DEF Types, TypeOK
    <2>4. c \in KeyFile
      BY <2>1, <2>2, <2>3, PutIsKeyFile
    <2>5. /\ pc[t] = "body" /\ UNCHANGED <<file, open, dirty>>
      BY <1>9 DEF RemoveKey, Body
    <2>6. Unsaved' = Unsaved
      <3>1. PICK how \in {"ok", "LogicException"} : Return(t, how)
        BY <1>9 DEF RemoveKey
      <3> QED BY <1>0, <2>5, <3>1, BodyUnsaved
    <2>7. CASE Exists(keyfile[p], g, l)
      <3>1. keyfile' = [keyfile EXCEPT ![p] = c]
        BY <1>9, <2>1, <2>7 DEF RemoveKey
      <3>2. c.groups = keyfile[p].groups
        BY <2>1, <2>7 DEF Put, Exists
      <3>3. \A h \in Group, k \in Key : c.entries[h][k] \in {Absent, keyfile[p].entries[h][k]}
        BY <2>1, <2>2, <2>3, PutChangesOne
      <3>4. <<keyfile[p], c>> \in Removal
        BY <2>3, <2>4, <3>2, <3>3 DEF Removal
      <3>5. Store!Remove(p, c)
        BY <2>2, <2>5, <2>6, <3>1, <3>4 DEF Store!Remove
      <3> QED BY <2>2, <2>4, <3>5 DEF Store!Next
    <2>8. CASE ~Exists(keyfile[p], g, l)
      <3>1. UNCHANGED keyfile
        BY <1>9, <2>1, <2>8 DEF RemoveKey
      <3> QED BY <2>5, <2>6, <3>1 DEF StoreVars
    <2> QED BY <2>7, <2>8
  <1>10. ASSUME NEW t \in Thread, SetValue(t)
         PROVE  Store!Next
    <2>1. PICK p, g, l, v, c : /\ p = request[t].on /\ g = request[t].group
                               /\ l = request[t].key /\ v = request[t].value
                               /\ c = Put(keyfile[p], g, l, v)
      OBVIOUS
    <2>2. p \in Parser /\ p \in open /\ g \in Group /\ l \in Key /\ v \in Value
      BY <1>0, <1>10, <2>1, RequestFields DEF Types, CallsAreOpen, SetValue, Body
    <2>3. c \in KeyFile
      BY <1>0, <2>1, <2>2, PutIsKeyFile DEF Types, TypeOK
    <2>4. /\ pc[t] = "body" /\ Return(t, "ok") /\ UNCHANGED <<file, open>>
          /\ keyfile' = [keyfile EXCEPT ![p] = c]
          /\ dirty' = [dirty EXCEPT ![p] = TRUE]
      BY <1>10, <2>1 DEF SetValue, Body
    <2>5. Unsaved' = Unsaved \cup {p}
      <3>1. Unsaved = {q \in Parser : dirty[q]} /\ Unsaved' = {q \in Parser : dirty'[q]}
        BY <1>0, <2>4, BodyUnsaved
      <3>2. \A q \in Parser : dirty'[q] <=> (dirty[q] \/ q = p)
        BY <1>0, <2>4 DEF Types, TypeOK
      <3> QED BY <2>2, <3>1, <3>2
    <2>6. Store!Set(p, c)
      BY <2>2, <2>4, <2>5 DEF Store!Set
    <2> QED BY <2>2, <2>3, <2>6 DEF Store!Next
  <1>11. ASSUME NEW t \in Thread, SyncClear(t)
         PROVE  UNCHANGED StoreVars
    <2>1. PICK p : p = request[t].on
      OBVIOUS
    <2>2. /\ pc[t] = "clear" /\ Return(t, "ok") /\ UNCHANGED <<file, open, keyfile>>
          /\ dirty' = [dirty EXCEPT ![p] = FALSE]
      BY <1>11, <2>1 DEF SyncClear
    <2>3. \A u \in Thread : pc[u] = "clear" <=> u = t
      BY <1>0, <2>2 DEF Types, LockedInside
    <2>4. \A u \in Thread : pc'[u] # "clear"
      BY <1>0, <2>2, ReturnTypes
    <2>5. \A q \in Parser : dirty'[q] <=> (dirty[q] /\ q # p)
      BY <1>0, <2>2 DEF Types, TypeOK
    <2>6. Unsaved = {q \in Parser : dirty[q] /\ q # p}
      BY <2>1, <2>3 DEF Unsaved
    <2>7. Unsaved' = {q \in Parser : dirty'[q]}
      BY <2>4 DEF Unsaved
    <2>8. Unsaved' = Unsaved
      BY ONLY <2>5, <2>6, <2>7
    <2> QED BY <2>2, <2>8 DEF StoreVars
  <1> QED
    BY <1>1, <1>2, <1>3, <1>4, <1>5, <1>6, <1>7, <1>8, <1>9, <1>10, <1>11 DEF Next, Continue

\* IniParser implements SettingsFile for any threads, objects and contents: the
\* calls behave as if each happened at once, sync() included.
THEOREM SyncIsAtomicHolds == Spec => SyncIsAtomic
  <1>1. Init => Store!Init
    BY InitStore
  <1>2. IInv /\ [Next]_vars => [Store!Next]_StoreVars
    BY StepStore
  <1> QED BY <1>1, <1>2, Invariance, PTL DEF Spec, SyncIsAtomic, Store!Spec, StoreVars
=============================================================================
