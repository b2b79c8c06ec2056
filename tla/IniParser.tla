----------------------------- MODULE IniParser -----------------------------
(***************************************************************************)
(* lomiri::util::IniParser, src/lomiri/util/IniParser.cpp.                 *)
(*                                                                         *)
(* Threads share IniParser objects, which are all for one file.  Every     *)
(* method but the constructor and the destructor holds parser_mutex, one   *)
(* mutex for all objects, from its first line to its return or throw.      *)
(* A call is cut where it waits for that mutex, after it got it, and in    *)
(* sync() between writing the file and clearing dirty.                     *)
(*                                                                         *)
(* A GKeyFile is the set of its groups and the values of its keys; glib,   *)
(* which is external, replaces a file in one step when it saves.  Values   *)
(* stand for what the typed setters store: all of them store text.         *)
(***************************************************************************)
EXTENDS Naturals

CONSTANTS
  Thread, Parser, Group, Key, Value,
  Absent,         \* the value of a key that is not there
  Nobody          \* "owner" of the free mutex

ASSUME IniAssumption == Absent \notin Value /\ Nobody \notin Thread

NoEntries == [k \in Key |-> Absent]

KeyFile ==
  {kf \in [groups : SUBSET Group, entries : [Group -> [Key -> Value \cup {Absent}]]] :
     \A g \in Group \ kf.groups : kf.entries[g] = NoEntries}

VARIABLES
  file,           \* content of the configuration file
  open,           \* the objects that exist
  keyfile,        \* p->k of each object
  dirty,          \* p->dirty
  mutex,          \* parser_mutex: the thread that owns it, or Nobody
  pc, request,    \* where a thread is in its call, and what it asked for
  outcome,        \* how its last call ended
  base            \* history: what each object last loaded or saved

vars == <<file, open, keyfile, dirty, mutex, pc, request, outcome, base>>

Empty == [groups |-> {}, entries |-> [g \in Group |-> NoEntries]]

NoRequest == [op |-> "none"]
Request ==
  [op : {"get", "get_start_group", "sync"}, on : Parser]
  \cup [op : {"has_key", "remove_group"}, on : Parser, group : Group]
  \cup [op : {"remove_key", "get_value"}, on : Parser, group : Group, key : Key]
  \cup [op : {"set"}, on : Parser, group : Group, key : Key, value : Value]

Init ==
  /\ file \in KeyFile
  /\ open = {}
  /\ keyfile = [p \in Parser |-> Empty]
  /\ dirty = [p \in Parser |-> FALSE]
  /\ mutex = Nobody
  /\ pc = [t \in Thread |-> "idle"]
  /\ request = [t \in Thread |-> NoRequest]
  /\ outcome = [t \in Thread |-> "none"]
  /\ base = [p \in Parser |-> Empty]

-----------------------------------------------------------------------------
(* Constructor and destructor take no lock: the object is their caller's.  *)

InUse(p) == \E t \in Thread : pc[t] # "idle" /\ request[t].on = p

End(t, how) ==
  /\ pc' = [pc EXCEPT ![t] = "idle"]
  /\ request' = [request EXCEPT ![t] = NoRequest]
  /\ outcome' = [outcome EXCEPT ![t] = how]

Construct(t, p) ==
  /\ pc[t] = "idle" /\ p \notin open
  /\ \/ /\ open' = open \cup {p}
        /\ keyfile' = [keyfile EXCEPT ![p] = file]
        /\ dirty' = [dirty EXCEPT ![p] = FALSE]
        /\ base' = [base EXCEPT ![p] = file]
        /\ End(t, "ok")
     \/ /\ End(t, "FileException")             \* missing, unreadable or malformed
        /\ UNCHANGED <<open, keyfile, dirty, base>>
  /\ UNCHANGED <<file, mutex>>

\* Changes that were not synced go with the object.
Destroy(t, p) ==
  /\ pc[t] = "idle" /\ p \in open /\ ~InUse(p)
  /\ open' = open \ {p}
  /\ keyfile' = [keyfile EXCEPT ![p] = Empty]
  /\ dirty' = [dirty EXCEPT ![p] = FALSE]
  /\ base' = [base EXCEPT ![p] = Empty]
  /\ UNCHANGED <<file, mutex, pc, request, outcome>>

Call(t, r) ==
  /\ pc[t] = "idle" /\ r.on \in open
  /\ pc' = [pc EXCEPT ![t] = "lock"]
  /\ request' = [request EXCEPT ![t] = r]
  /\ outcome' = [outcome EXCEPT ![t] = "none"]
  /\ UNCHANGED <<file, open, keyfile, dirty, mutex, base>>

\* Mutant: one mutex for each object.
LockObject(t) ==
  /\ pc[t] = "lock"
  /\ mutex # Nobody => request[mutex].on # request[t].on
  /\ mutex' = t
  /\ pc' = [pc EXCEPT ![t] = "body"]
  /\ UNCHANGED <<file, open, keyfile, dirty, request, outcome, base>>

Lock(t) ==
  /\ pc[t] = "lock" /\ mutex = Nobody
  /\ mutex' = t
  /\ pc' = [pc EXCEPT ![t] = "body"]
  /\ UNCHANGED <<file, open, keyfile, dirty, request, outcome, base>>

-----------------------------------------------------------------------------
(* Bodies, with the mutex held until the end.                              *)

Body(t, ops) == pc[t] = "body" /\ request[t].op \in ops
Return(t, how) == End(t, how) /\ mutex' = Nobody
Exists(kf, g, k) == g \in kf.groups /\ kf.entries[g][k] # Absent

\* kf with v as the value of a key in a group that is created if missing
Put(kf, g, k, v) ==
  [groups |-> kf.groups \cup {g}, entries |-> [kf.entries EXCEPT ![g][k] = v]]

\* The readers that cannot fail: has_group(), get_groups()
Get(t) ==
  /\ Body(t, {"get"})
  /\ Return(t, "ok")
  /\ UNCHANGED <<file, open, keyfile, dirty, base>>

\* has_key() and get_keys() need the group to be there, but not the key.
HasKey(t) ==
  LET r == request[t] IN
  /\ Body(t, {"has_key"})
  /\ Return(t, IF r.group \in keyfile[r.on].groups THEN "ok" ELSE "LogicException")
  /\ UNCHANGED <<file, open, keyfile, dirty, base>>

\* A typed getter needs both, and throws when the text is not of its type,
\* whichever text that is.
GetValue(t) ==
  LET r == request[t] IN
  /\ Body(t, {"get_value"})
  /\ \/ Exists(keyfile[r.on], r.group, r.key) /\ Return(t, "ok")
     \/ Return(t, "LogicException")
  /\ UNCHANGED <<file, open, keyfile, dirty, base>>

\* get_start_group() makes a std::string of the null pointer that it gets
\* for a file without groups: undefined, and std::logic_error in practice.
GetStartGroup(t) ==
  /\ Body(t, {"get_start_group"})
  /\ Return(t, IF keyfile[request[t].on].groups = {} THEN "logic_error" ELSE "ok")
  /\ UNCHANGED <<file, open, keyfile, dirty, base>>

\* Mutant: the keys of a group stay when it is removed.
RemoveGroupOnly(t) ==
  LET r == request[t] IN
  /\ Body(t, {"remove_group"}) /\ r.group \in keyfile[r.on].groups
  /\ keyfile' = [keyfile EXCEPT ![r.on].groups = @ \ {r.group}]
  /\ Return(t, "ok")
  /\ UNCHANGED <<file, open, dirty, base>>

\* Neither kind of removal sets dirty.
RemoveGroup(t) ==
  LET r == request[t]  kf == keyfile[r.on] IN
  /\ Body(t, {"remove_group"})
  /\ IF r.group \in kf.groups
     THEN /\ keyfile' = [keyfile EXCEPT ![r.on] =
               [groups |-> kf.groups \ {r.group},
                entries |-> [kf.entries EXCEPT ![r.group] = NoEntries]]]
          /\ Return(t, "ok")
     ELSE Return(t, "LogicException") /\ UNCHANGED keyfile
  /\ UNCHANGED <<file, open, dirty, base>>

RemoveKey(t) ==
  LET r == request[t] IN
  /\ Body(t, {"remove_key"})
  /\ IF Exists(keyfile[r.on], r.group, r.key)
     THEN /\ keyfile' = [keyfile EXCEPT ![r.on] = Put(@, r.group, r.key, Absent)]
          /\ Return(t, "ok")
     ELSE Return(t, "LogicException") /\ UNCHANGED keyfile
  /\ UNCHANGED <<file, open, dirty, base>>

\* The twelve setters: group and key are created when missing.
SetValue(t) ==
  LET r == request[t] IN
  /\ Body(t, {"set"})
  /\ keyfile' = [keyfile EXCEPT ![r.on] = Put(@, r.group, r.key, r.value)]
  /\ dirty' = [dirty EXCEPT ![r.on] = TRUE]
  /\ Return(t, "ok")
  /\ UNCHANGED <<file, open, base>>

SyncNothing(t) ==
  /\ Body(t, {"sync"}) /\ ~dirty[request[t].on]
  /\ Return(t, "ok")
  /\ UNCHANGED <<file, open, keyfile, dirty, base>>

\* Mutant: the mutex is unlocked while the file is written.
SyncSaveUnlocked(t) ==
  LET p == request[t].on IN
  /\ Body(t, {"sync"}) /\ dirty[p]
  /\ file' = keyfile[p]
  /\ base' = [base EXCEPT ![p] = keyfile[p]]
  /\ pc' = [pc EXCEPT ![t] = "clear"]
  /\ mutex' = Nobody
  /\ UNCHANGED <<open, keyfile, dirty, request, outcome>>

SyncSave(t) ==
  LET p == request[t].on IN
  /\ Body(t, {"sync"}) /\ dirty[p]
  /\ file' = keyfile[p]
  /\ base' = [base EXCEPT ![p] = keyfile[p]]
  /\ pc' = [pc EXCEPT ![t] = "clear"]
  /\ UNCHANGED <<open, keyfile, dirty, mutex, request, outcome>>

\* Mutants: dirty is cleared, or the mutex stays locked, when saving fails.
SyncFailsClean(t) ==
  /\ Body(t, {"sync"}) /\ dirty[request[t].on]
  /\ dirty' = [dirty EXCEPT ![request[t].on] = FALSE]
  /\ Return(t, "FileException")
  /\ UNCHANGED <<file, open, keyfile, base>>

SyncFailsLocked(t) ==
  /\ Body(t, {"sync"}) /\ dirty[request[t].on]
  /\ End(t, "FileException")
  /\ UNCHANGED <<file, open, keyfile, dirty, mutex, base>>

SyncFails(t) ==
  /\ Body(t, {"sync"}) /\ dirty[request[t].on]
  /\ Return(t, "FileException")
  /\ UNCHANGED <<file, open, keyfile, dirty, base>>

SyncClear(t) ==
  /\ pc[t] = "clear"
  /\ dirty' = [dirty EXCEPT ![request[t].on] = FALSE]
  /\ Return(t, "ok")
  /\ UNCHANGED <<file, open, keyfile, base>>

-----------------------------------------------------------------------------
Continue(t) ==
  \/ Lock(t) \/ Get(t) \/ HasKey(t) \/ GetValue(t) \/ GetStartGroup(t)
  \/ RemoveGroup(t) \/ RemoveKey(t) \/ SetValue(t)
  \/ SyncNothing(t) \/ SyncSave(t) \/ SyncFails(t) \/ SyncClear(t)

Next ==
  \E t \in Thread :
    \/ Continue(t)
    \/ \E p \in Parser : Construct(t, p) \/ Destroy(t, p)
    \/ \E r \in Request : Call(t, r)

Spec == Init /\ [][Next]_vars

-----------------------------------------------------------------------------
TypeOK ==
  /\ file \in KeyFile
  /\ open \subseteq Parser
  /\ keyfile \in [Parser -> KeyFile]
  /\ dirty \in [Parser -> BOOLEAN]
  /\ mutex \in Thread \cup {Nobody}
  /\ pc \in [Thread -> {"idle", "lock", "body", "clear"}]
  /\ request \in [Thread -> Request \cup {NoRequest}]
  /\ outcome \in [Thread -> {"none", "ok", "LogicException", "FileException", "logic_error"}]
  /\ base \in [Parser -> KeyFile]

\* An object whose values differ from what it last loaded or saved is dirty,
\* so the next sync() writes them: a failed sync() leaves it dirty, and no
\* value set while another thread syncs is forgotten.
SetsAreRemembered ==
  \A p \in Parser, g \in Group, k \in Key :
    keyfile[p].entries[g][k] \notin {Absent, base[p].entries[g][k]} => dirty[p]

\* When sync() clears dirty, the file holds exactly what the object holds,
\* although other objects write the same file.
ClearedIsSaved ==
  \A t \in Thread : pc[t] = "clear" => file = keyfile[request[t].on]

\* parser_mutex is owned by the one thread that is inside a method, and no
\* return or exception leaves it locked.
LockedInside ==
  /\ \A t \in Thread : pc[t] \in {"body", "clear"} => mutex = t
  /\ \A t \in Thread : mutex = t => pc[t] \in {"body", "clear"}

\* "To write unsaved changes back to the configuration file, call sync()"
\* (IniParser.h): a change that is not in the file makes sync() write.
ChangesAreRemembered == \A p \in open : keyfile[p] # base[p] => dirty[p]

-----------------------------------------------------------------------------
(* The objects and the file as SettingsFile has them.                      *)

Removal ==
  {r \in KeyFile \X KeyFile :
     /\ r[2].groups \subseteq r[1].groups
     /\ \A g \in Group, k \in Key : r[2].entries[g][k] \in {Absent, r[1].entries[g][k]}}

\* An object is saved when its file is written, though dirty is cleared later.
Unsaved ==
  {p \in Parser : dirty[p] /\ \A t \in Thread : pc[t] = "clear" => request[t].on # p}

Store == INSTANCE SettingsFile WITH
           Object <- Parser, Content <- KeyFile, Blank <- Empty, copy <- keyfile, unsaved <- Unsaved

\* Every step of the threads is one of an object that edits its own copy, or of
\* a sync() that makes the file what the copy is at once, or none: no edit of
\* the object, by whichever thread, gets in between saving and clearing dirty,
\* a sync() that fails leaves everything to be saved, and removals alone
\* change a copy without that.
SyncIsAtomic == Store!Spec
=============================================================================
