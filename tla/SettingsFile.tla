---------------------------- MODULE SettingsFile ----------------------------
(***************************************************************************)
(* What IniParser promises of the objects that share a file, whatever its  *)
(* locking looks like: each edits a copy of its own, and sync() makes the  *)
(* file what the copy is, in a single step, if there is something to save. *)
(***************************************************************************)
CONSTANTS
  Object,
  Content,        \* what a file and a copy may be
  Blank,          \* the copy of an object that does not exist
  Removal         \* pairs of contents, the second with something taken away

VARIABLES
  file,
  open,           \* the objects that exist
  copy,           \* of each object
  unsaved         \* the objects whose next sync() saves

Init ==
  /\ file \in Content
  /\ open = {} /\ unsaved = {}
  /\ copy = [o \in Object |-> Blank]

\* A constructor loads the file.
Load(o) ==
  /\ o \notin open
  /\ open' = open \cup {o} /\ unsaved' = unsaved \ {o}
  /\ copy' = [copy EXCEPT ![o] = file]
  /\ UNCHANGED file

\* A destructor saves nothing.
Close(o) ==
  /\ o \in open
  /\ open' = open \ {o} /\ unsaved' = unsaved \ {o}
  /\ copy' = [copy EXCEPT ![o] = Blank]
  /\ UNCHANGED file

\* A setter, after which there is something to save
Set(o, c) ==
  /\ o \in open
  /\ copy' = [copy EXCEPT ![o] = c]
  /\ unsaved' = unsaved \cup {o}
  /\ UNCHANGED <<file, open>>

\* remove_group() and remove_key(), which do not say that there is
Remove(o, c) ==
  /\ o \in open /\ <<copy[o], c>> \in Removal
  /\ copy' = [copy EXCEPT ![o] = c]
  /\ UNCHANGED <<file, open, unsaved>>

Sync(o) ==
  /\ o \in unsaved
  /\ file' = copy[o]
  /\ unsaved' = unsaved \ {o}
  /\ UNCHANGED <<open, copy>>

Next ==
  \E o \in Object :
    \/ Load(o) \/ Close(o) \/ Sync(o)
    \/ \E c \in Content : Set(o, c) \/ Remove(o, c)

Spec == Init /\ [][Next]_<<file, open, copy, unsaved>>
=============================================================================
