------------------------------- MODULE FileIO -------------------------------
(***************************************************************************)
(* read_file() of src/lomiri/util/FileIO.cpp, called by threads of one     *)
(* process through read_text_file() and read_binary_file(), while other    *)
(* processes write, replace and remove the file and other code of the      *)
(* process opens and closes descriptors of its own.                        *)
(*                                                                         *)
(* A call is cut at its system calls.  read() copies a block at a time,    *)
(* since a write to the file may come in between.                          *)
(***************************************************************************)
EXTENDS Naturals, Sequences

CONSTANTS
  Thread,      \* threads of the process
  Name,        \* file names
  Inode,       \* what a name or a descriptor stands for
  Fd,          \* the descriptors that the process may have open
  Block,       \* content comes in blocks
  MaxSize,     \* bound: a file has at most this many blocks
  Elsewhere,   \* what else a descriptor may be open for
  None         \* no inode, no descriptor (-1), no name

ASSUME ConstantsAssumption ==
  /\ None \notin Name \cup Inode \cup Fd \cup {Elsewhere}
  /\ Elsewhere \notin Inode
  /\ MaxSize \in Nat

VARIABLES
  dir,         \* the inode that each name stands for
  kind, data,  \* of each inode: what it is, and its content if it is a file
  table,       \* the inode that each descriptor of the process is open for
  others,      \* descriptors that other code of the process has open
  pc, name,    \* where a thread is in its call, and for which file
  fd,          \* fd: the descriptor that its ResourcePtr holds
  size, buf,   \* st.st_size, and what read() has copied to buf
  outcome,     \* what the call ends with
  version,     \* history: the content when st was filled,
  torn         \* and the calls whose file has been written over since

files  == <<dir, kind, data>>
frame  == <<pc, name, fd, size, buf, outcome, version, torn>>
vars   == <<files, table, others, frame>>

Kind    == {"regular", "directory", "fifo"}
Content == Seq(Block)
NewContent == UNION {[1..m -> Block] : m \in 0..MaxSize}

\* An inode that no name and no descriptor stands for is gone, with what it
\* held, and can be allocated again.
Free(i) == /\ \A n \in Name : dir[n] # i
           /\ \A f \in Fd : table[f] # i
Reclaim ==
  /\ kind' = [i \in Inode |-> IF Free(i)' THEN "regular" ELSE kind[i]]
  /\ data' = [i \in Inode |-> IF Free(i)' THEN <<>> ELSE data[i]]
Opened(t) == table[fd[t]]

\* t is about to open a FIFO, whose kind fstat() would tell it afterwards.
Waiting(t) == pc[t] = "open" /\ dir[name[t]] # None /\ kind[dir[name[t]]] = "fifo"

Init ==
  /\ dir = [n \in Name |-> None]
  /\ kind = [i \in Inode |-> "regular"]
  /\ data = [i \in Inode |-> <<>>]
  /\ table = [f \in Fd |-> None]
  /\ others = {}
  /\ pc = [t \in Thread |-> "idle"]
  /\ name = [t \in Thread |-> None]
  /\ fd = [t \in Thread |-> None]
  /\ size = [t \in Thread |-> 0]
  /\ buf = [t \in Thread |-> <<>>]
  /\ outcome = [t \in Thread |-> "none"]
  /\ version = [t \in Thread |-> <<>>]
  /\ torn = {}

-----------------------------------------------------------------------------
(* read_file()                                                             *)

Call(t, n) ==
  /\ pc[t] = "idle"
  /\ pc' = [pc EXCEPT ![t] = "open"]
  /\ name' = [name EXCEPT ![t] = n]
  /\ UNCHANGED <<files, table, others, fd, size, buf, outcome, version, torn>>

\* What the call ends with is known; fd is destroyed next.
End(t, result) ==
  /\ pc' = [pc EXCEPT ![t] = "close"]
  /\ outcome' = [outcome EXCEPT ![t] = result]

\* Mutant: -1 is not tested for.
OpenUnchecked(t) ==
  /\ pc[t] = "open"
  /\ pc' = [pc EXCEPT ![t] = "fstat"]
  /\ UNCHANGED <<files, table, others, name, fd, size, buf, outcome, version, torn>>

\* open() has to fail when there is no such file or no descriptor is left.
CannotOpen(t) ==
  pc[t] = "open" /\ (dir[name[t]] = None \/ \A f \in Fd : table[f] # None)

\* open() returns -1, for these reasons or others.
OpenFails(t) ==
  /\ pc[t] = "open"
  /\ pc' = [pc EXCEPT ![t] = "idle"]
  /\ name' = [name EXCEPT ![t] = None]
  /\ UNCHANGED <<files, table, others, fd, size, buf, outcome, version, torn>>

OpenAs(t, f) ==
  /\ pc[t] = "open"
  /\ dir[name[t]] # None /\ table[f] = None
  /\ table' = [table EXCEPT ![f] = dir[name[t]]]
  /\ fd' = [fd EXCEPT ![t] = f]
  /\ pc' = [pc EXCEPT ![t] = "fstat"]
  /\ UNCHANGED <<files, others, name, size, buf, outcome, version, torn>>

Open(t) == pc[t] = "open" /\ ~Waiting(t) /\ \E f \in Fd : OpenAs(t, f)

\* open() of a FIFO returns when somebody opens the other end, if ever.
OpenFifo(t) == Waiting(t) /\ \E f \in Fd : OpenAs(t, f)

\* Mutant: stat(filename) in place of fstat(fd).
StatName(t) ==
  LET i == dir[name[t]] IN
  /\ pc[t] = "fstat" /\ i # None
  /\ size' = [size EXCEPT ![t] = Len(data[i])]
  /\ version' = [version EXCEPT ![t] = data[Opened(t)]]
  /\ torn' = torn \ {t}
  /\ IF kind[i] # "regular" THEN End(t, "throw")
     ELSE IF data[i] = <<>> THEN End(t, "ok")
     ELSE pc' = [pc EXCEPT ![t] = "read"] /\ UNCHANGED outcome
  /\ UNCHANGED <<files, table, others, name, fd, buf>>

\* Mutant: the descriptor is closed before the throw, and by fd once more.
FstatCloses(t) ==
  /\ pc[t] = "fstat"
  /\ kind[Opened(t)] # "regular"
  /\ table' = [table EXCEPT ![fd[t]] = None]
  /\ End(t, "throw")
  /\ UNCHANGED <<files, others, name, fd, size, buf, version, torn>>

\* st.st_mode and st.st_size; an empty file is not read.
Fstat(t) ==
  LET i == Opened(t) IN
  /\ pc[t] = "fstat"
  /\ IF kind[i] # "regular"
     THEN End(t, "throw") /\ UNCHANGED <<size, version, torn>>
     ELSE /\ size' = [size EXCEPT ![t] = Len(data[i])]
          /\ version' = [version EXCEPT ![t] = data[i]]
          /\ torn' = torn \ {t}
          /\ IF data[i] = <<>> THEN End(t, "ok")
             ELSE pc' = [pc EXCEPT ![t] = "read"] /\ UNCHANGED outcome
  /\ UNCHANGED <<files, table, others, name, fd, buf>>

\* fstat() returns -1, or there is no memory for buf.
FstatFails(t) ==
  /\ pc[t] = "fstat"
  /\ End(t, "throw")
  /\ UNCHANGED <<files, table, others, name, fd, size, buf, version, torn>>

\* Mutant: as long as there are blocks, however many there were to be.
ReadGrowing(t) ==
  LET next == Len(buf[t]) + 1 IN
  /\ pc[t] = "read"
  /\ next <= Len(data[Opened(t)])
  /\ buf' = [buf EXCEPT ![t] = Append(@, data[Opened(t)][next])]
  /\ UNCHANGED <<files, table, others, pc, name, fd, size, outcome, version, torn>>

\* read() goes on to the next block,
ReadBlock(t) ==
  LET next == Len(buf[t]) + 1 IN
  /\ pc[t] = "read"
  /\ next <= size[t] /\ next <= Len(data[Opened(t)])
  /\ buf' = [buf EXCEPT ![t] = Append(@, data[Opened(t)][next])]
  /\ UNCHANGED <<files, table, others, pc, name, fd, size, outcome, version, torn>>

\* Mutant: read() is called again until buf is full.
ReadAgain(t) ==
  /\ pc[t] = "read" /\ Len(buf[t]) = size[t]
  /\ End(t, "ok")
  /\ UNCHANGED <<files, table, others, name, fd, size, buf, version, torn>>

\* returns when buf is full, and at the end of the file,
ReadEnds(t) ==
  /\ pc[t] = "read"
  /\ \/ Len(buf[t]) = size[t] /\ End(t, "ok")
     \/ Len(buf[t]) < size[t] /\ Len(buf[t]) >= Len(data[Opened(t)]) /\ End(t, "throw")
  /\ UNCHANGED <<files, table, others, name, fd, size, buf, version, torn>>

\* or fails.
ReadFails(t) ==
  /\ pc[t] = "read"
  /\ End(t, "throw")
  /\ UNCHANGED <<files, table, others, name, fd, size, buf, version, torn>>

\* The deleter of fd runs, on return and when an exception unwinds.
Close(t) ==
  /\ pc[t] = "close"
  /\ table' = [table EXCEPT ![fd[t]] = None]
  /\ fd' = [fd EXCEPT ![t] = None]
  /\ pc' = [pc EXCEPT ![t] = "idle"]
  /\ name' = [name EXCEPT ![t] = None]
  /\ size' = [size EXCEPT ![t] = 0]
  /\ buf' = [buf EXCEPT ![t] = <<>>]
  /\ version' = [version EXCEPT ![t] = <<>>]
  /\ torn' = torn \ {t}
  /\ outcome' = [outcome EXCEPT ![t] = "none"]
  /\ UNCHANGED <<dir, others>> /\ Reclaim

-----------------------------------------------------------------------------
(* Other processes, and other code of this one.                            *)

\* A file is created under a free name,
Create(n, i, k) ==
  /\ dir[n] = None /\ Free(i)
  /\ dir' = [dir EXCEPT ![n] = i]
  /\ kind' = [kind EXCEPT ![i] = k]
  /\ UNCHANGED <<data, table, others, frame>>

\* or takes the place of another by rename(), as IniParser's sync() has it;
\* what was open then stays what it was, until it is closed.
Replace(n, i, c) ==
  /\ dir[n] # None /\ kind[dir[n]] = "regular" /\ Free(i)
  /\ dir' = [dir EXCEPT ![n] = i]
  /\ UNCHANGED <<table, others, frame>>
  /\ kind' = [kind EXCEPT ![i] = "regular"]
  /\ data' = [j \in Inode |-> IF j = i THEN c ELSE IF Free(j)' THEN <<>> ELSE data[j]]

Unlink(n) ==
  /\ dir[n] # None
  /\ dir' = [dir EXCEPT ![n] = None]
  /\ UNCHANGED <<table, others, frame>>
  /\ Reclaim

\* A writer appends.
Extend(i, b) ==
  /\ kind[i] = "regular" /\ ~Free(i)
  /\ Len(data[i]) < MaxSize
  /\ data' = [data EXCEPT ![i] = Append(@, b)]
  /\ UNCHANGED <<dir, kind, table, others, frame>>

\* What the calls that have i open will read is the content of no one moment.
Tears(i) == torn' = torn \cup {t \in Thread : fd[t] # None /\ Opened(t) = i}

\* A writer truncates, or writes over what is there.
Truncate(i) ==
  /\ kind[i] = "regular" /\ ~Free(i)
  /\ \E m \in 0 .. Len(data[i]) - 1 : data' = [data EXCEPT ![i] = SubSeq(@, 1, m)]
  /\ Tears(i)
  /\ UNCHANGED <<dir, kind, table, others, pc, name, fd, size, buf, outcome, version>>

Overwrite(i, k, b) ==
  /\ kind[i] = "regular" /\ ~Free(i)
  /\ k \in 1 .. Len(data[i])
  /\ data' = [data EXCEPT ![i] = [@ EXCEPT ![k] = b]]
  /\ Tears(i)
  /\ UNCHANGED <<dir, kind, table, others, pc, name, fd, size, buf, outcome, version>>

\* Other code opens something else, and closes it again.
OtherOpens(f) ==
  /\ table[f] = None
  /\ table' = [table EXCEPT ![f] = Elsewhere]
  /\ others' = others \cup {f}
  /\ UNCHANGED <<files, frame>>

OtherCloses(f) ==
  /\ f \in others
  /\ table' = [table EXCEPT ![f] = None]
  /\ others' = others \ {f}
  /\ UNCHANGED <<files, frame>>

-----------------------------------------------------------------------------
Continue(t) ==
  \/ CannotOpen(t) /\ OpenFails(t)
  \/ Open(t) \/ Fstat(t) \/ ReadBlock(t) \/ ReadEnds(t) \/ Close(t)
Fail(t) == OpenFails(t) \/ FstatFails(t) \/ ReadFails(t)

World ==
  \/ \E n \in Name, i \in Inode, k \in Kind : Create(n, i, k)
  \/ \E n \in Name, i \in Inode, c \in NewContent : Replace(n, i, c)
  \/ \E n \in Name : Unlink(n)
  \/ \E i \in Inode, b \in Block : Extend(i, b) \/ \E k \in 1..MaxSize : Overwrite(i, k, b)
  \/ \E i \in Inode : Truncate(i)
  \/ \E f \in Fd : OtherOpens(f) \/ OtherCloses(f)

Next ==
  \/ \E t \in Thread : Continue(t) \/ Fail(t) \/ OpenFifo(t) \/ \E n \in Name : Call(t, n)
  \/ World

Spec == Init /\ [][Next]_vars

\* System calls on regular files and directories return, if only with an
\* error, which a call cannot count on.
FairSpec == Spec /\ \A t \in Thread : WF_vars(Continue(t))

-----------------------------------------------------------------------------
TypeOK ==
  /\ dir \in [Name -> Inode \cup {None}]
  /\ kind \in [Inode -> Kind]
  /\ data \in [Inode -> Content]
  /\ table \in [Fd -> Inode \cup {Elsewhere, None}]
  /\ others \subseteq Fd
  /\ pc \in [Thread -> {"idle", "open", "fstat", "read", "close"}]
  /\ name \in [Thread -> Name \cup {None}]
  /\ fd \in [Thread -> Fd \cup {None}]
  /\ size \in [Thread -> Nat]
  /\ buf \in [Thread -> Content]
  /\ outcome \in [Thread -> {"none", "ok", "throw"}]
  /\ version \in [Thread -> Content]
  /\ torn \subseteq Thread
  /\ \A t \in Thread : pc[t] \in {"idle", "open"} <=> fd[t] = None

\* Every descriptor that is open belongs to one call in progress or to other
\* code, and every call still has the descriptor it has opened: no return or
\* exception leaks one, and none is closed twice, which would take the one
\* that another thread has been given meanwhile.
DescriptorsAreHeld ==
  /\ \A f \in Fd : table[f] # None <=> f \in others \/ \E t \in Thread : fd[t] = f
  /\ \A t, u \in Thread : fd[t] # None /\ fd[t] = fd[u] => t = u
  /\ \A t \in Thread : fd[t] \notin others

\* What is returned is as long as the file was, with no block that was not
\* read, and is the whole content it had at one moment, that of fstat(),
\* even if the file is replaced, removed or appended to meanwhile.  Only a
\* writer that truncates or overwrites in place can mix two versions.
ReturnsAVersion ==
  \A t \in Thread : pc[t] = "close" /\ outcome[t] = "ok" =>
    /\ Len(buf[t]) = size[t]
    /\ t \notin torn => buf[t] = version[t]

\* A call comes to the next stage, gives up for "close" or "idle", or has one
\* more of the blocks that it has set out to read.
Later == [open |-> {"fstat", "idle"}, fstat |-> {"read", "close"}, read |-> {"close"},
          close |-> {"idle"}]
Advances(t) ==
  \/ pc'[t] \in Later[pc[t]]
  \/ /\ pc[t] = "read" /\ pc'[t] = "read" /\ size'[t] = size[t]
     /\ Len(buf'[t]) = Len(buf[t]) + 1 /\ Len(buf'[t]) <= size[t]

\* Whatever is done to the file and to other calls meanwhile, appending for
\* ever included, a call is left where it is or advances: the number of its
\* steps is known from fstat() on.
CallsAdvance ==
  [][\A t \in Thread : pc[t] # "idle" =>
       UNCHANGED <<pc[t], size[t], buf[t]>> \/ Advances(t)]_vars

\* Every call ends, unless it is for a FIFO, whose kind is looked at only
\* after open() has waited for a writer.
CallEnds == \A t \in Thread : pc[t] # "idle" ~> pc[t] = "idle" \/ Waiting(t)
=============================================================================
