# A verification development for lomiri-api

lomiri-api holds the small C++ library (`liblomiri-api`) and the interface
headers that the Lomiri shell and its plugins share. This directory models the
parts of it that keep state, checks them with TLC and proves the theorems about
them that matter most with TLAPS. Paths below are relative to the repository.

## The system

Nothing in the library runs by itself. Clients call it, from any number of
threads, and it keeps its state in the objects that they hold, in the process,
and in files. The components hardly call each other: `DaemonImpl` keeps its
saved directory in a `ResourcePtr`, and `FileIO`, `IniParser` and `Daemon` throw
the exceptions of `LomiriExceptions`. What makes them hard is what their clients
do at the same time, what fails halfway, and long sequences of legal calls.

| Component | State | Operations | What is hard | What makes it correct |
| --- | --- | --- | --- | --- |
| `util::ResourcePtr` (`include/lomiri/util/ResourcePtr.h`) | `resource_`, `delete_`, `initialized_`, `m_` | construct, move, assign, swap, reset, release, dealloc, get, get_deleter, compare, destroy | threads, two mutexes at once, deleters that throw, sources of moves that are not locked | each resource has one owner, is deleted once, by its own deleter, and never leaks; no mutex stays locked |
| `util::Daemon` (`src/lomiri/util/internal/DaemonImpl.cpp`) | four settings; the attributes of the process | four setters, `daemonize_me()` | two forks leave processes side by side; every system call may fail; the second call | one process goes on; it is detached; only what was asked for has changed; a throw changes nothing |
| `util::IniParser` (`src/lomiri/util/IniParser.cpp`) | a key file, `dirty`, one static `parser_mutex`; the file on disk | load, typed getters and setters, has, remove, `sync()` | threads, several parsers of one file, saving fails | changes are pending until they are in the file; every exit unlocks |
| `Exception` (`src/lomiri/Exception.cpp`, `LomiriExceptions.cpp`) | `name_`, `reason_`, `what_`, `earlier_`, the nested exception | throw, `remember()`, `self()`, `to_string()`, `what()` | chains of two kinds that a program links in any order | `what()` shows the whole history, in order, and returns |
| glib helpers (`GlibMemory.h`, `GObjectMemory.h`, `GioMemory.h`) | smart pointers, assigners, signal connections, source managers | assign through an out parameter, connect, disconnect, move | order of destruction, moved-from helpers, sources that end by themselves | each object is freed once, a handler is disconnected once |
| file reading (`src/lomiri/util/FileIO.cpp`) | a descriptor per call | `read_text_file()`, `read_binary_file()` | another process truncates, replaces or extends the file; another thread takes the descriptor that was closed | the content returned is one the file had, or an exception; no descriptor leaks |
| D-Bus paths (`src/lomiri/util/Dbus.cpp`) | none | `dbus_sanitize_str()`, `dbus_sanitized_path()` | bytes that are negative, or below 16, or the escape character | the path is legal, and different strings give different paths |
| snap paths (`src/lomiri/util/SnapPath.cpp`) | none | `prepend_snap_path()` | nothing: one condition | |
| notification mocks (`test/qmltest/mocks/plugins/Lomiri/Notifications/Mocks`) | list of notifications, `confirmationPlaceholder` | send, add, dismiss, set the placeholder | signals and deferred deletion in any order | one placeholder on top; the view follows the list |
| launcher, application and notification interfaces (`include/lomiri/shell`) | none | pure virtual functions and signals | | |
| `DefinesPtrs`, `NonCopyable`, `SymbolExport`, `Version` | none | macros, constants | | |

## The modules

| Module | Models | Kind |
| --- | --- | --- |
| `ResourcePtr` | every method of the class, with its locking, called by any threads | detailed specification |
| `ResourceOwnership` | what the class promises: ownership of a resource moves in single steps | abstract specification |
| `ResourcePtrOrder` | the six comparisons, over the values that the mutators leave in the fields | specification with operators |
| `ResourcePtrProofs` | the safety theorems about `ResourcePtr`, and that it implements the safety of `ResourceOwnership` | proofs |
| `ResourcePtrOrderProofs` | the order laws | proofs |
| `IniParser` | `IniParser` objects of one file, shared by threads | specification |
| `SettingsFile` | what the class promises: objects edit copies of a file, and a save is a single step | abstract specification |
| `IniParserProofs` | the safety theorems about `IniParser`, and that it implements `SettingsFile` | proofs |
| `Daemon` | `daemonize_me()` and its forks, with the settings | specification |
| `Daemonization` | what the class promises the program that calls it: it runs in one process, and a call is a single step | abstract specification |
| `DaemonProofs` | the safety theorems about `Daemon`, and that it implements `Daemonization` | proofs |
| `FileIO` | `read_file()`, cut at its system calls, in a world that changes the file | specification |
| `FileIOProofs` | the safety theorems about `FileIO` | proofs |
| `DbusPath` | the escaping of strings, a character at a time | specification with operators |
| `DbusPathProofs` | the theorems about `DbusPath` | proofs |
| `GObjectMemory` | smart pointers, assigners, signal connections and source managers | specification |
| `GObjectMemoryProofs` | the safety theorems about `GObjectMemory` | proofs |
| `Exceptions` | exceptions linked by a program, and the walk of `to_string()` | specification with operators |
| `ExceptionsProofs` | the theorems about `Exceptions` | proofs |
| `MC...` | the symmetry and value sets of the above for TLC | instances |

An operator with the comment "Mutant:" stands next to the definition it
distorts. It is not part of any specification; it is a bug that the code could
have had, kept to show which property would notice it. `PROJECT.json` pairs them.

### ResourcePtr

`alive`, `resource`, `initialized`, `delete` and `mutex` are the lifetime and
the fields of each object. A thread's call is `call`, `this`, `other` and `pc`,
with its locals `hasOld` and `oldResource` (`has_old` and `old_resource` in
`reset()`; elsewhere the test of `initialized_` and the read of `resource_`).
`arg` is the handle a call carries: the argument of `reset()`, later the one it
passes to the deleter. A call is cut into the steps between which another thread
can do something that matters:

    idle -> lock -> (second ->) locked -> (delete ->) (take -> clear ->) idle

`lock` waits for `lock_guard` or for the first mutex of `std::lock`; `second` is
`std::lock` trying the other one, and backing off when it is taken; the bodies
run at `locked`; the deleter is called at `delete`, mutex held, and returns or
throws; `take` and `clear` are the statements of the two moves that touch their
source. The source of a move is not locked by the code; the guard `Movable` has
the program keep other threads away from it, as the comments "No need to lock: r
is a temporary" have it. That is an assumption about the program which
`ResourcePtr.h:64` ("ResourcePtr is thread-safe") does not make, and everything
checked and proved about ownership rests on it: whoever moves from a named object
that other threads use is not covered. Destructors and constructors are private
to one thread anyway.

The handle is opaque: moving one leaves its value behind, so `initialized_` is
all that says who owns the resource. `caller`, `calls` and `bound` are history:
what client code owns, how often a deleter has run for each handle, and with
which deleter it was installed, until it is deleted.

Not modelled: a deleter that calls the object it belongs to (it would block on
`m_`), the use of the reference that `get_deleter()` returns, and the
specializations of the function objects in `namespace std`, which forward to the
operators.

### ResourceOwnership

`owner` maps each resource to the client, to an object, to "doomed" (given up,
the deleter is about to run) or to "deleted". `ResourcePtr` implements it under
`OwnerOf`; a resource that nobody answers for would map to "lost", which no
abstract step allows. `Replace` is `reset()`: old resource doomed and new one
installed in a single step, although the code copies, overwrites and deletes.
`Safety` is the steps alone and `Spec` adds that what is doomed gets deleted;
`OwnershipMoves` and `OwnershipIsKept` say that `ResourcePtr` implements them.

### ResourcePtrOrder

The comparisons read `resource_` and `initialized_` of two objects under both
locks, so one state of the fields is all they see, and threads are left out.
`Next` are the mutators, because they decide what value stays in `resource_` of
an object without a resource. The operators have the code's order of tests.

### Daemon

`attr` is what the kernel keeps for each living process (directory, umask,
dispositions, session, control terminal, descriptors), `frame` the locals of
`daemonize_me()`, `pc` the statement each process has reached. `fork()` copies
both to the next process number; from there parent and child interleave. Every
system call whose failure the code tests may fail: `open(".")`, `chdir()`, both
`fork()`s. `old_working_dir` is a `ResourcePtr` whose deleter does
`fchdir()` and `close()`; here it is a field of the frame that `Unwind` and
`Release` empty, as its destructor and `release()` do. `before` is history: the
caller's attributes at the call. The setters may be called again after a call,
and the object is used for a second one, which inherits what the first left.

`Daemonization` knows no second process: the program has settings, a process that
it runs in (`self`, which only a younger one may replace), attributes and a
status. A call begins, may move the program to another process, and then either
turns it into a daemon with exactly the changes that were asked for (`Become`), or
throws and leaves everything but session and terminal as it was, and the
directory when no descriptor was free (`Throw`), or, with `close_fds()`, kills it
(`Die`). `Daemon` implements it with `self` as the one process in `Running` - not
unborn, exiting, gone or aborted - and `now` as its attributes in user code and
`before` in a call. So nothing that a call does on the way is seen, the
descriptor of the saved directory included, and a process that was left behind
does nothing that the program could see when it exits, be it during the next call.

Not modelled: delivery of signals, other threads of the process, relative
directories, and failures that the code does not test (`setsid()`, reopening
`/dev/null`).

### IniParser

All objects parse one file; `file` is its content, `keyfile` and `dirty` the
fields of each object, `mutex` the static `parser_mutex`. A call waits for the
mutex (`lock`), then its body runs; only `sync()` has a further cut, between
saving the file and clearing `dirty`. The constructor and destructor take no
lock. The many typed getters are one action, and so are the setters: all of them
read or store text. Saving replaces the file in one step, as
`g_key_file_save_to_file()` does; loading or saving may fail. `base` is
history: what an object last loaded or saved. `SetsAreRemembered` compares with
that and not with `file`, which other objects may have replaced since.

`SettingsFile` knows no threads and no mutex: an object loads, edits its copy,
and `Sync` makes the file what the copy is. `IniParser` implements it with
`keyfile` as the copies and `Unsaved` as the objects that have something to save:
those that are dirty, less the one whose file has just been written and whose
`dirty` is about to be cleared. So the cut in `sync()` is invisible, unless
another thread gets at the object meanwhile. `Remove` is the one edit after which
there is nothing to save; that is what the code does, and `IniParserRemovals`
says what is wrong with it.

### FileIO

A call is `open -> fstat -> read -> close`, and back to `idle`; each stage is a
system call of `read_file()`, and `read()` copies a block at a time, because a
writer may come in between. `fd` is the descriptor in the `ResourcePtr`, whose
deleter is `Close`; every result and every exception goes through it, except
that of an `open()` that failed, when there is nothing to close. `size` is
`st.st_size`, `buf` what has been copied.

The world is the actions `Create`, `Replace`, `Unlink`, `Extend`, `Truncate` and
`Overwrite` of other processes on names and inodes (`Replace` is `rename()`,
which is how `IniParser` saves), and `OtherOpens` and `OtherCloses` of other code
in the process, which may be given a descriptor as soon as it is free. `version`
is history, the content at `fstat()`, and `torn` the calls whose file has been
truncated or overwritten in place since then; for these no one content can be
promised. System calls may fail at any stage, `open()` too when there is a file
and a descriptor (`CannotOpen` is when it must); `read()` is one call, as in the
code, and short only at the end of the file.

Not modelled: signals that interrupt a call, and files of 2 GiB and more.

### DbusPath

A string is a sequence of bytes, `Sanitized` what `dbus_sanitize_str()` appends
for one of them, `Prefix` what `dbus_sanitized_path()` does with `base`; a step
of the loop is an action, so that the properties are stated of every prefix.
`SignedChar` is whether `char` is signed: `snprintf("_%02x")` takes an `int`, and
a byte from 128 on becomes eight digits where it is. `Decoded` is the reference
definition: it reads the string back from the path.

### GObjectMemory

`refs` is the reference count that GObject keeps, and `raw`, `block` and
`assigner` are what owns a reference: the program, a control block of
`shared_ptr`, or an assigner between the call of the function that writes to it
and the assignment in its destructor. `slot` are the program's smart pointers,
`conn` its connections, each a `ResourcePtr` whose resource is a handler id and
whose deleter has a smart pointer (`obj`); the methods of `ResourcePtr` are used
here as what they do to a connection in one thread. A source manager is one
whose deleter has none: a variable is of the one type or the other (`Alike`), and
one without a resource and an object can become either. `handlers` are the
handlers that GObject has, which go with their object, and the sources of the
main context; a source whose callback has returned `FALSE` is `Over`, which
nobody tells the manager. `ids` are the ids that the program still has in hand.
`Settle` lets a control block without holders give back its reference, and
finalizes objects without references. A moved-from assigner is destroyed at
once, since assigners are temporaries.

Not modelled: emission of signals, finalizers that call back, `unique_ptr`, and
tags that GLib uses again, after 2^32 of them.

### Exceptions

`heap` is the sequence of exception objects with their two links, `handlers` the
stack of exceptions that are being handled, `ep` the program's `exception_ptr`,
`log` history: the origins that were remembered before each object. `Remember`
is `ep = e.remember(ep)` in a handler, as the class documentation has it, and it
ends with a copy because `self()` is `make_exception_ptr(*this)`. `Describe`,
`FollowHistory`, `FollowNested` and `Count` are `to_string()`, `follow_history()`,
`follow_nested()` and its counting; a string is the sequence of its lines, with
indentation, number and the exception each line is about. The three functions
call each other, so `Text` is a recursive function from an exception to what each
of them writes for it at any level of indentation, and `Shown` is `what()`.

`remember()` "doesn't prevent loops" (`Exception.cpp:309`). `Loop` is the
condition under which it would make one: the exception that remembers can be
reached from what it is to remember. `Reach` says that without recursion: there
is no set of exceptions which has the one, lacks the other, and is closed under
links. The guard `~Loop` of `Remember` is an assumption about the program: neither
the code nor what is documented of the argument of `remember()` makes it, and in
a program that does make a loop `what()` has no string for the properties to be
about.

Not modelled: `what_`, the cache of `what()`, and two threads that share an
exception.

## The runs

| Run | Question | Bounds |
| --- | --- | --- |
| `ResourcePtr` | can any interleaving of calls that keep sources of moves private share, lose or delete twice a resource, or give it to the wrong deleter, is every step a legal transfer of ownership, can a thread wait for a mutex while it holds one, and is every mutex released and every given-up resource deleted? | 2 threads, 2 objects, 2 resources, 2 deleters |
| `ResourcePtrOrder` | are the comparisons consistent orders? | 3 objects, 3 values |
| `ResourcePtrLessOrEqual` | does `operator<=` do what its comment says? (violated) | the same |
| `Daemon` | two calls in a row, any settings, any failure: who goes on, with what, and is each call one step of `Daemonization`? | 5 processes, 1 free descriptor, 2 directories, 2 umasks, SIGHUP |
| `DaemonCloseFds` | does `close_fds()` get past `/proc/self/fd`? (violated) | one call |
| `DaemonSessionLeader` | is the daemon a session leader? (violated) | one call |
| `IniParser` | can a value that was set be forgotten by `sync()`, the mutex stay locked, or another call get in between the two halves of `sync()`? | 2 threads, 2 parsers, 1 group, 1 key, 2 values |
| `IniParserRemovals` | and a removal? (violated) | the same, 1 value |
| `FileIO` | can a call leak a descriptor, close another's, return what the file never was, be kept reading by a writer, or wait for ever? | 2 threads, 1 name, 2 inodes, 2 descriptors, files of 0 to 2 blocks |
| `DbusPath` | can two strings have one path, or a string an illegal one? | all strings of up to 3 of the 12 bytes in `MCDbusPath`, 3 bases |
| `GObjectMemory` | can moves, assignments and drops in any order unbalance references, or disconnect a handler or source twice, never, or from the wrong object? | 2 objects, 2 control blocks, 2 smart pointers, 2 connections, 2 ids, 1 assigner at a time |
| `Exceptions` | does the string of an exception show all that it leads to, and its history in order, if the program makes no loops? | 6 objects, 4 handlers inside each other |

**Why these bounds.** Two threads and two mutexes are what a deadlock of
`std::lock` needs, two resources let `reset()` replace one by the other, and two
deleters tell the right one from the wrong one. No call uses more than two objects, and the theorems below hold
for any number of everything. In `FileIO` two threads can be given each other's
descriptor, two inodes can be swapped under one name, and two blocks can be read
before and after a change; blocks of one content are enough for lengths, and that
an overwritten block is noticed is part of the theorem. The bytes of `DbusPath`
lie at the boundaries of `isalnum()`, of two digits and of the sign; with three
of them an escape has a neighbour on both sides, and `Sanitized` looks at one byte
at a time. Two calls of
`daemonize_me()` use four processes beside the first; one descriptor is enough
to have one and to have none. One group and key with two values tell a changed
entry from an unchanged one, an absent one and a removed one; two threads and
two parsers are what two `sync()`s that overlap need. Two objects with a handler
each tell the right object from the wrong one, and two connections can both
claim one handler; two control blocks let one object be shared twice, or the old
and the new object of a connection live at once. Six exceptions are a
remembered history of two, each with its copy, inside handlers with nested ones;
four handlers let one of them be rethrown where others are nested already.

**Deadlock** is checked except where the system may stop: a process that has
been terminated or has used up the bound on processes (`Daemon`), and a program
that has used up the bound on objects (`Exceptions`).

**Fairness.** `ResourcePtr` and `FileIO` assume weak fairness of what a
thread does inside a call (`Continue`). The code justifies it as far as deleters
return or throw, system calls on files and directories return, and the scheduler
runs every thread; nothing obliges a client to begin a call, a system call to
fail, or anybody to open the other end of a FIFO (`OpenFifo` is not fair, and
`CallEnds` excepts a call that waits in it). Weak fairness is all that `std::mutex` gives: two threads may starve each
other inside `std::lock`, so the property is that a locked mutex is unlocked, and
not that every call returns. `LockedInside` (`IniParser`) and `NobodyWaits`
(`Daemon`) state as invariants what would otherwise be progress: only a thread
inside a method owns the mutex, and a process inside `daemonize_me()` can always
go on by itself. So do `NoHoldAndWait` (`ResourcePtr`), which excludes a circle of
threads that wait for each other, and `CallsAdvance` (`FileIO`): no step of anybody
takes a call back or adds to the blocks that it has still to read.

### What the violated runs show

* `ResourcePtrLessOrEqual`: `operator<=` never looks at `initialized_`.
* `DaemonCloseFds`: `std::stoi(".")` throws inside a `noexcept` function.
* `DaemonSessionLeader`: `Daemon.h:44` says "The new process becomes a session
  leader without a control terminal". The process that calls `setsid()` is one, but it
  forks once more and exits; the daemon is its child. That is as it should be: a
  session leader gets a control terminal when it opens one, which
  `DaemonIsDetached`, for the other half of the sentence, excludes. The
  documentation should not promise it.
* `IniParserRemovals`: removing a group or a key does not set `dirty`.

### Seen while modelling, and not checked by a run

* `ResourcePtr.h:64` says "ResourcePtr is thread-safe", but the moves do not lock
  their source (`:254`, `:278`). When another thread calls `dealloc()` on a named
  object that is being moved from, both delete the resource: dropping the guard
  `Movable` makes TLC show it.
* `remember()` accepts an exception that leads back to the one that remembers it.
  In the handler of `e`, do a cleanup step that throws `X`, catch and remember it
  (`ep = x.remember(ep)`), and then let `e` join (`ep = e.remember(ep)`): `e` is
  nested in `X`, and `X` is now in the history of `e`. `ep` was remembered
  earlier, as the documentation of the parameter asks (`Exception.cpp:298`), and
  `e.what()` recurses until the stack is used up. To rethrow what was remembered
  and call `e.remember(ep)` once more in that handler does the same.
* `FileIO.cpp:75`: a read that is short because the file was truncated is
  reported with whatever `errno` was left from before, and since Linux copies at
  most 0x7ffff000 bytes a call, a file of 2 GiB can never be read. `FileIO.cpp:50`:
  a FIFO is refused as "not a regular file" only after `open()` has waited for a
  writer.
* `dbus_sanitized_path()` ends in `/` for an empty string, and calls `front()` of
  an empty base, which is undefined (`Dbus.cpp:46`). Where `char` is signed,
  `_%02x` yields `_ffffffc3` for the byte C3: long, but still unique.
* `MockModel.cpp` of the notification mocks: when the placeholder itself is
  dismissed, `confirmationPlaceholder` stays set and the next `add()` uses
  `m_list.at(0)` of a list that may be empty; and a confirmation that is not in
  row 0 is replaced by a placeholder with `dataChanged` for row 0.
* `DaemonImpl.cpp:118` and `:168-172` promise the strong guarantee. When the
  second fork fails, the exception is thrown in the child: it has another process
  number, session and no terminal, and its parent has exited. `RestoredOnThrow`
  is the guarantee for the attributes that are put back.
* `get_start_group()` builds a `std::string` of the null pointer that glib
  returns for a file without groups (`IniParser.cpp:281`); `IniParser.h:66`
  promises `LogicException`. Action `GetStartGroup` has the outcome.
* A `GlibAssigner` or `GObjectAssigner` that was moved from still assigns when it
  is destroyed (`GlibMemory.h:71`, `GObjectMemory.h:96`). Kept in variables, the
  moved-from one is destroyed last and replaces the result by a null pointer.
* `dealloc()`, `release()` and moves leave the deleter of a signal connection in
  place, and with it a reference to the object (`GObjectMemory.h:125`).
* The example of `Exception.h:66` remembers `make_exception_ptr(current_exception())`,
  an exception that is an `exception_ptr`: `follow_history()` does not catch it
  and `what()` returns "unknown exception".

## The proofs

All theorems hold for any values of the constants that satisfy the assumptions
named in the modules: any threads, objects, resources, files, processes, values.

`ResourcePtrProofs` proves that `TypeOK`, `OneOwner`, `NeverLost`,
`NoDoubleDelete`, `RightDeleter`, `SnapshotHeld` and `NoHoldAndWait` are invariants of `Spec`. None
of them is inductive. `IInv` is the conjunction of

* `Control` - which locks a thread holds at each `pc`, that private objects are
  used by one thread, what is alive, what `arg` is at each `pc`;
* `DataTypes` and `SnapshotHeld` - the locals still equal the fields, which is
  mutual exclusion put to use;
* `Contents` - an initialized object holds a resource;
* `Working` - what the object of a call holds at `delete`, `take` and `clear`;
* `Owned` - each resource has exactly one of the owners client, carrying thread,
  object, deleter that has run;
* `Deleters` - an object that holds a resource has the deleter that the resource
  was installed with.

`SnapshotHeld` needs `Control`: only with the mutex of `this` held by the thread
at `locked` can no other thread write its fields, and a move may write its source
without a lock only because nobody else uses it. `Owned` needs both, since
`reset()` gives `oldResource` and not `resource_` to the deleter. The proof is one
step per action, and one lemma per conjunct that an action can disturb; actions
that leave all fields alone share a lemma.

`NoHoldAndWait` is proved beside it. `MutexHeld`, a part of `Control`, says that a
thread has the mutexes of its critical section; `HeldInside` is the converse, that
it has no others but the one it has taken before it tries the second. That is
inductive with `IInv`: a step of a call locks, gives up all mutexes (`Leave`,
`BackOff`), or leaves mutexes and critical sections alone (`LocksOrGoesOn`). The
circle that a deadlock of threads needs is excluded by it for any number of them.

It also proves `OwnershipMoves`: under the map `OwnerOf` initial
states are initial states of `ResourceOwnership`, and each step is one of its
steps or leaves `owner` alone. It uses the invariant above, which says who the
owner of each resource is; the proof goes through the actions that move a
resource, with lemmas for those that put one in, take one out, or exchange two.

`ResourcePtrOrderProofs` proves the three order laws for any handles that are
totally ordered by `<` (they are integers there), whatever is left in `resource_`.

`IniParserProofs` proves `TypeOK`, `LockedInside`, `SetsAreRemembered` and
`ClearedIsSaved`. The first two are inductive together. `ClearedIsSaved` needs the
mutex: between saving and clearing no other thread can be in a body.
`SetsAreRemembered` needs in addition that what is being cleared is what was saved
(`BaseIsSaved`). `SyncIsAtomic` follows from the same invariant: a body that edits
an object has the mutex, so that nobody is between saving and clearing
(`NobodyClears`), and then `Unsaved` is what is dirty (`DirtyIsUnsaved`). Each
action is shown to be a step of `SettingsFile` or to leave its variables alone.

`DaemonProofs` proves `TypeOK`, `OneContinuation`, `DaemonIsDetached`,
`ChangedAsAsked` and `RestoredOnThrow` for any number of calls. Its invariant is
`Processes` (numbers are given out in order, and at most one process is `Active`:
all others exit, are gone or aborted) and, for the one that is, `Progress`: what
it has changed so far and what it has kept to undo it, stage by stage. `Saved` is
the heart of it: the descriptor in `old_working_dir` is the only one that was not
there before the call. A step in one process is lemma `StepTo`, which leaves the
attributes of that process at its new stage to show; `fork()` is lemma `ForkStep`,
used twice; `ExitStep` shows that the parent's end does not touch the child.

It also proves `CallsAreAtomic`, that `Daemon` implements `Daemonization`. The
invariant is `RInv`: the one above, and `Lineage`, which it does without: session,
terminal and standard files of the process that goes on are still the caller's
until `setsid()` (`Unmoved`), then it leads a session without a terminal (`Leader`),
and after the second fork the process that led is an older one. `Seen` says what
the abstract variables are for the one process that runs, so that each step needs
only its own change: `SetUpLineage`, `DetachedLineage` and `FinishLineage` are for steps that the
program does not see, and there is a lemma for each that it does (`ForkRefines`,
`UnwindRefines`, `ReopenRefines`, `TerminateRefines`, `SetRefines`, `CallRefines`).
`ExitRefines` shows that the end of a process left behind is not seen either.

`FileIOProofs` proves `TypeOK`, `DescriptorsAreHeld` and `ReturnsAVersion`. The
invariant ties the table of descriptors to calls and other code one to one, keeps
an inode that is open from being reused, and says what `buf` is while a call
reads: the beginning of `version`, of which the file is still an extension unless
the call is torn. `CallsAdvance` follows from the types: a step of one thread leaves
the calls of the others where they are (`OneAdvances`), and each system call is an
advance of its own (`StepAdvances`).

`GObjectMemoryProofs` proves `TypeOK`, `ReferencesAreOwned`, `HandlerIsConnected`
and `OneDisconnects` for any objects, finitely many smart pointers and control
blocks, and any connections and ids. They hold only together: a handler stays
connected because its connection shares the object, and it does so because a
block that somebody holds counts as a reference (`Alive` and `Counted`); the
deleter removes exactly its own handler because that belongs to the object which
it asks (`Connected`, lemma `OwnHandlerGoes`). Lemma `SettleKeeps` does the work
once for all steps that may free blocks and objects; each action then shows what
its arguments promise. `Finite` is the only place where cardinalities are counted
from sets.

`DbusPathProofs` proves `PathIsUnique` and `PathIsLegal` for strings of any length
and any `base`, whether `char` is signed or not. The invariant is that `output` is
`Prefix(base)` followed by what has been written for the first `at` characters;
`Written` says at which positions the piece for each of them begins. `Decoded` is
a recursive function over positions: that there is such a function at all, and
that it gives back the characters, is shown from the last piece to the first.
The reader finds the bounds because a piece for a character is two or eight
digits after `_`, and the first digit tells which (`SanitizedShape`).

`ExceptionsProofs` proves `TypeOK`, `HistoryIsShown` and
`StringIsComplete` for any numbers of exceptions and handlers. The invariant is

* `Acyclic` - the objects have ranks that every link lowers. Their numbers are no
  such ranks, since an old exception may remember a new one. `Remember` keeps it
  because of `~Loop`: there is a closed set with what is remembered and without
  the exception that remembers; raising the ranks of all outside that set by the
  highest rank of all leaves every old link lower, and makes the new one so;
* `Kinds` - which kinds of exception can have a link of which kind;
* `Kept` and `OneHistory` - `log` is what the links to earlier exceptions say, and
  everything in it can be reached from `ep` by these links. Therefore an exception
  that was remembered is never one that remembers again (it can be reached from
  `ep`, which `~Loop` excludes), so that its history stays as it was.

`NoLoops` says that among any exceptions one has no link to any of them. In
programs that keep to `~Loop` it follows from the ranks, and everything about
strings from it, by induction along the links (`ByLinks`). `CountIs` and `TextIs` say that the
recursive functions are what their definitions say, which is only so without
loops. `Good` is what the three functions write for an exception: whom it tells
of, and that lines with a number are deeper than a certain level, which keeps a
history inside a nested exception apart from the one it is printed in. `Told` is
the same for a remembered exception and the lines of its own level.

Induction over numbers, positions and links is done here without the induction
theorems of the library, which take an operator: the sets of what satisfies the
claim are formed, and a minimal element of what is left over is refuted (`UpTo`
from `WFMin`, and `ByLinks` from `NoLoops`).

**Only checked by TLC**: liveness (`MutexReleased`, `OwnershipIsKept` with its
deletion, `CallEnds`) and `NobodyWaits`, which is about ENABLED, are beyond the
provers. All other properties of the passing runs are theorems.

## Not modelled

* The snap path: one condition, every case of which a test reaches.
* The notification model in `src/test`: a double for QML tests. The interfaces it
  implements (`ModelInterface.h`, `SourceInterface.h`) are abstract, and their text
  leaves open what the double does with queues and placeholders.
* The launcher and application interfaces: pure virtual functions and signals of
  Qt, with no code in this repository but mocks.
* `what_` in `Exception`, written by `what()` without a lock: a data race only
  when two threads share an exception object, and then a string that is freed
  while another thread reads it.
* Macros, constants and version functions.
