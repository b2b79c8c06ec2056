------------------------------- MODULE Daemon -------------------------------
(***************************************************************************)
(* lomiri::util::Daemon, src/lomiri/util/internal/DaemonImpl.cpp: turning  *)
(* the calling process into a daemon by two forks.  The processes that the *)
(* forks leave running interleave: the parent that is about to exit, and   *)
(* the child that goes on with a copy of its attributes.                   *)
(*                                                                         *)
(* A process is identified by its number; fork() takes the next one.  What *)
(* the kernel keeps for a process is a record that a fork copies.          *)
(***************************************************************************)
EXTENDS Naturals, FiniteSets

CONSTANTS
  MaxProcess,   \* bound: processes 0..MaxProcess, two more for every call
  Fd,           \* descriptors above 2 that the descriptor limit allows
  Dir,          \* directories
  Mask,         \* values of the umask
  Signal,       \* signals, SIGHUP among them
  SIGHUP,
  None          \* a setting that was not made; the descriptor -1

ASSUME DaemonAssumption ==
  /\ MaxProcess \in Nat
  /\ SIGHUP \in Signal
  /\ None \notin Fd \cup Dir \cup Mask

Process     == 0 .. MaxProcess
Disposition == {"default", "ignore", "handler"}

VARIABLES
  settings,     \* close_fds_, reset_signals_, umask_ and working_directory_
  pc,           \* where a process is: in user code, in daemonize_me(), gone
  attr,         \* the attributes the kernel keeps for each living process
  frame,        \* its locals in daemonize_me(): old_working_dir, old_umask, old_action
  outcome,      \* how the last call of daemonize_me() ended
  before        \* history: the attributes of the caller when it called

vars == <<settings, pc, attr, frame, outcome, before>>

NoFrame == [fd |-> None, dir |-> None, mask |-> None, hup |-> "default"]

Attributes ==
  [cwd : Dir, mask : Mask, signals : [Signal -> Disposition], session : Process,
   terminal : BOOLEAN, files : SUBSET Fd, std : {"open", "closed", "null"}]

Init ==
  /\ settings = [closeFds |-> FALSE, resetSignals |-> FALSE, mask |-> None, dir |-> None]
  /\ pc = [p \in Process |-> IF p = 0 THEN "user" ELSE "unborn"]
  /\ \E d \in Dir, m \in Mask, s \in [Signal -> Disposition], f \in SUBSET Fd :
       attr = [p \in {0} |->
                [cwd |-> d, mask |-> m, signals |-> s, session |-> 0, terminal |-> TRUE,
                 files |-> f, std |-> "open"]]
  /\ frame = [p \in {0} |-> NoFrame]
  /\ outcome = "none"
  /\ before = attr[0]

-----------------------------------------------------------------------------
(* User code: the setters, and the call.                                   *)

Set(p, field, value) ==
  /\ pc[p] = "user"
  /\ settings' = [settings EXCEPT ![field] = value]
  /\ outcome' = "none"
  /\ UNCHANGED <<pc, attr, frame, before>>

CloseFds(p)      == Set(p, "closeFds", TRUE)
ResetSignals(p)  == Set(p, "resetSignals", TRUE)
SetUmask(p, m)   == Set(p, "mask", m)
SetWorkingDirectory(p, d) == Set(p, "dir", d)

Goto(p, stage) == pc' = [pc EXCEPT ![p] = stage]
Change(p, a)   == attr' = [attr EXCEPT ![p] = a]

\* The bound: a call takes at most two process numbers.
NextProcess == Cardinality({p \in Process : pc[p] # "unborn"})

Call(p) ==
  /\ pc[p] = "user" /\ NextProcess + 1 <= MaxProcess
  /\ Goto(p, IF settings.dir = None THEN "fork" ELSE "save")
  /\ before' = attr[p]
  /\ outcome' = "none"
  /\ UNCHANGED <<settings, attr, frame>>

-----------------------------------------------------------------------------
(* daemonize_me()                                                          *)

\* Mutant: what open() returned is not looked at.
SaveUnchecked(p) ==
  /\ pc[p] = "save"
  /\ \E fd \in (Fd \cup {None}) \ attr[p].files :
       /\ frame' = [frame EXCEPT ![p] = [@ EXCEPT !.fd = fd, !.dir = attr[p].cwd]]
       /\ Change(p, [attr[p] EXCEPT !.files = @ \cup {fd}])
  /\ Goto(p, "chdir")
  /\ UNCHANGED <<settings, outcome, before>>

\* old_working_dir.reset(open(".", 0)), which may fail and yield -1
SaveDirectory(p) ==
  /\ pc[p] = "save"
  /\ \/ \E fd \in Fd \ attr[p].files :
          /\ frame' = [frame EXCEPT ![p] = [@ EXCEPT !.fd = fd, !.dir = attr[p].cwd]]
          /\ Change(p, [attr[p] EXCEPT !.files = @ \cup {fd}])
     \/ UNCHANGED <<frame, attr>>
  /\ Goto(p, "chdir")
  /\ UNCHANGED <<settings, outcome, before>>

Chdir(p) ==
  /\ pc[p] = "chdir"
  /\ \/ Change(p, [attr[p] EXCEPT !.cwd = settings.dir]) /\ Goto(p, "fork")
     \/ UNCHANGED attr /\ Goto(p, "throw")
  /\ UNCHANGED <<settings, frame, outcome, before>>

\* A successful fork: the parent is left to exit, the child goes on.
ForkTo(p, stage) ==
  LET c == NextProcess IN
  /\ pc' = [pc EXCEPT ![p] = "exit", ![c] = stage]
  /\ attr' = [q \in DOMAIN attr \cup {c} |-> attr[IF q = c THEN p ELSE q]]
  /\ frame' = [q \in DOMAIN frame \cup {c} |-> frame[IF q = c THEN p ELSE q]]

\* Mutant: the parent returns instead of exiting.
ForkAndReturn(p) ==
  LET c == NextProcess IN
  /\ pc[p] = "fork"
  /\ pc' = [pc EXCEPT ![p] = "user", ![c] = "detach"]
  /\ attr' = [q \in DOMAIN attr \cup {c} |-> attr[IF q = c THEN p ELSE q]]
  /\ frame' = [q \in DOMAIN frame \cup {c} |-> frame[IF q = c THEN p ELSE q]]
  /\ UNCHANGED <<settings, outcome, before>>

Fork(p) ==
  /\ pc[p] = "fork"
  /\ \/ ForkTo(p, "detach")
     \/ Goto(p, "throw") /\ UNCHANGED <<attr, frame>>
  /\ UNCHANGED <<settings, outcome, before>>

\* Mutant: the parent waits for the child that becomes the daemon.
ExitAfterChild(p) ==
  /\ pc[p] = "exit" /\ DOMAIN attr = {p}
  /\ Goto(p, "gone")
  /\ attr' = [q \in DOMAIN attr \ {p} |-> attr[q]]
  /\ frame' = [q \in DOMAIN frame \ {p} |-> frame[q]]
  /\ UNCHANGED <<settings, outcome, before>>

\* exit(EXIT_SUCCESS) runs no destructor of daemonize_me()
Exit(p) ==
  /\ pc[p] = "exit"
  /\ Goto(p, "gone")
  /\ attr' = [q \in DOMAIN attr \ {p} |-> attr[q]]
  /\ frame' = [q \in DOMAIN frame \ {p} |-> frame[q]]
  /\ UNCHANGED <<settings, outcome, before>>

\* Mutant: the standard files are closed before the last step that may fail.
DetachClosing(p) ==
  /\ pc[p] = "detach"
  /\ Change(p, [attr[p] EXCEPT !.session = p, !.terminal = FALSE, !.std = "closed",
                               !.mask = IF settings.mask = None THEN @ ELSE settings.mask,
                               !.signals[SIGHUP] = "ignore"])
  /\ frame' = [frame EXCEPT ![p] = [@ EXCEPT !.mask = attr[p].mask,
                                             !.hup = attr[p].signals[SIGHUP]]]
  /\ Goto(p, "fork again")
  /\ UNCHANGED <<settings, outcome, before>>

\* setsid(), umask(), and ignoring SIGHUP for the second fork
Detach(p) ==
  /\ pc[p] = "detach"
  /\ Change(p, [attr[p] EXCEPT !.session = p, !.terminal = FALSE,
                               !.mask = IF settings.mask = None THEN @ ELSE settings.mask,
                               !.signals[SIGHUP] = "ignore"])
  /\ frame' = [frame EXCEPT ![p] = [@ EXCEPT !.mask = attr[p].mask,
                                             !.hup = attr[p].signals[SIGHUP]]]
  /\ Goto(p, "fork again")
  /\ UNCHANGED <<settings, outcome, before>>

\* Mutant: the session leader becomes the daemon.
ForkOnce(p) ==
  /\ pc[p] = "fork again"
  /\ Goto(p, "release")
  /\ UNCHANGED <<settings, attr, frame, outcome, before>>

ForkAgain(p) ==
  /\ pc[p] = "fork again"
  /\ ForkTo(p, "release")
  /\ UNCHANGED <<settings, outcome, before>>

\* Mutant: the umask is not put back.
ForkAgainFailsMasked(p) ==
  /\ pc[p] = "fork again"
  /\ Change(p, [attr[p] EXCEPT !.signals[SIGHUP] = frame[p].hup])
  /\ Goto(p, "throw")
  /\ UNCHANGED <<settings, frame, outcome, before>>

\* The second fork fails: umask and SIGHUP are put back before throwing.
ForkAgainFails(p) ==
  /\ pc[p] = "fork again"
  /\ Change(p, [attr[p] EXCEPT
                  !.mask = IF settings.mask = None THEN @ ELSE frame[p].mask,
                  !.signals[SIGHUP] = frame[p].hup])
  /\ Goto(p, "throw")
  /\ UNCHANGED <<settings, frame, outcome, before>>

\* An exception leaves daemonize_me(): the deleter of old_working_dir goes
\* back to the directory it has a descriptor for.
Unwind(p) ==
  /\ pc[p] = "throw"
  /\ Change(p, IF frame[p].fd = None THEN attr[p]
               ELSE [attr[p] EXCEPT !.cwd = frame[p].dir, !.files = @ \ {frame[p].fd}])
  /\ frame' = [frame EXCEPT ![p] = NoFrame]
  /\ outcome' = IF settings.dir # None /\ frame[p].fd = None THEN "threw unsaved" ELSE "threw"
  /\ Goto(p, "user")
  /\ UNCHANGED <<settings, before>>

\* Mutant: the descriptor is closed by its deleter, which goes back first.
ReleaseByDeleter(p) ==
  /\ pc[p] = "release"
  /\ Change(p, [attr[p] EXCEPT !.cwd = IF frame[p].fd = None THEN @ ELSE frame[p].dir,
                               !.files = @ \ {frame[p].fd}])
  /\ frame' = [frame EXCEPT ![p] = [@ EXCEPT !.fd = None]]
  /\ Goto(p, "signals")
  /\ UNCHANGED <<settings, outcome, before>>

\* The grandchild gives the descriptor back, and is not to change directory.
Release(p) ==
  /\ pc[p] = "release"
  /\ Change(p, [attr[p] EXCEPT !.files = @ \ {frame[p].fd}])
  /\ frame' = [frame EXCEPT ![p] = [@ EXCEPT !.fd = None]]
  /\ Goto(p, "signals")
  /\ UNCHANGED <<settings, outcome, before>>

\* SIGHUP gets its disposition back, or all signals their default.
RestoreSignals(p) ==
  /\ pc[p] = "signals"
  /\ Change(p, [attr[p] EXCEPT !.signals =
                  IF settings.resetSignals THEN [s \in Signal |-> "default"]
                  ELSE [@ EXCEPT ![SIGHUP] = frame[p].hup]])
  /\ Goto(p, "close")
  /\ UNCHANGED <<settings, frame, outcome, before>>

\* close_open_files() without close_fds_, or with it when opendir() fails
CloseStandardFiles(p) ==
  /\ pc[p] = "close"
  /\ Change(p, [attr[p] EXCEPT !.std = "closed"])
  /\ Goto(p, "reopen")
  /\ UNCHANGED <<settings, frame, outcome, before>>

\* close_open_files() with close_fds_: among the names in /proc/self/fd are
\* "." and "..", for which std::stoi throws out of a noexcept function.  The
\* loop that would close the descriptors comes after it and is not reached.
Terminate(p) ==
  /\ pc[p] = "close" /\ settings.closeFds
  /\ Change(p, [attr[p] EXCEPT !.std = "closed", !.files = {}])
  /\ Goto(p, "aborted")
  /\ UNCHANGED <<settings, frame, outcome, before>>

\* open("/dev/null") and two dup() give the lowest free descriptors: 0, 1, 2
Reopen(p) ==
  /\ pc[p] = "reopen"
  /\ Change(p, [attr[p] EXCEPT !.std = "null"])
  /\ frame' = [frame EXCEPT ![p] = NoFrame]
  /\ outcome' = "daemon"
  /\ Goto(p, "user")
  /\ UNCHANGED <<settings, before>>

-----------------------------------------------------------------------------
Step(p) ==
  \/ SaveDirectory(p) \/ Chdir(p) \/ Fork(p) \/ Exit(p) \/ Detach(p)
  \/ ForkAgain(p) \/ ForkAgainFails(p) \/ Unwind(p) \/ Release(p)
  \/ RestoreSignals(p) \/ CloseStandardFiles(p) \/ Terminate(p) \/ Reopen(p)

User(p) ==
  \/ CloseFds(p) \/ ResetSignals(p) \/ Call(p)
  \/ \E m \in Mask : SetUmask(p, m)
  \/ \E d \in Dir \cup {None} : SetWorkingDirectory(p, d)

Next == \E p \in Process : Step(p) \/ User(p)

Spec == Init /\ [][Next]_vars

-----------------------------------------------------------------------------
Stages == {"unborn", "user", "save", "chdir", "fork", "exit", "gone", "detach", "fork again",
           "throw", "release", "signals", "close", "reopen", "aborted"}

Living == {p \in Process : pc[p] \notin {"unborn", "gone"}}

TypeOK ==
  /\ settings \in [closeFds : BOOLEAN, resetSignals : BOOLEAN,
                   mask : Mask \cup {None}, dir : Dir \cup {None}]
  /\ pc \in [Process -> Stages]
  /\ DOMAIN attr = Living /\ DOMAIN frame = Living
  /\ \A p \in Living :
       /\ attr[p] \in Attributes
       /\ frame[p] \in [fd : Fd \cup {None}, dir : Dir \cup {None},
                        mask : Mask \cup {None}, hup : Disposition]
  /\ outcome \in {"none", "threw", "threw unsaved", "daemon"}
  /\ before \in Attributes

\* The call is made by one process and returns, or throws, in one process:
\* the code after daemonize_me() never runs twice, in parent and child.
Running == {p \in Process : pc[p] \notin {"unborn", "exit", "gone", "aborted"}}
OneContinuation == Cardinality(Running) <= 1

Returned(p, how) == pc[p] = "user" /\ outcome \in how

\* "... without a control terminal" (Daemon.h): a daemon has left the terminal
\* and the session of its ancestor, and none that it opens becomes its control
\* terminal, since only a session leader gets one that way.
DaemonIsDetached ==
  \A p \in Process : Returned(p, {"daemon"}) =>
    /\ attr[p].session \notin {p, before.session}
    /\ ~attr[p].terminal
    /\ attr[p].std = "null"

\* "The new process becomes a session leader without a control terminal"
\* (Daemon.h): the other half, which the second fork undoes.
DaemonLeadsItsSession ==
  \A p \in Process : Returned(p, {"daemon"}) => attr[p].session = p

Or(setting, otherwise) == IF setting = None THEN otherwise ELSE setting

\* Daemon.h: whatever the caller did not ask to change is as it was before
\* the call, and what it asked to change has changed.  (What close_fds()
\* does is the subject of CloseFdsIsHonoured.)
ChangedAsAsked ==
  \A p \in Process : Returned(p, {"daemon"}) =>
    /\ attr[p].cwd = Or(settings.dir, before.cwd)
    /\ attr[p].mask = Or(settings.mask, before.mask)
    /\ attr[p].signals = IF settings.resetSignals THEN [s \in Signal |-> "default"]
                         ELSE before.signals
    /\ ~settings.closeFds => attr[p].files = before.files

\* A call that throws leaves directory, umask, signals and descriptors as
\* they were, unless no descriptor was to be had to remember the directory.
RestoredOnThrow ==
  \A p \in Process : Returned(p, {"threw", "threw unsaved"}) =>
    /\ attr[p].mask = before.mask
    /\ attr[p].signals = before.signals
    /\ attr[p].files = before.files
    /\ outcome = "threw" => attr[p].cwd = before.cwd

\* No process waits for another one, or for ever, inside daemonize_me(): each
\* can go on whatever the others do, so that every call ends.
NobodyWaits ==
  \A p \in Living : pc[p] \notin {"user", "aborted"} => ENABLED Step(p)

\* "Rather than giving up in that case, we keep going, closing as many file
\* descriptors as we can" (close_open_files()): no name in the directory
\* stops the process.
CloseFdsIsHonoured == \A p \in Process : pc[p] # "aborted"

-----------------------------------------------------------------------------
(* The program as Daemonization has it: it runs in the process that will   *)
(* go on, and what a call does is not seen before it ends.                 *)

Self   == IF Running = {} THEN None ELSE CHOOSE p \in Running : TRUE
InUser == Running # {} /\ pc[Self] = "user"
Now    == IF InUser THEN attr[Self] ELSE before
Status == IF InUser THEN outcome ELSE IF Running = {} THEN "dead" ELSE "calling"

Program == INSTANCE Daemonization WITH
             Attribute <- Attributes, Nobody <- None, self <- Self, now <- Now, status <- Status

\* Every step of the processes is one that the program may see, or none: a
\* call changes the attributes that it promises to change and no others, all
\* of them when it returns; only the session and the terminal stay changed
\* when it throws; and the processes left behind, which exit at any time,
\* change nothing.
CallsAreAtomic == Program!Spec
=============================================================================
