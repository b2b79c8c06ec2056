--------------------------- MODULE Daemonization ---------------------------
(***************************************************************************)
(* What Daemon promises the program that calls daemonize_me(), whatever    *)
(* processes it forks on the way: the program runs in one process at a     *)
(* time, which a call may replace by a younger one, and the call turns it  *)
(* into a daemon at once, or throws and puts back what can be put back.    *)
(***************************************************************************)
EXTENDS Naturals

CONSTANTS
  Process,        \* numbers that processes get in the order of their births
  Attribute,      \* what the kernel may keep for a process
  Signal,
  Nobody,         \* no process: the program has been terminated
  None            \* a setting that was not made

VARIABLES
  settings,
  self,           \* the process that the program runs in
  now,            \* its attributes in user code, and while it calls those before
  status          \* "calling", "dead", or in user code how the last call ended

vars == <<settings, self, now, status>>

Init ==
  /\ settings = [closeFds |-> FALSE, resetSignals |-> FALSE, mask |-> None, dir |-> None]
  /\ self = 0
  /\ now \in Attribute
  /\ status = "none"

InUserCode == status \notin {"calling", "dead"}
Asked(setting, otherwise) == IF setting = None THEN otherwise ELSE setting

Set ==
  /\ InUserCode
  /\ \E s \in DOMAIN settings : settings' = [settings EXCEPT ![s] = settings'[s]]
  /\ status' = "none"
  /\ UNCHANGED <<self, now>>

Call ==
  /\ InUserCode
  /\ status' = "calling"
  /\ UNCHANGED <<settings, self, now>>

\* The program goes on in a new process, and the old one does nothing more.
Fork ==
  /\ status = "calling"
  /\ self' \in Process /\ self' > self
  /\ UNCHANGED <<settings, now, status>>

\* The call returns.  Descriptors are closed only on request.
Become ==
  /\ status = "calling" /\ status' = "daemon"
  /\ \E session \in Process \ {self, now.session}, files \in SUBSET now.files :
       /\ settings.closeFds \/ files = now.files
       /\ now' = [cwd |-> Asked(settings.dir, now.cwd), mask |-> Asked(settings.mask, now.mask),
                  signals |-> IF settings.resetSignals THEN [s \in Signal |-> "default"]
                              ELSE now.signals,
                  session |-> session, terminal |-> FALSE, files |-> files, std |-> "null"]
  /\ UNCHANGED <<settings, self>>

\* It throws.  The session that the program has joined meanwhile is not undone,
\* and neither is a chdir() when no descriptor could be had for the way back.
Throw ==
  /\ status = "calling" /\ status' \in {"threw", "threw unsaved"}
  /\ \E cwd \in {now.cwd} \cup (IF status' = "threw" THEN {} ELSE {settings.dir}) :
       \/ now' = [now EXCEPT !.cwd = cwd]
       \/ now' = [now EXCEPT !.cwd = cwd, !.session = self, !.terminal = FALSE]
  /\ UNCHANGED <<settings, self>>

\* It does neither.
Die ==
  /\ status = "calling" /\ settings.closeFds
  /\ status' = "dead" /\ self' = Nobody
  /\ UNCHANGED <<settings, now>>

Next == Set \/ Call \/ Fork \/ Become \/ Throw \/ Die

Spec == Init /\ [][Next]_vars
=============================================================================
