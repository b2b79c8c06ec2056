---------------------------- MODULE DaemonProofs ----------------------------
(***************************************************************************)
(* The safety of daemonize_me() for any number of calls, processes,        *)
(* descriptors, directories, masks and signals.                            *)
(***************************************************************************)
EXTENDS Daemon, FiniteSetTheorems, TLAPS

Born == {p \in Process : pc[p] # "unborn"}

Outcomes == {"none", "threw", "threw unsaved", "daemon"}

Settings == [closeFds : BOOLEAN, resetSignals : BOOLEAN,
             mask : Mask \cup {None}, dir : Dir \cup {None}]

\* Is p running code that matters: the user's, or daemonize_me() on the way
\* back to the user?
Active(p) == pc[p] \notin {"unborn", "exit", "gone", "aborted"}

Frames == [fd : Fd \cup {None}, dir : Dir \cup {None}, mask : Mask \cup {None}, hup : Disposition]

(* fork() numbers processes in order, one of them is active, and sessions  *)
(* are those of processes that there are or were.                          *)
Processes ==
  /\ NextProcess \in 1 .. MaxProcess + 1
  /\ Born = 0 .. NextProcess - 1
  /\ \A p, q \in Process : Active(p) /\ Active(q) => p = q
  /\ \A p \in Living : attr[p].session \in Born
  /\ before.session \in Born

\* What old_working_dir holds is the one descriptor that was not there before.
Saved(p) ==
  \/ frame[p].fd = None /\ attr[p].files = before.files
  \/ /\ frame[p].fd # None /\ frame[p].fd \notin before.files
     /\ frame[p].dir = before.cwd /\ settings.dir # None
     /\ attr[p].files = before.files \cup {frame[p].fd}

(* What has been done to the caller's attributes so far, and what can be   *)
(* undone, at each stage of the call.                                      *)
Kept(p)    == attr[p].mask = before.mask /\ attr[p].signals = before.signals
Moved(p)   == attr[p].cwd = Or(settings.dir, before.cwd)
Changed(p) == Moved(p) /\ attr[p].mask = Or(settings.mask, before.mask) /\ ~attr[p].terminal
HupIgnored(p) == /\ attr[p].signals = [before.signals EXCEPT ![SIGHUP] = "ignore"]
                 /\ frame[p].hup = before.signals[SIGHUP]
NoLeader(p)   == attr[p].session \notin {p, before.session}

AtSave(p)   == /\ settings.dir # None /\ attr[p].cwd = before.cwd /\ Kept(p)
               /\ frame[p].fd = None /\ attr[p].files = before.files
               /\ NextProcess + 1 <= MaxProcess
AtChdir(p)  == /\ settings.dir # None /\ attr[p].cwd = before.cwd /\ Kept(p) /\ Saved(p)
               /\ NextProcess + 1 <= MaxProcess
AtFork(p)   == Moved(p) /\ Kept(p) /\ Saved(p) /\ NextProcess + 1 <= MaxProcess
AtDetach(p) == Moved(p) /\ Kept(p) /\ Saved(p) /\ p # before.session /\ NextProcess <= MaxProcess
AtForkAgain(p) == /\ Changed(p) /\ HupIgnored(p) /\ Saved(p) /\ frame[p].mask = before.mask
                  /\ attr[p].session = p /\ p # before.session /\ NextProcess <= MaxProcess
AtRelease(p) == Changed(p) /\ HupIgnored(p) /\ Saved(p) /\ NoLeader(p)
AtSignals(p) == Changed(p) /\ HupIgnored(p) /\ attr[p].files = before.files /\ NoLeader(p)
AtClose(p)   == /\ Changed(p) /\ attr[p].files = before.files /\ NoLeader(p)
                /\ attr[p].signals = IF settings.resetSignals THEN [s \in Signal |-> "default"]
                                     ELSE before.signals
AtThrow(p)   == Kept(p) /\ Saved(p) /\ (settings.dir = None => attr[p].cwd = before.cwd)

Progress(p) ==
  /\ pc[p] = "user" => frame[p] = NoFrame
  /\ pc[p] = "save" => AtSave(p)
  /\ pc[p] = "chdir" => AtChdir(p)
  /\ pc[p] = "fork" => AtFork(p)
  /\ pc[p] = "detach" => AtDetach(p)
  /\ pc[p] = "fork again" => AtForkAgain(p)
  /\ pc[p] = "release" => AtRelease(p)
  /\ pc[p] = "signals" => AtSignals(p)
  /\ pc[p] \in {"close", "reopen"} => AtClose(p)
  /\ pc[p] = "throw" => AtThrow(p)

Results == DaemonIsDetached /\ ChangedAsAsked /\ RestoredOnThrow

IInv == TypeOK /\ Processes /\ (\A p \in Process : Progress(p)) /\ Results

-----------------------------------------------------------------------------
\* fork() gives out the first number that is free.
LEMMA CountsBorn ==
  ASSUME NEW n \in Nat, Born = 0 .. n - 1
  PROVE  NextProcess = n
  <1>1. Cardinality(0 .. n - 1) = n
    BY FS_Interval
  <1> QED BY <1>1 DEF NextProcess, Born

\* Nothing is said of a process that is not active.
LEMMA Idle ==
  ASSUME NEW p \in Process, ~Active(p)
  PROVE  Progress(p)
  BY DEF Active, Progress

\* A step of p that creates no process and ends none.
Local(p, stage) ==
  /\ pc' = [pc EXCEPT ![p] = stage]
  /\ DOMAIN attr' = DOMAIN attr /\ DOMAIN frame' = DOMAIN frame
  /\ \A q \in DOMAIN attr : q # p => attr'[q] = attr[q] /\ frame'[q] = frame[q]
  /\ settings' \in Settings /\ before' \in Attributes /\ before'.session \in Born
  /\ outcome' \in Outcomes
  /\ attr'[p] \in Attributes /\ frame'[p] \in Frames
  /\ attr'[p].session \in Born

LEMMA LocalStep ==
  ASSUME IInv, NEW p \in Process, Active(p), NEW stage \in Stages,
         stage \notin {"unborn", "gone"}, Local(p, stage)
  PROVE  /\ TypeOK' /\ Processes' /\ NextProcess' = NextProcess
         /\ \A q \in Process \ {p} : Progress(q)'
         /\ pc'[p] = stage
         /\ stage # "user" \/ outcome' = "none" => Results'
  <1>1. /\ \A q \in Process : pc'[q] = IF q = p THEN stage ELSE pc[q]
        /\ pc \in [Process -> Stages] /\ DOMAIN attr = Living /\ DOMAIN frame = Living
    BY DEF IInv, TypeOK, Local
  <1>2. Living' = Living /\ p \in Living /\ Born' = Born
    BY <1>1 DEF Living, Born, Active
  <1>3. TypeOK'
    BY <1>1, <1>2 DEF IInv, TypeOK, Local, Frames, Settings, Outcomes
  <1>4. NextProcess' = NextProcess
    BY <1>2 DEF NextProcess, Born
  <1>5. \A q \in Process \ {p} : ~Active(q) /\ ~Active(q)'
    BY <1>1 DEF IInv, Processes, Active
  <1>6. Processes'
    BY <1>1, <1>2, <1>4, <1>5 DEF IInv, Processes, Local
  <1>7. \A q \in Process \ {p} : Progress(q)'
    BY <1>5 DEF Active, Progress
  <1>8. ASSUME stage # "user" \/ outcome' = "none" PROVE Results'
    <2>1. outcome' = "none" \/ \A q \in Process : pc'[q] # "user"
      BY <1>1, <1>5, <1>8 DEF Active
    <2> QED BY <2>1 DEF Results, DaemonIsDetached, ChangedAsAsked, RestoredOnThrow, Returned
  <1> QED BY <1>1, <1>3, <1>4, <1>6, <1>7, <1>8

-----------------------------------------------------------------------------
(* The steps of a call.                                                    *)

\* What is known of the process that takes a step.
LEMMA Types ==
  ASSUME IInv, NEW p \in Process, Active(p)
  PROVE  /\ p \in Living /\ attr[p] \in Attributes /\ frame[p] \in Frames
         /\ p \in DOMAIN attr /\ p \in DOMAIN frame
         /\ attr[p].session \in Born /\ Progress(p)
         /\ outcome \in Outcomes
         /\ settings \in Settings
         /\ before \in Attributes /\ before.session \in Born
  BY DEF Settings, IInv, TypeOK, Processes, Living, Active, Frames, Outcomes

\* The step in terms of the new attributes and locals of p.
Becomes(p, stage, a, f) ==
  /\ pc' = [pc EXCEPT ![p] = stage]
  /\ DOMAIN attr' = DOMAIN attr /\ \A q \in DOMAIN attr : attr'[q] = IF q = p THEN a ELSE attr[q]
  /\ DOMAIN frame' = DOMAIN frame /\ \A q \in DOMAIN frame : frame'[q] = IF q = p THEN f ELSE frame[q]
  /\ UNCHANGED <<settings, before>>

\* What is left to show of such a step.
LEMMA StepTo ==
  ASSUME IInv, NEW p \in Process, Active(p), NEW stage \in Stages \ {"unborn", "gone"},
         NEW a \in Attributes, NEW f \in Frames, Becomes(p, stage, a, f), a.session \in Born,
         outcome' \in Outcomes
  PROVE  /\ attr'[p] = a /\ frame'[p] = f /\ pc'[p] = stage
         /\ NextProcess' = NextProcess /\ UNCHANGED <<settings, before>>
         /\ \A q \in Process : pc'[q] = "user" => q = p
         /\ Progress(p)' /\ (stage = "user" => Results') => IInv'
  <1>0. /\ p \in DOMAIN attr /\ p \in DOMAIN frame /\ settings \in Settings
        /\ before \in Attributes /\ before.session \in Born /\ DOMAIN frame = DOMAIN attr
    BY Types DEF IInv, TypeOK
  <1>1. attr'[p] = a /\ frame'[p] = f
    BY <1>0 DEF Becomes
  <1>2. Local(p, stage)
    BY <1>0, <1>1 DEF Becomes, Local
  <1>3. \A q \in Process \ {p} : pc'[q] = pc[q] /\ ~Active(q)
    BY DEF Becomes, IInv, TypeOK, Processes
  <1>4. \A q \in Process : pc'[q] = "user" => q = p
    BY <1>3 DEF Active
  <1>5. /\ TypeOK' /\ Processes' /\ NextProcess' = NextProcess /\ pc'[p] = stage
        /\ \A q \in Process \ {p} : Progress(q)'
        /\ stage # "user" => Results'
    BY <1>2, LocalStep
  <1>6. Progress(p)' /\ (stage = "user" => Results') => IInv'
    BY <1>5 DEF IInv
  <1> QED BY <1>1, <1>4, <1>5, <1>6 DEF Becomes

LEMMA SaveDirectoryStep ==
  ASSUME IInv, NEW p \in Process, SaveDirectory(p)
  PROVE  IInv'
  <1>1. Active(p) /\ pc[p] = "save"
    BY DEF Active, SaveDirectory
  <1>2. /\ attr[p] \in Attributes /\ frame[p] \in Frames /\ attr[p].session \in Born
        /\ outcome \in Outcomes /\ before \in Attributes
    BY <1>1, Types
  <1>3. AtSave(p)
    BY <1>1, Types DEF Progress
  <1>4. ASSUME NEW a \in Attributes, NEW f \in Frames, Becomes(p, "chdir", a, f), UNCHANGED outcome,
               a.cwd = attr[p].cwd, a.mask = attr[p].mask, a.signals = attr[p].signals,
               a.session = attr[p].session,
               \/ f.fd = None /\ a.files = attr[p].files
               \/ /\ f.fd \in Fd \ attr[p].files
                  /\ f.dir = attr[p].cwd /\ a.files = attr[p].files \cup {f.fd}
        PROVE  IInv'
    <2>1. /\ a.session \in Born /\ outcome' \in Outcomes
          /\ "chdir" \in Stages \ {"unborn", "gone"}
      BY <1>2, <1>4 DEF Stages
    <2>2. /\ attr'[p] = a /\ frame'[p] = f /\ pc'[p] = "chdir"
          /\ NextProcess' = NextProcess /\ UNCHANGED <<settings, before>>
          /\ Progress(p)' => IInv'
      BY <1>1, <1>4, <2>1, StepTo
    <2>3. AtChdir(p)'
      BY <1>3, <1>4, <2>2, DaemonAssumption DEF AtSave, AtChdir, Kept, Saved
    <2> QED BY <2>2, <2>3 DEF Progress
  <1>5. CASE UNCHANGED <<frame, attr>>
    <2>1. Becomes(p, "chdir", attr[p], frame[p])
      BY <1>1, <1>5, Types DEF Becomes, SaveDirectory, Goto, IInv, TypeOK
    <2> QED BY <1>2, <1>3, <1>4, <2>1 DEF AtSave, SaveDirectory, Attributes, Frames
  <1>6. ASSUME NEW fd \in Fd \ attr[p].files,
               frame' = [frame EXCEPT ![p] = [@ EXCEPT !.fd = fd, !.dir = attr[p].cwd]],
               Change(p, [attr[p] EXCEPT !.files = @ \cup {fd}])
        PROVE  IInv'
    <2>0. PICK a, f : /\ a = [attr[p] EXCEPT !.files = @ \cup {fd}]
                      /\ f = [frame[p] EXCEPT !.fd = fd, !.dir = attr[p].cwd]
      OBVIOUS
    <2>1. a \in Attributes /\ f \in Frames /\ a.files = attr[p].files \cup {fd}
          /\ f.fd = fd /\ f.dir = attr[p].cwd
          /\ a.cwd = attr[p].cwd /\ a.mask = attr[p].mask /\ a.signals = attr[p].signals
          /\ a.session = attr[p].session
      BY <1>2, <2>0 DEF Attributes, Frames
    <2>2. Becomes(p, "chdir", a, f)
      BY <1>1, <1>6, <2>0, Types DEF Becomes, SaveDirectory, Goto, Change
    <2> QED BY <1>4, <2>0, <2>1, <2>2 DEF SaveDirectory
  <1> QED BY <1>5, <1>6 DEF SaveDirectory

LEMMA ChdirStep ==
  ASSUME IInv, NEW p \in Process, Chdir(p)
  PROVE  IInv'
  <1>1. Active(p) /\ pc[p] = "chdir"
    BY DEF Active, Chdir
  <1>2. /\ attr[p] \in Attributes /\ frame[p] \in Frames /\ attr[p].session \in Born
        /\ outcome \in Outcomes
        /\ settings.dir \in Dir \cup {None}
        /\ {"fork", "throw"} \subseteq Stages \ {"unborn", "gone"}
    BY <1>1, Types DEF Settings, Stages
  <1>3. AtChdir(p) /\ outcome' \in Outcomes
    BY <1>1, <1>2, Types DEF Progress, Chdir
  <1>4. CASE Change(p, [attr[p] EXCEPT !.cwd = settings.dir]) /\ Goto(p, "fork")
    <2>0. PICK a, f : a = [attr[p] EXCEPT !.cwd = settings.dir] /\ f = frame[p]
      OBVIOUS
    <2>1. /\ f \in Frames /\ a \in Attributes /\ a.cwd = settings.dir /\ a.mask = attr[p].mask
          /\ a.signals = attr[p].signals /\ a.files = attr[p].files /\ a.session \in Born
      BY <1>2, <1>3, <2>0 DEF Attributes, AtChdir
    <2>2. Becomes(p, "fork", a, f)
      BY <1>1, <1>4, <2>0, Types DEF Becomes, Chdir, Goto, Change
    <2>3. /\ attr'[p] = a /\ frame'[p] = f /\ pc'[p] = "fork"
          /\ NextProcess' = NextProcess /\ UNCHANGED <<settings, before>>
          /\ Progress(p)' => IInv'
      BY <1>1, <1>2, <1>3, <2>1, <2>2, StepTo
    <2>4. AtFork(p)'
      BY <1>3, <2>0, <2>1, <2>3 DEF AtChdir, AtFork, Moved, Or, Kept, Saved
    <2> QED BY <2>3, <2>4 DEF Progress
  <1>5. CASE UNCHANGED attr /\ Goto(p, "throw")
    <2>0. PICK a, f : a = attr[p] /\ f = frame[p]
      OBVIOUS
    <2>1. Becomes(p, "throw", a, f) /\ a \in Attributes /\ f \in Frames /\ a.session \in Born
      BY <1>1, <1>2, <1>5, <2>0, Types DEF Becomes, Chdir, Goto
    <2>2. /\ attr'[p] = a /\ frame'[p] = f /\ pc'[p] = "throw"
          /\ UNCHANGED <<settings, before>> /\ (Progress(p)' => IInv')
      BY <1>1, <1>2, <1>3, <2>1, StepTo
    <2>3. AtThrow(p)'
      BY <1>3, <2>0, <2>2 DEF AtChdir, AtThrow, Kept, Saved
    <2> QED BY <2>2, <2>3 DEF Progress
  <1> QED BY <1>4, <1>5 DEF Chdir

\* The child c starts as a copy of p, which does nothing but exit.
LEMMA ForkStep ==
  ASSUME IInv, NEW p \in Process, Active(p), NEW stage \in Stages, ForkTo(p, stage),
         stage \notin {"unborn", "user", "exit", "gone", "aborted"},
         NextProcess <= MaxProcess, UNCHANGED <<settings, outcome, before>>
  PROVE  \E c \in Process \ Born :
           /\ attr'[c] = attr[p] /\ frame'[c] = frame[p] /\ pc'[c] = stage
           /\ c = NextProcess /\ NextProcess' = c + 1
           /\ Progress(c)' => IInv'
  <1>c. PICK c : c = NextProcess
    OBVIOUS
  <1>0. c \in Nat /\ Born = 0 .. c - 1 /\ c \in 0 .. MaxProcess
    BY <1>c, DaemonAssumption DEF IInv, Processes
  <1>1. c \in Process \ Born /\ p \in Born /\ pc[c] = "unborn" /\ c # p
    BY <1>0 DEF Process, Born, Active
  <1>2. \A q \in Process : pc'[q] = IF q = c THEN stage ELSE IF q = p THEN "exit" ELSE pc[q]
    BY <1>c, <1>1 DEF ForkTo, IInv, TypeOK
  <1>3. Born' = Born \cup {c} /\ Born' = 0 .. c
    <2>1. Born' = Born \cup {c}
      BY <1>1, <1>2 DEF Born, Active
    <2>2. 0 .. c = (0 .. c - 1) \cup {c}
      BY <1>0
    <2> QED BY <1>0, <2>1, <2>2
  <1>4. NextProcess' = c + 1
    <2>1. Cardinality(0 .. c) = c + 1
      BY <1>0, FS_Interval
    <2> QED BY <1>3, <2>1 DEF NextProcess, Born
  <1>5. /\ Living' = Living \cup {c} /\ p \in Living /\ c \notin Living
        /\ DOMAIN attr = Living /\ DOMAIN frame = Living
    BY <1>1, <1>2, ZenonT(40) DEF Living, Active, IInv, TypeOK
  <1>6. /\ DOMAIN attr' = Living' /\ DOMAIN frame' = Living'
        /\ attr'[c] = attr[p] /\ frame'[c] = frame[p]
        /\ \A q \in Living : attr'[q] = attr[q] /\ frame'[q] = frame[q]
    BY <1>c, <1>5 DEF ForkTo
  <1>7. TypeOK'
    BY <1>c, <1>1, <1>5, <1>6 DEF IInv, TypeOK, ForkTo, Stages
  <1>8. \A q \in Process : Active(q)' => q = c
    BY <1>2 DEF IInv, Processes, Active
  <1>9. Processes'
    <2>1. NextProcess' \in 1 .. MaxProcess + 1 /\ Born' = 0 .. NextProcess' - 1
      BY <1>0, <1>3, <1>4, DaemonAssumption
    <2>2. ASSUME NEW q \in Living' PROVE attr'[q].session \in Born'
      BY <1>3, <1>5, <1>6 DEF IInv, Processes
    <2>3. before'.session \in Born'
      BY <1>3 DEF IInv, Processes
    <2> QED BY <1>8, <2>1, <2>2, <2>3 DEF Processes
  <1>10. \A q \in Process : q # c => Progress(q)'
    BY <1>8 DEF Active, Progress
  <1>11. Results'
    <2>1. \A q \in Process : pc'[q] # "user"
      BY <1>2, <1>8 DEF Active
    <2> QED BY <2>1 DEF Results, DaemonIsDetached, ChangedAsAsked, RestoredOnThrow, Returned
  <1>12. Progress(c)' => IInv'
    BY <1>7, <1>9, <1>10, <1>11 DEF IInv
  <1> QED BY <1>c, <1>1, <1>2, <1>4, <1>6, <1>12

LEMMA ForkOnceStep ==
  ASSUME IInv, NEW p \in Process, Fork(p)
  PROVE  IInv'
  <1>1. Active(p) /\ pc[p] = "fork"
    BY DEF Active, Fork
  <1>2. /\ attr[p] \in Attributes /\ frame[p] \in Frames /\ attr[p].session \in Born
        /\ outcome \in Outcomes
        /\ AtFork(p) /\ UNCHANGED <<settings, outcome, before>>
        /\ outcome' \in Outcomes /\ {"throw"} \subseteq Stages \ {"unborn", "gone"}
    BY <1>1, Types DEF Progress, Fork, Stages
  <1>3. CASE ForkTo(p, "detach")
    <2>1. PICK c \in Process \ Born :
            /\ attr'[c] = attr[p] /\ frame'[c] = frame[p] /\ pc'[c] = "detach"
            /\ c = NextProcess /\ NextProcess' = c + 1 /\ (Progress(c)' => IInv')
      <3>1. NextProcess <= MaxProcess
        <4>1. NextProcess \in Int /\ MaxProcess \in Int
          BY DaemonAssumption DEF IInv, Processes
        <4> QED BY <1>2, <4>1 DEF AtFork
      <3> QED BY <1>1, <1>2, <1>3, <3>1, ForkStep DEF Stages
    <2>2. AtDetach(c)'
      BY <1>2, <2>1, DaemonAssumption DEF AtFork, IInv, Processes, AtDetach, Moved, Or, Kept, Saved
    <2> QED BY <2>1, <2>2 DEF Progress
  <1>4. CASE Goto(p, "throw") /\ UNCHANGED <<attr, frame>>
    <2>0. PICK a, f : a = attr[p] /\ f = frame[p]
      OBVIOUS
    <2>1. Becomes(p, "throw", a, f) /\ a \in Attributes /\ f \in Frames /\ a.session \in Born
      BY <1>1, <1>2, <1>4, <2>0, Types DEF Becomes, Goto
    <2>2. /\ attr'[p] = a /\ frame'[p] = f /\ pc'[p] = "throw"
          /\ UNCHANGED <<settings, before>> /\ (Progress(p)' => IInv')
      BY <1>1, <1>2, <2>1, StepTo
    <2>3. AtThrow(p)'
      BY <1>2, <2>0, <2>2 DEF AtFork, AtThrow, Moved, Or, Kept, Saved
    <2> QED BY <2>2, <2>3 DEF Progress
  <1> QED BY <1>3, <1>4 DEF Fork

\* What a step of p by StepTo needs to know before it looks at its stage.
Known(p) ==
  /\ attr[p] \in Attributes /\ frame[p] \in Frames /\ attr[p].session \in Born
  /\ settings \in Settings /\ before \in Attributes /\ before.session \in Born
  /\ outcome \in Outcomes /\ p \in DOMAIN attr /\ p \in DOMAIN frame

LEMMA KnownOfActive ==
  ASSUME IInv, NEW p \in Process, Active(p)
  PROVE  Known(p) /\ Progress(p)
  BY Types DEF Known

LEMMA DetachStep ==
  ASSUME IInv, NEW p \in Process, Detach(p)
  PROVE  IInv'
  <1>1. Active(p) /\ pc[p] = "detach" /\ p \in Born /\ "fork again" \in Stages \ {"unborn", "gone"}
    BY DEF Active, Detach, Born, Stages
  <1>2. Known(p) /\ AtDetach(p) /\ outcome' \in Outcomes
    BY <1>1, KnownOfActive DEF Known, Progress, Detach
  <1>3. PICK a, f : /\ a = [attr[p] EXCEPT !.session = p, !.terminal = FALSE,
                                !.mask = IF settings.mask = None THEN @ ELSE settings.mask,
                                !.signals[SIGHUP] = "ignore"]
                    /\ f = [frame[p] EXCEPT !.mask = attr[p].mask, !.hup = attr[p].signals[SIGHUP]]
    OBVIOUS
  <1>4. /\ a \in Attributes /\ a.session = p /\ ~a.terminal /\ a.cwd = attr[p].cwd
        /\ a.mask = Or(settings.mask, attr[p].mask) /\ a.files = attr[p].files
        /\ a.signals = [attr[p].signals EXCEPT ![SIGHUP] = "ignore"]
    BY <1>2, <1>3, DaemonAssumption DEF Known, Attributes, Settings, Or, Disposition
  <1>5. /\ f \in Frames /\ f.mask = attr[p].mask /\ f.hup = attr[p].signals[SIGHUP]
        /\ f.fd = frame[p].fd /\ f.dir = frame[p].dir
    BY <1>2, <1>3, DaemonAssumption DEF Known, Attributes, Frames
  <1>6. Becomes(p, "fork again", a, f)
    BY <1>2, <1>3 DEF Becomes, Detach, Goto, Change, Known
  <1>7. /\ attr'[p] = a /\ frame'[p] = f /\ pc'[p] = "fork again" /\ NextProcess' = NextProcess
        /\ UNCHANGED <<settings, before>> /\ (Progress(p)' => IInv')
    <2>1. a \in Attributes /\ f \in Frames /\ a.session \in Born
      BY <1>1, <1>4, <1>5
    <2> QED BY <1>1, <1>2, <1>6, <2>1, StepTo
  <1>8. AtForkAgain(p)'
    BY <1>2, <1>4, <1>5, <1>7, ZenonT(40) DEF AtDetach, AtForkAgain, Changed, Moved, HupIgnored, Saved, Kept, Or
  <1> QED BY <1>7, <1>8 DEF Progress

LEMMA ForkAgainStep ==
  ASSUME IInv, NEW p \in Process, ForkAgain(p)
  PROVE  IInv'
  <1>1. Active(p) /\ pc[p] = "fork again" /\ p \in Born /\ "release" \in Stages
    BY DEF Active, ForkAgain, Born, Stages
  <1>2. AtForkAgain(p) /\ UNCHANGED <<settings, outcome, before>> /\ ForkTo(p, "release")
    BY <1>1, KnownOfActive DEF Progress, ForkAgain
  <1>3. PICK c \in Process \ Born :
          /\ attr'[c] = attr[p] /\ frame'[c] = frame[p] /\ pc'[c] = "release"
          /\ Progress(c)' => IInv'
    <2>1. NextProcess <= MaxProcess
      BY <1>2 DEF AtForkAgain
    <2> QED BY <1>1, <1>2, <2>1, ForkStep
  <1>4. c # p
    BY <1>1
  <1>5. AtRelease(c)'
    BY <1>2, <1>3, <1>4 DEF AtForkAgain, AtRelease, Changed, Moved, HupIgnored, Saved, NoLeader, Or
  <1> QED BY <1>3, <1>5 DEF Progress

LEMMA ForkAgainFailsStep ==
  ASSUME IInv, NEW p \in Process, ForkAgainFails(p)
  PROVE  IInv'
  <1>1. Active(p) /\ pc[p] = "fork again" /\ "throw" \in Stages \ {"unborn", "gone"}
    BY DEF Active, ForkAgainFails, Stages
  <1>2. Known(p) /\ AtForkAgain(p) /\ outcome' \in Outcomes
    BY <1>1, KnownOfActive DEF Known, Progress, ForkAgainFails
  <1>3. PICK a, f : /\ a = [attr[p] EXCEPT
                               !.mask = IF settings.mask = None THEN @ ELSE frame[p].mask,
                               !.signals[SIGHUP] = frame[p].hup]
                    /\ f = frame[p]
    OBVIOUS
  <1>4. /\ a.mask = before.mask /\ a.cwd = attr[p].cwd /\ a.files = attr[p].files
        /\ a.session = attr[p].session
        /\ a.signals = [attr[p].signals EXCEPT ![SIGHUP] = before.signals[SIGHUP]]
    <2>1. a.mask = IF settings.mask = None THEN attr[p].mask ELSE frame[p].mask
      BY <1>2, <1>3 DEF Known, Attributes
    <2>2. a.mask = before.mask
      BY <1>2, <2>1 DEF AtForkAgain, Changed, Or
    <2>3. frame[p].hup = before.signals[SIGHUP]
      BY <1>2 DEF AtForkAgain, HupIgnored
    <2> QED BY <1>2, <1>3, <2>2, <2>3 DEF Known, Attributes
  <1>5. a.signals = before.signals
    BY <1>2, <1>4 DEF AtForkAgain, Known, Attributes, HupIgnored
  <1>6. a \in Attributes
    BY <1>2, <1>3, <1>4, <1>5 DEF Known, Attributes
  <1>7. Becomes(p, "throw", a, f)
    BY <1>2, <1>3 DEF Becomes, ForkAgainFails, Goto, Change, Known
  <1>8. a.session \in Born /\ f \in Frames
    BY <1>2, <1>3, <1>4 DEF Known
  <1>9. /\ attr'[p] = a /\ frame'[p] = f /\ pc'[p] = "throw"
        /\ UNCHANGED <<settings, before>> /\ (Progress(p)' => IInv')
    BY <1>1, <1>2, <1>6, <1>7, <1>8, StepTo
  <1>10. AtThrow(p)'
    BY <1>2, <1>3, <1>4, <1>5, <1>9 DEF AtForkAgain, AtThrow, Changed, Moved, Or, Kept, Saved
  <1> QED BY <1>9, <1>10 DEF Progress

LEMMA UnwindStep ==
  ASSUME IInv, NEW p \in Process, Unwind(p)
  PROVE  IInv'
  <1>1. Active(p) /\ pc[p] = "throw" /\ "user" \in Stages \ {"unborn", "gone"}
    BY DEF Active, Unwind, Stages
  <1>2. Known(p) /\ AtThrow(p) /\ outcome' \in {"threw", "threw unsaved"}
    BY <1>1, KnownOfActive DEF Progress, Unwind
  <1>3. PICK a, f : /\ a = IF frame[p].fd = None THEN attr[p]
                          ELSE [attr[p] EXCEPT !.cwd = frame[p].dir, !.files = @ \ {frame[p].fd}]
                    /\ f = NoFrame
    OBVIOUS
  <1>4. a \in Attributes
    <2>1. frame[p].fd # None => frame[p].dir \in Dir
      BY <1>2 DEF AtThrow, Saved, Known, Attributes
    <2> QED BY <1>2, <1>3, <2>1 DEF Known, Attributes
  <1>5. /\ a.mask = before.mask /\ a.signals = before.signals /\ a.session = attr[p].session
        /\ a.files = before.files /\ (frame[p].fd # None => a.cwd = before.cwd)
        /\ (frame[p].fd = None => a = attr[p])
    BY <1>2, <1>3, ZenonT(40) DEF AtThrow, Kept, Saved, Known, Attributes
  <1>6. f \in Frames /\ a.session \in Born /\ outcome' \in Outcomes
    BY <1>2, <1>3, <1>5 DEF Known, Frames, NoFrame, Disposition, Outcomes
  <1>7. Becomes(p, "user", a, f)
    BY <1>2, <1>3 DEF Becomes, Unwind, Goto, Change, Known
  <1>8. /\ attr'[p] = a /\ frame'[p] = f /\ pc'[p] = "user" /\ UNCHANGED <<settings, before>>
        /\ \A q \in Process : pc'[q] = "user" => q = p
        /\ Progress(p)' /\ Results' => IInv'
    BY <1>1, <1>4, <1>6, <1>7, StepTo
  <1>9. Progress(p)'
    BY <1>3, <1>8 DEF Progress, NoFrame
  <1>10. outcome' = "threw" => a.cwd = before.cwd
    BY <1>2, <1>5 DEF Unwind, AtThrow, Saved
  <1>11. Results'
    <2>1. ~\E q \in Process : Returned(q, {"daemon"})'
      BY <1>2 DEF Returned
    <2>2. RestoredOnThrow'
      BY <1>5, <1>8, <1>10 DEF RestoredOnThrow, Returned
    <2> QED BY <2>1, <2>2 DEF Results, DaemonIsDetached, ChangedAsAsked
  <1> QED BY <1>8, <1>9, <1>11

LEMMA ReleaseStep ==
  ASSUME IInv, NEW p \in Process, Release(p)
  PROVE  IInv'
  <1>1. Active(p) /\ pc[p] = "release" /\ "signals" \in Stages \ {"unborn", "gone"}
    BY DEF Active, Release, Stages
  <1>2. Known(p) /\ AtRelease(p) /\ outcome' \in Outcomes
    BY <1>1, KnownOfActive DEF Known, Progress, Release
  <1>3. PICK a, f : /\ a = [attr[p] EXCEPT !.files = @ \ {frame[p].fd}]
                    /\ f = [frame[p] EXCEPT !.fd = None]
    OBVIOUS
  <1>4. a.files = before.files
    <2>1. attr[p].files \subseteq Fd /\ before.files \subseteq Fd
      BY <1>2 DEF Known, Attributes
    <2>2. attr[p].files \ {frame[p].fd} = before.files
      BY <1>2, <2>1, DaemonAssumption DEF AtRelease, Saved
    <2> QED BY <1>2, <1>3, <2>2 DEF Known, Attributes
  <1>5. /\ a \in Attributes /\ f \in Frames /\ a.session = attr[p].session /\ a.cwd = attr[p].cwd
        /\ a.mask = attr[p].mask /\ a.terminal = attr[p].terminal
        /\ a.signals = attr[p].signals /\ f.hup = frame[p].hup
    BY <1>2, <1>3 DEF Known, Attributes, Frames
  <1>6. Becomes(p, "signals", a, f)
    BY <1>2, <1>3 DEF Becomes, Release, Goto, Change, Known
  <1>7. /\ attr'[p] = a /\ frame'[p] = f /\ pc'[p] = "signals"
        /\ UNCHANGED <<settings, before>> /\ (Progress(p)' => IInv')
    BY <1>1, <1>2, <1>5, <1>6, StepTo DEF Known
  <1>8. AtSignals(p)'
    BY <1>2, <1>4, <1>5, <1>7
    DEF AtRelease, AtSignals, Changed, Moved, Or, HupIgnored, NoLeader
  <1> QED BY <1>7, <1>8 DEF Progress

LEMMA RestoreSignalsStep ==
  ASSUME IInv, NEW p \in Process, RestoreSignals(p)
  PROVE  IInv'
  <1>1. Active(p) /\ pc[p] = "signals" /\ "close" \in Stages \ {"unborn", "gone"}
    BY DEF Active, RestoreSignals, Stages
  <1>2. Known(p) /\ AtSignals(p) /\ outcome' \in Outcomes
    BY <1>1, KnownOfActive DEF Known, Progress, RestoreSignals
  <1>3. PICK a, f : /\ a = [attr[p] EXCEPT !.signals =
                              IF settings.resetSignals THEN [s \in Signal |-> "default"]
                              ELSE [@ EXCEPT ![SIGHUP] = frame[p].hup]]
                    /\ f = frame[p]
    OBVIOUS
  <1>4. a.signals = IF settings.resetSignals THEN [s \in Signal |-> "default"] ELSE before.signals
    <2>1. [attr[p].signals EXCEPT ![SIGHUP] = frame[p].hup] = before.signals
      BY <1>2 DEF AtSignals, HupIgnored, Known, Attributes
    <2> QED BY <1>2, <1>3, <2>1 DEF Known, Attributes
  <1>5. /\ a \in Attributes /\ f \in Frames /\ a.session = attr[p].session /\ a.cwd = attr[p].cwd
        /\ a.mask = attr[p].mask /\ a.terminal = attr[p].terminal /\ a.files = attr[p].files
    <2>1. a.signals \in [Signal -> Disposition]
      BY <1>2, <1>4 DEF Known, Attributes, Disposition
    <2> QED BY <1>2, <1>3, <2>1 DEF Known, Attributes
  <1>6. Becomes(p, "close", a, f)
    BY <1>2, <1>3 DEF Becomes, RestoreSignals, Goto, Change, Known
  <1>7. /\ attr'[p] = a /\ pc'[p] = "close"
        /\ UNCHANGED <<settings, before>> /\ (Progress(p)' => IInv')
    BY <1>1, <1>2, <1>5, <1>6, StepTo DEF Known
  <1>8. AtClose(p)'
    BY <1>2, <1>4, <1>5, <1>7 DEF AtSignals, AtClose, Changed, Moved, Or, NoLeader
  <1> QED BY <1>7, <1>8 DEF Progress

LEMMA CloseStandardFilesStep ==
  ASSUME IInv, NEW p \in Process, CloseStandardFiles(p)
  PROVE  IInv'
  <1>1. Active(p) /\ pc[p] = "close" /\ "reopen" \in Stages \ {"unborn", "gone"}
    BY DEF Active, CloseStandardFiles, Stages
  <1>2. Known(p) /\ AtClose(p) /\ outcome' \in Outcomes
    BY <1>1, KnownOfActive DEF Known, Progress, CloseStandardFiles
  <1>3. PICK a, f : a = [attr[p] EXCEPT !.std = "closed"] /\ f = frame[p]
    OBVIOUS
  <1>4. /\ a \in Attributes /\ f \in Frames /\ a.session = attr[p].session /\ a.cwd = attr[p].cwd
        /\ a.mask = attr[p].mask /\ a.terminal = attr[p].terminal /\ a.files = attr[p].files
        /\ a.signals = attr[p].signals
    BY <1>2, <1>3 DEF Known, Attributes
  <1>5. Becomes(p, "reopen", a, f)
    BY <1>2, <1>3 DEF Becomes, CloseStandardFiles, Goto, Change, Known
  <1>6. /\ attr'[p] = a /\ pc'[p] = "reopen"
        /\ UNCHANGED <<settings, before>> /\ (Progress(p)' => IInv')
    BY <1>1, <1>2, <1>4, <1>5, StepTo DEF Known
  <1>7. AtClose(p)'
    BY <1>2, <1>4, <1>6 DEF AtClose, Changed, Moved, Or, NoLeader
  <1> QED BY <1>6, <1>7 DEF Progress

LEMMA TerminateStep ==
  ASSUME IInv, NEW p \in Process, Terminate(p)
  PROVE  IInv'
  <1>1. Active(p) /\ "aborted" \in Stages \ {"unborn", "gone"}
    BY DEF Active, Terminate, Stages
  <1>2. Known(p) /\ outcome' \in Outcomes
    BY <1>1, KnownOfActive DEF Known, Terminate
  <1>3. PICK a, f : a = [attr[p] EXCEPT !.std = "closed", !.files = {}] /\ f = frame[p]
    OBVIOUS
  <1>4. a \in Attributes /\ f \in Frames /\ a.session \in Born
    BY <1>2, <1>3 DEF Known, Attributes
  <1>5. Becomes(p, "aborted", a, f)
    BY <1>2, <1>3 DEF Becomes, Terminate, Goto, Change, Known
  <1>6. pc'[p] = "aborted" /\ (Progress(p)' => IInv')
    BY <1>1, <1>2, <1>4, <1>5, StepTo DEF Known
  <1> QED BY <1>6 DEF Progress

LEMMA ReopenStep ==
  ASSUME IInv, NEW p \in Process, Reopen(p)
  PROVE  IInv'
  <1>1. Active(p) /\ pc[p] = "reopen" /\ "user" \in Stages \ {"unborn", "gone"}
    BY DEF Active, Reopen, Stages
  <1>2. Known(p) /\ AtClose(p) /\ outcome' = "daemon" /\ outcome' \in Outcomes
    BY <1>1, KnownOfActive DEF Progress, Reopen, Outcomes
  <1>3. PICK a, f : a = [attr[p] EXCEPT !.std = "null"] /\ f = NoFrame
    OBVIOUS
  <1>4. /\ a \in Attributes /\ a.session = attr[p].session /\ a.cwd = attr[p].cwd
        /\ a.mask = attr[p].mask /\ a.terminal = attr[p].terminal /\ a.files = attr[p].files
        /\ a.signals = attr[p].signals /\ a.std = "null"
    BY <1>2, <1>3 DEF Known, Attributes
  <1>5. f \in Frames /\ a.session \in Born
    BY <1>2, <1>3, <1>4 DEF Known, Frames, NoFrame, Disposition
  <1>6. Becomes(p, "user", a, f)
    BY <1>2, <1>3 DEF Becomes, Reopen, Goto, Change, Known
  <1>7. /\ attr'[p] = a /\ frame'[p] = f /\ pc'[p] = "user" /\ UNCHANGED <<settings, before>>
        /\ \A q \in Process : pc'[q] = "user" => q = p
        /\ Progress(p)' /\ Results' => IInv'
    BY <1>1, <1>2, <1>4, <1>5, <1>6, StepTo
  <1>8. Progress(p)'
    BY <1>3, <1>7 DEF Progress, NoFrame
  <1>9. Results'
    <2>1. ~\E q \in Process : Returned(q, {"threw", "threw unsaved"})'
      BY <1>2 DEF Returned
    <2>2. DaemonIsDetached'
      BY <1>2, <1>4, <1>7 DEF DaemonIsDetached, Returned, AtClose, Changed, NoLeader
    <2>3. ChangedAsAsked'
      BY <1>2, <1>4, <1>7 DEF ChangedAsAsked, Returned, AtClose, Changed, Moved, Or
    <2> QED BY <2>1, <2>2, <2>3 DEF Results, RestoredOnThrow
  <1> QED BY <1>7, <1>8, <1>9

\* A process that ends changes nothing for the one that goes on.
LEMMA ExitStep ==
  ASSUME IInv, NEW p \in Process, Exit(p)
  PROVE  IInv'
  <1>1. /\ \A q \in Process : pc'[q] = IF q = p THEN "gone" ELSE pc[q]
        /\ pc[p] = "exit" /\ p \in Living /\ DOMAIN attr = Living /\ DOMAIN frame = Living
        /\ UNCHANGED <<settings, outcome, before>>
    BY DEF Exit, Goto, IInv, TypeOK, Living
  <1>2. Living' = Living \ {p} /\ Born' = Born
    BY <1>1 DEF Living, Born
  <1>3. /\ DOMAIN attr' = Living' /\ DOMAIN frame' = Living'
        /\ \A q \in Living' : attr'[q] = attr[q] /\ frame'[q] = frame[q]
    BY <1>1, <1>2 DEF Exit
  <1>4. TypeOK'
    <2>1. pc' \in [Process -> Stages]
      BY DEF Exit, Goto, IInv, TypeOK, Stages
    <2> QED BY <1>1, <1>2, <1>3, <2>1 DEF IInv, TypeOK
  <1>5. NextProcess' = NextProcess
    BY <1>2 DEF NextProcess, Born
  <1>6. \A q \in Process : Active(q)' <=> Active(q)
    BY <1>1 DEF Active
  <1>7. Processes'
    BY <1>1, <1>2, <1>3, <1>5, <1>6 DEF IInv, Processes
  <1>8. ASSUME NEW q \in Process PROVE Progress(q)'
    <2>1. CASE ~Active(q)
      <3>1. ~Active(q)'
        BY <1>6, <2>1
      <3> QED BY <3>1 DEF Active, Progress
    <2>2. CASE Active(q)
      <3>1. pc'[q] = pc[q] /\ q \in Living' /\ attr'[q] = attr[q] /\ frame'[q] = frame[q]
        BY <1>1, <1>2, <1>3, <2>2 DEF Active, Living
      <3>2. Progress(q) /\ UNCHANGED <<settings, before>>
        BY <1>1 DEF IInv
      <3> QED BY <1>5, <3>1, <3>2, ZenonT(40)
          DEF Progress, AtSave, AtChdir, AtFork, AtDetach, AtForkAgain, AtRelease, AtSignals,
              AtClose, AtThrow, Kept, Moved, Changed, HupIgnored, NoLeader, Saved, Or
    <2> QED BY <2>1, <2>2
  <1>9. Results'
    <2>1. ASSUME NEW q \in Process, pc'[q] = "user"
          PROVE  pc[q] = "user" /\ attr'[q] = attr[q]
      BY <1>1, <1>3, <2>1 DEF Living
    <2>2. DaemonIsDetached'
      BY <1>1, <2>1 DEF IInv, Results, DaemonIsDetached, Returned
    <2>3. ChangedAsAsked'
      <3>1. ASSUME NEW q \in Process, Returned(q, {"daemon"})'
            PROVE  Returned(q, {"daemon"}) /\ attr'[q] = attr[q]
        BY <1>1, <2>1, <3>1 DEF Returned
      <3> QED BY <1>1, <3>1 DEF IInv, Results, ChangedAsAsked, Or
    <2>4. RestoredOnThrow'
      <3>1. ASSUME NEW q \in Process, Returned(q, {"threw", "threw unsaved"})'
            PROVE  Returned(q, {"threw", "threw unsaved"}) /\ attr'[q] = attr[q]
        BY <1>1, <2>1, <3>1 DEF Returned
      <3> QED BY <1>1, <3>1 DEF IInv, Results, RestoredOnThrow
    <2> QED BY <2>2, <2>3, <2>4 DEF Results
  <1> QED BY <1>4, <1>7, <1>8, <1>9 DEF IInv

LEMMA SetStep ==
  ASSUME IInv, NEW p \in Process, NEW field, NEW value, Set(p, field, value),
         [settings EXCEPT ![field] = value] \in Settings
  PROVE  IInv'
  <1>1. Active(p) /\ pc[p] = "user" /\ "user" \in Stages
    BY DEF Active, Set, Stages
  <1>2. Known(p) /\ Progress(p) /\ outcome' = "none"
    BY <1>1, KnownOfActive DEF Set
  <1>3. Local(p, "user")
    <2>1. pc' = [pc EXCEPT ![p] = "user"]
      BY <1>1 DEF Set, IInv, TypeOK
    <2> QED BY <1>2, <2>1 DEF Local, Known, Set, Outcomes
  <1>4. TypeOK' /\ Processes' /\ (\A q \in Process \ {p} : Progress(q)') /\ Results' /\ pc'[p] = "user"
    BY <1>1, <1>2, <1>3, LocalStep
  <1>5. Progress(p)'
    BY <1>1, <1>2, <1>4 DEF Progress, Set, NoFrame
  <1> QED BY <1>4, <1>5 DEF IInv

LEMMA CallStep ==
  ASSUME IInv, NEW p \in Process, Call(p)
  PROVE  IInv'
  <1>1. Active(p) /\ pc[p] = "user" /\ {"fork", "save"} \subseteq Stages \ {"user", "unborn", "gone"}
    BY DEF Active, Call, Stages
  <1>2. Known(p) /\ frame[p] = NoFrame /\ UNCHANGED <<settings, attr, frame>>
    BY <1>1, KnownOfActive DEF Progress, Call
  <1>3. PICK stage \in {"fork", "save"} : stage = IF settings.dir = None THEN "fork" ELSE "save"
    OBVIOUS
  <1>4. Local(p, stage)
    BY <1>2, <1>3 DEF Local, Known, Call, Goto, Outcomes
  <1>5. /\ TypeOK' /\ Processes' /\ (\A q \in Process \ {p} : Progress(q)') /\ Results'
        /\ pc'[p] = stage /\ NextProcess' = NextProcess
    BY <1>1, <1>4, LocalStep
  <1>6. /\ settings.dir = None => AtFork(p)'
        /\ settings.dir # None => AtSave(p)'
    BY <1>2, <1>5 DEF Call, AtFork, AtSave, Moved, Or, Kept, Saved, NoFrame
  <1>7. Progress(p)'
    BY <1>3, <1>5, <1>6 DEF Progress
  <1> QED BY <1>5, <1>7 DEF IInv

-----------------------------------------------------------------------------
LEMMA InitIInv == Init => IInv
  <1> SUFFICES ASSUME Init PROVE IInv
    OBVIOUS
  <1>1. /\ 0 \in Process /\ \A q \in Process : pc[q] = IF q = 0 THEN "user" ELSE "unborn"
        /\ pc \in [Process -> Stages]
    BY DaemonAssumption DEF Init, Process, Stages
  <1>2. Living = {0} /\ Born = {0}
    BY <1>1 DEF Living, Born
  <1>3. NextProcess = 1
    <2>1. Born = 0 .. 1 - 1
      BY <1>2
    <2> QED BY <2>1, CountsBorn
  <1>4. attr[0] \in Attributes /\ before = attr[0] /\ attr[0].session = 0 /\ frame[0] = NoFrame
        /\ DOMAIN attr = {0} /\ DOMAIN frame = {0}
    BY <1>1 DEF Init, Attributes, Disposition
  <1>5. TypeOK
    BY <1>1, <1>2, <1>4 DEF Init, TypeOK, NoFrame, Disposition
  <1>6. Processes
    BY <1>1, <1>2, <1>3, <1>4, DaemonAssumption DEF Processes, Active
  <1>7. ASSUME NEW p \in Process PROVE Progress(p)
    BY <1>1, <1>4 DEF Progress
  <1>8. Results
    BY DEF Init, Results, DaemonIsDetached, ChangedAsAsked, RestoredOnThrow, Returned
  <1> QED BY <1>5, <1>6, <1>7, <1>8 DEF IInv

LEMMA NextIInv == IInv /\ [Next]_vars => IInv'
  <1> SUFFICES ASSUME IInv, [Next]_vars PROVE IInv'
    OBVIOUS
  <1>1. ASSUME NEW p \in Process, Step(p) PROVE IInv'
    BY <1>1, SaveDirectoryStep, ChdirStep, ForkOnceStep, ExitStep, DetachStep, ForkAgainStep,
       ForkAgainFailsStep, UnwindStep, ReleaseStep, RestoreSignalsStep, CloseStandardFilesStep,
       TerminateStep, ReopenStep DEF Step
  <1>2. ASSUME NEW p \in Process, User(p) PROVE IInv'
    <2>1. settings \in Settings
      BY DEF IInv, TypeOK, Settings
    <2>2. /\ [settings EXCEPT !["closeFds"] = TRUE] \in Settings
          /\ [settings EXCEPT !["resetSignals"] = TRUE] \in Settings
          /\ \A m \in Mask : [settings EXCEPT !["mask"] = m] \in Settings
          /\ \A d \in Dir \cup {None} : [settings EXCEPT !["dir"] = d] \in Settings
      BY <2>1 DEF Settings
    <2>3. CASE CloseFds(p)
      BY <2>2, <2>3, SetStep DEF CloseFds
    <2>4. CASE ResetSignals(p)
      BY <2>2, <2>4, SetStep DEF ResetSignals
    <2>5. ASSUME NEW m \in Mask, SetUmask(p, m) PROVE IInv'
      BY <2>2, <2>5, SetStep DEF SetUmask
    <2>6. ASSUME NEW d \in Dir \cup {None}, SetWorkingDirectory(p, d) PROVE IInv'
      BY <2>2, <2>6, SetStep DEF SetWorkingDirectory
    <2>7. CASE Call(p)
      BY <2>7, CallStep
    <2> QED BY <1>2, <2>3, <2>4, <2>5, <2>6, <2>7 DEF User
  <1>3. CASE UNCHANGED vars
    <2>1. TypeOK'
      BY <1>3 DEF vars, IInv, TypeOK, Living
    <2>2. NextProcess' = NextProcess /\ Born' = Born
      BY <1>3 DEF vars, NextProcess, Born
    <2>3. Processes'
      <3>1. Living' = Living /\ attr' = attr /\ before' = before
        BY <1>3 DEF vars, Living
      <3>2. \A p, q \in Process : Active(p)' /\ Active(q)' => p = q
        BY <1>3 DEF vars, IInv, Processes, Active
      <3>3. Processes
        BY DEF IInv
      <3> QED BY <2>2, <3>1, <3>2, <3>3 DEF Processes
    <2>4. ASSUME NEW p \in Process PROVE Progress(p)'
      <3>1. Progress(p) /\ pc' = pc /\ attr' = attr /\ frame' = frame /\ before' = before
            /\ settings' = settings
        BY <1>3 DEF vars, IInv
      <3> QED BY <2>2, <3>1, ZenonT(40)
          DEF Progress, AtSave, AtChdir, AtFork, AtDetach, AtForkAgain, AtRelease, AtSignals,
              AtClose, AtThrow, Kept, Moved, Changed, HupIgnored, NoLeader, Saved, Or
    <2>5. Results'
      BY <1>3
      DEF vars, IInv, Results, DaemonIsDetached, ChangedAsAsked, RestoredOnThrow, Returned, Or
    <2> QED BY <2>1, <2>3, <2>4, <2>5 DEF IInv
  <1> QED BY <1>1, <1>2, <1>3 DEF Next

LEMMA Invariance == Spec => []IInv
  BY InitIInv, NextIInv, PTL DEF Spec

\* Every state of daemonize_me() and of the processes it forks is well formed.
THEOREM TypeCorrect == Spec => []TypeOK
  <1>1. IInv => TypeOK
    BY DEF IInv
  <1> QED BY <1>1, Invariance, PTL

\* The code after daemonize_me() runs in one process, however often it is
\* called and whichever of the processes it forks is the quicker.
THEOREM OneContinuationHolds == Spec => []OneContinuation
  <1>1. ASSUME IInv PROVE OneContinuation
    <2> DEFINE S == {p \in Process : Active(p)}
    <2>1. S = {} \/ \E p \in Process : S = {p}
      BY <1>1 DEF IInv, Processes
    <2>2. Cardinality(S) <= 1
      <3>1. CASE S = {}
        BY <3>1, FS_EmptySet
      <3>2. ASSUME NEW p \in Process, S = {p} PROVE Cardinality(S) <= 1
        BY <3>2, FS_Singleton
      <3> QED BY <2>1, <3>1, <3>2
    <2> QED BY <2>2 DEF OneContinuation, Running, Active
  <1> QED BY <1>1, Invariance, PTL

\* What daemonize_me() returns in is out of its caller's session, without its
\* terminal, and no session's leader.
THEOREM DaemonIsDetachedHolds == Spec => []DaemonIsDetached
  <1>1. IInv => DaemonIsDetached
    BY DEF IInv, Results
  <1> QED BY <1>1, Invariance, PTL

\* daemonize_me() changes what it was asked to change and nothing else, from
\* whatever directory, umask, dispositions and descriptors it was called.
THEOREM ChangedAsAskedHolds == Spec => []ChangedAsAsked
  <1>1. IInv => ChangedAsAsked
    BY DEF IInv, Results
  <1> QED BY <1>1, Invariance, PTL

\* When daemonize_me() throws, at whichever step, what it had changed is back.
THEOREM RestoredOnThrowHolds == Spec => []RestoredOnThrow
  <1>1. IInv => RestoredOnThrow
    BY DEF IInv, Results
  <1> QED BY <1>1, Invariance, PTL
-----------------------------------------------------------------------------
(* The refinement.  Beyond IInv it needs what a call that throws leaves of *)
(* session, terminal and standard files, and where it leaves the program.  *)

Unmoved(p) == /\ attr[p].session = before.session /\ attr[p].terminal = before.terminal
              /\ attr[p].std = before.std
Leader(p)  == attr[p].session = p /\ ~attr[p].terminal /\ attr[p].std = before.std

Lineage(p) ==
  /\ pc[p] \in {"save", "chdir", "fork", "detach"} => Unmoved(p)
  /\ pc[p] = "fork again" => Leader(p)
  /\ pc[p] = "throw" => /\ Unmoved(p) \/ Leader(p)
                        /\ attr[p].cwd \in {before.cwd, settings.dir}

RInv == IInv /\ \A p \in Process : Lineage(p)

\* What the program sees in a state in which p is active.
Seen(p) ==
  /\ Self = p
  /\ pc[p] = "user" => Now = attr[p] /\ Status = outcome
  /\ pc[p] # "user" => Now = before /\ Status = "calling"

LEMMA SeenIs ==
  ASSUME NEW p \in Process, \A q \in Process : Active(q) <=> q = p
  PROVE  Seen(p)
  <1>1. Running = {p}
    BY DEF Running, Active
  <1>2. (CHOOSE q \in {p} : TRUE) = p
    OBVIOUS
  <1>3. Self = p
    BY <1>1, <1>2 DEF Self
  <1> QED BY <1>1, <1>3 DEF Seen, Now, Status, InUser

LEMMA SeenWillBe ==
  ASSUME NEW p \in Process, \A q \in Process : Active(q)' <=> q = p
  PROVE  Seen(p)'
  <1>1. Running' = {p}
    BY DEF Running, Active
  <1>2. (CHOOSE q \in {p} : TRUE) = p
    OBVIOUS
  <1>3. Self' = p
    BY <1>1, <1>2 DEF Self
  <1> QED BY <1>1, <1>3 DEF Seen, Now, Status, InUser

\* A step of p that leaves p active.
LEMMA Goes ==
  ASSUME IInv, NEW p \in Process, Active(p), NEW stage, Goto(p, stage),
         stage \notin {"unborn", "exit", "gone", "aborted"}
  PROVE  /\ pc'[p] = stage /\ Seen(p) /\ Seen(p)'
         /\ Lineage(p)' => \A q \in Process : Lineage(q)'
  <1>1. \A q \in Process : pc'[q] = IF q = p THEN stage ELSE pc[q]
    BY DEF Goto, IInv, TypeOK
  <1>2. \A q \in Process : Active(q) <=> q = p
    BY DEF IInv, Processes
  <1>3. \A q \in Process : Active(q)' <=> q = p
    BY <1>1, <1>2 DEF Active
  <1>4. \A q \in Process : q # p => Lineage(q)'
    BY <1>3 DEF Active, Lineage
  <1> QED BY <1>1, <1>2, <1>3, <1>4, SeenIs, SeenWillBe

\* Such a step inside a call is not seen.
LEMMA Inside ==
  ASSUME IInv, NEW p \in Process, Active(p), NEW stage, Goto(p, stage),
         stage \notin {"unborn", "exit", "gone", "aborted", "user"}, pc[p] # "user",
         UNCHANGED <<settings, before>>
  PROVE  UNCHANGED Program!vars
  BY Goes DEF Seen, Program!vars

\* What the actions inside a call, other than fork(), do to Lineage.
LEMMA SetUpLineage ==
  ASSUME RInv, NEW p \in Process,
         SaveDirectory(p) \/ Chdir(p) \/ (Fork(p) /\ Goto(p, "throw") /\ UNCHANGED attr)
  PROVE  (\A q \in Process : Lineage(q)') /\ UNCHANGED Program!vars
  <1>1. PICK stage \in {"chdir", "fork", "throw"} :
          /\ Goto(p, stage) /\ UNCHANGED <<settings, before>>
          /\ pc[p] \in {"save", "chdir", "fork"} /\ (pc[p] = "save" => stage = "chdir")
    BY DEF SaveDirectory, Chdir, Fork
  <1>2. IInv /\ Active(p) /\ Lineage(p)
    BY <1>1 DEF RInv, Active
  <1>3. Known(p) /\ Progress(p)
    BY <1>2, KnownOfActive
  <1>4. pc'[p] = stage /\ (Lineage(p)' => \A q \in Process : Lineage(q)')
    BY <1>1, <1>2, Goes
  <1>5. UNCHANGED Program!vars
    BY <1>1, <1>2, Inside
  <1>6. /\ attr'[p].session = attr[p].session /\ attr'[p].terminal = attr[p].terminal
        /\ attr'[p].std = attr[p].std
    <2>1. CASE UNCHANGED attr
      BY <2>1
    <2>2. ASSUME NEW fd \in Fd, Change(p, [attr[p] EXCEPT !.files = @ \cup {fd}])
          PROVE  /\ attr'[p].session = attr[p].session /\ attr'[p].terminal = attr[p].terminal
                 /\ attr'[p].std = attr[p].std
      BY <1>3, <2>2 DEF Change, Known, Attributes
    <2>3. ASSUME Change(p, [attr[p] EXCEPT !.cwd = settings.dir])
          PROVE  /\ attr'[p].session = attr[p].session /\ attr'[p].terminal = attr[p].terminal
                 /\ attr'[p].std = attr[p].std
      BY <1>3, <2>3 DEF Change, Known, Attributes
    <2> QED BY <2>1, <2>2, <2>3 DEF SaveDirectory, Chdir
  <1>7. Unmoved(p)'
    BY <1>1, <1>2, <1>6 DEF Lineage, Unmoved
  <1>8. stage = "throw" => attr'[p].cwd \in {before.cwd, settings.dir}
    <2>1. CASE stage = "throw"
      <3>1. pc[p] \in {"chdir", "fork"} /\ attr'[p] = attr[p]
        BY <1>1, <1>4, <2>1 DEF SaveDirectory, Chdir, Fork, Goto, IInv, RInv, TypeOK
      <3>2. attr[p].cwd \in {before.cwd, settings.dir}
        BY <1>3, <3>1 DEF Progress, AtChdir, AtFork, Moved, Or
      <3> QED BY <3>1, <3>2
    <2> QED BY <2>1
  <1>9. Lineage(p)'
    BY <1>1, <1>4, <1>7, <1>8 DEF Lineage
  <1> QED BY <1>4, <1>5, <1>9

LEMMA DetachedLineage ==
  ASSUME RInv, NEW p \in Process, Detach(p) \/ ForkAgainFails(p)
  PROVE  (\A q \in Process : Lineage(q)') /\ UNCHANGED Program!vars
  <1>1. PICK stage \in {"fork again", "throw"} :
          /\ Goto(p, stage) /\ UNCHANGED <<settings, before>>
          /\ <<pc[p], stage>> \in {<<"detach", "fork again">>, <<"fork again", "throw">>}
    BY DEF Detach, ForkAgainFails
  <1>2. IInv /\ Active(p) /\ Lineage(p)
    BY <1>1 DEF RInv, Active
  <1>3. Known(p) /\ Progress(p)
    BY <1>2, KnownOfActive
  <1>4. pc'[p] = stage /\ (Lineage(p)' => \A q \in Process : Lineage(q)')
    BY <1>1, <1>2, Goes
  <1>5. UNCHANGED Program!vars
    BY <1>1, <1>2, Inside
  <1>6. Leader(p)'
    <2>1. CASE Detach(p)
      <3>1. attr[p].std = before.std
        BY <1>2, <2>1 DEF Detach, Lineage, Unmoved
      <3> QED BY <1>1, <1>3, <2>1, <3>1 DEF Detach, Change, Known, Attributes, Leader
    <2>2. CASE ForkAgainFails(p)
      <3>1. Leader(p)
        BY <1>2, <2>2 DEF ForkAgainFails, Lineage
      <3> QED BY <1>1, <1>3, <2>2, <3>1 DEF ForkAgainFails, Change, Known, Attributes, Leader
    <2> QED BY <2>1, <2>2
  <1>7. stage = "throw" => attr'[p].cwd \in {before.cwd, settings.dir}
    <2>1. CASE stage = "throw"
      <3>1. ForkAgainFails(p) /\ pc[p] = "fork again"
        BY <1>1, <1>4, <2>1 DEF Detach, ForkAgainFails, Goto, IInv, RInv, TypeOK
      <3>2. attr'[p].cwd = attr[p].cwd
        BY <1>3, <3>1 DEF ForkAgainFails, Change, Known, Attributes
      <3>3. Moved(p)
        BY <1>3, <3>1 DEF Progress, AtForkAgain, Changed
      <3> QED BY <3>2, <3>3 DEF Moved, Or
    <2> QED BY <2>1
  <1>8. Lineage(p)'
    BY <1>1, <1>4, <1>6, <1>7 DEF Lineage
  <1> QED BY <1>4, <1>5, <1>8

\* fork() succeeds, and the program goes on in a younger process.
LEMMA ForkRefines ==
  ASSUME RInv, NEW p \in Process, NEW stage \in {"detach", "release"}, ForkTo(p, stage),
         pc[p] \in {"fork", "fork again"}, stage = "detach" => pc[p] = "fork",
         UNCHANGED <<settings, outcome, before>>
  PROVE  (\A q \in Process : Lineage(q)') /\ Program!Fork
  <1>1. IInv /\ Active(p) /\ Lineage(p) /\ Progress(p)
    BY DEF RInv, Active, IInv
  <1>0. NextProcess \in Nat /\ MaxProcess \in Nat /\ Born = 0 .. NextProcess - 1 /\ p \in Born
    <2>1. NextProcess \in 1 .. MaxProcess + 1 /\ Born = 0 .. NextProcess - 1
      BY <1>1 DEF IInv, Processes
    <2>2. p \in Born
      BY DEF Born
    <2>3. MaxProcess \in Nat
      BY DaemonAssumption
    <2> QED BY ONLY <2>1, <2>2, <2>3
  <1>2. NextProcess <= MaxProcess
    <2>2. NextProcess + 1 <= MaxProcess \/ NextProcess <= MaxProcess
      BY <1>1 DEF Progress, AtFork, AtForkAgain
    <2> QED BY ONLY <1>0, <2>2
  <1>3. PICK c \in Process \ Born :
          attr'[c] = attr[p] /\ pc'[c] = stage /\ c = NextProcess
    <2>1. stage \in Stages /\ stage \notin {"unborn", "user", "exit", "gone", "aborted"}
      BY DEF Stages
    <2> QED BY <1>1, <1>2, <2>1, ForkStep, ZenonT(60)
  <1>4. p \in Born /\ c > p /\ c # p
    <2>1. p \in 0 .. NextProcess - 1 /\ c = NextProcess
      BY <1>0, <1>3
    <2> QED BY ONLY <1>0, <2>1
  <1>5. \A q \in Process : pc'[q] = IF q = c THEN stage ELSE IF q = p THEN "exit" ELSE pc[q]
    BY <1>1, <1>3 DEF ForkTo, IInv, TypeOK
  <1>6. \A q \in Process : Active(q) <=> q = p
    BY <1>1 DEF IInv, Processes
  <1>7. \A q \in Process : Active(q)' <=> q = c
    BY <1>5, <1>6 DEF Active
  <1>8. Seen(p) /\ Seen(c)'
    BY <1>6, <1>7, SeenIs, SeenWillBe
  <1>9. Program!Fork
    <2>1. Self = p /\ Now = before /\ Status = "calling"
      BY <1>8 DEF Seen
    <2>2. Self' = c /\ Now' = before /\ Status' = "calling"
      BY <1>3, <1>8 DEF Seen
    <2> QED BY <1>3, <1>4, <2>1, <2>2 DEF Program!Fork
  <1>10. Lineage(c)'
    BY <1>1, <1>3 DEF Lineage, Unmoved
  <1>11. \A q \in Process : q # c => Lineage(q)'
    BY <1>7 DEF Active, Lineage
  <1> QED BY <1>9, <1>10, <1>11

\* The grandchild's steps before the last one
LEMMA FinishLineage ==
  ASSUME RInv, NEW p \in Process, Release(p) \/ RestoreSignals(p) \/ CloseStandardFiles(p)
  PROVE  (\A q \in Process : Lineage(q)') /\ UNCHANGED Program!vars
  <1>1. PICK stage \in {"signals", "close", "reopen"} :
          /\ Goto(p, stage) /\ UNCHANGED <<settings, before>>
          /\ pc[p] \in {"release", "signals", "close"}
    BY DEF Release, RestoreSignals, CloseStandardFiles
  <1>2. IInv /\ Active(p)
    BY <1>1 DEF RInv, Active
  <1>3. pc'[p] = stage /\ (Lineage(p)' => \A q \in Process : Lineage(q)')
    BY <1>1, <1>2, Goes
  <1>4. UNCHANGED Program!vars
    BY <1>1, <1>2, Inside
  <1>5. Lineage(p)'
    BY <1>3 DEF Lineage
  <1> QED BY <1>3, <1>4, <1>5

\* The exception reaches user code.
LEMMA UnwindRefines ==
  ASSUME RInv, NEW p \in Process, Unwind(p)
  PROVE  (\A q \in Process : Lineage(q)') /\ Program!Throw
  <1>1. pc[p] = "throw" /\ Goto(p, "user") /\ UNCHANGED <<settings, before>>
    BY DEF Unwind
  <1>2. IInv /\ Active(p) /\ Lineage(p)
    BY <1>1 DEF RInv, Active
  <1>3. Known(p) /\ AtThrow(p) /\ (Unmoved(p) \/ Leader(p))
        /\ attr[p].cwd \in {before.cwd, settings.dir}
    BY <1>1, <1>2, KnownOfActive DEF Progress, Lineage
  <1>4. pc'[p] = "user" /\ Seen(p) /\ Seen(p)'
        /\ (Lineage(p)' => \A q \in Process : Lineage(q)')
    BY <1>1, <1>2, Goes
  <1>5. PICK a : a = IF frame[p].fd = None THEN attr[p]
                     ELSE [attr[p] EXCEPT !.cwd = frame[p].dir, !.files = @ \ {frame[p].fd}]
    OBVIOUS
  <1>6. attr'[p] = a
    BY <1>3, <1>5 DEF Unwind, Change, Known
  <1>7. /\ a.mask = before.mask /\ a.signals = before.signals /\ a.session = attr[p].session
        /\ a.files = before.files /\ a.terminal = attr[p].terminal /\ a.std = attr[p].std
        /\ (frame[p].fd # None => a.cwd = before.cwd)
        /\ (frame[p].fd = None => a.cwd = attr[p].cwd)
    <2>1. attr[p] \in Attributes /\ attr[p].mask = before.mask /\ attr[p].signals = before.signals
      BY <1>3 DEF AtThrow, Kept, Known
    <2>2. CASE frame[p].fd = None
      BY <1>3, <1>5, <2>1, <2>2, ZenonT(40) DEF AtThrow, Kept, Saved
    <2>3. CASE frame[p].fd # None
      <3>1. a = [attr[p] EXCEPT !.cwd = frame[p].dir, !.files = @ \ {frame[p].fd}]
        BY <1>5, <2>3
      <3>2. frame[p].dir = before.cwd /\ attr[p].files \ {frame[p].fd} = before.files
        BY <1>3, <2>3 DEF AtThrow, Kept, Saved
      <3> QED BY <2>1, <2>3, <3>1, <3>2, ZenonT(40) DEF Attributes
    <2> QED BY <2>2, <2>3
  <1>8. a \in Attributes
    <2>1. frame[p].fd # None => frame[p].dir \in Dir
      BY <1>3 DEF AtThrow, Saved, Known, Attributes
    <2> QED BY <1>3, <1>5, <2>1 DEF Known, Attributes
  <1>9. a.cwd \in {before.cwd} \cup (IF outcome' = "threw" THEN {} ELSE {settings.dir})
    <2>1. CASE frame[p].fd # None \/ attr[p].cwd = before.cwd
      BY <1>7, <2>1
    <2>2. CASE frame[p].fd = None /\ attr[p].cwd # before.cwd
      <3>1. attr[p].cwd = settings.dir /\ settings.dir # None
        BY <1>3, <2>2 DEF AtThrow
      <3>2. outcome' = "threw unsaved"
        BY <2>2, <3>1 DEF Unwind
      <3> QED BY <1>7, <2>2, <3>1, <3>2
    <2> QED BY <2>1, <2>2
  <1>10. \/ a = [before EXCEPT !.cwd = a.cwd]
         \/ a = [before EXCEPT !.cwd = a.cwd, !.session = p, !.terminal = FALSE]
    <2>1. before \in Attributes /\ a \in Attributes
      BY <1>3, <1>8 DEF Known
    <2>2. CASE Unmoved(p)
      BY <1>7, <2>1, <2>2 DEF Unmoved, Attributes
    <2>3. CASE Leader(p)
      BY <1>7, <2>1, <2>3, ZenonT(60) DEF Leader, Attributes
    <2> QED BY <1>3, <2>2, <2>3
  <1>11. Program!Throw
    <2>1. Self = p /\ Now = before /\ Status = "calling"
      BY <1>1, <1>4 DEF Seen
    <2>2. Self' = p /\ Now' = a /\ Status' = outcome'
      BY <1>4, <1>6 DEF Seen
    <2>3. outcome' \in {"threw", "threw unsaved"}
      BY DEF Unwind
    <2> QED BY <1>1, <1>9, <1>10, <2>1, <2>2, <2>3 DEF Program!Throw
  <1>12. Lineage(p)'
    BY <1>4 DEF Lineage
  <1> QED BY <1>4, <1>11, <1>12

\* The grandchild returns to user code.
LEMMA ReopenRefines ==
  ASSUME RInv, NEW p \in Process, Reopen(p)
  PROVE  (\A q \in Process : Lineage(q)') /\ Program!Become
  <1>1. pc[p] = "reopen" /\ Goto(p, "user") /\ UNCHANGED <<settings, before>> /\ outcome' = "daemon"
    BY DEF Reopen
  <1>2. IInv /\ Active(p)
    BY <1>1 DEF RInv, Active
  <1>3. Known(p) /\ AtClose(p)
    BY <1>1, <1>2, KnownOfActive DEF Progress
  <1>4. pc'[p] = "user" /\ Seen(p) /\ Seen(p)'
        /\ (Lineage(p)' => \A q \in Process : Lineage(q)')
    BY <1>1, <1>2, Goes
  <1>5. PICK a : a = [attr[p] EXCEPT !.std = "null"]
    OBVIOUS
  <1>6. attr'[p] = a
    BY <1>3, <1>5 DEF Reopen, Change, Known
  <1>7. a = [cwd |-> Or(settings.dir, before.cwd), mask |-> Or(settings.mask, before.mask),
             signals |-> IF settings.resetSignals THEN [s \in Signal |-> "default"]
                         ELSE before.signals,
             session |-> attr[p].session, terminal |-> FALSE, files |-> before.files, std |-> "null"]
    BY <1>3, <1>5 DEF AtClose, Changed, Moved, Known, Attributes
  <1>8. attr[p].session \in Process \ {p, before.session}
    BY <1>3 DEF AtClose, NoLeader, Known, Attributes
  <1>9. Program!Become
    <2>1. Self = p /\ Now = before /\ Status = "calling"
      BY <1>1, <1>4 DEF Seen
    <2>2. Self' = p /\ Now' = a /\ Status' = "daemon"
      BY <1>1, <1>4, <1>6 DEF Seen
    <2>3. \A setting, otherwise : Program!Asked(setting, otherwise) = Or(setting, otherwise)
      BY DEF Program!Asked, Or
    <2>4. before.files \in SUBSET before.files
      OBVIOUS
    <2> QED BY <1>1, <1>7, <1>8, <2>1, <2>2, <2>3, <2>4 DEF Program!Become
  <1>10. Lineage(p)'
    BY <1>4 DEF Lineage
  <1> QED BY <1>4, <1>9, <1>10

LEMMA TerminateRefines ==
  ASSUME RInv, NEW p \in Process, Terminate(p)
  PROVE  (\A q \in Process : Lineage(q)') /\ Program!Die
  <1>1. /\ IInv /\ Active(p) /\ pc[p] = "close" /\ settings.closeFds
        /\ UNCHANGED <<settings, before>>
    BY DEF RInv, Terminate, Active
  <1>2. \A q \in Process : Active(q) <=> q = p
    BY <1>1 DEF IInv, Processes
  <1>3. \A q \in Process : pc'[q] = IF q = p THEN "aborted" ELSE pc[q]
    BY <1>1 DEF Terminate, Goto, IInv, TypeOK
  <1>4. \A q \in Process : ~Active(q)'
    BY <1>2, <1>3 DEF Active
  <1>5. Running' = {}
    BY <1>4 DEF Running, Active
  <1>6. Self' = None /\ Now' = before /\ Status' = "dead"
    BY <1>1, <1>5 DEF Self, Now, Status, InUser
  <1>7. Now = before /\ Status = "calling"
    BY <1>1, <1>2, SeenIs DEF Seen
  <1>8. Program!Die
    BY <1>1, <1>6, <1>7 DEF Program!Die
  <1> QED BY <1>4, <1>8 DEF Active, Lineage

\* A process that was left behind is not seen when it ends.
LEMMA ExitRefines ==
  ASSUME RInv, NEW p \in Process, Exit(p)
  PROVE  (\A q \in Process : Lineage(q)') /\ UNCHANGED Program!vars
  <1>1. /\ IInv /\ pc[p] = "exit" /\ UNCHANGED <<settings, outcome, before>>
        /\ \A q \in Process : pc'[q] = IF q = p THEN "gone" ELSE pc[q]
    BY DEF RInv, Exit, Goto, IInv, TypeOK
  <1>2. \A q \in Process : Active(q)' <=> Active(q)
    BY <1>1 DEF Active
  <1>3. \A q \in Process : Active(q) => pc'[q] = pc[q] /\ attr'[q] = attr[q]
    BY <1>1 DEF Exit, Active, IInv, TypeOK, Living
  <1>4. Running' = Running
    BY <1>2 DEF Running, Active
  <1>5. ASSUME NEW q \in Process PROVE Lineage(q)'
    <2>1. CASE ~Active(q)
      BY <1>2, <2>1 DEF Active, Lineage
    <2>2. CASE Active(q)
      <3>1. Lineage(q) /\ pc'[q] = pc[q] /\ attr'[q] = attr[q]
        BY <1>3, <2>2 DEF RInv
      <3> QED BY <1>1, <3>1 DEF Lineage, Unmoved, Leader
    <2> QED BY <2>1, <2>2
  <1>6. UNCHANGED <<Self, Now, Status>>
    <2>1. CASE Running = {}
      BY <1>1, <1>4, <2>1 DEF Self, Now, Status, InUser
    <2>2. ASSUME NEW q \in Running PROVE UNCHANGED <<Self, Now, Status>>
      <3>1. q \in Process /\ Active(q)
        BY <2>2 DEF Running, Active
      <3>2. \A r \in Process : Active(r) <=> r = q
        BY <1>1, <3>1 DEF IInv, Processes
      <3>3. \A r \in Process : Active(r)' <=> r = q
        BY <1>2, <3>2
      <3>4. Seen(q) /\ Seen(q)'
        BY <3>1, <3>2, <3>3, SeenIs, SeenWillBe
      <3> QED BY <1>1, <1>3, <3>1, <3>4 DEF Seen
    <2> QED BY <2>1, <2>2
  <1> QED BY <1>1, <1>5, <1>6 DEF Program!vars

\* User code
LEMMA SetRefines ==
  ASSUME RInv, NEW p \in Process, NEW field \in {"closeFds", "resetSignals", "mask", "dir"},
         NEW value, Set(p, field, value)
  PROVE  (\A q \in Process : Lineage(q)') /\ Program!Set
  <1>1. /\ IInv /\ Active(p) /\ pc[p] = "user" /\ outcome' = "none"
        /\ UNCHANGED <<pc, attr, before>> /\ settings' = [settings EXCEPT ![field] = value]
    BY DEF RInv, Set, Active
  <1>2. Known(p)
    BY <1>1, KnownOfActive
  <1>3. \A q \in Process : Active(q) <=> q = p
    BY <1>1 DEF IInv, Processes
  <1>4. \A q \in Process : Active(q)' <=> q = p
    BY <1>1, <1>3 DEF Active
  <1>5. Seen(p) /\ Seen(p)'
    BY <1>3, <1>4, SeenIs, SeenWillBe
  <1>6. \A q \in Process : Lineage(q)'
    <2>1. \A q \in Process : ~Active(q)' \/ pc'[q] = "user"
      BY <1>1, <1>4
    <2> QED BY <2>1 DEF Active, Lineage
  <1>7. Program!Set
    <2>1. field \in DOMAIN settings /\ settings' = [settings EXCEPT ![field] = settings'[field]]
      BY <1>1, <1>2 DEF Known, Settings
    <2>2. Status \in Outcomes
      BY <1>1, <1>2, <1>5 DEF Seen, Known
    <2> QED BY <1>1, <1>5, <2>1, <2>2 DEF Seen, Program!Set, Program!InUserCode, Outcomes
  <1> QED BY <1>6, <1>7

LEMMA CallRefines ==
  ASSUME RInv, NEW p \in Process, Call(p)
  PROVE  (\A q \in Process : Lineage(q)') /\ Program!Call
  <1>1. /\ IInv /\ Active(p) /\ pc[p] = "user" /\ before' = attr[p]
        /\ UNCHANGED <<settings, attr>>
    BY DEF RInv, Call, Active
  <1>2. PICK stage \in {"fork", "save"} : Goto(p, stage)
    BY DEF Call
  <1>3. pc'[p] = stage /\ Seen(p) /\ Seen(p)'
        /\ (Lineage(p)' => \A q \in Process : Lineage(q)')
    BY <1>1, <1>2, Goes
  <1>4. Lineage(p)'
    BY <1>1, <1>2, <1>3 DEF Lineage, Unmoved
  <1>5. Program!Call
    <2>1. Status \in Outcomes
      BY <1>1, <1>3, KnownOfActive DEF Seen, Known
    <2> QED BY <1>1, <1>3, <2>1 DEF Seen, Program!Call, Program!InUserCode, Outcomes
  <1> QED BY <1>3, <1>4, <1>5

LEMMA InitRefines == Init => RInv /\ Program!Init
  <1> SUFFICES ASSUME Init PROVE RInv /\ Program!Init
    OBVIOUS
  <1>1. IInv
    BY InitIInv
  <1>2. \A q \in Process : pc[q] = IF q = 0 THEN "user" ELSE "unborn"
    BY DEF Init
  <1>3. 0 \in Process /\ \A q \in Process : Active(q) <=> q = 0
    BY <1>2, DaemonAssumption DEF Process, Active
  <1>4. Seen(0) /\ pc[0] = "user"
    BY <1>2, <1>3, SeenIs
  <1>5. attr[0] \in Attributes
    BY <1>1, <1>3, KnownOfActive DEF Known
  <1>6. RInv
    BY <1>1, <1>2 DEF RInv, Lineage
  <1> QED BY <1>4, <1>5, <1>6 DEF Init, Seen, Program!Init

LEMMA NextRefines ==
  RInv /\ [Next]_vars => RInv' /\ [Program!Next]_(Program!vars)
  <1> SUFFICES ASSUME RInv, [Next]_vars PROVE RInv' /\ [Program!Next]_(Program!vars)
    OBVIOUS
  <1>1. IInv'
    BY NextIInv DEF RInv
  <1>2. ASSUME NEW p \in Process, Step(p)
        PROVE  (\A q \in Process : Lineage(q)') /\ [Program!Next]_(Program!vars)
    <2>1. CASE SaveDirectory(p) \/ Chdir(p)
      BY <2>1, SetUpLineage
    <2>2. CASE Fork(p)
      <3>1. CASE ForkTo(p, "detach")
        BY <2>2, <3>1, ForkRefines DEF Fork, Program!Next
      <3>2. CASE Goto(p, "throw") /\ UNCHANGED attr
        BY <2>2, <3>2, SetUpLineage
      <3> QED BY <2>2, <3>1, <3>2 DEF Fork
    <2>3. CASE Exit(p)
      BY <2>3, ExitRefines
    <2>4. CASE Detach(p) \/ ForkAgainFails(p)
      BY <2>4, DetachedLineage
    <2>5. CASE ForkAgain(p)
      BY <2>5, ForkRefines DEF ForkAgain, Program!Next
    <2>6. CASE Unwind(p)
      BY <2>6, UnwindRefines DEF Program!Next
    <2>7. CASE Release(p) \/ RestoreSignals(p) \/ CloseStandardFiles(p)
      BY <2>7, FinishLineage
    <2>8. CASE Terminate(p)
      BY <2>8, TerminateRefines DEF Program!Next
    <2>9. CASE Reopen(p)
      BY <2>9, ReopenRefines DEF Program!Next
    <2> QED BY <1>2, <2>1, <2>2, <2>3, <2>4, <2>5, <2>6, <2>7, <2>8, <2>9 DEF Step
  <1>3. ASSUME NEW p \in Process, User(p)
        PROVE  (\A q \in Process : Lineage(q)') /\ [Program!Next]_(Program!vars)
    <2>1. ASSUME NEW field \in {"closeFds", "resetSignals", "mask", "dir"}, NEW value,
                 Set(p, field, value)
          PROVE  (\A q \in Process : Lineage(q)') /\ [Program!Next]_(Program!vars)
      BY <2>1, SetRefines DEF Program!Next
    <2>2. CASE Call(p)
      BY <2>2, CallRefines DEF Program!Next
    <2>3. CASE CloseFds(p) \/ ResetSignals(p)
      BY <2>1, <2>3 DEF CloseFds, ResetSignals
    <2>4. ASSUME NEW v, SetUmask(p, v) \/ SetWorkingDirectory(p, v)
          PROVE  (\A q \in Process : Lineage(q)') /\ [Program!Next]_(Program!vars)
      BY <2>1, <2>4 DEF SetUmask, SetWorkingDirectory
    <2> QED BY <1>3, <2>2, <2>3, <2>4 DEF User
  <1>4. CASE UNCHANGED vars
    <2>1. UNCHANGED Program!vars
      BY <1>4 DEF vars, Program!vars, Self, Now, Status, InUser, Running
    <2>2. ASSUME NEW q \in Process PROVE Lineage(q)'
      BY <1>4 DEF vars, RInv, Lineage, Unmoved, Leader
    <2> QED BY <1>1, <2>1, <2>2 DEF RInv
  <1> QED BY <1>1, <1>2, <1>3, <1>4 DEF RInv, Next

\* daemonize_me() is one step for the program that calls it, with the promises
\* of Daemonization, for any number of calls, failures and processes.
THEOREM CallsAreAtomicHolds == Spec => CallsAreAtomic
  <1>1. Init => RInv /\ Program!Init
    BY InitRefines
  <1>2. RInv /\ [Next]_vars => RInv' /\ [Program!Next]_(Program!vars)
    BY NextRefines
  <1> QED BY <1>1, <1>2, PTL DEF Spec, CallsAreAtomic, Program!Spec

=============================================================================
