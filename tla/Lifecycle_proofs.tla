-------------------------- MODULE Lifecycle_proofs ---------------------------
(***************************************************************************)
(* Proofs about the program's life, with SIGQUIT at any time.              *)
(***************************************************************************)
EXTENDS Lifecycle, TLAPS

\* The steps up to the one that creates the first, ..., the last thread.
ToButtons == {"exited", "dead", "pidfile", "registry", "buttons"}
ToHttp    == ToButtons \cup {"outputs", "sessions", "services", "handler", "http"}
ToAvahi   == ToHttp \cup {"avahi"}
ToSmgr    == ToAvahi \cup {"smgr"}

\* Each thread is created once, at its step.
CreatedOnce ==
  /\ main \in ToButtons <=> thr["buttons"] = "none"
  /\ main \in ToHttp    <=> thr["http"] = "none"
  /\ main \in ToAvahi   <=> thr["avahi"] = "none"
  /\ main \in ToSmgr    <=> thr["smgr"] = "none"

\* The steps after each call of stop(), and those after each false isRunning().
Waits        == {"waitHttp", "waitAvahi", "waitSmgr", "unlink", "destroy"}
SmgrIsTold   == Waits \cup {"stopButtons"}
AvahiIsTold  == SmgrIsTold \cup {"stopSmgr"}
HttpIsTold   == AvahiIsTold \cup {"stopAvahi"}
AvahiIsOver  == {"waitSmgr", "unlink", "destroy"}
HttpIsOver   == AvahiIsOver \cup {"waitAvahi"}

\* Every thread has been told to stop when run() starts to wait, ...
ToldToStop ==
  /\ main \in HttpIsTold  => stopReq["http"]
  /\ main \in AvahiIsTold => stopReq["avahi"]
  /\ main \in SmgrIsTold  => stopReq["smgr"]

\* ... and one that run() has waited for has done its last work, or had not begun
\* and will not get as far as any work.
Over(c) == thr[c] = "done" \/ (c \in late /\ thr[c] # "body")
WaitIsOver ==
  /\ main \in HttpIsOver  => Over("http") /\ daemon # "held"
  /\ main \in AvahiIsOver => Over("avahi")
  /\ main \in PastWait    => Over("smgr") /\ ~hot

\* A web server that can be stopped is stopped before its thread ends.
HeldByThread == daemon = "held" => thr["http"] \in {"check", "body", "ending"}

\* The inductive invariant.
IInv == TypeOK /\ HotIsControlled /\ CreatedOnce /\ ToldToStop /\ WaitIsOver /\ HeldByThread

\* Before the first start nothing runs (Application's constructor, the state a
\* dead program leaves).
LEMMA InitInv == Init => IInv
<1> SUFFICES ASSUME Init PROVE IInv
  OBVIOUS
<1>1. TypeOK
  BY DEF Init, TypeOK, NoThread, NoFlag, Place, InRun
<1>2. HotIsControlled /\ CreatedOnce /\ ToldToStop /\ WaitIsOver /\ HeldByThread
  BY DEF Init, NoThread, Child, ToButtons, ToHttp, ToAvahi, ToSmgr, HotIsControlled, CreatedOnce,
         ToldToStop, WaitIsOver, Over, HeldByThread, PastWait,
     Waits, SmgrIsTold, AvahiIsTold, HttpIsTold, AvahiIsOver, HttpIsOver
<1> QED BY <1>1, <1>2 DEF IInv

-----------------------------------------------------------------------------
\* The end of the process keeps the invariant, if nothing is left on by a
\* program that has stopped.
LEMMA EndInv ==
  ASSUME IInv, UNCHANGED hot, file' \in BOOLEAN,
         NEW how \in {"exited", "dead"}, End(how), how = "exited" => ~hot
  PROVE  IInv'
<1>1. TypeOK'
  BY DEF IInv, End, TypeOK, NoThread, NoFlag, Place, InRun
<1>2. HotIsControlled' /\ CreatedOnce' /\ ToldToStop' /\ WaitIsOver' /\ HeldByThread'
  BY DEF End, NoThread, Child, ToButtons, ToHttp, ToAvahi, ToSmgr, HotIsControlled, CreatedOnce,
         ToldToStop, WaitIsOver, Over, HeldByThread, PastWait,
     Waits, SmgrIsTold, AvahiIsTold, HttpIsTold, AvahiIsOver, HttpIsOver
<1> QED BY <1>1, <1>2 DEF IInv

\* The steps of a start (Application::run() up to its loop, Registry::init()).
LEMMA StartUpInv ==
  ASSUME IInv,
         Start \/ WritePidFile \/ Construct \/ InitOutputs \/ InstallQuitHandler \/ LeaveLoop
  PROVE  IInv'
<1> USE DEF IInv, TypeOK, HotIsControlled, CreatedOnce, ToldToStop, WaitIsOver, Over, HeldByThread, At, After,
        Alive, PastWait, BeforeOutputs, Child, ToButtons, ToHttp, ToAvahi, ToSmgr,
        Waits, SmgrIsTold, AvahiIsTold, HttpIsTold,
        AvahiIsOver, HttpIsOver
<1>1. CASE Start
  BY <1>1 DEF Start
<1>2. CASE WritePidFile
  BY <1>2 DEF WritePidFile
<1>3. CASE Construct
  BY <1>3 DEF Construct
<1>4. CASE InitOutputs
  BY <1>4 DEF InitOutputs
<1>5. CASE InstallQuitHandler
  BY <1>5 DEF InstallQuitHandler
<1>6. CASE LeaveLoop
  BY <1>6 DEF LeaveLoop
<1> QED BY <1>1, <1>2, <1>3, <1>4, <1>5, <1>6

\* Creating, stopping and awaiting the threads (Application::run()).
LEMMA ChildrenInv ==
  ASSUME IInv, NEW c \in Child, Spawn(c) \/ StopChild(c) \/ (c \in Awaited /\ Wait(c))
  PROVE  IInv'
<1> USE DEF IInv, TypeOK, HotIsControlled, CreatedOnce, ToldToStop, WaitIsOver, Over, HeldByThread, After, Alive,
        PastWait, BeforeOutputs, Child, ToButtons, ToHttp, ToAvahi, ToSmgr,
        Waits, SmgrIsTold, AvahiIsTold, HttpIsTold,
        AvahiIsOver, HttpIsOver
<1>1. CASE Spawn(c)
  BY <1>1 DEF Spawn, At, Place, InRun
<1>2. CASE StopChild(c)
  BY <1>2 DEF StopChild, At, StopStep
<1>3. CASE c \in Awaited /\ Wait(c)
  <2>1. CASE running[c]
    BY <1>3, <2>1 DEF Wait, WaitStep, Awaited
  <2>2. CASE ~running[c] /\ c # "smgr"
    <3>1. main = WaitStep[c] /\ thr[c] # "none"
      BY <1>3, <2>2 DEF Wait, WaitStep, Awaited
    <3>2. thr[c] \in {"created", "done"}
      BY <2>2, <3>1 DEF Place, InRun
    <3>3. Over(c)'
      BY <1>3, <3>2 DEF Wait, Awaited
    <3> QED BY <1>3, <2>2, <3>1, <3>2, <3>3 DEF Wait, WaitStep, Awaited
  <2>3. CASE ~running[c] /\ c = "smgr"  \* the thread has not begun, or is done
    <3>1. main = "waitSmgr" /\ main' = "unlink"
      BY <1>3, <2>3 DEF Wait, WaitStep
    <3>2. thr["smgr"] \notin InRun
      BY <2>3
    <3>3. ~hot
      BY <3>1, <3>2 DEF InRun
    <3>4. thr["smgr"] \in {"created", "done"}
      BY <3>1, <3>2 DEF Place
    <3>5. Over("smgr")'
      BY <1>3, <2>3, <3>4 DEF Wait
    <3> QED BY <1>3, <2>3, <3>1, <3>3, <3>5 DEF Wait, Awaited
  <2> QED BY <2>1, <2>2, <2>3
<1> QED BY <1>1, <1>2, <1>3

\* The steps of a thread (the run() of each).
LEMMA ThreadInv ==
  ASSUME IInv, NEW c \in Child, Thread(c)
  PROVE  IInv'
<1> USE DEF IInv, TypeOK, HotIsControlled, CreatedOnce, ToldToStop, WaitIsOver, Over, HeldByThread, Child, Place,
        InRun, ThreadStep, Alive, PastWait, Waits, SmgrIsTold, AvahiIsTold, HttpIsTold,
        AvahiIsOver, HttpIsOver
<1>1. CASE Begin(c)
  BY <1>1 DEF Begin
<1>2. CASE Check(c)
  BY <1>2 DEF Check
<1>3. CASE Body(c)
  BY <1>3 DEF Body, StartDaemon
<1>4. CASE CleanUp(c)
  <2>1. CASE c = "smgr"
    BY <1>4, <2>1 DEF CleanUp
  <2>2. CASE c # "smgr"
    BY <1>4, <2>2 DEF CleanUp
  <2> QED BY <2>1, <2>2
<1>5. CASE Done(c)
  BY <1>5 DEF Done
<1>6. CASE c = "smgr" /\ SetUp
  BY <1>6 DEF SetUp
<1> QED BY <1>1, <1>2, <1>3, <1>4, <1>5, <1>6 DEF Thread

\* Every step keeps the invariant.
LEMMA StepInv == IInv /\ [Next]_vars => IInv'
<1> SUFFICES ASSUME IInv, [Next]_vars PROVE IInv'
  OBVIOUS
<1>1. CASE StartFails \/ Kill
  <2>1. End("dead") /\ UNCHANGED <<file, hot>>
    BY <1>1 DEF StartFails, Kill
  <2> QED BY <2>1, EndInv DEF IInv, TypeOK
<1>2. CASE Destroy
  <2>1. ~hot /\ End("exited") /\ UNCHANGED <<file, hot>>
    BY <1>2 DEF Destroy, IInv, WaitIsOver, PastWait
  <2> QED BY <2>1, EndInv DEF IInv, TypeOK
<1>3. CASE Unlink
  BY <1>3 DEF Unlink, At, After, IInv, TypeOK, HotIsControlled, CreatedOnce, ToldToStop,
     WaitIsOver, Over, HeldByThread, Alive, PastWait, BeforeOutputs, ToButtons, ToHttp, ToAvahi, ToSmgr,
     Waits, SmgrIsTold, AvahiIsTold, HttpIsTold,
        AvahiIsOver, HttpIsOver
<1>4. CASE Quit
  <2>1. CASE handler
    BY <1>4, <2>1 DEF Quit, IInv, TypeOK, HotIsControlled, CreatedOnce, ToldToStop, WaitIsOver, Over, HeldByThread
  <2>2. CASE ~handler
    <3>1. End("dead") /\ UNCHANGED <<file, hot>>
      BY <1>4, <2>2 DEF Quit
    <3> QED BY <3>1, EndInv DEF IInv, TypeOK
  <2> QED BY <2>1, <2>2
<1>5. CASE UNCHANGED vars
  BY <1>5 DEF vars, IInv, TypeOK, HotIsControlled, CreatedOnce, ToldToStop, WaitIsOver, Over, HeldByThread
<1>6. CASE Start \/ WritePidFile \/ Construct \/ InitOutputs \/ InstallQuitHandler \/ LeaveLoop
  BY <1>6, StartUpInv
<1>7. CASE \E c \in Child : Spawn(c) \/ StopChild(c) \/ (c \in Awaited /\ Wait(c))
  BY <1>7, ChildrenInv
<1>8. CASE \E c \in Child : Thread(c)
  BY <1>8, ThreadInv
<1> QED BY <1>1, <1>2, <1>3, <1>4, <1>5, <1>6, <1>7, <1>8 DEF Next, Main, Awaited

-----------------------------------------------------------------------------
\* The state always has its type, and isRunning() is true from the beginning of
\* a thread's run() to its end.
THEOREM TypeCorrect == Spec => []TypeOK
<1>1. IInv => TypeOK
  BY DEF IInv
<1> QED BY InitInv, StepInv, <1>1, PTL DEF Spec

\* When run() has stopped waiting every awaited thread is done, or had not begun and
\* will only set itself up and clean up; and no server serves that could have been
\* stopped (the stop flags are set before the wait of Application::run()).
THEOREM WaitEndsWork == Spec => []DoneOrLate
<1>1. IInv => DoneOrLate
  BY DEF IInv, WaitIsOver, Over, DoneOrLate, PastWait, AvahiIsOver, HttpIsOver, Awaited, Child
<1> QED BY InitInv, StepInv, <1>1, PTL DEF Spec

\* Nothing heats or cools without the session manager's thread, whenever the
\* program is told to stop, fails or is killed (the order of the steps of run()).
THEOREM HeatIsControlled == Spec => []HotIsControlled
<1>1. IInv => HotIsControlled
  BY DEF IInv
<1> QED BY InitInv, StepInv, <1>1, PTL DEF Spec
=============================================================================
