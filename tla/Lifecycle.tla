------------------------------ MODULE Lifecycle ------------------------------
(***************************************************************************)
(* The life of the program: Application::run(), the threads it creates and *)
(* its end (framework/application.cc, thread.cc, registry.cc, the loops of *)
(* the four threads).  The program may fail to start, be killed and be     *)
(* started again; the outputs keep what they were.                         *)
(*                                                                         *)
(* Flags are read and written one at a time, without any lock.  Writes to  *)
(* the outputs succeed here: Session has those that fail.                  *)
(*                                                                         *)
(* late is a history variable: no step depends on it.                      *)
(***************************************************************************)
Child   == {"buttons", "http", "avahi", "smgr"}
Awaited == Child \ {"buttons"}

VARIABLES
  main,         \* where the main thread is, or how the program has ended
  stop,         \* Application::stop_
  handler,      \* the SIGQUIT handler is installed
  file,         \* the pidfile exists
  thr,          \* where each thread is
  stopReq,      \* Thread::stop_
  running,      \* Thread::running_
  hot,          \* the outputs: something heats or cools
  daemon,       \* the web server: none, "held" in daemon_, or serving and "lost"
  late          \* threads that had not begun when run() last asked whether they run

vars == <<main, stop, handler, file, thr, stopReq, running, hot, daemon, late>>

\* The steps of run() and what comes after each.
After ==
  [pidfile  |-> "registry", registry  |-> "buttons",  buttons  |-> "outputs",
   outputs  |-> "sessions", sessions  |-> "services", services |-> "handler",
   handler  |-> "http",     http      |-> "avahi",    avahi    |-> "smgr",
   smgr     |-> "loop",     loop      |-> "stopHttp", stopHttp |-> "stopAvahi",
   stopAvahi |-> "stopSmgr", stopSmgr |-> "stopButtons", stopButtons |-> "waitHttp",
   waitHttp |-> "waitAvahi", waitAvahi |-> "waitSmgr", waitSmgr |-> "unlink",
   unlink   |-> "destroy",  destroy   |-> "exited"]

Alive         == DOMAIN After
MayFail       == {"pidfile", "registry", "outputs", "sessions", "services", "handler"}
BeforeOutputs == {"pidfile", "registry", "buttons", "outputs"}
PastWait      == {"unlink", "destroy"}

\* The places of a thread: those inside its run(), and the others.
InRun == {"setup", "check", "body", "ending", "stopped"}
Place == InRun \cup {"none", "created", "done"}

TypeOK ==
  /\ main \in Alive \cup {"exited", "dead"}
  /\ stop \in BOOLEAN /\ handler \in BOOLEAN /\ file \in BOOLEAN /\ hot \in BOOLEAN
  /\ thr \in [Child -> Place]
  /\ stopReq \in [Child -> BOOLEAN]
  /\ running \in [Child -> BOOLEAN]
  /\ \A c \in Child : running[c] <=> thr[c] \in InRun
  /\ daemon \in {"none", "held", "lost"}
  /\ late \subseteq Awaited

NoThread == [c \in Child |-> "none"]
NoFlag   == [c \in Child |-> FALSE]

\* No process; what earlier ones have left.
Init ==
  /\ main = "dead"
  /\ stop = FALSE /\ handler = FALSE
  /\ thr = NoThread /\ stopReq = NoFlag /\ running = NoFlag
  /\ file \in BOOLEAN /\ hot \in BOOLEAN
  /\ daemon = "none" /\ late = {}

-----------------------------------------------------------------------------
\* The end of the process: its threads and its memory are gone.
End(how) ==
  /\ main' = how
  /\ stop' = FALSE /\ handler' = FALSE
  /\ thr' = NoThread /\ stopReq' = NoFlag /\ running' = NoFlag
  /\ daemon' = "none" /\ late' = {}

At(s) == main = s /\ main' = After[s]

Start ==
  /\ main \in {"exited", "dead"}
  /\ main' = "pidfile"
  /\ UNCHANGED <<stop, handler, file, thr, stopReq, running, hot, daemon, late>>

\* run() returns false and main() calls error(): the pidfile stays.
StartFails ==
  /\ main \in MayFail
  /\ End("dead")
  /\ UNCHANGED <<file, hot>>

WritePidFile ==
  /\ At("pidfile")
  /\ file' = TRUE
  /\ UNCHANGED <<stop, handler, thr, stopReq, running, hot, daemon, late>>

\* The constructor of Registry and, later, of the sessions' sensors and the services.
Construct ==
  /\ \E s \in {"registry", "sessions", "services"} : At(s)
  /\ UNCHANGED <<stop, handler, file, thr, stopReq, running, hot, daemon, late>>

\* A mutant of the next definition: the shift register is left as it is.
InitOutputs_Keeps ==
  /\ At("outputs")
  /\ UNCHANGED <<stop, handler, file, thr, stopReq, running, hot, daemon, late>>

\* ShiftReg::init()
InitOutputs ==
  /\ At("outputs")
  /\ hot' = FALSE
  /\ UNCHANGED <<stop, handler, file, thr, stopReq, running, daemon, late>>

InstallQuitHandler ==
  /\ At("handler")
  /\ handler' = TRUE
  /\ UNCHANGED <<stop, file, thr, stopReq, running, hot, daemon, late>>

\* thread(...).detach()
Spawn(c) ==
  /\ At(c)
  /\ thr' = [thr EXCEPT ![c] = "created"]
  /\ UNCHANGED <<stop, handler, file, stopReq, running, hot, daemon, late>>

LeaveLoop ==
  /\ stop
  /\ At("loop")
  /\ UNCHANGED <<stop, handler, file, thr, stopReq, running, hot, daemon, late>>

StopStep == [http |-> "stopHttp", avahi |-> "stopAvahi", smgr |-> "stopSmgr",
             buttons |-> "stopButtons"]
WaitStep == [http |-> "waitHttp", avahi |-> "waitAvahi", smgr |-> "waitSmgr"]

\* A mutant of the next definition: Avahi is not told to stop.
StopChild_NotAvahi(c) ==
  /\ At(StopStep[c])
  /\ stopReq' = [stopReq EXCEPT ![c] = c # "avahi"]
  /\ UNCHANGED <<stop, handler, file, thr, running, hot, daemon, late>>

\* Thread::stop()
StopChild(c) ==
  /\ At(StopStep[c])
  /\ stopReq' = [stopReq EXCEPT ![c] = TRUE]
  /\ UNCHANGED <<stop, handler, file, thr, running, hot, daemon, late>>

\* A mutant of the next definition: the loop ends as soon as one has stopped.
Wait_ForOne(c) ==
  /\ main = WaitStep[c]
  /\ main' = IF running[c] THEN After[WaitStep[c]] ELSE "unlink"
  /\ late' = IF thr[c] = "created" THEN late \cup {c} ELSE late \ {c}
  /\ UNCHANGED <<stop, handler, file, thr, stopReq, running, hot, daemon>>

\* One call of isRunning(); the loop starts again when it is true.
Wait(c) ==
  /\ main = WaitStep[c]
  /\ main' = IF running[c] THEN "waitHttp" ELSE After[WaitStep[c]]
  /\ late' = IF thr[c] = "created" THEN late \cup {c} ELSE late \ {c}
  /\ UNCHANGED <<stop, handler, file, thr, stopReq, running, hot, daemon>>

Unlink ==
  /\ At("unlink")
  /\ file' = FALSE
  /\ UNCHANGED <<stop, handler, thr, stopReq, running, hot, daemon, late>>

\* The sessions and the display are deleted, and the process exits.
Destroy ==
  /\ main = "destroy"
  /\ End("exited")
  /\ UNCHANGED <<file, hot>>

Main ==
  \/ WritePidFile \/ Construct \/ InitOutputs \/ InstallQuitHandler
  \/ \E c \in Child : Spawn(c) \/ StopChild(c)
  \/ LeaveLoop
  \/ \E c \in Awaited : Wait(c)
  \/ Unlink \/ Destroy

-----------------------------------------------------------------------------
ThreadStep(c, from, to) ==
  /\ main \in Alive
  /\ thr[c] = from
  /\ thr' = [thr EXCEPT ![c] = to]
  /\ UNCHANGED <<main, stop, handler, file, stopReq, late>>

Begin(c) ==
  /\ ThreadStep(c, "created", IF c = "smgr" THEN "setup" ELSE "check")
  /\ running' = [running EXCEPT ![c] = TRUE]
  /\ UNCHANGED <<hot, daemon>>

\* display_->init(), before stop_ is looked at.
SetUp ==
  /\ ThreadStep("smgr", "setup", "check")
  /\ UNCHANGED <<running, hot, daemon>>

\* while(!stop_)
Check(c) ==
  /\ ThreadStep(c, "check", IF stopReq[c] THEN "ending" ELSE "body")
  /\ UNCHANGED <<running, hot, daemon>>

\* The web server is started once a second: the one that has the port goes on, but
\* daemon_ becomes null, and it cannot be stopped any more.
StartDaemon ==
  \/ daemon = "none" /\ daemon' \in {"none", "held"}
  \/ daemon \in {"held", "lost"} /\ daemon' = "lost"

\* One iteration; Avahi's loop also ends when its poll fails.
Body(c) ==
  /\ \/ ThreadStep(c, "body", "check")
     \/ c = "avahi" /\ ThreadStep(c, "body", "ending")
  /\ IF c = "smgr" THEN hot' \in BOOLEAN ELSE UNCHANGED hot
  /\ IF c = "http" THEN StartDaemon ELSE UNCHANGED daemon
  /\ UNCHANGED running

\* The sessions are stopped and the display says so; the services are closed.
CleanUp(c) ==
  /\ ThreadStep(c, "ending", "stopped")
  /\ hot' = IF c = "smgr" THEN FALSE ELSE hot
  /\ daemon' = IF c = "http" /\ daemon = "held" THEN "none" ELSE daemon
  /\ UNCHANGED running

\* A mutant of the next definition: isRunning() stays true.
Done_StillRunning(c) ==
  /\ ThreadStep(c, "stopped", "done")
  /\ UNCHANGED <<running, hot, daemon>>

Done(c) ==
  /\ ThreadStep(c, "stopped", "done")
  /\ running' = [running EXCEPT ![c] = FALSE]
  /\ UNCHANGED <<hot, daemon>>

Thread(c) ==
  \/ Begin(c) \/ Check(c) \/ Body(c) \/ CleanUp(c) \/ Done(c)
  \/ c = "smgr" /\ SetUp

-----------------------------------------------------------------------------
\* SIGQUIT; "brewctl stop" finds the process in the pidfile.
Quit ==
  /\ file /\ main \in Alive
  /\ IF handler
       THEN stop' = TRUE /\ UNCHANGED <<main, handler, thr, stopReq, running, daemon, late>>
       ELSE End("dead")
  /\ UNCHANGED <<file, hot>>

Kill ==
  /\ main \in Alive
  /\ End("dead")
  /\ UNCHANGED <<file, hot>>

Next == Start \/ StartFails \/ Main \/ (\E c \in Child : Thread(c)) \/ Quit \/ Kill

Spec == Init /\ [][Next]_vars

\* The main thread and its children are run by the operating system.
FairSpec == Spec /\ WF_vars(Main) /\ \A c \in Child : WF_vars(Thread(c))

-----------------------------------------------------------------------------
\* Nothing heats or cools but under the control of the session manager's
\* thread: not after the program has stopped, not before the thread has begun,
\* and after a program was killed only until ShiftReg::init().
HotIsControlled ==
  hot => \/ thr["smgr"] \in {"check", "body", "ending"}
         \/ main \in BeforeOutputs \cup {"dead"}

\* Once run() has stopped waiting an awaited thread is done, but for one that had not
\* begun when it was last asked; that one sets itself up and cleans up - the session
\* manager's with the display and the sessions that are being deleted - but controls
\* no temperature, starts no server and handles no event.  A server that still
\* answers is one that was lost.
DoneOrLate ==
  main \in PastWait =>
    /\ \A c \in Awaited : thr[c] = "done" \/ (c \in late /\ thr[c] # "body")
    /\ daemon # "held"

\* All threads have ended then, as the comment at the wait says.
ChildrenHaveStopped ==
  main \in PastWait => \A c \in Child : thr[c] = "done"

\* A program that has been told to stop ends, wherever its threads are.
QuitEnds == stop ~> main \in {"exited", "dead"}
=============================================================================
