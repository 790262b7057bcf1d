------------------------------- MODULE PidFile -------------------------------
(***************************************************************************)
(* The pidfile (writePidFile(), readPidFile() of util/sys.cc and their     *)
(* callers in framework/application.cc): processes of the program that are *)
(* started, refuse to start, run, are told to stop by "brewctl stop",      *)
(* fail or are killed.  Every system call is a step of its own.            *)
(*                                                                         *)
(* The file's name refers to an inode, or to nothing; a process that has   *)
(* opened the file keeps its inode whatever becomes of the name.  A pid    *)
(* overwrites another one completely: all have the same number of digits.  *)
(*                                                                         *)
(* killed and raced are history variables: no step depends on them.        *)
(***************************************************************************)
EXTENDS FiniteSets, Naturals

CONSTANTS
  Pid,          \* process IDs; one that has ended is used again
  Inode,        \* inodes that the file may have
  Overlap       \* commands that may be given while another is under way

ASSUME PidFileAssumption ==
  /\ IsFiniteSet(Pid) /\ IsFiniteSet(Inode)
  /\ Cardinality(Inode) > Cardinality(Pid)
  /\ Overlap \subseteq {"start", "stop"}

None == "none"
ASSUME NoneAssumption == None \notin Pid /\ None \notin Inode

VARIABLES
  entry,        \* the inode that the file's name refers to
  content,      \* the pid in each inode; None: it is empty
  pc,           \* where each process is
  fd,           \* the inode each process has open
  seen,         \* the pid each process has read from it
  quit,         \* stop_: the process has been told to stop
  stopCmd,      \* the pid that a "brewctl stop" has read and will signal
  killed,       \* pids of processes that ended while they ran, without removing
                \* the file's name, since it was last removed
  raced         \* some process that lives has started in a race with another

vars == <<entry, content, pc, fd, seen, quit, stopCmd, killed, raced>>

Starting == {"opened", "check", "truncate", "write"}
Passed   == {"truncate", "write"}     \* nobody else runs, it has found
Running  == {"boot", "run"}
Place    == Starting \cup Running \cup {"unlinked", "ended"}

Alive(p) == pc[p] # "ended"

TypeOK ==
  /\ entry \in Inode \cup {None}
  /\ content \in [Inode -> Pid \cup {None}]
  /\ pc \in [Pid -> Place]
  /\ fd \in [Pid -> Inode \cup {None}]
  /\ seen \in [Pid -> Pid \cup {None}]
  /\ quit \in [Pid -> BOOLEAN]
  /\ stopCmd \in Pid \cup {None}
  /\ killed \subseteq Pid
  /\ raced \in BOOLEAN

\* No start is under way; nobody is being stopped.
NoStart == \A p \in Pid : pc[p] \notin Starting
NoStop  == stopCmd = None /\ \A p \in Pid : ~quit[p]

Init ==
  /\ entry = None
  /\ content = [i \in Inode |-> None]
  /\ pc = [p \in Pid |-> "ended"]
  /\ fd = [p \in Pid |-> None]
  /\ seen = [p \in Pid |-> None]
  /\ quit = [p \in Pid |-> FALSE]
  /\ stopCmd = None
  /\ killed = {}
  /\ raced = FALSE

-----------------------------------------------------------------------------
\* The end of process p: its descriptors and its memory are gone.
End(p) ==
  /\ pc' = [pc EXCEPT ![p] = "ended"]
  /\ fd' = [fd EXCEPT ![p] = None]
  /\ seen' = [seen EXCEPT ![p] = None]
  /\ quit' = [quit EXCEPT ![p] = FALSE]

\* open(O_RDWR | O_CREAT)
Open(p) ==
  /\ pc[p] = "ended"
  /\ "start" \in Overlap \/ NoStart
  /\ "stop" \in Overlap \/ NoStop
  /\ \/ entry # None /\ UNCHANGED <<entry, content>>
     \/ /\ entry = None
        /\ entry' \in Inode \ {fd[q] : q \in Pid}
        /\ content' = [content EXCEPT ![entry'] = None]
  /\ fd' = [fd EXCEPT ![p] = entry']
  /\ pc' = [pc EXCEPT ![p] = "opened"]
  /\ UNCHANGED <<seen, quit, stopCmd, killed>>

\* A mutant of the next definition: what is in the file is not looked at.
Read_Ignores(p) ==
  /\ pc[p] = "opened"
  /\ pc' = [pc EXCEPT ![p] = "truncate"]
  /\ UNCHANGED <<entry, content, fd, seen, quit, stopCmd, killed>>

Read(p) ==
  /\ pc[p] = "opened"
  /\ seen' = [seen EXCEPT ![p] = content[fd[p]]]
  /\ pc' = [pc EXCEPT ![p] = IF content[fd[p]] = None THEN "write" ELSE "check"]
  /\ UNCHANGED <<entry, content, fd, quit, stopCmd, killed>>

\* A mutant of the next definition: a start that fails removes the pidfile.
Refuse_Unlinks(p) ==
  pc[p] = "check" /\ Alive(seen[p]) /\ End(p) /\ entry' = None /\ UNCHANGED <<content, stopCmd, killed>>

\* kill(pid, 0) finds a process: ALREADY_RUNNING
Refuse(p) ==
  /\ pc[p] = "check"
  /\ Alive(seen[p])
  /\ End(p)
  /\ UNCHANGED <<entry, content, stopCmd, killed>>

\* kill(pid, 0) finds none: the pid is stale
Stale(p) ==
  /\ pc[p] = "check"
  /\ ~Alive(seen[p])
  /\ pc' = [pc EXCEPT ![p] = "truncate"]
  /\ UNCHANGED <<entry, content, fd, seen, quit, stopCmd, killed>>

Truncate(p) ==
  /\ pc[p] = "truncate"
  /\ content' = [content EXCEPT ![fd[p]] = None]
  /\ pc' = [pc EXCEPT ![p] = "write"]
  /\ UNCHANGED <<entry, fd, seen, quit, stopCmd, killed>>

\* A mutant of the next definition: the descriptor is written, not the pid.
Write_Fd(p) ==
  /\ pc[p] = "write"
  /\ content' = [content EXCEPT ![fd[p]] = fd[p]]
  /\ pc' = [pc EXCEPT ![p] = "boot"]
  /\ fd' = [fd EXCEPT ![p] = None]
  /\ UNCHANGED <<entry, seen, quit, stopCmd, killed>>

\* write() and close()
Write(p) ==
  /\ pc[p] = "write"
  /\ content' = [content EXCEPT ![fd[p]] = p]
  /\ pc' = [pc EXCEPT ![p] = "boot"]
  /\ fd' = [fd EXCEPT ![p] = None]
  /\ UNCHANGED <<entry, seen, quit, stopCmd, killed>>

\* The rest of the start, up to the SIGQUIT handler.
Boot(p) ==
  /\ pc[p] = "boot"
  /\ pc' = [pc EXCEPT ![p] = "run"]
  /\ UNCHANGED <<entry, content, fd, seen, quit, stopCmd, killed>>

\* A system call or the rest of the start fails, or the process is killed.
Die(p) ==
  /\ Alive(p)
  /\ End(p)
  /\ killed' = IF pc[p] \in Running THEN killed \cup {p} ELSE killed
  /\ UNCHANGED <<entry, content, stopCmd>>

\* A mutant of the next definition: the file is not removed.
Unlink_Keeps(p) ==
  /\ pc[p] = "run"
  /\ quit[p]
  /\ killed' = {}
  /\ pc' = [pc EXCEPT ![p] = "unlinked"]
  /\ UNCHANGED <<entry, content, fd, seen, quit, stopCmd>>

\* The end of run(), once the threads have stopped.
Unlink(p) ==
  /\ pc[p] = "run"
  /\ quit[p]
  /\ entry' = None
  /\ killed' = {}
  /\ pc' = [pc EXCEPT ![p] = "unlinked"]
  /\ UNCHANGED <<content, fd, seen, quit, stopCmd>>

Exit(p) ==
  /\ pc[p] = "unlinked"
  /\ End(p)
  /\ UNCHANGED <<entry, content, stopCmd, killed>>

\* "brewctl stop" reads the pidfile ...
StopRead ==
  /\ stopCmd = None
  /\ "stop" \in Overlap \/ (NoStart /\ NoStop)
  /\ entry # None
  /\ stopCmd' = content[entry]
  /\ UNCHANGED <<entry, content, pc, fd, seen, quit, killed>>

\* ... and sends SIGQUIT, which kills a process that has no handler yet.
StopSignal ==
  /\ stopCmd # None
  /\ stopCmd' = None
  /\ IF Alive(stopCmd) /\ pc[stopCmd] \notin {"run", "unlinked"}
       THEN /\ End(stopCmd)
            /\ killed' = IF pc[stopCmd] \in Running THEN killed \cup {stopCmd} ELSE killed
       ELSE /\ quit' = [quit EXCEPT ![stopCmd] = @ \/ Alive(stopCmd)]
            /\ UNCHANGED <<pc, fd, seen, killed>>
  /\ UNCHANGED <<entry, content>>

\* A process has found that nobody else runs, while the file it has open is no longer
\* the one of that name, or while another one has read the file before it is written.
Race ==
  \E p \in Pid :
    /\ pc[p] \in Passed
    /\ fd[p] # entry \/ \E q \in Pid \ {p} : pc[q] \in Passed \cup {"check"}

Step ==
  \/ \E p \in Pid : Open(p) \/ Read(p) \/ Refuse(p) \/ Stale(p) \/ Truncate(p) \/ Write(p)
                      \/ Boot(p) \/ Die(p) \/ Unlink(p) \/ Exit(p)
  \/ StopRead
  \/ StopSignal

Next ==
  /\ Step
  /\ raced' = ((\E p \in Pid : Alive(p)') /\ (raced \/ Race'))

Spec == Init /\ [][Next]_vars

-----------------------------------------------------------------------------
\* At most one process has got past the pidfile and drives the outputs
\* (writePidFile() before Registry::init()), however commands overlap - unless two
\* processes have read the file before either wrote its pid, or one has written it
\* into a file whose name was removed after it had opened it.
OneRunning ==
  raced \/ \A p, q \in Pid : pc[p] \in Running /\ pc[q] \in Running => p = q

\* As long as a process runs the pidfile has its pid, so that "brewctl stop"
\* reaches it; but for the same races.
RunnerIsNamed ==
  raced \/ \A p \in Pid : pc[p] \in Running => entry # None /\ content[entry] = p

\* A start is only refused because of a process that runs, or of one that has been
\* given the pid of a process that was killed (the kill() of writePidFile()), or
\* because it opened the file before its name was removed.  Races change nothing of that.
RefusedForRunner ==
  [][\A p \in Pid : Refuse(p) =>
       \/ pc[seen[p]] \in Running
       \/ Alive(seen[p]) /\ seen[p] \in killed
       \/ fd[p] # entry]_vars

-----------------------------------------------------------------------------
\* sys.cc:303: "At this point, we can be confident that the PID file is open and
\* empty, and we are the only running process of our type."
WriterIsAlone ==
  \A p, q \in Pid : pc[p] = "write" /\ pc[q] \in Running => p = q
=============================================================================
