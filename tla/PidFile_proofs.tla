--------------------------- MODULE PidFile_proofs ----------------------------
(***************************************************************************)
(* Proofs about the pidfile, for any process IDs and inodes, and for every *)
(* overlap of the commands that start and stop the program.                *)
(***************************************************************************)
EXTENDS PidFile, TLAPS

\* A process that is being started has the file open.
HasFd == \A p \in Pid : pc[p] \in Starting => fd[p] # None

\* What a process checks is a pid.
SeenIsPid == \A p \in Pid : pc[p] = "check" => seen[p] \in Pid

\* raced says whether there has been a race.
RaceNoted == Race => raced

\* Whoever is remembered in the file runs, or was killed.
NamedRanOrDied ==
  entry # None /\ content[entry] # None =>
    pc[content[entry]] \in Running \/ content[entry] \in killed

\* So did whoever has been read from it, unless the file's name has gone.
SeenRanOrDied ==
  \A p \in Pid : pc[p] = "check" =>
    pc[seen[p]] \in Running \/ seen[p] \in killed \/ fd[p] # entry

\* The invariant that no race can disturb.
AInv == TypeOK /\ HasFd /\ SeenIsPid /\ RaceNoted /\ NamedRanOrDied /\ SeenRanOrDied

\* A process that has found nobody else is right.
NobodyRuns == \A p, q \in Pid : pc[p] \in Passed => pc[q] \notin Running

\* Whoever has read the file while a process runs has read of that one.
RunnerIsSeen ==
  \A p, q \in Pid : pc[p] = "check" /\ pc[q] \in Running => seen[p] = q \/ fd[p] # entry

Named == \A p \in Pid : pc[p] \in Running => entry # None /\ content[entry] = p

\* The inductive invariant: what holds as long as there has been no race.
Orderly == NobodyRuns /\ RunnerIsSeen /\ Named
IInv    == AInv /\ (raced \/ Orderly)

-----------------------------------------------------------------------------
\* The initial state satisfies the invariant: no process has been started.
LEMMA InitInv == Init => IInv
BY NoneAssumption DEF Init, IInv, AInv, Orderly, HasFd, SeenIsPid, RaceNoted, Race, TypeOK,
   NamedRanOrDied, SeenRanOrDied, NobodyRuns, RunnerIsSeen, Named, Starting, Passed, Running, Place

\* The type of the state is kept by every step (all of writePidFile(), run() and
\* sendSignal()), and so is what is known of a process that is being started.
LEMMA TypeStep ==
  ASSUME AInv, [Next]_vars
  PROVE  TypeOK' /\ HasFd' /\ SeenIsPid' /\ RaceNoted'
<1> USE NoneAssumption DEF AInv, HasFd, SeenIsPid, TypeOK, Place, Starting, Running
<1> DEFINE Rest == /\ entry' \in Inode \cup {None}
                   /\ content' \in [Inode -> Pid \cup {None}]
                   /\ pc' \in [Pid -> Place]
                   /\ fd' \in [Pid -> Inode \cup {None}]
                   /\ seen' \in [Pid -> Pid \cup {None}]
                   /\ quit' \in [Pid -> BOOLEAN]
                   /\ stopCmd' \in Pid \cup {None}
                   /\ killed' \subseteq Pid
                   /\ HasFd' /\ SeenIsPid'
<1>1. ASSUME NEW p \in Pid, Open(p) PROVE Rest
  BY <1>1 DEF Open
<1>2. ASSUME NEW p \in Pid, Read(p) PROVE Rest
  <2>1. content[fd[p]] \in Pid \cup {None}
    BY <1>2 DEF Read
  <2> QED BY <1>2, <2>1 DEF Read
<1>e. ASSUME NEW p \in Pid, End(p), UNCHANGED <<entry, content>>, stopCmd' \in Pid \cup {None},
             killed' \subseteq Pid
      PROVE  Rest
  <2>1. /\ pc' \in [Pid -> Place] /\ fd' \in [Pid -> Inode \cup {None}]
        /\ seen' \in [Pid -> Pid \cup {None}] /\ quit' \in [Pid -> BOOLEAN]
    BY <1>e DEF End
  <2>2. HasFd' /\ SeenIsPid'
    BY <1>e DEF End
  <2> QED BY <1>e, <2>1, <2>2
<1>3. ASSUME NEW p \in Pid, Refuse(p) \/ Exit(p) PROVE Rest
  BY <1>3, <1>e DEF Refuse, Exit
<1>4. ASSUME NEW p \in Pid, Die(p) PROVE Rest
  BY <1>4, <1>e DEF Die
<1>5. ASSUME NEW p \in Pid, Stale(p) \/ Boot(p) \/ Unlink(p) PROVE Rest
  BY <1>5 DEF Stale, Boot, Unlink
<1>6. ASSUME NEW p \in Pid, Truncate(p) \/ Write(p) PROVE Rest
  BY <1>6 DEF Truncate, Write
<1>7. ASSUME StopRead PROVE Rest
  BY <1>7 DEF StopRead
<1>8. ASSUME StopSignal PROVE Rest
  <2>1. CASE End(stopCmd)
    <3>1. /\ stopCmd \in Pid /\ stopCmd' = None /\ UNCHANGED <<entry, content>>
          /\ killed' \subseteq Pid
      BY <1>8 DEF StopSignal
    <3> QED BY <2>1, <3>1, <1>e
  <2>2. CASE /\ quit' = [quit EXCEPT ![stopCmd] = @ \/ Alive(stopCmd)]
             /\ UNCHANGED <<pc, fd, seen, killed>>
    <3>1. UNCHANGED <<entry, content, pc, fd, seen, killed>> /\ stopCmd' = None
      BY <1>8, <2>2 DEF StopSignal
    <3>2. quit' \in [Pid -> BOOLEAN]
      <4>1. (quit[stopCmd] \/ Alive(stopCmd)) \in BOOLEAN
        BY <1>8 DEF StopSignal
      <4> QED BY <2>2, <4>1
    <3> QED BY <3>1, <3>2
  <2> QED BY <1>8, <2>1, <2>2 DEF StopSignal
<1>9. ASSUME UNCHANGED vars PROVE Rest
  BY <1>9 DEF vars
<1>10. Rest
  BY <1>1, <1>2, <1>3, <1>4, <1>5, <1>6, <1>7, <1>8, <1>9 DEF Next, Step
<1>11. raced' \in BOOLEAN /\ RaceNoted'
  <2>1. CASE Next
    <3>1. Race' => (\E p \in Pid : Alive(p)')
      BY DEF Race, Passed, Alive
    <3> QED BY <2>1, <3>1 DEF Next, RaceNoted
  <2>2. CASE UNCHANGED vars
    BY <2>2 DEF vars, RaceNoted, Race
  <2> QED BY <2>1, <2>2
<1> QED BY <1>10, <1>11

\* Every step keeps what is known of pids in the file, races or not: only a process
\* that is killed leaves its pid behind in a file that has its name.
LEMMA LeftStep ==
  ASSUME AInv, [Next]_vars
  PROVE  NamedRanOrDied' /\ SeenRanOrDied'
<1> DEFINE Rest == NamedRanOrDied' /\ SeenRanOrDied'
<1> USE NoneAssumption DEF AInv, TypeOK, HasFd, SeenIsPid, NamedRanOrDied, SeenRanOrDied,
                           Starting, Running, Place
<1>1. ASSUME NEW p \in Pid, Open(p) PROVE Rest
  <2>1. /\ pc' = [pc EXCEPT ![p] = "opened"] /\ pc[p] = "ended"
        /\ fd' = [fd EXCEPT ![p] = entry'] /\ UNCHANGED <<seen, killed>>
    BY <1>1 DEF Open
  <2>2. CASE UNCHANGED <<entry, content>>
    BY <2>1, <2>2
  <2>3. CASE /\ entry' \in Inode \ {fd[q] : q \in Pid}
             /\ content' = [content EXCEPT ![entry'] = None]
    BY <2>1, <2>3
  <2> QED BY <1>1, <2>2, <2>3 DEF Open
<1>2. ASSUME NEW p \in Pid, Read(p) PROVE Rest
  BY <1>2 DEF Read
<1>3. ASSUME NEW p \in Pid, Refuse(p) \/ Exit(p) PROVE Rest
  BY <1>3 DEF Refuse, Exit, End
<1>4. ASSUME NEW p \in Pid, Die(p) PROVE Rest
  BY <1>4 DEF Die, End
<1>5. ASSUME NEW p \in Pid, Stale(p) \/ Boot(p) PROVE Rest
  BY <1>5 DEF Stale, Boot
<1>6. ASSUME NEW p \in Pid, Unlink(p) PROVE Rest
  BY <1>6 DEF Unlink
<1>7. ASSUME NEW p \in Pid, Truncate(p) \/ Write(p) PROVE Rest
  BY <1>7 DEF Truncate, Write
<1>8. CASE StopRead
  BY <1>8 DEF StopRead
<1>9. CASE StopSignal
  BY <1>9 DEF StopSignal, End
<1>10. CASE UNCHANGED vars
  BY <1>10 DEF vars
<1> QED BY <1>1, <1>2, <1>3, <1>4, <1>5, <1>6, <1>7, <1>8, <1>9, <1>10 DEF Next, Step

\* A process whose name goes with the file's: a race that is over leaves no trace.
LEMMA FreshStart ==
  ASSUME TypeOK', \A p \in Pid : ~Alive(p)'
  PROVE  Orderly'
BY DEF Orderly, NobodyRuns, RunnerIsSeen, Named, Alive, Passed, Running

\* Every step that is no race keeps the rest of the invariant (the order of the
\* system calls of writePidFile()).
LEMMA OrderlyStep ==
  ASSUME AInv, Orderly, ~Race, Step, ~Race', TypeOK'
  PROVE  Orderly'
<1> USE NoneAssumption DEF AInv, TypeOK, HasFd, SeenIsPid, Starting, Passed, Running, Place
<1>0. /\ \A p \in Pid : pc[p] \in Passed =>
           fd[p] = entry /\ entry \in Inode /\ \A q \in Pid \ {p} : pc[q] \notin Passed \cup {"check"}
      /\ \A p \in Pid : pc'[p] \in Passed => fd'[p] = entry'
  BY DEF Race
<1>1. ASSUME NEW p \in Pid, Open(p) PROVE Orderly'
  <2>1. /\ pc' = [pc EXCEPT ![p] = "opened"] /\ pc[p] = "ended"
        /\ fd' = [fd EXCEPT ![p] = entry'] /\ UNCHANGED seen
        /\ entry # None => UNCHANGED <<entry, content>>
        /\ entry = None => entry' \in Inode \ {fd[q] : q \in Pid}
    BY <1>1 DEF Open
  <2>2. NobodyRuns'
    BY <2>1 DEF Orderly, NobodyRuns
  <2>3. RunnerIsSeen' /\ Named'
    BY <2>1 DEF Orderly, RunnerIsSeen, Named
  <2> QED BY <2>2, <2>3 DEF Orderly
<1>2. ASSUME NEW p \in Pid, Read(p) PROVE Orderly'
  <2>1. /\ pc[p] = "opened" /\ fd[p] \in Inode
        /\ seen' = [seen EXCEPT ![p] = content[fd[p]]]
        /\ pc' = [pc EXCEPT ![p] = IF content[fd[p]] = None THEN "write" ELSE "check"]
        /\ UNCHANGED <<entry, content, fd>>
    BY <1>2 DEF Read
  <2>2. ASSUME content[fd[p]] = None, NEW q \in Pid PROVE pc[q] \notin Running
    <3>1. fd[p] = entry
      BY <1>0, <2>1, <2>2
    <3> QED BY <3>1, <2>2 DEF Orderly, Named
  <2>3. NobodyRuns'
    BY <2>1, <2>2 DEF Orderly, NobodyRuns
  <2>4. RunnerIsSeen' /\ Named'
    BY <2>1 DEF Orderly, RunnerIsSeen, Named
  <2> QED BY <2>3, <2>4 DEF Orderly
<1>3. ASSUME NEW p \in Pid, Refuse(p) \/ Die(p) \/ Exit(p) PROVE Orderly'
  <2>1. End(p) /\ UNCHANGED <<entry, content>>
    BY <1>3 DEF Refuse, Die, Exit
  <2> QED BY <2>1 DEF End, Orderly, NobodyRuns, RunnerIsSeen, Named
<1>4. ASSUME NEW p \in Pid, Stale(p) PROVE Orderly'
  <2>1. /\ pc[p] = "check" /\ pc[seen[p]] = "ended" /\ pc' = [pc EXCEPT ![p] = "truncate"]
        /\ UNCHANGED <<entry, content, fd, seen>>
    BY <1>4 DEF Stale, Alive
  <2>2. fd[p] = entry
    BY <2>1, <1>0
  <2>3. \A q \in Pid : pc[q] \notin Running  \* who runs has been seen, who was seen has ended
    BY <2>1, <2>2 DEF Orderly, RunnerIsSeen
  <2> QED BY <2>1, <2>3 DEF Orderly, NobodyRuns, RunnerIsSeen, Named
<1>5. ASSUME NEW p \in Pid, Truncate(p) PROVE Orderly'
  <2>1. /\ pc[p] = "truncate" /\ pc' = [pc EXCEPT ![p] = "write"]
        /\ content' = [content EXCEPT ![fd[p]] = None]
        /\ UNCHANGED <<entry, fd, seen>>
    BY <1>5 DEF Truncate
  <2>2. \A q \in Pid : pc[q] \notin Running
    BY <2>1 DEF Orderly, NobodyRuns
  <2> QED BY <2>1, <2>2 DEF Orderly, NobodyRuns, RunnerIsSeen, Named
<1>6. ASSUME NEW p \in Pid, Write(p) PROVE Orderly'
  <2>1. /\ pc[p] = "write" /\ pc' = [pc EXCEPT ![p] = "boot"]
        /\ content' = [content EXCEPT ![fd[p]] = p]
        /\ fd' = [fd EXCEPT ![p] = None]
        /\ UNCHANGED <<entry, seen>>
    BY <1>6 DEF Write
  <2>2. /\ fd[p] = entry /\ entry \in Inode
        /\ \A q \in Pid \ {p} : pc[q] \notin Passed \cup {"check"} \cup Running
    BY <2>1, <1>0 DEF Orderly, NobodyRuns
  <2> QED BY <2>1, <2>2 DEF Orderly, NobodyRuns, RunnerIsSeen, Named
<1>7. ASSUME NEW p \in Pid, Boot(p) PROVE Orderly'
  BY <1>7 DEF Boot, Orderly, NobodyRuns, RunnerIsSeen, Named
<1>8. ASSUME NEW p \in Pid, Unlink(p) PROVE Orderly'
  <2>1. /\ pc[p] = "run" /\ entry' = None /\ pc' = [pc EXCEPT ![p] = "unlinked"]
        /\ UNCHANGED <<content, fd, seen>>
    BY <1>8 DEF Unlink
  <2>2. \A q \in Pid : pc[q] \in Running => q = p  \* nobody else is named
    BY <2>1 DEF Orderly, Named
  <2> QED BY <2>1, <2>2 DEF Orderly, NobodyRuns, RunnerIsSeen, Named
<1>9. CASE StopRead
  BY <1>9 DEF StopRead, Orderly, NobodyRuns, RunnerIsSeen, Named
<1>10. CASE StopSignal
  BY <1>10 DEF StopSignal, End, Alive, Orderly, NobodyRuns, RunnerIsSeen, Named
<1> QED BY <1>1, <1>2, <1>3, <1>4, <1>5, <1>6, <1>7, <1>8, <1>9, <1>10 DEF Step

\* Every step keeps the invariant.
LEMMA StepInv == IInv /\ [Next]_vars => IInv'
<1> SUFFICES ASSUME IInv, [Next]_vars PROVE IInv'
  OBVIOUS
<1>1. AInv'
  BY TypeStep, LeftStep DEF IInv, AInv
<1>2. CASE Next
  <2>1. raced' = ((\E p \in Pid : Alive(p)') /\ (raced \/ Race')) /\ Step
    BY <1>2 DEF Next
  <2>2. CASE raced'
    BY <1>1, <2>2 DEF IInv
  <2>3. CASE ~raced' /\ \A p \in Pid : ~Alive(p)'
    BY <1>1, <2>3, FreshStart DEF IInv, AInv
  <2>4. CASE ~raced' /\ \E p \in Pid : Alive(p)'
    <3>1. ~raced /\ ~Race' /\ ~Race
      BY <2>1, <2>4 DEF IInv, AInv, RaceNoted
    <3> QED BY <1>1, <2>1, <3>1, OrderlyStep DEF IInv, AInv
  <2> QED BY <2>2, <2>3, <2>4
<1>3. CASE UNCHANGED vars
  BY <1>1, <1>3 DEF vars, IInv, Orderly, NobodyRuns, RunnerIsSeen, Named
<1> QED BY <1>2, <1>3

\* The strengthened invariant holds for ever.
LEMMA InvHolds == Spec => []IInv
BY InitInv, StepInv, PTL DEF Spec

-----------------------------------------------------------------------------
\* At most one process drives the outputs, whatever fails or is killed and however
\* starts and stops overlap, unless two have read the pidfile before either wrote it
\* or one has written a file that has lost its name (writePidFile()).
THEOREM RunsOnce == Spec => []OneRunning
<1>1. IInv => OneRunning
  BY DEF IInv, Orderly, Named, OneRunning
<1> QED BY InvHolds, <1>1, PTL

\* But for the same races the pidfile always names the process that runs
\* (writePidFile(), the unlink() at the end of Application::run()).
THEOREM PidFileNamesRunner == Spec => []RunnerIsNamed
<1>1. IInv => RunnerIsNamed
  BY DEF IInv, Orderly, Named, RunnerIsNamed
<1> QED BY InvHolds, <1>1, PTL

\* The state of the pidfile and of the processes always has its type
\* (writePidFile(), readPidFile()).
THEOREM TypeCorrect == Spec => []TypeOK
<1>1. IInv => TypeOK
  BY DEF IInv, AInv
<1> QED BY InvHolds, <1>1, PTL

\* A start is only refused because of a process that runs, of one that has the pid of
\* a killed one, or because the name of the file it has read is gone (the kill() of
\* writePidFile()).  Not even a race makes two starts refuse one another.
THEOREM RefusalsAreDue == Spec => RefusedForRunner
<1>1. IInv /\ [Next]_vars =>
        [\A p \in Pid : Refuse(p) => \/ pc[seen[p]] \in Running
                                     \/ Alive(seen[p]) /\ seen[p] \in killed
                                     \/ fd[p] # entry]_vars
  BY DEF IInv, AInv, SeenRanOrDied, Refuse
<1> QED BY InvHolds, <1>1, PTL DEF RefusedForRunner, Spec
=============================================================================
