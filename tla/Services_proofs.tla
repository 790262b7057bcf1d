--------------------------- MODULE Services_proofs ---------------------------
(* Proofs about the services: the announcement, for any number of names, of    *)
(* changes of the host's name and of calls that fail; the HTTP service, for    *)
(* any requests; and that a behaviour of the services is one of each of them,  *)
(* so that what has been proved of each holds here.                            *)
EXTENDS Services, JsonRefs_proofs, SequenceTheorems

\* What is assumed of the names and the states of the daemon.
LEMMA AvahiConstants == /\ MaxName \in Nat \ {0} /\ Local \subseteq 1 .. MaxName
                        /\ MaxHostChanges \in Nat /\ MaxFaults \in Nat
BY ServicesAssumption DEF Avahi!AvahiAssumption


States   == {"registering", "running", "collision", "gone"}
Events   == States \cup {"groupCollision", "groupFailure"}
GStates  == {"uncommitted", "registering", "established", "collision", "failure"}
Polls    == {"new", "created", "polling", "ended", "destroyed"}

\* What was announced are names so far, and one at most while the poll loop goes on.
Announced == /\ cname \in Nat \ {0} /\ gstate \in GStates /\ halt \in BOOLEAN
             /\ entries \subseteq 1 .. cname
             /\ \A n, m \in entries : n = m \/ halt

\* What is allocated is what a pointer shows, until the destructor frees it; a client
\* that is there has its poll object and its name.
Allocated == /\ poll \in Polls
             /\ ptr \in [Avahi!Resources -> BOOLEAN] /\ live \in [Avahi!Resources -> 0 .. 1]
             /\ poll \in {"created", "polling"} => \A r \in Avahi!Resources : ptr[r]
             /\ \A r \in Avahi!Resources : live[r] = (IF ptr[r] /\ poll # "destroyed" THEN 1 ELSE 0)

\* The types of the other variables of the announcement.
Rest == /\ group \in BOOLEAN /\ server \in States
        /\ inbox \in Seq(Events) /\ taken \subseteq 1 .. MaxName
        /\ left \in [host : 0 .. MaxHostChanges, faults : 0 .. MaxFaults]

\* The invariant of the announcement.
AvahiInv == Announced /\ Allocated /\ Rest

\* A call that fails takes one of the faults that are left.
LEMMA FaultLeft ==
    ASSUME left \in [host : 0 .. MaxHostChanges, faults : 0 .. MaxFaults], Avahi!Fault \/ UNCHANGED left
    PROVE  left' \in [host : 0 .. MaxHostChanges, faults : 0 .. MaxFaults]
BY AvahiConstants DEF Avahi!Fault

\* createService(n) announces n, takes what was announced back, or leaves it; it adds n to
\* what was announced only where it gives up.
LEMMA CreateServiceInv ==
    ASSUME Rest, gstate \in GStates, halt \in BOOLEAN, NEW n \in Nat \ {0}, Avahi!CreateService(n)
    PROVE  /\ \/ entries' = entries \/ entries' = {} \/ entries' = {n}
              \/ entries' = entries \cup {n} /\ halt'
           /\ gstate' \in GStates
           /\ halt' \in BOOLEAN /\ (halt => halt') /\ group' \in BOOLEAN
           /\ Avahi!Fault \/ UNCHANGED left
<1>1. CASE ~group /\ Avahi!Fault /\ halt' = TRUE /\ UNCHANGED <<group, entries, gstate>>
    BY <1>1 DEF Rest
<1>2. CASE entries # {} /\ group' = TRUE /\ UNCHANGED <<halt, entries, gstate, left>>
    BY <1>2 DEF Rest
<1>3. CASE group' = TRUE /\ UNCHANGED <<halt, entries, gstate, left>>
    BY <1>3 DEF Rest
<1>4. CASE group' = TRUE /\ entries' = {n} /\ gstate' = "registering" /\ UNCHANGED <<halt, left>>
    BY <1>4 DEF Rest, GStates
<1>5. CASE /\ group' = TRUE /\ halt' = TRUE
           /\ IF server = "gone" \/ gstate = "failure" THEN UNCHANGED left ELSE Avahi!Fault
           /\ entries' \in (IF server = "gone" THEN {{}} ELSE {{}, {n}})
           /\ UNCHANGED gstate
    BY <1>5
<1>6. CASE /\ entries # {} /\ group' = TRUE /\ Avahi!Fault
           /\ \/ UNCHANGED <<halt, entries>>
              \/ halt' = TRUE /\ entries' \in {entries, entries \cup {n}}
           /\ UNCHANGED gstate
    <2>1. CASE UNCHANGED <<halt, entries>>
        BY <1>6, <2>1
    <2>2. CASE halt' = TRUE /\ entries' \in {entries, entries \cup {n}}
        BY <1>6, <2>2
    <2> QED BY <1>6, <2>1, <2>2
<1> QED BY <1>1, <1>2, <1>3, <1>4, <1>5, <1>6 DEF Avahi!CreateService

\* clientCallback() announces the service's own name, takes it back, or leaves it.
LEMMA ClientCallbackInv ==
    ASSUME AvahiInv, NEW state \in Events, Avahi!ClientCallback(state)
    PROVE  /\ \/ entries' = entries \/ entries' = {} \/ entries' = {cname}
              \/ entries' = entries \cup {cname} /\ halt'
           /\ gstate' \in GStates
           /\ halt' \in BOOLEAN /\ (halt => halt') /\ group' \in BOOLEAN
           /\ Avahi!Fault \/ UNCHANGED left
<1>1. CASE state = "running" /\ Avahi!CreateService(cname)
    BY <1>1, CreateServiceInv DEF AvahiInv, Announced
<1>2. CASE entries' = {} /\ gstate' = "uncommitted" /\ UNCHANGED <<halt, group, left>>
    BY <1>2 DEF AvahiInv, Announced, Rest, GStates
<1>3. CASE UNCHANGED <<halt, group, entries, gstate, left>>
    BY <1>3 DEF AvahiInv, Announced, Rest
<1> QED BY <1>1, <1>2, <1>3 DEF Avahi!ClientCallback

\* At first nothing is allocated and nothing announced.
LEMMA AvahiInit == Avahi!Init => AvahiInv
<1> SUFFICES ASSUME Avahi!Init PROVE AvahiInv
    OBVIOUS
<1>1. Announced
    <2>1. entries = {} /\ halt = FALSE
        BY DEF Avahi!Init
    <2>2. cname \in Nat \ {0} /\ gstate \in GStates
        BY DEF Avahi!Init, GStates
    <2> QED BY <2>1, <2>2 DEF Announced
<1>2. Allocated
    BY DEF Avahi!Init, Allocated, Polls
<1>3. Rest
    <2>1. inbox \in Seq(Events)
        BY DEF Avahi!Init
    <2>2. left \in [host : 0 .. MaxHostChanges, faults : 0 .. MaxFaults]
        BY AvahiConstants DEF Avahi!Init
    <2>3. taken \subseteq 1 .. MaxName
        BY AvahiConstants DEF Avahi!Init
    <2> QED BY <2>1, <2>2, <2>3 DEF Avahi!Init, Rest, States
<1> QED BY <1>1, <1>2, <1>3 DEF AvahiInv

\* No step announces a second name.
LEMMA AnnouncedStep ==
    ASSUME AvahiInv, [Avahi!Next]_(Avahi!vars)
    PROVE  Announced'
<1> USE DEF Announced
<1>0. ASSUME NEW n \in 1 .. cname', cname' \in {cname, cname + 1}, gstate' \in GStates,
             halt' \in BOOLEAN, halt => halt',
             \/ entries' = entries \/ entries' = {} \/ entries' = {n}
             \/ entries' = entries \cup {n} /\ halt'
      PROVE  Announced'
    <2>1. cname \in Nat \ {0} /\ cname' \in Nat \ {0} /\ entries \subseteq 1 .. cname'
        BY <1>0 DEF AvahiInv
    <2>2. entries' \subseteq 1 .. cname'
        BY <1>0, <2>1
    <2>3. \A i, j \in entries : i = j \/ halt
        BY DEF AvahiInv
    <2>4. \A i, j \in entries' : i = j \/ halt'
        <3>1. CASE halt'
            BY <3>1
        <3>2. CASE ~halt'
            <4>1. entries' = entries \/ entries' = {} \/ entries' = {n}
                BY <1>0, <3>2
            <4>2. \A i, j \in entries : i = j
                BY <1>0, <2>3, <3>2
            <4> QED BY <4>1, <4>2
        <3> QED BY <3>1, <3>2
    <2> QED BY <1>0, <2>1, <2>2, <2>4
<1>1. CASE Avahi!Construct
    <2>1. server \in Events /\ Avahi!ClientCallback(server) /\ cname' = cname
        BY <1>1 DEF Avahi!Construct, AvahiInv, Rest, Events
    <2>2. cname \in 1 .. cname'
        BY <2>1 DEF AvahiInv
    <2> QED BY <1>0, <2>1, <2>2, ClientCallbackInv
<1>2. CASE Avahi!OnClient
    <2>1. Head(inbox) \in Events /\ Avahi!ClientCallback(Head(inbox)) /\ cname' = cname
        BY <1>2 DEF Avahi!OnClient, AvahiInv, Rest
    <2>2. cname \in 1 .. cname'
        BY <2>1 DEF AvahiInv
    <2> QED BY <1>0, <2>1, <2>2, ClientCallbackInv
<1>3. CASE Avahi!OnGroupCollision
    <2>1. cname' = cname + 1 /\ Avahi!CreateService(cname + 1) /\ cname + 1 \in Nat \ {0}
        BY <1>3 DEF Avahi!OnGroupCollision, AvahiInv
    <2>2. /\ \/ entries' = entries \/ entries' = {} \/ entries' = {cname + 1}
             \/ entries' = entries \cup {cname + 1} /\ halt'
          /\ halt' \in BOOLEAN /\ (halt => halt')
        BY <2>1, CreateServiceInv DEF AvahiInv
    <2>3. gstate' \in GStates
        BY <2>1, CreateServiceInv DEF AvahiInv
    <2>4. cname + 1 \in 1 .. cname'
        BY <2>1
    <2> QED BY <1>0, <2>1, <2>2, <2>3, <2>4
<1>4. CASE Avahi!Leave \/ Avahi!Destroy
    BY <1>4 DEF Avahi!Leave, Avahi!Destroy, AvahiInv, GStates
<1>5. CASE Avahi!DaemonGone \/ Avahi!Probed \/ Avahi!NameTaken \/ Avahi!GroupFails
    <2>1. UNCHANGED <<cname, halt>> /\ (entries' = {} \/ entries' = entries) /\ gstate' \in GStates
        BY <1>5 DEF Avahi!DaemonGone, Avahi!Probed, Avahi!NameTaken, Avahi!GroupFails, GStates,
                    Avahi!object
    <2> QED BY <2>1 DEF AvahiInv
<1>6. CASE UNCHANGED <<cname, gstate, entries>> /\ (halt' = halt \/ halt' = TRUE)
    BY <1>6 DEF AvahiInv
<1> QED BY <1>1, <1>2, <1>3, <1>4, <1>5, <1>6 DEF Avahi!Next, Avahi!Thread, Avahi!Daemon, Avahi!Begin,
    Avahi!ConstructFails, Avahi!OnGroupFailure, Avahi!RequestStop, Avahi!HostState, Avahi!vars, Avahi!object, Avahi!daemon

\* Every step keeps what is allocated in line with the pointers.
LEMMA AllocatedStep ==
    ASSUME AvahiInv, [Avahi!Next]_(Avahi!vars)
    PROVE  Allocated'
<1> USE DEF Allocated, Polls
<1>1. CASE Avahi!Construct
    BY <1>1 DEF Avahi!Construct
<1>2. CASE Avahi!ConstructFails
    <2>1. PICK had \in {{}, {"cname"}} :
            /\ ptr' = [r \in Avahi!Resources |-> r \in had]
            /\ live' = [r \in Avahi!Resources |-> IF r \in had THEN 1 ELSE 0]
        BY <1>2 DEF Avahi!ConstructFails
    <2>2. poll' = "ended"
        BY <1>2 DEF Avahi!ConstructFails
    <2>3. ptr' \in [Avahi!Resources -> BOOLEAN]
        <3>1. \A r \in Avahi!Resources : (r \in had) \in BOOLEAN
            OBVIOUS
        <3> QED BY <2>1, <3>1
    <2>4. live' \in [Avahi!Resources -> 0 .. 1]
        BY <2>1
    <2>5. \A r \in Avahi!Resources : live'[r] = (IF ptr'[r] THEN 1 ELSE 0)
        BY <2>1
    <2> QED BY <2>2, <2>3, <2>4, <2>5
<1>3. CASE Avahi!Begin
    BY <1>3 DEF Avahi!Begin, AvahiInv
<1>4. CASE Avahi!Leave
    <2>1. poll = "polling" /\ poll' = "ended"
          /\ ptr' = [ptr EXCEPT !["client"] = FALSE, !["simplePoll"] = FALSE]
          /\ live' = [live EXCEPT !["client"] = @ - 1, !["simplePoll"] = @ - 1]
        BY <1>4 DEF Avahi!Leave
    <2>2. \A r \in Avahi!Resources : ptr[r] /\ live[r] = 1
        BY <2>1 DEF AvahiInv
    <2>3. ptr \in [Avahi!Resources -> BOOLEAN] /\ live \in [Avahi!Resources -> 0 .. 1]
        BY DEF AvahiInv
    <2>4. \A r \in Avahi!Resources : ptr'[r] = (r = "cname")
        BY <2>1, <2>2, <2>3 DEF Avahi!Resources
    <2>5. \A r \in Avahi!Resources : live'[r] = (IF r = "cname" THEN 1 ELSE 0)
        BY <2>1, <2>2, <2>3 DEF Avahi!Resources
    <2>6. ptr' \in [Avahi!Resources -> BOOLEAN]
        BY <2>1, <2>3
    <2>7. live' \in [Avahi!Resources -> 0 .. 1]
        BY <2>1, <2>2, <2>3 DEF Avahi!Resources
    <2> QED BY <2>1, <2>4, <2>5, <2>6, <2>7
<1>5. CASE Avahi!Destroy
    <2>1. poll # "destroyed" /\ poll' = "destroyed" /\ UNCHANGED ptr
          /\ live' = [r \in Avahi!Resources |-> IF ptr[r] THEN live[r] - 1 ELSE live[r]]
        BY <1>5 DEF Avahi!Destroy
    <2>2. \A r \in Avahi!Resources : live'[r] = 0
        BY <2>1 DEF AvahiInv
    <2> QED BY <2>1, <2>2 DEF AvahiInv
<1>6. CASE UNCHANGED <<poll, ptr, live>>
    BY <1>6 DEF AvahiInv
<1> QED BY <1>1, <1>2, <1>3, <1>4, <1>5, <1>6 DEF Avahi!Next, Avahi!Thread, Avahi!Daemon, Avahi!OnClient,
    Avahi!OnGroupCollision, Avahi!OnGroupFailure, Avahi!GroupFails, Avahi!RequestStop, Avahi!HostState,
    Avahi!Probed, Avahi!DaemonGone, Avahi!NameTaken, Avahi!vars, Avahi!object, Avahi!daemon

\* The daemon's callbacks wait in their order, and what is left stays in its bounds.
LEMMA RestStep ==
    ASSUME AvahiInv, [Avahi!Next]_(Avahi!vars)
    PROVE  Rest'
<1> USE DEF Rest
<1>1. \A event \in Events : Avahi!Tell(event) => inbox' \in Seq(Events)
    BY DEF Avahi!Tell, AvahiInv
<1>2. CASE Avahi!Construct
    <2>1. server \in Events /\ Avahi!ClientCallback(server) /\ UNCHANGED <<server, inbox, taken>>
        BY <1>2 DEF Avahi!Construct, AvahiInv, Events
    <2> QED BY <2>1, ClientCallbackInv, FaultLeft DEF AvahiInv
<1>3. CASE Avahi!OnClient
    <2>1. /\ Head(inbox) \in Events /\ Avahi!ClientCallback(Head(inbox)) /\ Tail(inbox) \in Seq(Events)
          /\ inbox' = Tail(inbox) /\ UNCHANGED <<server, taken>>
        BY <1>3 DEF Avahi!OnClient, AvahiInv
    <2> QED BY <2>1, ClientCallbackInv, FaultLeft DEF AvahiInv
<1>4. CASE Avahi!OnGroupCollision
    <2>1. /\ Avahi!CreateService(cname + 1) /\ cname + 1 \in Nat \ {0} /\ Tail(inbox) \in Seq(Events)
          /\ inbox' = Tail(inbox) /\ UNCHANGED <<server, taken>>
        BY <1>4 DEF Avahi!OnGroupCollision, AvahiInv, Announced
    <2>2. gstate \in GStates /\ halt \in BOOLEAN
        BY DEF AvahiInv, Announced
    <2> QED BY <2>1, <2>2, CreateServiceInv, FaultLeft DEF AvahiInv
<1>5. CASE Avahi!ConstructFails \/ Avahi!Begin \/ Avahi!RequestStop
    BY <1>5 DEF Avahi!ConstructFails, Avahi!Begin, Avahi!RequestStop, Avahi!object, Avahi!daemon, AvahiInv
<1>6. CASE Avahi!Leave \/ Avahi!Destroy
    <2>1. inbox' \in Seq(Events)
        <3>1. inbox' = <<>>
            BY <1>6 DEF Avahi!Leave, Avahi!Destroy
        <3> QED BY <3>1
    <2> QED BY <1>6, <2>1 DEF Avahi!Leave, Avahi!Destroy, AvahiInv
<1>7. CASE Avahi!HostState
    <2>1. server' \in States /\ Avahi!Tell(server') /\ UNCHANGED <<group, taken, halt>>
        BY <1>7 DEF Avahi!HostState, States, Avahi!object
    <2>2. left' \in [host : 0 .. MaxHostChanges, faults : 0 .. MaxFaults]
        BY <1>7, AvahiConstants DEF Avahi!HostState, AvahiInv
    <2>3. inbox' \in Seq(Events)
        BY <2>1, <1>1 DEF Events
    <2> QED BY <2>1, <2>2, <2>3 DEF AvahiInv
<1>8. CASE Avahi!DaemonGone
    <2>1. server' \in States /\ inbox' \in Seq(Events)
        BY <1>8, <1>1 DEF Avahi!DaemonGone, States, Events
    <2> QED BY <1>8, <2>1 DEF Avahi!DaemonGone, Avahi!object, AvahiInv
<1>9. CASE Avahi!Probed
    <2>1. inbox' \in Seq(Events)
        BY <1>9, <1>1 DEF Avahi!Probed, Events, AvahiInv
    <2> QED BY <1>9, <2>1 DEF Avahi!Probed, Avahi!object, AvahiInv
<1>10. CASE Avahi!NameTaken
    <2>1. inbox' \in Seq(Events)
        BY <1>10, <1>1 DEF Avahi!NameTaken, Events
    <2>2. taken' \subseteq 1 .. MaxName
        BY <1>10, AvahiConstants DEF Avahi!NameTaken, AvahiInv
    <2> QED BY <1>10, <2>1, <2>2 DEF Avahi!NameTaken, Avahi!object, AvahiInv
<1>11. CASE Avahi!GroupFails
    <2>1. inbox' \in Seq(Events)
        BY <1>11, <1>1 DEF Avahi!GroupFails, Events
    <2>2. UNCHANGED <<group, server, taken>> /\ Avahi!Fault
        BY <1>11 DEF Avahi!GroupFails, Avahi!object
    <2> QED BY <2>1, <2>2, FaultLeft DEF AvahiInv
<1>12. CASE Avahi!OnGroupFailure
    <2>1. Tail(inbox) \in Seq(Events) /\ inbox' = Tail(inbox)
        BY <1>12 DEF Avahi!OnGroupFailure, AvahiInv
    <2> QED BY <1>12, <2>1 DEF Avahi!OnGroupFailure, Avahi!object, Avahi!daemon, AvahiInv
<1>13. CASE UNCHANGED Avahi!vars
    BY <1>13 DEF Avahi!vars, Avahi!object, Avahi!daemon, AvahiInv
<1> QED BY <1>2, <1>3, <1>4, <1>5, <1>6, <1>7, <1>8, <1>9, <1>10, <1>11, <1>12, <1>13 DEF Avahi!Next,
    Avahi!Thread, Avahi!Daemon

\* The strengthened invariant holds for ever.
LEMMA AvahiHolds == Avahi!Spec => []AvahiInv
<1>1. AvahiInv /\ [Avahi!Next]_(Avahi!vars) => AvahiInv'
    BY AnnouncedStep, AllocatedStep, RestStep DEF AvahiInv
<1> QED BY AvahiInit, <1>1, PTL DEF Avahi!Spec

\* The object, the Avahi daemon and what is between them always have their types
\* (class AvahiService).
THEOREM AvahiTypeCorrect == Avahi!Spec => []Avahi!TypeOK
<1>1. AvahiInv => Avahi!TypeOK
    BY DEF AvahiInv, Announced, Allocated, Rest, Avahi!TypeOK, States, Events, GStates, Polls
<1> QED BY AvahiHolds, <1>1, PTL

\* While the poll loop goes on the service is announced under one name at most, whatever
\* names are taken, however often the host's name changes and whatever fails
\* (createService(), the callbacks).
THEOREM OneNameOnly == Avahi!Spec => []Avahi!OneName
<1>1. AvahiInv => Avahi!OneName
    BY DEF AvahiInv, Announced, Avahi!OneName
<1> QED BY AvahiHolds, <1>1, PTL

\* What the object allocates is freed once, on every path (the constructor, run(), the
\* destructor).
THEOREM AllFreedOnce == Avahi!Spec => []Avahi!FreedOnce
<1>1. AvahiInv => Avahi!FreedOnce
    BY DEF AvahiInv, Allocated, Avahi!FreedOnce
<1> QED BY AvahiHolds, <1>1, PTL

(***************************************************************************)
(* The HTTP service.                                                       *)
(***************************************************************************)
\* Where the service and its daemon are, and where the connection.
ThreadInv == /\ svc \in {"loop", "sleep", "done"} /\ stop \in BOOLEAN
             /\ httpDaemon \in {Http!Null, "ours"} /\ port \in {"free", "ours", "other"}
ConnInv   == /\ conn.st \in {"idle", "open", "answered"}
             /\ conn.st = "answered" => conn.status \in {200, 400, 404, 405}
\* The invariant of the HTTP service.
HttpInv == ThreadInv /\ ConnInv

\* Each answer has one of four codes, whatever the URL is.
LEMMA AnswerCodes == \A method, uri : Http!HandleRequest(method, uri) \in {200, 400, 404, 405}
BY DEF Http!HandleRequest

\* Every step of the service keeps its types.
LEMMA HttpStep == ASSUME HttpInv, [Http!Next]_(Http!vars) PROVE HttpInv'
<1> USE DEF HttpInv
<1>1. CASE Http!StartDaemon \/ Http!Wake \/ Http!StopDaemon \/ Http!RequestStop \/ Http!OtherReleases
    <2>1. conn' = conn \/ conn' = Http!NoConn
        BY <1>1 DEF Http!StartDaemon, Http!Wake, Http!StopDaemon, Http!RequestStop, Http!OtherReleases
    <2>2. ThreadInv'
        BY <1>1 DEF ThreadInv, Http!Null, Http!StartDaemon, Http!Wake, Http!StopDaemon, Http!RequestStop, Http!OtherReleases
    <2> QED BY <2>1, <2>2 DEF ConnInv, Http!NoConn
<1>2. CASE Http!UriLogged
    <2>1. UNCHANGED <<svc, stop, httpDaemon, port>> /\ conn'.st = "open"
        BY <1>2 DEF Http!UriLogged
    <2> QED BY <2>1 DEF ThreadInv, ConnInv
<1>3. CASE Http!HandleConnection
    <2>1. PICK uri : conn' = [st |-> "answered", req |-> conn.req, con |-> conn.con,
                              status |-> Http!HandleRequest(conn.req.method, uri)]
        BY <1>3 DEF Http!HandleConnection
    <2>2. conn'.st = "answered" /\ conn'.status = Http!HandleRequest(conn.req.method, uri)
        BY <2>1
    <2>3. UNCHANGED <<svc, stop, httpDaemon, port>>
        BY <1>3 DEF Http!HandleConnection
    <2> QED BY <2>2, <2>3, AnswerCodes DEF ThreadInv, ConnInv
<1>4. CASE Http!RequestCompleted
    BY <1>4 DEF Http!RequestCompleted, Http!NoConn, ThreadInv, ConnInv
<1>5. CASE UNCHANGED Http!vars
    BY <1>5 DEF Http!vars, ThreadInv, ConnInv
<1> QED BY <1>1, <1>2, <1>3, <1>4, <1>5 DEF Http!Next, Http!Service, Http!Connection

\* The service's thread, its daemon, the port and the connection always have their types
\* (class HttpService).
THEOREM HttpTypeCorrect == Http!Spec => []Http!TypeOK
<1>1. Http!Init => HttpInv
    <2>1. Http!Init => ThreadInv
        BY DEF Http!Init, ThreadInv
    <2>2. Http!Init => ConnInv
        BY DEF Http!Init, ConnInv, Http!NoConn
    <2> QED BY <2>1, <2>2 DEF HttpInv
<1>2. HttpInv => Http!TypeOK
    BY DEF HttpInv, ThreadInv, ConnInv, Http!TypeOK
<1> QED BY <1>1, <1>2, HttpStep, PTL DEF Http!Spec

(***************************************************************************)
(* Sequences, and what is chosen along them.                               *)
(***************************************************************************)
\* A set of naturals that is not empty has a least member.
LEMMA Least == ASSUME NEW T \in SUBSET Nat, T # {} PROVE \E m \in T : \A k \in T : m <= k
<1> DEFINE Less == OpToRel(<, Nat)
<1>1. IsWellFoundedOn(Less, Nat)
    BY NatLessThanWellFounded
<1>2. \A y, x \in Nat : y < x => <<y, x>> \in Less
    BY DEF OpToRel
<1> HIDE DEF Less
<1>3. PICK x \in T : \A y \in T : ~ (<<y, x>> \in Less)
    BY <1>1, WFMin
<1>4. \A y \in T : ~(y < x)
    BY <1>2, <1>3
<1> QED BY <1>4

\* A set that has 0, and with n also n + 1, has all naturals.
LEMMA Induction == ASSUME NEW S, 0 \in S, \A n \in Nat : n \in S => n + 1 \in S PROVE Nat \subseteq S
<1> SUFFICES ASSUME ~(Nat \subseteq S) PROVE FALSE
    OBVIOUS
<1>1. PICK m \in Nat \ S : \A k \in Nat \ S : m <= k
    <2>1. Nat \ S \in SUBSET Nat /\ Nat \ S # {}
        OBVIOUS
    <2> QED BY <2>1, Least
<1>2. m # 0 /\ m - 1 \in Nat /\ m - 1 \in S
    BY <1>1
<1>3. m \in S
    BY <1>2
<1> QED BY <1>1, <1>3

\* What each step brings from one set into the next is in the last one.
LEMMA Reaches ==
    ASSUME NEW n \in Nat, NEW f, NEW G, f[0] \in G[0],
           \A i \in 1 .. n : f[i - 1] \in G[i - 1] => f[i] \in G[i]
    PROVE  \A i \in 0 .. n : f[i] \in G[i]
<1> DEFINE S == {k \in Nat : k <= n => f[k] \in G[k]}
<1>1. 0 \in S
    OBVIOUS
<1>2. ASSUME NEW k \in Nat, k \in S PROVE k + 1 \in S
    <2> SUFFICES ASSUME k + 1 <= n PROVE f[k + 1] \in G[k + 1]
        OBVIOUS
    <2>1. PICK j \in 1 .. n : j = k + 1 /\ j - 1 = k
        OBVIOUS
    <2> QED BY <1>2, <2>1
<1> HIDE DEF S
<1>3. Nat \subseteq S
    BY <1>1, <1>2, Induction
<1> QED BY <1>3 DEF S

\* A step for each place, and the values that they make of each other, from a first one.
Steps(n, S) == [1 .. n -> [S -> S]]
Along(f, n, S, base, H) == f \in [0 .. n -> S] /\ f[0] = base /\ \A i \in 1 .. n : f[i] = H[i][f[i - 1]]

\* There are such values.
LEMMA Chain ==
    ASSUME NEW n \in Nat, NEW S, NEW base \in S, NEW H \in Steps(n, S)
    PROVE  \E f : Along(f, n, S, base, H)
<1> DEFINE K == {k \in Nat : k <= n => \E f : Along(f, k, S, base, H)}
<1>1. 0 \in K
    <2> DEFINE f == [i \in 0 .. 0 |-> base]
    <2>1. Along(f, 0, S, base, H)
        BY DEF Along
    <2> QED BY <2>1
<1>2. ASSUME NEW k \in Nat, k \in K PROVE k + 1 \in K
    <2> SUFFICES ASSUME k + 1 <= n PROVE \E f : Along(f, k + 1, S, base, H)
        OBVIOUS
    <2>1. PICK f : Along(f, k, S, base, H)
        BY <1>2
    <2>2. k \in 0 .. k /\ f[k] \in S /\ k + 1 \in 1 .. n
        BY <2>1 DEF Along
    <2>3. PICK x : x = H[k + 1][f[k]]
        OBVIOUS
    <2>4. x \in S
        <3>1. H[k + 1] \in [S -> S]
            BY <2>2 DEF Steps
        <3> QED BY <2>2, <2>3, <3>1
    <2> DEFINE g == [i \in 0 .. k + 1 |-> IF i = k + 1 THEN x ELSE f[i]]
    <2>5. g \in [0 .. k + 1 -> S] /\ g[k + 1] = x /\ \A i \in 0 .. k : g[i] = f[i]
        BY <2>1, <2>4 DEF Along
    <2> HIDE DEF g
    <2>6. ASSUME NEW i \in 1 .. k + 1 PROVE g[i] = H[i][g[i - 1]]
        <3>1. CASE i = k + 1
            BY <2>3, <2>5, <3>1
        <3>2. CASE i \in 1 .. k
            BY <2>1, <2>5, <3>2 DEF Along
        <3> QED BY <3>1, <3>2
    <2>7. Along(g, k + 1, S, base, H)
        BY <2>1, <2>5, <2>6 DEF Along
    <2> QED BY <2>7
<1> HIDE DEF K
<1>3. n \in K
    BY <1>1, <1>2, Induction
<1> QED BY <1>3 DEF K

\* One sequence after another.
LEMMA Concat ==
    ASSUME NEW S, NEW s \in Seq(S), NEW t \in Seq(S), NEW u, u = s \o t
    PROVE  /\ u \in Seq(S) /\ Len(u) = Len(s) + Len(t)
           /\ \A i \in 1 .. Len(s) : u[i] = s[i]
           /\ \A i \in Len(s) + 1 .. Len(s) + Len(t) : u[i] = t[i - Len(s)]
<1>1. /\ s \o t \in Seq(S) /\ Len(s \o t) = Len(s) + Len(t)
      /\ \A i \in 1 .. Len(s) + Len(t) : (s \o t)[i] = IF i <= Len(s) THEN s[i] ELSE t[i - Len(s)]
    BY ConcatProperties, Zenon
<1>2. /\ u \in Seq(S) /\ Len(u) = Len(s) + Len(t)
      /\ \A i \in 1 .. Len(s) + Len(t) : u[i] = IF i <= Len(s) THEN s[i] ELSE t[i - Len(s)]
    BY <1>1, Zenon
<1> QED BY <1>2

\* The end of a sequence.
LEMMA FromIs ==
    ASSUME NEW S, NEW s \in Seq(S), NEW i \in 1 .. Len(s) + 1
    PROVE  /\ Http!From(s, i) \in Seq(S) /\ Len(Http!From(s, i)) = Len(s) - i + 1
           /\ \A j \in 1 .. Len(s) - i + 1 : Http!From(s, i)[j] = s[i + j - 1]
<1>1. Len(s) \in Nat /\ \A j \in i .. Len(s) : s[j] \in S
    BY LenProperties, ElementOfSeq
<1>2. PICK t : t = SubSeq(s, i, Len(s))
    OBVIOUS
<1>3. /\ t \in Seq(S) /\ Len(t) = IF i <= Len(s) THEN Len(s) - i + 1 ELSE 0
      /\ \A j \in 1 .. Len(s) - i + 1 : t[j] = s[i + j - 1]
    BY <1>1, <1>2, SubSeqProperties
<1> QED BY <1>1, <1>2, <1>3 DEF Http!From

\* The beginning of a sequence.
LEMMA BeforeIs ==
    ASSUME NEW S, NEW s \in Seq(S), NEW i \in 1 .. Len(s) + 1
    PROVE  /\ Http!Before(s, i) \in Seq(S) /\ Len(Http!Before(s, i)) = i - 1
           /\ \A j \in 1 .. i - 1 : Http!Before(s, i)[j] = s[j]
<1>1. Len(s) \in Nat /\ \A j \in 1 .. i - 1 : s[j] \in S
    BY LenProperties, ElementOfSeq
<1>2. PICK t : t = SubSeq(s, 1, i - 1)
    OBVIOUS
<1>3. /\ t \in Seq(S) /\ Len(t) = IF 1 <= i - 1 THEN i - 1 ELSE 0
      /\ \A j \in 1 .. i - 1 : t[j] = s[j]
    BY <1>1, <1>2, SubSeqProperties
<1> QED BY <1>1, <1>2, <1>3 DEF Http!Before

\* find_first_of() is the first place that has one of the characters, or the end.
LEMMA FirstIs ==
    ASSUME NEW S, NEW s \in Seq(S), NEW chars, NEW k \in 1 .. Len(s) + 1,
           \A i \in 1 .. k - 1 : s[i] \notin chars, k <= Len(s) => s[k] \in chars
    PROVE  Http!FindFirst(s, chars) = k
<1> DEFINE places == {i \in DOMAIN s : s[i] \in chars}
<1>1. Len(s) \in Nat /\ DOMAIN s = 1 .. Len(s)
    BY LenProperties
<1>2. CASE k = Len(s) + 1
    <2>1. places = {}
        BY <1>1, <1>2
    <2> QED BY <1>2, <2>1 DEF Http!FindFirst
<1>3. CASE k <= Len(s)
    <2>1. k \in places /\ \A i \in places : k <= i
        BY <1>1, <1>3
    <2>2. \A i \in places : i \in Int
        BY <1>1
    <2> HIDE DEF places
    <2>3. Http!Min(places) \in places /\ \A y \in places : Http!Min(places) <= y
        BY <2>1, Zenon DEF Http!Min
    <2>4. PICK m : m = Http!Min(places)
        OBVIOUS
    <2>5. m \in places /\ \A y \in places : m <= y
        BY <2>3, <2>4
    <2>6. m \in Int /\ k \in Int /\ m <= k /\ k <= m
        BY <2>1, <2>2, <2>5
    <2>7. m = k
        BY <2>6
    <2> QED BY <2>1, <2>4, <2>7 DEF Http!FindFirst, places
<1> QED BY <1>1, <1>2, <1>3

\* There is such a place in every sequence.
LEMMA FirstFound ==
    ASSUME NEW S, NEW s \in Seq(S), NEW chars
    PROVE  /\ Http!FindFirst(s, chars) \in 1 .. Len(s) + 1
           /\ \A i \in 1 .. Http!FindFirst(s, chars) - 1 : s[i] \notin chars
           /\ Http!FindFirst(s, chars) <= Len(s) => s[Http!FindFirst(s, chars)] \in chars
<1> DEFINE places == {i \in DOMAIN s : s[i] \in chars}
<1>1. Len(s) \in Nat /\ DOMAIN s = 1 .. Len(s)
    BY LenProperties
<1>2. \E k \in 1 .. Len(s) + 1 : (\A i \in 1 .. k - 1 : s[i] \notin chars) /\ (k <= Len(s) => s[k] \in chars)
    <2>1. CASE places = {}
        <3>1. Len(s) + 1 \in 1 .. Len(s) + 1 /\ \A i \in 1 .. Len(s) + 1 - 1 : s[i] \notin chars
            BY <1>1, <2>1
        <3> QED BY <1>1, <3>1
    <2>2. CASE places # {}
        <3>1. places \in SUBSET Nat
            BY <1>1
        <3> HIDE DEF places
        <3>2. PICK m \in places : \A k \in places : m <= k
            BY <2>2, <3>1, Least
        <3>3. m \in 1 .. Len(s) /\ s[m] \in chars /\ \A i \in 1 .. m - 1 : s[i] \notin chars
            BY <1>1, <3>2 DEF places
        <3> QED BY <1>1, <3>3
    <2> QED BY <2>1, <2>2
<1>3. PICK k \in 1 .. Len(s) + 1 : (\A i \in 1 .. k - 1 : s[i] \notin chars) /\ (k <= Len(s) => s[k] \in chars)
    BY <1>2
<1>4. Http!FindFirst(s, chars) = k
    BY <1>3, FirstIs
<1> QED BY <1>3, <1>4

(***************************************************************************)
(* The names in a query.                                                   *)
(***************************************************************************)
Amp == {Http!Ampersand}
Equals == {Http!EqualsSign}

\* Where a variable begins, the variable, and its name.
Starts(q) == {i \in DOMAIN q : i = 1 \/ q[i - 1] = Http!Ampersand}
Var(q, i) == Http!Before(Http!From(q, i), Http!FindFirst(Http!From(q, i), Amp))
NameOf(var) == Http!Decode(Http!Before(var, Http!FindFirst(var, Equals)))
NamesIn(q) == {NameOf(Var(q, i)) : i \in Starts(q)}

\* The names of the arguments that Args() finds.
LEMMA ArgsNames == \A q : DOMAIN Http!Args(q) = NamesIn(q)
BY DEF Http!Args, NamesIn, NameOf, Var, Starts, Amp, Equals

\* A variable, which an ampersand or the end of the query ends, and what follows.
LEMMA VarEnds ==
    ASSUME NEW S, NEW q \in Seq(S), NEW i \in 1 .. Len(q), NEW v \in Seq(S), i + Len(v) <= Len(q) + 1,
           \A j \in 1 .. Len(v) : q[i + j - 1] = v[j] /\ v[j] # Http!Ampersand,
           i + Len(v) <= Len(q) => q[i + Len(v)] = Http!Ampersand
    PROVE  Var(q, i) = v
<1>1. Len(q) \in Nat /\ Len(v) \in Nat
    BY LenProperties
<1>2. PICK r : r = Http!From(q, i)
    OBVIOUS
<1>3. r \in Seq(S) /\ Len(r) = Len(q) - i + 1 /\ \A j \in 1 .. Len(q) - i + 1 : r[j] = q[i + j - 1]
    <2>1. i \in 1 .. Len(q) + 1
        BY <1>1
    <2> QED BY <1>2, <2>1, FromIs
<1>4. PICK k : k = Len(v) + 1
    OBVIOUS
<1>5. k \in 1 .. Len(r) + 1 /\ k - 1 = Len(v)
    BY <1>1, <1>3, <1>4
<1>6. \A j \in 1 .. k - 1 : r[j] = v[j] /\ r[j] \notin Amp
    BY <1>1, <1>3, <1>4 DEF Amp
<1>7. k <= Len(r) => r[k] \in Amp
    BY <1>1, <1>3, <1>4 DEF Amp
<1>8. Http!FindFirst(r, Amp) = k
    BY <1>3, <1>5, <1>6, <1>7, FirstIs
<1>9. PICK b : b = Http!Before(r, k)
    OBVIOUS
<1>10. b \in Seq(S) /\ Len(b) = k - 1 /\ \A j \in 1 .. k - 1 : b[j] = r[j]
    BY <1>3, <1>5, <1>9, BeforeIs
<1>11. b = v
    BY <1>5, <1>6, <1>10, SeqEqual
<1> QED BY <1>2, <1>8, <1>9, <1>11 DEF Var

\* Each variable of a query is of this kind.
LEMMA VarFound ==
    ASSUME NEW S, NEW q \in Seq(S), NEW i \in 1 .. Len(q)
    PROVE  /\ Var(q, i) \in Seq(S) /\ i + Len(Var(q, i)) <= Len(q) + 1
           /\ \A j \in 1 .. Len(Var(q, i)) : q[i + j - 1] = Var(q, i)[j] /\ Var(q, i)[j] # Http!Ampersand
           /\ i + Len(Var(q, i)) <= Len(q) => q[i + Len(Var(q, i))] = Http!Ampersand
<1>1. Len(q) \in Nat
    BY LenProperties
<1>2. PICK r : r = Http!From(q, i)
    OBVIOUS
<1>3. r \in Seq(S) /\ Len(r) = Len(q) - i + 1 /\ \A j \in 1 .. Len(q) - i + 1 : r[j] = q[i + j - 1]
    <2>1. i \in 1 .. Len(q) + 1
        BY <1>1
    <2> QED BY <1>2, <2>1, FromIs
<1>4. PICK k : k = Http!FindFirst(r, Amp)
    OBVIOUS
<1>5. k \in 1 .. Len(r) + 1 /\ (\A j \in 1 .. k - 1 : r[j] \notin Amp) /\ (k <= Len(r) => r[k] \in Amp)
    BY <1>3, <1>4, FirstFound
<1>6. PICK b : b = Http!Before(r, k)
    OBVIOUS
<1>7. b \in Seq(S) /\ Len(b) = k - 1 /\ \A j \in 1 .. k - 1 : b[j] = r[j]
    BY <1>3, <1>5, <1>6, BeforeIs
<1>8. Var(q, i) = b
    BY <1>2, <1>4, <1>6 DEF Var
<1>9. i + Len(b) <= Len(q) + 1
    BY <1>1, <1>3, <1>5, <1>7
<1>10. ASSUME NEW j \in 1 .. Len(b) PROVE q[i + j - 1] = b[j] /\ b[j] # Http!Ampersand
    <2>1. j \in 1 .. k - 1 /\ j \in 1 .. Len(q) - i + 1
        BY <1>1, <1>3, <1>5, <1>7
    <2>2. b[j] = r[j] /\ r[j] = q[i + j - 1] /\ r[j] \notin Amp
        BY <1>3, <1>5, <1>7, <2>1
    <2> QED BY <2>2 DEF Amp
<1>11. i + Len(b) <= Len(q) => q[i + Len(b)] = Http!Ampersand
    <2>1. i + Len(b) = i + k - 1 /\ (i + Len(b) <= Len(q) => k \in 1 .. Len(q) - i + 1 /\ k <= Len(r))
        BY <1>1, <1>3, <1>5, <1>7
    <2> QED BY <1>3, <1>5, <2>1 DEF Amp
<1> QED BY <1>7, <1>8, <1>9, <1>10, <1>11

\* A query of one variable has its name.
LEMMA NamesOfOne ==
    ASSUME NEW S, NEW v \in Seq(S), v # <<>>, \A j \in 1 .. Len(v) : v[j] # Http!Ampersand
    PROVE  NamesIn(v) = {NameOf(v)}
<1>1. Len(v) \in Nat /\ Len(v) > 0 /\ DOMAIN v = 1 .. Len(v)
    BY LenProperties, EmptySeq
<1>2. Starts(v) = {1}
    BY <1>1 DEF Starts
<1>3. Var(v, 1) = v
    BY <1>1, VarEnds
<1> QED BY <1>2, <1>3 DEF NamesIn

\* With an ampersand and one more variable it has the name of that, too.
LEMMA NamesOfMore ==
    ASSUME NEW S, Http!Ampersand \in S, NEW q \in Seq(S), q # <<>>, q[Len(q)] # Http!Ampersand,
           NEW v \in Seq(S), v # <<>>, \A j \in 1 .. Len(v) : v[j] # Http!Ampersand
    PROVE  NamesIn((q \o <<Http!Ampersand>>) \o v) = NamesIn(q) \cup {NameOf(v)}
<1>1. Len(v) \in Nat /\ Len(v) > 0 /\ Len(q) \in Nat /\ Len(q) > 0 /\ DOMAIN q = 1 .. Len(q)
    BY LenProperties, EmptySeq
<1>2. PICK a : a = <<Http!Ampersand>>
    OBVIOUS
<1>3. a \in Seq(S) /\ Len(a) = 1 /\ a[1] = Http!Ampersand
    BY <1>2
<1>4. PICK b : b = q \o a
    OBVIOUS
<1>5. b \in Seq(S) /\ Len(b) = Len(q) + 1 /\ (\A i \in 1 .. Len(q) : b[i] = q[i]) /\ b[Len(q) + 1] = Http!Ampersand
    <2>0. a \in Seq(S)
        BY <1>3
    <2>1. /\ b \in Seq(S) /\ Len(b) = Len(q) + Len(a)
          /\ \A i \in 1 .. Len(q) : b[i] = q[i]
          /\ \A i \in Len(q) + 1 .. Len(q) + Len(a) : b[i] = a[i - Len(q)]
        BY <1>4, <2>0, Concat
    <2> QED BY <1>1, <1>3, <2>1
<1>6. PICK c : c = b \o v
    OBVIOUS
<1>7. /\ c \in Seq(S) /\ Len(c) = Len(q) + 1 + Len(v)
      /\ \A i \in 1 .. Len(q) : c[i] = q[i]
      /\ c[Len(q) + 1] = Http!Ampersand
      /\ \A i \in 1 .. Len(v) : c[Len(q) + 1 + i] = v[i]
    <2>0. b \in Seq(S)
        BY <1>5
    <2>1. /\ c \in Seq(S) /\ Len(c) = Len(b) + Len(v)
          /\ \A i \in 1 .. Len(b) : c[i] = b[i]
          /\ \A i \in Len(b) + 1 .. Len(b) + Len(v) : c[i] = v[i - Len(b)]
        BY <1>6, <2>0, Concat
    <2>2. Len(c) = Len(q) + 1 + Len(v) /\ \A i \in 1 .. Len(q) : c[i] = q[i]
        BY <1>1, <1>5, <2>1
    <2>3. c[Len(q) + 1] = Http!Ampersand
        BY <1>1, <1>5, <2>1
    <2>4. ASSUME NEW i \in 1 .. Len(v) PROVE c[Len(q) + 1 + i] = v[i]
        <3>1. PICK k : k = Len(q) + 1 + i
            OBVIOUS
        <3>2. k \in Len(b) + 1 .. Len(b) + Len(v) /\ k - Len(b) = i
            BY <1>1, <1>5, <3>1
        <3>3. c[k] = v[k - Len(b)]
            BY <2>1, <3>2
        <3> QED BY <3>1, <3>2, <3>3
    <2> QED BY <2>1, <2>2, <2>3, <2>4
<1>8. DOMAIN c = 1 .. Len(c)
    BY <1>7, LenProperties
<1>9. Starts(c) = Starts(q) \cup {Len(q) + 2}
    <2>1. ASSUME NEW i \in 1 .. Len(c) PROVE i \in Starts(c) <=> i \in Starts(q) \cup {Len(q) + 2}
        <3>1. CASE i \in 1 .. Len(q)
            <4>1. i # 1 => i - 1 \in 1 .. Len(q)
                BY <1>1, <3>1
            <4>2. i # 1 => c[i - 1] = q[i - 1]
                BY <1>7, <4>1
            <4>3. i # Len(q) + 2
                BY <1>1, <3>1
            <4> QED BY <1>1, <1>8, <3>1, <4>2, <4>3 DEF Starts
        <3>2. CASE i = Len(q) + 1
            <4>1. c[i - 1] = q[Len(q)]
                BY <1>1, <1>7, <3>2
            <4> QED BY <1>1, <3>2, <4>1 DEF Starts
        <3>3. CASE i = Len(q) + 2
            BY <1>1, <1>7, <1>8, <3>3 DEF Starts
        <3>4. CASE i \in Len(q) + 3 .. Len(c)
            <4>1. PICK j \in 1 .. Len(v) : i - 1 = Len(q) + 1 + j
                <5>1. i - 2 - Len(q) \in 1 .. Len(v) /\ i - 1 = Len(q) + 1 + (i - 2 - Len(q))
                    BY <1>1, <1>7, <3>4
                <5> QED BY <5>1
            <4>2. c[i - 1] # Http!Ampersand
                BY <1>7, <4>1
            <4> QED BY <1>1, <3>4, <4>2 DEF Starts
        <3> QED BY <1>1, <1>7, <3>1, <3>2, <3>3, <3>4
    <2>2. Starts(c) \subseteq 1 .. Len(c) /\ Starts(q) \cup {Len(q) + 2} \subseteq 1 .. Len(c)
        BY <1>1, <1>7, <1>8 DEF Starts
    <2> QED BY <2>1, <2>2
<1>10. ASSUME NEW i \in Starts(q) PROVE Var(c, i) = Var(q, i)
    <2>1. i \in 1 .. Len(q)
        BY <1>1 DEF Starts
    <2>2. PICK x : x = Var(q, i)
        OBVIOUS
    <2>3. /\ x \in Seq(S) /\ i + Len(x) <= Len(q) + 1
          /\ \A j \in 1 .. Len(x) : q[i + j - 1] = x[j] /\ x[j] # Http!Ampersand
          /\ i + Len(x) <= Len(q) => q[i + Len(x)] = Http!Ampersand
        BY <2>1, <2>2, VarFound
    <2>4. Len(x) \in Nat
        BY <2>3, LenProperties
    <2>5. i \in 1 .. Len(c) /\ i + Len(x) <= Len(c) + 1
        BY <1>1, <1>7, <2>1, <2>3
    <2>6. ASSUME NEW j \in 1 .. Len(x) PROVE c[i + j - 1] = x[j] /\ x[j] # Http!Ampersand
        <3>1. i + j - 1 \in 1 .. Len(q)
            BY <1>1, <2>1, <2>3, <2>4
        <3>2. c[i + j - 1] = q[i + j - 1]
            BY <1>7, <3>1
        <3> QED BY <2>3, <3>2
    <2>7. c[i + Len(x)] = Http!Ampersand
        <3>1. i + Len(x) = Len(q) + 1 \/ (i + Len(x) \in 1 .. Len(q) /\ i + Len(x) <= Len(q))
            BY <1>1, <2>1, <2>3, <2>4
        <3> QED BY <1>7, <2>3, <3>1
    <2>8. Var(c, i) = x
        BY <1>7, <2>3, <2>5, <2>6, <2>7, VarEnds
    <2> QED BY <2>2, <2>8
<1>11. Var(c, Len(q) + 2) = v
    <2>1. PICK i : i = Len(q) + 2
        OBVIOUS
    <2>2. i \in 1 .. Len(c) /\ i + Len(v) <= Len(c) + 1 /\ ~(i + Len(v) <= Len(c))
        BY <1>1, <1>7, <2>1
    <2>3. \A j \in 1 .. Len(v) : c[i + j - 1] = v[j] /\ v[j] # Http!Ampersand
        BY <1>1, <1>7, <2>1
    <2>4. Var(c, i) = v
        BY <1>7, <2>2, <2>3, VarEnds
    <2> QED BY <2>1, <2>4
<1>12. NamesIn(c) = NamesIn(q) \cup {NameOf(v)}
    BY <1>9, <1>10, <1>11 DEF NamesIn
<1> QED BY <1>2, <1>4, <1>6, <1>12

(***************************************************************************)
(* What a client encodes is what decode() makes of it.                     *)
(***************************************************************************)
DecodeStates == [ret : Seq(Int), val : Int, seq : Int, bad : BOOLEAN]
\* Between two characters nothing is left of a sequence.
Decoded(text) == [ret |-> text, val |-> 0, seq |-> 0, bad |-> FALSE]
Decoder(str) == Http!Accumulate(Http!DecodeStep, Decoded(<<>>), str)

\* decode() returns what its decoder has collected.
LEMMA DecodeIs == \A str : Http!Decode(str) = Decoder(str).ret
BY DEF Http!Decode, Decoder, Decoded

\* Three fields of four are others.
LEMMA OtherFields ==
    ASSUME NEW R, NEW V, NEW W, NEW d \in [ret : R, val : V, seq : V, bad : W], NEW v \in V, NEW q \in V, NEW b \in W
    PROVE  [d EXCEPT !.val = v, !.seq = q, !.bad = b] \in [ret : R, val : V, seq : V, bad : W]
OBVIOUS

\* After the first digit.
LEMMA DecodeHalf ==
    ASSUME NEW d \in DecodeStates, NEW v \in Int, NEW b \in BOOLEAN
    PROVE  [d EXCEPT !.val = v, !.seq = 2, !.bad = b] \in DecodeStates
<1>1. 2 \in Int
    OBVIOUS
<1> QED BY <1>1, OtherFields, Zenon DEF DecodeStates

\* Each character brings the decoder into a state.
LEMMA DecodeStepType ==
    ASSUME NEW d \in DecodeStates, NEW c \in Int
    PROVE  Http!DecodeStep(d, c) \in DecodeStates
<1>1. d.ret \in Seq(Int) /\ d.val \in Int /\ d.seq \in Int /\ d.bad \in BOOLEAN
    BY DEF DecodeStates
<1>2. \A x \in Int : Append(d.ret, x) \in Seq(Int)
    BY <1>1
<1>3. Http!HexValue(c) \in Int
    BY DEF Http!HexValue, Http!IsDigit
<1>4. [d EXCEPT !.seq = 1] \in DecodeStates
    BY DEF DecodeStates
<1>5. [d EXCEPT !.ret = Append(@, c)] \in DecodeStates
    BY <1>2 DEF DecodeStates
<1> DEFINE sum == d.val + (IF Http!HexValue(c) = -1 THEN 0 ELSE Http!HexValue(c))
           val == (IF d.seq = 1 THEN sum * 16 ELSE sum) % 256
           bad == d.bad \/ Http!HexValue(c) = -1
<1>6. sum \in Int
    BY <1>1, <1>3
<1>7. val \in Int
    <2> HIDE DEF sum
    <2>1. (IF d.seq = 1 THEN sum * 16 ELSE sum) \in Int
        BY <1>6
    <2>2. \A x \in Int : x % 256 \in Int
        OBVIOUS
    <2> QED BY <2>1, <2>2
<1>8. bad \in BOOLEAN
    BY <1>1
<1>9. \/ Http!DecodeStep(d, c) = [d EXCEPT !.seq = 1]
      \/ Http!DecodeStep(d, c) = [d EXCEPT !.ret = Append(@, c)]
      \/ Http!DecodeStep(d, c) = [ret |-> IF bad THEN d.ret ELSE Append(d.ret, val), val |-> 0, seq |-> 0, bad |-> FALSE]
      \/ Http!DecodeStep(d, c) = [d EXCEPT !.val = val, !.seq = 2, !.bad = bad]
    <2>1. CASE c = Http!Percent
        BY <2>1 DEF Http!DecodeStep
    <2>2. CASE c # Http!Percent /\ d.seq = 0
        BY <2>2 DEF Http!DecodeStep
    <2>3. CASE c # Http!Percent /\ d.seq # 0 /\ d.seq = 2
        BY <2>3, Zenon DEF Http!DecodeStep
    <2>4. CASE c # Http!Percent /\ d.seq # 0 /\ d.seq # 2
        BY <2>4, Zenon DEF Http!DecodeStep
    <2> QED BY <2>1, <2>2, <2>3, <2>4
<1> HIDE DEF sum, val, bad
<1>10. [ret |-> IF bad THEN d.ret ELSE Append(d.ret, val), val |-> 0, seq |-> 0, bad |-> FALSE] \in DecodeStates
    <2>1. (IF bad THEN d.ret ELSE Append(d.ret, val)) \in Seq(Int)
        BY <1>1, <1>2, <1>7
    <2> QED BY <2>1 DEF DecodeStates
<1>11. [d EXCEPT !.val = val, !.seq = 2, !.bad = bad] \in DecodeStates
    BY <1>7, <1>8, DecodeHalf
<1> QED BY <1>4, <1>5, <1>9, <1>10, <1>11

\* The decoder's states along a string.
LEMMA DecoderChain ==
    ASSUME NEW str \in Seq(Int)
    PROVE  \E f : /\ f \in [0 .. Len(str) -> DecodeStates] /\ f[0] = Decoded(<<>>)
                  /\ \A i \in 1 .. Len(str) : f[i] = Http!DecodeStep(f[i - 1], str[i])
                  /\ Decoder(str) = f[Len(str)]
<1> DEFINE n == Len(str)
           acc == CHOOSE f : f = [i \in 0 .. n |-> IF i = 0 THEN Decoded(<<>>) ELSE Http!DecodeStep(f[i - 1], str[i])]
           H == [i \in 1 .. n |-> [x \in DecodeStates |-> Http!DecodeStep(x, str[i])]]
<1>1. n \in Nat /\ \A i \in 1 .. n : str[i] \in Int
    BY LenProperties, ElementOfSeq
<1>2. Decoder(str) = acc[n]
    BY DEF Decoder, Http!Accumulate
<1>3. Decoded(<<>>) \in DecodeStates
    BY DEF Decoded, DecodeStates
<1>4. \A i \in 1 .. n : \A x \in DecodeStates : H[i][x] = Http!DecodeStep(x, str[i])
    OBVIOUS
<1>5. H \in Steps(n, DecodeStates)
    BY <1>1, DecodeStepType DEF Steps
<1> HIDE DEF H, n
<1>6. PICK f : f \in [0 .. n -> DecodeStates] /\ f[0] = Decoded(<<>>) /\ \A i \in 1 .. n : f[i] = H[i][f[i - 1]]
    <2>1. \E f : Along(f, n, DecodeStates, Decoded(<<>>), H)
        BY <1>1, <1>3, <1>5, Chain
    <2> QED BY <2>1 DEF Along
<1>7. f = [i \in 0 .. n |-> IF i = 0 THEN Decoded(<<>>) ELSE Http!DecodeStep(f[i - 1], str[i])]
    <2>1. ASSUME NEW i \in 0 .. n PROVE f[i] = IF i = 0 THEN Decoded(<<>>) ELSE Http!DecodeStep(f[i - 1], str[i])
        <3>1. CASE i = 0
            BY <1>6, <3>1
        <3>2. CASE i \in 1 .. n
            <4>1. i - 1 \in 0 .. n
                BY <1>1, <3>2
            <4>2. f[i - 1] \in DecodeStates
                BY <1>6, <4>1
            <4> QED BY <1>4, <1>6, <3>2, <4>2
        <3> QED BY <1>1, <3>1, <3>2
    <2> QED BY <1>6, <2>1
<1>8. acc = [i \in 0 .. n |-> IF i = 0 THEN Decoded(<<>>) ELSE Http!DecodeStep(acc[i - 1], str[i])]
    BY <1>7
<1> HIDE DEF acc
<1>9. acc[0] = Decoded(<<>>) /\ \A i \in 1 .. n : acc[i] = Http!DecodeStep(acc[i - 1], str[i])
    BY <1>1, <1>8
<1>10. \A i \in 0 .. n : acc[i] \in DecodeStates
    <2> DEFINE G == [i \in 0 .. n |-> DecodeStates]
    <2>1. \A i \in 1 .. n : acc[i - 1] \in DecodeStates => acc[i] \in DecodeStates
        BY <1>1, <1>9, DecodeStepType
    <2>2. acc[0] \in G[0] /\ \A i \in 1 .. n : acc[i - 1] \in G[i - 1] => acc[i] \in G[i]
        BY <1>1, <1>3, <1>9, <2>1
    <2>3. \A i \in 0 .. n : G[i] = DecodeStates
        OBVIOUS
    <2> HIDE DEF G
    <2>4. \A i \in 0 .. n : acc[i] \in G[i]
        BY <1>1, <2>2, Reaches
    <2> QED BY <2>3, <2>4
<1>11. acc \in [0 .. n -> DecodeStates]
    BY <1>8, <1>10
<1> QED BY <1>2, <1>9, <1>11 DEF n

\* One more character is one more step.
LEMMA DecoderLast ==
    ASSUME NEW str \in Seq(Int), NEW c \in Int
    PROVE  /\ Decoder(str) \in DecodeStates
           /\ Decoder(str \o <<c>>) = Http!DecodeStep(Decoder(str), c)
<1>1. PICK n \in Nat : n = Len(str)
    BY LenProperties
<1>2. PICK u : u = str \o <<c>>
    OBVIOUS
<1>3. u \in Seq(Int) /\ Len(u) = n + 1 /\ (\A i \in 1 .. n : u[i] = str[i]) /\ u[n + 1] = c
    <2>1. <<c>> \in Seq(Int) /\ Len(<<c>>) = 1 /\ <<c>>[1] = c
        OBVIOUS
    <2>2. PICK t : t = <<c>>
        OBVIOUS
    <2>3. t \in Seq(Int) /\ Len(t) = 1 /\ t[1] = c /\ u = str \o t
        BY <1>2, <2>1, <2>2
    <2>4. /\ u \in Seq(Int) /\ Len(u) = Len(str) + Len(t)
          /\ \A i \in 1 .. Len(str) : u[i] = str[i]
          /\ \A i \in Len(str) + 1 .. Len(str) + Len(t) : u[i] = t[i - Len(str)]
        <3>1. t \in Seq(Int) /\ u = str \o t
            BY <2>3
        <3> QED BY <3>1, Concat
    <2> QED BY <1>1, <2>3, <2>4
<1>4. PICK f : /\ f \in [0 .. n -> DecodeStates] /\ f[0] = Decoded(<<>>)
               /\ \A i \in 1 .. n : f[i] = Http!DecodeStep(f[i - 1], str[i])
               /\ Decoder(str) = f[n]
    BY <1>1, DecoderChain
<1>5. PICK g : /\ g[0] = Decoded(<<>>)
               /\ \A i \in 1 .. n + 1 : g[i] = Http!DecodeStep(g[i - 1], u[i])
               /\ Decoder(u) = g[n + 1]
    BY <1>3, DecoderChain
<1>6. \A i \in 0 .. n : g[i] = f[i]
    <2> DEFINE G == [i \in 0 .. n |-> {f[i]}]
    <2>1. g[0] \in G[0]
        BY <1>4, <1>5
    <2>2. ASSUME NEW i \in 1 .. n, g[i - 1] \in G[i - 1] PROVE g[i] \in G[i]
        <3>1. i - 1 \in 0 .. n /\ i \in 0 .. n /\ i \in 1 .. n + 1
            OBVIOUS
        <3>2. g[i - 1] = f[i - 1]
            BY <2>2, <3>1
        <3>3. g[i] = f[i]
            BY <1>3, <1>4, <1>5, <3>1, <3>2
        <3> QED BY <3>1, <3>3
    <2>3. \A i \in 0 .. n : G[i] = {f[i]}
        OBVIOUS
    <2> HIDE DEF G
    <2>4. \A i \in 0 .. n : g[i] \in G[i]
        BY <2>1, <2>2, Reaches
    <2> QED BY <2>3, <2>4
<1>7. n + 1 \in 1 .. n + 1 /\ n + 1 - 1 = n /\ n \in 0 .. n
    OBVIOUS
<1>8. g[n + 1] = Http!DecodeStep(g[n], c)
    BY <1>3, <1>5, <1>7
<1> QED BY <1>2, <1>4, <1>5, <1>6, <1>7, <1>8

Codes == 0 .. 255
Encoded == Http!Plain \cup {Http!Percent}
Code(c) == IF c \in Http!Plain THEN <<c>>
           ELSE <<Http!Percent, Http!HexDigit(c \div 16), Http!HexDigit(c % 16)>>

\* A code is encoded by letters and digits after a percent sign, or by itself.
LEMMA CodeType ==
    ASSUME NEW c \in Codes
    PROVE  Code(c) \in Seq(Encoded) /\ Code(c) \in Seq(Int)
<1>1. CASE c \in Http!Plain
    <2>1. c \in Encoded /\ c \in Int
        BY <1>1 DEF Encoded, Codes
    <2> QED BY <1>1, <2>1 DEF Code
<1>2. CASE c \notin Http!Plain
    <2>1. PICK h \in 0 .. 15 : h = c \div 16
        BY DEF Codes
    <2>2. PICK l \in 0 .. 15 : l = c % 16
        BY DEF Codes
    <2>3. \A n \in 0 .. 15 : Http!HexDigit(n) \in Encoded /\ Http!HexDigit(n) \in Int
        BY DEF Http!HexDigit, Encoded, Http!Plain
    <2>4. PICK x \in Encoded \cap Int : x = Http!HexDigit(h)
        BY <2>3
    <2>5. PICK y \in Encoded \cap Int : y = Http!HexDigit(l)
        BY <2>3
    <2>6. Http!Percent \in Encoded /\ Http!Percent \in Int
        BY DEF Encoded, Http!Percent
    <2>7. Code(c) = <<Http!Percent, x, y>>
        BY <1>2, <2>1, <2>2, <2>4, <2>5 DEF Code
    <2> QED BY <2>4, <2>5, <2>6, <2>7
<1> QED BY <1>1, <1>2

\* What three fields of four are then.
LEMMA OtherFieldsAre ==
    ASSUME NEW d \in DecodeStates, NEW v, NEW q, NEW b
    PROVE  [d EXCEPT !.val = v, !.seq = q, !.bad = b] = [ret |-> d.ret, val |-> v, seq |-> q, bad |-> b]
<1>1. DOMAIN d = {"ret", "val", "seq", "bad"}
    BY DEF DecodeStates
<1>2. [d EXCEPT !.val = v, !.seq = q, !.bad = b]
        = [k \in DOMAIN d |-> IF k = "bad" THEN b ELSE IF k = "seq" THEN q ELSE IF k = "val" THEN v ELSE d[k]]
    BY <1>1
<1>3. [ret |-> d.ret, val |-> v, seq |-> q, bad |-> b]
        = [k \in {"ret", "val", "seq", "bad"} |->
              IF k = "bad" THEN b ELSE IF k = "seq" THEN q ELSE IF k = "val" THEN v ELSE d[k]]
    OBVIOUS
<1> QED BY <1>1, <1>2, <1>3

\* The first digit after the sign is kept, 16 times.
LEMMA FirstDigit ==
    ASSUME NEW text \in Seq(Int), NEW x, x # Http!Percent, NEW h \in 0 .. 15, Http!HexValue(x) = h
    PROVE  Http!DecodeStep([ret |-> text, val |-> 0, seq |-> 1, bad |-> FALSE], x)
            = [ret |-> text, val |-> 16 * h, seq |-> 2, bad |-> FALSE]
<1>1. PICK d : d = [ret |-> text, val |-> 0, seq |-> 1, bad |-> FALSE]
    OBVIOUS
<1>2. d.ret = text /\ d.val = 0 /\ d.seq = 1 /\ d.bad = FALSE
    BY <1>1
<1> DEFINE sum == d.val + (IF Http!HexValue(x) = -1 THEN 0 ELSE Http!HexValue(x))
           val == (IF d.seq = 1 THEN sum * 16 ELSE sum) % 256
           bad == d.bad \/ Http!HexValue(x) = -1
<1>3. d.seq # 0 /\ d.seq # 2 /\ h # -1
    BY <1>2
<1>4. Http!DecodeStep(d, x) = [d EXCEPT !.val = val, !.seq = 2, !.bad = bad]
    BY <1>3, Zenon DEF Http!DecodeStep
<1>5. sum = h
    BY <1>2, <1>3
<1>6. val = 16 * h
    <2> HIDE DEF sum
    <2>1. h * 16 % 256 = 16 * h
        OBVIOUS
    <2> QED BY <1>2, <1>5, <2>1
<1>7. bad = FALSE
    BY <1>2, <1>3
<1>8. [d EXCEPT !.val = val, !.seq = 2, !.bad = bad] = [ret |-> text, val |-> val, seq |-> 2, bad |-> bad]
    <2>1. 0 \in Int /\ 1 \in Int /\ FALSE \in BOOLEAN
        OBVIOUS
    <2>2. d \in DecodeStates
        BY <1>1, <2>1 DEF DecodeStates
    <2> HIDE DEF val, bad
    <2>4. [d EXCEPT !.val = val, !.seq = 2, !.bad = bad] = [ret |-> d.ret, val |-> val, seq |-> 2, bad |-> bad]
        BY <2>2, OtherFieldsAre, Zenon
    <2> QED BY <1>2, <2>4, Zenon
<1> HIDE DEF val, bad
<1>9. Http!DecodeStep(d, x) = [ret |-> text, val |-> val, seq |-> 2, bad |-> bad]
    BY <1>4, <1>8, Zenon
<1> QED BY <1>1, <1>6, <1>7, <1>9, Zenon

\* The second one completes the code.
LEMMA SecondDigit ==
    ASSUME NEW text, NEW x, x # Http!Percent, NEW h \in 0 .. 15, NEW l \in 0 .. 15, Http!HexValue(x) = l
    PROVE  Http!DecodeStep([ret |-> text, val |-> 16 * h, seq |-> 2, bad |-> FALSE], x)
            = [ret |-> Append(text, 16 * h + l), val |-> 0, seq |-> 0, bad |-> FALSE]
<1>1. PICK d : d = [ret |-> text, val |-> 16 * h, seq |-> 2, bad |-> FALSE]
    OBVIOUS
<1>2. d.ret = text /\ d.val = 16 * h /\ d.seq = 2 /\ d.bad = FALSE
    BY <1>1
<1> DEFINE sum == d.val + (IF Http!HexValue(x) = -1 THEN 0 ELSE Http!HexValue(x))
           val == (IF d.seq = 1 THEN sum * 16 ELSE sum) % 256
           bad == d.bad \/ Http!HexValue(x) = -1
<1>3. d.seq # 0 /\ d.seq # 1 /\ l # -1
    BY <1>2
<1>4. Http!DecodeStep(d, x) = [ret |-> IF bad THEN d.ret ELSE Append(d.ret, val), val |-> 0, seq |-> 0, bad |-> FALSE]
    BY <1>2, <1>3, Zenon DEF Http!DecodeStep
<1>5. sum = 16 * h + l
    BY <1>2, <1>3
<1>6. val = 16 * h + l
    <2> HIDE DEF sum
    <2>1. (16 * h + l) % 256 = 16 * h + l
        OBVIOUS
    <2> QED BY <1>2, <1>3, <1>5, <2>1
<1>7. ~bad
    BY <1>2, <1>3
<1> HIDE DEF val, bad
<1> QED BY <1>1, <1>2, <1>4, <1>6, <1>7, Zenon

\* The decoder takes one encoded code for the code.
LEMMA DecoderCode ==
    ASSUME NEW str \in Seq(Int), NEW text \in Seq(Int), Decoder(str) = Decoded(text), NEW c \in Codes
    PROVE  Decoder(str \o Code(c)) = Decoded(Append(text, c))
<1>1. CASE c \in Http!Plain
    <2>1. c \in Int /\ c # Http!Percent
        BY <1>1 DEF Http!Plain, Http!Percent, Codes
    <2>2. Http!DecodeStep(Decoded(text), c) = Decoded(Append(text, c))
        BY <2>1 DEF Http!DecodeStep, Decoded
    <2> QED BY <1>1, <2>1, <2>2, DecoderLast DEF Code
<1>2. CASE c \notin Http!Plain
    <2>1. PICK h \in 0 .. 15, l \in 0 .. 15 : h = c \div 16 /\ l = c % 16 /\ c = 16 * h + l
        BY DEF Codes
    <2>2. \A n \in 0 .. 15 : /\ Http!HexDigit(n) \in Int /\ Http!HexDigit(n) # Http!Percent
                             /\ Http!HexValue(Http!HexDigit(n)) = n
        BY DEF Http!HexDigit, Http!HexValue, Http!IsDigit, Http!Percent
    <2>3. PICK x \in Int : x = Http!HexDigit(h) /\ x # Http!Percent /\ Http!HexValue(x) = h
        BY <2>2
    <2>4. PICK y \in Int : y = Http!HexDigit(l) /\ y # Http!Percent /\ Http!HexValue(y) = l
        BY <2>2
    <2>5. Code(c) = <<Http!Percent, x, y>> /\ Http!Percent \in Int
        BY <1>2, <2>1, <2>3, <2>4 DEF Code, Http!Percent
    <2>6. PICK s1 : s1 = str \o <<Http!Percent>>
        OBVIOUS
    <2>7. PICK s2 : s2 = s1 \o <<x>>
        OBVIOUS
    <2>8. PICK s3 : s3 = s2 \o <<y>>
        OBVIOUS
    <2>9. s1 \in Seq(Int) /\ s2 \in Seq(Int)
        BY <2>5, <2>6, <2>7
    <2>10. s3 = str \o Code(c)
        BY <2>5, <2>6, <2>7, <2>8
    <2>11. Decoder(s1) = [ret |-> text, val |-> 0, seq |-> 1, bad |-> FALSE]
        <3>1. Decoder(s1) = Http!DecodeStep(Decoded(text), Http!Percent)
            BY <2>5, <2>6, DecoderLast
        <3> QED BY <3>1 DEF Http!DecodeStep, Decoded
    <2>12. Decoder(s2) = [ret |-> text, val |-> 16 * h, seq |-> 2, bad |-> FALSE]
        <3>1. Decoder(s2) = Http!DecodeStep(Decoder(s1), x)
            BY <2>7, <2>9, DecoderLast
        <3> QED BY <2>3, <2>11, <3>1, FirstDigit
    <2>13. Decoder(s3) = [ret |-> Append(text, c), val |-> 0, seq |-> 0, bad |-> FALSE]
        <3>1. Decoder(s3) = Http!DecodeStep(Decoder(s2), y)
            BY <2>8, <2>9, DecoderLast
        <3>2. Http!DecodeStep([ret |-> text, val |-> 16 * h, seq |-> 2, bad |-> FALSE], y)
                = [ret |-> Append(text, 16 * h + l), val |-> 0, seq |-> 0, bad |-> FALSE]
            BY <2>4, SecondDigit
        <3>3. 16 * h + l = c
            BY <2>1
        <3> QED BY <2>12, <3>1, <3>2, <3>3, Zenon
    <2> QED BY <2>10, <2>13 DEF Decoded
<1> QED BY <1>1, <1>2

\* A sequence of some is one of more.
LEMMA SeqOfMore ==
    ASSUME NEW S, NEW T, S \subseteq T, NEW s \in Seq(S)
    PROVE  s \in Seq(T)
<1>1. Len(s) \in Nat /\ s \in [1 .. Len(s) -> S]
    BY LenProperties
<1>2. s \in [1 .. Len(s) -> T]
    BY <1>1
<1> QED BY <1>1, <1>2

\* What is encoded is made of codes.
LEMMA EncodedAreCodes == Encoded \subseteq Codes /\ Encoded \subseteq Int /\ Codes \subseteq Int
BY DEF Encoded, Codes, Http!Plain, Http!Percent

\* Encode() goes along the string.
LEMMA EncodeChain ==
    ASSUME NEW str \in Seq(Codes)
    PROVE  \E f : /\ f \in [0 .. Len(str) -> Seq(Encoded)] /\ f[0] = <<>>
                  /\ \A i \in 1 .. Len(str) : f[i] = f[i - 1] \o Code(str[i])
                  /\ Http!Encode(str) = f[Len(str)]
<1> DEFINE n == Len(str)
           S == Seq(Encoded)
           acc == CHOOSE f : f = [i \in 0 .. n |-> IF i = 0 THEN <<>> ELSE f[i - 1] \o Code(str[i])]
           H == [i \in 1 .. n |-> [x \in S |-> x \o Code(str[i])]]
<1>1. n \in Nat /\ \A i \in 1 .. n : str[i] \in Codes
    BY LenProperties, ElementOfSeq
<1>2. Http!Encode(str) = acc[n]
    BY DEF Http!Encode, Http!Accumulate, Code
<1>3. <<>> \in S
    OBVIOUS
<1>4. \A i \in 1 .. n : \A x \in S : H[i][x] = x \o Code(str[i])
    OBVIOUS
<1>5. H \in Steps(n, S)
    <2>1. ASSUME NEW i \in 1 .. n, NEW x \in S PROVE x \o Code(str[i]) \in S
        <3>1. Code(str[i]) \in S
            BY <1>1, CodeType
        <3> QED BY <3>1
    <2> QED BY <2>1 DEF Steps
<1> HIDE DEF H, n, S
<1>6. PICK f : f \in [0 .. n -> S] /\ f[0] = <<>> /\ \A i \in 1 .. n : f[i] = H[i][f[i - 1]]
    <2>1. \E f : Along(f, n, S, <<>>, H)
        BY <1>1, <1>3, <1>5, Chain
    <2> QED BY <2>1 DEF Along
<1>7. f = [i \in 0 .. n |-> IF i = 0 THEN <<>> ELSE f[i - 1] \o Code(str[i])]
    <2>1. ASSUME NEW i \in 0 .. n PROVE f[i] = IF i = 0 THEN <<>> ELSE f[i - 1] \o Code(str[i])
        <3>1. CASE i = 0
            BY <1>6, <3>1
        <3>2. CASE i \in 1 .. n
            <4>1. i - 1 \in 0 .. n
                BY <1>1, <3>2
            <4>2. f[i - 1] \in S
                BY <1>6, <4>1
            <4> QED BY <1>4, <1>6, <3>2, <4>2
        <3> QED BY <1>1, <3>1, <3>2
    <2> QED BY <1>6, <2>1
<1>8. acc = [i \in 0 .. n |-> IF i = 0 THEN <<>> ELSE acc[i - 1] \o Code(str[i])]
    BY <1>7
<1> HIDE DEF acc
<1>9. acc[0] = <<>> /\ \A i \in 1 .. n : acc[i] = acc[i - 1] \o Code(str[i])
    BY <1>1, <1>8
<1>10. \A i \in 0 .. n : acc[i] \in S
    <2> DEFINE G == [i \in 0 .. n |-> S]
    <2>1. ASSUME NEW i \in 1 .. n, acc[i - 1] \in S PROVE acc[i] \in S
        <3>1. Code(str[i]) \in S
            BY <1>1, CodeType DEF S
        <3>2. acc[i] = acc[i - 1] \o Code(str[i])
            BY <1>9
        <3> QED BY <2>1, <3>1, <3>2 DEF S
    <2>2. acc[0] \in G[0] /\ \A i \in 1 .. n : acc[i - 1] \in G[i - 1] => acc[i] \in G[i]
        BY <1>1, <1>3, <1>9, <2>1
    <2>3. \A i \in 0 .. n : G[i] = S
        OBVIOUS
    <2> HIDE DEF G
    <2>4. \A i \in 0 .. n : acc[i] \in G[i]
        BY <1>1, <2>2, Reaches
    <2> QED BY <2>3, <2>4
<1>11. acc \in [0 .. n -> S]
    BY <1>8, <1>10
<1> QED BY <1>2, <1>9, <1>11 DEF n, S

\* The decoder takes what a string is encoded as for the string.
LEMMA EncodeDecodes ==
    ASSUME NEW str \in Seq(Codes)
    PROVE  Http!Encode(str) \in Seq(Encoded) /\ Http!Decode(Http!Encode(str)) = str
<1>1. PICK n \in Nat : n = Len(str)
    BY LenProperties
<1>2. \A i \in 1 .. n : str[i] \in Codes
    BY <1>1, ElementOfSeq
<1>3. PICK f : /\ f \in [0 .. n -> Seq(Encoded)] /\ f[0] = <<>>
               /\ \A i \in 1 .. n : f[i] = f[i - 1] \o Code(str[i])
               /\ Http!Encode(str) = f[n]
    BY <1>1, EncodeChain
<1> DEFINE Part(i) == SubSeq(str, 1, i)
           G == [i \in 0 .. n |-> {t \in Seq(Encoded) : Decoder(t) = Decoded(Part(i))}]
<1>4. \A i \in 0 .. n : G[i] = {t \in Seq(Encoded) : Decoder(t) = Decoded(Part(i))}
    OBVIOUS
<1>5. ASSUME NEW i \in 0 .. n
      PROVE  /\ Part(i) \in Seq(Int) /\ Part(i) \in Seq(Codes) /\ Len(Part(i)) = i
             /\ \A j \in 1 .. i : Part(i)[j] = str[j]
    <2>1. PICK h : h = SubSeq(str, 1, i)
        OBVIOUS
    <2>2. \A j \in 1 .. i : str[j] \in Codes
        BY <1>2
    <2>3. h \in Seq(Codes) /\ Len(h) = (IF 1 <= i THEN i - 1 + 1 ELSE 0) /\ \A j \in 1 .. i - 1 + 1 : h[j] = str[1 + j - 1]
        BY <2>1, <2>2, SubSeqProperties
    <2>4. h \in Seq(Int)
        BY <2>3, SeqOfMore, EncodedAreCodes
    <2>5. Len(h) = i /\ \A j \in 1 .. i : h[j] = str[j]
        BY <2>3
    <2> QED BY <2>1, <2>3, <2>4, <2>5
<1> HIDE DEF G, Part
<1>6. f[0] \in G[0]
    <2>1. <<>> \in Seq(Int) /\ Len(<<>>) = 0 /\ <<>> \in Seq(Encoded)
        OBVIOUS
    <2>2. Decoder(<<>>) = Decoded(<<>>)
        <3>1. PICK e : e = <<>>
            OBVIOUS
        <3>2. PICK g : g[0] = Decoded(<<>>) /\ Decoder(e) = g[Len(e)]
            BY <2>1, <3>1, DecoderChain
        <3> QED BY <2>1, <3>1, <3>2
    <2>3. Part(0) = <<>>
        BY <1>5, EmptySeq
    <2> QED BY <1>3, <1>4, <2>1, <2>2, <2>3
<1>7. ASSUME NEW i \in 1 .. n, f[i - 1] \in G[i - 1] PROVE f[i] \in G[i]
    <2>1. i - 1 \in 0 .. n /\ i \in 0 .. n
        OBVIOUS
    <2>2. PICK t : t = f[i - 1]
        OBVIOUS
    <2>3. t \in Seq(Encoded) /\ Decoder(t) = Decoded(Part(i - 1))
        BY <1>4, <1>7, <2>1, <2>2
    <2>4. PICK h : h = Part(i - 1)
        OBVIOUS
    <2>5. h \in Seq(Int) /\ Len(h) = i - 1 /\ \A j \in 1 .. i - 1 : h[j] = str[j]
        BY <1>5, <2>1, <2>4
    <2>6. PICK c \in Codes : c = str[i]
        BY <1>2
    <2>7. t \in Seq(Int) /\ c \in Int
        BY <2>3, SeqOfMore, EncodedAreCodes
    <2>8. Append(h, c) = Part(i)
        <3>1. PICK a : a = Append(h, c)
            OBVIOUS
        <3>2. a \in Seq(Int) /\ Len(a) = i /\ (\A j \in 1 .. i - 1 : a[j] = h[j]) /\ a[i] = c
            <4>1. a \in Seq(Int) /\ Len(a) = Len(h) + 1 /\ (\A j \in 1 .. Len(h) : a[j] = h[j]) /\ a[Len(h) + 1] = c
                BY <2>5, <2>7, <3>1, AppendProperties
            <4> QED BY <2>5, <4>1
        <3>3. PICK g : g = Part(i)
            OBVIOUS
        <3>4. g \in Seq(Int) /\ Len(g) = i /\ \A j \in 1 .. i : g[j] = str[j]
            BY <1>5, <2>1, <3>3
        <3>5. \A j \in 1 .. i : a[j] = g[j]
            BY <2>5, <2>6, <3>2, <3>4
        <3>6. a = g
            BY <3>2, <3>4, <3>5, SeqEqual
        <3> QED BY <3>1, <3>3, <3>6
    <2>9. Decoder(t \o Code(c)) = Decoded(Append(h, c))
        BY <2>3, <2>4, <2>5, <2>6, <2>7, DecoderCode
    <2>10. t \o Code(c) \in Seq(Encoded)
        <3>1. Code(c) \in Seq(Encoded)
            BY CodeType
        <3> QED BY <2>3, <3>1
    <2>11. f[i] = t \o Code(c)
        BY <1>3, <2>2, <2>6
    <2> QED BY <1>4, <2>1, <2>8, <2>9, <2>10, <2>11
<1>8. f[n] \in G[n]
    <2>1. \A i \in 0 .. n : f[i] \in G[i]
        BY <1>6, <1>7, Reaches
    <2> QED BY <2>1
<1>9. Http!Encode(str) \in Seq(Encoded) /\ Decoder(Http!Encode(str)) = Decoded(Part(n))
    BY <1>3, <1>4, <1>8
<1>10. Part(n) = str
    <2>1. n \in 0 .. n
        OBVIOUS
    <2>2. PICK g : g = Part(n)
        OBVIOUS
    <2>3. g \in Seq(Codes) /\ Len(g) = Len(str) /\ \A j \in 1 .. Len(g) : g[j] = str[j]
        BY <1>1, <1>5, <2>1, <2>2
    <2>4. g = str
        BY <2>3, SeqEqual
    <2> QED BY <2>2, <2>4
<1> QED BY <1>9, <1>10, DecodeIs DEF Decoded

(***************************************************************************)
(* The query that a client makes of its arguments.                         *)
(***************************************************************************)
Pairs == Seq(Codes) \X Seq(Codes)
QueryChars == Encoded \cup {Http!Ampersand, Http!EqualsSign}
UriChars == QueryChars \cup {Http!Question}
\* One argument, and what is put before it.
Piece(a) == (Http!Encode(a[1]) \o <<Http!EqualsSign>>) \o Http!Encode(a[2])
Separator(s) == IF s = <<>> THEN <<Http!Question>> ELSE <<Http!Ampersand>>
QueryStep(s, a) == ((((s \o Separator(s)) \o Http!Encode(a[1])) \o <<Http!EqualsSign>>) \o Http!Encode(a[2]))

\* No character of an argument is one at which a URL is cut.
LEMMA CharsAreOthers ==
    /\ \A c \in Encoded : c # Http!Ampersand /\ c # Http!EqualsSign
    /\ \A c \in QueryChars : c # Http!Question /\ c # Http!Hash /\ c # Http!Slash /\ c # Http!Colon
    /\ \A c \in UriChars : c # Http!Hash /\ c # Http!Slash /\ c # Http!Colon
    /\ Http!Ampersand # Http!EqualsSign /\ Http!Question # Http!Hash
    /\ UriChars \subseteq Codes
BY DEF QueryChars, UriChars, Encoded, Codes, Http!Plain, Http!Percent, Http!Ampersand, Http!EqualsSign,
       Http!Question, Http!Hash, Http!Slash, Http!Colon

\* An argument is one variable, which has its name.
LEMMA PieceIs ==
    ASSUME NEW a \in Pairs
    PROVE  /\ Piece(a) \in Seq(QueryChars) /\ Piece(a) # <<>> /\ NameOf(Piece(a)) = a[1]
           /\ \A j \in 1 .. Len(Piece(a)) : Piece(a)[j] # Http!Ampersand
<1>1. a[1] \in Seq(Codes) /\ a[2] \in Seq(Codes)
    BY DEF Pairs
<1>2. PICK n \in Seq(Encoded) : n = Http!Encode(a[1]) /\ Http!Decode(n) = a[1]
    BY <1>1, EncodeDecodes
<1>3. PICK v \in Seq(Encoded) : v = Http!Encode(a[2])
    BY <1>1, EncodeDecodes
<1> DEFINE S == Encoded \cup {Http!EqualsSign}
<1>4. Encoded \subseteq S /\ S \subseteq QueryChars /\ \A c \in S : c # Http!Ampersand
    BY CharsAreOthers DEF QueryChars
<1>5. PICK e : e = <<Http!EqualsSign>>
    OBVIOUS
<1>6. e \in Seq(S) /\ Len(e) = 1 /\ e[1] = Http!EqualsSign
    BY <1>5
<1> HIDE DEF S
<1>7. n \in Seq(S) /\ v \in Seq(S) /\ Len(n) \in Nat /\ Len(v) \in Nat
    BY <1>4, SeqOfMore, LenProperties
<1>8. PICK x : x = n \o e
    OBVIOUS
<1>9. x \in Seq(S) /\ Len(x) = Len(n) + 1 /\ (\A j \in 1 .. Len(n) : x[j] = n[j]) /\ x[Len(n) + 1] = Http!EqualsSign
    <2>1. n \in Seq(S) /\ e \in Seq(S)
        BY <1>6, <1>7
    <2>2. /\ x \in Seq(S) /\ Len(x) = Len(n) + Len(e)
          /\ \A i \in 1 .. Len(n) : x[i] = n[i]
          /\ \A i \in Len(n) + 1 .. Len(n) + Len(e) : x[i] = e[i - Len(n)]
        BY <1>8, <2>1, Concat
    <2> QED BY <1>6, <1>7, <2>2
<1>10. PICK p : p = x \o v
    OBVIOUS
<1>11. p \in Seq(S) /\ Len(p) = Len(n) + 1 + Len(v) /\ (\A j \in 1 .. Len(n) : p[j] = n[j]) /\ p[Len(n) + 1] = Http!EqualsSign
    <2>1. x \in Seq(S) /\ v \in Seq(S)
        BY <1>7, <1>9
    <2>2. /\ p \in Seq(S) /\ Len(p) = Len(x) + Len(v)
          /\ \A i \in 1 .. Len(x) : p[i] = x[i]
        BY <1>10, <2>1, Concat
    <2> QED BY <1>7, <1>9, <2>2
<1>12. Piece(a) = p
    BY <1>2, <1>3, <1>5, <1>8, <1>10 DEF Piece
<1>13. \A j \in 1 .. Len(p) : p[j] \in S
    BY <1>11, ElementOfSeq
<1>14. p \in Seq(QueryChars) /\ p # <<>> /\ \A j \in 1 .. Len(p) : p[j] # Http!Ampersand
    <2>1. p \in Seq(QueryChars)
        BY <1>4, <1>11, SeqOfMore
    <2>2. p # <<>>
        <3>1. Len(p) # 0
            BY <1>7, <1>11
        <3> QED BY <3>1, EmptySeq
    <2> QED BY <1>4, <1>13, <2>1, <2>2
<1>15. NameOf(p) = a[1]
    <2>1. PICK k : k = Len(n) + 1
        OBVIOUS
    <2>2. k \in 1 .. Len(p) + 1 /\ k <= Len(p) /\ k - 1 = Len(n)
        BY <1>7, <1>11, <2>1
    <2>3. \A i \in 1 .. k - 1 : p[i] \notin Equals
        <3>1. ASSUME NEW i \in 1 .. Len(n) PROVE p[i] \notin Equals
            <4>1. n[i] \in Encoded
                BY ElementOfSeq
            <4> QED BY <1>11, <4>1, CharsAreOthers DEF Equals
        <3> QED BY <2>2, <3>1
    <2>4. p[k] \in Equals
        BY <1>11, <2>1 DEF Equals
    <2>5. Http!FindFirst(p, Equals) = k
        BY <1>11, <2>2, <2>3, <2>4, FirstIs
    <2>6. PICK b : b = Http!Before(p, k)
        OBVIOUS
    <2>7. b \in Seq(S) /\ Len(b) = k - 1 /\ \A j \in 1 .. k - 1 : b[j] = p[j]
        BY <1>11, <2>2, <2>6, BeforeIs
    <2>8. b = n
        <3>1. Len(b) = Len(n) /\ \A j \in 1 .. Len(b) : b[j] = n[j]
            BY <1>11, <2>2, <2>7
        <3> QED BY <1>7, <2>7, <3>1, SeqEqual
    <2> QED BY <1>2, <2>5, <2>6, <2>8 DEF NameOf
<1> QED BY <1>12, <1>14, <1>15

\* An argument is put after the others.
LEMMA QueryStepIs ==
    ASSUME NEW s \in Seq(UriChars), NEW a \in Pairs
    PROVE  /\ QueryStep(s, a) = (s \o Separator(s)) \o Piece(a)
           /\ QueryStep(s, a) \in Seq(UriChars)
<1>1. a[1] \in Seq(Codes) /\ a[2] \in Seq(Codes)
    BY DEF Pairs
<1>2. Encoded \subseteq UriChars
    BY DEF UriChars, QueryChars
<1>3. PICK n \in Seq(UriChars) : n = Http!Encode(a[1])
    BY <1>1, <1>2, EncodeDecodes, SeqOfMore
<1>4. PICK v \in Seq(UriChars) : v = Http!Encode(a[2])
    BY <1>1, <1>2, EncodeDecodes, SeqOfMore
<1>5. PICK e \in Seq(UriChars) : e = <<Http!EqualsSign>>
    <2>1. Http!EqualsSign \in UriChars
        BY DEF UriChars, QueryChars
    <2>2. <<Http!EqualsSign>> \in Seq(UriChars)
        BY <2>1
    <2> QED BY <2>2
<1>6. PICK t \in Seq(UriChars) : t = s \o Separator(s)
    <2>1. Http!Question \in UriChars /\ Http!Ampersand \in UriChars
        BY DEF UriChars, QueryChars
    <2>2. Separator(s) \in Seq(UriChars)
        BY <2>1 DEF Separator
    <2>3. s \o Separator(s) \in Seq(UriChars)
        BY <2>2, ConcatProperties
    <2> QED BY <2>3
<1>7. ((t \o n) \o e) \o v = t \o ((n \o e) \o v)
    <2>1. PICK ne \in Seq(UriChars) : ne = n \o e
        <3>1. n \o e \in Seq(UriChars)
            BY ConcatProperties
        <3> QED BY <3>1
    <2>2. (t \o n) \o e = t \o ne
        BY <2>1, ConcatAssociative
    <2>3. (t \o ne) \o v = t \o (ne \o v)
        BY ConcatAssociative
    <2> QED BY <2>1, <2>2, <2>3
<1>8. ((t \o n) \o e) \o v \in Seq(UriChars)
    OBVIOUS
<1> QED BY <1>3, <1>4, <1>5, <1>6, <1>7, <1>8, Zenon DEF QueryStep, Piece

\* Query() goes along the arguments.
LEMMA QueryChain ==
    ASSUME NEW args \in Seq(Pairs)
    PROVE  \E f : /\ f \in [0 .. Len(args) -> Seq(UriChars)] /\ f[0] = <<>>
                  /\ \A i \in 1 .. Len(args) : f[i] = QueryStep(f[i - 1], args[i])
                  /\ Http!Query(args) = f[Len(args)]
<1> DEFINE n == Len(args)
           S == Seq(UriChars)
           acc == CHOOSE f : f = [i \in 0 .. n |-> IF i = 0 THEN <<>> ELSE QueryStep(f[i - 1], args[i])]
           H == [i \in 1 .. n |-> [x \in S |-> QueryStep(x, args[i])]]
<1>1. n \in Nat /\ \A i \in 1 .. n : args[i] \in Pairs
    BY LenProperties, ElementOfSeq
<1>2. Http!Query(args) = acc[n]
    BY DEF Http!Query, Http!Accumulate, QueryStep, Separator
<1>3. <<>> \in S
    OBVIOUS
<1>4. \A i \in 1 .. n : \A x \in S : H[i][x] = QueryStep(x, args[i])
    OBVIOUS
<1>5. H \in Steps(n, S)
    <2>1. ASSUME NEW i \in 1 .. n, NEW x \in S PROVE QueryStep(x, args[i]) \in S
        BY <1>1, QueryStepIs
    <2> QED BY <2>1 DEF Steps
<1> HIDE DEF H, n, S
<1>6. PICK f : f \in [0 .. n -> S] /\ f[0] = <<>> /\ \A i \in 1 .. n : f[i] = H[i][f[i - 1]]
    <2>1. \E f : Along(f, n, S, <<>>, H)
        BY <1>1, <1>3, <1>5, Chain
    <2> QED BY <2>1 DEF Along
<1>7. f = [i \in 0 .. n |-> IF i = 0 THEN <<>> ELSE QueryStep(f[i - 1], args[i])]
    <2>1. ASSUME NEW i \in 0 .. n PROVE f[i] = IF i = 0 THEN <<>> ELSE QueryStep(f[i - 1], args[i])
        <3>1. CASE i = 0
            BY <1>6, <3>1
        <3>2. CASE i \in 1 .. n
            <4>1. i - 1 \in 0 .. n
                BY <1>1, <3>2
            <4>2. f[i - 1] \in S
                BY <1>6, <4>1
            <4> QED BY <1>4, <1>6, <3>2, <4>2
        <3> QED BY <1>1, <3>1, <3>2
    <2> QED BY <1>6, <2>1
<1>8. acc = [i \in 0 .. n |-> IF i = 0 THEN <<>> ELSE QueryStep(acc[i - 1], args[i])]
    BY <1>7
<1> HIDE DEF acc
<1>9. acc[0] = <<>> /\ \A i \in 1 .. n : acc[i] = QueryStep(acc[i - 1], args[i])
    BY <1>1, <1>8
<1>10. \A i \in 0 .. n : acc[i] \in S
    <2> DEFINE G == [i \in 0 .. n |-> S]
    <2>1. ASSUME NEW i \in 1 .. n, acc[i - 1] \in S PROVE acc[i] \in S
        <3>1. acc[i] = QueryStep(acc[i - 1], args[i])
            BY <1>9
        <3>2. QueryStep(acc[i - 1], args[i]) \in S
            BY <1>1, <2>1, QueryStepIs DEF S
        <3> QED BY <3>1, <3>2
    <2>2. acc[0] \in G[0] /\ \A i \in 1 .. n : acc[i - 1] \in G[i - 1] => acc[i] \in G[i]
        BY <1>1, <1>3, <1>9, <2>1
    <2>3. \A i \in 0 .. n : G[i] = S
        OBVIOUS
    <2> HIDE DEF G
    <2>4. \A i \in 0 .. n : acc[i] \in G[i]
        BY <1>1, <2>2, Reaches
    <2> QED BY <2>3, <2>4
<1>11. acc \in [0 .. n -> S]
    BY <1>8, <1>10
<1> QED BY <1>2, <1>9, <1>11 DEF n, S

\* A query of names: a question mark, and what the names are found in.
QueryOf(q, names) == \E b \in Seq(QueryChars) : /\ q = <<Http!Question>> \o b /\ NamesIn(b) = names
                                                /\ b # <<>> /\ b[Len(b)] # Http!Ampersand

\* The last character of an argument.
LEMMA LastOf ==
    ASSUME NEW S, NEW s \in Seq(S), NEW p \in Seq(S), p # <<>>, \A j \in 1 .. Len(p) : p[j] # Http!Ampersand,
           NEW u, u = s \o p
    PROVE  u \in Seq(S) /\ u # <<>> /\ u[Len(u)] # Http!Ampersand
<1>1. Len(p) \in Nat /\ Len(p) > 0 /\ Len(s) \in Nat
    BY LenProperties, EmptySeq
<1>2. /\ u \in Seq(S) /\ Len(u) = Len(s) + Len(p)
      /\ \A i \in Len(s) + 1 .. Len(s) + Len(p) : u[i] = p[i - Len(s)]
    BY Concat
<1>3. Len(u) \in Len(s) + 1 .. Len(s) + Len(p) /\ Len(u) - Len(s) = Len(p) /\ Len(p) \in 1 .. Len(p) /\ Len(u) # 0
    BY <1>1, <1>2
<1>4. u[Len(u)] # Http!Ampersand
    BY <1>2, <1>3
<1>5. u # <<>>
    BY <1>3, EmptySeq
<1> QED BY <1>2, <1>4, <1>5

\* The first argument makes a query of its name.
LEMMA FirstArgument ==
    ASSUME NEW a \in Pairs
    PROVE  QueryOf(QueryStep(<<>>, a), {a[1]})
<1>1. PICK p \in Seq(QueryChars) : /\ p = Piece(a) /\ p # <<>> /\ NameOf(p) = a[1]
                                   /\ \A j \in 1 .. Len(p) : p[j] # Http!Ampersand
    BY PieceIs
<1>2. QueryStep(<<>>, a) = (<<>> \o Separator(<<>>)) \o p
    <2>1. <<>> \in Seq(UriChars)
        OBVIOUS
    <2> QED BY <1>1, <2>1, QueryStepIs
<1>3. <<>> \o Separator(<<>>) = <<Http!Question>>
    <2>1. Separator(<<>>) = <<Http!Question>>
        BY DEF Separator
    <2>2. <<Http!Question>> \in Seq({Http!Question})
        OBVIOUS
    <2> QED BY <2>1, <2>2, ConcatEmptySeq
<1>4. NamesIn(p) = {a[1]}
    BY <1>1, NamesOfOne
<1>5. Len(p) \in 1 .. Len(p)
    BY LenProperties, EmptySeq, <1>1
<1> QED BY <1>1, <1>2, <1>3, <1>4, <1>5 DEF QueryOf

\* Each other one adds its name.
LEMMA NextArgument ==
    ASSUME NEW q, NEW names, QueryOf(q, names), NEW a \in Pairs
    PROVE  QueryOf(QueryStep(q, a), names \cup {a[1]})
<1>1. PICK p \in Seq(QueryChars) : /\ p = Piece(a) /\ p # <<>> /\ NameOf(p) = a[1]
                                   /\ \A j \in 1 .. Len(p) : p[j] # Http!Ampersand
    BY PieceIs
<1>2. PICK b \in Seq(QueryChars) : /\ q = <<Http!Question>> \o b /\ NamesIn(b) = names
                                   /\ b # <<>> /\ b[Len(b)] # Http!Ampersand
    BY DEF QueryOf
<1>3. QueryChars \subseteq UriChars /\ Http!Question \in UriChars /\ Http!Ampersand \in QueryChars
    BY DEF UriChars, QueryChars
<1>4. PICK m \in Seq(UriChars) : m = <<Http!Question>> /\ Len(m) = 1
    <2>1. <<Http!Question>> \in Seq(UriChars) /\ Len(<<Http!Question>>) = 1
        BY <1>3
    <2> QED BY <2>1
<1>5. PICK e \in Seq(QueryChars) : e = <<Http!Ampersand>>
    <2>1. <<Http!Ampersand>> \in Seq(QueryChars)
        BY <1>3
    <2> QED BY <2>1
<1>6. b \in Seq(UriChars) /\ e \in Seq(UriChars) /\ p \in Seq(UriChars)
    BY <1>3, SeqOfMore
<1>7. q \in Seq(UriChars) /\ q # <<>>
    <2>1. m \o b \in Seq(UriChars)
        BY <1>6, ConcatProperties
    <2>2. m # <<>>
        BY <1>4
    <2>3. m \o b # <<>>
        BY <1>6, <2>2, ConcatEqualIffEmpty
    <2> QED BY <1>2, <1>4, <2>1, <2>3
<1>8. QueryStep(q, a) = (q \o e) \o p
    <2>1. Separator(q) = e
        BY <1>5, <1>7 DEF Separator
    <2> QED BY <1>1, <1>7, <2>1, QueryStepIs
<1>9. PICK be \in Seq(QueryChars) : be = b \o e
    <2>1. b \o e \in Seq(QueryChars)
        BY ConcatProperties
    <2> QED BY <2>1
<1>10. PICK c : c = be \o p
    OBVIOUS
<1>11. c \in Seq(QueryChars) /\ c # <<>> /\ c[Len(c)] # Http!Ampersand
    BY <1>1, <1>9, <1>10, LastOf
<1>12. NamesIn(c) = names \cup {a[1]}
    <2>1. NamesIn((b \o <<Http!Ampersand>>) \o p) = NamesIn(b) \cup {NameOf(p)}
        <3>1. /\ Http!Ampersand \in QueryChars /\ b \in Seq(QueryChars) /\ b # <<>>
              /\ b[Len(b)] # Http!Ampersand /\ p \in Seq(QueryChars) /\ p # <<>>
              /\ \A j \in 1 .. Len(p) : p[j] # Http!Ampersand
            BY <1>1, <1>2, <1>3
        <3> HIDE <1>1, <1>2
        <3>2. \A S : /\ Http!Ampersand \in S /\ b \in Seq(S) /\ b # <<>>
              /\ b[Len(b)] # Http!Ampersand /\ p \in Seq(S) /\ p # <<>>
              /\ (\A j \in 1 .. Len(p) : p[j] # Http!Ampersand)
              => NamesIn((b \o <<Http!Ampersand>>) \o p) = NamesIn(b) \cup {NameOf(p)}
            BY NamesOfMore, Zenon
        <3> QED BY <3>1, <3>2, Zenon
    <2> QED BY <1>1, <1>2, <1>5, <1>9, <1>10, <2>1
<1>13. (q \o e) \o p = m \o c
    <2>1. (m \o b) \o e = m \o be
        BY <1>6, <1>9, ConcatAssociative
    <2>2. be \in Seq(UriChars)
        BY <1>3, SeqOfMore
    <2>3. (m \o be) \o p = m \o (be \o p)
        BY <1>6, <2>2, ConcatAssociative
    <2> QED BY <1>2, <1>4, <1>10, <2>1, <2>3
<1> QED BY <1>4, <1>8, <1>11, <1>12, <1>13 DEF QueryOf

\* The query of the arguments is empty, or one of all their names.
LEMMA QueryIs ==
    ASSUME NEW args \in Seq(Pairs)
    PROVE  IF args = <<>> THEN Http!Query(args) = <<>>
           ELSE QueryOf(Http!Query(args), {args[i][1] : i \in DOMAIN args})
<1>1. PICK n \in Nat : n = Len(args) /\ DOMAIN args = 1 .. n
    BY LenProperties
<1>2. \A i \in 1 .. n : args[i] \in Pairs
    BY <1>1, ElementOfSeq
<1>3. PICK f : /\ f[0] = <<>> /\ \A i \in 1 .. n : f[i] = QueryStep(f[i - 1], args[i])
               /\ Http!Query(args) = f[n]
    BY <1>1, QueryChain
<1> DEFINE names(i) == {args[j][1] : j \in 1 .. i}
           G == [i \in 0 .. n |-> {t \in {f[i]} : IF i = 0 THEN t = <<>> ELSE QueryOf(t, names(i))}]
<1>4. \A i \in 0 .. n : f[i] \in G[i] <=> IF i = 0 THEN f[i] = <<>> ELSE QueryOf(f[i], names(i))
    OBVIOUS
<1>5. names(1) = {args[1][1]} /\ \A i \in 1 .. n : i - 1 \in 1 .. n => names(i) = names(i - 1) \cup {args[i][1]}
    OBVIOUS
<1> HIDE DEF G, names
<1>6. f[0] \in G[0]
    BY <1>3, <1>4
<1>7. ASSUME NEW i \in 1 .. n, f[i - 1] \in G[i - 1] PROVE f[i] \in G[i]
    <2>1. i - 1 \in 0 .. n /\ i \in 0 .. n /\ i # 0
        OBVIOUS
    <2>2. f[i] = QueryStep(f[i - 1], args[i]) /\ args[i] \in Pairs
        BY <1>2, <1>3
    <2>3. CASE i = 1
        <3>1. f[i - 1] = <<>>
            BY <1>3, <2>3
        <3>2. QueryOf(f[i], {args[i][1]})
            BY <2>2, <3>1, FirstArgument
        <3> QED BY <1>4, <1>5, <2>1, <2>3, <3>2
    <2>4. CASE i # 1
        <3>1. i - 1 # 0 /\ i - 1 \in 1 .. n
            BY <2>4
        <3>2. QueryOf(f[i - 1], names(i - 1))
            BY <1>4, <1>7, <2>1, <3>1
        <3>3. QueryOf(QueryStep(f[i - 1], args[i]), names(i - 1) \cup {args[i][1]})
            BY <2>2, <3>2, NextArgument
        <3> QED BY <1>4, <1>5, <2>1, <2>2, <3>1, <3>3
    <2> QED BY <2>3, <2>4
<1>8. \A i \in 0 .. n : f[i] \in G[i]
    BY <1>6, <1>7, Reaches
<1>9. n \in 0 .. n /\ (n = 0 <=> args = <<>>)
    BY <1>1, EmptySeq
<1>10. IF n = 0 THEN f[n] = <<>> ELSE QueryOf(f[n], names(n))
    BY <1>4, <1>8, <1>9
<1> QED BY <1>1, <1>3, <1>9, <1>10 DEF names

(***************************************************************************)
(* Taking a URL apart.                                                     *)
(***************************************************************************)
\* A path from the root.
IsPath(path) == /\ path \in Seq(Codes) /\ path # <<>> /\ path[1] = Http!Slash
                /\ \A i \in 1 .. Len(path) : path[i] \notin {Http!Question, Http!Hash}
                /\ Http!ProtocolEnd(path) = 0
\* The places of "://".
Ends(u) == {i \in 1 .. Len(u) - 2 : SubSeq(u, i, i + 2) = <<Http!Colon, Http!Slash, Http!Slash>>}

\* Where there is no end of a protocol there is no "://", and the other way round.
LEMMA NoEnds ==
    ASSUME NEW S, NEW u \in Seq(S)
    PROVE  Http!ProtocolEnd(u) = 0 <=> Ends(u) = {}
<1>1. Http!ProtocolEnd(u) = IF Ends(u) = {} THEN 0 ELSE Http!Min(Ends(u)) + 2
    BY DEF Http!ProtocolEnd, Ends
<1>2. CASE Ends(u) # {}
    <2>1. Ends(u) \in SUBSET Nat
        BY LenProperties DEF Ends
    <2>2. PICK m \in Ends(u) : \A k \in Ends(u) : m <= k
        BY <1>2, <2>1, Least
    <2>3. Http!Min(Ends(u)) \in Ends(u)
        BY <2>2, Zenon DEF Http!Min
    <2>4. PICK x \in Nat : x = Http!Min(Ends(u))
        BY <2>1, <2>3
    <2> QED BY <1>1, <1>2, <2>4
<1> QED BY <1>1, <1>2

\* What "://" is.
LEMMA EndIs ==
    ASSUME NEW S, NEW u \in Seq(S), NEW i \in 1 .. Len(u) - 2
    PROVE  i \in Ends(u) <=> u[i] = Http!Colon /\ u[i + 1] = Http!Slash /\ u[i + 2] = Http!Slash
<1>1. Len(u) \in Nat /\ \A j \in 1 .. Len(u) : u[j] \in S
    BY LenProperties, ElementOfSeq
<1>2. PICK k : k = i + 2
    OBVIOUS
<1>3. i \in Int /\ k \in Int /\ i <= k /\ \A j \in i .. k : u[j] \in S
    BY <1>1, <1>2
<1>4. PICK t : t = SubSeq(u, i, k)
    OBVIOUS
<1>5. t \in Seq(S) /\ Len(t) = k - i + 1 /\ \A j \in 1 .. k - i + 1 : t[j] = u[i + j - 1]
    BY <1>3, <1>4, SubSeqProperties
<1>6. Len(t) = 3 /\ t[1] = u[i] /\ t[2] = u[i + 1] /\ t[3] = u[i + 2]
    <2>1. k - i + 1 = 3 /\ 1 \in 1 .. 3 /\ 2 \in 1 .. 3 /\ 3 \in 1 .. 3
        BY <1>2
    <2>2. t[1] = u[i + 1 - 1] /\ t[2] = u[i + 2 - 1] /\ t[3] = u[i + 3 - 1]
        BY <1>5, <2>1
    <2>3. i + 1 - 1 = i /\ i + 2 - 1 = i + 1 /\ i + 3 - 1 = i + 2
        OBVIOUS
    <2> QED BY <1>5, <2>1, <2>2, <2>3
<1>7. t = <<Http!Colon, Http!Slash, Http!Slash>>
        <=> t[1] = Http!Colon /\ t[2] = Http!Slash /\ t[3] = Http!Slash
    <2>1. PICK w : w = <<Http!Colon, Http!Slash, Http!Slash>>
        OBVIOUS
    <2>2. w[1] = Http!Colon /\ w[2] = Http!Slash /\ w[3] = Http!Slash /\ Len(w) = 3
        BY <2>1
    <2>3. ASSUME t[1] = w[1], t[2] = w[2], t[3] = w[3] PROVE t = w
        <3>1. t[1] \in S /\ t[2] \in S /\ t[3] \in S
            BY <1>5, <1>6, ElementOfSeq
        <3>2. w \in Seq(S)
            <4>1. w = <<t[1], t[2], t[3]>>
                BY <2>1, <2>2, <2>3
            <4> QED BY <3>1, <4>1
        <3>3. \A j \in 1 .. Len(t) : t[j] = w[j]
            BY <1>6, <2>3
        <3> QED BY <1>5, <1>6, <2>2, <3>2, <3>3, SeqEqual
    <2>4. t = w <=> t[1] = w[1] /\ t[2] = w[2] /\ t[3] = w[3]
        BY <2>3
    <2> QED BY <2>1, <2>2, <2>4
<1> QED BY <1>2, <1>4, <1>6, <1>7 DEF Ends

\* A path, and a query after it.
Joined(u, path, q) ==
    /\ u \in Seq(Codes) /\ Len(u) = Len(path) + Len(q) /\ Len(path) \in Nat \ {0} /\ Len(q) \in Nat
    /\ \A i \in 1 .. Len(path) : u[i] = path[i]
    /\ \A i \in Len(path) + 1 .. Len(u) : u[i] = q[i - Len(path)] /\ u[i] \in UriChars

\* What \o makes of them is that.
LEMMA PathAndQuery ==
    ASSUME NEW path, IsPath(path), NEW q \in Seq(UriChars)
    PROVE  Joined(path \o q, path, q)
<1>0. PICK u : u = path \o q
    OBVIOUS
<1>1. path \in Seq(Codes) /\ q \in Seq(Codes)
    BY CharsAreOthers, SeqOfMore DEF IsPath
<1>2. Len(path) \in Nat \ {0} /\ Len(q) \in Nat
    BY <1>1, LenProperties, EmptySeq DEF IsPath
<1>3. /\ u \in Seq(Codes) /\ Len(u) = Len(path) + Len(q)
      /\ \A i \in 1 .. Len(path) : u[i] = path[i]
      /\ \A i \in Len(path) + 1 .. Len(path) + Len(q) : u[i] = q[i - Len(path)]
    BY <1>0, <1>1, Concat
<1>4. ASSUME NEW i \in Len(path) + 1 .. Len(u) PROVE u[i] = q[i - Len(path)] /\ u[i] \in UriChars
    <2>1. PICK k \in 1 .. Len(q) : k = i - Len(path)
        BY <1>2, <1>3
    <2>2. q[k] \in UriChars
        BY <2>1, ElementOfSeq
    <2> QED BY <1>3, <2>1, <2>2
<1> QED BY <1>0, <1>2, <1>3, <1>4 DEF Joined

\* There is no protocol in a path with a query.
LEMMA NoProtocol ==
    ASSUME NEW path, IsPath(path), NEW q \in Seq(UriChars), NEW u, u = path \o q
    PROVE  Http!ProtocolEnd(u) = 0
<1>1. /\ u \in Seq(Codes) /\ Len(u) = Len(path) + Len(q) /\ Len(path) \in Nat \ {0} /\ Len(q) \in Nat
      /\ \A i \in 1 .. Len(path) : u[i] = path[i]
      /\ \A i \in Len(path) + 1 .. Len(u) : u[i] \in UriChars
    BY PathAndQuery DEF Joined
<1>2. Ends(path) = {} /\ path \in Seq(Codes)
    BY NoEnds DEF IsPath
<1>3. ASSUME NEW i \in 1 .. Len(u) - 2, i \in Ends(u) PROVE FALSE
    <2>1. u[i] = Http!Colon /\ u[i + 1] = Http!Slash /\ u[i + 2] = Http!Slash
        BY <1>1, <1>3, EndIs
    <2>2. i + 2 \in 1 .. Len(u) /\ i + 2 \notin Len(path) + 1 .. Len(u)
        BY <1>1, <2>1, CharsAreOthers
    <2>3. i \in 1 .. Len(path) - 2 /\ i \in 1 .. Len(path) /\ i + 1 \in 1 .. Len(path) /\ i + 2 \in 1 .. Len(path)
        BY <1>1, <2>2
    <2>4. path[i] = Http!Colon /\ path[i + 1] = Http!Slash /\ path[i + 2] = Http!Slash
        BY <1>1, <2>1, <2>3
    <2>5. i \in Ends(path)
        BY <1>2, <2>3, <2>4, EndIs
    <2> QED BY <1>2, <2>5
<1>4. Ends(u) = {}
    BY <1>3 DEF Ends
<1> QED BY <1>1, <1>4, NoEnds

\* What names are found in, and the query around it.
Around(q, b) == (q = <<>> /\ b = <<>>) \/ q = <<Http!Question>> \o b

\* ParseURL() finds the path, and the names of the arguments.
LEMMA UrlIs ==
    ASSUME NEW path, IsPath(path), NEW b \in Seq(QueryChars), NEW q \in Seq(UriChars), Around(q, b)
    PROVE  /\ Http!ParseURL(path \o q).path = path
           /\ DOMAIN Http!ParseURL(path \o q).args = NamesIn(b)
           /\ Http!LogUri(path \o q) = q
<1>1. PICK u : u = path \o q
    OBVIOUS
<1>2. /\ u \in Seq(Codes) /\ Len(u) = Len(path) + Len(q) /\ Len(path) \in Nat \ {0} /\ Len(q) \in Nat
      /\ \A i \in 1 .. Len(path) : u[i] = path[i]
      /\ \A i \in Len(path) + 1 .. Len(u) : u[i] = q[i - Len(path)] /\ u[i] \in UriChars
    <2>1. Joined(u, path, q)
        BY <1>1, PathAndQuery
    <2> QED BY <2>1 DEF Joined
<1>3. Http!ProtocolEnd(u) = 0
    BY <1>1, NoProtocol
<1>4. path \in Seq(Codes) /\ path[1] = Http!Slash /\ \A i \in 1 .. Len(path) : path[i] \notin {Http!Question, Http!Hash}
    BY DEF IsPath
<1>5. Len(b) \in Nat /\ ((Len(q) = 0 /\ b = <<>>) \/ (/\ Len(q) = Len(b) + 1 /\ q[1] = Http!Question
                                                     /\ \A i \in 1 .. Len(b) : q[i + 1] = b[i]))
    <2>1. Len(b) \in Nat
        BY LenProperties
    <2>2. CASE q = <<>>  /\ b = <<>>
        BY <2>1, <2>2, EmptySeq
    <2>3. CASE q = <<Http!Question>> \o b
        <3>1. PICK m : m = <<Http!Question>>
            OBVIOUS
        <3>2. m \in Seq(UriChars) /\ Len(m) = 1 /\ m[1] = Http!Question
            <4>1. Http!Question \in UriChars
                BY DEF UriChars
            <4> QED BY <3>1, <4>1
        <3>3. b \in Seq(UriChars)
            BY SeqOfMore DEF UriChars
        <3>4. /\ Len(q) = Len(m) + Len(b) /\ \A i \in 1 .. Len(m) : q[i] = m[i]
              /\ \A i \in Len(m) + 1 .. Len(m) + Len(b) : q[i] = b[i - Len(m)]
            <4>1. m \in Seq(UriChars)
                BY <3>2
            <4> QED BY <2>3, <3>1, <3>3, <4>1, Concat
        <3>5. Len(q) = Len(b) + 1 /\ q[1] = Http!Question
            BY <2>1, <3>2, <3>4
        <3>6. ASSUME NEW i \in 1 .. Len(b) PROVE q[i + 1] = b[i]
            <4>1. PICK k : k = i + 1
                OBVIOUS
            <4>2. k \in Len(m) + 1 .. Len(m) + Len(b) /\ k - Len(m) = i
                BY <2>1, <3>2, <4>1
            <4> QED BY <3>4, <4>1, <4>2
        <3> QED BY <2>1, <3>5, <3>6
    <2> QED BY <2>2, <2>3 DEF Around
\* Nothing is cut at the front, and nothing at the end.
<1>6. Http!From(u, 1) = u
    <2>1. PICK t : t = Http!From(u, 1)
        OBVIOUS
    <2>2. t \in Seq(Codes) /\ Len(t) = Len(u) - 1 + 1 /\ \A j \in 1 .. Len(u) - 1 + 1 : t[j] = u[1 + j - 1]
        <3>1. 1 \in 1 .. Len(u) + 1
            BY <1>2
        <3> QED BY <1>2, <2>1, <3>1, FromIs
    <2>3. Len(t) = Len(u) /\ \A j \in 1 .. Len(t) : t[j] = u[j]
        BY <1>2, <2>2
    <2>4. t = u
        BY <1>2, <2>2, <2>3, SeqEqual
    <2> QED BY <2>1, <2>4
<1>7. Http!FindFirst(u, {Http!Slash, Http!Question, Http!Hash}) = 1
    <2>1. PICK o : o = 1
        OBVIOUS
    <2>2. o \in 1 .. Len(u) + 1 /\ u[o] = Http!Slash /\ \A i \in 1 .. o - 1 : FALSE
        BY <1>2, <1>4, <2>1
    <2>3. \A i \in 1 .. o - 1 : u[i] \notin {Http!Slash, Http!Question, Http!Hash}
        BY <2>2
    <2>4. u[o] \in {Http!Slash, Http!Question, Http!Hash}
        BY <2>2
    <2>5. Http!FindFirst(u, {Http!Slash, Http!Question, Http!Hash}) = o
        BY <1>2, <2>2, <2>3, <2>4, FirstIs
    <2> QED BY <2>1, <2>5
<1>8. Http!FindFirst(u, {Http!Hash}) = Len(u) + 1
    <2>1. PICK k : k = Len(u) + 1
        OBVIOUS
    <2>2. k \in 1 .. Len(u) + 1 /\ ~(k <= Len(u)) /\ k - 1 = Len(u)
        BY <1>2, <2>1
    <2>3. ASSUME NEW i \in 1 .. Len(u) PROVE u[i] \notin {Http!Hash}
        <3>1. CASE i \in 1 .. Len(path)
            BY <1>2, <1>4, <3>1
        <3>2. CASE i \in Len(path) + 1 .. Len(u)
            BY <1>2, <3>2, CharsAreOthers
        <3> QED BY <1>2, <3>1, <3>2
    <2>4. Http!FindFirst(u, {Http!Hash}) = k
        BY <1>2, <2>2, <2>3, FirstIs
    <2> QED BY <2>1, <2>4
<1>9. Http!Before(u, Len(u) + 1) = u
    <2>1. PICK k : k = Len(u) + 1
        OBVIOUS
    <2>2. k \in 1 .. Len(u) + 1 /\ k - 1 = Len(u)
        BY <1>2, <2>1
    <2>3. PICK t : t = Http!Before(u, k)
        OBVIOUS
    <2>4. t \in Seq(Codes) /\ Len(t) = k - 1 /\ \A j \in 1 .. k - 1 : t[j] = u[j]
        BY <1>2, <2>2, <2>3, BeforeIs
    <2>5. t = u
        BY <1>2, <2>2, <2>4, SeqEqual
    <2> QED BY <2>1, <2>3, <2>5
\* The path ends where the query begins.
<1>10. PICK k : k = Len(path) + 1
    OBVIOUS
<1>11. k \in 1 .. Len(u) + 1 /\ k - 1 = Len(path) /\ k \in Nat
    BY <1>2, <1>10
<1>12. Http!FindFirst(u, {Http!Question}) = k
    <2>1. \A i \in 1 .. k - 1 : u[i] \notin {Http!Question}
        BY <1>2, <1>4, <1>11
    <2>2. k <= Len(u) => u[k] \in {Http!Question}
        <3> SUFFICES ASSUME k <= Len(u) PROVE u[k] = Http!Question
            OBVIOUS
        <3>1. k \in Len(path) + 1 .. Len(u) /\ k - Len(path) = 1 /\ Len(q) # 0
            BY <1>2, <1>10
        <3> QED BY <1>2, <1>5, <3>1
    <2> QED BY <1>2, <1>11, <2>1, <2>2, FirstIs
<1>13. Http!Before(u, k) = path
    <2>1. PICK t : t = Http!Before(u, k)
        OBVIOUS
    <2>2. t \in Seq(Codes) /\ Len(t) = k - 1 /\ \A j \in 1 .. k - 1 : t[j] = u[j]
        BY <1>2, <1>11, <2>1, BeforeIs
    <2>3. Len(t) = Len(path) /\ \A j \in 1 .. Len(t) : t[j] = path[j]
        BY <1>2, <1>11, <2>2
    <2>4. t = path
        BY <1>4, <2>2, <2>3, SeqEqual
    <2> QED BY <2>1, <2>4
<1>14. Http!From(u, k) = q
    <2>1. PICK t : t = Http!From(u, k)
        OBVIOUS
    <2>2. t \in Seq(Codes) /\ Len(t) = Len(u) - k + 1 /\ \A j \in 1 .. Len(u) - k + 1 : t[j] = u[k + j - 1]
        BY <1>2, <1>11, <2>1, FromIs
    <2>3. Len(t) = Len(q)
        BY <1>2, <1>10, <2>2
    <2>4. ASSUME NEW j \in 1 .. Len(q) PROVE t[j] = q[j]
        <3>1. PICK i : i = k + j - 1
            OBVIOUS
        <3>2. i \in Len(path) + 1 .. Len(u) /\ i - Len(path) = j /\ j \in 1 .. Len(u) - k + 1
            BY <1>2, <1>10, <3>1
        <3> QED BY <1>2, <2>2, <3>1, <3>2
    <2>5. q \in Seq(Codes)
        BY CharsAreOthers, SeqOfMore
    <2>6. t = q
        BY <2>2, <2>3, <2>4, <2>5, SeqEqual
    <2> QED BY <2>1, <2>6
<1>15. Http!From(u, k + 1) = b
    <2>1. PICK n : n = k + 1
        OBVIOUS
    <2>2. CASE Len(q) = 0 /\ b = <<>>
        <3>1. PICK t : t = SubSeq(u, n, Len(u))
            OBVIOUS
        <3>2. n \in Int /\ Len(u) \in Int /\ ~(n <= Len(u)) /\ \A j \in n .. Len(u) : u[j] \in Codes
            BY <1>2, <1>10, <2>1, <2>2
        <3>3. t \in Seq(Codes) /\ Len(t) = 0
            BY <3>1, <3>2, SubSeqProperties
        <3>4. t = <<>>
            BY <3>3, EmptySeq
        <3> QED BY <2>1, <2>2, <3>1, <3>4 DEF Http!From
    <2>3. CASE Len(q) = Len(b) + 1 /\ \A i \in 1 .. Len(b) : q[i + 1] = b[i]
        <3>1. PICK t : t = Http!From(u, n)
            OBVIOUS
        <3>2. n \in 1 .. Len(u) + 1
            BY <1>2, <1>5, <1>10, <2>1, <2>3
        <3>3. t \in Seq(Codes) /\ Len(t) = Len(u) - n + 1 /\ \A j \in 1 .. Len(u) - n + 1 : t[j] = u[n + j - 1]
            BY <1>2, <3>1, <3>2, FromIs
        <3>4. Len(t) = Len(b)
            BY <1>2, <1>5, <1>10, <2>1, <2>3, <3>3
        <3>5. ASSUME NEW j \in 1 .. Len(b) PROVE t[j] = b[j]
            <4>1. PICK i : i = n + j - 1
                OBVIOUS
            <4>2. i \in Len(path) + 1 .. Len(u) /\ i - Len(path) = j + 1 /\ j \in 1 .. Len(u) - n + 1
                BY <1>2, <1>5, <1>10, <2>1, <2>3, <4>1
            <4> QED BY <1>2, <2>3, <3>3, <4>1, <4>2
        <3>6. b \in Seq(Codes)
            <4>1. QueryChars \subseteq Codes
                BY CharsAreOthers DEF UriChars
            <4> QED BY <4>1, SeqOfMore
        <3>7. t = b
            BY <3>3, <3>4, <3>5, <3>6, SeqEqual
        <3> QED BY <2>1, <3>1, <3>7
    <2> QED BY <1>5, <2>2, <2>3
<1> DEFINE rest  == Http!From(u, Http!ProtocolEnd(u) + 1)
           first == Http!FindFirst(rest, {Http!Slash, Http!Question, Http!Hash})
           local == Http!From(rest, first)
           hash  == Http!FindFirst(local, {Http!Hash})
           noHash == Http!Before(local, hash)
           query == Http!FindFirst(noHash, {Http!Question})
<1>16. /\ Http!ParseURL(u).path = Http!Before(noHash, query)
       /\ Http!ParseURL(u).args = Http!Args(Http!From(noHash, query + 1))
    BY DEF Http!ParseURL
<1>17. rest = u
    BY <1>3, <1>6
<1> HIDE DEF rest
<1>18. first = 1
    BY <1>7, <1>17
<1> HIDE DEF first
<1>19. local = u
    BY <1>6, <1>17, <1>18
<1> HIDE DEF local
<1>20. hash = Len(u) + 1
    BY <1>8, <1>19
<1> HIDE DEF hash
<1>21. noHash = u
    BY <1>9, <1>19, <1>20
<1> HIDE DEF noHash
<1>22. query = k
    BY <1>12, <1>21
<1> HIDE DEF query
<1>23. Http!ParseURL(u).path = path /\ DOMAIN Http!ParseURL(u).args = NamesIn(b)
    BY <1>13, <1>15, <1>16, <1>21, <1>22, ArgsNames
<1>24. Http!LogUri(u) = q
    BY <1>12, <1>14 DEF Http!LogUri
<1> QED BY <1>1, <1>23, <1>24

(***************************************************************************)
(* The answers.                                                            *)
(***************************************************************************)
\* The names in a query are those of the arguments it is made of.
LEMMA QueryNames ==
    ASSUME NEW args \in Seq(Pairs)
    PROVE  /\ Http!Query(args) \in Seq(UriChars)
           /\ \E b \in Seq(QueryChars) : /\ Around(Http!Query(args), b)
                                         /\ NamesIn(b) = {args[i][1] : i \in DOMAIN args}
<1>1. Http!Query(args) \in Seq(UriChars)
    <2>1. PICK f : f \in [0 .. Len(args) -> Seq(UriChars)] /\ Http!Query(args) = f[Len(args)]
        BY QueryChain
    <2>2. Len(args) \in 0 .. Len(args)
        BY LenProperties
    <2> QED BY <2>1, <2>2
<1>2. CASE args = <<>>
    <2>1. Http!Query(args) = <<>>
        BY <1>2, QueryIs
    <2>2. PICK b \in Seq(QueryChars) : b = <<>>
        <3>1. <<>> \in Seq(QueryChars)
            OBVIOUS
        <3> QED BY <3>1
    <2>3. DOMAIN b = {} /\ DOMAIN args = {}
        BY <1>2, <2>2
    <2>4. NamesIn(b) = {} /\ {args[i][1] : i \in DOMAIN args} = {}
        BY <2>3 DEF NamesIn, Starts
    <2> QED BY <1>1, <2>1, <2>2, <2>4 DEF Around
<1>3. CASE args # <<>>
    <2>1. QueryOf(Http!Query(args), {args[i][1] : i \in DOMAIN args})
        BY <1>3, QueryIs
    <2> QED BY <1>1, <2>1 DEF QueryOf, Around
<1> QED BY <1>2, <1>3

\* What a client may ask for, what is kept of its query, and what it is to be told.
Kept(r) == {<<Http!LogUri(r.path \o Http!Query(r.args))>>, Http!NoMemory}
Sent(r, con) == IF con = Http!NoMemory THEN {} ELSE {r.args[i][1] : i \in DOMAIN r.args}
Expected(r, con) ==
    IF r.method \notin Http!Methods THEN 405
    ELSE IF r.path # Http!OptionPath THEN 404
    ELSE IF Http!KeyArg \in Sent(r, con) THEN 200 ELSE 400

\* The URL that is taken apart has the path and the names that were sent.
LEMMA UrlOfRequest ==
    ASSUME NEW r \in Requests, NEW con \in Kept(r), NEW uri,
           uri = r.path \o (IF con = Http!NoMemory THEN <<>> ELSE con[1])
    PROVE  Http!ParseURL(uri).path = r.path /\ DOMAIN Http!ParseURL(uri).args = Sent(r, con)
<1>1. IsPath(r.path)
    <2>1. /\ r.path \in Seq(Codes) /\ r.path # <<>> /\ r.path[1] = Http!Slash
          /\ \A i \in DOMAIN r.path : r.path[i] \notin {Http!Question, Http!Hash}
          /\ Http!ProtocolEnd(r.path) = 0
        BY ServicesAssumption DEF Http!RequestsAssumption, Codes
    <2>2. DOMAIN r.path = 1 .. Len(r.path)
        BY <2>1, LenProperties
    <2> QED BY <2>1, <2>2 DEF IsPath
<1>2. r.args \in Seq(Pairs)
    BY ServicesAssumption DEF Http!RequestsAssumption, Codes, Pairs
<1>3. CASE con = Http!NoMemory
    <2>1. PICK q \in Seq(UriChars) : q = <<>>
        <3>1. <<>> \in Seq(UriChars)
            OBVIOUS
        <3> QED BY <3>1
    <2>2. PICK b \in Seq(QueryChars) : b = <<>>
        <3>1. <<>> \in Seq(QueryChars)
            OBVIOUS
        <3> QED BY <3>1
    <2>3. DOMAIN b = {}
        BY <2>2
    <2>4. Around(q, b) /\ NamesIn(b) = {}
        BY <2>1, <2>2, <2>3 DEF Around, NamesIn, Starts
    <2>5. uri = r.path \o q
        BY <1>3, <2>1
    <2>6. Http!ParseURL(r.path \o q).path = r.path /\ DOMAIN Http!ParseURL(r.path \o q).args = NamesIn(b)
        BY <1>1, <2>4, UrlIs
    <2> QED BY <1>3, <2>4, <2>5, <2>6 DEF Sent
<1>4. CASE con # Http!NoMemory
    <2>1. PICK q \in Seq(UriChars) : q = Http!Query(r.args)
        BY <1>2, QueryNames
    <2>2. PICK b \in Seq(QueryChars) : Around(q, b) /\ NamesIn(b) = {r.args[i][1] : i \in DOMAIN r.args}
        BY <1>2, <2>1, QueryNames
    <2>3. /\ Http!ParseURL(r.path \o q).path = r.path /\ DOMAIN Http!ParseURL(r.path \o q).args = NamesIn(b)
          /\ Http!LogUri(r.path \o q) = q
        BY <1>1, <2>2, UrlIs
    <2>4. con = <<q>>
        BY <1>4, <2>1, <2>3 DEF Kept
    <2>5. uri = r.path \o q
        BY <1>4, <2>4
    <2> QED BY <1>4, <2>2, <2>3, <2>5 DEF Sent
<1> QED BY <1>3, <1>4

\* The answer to a request is the one that is due.
LEMMA AnswerIs ==
    ASSUME NEW r \in Requests, NEW con \in Kept(r), NEW uri,
           uri = r.path \o (IF con = Http!NoMemory THEN <<>> ELSE con[1])
    PROVE  Http!HandleRequest(r.method, uri) = Expected(r, con)
<1>1. Http!ParseURL(uri).path = r.path /\ DOMAIN Http!ParseURL(uri).args = Sent(r, con)
    BY UrlOfRequest
<1> DEFINE url == Http!ParseURL(uri)
<1>2. Http!HandleRequest(r.method, uri) =
        IF r.method \notin Http!Methods THEN 405
        ELSE IF url.path # Http!OptionPath THEN 404
        ELSE IF Http!KeyArg \notin DOMAIN url.args THEN 400 ELSE 200
    BY DEF Http!HandleRequest
<1> HIDE DEF url
<1>3. url.path = r.path /\ DOMAIN url.args = Sent(r, con)
    BY <1>1 DEF url
<1> QED BY <1>2, <1>3 DEF Expected

\* A connection has a request and what was kept of it, and the answer that is due.
AskedInv ==
    conn.st # "idle" => /\ conn.req \in Requests /\ conn.con \in Kept(conn.req)
                        /\ conn.st = "answered" => conn.status = Expected(conn.req, conn.con)

\* Every step of the service keeps it.
LEMMA AskedStep == ASSUME AskedInv, [Http!Next]_(Http!vars) PROVE AskedInv'
<1>1. CASE Http!StartDaemon \/ Http!Wake \/ Http!StopDaemon \/ Http!RequestStop \/ Http!OtherReleases
           \/ UNCHANGED Http!vars
    <2>1. conn' = conn \/ conn' = Http!NoConn
        BY <1>1 DEF Http!StartDaemon, Http!Wake, Http!StopDaemon, Http!RequestStop, Http!OtherReleases, Http!vars
    <2> QED BY <2>1 DEF AskedInv, Http!NoConn
<1>2. CASE Http!UriLogged
    <2>1. PICK r \in Requests : \E con \in Kept(r) : conn' = [st |-> "open", req |-> r, con |-> con]
        BY <1>2 DEF Http!UriLogged, Kept
    <2>2. PICK con \in Kept(r) : conn' = [st |-> "open", req |-> r, con |-> con]
        BY <2>1
    <2>3. conn'.st = "open" /\ conn'.req = r /\ conn'.con = con
        BY <2>2
    <2> QED BY <2>3 DEF AskedInv
<1>3. CASE Http!HandleConnection
    <2>1. conn.st = "open" /\ conn.req \in Requests /\ conn.con \in Kept(conn.req)
        BY <1>3 DEF Http!HandleConnection, AskedInv
    <2>2. PICK r, con, uri : /\ r = conn.req /\ con = conn.con
                             /\ uri = r.path \o (IF con = Http!NoMemory THEN <<>> ELSE con[1])
        OBVIOUS
    <2>3. conn' = [st |-> "answered", req |-> r, con |-> con, status |-> Http!HandleRequest(r.method, uri)]
        BY <1>3, <2>2 DEF Http!HandleConnection
    <2>4. Http!HandleRequest(r.method, uri) = Expected(r, con)
        BY <2>1, <2>2, AnswerIs
    <2>5. conn'.st = "answered" /\ conn'.req = r /\ conn'.con = con /\ conn'.status = Expected(r, con)
        BY <2>3, <2>4
    <2> QED BY <2>1, <2>2, <2>5 DEF AskedInv
<1>4. CASE Http!RequestCompleted
    <2>1. conn'.st = "idle"
        BY <1>4 DEF Http!RequestCompleted, Http!NoConn
    <2> QED BY <2>1 DEF AskedInv
<1> QED BY <1>1, <1>2, <1>3, <1>4 DEF Http!Next, Http!Service, Http!Connection

\* Whatever characters the arguments of a request are made of, the answer is the one for
\* what the client has sent (HttpRequestHandler, URL).
THEOREM RequestsAnswered == Http!Spec => []Http!AnswersTheRequest
<1>1. Http!Init => AskedInv
    BY DEF Http!Init, Http!NoConn, AskedInv
<1>2. AskedInv => Http!AnswersTheRequest
    BY DEF AskedInv, Http!AnswersTheRequest, Expected, Sent
<1> QED BY <1>1, <1>2, AskedStep, PTL DEF Http!Spec

(***************************************************************************)
(* The services together.                                                  *)
(***************************************************************************)
\* A behaviour of the services is one of the announcement, one of the HTTP service and
\* one of the JSON values.
THEOREM EachPart == ServicesSpec => Avahi!Spec /\ Http!Spec /\ Spec
<1>1. ServicesInit => Avahi!Init /\ Http!Init /\ Init
    BY DEF ServicesInit
<1>2. [ServicesNext]_allVars => [Avahi!Next]_(Avahi!vars)
    BY DEF ServicesNext, OnlyAvahi, OnlyHttp, OnlyJson, allVars, avahiVars, Avahi!vars, Avahi!object, Avahi!daemon
<1>3. [ServicesNext]_allVars => [Http!Next]_(Http!vars)
    BY DEF ServicesNext, OnlyAvahi, OnlyHttp, OnlyJson, allVars, httpVars, Http!vars
<1>4. [ServicesNext]_allVars => [Next]_vars
    BY DEF ServicesNext, OnlyAvahi, OnlyHttp, OnlyJson, allVars
<1> QED BY <1>1, <1>2, <1>3, <1>4, PTL DEF ServicesSpec, Avahi!Spec, Http!Spec, Spec

\* All variables of the services have their types.
THEOREM ServicesTypeCorrect == ServicesSpec => []ServicesTypeOK
BY EachPart, AvahiTypeCorrect, HttpTypeCorrect, TypeCorrect, ServicesAssumption, PTL DEF ServicesTypeOK

\* avahiservice.cc:221: whatever the other services do, the service is never announced
\* under two names.
THEOREM OneNameEver == ServicesSpec => []OneName
BY EachPart, OneNameOnly, PTL DEF OneName

\* avahiservice.cc:76, 111: what the announcement allocates is freed once.
THEOREM NothingFreedTwice == ServicesSpec => []FreedOnce
BY EachPart, AllFreedOnce, PTL DEF FreedOnce

\* httprequesthandler.cc: the answer is the one for the arguments the client has sent.
THEOREM AnswersRight == ServicesSpec => []AnswersTheRequest
BY EachPart, RequestsAnswered, PTL DEF AnswersTheRequest

\* object.cc:61, 80, array.cc:74, json.cc:90: the references are counted exactly, and the
\* two trees agree, in the services.
THEOREM ServicesTreesRight == ServicesSpec => [](RefsExact /\ TreesAgree)
BY EachPart, CountsExact, GetFinds, ServicesAssumption, PTL
=============================================================================
