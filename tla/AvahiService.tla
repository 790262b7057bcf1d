---------------------------- MODULE AvahiService ----------------------------
(* service/avahiservice.cc: announcing the HTTP service by Avahi. The Avahi    *)
(* daemon registers the host's name, tells its client of each change, probes   *)
(* whether a service's name is free on the network and tells of collisions.    *)
(* What it has told waits in inbox until the poll loop runs the callbacks.     *)
(* Names are numbers: n + 1 is what avahi_alternative_service_name(n) returns. *)
EXTENDS Integers, Sequences

CONSTANTS
    MaxName,        \* bound: the names 1 .. MaxName - 1 may be taken
    Local,          \* names that other clients of the same Avahi daemon have
    MaxHostChanges, \* bound: times the host's own name collides
    MaxFaults       \* bound: calls of the Avahi client library that fail
AvahiAssumption == /\ MaxName \in Nat \ {0} /\ Local \subseteq 1 .. MaxName
                   /\ MaxHostChanges \in Nat /\ MaxFaults \in Nat

VARIABLES
    poll,       \* where the object is: "new", "created", "polling", "ended", "destroyed"
    halt,       \* stop_, or a quit that the poll loop has been asked for
    group,      \* group_ # NULL
    cname,      \* cname_
    ptr,        \* which of simplePoll_, client_ and cname_ are not NULL
    live,       \* how many of each are allocated
    server,     \* the Avahi daemon: the state of the host's name, or "gone"
    entries,    \* the names under which our group has a service there
    gstate,     \* the group's state there
    inbox,      \* the callbacks to come
    taken,      \* names of services elsewhere on the network
    left        \* what is left of the bounds

object == <<poll, group, cname, ptr, live>>
daemon == <<server, entries, gstate, taken>>
vars   == <<object, daemon, halt, inbox, left>>

Resources == {"simplePoll", "client", "cname"}

Init == /\ poll = "new" /\ halt = FALSE /\ group = FALSE /\ cname = 1
        /\ ptr = [r \in Resources |-> FALSE] /\ live = [r \in Resources |-> 0]
        /\ server \in {"registering", "running", "collision"}
        /\ entries = {} /\ gstate = "uncommitted" /\ inbox = <<>>
        /\ taken \in SUBSET (1 .. MaxName - 1)
        /\ left = [host |-> MaxHostChanges, faults |-> MaxFaults]

Fault == left.faults > 0 /\ left' = [left EXCEPT !.faults = @ - 1]

(***************************************************************************)
(* createService(), under the name n. The callback that comes while        *)
(* avahi_entry_group_new() is at work finds group_ NULL and is ignored; it *)
(* tells of an uncommitted group, of which nothing is done anyway.         *)
(***************************************************************************)

\* Mutant: the entry is added without asking whether the group is empty.
CreateService_AddsAgain(n) ==
    \/ /\ n \in Local /\ server # "gone" /\ group' = TRUE
       /\ UNCHANGED <<halt, entries, gstate, left>>
    \/ /\ n \notin Local /\ server # "gone" /\ group' = TRUE
       /\ entries' = entries \cup {n} /\ gstate' = "registering"
       /\ UNCHANGED <<halt, left>>
    \/ /\ server = "gone" /\ group' = TRUE /\ halt' = TRUE
       /\ UNCHANGED <<entries, gstate, left>>

CreateService(n) ==
    \/ /\ ~group /\ Fault       \* no group: quit
       /\ halt' = TRUE
       /\ UNCHANGED <<group, entries, gstate>>
    \/ /\ entries # {} /\ group' = TRUE
       /\ UNCHANGED <<halt, entries, gstate, left>>
    \/ /\ entries # {} /\ group' = TRUE /\ Fault       \* is_empty() is negative: "empty"
       /\ \/ UNCHANGED <<halt, entries>>         \* a collision with our own entry: only logged
          \/ halt' = TRUE /\ entries' \in {entries, entries \cup {n}}      \* no second commit
       /\ UNCHANGED gstate
    \/ /\ entries = {} /\ group' = TRUE
       /\ \/ /\ n \in Local /\ server # "gone"      \* the collision is only logged
             /\ UNCHANGED <<halt, entries, gstate, left>>
          \/ /\ n \notin Local /\ server # "gone"
             /\ entries' = {n} /\ gstate' = "registering"
             /\ UNCHANGED <<halt, left>>
          \/ /\ halt' = TRUE        \* adding or committing fails: quit
             /\ IF server = "gone" \/ gstate = "failure" THEN UNCHANGED left ELSE Fault
             /\ entries' \in (IF server = "gone" THEN {{}} ELSE {{}, {n}})
             /\ UNCHANGED gstate

\* clientCallback(): reset() empties the group.
ClientCallback(state) ==
    \/ /\ state = "running"
       /\ CreateService(cname)
    \/ /\ state \in {"collision", "registering"} /\ group /\ server # "gone"
       /\ entries' = {} /\ gstate' = "uncommitted"
       /\ UNCHANGED <<halt, group, left>>
    \/ /\ \/ state = "gone"
          \/ (state \in {"collision", "registering"} /\ ~(group /\ server # "gone"))
       /\ UNCHANGED <<halt, group, entries, gstate, left>>

(***************************************************************************)
(* The constructor: the client calls back with the daemon's state before   *)
(* avahi_client_new() returns. When it fails, the program ends.            *)
(***************************************************************************)
Construct ==
    /\ poll = "new" /\ server # "gone"
    /\ poll' = "created"
    /\ ptr' = [r \in Resources |-> TRUE] /\ live' = [r \in Resources |-> 1]
    /\ ClientCallback(server)
    /\ UNCHANGED <<cname, server, inbox, taken>>

ConstructFails ==
    /\ poll = "new"
    /\ poll' = "ended"
    /\ \E made \in {{}, {"cname"}} :       \* without a poll object, or without a client
           /\ ptr' = [r \in Resources |-> r \in made]
           /\ live' = [r \in Resources |-> IF r \in made THEN 1 ELSE 0]
    /\ UNCHANGED <<group, cname, daemon, halt, inbox, left>>

(***************************************************************************)
(* run(), and the callbacks that its poll loop makes.                      *)
(***************************************************************************)
Begin == poll = "created" /\ poll' = "polling"
         /\ UNCHANGED <<group, cname, ptr, live, daemon, halt, inbox, left>>

OnClient ==
    /\ poll = "polling" /\ ~halt /\ inbox # <<>> /\ Head(inbox) \notin {"groupCollision", "groupFailure"}
    /\ ClientCallback(Head(inbox))
    /\ inbox' = Tail(inbox)
    /\ UNCHANGED <<poll, cname, ptr, live, server, taken>>

\* Mutant: the new name is used, but not kept.
OnGroupCollision_NameLost ==
    /\ poll = "polling" /\ ~halt /\ inbox # <<>> /\ Head(inbox) = "groupCollision"
    /\ CreateService(cname + 1)
    /\ inbox' = Tail(inbox)
    /\ UNCHANGED <<poll, cname, ptr, live, server, taken>>

\* Mutant: the new name waits for the next change of the host's state.
OnGroupCollision_OnlyRenames ==
    /\ poll = "polling" /\ ~halt /\ inbox # <<>> /\ Head(inbox) = "groupCollision"
    /\ cname' = cname + 1
    /\ inbox' = Tail(inbox)
    /\ UNCHANGED <<poll, group, ptr, live, daemon, halt, left>>

\* entryGroupCallback(): a collision; the new name is a new string, the old one is freed.
OnGroupCollision ==
    /\ poll = "polling" /\ ~halt /\ inbox # <<>> /\ Head(inbox) = "groupCollision"
    /\ cname' = cname + 1
    /\ CreateService(cname + 1)
    /\ inbox' = Tail(inbox)
    /\ UNCHANGED <<poll, ptr, live, server, taken>>

\* entryGroupCallback(): a failure is only logged.
OnGroupFailure ==
    /\ poll = "polling" /\ ~halt /\ inbox # <<>> /\ Head(inbox) = "groupFailure"
    /\ inbox' = Tail(inbox)
    /\ UNCHANGED <<object, daemon, halt, left>>

\* Mutant: client_ is freed and not set to NULL.
Leave_Dangling ==
    /\ poll = "polling" /\ halt
    /\ poll' = "ended"
    /\ ptr' = [ptr EXCEPT !["simplePoll"] = FALSE]
    /\ live' = [live EXCEPT !["client"] = @ - 1, !["simplePoll"] = @ - 1]
    /\ entries' = {} /\ gstate' = "uncommitted" /\ inbox' = <<>>
    /\ UNCHANGED <<group, cname, server, taken, halt, left>>

\* The end of run(): the client takes its group with it.
Leave ==
    /\ poll = "polling" /\ halt
    /\ poll' = "ended"
    /\ ptr' = [ptr EXCEPT !["client"] = FALSE, !["simplePoll"] = FALSE]
    /\ live' = [live EXCEPT !["client"] = @ - 1, !["simplePoll"] = @ - 1]
    /\ entries' = {} /\ gstate' = "uncommitted" /\ inbox' = <<>>
    /\ UNCHANGED <<group, cname, server, taken, halt, left>>

\* ~AvahiService(), also of an object whose thread has never begun.
Destroy ==
    /\ poll \in {"created", "ended"}
    /\ poll' = "destroyed"
    /\ live' = [r \in Resources |-> IF ptr[r] THEN live[r] - 1 ELSE live[r]]
    /\ entries' = {} /\ gstate' = "uncommitted" /\ inbox' = <<>>
    /\ UNCHANGED <<group, cname, ptr, server, taken, halt, left>>

RequestStop == ~halt /\ halt' = TRUE /\ UNCHANGED <<object, daemon, inbox, left>>

(***************************************************************************)
(* The Avahi daemon and the network.                                       *)
(***************************************************************************)
Tell(event) == inbox' = IF poll \in {"created", "polling"} THEN Append(inbox, event) ELSE inbox

HostState ==
    /\ \/ server = "running" /\ left.host > 0
          /\ server' = "collision" /\ left' = [left EXCEPT !.host = @ - 1]
       \/ server = "collision" /\ server' = "registering" /\ UNCHANGED left
       \/ server = "registering" /\ server' = "running" /\ UNCHANGED left
    /\ Tell(server')
    /\ UNCHANGED <<object, entries, gstate, taken, halt>>

DaemonGone ==
    /\ server # "gone" /\ server' = "gone"
    /\ entries' = {} /\ gstate' = "uncommitted"
    /\ Tell("gone")
    /\ UNCHANGED <<object, taken, halt, left>>

Probed ==
    /\ server = "running" /\ gstate = "registering"
    /\ IF entries \cap taken = {}
       THEN gstate' = "established" /\ UNCHANGED <<entries, inbox>>
       ELSE gstate' = "collision" /\ entries' = {} /\ Tell("groupCollision")
    /\ UNCHANGED <<object, server, taken, halt, left>>

\* Somebody takes the name of a service that has been established.
NameTaken ==
    /\ server = "running" /\ gstate = "established" /\ entries \subseteq 1 .. MaxName - 1
    /\ taken' = taken \cup entries
    /\ gstate' = "collision" /\ entries' = {} /\ Tell("groupCollision")
    /\ UNCHANGED <<object, server, halt, left>>

\* The group fails and what it has announced is withdrawn.
GroupFails ==
    /\ server # "gone" /\ gstate \in {"registering", "established"} /\ Fault
    /\ gstate' = "failure" /\ entries' = {} /\ Tell("groupFailure")
    /\ UNCHANGED <<object, server, taken, halt>>

Thread == Begin \/ OnClient \/ OnGroupCollision \/ OnGroupFailure \/ Leave
Daemon == HostState \/ Probed
Next == Construct \/ ConstructFails \/ Thread \/ Destroy \/ RequestStop
        \/ Daemon \/ DaemonGone \/ NameTaken \/ GroupFails

Spec == Init /\ [][Next]_vars
FairSpec == Spec /\ WF_vars(Construct \/ ConstructFails) /\ WF_vars(Thread) /\ WF_vars(Daemon)

TypeOK ==
    /\ poll \in {"new", "created", "polling", "ended", "destroyed"}
    /\ halt \in BOOLEAN /\ group \in BOOLEAN /\ cname \in Nat \ {0}
    /\ ptr \in [Resources -> BOOLEAN] /\ live \in [Resources -> 0 .. 1]
    /\ server \in {"registering", "running", "collision", "gone"}
    /\ entries \subseteq 1 .. cname
    /\ gstate \in {"uncommitted", "registering", "established", "collision", "failure"}
    /\ inbox \in Seq({"registering", "running", "collision", "gone", "groupCollision", "groupFailure"})
    /\ taken \subseteq 1 .. MaxName
    /\ left \in [host : 0 .. MaxHostChanges, faults : 0 .. MaxFaults]

\* avahiservice.cc:221: however changes of the host's name and collisions of ours
\* come, also those that come late, the service is never announced under two names;
\* but where is_empty() fails, the group may have got a second one when it is given up.
OneName == \A n, m \in entries : n = m \/ halt

\* avahiservice.cc:76, 111: each of the poll object, the client and the name is freed
\* once, whether the constructor fails, run() ends or never begins; nothing is left.
FreedOnce == /\ \A r \in Resources : ptr[r] => poll = "destroyed" \/ live[r] = 1
             /\ poll = "destroyed" => \A r \in Resources : live[r] = 0

\* avahiservice.cc:178: if the host's name is settled in the end, so is the service,
\* under whichever name is free; unless the program ends or is told to, has met its
\* name in another client of the same daemon, which line 232 leaves at that, or its
\* group has failed, which line 192 leaves at that.
Registers ==
    (<>[](server = "running")) =>
        <>[](gstate \in {"established", "failure"} \/ poll \in {"ended", "destroyed"}
             \/ (entries = {} /\ cname \in Local))
=============================================================================
