------------------------------ MODULE Services ------------------------------
(* What is in service/: announcing the HTTP service, the HTTP service itself,  *)
(* and the JSON values it is to answer with. They share nothing but the        *)
(* process: a behaviour is one of one of them, and the others stand still.     *)
EXTENDS JsonRefs

CONSTANTS
    MaxName, Local, MaxHostChanges, MaxFaults,      \* of AvahiService
    Requests                                        \* of HttpService

VARIABLES
    part,       \* whose behaviour it is
    poll, halt, group, cname, ptr, live, server, entries, gstate, inbox, taken, left,   \* of AvahiService
    svc, stop, httpDaemon, port, conn                                                   \* of HttpService

Avahi == INSTANCE AvahiService
Http  == INSTANCE HttpService WITH daemon <- httpDaemon
ASSUME ServicesAssumption ==
    JsonRefsAssumption /\ Avahi!AvahiAssumption /\ Http!RequestsAssumption

avahiVars == <<poll, halt, group, cname, ptr, live, server, entries, gstate, inbox, taken, left>>
httpVars  == <<svc, stop, httpDaemon, port, conn>>
allVars   == <<part, avahiVars, httpVars, vars>>

Parts == {"avahi", "http", "json"}
ServicesInit ==
    /\ part \in Parts /\ Avahi!Init /\ Http!Init /\ Init
    /\ part # "avahi" => server = "running" /\ taken = {}      \* one of its initial states
    /\ part # "http" => port = "free"

OnlyAvahi == part = "avahi" /\ UNCHANGED <<part, httpVars, vars>>
OnlyHttp  == part = "http" /\ UNCHANGED <<part, avahiVars, vars>>
OnlyJson  == part = "json" /\ UNCHANGED <<part, avahiVars, httpVars>>

ServicesNext == \/ OnlyAvahi /\ Avahi!Next
                \/ OnlyHttp /\ Http!Next
                \/ OnlyJson /\ Next

\* The fairness of AvahiService and of HttpService.
ServicesSpec == /\ ServicesInit /\ [][ServicesNext]_allVars
                /\ WF_allVars(OnlyAvahi /\ (Avahi!Construct \/ Avahi!ConstructFails))
                /\ WF_allVars(OnlyAvahi /\ Avahi!Thread)
                /\ WF_allVars(OnlyAvahi /\ Avahi!Daemon)
                /\ WF_allVars(OnlyHttp /\ Http!Service)

(***************************************************************************)
(* The properties of the three modules.                                    *)
(***************************************************************************)
\* Every variable of the services has its type.
ServicesTypeOK == Avahi!TypeOK /\ Http!TypeOK /\ TypeOK

\* avahiservice.cc:221: the service is never announced under two names.
OneName == Avahi!OneName

\* avahiservice.cc:76, 111: what the object allocates is freed once.
FreedOnce == Avahi!FreedOnce

\* avahiservice.cc:178: if the host's name is settled in the end, so is the service.
ServiceRegisters == part = "avahi" => Avahi!Registers

\* httprequesthandler.cc: the answer is the one for the arguments the client has sent.
AnswersTheRequest == Http!AnswersTheRequest

\* httpservice.cc:43: a port that another program gives up is taken over.
TakesOver == part = "http" => Http!TakesOver
=============================================================================
