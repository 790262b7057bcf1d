---------------------------- MODULE HttpService -----------------------------
(* service/httpservice.cc and httprequesthandler.cc: the thread that starts    *)
(* the HTTP daemon, and one connection at a time. The daemon is libmicrohttpd: *)
(* it holds the port, hands a request to the callbacks and frees nothing that  *)
(* they have allocated. Another program may hold the port at first.            *)
EXTENDS Url

CONSTANTS Requests      \* what clients send: [method, path, args]

VARIABLES
    svc,        \* where the service's thread is
    stop,       \* stop_
    daemon,     \* daemon_: "ours" or NULL
    port,       \* who listens: "free", "ours" or "other"
    conn        \* the connection: its state, the client's request, *con_cls, statusCode_

vars == <<svc, stop, daemon, port, conn>>

Null == "null"
NoConn == [st |-> "idle"]
NoMemory == <<>>        \* *con_cls is NULL, or <<the string>>

(***************************************************************************)
(* The client encodes every character of an argument that is not a letter  *)
(* or a digit.                                                             *)
(***************************************************************************)
Plain    == 48 .. 57 \cup 65 .. 90 \cup 97 .. 122
HexDigit(n) == IF n < 10 THEN 48 + n ELSE 55 + n
Encode(str) == Accumulate(LAMBDA s, c : s \o (IF c \in Plain THEN <<c>>
                                           ELSE <<Percent, HexDigit(c \div 16), HexDigit(c % 16)>>),
                        <<>>, str)
Query(args) == Accumulate(LAMBDA s, a : s \o (IF s = <<>> THEN <<Question>> ELSE <<Ampersand>>)
                                        \o Encode(a[1]) \o <<EqualsSign>> \o Encode(a[2]),
                        <<>>, args)

(***************************************************************************)
(* HttpRequestHandler.                                                     *)
(***************************************************************************)
Methods == {"HEAD", "GET", "POST", "PUT", "DELETE"}
OptionPath == <<Slash, 111>>        \* "/option", written "/o"
KeyArg == <<107>>                   \* "key", written "k"

HandleRequest(method, uri) ==
    LET url == ParseURL(uri)
    IN  IF method \notin Methods THEN 405           \* methodNotAllowed()
        ELSE IF url.path # OptionPath THEN 404      \* notFound()
        ELSE IF KeyArg \notin DOMAIN url.args THEN 400      \* callOption(): missingArg()
        ELSE 200

LogUri(uri) == From(uri, FindFirst(uri, {Question}))

\* What clients send: a path from the root, without a query, an anchor or "://", and any
\* arguments.
RequestsAssumption == \A r \in Requests :
    /\ r.path \in Seq(0 .. 255) /\ r.path # <<>> /\ r.path[1] = Slash
    /\ \A i \in DOMAIN r.path : r.path[i] \notin {Question, Hash}
    /\ ProtocolEnd(r.path) = 0
    /\ r.args \in Seq(Seq(0 .. 255) \X Seq(0 .. 255))

Init == /\ svc = "loop" /\ stop = FALSE /\ daemon = Null
        /\ port \in {"free", "other"}
        /\ conn = NoConn

(***************************************************************************)
(* run(): once a second a daemon is started and daemon_ overwritten. One   *)
(* that does not get the port is NULL.                                     *)
(***************************************************************************)

\* Mutant: the service gives up when it does not get the port.
StartDaemon_Once ==
    /\ svc = "loop" /\ ~stop
    /\ IF port = "free" THEN svc' = "sleep" /\ port' = "ours" /\ daemon' = "ours"
                        ELSE svc' = "done" /\ daemon' = Null /\ UNCHANGED port
    /\ UNCHANGED <<stop, conn>>

StartDaemon ==
    /\ svc = "loop" /\ ~stop
    /\ svc' = "sleep"
    /\ IF port = "free" THEN port' = "ours" /\ daemon' = "ours"
                        ELSE daemon' = Null /\ UNCHANGED port
    /\ UNCHANGED <<stop, conn>>

Wake == svc = "sleep" /\ svc' = "loop" /\ UNCHANGED <<stop, daemon, port, conn>>

\* MHD_stop_daemon() ends a connection that is open: its callback frees *con_cls. Of
\* NULL it does nothing: the daemon that has the port goes on serving.
StopDaemon ==
    /\ svc = "loop" /\ stop
    /\ IF daemon = "ours" THEN port' = "free" /\ conn' = NoConn ELSE UNCHANGED <<port, conn>>
    /\ svc' = "done"
    /\ UNCHANGED <<stop, daemon>>

RequestStop == ~stop /\ stop' = TRUE /\ UNCHANGED <<svc, daemon, port, conn>>

OtherReleases == port = "other" /\ port' = "free" /\ UNCHANGED <<svc, stop, daemon, conn>>

(***************************************************************************)
(* The callbacks. strdup() may find no memory.                             *)
(***************************************************************************)
UriLogged ==
    /\ port = "ours" /\ conn.st = "idle"
    /\ \E r \in Requests : \E con \in {<<LogUri(r.path \o Query(r.args))>>, NoMemory} :
            conn' = [st |-> "open", req |-> r, con |-> con]
    /\ UNCHANGED <<svc, stop, daemon, port>>

HandleConnection ==
    /\ conn.st = "open"
    /\ LET fullUrl == conn.req.path \o (IF conn.con = NoMemory THEN <<>> ELSE conn.con[1])
       IN  conn' = [st |-> "answered", req |-> conn.req, con |-> conn.con,
                    status |-> HandleRequest(conn.req.method, fullUrl)]
    /\ UNCHANGED <<svc, stop, daemon, port>>

\* Answered, or given up by the client before; *con_cls is freed.
RequestCompleted ==
    /\ conn.st \in {"open", "answered"}
    /\ conn' = NoConn
    /\ UNCHANGED <<svc, stop, daemon, port>>

Service    == StartDaemon \/ Wake \/ StopDaemon
Connection == UriLogged \/ HandleConnection \/ RequestCompleted
Next == Service \/ Connection \/ RequestStop \/ OtherReleases

Spec == Init /\ [][Next]_vars
FairSpec == Spec /\ WF_vars(Service)

TypeOK ==
    /\ svc \in {"loop", "sleep", "done"} /\ stop \in BOOLEAN
    /\ daemon \in {Null, "ours"} /\ port \in {"free", "ours", "other"}
    /\ conn.st \in {"idle", "open", "answered"}
    /\ conn.st = "answered" => conn.status \in {200, 400, 404, 405}

\* httprequesthandler.cc: whatever characters the arguments' names and values
\* have, the answer is the one for the arguments the client has sent: they are
\* cut, joined, cut again and decoded on the way. Without memory for the
\* query the request is one without arguments.
AnswersTheRequest ==
    conn.st = "answered" =>
        LET r    == conn.req
            sent == IF conn.con = NoMemory THEN {} ELSE {r.args[i][1] : i \in DOMAIN r.args}
        IN  conn.status = IF r.method \notin Methods THEN 405
                          ELSE IF r.path # OptionPath THEN 404
                          ELSE IF KeyArg \in sent THEN 200 ELSE 400

\* httpservice.cc:43: a port that another program gives up is taken over, unless
\* the service is told to stop.
TakesOver == (<>[](port # "other")) => <>(port = "ours" \/ stop)
=============================================================================
