---------------------------- MODULE RestWebServer ----------------------------
(***************************************************************************)
(* The web server: its acceptor, and a connection for each client, which   *)
(* reads one request, answers it and ends.  Each connection has a timer;   *)
(* setting its expiry again cancels the wait, but not a handler that is    *)
(* already in the queue of the event loop.                                 *)
(***************************************************************************)
EXTENDS HttpImports

CONSTANT Connections    \* bound: connections at once

ASSUME RestAssumption == Connections # {}

VARIABLES
    listening,      \* _acceptor
    accepts,        \* accepts under way
    aborted,        \* queued handlers of accepts that failed
    conn,           \* connection -> what it does
    deadline        \* connection -> its wait: "stale" if its handler is queued
                    \* for a deadline that was put off since
restVars == <<importVars, listening, accepts, aborted, conn, deadline>>

\* The server lives as long as a handler holds it: the registry does not.
ServerAlive == accepts > 0 \/ aborted > 0 \/ \E c \in Connections : conn[c] = "accepted"

\* async_accept on a closed acceptor fails at once.
Accept == IF listening THEN accepts' = accepts + 1 /\ UNCHANGED aborted
          ELSE aborted' = aborted + 1 /\ UNCHANGED accepts
\* Its handler accepts a failed accept's successor too, and for ever if the
\* acceptor is closed.
Spinning == ~listening /\ ~stopped

StartRest ==
    /\ Command(ServerAlive)
    /\ stopped' = FALSE
    /\ Accept
    /\ UNCHANGED <<failures, records, importVars, listening, conn, deadline>>
StopRest ==
    /\ Command(ServerAlive)
    /\ stopped' = TRUE
    /\ listening' = FALSE
    /\ aborted' = aborted + accepts /\ accepts' = 0
    /\ UNCHANGED <<failures, records, importVars, conn, deadline>>
ReloadRest ==
    /\ Command(ServerAlive)
    /\ UNCHANGED <<stopped, failures, records, restVars>>

Aborted ==
    /\ aborted > 0
    /\ IF stopped \/ listening THEN aborted' = aborted - 1 ELSE UNCHANGED aborted
    /\ accepts' = IF ~stopped /\ listening THEN accepts + 1 ELSE accepts
    /\ UNCHANGED <<stopped, commands, failures, records, importVars, listening, conn, deadline>>

Connect(c) ==
    /\ listening /\ accepts > 0 /\ conn[c] = "none"
    /\ accepts' = accepts - 1
    /\ conn' = [conn EXCEPT ![c] = "accepted"]
    /\ UNCHANGED <<stopped, commands, failures, records, importVars, listening, aborted, deadline>>

\* serveHttpConnection.  (A fault used as a mutant: the next accept waits for the
\* end of this connection.)
Serve(c) ==
    /\ conn[c] = "accepted"
    /\ conn' = [conn EXCEPT ![c] = "reading"]
    /\ deadline' = [deadline EXCEPT ![c] = "waiting"]
    /\ UNCHANGED <<stopped, commands, failures, records, importVars, listening>>
ServeHttpConnection(c) ==
    /\ Serve(c)
    /\ IF stopped THEN UNCHANGED <<accepts, aborted>> ELSE Accept

\* The request is there: it is processed, and the response has another deadline,
\* that nothing waits for unless a handler was queued for the first one.
ProcessRequest(c, Handle) ==
    /\ conn[c] = "reading"
    /\ Handle
    /\ conn' = [conn EXCEPT ![c] = "writing"]
    /\ deadline' = [deadline EXCEPT ![c] = IF @ = "waiting" THEN "none" ELSE "stale"]
    /\ UNCHANGED <<stopped, commands, protocol, listening, accepts, aborted>>
\* The configuration, the logs, the decoders, a refused or an unknown request.
OtherRequest == UNCHANGED <<failures, records, told>>

\* The read fails: the wait goes on.
ReadFails(c) ==
    /\ conn[c] = "reading" /\ Failure
    /\ conn' = [conn EXCEPT ![c] = "shut"]
    /\ UNCHANGED <<stopped, commands, records, importVars, listening, accepts, aborted, deadline>>

\* writeResponse: the socket is shut down, the wait cancelled.
Written(c) ==
    /\ conn[c] = "writing"
    /\ LET late == deadline[c] \in {"expired", "stale"}
       IN /\ conn' = [conn EXCEPT ![c] = IF late THEN "shut" ELSE "none"]
          /\ deadline' = [deadline EXCEPT ![c] = IF late THEN @ ELSE "none"]
    /\ UNCHANGED <<stopped, commands, failures, records, importVars, listening, accepts, aborted>>

Expires(c) ==
    /\ deadline[c] = "waiting"
    /\ conn[c] = "reading" => Failure
    /\ conn[c] # "reading" => UNCHANGED failures
    /\ deadline' = [deadline EXCEPT ![c] = "expired"]
    /\ UNCHANGED <<stopped, commands, records, importVars, listening, accepts, aborted, conn>>

\* checkDeadline: the socket is cancelled and shut down, which ends what it does.
CheckDeadline(c) ==
    /\ \/ /\ deadline[c] = "stale"
          /\ deadline' = [deadline EXCEPT ![c] = "waiting"]
          /\ UNCHANGED conn
       \/ /\ deadline[c] = "expired"
          /\ deadline' = [deadline EXCEPT ![c] = "none"]
          /\ conn' = [conn EXCEPT ![c] = "none"]
    /\ UNCHANGED <<stopped, commands, failures, records, importVars, listening, accepts, aborted>>

RestInit ==
    /\ listening = TRUE /\ accepts = 1 /\ aborted = 0
    /\ conn = [c \in Connections |-> "none"]
    /\ deadline = [c \in Connections |-> "none"]

\* Shutting down a socket the client has reset throws out of the event loop; or
\* the daemon exits on its own.  It is started again.
ExitRest ==
    /\ \/ \E c \in Connections : conn[c] = "shut" /\ deadline[c] = "expired" /\ UNCHANGED failures
       \/ Failure
    /\ stopped' = FALSE
    /\ listening' = TRUE /\ accepts' = 1 /\ aborted' = 0
    /\ conn' = [c \in Connections |-> "none"]
    /\ deadline' = [c \in Connections |-> "none"]
    /\ UNCHANGED <<commands, records, importVars>>

MeasureRest ==
    /\ Measure
    /\ UNCHANGED <<stopped, commands, failures, protocol, listening, accepts, aborted, conn, deadline>>

EventLoop ==
    \/ Aborted
    \/ \E c \in Connections :
         Connect(c) \/ ServeHttpConnection(c) \/ Written(c) \/ CheckDeadline(c)
Posts == \E c \in Connections : ProcessRequest(c, PostArchive)
Asks == \E c \in Connections : ProcessRequest(c, GetLastArchive)
Client == Posts \/ (Asks /\ told' # told)
RestStep ==
    \/ StartRest \/ StopRest \/ ReloadRest \/ ExitRest
    \/ EventLoop
    \/ Posts \/ Asks
    \/ \E c \in Connections :
         ProcessRequest(c, OtherRequest) \/ ReadFails(c) \/ Expires(c)
    \/ MeasureRest

=============================================================================
