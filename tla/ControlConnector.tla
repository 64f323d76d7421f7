-------------------------- MODULE ControlConnector --------------------------
(***************************************************************************)
(* A connection of meteodatactl to the control socket: a query, its        *)
(* answer, and ten seconds later what is left in the socket is thrown away.*)
(* Both deadlines share one timer; a handler whose wait has ended stays in *)
(* the queue of the event loop whatever becomes of the timer.  The queries *)
(* of the client are numbered 1, 2...: stored are those with an answer.    *)
(***************************************************************************)
EXTENDS Connector

VARIABLES
    state,          \* _currentState; "NONE": there is no connection
    inSocket,       \* queries in the socket
    queryBuffer,    \* queries in _queryBuffer
    reading,        \* async_read_until is under way
    pending, due,     \* _timer: pending, and queued handlers of those that ended
    postponed       \* the expiry was set again since the handlers were queued
controlVars == <<state, inSocket, queryBuffer, reading, pending, due, postponed>>

CancelTimer == pending' = {} /\ UNCHANGED postponed
SetTimer(wait) == pending' = {wait} /\ postponed' = (due # {})

\* WAITING_COMMAND: std::getline and consume() take the query, and as much of
\* what follows it; the query is answered.
AnswerQuery ==
    /\ stored' = stored \cup {Head(queryBuffer)}
    /\ lost' = lost \cup (IF Len(queryBuffer) > 1 THEN {queryBuffer[2]} ELSE {})
    /\ queryBuffer' = SubSeq(queryBuffer, 3, Len(queryBuffer))
    /\ state' = "SENDING_ANSWER"
    /\ SetTimer("countdown")
    /\ UNCHANGED <<inSocket, reading>>

\* handleEvent(success).  (A fault used as a mutant: an empty line is not a
\* reason to read again.)
StopReading == UNCHANGED reading
ReadOn == reading' = TRUE
Success ==
    \/ state = "WAITING_COMMAND" /\ queryBuffer # <<>> /\ AnswerQuery
    \/ /\ state = "WAITING_COMMAND" /\ queryBuffer = <<>>
       /\ ReadOn
       /\ CancelTimer
       /\ UNCHANGED <<state, inSocket, queryBuffer, stored, lost>>
    \/ /\ state = "SENDING_ANSWER"
       /\ lost' = lost \cup ToSet(queryBuffer) /\ queryBuffer' = <<>>
       /\ SetTimer("flush")
       /\ state' = "WAITING_COMMAND"
       /\ ReadOn
       /\ UNCHANGED <<inSocket, stored>>

\* stop(): the socket is closed; the connection goes with its last handler.
StopControl ==
    /\ state' = IF due' = {} THEN "NONE" ELSE "STOPPED"
    /\ lost' = lost \cup ToSet(inSocket) \cup ToSet(queryBuffer)
    /\ inSocket' = <<>> /\ queryBuffer' = <<>>
    /\ reading' = FALSE
    /\ CancelTimer

Connected == state \in {"WAITING_COMMAND", "SENDING_ANSWER"}

Ask ==
    /\ Connected /\ sent < MaxRecords
    /\ sent' = sent + 1
    /\ inSocket' = Append(inSocket, sent')
    /\ UNCHANGED <<failures, stored, lost, state, queryBuffer, reading, pending, due, postponed>>

\* recvData: the read takes all there is.
ReceiveQuery ==
    /\ reading /\ inSocket # <<>>
    /\ queryBuffer' = queryBuffer \o inSocket
    /\ inSocket' = <<>>
    /\ reading' = FALSE
    /\ UNCHANGED <<failures, sent, stored, lost, state, pending, due, postponed>>
HandleQuery ==
    /\ state = "WAITING_COMMAND" /\ ~reading
    /\ Success
    /\ UNCHANGED <<failures, sent, due>>

AnswerSent ==
    /\ state = "SENDING_ANSWER"
    /\ Success
    /\ UNCHANGED <<failures, sent, due>>

Expire ==
    /\ pending # {}
    /\ IF "countdown" \in pending THEN Failure ELSE UNCHANGED failures
    /\ due' = due \cup pending /\ pending' = {} /\ postponed' = FALSE
    /\ UNCHANGED <<sent, stored, lost, state, inSocket, queryBuffer, reading>>

\* checkDeadline: a deadline that was put off is waited for again.
Deadline ==
    /\ "countdown" \in due
    /\ due' = due \ {"countdown"}
    /\ IF state = "STOPPED" THEN
          /\ state' = IF due' = {} THEN "NONE" ELSE "STOPPED"
          /\ UNCHANGED <<lost, inSocket, queryBuffer, reading, pending, postponed>>
       ELSE IF postponed THEN
          /\ pending' = pending \cup {"countdown"}
          /\ UNCHANGED <<lost, state, inSocket, queryBuffer, reading, postponed>>
       ELSE StopControl
    /\ UNCHANGED <<failures, sent, stored>>

\* The handler of flushSocket.
Flush ==
    /\ "flush" \in due /\ state # "STOPPED"
    /\ due' = due \ {"flush"}
    /\ lost' = lost \cup ToSet(inSocket) /\ inSocket' = <<>>
    /\ state' = "WAITING_COMMAND"
    /\ UNCHANGED <<failures, sent, stored, queryBuffer, reading, pending, postponed>>
\* It asks a closed socket what is available, which throws.
FlushThrows == "flush" \in due /\ state = "STOPPED"

Leave ==
    /\ Connected
    /\ UNCHANGED due
    /\ StopControl
    /\ UNCHANGED <<failures, sent, stored>>

NoControl ==
    /\ state' = "NONE" /\ reading' = FALSE
    /\ lost' = lost \cup ToSet(inSocket) \cup ToSet(queryBuffer)
    /\ inSocket' = <<>> /\ queryBuffer' = <<>>
    /\ pending' = {} /\ due' = {} /\ postponed' = FALSE

\* The handlers, which run when a worker is free.
ControlHandlers == HandleQuery \/ AnswerSent \/ Deadline \/ Flush
ControlEvents == ReceiveQuery \/ Expire
ControlClient == Ask \/ Leave

ControlInit ==
    /\ state = "NONE" /\ inSocket = <<>> /\ queryBuffer = <<>>
    /\ reading = FALSE /\ pending = {} /\ due = {} /\ postponed = FALSE
=============================================================================
