------------------------ MODULE VantagePro2Connector ------------------------
(***************************************************************************)
(* The connector that drives one Davis VantagePro2 weather station over a  *)
(* TCP socket (davis/vantagepro2_connector.cpp): a 30-state machine run by *)
(* Boost.Asio completion handlers.                                         *)
(*                                                                         *)
(* What Asio keeps for the connector is explicit:                          *)
(*   ops    socket operations started and not completed, oldest first      *)
(*   waits  waits registered on _timer and neither fired nor cancelled     *)
(*   ready  handlers whose operation or wait is over, queued in io_context *)
(* A cancelled operation or wait is removed: its handler returns at once   *)
(* on operation_canceled.  A handler already in ready cannot be cancelled. *)
(*                                                                         *)
(* The station is the environment: it may answer anything, late, or never, *)
(* and it may leave.                                                       *)
(***************************************************************************)
EXTENDS Naturals, Sequences

CONSTANTS
    Workers,                \* threads running io_context::run (daemon.cpp, option "threads")
    MaxTimeouts,            \* handleGenericErrors gives up at this count (5)
    MaxTransmissionErrors,  \* the acknowledgement states give up at this count (5)
    MaxPageErrors,          \* WAITING_ARCHIVE_PAGE gives up beyond this count (100)
    PageCounter,            \* number of values of the unsigned counter of pages (2^16)
    MaxPages,               \* bound: pages announced by the station for a download
    MaxNoise,               \* bound: stray newline bytes the station sends
    MaxCommands,            \* bound: reload and start commands of the control socket
    MaxQueued,              \* bound: handlers queued together when the timer fires among others
    MayStop,                \* whether the operator may stop the connector
    StationMayLeave,        \* whether the station may close or reset the connection
    MaxDisturbances,        \* bound: stray newlines, commands, stalls and departure, all together
    MaxStalls               \* bound: times a deadline passes, or an operation completes, behind
                            \* queued handlers: blocking downloads and database calls share
                            \* the event loop

ASSUME ConstantsAssumption ==
    /\ Workers \in Nat \ {0}
    /\ MaxTimeouts \in Nat \ {0}
    /\ MaxTransmissionErrors \in Nat \ {0}
    /\ MaxPageErrors \in Nat \ {0}
    /\ PageCounter \in Nat \ {0}
    /\ MaxPages \in 0 .. PageCounter - 1
    /\ MaxNoise \in Nat
    /\ MaxCommands \in Nat
    /\ MaxQueued \in Nat
    /\ MayStop \in BOOLEAN
    /\ StationMayLeave \in BOOLEAN
    /\ MaxDisturbances \in Nat
    /\ MaxStalls \in Nat

VARIABLES
    state,              \* _currentState
    sockOpen,           \* _sock.is_open()
    timeouts,           \* _timeouts
    transmissionErrors, \* _transmissionErrors
    setTimeRequested,   \* _setTimeRequested
    setTimeTimer,       \* _setTimeTimer: [armed, fired]
    ackBuffer,          \* _ackBuffer
    coordsValid,        \* whether the CRC of _coords is right
    pagesLeft,          \* _archiveSize.pagesLeft
    expired,            \* _timer.expires_at() <= now
    waits, ops, ready,  \* see above
    station,            \* the other end of the socket: "here" or "gone"
    daemon,             \* "running", or "terminated" by an uncaught exception
    noise, commands, stalls, \* what the environment has spent of its bounds
    sent,               \* history: last request written since the exchange was (re)started
    pageStored,         \* history: the page being answered was stored
    silences            \* history: operations timed out since one last succeeded

machineVars == <<state, timeouts, transmissionErrors>>
bufferVars  == <<ackBuffer, coordsValid, pagesLeft>>
setTimeVars == <<setTimeRequested, setTimeTimer>>
asioVars    == <<expired, waits, ops, ready>>
envVars     == <<station, noise, commands, stalls>>
historyVars == <<sent, pageStored, silences>>
vars == <<machineVars, sockOpen, bufferVars, setTimeVars, asioVars, envVars,
          daemon, historyVars>>

-----------------------------------------------------------------------------
(* The states, the requests and the answers *)

\* States handled by handleGenericErrors: a timeout there restarts the
\* exchange.
RetriedStates ==
    {"SENDING_WAKE_UP_STATION", "WAITING_ECHO_STATION", "SENDING_REQ_STATION",
     "WAITING_ACK_STATION", "WAITING_DATA_STATION",
     "SENDING_REQ_MAIN_MODE",
     "SENDING_REQ_TIMEZONE", "WAITING_ACK_TIMEZONE", "WAITING_DATA_TIMEZONE",
     "SENDING_WAKE_UP_ARCHIVE", "WAITING_ECHO_ARCHIVE", "SENDING_REQ_ARCHIVE",
     "WAITING_ACK_ARCHIVE",
     "SENDING_WAKE_UP_SETTIME", "WAITING_ECHO_SETTIME", "SENDING_SETTIME",
     "WAITING_ACK_SETTIME"}

\* States in the middle of a request: any failure stops the connector.
\* WAITING_ACK_MAIN_MODE is among them: it does call handleGenericErrors, but
\* its else branch stops the connector on every error, dropping the retry.
UnretriedStates ==
    {"WAITING_ACK_MAIN_MODE", "SENDING_ARCHIVE_PARAMS",
     "WAITING_ACK_ARCHIVE_PARAMS", "WAITING_ARCHIVE_NB_PAGES",
     "SENDING_ACK_ARCHIVE_DOWNLOAD", "SENDING_ABORT_ARCHIVE_DOWNLOAD",
     "WAITING_ARCHIVE_PAGE", "SENDING_ARCHIVE_PAGE_ANSWER",
     "SENDING_SETTIME_PARAMS"}

\* STARTING is left by start() itself and seen by no handler.
State == RetriedStates \cup UnretriedStates \cup
    {"WAITING_NEXT_MEASURE_TICK", "WAITING_ACK_TIME_SET", "STOPPED"}

Requests == {"wakeUp", "getStation", "mainMode", "getTimezone", "getArchive",
             "archiveParams", "ack", "nak", "abort", "setTime", "setTimeParams"}
Answers  == {"echo", "ok", "ackByte", "coords", "timezone", "size", "page"}

\* A fault used as a mutant: the failed step is resumed, its request is not
\* written again.
RestartInPlace(s) == s

\* The restartState given to handleGenericErrors or flushSocketAndRetry.
Restart(s) ==
    CASE s \in {"SENDING_WAKE_UP_STATION", "WAITING_ECHO_STATION"} -> "SENDING_WAKE_UP_STATION"
      [] s \in {"SENDING_REQ_STATION", "WAITING_ACK_STATION", "WAITING_DATA_STATION"} -> "SENDING_REQ_STATION"
      [] s \in {"SENDING_REQ_TIMEZONE", "WAITING_ACK_TIMEZONE", "WAITING_DATA_TIMEZONE"} -> "SENDING_REQ_TIMEZONE"
      [] s \in {"SENDING_WAKE_UP_ARCHIVE", "WAITING_ECHO_ARCHIVE"} -> "SENDING_WAKE_UP_ARCHIVE"
      [] s \in {"SENDING_REQ_ARCHIVE", "WAITING_ACK_ARCHIVE"} -> "SENDING_REQ_ARCHIVE"
      [] s \in {"SENDING_WAKE_UP_SETTIME", "WAITING_ECHO_SETTIME"} -> "SENDING_WAKE_UP_SETTIME"
      [] s \in {"SENDING_SETTIME", "WAITING_ACK_SETTIME"} -> "SENDING_SETTIME"
      [] OTHER -> "SENDING_REQ_MAIN_MODE"

\* The operation started on entering a state: the request it writes, or the
\* answer it reads.  (A page answer is an ack or a nak, see HandlePage.)
Operation(s) ==
    CASE s \in {"SENDING_WAKE_UP_STATION", "SENDING_WAKE_UP_ARCHIVE", "SENDING_WAKE_UP_SETTIME"} -> "wakeUp"
      [] s \in {"WAITING_ECHO_STATION", "WAITING_ECHO_ARCHIVE", "WAITING_ECHO_SETTIME"} -> "echo"
      [] s = "SENDING_REQ_STATION" -> "getStation"
      [] s = "SENDING_REQ_MAIN_MODE" -> "mainMode"
      [] s = "WAITING_ACK_MAIN_MODE" -> "ok"
      [] s = "SENDING_REQ_TIMEZONE" -> "getTimezone"
      [] s = "SENDING_REQ_ARCHIVE" -> "getArchive"
      [] s = "SENDING_ARCHIVE_PARAMS" -> "archiveParams"
      [] s = "SENDING_SETTIME" -> "setTime"
      [] s = "SENDING_SETTIME_PARAMS" -> "setTimeParams"
      [] s = "WAITING_DATA_STATION" -> "coords"
      [] s = "WAITING_DATA_TIMEZONE" -> "timezone"
      [] s = "WAITING_ARCHIVE_NB_PAGES" -> "size"
      [] s = "WAITING_ARCHIVE_PAGE" -> "page"
      [] s = "SENDING_ACK_ARCHIVE_DOWNLOAD" -> "ack"
      [] s = "SENDING_ABORT_ARCHIVE_DOWNLOAD" -> "abort"
      [] OTHER -> "ackByte"

\* The next state of an exchange, once the answer (if any) is accepted.
Successor(s) ==
    CASE s = "SENDING_WAKE_UP_STATION" -> "WAITING_ECHO_STATION"
      [] s = "WAITING_ECHO_STATION" -> "SENDING_REQ_STATION"
      [] s = "SENDING_REQ_STATION" -> "WAITING_ACK_STATION"
      [] s = "WAITING_ACK_STATION" -> "WAITING_DATA_STATION"
      [] s = "WAITING_DATA_STATION" -> "SENDING_REQ_MAIN_MODE"
      [] s = "SENDING_REQ_MAIN_MODE" -> "WAITING_ACK_MAIN_MODE"
      [] s = "WAITING_ACK_MAIN_MODE" -> "SENDING_REQ_TIMEZONE"
      [] s = "SENDING_REQ_TIMEZONE" -> "WAITING_ACK_TIMEZONE"
      [] s = "WAITING_ACK_TIMEZONE" -> "WAITING_DATA_TIMEZONE"
      [] s = "SENDING_WAKE_UP_ARCHIVE" -> "WAITING_ECHO_ARCHIVE"
      [] s = "WAITING_ECHO_ARCHIVE" -> "SENDING_REQ_ARCHIVE"
      [] s = "SENDING_REQ_ARCHIVE" -> "WAITING_ACK_ARCHIVE"
      [] s = "WAITING_ACK_ARCHIVE" -> "SENDING_ARCHIVE_PARAMS"
      [] s = "SENDING_ARCHIVE_PARAMS" -> "WAITING_ACK_ARCHIVE_PARAMS"
      [] s = "WAITING_ACK_ARCHIVE_PARAMS" -> "WAITING_ARCHIVE_NB_PAGES"
      [] s = "SENDING_WAKE_UP_SETTIME" -> "WAITING_ECHO_SETTIME"
      [] s = "WAITING_ECHO_SETTIME" -> "SENDING_SETTIME"
      [] s = "SENDING_SETTIME" -> "WAITING_ACK_SETTIME"
      [] s = "WAITING_ACK_SETTIME" -> "SENDING_SETTIME_PARAMS"
      [] OTHER -> "WAITING_ACK_TIME_SET"

\* States whose success case does nothing but go on.
PlainStates ==
    {"SENDING_WAKE_UP_STATION", "WAITING_ECHO_STATION", "SENDING_REQ_STATION",
     "SENDING_REQ_MAIN_MODE", "WAITING_ACK_MAIN_MODE", "SENDING_REQ_TIMEZONE",
     "SENDING_WAKE_UP_ARCHIVE", "WAITING_ECHO_ARCHIVE", "SENDING_REQ_ARCHIVE",
     "SENDING_ARCHIVE_PARAMS",
     "SENDING_WAKE_UP_SETTIME", "WAITING_ECHO_SETTIME", "SENDING_SETTIME",
     "SENDING_SETTIME_PARAMS"}
\* States that check _ackBuffer and retry the exchange when it is not ACK.
AckStates ==
    {"WAITING_ACK_STATION", "WAITING_ACK_TIMEZONE", "WAITING_ACK_ARCHIVE", "WAITING_ACK_SETTIME"}

Deadline  == [type |-> "deadline"]
Flush(s)  == [type |-> "flush", to |-> s]
IO(o, ok) == [type |-> "io", op |-> o, ok |-> ok]

-----------------------------------------------------------------------------
(* Timer, socket and stop, as every handler uses them *)

\* Setting the expiry time cancels the waits; async_wait registers a new one.
\* (A fault used as a mutant: the expiry time is set and nothing waits.)
SetExpiryOnly(wait) == waits' = <<>> /\ expired' = FALSE
Arm(wait) == waits' = <<wait>> /\ expired' = FALSE

\* Write or read op under a new countdown; o is what the socket still does.
Enter(s, op, o) ==
    /\ state' = s
    /\ ops' = Append(o, op)
    /\ Arm(Deadline)

Go(s, o) ==
    /\ Enter(s, Operation(s), o)
    /\ pageStored' = FALSE
    /\ UNCHANGED <<transmissionErrors, sockOpen, setTimeVars, pagesLeft, sent>>

\* flushSocketAndRetry: the request will be written again in ten seconds.
FlushSocketAndRetry(s, o) ==
    /\ Arm(Flush(s))
    /\ ops' = o
    /\ sent' = "none"

SetTimeTimerForgotten == setTimeTimer' = setTimeTimer
CancelSetTimeTimer == setTimeTimer' = [setTimeTimer EXCEPT !.armed = FALSE]
RearmSetTimeTimer == setTimeTimer' = [setTimeTimer EXCEPT !.armed = TRUE]

\* _sock.cancel(): what is left pending (on a closed socket, failures).
CancelNothing == ops
CancelOperations == IF sockOpen THEN <<>> ELSE ops

\* A fault used as a mutant: the socket is left open.
LeaveSocketOpen ==
    /\ sockOpen' = sockOpen
    /\ CancelSetTimeTimer

CloseSocket ==
    /\ sockOpen' = FALSE
    /\ CancelSetTimeTimer

Stop(o) ==
    /\ state' = "STOPPED"
    /\ waits' = <<>>
    /\ ops' = IF sockOpen THEN <<>> ELSE o
    /\ CloseSocket
    /\ pageStored' = FALSE
    /\ sent' = "none"
    /\ UNCHANGED <<expired, setTimeRequested, pagesLeft>>

WaitForNextMeasure(o) ==
    /\ state' = "WAITING_NEXT_MEASURE_TICK"
    /\ timeouts' = 0
    /\ transmissionErrors' = 0
    /\ ops' = o
    /\ Arm(Deadline)
    /\ pageStored' = FALSE
    /\ sent' = "none"
    /\ UNCHANGED <<sockOpen, pagesLeft>>

-----------------------------------------------------------------------------
(* handleEvent.  o: operations left on the socket, w: waits left on _timer,*)
(* t: _timeouts, all three as the handler that calls it leaves them.       *)

\* ++_transmissionErrors, and the fault of forgetting it.
TransmissionErrorUncounted == transmissionErrors' = transmissionErrors
CountTransmissionError == transmissionErrors' = transmissionErrors + 1

\* ++_timeouts in handleGenericErrors, and the fault of resetting it there.
ForgetTimeout(t) == timeouts' = timeouts
CountTimeout(t) == timeouts' = t + 1

\* An answer that is not the expected one: the exchange is restarted after a
\* flush, and the state only changes when the flush is over.
RetryTransmission(o) ==
    /\ CountTransmissionError
    /\ IF transmissionErrors' < MaxTransmissionErrors
       THEN /\ FlushSocketAndRetry(Restart(state), o)
            /\ UNCHANGED <<state, sockOpen, setTimeVars, pagesLeft, pageStored>>
       ELSE Stop(o)

AnswerPage(answer, o) == Enter("SENDING_ARCHIVE_PAGE_ANSWER", answer, o)

PageDone == pagesLeft' = (pagesLeft + PageCounter - 1) % PageCounter

StorePage(o) ==
    /\ PageDone
    /\ pageStored' = TRUE
    /\ AnswerPage("ack", o)
    /\ UNCHANGED <<transmissionErrors, sockOpen, setTimeVars, sent>>

\* Both failures go on answering the station after their call to stop().
FailToStorePage(o) ==
    /\ PageDone
    /\ pageStored' = FALSE
    /\ AnswerPage("ack", CancelOperations)
    /\ CloseSocket
    /\ UNCHANGED <<transmissionErrors, setTimeRequested, sent>>

RefusePage(o) ==
    /\ CountTransmissionError
    /\ pageStored' = FALSE
    /\ IF transmissionErrors' > MaxPageErrors
       THEN Enter("STOPPED", "nak", CancelOperations) /\ CloseSocket
       ELSE AnswerPage("nak", o) /\ UNCHANGED <<sockOpen, setTimeTimer>>
    /\ UNCHANGED <<pagesLeft, setTimeRequested, sent>>

HandlePage(o) == StorePage(o) \/ FailToStorePage(o) \/ RefusePage(o)

FinishSetTime(o) ==
    /\ setTimeRequested' = FALSE
    /\ RearmSetTimeTimer
    /\ WaitForNextMeasure(o)

AtLeastNoPage == pagesLeft >= 0
MorePages == pagesLeft > 0

DownloadStates == {"SENDING_ACK_ARCHIVE_DOWNLOAD", "SENDING_ARCHIVE_PAGE_ANSWER"}

AdvanceExchange(o) ==
    \/ state \in PlainStates /\ Go(Successor(state), o)
    \/ /\ state \in AckStates
       /\ IF ackBuffer = "ACK" THEN Go(Successor(state), o) ELSE RetryTransmission(o)
    \/ /\ state = "WAITING_DATA_STATION"
       /\ IF coordsValid
          THEN \/ Go("SENDING_REQ_MAIN_MODE", o)
               \/ Stop(o) /\ UNCHANGED transmissionErrors   \* unknown station
          ELSE RetryTransmission(o)
    \/ /\ state = "WAITING_DATA_TIMEZONE"
       /\ IF coordsValid                    \* of _coords, not of the timezone
          THEN \/ Go("SENDING_WAKE_UP_ARCHIVE", o)
               \/ Go("SENDING_WAKE_UP_SETTIME", o)          \* last archive is recent
          ELSE RetryTransmission(o)
    \/ /\ state = "WAITING_ACK_ARCHIVE_PARAMS"
       /\ IF ackBuffer = "ACK"
          THEN Go("WAITING_ARCHIVE_NB_PAGES", o)
          ELSE Stop(o) /\ UNCHANGED transmissionErrors
    \/ /\ state = "WAITING_ARCHIVE_NB_PAGES"
       /\ \/ Go("SENDING_ACK_ARCHIVE_DOWNLOAD", o)
          \/ Go("SENDING_ABORT_ARCHIVE_DOWNLOAD", o)        \* wrong CRC
    \/ state = "WAITING_ARCHIVE_PAGE" /\ HandlePage(o)
    \/ /\ state \in DownloadStates
       /\ MorePages
       /\ Go("WAITING_ARCHIVE_PAGE", o)
    \/ /\ state \in DownloadStates
       /\ ~MorePages /\ setTimeRequested
       /\ Go("SENDING_WAKE_UP_SETTIME", o)

EndExchange(o) ==
    \/ /\ \/ state \in {"SENDING_ABORT_ARCHIVE_DOWNLOAD", "WAITING_NEXT_MEASURE_TICK"}
          \/ state \in DownloadStates /\ ~MorePages /\ ~setTimeRequested
       /\ WaitForNextMeasure(o) /\ UNCHANGED setTimeVars
    \/ state = "WAITING_ACK_TIME_SET" /\ FinishSetTime(o)

OnSuccess(o) ==
    \/ AdvanceExchange(o) /\ UNCHANGED timeouts
    \/ EndExchange(o)

OnTimeout(o, t) ==
    \/ /\ state = "WAITING_NEXT_MEASURE_TICK"
       /\ timeouts' = t
       /\ Go("SENDING_WAKE_UP_ARCHIVE", o)
    \/ /\ state \in RetriedStates
       /\ CountTimeout(t)
       /\ UNCHANGED transmissionErrors
       /\ IF timeouts' < MaxTimeouts
          THEN /\ state' = Restart(state)
               /\ FlushSocketAndRetry(Restart(state), o)
               /\ UNCHANGED <<sockOpen, setTimeVars, pagesLeft, pageStored>>
          ELSE Stop(o)
    \/ /\ state \in UnretriedStates
       /\ timeouts' = IF state = "WAITING_ACK_MAIN_MODE" THEN t + 1 ELSE t
       /\ Stop(o) /\ UNCHANGED transmissionErrors
    \/ state = "WAITING_ACK_TIME_SET" /\ FinishSetTime(o)

\* A fault used as a mutant: network errors are retried at the next measure.
OnErrorWait(o) == WaitForNextMeasure(o) /\ UNCHANGED setTimeVars

OnError(o) ==
    \/ /\ state \in RetriedStates \cup UnretriedStates
       /\ Stop(o) /\ UNCHANGED <<timeouts, transmissionErrors>>
    \/ state = "WAITING_NEXT_MEASURE_TICK" /\ WaitForNextMeasure(o) /\ UNCHANGED setTimeVars
    \/ state = "WAITING_ACK_TIME_SET" /\ FinishSetTime(o)

\* In STOPPED every event is discarded.
Discard(o, w, t) ==
    /\ state = "STOPPED"
    /\ ops' = o /\ waits' = w /\ timeouts' = t
    /\ UNCHANGED <<state, transmissionErrors, sockOpen, setTimeVars, expired,
                   pagesLeft, pageStored, sent>>

-----------------------------------------------------------------------------
(* Completion handlers.  One worker takes them in order; several take them  *)
(* in any order.  (Two handlers of one connector running at the same time,  *)
(* which nothing in the code prevents with several workers, is a data race  *)
(* and is not modelled.)                                                    *)

Running == daemon = "running"

Take(i) ==
    /\ Running
    /\ i \in DOMAIN ready
    /\ Workers = 1 => i = 1
    /\ ready' = SubSeq(ready, 1, i - 1) \o SubSeq(ready, i + 1, Len(ready))

\* checkDeadline: a deadline that was postponed meanwhile is waited for
\* again; a genuine one cancels the socket operations still pending.
RunDeadline(i) ==
    /\ Take(i)
    /\ ready[i].type = "deadline"
    /\ IF expired
       THEN /\ \/ OnTimeout(CancelOperations, timeouts + 1)
               \/ Discard(CancelOperations, waits, timeouts + 1)
            /\ silences' = IF state \in {"WAITING_NEXT_MEASURE_TICK", "STOPPED"}
                           THEN silences ELSE silences + 1
       ELSE /\ waits' = Append(waits, Deadline)
            /\ UNCHANGED <<machineVars, sockOpen, pagesLeft, setTimeVars, expired, ops,
                           historyVars>>
    /\ UNCHANGED <<ackBuffer, coordsValid, envVars, daemon>>

\* The handler of flushSocketAndRetry: _sock.available() throws on a closed
\* socket, and nothing catches it.
RunFlush(i) ==
    /\ Take(i)
    /\ ready[i].type = "flush"
    /\ IF sockOpen
       THEN Go(ready[i].to, ops) /\ UNCHANGED <<timeouts, daemon>>
       ELSE /\ daemon' = "terminated"
            /\ UNCHANGED <<machineVars, sockOpen, setTimeVars, pagesLeft, expired, waits,
                           ops, pageStored, sent>>
    /\ UNCHANGED <<ackBuffer, coordsValid, envVars, silences>>

\* The handlers of sendRequest, sendBuffer, recvWakeUp, recvOk, recvData.
HandleIO(i) ==
    \/ ready[i].ok /\ OnSuccess(ops)
    \/ ~ready[i].ok /\ OnError(ops)
    \/ Discard(ops, <<>>, timeouts)

\* The handler of recvAck reads again after a stray newline, and looks at
\* _ackBuffer before it looks at the error code.
ReceiveAckAgain ==
    /\ ops' = Append(ops, "ackByte")
    /\ Arm(Deadline)
    /\ UNCHANGED <<machineVars, sockOpen, setTimeVars, pagesLeft, pageStored, sent>>

RunIO(i) ==
    /\ Take(i)
    /\ ready[i].type = "io"
    /\ IF ready[i].op = "ackByte" /\ ackBuffer = "NEWLINE" THEN ReceiveAckAgain ELSE HandleIO(i)
    /\ silences' = IF ready[i].ok THEN 0 ELSE silences
    /\ UNCHANGED <<ackBuffer, coordsValid, envVars, daemon>>

\* handleSetTimeDeadline: the flag is raised unless the timer was postponed.
RunSetTimeDeadline ==
    /\ Running
    /\ setTimeTimer.fired
    /\ setTimeTimer' = [setTimeTimer EXCEPT !.fired = FALSE]
    /\ setTimeRequested' = (setTimeRequested \/ ~setTimeTimer.armed)
    /\ UNCHANGED <<machineVars, sockOpen, bufferVars, asioVars, envVars, daemon, historyVars>>

-----------------------------------------------------------------------------
(* Calls from the acceptor and from the control socket *)

\* What disturbs the conversation, within the bounds.
DisturbancesSoFar == noise + commands + stalls + (IF station = "gone" THEN 1 ELSE 0)
MayDisturb == DisturbancesSoFar < MaxDisturbances
Command == commands < MaxCommands /\ MayDisturb /\ commands' = commands + 1

\* Some handler still holds the shared pointer to the connector.
Alive ==
    \/ ops # <<>> \/ waits # <<>> \/ ready # <<>>
    \/ setTimeTimer.armed \/ setTimeTimer.fired

Start ==
    /\ state = "STOPPED" /\ sockOpen /\ ~Alive
    /\ Go("SENDING_WAKE_UP_STATION", ops)
    /\ UNCHANGED <<timeouts, ackBuffer, coordsValid, ready, envVars,
                   daemon, silences>>

Reload ==
    /\ Running /\ Alive
    /\ Command
    /\ CancelSetTimeTimer
    /\ FlushSocketAndRetry("SENDING_WAKE_UP_STATION", ops)
    /\ UNCHANGED <<machineVars, sockOpen, bufferVars, setTimeRequested, ready, station, noise,
                   stalls, daemon, pageStored, silences>>

\* ConnectorGroup::start calls start() on every connector that is alive: another
\* conversation is begun, what the socket does is not cancelled, and set_option
\* throws on a closed socket.
ControlStart ==
    /\ Running /\ Alive
    /\ Command
    /\ IF sockOpen
       THEN Go("SENDING_WAKE_UP_STATION", ops) /\ UNCHANGED daemon
       ELSE /\ daemon' = "terminated"
            /\ UNCHANGED <<state, transmissionErrors, sockOpen, setTimeVars, pagesLeft, expired,
                           waits, ops, pageStored, sent>>
    /\ UNCHANGED <<timeouts, ackBuffer, coordsValid, ready, station, noise, stalls, silences>>

ControlStop ==
    /\ MayStop
    /\ Running /\ Alive
    /\ Stop(ops)
    /\ UNCHANGED <<timeouts, transmissionErrors, ackBuffer, coordsValid,
                   ready, envVars, daemon, silences>>

-----------------------------------------------------------------------------
(* Time, the kernel and the station *)

Stall(condition) ==
    IF condition THEN stalls < MaxStalls /\ MayDisturb /\ stalls' = stalls + 1 ELSE UNCHANGED stalls

DeadlineInQueue == \E i \in DOMAIN ready : ready[i] = Deadline

DeadlinePasses ==
    /\ Running
    /\ ~expired
    /\ waits # <<>> \/ DeadlineInQueue
    /\ Stall(ready # <<>>)
    /\ ops = <<>> \/ sockOpen           \* an operation on a closed socket fails at once
    /\ expired' = TRUE
    /\ UNCHANGED <<machineVars, sockOpen, bufferVars, setTimeVars, waits, ops, ready, station,
                   noise, commands, daemon, historyVars>>

\* The reactor queues the handlers of an expired timer.  A single worker runs
\* the reactor again only after the handlers it queued the last time.
TimerFires ==
    /\ Running
    /\ expired /\ waits # <<>>
    /\ Workers = 1 => \A i \in DOMAIN ready : ready[i].type = "io"
    /\ ready = <<>> \/ Len(ready) + Len(waits) <= MaxQueued
    /\ ready' = ready \o waits
    /\ waits' = <<>>
    /\ UNCHANGED <<machineVars, sockOpen, bufferVars, setTimeVars, expired, ops, envVars, daemon,
                   historyVars>>

SetTimeTimerExpires ==
    /\ Running
    /\ setTimeTimer.armed
    /\ setTimeTimer' = [armed |-> FALSE, fired |-> TRUE]
    /\ UNCHANGED <<machineVars, sockOpen, bufferVars, setTimeRequested, asioVars, envVars,
                   daemon, historyVars>>

\* The operations of one direction complete in the order they were started.
Oldest(i, direction) ==
    /\ i \in DOMAIN ops
    /\ ops[i] \in direction
    /\ \A j \in 1 .. i - 1 : ops[j] \notin direction

Complete(i, ok) ==
    /\ ops' = SubSeq(ops, 1, i - 1) \o SubSeq(ops, i + 1, Len(ops))
    /\ ready' = Append(ready, IO(ops[i], ok))
    /\ UNCHANGED <<machineVars, sockOpen, setTimeVars, expired, waits, daemon, pageStored, silences>>

DeadlineQueued == expired /\ DeadlineInQueue

\* One worker looks for socket events before it looks for expired timers, so
\* a write, which needs one event, never completes behind a queued deadline.
\* A read that spans several segments may.
WriteCompletes ==
    /\ Running /\ sockOpen
    /\ Workers = 1 => ~DeadlineQueued
    /\ Stall(DeadlineQueued)
    /\ \E i \in DOMAIN ops :
         /\ Oldest(i, Requests)
         /\ Complete(i, TRUE)
         /\ sent' = ops[i]
    /\ UNCHANGED <<bufferVars, station, noise, commands>>

\* The answer is copied into its buffer before its handler runs.
Fill(answer) ==
    /\ \/ answer = "ackByte" /\ ackBuffer' \in {"ACK", "OTHER"} /\ UNCHANGED noise
       \/ answer = "ackByte" /\ noise < MaxNoise /\ MayDisturb
          /\ ackBuffer' = "NEWLINE" /\ noise' = noise + 1
       \/ answer # "ackByte" /\ UNCHANGED <<ackBuffer, noise>>
    /\ IF answer = "coords" THEN coordsValid' \in BOOLEAN ELSE UNCHANGED coordsValid
    /\ IF answer = "size" THEN pagesLeft' \in 0 .. MaxPages ELSE UNCHANGED pagesLeft

ReadCompletes ==
    /\ Running /\ sockOpen /\ station = "here"
    /\ Stall(DeadlineQueued)
    /\ \E i \in DOMAIN ops :
         /\ Oldest(i, Answers)
         /\ Complete(i, TRUE)
         /\ Fill(ops[i])
    /\ UNCHANGED <<station, commands, sent>>

\* End of file, reset, or a socket this end has closed.
OperationFails ==
    /\ Running
    /\ ~sockOpen \/ station = "gone"
    /\ Stall(DeadlineQueued /\ sockOpen)
    /\ \E i \in DOMAIN ops :
         /\ Oldest(i, Requests) \/ Oldest(i, Answers)
         /\ Complete(i, FALSE)
    /\ UNCHANGED <<bufferVars, station, noise, commands, sent>>

StationLeaves ==
    /\ Running
    /\ StationMayLeave /\ MayDisturb
    /\ station' = "gone" /\ station # "gone"
    /\ UNCHANGED <<machineVars, sockOpen, bufferVars, setTimeVars, asioVars, noise, commands, stalls,
                   daemon, historyVars>>

-----------------------------------------------------------------------------
Init ==
    /\ state = "STOPPED"
    /\ sockOpen = TRUE
    /\ timeouts = 0
    /\ transmissionErrors = 0
    /\ setTimeRequested = TRUE
    /\ setTimeTimer = [armed |-> FALSE, fired |-> FALSE]
    /\ ackBuffer = "OTHER"
    /\ coordsValid = TRUE       \* the CRC of a buffer of zeros is right
    /\ pagesLeft = 0
    /\ expired = TRUE           \* a new timer expires at the epoch
    /\ waits = <<>> /\ ops = <<>> /\ ready = <<>>
    /\ station = "here"
    /\ daemon = "running"
    /\ noise = 0 /\ commands = 0 /\ stalls = 0
    /\ sent = "none"
    /\ pageStored = FALSE
    /\ silences = 0

RunHandler(i) == RunDeadline(i) \/ RunFlush(i) \/ RunIO(i)

Next ==
    \/ Start \/ Reload \/ ControlStart \/ ControlStop
    \/ \E i \in DOMAIN ready : RunDeadline(i)
    \/ \E i \in DOMAIN ready : RunFlush(i)
    \/ \E i \in DOMAIN ready : RunIO(i)
    \/ RunSetTimeDeadline
    \/ DeadlinePasses \/ TimerFires \/ SetTimeTimerExpires
    \/ WriteCompletes \/ ReadCompletes \/ OperationFails
    \/ StationLeaves

Spec == Init /\ [][Next]_vars

\* The io_context goes on while something is ready, a timer runs, or the kernel has
\* to report an operation that can no longer succeed (keepalive makes a dead link
\* one).  Nothing is assumed of the order, nor of the station.
EventLoop ==
    \/ \E i \in DOMAIN ready : RunHandler(i)
    \/ RunSetTimeDeadline \/ TimerFires \/ DeadlinePasses \/ OperationFails
Fairness == WF_vars(EventLoop)

FairSpec == Spec /\ Fairness

-----------------------------------------------------------------------------
(* Properties *)

Handlers ==
    {Deadline} \cup {Flush(s) : s \in RetriedStates} \cup
    {IO(o, ok) : o \in Requests \cup Answers, ok \in BOOLEAN}

\* Every variable has its type; _timeouts counts each timeout twice.
TypeOK ==
    /\ state \in State
    /\ sockOpen \in BOOLEAN
    /\ timeouts \in Nat
    /\ transmissionErrors \in Nat
    /\ setTimeRequested \in BOOLEAN
    /\ setTimeTimer \in [armed : BOOLEAN, fired : BOOLEAN]
    /\ ackBuffer \in {"ACK", "OTHER", "NEWLINE"}
    /\ coordsValid \in BOOLEAN
    /\ pagesLeft \in 0 .. PageCounter - 1
    /\ expired \in BOOLEAN
    /\ waits \in Seq(Handlers)
    /\ ops \in Seq(Requests \cup Answers)
    /\ ready \in Seq(Handlers)
    /\ station \in {"here", "gone"}
    /\ daemon \in {"running", "terminated"}
    /\ noise \in Nat
    /\ commands \in Nat
    /\ stalls \in Nat
    /\ sent \in Requests \cup {"none"}
    /\ pageStored \in BOOLEAN
    /\ silences \in Nat

\* However silent the station, a connector that is not stopped, and every
\* operation pending on its open socket, is waited for by a timer: handleEvent
\* never returns without a countdown (countdown, flushSocketAndRetry,
\* waitForNextMeasure), reload included.
NeverForgotten ==
    Running /\ (state # "STOPPED" \/ (sockOpen /\ ops # <<>>)) => waits # <<>> \/ ready # <<>>

\* The connector and the station talk in turn: at most one operation of the
\* socket is under way or has its completion queued.
SingleOperation ==
    \A i, j \in 1 .. Len(ops) + Len(ready) :
        LET both == [k \in DOMAIN ops |-> IO(ops[k], TRUE)] \o ready
        IN  both[i].type = "io" /\ both[j].type = "io" => i = j

AwaitedRequest(s) ==
    CASE s \in {"WAITING_ECHO_STATION", "WAITING_ECHO_ARCHIVE", "WAITING_ECHO_SETTIME"} -> {"wakeUp"}
      [] s \in {"WAITING_ACK_STATION", "WAITING_DATA_STATION"} -> {"getStation"}
      [] s = "WAITING_ACK_MAIN_MODE" -> {"mainMode"}
      [] s \in {"WAITING_ACK_TIMEZONE", "WAITING_DATA_TIMEZONE"} -> {"getTimezone"}
      [] s = "WAITING_ACK_ARCHIVE" -> {"getArchive"}
      [] s \in {"WAITING_ACK_ARCHIVE_PARAMS", "WAITING_ARCHIVE_NB_PAGES"} -> {"archiveParams"}
      [] s = "WAITING_ARCHIVE_PAGE" -> {"ack", "nak"}
      [] s = "WAITING_ACK_SETTIME" -> {"setTime"}
      [] s = "WAITING_ACK_TIME_SET" -> {"setTimeParams"}
      [] OTHER -> Requests \cup {"none"}

\* While it reads an answer, the last request the connector has written is
\* the one this answer is for, across timeouts, flushes and retries, as long as
\* nothing has held up the event loop while a handler of the connector waited.
AnswerFollowsRequest ==
    stalls = 0 /\ (\E i \in DOMAIN ops : ops[i] \in Answers) => sent \in AwaitedRequest(state)

\* A page is acknowledged to the station, which then considers it delivered,
\* only once it is stored: the ack that follows a failed store meets a closed
\* socket.
AckOnlyStoredPages ==
    state = "SENDING_ARCHIVE_PAGE_ANSWER" /\ sockOpen =>
        \A i \in DOMAIN ops : ops[i] = "ack" => pageStored

\* The 16-bit count of pages left is never decremented below zero, which
\* would make the connector ask for all the pages of the station and more.
PagesExpected == state = "WAITING_ARCHIVE_PAGE" => pagesLeft > 0

\* _timeouts is incremented both by checkDeadline and by handleGenericErrors:
\* the station is given up after this many operations timed out in a row.  (The
\* one that ends a setting of the time is forgotten, the next tick counts as one.)
SilenceBounded == silences <= MaxTimeouts \div 2 + 1

\* No handler throws out of io_context::run: a flush never runs after its
\* connector has closed the socket by itself.  (It may after a stop from the
\* control socket, which cannot cancel a flush whose handler is queued.)
DaemonSurvives == Running

\* A stray newline that is the last byte _ackBuffer received makes recvAck's handler
\* read again after any error: for ever, once nothing can be read any more.
ReadsForEver == ackBuffer = "NEWLINE" /\ (~sockOpen \/ station = "gone")

\* Every exchange ends, with a silent, garbling or departed station, through a
\* reload, a start and a stop: the connector waits for the next measure or stops;
\* unless a stray newline makes it read for ever (see DepartureNoticed).
Resting == state \in {"WAITING_NEXT_MEASURE_TICK", "STOPPED"} \/ ~Running
EveryExchangeEnds == ~Resting ~> Resting \/ ReadsForEver

\* A closed socket is the end of the connector: it reaches STOPPED and
\* nothing holds its shared pointer any more, so it is destroyed; unless a stray
\* newline makes it read the closed socket for ever.
ClosedIsReleased ==
    ~sockOpen ~> (state = "STOPPED" /\ ~Alive) \/ ReadsForEver \/ ~Running

\* When the station has left, the connector stops: at the failure of the
\* operation under way, or of the first one of the next measure; unless
\* _ackBuffer holds a stray newline (see DepartureNoticed).
DepartureStops ==
    station = "gone" ~> state = "STOPPED" \/ ackBuffer = "NEWLINE" \/ ~Running

\* "The connector should terminate all operations when it detects a
\* connectivity loss": when the station has left, the connector stops.
DepartureNoticed == station = "gone" ~> state = "STOPPED" \/ ~Running

=============================================================================
