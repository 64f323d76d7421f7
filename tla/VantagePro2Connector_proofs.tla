---------------------- MODULE VantagePro2Connector_proofs ----------------------
(***************************************************************************)
(* Type correctness of the VantagePro2 connector, and that it is never     *)
(* forgotten, for any number of workers, commands, stalls, pages...  Then, *)
(* with one worker and an operator that leaves it alone, the order of its  *)
(* exchanges: one operation at a time, answers read in turn, pages stored  *)
(* before they are acknowledged.                                           *)
(***************************************************************************)
EXTENDS VantagePro2Connector, TLAPS

SocketOps == Requests \cup Answers

\* The part of TypeOK that the outcome of a handler decides, its counter of
\* timeouts aside.
OutcomeOK ==
    /\ state \in State
    /\ sockOpen \in BOOLEAN
    /\ transmissionErrors \in Nat
    /\ setTimeRequested \in BOOLEAN
    /\ setTimeTimer \in [armed : BOOLEAN, fired : BOOLEAN]
    /\ pagesLeft \in 0 .. PageCounter - 1
    /\ expired \in BOOLEAN
    /\ waits \in Seq(Handlers)
    /\ ops \in Seq(SocketOps)
    /\ sent \in Requests \cup {"none"}
    /\ pageStored \in BOOLEAN

-----------------------------------------------------------------------------
(* Sequences                                                                *)

\* A sequence of one element, and the empty one.
LEMMA ShortSequences ==
    ASSUME NEW S, NEW x \in S
    PROVE  <<x>> \in Seq(S) /\ <<>> \in Seq(S)
OBVIOUS

\* Taking one element out of a sequence.
LEMMA WithoutOne ==
    ASSUME NEW S, NEW q \in Seq(S), NEW i \in DOMAIN q
    PROVE  SubSeq(q, 1, i - 1) \o SubSeq(q, i + 1, Len(q)) \in Seq(S)
<1>1. i \in 1 .. Len(q) /\ Len(q) \in Nat
  OBVIOUS
<1>2. SubSeq(q, 1, i - 1) \in Seq(S)
  BY <1>1
<1>3. SubSeq(q, i + 1, Len(q)) \in Seq(S)
  BY <1>1
<1> QED
  BY <1>2, <1>3

-----------------------------------------------------------------------------
(* States and handlers                                                      *)

\* Every state reached by the success of another, or restarted at, is one of
\* the states; those restarted at are retried.
LEMMA StateTables ==
    ASSUME NEW s \in State
    PROVE  /\ Successor(s) \in State \ {"STOPPED"}
           /\ Restart(s) \in RetriedStates
           /\ Operation(s) \in SocketOps
<1>1. Successor(s) \in State \ {"STOPPED"}
  BY DEF Successor, State, RetriedStates, UnretriedStates
<1>2. Restart(s) \in RetriedStates
  BY DEF Restart, RetriedStates
<1>3. Operation(s) \in SocketOps
  BY DEF Operation, SocketOps, Requests, Answers
<1> QED
  BY <1>1, <1>2, <1>3

\* The handlers registered by the code are handlers.
LEMMA HandlersRegistered ==
    /\ Deadline \in Handlers
    /\ \A s \in RetriedStates : Flush(s) \in Handlers
    /\ \A o \in SocketOps, ok \in BOOLEAN : IO(o, ok) \in Handlers
BY DEF Handlers, SocketOps

\* A countdown leaves the socket operation it is for, and one wait.
LEMMA EnterType ==
    ASSUME NEW s \in State, NEW op \in SocketOps, NEW o \in Seq(SocketOps), Enter(s, op, o)
    PROVE  /\ state' \in State /\ ops' \in Seq(SocketOps)
           /\ waits' \in Seq(Handlers) /\ waits' # <<>> /\ expired' \in BOOLEAN
<1>1. waits' = <<Deadline>> /\ expired' = FALSE
  BY DEF Enter, Arm
<1>2. ops' \in Seq(SocketOps)
  BY DEF Enter
<1> QED
  BY <1>1, <1>2, HandlersRegistered, ShortSequences DEF Enter

\* The operations left after _sock.cancel().
LEMMA CancelType ==
    ASSUME ops \in Seq(SocketOps)
    PROVE  CancelOperations \in Seq(SocketOps)
BY ShortSequences DEF CancelOperations

-----------------------------------------------------------------------------
(* The outcomes of handleEvent: each leaves the connector well typed, and   *)
(* either waited for by its timer or stopped with its socket closed.        *)

\* A connector that is not stopped is waited for, a stopped one is closed.
WaitedFor ==
    /\ state # "STOPPED" => waits # <<>>
    /\ state = "STOPPED" => ~sockOpen

LEMMA GoOutcome ==
    ASSUME OutcomeOK, NEW s \in State \ {"STOPPED"}, NEW o \in Seq(SocketOps), Go(s, o)
    PROVE  OutcomeOK' /\ WaitedFor'
<1>1. Operation(s) \in SocketOps
  BY StateTables
<1>2. Enter(s, Operation(s), o)
  BY DEF Go
<1>3. /\ state' \in State /\ ops' \in Seq(SocketOps)
      /\ waits' \in Seq(Handlers) /\ waits' # <<>> /\ expired' \in BOOLEAN
  BY <1>1, <1>2, EnterType
<1>4. state' = s
  BY <1>2 DEF Enter
<1> QED
  BY <1>3, <1>4 DEF Go, OutcomeOK, WaitedFor, setTimeVars

LEMMA StopOutcome ==
    ASSUME OutcomeOK, NEW o \in Seq(SocketOps), Stop(o), transmissionErrors' \in Nat
    PROVE  OutcomeOK' /\ WaitedFor'
<1>1. ops' \in Seq(SocketOps) /\ waits' \in Seq(Handlers)
  BY ShortSequences DEF Stop
<1>2. setTimeTimer' \in [armed : BOOLEAN, fired : BOOLEAN] /\ sockOpen' = FALSE
  BY DEF Stop, CloseSocket, CancelSetTimeTimer, OutcomeOK
<1> QED
  BY <1>1, <1>2 DEF Stop, OutcomeOK, WaitedFor, State

LEMMA FlushOutcome ==
    ASSUME OutcomeOK, NEW s \in RetriedStates, NEW o \in Seq(SocketOps),
           FlushSocketAndRetry(s, o), state' \in State \ {"STOPPED"}, transmissionErrors' \in Nat,
           UNCHANGED <<sockOpen, setTimeVars, pagesLeft, pageStored>>
    PROVE  OutcomeOK' /\ WaitedFor'
<1>1. waits' = <<Flush(s)>> /\ expired' = FALSE /\ ops' = o /\ sent' = "none"
  BY DEF FlushSocketAndRetry, Arm
<1>2. waits' \in Seq(Handlers) /\ waits' # <<>>
  BY <1>1, HandlersRegistered, ShortSequences
<1> QED
  BY <1>1, <1>2 DEF OutcomeOK, WaitedFor, setTimeVars

LEMMA NextMeasureOutcome ==
    ASSUME OutcomeOK, NEW o \in Seq(SocketOps), WaitForNextMeasure(o),
           setTimeRequested' \in BOOLEAN, setTimeTimer' \in [armed : BOOLEAN, fired : BOOLEAN]
    PROVE  OutcomeOK' /\ WaitedFor' /\ timeouts' \in Nat
<1>1. waits' = <<Deadline>> /\ expired' = FALSE
  BY DEF WaitForNextMeasure, Arm
<1>2. waits' \in Seq(Handlers) /\ waits' # <<>>
  BY <1>1, HandlersRegistered, ShortSequences
<1> QED
  BY <1>1, <1>2 DEF WaitForNextMeasure, OutcomeOK, WaitedFor, State

LEMMA SetTimeOutcome ==
    ASSUME OutcomeOK, NEW o \in Seq(SocketOps), FinishSetTime(o)
    PROVE  OutcomeOK' /\ WaitedFor' /\ timeouts' \in Nat
<1>1. setTimeTimer' \in [armed : BOOLEAN, fired : BOOLEAN] /\ setTimeRequested' \in BOOLEAN
  BY DEF FinishSetTime, RearmSetTimeTimer, OutcomeOK
<1> QED
  BY <1>1, NextMeasureOutcome DEF FinishSetTime

LEMMA RetryOutcome ==
    ASSUME OutcomeOK, state # "STOPPED", NEW o \in Seq(SocketOps), RetryTransmission(o)
    PROVE  OutcomeOK' /\ WaitedFor'
<1>1. transmissionErrors' \in Nat /\ Restart(state) \in RetriedStates
  BY StateTables DEF RetryTransmission, CountTransmissionError, OutcomeOK
<1>2. CASE transmissionErrors' < MaxTransmissionErrors
  <2>1. /\ FlushSocketAndRetry(Restart(state), o) /\ state' = state
        /\ UNCHANGED <<sockOpen, setTimeVars, pagesLeft, pageStored>>
    BY <1>2 DEF RetryTransmission
  <2>2. state' \in State \ {"STOPPED"}
    BY <2>1 DEF OutcomeOK
  <2> QED
    BY <1>1, <2>1, <2>2, FlushOutcome
<1>3. CASE ~(transmissionErrors' < MaxTransmissionErrors)
  BY <1>1, <1>3, StopOutcome DEF RetryTransmission
<1> QED
  BY <1>2, <1>3

\* The counter of pages wraps and stays a 16-bit number.
LEMMA PageDoneType ==
    ASSUME pagesLeft \in 0 .. PageCounter - 1, PageDone
    PROVE  pagesLeft' \in 0 .. PageCounter - 1
<1>1. PageCounter \in Nat \ {0}
  BY ConstantsAssumption DEF ConstantsAssumption
<1>2. CASE pagesLeft = 0
  BY <1>1, <1>2 DEF PageDone
<1>3. CASE pagesLeft > 0
  <2>1. (pagesLeft + PageCounter - 1) % PageCounter = pagesLeft - 1
    BY <1>1, <1>3
  <2> QED
    BY <1>1, <1>3, <2>1 DEF PageDone
<1> QED
  BY <1>1, <1>2, <1>3

LEMMA PageOutcome ==
    ASSUME OutcomeOK, NEW o \in Seq(SocketOps), HandlePage(o)
    PROVE  OutcomeOK' /\ WaitedFor'
<1> DEFINE answering == "SENDING_ARCHIVE_PAGE_ANSWER"
<1>1. answering \in State \ {"STOPPED"} /\ "STOPPED" \in State
  BY DEF State, UnretriedStates
<1>2. "ack" \in SocketOps /\ "nak" \in SocketOps
  BY DEF SocketOps, Requests
<1>3. CancelOperations \in Seq(SocketOps)
  BY CancelType DEF OutcomeOK
<1>4. CASE StorePage(o)
  <2>1. Enter(answering, "ack", o) /\ state' = answering
    BY <1>4 DEF StorePage, AnswerPage, Enter
  <2>2. pagesLeft' \in 0 .. PageCounter - 1
    BY <1>4, PageDoneType DEF StorePage, OutcomeOK
  <2>3. /\ state' \in State /\ ops' \in Seq(SocketOps)
        /\ waits' \in Seq(Handlers) /\ waits' # <<>> /\ expired' \in BOOLEAN
    BY <1>1, <1>2, <2>1, EnterType
  <2> QED
    BY <1>4, <2>1, <2>2, <2>3 DEF StorePage, OutcomeOK, WaitedFor, setTimeVars
<1>5. CASE FailToStorePage(o)
  <2>1. Enter(answering, "ack", CancelOperations) /\ state' = answering
    BY <1>5 DEF FailToStorePage, AnswerPage, Enter
  <2>2. pagesLeft' \in 0 .. PageCounter - 1
    BY <1>5, PageDoneType DEF FailToStorePage, OutcomeOK
  <2>3. /\ state' \in State /\ ops' \in Seq(SocketOps)
        /\ waits' \in Seq(Handlers) /\ waits' # <<>> /\ expired' \in BOOLEAN
    BY <1>1, <1>2, <1>3, <2>1, EnterType
  <2>4. setTimeTimer' \in [armed : BOOLEAN, fired : BOOLEAN] /\ sockOpen' = FALSE
    BY <1>5 DEF FailToStorePage, CloseSocket, CancelSetTimeTimer, OutcomeOK
  <2> QED
    BY <1>5, <2>1, <2>2, <2>3, <2>4 DEF FailToStorePage, OutcomeOK, WaitedFor
<1>6. CASE RefusePage(o)
  <2>1. transmissionErrors' \in Nat
    BY <1>6 DEF RefusePage, CountTransmissionError, OutcomeOK
  <2>2. CASE transmissionErrors' > MaxPageErrors
    <3>1. Enter("STOPPED", "nak", CancelOperations) /\ CloseSocket
      BY <1>6, <2>2 DEF RefusePage
    <3>2. /\ state' \in State /\ ops' \in Seq(SocketOps)
          /\ waits' \in Seq(Handlers) /\ waits' # <<>> /\ expired' \in BOOLEAN
      BY <1>1, <1>2, <1>3, <3>1, EnterType
    <3>3. setTimeTimer' \in [armed : BOOLEAN, fired : BOOLEAN] /\ sockOpen' = FALSE
      BY <3>1 DEF CloseSocket, CancelSetTimeTimer, OutcomeOK
    <3> QED
      BY <1>6, <2>1, <3>2, <3>3 DEF RefusePage, OutcomeOK, WaitedFor
  <2>3. CASE ~(transmissionErrors' > MaxPageErrors)
    <3>1. /\ Enter(answering, "nak", o) /\ state' = answering
          /\ UNCHANGED <<sockOpen, setTimeTimer>>
      BY <1>6, <2>3 DEF RefusePage, AnswerPage, Enter
    <3>2. /\ state' \in State /\ ops' \in Seq(SocketOps)
          /\ waits' \in Seq(Handlers) /\ waits' # <<>> /\ expired' \in BOOLEAN
      BY <1>1, <1>2, <3>1, EnterType
    <3> QED
      BY <1>6, <2>1, <3>1, <3>2 DEF RefusePage, OutcomeOK, WaitedFor
  <2> QED
    BY <2>2, <2>3
<1> QED
  BY <1>4, <1>5, <1>6 DEF HandlePage

LEMMA AdvanceOutcome ==
    ASSUME OutcomeOK, NEW o \in Seq(SocketOps), AdvanceExchange(o)
    PROVE  OutcomeOK' /\ WaitedFor'
<1> DEFINE Goal == OutcomeOK' /\ WaitedFor'
<1>1. ASSUME NEW s \in State \ {"STOPPED"}, Go(s, o) PROVE Goal
  BY <1>1, GoOutcome
<1>2. state \in State /\ Successor(state) \in State \ {"STOPPED"}
  BY StateTables DEF OutcomeOK
<1>3. ASSUME Stop(o), UNCHANGED transmissionErrors PROVE Goal
  BY <1>3, StopOutcome DEF OutcomeOK
<1>4. ASSUME state # "STOPPED", RetryTransmission(o) PROVE Goal
  BY <1>4, RetryOutcome
<1>5. /\ "SENDING_REQ_MAIN_MODE" \in State \ {"STOPPED"}
      /\ "SENDING_WAKE_UP_ARCHIVE" \in State \ {"STOPPED"}
      /\ "SENDING_WAKE_UP_SETTIME" \in State \ {"STOPPED"}
      /\ "WAITING_ARCHIVE_NB_PAGES" \in State \ {"STOPPED"}
      /\ "SENDING_ACK_ARCHIVE_DOWNLOAD" \in State \ {"STOPPED"}
      /\ "SENDING_ABORT_ARCHIVE_DOWNLOAD" \in State \ {"STOPPED"}
      /\ "WAITING_ARCHIVE_PAGE" \in State \ {"STOPPED"}
  BY DEF State, RetriedStates, UnretriedStates
<1>6. CASE state \in PlainStates /\ Go(Successor(state), o)
  BY <1>1, <1>2, <1>6
<1>7. CASE /\ state \in AckStates
           /\ IF ackBuffer = "ACK" THEN Go(Successor(state), o) ELSE RetryTransmission(o)
  BY <1>1, <1>2, <1>4, <1>7 DEF AckStates
<1>8. CASE /\ state = "WAITING_DATA_STATION"
           /\ IF coordsValid
              THEN \/ Go("SENDING_REQ_MAIN_MODE", o)
                   \/ Stop(o) /\ UNCHANGED transmissionErrors
              ELSE RetryTransmission(o)
  BY <1>1, <1>3, <1>4, <1>5, <1>8
<1>9. CASE /\ state = "WAITING_DATA_TIMEZONE"
           /\ IF coordsValid
              THEN \/ Go("SENDING_WAKE_UP_ARCHIVE", o)
                   \/ Go("SENDING_WAKE_UP_SETTIME", o)
              ELSE RetryTransmission(o)
  BY <1>1, <1>4, <1>5, <1>9
<1>10. CASE /\ state = "WAITING_ACK_ARCHIVE_PARAMS"
            /\ IF ackBuffer = "ACK"
               THEN Go("WAITING_ARCHIVE_NB_PAGES", o)
               ELSE Stop(o) /\ UNCHANGED transmissionErrors
  BY <1>1, <1>3, <1>5, <1>10
<1>11. CASE Go("SENDING_ACK_ARCHIVE_DOWNLOAD", o) \/ Go("SENDING_ABORT_ARCHIVE_DOWNLOAD", o)
            \/ Go("WAITING_ARCHIVE_PAGE", o) \/ Go("SENDING_WAKE_UP_SETTIME", o)
  BY <1>1, <1>5, <1>11
<1>12. CASE HandlePage(o)
  BY <1>12, PageOutcome
<1> QED
  BY <1>6, <1>7, <1>8, <1>9, <1>10, <1>11, <1>12 DEF AdvanceExchange

LEMMA SuccessOutcome ==
    ASSUME OutcomeOK, timeouts \in Nat, NEW o \in Seq(SocketOps), OnSuccess(o)
    PROVE  OutcomeOK' /\ WaitedFor' /\ timeouts' \in Nat
<1>1. CASE AdvanceExchange(o) /\ UNCHANGED timeouts
  BY <1>1, AdvanceOutcome
<1>2. CASE WaitForNextMeasure(o) /\ UNCHANGED setTimeVars
  BY <1>2, NextMeasureOutcome DEF setTimeVars, OutcomeOK
<1>3. CASE FinishSetTime(o)
  BY <1>3, SetTimeOutcome
<1> QED
  BY <1>1, <1>2, <1>3 DEF OnSuccess, EndExchange

LEMMA TimeoutOutcome ==
    ASSUME OutcomeOK, NEW t \in Nat, NEW o \in Seq(SocketOps), OnTimeout(o, t)
    PROVE  OutcomeOK' /\ WaitedFor' /\ timeouts' \in Nat
<1>1. CASE state = "WAITING_NEXT_MEASURE_TICK" /\ timeouts' = t /\ Go("SENDING_WAKE_UP_ARCHIVE", o)
  <2>1. "SENDING_WAKE_UP_ARCHIVE" \in State \ {"STOPPED"}
    BY DEF State, RetriedStates
  <2> QED
    BY <1>1, <2>1, GoOutcome
<1>2. CASE /\ state \in RetriedStates
           /\ CountTimeout(t)
           /\ UNCHANGED transmissionErrors
           /\ IF timeouts' < MaxTimeouts
              THEN /\ state' = Restart(state)
                   /\ FlushSocketAndRetry(Restart(state), o)
                   /\ UNCHANGED <<sockOpen, setTimeVars, pagesLeft, pageStored>>
              ELSE Stop(o)
  <2>1. timeouts' \in Nat /\ transmissionErrors' \in Nat
    BY <1>2 DEF CountTimeout, OutcomeOK
  <2>2. Restart(state) \in RetriedStates /\ Restart(state) \in State \ {"STOPPED"}
    BY StateTables DEF OutcomeOK, State, RetriedStates
  <2>3. CASE timeouts' < MaxTimeouts
    BY <1>2, <2>1, <2>2, <2>3, FlushOutcome
  <2>4. CASE ~(timeouts' < MaxTimeouts)
    BY <1>2, <2>1, <2>4, StopOutcome
  <2> QED
    BY <2>3, <2>4
<1>3. CASE /\ timeouts' = IF state = "WAITING_ACK_MAIN_MODE" THEN t + 1 ELSE t
           /\ Stop(o) /\ UNCHANGED transmissionErrors
  <2>1. timeouts' \in Nat /\ transmissionErrors' \in Nat
    BY <1>3 DEF OutcomeOK
  <2> QED
    BY <1>3, <2>1, StopOutcome
<1>4. CASE FinishSetTime(o)
  BY <1>4, SetTimeOutcome
<1> QED
  BY <1>1, <1>2, <1>3, <1>4 DEF OnTimeout

LEMMA ErrorOutcome ==
    ASSUME OutcomeOK, timeouts \in Nat, NEW o \in Seq(SocketOps), OnError(o)
    PROVE  OutcomeOK' /\ WaitedFor' /\ timeouts' \in Nat
<1>1. CASE Stop(o) /\ UNCHANGED <<timeouts, transmissionErrors>>
  BY <1>1, StopOutcome DEF OutcomeOK
<1>2. CASE WaitForNextMeasure(o) /\ UNCHANGED setTimeVars
  BY <1>2, NextMeasureOutcome DEF setTimeVars, OutcomeOK
<1>3. CASE FinishSetTime(o)
  BY <1>3, SetTimeOutcome
<1> QED
  BY <1>1, <1>2, <1>3 DEF OnError

LEMMA DiscardOutcome ==
    ASSUME OutcomeOK, NEW o \in Seq(SocketOps), NEW w \in Seq(Handlers), NEW t \in Nat,
           Discard(o, w, t)
    PROVE  OutcomeOK' /\ timeouts' \in Nat
BY DEF Discard, OutcomeOK, setTimeVars

-----------------------------------------------------------------------------
(* The handlers                                                             *)

\* The part of TypeOK no outcome touches.
SurroundingsOK ==
    /\ timeouts \in Nat
    /\ ackBuffer \in {"ACK", "OTHER", "NEWLINE"}
    /\ coordsValid \in BOOLEAN
    /\ ready \in Seq(Handlers)
    /\ station \in {"here", "gone"}
    /\ daemon \in {"running", "terminated"}
    /\ noise \in Nat
    /\ commands \in Nat
    /\ stalls \in Nat
    /\ silences \in Nat

LEMMA TypeParts ==
    /\ TypeOK <=> OutcomeOK /\ SurroundingsOK
    /\ TypeOK' <=> OutcomeOK' /\ SurroundingsOK'
BY DEF TypeOK, OutcomeOK, SurroundingsOK, SocketOps

\* An open connector that is stopped has not been started yet.
StoppedIsIdle == state = "STOPPED" /\ sockOpen => ~Alive

LEMMA TakeType ==
    ASSUME TypeOK, NEW i \in DOMAIN ready, Take(i)
    PROVE  ready' \in Seq(Handlers)
BY WithoutOne DEF Take, TypeOK

\* A handler is run while the connector is alive.
LEMMA TakenIsAlive == ASSUME NEW i \in DOMAIN ready PROVE Alive
BY DEF Alive

LEMMA DeadlineStep ==
    ASSUME TypeOK, StoppedIsIdle, NEW i \in DOMAIN ready, RunDeadline(i)
    PROVE  TypeOK' /\ (waits' # <<>> \/ (state' = "STOPPED" /\ ~sockOpen'))
                   /\ (state' = "STOPPED" => ~sockOpen')
<1>1. OutcomeOK /\ SurroundingsOK
  BY TypeParts
<1>2. CancelOperations \in Seq(SocketOps) /\ timeouts + 1 \in Nat
  BY <1>1, CancelType DEF OutcomeOK, SurroundingsOK
<1>3. ready' \in Seq(Handlers)
  BY TakeType DEF RunDeadline
<1>4. state = "STOPPED" => ~sockOpen
  BY TakenIsAlive DEF StoppedIsIdle
<1>5. silences' \in Nat
  BY <1>1 DEF RunDeadline, SurroundingsOK, historyVars
<1>6. CASE expired /\ OnTimeout(CancelOperations, timeouts + 1)
  <2>1. OutcomeOK' /\ WaitedFor' /\ timeouts' \in Nat
    BY <1>1, <1>2, <1>6, TimeoutOutcome
  <2>2. SurroundingsOK'
    BY <1>1, <1>3, <1>5, <2>1 DEF RunDeadline, SurroundingsOK, envVars
  <2> QED
    BY <2>1, <2>2, TypeParts DEF WaitedFor
<1>7. CASE expired /\ Discard(CancelOperations, waits, timeouts + 1)
  <2>1. OutcomeOK' /\ timeouts' \in Nat
    BY <1>1, <1>2, <1>7, DiscardOutcome DEF OutcomeOK
  <2>2. SurroundingsOK'
    BY <1>1, <1>3, <1>5, <2>1 DEF RunDeadline, SurroundingsOK, envVars
  <2>3. state' = "STOPPED" /\ ~sockOpen'
    BY <1>4, <1>7 DEF Discard
  <2> QED
    BY <2>1, <2>2, <2>3, TypeParts
<1>8. CASE ~expired
  <2>1. /\ waits' = Append(waits, Deadline)
        /\ UNCHANGED <<machineVars, sockOpen, pagesLeft, setTimeVars, expired, ops, historyVars>>
    BY <1>8 DEF RunDeadline
  <2>2. waits' \in Seq(Handlers) /\ waits' # <<>>
    BY <1>1, <2>1, HandlersRegistered DEF OutcomeOK
  <2>3. OutcomeOK'
    BY <1>1, <2>1, <2>2 DEF OutcomeOK, machineVars, setTimeVars, historyVars
  <2>4. SurroundingsOK'
    BY <1>1, <1>3, <1>5, <2>1 DEF RunDeadline, SurroundingsOK, envVars, machineVars
  <2> QED
    BY <1>4, <2>1, <2>2, <2>3, <2>4, TypeParts DEF machineVars
<1> QED
  BY <1>6, <1>7, <1>8 DEF RunDeadline

LEMMA FlushStep ==
    ASSUME TypeOK, StoppedIsIdle, NEW i \in DOMAIN ready, RunFlush(i)
    PROVE  TypeOK' /\ (waits' # <<>> \/ ~Running') /\ (state' = "STOPPED" => ~sockOpen')
<1>1. OutcomeOK /\ SurroundingsOK
  BY TypeParts
<1>2. ready' \in Seq(Handlers)
  BY TakeType DEF RunFlush
<1>3. ready[i].to \in State \ {"STOPPED"}
  <2>1. ready[i] \in Handlers /\ ready[i].type = "flush"
    BY <1>1 DEF RunFlush, SurroundingsOK
  <2>2. PICK s \in RetriedStates : ready[i] = Flush(s)
    BY <2>1 DEF Handlers, Deadline, IO
  <2>3. ready[i].to = s
    BY <2>2 DEF Flush
  <2> QED
    BY <2>3 DEF State, RetriedStates
<1>4. CASE sockOpen
  <2>1. Go(ready[i].to, ops) /\ UNCHANGED <<timeouts, daemon>>
    BY <1>4 DEF RunFlush
  <2>2. OutcomeOK' /\ WaitedFor'
    BY <1>1, <1>3, <2>1, GoOutcome DEF OutcomeOK
  <2>3. state' # "STOPPED"
    BY <1>3, <2>1 DEF Go, Enter
  <2>4. SurroundingsOK'
    BY <1>1, <1>2, <2>1 DEF RunFlush, SurroundingsOK, envVars
  <2> QED
    BY <2>2, <2>3, <2>4, TypeParts DEF WaitedFor
<1>5. CASE ~sockOpen
  <2>1. /\ daemon' = "terminated"
        /\ UNCHANGED <<machineVars, sockOpen, setTimeVars, pagesLeft, expired, waits,
                       ops, pageStored, sent>>
    BY <1>5 DEF RunFlush
  <2>2. OutcomeOK'
    BY <1>1, <2>1 DEF OutcomeOK, machineVars, setTimeVars
  <2>3. SurroundingsOK'
    BY <1>1, <1>2, <2>1 DEF RunFlush, SurroundingsOK, envVars, machineVars
  <2> QED
    BY <1>5, <2>1, <2>2, <2>3, TypeParts DEF Running
<1> QED
  BY <1>4, <1>5

LEMMA IOStep ==
    ASSUME TypeOK, StoppedIsIdle, NEW i \in DOMAIN ready, RunIO(i)
    PROVE  TypeOK' /\ (waits' # <<>> \/ (state' = "STOPPED" /\ ~sockOpen'))
                   /\ (state' = "STOPPED" => ~sockOpen')
<1>1. OutcomeOK /\ SurroundingsOK
  BY TypeParts
<1>2. ready' \in Seq(Handlers)
  BY TakeType DEF RunIO
<1>3. state = "STOPPED" => ~sockOpen
  BY TakenIsAlive DEF StoppedIsIdle
<1>4. silences' \in Nat
  BY <1>1 DEF RunIO, SurroundingsOK
<1>5. ASSUME OutcomeOK', timeouts' \in Nat PROVE TypeOK'
  <2>1. SurroundingsOK'
    BY <1>1, <1>2, <1>4, <1>5 DEF RunIO, SurroundingsOK, envVars
  <2> QED
    BY <1>5, <2>1, TypeParts
<1>6. CASE ReceiveAckAgain
  <2>1. /\ ops' = Append(ops, "ackByte") /\ waits' = <<Deadline>> /\ expired' = FALSE
        /\ UNCHANGED <<machineVars, sockOpen, setTimeVars, pagesLeft, pageStored, sent>>
    BY <1>6 DEF ReceiveAckAgain, Arm
  <2>2. ops' \in Seq(SocketOps)
    BY <1>1, <2>1 DEF OutcomeOK, SocketOps, Answers
  <2>3. waits' \in Seq(Handlers) /\ waits' # <<>>
    BY <2>1, HandlersRegistered, ShortSequences
  <2>4. OutcomeOK' /\ timeouts' \in Nat
    BY <1>1, <2>1, <2>2, <2>3 DEF OutcomeOK, SurroundingsOK, machineVars, setTimeVars
  <2> QED
    BY <1>3, <1>5, <2>1, <2>3, <2>4 DEF machineVars
<1>7. CASE OnSuccess(ops) \/ OnError(ops)
  <2>1. OutcomeOK' /\ WaitedFor' /\ timeouts' \in Nat
    BY <1>1, <1>7, SuccessOutcome, ErrorOutcome DEF OutcomeOK, SurroundingsOK
  <2> QED
    BY <1>5, <2>1 DEF WaitedFor
<1>8. CASE Discard(ops, <<>>, timeouts)
  <2>0. <<>> \in Seq(Handlers) /\ ops \in Seq(SocketOps) /\ timeouts \in Nat
    BY <1>1 DEF OutcomeOK, SurroundingsOK
  <2>1. OutcomeOK' /\ timeouts' \in Nat
    BY <1>1, <1>8, <2>0, DiscardOutcome
  <2>2. state' = "STOPPED" /\ ~sockOpen'
    BY <1>3, <1>8 DEF Discard
  <2> QED
    BY <1>5, <2>1, <2>2
<1> QED
  BY <1>6, <1>7, <1>8 DEF RunIO, HandleIO

-----------------------------------------------------------------------------
(* The calls and the environment                                            *)

\* A step that keeps the waits, the state and the socket.
Calm == UNCHANGED <<state, sockOpen, waits, daemon>>

LEMMA StartStep ==
    ASSUME TypeOK, Start
    PROVE  TypeOK' /\ WaitedFor'
<1>1. OutcomeOK /\ SurroundingsOK
  BY TypeParts
<1>2. "SENDING_WAKE_UP_STATION" \in State \ {"STOPPED"} /\ ops \in Seq(SocketOps)
  BY <1>1 DEF State, RetriedStates, OutcomeOK
<1>3. OutcomeOK' /\ WaitedFor'
  BY <1>1, <1>2, GoOutcome DEF Start
<1>4. SurroundingsOK'
  BY <1>1 DEF Start, SurroundingsOK, envVars
<1> QED
  BY <1>3, <1>4, TypeParts

LEMMA ControlStartStep ==
    ASSUME TypeOK, ControlStart
    PROVE  TypeOK' /\ (state' = "STOPPED" => ~sockOpen') /\ (waits' # <<>> \/ ~Running')
<1>1. OutcomeOK /\ SurroundingsOK
  BY TypeParts
<1>2. "SENDING_WAKE_UP_STATION" \in State \ {"STOPPED"} /\ ops \in Seq(SocketOps)
  BY <1>1 DEF State, RetriedStates, OutcomeOK
<1>3. commands' \in Nat /\ daemon' \in {"running", "terminated"}
  BY <1>1 DEF ControlStart, Command, SurroundingsOK
<1>4. SurroundingsOK'
  BY <1>1, <1>3 DEF ControlStart, SurroundingsOK
<1>5. CASE sockOpen
  <2>1. Go("SENDING_WAKE_UP_STATION", ops)
    BY <1>5 DEF ControlStart
  <2>2. OutcomeOK' /\ WaitedFor' /\ state' # "STOPPED"
    BY <1>1, <1>2, <2>1, GoOutcome DEF Go, Enter
  <2> QED
    BY <1>4, <2>2, TypeParts DEF WaitedFor
<1>6. CASE ~sockOpen
  <2>1. /\ daemon' = "terminated"
        /\ UNCHANGED <<state, transmissionErrors, sockOpen, setTimeVars, pagesLeft, expired,
                       waits, ops, pageStored, sent>>
    BY <1>6 DEF ControlStart
  <2>2. OutcomeOK'
    BY <1>1, <2>1 DEF OutcomeOK, setTimeVars
  <2> QED
    BY <1>4, <1>6, <2>1, <2>2, TypeParts DEF Running
<1> QED
  BY <1>5, <1>6

LEMMA ReloadStep ==
    ASSUME TypeOK, Reload
    PROVE  TypeOK' /\ waits' # <<>> /\ UNCHANGED <<state, sockOpen>>
<1>1. OutcomeOK /\ SurroundingsOK
  BY TypeParts
<1>2. /\ waits' = <<Flush("SENDING_WAKE_UP_STATION")>> /\ expired' = FALSE /\ ops' = ops
      /\ sent' = "none"
  BY DEF Reload, FlushSocketAndRetry, Arm
<1>3. waits' \in Seq(Handlers) /\ waits' # <<>>
  BY <1>2, HandlersRegistered, ShortSequences DEF RetriedStates
<1>4. OutcomeOK'
  BY <1>1, <1>2, <1>3 DEF Reload, OutcomeOK, machineVars, bufferVars, CancelSetTimeTimer
<1>5. SurroundingsOK'
  BY <1>1 DEF Reload, Command, SurroundingsOK, machineVars, bufferVars
<1> QED
  BY <1>3, <1>4, <1>5, TypeParts DEF Reload, machineVars

LEMMA ControlStopStep ==
    ASSUME TypeOK, ControlStop
    PROVE  TypeOK' /\ WaitedFor'
<1>1. OutcomeOK /\ SurroundingsOK
  BY TypeParts
<1>2. OutcomeOK' /\ WaitedFor'
  BY <1>1, StopOutcome DEF ControlStop, OutcomeOK
<1>3. SurroundingsOK'
  BY <1>1 DEF ControlStop, SurroundingsOK, envVars
<1> QED
  BY <1>2, <1>3, TypeParts

LEMMA TimeStep ==
    ASSUME TypeOK, DeadlinePasses \/ SetTimeTimerExpires \/ RunSetTimeDeadline \/ StationLeaves
    PROVE  TypeOK' /\ Calm /\ UNCHANGED <<ops, ready>>
<1>1. OutcomeOK /\ SurroundingsOK
  BY TypeParts
<1>2. CASE DeadlinePasses
  BY <1>1, <1>2, TypeParts DEF DeadlinePasses, Stall, OutcomeOK, SurroundingsOK, Calm,
     machineVars, bufferVars, setTimeVars, historyVars
<1>3. CASE SetTimeTimerExpires
  BY <1>1, <1>3, TypeParts DEF SetTimeTimerExpires, OutcomeOK, SurroundingsOK, Calm,
     machineVars, bufferVars, asioVars, envVars, historyVars
<1>4. CASE RunSetTimeDeadline
  BY <1>1, <1>4, TypeParts DEF RunSetTimeDeadline, OutcomeOK, SurroundingsOK, Calm,
     machineVars, bufferVars, asioVars, envVars, historyVars
<1>5. CASE StationLeaves
  BY <1>1, <1>5, TypeParts DEF StationLeaves, OutcomeOK, SurroundingsOK, Calm,
     machineVars, bufferVars, setTimeVars, asioVars, historyVars
<1> QED
  BY <1>2, <1>3, <1>4, <1>5

LEMMA TimerStep ==
    ASSUME TypeOK, TimerFires
    PROVE  TypeOK' /\ ready' # <<>> /\ waits # <<>> /\ UNCHANGED <<state, sockOpen>>
<1>1. OutcomeOK /\ SurroundingsOK
  BY TypeParts
<1>2. waits' = <<>> /\ ready' = ready \o waits /\ waits # <<>>
  BY DEF TimerFires
<1>3. /\ waits' \in Seq(Handlers)
      /\ ready' \in Seq(Handlers)
      /\ ready' # <<>>
  BY <1>1, <1>2 DEF OutcomeOK, SurroundingsOK
<1>4. OutcomeOK' /\ SurroundingsOK'
  BY <1>1, <1>3 DEF TimerFires, OutcomeOK, SurroundingsOK, machineVars, bufferVars,
     setTimeVars, envVars, historyVars
<1> QED
  BY <1>2, <1>3, <1>4, TypeParts DEF TimerFires, machineVars

\* An operation that completes leaves the socket and queues its handler.
LEMMA CompleteStep ==
    ASSUME OutcomeOK, SurroundingsOK, NEW i \in DOMAIN ops, NEW ok \in BOOLEAN, Complete(i, ok)
    PROVE  /\ ops' \in Seq(SocketOps)
           /\ ready' \in Seq(Handlers) /\ ready' # <<>>
           /\ Calm
           /\ UNCHANGED <<machineVars, setTimeVars, expired, pageStored, silences>>
<1>1. ops' \in Seq(SocketOps) /\ ops[i] \in SocketOps
  BY WithoutOne DEF Complete, OutcomeOK
<1>2. IO(ops[i], ok) \in Handlers
  BY <1>1, HandlersRegistered
<1>3. ready' \in Seq(Handlers) /\ ready' # <<>>
  <2> DEFINE h == IO(ops[i], ok)
  <2>1. ready' = Append(ready, h) /\ ready \in Seq(Handlers)
    BY DEF Complete, SurroundingsOK
  <2>2. h \in Handlers
    BY <1>2
  <2> HIDE DEF h
  <2> QED
    BY <2>1, <2>2
<1> QED
  BY <1>1, <1>3 DEF Complete, Calm, machineVars

LEMMA StallType == ASSUME stalls \in Nat, NEW c, Stall(c) PROVE stalls' \in Nat
BY DEF Stall

LEMMA WriteStep ==
    ASSUME TypeOK, WriteCompletes
    PROVE  TypeOK' /\ Calm /\ ready' # <<>> /\ ops # <<>>
<1>1. OutcomeOK /\ SurroundingsOK
  BY TypeParts
<1>2. PICK i \in DOMAIN ops : Oldest(i, Requests) /\ Complete(i, TRUE) /\ sent' = ops[i]
  BY DEF WriteCompletes
<1>3. sent' \in Requests
  BY <1>2 DEF Oldest
<1>4. stalls' \in Nat
  BY <1>1, StallType DEF WriteCompletes, SurroundingsOK
<1>5. /\ ops' \in Seq(SocketOps) /\ ready' \in Seq(Handlers) /\ ready' # <<>> /\ Calm
      /\ UNCHANGED <<machineVars, setTimeVars, expired, pageStored, silences>>
  BY <1>1, <1>2, CompleteStep
<1>6. OutcomeOK' /\ SurroundingsOK'
  BY <1>1, <1>3, <1>4, <1>5 DEF WriteCompletes, OutcomeOK, SurroundingsOK, Calm,
     machineVars, bufferVars, setTimeVars
<1> QED
  BY <1>2, <1>5, <1>6, TypeParts

LEMMA ReadStep ==
    ASSUME TypeOK, ReadCompletes
    PROVE  TypeOK' /\ Calm /\ ready' # <<>> /\ ops # <<>>
<1>1. OutcomeOK /\ SurroundingsOK
  BY TypeParts
<1>2. PICK i \in DOMAIN ops : Complete(i, TRUE) /\ Fill(ops[i])
  BY DEF ReadCompletes
<1>3. /\ ackBuffer' \in {"ACK", "OTHER", "NEWLINE"} /\ noise' \in Nat
      /\ coordsValid' \in BOOLEAN /\ pagesLeft' \in 0 .. PageCounter - 1
  BY <1>1, <1>2, ConstantsAssumption DEF Fill, OutcomeOK, SurroundingsOK, ConstantsAssumption
<1>4. stalls' \in Nat
  BY <1>1, StallType DEF ReadCompletes, SurroundingsOK
<1>5. /\ ops' \in Seq(SocketOps) /\ ready' \in Seq(Handlers) /\ ready' # <<>> /\ Calm
      /\ UNCHANGED <<machineVars, setTimeVars, expired, pageStored, silences>>
  BY <1>1, <1>2, CompleteStep
<1>6. OutcomeOK' /\ SurroundingsOK'
  BY <1>1, <1>3, <1>4, <1>5 DEF ReadCompletes, OutcomeOK, SurroundingsOK, Calm,
     machineVars, setTimeVars
<1> QED
  BY <1>2, <1>5, <1>6, TypeParts

LEMMA FailStep ==
    ASSUME TypeOK, OperationFails
    PROVE  TypeOK' /\ Calm /\ ready' # <<>> /\ ops # <<>>
<1>1. OutcomeOK /\ SurroundingsOK
  BY TypeParts
<1>2. PICK i \in DOMAIN ops : Complete(i, FALSE)
  BY DEF OperationFails
<1>3. stalls' \in Nat
  BY <1>1, StallType DEF OperationFails, SurroundingsOK
<1>4. /\ ops' \in Seq(SocketOps) /\ ready' \in Seq(Handlers) /\ ready' # <<>> /\ Calm
      /\ UNCHANGED <<machineVars, setTimeVars, expired, pageStored, silences>>
  BY <1>1, <1>2, CompleteStep
<1>5. OutcomeOK' /\ SurroundingsOK'
  BY <1>1, <1>3, <1>4 DEF OperationFails, OutcomeOK, SurroundingsOK, Calm,
     machineVars, bufferVars, setTimeVars
<1> QED
  BY <1>2, <1>4, <1>5, TypeParts

-----------------------------------------------------------------------------
(* The theorems                                                             *)

\* The inductive invariant.  Without StoppedIsIdle, a handler run in STOPPED
\* could leave an operation of an open socket with no timer behind it.
IInv == TypeOK /\ StoppedIsIdle /\ NeverForgotten

LEMMA Inductive == IInv /\ [Next]_vars => IInv'
<1> SUFFICES ASSUME IInv, [Next]_vars PROVE IInv'
  OBVIOUS
<1> USE DEF IInv
<1>1. CASE Start
  BY <1>1, StartStep DEF WaitedFor, StoppedIsIdle, NeverForgotten
<1>2. CASE Reload
  BY <1>2, ReloadStep DEF Reload, StoppedIsIdle, NeverForgotten
<1>3. CASE ControlStop
  BY <1>3, ControlStopStep DEF WaitedFor, StoppedIsIdle, NeverForgotten
<1>13. CASE ControlStart
  BY <1>13, ControlStartStep DEF StoppedIsIdle, NeverForgotten
<1>4. ASSUME NEW i \in DOMAIN ready, RunDeadline(i) PROVE IInv'
  BY <1>4, DeadlineStep DEF StoppedIsIdle, NeverForgotten
<1>5. ASSUME NEW i \in DOMAIN ready, RunFlush(i) PROVE IInv'
  BY <1>5, FlushStep DEF StoppedIsIdle, NeverForgotten
<1>6. ASSUME NEW i \in DOMAIN ready, RunIO(i) PROVE IInv'
  BY <1>6, IOStep DEF StoppedIsIdle, NeverForgotten
<1>7. CASE DeadlinePasses \/ SetTimeTimerExpires \/ RunSetTimeDeadline \/ StationLeaves
  <2>1. TypeOK' /\ Calm /\ UNCHANGED <<ops, ready>>
    BY <1>7, TimeStep
  <2>2. state = "STOPPED" /\ sockOpen => ~setTimeTimer.armed /\ ~setTimeTimer.fired
    BY DEF StoppedIsIdle, Alive
  <2>3. (state = "STOPPED" /\ sockOpen) => UNCHANGED setTimeTimer
    BY <1>7, <2>2 DEF DeadlinePasses, SetTimeTimerExpires, RunSetTimeDeadline, StationLeaves,
       setTimeVars
  <2> QED
    BY <2>1, <2>3 DEF Calm, StoppedIsIdle, Alive, NeverForgotten, Running
<1>8. CASE TimerFires
  BY <1>8, TimerStep DEF StoppedIsIdle, Alive, NeverForgotten
<1>9. CASE WriteCompletes
  BY <1>9, WriteStep DEF StoppedIsIdle, Alive, NeverForgotten, Calm
<1>10. CASE ReadCompletes
  BY <1>10, ReadStep DEF StoppedIsIdle, Alive, NeverForgotten, Calm
<1>11. CASE OperationFails
  BY <1>11, FailStep DEF StoppedIsIdle, Alive, NeverForgotten, Calm
<1>12. CASE UNCHANGED vars
  BY <1>12 DEF vars, machineVars, bufferVars, setTimeVars, asioVars, envVars, historyVars,
     TypeOK, StoppedIsIdle, Alive, NeverForgotten, Running
<1> QED
  BY <1>1, <1>2, <1>3, <1>4, <1>5, <1>6, <1>7, <1>8, <1>9, <1>10, <1>11, <1>12,
     <1>13 DEF Next

LEMMA Initial == Init => IInv
<1> SUFFICES ASSUME Init PROVE IInv
  OBVIOUS
<1>1. TypeOK
  <2>1. 0 \in 0 .. PageCounter - 1
    BY ConstantsAssumption DEF ConstantsAssumption
  <2>2. /\ waits \in Seq(Handlers) /\ ready \in Seq(Handlers)
        /\ ops \in Seq(Requests \cup Answers)
    BY DEF Init
  <2>3. setTimeTimer \in [armed : BOOLEAN, fired : BOOLEAN]
    BY DEF Init
  <2> QED
    BY <2>1, <2>2, <2>3 DEF Init, TypeOK, State
<1>2. ~Alive
  BY DEF Init, Alive
<1> QED
  BY <1>1, <1>2 DEF Init, IInv, StoppedIsIdle, NeverForgotten

LEMMA AlwaysIInv == Spec => []IInv
BY Initial, Inductive, PTL DEF Spec

\* Every variable keeps its type; the counter of pages stays 16 bits wide.
THEOREM TypeCorrect == Spec => []TypeOK
<1>1. IInv => TypeOK
  BY DEF IInv
<1> QED
  BY <1>1, AlwaysIInv, PTL

\* However silent the station, and under commands, stops and stalls, a
\* connector that is not stopped is always waited for by a timer.
THEOREM AlwaysWaitedFor == Spec => []NeverForgotten
<1>1. IInv => NeverForgotten
  BY DEF IInv
<1> QED
  BY <1>1, AlwaysIInv, PTL

-----------------------------------------------------------------------------
(* One exchange at a time.  While its operator leaves the connector alone   *)
(* and the event loop is held up at most once, with a single worker, the    *)
(* connector and the station talk in turn.  (Held up twice, the flush of a  *)
(* late answer may start a second operation.)                               *)

Undisturbed == commands = 0 /\ stalls <= 1

IsIO(h) == h.type = "io"
IsFlush(h) == h.type = "flush"
NoIO == \A k \in DOMAIN ready : ~IsIO(ready[k])
NoFlush == \A k \in DOMAIN ready : ~IsFlush(ready[k])

\* The operation a state has started.
Suits(op, s) ==
    IF s = "SENDING_ARCHIVE_PAGE_ANSWER" THEN op \in {"ack", "nak"} ELSE op = Operation(s)

\* The exchange is restarted at s when the flush is over.
Flushing(s) == sockOpen /\ state \in RetriedStates /\ s = Restart(state)

\* The operation under way, or the completion of it that is queued.
OneOperation ==
    /\ Len(ops) <= 1
    /\ ops # <<>> => NoIO
    /\ \A j, k \in DOMAIN ready : IsIO(ready[j]) /\ IsIO(ready[k]) => j = k
    /\ \A k \in DOMAIN waits : ~IsIO(waits[k])

\* A flush is waited for, then run, before anything else is started.
FlushQueued ==
    \A k \in DOMAIN ready : IsFlush(ready[k]) =>
        k = 1 /\ ops = <<>> /\ NoIO /\ Flushing(ready[k].to)
FlushWaiting ==
    \A k \in DOMAIN waits : IsFlush(waits[k]) =>
        /\ k = 1 /\ ops = <<>> /\ NoFlush /\ Flushing(waits[k].to)
        /\ NoIO \/ (stalls = 1 /\ ~expired)

\* An answer queued behind a deadline that is over: the loop was held up.
LateAnswer ==
    \A j, k \in DOMAIN ready :
        expired /\ ready[j] = Deadline /\ IsIO(ready[k]) /\ j < k => stalls >= 1

\* Nor does a tick find an answer queued.
RestsAlone ==
    state = "WAITING_NEXT_MEASURE_TICK" =>
        /\ ops # <<>> \/ ~NoIO => stalls = 1
        /\ \A j, k \in DOMAIN ready : ready[j] = Deadline /\ IsIO(ready[k]) /\ j < k => ~expired

\* A socket is closed, before the connector stops, only by a page that could
\* not be stored, and the answer to that page fails.
ClosedAnswers ==
    ~sockOpen /\ state # "STOPPED" =>
        /\ state = "SENDING_ARCHIVE_PAGE_ANSWER"
        /\ \A k \in DOMAIN ready : IsIO(ready[k]) => ~ready[k].ok

\* An operation on a closed socket fails before its deadline passes.
ClosedFailsFirst == ~sockOpen /\ ops # <<>> => ~expired

\* (A late newline makes any state read an acknowledgement again.)
OperationSuits ==
    state # "STOPPED" /\ ops # <<>> => Suits(ops[1], state) \/ ops[1] = "ackByte"

Exchange ==
    /\ OneOperation /\ FlushQueued /\ FlushWaiting /\ LateAnswer /\ RestsAlone
    /\ ClosedAnswers /\ ClosedFailsFirst /\ OperationSuits
    /\ PagesExpected /\ AckOnlyStoredPages /\ Running

\* What the outcome of a handler decides of it.
Tidy ==
    /\ Len(ops) <= 1
    /\ \/ waits = <<>> \/ waits = <<Deadline>>
       \/ ops = <<>> /\ \E s \in RetriedStates : waits = <<Flush(s)>> /\ Flushing(s)
    /\ state = "WAITING_NEXT_MEASURE_TICK" => ops = <<>> \/ stalls = 1
    /\ ~sockOpen /\ state # "STOPPED" => state = "SENDING_ARCHIVE_PAGE_ANSWER"
    /\ ClosedFailsFirst /\ OperationSuits /\ PagesExpected /\ AckOnlyStoredPages

LEMMA GoTidy ==
    ASSUME NEW s \in State \ {"STOPPED", "SENDING_ARCHIVE_PAGE_ANSWER", "WAITING_NEXT_MEASURE_TICK"},
           sockOpen, s = "WAITING_ARCHIVE_PAGE" => pagesLeft > 0, Go(s, <<>>)
    PROVE  Tidy'
<1>1. /\ state' = s /\ ops' = <<Operation(s)>> /\ waits' = <<Deadline>>
      /\ UNCHANGED <<sockOpen, pagesLeft>>
  BY DEF Go, Enter, Arm
<1>2. Len(ops') = 1 /\ ops'[1] = Operation(s)
  BY <1>1
<1>3. Suits(ops'[1], s)
  BY <1>2 DEF Suits
<1> QED
  BY <1>1, <1>2, <1>3 DEF Tidy, ClosedFailsFirst, OperationSuits, PagesExpected, AckOnlyStoredPages, Suits

LEMMA StopTidy ==
    ASSUME Stop(<<>>)
    PROVE  Tidy'
<1>1. state' = "STOPPED" /\ waits' = <<>> /\ ops' = <<>>
  BY DEF Stop
<1> QED
  BY <1>1 DEF Tidy, ClosedFailsFirst, OperationSuits, PagesExpected, AckOnlyStoredPages

LEMMA NextMeasureTidy ==
    ASSUME sockOpen, WaitForNextMeasure(<<>>)
    PROVE  Tidy'
<1>1. ops' = <<>> /\ waits' = <<Deadline>> /\ state' = "WAITING_NEXT_MEASURE_TICK" /\ sockOpen'
  BY DEF WaitForNextMeasure, Arm
<1> QED
  BY <1>1 DEF Tidy, ClosedFailsFirst, OperationSuits, PagesExpected, AckOnlyStoredPages

\* Restarting a step that is restarted already changes nothing.
LEMMA RestartTwice == ASSUME NEW s \in RetriedStates PROVE Restart(Restart(s)) = Restart(s)
BY DEF Restart, RetriedStates

LEMMA FlushTidy ==
    ASSUME sockOpen, state \in RetriedStates, state' \in {state, Restart(state)},
           FlushSocketAndRetry(Restart(state), <<>>), UNCHANGED sockOpen
    PROVE  Tidy'
<1>1. PICK s \in RetriedStates : s = Restart(state)
  BY StateTables DEF State
<1>2. waits' = <<Flush(s)>> /\ ops' = <<>>
  BY <1>1 DEF FlushSocketAndRetry, Arm
<1>3. state' \in RetriedStates /\ s = Restart(state')
  BY <1>1, RestartTwice
<1>4. Flushing(s)'
  BY <1>3 DEF Flushing
<1>5. state' \notin {"WAITING_NEXT_MEASURE_TICK", "STOPPED", "WAITING_ARCHIVE_PAGE",
                     "SENDING_ARCHIVE_PAGE_ANSWER"}
  BY <1>3 DEF RetriedStates
<1> QED
  BY <1>2, <1>4, <1>5 DEF Tidy, ClosedFailsFirst, OperationSuits, PagesExpected, AckOnlyStoredPages

\* What becomes of an archive page.
LEMMA PageTidy ==
    ASSUME sockOpen, HandlePage(<<>>)
    PROVE  Tidy'
<1> DEFINE answering == "SENDING_ARCHIVE_PAGE_ANSWER"
<1>0. CancelOperations = <<>>
  BY DEF CancelOperations
<1>1. CASE StorePage(<<>>)
  <2>1. state' = answering /\ ops' = <<"ack">> /\ waits' = <<Deadline>> /\ pageStored'
        /\ sockOpen'
    BY <1>1 DEF StorePage, AnswerPage, Enter, Arm
  <2> QED
    BY <2>1 DEF Tidy, ClosedFailsFirst, OperationSuits, Suits, PagesExpected, AckOnlyStoredPages
<1>2. CASE FailToStorePage(<<>>)
  <2>1. state' = answering /\ ops' = <<"ack">> /\ waits' = <<Deadline>> /\ ~sockOpen' /\ ~expired'
    BY <1>0, <1>2 DEF FailToStorePage, AnswerPage, Enter, Arm, CloseSocket
  <2> QED
    BY <2>1 DEF Tidy, ClosedFailsFirst, OperationSuits, Suits, PagesExpected, AckOnlyStoredPages
<1>3. CASE RefusePage(<<>>)
  <2>1. CASE Enter("STOPPED", "nak", CancelOperations)
    <3>1. state' = "STOPPED" /\ ops' = <<"nak">> /\ waits' = <<Deadline>> /\ ~expired'
      BY <1>0, <2>1 DEF Enter, Arm
    <3> QED
      BY <3>1 DEF Tidy, ClosedFailsFirst, OperationSuits, Suits, PagesExpected, AckOnlyStoredPages
  <2>2. CASE Enter(answering, "nak", <<>>) /\ UNCHANGED sockOpen
    <3>1. state' = answering /\ ops' = <<"nak">> /\ waits' = <<Deadline>> /\ sockOpen'
      BY <2>2 DEF Enter, Arm
    <3> QED
      BY <3>1 DEF Tidy, ClosedFailsFirst, OperationSuits, Suits, PagesExpected, AckOnlyStoredPages
  <2> QED
    BY <1>3, <2>1, <2>2 DEF RefusePage, AnswerPage
<1> QED
  BY <1>1, <1>2, <1>3 DEF HandlePage

LEMMA RetryTidy ==
    ASSUME sockOpen, state \in RetriedStates, RetryTransmission(<<>>)
    PROVE  Tidy'
<1>1. CASE transmissionErrors' < MaxTransmissionErrors
  <2>1. FlushSocketAndRetry(Restart(state), <<>>) /\ UNCHANGED <<state, sockOpen>>
    BY <1>1 DEF RetryTransmission
  <2> QED
    BY <2>1, FlushTidy
<1>2. CASE ~(transmissionErrors' < MaxTransmissionErrors)
  BY <1>2, StopTidy DEF RetryTransmission
<1> QED
  BY <1>1, <1>2

\* The states reached by Go.
GoingStates ==
    State \ {"STOPPED", "SENDING_ARCHIVE_PAGE_ANSWER", "WAITING_NEXT_MEASURE_TICK"}

LEMMA AdvanceTidy ==
    ASSUME TypeOK, sockOpen, AdvanceExchange(<<>>)
    PROVE  Tidy'
<1>1. ASSUME NEW s \in GoingStates, s = "WAITING_ARCHIVE_PAGE" => pagesLeft > 0, Go(s, <<>>)
      PROVE  Tidy'
  BY <1>1, GoTidy DEF GoingStates
<1>2. ASSUME Stop(<<>>) PROVE Tidy'
  BY <1>2, StopTidy
<1>3. ASSUME state \in RetriedStates, RetryTransmission(<<>>) PROVE Tidy'
  BY <1>3, RetryTidy
<1>4. ASSUME state \in PlainStates \cup AckStates
      PROVE  Successor(state) \in GoingStates \ {"WAITING_ARCHIVE_PAGE"}
  BY <1>4 DEF PlainStates, AckStates, Successor, GoingStates, State, RetriedStates, UnretriedStates
<1>5. /\ "SENDING_REQ_MAIN_MODE" \in GoingStates
      /\ "SENDING_WAKE_UP_ARCHIVE" \in GoingStates
      /\ "SENDING_WAKE_UP_SETTIME" \in GoingStates
      /\ "WAITING_ARCHIVE_NB_PAGES" \in GoingStates
      /\ "SENDING_ACK_ARCHIVE_DOWNLOAD" \in GoingStates
      /\ "SENDING_ABORT_ARCHIVE_DOWNLOAD" \in GoingStates
      /\ "WAITING_ARCHIVE_PAGE" \in GoingStates
  BY DEF GoingStates, State, RetriedStates, UnretriedStates
<1>6. CASE state \in PlainStates /\ Go(Successor(state), <<>>)
  BY <1>1, <1>4, <1>6
<1>7. CASE /\ state \in AckStates
           /\ IF ackBuffer = "ACK" THEN Go(Successor(state), <<>>) ELSE RetryTransmission(<<>>)
  <2>1. state \in RetriedStates
    BY <1>7 DEF AckStates, RetriedStates
  <2> QED
    BY <1>1, <1>3, <1>4, <1>7, <2>1
<1>8. CASE /\ state = "WAITING_DATA_STATION"
           /\ IF coordsValid
              THEN \/ Go("SENDING_REQ_MAIN_MODE", <<>>)
                   \/ Stop(<<>>) /\ UNCHANGED transmissionErrors
              ELSE RetryTransmission(<<>>)
  BY <1>1, <1>2, <1>3, <1>5, <1>8 DEF RetriedStates
<1>9. CASE /\ state = "WAITING_DATA_TIMEZONE"
           /\ IF coordsValid
              THEN \/ Go("SENDING_WAKE_UP_ARCHIVE", <<>>)
                   \/ Go("SENDING_WAKE_UP_SETTIME", <<>>)
              ELSE RetryTransmission(<<>>)
  BY <1>1, <1>3, <1>5, <1>9 DEF RetriedStates
<1>10. CASE /\ state = "WAITING_ACK_ARCHIVE_PARAMS"
            /\ IF ackBuffer = "ACK"
               THEN Go("WAITING_ARCHIVE_NB_PAGES", <<>>)
               ELSE Stop(<<>>) /\ UNCHANGED transmissionErrors
  BY <1>1, <1>2, <1>5, <1>10
<1>11. CASE Go("SENDING_ACK_ARCHIVE_DOWNLOAD", <<>>) \/ Go("SENDING_ABORT_ARCHIVE_DOWNLOAD", <<>>)
            \/ Go("SENDING_WAKE_UP_SETTIME", <<>>)
  BY <1>1, <1>5, <1>11
<1>12. CASE MorePages /\ Go("WAITING_ARCHIVE_PAGE", <<>>)
  BY <1>1, <1>5, <1>12 DEF MorePages
<1>13. CASE HandlePage(<<>>)
  BY <1>13, PageTidy
<1> QED
  BY <1>6, <1>7, <1>8, <1>9, <1>10, <1>11, <1>12, <1>13 DEF AdvanceExchange

\* The outcomes of the three kinds of event.
LEMMA SuccessTidy ==
    ASSUME TypeOK, sockOpen, OnSuccess(<<>>)
    PROVE  Tidy'
<1>1. CASE AdvanceExchange(<<>>)
  BY <1>1, AdvanceTidy
<1>2. CASE WaitForNextMeasure(<<>>)
  BY <1>2, NextMeasureTidy
<1> QED
  BY <1>1, <1>2 DEF OnSuccess, EndExchange, FinishSetTime

LEMMA ErrorTidy ==
    ASSUME OnError(<<>>), ~sockOpen => state \in {"STOPPED", "SENDING_ARCHIVE_PAGE_ANSWER"}
    PROVE  Tidy'
<1>1. CASE Stop(<<>>)
  BY <1>1, StopTidy
<1>2. CASE WaitForNextMeasure(<<>>) /\ state \in {"WAITING_NEXT_MEASURE_TICK", "WAITING_ACK_TIME_SET"}
  BY <1>2, NextMeasureTidy
<1> QED
  BY <1>1, <1>2 DEF OnError, FinishSetTime

LEMMA TimeoutTidy ==
    ASSUME NEW t, OnTimeout(<<>>, t),
           ~sockOpen => state \in {"STOPPED", "SENDING_ARCHIVE_PAGE_ANSWER"}
    PROVE  Tidy'
<1>1. ASSUME Stop(<<>>) PROVE Tidy'
  BY <1>1, StopTidy
<1>2. CASE state = "WAITING_NEXT_MEASURE_TICK" /\ Go("SENDING_WAKE_UP_ARCHIVE", <<>>)
  <2>1. "SENDING_WAKE_UP_ARCHIVE" \in GoingStates
    BY DEF GoingStates, State, RetriedStates
  <2> QED
    BY <1>2, <2>1, GoTidy DEF GoingStates
<1>3. CASE /\ state \in RetriedStates
           /\ state' = Restart(state)
           /\ FlushSocketAndRetry(Restart(state), <<>>)
           /\ UNCHANGED sockOpen
  <2>1. sockOpen
    BY <1>3 DEF RetriedStates
  <2> QED
    BY <1>3, <2>1, FlushTidy
<1>4. CASE state = "WAITING_ACK_TIME_SET" /\ FinishSetTime(<<>>)
  BY <1>4, NextMeasureTidy DEF FinishSetTime
<1> QED
  BY <1>1, <1>2, <1>3, <1>4 DEF OnTimeout

-----------------------------------------------------------------------------
(* The handlers keep the exchange in order                                  *)

\* A single worker takes the handlers in order.
LEMMA TakeFirst ==
    ASSUME TypeOK, Workers = 1, NEW i \in DOMAIN ready, Take(i)
    PROVE  /\ i = 1
           /\ \A k \in DOMAIN ready' :
                 k \in Nat /\ k + 1 \in DOMAIN ready /\ k + 1 > 1 /\ ready'[k] = ready[k + 1]
<1>1. i = 1 /\ ready \in Seq(Handlers)
  BY DEF Take, TypeOK
<1>2. ready' = SubSeq(ready, 1, 0) \o SubSeq(ready, 2, Len(ready))
  BY <1>1 DEF Take
<1>3. SubSeq(ready, 1, 0) = <<>> /\ SubSeq(ready, 2, Len(ready)) \in Seq(Handlers)
  BY <1>1
<1>4. ready' = SubSeq(ready, 2, Len(ready))
  BY <1>2, <1>3
<1> QED
  BY <1>1, <1>4

\* The kinds of handlers, and what each holds.
LEMMA HandlerKinds ==
    ASSUME NEW h \in Handlers
    PROVE  /\ h.type = "deadline" <=> h = Deadline
           /\ IsIO(h) => h.ok \in BOOLEAN /\ h.op \in SocketOps
           /\ IsFlush(h) => h.to \in RetriedStates /\ h = Flush(h.to)
<1>1. CASE h = Deadline
  BY <1>1 DEF Deadline, IsIO, IsFlush
<1>2. CASE \E s \in RetriedStates : h = Flush(s)
  BY <1>2 DEF Flush, Deadline, IsIO, IsFlush
<1>3. CASE \E o \in SocketOps, ok \in BOOLEAN : h = IO(o, ok)
  BY <1>3 DEF IO, Deadline, IsIO, IsFlush
<1> QED
  BY <1>1, <1>2, <1>3 DEF Handlers, SocketOps

\* The wait registered by the outcome of a handler.
LEMMA TidyWaits ==
    ASSUME Tidy'
    PROVE  /\ \A k \in DOMAIN waits' : ~IsIO(waits'[k])
           /\ \A k \in DOMAIN waits' :
                 IsFlush(waits'[k]) => k = 1 /\ ops' = <<>> /\ Flushing(waits[k].to)'
<1>1. CASE waits' = <<>>
  BY <1>1
<1>2. CASE waits' = <<Deadline>>
  BY <1>2 DEF Deadline, IsIO, IsFlush
<1>3. CASE ops' = <<>> /\ \E s \in RetriedStates : waits' = <<Flush(s)>> /\ Flushing(s)'
  <2>1. PICK s \in RetriedStates : waits' = <<Flush(s)>> /\ Flushing(s)'
    BY <1>3
  <2>2. DOMAIN waits' = {1} /\ waits'[1] = Flush(s) /\ Flush(s).to = s /\ ~IsIO(Flush(s))
    BY <2>1 DEF Flush, IsIO
  <2> QED
    BY <1>3, <2>1, <2>2 DEF Flushing
<1> QED
  BY <1>1, <1>2, <1>3 DEF Tidy

\* Behind an operation's handler, or a flush, only deadlines are queued.
LEMMA Settled ==
    ASSUME TypeOK, Workers = 1, Exchange, NEW i \in DOMAIN ready, Take(i),
           IsIO(ready[i]) \/ IsFlush(ready[i])
    PROVE  NoIO' /\ NoFlush'
<1>1. /\ i = 1
      /\ \A k \in DOMAIN ready' :
            k \in Nat /\ k + 1 \in DOMAIN ready /\ k + 1 > 1 /\ ready'[k] = ready[k + 1]
  BY TakeFirst
<1>2. ASSUME NEW k \in DOMAIN ready, k > 1 PROVE ~IsIO(ready[k]) /\ ~IsFlush(ready[k])
  BY <1>1, <1>2 DEF Exchange, OneOperation, FlushQueued, NoIO
<1> QED
  BY <1>1, <1>2 DEF NoIO, NoFlush

LEMMA SettledExchange ==
    ASSUME NoIO', NoFlush', Tidy', Running'
    PROVE  Exchange'
<1>1. OneOperation' /\ FlushWaiting'
  BY TidyWaits DEF Tidy, OneOperation, FlushWaiting, NoIO
<1>2. FlushQueued' /\ LateAnswer'
  BY DEF FlushQueued, LateAnswer, NoIO, NoFlush
<1>3. RestsAlone' /\ ClosedAnswers'
  BY DEF RestsAlone, ClosedAnswers, Tidy, NoIO
<1> QED
  BY <1>1, <1>2, <1>3 DEF Tidy, Exchange

\* The flush finds the socket open and the connector where it left it.
LEMMA FlushExchange ==
    ASSUME TypeOK, Workers = 1, Exchange, NEW i \in DOMAIN ready, RunFlush(i)
    PROVE  Exchange'
<1>1. ready[i] \in Handlers /\ IsFlush(ready[i])
  BY DEF RunFlush, TypeOK, IsFlush
<1>2. ops = <<>> /\ Flushing(ready[i].to)
  BY <1>1 DEF Exchange, FlushQueued
<1>3. Go(ready[i].to, <<>>) /\ UNCHANGED daemon
  BY <1>2 DEF RunFlush, Flushing
<1>4. ready[i].to \in GoingStates \ {"WAITING_ARCHIVE_PAGE"}
  BY <1>1, HandlerKinds DEF GoingStates, State, RetriedStates
<1>5. Tidy'
  BY <1>2, <1>3, <1>4, GoTidy DEF GoingStates, Flushing
<1>6. NoIO' /\ NoFlush'
  BY <1>1, Settled DEF RunFlush
<1> QED
  BY <1>3, <1>5, <1>6, SettledExchange DEF Exchange, Running

LEMMA IOExchange ==
    ASSUME TypeOK, Workers = 1, Exchange, NEW i \in DOMAIN ready, RunIO(i)
    PROVE  Exchange'
<1>1. ready[i] \in Handlers /\ IsIO(ready[i])
  BY DEF RunIO, TypeOK, IsIO
<1>2. ops = <<>>
  BY <1>1 DEF Exchange, OneOperation, NoIO
<1>3. ~sockOpen /\ state # "STOPPED" => state = "SENDING_ARCHIVE_PAGE_ANSWER" /\ ~ready[i].ok
  BY <1>1 DEF Exchange, ClosedAnswers
<1>4. NoIO' /\ NoFlush'
  BY <1>1, Settled DEF RunIO
<1>5. Running'
  BY DEF RunIO, Exchange, Running
<1>6. CASE ReceiveAckAgain
  <2>1. /\ ops' = <<"ackByte">> /\ waits' = <<Deadline>> /\ ~expired'
        /\ UNCHANGED <<state, sockOpen, pagesLeft, pageStored>>
    BY <1>2, <1>6 DEF ReceiveAckAgain, Arm, machineVars
  <2>2. state = "WAITING_NEXT_MEASURE_TICK" => stalls' = 1
    BY <1>1 DEF RunIO, Exchange, RestsAlone, NoIO, envVars
  <2>3. Len(ops') = 1 /\ ops'[1] = "ackByte"
    BY <2>1
  <2>4. PagesExpected' /\ AckOnlyStoredPages'
    BY <2>1, <2>3 DEF Exchange, PagesExpected, AckOnlyStoredPages
  <2>5. Tidy'
    BY <1>3, <2>1, <2>2, <2>3, <2>4 DEF Tidy, ClosedFailsFirst, OperationSuits
  <2> QED
    BY <1>4, <1>5, <2>5, SettledExchange
<1>7. CASE ready[i].ok /\ OnSuccess(<<>>)
  <2>1. CASE sockOpen
    BY <1>4, <1>5, <1>7, <2>1, SuccessTidy, SettledExchange
  <2>2. CASE ~sockOpen
    <3>1. state = "STOPPED"
      BY <1>3, <1>7, <2>2
    <3> QED
      BY <1>7, <3>1 DEF OnSuccess, AdvanceExchange, EndExchange, PlainStates, AckStates, DownloadStates
  <2> QED
    BY <2>1, <2>2
<1>8. CASE OnError(<<>>)
  BY <1>3, <1>4, <1>5, <1>8, ErrorTidy, SettledExchange
<1>9. CASE Discard(<<>>, <<>>, timeouts)
  <2>1. state' = "STOPPED" /\ ops' = <<>> /\ waits' = <<>>
    BY <1>9 DEF Discard
  <2>2. Tidy'
    BY <2>1 DEF Tidy, ClosedFailsFirst, OperationSuits, PagesExpected, AckOnlyStoredPages
  <2> QED
    BY <1>4, <1>5, <2>2, SettledExchange
<1> QED
  BY <1>2, <1>6, <1>7, <1>8, <1>9 DEF RunIO, HandleIO

\* A timeout leaves no operation but a tick's, and a new countdown.
LEMMA TimeoutLeaves ==
    ASSUME NEW t, OnTimeout(<<>>, t), ~sockOpen => state \in {"STOPPED", "SENDING_ARCHIVE_PAGE_ANSWER"}
    PROVE  /\ state = "WAITING_NEXT_MEASURE_TICK" \/ ops' = <<>>
           /\ expired' = FALSE \/ state' = "STOPPED"
           /\ sockOpen' \/ state' = "STOPPED"
           /\ state' = "WAITING_NEXT_MEASURE_TICK" => ops' = <<>>
<1>1. CASE Stop(<<>>)
  BY <1>1 DEF Stop
<1>2. CASE state = "WAITING_NEXT_MEASURE_TICK" /\ Go("SENDING_WAKE_UP_ARCHIVE", <<>>)
  BY <1>2 DEF Go, Enter, Arm
<1>3. CASE /\ state \in RetriedStates
           /\ state' = Restart(state)
           /\ FlushSocketAndRetry(Restart(state), <<>>)
           /\ UNCHANGED sockOpen
  <2>1. sockOpen'
    BY <1>3 DEF RetriedStates
  <2> QED
    BY <1>3, <2>1 DEF FlushSocketAndRetry, Arm
<1>4. CASE state = "WAITING_ACK_TIME_SET" /\ FinishSetTime(<<>>)
  <2>1. ops' = <<>> /\ expired' = FALSE /\ UNCHANGED sockOpen
    BY <1>4 DEF FinishSetTime, WaitForNextMeasure, Arm
  <2> QED
    BY <1>4, <2>1
<1> QED
  BY <1>1, <1>2, <1>3, <1>4 DEF OnTimeout

\* A deadline that is over, with an answer queued behind it.
LEMMA OverdueDeadline ==
    ASSUME TypeOK, Workers = 1, Undisturbed, Exchange, NEW i \in DOMAIN ready, RunDeadline(i),
           expired, ~NoIO'
    PROVE  stalls = 1 /\ state # "WAITING_NEXT_MEASURE_TICK"
<1>1. ready[i] = Deadline /\ stalls \in Nat
  BY HandlerKinds DEF RunDeadline, TypeOK
<1>2. /\ i = 1
      /\ \A k \in DOMAIN ready' :
            k \in Nat /\ k + 1 \in DOMAIN ready /\ k + 1 > 1 /\ ready'[k] = ready[k + 1]
  BY TakeFirst DEF RunDeadline
<1>3. PICK k \in DOMAIN ready : k > 1 /\ IsIO(ready[k])
  BY <1>2 DEF NoIO
<1>4. 1 \in DOMAIN ready /\ ready[1] = Deadline /\ 1 < k
  BY <1>1, <1>2, <1>3
<1> QED
  BY <1>1, <1>3, <1>4 DEF Exchange, LateAnswer, RestsAlone, Undisturbed

LEMMA DeadlineExchange ==
    ASSUME TypeOK, Workers = 1, Undisturbed, Exchange, NEW i \in DOMAIN ready, RunDeadline(i)
    PROVE  Exchange'
<1>1. ready[i] = Deadline /\ ready \in Seq(Handlers)
  BY HandlerKinds DEF RunDeadline, TypeOK
<1>2. /\ i = 1
      /\ \A k \in DOMAIN ready' :
            k \in Nat /\ k + 1 \in DOMAIN ready /\ k + 1 > 1 /\ ready'[k] = ready[k + 1]
  BY TakeFirst DEF RunDeadline
<1>3. NoFlush'
  BY <1>2, <1>1 DEF Exchange, FlushQueued, NoFlush, Deadline, IsFlush
<1>4. /\ NoIO => NoIO'
      /\ \A j, k \in DOMAIN ready' : IsIO(ready'[j]) /\ IsIO(ready'[k]) => j = k
  BY <1>2 DEF Exchange, OneOperation, NoIO
<1>5. Running' /\ FlushQueued' /\ stalls \in Nat /\ UNCHANGED stalls
  BY <1>3 DEF RunDeadline, TypeOK, Running, Exchange, FlushQueued, NoFlush, envVars
<1>6. expired /\ ~NoIO' => stalls = 1 /\ state # "WAITING_NEXT_MEASURE_TICK"
  BY OverdueDeadline
<1>7. /\ expired => CancelOperations = <<>>
      /\ ~sockOpen => state \in {"STOPPED", "SENDING_ARCHIVE_PAGE_ANSWER"}
  BY DEF CancelOperations, Exchange, ClosedFailsFirst, ClosedAnswers
<1>8. CASE expired /\ OnTimeout(<<>>, timeouts + 1)
  <2>1. Tidy'
    BY <1>7, <1>8, TimeoutTidy
  <2>2. /\ state = "WAITING_NEXT_MEASURE_TICK" \/ ops' = <<>>
        /\ expired' = FALSE \/ state' = "STOPPED"
        /\ sockOpen' \/ state' = "STOPPED"
        /\ state' = "WAITING_NEXT_MEASURE_TICK" => ops' = <<>>
    BY <1>7, <1>8, TimeoutLeaves
  <2>3. ops' # <<>> => NoIO'
    BY <1>6, <1>8, <2>2
  <2>4. OneOperation'
    BY <1>4, <2>1, <2>3, TidyWaits DEF Tidy, OneOperation
  <2>5. FlushWaiting'
    BY <1>3, <1>5, <1>6, <1>8, <2>1, <2>2, TidyWaits DEF FlushWaiting, Flushing, RetriedStates
  <2>6. LateAnswer' /\ RestsAlone' /\ ClosedAnswers'
    BY <1>5, <1>6, <1>8, <2>1, <2>2 DEF LateAnswer, RestsAlone, ClosedAnswers, NoIO, Tidy
  <2> QED
    BY <1>5, <2>1, <2>4, <2>5, <2>6 DEF Tidy, Exchange
<1>9. CASE expired /\ Discard(<<>>, waits, timeouts + 1)
  <2>1. /\ ops' = <<>> /\ Len(ops') <= 1 /\ state = "STOPPED"
        /\ UNCHANGED <<state, waits, sockOpen, expired, pagesLeft, pageStored>>
    BY <1>9 DEF Discard
  <2>2. OneOperation'
    BY <1>4, <2>1 DEF Exchange, OneOperation
  <2>3. FlushWaiting'
    BY <2>1 DEF Exchange, FlushWaiting, Flushing, RetriedStates
  <2>4. LateAnswer'
    BY <1>5, <1>6, <1>9 DEF LateAnswer, NoIO
  <2> QED
    BY <1>5, <2>1, <2>2, <2>3, <2>4 DEF Exchange, RestsAlone, ClosedAnswers, ClosedFailsFirst,
       OperationSuits, PagesExpected, AckOnlyStoredPages
<1>10. CASE ~expired
  <2>1. /\ waits' = Append(waits, Deadline) /\ waits \in Seq(Handlers)
        /\ UNCHANGED <<state, sockOpen, expired, ops, pagesLeft, pageStored>>
    BY <1>10 DEF RunDeadline, TypeOK, machineVars, historyVars
  <2>2. \A k \in DOMAIN waits' :
           \/ k \in DOMAIN waits /\ waits'[k] = waits[k]
           \/ waits'[k] = Deadline
    BY <2>1
  <2>3. ~IsIO(Deadline) /\ ~IsFlush(Deadline)
    BY DEF IsIO, IsFlush, Deadline
  <2>4. OneOperation'
    BY <1>4, <2>1, <2>2, <2>3 DEF Exchange, OneOperation
  <2>5. FlushWaiting'
    <3> SUFFICES ASSUME NEW k \in DOMAIN waits', IsFlush(waits'[k])
                 PROVE  /\ k = 1 /\ ops' = <<>> /\ NoFlush' /\ Flushing(waits[k].to)'
                        /\ NoIO' \/ (stalls' = 1 /\ ~expired')
      BY DEF FlushWaiting
    <3>1. k \in DOMAIN waits /\ waits'[k] = waits[k]
      BY <2>2, <2>3
    <3>2. /\ k = 1 /\ ops = <<>> /\ Flushing(waits[k].to)
          /\ NoIO \/ (stalls = 1 /\ ~expired)
      BY <3>1 DEF Exchange, FlushWaiting
    <3> QED
      BY <1>3, <1>4, <1>5, <2>1, <3>1, <3>2 DEF Flushing
  <2>6. LateAnswer' /\ RestsAlone' /\ ClosedAnswers'
    BY <1>2, <1>4, <1>5, <1>10, <2>1 DEF Exchange, LateAnswer, RestsAlone, ClosedAnswers
  <2> QED
    BY <1>5, <2>1, <2>4, <2>5, <2>6 DEF Exchange, ClosedFailsFirst, OperationSuits, Suits,
       PagesExpected, AckOnlyStoredPages
<1> QED
  BY <1>7, <1>8, <1>9, <1>10 DEF RunDeadline

-----------------------------------------------------------------------------
(* Time, the kernel and the station keep the exchange in order              *)

\* The only operation of the socket completes: its handler is the last one.
LEMMA CompleteOnly ==
    ASSUME TypeOK, Exchange, NEW i \in DOMAIN ops, NEW ok \in BOOLEAN, Complete(i, ok)
    PROVE  /\ i = 1 /\ ops' = <<>> /\ NoIO
           /\ ops[1] \in SocketOps
           /\ Len(ready) \in Nat /\ DOMAIN ready = 1 .. Len(ready)
           /\ DOMAIN ready' = 1 .. Len(ready) + 1
           /\ \A k \in DOMAIN ready : ready'[k] = ready[k]
           /\ ready'[Len(ready) + 1] = IO(ops[1], ok)
<1>0. ops \in Seq(SocketOps) /\ ready \in Seq(Handlers) /\ Len(ops) <= 1
  BY DEF Exchange, OneOperation, TypeOK, SocketOps
<1>1. i = 1 /\ Len(ops) = 1 /\ ops # <<>> /\ ops[1] \in SocketOps
  <2> DEFINE n == Len(ops)
  <2>1. i \in 1 .. n /\ n \in Nat /\ n <= 1 /\ (ops = <<>> => n = 0) /\ ops[i] \in SocketOps
    BY <1>0
  <2> HIDE DEF n
  <2>2. i = 1 /\ n = 1
    BY <2>1
  <2> QED
    BY <2>1, <2>2 DEF n
<1>2. ops' = SubSeq(ops, 1, 0) \o SubSeq(ops, 2, 1)
  BY <1>1 DEF Complete
<1>3. SubSeq(ops, 1, 0) = <<>> /\ SubSeq(ops, 2, 1) = <<>>
  BY <1>0, <1>1
<1>4. ops' = <<>>
  BY <1>2, <1>3
<1>5. NoIO
  BY <1>1 DEF Exchange, OneOperation
<1> DEFINE h == IO(ops[1], ok)
<1>6. ready' = Append(ready, h)
  BY <1>1 DEF Complete
<1> HIDE DEF h
<1>7. /\ Len(ready) \in Nat /\ DOMAIN ready = 1 .. Len(ready)
      /\ DOMAIN ready' = 1 .. Len(ready) + 1
      /\ \A k \in DOMAIN ready : ready'[k] = ready[k]
      /\ ready'[Len(ready) + 1] = h
  BY <1>0, <1>6
<1> QED
  BY <1>1, <1>4, <1>5, <1>7 DEF h

\* A completion queued behind a deadline that is over is a stall, unless the
\* socket is closed, but there the deadline cannot be over.
LEMMA CompleteExchange ==
    ASSUME TypeOK, Exchange, NEW i \in DOMAIN ops, NEW ok \in BOOLEAN, Complete(i, ok),
           ~sockOpen => ~ok,
           stalls' = stalls + 1 \/ (~(DeadlineQueued /\ sockOpen) /\ stalls' = stalls),
           stalls' <= 1, PagesExpected'
    PROVE  Exchange'
<1>1. /\ i = 1 /\ ops' = <<>> /\ NoIO
      /\ ops[1] \in SocketOps
      /\ Len(ready) \in Nat /\ DOMAIN ready = 1 .. Len(ready)
      /\ DOMAIN ready' = 1 .. Len(ready) + 1
      /\ \A k \in DOMAIN ready : ready'[k] = ready[k]
      /\ ready'[Len(ready) + 1] = IO(ops[1], ok)
  BY CompleteOnly
<1>2. UNCHANGED <<state, sockOpen, expired, waits, daemon, pageStored>> /\ ops # <<>>
  BY <1>1 DEF Complete, machineVars
<1> DEFINE last == IO(ops[1], ok)
<1>3. IsIO(last) /\ ~IsFlush(last) /\ last.ok = ok
  BY DEF IO, IsIO, IsFlush
<1>4. ready'[Len(ready) + 1] = last
  BY <1>1
<1> HIDE DEF last
<1>5. \A k \in DOMAIN ready' : IsIO(ready'[k]) <=> k = Len(ready) + 1
  BY <1>1, <1>3, <1>4 DEF NoIO
<1>6. OneOperation'
  BY <1>1, <1>2, <1>5 DEF Exchange, OneOperation
<1>7. FlushQueued' /\ FlushWaiting'
  BY <1>1, <1>2, <1>3, <1>4 DEF Exchange, FlushQueued, FlushWaiting
<1>8. stalls \in Nat
  BY DEF TypeOK
<1>9. expired /\ DeadlineInQueue => stalls' = stalls + 1
  BY <1>2 DEF DeadlineQueued, Exchange, ClosedFailsFirst
<1>10. ASSUME NEW j \in DOMAIN ready', NEW k \in DOMAIN ready', ready'[j] = Deadline,
             IsIO(ready'[k]), j < k
       PROVE  DeadlineInQueue
  BY <1>1, <1>5, <1>10 DEF DeadlineInQueue
<1>11. LateAnswer'
  BY <1>2, <1>8, <1>9, <1>10 DEF LateAnswer
<1>12. RestsAlone'
  BY <1>1, <1>2, <1>8, <1>9, <1>10 DEF Exchange, RestsAlone
<1>13. ClosedAnswers'
  BY <1>2, <1>3, <1>4, <1>5 DEF Exchange, ClosedAnswers
<1> QED
  BY <1>1, <1>2, <1>6, <1>7, <1>11, <1>12, <1>13 DEF Exchange, ClosedFailsFirst, OperationSuits,
     AckOnlyStoredPages, Running

LEMMA StallGrows ==
    ASSUME TypeOK, NEW c, Stall(c)
    PROVE  stalls \in Nat /\ (stalls' = stalls + 1 \/ (~c /\ stalls' = stalls))
BY DEF Stall, TypeOK

LEMMA WriteExchange ==
    ASSUME TypeOK, Workers = 1, Exchange, WriteCompletes, Undisturbed'
    PROVE  Exchange'
<1>1. PICK i \in DOMAIN ops : Complete(i, TRUE)
  BY DEF WriteCompletes
<1>2. /\ stalls' = stalls + 1 \/ (~(DeadlineQueued /\ sockOpen) /\ stalls' = stalls)
      /\ sockOpen /\ stalls' <= 1
  BY StallGrows DEF WriteCompletes, Undisturbed
<1>3. PagesExpected'
  BY <1>1 DEF WriteCompletes, Complete, Exchange, PagesExpected, bufferVars, machineVars
<1> QED
  BY <1>1, <1>2, <1>3, CompleteExchange

\* The number of pages is read in the state that waits for it.
LEMMA ReadExchange ==
    ASSUME TypeOK, Workers = 1, Exchange, ReadCompletes, Undisturbed'
    PROVE  Exchange'
<1>1. PICK i \in DOMAIN ops : Complete(i, TRUE) /\ Fill(ops[i])
  BY DEF ReadCompletes
<1>2. /\ stalls' = stalls + 1 \/ (~(DeadlineQueued /\ sockOpen) /\ stalls' = stalls)
      /\ sockOpen /\ stalls' <= 1
  BY StallGrows DEF ReadCompletes, Undisturbed
<1>3. i = 1 /\ ops # <<>> /\ state' = state
  <2>1. i = 1 /\ DOMAIN ops # {}
    BY <1>1, CompleteOnly
  <2> QED
    BY <1>1, <2>1 DEF Complete, machineVars
<1>4. ops[1] = "size" => state # "WAITING_ARCHIVE_PAGE"
  BY <1>3 DEF Exchange, OperationSuits, Suits, Operation
<1>5. PagesExpected'
  BY <1>1, <1>3, <1>4 DEF Exchange, PagesExpected, Fill
<1> QED
  BY <1>1, <1>2, <1>5, CompleteExchange

LEMMA FailExchange ==
    ASSUME TypeOK, Workers = 1, Exchange, OperationFails, Undisturbed'
    PROVE  Exchange'
<1>1. PICK i \in DOMAIN ops : Complete(i, FALSE)
  BY DEF OperationFails
<1>2. /\ stalls' = stalls + 1 \/ (~(DeadlineQueued /\ sockOpen) /\ stalls' = stalls)
      /\ stalls' <= 1
  BY StallGrows DEF OperationFails, Undisturbed
<1>3. PagesExpected'
  BY <1>1 DEF OperationFails, Complete, Exchange, PagesExpected, bufferVars, machineVars
<1> QED
  BY <1>1, <1>2, <1>3, CompleteExchange

\* The deadlines, then the flush, are queued behind the handler of an answer.
LEMMA TimerExchange ==
    ASSUME TypeOK, Workers = 1, Exchange, TimerFires
    PROVE  Exchange'
<1>1. /\ waits \in Seq(Handlers) /\ ready \in Seq(Handlers)
      /\ \A k \in DOMAIN ready : IsIO(ready[k])
      /\ ready' = ready \o waits /\ waits' = <<>> /\ expired
      /\ UNCHANGED <<state, sockOpen, expired, ops, pagesLeft, pageStored, stalls, daemon>>
  BY DEF TimerFires, TypeOK, IsIO, machineVars, bufferVars, envVars, historyVars
<1>2. /\ DOMAIN ready = 1 .. Len(ready) /\ Len(ready) \in Nat
      /\ \A k \in DOMAIN ready' :
            \/ k \in DOMAIN ready /\ ready'[k] = ready[k]
            \/ k > Len(ready) /\ k - Len(ready) \in DOMAIN waits /\ ready'[k] = waits[k - Len(ready)]
  BY <1>1
<1>3. \A k \in DOMAIN waits : ~IsIO(waits[k])
  BY DEF Exchange, OneOperation
<1>4. \A k \in DOMAIN ready' : IsIO(ready'[k]) => k \in DOMAIN ready /\ ready'[k] = ready[k]
  BY <1>2, <1>3
<1>5. OneOperation'
  BY <1>1, <1>4 DEF Exchange, OneOperation, NoIO
<1>6. FlushQueued'
  <2> SUFFICES ASSUME NEW k \in DOMAIN ready', IsFlush(ready'[k])
               PROVE  k = 1 /\ ops' = <<>> /\ NoIO' /\ Flushing(ready[k].to)'
    BY DEF FlushQueued
  <2>1. k > Len(ready) /\ k - Len(ready) \in DOMAIN waits /\ ready'[k] = waits[k - Len(ready)]
    BY <1>1, <1>2 DEF IsIO, IsFlush
  <2>2. k - Len(ready) = 1 /\ ops = <<>> /\ Flushing(waits[k - Len(ready)].to) /\ NoIO
    BY <1>1, <2>1 DEF Exchange, FlushWaiting
  <2>3. DOMAIN ready = {}
    BY <1>1, <2>2 DEF NoIO
  <2>4. Len(ready) = 0
    BY <1>2, <2>3
  <2>5. NoIO'
    BY <1>4, <2>3 DEF NoIO
  <2> QED
    BY <1>1, <1>2, <2>1, <2>2, <2>4, <2>5 DEF Flushing
<1>7. FlushWaiting'
  BY <1>1 DEF FlushWaiting
<1>8. ASSUME NEW j \in DOMAIN ready', NEW k \in DOMAIN ready', ready'[j] = Deadline,
             IsIO(ready'[k]), j < k
      PROVE  FALSE
  <2>1. k \in DOMAIN ready /\ j \in DOMAIN ready /\ ready'[j] = ready[j]
    BY <1>2, <1>4, <1>8
  <2> QED
    BY <1>1, <1>8, <2>1 DEF IsIO, Deadline
<1>9. LateAnswer'
  BY <1>8 DEF LateAnswer
<1>10. RestsAlone' /\ ClosedAnswers'
  BY <1>1, <1>4, <1>8 DEF Exchange, RestsAlone, ClosedAnswers, NoIO
<1> QED
  BY <1>1, <1>5, <1>6, <1>7, <1>9, <1>10 DEF Exchange, ClosedFailsFirst, OperationSuits,
     PagesExpected, AckOnlyStoredPages, Running

\* A deadline that passes behind a queued handler is a stall.
LEMMA PassExchange ==
    ASSUME TypeOK, Exchange, DeadlinePasses, Undisturbed'
    PROVE  Exchange'
<1>1. /\ ~expired /\ (ops = <<>> \/ sockOpen)
      /\ UNCHANGED <<state, sockOpen, waits, ops, ready, pagesLeft, pageStored, daemon>>
  BY DEF DeadlinePasses, machineVars, bufferVars, historyVars
<1>2. stalls \in Nat /\ stalls' <= 1 /\ (stalls' = stalls + 1 \/ (ready = <<>> /\ stalls' = stalls))
  BY StallGrows DEF DeadlinePasses, Undisturbed
<1>3. ready # <<>> => stalls' = 1 /\ stalls = 0
  BY <1>2
<1>4. NoIO' <=> NoIO
  BY <1>1 DEF NoIO
<1>5. FlushWaiting'
  BY <1>1, <1>3, <1>4 DEF Exchange, FlushWaiting, Flushing, NoIO, NoFlush
<1>6. LateAnswer' /\ RestsAlone'
  BY <1>1, <1>2, <1>3, <1>4 DEF Exchange, LateAnswer, RestsAlone, NoIO
<1>7. OneOperation' /\ FlushQueued'
  BY <1>1, <1>4 DEF Exchange, OneOperation, FlushQueued, Flushing
<1> QED
  BY <1>1, <1>5, <1>6, <1>7 DEF Exchange, ClosedAnswers, ClosedFailsFirst, OperationSuits,
     PagesExpected, AckOnlyStoredPages, Running

-----------------------------------------------------------------------------
(* The timeouts in a row                                                    *)

\* Each timeout of an exchange counts twice in _timeouts, which a success
\* leaves and only the end of the exchange resets.
Counted ==
    /\ state \notin {"STOPPED", "WAITING_NEXT_MEASURE_TICK"} =>
          timeouts < MaxTimeouts /\ 2 * silences <= timeouts + 1
    /\ state = "WAITING_NEXT_MEASURE_TICK" => timeouts = 0 /\ silences <= 1
    /\ state = "WAITING_ACK_TIME_SET" => silences = 0
    /\ state = "STOPPED" /\ sockOpen => timeouts = 0 /\ silences = 0
    /\ 2 * silences <= MaxTimeouts + 2

\* A count of silences that is reset is within any bound.
LEMMA NoSilence == \A s, t, m \in Nat : s = 0 => 2 * s <= t + 1 /\ 2 * s <= m + 2
OBVIOUS

\* An exchange that advances is not at rest.
LEMMA AdvanceGoesOn ==
    ASSUME TypeOK, NEW o, AdvanceExchange(o)
    PROVE  /\ state \notin {"STOPPED", "WAITING_NEXT_MEASURE_TICK"}
           /\ state' # "WAITING_NEXT_MEASURE_TICK"
<1>1. state \notin {"STOPPED", "WAITING_NEXT_MEASURE_TICK"}
  BY DEF AdvanceExchange, PlainStates, AckStates, DownloadStates
<1>2. Successor(state) # "WAITING_NEXT_MEASURE_TICK"
  BY DEF Successor
<1>3. ASSUME NEW s, Go(s, o) PROVE state' = s
  BY <1>3 DEF Go, Enter
<1>4. ASSUME Stop(o) \/ HandlePage(o) \/ RetryTransmission(o)
      PROVE  state' # "WAITING_NEXT_MEASURE_TICK"
  BY <1>1, <1>4 DEF Stop, HandlePage, StorePage, FailToStorePage, RefusePage, AnswerPage, Enter,
     RetryTransmission
<1> QED
  BY <1>1, <1>2, <1>3, <1>4 DEF AdvanceExchange

LEMMA SuccessCounted ==
    ASSUME TypeOK, Counted, OnSuccess(ops), silences' = 0
    PROVE  Counted'
<1>0. MaxTimeouts \in Nat
  BY ConstantsAssumption DEF ConstantsAssumption
<1>1. CASE WaitForNextMeasure(ops)
  BY <1>0, <1>1 DEF WaitForNextMeasure, Counted
<1>2. CASE AdvanceExchange(ops) /\ UNCHANGED timeouts
  <2>1. timeouts' < MaxTimeouts /\ timeouts' \in Nat /\ state' # "WAITING_NEXT_MEASURE_TICK"
    BY <1>2, AdvanceGoesOn DEF Counted, TypeOK
  <2>2. state' = "STOPPED" => ~sockOpen'
    BY <1>2, TypeParts, AdvanceOutcome DEF OutcomeOK, WaitedFor
  <2>3. state' = "STOPPED" /\ sockOpen' => timeouts' = 0 /\ silences' = 0
    BY <2>2
  <2>4. 2 * silences' <= timeouts' + 1 /\ 2 * silences' <= MaxTimeouts + 2
    BY <1>0, <2>1, NoSilence
  <2> QED
    BY <2>1, <2>3, <2>4 DEF Counted
<1> QED
  BY <1>1, <1>2 DEF OnSuccess, EndExchange, FinishSetTime

LEMMA ErrorCounted ==
    ASSUME TypeOK, Counted, OnError(ops), UNCHANGED silences
    PROVE  Counted'
<1>0. MaxTimeouts \in Nat /\ silences \in Nat
  BY ConstantsAssumption DEF ConstantsAssumption, TypeOK
<1>1. CASE Stop(ops)
  BY <1>1 DEF Stop, CloseSocket, Counted
<1>2. CASE WaitForNextMeasure(ops) /\ state \in {"WAITING_NEXT_MEASURE_TICK", "WAITING_ACK_TIME_SET"}
  BY <1>0, <1>2 DEF WaitForNextMeasure, Counted
<1> QED
  BY <1>1, <1>2 DEF OnError, FinishSetTime

\* Two timeouts at least are allowed, for a tick counts as one.
LEMMA TimeoutCounted ==
    ASSUME TypeOK, Counted, MaxTimeouts >= 2, NEW o, OnTimeout(o, timeouts + 1),
           silences' = IF state = "WAITING_NEXT_MEASURE_TICK" THEN silences ELSE silences + 1
    PROVE  Counted'
<1>0. MaxTimeouts \in Nat /\ silences \in Nat /\ timeouts \in Nat
  BY ConstantsAssumption DEF ConstantsAssumption, TypeOK
<1>1. CASE /\ state = "WAITING_NEXT_MEASURE_TICK" /\ timeouts' = timeouts + 1
           /\ Go("SENDING_WAKE_UP_ARCHIVE", o)
  BY <1>0, <1>1 DEF Go, Enter, Counted
<1>2. CASE state \in RetriedStates \cup UnretriedStates /\ Stop(o)
  <2>1. silences' = silences + 1 /\ 2 * silences <= timeouts + 1 /\ timeouts < MaxTimeouts
    BY <1>2 DEF Counted, RetriedStates, UnretriedStates
  <2> QED
    BY <1>0, <1>2, <2>1 DEF Stop, CloseSocket, Counted
<1>3. CASE /\ state \in RetriedStates /\ timeouts' = timeouts + 1 + 1 /\ timeouts' < MaxTimeouts
           /\ state' = Restart(state)
  <2>1. silences' = silences + 1 /\ 2 * silences <= timeouts + 1 /\ timeouts < MaxTimeouts
    BY <1>3 DEF Counted, RetriedStates
  <2>2. state' \in RetriedStates
    BY <1>3, StateTables DEF TypeOK
  <2> QED
    BY <1>0, <1>3, <2>1, <2>2 DEF RetriedStates, Counted
<1>4. CASE state = "WAITING_ACK_TIME_SET" /\ FinishSetTime(o)
  BY <1>0, <1>4 DEF FinishSetTime, WaitForNextMeasure, Counted
<1> QED
  BY <1>1, <1>2, <1>3, <1>4 DEF OnTimeout, CountTimeout

\* Only a connector that is not stopped, or is closed, has handlers.
LEMMA HandlersCounted ==
    ASSUME TypeOK, StoppedIsIdle, Workers = 1, Exchange, Counted, MaxTimeouts >= 2,
           NEW i \in DOMAIN ready, RunHandler(i)
    PROVE  Counted'
<1>0. MaxTimeouts \in Nat /\ silences \in Nat
  BY ConstantsAssumption DEF ConstantsAssumption, TypeOK
<1>1. state = "STOPPED" => ~sockOpen
  BY TakenIsAlive DEF StoppedIsIdle
<1>2. ASSUME UNCHANGED <<state, sockOpen>>, silences' \in {0, silences},
             state = "STOPPED" \/ timeouts' = timeouts
      PROVE  Counted'
  <2>1. state' = "STOPPED" /\ sockOpen' => FALSE
    BY <1>1, <1>2
  <2>2. state # "STOPPED" => timeouts' = timeouts
    BY <1>2
  <2>3. timeouts \in Nat
    BY DEF TypeOK
  <2>4. CASE silences' = silences
    BY <1>2, <2>1, <2>2, <2>4 DEF Counted
  <2>5. CASE silences' = 0
    <3>1. 2 * silences' <= timeouts + 1 /\ 2 * silences' <= MaxTimeouts + 2
      BY <1>0, <2>3, <2>5, NoSilence
    <3> QED
      BY <1>2, <2>1, <2>2, <2>5, <3>1 DEF Counted
  <2> QED
    BY <1>2, <2>4, <2>5
<1>3. CASE RunDeadline(i)
  <2>1. CASE OnTimeout(CancelOperations, timeouts + 1) /\ expired
    <3>1. state # "STOPPED"
      BY <2>1 DEF OnTimeout, RetriedStates, UnretriedStates
    <3> QED
      BY <1>3, <2>1, <3>1, TimeoutCounted DEF RunDeadline
  <2>2. CASE Discard(CancelOperations, waits, timeouts + 1) /\ expired
    <3>1. UNCHANGED <<state, sockOpen, silences>> /\ state = "STOPPED"
      BY <1>3, <2>2 DEF RunDeadline, Discard
    <3> QED
      BY <1>2, <3>1
  <2>3. CASE ~expired
    <3>1. UNCHANGED <<state, sockOpen, silences, timeouts>>
      BY <1>3, <2>3 DEF RunDeadline, machineVars, historyVars
    <3> QED
      BY <1>2, <3>1
  <2> QED
    BY <1>3, <2>1, <2>2, <2>3 DEF RunDeadline
<1>4. CASE RunFlush(i)
  <2>1. ready[i] \in Handlers /\ IsFlush(ready[i])
    BY <1>4 DEF RunFlush, TypeOK, IsFlush
  <2>2. ready[i].to \in RetriedStates /\ Flushing(ready[i].to)
    BY <2>1, HandlerKinds DEF Exchange, FlushQueued
  <2>3. state' = ready[i].to /\ UNCHANGED <<timeouts, silences>>
    BY <1>4, <2>2 DEF RunFlush, Go, Enter, Flushing
  <2>4. state \in RetriedStates /\ state' \in RetriedStates
    BY <2>2, <2>3 DEF Flushing
  <2> QED
    BY <1>0, <2>3, <2>4 DEF Counted, RetriedStates
<1>5. CASE RunIO(i)
  <2>1. ready[i].ok \in BOOLEAN /\ silences' = IF ready[i].ok THEN 0 ELSE silences
    BY <1>5, HandlerKinds DEF RunIO, TypeOK, IsIO
  <2>2. CASE ReceiveAckAgain
    BY <1>2, <2>1, <2>2 DEF ReceiveAckAgain, machineVars
  <2>3. CASE ready[i].ok /\ OnSuccess(ops)
    BY <2>1, <2>3, SuccessCounted
  <2>4. CASE ~ready[i].ok /\ OnError(ops)
    BY <2>1, <2>4, ErrorCounted
  <2>5. CASE Discard(ops, <<>>, timeouts)
    BY <1>2, <2>1, <2>5 DEF Discard
  <2> QED
    BY <1>5, <2>2, <2>3, <2>4, <2>5 DEF RunIO, HandleIO
<1> QED
  BY <1>3, <1>4, <1>5 DEF RunHandler

-----------------------------------------------------------------------------
(* Every answer is read after its own request, while nothing has held up    *)
(* the event loop                                                           *)

\* What the state says of the operation, and of the last request written.
ReadInTurn ==
    state # "STOPPED" /\ ops # <<>> =>
        Suits(ops[1], state) /\ (ops[1] \in Answers => sent \in AwaitedRequest(state))

HandledInTurn ==
    \A k \in DOMAIN ready : state # "STOPPED" /\ IsIO(ready[k]) =>
        /\ Suits(ready[k].op, state)
        /\ ready[k].op \in Answers => sent \in AwaitedRequest(state)
        /\ ready[k].op \in Requests /\ ready[k].ok => sent = ready[k].op

\* An operation writes or reads.
LEMMA WriteOrRead == Requests \cap Answers = {}
BY DEF Requests, Answers

\* The answer awaited next is the one to the request written last.
LEMMA AwaitedNext ==
    ASSUME NEW s \in PlainStates \cup AckStates, NEW last,
           Operation(s) \in Answers => last \in AwaitedRequest(s),
           Operation(s) \in Requests => last = Operation(s),
           Operation(Successor(s)) \in Answers
    PROVE  last \in AwaitedRequest(Successor(s))
<1>1. CASE s \in {"SENDING_WAKE_UP_STATION", "SENDING_WAKE_UP_ARCHIVE", "SENDING_WAKE_UP_SETTIME"}
  BY ZenonT(60), <1>1 DEF Operation, Successor, AwaitedRequest, Requests
<1>2. CASE s \in {"SENDING_REQ_STATION", "SENDING_REQ_MAIN_MODE", "SENDING_REQ_TIMEZONE"}
  <2>1. Operation(s) \in Requests
    BY <1>2 DEF Operation, Requests
  <2> QED
    BY ZenonT(60), <1>2, <2>1 DEF Operation, Successor, AwaitedRequest
<1>3. CASE s \in {"SENDING_REQ_ARCHIVE", "SENDING_ARCHIVE_PARAMS"}
  <2>1. Operation(s) \in Requests
    BY <1>3 DEF Operation, Requests
  <2> QED
    BY <1>3, <2>1 DEF Operation, Successor, AwaitedRequest
<1>4. CASE s \in {"SENDING_SETTIME", "SENDING_SETTIME_PARAMS"}
  <2>1. Operation(s) \in Requests
    BY <1>4 DEF Operation, Requests
  <2> QED
    BY ZenonT(60), <1>4, <2>1 DEF Operation, Successor, AwaitedRequest
<1>5. CASE s \in {"WAITING_ACK_STATION", "WAITING_ACK_TIMEZONE"}
  BY ZenonT(60), <1>5 DEF Operation, Successor, AwaitedRequest, Answers
<1>6. CASE s \in {"WAITING_ECHO_STATION", "WAITING_ACK_MAIN_MODE", "WAITING_ECHO_ARCHIVE"}
  <2>1. Successor(s) \in {"SENDING_REQ_STATION", "SENDING_REQ_TIMEZONE", "SENDING_REQ_ARCHIVE"}
    BY <1>6 DEF Successor
  <2> QED
    BY <2>1 DEF Operation, Answers
<1>7. CASE s \in {"WAITING_ACK_ARCHIVE", "WAITING_ECHO_SETTIME", "WAITING_ACK_SETTIME"}
  <2>1. Successor(s) \in {"SENDING_ARCHIVE_PARAMS", "SENDING_SETTIME", "SENDING_SETTIME_PARAMS"}
    BY <1>7 DEF Successor
  <2> QED
    BY <2>1 DEF Operation, Answers
<1> QED
  BY <1>1, <1>2, <1>3, <1>4, <1>5, <1>6, <1>7 DEF PlainStates, AckStates

LEMMA GoInTurn ==
    ASSUME NEW s \in GoingStates, Go(s, <<>>), Operation(s) \in Answers => sent \in AwaitedRequest(s)
    PROVE  ReadInTurn'
<1>1. state' = s /\ ops' = <<Operation(s)>> /\ sent' = sent
  BY DEF Go, Enter
<1>2. ops'[1] = Operation(s) /\ Suits(Operation(s), s)
  BY <1>1 DEF Suits, GoingStates
<1> QED
  BY <1>1, <1>2 DEF ReadInTurn

\* Restarting an exchange writes a request.
LEMMA RequestsFirst ==
    ASSUME NEW s \in {"SENDING_REQ_MAIN_MODE", "SENDING_WAKE_UP_ARCHIVE", "SENDING_WAKE_UP_SETTIME",
                      "SENDING_ACK_ARCHIVE_DOWNLOAD", "SENDING_ABORT_ARCHIVE_DOWNLOAD"} \cup
                     {Restart(r) : r \in RetriedStates}
    PROVE  Operation(s) \notin Answers /\ s \in GoingStates
<1>1. s \in {"SENDING_WAKE_UP_STATION", "SENDING_REQ_STATION", "SENDING_REQ_MAIN_MODE",
             "SENDING_REQ_TIMEZONE", "SENDING_WAKE_UP_ARCHIVE", "SENDING_REQ_ARCHIVE",
             "SENDING_WAKE_UP_SETTIME", "SENDING_SETTIME",
             "SENDING_ACK_ARCHIVE_DOWNLOAD", "SENDING_ABORT_ARCHIVE_DOWNLOAD"}
  BY DEF Restart
<1>2. Operation(s) \in Requests
  BY <1>1 DEF Operation, Requests
<1> QED
  BY <1>1, <1>2, WriteOrRead DEF GoingStates, State, RetriedStates, UnretriedStates

\* op is the operation that has just succeeded.
LEMMA SuccessInTurn ==
    ASSUME TypeOK, sockOpen, NEW op \in SocketOps, Suits(op, state),
           op \in Answers => sent \in AwaitedRequest(state), op \in Requests => sent = op,
           OnSuccess(<<>>)
    PROVE  ReadInTurn'
<1>1. ASSUME NEW s \in GoingStates, Go(s, <<>>),
             Operation(s) \in Answers => sent \in AwaitedRequest(s)
      PROVE  ReadInTurn'
  BY <1>1, GoInTurn
<1>2. ASSUME Stop(<<>>) \/ RetryTransmission(<<>>) \/ WaitForNextMeasure(<<>>) PROVE ReadInTurn'
  BY <1>2 DEF Stop, RetryTransmission, FlushSocketAndRetry, WaitForNextMeasure, ReadInTurn
<1>3. CASE state \in PlainStates \cup AckStates /\ Go(Successor(state), <<>>)
  <2>1. op = Operation(state)
    BY <1>3 DEF Suits, PlainStates, AckStates
  <2>2. Successor(state) \in GoingStates
    BY <1>3 DEF PlainStates, AckStates, Successor, GoingStates, State, RetriedStates, UnretriedStates
  <2> QED
    BY <1>1, <1>3, <2>1, <2>2, AwaitedNext
<1>4. CASE \/ Go("SENDING_REQ_MAIN_MODE", <<>>) \/ Go("SENDING_WAKE_UP_ARCHIVE", <<>>)
           \/ Go("SENDING_WAKE_UP_SETTIME", <<>>) \/ Go("SENDING_ACK_ARCHIVE_DOWNLOAD", <<>>)
           \/ Go("SENDING_ABORT_ARCHIVE_DOWNLOAD", <<>>)
  BY <1>1, <1>4, RequestsFirst
<1>5. CASE state = "WAITING_ACK_ARCHIVE_PARAMS" /\ Go("WAITING_ARCHIVE_NB_PAGES", <<>>)
  <2>1. op = "ackByte" /\ "WAITING_ARCHIVE_NB_PAGES" \in GoingStates
    BY <1>5 DEF Suits, Operation, GoingStates, State, UnretriedStates
  <2>2. sent \in AwaitedRequest("WAITING_ARCHIVE_NB_PAGES")
    BY <1>5, <2>1 DEF AwaitedRequest, Answers
  <2> QED
    BY <1>1, <1>5, <2>1, <2>2
<1>6. CASE state \in DownloadStates /\ Go("WAITING_ARCHIVE_PAGE", <<>>)
  <2>1. op \in {"ack", "nak"} /\ "WAITING_ARCHIVE_PAGE" \in GoingStates
    BY <1>6 DEF DownloadStates, Suits, Operation, GoingStates, State, UnretriedStates
  <2>2. sent \in AwaitedRequest("WAITING_ARCHIVE_PAGE")
    BY <2>1 DEF AwaitedRequest, Requests
  <2> QED
    BY <1>1, <1>6, <2>1, <2>2
<1>7. CASE HandlePage(<<>>)
  <2>0. CancelOperations = <<>>
    BY DEF CancelOperations
  <2>1. PICK s \in {"STOPPED", "SENDING_ARCHIVE_PAGE_ANSWER"}, answer \in {"ack", "nak"} :
          Enter(s, answer, <<>>)
    BY <1>7, <2>0 DEF HandlePage, StorePage, FailToStorePage, RefusePage, AnswerPage
  <2>2. state' = s /\ ops'[1] = answer /\ answer \notin Answers
    BY <2>1 DEF Enter, Answers
  <2> QED
    BY <2>2 DEF ReadInTurn, Suits
<1> QED
  BY <1>2, <1>3, <1>4, <1>5, <1>6, <1>7 DEF OnSuccess, AdvanceExchange, EndExchange, FinishSetTime

LEMMA HandlersInTurn ==
    ASSUME TypeOK, Workers = 1, Undisturbed, Exchange, stalls = 0, ReadInTurn, HandledInTurn,
           NEW i \in DOMAIN ready, RunHandler(i)
    PROVE  ReadInTurn' /\ HandledInTurn'
<1>1. CASE RunDeadline(i)
  <2>1. CASE expired
    <3>1. NoIO'
      BY <1>1, <2>1, OverdueDeadline
    <3>2. HandledInTurn'
      BY <3>1 DEF HandledInTurn, NoIO
    <3>3. CancelOperations = <<>>
      BY <2>1 DEF CancelOperations, Exchange, ClosedFailsFirst
    <3>4. CASE OnTimeout(<<>>, timeouts + 1)
      <4>1. ~sockOpen => state \in {"STOPPED", "SENDING_ARCHIVE_PAGE_ANSWER"}
        BY DEF Exchange, ClosedAnswers
      <4>2. CASE ops' = <<>>
        BY <3>2, <4>2 DEF ReadInTurn
      <4>3. CASE state = "WAITING_NEXT_MEASURE_TICK"
        <5>1. Go("SENDING_WAKE_UP_ARCHIVE", <<>>)
          BY <3>4, <4>3 DEF OnTimeout, RetriedStates, UnretriedStates
        <5> QED
          BY <3>2, <5>1, GoInTurn, RequestsFirst
      <4> QED
        BY <3>4, <4>1, <4>2, <4>3, TimeoutLeaves
    <3>5. CASE Discard(<<>>, waits, timeouts + 1)
      BY <3>2, <3>5 DEF Discard, ReadInTurn
    <3> QED
      BY <1>1, <2>1, <3>2, <3>3, <3>4, <3>5 DEF RunDeadline
  <2>2. CASE ~expired
    <3>1. UNCHANGED <<state, ops, sent>>
      BY <1>1, <2>2 DEF RunDeadline, machineVars, historyVars
    <3>2. \A k \in DOMAIN ready' : k + 1 \in DOMAIN ready /\ ready'[k] = ready[k + 1]
      BY <1>1, TakeFirst DEF RunDeadline
    <3> QED
      BY <3>1, <3>2 DEF ReadInTurn, HandledInTurn
  <2> QED
    BY <2>1, <2>2
<1>2. CASE RunFlush(i)
  <2>1. ready[i] \in Handlers /\ IsFlush(ready[i])
    BY <1>2 DEF RunFlush, TypeOK, IsFlush
  <2>2. ops = <<>> /\ Flushing(ready[i].to)
    BY <2>1 DEF Exchange, FlushQueued
  <2>3. Go(ready[i].to, <<>>) /\ ready[i].to \in {Restart(r) : r \in RetriedStates}
    BY <1>2, <2>2 DEF RunFlush, Flushing
  <2>4. NoIO'
    BY <1>2, <2>1, Settled DEF RunFlush
  <2> QED
    BY <2>3, <2>4, GoInTurn, RequestsFirst DEF HandledInTurn, NoIO
<1>3. CASE RunIO(i)
  <2>1. ready[i] \in Handlers /\ IsIO(ready[i])
    BY <1>3 DEF RunIO, TypeOK, IsIO
  <2>2. ops = <<>> /\ NoIO'
    BY <1>3, <2>1, Settled DEF RunIO, Exchange, OneOperation, NoIO
  <2>3. HandledInTurn'
    BY <2>2 DEF HandledInTurn, NoIO
  <2> DEFINE op == ready[i].op
  <2>4. /\ op \in SocketOps
        /\ state # "STOPPED" =>
              /\ Suits(op, state)
              /\ op \in Answers => sent \in AwaitedRequest(state)
              /\ op \in Requests /\ ready[i].ok => sent = op
    BY <2>1, HandlerKinds DEF HandledInTurn
  <2>5. CASE ReceiveAckAgain /\ op = "ackByte"
    <3>1. ops' = <<"ackByte">> /\ UNCHANGED <<state, sent>>
      BY <2>2, <2>5 DEF ReceiveAckAgain, machineVars
    <3>2. ops'[1] = op /\ op \in Answers
      BY <2>5, <3>1 DEF Answers
    <3> QED
      BY <2>3, <2>4, <3>1, <3>2 DEF ReadInTurn
  <2>6. CASE ready[i].ok /\ OnSuccess(<<>>)
    <3>1. state # "STOPPED"
      BY <2>6 DEF OnSuccess, AdvanceExchange, EndExchange, PlainStates, AckStates, DownloadStates
    <3>2. sockOpen
      BY <2>1, <2>6, <3>1 DEF Exchange, ClosedAnswers
    <3> QED
      BY <2>3, <2>4, <2>6, <3>1, <3>2, SuccessInTurn
  <2>7. CASE OnError(<<>>) \/ Discard(<<>>, <<>>, timeouts)
    BY <2>3, <2>7 DEF OnError, Stop, WaitForNextMeasure, FinishSetTime, Discard, ReadInTurn
  <2> QED
    BY <1>3, <2>2, <2>5, <2>6, <2>7 DEF RunIO, HandleIO
<1> QED
  BY <1>1, <1>2, <1>3 DEF RunHandler

\* An operation that completes takes its place among the handlers.
LEMMA CompleteInTurn ==
    ASSUME TypeOK, Exchange, ReadInTurn, HandledInTurn, NEW i \in DOMAIN ops, NEW ok \in BOOLEAN,
           Complete(i, ok),
           \/ ops[i] \in Answers /\ UNCHANGED sent
           \/ ops[i] \in Requests /\ (ok => sent' = ops[i])
    PROVE  ReadInTurn' /\ HandledInTurn'
<1>1. /\ i = 1 /\ ops' = <<>> /\ NoIO
      /\ ops[1] \in SocketOps
      /\ Len(ready) \in Nat /\ DOMAIN ready = 1 .. Len(ready)
      /\ DOMAIN ready' = 1 .. Len(ready) + 1
      /\ \A k \in DOMAIN ready : ready'[k] = ready[k]
      /\ ready'[Len(ready) + 1] = IO(ops[1], ok)
  BY CompleteOnly
<1>2. state' = state /\ ops # <<>>
  BY <1>1 DEF Complete, machineVars
<1>3. ReadInTurn'
  BY <1>1 DEF ReadInTurn
<1> SUFFICES ASSUME NEW k \in DOMAIN ready', state' # "STOPPED", IsIO(ready'[k])
             PROVE  /\ Suits(ready'[k].op, state')
                    /\ ready'[k].op \in Answers => sent' \in AwaitedRequest(state')
                    /\ ready'[k].op \in Requests /\ ready'[k].ok => sent' = ready'[k].op
  BY <1>3 DEF HandledInTurn
<1>4. k = Len(ready) + 1
  BY <1>1 DEF NoIO
<1>5. ready'[k].op = ops[1] /\ ready'[k].ok = ok
  BY <1>1, <1>4 DEF IO
<1> QED
  BY <1>1, <1>2, <1>5, WriteOrRead DEF ReadInTurn

-----------------------------------------------------------------------------
(* The theorems on an undisturbed connector                                 *)

\* The inductive invariant: the conversation is in order while nobody disturbs
\* it, and its answers are read in turn while nothing has held up the loop.
InOrder ==
    Undisturbed =>
        /\ Exchange /\ Counted
        /\ stalls = 0 => ReadInTurn /\ HandledInTurn

\* The commands and the stalls only grow.
LEMMA Disturbances ==
    ASSUME TypeOK, [Next]_vars, Undisturbed'
    PROVE  Undisturbed /\ ~Reload /\ ~ControlStart /\ (stalls' = 0 => stalls = 0)
<1>1. commands \in Nat /\ stalls \in Nat
  BY DEF TypeOK
<1>2. ASSUME UNCHANGED commands, UNCHANGED stalls \/ stalls' = stalls + 1
      PROVE  Undisturbed /\ (stalls' = 0 => stalls = 0)
  BY <1>1, <1>2 DEF Undisturbed
<1>3. ~Reload /\ ~ControlStart
  BY <1>1 DEF Reload, ControlStart, Command, Undisturbed
<1>4. ASSUME NEW i \in DOMAIN ready, RunDeadline(i) \/ RunFlush(i) \/ RunIO(i)
      PROVE  UNCHANGED <<commands, stalls>>
  BY <1>4 DEF RunDeadline, RunFlush, RunIO, envVars
<1>5. ASSUME Start \/ ControlStop \/ RunSetTimeDeadline \/ TimerFires \/ SetTimeTimerExpires
             \/ StationLeaves \/ UNCHANGED vars
      PROVE  UNCHANGED <<commands, stalls>>
  BY <1>5 DEF Start, ControlStop, RunSetTimeDeadline, TimerFires, SetTimeTimerExpires,
     StationLeaves, vars, envVars
<1>6. ASSUME DeadlinePasses \/ WriteCompletes \/ ReadCompletes \/ OperationFails
      PROVE  UNCHANGED commands /\ (UNCHANGED stalls \/ stalls' = stalls + 1)
  BY <1>6 DEF DeadlinePasses, WriteCompletes, ReadCompletes, OperationFails, Stall
<1> QED
  BY <1>2, <1>3, <1>4, <1>5, <1>6 DEF Next

LEMMA InOrderInitially ==
    ASSUME Init
    PROVE  InOrder
<1>1. /\ ops = <<>> /\ waits = <<>> /\ ready = <<>> /\ sockOpen /\ state = "STOPPED"
      /\ silences = 0 /\ timeouts = 0 /\ daemon = "running"
  BY DEF Init
<1>2. NoIO /\ NoFlush /\ Len(ops) = 0 /\ DOMAIN ready = {} /\ DOMAIN waits = {}
  BY <1>1 DEF NoIO, NoFlush
<1>3. Exchange
  BY <1>1, <1>2 DEF Exchange, OneOperation, FlushQueued, FlushWaiting, LateAnswer, RestsAlone,
     ClosedAnswers, ClosedFailsFirst, OperationSuits, PagesExpected, AckOnlyStoredPages, Running
<1>4. Counted
  BY <1>1, ConstantsAssumption DEF ConstantsAssumption, Counted
<1>5. ReadInTurn /\ HandledInTurn
  BY <1>1, <1>2 DEF ReadInTurn, HandledInTurn
<1> QED
  BY <1>3, <1>4, <1>5 DEF InOrder

LEMMA StartInOrder ==
    ASSUME TypeOK, Exchange, Counted, MaxTimeouts >= 2, Start
    PROVE  Exchange' /\ Counted' /\ ReadInTurn' /\ HandledInTurn'
<1>1. /\ ops = <<>> /\ ready = <<>> /\ ready' = <<>> /\ state = "STOPPED" /\ sockOpen
      /\ Go("SENDING_WAKE_UP_STATION", <<>>)
      /\ UNCHANGED <<daemon, timeouts, silences>>
  BY DEF Start, Alive
<1>2. "SENDING_WAKE_UP_STATION" \in GoingStates
  BY DEF GoingStates, State, RetriedStates
<1>3. NoIO' /\ NoFlush'
  BY <1>1 DEF NoIO, NoFlush
<1>4. Tidy' /\ Running'
  BY <1>1, <1>2, GoTidy DEF GoingStates, Exchange, Running
<1>5. Exchange'
  BY <1>3, <1>4, SettledExchange
<1>6. Counted'
  <2>1. state' = "SENDING_WAKE_UP_STATION" /\ timeouts' = 0 /\ silences' = 0
    BY <1>1 DEF Go, Enter, Counted
  <2>2. MaxTimeouts \in Nat /\ 2 * 0 <= 0 + 1 /\ 2 * 0 <= MaxTimeouts + 2
    BY NoSilence, ConstantsAssumption DEF ConstantsAssumption
  <2> QED
    BY <2>1, <2>2 DEF Counted
<1>7. ReadInTurn'
  BY <1>1, <1>2, GoInTurn DEF Operation, Answers
<1> QED
  BY <1>3, <1>5, <1>6, <1>7 DEF HandledInTurn, NoIO

\* The steps that leave the conversation as it is.
LEMMA QuietInOrder ==
    ASSUME Exchange, Counted, stalls = 0 => ReadInTurn /\ HandledInTurn,
           RunSetTimeDeadline \/ SetTimeTimerExpires \/ StationLeaves \/ UNCHANGED vars
    PROVE  Exchange' /\ Counted' /\ (stalls' = 0 => ReadInTurn' /\ HandledInTurn')
<1>1. UNCHANGED <<state, sockOpen, timeouts, pagesLeft, expired, waits, ops, ready, stalls, daemon,
                  sent, pageStored, silences>>
  BY DEF RunSetTimeDeadline, SetTimeTimerExpires, StationLeaves, vars, machineVars, bufferVars,
     asioVars, envVars, historyVars
<1>2. (NoIO' <=> NoIO) /\ (NoFlush' <=> NoFlush)
  BY <1>1 DEF NoIO, NoFlush
<1>3. OneOperation' /\ FlushQueued' /\ FlushWaiting'
  BY <1>1, <1>2 DEF Exchange, OneOperation, FlushQueued, FlushWaiting, Flushing
<1>4. LateAnswer' /\ RestsAlone' /\ ClosedAnswers' /\ ClosedFailsFirst' /\ OperationSuits'
  BY <1>1, <1>2 DEF Exchange, LateAnswer, RestsAlone, ClosedAnswers, ClosedFailsFirst, OperationSuits
<1>5. Exchange'
  BY <1>1, <1>3, <1>4 DEF Exchange, PagesExpected, AckOnlyStoredPages, Running
<1> QED
  BY <1>1, <1>5 DEF Counted, ReadInTurn, HandledInTurn

\* Time and the kernel do not count timeouts, and complete in turn.
LEMMA KernelInOrder ==
    ASSUME TypeOK, Workers = 1, Exchange, Counted, stalls = 0 => ReadInTurn /\ HandledInTurn,
           stalls' = 0 => stalls = 0, Undisturbed',
           DeadlinePasses \/ TimerFires \/ WriteCompletes \/ ReadCompletes \/ OperationFails
    PROVE  Exchange' /\ Counted' /\ (stalls' = 0 => ReadInTurn' /\ HandledInTurn')
<1>1. Exchange'
  BY PassExchange, TimerExchange, WriteExchange, ReadExchange, FailExchange
<1>2. UNCHANGED <<state, sockOpen, timeouts, silences>>
  BY DEF DeadlinePasses, TimerFires, WriteCompletes, ReadCompletes, OperationFails, Complete,
     machineVars, historyVars
<1>3. Counted'
  BY <1>2 DEF Counted
<1>4. ASSUME stalls' = 0 PROVE ReadInTurn' /\ HandledInTurn'
  <2>1. ReadInTurn /\ HandledInTurn
    BY <1>4
  <2>2. CASE DeadlinePasses
    BY <1>2, <2>1, <2>2 DEF DeadlinePasses, historyVars, ReadInTurn, HandledInTurn
  <2>3. CASE TimerFires
    <3>1. /\ ready' = ready \o waits /\ ready \in Seq(Handlers) /\ waits \in Seq(Handlers)
          /\ UNCHANGED <<ops, sent>>
      BY <2>3 DEF TimerFires, TypeOK, historyVars
    <3>2. \A k \in DOMAIN ready' :
             \/ k \in DOMAIN ready /\ ready'[k] = ready[k]
             \/ \E j \in DOMAIN waits : ready'[k] = waits[j]
      <4> SUFFICES ASSUME NEW k \in DOMAIN ready', k \notin DOMAIN ready
                   PROVE  k - Len(ready) \in DOMAIN waits /\ ready'[k] = waits[k - Len(ready)]
        BY <3>1
      <4> QED
        BY <3>1
    <3>3. \A k \in DOMAIN ready' : IsIO(ready'[k]) => k \in DOMAIN ready /\ ready'[k] = ready[k]
      BY <3>2 DEF Exchange, OneOperation
    <3> QED
      BY <1>2, <2>1, <3>1, <3>3 DEF ReadInTurn, HandledInTurn
  <2>4. CASE WriteCompletes
    BY <2>1, <2>4, CompleteInTurn DEF WriteCompletes, Oldest
  <2>5. CASE ReadCompletes
    BY <2>1, <2>5, CompleteInTurn DEF ReadCompletes, Oldest
  <2>6. CASE OperationFails
    BY <2>1, <2>6, CompleteInTurn DEF OperationFails, Oldest
  <2> QED
    BY <2>2, <2>3, <2>4, <2>5, <2>6
<1> QED
  BY <1>1, <1>3, <1>4

LEMMA StepInOrder ==
    ASSUME Workers = 1, ~MayStop, MaxTimeouts >= 2, IInv, InOrder, [Next]_vars
    PROVE  InOrder'
<1> SUFFICES ASSUME Undisturbed'
             PROVE  Exchange' /\ Counted' /\ (stalls' = 0 => ReadInTurn' /\ HandledInTurn')
  BY DEF InOrder
<1>1. TypeOK /\ StoppedIsIdle
  BY DEF IInv
<1>2. Undisturbed /\ ~Reload /\ ~ControlStart /\ (stalls' = 0 => stalls = 0)
  BY <1>1, Disturbances
<1>3. Exchange /\ Counted /\ (stalls = 0 => ReadInTurn /\ HandledInTurn)
  BY <1>2 DEF InOrder
<1>4. ~ControlStop
  BY DEF ControlStop
<1>5. CASE Start
  BY <1>1, <1>3, <1>5, StartInOrder
<1>6. ASSUME NEW i \in DOMAIN ready, RunHandler(i)
      PROVE  Exchange' /\ Counted' /\ (stalls' = 0 => ReadInTurn' /\ HandledInTurn')
  <2>1. Exchange'
    BY <1>1, <1>2, <1>3, <1>6, DeadlineExchange, FlushExchange, IOExchange DEF RunHandler
  <2> QED
    BY <1>1, <1>2, <1>3, <1>6, <2>1, HandlersCounted, HandlersInTurn
<1>7. CASE RunSetTimeDeadline \/ SetTimeTimerExpires \/ StationLeaves \/ UNCHANGED vars
  BY <1>3, <1>7, QuietInOrder
<1>8. CASE DeadlinePasses \/ TimerFires \/ WriteCompletes \/ ReadCompletes \/ OperationFails
  BY <1>1, <1>2, <1>3, <1>8, KernelInOrder
<1> QED
  BY <1>2, <1>4, <1>5, <1>6, <1>7, <1>8 DEF Next, RunHandler

\* The operations under way, each as the handler it will queue: as many
\* handlers, before those that are queued already.
LEMMA Ending ==
    ASSUME NEW o \in Seq(SocketOps), NEW r \in Seq(Handlers)
    PROVE  LET pending == [k \in DOMAIN o |-> IO(o[k], TRUE)]
           IN  \A n \in 1 .. Len(o) + Len(r) :
                 IF n <= Len(o) THEN (pending \o r)[n] = IO(o[n], TRUE)
                                ELSE n - Len(o) \in DOMAIN r /\ (pending \o r)[n] = r[n - Len(o)]
<1> DEFINE h(k) == IO(o[k], TRUE)
           pending == [k \in 1 .. Len(o) |-> h(k)]
<1>1. \A k \in 1 .. Len(o) : o[k] \in SocketOps
  OBVIOUS
<1>2. \A k \in 1 .. Len(o) : h(k) \in Handlers
  BY <1>1, HandlersRegistered
<1>3. Len(o) \in Nat /\ DOMAIN o = 1 .. Len(o)
  OBVIOUS
<1> HIDE DEF h
<1>4. pending \in Seq(Handlers) /\ Len(pending) = Len(o)
  <2>1. pending \in [1 .. Len(o) -> Handlers]
    BY <1>2
  <2> QED
    BY <1>3, <2>1
<1>5. \A k \in 1 .. Len(o) : pending[k] = h(k)
  OBVIOUS
<1>6. ASSUME NEW p \in Seq(Handlers), Len(p) = Len(o), \A k \in 1 .. Len(o) : p[k] = h(k)
      PROVE  \A n \in 1 .. Len(o) + Len(r) :
                 IF n <= Len(o) THEN (p \o r)[n] = h(n)
                                ELSE n - Len(o) \in DOMAIN r /\ (p \o r)[n] = r[n - Len(o)]
  BY <1>3, <1>6
<1>7. \A n \in 1 .. Len(o) + Len(r) :
         IF n <= Len(o) THEN (pending \o r)[n] = h(n)
                        ELSE n - Len(o) \in DOMAIN r /\ (pending \o r)[n] = r[n - Len(o)]
  <2> HIDE DEF pending
  <2> QED
    BY <1>4, <1>5, <1>6
<1> QED
  BY <1>3, <1>7 DEF h

\* What the invariant says of the run's properties.
LEMMA OrderMeans ==
    ASSUME TypeOK, InOrder, Undisturbed
    PROVE  /\ SingleOperation /\ PagesExpected /\ AckOnlyStoredPages /\ DaemonSurvives
           /\ SilenceBounded /\ AnswerFollowsRequest
<1>1. Exchange /\ Counted /\ (stalls = 0 => ReadInTurn /\ HandledInTurn)
  BY DEF InOrder
<1>2. PagesExpected /\ AckOnlyStoredPages /\ DaemonSurvives
  BY <1>1 DEF Exchange, DaemonSurvives
<1>3. SilenceBounded
  <2>1. silences \in Nat /\ MaxTimeouts \in Nat /\ 2 * silences <= MaxTimeouts + 2
    BY <1>1, ConstantsAssumption DEF TypeOK, Counted, ConstantsAssumption
  <2> QED
    BY <2>1 DEF SilenceBounded
<1>4. AnswerFollowsRequest
  <2> SUFFICES ASSUME stalls = 0, NEW i \in DOMAIN ops, ops[i] \in Answers
               PROVE  sent \in AwaitedRequest(state)
    BY DEF AnswerFollowsRequest
  <2>1. ops \in Seq(SocketOps) /\ Len(ops) <= 1
    BY <1>1 DEF TypeOK, SocketOps, Exchange, OneOperation
  <2>2. i = 1 /\ ops # <<>>
    BY <2>1
  <2>3. state = "STOPPED" => AwaitedRequest(state) = Requests \cup {"none"}
    BY DEF AwaitedRequest
  <2> QED
    BY <1>1, <2>2, <2>3 DEF ReadInTurn, TypeOK
<1>5. SingleOperation
  <2> DEFINE pending == [k \in DOMAIN ops |-> IO(ops[k], TRUE)]
             both == pending \o ready
  <2> SUFFICES ASSUME NEW i \in 1 .. Len(ops) + Len(ready), NEW j \in 1 .. Len(ops) + Len(ready),
                      both[i].type = "io", both[j].type = "io"
               PROVE  i = j
    BY DEF SingleOperation
  <2>1. ops \in Seq(SocketOps) /\ ready \in Seq(Handlers) /\ Len(ops) <= 1
    BY <1>1 DEF TypeOK, SocketOps, Exchange, OneOperation
  <2>2. \A n \in 1 .. Len(ops) + Len(ready) : n > Len(ops) =>
            n - Len(ops) \in DOMAIN ready /\ both[n] = ready[n - Len(ops)]
    <3>1. Len(ops) \in Nat
      BY <2>1
    <3>2. \A n \in 1 .. Len(ops) + Len(ready) :
             IF n <= Len(ops) THEN both[n] = IO(ops[n], TRUE)
                              ELSE n - Len(ops) \in DOMAIN ready /\ both[n] = ready[n - Len(ops)]
      BY <2>1, Ending, Zenon
    <3>3. \A n \in 1 .. Len(ops) + Len(ready) : n > Len(ops) => ~(n <= Len(ops))
      BY <2>1, <3>1
    <3> HIDE DEF both, pending
    <3> QED
      BY <3>2, <3>3, Zenon
  <2> HIDE DEF both
  <2>3. CASE ops = <<>>
    <3>1. both[i] = ready[i] /\ both[j] = ready[j] /\ i \in DOMAIN ready /\ j \in DOMAIN ready
      BY <2>1, <2>2, <2>3
    <3> QED
      BY <1>1, <3>1 DEF Exchange, OneOperation, IsIO
  <2>4. CASE ops # <<>>
    <3>1. \A k \in 1 .. Len(ready) : ready[k].type # "io"
      BY <1>1, <2>1, <2>4 DEF Exchange, OneOperation, NoIO, IsIO
    <3>2. ASSUME NEW n \in 1 .. Len(ops) + Len(ready), both[n].type = "io" PROVE n = 1
      <4>1. ~(n > Len(ops))
        BY <2>1, <2>2, <3>1, <3>2
      <4> QED
        BY <2>1, <2>2, <4>1
    <3> QED
      BY <3>2
  <2> QED
    BY <2>3, <2>4
<1> QED
  BY <1>2, <1>3, <1>4, <1>5

-----------------------------------------------------------------------------
(* With the one worker daemon.cpp starts by default, no stop from the       *)
(* control socket, and at least two timeouts before giving up (the code's   *)
(* limit is 5).                                                             *)

LEMMA AlwaysInOrder ==
    ASSUME Workers = 1, ~MayStop, MaxTimeouts >= 2
    PROVE  Spec => [](TypeOK /\ InOrder)
<1>1. Init => InOrder
  BY InOrderInitially
<1>2. IInv /\ InOrder /\ [Next]_vars => InOrder'
  BY StepInOrder
<1>3. IInv => TypeOK
  BY DEF IInv
<1> QED
  BY <1>1, <1>2, <1>3, AlwaysIInv, PTL DEF Spec

\* The connector never has two operations of its station under way or
\* completed and not handled, so no answer is taken for that of another request.
THEOREM OneOperationAtATime ==
    ASSUME Workers = 1, ~MayStop, MaxTimeouts >= 2
    PROVE  Spec => [](Undisturbed => SingleOperation)
<1>1. TypeOK /\ InOrder => (Undisturbed => SingleOperation)
  BY OrderMeans
<1> QED
  BY <1>1, AlwaysInOrder, PTL

\* The count of pages left is positive while a page is waited for: it is
\* never decremented below zero, whatever the station sends.
THEOREM PagesAreExpected ==
    ASSUME Workers = 1, ~MayStop, MaxTimeouts >= 2
    PROVE  Spec => [](Undisturbed => PagesExpected)
<1>1. TypeOK /\ InOrder => (Undisturbed => PagesExpected)
  BY OrderMeans
<1> QED
  BY <1>1, AlwaysInOrder, PTL

\* A page the database refused is never acknowledged to the station.
THEOREM AcksStoredPagesOnly ==
    ASSUME Workers = 1, ~MayStop, MaxTimeouts >= 2
    PROVE  Spec => [](Undisturbed => AckOnlyStoredPages)
<1>1. TypeOK /\ InOrder => (Undisturbed => AckOnlyStoredPages)
  BY OrderMeans
<1> QED
  BY <1>1, AlwaysInOrder, PTL

\* No flush meets a socket its connector has closed, so no exception of a
\* handler ends the daemon.
THEOREM DaemonNeverThrows ==
    ASSUME Workers = 1, ~MayStop, MaxTimeouts >= 2
    PROVE  Spec => [](Undisturbed => DaemonSurvives)
<1>1. TypeOK /\ InOrder => (Undisturbed => DaemonSurvives)
  BY OrderMeans
<1> QED
  BY <1>1, AlwaysInOrder, PTL

\* A silent station is given up after a bounded number of operations,
\* whatever the limit of timeouts.
THEOREM SilenceIsBounded ==
    ASSUME Workers = 1, ~MayStop, MaxTimeouts >= 2
    PROVE  Spec => [](Undisturbed => SilenceBounded)
<1>1. TypeOK /\ InOrder => (Undisturbed => SilenceBounded)
  BY OrderMeans
<1> QED
  BY <1>1, AlwaysInOrder, PTL

\* As long as the event loop is on time, an answer is only read after the
\* request it answers has been sent.
THEOREM AnswersInTurn ==
    ASSUME Workers = 1, ~MayStop, MaxTimeouts >= 2
    PROVE  Spec => [](Undisturbed => AnswerFollowsRequest)
<1>1. TypeOK /\ InOrder => (Undisturbed => AnswerFollowsRequest)
  BY OrderMeans
<1> QED
  BY <1>1, AlwaysInOrder, PTL

===============================================================================
