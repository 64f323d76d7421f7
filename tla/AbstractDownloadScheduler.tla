----------------------- MODULE AbstractDownloadScheduler -----------------------
(***************************************************************************)
(* AbstractDownloadScheduler (abstract_download_scheduler.cpp), the base   *)
(* of the nine schedulers that download from the stations' web sites: a    *)
(* timer rings Offset after each multiple of Period on the clock, and its  *)
(* handler downloads, which blocks the thread that runs it.                *)
(*                                                                         *)
(* Cancelling the timer does not stop a handler already queued with        *)
(* success: it finds the deadline moved (a spurious call, it waits again)  *)
(* or still expired (it downloads).  The commands come from the control    *)
(* connector, which finds the scheduler by a weak pointer: only the        *)
(* handlers keep it alive.                                                 *)
(***************************************************************************)
EXTENDS Integers

CONSTANTS
    Workers,    \* threads that run the io_context
    Period,     \* _period
    Offset,     \* _offset
    MaxCommands \* bound: starts and reloads after the first start

ASSUME SchedulerAssumption ==
    /\ Workers \in Nat \ {0}
    /\ Period \in Nat \ {0}
    /\ Offset \in Nat
    /\ MaxCommands \in Nat

VARIABLES
    now,        \* the clock, modulo two periods
    mustStop,   \* _mustStop
    left,       \* time to the deadline of _timer, 0 once it has passed
    waits,      \* waits registered on _timer
    ready,     \* handlers queued with success
    cancelled,  \* handlers queued with operation_canceled
    running,    \* downloads being run
    fresh,      \* history: a slot has come since a download was last begun
    late,       \* history: downloads begun since stop
    commands    \* starts and reloads

schedulerVars == <<now, mustStop, left, waits, ready, cancelled, running, fresh, late, commands>>

\* shared_from_this(), captured by each handler.
Alive == waits + ready + cancelled + running > 0
Idle == running < Workers

-----------------------------------------------------------------------------
\* Time to the next download.
TimeToNext == Period - (now % Period) + Offset

Cancel ==
    /\ cancelled' = cancelled + waits
    /\ waits' = 0

\* (Faults used as mutants: no wait on the new deadline; waiting even if
\* stopped.)
SetDeadlineOnly == left' = TimeToNext /\ Cancel
SetDeadline ==
    /\ left' = TimeToNext
    /\ cancelled' = cancelled + waits
    /\ waits' = 1

\* waitUntilNextDownload, when the flag is (or is being set to) stopping.
WaitEvenStopped(stopping) == SetDeadline
WaitUntilNext(stopping) ==
    IF stopping THEN UNCHANGED <<left, waits, cancelled>> ELSE SetDeadline

-----------------------------------------------------------------------------
(* Commands, run by handlers of the control connector.                      *)

Command ==
    /\ Alive /\ Idle
    /\ commands < MaxCommands
    /\ commands' = commands + 1

Start ==
    /\ Command
    /\ mustStop' = FALSE
    /\ late' = 0
    /\ WaitUntilNext(FALSE)
    /\ UNCHANGED <<now, ready, running, fresh>>

Reload ==
    /\ Command
    /\ IF mustStop THEN Cancel /\ UNCHANGED left ELSE SetDeadline
    /\ UNCHANGED <<now, mustStop, ready, running, fresh, late>>

Stop ==
    /\ Alive /\ Idle
    /\ mustStop' = TRUE
    /\ Cancel
    /\ UNCHANGED <<now, left, ready, running, fresh, late, commands>>

-----------------------------------------------------------------------------
(* checkDeadline                                                            *)

Bail ==
    /\ cancelled > 0 /\ Idle
    /\ cancelled' = cancelled - 1
    /\ UNCHANGED <<now, mustStop, left, waits, ready, running, fresh, late, commands>>

\* (Faults used as mutants: every call is taken for the deadline, or none.)
DueAnyway == TRUE
NeverDue == left < 0
Due == left = 0

BeginDownload ==
    /\ ready > 0 /\ Idle
    /\ Due
    /\ ready' = ready - 1
    /\ running' = running + 1
    /\ fresh' = FALSE
    /\ late' = IF mustStop THEN late + 1 ELSE 0
    /\ UNCHANGED <<now, mustStop, left, waits, cancelled, commands>>

WaitAgain ==
    /\ ready > 0 /\ Idle
    /\ ~Due
    /\ ready' = ready - 1
    /\ waits' = waits + 1
    /\ UNCHANGED <<now, mustStop, left, cancelled, running, fresh, late, commands>>

CheckDeadline == BeginDownload \/ WaitAgain

\* download() returns, or throws a runtime_error, which is caught.  (A fault
\* used as a mutant: the error skips the wait.)
GiveUp ==
    /\ running > 0
    /\ running' = running - 1
    /\ UNCHANGED <<now, mustStop, left, waits, ready, cancelled, fresh, late, commands>>
EndDownload ==
    /\ running > 0
    /\ running' = running - 1
    /\ WaitUntilNext(mustStop)
    /\ UNCHANGED <<now, mustStop, ready, fresh, late, commands>>

-----------------------------------------------------------------------------
(* The clock and the timer                                                  *)

Tick ==
    /\ now' = (now + 1) % (2 * Period)
    /\ left' = IF left > 0 THEN left - 1 ELSE 0
    /\ fresh' = (fresh \/ now' % Period = Offset % Period)
    /\ UNCHANGED <<mustStop, waits, ready, cancelled, running, late, commands>>

TimerFires ==
    /\ waits > 0 /\ left = 0
    /\ ready' = ready + waits
    /\ waits' = 0
    /\ UNCHANGED <<now, mustStop, left, cancelled, running, fresh, late, commands>>

\* The server has built the scheduler and started it.
SchedulerInit ==
    /\ now \in 0 .. 2 * Period - 1
    /\ mustStop = FALSE
    /\ left = TimeToNext
    /\ waits = 1
    /\ ready = 0 /\ cancelled = 0 /\ running = 0
    /\ fresh = FALSE
    /\ late = 0
    /\ commands = 0

SchedulerNext ==
    \/ Start \/ Reload \/ Stop
    \/ Bail \/ CheckDeadline \/ EndDownload
    \/ Tick \/ TimerFires

SchedulerSpec == SchedulerInit /\ [][SchedulerNext]_schedulerVars

\* Time passes, timers ring, downloads end (their requests have timeouts) and
\* the io_context runs what is queued.  Nobody has to type a command.
SchedulerFairness ==
    /\ WF_schedulerVars(Tick) /\ WF_schedulerVars(TimerFires)
    /\ WF_schedulerVars(Bail) /\ WF_schedulerVars(CheckDeadline) /\ WF_schedulerVars(EndDownload)

SchedulerFairSpec == SchedulerSpec /\ SchedulerFairness

-----------------------------------------------------------------------------
(* Properties                                                               *)

\* Every variable has its type; the time to the deadline is at most a period
\* and the offset.
SchedulerTypeOK ==
    /\ now \in 0 .. 2 * Period - 1
    /\ mustStop \in BOOLEAN
    /\ left \in 0 .. Period + Offset
    /\ waits \in Nat /\ ready \in Nat /\ cancelled \in Nat
    /\ running \in 0 .. Workers
    /\ fresh \in BOOLEAN
    /\ late \in Nat
    /\ commands \in 0 .. MaxCommands

\* A started scheduler is never forgotten: whatever the commands cancel under
\* queued handlers, there is a wait, a handler that will look at the deadline
\* or a download that will wait for the next.
NeverForgotten == ~mustStop => waits + ready + running > 0

\* Each command leaves at most one stray handler behind it, and a stray handler
\* survives the stop: a stopped scheduler downloads no more than once for each
\* command it was ever given, and once for its first start.
StopIsSoon == late <= 1 + commands

\* One thread downloads at most once for each slot of the clock, however many
\* stray handlers are queued for it, unless it is stopped.
OneDownloadPerSlot == [][running' > running => fresh \/ mustStop]_schedulerVars

\* A scheduler that is not stopped downloads again and again.
DownloadsRepeat == []<>(mustStop \/ running > 0)

\* A stopped scheduler is released, even if a stray handler has begun to wait
\* for the deadline after the stop.
StoppedIsReleased == mustStop ~> (~Alive \/ ~mustStop)

=============================================================================
