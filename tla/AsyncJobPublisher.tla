-------------------------- MODULE AsyncJobPublisher --------------------------
(***************************************************************************)
(* AsyncJobPublisher (async_job_publisher.cpp): the requests to recompute  *)
(* the climatology of past data are debounced per station for a minute,    *)
(* then written as two jobs in the jobs database.                          *)
(*                                                                         *)
(* The handler of the timer captures its station by reference.  Where the  *)
(* caller's key does not outlive the wait (the HTTP handlers pass a local  *)
(* variable) the handler reads whatever the memory holds by then.          *)
(*                                                                         *)
(* Both operations hold _mutex throughout: each is one step.               *)
(***************************************************************************)
EXTENDS Integers

CONSTANTS
    Stations,
    Lasting,        \* stations whose callers keep the key alive
    NoStation,      \* a key that is no station's
    MaxTime,        \* bound: times of the data
    DayLength,      \* times in a day
    MaxRequests,    \* bound: requests
    MaxFailures,    \* bound: exceptions thrown by the jobs database
    MaxRestarts     \* bound: exits of the daemon

ASSUME ConstantsAssumption ==
    /\ Lasting \subseteq Stations
    /\ NoStation \notin Stations
    /\ MaxTime \in Nat
    /\ DayLength \in Nat \ {0}
    /\ MaxRequests \in Nat /\ MaxFailures \in Nat /\ MaxRestarts \in Nat

VARIABLES
    debouncing, \* _debouncing: the span of each station that has an entry
    waiting,    \* stations whose entry's timer has a wait registered
    queued,     \* handlers of a timer that are over and queued, by captured key
    jobs,       \* the jobs database
    today,      \* the current day
    abandoned,  \* history: the last publication of the entry threw
    owed,       \* history: times requested and not yet published
    requests, failures, restarts

boundVars == <<requests, failures, restarts>>
vars == <<debouncing, waiting, queued, jobs, today, abandoned, owed, boundVars>>

Times == 0 .. MaxTime
Day(t) == t \div DayLength
LastDay == Day(MaxTime) + 1

Span(b, e) == [begin |-> b, end |-> e]
HasEntry(s) == s \in DOMAIN debouncing
Job(kind, s, b, e) == [kind |-> kind, station |-> s, begin |-> b, end |-> e]

-----------------------------------------------------------------------------
\* (A fault used as a mutant: the last request wins.)
Latest(a, b) == b
Lowest(a, b) == IF b < a THEN b ELSE a
Highest(a, b) == IF b > a THEN b ELSE a


Merged(old, b, e) == Span(Lowest(old.begin, b), Highest(old.end, e))

\* The first test of publishJobsForPastDataInsertion, and the fault of
\* accepting the data of the day.
AcceptableToday(b, e) == b <= e /\ Day(b) <= today
Acceptable(b, e) == b <= e /\ Day(b) < today

\* resetTimer, and the fault of leaving the cancelled timer alone.
CancelOnly(s) == waiting' = waiting \ {s}
ResetTimer(s) == waiting' = waiting \cup {s}

\* publishJobsForPastDataInsertion: what is not in the past, or empty, is
\* ignored; the timer of the entry is created or restarted.
Request(s, b, e) ==
    /\ Acceptable(b, e)
    /\ requests < MaxRequests
    /\ debouncing' = [x \in DOMAIN debouncing \cup {s} |->
                        IF x # s THEN debouncing[x]
                        ELSE IF HasEntry(s) THEN Merged(debouncing[s], b, e) ELSE Span(b, e)]
    /\ ResetTimer(s)
    /\ abandoned' = abandoned \ {s}
    /\ owed' = [owed EXCEPT ![s] = @ \cup (b .. e)]
    /\ requests' = requests + 1
    /\ UNCHANGED <<queued, jobs, today, failures, restarts>>

\* A minute has passed.  The handler is queued: cancelling does not stop it.
TimerExpires(s) ==
    /\ s \in waiting
    /\ waiting' = waiting \ {s}
    /\ queued' = [queued EXCEPT ![s] = @ + 1]
    /\ UNCHANGED <<debouncing, jobs, today, abandoned, owed, boundVars>>

-----------------------------------------------------------------------------
(* doPublish, run by the handler.  k: the key the handler reads.            *)

\* (A fault: no caller's key lasts.)
AnyKey(s) == Stations \cup {NoStation}
KeyRead(s) == IF s \in Lasting THEN {s} ELSE Stations \cup {NoStation}

Dequeue(s) ==
    /\ queued[s] > 0
    /\ queued' = [queued EXCEPT ![s] = @ - 1]

NothingToPublish(k) ==
    /\ ~HasEntry(k)
    /\ UNCHANGED <<debouncing, waiting, jobs, abandoned, owed, failures>>

\* (A fault: the entry outlives its publication.)
KeepEntry(k) == UNCHANGED debouncing
Erase(k) == debouncing' = [x \in DOMAIN debouncing \ {k} |-> debouncing[x]]

InThePast(k) == Day(debouncing[k].begin) < today

Publish(k) ==
    /\ HasEntry(k)
    /\ waiting' = waiting \ {k}
    /\ Erase(k)
    /\ IF InThePast(k)
       THEN jobs' = jobs \cup {Job(kind, k, debouncing[k].begin, debouncing[k].end) :
                                kind \in {"minmax", "anomaly"}}
       ELSE jobs' = jobs
    /\ owed' = [owed EXCEPT ![k] = {}]
    /\ UNCHANGED <<abandoned, failures>>

\* publishMinmax or publishAnomalyMonitoring throws: the entry stays, its
\* timer is cancelled, and nothing waits until the next request.
PublishFails(k) ==
    /\ HasEntry(k) /\ InThePast(k)
    /\ failures < MaxFailures
    /\ failures' = failures + 1
    /\ waiting' = waiting \ {k}
    /\ \/ UNCHANGED jobs
       \/ jobs' = jobs \cup {Job("minmax", k, debouncing[k].begin, debouncing[k].end)}
    /\ abandoned' = abandoned \cup {k}
    /\ UNCHANGED <<debouncing, owed>>

RunHandler(s) ==
    /\ Dequeue(s)
    /\ \E k \in KeyRead(s) : NothingToPublish(k) \/ Publish(k) \/ PublishFails(k)
    /\ UNCHANGED <<today, requests, restarts>>

-----------------------------------------------------------------------------
\* The daemon exits and is started again: the map is lost.
Restart ==
    /\ restarts < MaxRestarts
    /\ restarts' = restarts + 1
    /\ debouncing' = [s \in {} |-> Span(0, 0)]
    /\ waiting' = {}
    /\ queued' = [s \in Stations |-> 0]
    /\ abandoned' = {}
    /\ owed' = [s \in Stations |-> {}]
    /\ UNCHANGED <<jobs, today, requests, failures>>

NewDay ==
    /\ today < LastDay
    /\ today' = today + 1
    /\ UNCHANGED <<debouncing, waiting, queued, jobs, abandoned, owed, boundVars>>

Init ==
    /\ debouncing = [s \in {} |-> Span(0, 0)]
    /\ waiting = {}
    /\ queued = [s \in Stations |-> 0]
    /\ jobs = {}
    /\ today = 1
    /\ abandoned = {}
    /\ owed = [s \in Stations |-> {}]
    /\ requests = 0 /\ failures = 0 /\ restarts = 0

Next ==
    \/ \E s \in Stations, b, e \in Times : Request(s, b, e)
    \/ \E s \in Stations : TimerExpires(s)
    \/ \E s \in Stations : RunHandler(s)
    \/ Restart
    \/ NewDay

Spec == Init /\ [][Next]_vars

\* Timers expire and the io_context runs their handlers.
Fairness ==
    \A s \in Stations : WF_vars(TimerExpires(s)) /\ WF_vars(RunHandler(s))

FairSpec == Spec /\ Fairness

-----------------------------------------------------------------------------
(* Properties *)

\* Every variable has its type.
TypeOK ==
    /\ DOMAIN debouncing \subseteq Stations
    /\ debouncing \in [DOMAIN debouncing -> [begin : Times, end : Times]]
    /\ waiting \subseteq Stations
    /\ queued \in [Stations -> Nat]
    /\ jobs \subseteq [kind : {"minmax", "anomaly"}, station : Stations, begin : Times, end : Times]
    /\ today \in Nat
    /\ abandoned \subseteq Stations
    /\ owed \in [Stations -> SUBSET Times]
    /\ requests \in Nat /\ failures \in Nat /\ restarts \in Nat

\* An entry of the map is never forgotten: its timer is running, or a handler
\* that will publish it is queued, or its publication has thrown.  A stale
\* handler, whose timer was restarted after it was queued, publishes the
\* entry early and cancels the new wait, never half of this.
EntryWatched ==
    \A s \in DOMAIN debouncing \cap Lasting :
        s \in waiting \/ queued[s] > 0 \/ s \in abandoned

\* The entry is exactly the span of the requests not yet published, and
\* there is one as long as something is owed: merging and erasing under stale
\* handlers loses and invents nothing.
EntryIsSpan ==
    \A s \in Stations :
        IF HasEntry(s)
        THEN /\ debouncing[s].begin \in owed[s] /\ debouncing[s].end \in owed[s]
             /\ owed[s] \subseteq debouncing[s].begin .. debouncing[s].end
        ELSE owed[s] = {}

\* An entry is in the past when it is published: the second test of doPublish
\* drops nothing that was accepted.
AcceptedStaysPast == \A s \in DOMAIN debouncing : InThePast(s)

Promise == INSTANCE PastDataJobs

\* The publisher implements the promise, whatever key its handlers read.
KeepsPromise == Promise!Spec

\* What is requested for a station whose key lasts is published a minute
\* after its last request, unless the database throws or the daemon exits.
RequestsPublished ==
    \A s \in Lasting, t \in Times : t \in owed[s] ~> t \notin owed[s] \/ s \in abandoned

=============================================================================
