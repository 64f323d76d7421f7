----------------------------- MODULE Climatology -----------------------------
(***************************************************************************)
(* The daily and monthly values of a station, computed anew by two daemons *)
(* each time observations of past days come in, from the jobs the publisher*)
(* queues, or by hand.  The row of a day holds its rain, and that since    *)
(* the beginnings of the month and of the year, which are computed from    *)
(* the rows of the day before and of the last day of the month before: the *)
(* order of the jobs matters.  All the days are of one year.               *)
(***************************************************************************)
EXTENDS Sums, Sequences, FiniteSetsExt

CONSTANTS
    LastDay,        \* the days are 1..LastDay
    MonthLength,    \* in days
    MaxNews,        \* how often observations come
    MaxFailures,      \* refused insertions, failed reads and crashes
    MaxRuns,        \* of the tools run by hand
    Nothing         \* no value

ASSUME ClimatologyAssumption ==
    /\ {LastDay, MonthLength} \subseteq Nat \ {0}
    /\ {MaxNews, MaxFailures, MaxRuns} \subseteq Nat
    /\ Nothing \notin Int

VARIABLES
    today,
    observed,       \* day -> rain
    daily,          \* day -> its row
    stale,          \* the days whose row is older than that of the day before
    monthly,        \* month -> rain
    jobs, monthJobs,    \* the queues, of [begin, end]
    running,        \* the job that is computed and not marked
    turned,         \* months a job, and no tool since, has computed days of once they were over
    unsure,         \* days a job has failed to compute
    news, failures, runs
climVars == <<today, observed, daily, stale, monthly, jobs, monthJobs, running,
              turned, unsure, news, failures, runs>>

Days == 1..LastDay
Month(d) == 1 + (d - 1) \div MonthLength
DaysOf(month) == {d \in Days : Month(d) = month}
WrongBeginning(d) == MonthLength * (Month(d) - 1) + 1
BeginningOfMonth(d) == MonthLength * (Month(d) - 1)
Idle == [begin |-> 1, end |-> 0, state |-> "idle"]

-----------------------------------------------------------------------------
(* MinmaxComputer                                                           *)

Plus(a, b) == IF Nothing \in {a, b} THEN Nothing ELSE a + b
Minus(a, b) == IF Nothing \in {a, b} THEN Nothing ELSE a - b

\* getYearlyValues: whether there is a row, and its rain since the new year.
HasYearly(rows, d, fault, kind) == d \in DOMAIN rows /\ fault # kind
YearRain(rows, d, fault) ==
    IF d = 1 THEN observed[d]
    ELSE IF HasYearly(rows, d - 1, fault, "yesterday") THEN Plus(observed[d], rows[d - 1].year)
    ELSE Nothing
\* The rain of the month stays that of the day before when it cannot be computed.
MonthRain(rows, d, fault, values) ==
    IF Month(d) = 1 THEN YearRain(rows, d, fault)
    ELSE IF HasYearly(rows, BeginningOfMonth(d), fault, "month")
    THEN Minus(YearRain(rows, d, fault), rows[BeginningOfMonth(d)].year)
    ELSE values.month

\* One day: skipped without observations, and not inserted after another failed.
WithRow(rows, d, values) ==
    [u \in DOMAIN rows \cup {d} |-> IF u = d THEN values ELSE rows[u]]
ComputeDay(progress, d, fault) ==
    LET values == [rain |-> observed[d], year |-> YearRain(progress.rows, d, fault),
                   month |-> MonthRain(progress.rows, d, fault, progress.values)]
        IsInserted == progress.ret /\ fault # "insert"
    IN  IF d \notin DOMAIN observed \/ fault = "values"
        THEN [rows |-> progress.rows, stale |-> progress.stale, values |-> progress.values,
              ret |-> FALSE]
        ELSE [rows |-> IF IsInserted THEN WithRow(progress.rows, d, values) ELSE progress.rows,
              stale |-> IF IsInserted THEN (progress.stale \ {d}) \cup ({d + 1} \cap DOMAIN progress.rows)
                        ELSE progress.stale,
              values |-> values,
              ret |-> IsInserted /\ fault # "timescale"]
NoValues == [rain |-> Nothing, year |-> Nothing, month |-> Nothing]
ComputeMinmax(begin, end, day, fault) ==
    LET progress[d \in (begin - 1)..end] ==
            IF d < begin THEN [rows |-> daily, stale |-> stale, values |-> NoValues, ret |-> TRUE]
            ELSE ComputeDay(progress[d - 1], d, IF d = day THEN fault ELSE "none")
    IN  progress[end]

StoreRows(begin, end, day, fault) ==
    LET result == ComputeMinmax(begin, end, day, fault)
    IN  /\ daily' = result.rows /\ stale' = result.stale
        /\ unsure' = IF result.ret /\ fault = "none" THEN unsure \ (begin..end)
                     ELSE unsure \cup begin..end
Over(begin, end) == {m \in Month(begin)..Month(end) : m < Month(today)}

Faults == {"values", "yesterday", "month", "insert", "timescale"}
Fault(fault) ==
    /\ failures' = failures + (IF fault = "none" THEN 0 ELSE 1)
    /\ failures' <= MaxFailures

-----------------------------------------------------------------------------
(* MinmaxWorker, in a daemon of its own                                     *)

\* retrieveMinmax, and computeMinmax.
ProcessJob ==
    /\ running = Idle /\ jobs # <<>> /\ jobs' = Tail(jobs)
    /\ LET job == Head(jobs) IN
       \E fault \in Faults \cup {"none"}, day \in job.begin..job.end :
        /\ fault = "none" => day = job.begin
        /\ Fault(fault)
        /\ StoreRows(job.begin, job.end, day, fault)
        /\ turned' = IF fault = "none" THEN turned \cup Over(job.begin, job.end)
                     ELSE turned \ Over(job.begin, job.end)
        /\ running' = [begin |-> job.begin, end |-> job.end,
                       state |-> IF ComputeMinmax(job.begin, job.end, day, fault).ret
                                 THEN "computed" ELSE "failed"]
    /\ UNCHANGED <<today, observed, monthly, monthJobs, news, runs>>

IsPast(begin, end) == Month(begin) < Month(today)
\* markJobAsFinished, then publishMonthMinmax once the month is over.
MarkJobAsFinished ==
    /\ running.state \in {"computed", "failed"}
    /\ monthJobs' = IF running.state = "computed" /\ IsPast(running.begin, running.end)
                    THEN Append(monthJobs, [begin |-> Month(running.begin), end |-> Month(running.end)])
                    ELSE monthJobs
    /\ turned' = IF running.state = "failed" THEN turned \ Over(running.begin, running.end) ELSE turned
    /\ running' = Idle
    /\ UNCHANGED <<today, observed, daily, stale, monthly, jobs, unsure, news,
                   failures, runs>>

LoseJob(job) ==
    /\ unsure' = unsure \cup job.begin..job.end
    /\ turned' = turned \ Over(job.begin, job.end)
\* "exit on error, and let systemd restart the daemon": nobody retrieves again the job
\* that is being computed or waits to be marked.
MinmaxDaemonExits ==
    /\ failures < MaxFailures /\ failures' = failures + 1
    /\ \/ running # Idle /\ running' = Idle /\ jobs' = jobs /\ LoseJob(running)
       \/ running = Idle /\ jobs # <<>> /\ jobs' = Tail(jobs) /\ running' = Idle /\ LoseJob(jobs[1])
    /\ UNCHANGED <<today, observed, daily, stale, monthly, monthJobs, news, runs>>

-----------------------------------------------------------------------------
(* MonthMinmaxWorker, in another                                            *)

\* A month without a row, or with days whose winds cannot be read, is skipped.
RainOfMonth(m) ==
    SumTo([d \in Nat |-> IF d \in DaysOf(m) \cap DOMAIN daily THEN daily[d].rain ELSE 0], LastDay)
ComputeMonthMinmax(begin, end, fault) ==
    LET months == {m \in begin..end : DaysOf(m) \cap DOMAIN daily # {} /\ m # fault}
        computed == {m \in months : begin..m \subseteq months}
    IN  [m \in DOMAIN monthly \cup computed |->
            IF m \in computed THEN RainOfMonth(m) ELSE monthly[m]]

\* retrieveMonthMinmax, computeMonthMinmax, and markJobAsFinished.
ProcessMonthJob ==
    /\ monthJobs # <<>> /\ monthJobs' = Tail(monthJobs)
    /\ LET job == Head(monthJobs) IN
       \E fault \in {0} \cup job.begin..job.end :
        /\ monthly' = ComputeMonthMinmax(job.begin, job.end, fault)
        /\ Fault(IF fault = 0 THEN "none" ELSE "monthly")
        /\ turned' = IF fault = 0 THEN turned ELSE turned \ (fault..job.end)
    /\ UNCHANGED <<today, observed, daily, stale, jobs, running, unsure, news, runs>>

-----------------------------------------------------------------------------
(* Observations, days, and the tools                                        *)

NextDay ==
    /\ today <= LastDay /\ today' = today + 1
    /\ UNCHANGED <<observed, daily, stale, monthly, jobs, monthJobs, running,
                   turned, unsure, news, failures, runs>>
\* Observations of some days come in, and a job is published from the first of them,
\* up to the last or to the current day.
PublishJob ==
    /\ news < MaxNews /\ news' = news + 1
    /\ \E begin, end \in Days :
        /\ begin <= end /\ end <= today
        /\ observed' = [d \in DOMAIN observed \cup begin..end |->
                            IF d \in begin..end THEN news + 1 ELSE observed[d]]
        /\ \E last \in {end, Min({today, LastDay})} :
            jobs' = Append(jobs, [begin |-> begin, end |-> last])
    /\ UNCHANGED <<today, daily, stale, monthly, monthJobs, running, turned,
                   unsure, failures, runs>>

\* meteodata-minmax: up to the next day; no month is published.
MinmaxTool ==
    /\ runs < MaxRuns /\ runs' = runs + 1
    /\ \E begin, end \in Days :
        /\ begin <= end /\ end <= today + 1
        /\ StoreRows(begin, end, begin, "none")
        /\ turned' = turned \ Over(begin, end)
    /\ UNCHANGED <<today, observed, monthly, jobs, monthJobs, running, news,
                   failures>>
\* meteodata-month-minmax: up to the current month.
MonthMinmaxTool ==
    /\ runs < MaxRuns /\ runs' = runs + 1
    /\ \E begin, end \in 1..Month(LastDay) :
        /\ begin <= end /\ end <= Month(today)
        /\ monthly' = ComputeMonthMinmax(begin, end, 0)
    /\ UNCHANGED <<today, observed, daily, stale, jobs, monthJobs, running,
                   turned, unsure, news, failures>>

ClimInit ==
    /\ today = 1
    /\ observed = <<>> /\ daily = <<>> /\ stale = {} /\ monthly = <<>>
    /\ jobs = <<>> /\ monthJobs = <<>> /\ running = Idle
    /\ turned = {} /\ unsure = {} /\ news = 0 /\ failures = 0 /\ runs = 0
ClimIdle ==
    /\ today = 0
    /\ observed = <<>> /\ daily = <<>> /\ stale = {} /\ monthly = <<>>
    /\ jobs = <<>> /\ monthJobs = <<>> /\ running = Idle
    /\ turned = {} /\ unsure = {} /\ news = 0 /\ failures = 0 /\ runs = 0
ClimNext ==
    /\ today > 0
    /\ \/ NextDay \/ PublishJob \/ MinmaxTool \/ MonthMinmaxTool
       \/ ProcessJob \/ MarkJobAsFinished \/ MinmaxDaemonExits \/ ProcessMonthJob

-----------------------------------------------------------------------------
(* Properties                                                               *)

\* The rows of the days up to d are there, each computed after the one before it.
Ordered(d) == 1..d \subseteq DOMAIN daily \ stale
RainOver(days) == SumTo([d \in Nat |-> IF d \in days THEN observed[d] ELSE 0], LastDay)

\* Once the jobs are done, the row of every day that has one holds the rain observed,
\* and those of the month and of the year so far when the rows before it are older
\* than it: whatever order the observations came in, and the jobs and the tools ran
\* in, and also after a failure, once a later job has computed the days of the one
\* that has failed.
SumsAreRight ==
    jobs = <<>> /\ running = Idle =>
        \A d \in DOMAIN daily \ unsure :
            /\ daily[d].rain = observed[d]
            /\ Ordered(d) /\ 1..d \cap unsure = {} =>
                /\ daily[d].year = RainOver(1..d)
                /\ daily[d].month = RainOver((BeginningOfMonth(d) + 1)..d)

\* Once all the jobs are done the rain of a month is that of its days, if any of them
\* was computed after its end, and no failure nor tool has got in between.
MonthsFollow ==
    jobs = <<>> /\ running = Idle /\ monthJobs = <<>> =>
        \A m \in turned : m \in DOMAIN monthly /\ monthly[m] = RainOfMonth(m)

\* The rows of the days and of the months follow the observations, whatever the order
\* they come in, but for the exceptions above.
ClimatologyFollows == SumsAreRight /\ MonthsFollow
=============================================================================
