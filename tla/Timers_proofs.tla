----------------------------- MODULE Timers_proofs -----------------------------
(***************************************************************************)
(* Proofs about what the daemon does by itself when a timer rings.         *)
(*                                                                         *)
(* The publisher of the climatology jobs: its invariants and its           *)
(* refinement of PastDataJobs, for any stations, any of them lasting, and  *)
(* any bounds.                                                             *)
(*                                                                         *)
(* The download scheduler: its types, that it is never forgotten and that  *)
(* it stops soon, for any number of workers, period, offset and number of  *)
(* commands; with one worker, that it downloads once for a slot.           *)
(***************************************************************************)
EXTENDS AsyncJobPublisher, AbstractDownloadScheduler, TLAPS

-----------------------------------------------------------------------------
(* Lemmas about the merge of two spans                                      *)

\* The merged bounds are bounds of one of the spans, and contain both spans.
LEMMA MergedBounds ==
    ASSUME NEW a \in Int, NEW b \in Int
    PROVE  /\ Lowest(a, b) \in {a, b} /\ Lowest(a, b) <= a /\ Lowest(a, b) <= b
           /\ Highest(a, b) \in {a, b} /\ Highest(a, b) >= a /\ Highest(a, b) >= b
BY DEF Lowest, Highest

\* Times are integers.
LEMMA TimesAreIntegers == Times \subseteq Int
BY ConstantsAssumption DEF Times, ConstantsAssumption

\* Days are integers.
LEMMA DaysAreIntegers == ASSUME NEW t \in Times PROVE Day(t) \in Int
<1>1. t \in Int /\ DayLength \in Int /\ DayLength > 0
  BY TimesAreIntegers, ConstantsAssumption DEF ConstantsAssumption
<1> QED
  BY <1>1 DEF Day

\* A request leaves the station with the span of its request, or with the
\* merge of it with the span it had, and the other stations as they were.
LEMMA RequestEntry ==
    ASSUME TypeOK, NEW s \in Stations, NEW b \in Times, NEW e \in Times, Request(s, b, e)
    PROVE  /\ DOMAIN debouncing' = DOMAIN debouncing \cup {s}
           /\ \A x \in DOMAIN debouncing \ {s} : debouncing'[x] = debouncing[x]
           /\ s \in DOMAIN debouncing => debouncing'[s] = Merged(debouncing[s], b, e)
           /\ s \notin DOMAIN debouncing => debouncing'[s] = Span(b, e)
BY DEF Request, HasEntry

-----------------------------------------------------------------------------
(* Type correctness                                                         *)

LEMMA TypeRequest ==
    ASSUME TypeOK, NEW s \in Stations, NEW b \in Times, NEW e \in Times, Request(s, b, e)
    PROVE  TypeOK'
<1>1. debouncing' \in [DOMAIN debouncing' -> [begin : Times, end : Times]]
  <2>1. Span(b, e) \in [begin : Times, end : Times]
    BY DEF Span
  <2>2. ASSUME HasEntry(s)
        PROVE  Merged(debouncing[s], b, e) \in [begin : Times, end : Times]
    BY <2>2, MergedBounds, TimesAreIntegers DEF TypeOK, HasEntry, Merged, Span
  <2>3. debouncing'[s] \in [begin : Times, end : Times]
    <3>1. CASE HasEntry(s)
      BY <3>1, <2>2, RequestEntry DEF HasEntry
    <3>2. CASE ~HasEntry(s)
      BY <3>2, <2>1, RequestEntry DEF HasEntry
    <3> QED
      BY <3>1, <3>2
  <2>4. \A x \in DOMAIN debouncing' : debouncing'[x] \in [begin : Times, end : Times]
    BY <2>3, RequestEntry DEF TypeOK
  <2> QED
    BY <2>4 DEF Request
<1>2. DOMAIN debouncing' \subseteq Stations
  BY RequestEntry DEF TypeOK
<1>3. b .. e \subseteq Times
  BY ConstantsAssumption DEF Times, ConstantsAssumption
<1>4. owed' \in [Stations -> SUBSET Times]
  BY <1>3 DEF Request, TypeOK
<1> QED
  BY <1>1, <1>2, <1>4 DEF Request, TypeOK, ResetTimer

LEMMA TypeHandler ==
    ASSUME TypeOK, NEW s \in Stations, RunHandler(s)
    PROVE  TypeOK'
<1>1. queued' \in [Stations -> Nat]
  BY DEF RunHandler, Dequeue, TypeOK
<1>2. PICK k \in KeyRead(s) : NothingToPublish(k) \/ Publish(k) \/ PublishFails(k)
  BY DEF RunHandler
<1>3. CASE NothingToPublish(k)
  BY <1>1, <1>3 DEF NothingToPublish, RunHandler, TypeOK
<1>4. CASE Publish(k)
  <2>1. k \in Stations /\ debouncing[k] \in [begin : Times, end : Times]
    BY <1>4 DEF Publish, HasEntry, TypeOK
  <2>2. jobs' \subseteq [kind : {"minmax", "anomaly"}, station : Stations,
                         begin : Times, end : Times]
    BY <1>4, <2>1 DEF Publish, Job, TypeOK
  <2>3. /\ DOMAIN debouncing' \subseteq Stations
        /\ debouncing' \in [DOMAIN debouncing' -> [begin : Times, end : Times]]
    BY <1>4 DEF Publish, Erase, TypeOK
  <2> QED
    BY <1>1, <1>4, <2>2, <2>3 DEF Publish, RunHandler, TypeOK
<1>5. CASE PublishFails(k)
  <2>1. k \in Stations /\ debouncing[k] \in [begin : Times, end : Times]
    BY <1>5 DEF PublishFails, HasEntry, TypeOK
  <2>2. jobs' \subseteq [kind : {"minmax", "anomaly"}, station : Stations,
                         begin : Times, end : Times]
    BY <1>5, <2>1 DEF PublishFails, Job, TypeOK
  <2> QED
    BY <1>1, <1>5, <2>1, <2>2 DEF PublishFails, RunHandler, TypeOK
<1> QED
  BY <1>2, <1>3, <1>4, <1>5

LEMMA TypeStep == TypeOK /\ [Next]_vars => TypeOK'
<1> SUFFICES ASSUME TypeOK, [Next]_vars PROVE TypeOK'
  OBVIOUS
<1>1. ASSUME NEW s \in Stations, TimerExpires(s) PROVE TypeOK'
  BY <1>1 DEF TimerExpires, TypeOK, boundVars
<1>2. CASE Restart
  BY <1>2 DEF Restart, TypeOK
<1>3. CASE NewDay
  BY <1>3 DEF NewDay, TypeOK, boundVars
<1>4. CASE UNCHANGED vars
  BY <1>4 DEF vars, TypeOK, boundVars
<1> QED
  BY <1>1, <1>2, <1>3, <1>4, TypeRequest, TypeHandler DEF Next

LEMMA TypeInit == Init => TypeOK
BY DEF Init, TypeOK

\* Every variable keeps its type.
THEOREM PublisherTypeCorrect == Spec => []TypeOK
BY TypeInit, TypeStep, PTL DEF Spec

-----------------------------------------------------------------------------
(* Nothing is forgotten, and everything accepted stays in the past          *)

\* An entry of a lasting station always has a timer running, a handler queued
\* or a publication that threw.  The type invariant makes it inductive.
LEMMA WatchedStep == TypeOK /\ EntryWatched /\ [Next]_vars => EntryWatched'
<1> SUFFICES ASSUME TypeOK, EntryWatched, [Next]_vars,
                    NEW x \in (DOMAIN debouncing \cap Lasting)'
             PROVE  x \in waiting' \/ queued'[x] > 0 \/ x \in abandoned'
  BY DEF EntryWatched
<1>0. x \in Stations /\ x \in Lasting
  BY ConstantsAssumption DEF ConstantsAssumption
<1>1. ASSUME NEW s \in Stations, NEW b \in Times, NEW e \in Times, Request(s, b, e)
      PROVE  x \in waiting' \/ queued'[x] > 0 \/ x \in abandoned'
  BY <1>0, <1>1 DEF Request, ResetTimer, EntryWatched
<1>2. ASSUME NEW s \in Stations, TimerExpires(s)
      PROVE  x \in waiting' \/ queued'[x] > 0 \/ x \in abandoned'
  BY <1>0, <1>2 DEF TimerExpires, EntryWatched, TypeOK
<1>3. ASSUME NEW s \in Stations, RunHandler(s)
      PROVE  x \in waiting' \/ queued'[x] > 0 \/ x \in abandoned'
  <2>1. PICK k \in KeyRead(s) : NothingToPublish(k) \/ Publish(k) \/ PublishFails(k)
    BY <1>3 DEF RunHandler
  <2>2. s = x => k = x
    BY <1>0 DEF KeyRead
  <2>3. s # x => queued'[x] = queued[x]
    BY <1>0, <1>3 DEF RunHandler, Dequeue, TypeOK
  <2>4. CASE NothingToPublish(k)
    BY <1>0, <2>2, <2>3, <2>4 DEF NothingToPublish, HasEntry, EntryWatched
  <2>5. CASE Publish(k)
    BY <1>0, <2>2, <2>3, <2>5 DEF Publish, Erase, EntryWatched
  <2>6. CASE PublishFails(k)
    BY <1>0, <2>2, <2>3, <2>6 DEF PublishFails, EntryWatched
  <2> QED
    BY <2>1, <2>4, <2>5, <2>6
<1>4. CASE Restart
  BY <1>4 DEF Restart
<1>5. CASE NewDay
  BY <1>0, <1>5 DEF NewDay, EntryWatched
<1>6. CASE UNCHANGED vars
  BY <1>0, <1>6 DEF vars, EntryWatched
<1> QED
  BY <1>1, <1>2, <1>3, <1>4, <1>5, <1>6 DEF Next

\* The publisher never forgets an entry of a station whose key lasts.
THEOREM EntryNeverForgotten == Spec => []EntryWatched
<1>1. Init => EntryWatched
  BY DEF Init, EntryWatched
<1> QED
  BY <1>1, WatchedStep, TypeInit, TypeStep, PTL DEF Spec

\* The days of the two spans merged are both over, so is that of the merge.
LEMMA PastStep == TypeOK /\ AcceptedStaysPast /\ [Next]_vars => AcceptedStaysPast'
<1> SUFFICES ASSUME TypeOK, AcceptedStaysPast, [Next]_vars,
                    NEW x \in DOMAIN debouncing'
             PROVE  Day(debouncing'[x].begin) < today'
  BY DEF AcceptedStaysPast, InThePast
<1>0. x \in DOMAIN debouncing =>
        /\ Day(debouncing[x].begin) < today
        /\ debouncing[x].begin \in Times
  BY DEF AcceptedStaysPast, InThePast, TypeOK
<1>1. ASSUME NEW s \in Stations, NEW b \in Times, NEW e \in Times, Request(s, b, e)
      PROVE  Day(debouncing'[x].begin) < today'
  <2>1. today' = today /\ Day(b) < today
    BY <1>1 DEF Request, Acceptable
  <2>2. CASE x # s
    BY ZenonT(60), <1>0, <1>1, <2>1, <2>2, RequestEntry
  <2>3. CASE x = s /\ s \in DOMAIN debouncing
    <3>1. debouncing'[x].begin = Lowest(debouncing[s].begin, b)
      <4>1. debouncing'[s] = Merged(debouncing[s], b, e)
        BY <1>1, <2>3, RequestEntry
      <4> QED
        BY <2>3, <4>1 DEF Merged, Span
    <3>2. debouncing'[x].begin \in {debouncing[s].begin, b}
      BY <1>0, <2>3, <3>1, MergedBounds, TimesAreIntegers
    <3> QED
      BY <1>0, <2>1, <2>3, <3>2
  <2>4. CASE x = s /\ s \notin DOMAIN debouncing
    <3>1. debouncing'[x].begin = b
      <4>1. debouncing'[s] = Span(b, e)
        BY <1>1, <2>4, RequestEntry
      <4> QED
        BY <2>4, <4>1 DEF Span
    <3> QED
      BY <2>1, <3>1
  <2> QED
    BY <2>2, <2>3, <2>4
<1>2. ASSUME NEW s \in Stations, TimerExpires(s)
      PROVE  Day(debouncing'[x].begin) < today'
  BY <1>0, <1>2 DEF TimerExpires
<1>3. ASSUME NEW s \in Stations, RunHandler(s)
      PROVE  Day(debouncing'[x].begin) < today'
  BY <1>0, <1>3 DEF RunHandler, NothingToPublish, Publish, PublishFails, Erase
<1>4. CASE Restart
  BY <1>4 DEF Restart
<1>5. CASE NewDay
  <2>1. today \in Nat /\ today' = today + 1 /\ debouncing' = debouncing
    BY <1>5 DEF NewDay, TypeOK
  <2>2. Day(debouncing[x].begin) \in Int
    BY <1>0, <2>1, DaysAreIntegers
  <2> QED
    BY <1>0, <2>1, <2>2
<1>6. CASE UNCHANGED vars
  BY <1>0, <1>6 DEF vars
<1> QED
  BY <1>1, <1>2, <1>3, <1>4, <1>5, <1>6 DEF Next

\* The second test of doPublish drops nothing that the first one let in.
THEOREM NothingDropped == Spec => []AcceptedStaysPast
<1>1. Init => AcceptedStaysPast
  BY DEF Init, AcceptedStaysPast
<1> QED
  BY <1>1, PastStep, TypeInit, TypeStep, PTL DEF Spec

-----------------------------------------------------------------------------
(* The refinement of PastDataJobs                                           *)

\* The entry of a station is the span of what is owed.
LEMMA SpanStep == TypeOK /\ EntryIsSpan /\ [Next]_vars => EntryIsSpan'
<1> DEFINE Exact(x) ==
      /\ x \in DOMAIN debouncing =>
           /\ debouncing[x].begin \in owed[x] /\ debouncing[x].end \in owed[x]
           /\ owed[x] \subseteq debouncing[x].begin .. debouncing[x].end
      /\ x \notin DOMAIN debouncing => owed[x] = {}
<1> SUFFICES ASSUME TypeOK, EntryIsSpan, [Next]_vars, NEW x \in Stations
             PROVE  Exact(x)'
  BY DEF EntryIsSpan, HasEntry
<1>0. Exact(x)
  BY DEF EntryIsSpan, HasEntry
<1>1. ASSUME NEW s \in Stations, NEW b \in Times, NEW e \in Times, Request(s, b, e)
      PROVE  Exact(x)'
  <2>1. owed' = [owed EXCEPT ![s] = @ \cup (b .. e)] /\ b <= e
    BY <1>1 DEF Request, Acceptable
  <2>2. CASE x # s
    <3>1. owed'[x] = owed[x]
      BY <2>1, <2>2 DEF TypeOK
    <3>2. x \in DOMAIN debouncing' <=> x \in DOMAIN debouncing
      <4>1. DOMAIN debouncing' = DOMAIN debouncing \cup {s}
        BY <1>1, RequestEntry
      <4> QED
        BY <2>2, <4>1
    <3>3. x \in DOMAIN debouncing => debouncing'[x] = debouncing[x]
      BY <1>1, <2>2, RequestEntry
    <3> QED
      BY <1>0, <3>1, <3>2, <3>3
  <2>3. CASE x = s
    <3>0. x \in DOMAIN debouncing' /\ owed'[x] = owed[x] \cup (b .. e)
      BY <1>1, <2>1, <2>3, RequestEntry DEF TypeOK
    <3>1. CASE x \notin DOMAIN debouncing
      <4>1. debouncing'[x] = Span(b, e)
        BY <1>1, <2>3, <3>1, RequestEntry
      <4>2. debouncing'[x].begin = b /\ debouncing'[x].end = e
        BY <4>1 DEF Span
      <4>3. owed'[x] = b .. e /\ b \in b .. e /\ e \in b .. e
        <5>1. b \in Int /\ e \in Int
          BY TimesAreIntegers
        <5>2. b \in b .. e /\ e \in b .. e
          BY <2>1, <5>1
        <5>3. owed'[x] = b .. e
          BY <1>0, <3>0, <3>1
        <5> QED
          BY <5>2, <5>3
      <4> QED
        BY <3>0, <4>2, <4>3
    <3>2. CASE x \in DOMAIN debouncing
      <4>1. debouncing'[x] = Merged(debouncing[x], b, e)
        BY <1>1, <2>3, <3>2, RequestEntry
      <4> DEFINE ob == debouncing[x].begin
                 oe == debouncing[x].end
      <4>2. /\ debouncing'[x].begin = Lowest(ob, b)
            /\ debouncing'[x].end = Highest(oe, e)
        BY <4>1 DEF Merged, Span
      <4>3. ob \in Times /\ oe \in Times
        BY <3>2 DEF TypeOK
      <4>4. /\ Lowest(ob, b) \in {ob, b} /\ Lowest(ob, b) <= ob /\ Lowest(ob, b) <= b
            /\ Highest(oe, e) \in {oe, e} /\ Highest(oe, e) >= oe /\ Highest(oe, e) >= e
        BY <4>3, MergedBounds, TimesAreIntegers
      <4>5. b \in b .. e /\ e \in b .. e
        BY <2>1, TimesAreIntegers
      <4>6. Lowest(ob, b) \in owed'[x] /\ Highest(oe, e) \in owed'[x]
        BY <1>0, <3>0, <3>2, <4>4, <4>5
      <4>7. owed[x] \subseteq Lowest(ob, b) .. Highest(oe, e)
        <5>1. owed[x] \subseteq ob .. oe
          BY <1>0, <3>2
        <5> QED
          BY <4>3, <4>4, <5>1, TimesAreIntegers
      <4>8. b .. e \subseteq Lowest(ob, b) .. Highest(oe, e)
        BY <4>3, <4>4, TimesAreIntegers
      <4> QED
        BY <3>0, <4>2, <4>6, <4>7, <4>8
    <3> QED
      BY <3>1, <3>2
  <2> QED
    BY <2>2, <2>3
<1>2. ASSUME NEW s \in Stations, TimerExpires(s) PROVE Exact(x)'
  BY <1>0, <1>2 DEF TimerExpires
<1>3. ASSUME NEW s \in Stations, RunHandler(s) PROVE Exact(x)'
  <2>1. PICK k \in KeyRead(s) : NothingToPublish(k) \/ Publish(k) \/ PublishFails(k)
    BY <1>3 DEF RunHandler
  <2>2. CASE Publish(k)
    <3>1. owed'[x] = IF x = k THEN {} ELSE owed[x]
      BY <2>2 DEF Publish, TypeOK
    <3>2. DOMAIN debouncing' = DOMAIN debouncing \ {k}
      BY <2>2 DEF Publish, Erase
    <3>3. x \in DOMAIN debouncing' => debouncing'[x] = debouncing[x]
      BY <2>2 DEF Publish, Erase
    <3> QED
      BY <1>0, <3>1, <3>2, <3>3
  <2>3. CASE NothingToPublish(k) \/ PublishFails(k)
    BY <1>0, <2>3 DEF NothingToPublish, PublishFails
  <2> QED
    BY <2>1, <2>2, <2>3
<1>4. CASE Restart
  BY <1>4 DEF Restart
<1>5. CASE NewDay
  BY <1>0, <1>5 DEF NewDay
<1>6. CASE UNCHANGED vars
  BY <1>0, <1>6 DEF vars
<1> QED
  BY <1>1, <1>2, <1>3, <1>4, <1>5, <1>6 DEF Next

\* Merging and erasing loses and invents nothing.
THEOREM SpanExact == Spec => []EntryIsSpan
<1>1. Init => EntryIsSpan
  BY DEF Init, EntryIsSpan, HasEntry
<1> QED
  BY <1>1, SpanStep, TypeInit, TypeStep, PTL DEF Spec

\* A handler publishes exactly what is owed to the station it finds.
LEMMA HandlerRefines ==
    ASSUME TypeOK, EntryIsSpan, AcceptedStaysPast, NEW s \in Stations, RunHandler(s)
    PROVE  Promise!Next \/ UNCHANGED <<owed, jobs>>
<1>1. PICK k \in KeyRead(s) : NothingToPublish(k) \/ Publish(k) \/ PublishFails(k)
  BY DEF RunHandler
<1>2. CASE NothingToPublish(k)
  BY <1>2 DEF NothingToPublish
<1>3. ASSUME HasEntry(k)
      PROVE  /\ k \in Stations /\ InThePast(k)
             /\ debouncing[k].begin \in Times /\ debouncing[k].end \in Times
             /\ Promise!IsSpan(k, debouncing[k].begin, debouncing[k].end)
  <2>1. k \in DOMAIN debouncing /\ k \in Stations
    BY <1>3 DEF HasEntry, TypeOK
  <2>2. debouncing[k].begin \in Times /\ debouncing[k].end \in Times
    BY <2>1 DEF TypeOK
  <2>3. InThePast(k)
    BY <2>1 DEF AcceptedStaysPast
  <2>4. Promise!IsSpan(k, debouncing[k].begin, debouncing[k].end)
    BY <1>3, <2>1 DEF EntryIsSpan, Promise!IsSpan
  <2> QED
    BY <2>1, <2>2, <2>3, <2>4
<1>4. CASE Publish(k)
  <2>1. HasEntry(k)
    BY <1>4 DEF Publish
  <2>2. /\ jobs' = jobs \cup {Job(kind, k, debouncing[k].begin, debouncing[k].end) :
                                 kind \in {"minmax", "anomaly"}}
        /\ owed' = [owed EXCEPT ![k] = {}]
    BY <1>3, <1>4, <2>1 DEF Publish
  <2>3. Promise!Publish(k, debouncing[k].begin, debouncing[k].end)
    BY <1>3, <2>1, <2>2 DEF Promise!Publish, Promise!Job, Job
  <2> QED
    BY <1>3, <2>1, <2>3 DEF Promise!Next
<1>5. CASE PublishFails(k)
  <2>1. HasEntry(k) /\ owed' = owed
    BY <1>5 DEF PublishFails
  <2>2. CASE jobs' = jobs
    BY <2>1, <2>2
  <2>3. CASE jobs' = jobs \cup {Job("minmax", k, debouncing[k].begin, debouncing[k].end)}
    <3>1. Promise!PublishHalf(k, debouncing[k].begin, debouncing[k].end)
      BY <1>3, <2>1, <2>3 DEF Promise!PublishHalf, Promise!Job, Job
    <3> QED
      BY <1>3, <2>1, <3>1 DEF Promise!Next
  <2> QED
    BY <1>5, <2>2, <2>3 DEF PublishFails
<1> QED
  BY <1>1, <1>2, <1>4, <1>5

\* Every step of the publisher is a step of its promise, or hidden from it.
LEMMA StepRefines ==
    TypeOK /\ EntryIsSpan /\ AcceptedStaysPast /\ [Next]_vars => [Promise!Next]_<<owed, jobs>>
<1> SUFFICES ASSUME TypeOK, EntryIsSpan, AcceptedStaysPast, [Next]_vars
             PROVE  Promise!Next \/ UNCHANGED <<owed, jobs>>
  OBVIOUS
<1>1. ASSUME NEW s \in Stations, NEW b \in Times, NEW e \in Times, Request(s, b, e)
      PROVE  Promise!Next
  <2>1. Promise!Request(s, b, e)
    BY <1>1 DEF Request, Promise!Request
  <2> QED
    BY <2>1 DEF Promise!Next
<1>2. CASE Restart
  BY <1>2 DEF Restart, Promise!Next, Promise!Crash
<1>3. CASE (\E s \in Stations : TimerExpires(s)) \/ NewDay \/ UNCHANGED vars
  BY <1>3 DEF TimerExpires, NewDay, vars
<1> QED
  BY <1>1, <1>2, <1>3, HandlerRefines DEF Next

\* The publisher implements its promise.
THEOREM PromiseKept == Spec => KeepsPromise
<1>1. Init => Promise!Init
  BY DEF Init, Promise!Init
<1> QED
  BY <1>1, StepRefines, PublisherTypeCorrect, SpanExact, NothingDropped, PTL
     DEF Spec, KeepsPromise, Promise!Spec

-----------------------------------------------------------------------------
(* The download scheduler                                                   *)

\* What bounds the downloads of a stopped scheduler: the handlers that may
\* still download, and before the stop those that download, are at most one
\* more than the commands.
StraysBounded ==
    /\ ~mustStop => late = 0
    /\ waits + ready + running <= 1 + commands
    /\ late + waits + ready <= 1 + commands

IInv == SchedulerTypeOK /\ NeverForgotten /\ StraysBounded

-----------------------------------------------------------------------------
(* The clock                                                                *)

\* The next deadline is in the future, at most a period and the offset away.
LEMMA NextDeadline ==
    ASSUME now \in 0 .. 2 * Period - 1
    PROVE  TimeToNext \in 1 .. Period + Offset
<1>1. Period \in Nat \ {0} /\ Offset \in Nat
  BY SchedulerAssumption
<1>2. now \in Int
  BY <1>1
<1>3. now % Period \in 0 .. Period - 1
  BY <1>1, <1>2
<1> QED
  BY <1>1, <1>3 DEF TimeToNext

\* Setting the deadline registers one wait in place of all others.
LEMMA WaitKinds ==
    ASSUME SchedulerTypeOK, NEW stopping \in BOOLEAN, WaitUntilNext(stopping)
    PROVE  /\ left' \in 0 .. Period + Offset
           /\ cancelled' \in Nat
           /\ IF stopping THEN waits' = waits ELSE waits' = 1
<1>1. CASE stopping
  BY <1>1 DEF WaitUntilNext, SchedulerTypeOK
<1>2. CASE ~stopping
  <2>1. left' = TimeToNext /\ cancelled' = cancelled + waits /\ waits' = 1
    BY <1>2 DEF WaitUntilNext, SetDeadline
  <2>2. TimeToNext \in 1 .. Period + Offset
    BY NextDeadline DEF SchedulerTypeOK
  <2>3. cancelled' \in Nat
    BY <2>1 DEF SchedulerTypeOK
  <2>4. left' \in 0 .. Period + Offset
    BY <2>1, <2>2, SchedulerAssumption
  <2> QED
    BY <1>2, <2>1, <2>3, <2>4
<1> QED
  BY <1>1, <1>2

-----------------------------------------------------------------------------
(* The inductive invariant                                                  *)

LEMMA InitInvariant == SchedulerInit => IInv
<1> SUFFICES ASSUME SchedulerInit
             PROVE  IInv
  OBVIOUS
<1>1. TimeToNext \in 1 .. Period + Offset
  BY NextDeadline DEF SchedulerInit
<1>2. SchedulerTypeOK
  <2>1. mustStop \in BOOLEAN /\ fresh \in BOOLEAN
    BY DEF SchedulerInit
  <2>2. left \in 0 .. Period + Offset /\ now \in 0 .. 2 * Period - 1
    BY <1>1, SchedulerAssumption DEF SchedulerInit
  <2>3. running \in 0 .. Workers /\ commands \in 0 .. MaxCommands
    BY SchedulerAssumption DEF SchedulerInit
  <2>4. waits \in Nat /\ ready \in Nat /\ cancelled \in Nat /\ late \in Nat
    BY DEF SchedulerInit
  <2> QED
    BY <2>1, <2>2, <2>3, <2>4 DEF SchedulerTypeOK
<1>3. NeverForgotten /\ StraysBounded
  BY SchedulerAssumption DEF SchedulerInit, NeverForgotten, StraysBounded
<1> QED
  BY <1>2, <1>3 DEF IInv

LEMMA NextInvariant == IInv /\ [SchedulerNext]_schedulerVars => IInv'
<1> SUFFICES ASSUME IInv, [SchedulerNext]_schedulerVars
             PROVE  IInv'
  OBVIOUS
<1> USE SchedulerAssumption
<1>0. SchedulerTypeOK /\ NeverForgotten /\ StraysBounded
  BY DEF IInv
<1>1. CASE Start
  <2>1. left' \in 0 .. Period + Offset /\ cancelled' \in Nat /\ waits' = 1
    BY <1>0, <1>1, WaitKinds DEF Start
  <2>2. SchedulerTypeOK'
    <3>1. mustStop' \in BOOLEAN /\ fresh' \in BOOLEAN
      BY <1>0, <1>1 DEF Start, SchedulerTypeOK
    <3>2. commands' \in 0 .. MaxCommands /\ late' \in Nat
      BY <1>0, <1>1 DEF Start, Command, SchedulerTypeOK
    <3> QED
      BY <1>0, <1>1, <2>1, <3>1, <3>2 DEF Start, SchedulerTypeOK
  <2>3. NeverForgotten' /\ StraysBounded'
    BY <1>0, <1>1, <2>1 DEF Start, Command, SchedulerTypeOK, NeverForgotten, StraysBounded
  <2> QED
    BY <2>2, <2>3 DEF IInv
<1>2. CASE Reload
  <2>1. CASE mustStop
    <3>1. waits' = 0 /\ cancelled' = cancelled + waits /\ left' = left
      BY <1>2, <2>1 DEF Reload, Cancel
    <3>2. SchedulerTypeOK'
      BY <1>0, <1>2, <3>1 DEF Reload, Command, SchedulerTypeOK
    <3>3. NeverForgotten' /\ StraysBounded'
      BY <1>0, <1>2, <2>1, <3>1
      DEF Reload, Command, SchedulerTypeOK, NeverForgotten, StraysBounded
    <3> QED
      BY <3>2, <3>3 DEF IInv
  <2>2. CASE ~mustStop
    <3>1. WaitUntilNext(FALSE)
      BY <1>2, <2>2 DEF Reload, WaitUntilNext
    <3>2. left' \in 0 .. Period + Offset /\ cancelled' \in Nat /\ waits' = 1
      BY <1>0, <3>1, WaitKinds
    <3>3. SchedulerTypeOK'
      BY <1>0, <1>2, <3>2 DEF Reload, Command, SchedulerTypeOK
    <3>4. NeverForgotten' /\ StraysBounded'
      BY <1>0, <1>2, <2>2, <3>2
      DEF Reload, Command, SchedulerTypeOK, NeverForgotten, StraysBounded
    <3> QED
      BY <3>3, <3>4 DEF IInv
  <2> QED
    BY <2>1, <2>2
<1>3. CASE Stop
  <2>1. SchedulerTypeOK'
    BY <1>0, <1>3 DEF Stop, Cancel, SchedulerTypeOK
  <2>2. NeverForgotten' /\ StraysBounded'
    BY <1>0, <1>3 DEF Stop, Cancel, SchedulerTypeOK, NeverForgotten, StraysBounded
  <2> QED
    BY <2>1, <2>2 DEF IInv
<1>4. CASE Bail
  <2>1. SchedulerTypeOK'
    BY <1>0, <1>4 DEF Bail, SchedulerTypeOK
  <2>2. NeverForgotten' /\ StraysBounded'
    BY <1>0, <1>4 DEF Bail, SchedulerTypeOK, NeverForgotten, StraysBounded
  <2> QED
    BY <2>1, <2>2 DEF IInv
<1>5. CASE BeginDownload
  <2>1. SchedulerTypeOK'
    <3>1. fresh' \in BOOLEAN /\ mustStop' \in BOOLEAN
      BY <1>0, <1>5 DEF BeginDownload, SchedulerTypeOK
    <3>2. ready' \in Nat /\ running' \in 0 .. Workers /\ late' \in Nat
      BY <1>0, <1>5 DEF BeginDownload, Idle, SchedulerTypeOK
    <3> QED
      BY <1>0, <1>5, <3>1, <3>2 DEF BeginDownload, SchedulerTypeOK
  <2>2. NeverForgotten' /\ StraysBounded'
    BY <1>0, <1>5 DEF BeginDownload, SchedulerTypeOK, NeverForgotten, StraysBounded
  <2> QED
    BY <2>1, <2>2 DEF IInv
<1>6. CASE WaitAgain
  <2>1. SchedulerTypeOK'
    BY <1>0, <1>6 DEF WaitAgain, SchedulerTypeOK
  <2>2. NeverForgotten' /\ StraysBounded'
    BY <1>0, <1>6 DEF WaitAgain, SchedulerTypeOK, NeverForgotten, StraysBounded
  <2> QED
    BY <2>1, <2>2 DEF IInv
<1>7. CASE EndDownload
  <2>1. /\ left' \in 0 .. Period + Offset
        /\ cancelled' \in Nat
        /\ IF mustStop THEN waits' = waits ELSE waits' = 1
    <3>1. mustStop \in BOOLEAN /\ WaitUntilNext(mustStop)
      BY <1>0, <1>7 DEF EndDownload, SchedulerTypeOK
    <3> QED
      BY <1>0, <3>1, WaitKinds
  <2>2. SchedulerTypeOK'
    BY <1>0, <1>7, <2>1 DEF EndDownload, SchedulerTypeOK
  <2>3. NeverForgotten' /\ StraysBounded'
    BY <1>0, <1>7, <2>1 DEF EndDownload, SchedulerTypeOK, NeverForgotten, StraysBounded
  <2> QED
    BY <2>2, <2>3 DEF IInv
<1>8. CASE Tick
  <2>1. now' \in 0 .. 2 * Period - 1
    <3>1. now + 1 \in Int /\ 2 * Period \in Nat \ {0}
      BY <1>0 DEF SchedulerTypeOK
    <3>2. (now + 1) % (2 * Period) \in 0 .. 2 * Period - 1
      BY <3>1
    <3> QED
      BY <1>8, <3>2 DEF Tick
  <2>2. left' \in 0 .. Period + Offset
    BY <1>0, <1>8 DEF Tick, SchedulerTypeOK
  <2>3. fresh' \in BOOLEAN
    BY <1>0, <1>8 DEF Tick, SchedulerTypeOK
  <2>4. SchedulerTypeOK'
    BY <1>0, <1>8, <2>1, <2>2, <2>3 DEF Tick, SchedulerTypeOK
  <2>5. NeverForgotten' /\ StraysBounded'
    BY <1>0, <1>8 DEF Tick, SchedulerTypeOK, NeverForgotten, StraysBounded
  <2> QED
    BY <2>4, <2>5 DEF IInv
<1>9. CASE TimerFires
  <2>1. SchedulerTypeOK'
    BY <1>0, <1>9 DEF TimerFires, SchedulerTypeOK
  <2>2. NeverForgotten' /\ StraysBounded'
    BY <1>0, <1>9 DEF TimerFires, SchedulerTypeOK, NeverForgotten, StraysBounded
  <2> QED
    BY <2>1, <2>2 DEF IInv
<1>10. CASE UNCHANGED schedulerVars
  BY <1>0, <1>10 DEF schedulerVars, IInv, SchedulerTypeOK, NeverForgotten, StraysBounded
<1> QED
  BY <1>1, <1>2, <1>3, <1>4, <1>5, <1>6, <1>7, <1>8, <1>9, <1>10
  DEF SchedulerNext, CheckDeadline

LEMMA Invariant == SchedulerSpec => []IInv
BY InitInvariant, NextInvariant, PTL DEF SchedulerSpec

-----------------------------------------------------------------------------
(* The results                                                              *)

\* Every variable keeps its type; the deadline of the timer is never further
\* than a period and the offset.
THEOREM SchedulerTypeCorrect == SchedulerSpec => []SchedulerTypeOK
<1>1. IInv => SchedulerTypeOK
  BY DEF IInv
<1> QED
  BY <1>1, Invariant, PTL

\* A scheduler that is not stopped always has a wait, a handler or a download
\* to go on with, on any number of threads.
THEOREM AlwaysScheduled == SchedulerSpec => []NeverForgotten
<1>1. IInv => NeverForgotten
  BY DEF IInv
<1> QED
  BY <1>1, Invariant, PTL

\* A stopped scheduler downloads at most once for each command it was given,
\* and once: each of them leaves one stray handler at most.
THEOREM StopsSoon == SchedulerSpec => []StopIsSoon
<1>1. IInv => StopIsSoon
  BY DEF IInv, StraysBounded, StopIsSoon, SchedulerTypeOK
<1> QED
  BY <1>1, Invariant, PTL

-----------------------------------------------------------------------------
(* One thread: the deadlines and the slots of the clock                     *)

\* A quotient and a remainder are those of the division.
LEMMA Remainder ==
    ASSUME NEW m \in Nat \ {0}, NEW q \in Int, NEW r \in 0 .. m - 1,
           NEW a \in Int, a = m * q + r
    PROVE  a % m = r
<1> DEFINE q1 == a \div m
           r1 == a % m
           d == q - q1
           e == m * d
<1>1. q1 \in Int /\ r1 \in 0 .. m - 1 /\ a = m * q1 + r1
  OBVIOUS
<1> HIDE DEF q1, r1
<1>2. m * (q - q1) = m * q - m * q1
  BY <1>1
<1>3. d \in Int /\ m * d = r1 - r
  BY <1>1, <1>2
<1> HIDE DEF d
<1>4. e \in Int /\ e = r1 - r /\ (d >= 1 => e >= m) /\ (d <= -1 => e <= -m)
  BY <1>3
<1> HIDE DEF e
<1>5. d = 0
  BY <1>1, <1>3, <1>4
<1>6. r1 = r
  BY <1>1, <1>3, <1>5
<1> QED
  BY <1>6 DEF r1

\* The clock shows the same in the next period, and in the one after.
LEMMA SamePhase ==
    ASSUME NEW m \in Nat \ {0}, NEW a \in Nat
    PROVE  (a + m) % m = a % m /\ (a + 2 * m) % m = a % m
<1> DEFINE q == a \div m
           r == a % m
<1>1. q \in Int /\ r \in 0 .. m - 1 /\ a = m * q + r
  OBVIOUS
<1> HIDE DEF q, r
<1>2. m * (q + 1) = m * q + m /\ m * (q + 2) = m * q + 2 * m
  BY <1>1
<1>3. a + m = m * (q + 1) + r /\ a + 2 * m = m * (q + 2) + r
  BY <1>1, <1>2
<1>4. (a + m) % m = r /\ (a + 2 * m) % m = r
  BY <1>1, <1>3, Remainder
<1> QED
  BY <1>4 DEF r

\* A deadline that has not passed is a slot of the clock.
OnSlot == left > 0 => (now + left) % Period = Offset % Period

\* Unless a slot has come since, a scheduler that has begun a download has its
\* next deadline in the future when it is done.
SlotToCome == ~fresh /\ running = 0 /\ ~mustStop => left > 0

Slots == OnSlot /\ SlotToCome

LEMMA DeadlineOnSlot ==
    ASSUME now \in 0 .. 2 * Period - 1
    PROVE  (now + TimeToNext) % Period = Offset % Period
<1>1. Period \in Nat \ {0} /\ Offset \in Nat
  BY SchedulerAssumption
<1>2. CASE now \in 0 .. Period - 1
  <2>1. now % Period = now
    BY <1>1, <1>2
  <2>2. now + TimeToNext = Offset + Period
    BY <1>1, <1>2, <2>1 DEF TimeToNext
  <2> QED
    BY <1>1, <2>2, SamePhase
<1>3. CASE now \in Period .. 2 * Period - 1
  <2>1. now % Period = now - Period
    BY <1>1, <1>3
  <2>2. now + TimeToNext = Offset + 2 * Period
    BY <1>1, <1>3, <2>1 DEF TimeToNext
  <2> QED
    BY <1>1, <2>2, SamePhase
<1> QED
  BY <1>1, <1>2, <1>3

LEMMA SetOnSlot ==
    ASSUME SchedulerTypeOK, SetDeadline, now' = now
    PROVE  left' > 0 /\ OnSlot'
<1>1. left' = TimeToNext
  BY DEF SetDeadline
<1>2. left' > 0 /\ (now' + left') % Period = Offset % Period
  BY <1>1, NextDeadline, DeadlineOnSlot, SchedulerAssumption DEF SchedulerTypeOK
<1> QED
  BY <1>2 DEF OnSlot

\* The clock and the deadline get closer by one: a deadline that passes is the
\* slot that comes.
LEMMA TickOnSlot ==
    ASSUME SchedulerTypeOK, OnSlot, Tick
    PROVE  OnSlot' /\ (left > 0 /\ ~(left' > 0) => fresh')
<1>1. Period \in Nat \ {0} /\ now \in 0 .. 2 * Period - 1 /\ left \in Nat
  BY SchedulerAssumption DEF SchedulerTypeOK
<1>2. CASE left = 0
  BY <1>2 DEF Tick, OnSlot
<1>3. CASE left > 0
  <2>1. left' = left - 1 /\ now' = (now + 1) % (2 * Period)
    BY <1>3 DEF Tick
  <2>2. now' \in Nat /\ (now' + (left - 1)) % Period = Offset % Period
    <3>1. (now + left) % Period = Offset % Period
      BY <1>3 DEF OnSlot
    <3>2. CASE now + 1 < 2 * Period
      <4>1. now' = now + 1
        BY <1>1, <2>1, <3>2
      <4>2. now' + (left - 1) = now + left
        BY <1>1, <4>1
      <4> QED
        BY <1>1, <3>1, <4>1, <4>2
    <3>3. CASE now + 1 = 2 * Period
      <4>1. now' = 0
        BY <1>1, <2>1, <3>3
      <4>2. now + left = (now' + (left - 1)) + 2 * Period /\ now' + (left - 1) \in Nat
        BY <1>1, <1>3, <3>3, <4>1
      <4> QED
        BY <1>1, <3>1, <4>1, <4>2, SamePhase
    <3> QED
      BY <1>1, <3>2, <3>3
  <2>3. OnSlot'
    BY <2>1, <2>2 DEF OnSlot
  <2>4. ASSUME ~(left' > 0) PROVE fresh'
    <3>1. left - 1 = 0
      BY <1>1, <1>3, <2>1, <2>4
    <3>2. now' % Period = Offset % Period
      BY <2>2, <3>1
    <3> QED
      BY <3>2 DEF Tick
  <2> QED
    BY <2>3, <2>4
<1> QED
  BY <1>1, <1>2, <1>3

LEMMA NextSlots ==
    ASSUME Workers = 1, IInv, IInv', Slots, [SchedulerNext]_schedulerVars
    PROVE  Slots' /\ (running' > running => fresh \/ mustStop)
<1> USE DEF Slots
<1>0. SchedulerTypeOK /\ SchedulerTypeOK' /\ running \in {0, 1} /\ left \in Nat /\ mustStop \in BOOLEAN
  BY SchedulerAssumption DEF IInv, SchedulerTypeOK
<1>1. CASE Start
  <2>1. SetDeadline /\ UNCHANGED <<now, running>>
    BY <1>1 DEF Start, WaitUntilNext
  <2>2. left' > 0 /\ OnSlot'
    BY <1>0, <2>1, SetOnSlot
  <2> QED
    BY <1>0, <2>1, <2>2 DEF SlotToCome
<1>2. CASE Reload
  <2>1. UNCHANGED <<now, running, mustStop>>
    BY <1>2 DEF Reload
  <2>2. CASE mustStop
    <3>1. left' = left
      BY <1>2, <2>2 DEF Reload
    <3> QED
      BY <1>0, <2>1, <2>2, <3>1 DEF OnSlot, SlotToCome
  <2>3. CASE ~mustStop
    <3>1. left' > 0 /\ OnSlot'
      BY <1>0, <1>2, <2>1, <2>3, SetOnSlot DEF Reload
    <3> QED
      BY <1>0, <2>1, <3>1 DEF SlotToCome
  <2> QED
    BY <2>2, <2>3
<1>3. CASE Stop
  <2>1. UNCHANGED <<now, left, running>> /\ mustStop'
    BY <1>3 DEF Stop
  <2> QED
    BY <1>0, <2>1 DEF OnSlot, SlotToCome
<1>4. CASE Bail \/ WaitAgain \/ TimerFires
  <2>1. UNCHANGED <<now, left, running, mustStop, fresh>>
    BY <1>4 DEF Bail, WaitAgain, TimerFires
  <2> QED
    BY <1>0, <2>1 DEF OnSlot, SlotToCome
<1>5. CASE BeginDownload
  <2>1. running = 0 /\ running' = 1 /\ left = 0 /\ UNCHANGED <<now, left, mustStop>>
    BY <1>0, <1>5 DEF BeginDownload, Idle, Due
  <2> QED
    BY <1>0, <2>1 DEF OnSlot, SlotToCome
<1>6. CASE EndDownload
  <2>1. running = 1 /\ running' = 0 /\ UNCHANGED <<now, mustStop, fresh>> /\ WaitUntilNext(mustStop)
    BY <1>0, <1>6 DEF EndDownload
  <2>2. CASE mustStop
    <3>1. left' = left
      BY <2>1, <2>2 DEF WaitUntilNext
    <3> QED
      BY <1>0, <2>1, <2>2, <3>1 DEF OnSlot, SlotToCome
  <2>3. CASE ~mustStop
    <3>1. left' > 0 /\ OnSlot'
      BY <1>0, <2>1, <2>3, SetOnSlot DEF WaitUntilNext
    <3> QED
      BY <1>0, <2>1, <3>1 DEF SlotToCome
  <2> QED
    BY <2>2, <2>3
<1>7. CASE Tick
  <2>1. UNCHANGED <<running, mustStop>> /\ (fresh => fresh')
    BY <1>7 DEF Tick
  <2>2. OnSlot' /\ (left > 0 /\ ~(left' > 0) => fresh')
    BY <1>0, <1>7, TickOnSlot
  <2> QED
    BY <1>0, <2>1, <2>2 DEF SlotToCome
<1>8. CASE UNCHANGED schedulerVars
  BY <1>0, <1>8 DEF schedulerVars, OnSlot, SlotToCome
<1> QED
  BY <1>1, <1>2, <1>3, <1>4, <1>5, <1>6, <1>7, <1>8 DEF SchedulerNext, CheckDeadline

\* One thread downloads at most once for each slot of the clock, for any period and
\* offset: the stray handlers of any number of reloads and restarts, queued while
\* a download blocks the thread, find the deadline it has moved.
THEOREM OnceForEachSlot ==
    ASSUME Workers = 1
    PROVE  SchedulerSpec => OneDownloadPerSlot
<1> DEFINE Once == running' > running => fresh \/ mustStop
<1>1. SchedulerInit => Slots
  <2> SUFFICES ASSUME SchedulerInit
               PROVE  Slots
    OBVIOUS
  <2>1. now \in 0 .. 2 * Period - 1 /\ left = TimeToNext
    BY DEF SchedulerInit
  <2>2. (now + left) % Period = Offset % Period /\ left > 0
    BY <2>1, DeadlineOnSlot, NextDeadline, SchedulerAssumption
  <2> QED
    BY <2>2 DEF Slots, OnSlot, SlotToCome
<1>2. IInv /\ IInv' /\ Slots /\ [SchedulerNext]_schedulerVars => Slots' /\ [Once]_schedulerVars
  BY NextSlots
<1> HIDE DEF Once
<1>3. SchedulerSpec => [][Once]_schedulerVars
  BY <1>1, <1>2, InitInvariant, NextInvariant, PTL DEF SchedulerSpec
<1> QED
  BY <1>3, PTL DEF OneDownloadPerSlot, Once
=============================================================================
