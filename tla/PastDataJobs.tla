---------------------------- MODULE PastDataJobs ----------------------------
(***************************************************************************)
(* What the publisher of climatology jobs promises to the connectors that  *)
(* insert past data: every time span handed to it is owed until one        *)
(* min/max job and one anomaly job cover all that is owed for the station, *)
(* and these jobs reach no further than what was asked for.                *)
(***************************************************************************)
EXTENDS Integers

CONSTANTS Stations, Times

VARIABLES owed,     \* times of past data whose climatology is to be recomputed
          jobs      \* the jobs written in the jobs database

Job(kind, s, b, e) == [kind |-> kind, station |-> s, begin |-> b, end |-> e]

\* The narrowest span around what is owed.
IsSpan(s, b, e) == b \in owed[s] /\ e \in owed[s] /\ owed[s] \subseteq b .. e

Request(s, b, e) ==
    /\ owed' = [owed EXCEPT ![s] = @ \cup (b .. e)]
    /\ UNCHANGED jobs

Publish(s, b, e) ==
    /\ IsSpan(s, b, e)
    /\ jobs' = jobs \cup {Job("minmax", s, b, e), Job("anomaly", s, b, e)}
    /\ owed' = [owed EXCEPT ![s] = {}]

\* The database refuses the second job: the span is still owed.
PublishHalf(s, b, e) ==
    /\ IsSpan(s, b, e)
    /\ jobs' = jobs \cup {Job("minmax", s, b, e)}
    /\ UNCHANGED owed

\* What is owed is held in memory only.
Crash ==
    /\ owed' = [s \in Stations |-> {}]
    /\ UNCHANGED jobs

Init ==
    /\ owed = [s \in Stations |-> {}]
    /\ jobs = {}

Next ==
    \/ \E s \in Stations, b, e \in Times :
         Request(s, b, e) \/ Publish(s, b, e) \/ PublishHalf(s, b, e)
    \/ Crash

Spec == Init /\ [][Next]_<<owed, jobs>>

=============================================================================
