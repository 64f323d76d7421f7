---------------------------- MODULE PolledArchive ----------------------------
(***************************************************************************)
(* What a downloader of past records promises: the time of the last        *)
(* archive download passes a record shown by the web site only if the      *)
(* record is in the database, or has been forsaken: refused by the         *)
(* database, illegible, or passed over in one of the named ways.           *)
(***************************************************************************)
EXTENDS Integers

CONSTANT Records        \* pairs <<part of the station, time>>

VARIABLES offered,      \* records the site holds in the spans it was asked for
          stored,       \* records in the database
          forsaken,     \* records the downloader does not come back to
          mark          \* the time of the last archive download

Init ==
    /\ offered = {} /\ stored = {} /\ forsaken = {}
    /\ mark \in Int

\* Nothing shown up to the mark is missing, but what is forsaken.
Covered == \A r \in offered : r[2] <= mark => r \in stored \cup forsaken

Next ==
    /\ offered \subseteq offered' /\ offered' \subseteq Records
    /\ stored' \subseteq Records
    /\ forsaken \subseteq forsaken' /\ forsaken' \subseteq offered'
    /\ mark' \in Int
    /\ Covered'

Spec == Init /\ [][Next]_<<offered, stored, forsaken, mark>>

=============================================================================
