----------------------------- MODULE HttpImports -----------------------------
(***************************************************************************)
(* What the handlers of /imports/ do with a page of records a station      *)
(* posts.  A station asks for the time of its last archive and posts what  *)
(* it recorded since.  Its records are dated 1, 2, ...; two of them make a *)
(* day of a Cimel file.                                                    *)
(***************************************************************************)
EXTENDS Connector

VARIABLES
    protocol,       \* "vp2", "monitorII", "4A" or "440204": the url of the station
    told            \* the last archive the station was told of
importVars == <<protocol, told>>

Cimel == {"4A", "440204"}

Latest(page) == Max(page \cup {0})
\* A page is answered, and the station posts the rest after the mark.
Refused(accepted, forsaken) ==
    /\ stored' = accepted
    /\ lost' = lost \cup forsaken
    /\ UNCHANGED mark
\* updateLastArchiveDownloadTime may fail too: that is only logged.
Imported(accepted, forsaken, newMark) ==
    /\ stored' = accepted
    /\ lost' = lost \cup forsaken
    /\ \/ mark' = newMark /\ UNCHANGED failures
       \/ UNCHANGED mark /\ Failure

\* VantagePro2HttpRequestHandler::postArchivePage: everything between the oldest
\* and the newest record of the page is deleted first; nothing more is inserted
\* after a record the database refuses.  What the deletion took from before the
\* mark is not posted again.  A page without a legible record sets the mark back
\* to 1970.  (A fault used as a mutant: the mark advances all the same.)
Span(legible) == {r \in Everyone : \E a, b \in legible : a <= r /\ r <= b}
PostVp2Hastily(page) ==
    LET legible == page \ Illegible
    IN \/ Imported(stored \cup legible, page \cap Illegible, Latest(legible))
       \/ \E refused \in legible :
            Imported((stored \ Span(legible)) \cup {r \in legible : r < refused}, {}, Latest(legible))
PostVp2(page) ==
    LET legible == page \ Illegible
        taken == stored \ Span(legible)
    IN \/ Imported(taken \cup legible, page \cap Illegible, Latest(legible))
       \/ /\ Failure
          /\ \/ Refused(stored, {})                     \* the deletion fails
             \/ Refused(taken \cup legible, {})         \* TimescaleDB fails
             \/ \E refused \in legible :
                  LET inserted == {r \in legible : r < refused}
                  IN Refused(taken \cup inserted,
                             {r \in stored \cap Span(legible) : r <= mark} \ inserted)

\* MonitorIIHttpRequestHandler::postArchivePage inserts as it reads, stops at the
\* first refusal; without a legible record the mark stays where it was.
PostMonitorII(page) ==
    LET legible == page \ Illegible
    IN \/ Imported(stored \cup legible, page \cap Illegible,
                   IF legible = {} THEN mark ELSE Latest(legible))
       \/ /\ Failure
          /\ \/ Refused(stored \cup legible, {})
             \/ \E refused \in legible : Refused(stored \cup {r \in legible : r < refused}, {})

\* The Cimel importers: a refused insertion is logged (the 4A also skips the rest
\* of the day), TimescaleDB too, and the mark is the last hour read.  Garbage
\* between two days ends the import without a mark, after the insertions: the
\* file is answered as imported, and will be each time it is posted.
SameDay(a, b) == (a + 1) \div 2 = (b + 1) \div 2
PostCimel(page) ==
    LET garbage == page \cap Illegible
        read == {r \in page : \A g \in garbage : r < g}
        skipped(refused) == IF protocol = "4A" THEN {r \in read : r >= refused /\ SameDay(r, refused)}
                            ELSE {refused}
    IN IF garbage # {} THEN Refused(stored \cup read, page \ read) /\ UNCHANGED failures
       ELSE \/ Imported(stored \cup page, {}, Latest(page))
            \/ \E refused \in page :
                 /\ Failure
                 /\ stored' = stored \cup (page \ skipped(refused))
                 /\ lost' = lost \cup skipped(refused)
                 /\ mark' = Latest(read)

\* POST: the records made since the mark the station knows of.
PostArchive ==
    LET page == {r \in Everyone : r > told}
    IN /\ page # {}
       /\ \/ protocol = "vp2" /\ PostVp2(page)
          \/ protocol = "monitorII" /\ PostMonitorII(page)
          \/ protocol \in Cimel /\ PostCimel(page)
       /\ UNCHANGED <<sent, told>>

\* GET .../last_archive
GetLastArchive ==
    /\ told' = mark
    /\ UNCHANGED <<failures, records>>

Measure ==
    /\ sent < MaxRecords
    /\ sent' = sent + 1
    /\ UNCHANGED <<stored, lost, mark, told>>

ImportInit ==
    /\ protocol \in {"vp2", "monitorII"} \cup Cimel
    /\ told = 0
=============================================================================
