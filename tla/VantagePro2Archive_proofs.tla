----------------------- MODULE VantagePro2Archive_proofs -----------------------
(***************************************************************************)
(* Proofs about VantagePro2Archive, for any size of the pages, length of   *)
(* the day, polling period, number of records and number of failures.      *)
(***************************************************************************)
EXTENDS VantagePro2Archive, NumberSets

-----------------------------------------------------------------------------
\* Records go to pages in order.
LEMMA PagesInOrder ==
  ASSUME NEW i \in Nat \ {0}, NEW j \in Nat \ {0}, i <= j
  PROVE  PageOf(i) \in Nat /\ PageOf(j) \in Nat /\ PageOf(i) <= PageOf(j)
<1> DEFINE q == (i - 1) \div PageSize
           r == (j - 1) \div PageSize
<1>1. PageSize \in Nat \ {0}
  BY ConstantsAssumption
<1>2. q \in Nat /\ r \in Nat
  BY <1>1, Z3
<1>3. PageSize * q <= i - 1 /\ j - 1 < PageSize * r + PageSize
  BY <1>1, Z3
<1> HIDE DEF q, r
<1>4. ASSUME r < q PROVE FALSE
  <2>1. PageSize * (r + 1) <= PageSize * q
    BY <1>1, <1>2, <1>4, Z3
  <2>2. PageSize * (r + 1) = PageSize * r + PageSize
    BY <1>1, <1>2, Z3
  <2>3. PageSize * r \in Int /\ PageSize * q \in Int
    BY <1>1, <1>2
  <2> QED BY <1>1, <1>3, <2>1, <2>2, <2>3
<1> QED BY <1>2, <1>4 DEF PageOf, q, r

-----------------------------------------------------------------------------
(* The invariant                                                            *)

\* The station's records have increasing times, none in the future.
LogInOrder ==
    /\ \A i, j \in 1..Len(log) : i < j => log[i] < log[j]
    /\ \A i \in 1..Len(log) : log[i] <= now

\* All the records up to a time are in both databases.
Stored(i) == log[i] \in observations /\ log[i] \in timescale
Complete(t) == t <= now /\ \A i \in 1..Len(log) : log[i] <= t => Stored(i)

\* Every time a download may start from, and the watermark itself, is complete: a
\* new connector reads the watermark, the same one goes on from what it has stored.
MarksComplete ==
    /\ Complete(watermark) /\ Complete(lastArchive) /\ Complete(newest)
    /\ Complete(beginning) /\ Complete(mostRecent)

\* What the page has seen never lags behind the watermark, which is what the page
\* started from: a watermark that could not be written leaves newest ahead of it.
WatermarkBehind == watermark <= mostRecent

\* While pages remain, they are pages of the memory, and the pages sent are stored.
PagesSent ==
    conn = "downloading" /\ pagesLeft > 0 =>
        /\ Len(log) > 0
        /\ page + pagesLeft - 1 <= PageOf(Len(log))
        /\ \A i \in 1..Len(log) : PageOf(i) < page => Stored(i)

IInv == TypeOK /\ LogInOrder /\ MarksComplete /\ WatermarkBehind /\ PagesSent

\* The times and the indices of the records.
LEMMA LogType ==
  ASSUME TypeOK
  PROVE  /\ DOMAIN log = 1..Len(log) /\ Len(log) \in Nat
         /\ \A i \in 1..Len(log) : log[i] \in Times
         /\ Times \subseteq Nat /\ now \in Nat
BY ConstantsAssumption DEF TypeOK, Times

\* The newest record of a page is one of its relevant ones, if it has any.
LEMMA NewestOfPage ==
  ASSUME TypeOK
  PROVE  /\ Relevant \subseteq Times
         /\ MostRecentAfter \in Relevant \cup {mostRecent}
         /\ \A r \in Relevant \cup {mostRecent} : r <= MostRecentAfter
<1> DEFINE Candidates == Relevant \cup {mostRecent}
<1>1. Relevant \subseteq Times
  BY LogType DEF Relevant, OnPage
<1>2. Candidates \subseteq 0..MaxTime /\ Candidates # {} /\ MaxTime \in Nat
  BY <1>1, ConstantsAssumption DEF TypeOK, Times
<1>3. \E t \in Candidates : \A r \in Candidates : r <= t
  <2> HIDE DEF Candidates
  <2> QED BY <1>2, GreatestNumber
<1>4. \E t \in Candidates : \A r \in Candidates : t >= r
  BY <1>2, <1>3
<1>5. MostRecentAfter \in Candidates /\ \A r \in Candidates : MostRecentAfter >= r
  BY <1>4 DEF MostRecentAfter
<1> QED BY <1>1, <1>2, <1>5

\* The first page of an answer is one of the memory, and starts after all records
\* asked for are older than t.
LEMMA FirstPageSent ==
  ASSUME TypeOK, LogInOrder, NEW t \in Times, Newer(t) # {}
  PROVE  /\ FirstPage(t) \in Nat /\ FirstPage(t) <= PageOf(Len(log))
         /\ PageOf(Len(log)) \in Nat /\ Len(log) > 0
         /\ \A i \in 1..Len(log) : PageOf(i) < FirstPage(t) => log[i] <= t
<1> DEFINE first == CHOOSE i \in Newer(t) : \A j \in Newer(t) : i <= j
<1>1. Newer(t) \subseteq Nat /\ Newer(t) \subseteq 1..Len(log)
  BY LogType DEF Newer
<1>2. first \in Newer(t) /\ \A j \in Newer(t) : first <= j
  BY <1>1, LeastNumber
<1>3. FirstPage(t) = PageOf(first)
  BY DEF FirstPage
<1> HIDE DEF first
<1>4. first \in 1..Len(log) /\ Len(log) \in Nat /\ Len(log) > 0
  BY <1>1, <1>2, LogType
<1>5. PageOf(first) \in Nat /\ PageOf(Len(log)) \in Nat /\ PageOf(first) <= PageOf(Len(log))
  BY <1>4, PagesInOrder
<1>6. ASSUME NEW i \in 1..Len(log), PageOf(i) < FirstPage(t) PROVE log[i] <= t
  <2>1. SUFFICES ASSUME ~(log[i] <= t) PROVE FALSE
    OBVIOUS
  <2>2. i \in Newer(t)
    BY <2>1, LogType DEF Newer
  <2>3. first <= i
    BY <2>2, <1>2
  <2>4. PageOf(first) <= PageOf(i) /\ PageOf(i) \in Nat
    BY <2>3, <1>4, PagesInOrder
  <2> QED BY <2>4, <1>3, <1>5, <1>6
<1> QED BY <1>3, <1>4, <1>5, <1>6

-----------------------------------------------------------------------------
(* The steps                                                                *)

LEMMA InitInvariant == Init => IInv
<1> SUFFICES ASSUME Init PROVE IInv
  OBVIOUS
<1>1. MaxTime \in Nat \ {0} /\ log = <<>> /\ Len(log) = 0
  BY ConstantsAssumption DEF Init
<1>2. TypeOK
  BY <1>1 DEF Init, TypeOK, Times, Epoch
<1>3. LogInOrder /\ MarksComplete /\ WatermarkBehind /\ PagesSent
  BY <1>1 DEF Init, LogInOrder, MarksComplete, Complete, WatermarkBehind, PagesSent, Epoch
<1> QED BY <1>2, <1>3 DEF IInv

\* A record is later than all the others, so that nothing that was complete stops
\* being so, and it is not on a page already sent.
LEMMA TickStep == IInv /\ Tick => IInv'
<1> SUFFICES ASSUME IInv, Tick PROVE IInv'
  OBVIOUS
<1> USE DEF IInv
<1>1. now' = now + 1 /\ now' \in Times /\ now \in Nat /\ now < now' /\ MaxTime \in Nat
  BY ConstantsAssumption DEF Tick, TypeOK, Times
<1>2. UNCHANGED <<databaseVars, conn, memberVars, pageVars, historyVars, failures>>
  BY DEF Tick
<1>3. CASE UNCHANGED log
  <2>1. TypeOK'
    BY <1>1, <1>2, <1>3 DEF TypeOK, databaseVars, memberVars, pageVars, historyVars
  <2>2. LogInOrder' /\ MarksComplete'
    BY SMTT(30), <1>1, <1>2, <1>3, LogType
       DEF LogInOrder, MarksComplete, Complete, Stored, databaseVars, memberVars, TypeOK, Times
  <2>3. WatermarkBehind' /\ PagesSent'
    BY <1>2, <1>3 DEF WatermarkBehind, PagesSent, Stored, PageOf, databaseVars, memberVars, pageVars
  <2> QED BY <2>1, <2>2, <2>3
<1>4. CASE log' = Append(log, now')
  <2>1. /\ Len(log') = Len(log) + 1 /\ Len(log) \in Nat
        /\ \A i \in 1..Len(log) : log'[i] = log[i]
        /\ log'[Len(log) + 1] = now'
    BY <1>4, LogType DEF TypeOK
  <2>2. TypeOK'
    BY <1>1, <1>2, <1>4 DEF TypeOK, databaseVars, memberVars, pageVars, historyVars
  <2>3. LogInOrder'
    BY SMTT(30), <1>1, <2>1, LogType DEF LogInOrder, Times
  <2>4. ASSUME NEW t \in Nat, Complete(t)
        PROVE  t <= now' /\ \A i \in 1..Len(log') : log'[i] <= t => Stored(i)'
    BY <1>1, <1>2, <2>1, <2>4 DEF Complete, Stored, databaseVars
  <2>5. MarksComplete'
    BY <1>2, <2>4, LogType DEF MarksComplete, Complete, memberVars, databaseVars, TypeOK
  <2>6. PagesSent'
    <3>1. SUFFICES ASSUME conn' = "downloading", pagesLeft' > 0
                   PROVE  /\ Len(log') > 0
                          /\ page' + pagesLeft' - 1 <= PageOf(Len(log'))
                          /\ \A i \in 1..Len(log') : PageOf(i) < page' => Stored(i)'
      BY DEF PagesSent, PageOf
    <3>2. /\ Len(log) > 0 /\ page + pagesLeft - 1 <= PageOf(Len(log))
          /\ \A i \in 1..Len(log) : PageOf(i) < page => Stored(i)
      BY <3>1, <1>2 DEF PagesSent, pageVars
    <3>3. /\ PageOf(Len(log)) <= PageOf(Len(log')) /\ PageOf(Len(log)) \in Nat
          /\ PageOf(Len(log')) \in Nat
      BY <3>2, <2>1, PagesInOrder
    <3>4. page \in Nat /\ pagesLeft \in Nat /\ pagesLeft > 0 /\ UNCHANGED <<page, pagesLeft>>
      BY <3>1, <1>2 DEF TypeOK, pageVars
    <3>5. ~(PageOf(Len(log')) < page')
      BY <3>2, <3>3, <3>4
    <3>6. ASSUME NEW i \in 1..Len(log'), PageOf(i) < page' PROVE Stored(i)'
      <4>1. i # Len(log')
        BY <3>5, <3>6
      <4>2. i \in 1..Len(log)
        BY <4>1, <2>1
      <4> QED BY <4>2, <3>6, <3>2, <3>4, <2>1, <1>2 DEF Stored, databaseVars
    <3> QED BY <2>1, <3>2, <3>3, <3>4, <3>6
  <2>7. WatermarkBehind'
    BY <1>2 DEF WatermarkBehind, databaseVars, memberVars
  <2> QED BY <2>2, <2>3, <2>5, <2>6, <2>7
<1> QED BY <1>3, <1>4 DEF Tick

\* The members are set to the watermark, which is complete.
LEMMA IdentifyStep ==
  ASSUME IInv, Identify, oldest' \in Times, newest' \in {newest, Epoch}
  PROVE  IInv'
<1> USE DEF IInv
<1>1. /\ UNCHANGED <<now, log, observations, timescale, watermark, page, pagesLeft, late,
                     requested, failures>>
      /\ lastArchive' = watermark /\ beginning' = watermark /\ mostRecent' = watermark
      /\ conn' \in {"asking", "idle"}
  BY DEF Identify, Prepare, stationVars, databaseVars, pageVars, historyVars
<1>2. newest' \in Times /\ Complete(newest')
  <2>1. Complete(Epoch)
    BY LogType DEF Complete, MarksComplete, TypeOK, Epoch, Times
  <2>2. newest \in Times /\ Complete(newest) /\ Epoch \in Times
    BY ConstantsAssumption DEF MarksComplete, TypeOK, Epoch, Times
  <2> QED BY <2>1, <2>2
<1>3. TypeOK'
  BY <1>1, <1>2 DEF TypeOK
<1>4. LogInOrder' /\ MarksComplete'
  BY <1>1, <1>2 DEF LogInOrder, MarksComplete, Complete, Stored
<1>5. WatermarkBehind' /\ PagesSent'
  BY <1>1 DEF WatermarkBehind, PagesSent, TypeOK, Times
<1> QED BY <1>3, <1>4, <1>5

LEMMA AskStep == IInv /\ Ask => IInv'
<1> SUFFICES ASSUME IInv, Ask PROVE IInv'
  OBVIOUS
<1> USE DEF IInv
<1>1. UNCHANGED <<now, log, observations, timescale, watermark, lastArchive, oldest, newest,
                  beginning, mostRecent, late, requested, failures>>
  BY DEF Ask, stationVars, databaseVars, memberVars, historyVars
<1>2. lastArchive \in Times /\ Complete(lastArchive)
  BY DEF TypeOK, MarksComplete
<1>3. LogInOrder' /\ MarksComplete' /\ WatermarkBehind'
  BY <1>1 DEF LogInOrder, MarksComplete, Complete, Stored, WatermarkBehind
<1>4. CASE Newer(lastArchive) = {}
  <2>1. pagesLeft' = 0 /\ page' = page /\ conn' = "downloading"
    BY <1>4 DEF Ask, PagesAfter
  <2> QED BY <1>1, <1>3, <2>1 DEF TypeOK, PagesSent
<1>5. CASE Newer(lastArchive) # {}
  <2>1. /\ page' = FirstPage(lastArchive) /\ conn' = "downloading"
        /\ pagesLeft' = PageOf(Len(log)) - FirstPage(lastArchive) + 1
    BY <1>5 DEF Ask, PagesAfter
  <2>2. /\ FirstPage(lastArchive) \in Nat /\ FirstPage(lastArchive) <= PageOf(Len(log))
        /\ PageOf(Len(log)) \in Nat /\ Len(log) > 0
        /\ \A i \in 1..Len(log) : PageOf(i) < FirstPage(lastArchive) => log[i] <= lastArchive
    BY <1>2, <1>5, FirstPageSent
  <2>3. page' \in Nat /\ pagesLeft' \in Nat /\ page' + pagesLeft' - 1 = PageOf(Len(log))
    BY <2>1, <2>2
  <2>4. TypeOK'
    BY <1>1, <2>1, <2>3 DEF TypeOK
  <2>5. \A i \in 1..Len(log) : PageOf(i) < FirstPage(lastArchive) => Stored(i)
    BY <1>2, <2>2 DEF Complete
  <2>6. PagesSent'
    <3>1. \A i \in 1..Len(log) : PageOf(i) < page' => Stored(i)
      BY <2>1, <2>5
    <3>2. page' + pagesLeft' - 1 <= PageOf(Len(log))
      BY <2>2, <2>3
    <3> QED BY <1>1, <2>2, <3>1, <3>2 DEF PagesSent, Stored, PageOf
  <2> QED BY <1>3, <2>4, <2>6
<1> QED BY <1>4, <1>5

\* What is on the page after the pages sent, or was stored before, covers the
\* memory up to the newest record of the page.
LEMMA StorePageStep == IInv /\ StorePage => IInv' /\ watermark' >= watermark
<1> SUFFICES ASSUME IInv, StorePage PROVE IInv' /\ watermark' >= watermark
  OBVIOUS
<1> USE DEF IInv
<1> DEFINE last == MostRecentAfter
<1>1. /\ UNCHANGED <<now, log, conn, lastArchive, beginning, requested>>
      /\ conn = "downloading" /\ pagesLeft > 0
      /\ observations' = observations \cup Relevant /\ timescale' = timescale \cup Relevant
      /\ late' = Late(Relevant) /\ mostRecent' = last
      /\ AdvanceWatermark(last) /\ oldest' = Lower(oldest, last)
      /\ pagesLeft' = pagesLeft - 1 /\ page' = page + 1
  BY DEF StorePage, MorePages, stationVars
<1>2. /\ Relevant \subseteq Times
      /\ last \in Relevant \cup {mostRecent} /\ \A r \in Relevant \cup {mostRecent} : r <= last
  BY NewestOfPage
<1>3. last \in Times /\ mostRecent \in Times /\ mostRecent <= last /\ Times \subseteq Nat
  BY <1>2, LogType DEF TypeOK
<1>4. last <= now
  BY <1>2 DEF MarksComplete, Complete, Relevant, IsRelevant
<1> HIDE DEF last
<1>5. /\ newest' \in {newest, last} /\ watermark' \in {watermark, last}
      /\ failures' \in Nat
  BY <1>1 DEF AdvanceWatermark, TypeOK
<1>6. TypeOK'
  <2>1. oldest' \in Times /\ newest' \in Times /\ watermark' \in Times
    BY <1>1, <1>3, <1>5 DEF Lower, TypeOK
  <2>2. late' \subseteq Times
    BY <1>1, <1>2 DEF Late, TypeOK
  <2>3. page' \in Nat /\ pagesLeft' \in Nat
    BY <1>1 DEF TypeOK
  <2> QED BY <1>1, <1>2, <1>3, <1>5, <2>1, <2>2, <2>3 DEF TypeOK
<1>7. ASSUME NEW i \in 1..Len(log), Stored(i) PROVE Stored(i)'
  BY <1>1, <1>7 DEF Stored
<1>8. ASSUME NEW i \in 1..Len(log), PageOf(i) <= page PROVE Stored(i)'
  <2>1. page \in Nat /\ PageOf(i) \in Nat
    BY PagesInOrder DEF TypeOK
  <2>2. CASE PageOf(i) < page
    BY <2>2, <1>1, <1>7 DEF PagesSent
  <2>3. CASE PageOf(i) = page
    <3>1. log[i] \in OnPage(page) /\ log[i] <= now /\ log[i] \in Nat
      BY <2>3, <1>3, LogType DEF OnPage, LogInOrder
    <3>2. CASE log[i] \in Relevant
      BY <3>2, <1>1 DEF Stored
    <3>3. CASE log[i] \notin Relevant
      <4>1. beginning \in Nat
        BY <1>3 DEF TypeOK
      <4>2. ~(log[i] > beginning)
        BY <3>1, <3>3 DEF Relevant, IsRelevant
      <4>3. log[i] <= beginning
        BY <3>1, <4>1, <4>2
      <4> QED BY <4>3, <1>7 DEF MarksComplete, Complete
    <3> QED BY <3>2, <3>3
  <2> QED BY <1>8, <2>1, <2>2, <2>3
<1>9. ASSUME NEW i \in 1..Len(log), log[i] <= last PROVE Stored(i)'
  <2>1. CASE log[i] <= mostRecent
    BY <2>1, <1>7 DEF MarksComplete, Complete
  <2>2. CASE ~(log[i] <= mostRecent)
    <3>1. last # mostRecent
      BY <1>9, <2>2
    <3>2. PICK j \in 1..Len(log) : log[j] = last /\ PageOf(j) = page
      BY <3>1, <1>2, LogType DEF Relevant, OnPage
    <3>3. i <= j
      <4>1. last \in Nat /\ i \in Nat /\ j \in Nat
        BY <1>3
      <4>2. log[i] \in Nat
        BY <1>3, LogType
      <4>3. ~(j < i)
        BY <1>9, <3>2, <4>1, <4>2 DEF LogInOrder
      <4> QED BY <4>1, <4>3
    <3>4. PageOf(i) <= page
      BY <3>2, <3>3, PagesInOrder
    <3> QED BY <3>4, <1>8
  <2> QED BY <2>1, <2>2
<1>10. LogInOrder' /\ MarksComplete'
  <2>1. LogInOrder'
    BY <1>1 DEF LogInOrder
  <2>2. ASSUME NEW t, Complete(t)
        PROVE  t <= now' /\ \A i \in 1..Len(log') : log'[i] <= t => Stored(i)'
    BY <2>2, <1>1, <1>7 DEF Complete
  <2>3. last <= now' /\ \A i \in 1..Len(log') : log'[i] <= last => Stored(i)'
    BY <1>1, <1>4, <1>9
  <2> QED BY <1>1, <1>5, <2>1, <2>2, <2>3 DEF MarksComplete, Complete
<1>11. WatermarkBehind' /\ watermark' >= watermark
  BY <1>1, <1>3, <1>5 DEF WatermarkBehind, TypeOK
<1>12. PagesSent'
  <2>1. SUFFICES ASSUME pagesLeft' > 0
                 PROVE  /\ Len(log') > 0
                        /\ page' + pagesLeft' - 1 <= PageOf(Len(log'))
                        /\ \A i \in 1..Len(log') : PageOf(i) < page' => Stored(i)'
    BY DEF PagesSent, PageOf
  <2>2. Len(log) > 0 /\ page + pagesLeft - 1 <= PageOf(Len(log))
    BY <1>1 DEF PagesSent
  <2>3. \A i \in 1..Len(log) : PageOf(i) \in Nat
    BY PagesInOrder
  <2>4. page \in Nat /\ pagesLeft \in Nat
    BY DEF TypeOK
  <2>5. \A i \in 1..Len(log) : PageOf(i) < page + 1 => PageOf(i) <= page
    BY <2>3, <2>4
  <2>6. page' + pagesLeft' - 1 = page + pagesLeft - 1
    BY <1>1, <2>4
  <2> QED BY <1>1, <1>8, <2>2, <2>5, <2>6
<1> QED BY <1>6, <1>10, <1>11, <1>12

\* Part of a page is stored, and the download is over.
LEMMA CannotStorePageStep == IInv /\ CannotStorePage => IInv'
<1> SUFFICES ASSUME IInv, CannotStorePage PROVE IInv'
  OBVIOUS
<1> USE DEF IInv
<1>1. PICK bound \in Relevant \cup {Epoch} :
         /\ observations' = observations \cup {r \in Relevant : r <= bound}
         /\ late' = Late({r \in Relevant : r <= bound})
  BY DEF CannotStorePage
<1>2. /\ UNCHANGED <<now, log, timescale, watermark, lastArchive, oldest, newest, beginning,
                     mostRecent, page, pagesLeft, requested>>
      /\ conn' = "down" /\ failures' = failures + 1
  BY DEF CannotStorePage, StopDownload, stationVars, memberVars, pageVars
<1>3. Relevant \subseteq Times
  BY NewestOfPage
<1>4. TypeOK'
  BY <1>1, <1>2, <1>3 DEF TypeOK, Late
<1>5. LogInOrder' /\ MarksComplete'
  BY <1>1, <1>2 DEF LogInOrder, MarksComplete, Complete, Stored
<1>6. WatermarkBehind' /\ PagesSent'
  BY <1>2 DEF WatermarkBehind, PagesSent
<1> QED BY <1>4, <1>5, <1>6

LEMMA FinishDownloadStep == IInv /\ FinishDownload => IInv'
<1> SUFFICES ASSUME IInv, FinishDownload PROVE IInv'
  OBVIOUS
<1> USE DEF IInv
<1>1. /\ UNCHANGED <<now, log, observations, timescale, watermark, oldest, newest, beginning,
                     mostRecent, page, pagesLeft, late, failures>>
      /\ conn' = "idle" /\ lastArchive' = newest
      /\ requested' \in {requested, requested \cup {<<oldest, newest>>}}
  BY DEF FinishDownload, LastRetrieved, stationVars, databaseVars, pageVars
<1>2. TypeOK'
  BY <1>1 DEF TypeOK
<1>3. LogInOrder' /\ MarksComplete' /\ WatermarkBehind' /\ PagesSent'
  BY <1>1 DEF LogInOrder, MarksComplete, Complete, Stored, WatermarkBehind, PagesSent
<1> QED BY <1>2, <1>3

\* Nothing changes but the state of the conversation, which leaves the download.
LEMMA ConversationStep ==
  ASSUME IInv, conn' \in {"down", "asking", conn}, failures' \in Nat,
         UNCHANGED <<stationVars, databaseVars, memberVars, pageVars, historyVars>>
  PROVE  IInv'
<1> USE DEF IInv, stationVars, databaseVars, memberVars, pageVars, historyVars
<1>1. TypeOK'
  BY DEF TypeOK
<1>2. LogInOrder' /\ MarksComplete' /\ WatermarkBehind' /\ PagesSent'
  BY DEF LogInOrder, MarksComplete, Complete, Stored, WatermarkBehind, PagesSent, PageOf
<1> QED BY <1>1, <1>2

\* Only a page that is stored moves the watermark, and never back.
LEMMA NextInvariant == IInv /\ [Next]_vars => IInv' /\ (watermark' # watermark => watermark' >= watermark)
<1> SUFFICES ASSUME IInv, [Next]_vars
             PROVE  IInv' /\ (watermark' # watermark => watermark' >= watermark)
  OBVIOUS
<1>1. CASE Tick
  BY <1>1, TickStep DEF Tick, databaseVars
<1>2. CASE Connect
  <2>1. oldest' \in Times /\ newest' \in {newest, Epoch}
    BY <1>2 DEF Connect, IInv, TypeOK
  <2> QED BY <1>2, <2>1, IdentifyStep DEF Connect, Identify, databaseVars
<1>3. CASE Reload
  <2>1. oldest' \in Times /\ newest' \in {newest, Epoch}
    BY <1>3 DEF Reload, IInv, TypeOK
  <2> QED BY <1>3, <2>1, IdentifyStep DEF Reload, Identify, databaseVars
<1>4. CASE Ask
  BY <1>4, AskStep DEF Ask, databaseVars
<1>5. CASE StorePage
  BY <1>5, StorePageStep
<1>6. CASE CannotStorePage
  BY <1>6, CannotStorePageStep DEF CannotStorePage
<1>7. CASE FinishDownload
  BY <1>7, FinishDownloadStep DEF FinishDownload, databaseVars
<1>8. CASE NextMeasure
  BY <1>8, ConversationStep DEF NextMeasure, databaseVars, IInv, TypeOK
<1>9. CASE Disconnect
  BY <1>9, ConversationStep DEF Disconnect, databaseVars, IInv, TypeOK
<1>10. CASE UNCHANGED vars
  BY <1>10, ConversationStep DEF vars, databaseVars, IInv, TypeOK
<1> QED BY <1>1, <1>2, <1>3, <1>4, <1>5, <1>6, <1>7, <1>8, <1>9, <1>10 DEF Next

LEMMA Invariant == Spec => []IInv
<1>1. IInv /\ [Next]_vars => IInv'
  BY NextInvariant
<1> QED BY InitInvariant, <1>1, PTL DEF Spec

-----------------------------------------------------------------------------
(* Theorems                                                                 *)

\* Every variable keeps its type: the times of the records, of the members and of the
\* database stay among those that have passed, page numbers natural.
THEOREM TypeCorrect == Spec => []TypeOK
<1>1. IInv => TypeOK
  BY DEF IInv
<1> QED BY Invariant, <1>1, PTL

\* The watermark leaves no hole behind it, in either database, whatever pages are
\* refused, connections lost, watermarks not written and connectors reloaded.
THEOREM NothingBehindIsMissing == Spec => []NoHole
<1>1. IInv => NoHole
  BY LogType DEF IInv, NoHole, MarksComplete, Complete, Stored
<1> QED BY Invariant, <1>1, PTL

\* The watermark never goes back, although newest and _lastArchive do.
THEOREM NeverGoesBack == Spec => WatermarkAdvances
<1>1. IInv /\ [Next]_vars => [watermark' >= watermark]_watermark
  BY NextInvariant
<1> QED BY Invariant, <1>1, PTL DEF Spec, WatermarkAdvances

\* The memory only grows: the station forgets nothing it has shown.
LEMMA MemoryGrows ==
  ASSUME TypeOK, [Next]_vars
  PROVE  \/ UNCHANGED log
         \/ /\ DOMAIN log' = DOMAIN log \cup {Len(log) + 1}
            /\ \A i \in DOMAIN log : log'[i] = log[i]
<1>1. CASE Tick
  <2>1. log \in Seq(Nat) /\ now' \in Nat
    BY <1>1, ConstantsAssumption DEF Tick, TypeOK, Times
  <2>2. CASE log' = Append(log, now')
    <3>1. DOMAIN log = 1..Len(log) /\ Len(log) \in Nat
      BY <2>1
    <3>2. DOMAIN log' = 1..(Len(log) + 1) /\ \A i \in 1..Len(log) : log'[i] = log[i]
      BY <2>1, <2>2
    <3> QED BY <3>1, <3>2
  <2> QED BY <1>1, <2>2 DEF Tick
<1>2. CASE ~Tick
  BY <1>2 DEF Next, vars, stationVars, Connect, Reload, Identify, Ask, StorePage,
              CannotStorePage, FinishDownload, NextMeasure, Disconnect
<1> QED BY <1>1, <1>2

\* VantagePro2Archive implements PolledArchive, as the downloaders do, and forsakes
\* nothing: a page is stored whole, or the connector stops before the watermark moves.
THEOREM PromiseKept == Spec => KeepsPromise
<1> DEFINE shown == {<<1, log[i]>> : i \in DOMAIN log}
<1>1. Init => Promise!Init
  BY DEF Init, Promise!Init, Epoch
<1>2. IInv => Promise!Covered
  <2> SUFFICES ASSUME IInv, NEW r \in shown, r[2] <= watermark
               PROVE  r \in {1} \X observations
    BY DEF Promise!Covered
  <2>1. PICK i \in DOMAIN log : r = <<1, log[i]>>
    OBVIOUS
  <2> QED BY <2>1, LogType DEF IInv, MarksComplete, Complete, Stored
<1>3. IInv /\ IInv' /\ Promise!Covered' /\ [Next]_vars => [Promise!Next]_<<shown, {1} \X observations, {}, watermark>>
  <2> SUFFICES ASSUME IInv, IInv', Promise!Covered', [Next]_vars
               PROVE  Promise!Next
    OBVIOUS
  <2>1. shown \subseteq shown'
    BY MemoryGrows DEF IInv
  <2>2. shown' \subseteq {1} \X Times
    <3>1. log' \in Seq(Times)
      BY DEF IInv, TypeOK, Times
    <3>2. \A i \in DOMAIN log' : log'[i] \in Times
      <4> HIDE DEF Times
      <4> QED BY <3>1
    <3> QED BY <3>2 DEF Times
  <2>3. observations' \subseteq Times /\ watermark' \in Times
    BY DEF IInv, TypeOK, Times
  <2>4. {1} \X observations' \subseteq {1} \X Times /\ watermark' \in Int
    <3>1. watermark' \in Int
      BY <2>3 DEF Times
    <3>2. {1} \X observations' \subseteq {1} \X Times
      BY <2>3
    <3> QED BY <3>1, <3>2
  <2> QED BY <2>1, <2>2, <2>4 DEF Promise!Next, Times
<1> QED BY Invariant, NextInvariant, <1>1, <1>2, <1>3, PTL DEF Spec, KeepsPromise, Promise!Spec

=============================================================================
