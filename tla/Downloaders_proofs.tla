-------------------------- MODULE Downloaders_proofs --------------------------
(***************************************************************************)
(* Proofs about Downloaders, for any times, windows, pages, delays,        *)
(* illegible records and number of faults: each of the seven downloaders   *)
(* implements PolledArchive; the second database follows the first; the    *)
(* climatology of what is stored is asked for.                             *)
(***************************************************************************)
EXTENDS Downloaders, NumberSets

\* What the site has shown and is neither in the database nor forsaken, and that it
\* all comes after a time.
Missing == offered \ (cassandra \cup forsaken)
Clear(t) == \A r \in Missing : r[2] > t

\* The last legible record of the site.
Newest == Latest(Legible(site), 0)

-----------------------------------------------------------------------------
(* The invariant                                                            *)

Types ==
    /\ now \in 1..MaxTime
    /\ site \subseteq Parts \X (1..now)
    /\ {mark, lastArchive, newest, cursor, until} \subseteq Int
    /\ cassandra \subseteq Records /\ offered \subseteq Records
    /\ forsaken \subseteq offered
    /\ kind # "virtual" => cassandra \cup offered \subseteq Legible(site)

\* It forgets the last archive of a run in the next one, but never goes beyond the
\* records of the site.
WeatherlinkMarks ==
    kind = "weatherlink" => lastArchive <= mark /\ mark <= Newest /\ newest <= Newest

\* The spans of a download come in order, and what is missing is in the next ones.
SpansInOrder ==
    kind \in {"apiv2", "fieldclimate"} =>
        /\ lastArchive = mark /\ 0 <= mark
        /\ Busy => Clear(cursor)

\* So do its pages, but a page may end its span.
PagesInOrder ==
    kind = "liveobjects" =>
        /\ lastArchive = mark
        /\ Busy => Clear(cursor) /\ lastArchive <= newest /\ newest <= cursor

\* So do its hours; the record of the last one kept is in the database.
HoursInOrder ==
    kind = "meteofrance" =>
        /\ lastArchive = mark
        /\ mark = 0 \/ <<1, mark>> \in cassandra
        /\ Busy =>
            /\ \A r \in Missing : r[2] >= cursor
            /\ lastArchive <= cursor /\ newest <= cursor
            /\ newest = 0 \/ <<1, newest>> \in cassandra

NothingIsMissing == kind = "radome" => Missing = {}

\* The time in the database is ahead of the loop: what it passes is forsaken until
\* the loop stores it.
TargetsInOrder ==
    kind = "virtual" =>
        /\ timescale \subseteq cassandra
        /\ lastArchive <= mark /\ 0 <= lastArchive
        /\ \A t \in 1..mark : <<1, t>> \in cassandra \cup forsaken
        /\ offered \subseteq {1} \X (1..MaxTime)
        /\ Busy => /\ 0 <= cursor /\ cursor <= until /\ until = newest /\ until <= now
                   /\ cursor <= lastArchive + 1

IInv ==
    /\ Types
    /\ Clear(mark)
    /\ WeatherlinkMarks
    /\ SpansInOrder
    /\ PagesInOrder
    /\ HoursInOrder
    /\ NothingIsMissing
    /\ TargetsInOrder

-----------------------------------------------------------------------------
(* Records                                                                  *)

\* Sets of records, of any part.
Dated == {1, 2} \X (0..MaxTime)

\* The times of records.
LEMMA TimesOfRecords ==
  ASSUME NEW S, S \subseteq Dated
  PROVE  /\ TimesOf(S) \subseteq 0..MaxTime
         /\ \A r \in S : r[2] \in TimesOf(S)
         /\ S # {} => TimesOf(S) # {}
BY DEF TimesOf, Dated

\* Latest is the last of them, or its default.
LEMMA LatestIsLast ==
  ASSUME NEW S, S \subseteq Dated, NEW d \in Int
  PROVE  /\ Latest(S, d) \in Int
         /\ Latest(S, d) = d \/ \E r \in S : r[2] = Latest(S, d)
         /\ d <= Latest(S, d)
         /\ \A r \in S : r[2] <= Latest(S, d)
<1> DEFINE T == TimesOf(S)
<1>1. \E m \in T \cup {d} : \A t \in T \cup {d} : m >= t
  <2>1. CASE T = {}
    BY <2>1
  <2>2. CASE T # {}
    <3>1. PICK m \in T : \A t \in T : t <= m
      BY <2>2, TimesOfRecords, GreatestNumber, DownloadersAssumption
    <3>2. m \in Int /\ T \subseteq Int
      BY TimesOfRecords
    <3>3. CASE m >= d
      BY <3>1, <3>2, <3>3
    <3>4. CASE m < d
      BY <3>1, <3>2, <3>4
    <3> QED BY <3>2, <3>3, <3>4
  <2> QED BY <2>1, <2>2
<1>2. Latest(S, d) \in T \cup {d} /\ \A t \in T \cup {d} : Latest(S, d) >= t
  BY <1>1 DEF Latest, Max
<1>3. T \subseteq Int
  BY TimesOfRecords
<1>4. \A r \in S : r[2] \in T
  BY TimesOfRecords
<1>5. Latest(S, d) \in T => \E r \in S : r[2] = Latest(S, d)
  BY DEF TimesOf
<1> HIDE DEF T
<1> QED BY <1>2, <1>3, <1>4, <1>5

\* Min is the first of them.
LEMMA FirstTime ==
  ASSUME NEW S, S \subseteq Nat, S # {}
  PROVE  Min(S) \in S /\ \A t \in S : Min(S) <= t
BY LeastNumber DEF Min

\* How the databases answer.
LEMMA OutcomeType ==
  ASSUME NEW S, NEW o \in Outcomes(S)
  PROVE  o.refused \subseteq S /\ o.late \subseteq S /\ o.stuck \in BOOLEAN
<1>1. CASE o = Smooth
  BY <1>1 DEF Smooth
<1>2. CASE o = [Smooth EXCEPT !.stuck = TRUE]
  BY <1>2 DEF Smooth
<1>3. CASE \E r \in S : o = [Smooth EXCEPT !.refused = {r}]
  BY <1>3 DEF Smooth
<1>4. CASE \E r \in S : o = [Smooth EXCEPT !.late = {r}]
  BY <1>4 DEF Smooth
<1> QED BY <1>1, <1>2, <1>3, <1>4 DEF Outcomes

\* Records of the site are dated.
LEMMA SiteIsDated ==
  ASSUME Types
  PROVE  /\ site \subseteq Dated /\ Legible(site) \subseteq site
         /\ \A r \in site : r[2] \in 1..MaxTime /\ r[2] <= now /\ r[1] \in Parts /\ r = <<r[1], r[2]>>
         /\ now \in Nat /\ Dated = Records
BY DownloadersAssumption DEF Types, Dated, Records, Times, Legible, Parts

\* The last legible record of the site bounds those of its records.
LEMMA NewestBounds ==
  ASSUME Types
  PROVE  /\ Newest \in Int /\ 0 <= Newest
         /\ \A r \in Legible(site) : r[2] <= Newest
         /\ Newest = 0 \/ \E r \in Legible(site) : r[2] = Newest
<1>1. Legible(site) \subseteq Dated
  BY SiteIsDated
<1> QED BY <1>1, LatestIsLast DEF Newest

-----------------------------------------------------------------------------
(* The steps that store nothing                                             *)

\* Time passes, or the download is given up, or the downloader is built anew.
LEMMA QuietStep ==
  ASSUME IInv, UNCHANGED <<kind, site, mark, databases, history>>,
         now' \in now..MaxTime, until' \in Int,
         \/ UNCHANGED <<lastArchive, newest, cursor, until>>
         \/ cursor' = Idle /\ lastArchive' \in {lastArchive, mark} /\ newest' \in {newest, 0}
  PROVE  IInv'
<1> USE DEF IInv, databases, history
<1>1. Rewind \in Nat /\ MaxTime \in Nat
  BY DownloadersAssumption
<1>2. Newest' = Newest
  BY DEF Newest, Latest, Max, TimesOf, Legible
<1>3. Missing' = Missing
  BY DEF Missing
<1>4. Types'
  <2>1. now \in 1..MaxTime /\ site \subseteq Parts \X (1..now)
    BY DEF Types
  <2>2. now' \in 1..MaxTime /\ 1..now \subseteq 1..now' /\ Parts' = Parts
    BY <1>1, <2>1 DEF Parts
  <2>3. {mark', lastArchive', newest', cursor', until'} \subseteq Int
    BY <1>1 DEF Types, Idle
  <2> QED BY <2>1, <2>2, <2>3 DEF Types, Legible, Records, Times
<1>5. Clear(mark)'
  BY <1>3 DEF Clear
<1>6. WeatherlinkMarks'
  BY <1>2, NewestBounds DEF WeatherlinkMarks, Types
<1>7. SpansInOrder'
  BY <1>3 DEF SpansInOrder, Clear, Busy, Idle
<1>8. PagesInOrder'
  BY <1>3 DEF PagesInOrder, Clear, Busy, Idle
<1>9. HoursInOrder'
  BY <1>3 DEF HoursInOrder, Busy, Idle
<1>10. NothingIsMissing'
  BY <1>3 DEF NothingIsMissing
<1>11. TargetsInOrder'
  BY <1>1 DEF TargetsInOrder, Busy, Idle, Types
<1> QED BY <1>4, <1>5, <1>6, <1>7, <1>8, <1>9, <1>10, <1>11

\* A record more on the site is not shown yet.
LEMMA UploadStep ==
  ASSUME IInv, NEW p \in Parts, NEW t \in 1..MaxTime, Upload(p, t)
  PROVE  IInv'
<1> USE DEF IInv, databases, history, loop
<1>1. /\ site' = site \cup {<<p, t>>} /\ t <= now
      /\ UNCHANGED <<kind, now, mark, lastArchive, loop, databases, history>>
  BY DEF Upload
<1>2. Missing' = Missing
  BY <1>1 DEF Missing
<1>3. Legible(site) \subseteq Legible(site')
  BY <1>1 DEF Legible
<1>4. Types'
  <2>1. Parts' = Parts /\ <<p, t>> \in Parts \X (1..now)
    BY <1>1 DEF Parts, Types
  <2> QED BY <1>1, <1>3, <2>1 DEF Types, Legible
<1>5. Newest <= Newest' /\ Newest' \in Int
  <2>1. Legible(site') \subseteq Dated
    <3>1. <<p, t>> \in Dated
      BY DownloadersAssumption DEF Dated, Parts
    <3> QED BY <1>1, <3>1, SiteIsDated DEF Legible
  <2>2. /\ Latest(Legible(site'), 0) \in Int /\ 0 <= Latest(Legible(site'), 0)
        /\ \A r \in Legible(site') : r[2] <= Latest(Legible(site'), 0)
    BY <2>1, LatestIsLast
  <2>3. Newest' = Latest(Legible(site'), 0)
    BY DEF Newest, Latest, Max, TimesOf, Legible
  <2> QED BY <1>3, <2>2, <2>3, NewestBounds
<1>6. WeatherlinkMarks'
  BY <1>1, <1>5, NewestBounds DEF WeatherlinkMarks, Types
<1>7. Clear(mark)' /\ SpansInOrder' /\ PagesInOrder' /\ HoursInOrder' /\ NothingIsMissing'
  BY <1>1, <1>2 DEF Clear, SpansInOrder, PagesInOrder, HoursInOrder, NothingIsMissing, Busy, Idle
<1>8. TargetsInOrder'
  BY <1>1 DEF TargetsInOrder, Busy, Idle
<1> QED BY <1>4, <1>6, <1>7, <1>8

\* A download is begun: what is missing comes after the last archive.
LEMMA BeginStep ==
  ASSUME IInv, Begin
  PROVE  IInv'
<1> USE DEF IInv, databases, history, loop
<1>1. UNCHANGED <<kind, now, site, mark, lastArchive, databases, history>>
  BY DEF Begin, Apiv2Begin, FieldClimateBegin, LiveobjectsBegin, MeteoFranceBegin, RadomeBegin,
         VirtualBegin, BeginLoop
<1>2. Missing' = Missing /\ Newest' = Newest
  BY <1>1 DEF Missing, Newest, Latest, Max, TimesOf, Legible
<1>3. Rewind \in Nat /\ MaxTime \in Nat /\ Latest(site, 0) \in Int /\ Latest(site, 0) <= now /\ now \in Nat
  <2>1. site \subseteq Dated /\ now \in Nat /\ \A r \in site : r[2] <= now
    BY SiteIsDated
  <2> QED BY <2>1, LatestIsLast, DownloadersAssumption
<1>4. ASSUME {newest', cursor', until'} \subseteq Int PROVE Types'
  BY <1>1, <1>4 DEF Types, Legible, Parts
<1>5. Clear(mark)' /\ NothingIsMissing'
  BY <1>1, <1>2 DEF Clear, NothingIsMissing
<1>6. CASE Apiv2Begin \/ FieldClimateBegin
  <2>1. /\ cursor' \in {lastArchive, lastArchive - Rewind} /\ until' \in {now, Latest(site, 0)}
        /\ newest' = newest /\ kind \in {"apiv2", "fieldclimate"}
    BY <1>6 DEF Apiv2Begin, FieldClimateBegin, BeginLoop
  <2>2. Types'
    BY <1>3, <1>4, <2>1 DEF Types
  <2>3. SpansInOrder'
    BY <1>1, <1>2, <1>3, <2>1 DEF SpansInOrder, Clear, Types, Missing, Records, Times
  <2>4. WeatherlinkMarks' /\ PagesInOrder' /\ HoursInOrder' /\ TargetsInOrder'
    BY <1>1, <2>1 DEF WeatherlinkMarks, PagesInOrder, HoursInOrder, TargetsInOrder
  <2> QED BY <1>5, <2>2, <2>3, <2>4
<1>7. CASE LiveobjectsBegin
  <2>1. cursor' = lastArchive /\ until' = now /\ newest' = lastArchive /\ kind = "liveobjects"
    BY <1>7 DEF LiveobjectsBegin, BeginLoop
  <2>2. Types'
    BY <1>3, <1>4, <2>1 DEF Types
  <2>3. PagesInOrder'
    BY <1>1, <1>2, <2>1 DEF PagesInOrder, Clear, Types
  <2>4. WeatherlinkMarks' /\ SpansInOrder' /\ HoursInOrder' /\ TargetsInOrder'
    BY <1>1, <2>1 DEF WeatherlinkMarks, SpansInOrder, HoursInOrder, TargetsInOrder
  <2> QED BY <1>5, <2>2, <2>3, <2>4
<1>8. CASE MeteoFranceBegin
  <2>1. cursor' = lastArchive /\ until' = now /\ newest' = lastArchive /\ kind = "meteofrance"
    BY <1>8 DEF MeteoFranceBegin, BeginLoop
  <2>2. Types'
    BY <1>3, <1>4, <2>1 DEF Types
  <2>3. HoursInOrder'
    <3>1. \A r \in Missing : r[2] \in Int
      BY DEF Missing, Types, Records, Times
    <3> QED BY <1>1, <1>2, <2>1, <3>1 DEF HoursInOrder, Clear, Types
  <2>4. WeatherlinkMarks' /\ SpansInOrder' /\ PagesInOrder' /\ TargetsInOrder'
    BY <1>1, <2>1 DEF WeatherlinkMarks, SpansInOrder, PagesInOrder, TargetsInOrder
  <2> QED BY <1>5, <2>2, <2>3, <2>4
<1>9. CASE RadomeBegin
  <2>1. cursor' \in {mark - Rewind, 0} /\ until' = now /\ newest' = newest /\ kind = "radome"
    BY <1>9 DEF RadomeBegin, Higher
  <2>2. Types'
    BY <1>3, <1>4, <2>1 DEF Types
  <2>3. WeatherlinkMarks' /\ SpansInOrder' /\ PagesInOrder' /\ HoursInOrder' /\ TargetsInOrder'
    BY <1>1, <2>1 DEF WeatherlinkMarks, SpansInOrder, PagesInOrder, HoursInOrder, TargetsInOrder
  <2> QED BY <1>5, <2>2, <2>3
<1>10. CASE VirtualBegin
  <2>1. /\ cursor' = lastArchive /\ until' = now /\ newest' = now /\ kind = "virtual"
        /\ Latest(site, 0) > lastArchive
    BY <1>10 DEF VirtualBegin, BeginLoop
  <2>2. Types'
    BY <1>3, <1>4, <2>1 DEF Types
  <2>3. TargetsInOrder'
    BY <1>1, <1>3, <2>1 DEF TargetsInOrder, Types
  <2>4. WeatherlinkMarks' /\ SpansInOrder' /\ PagesInOrder' /\ HoursInOrder'
    BY <1>1, <2>1 DEF WeatherlinkMarks, SpansInOrder, PagesInOrder, HoursInOrder
  <2> QED BY <1>5, <2>2, <2>3, <2>4
<1> QED BY <1>6, <1>7, <1>8, <1>9, <1>10 DEF Begin

-----------------------------------------------------------------------------
(* The steps that store                                                     *)

\* Records legible on the site, and their times.
LEMMA StoredTypes ==
  ASSUME Types, UNCHANGED <<kind, now, site>>, {mark', lastArchive', newest', cursor', until'} \subseteq Int,
         cassandra' \cup offered' \subseteq Legible(site), forsaken' \subseteq offered'
  PROVE  Types'
<1>1. Legible(site) \subseteq Records
  BY SiteIsDated
<1> QED BY <1>1 DEF Types, Legible, Parts

\* All the records asked for are deleted and inserted again, or refused: those refused
\* are later than the mark, or forsaken.
LEMMA WeatherlinkStep ==
  ASSUME IInv, WeatherlinkDownload
  PROVE  IInv'
<1> USE DEF IInv
<1> DEFINE records == Legible({r \in site : r[2] > Reference})
           start == Min({now} \cup TimesOf(records))
           last == Higher(newest, Latest(records, 0))
<1>1. PICK announced \in TimesOf(site), o \in Outcomes(records) :
         /\ announced > lastArchive /\ records # {}
         /\ cassandra' = (cassandra \ Deleted(cassandra, start, Latest(records, lastArchive)))
                            \cup (records \ o.refused)
         /\ newest' \in {announced, last} /\ (newest' = announced => announced <= last)
         /\ mark' \in {mark, newest'}
         /\ forsaken' = forsaken \cup {r \in o.refused : r[2] <= mark'}
         /\ offered' = offered \cup records
  <2>1. PICK announced \in TimesOf(site), o \in Outcomes(records) :
         /\ announced > lastArchive /\ records # {}
         /\ cassandra' = (cassandra \ Deleted(cassandra, start, Latest(records, lastArchive)))
                            \cup (records \ o.refused)
         /\ IF WeatherlinkStored(records, o)
            THEN newest' = WeatherlinkMark(announced, last) /\ mark' = IF o.stuck THEN mark ELSE newest'
            ELSE newest' = last /\ mark' = mark
         /\ forsaken' = forsaken \cup {r \in o.refused : r[2] <= mark'}
         /\ offered' = offered \cup Legible(records)
    BY DEF WeatherlinkDownload, Show
  <2>2. Legible(records) = records
    BY DEF Legible
  <2>3. announced \in Int /\ newest \in Int /\ last \in Int
    <3>1. records \subseteq Dated /\ site \subseteq Dated
      BY SiteIsDated DEF Legible
    <3>2. Latest(records, 0) \in Int /\ TimesOf(site) \subseteq Int
      BY <3>1, LatestIsLast, TimesOfRecords
    <3> QED BY <3>2 DEF Types, Higher
  <2> HIDE DEF records, start, last
  <2> QED BY <2>1, <2>2, <2>3 DEF WeatherlinkMark
<1>2. UNCHANGED <<kind, now, site, lastArchive, cursor, until>> /\ kind = "weatherlink"
  BY DEF WeatherlinkDownload
<1>3. /\ records \subseteq Legible(site) /\ records \subseteq Dated
      /\ TimesOf(records) \subseteq 0..MaxTime
      /\ \A r \in records : r[2] > Reference /\ r[2] \in TimesOf(records) /\ r[2] \in Nat /\ r[2] <= now
      /\ \A r \in Legible(site) : r[2] > Reference => r \in records
  <2>1. records \subseteq Legible(site) /\ \A r \in records : r[2] > Reference
    BY DEF Legible
  <2>2. \A r \in Legible(site) : r[2] > Reference => r \in records
    BY DEF Legible
  <2> HIDE DEF records
  <2>3. records \subseteq Dated /\ \A r \in records : r[2] \in Nat /\ r[2] <= now
    BY <2>1, SiteIsDated DEF Dated
  <2> QED BY <2>1, <2>2, <2>3, TimesOfRecords
<1>4. start \in {now} \cup TimesOf(records) /\ start \in Nat /\ \A r \in records : start <= r[2]
  <2>1. {now} \cup TimesOf(records) \subseteq Nat
    BY <1>3, SiteIsDated
  <2> HIDE DEF records
  <2> QED BY <1>3, <2>1, FirstTime
<1>5. Reference \in Int /\ (Reference <= lastArchive \/ Reference = 0)
  BY DEF Reference, Types
<1>6. start > Reference
  <2>1. PICK r \in records : TRUE
    BY <1>1
  <2>2. r[2] > Reference /\ r[2] <= now /\ r[2] \in Nat /\ start <= r[2]
    BY <1>3, <1>4
  <2>3. CASE start = now
    BY <2>2, <2>3, <1>4, <1>5
  <2>4. CASE start \in TimesOf(records)
    <3>1. PICK q \in records : start = q[2]
      BY <2>4 DEF TimesOf
    <3> QED BY <3>1, <1>3
  <2> QED BY <2>3, <2>4, <1>4
<1>7. Latest(records, 0) = Newest /\ last = Newest /\ Newest \in Int /\ 0 <= Newest
  <2>1. /\ Latest(records, 0) \in Int /\ 0 <= Latest(records, 0)
        /\ Latest(records, 0) = 0 \/ \E r \in records : r[2] = Latest(records, 0)
        /\ \A r \in records : r[2] <= Latest(records, 0)
    <3> HIDE DEF records
    <3> QED BY <1>3, LatestIsLast
  <2>2. /\ Newest \in Int /\ 0 <= Newest
        /\ \A r \in Legible(site) : r[2] <= Newest
        /\ Newest = 0 \/ \E r \in Legible(site) : r[2] = Newest
    BY NewestBounds
  <2>3. Latest(records, 0) <= Newest
    BY <2>1, <2>2, <1>3
  <2>4. PICK r \in records : r[2] > Reference /\ r[2] <= Newest /\ r[2] \in Nat
    BY <1>1, <1>3, <2>2
  <2>5. Newest <= Latest(records, 0)
    <3> HIDE DEF records
    <3>1. CASE Newest = 0
      BY <3>1, <2>1
    <3>2. CASE \E q \in Legible(site) : q[2] = Newest
      <4>1. PICK q \in Legible(site) : q[2] = Newest
        BY <3>2
      <4>2. q \in records
        BY <4>1, <2>2, <2>4, <1>3, <1>5
      <4> QED BY <4>1, <4>2, <2>1
    <3> QED BY <3>1, <3>2, <2>2
  <2>6. newest \in Int /\ newest <= Newest
    BY <1>2 DEF WeatherlinkMarks, Types
  <2> HIDE DEF records
  <2> QED BY <2>1, <2>2, <2>3, <2>5, <2>6 DEF Higher
<1>8. announced \in Int
  <2>1. TimesOf(site) \subseteq Int
    BY SiteIsDated, TimesOfRecords
  <2> QED BY <2>1
<1>9. o.refused \subseteq records
  BY OutcomeType
<1> HIDE DEF records, start, last
<1>10. newest' \in Int /\ newest' <= Newest /\ mark' \in Int /\ mark' <= Newest /\ lastArchive <= mark'
  BY <1>1, <1>2, <1>7, <1>8 DEF WeatherlinkMarks, Types
<1>11. Types'
  <2>1. cassandra' \cup offered' \subseteq Legible(site) /\ forsaken' \subseteq offered'
    BY <1>1, <1>2, <1>3, <1>9 DEF Types
  <2> QED BY <1>2, <1>10, <2>1, StoredTypes DEF Types
<1>12. ASSUME NEW r \in Missing' PROVE r[2] > mark'
  <2>1. r \in offered \cup records /\ r \notin forsaken /\ (r \in o.refused => ~(r[2] <= mark'))
    BY <1>1, <1>12 DEF Missing
  <2>2. CASE r \in records
    <3>1. r \in o.refused /\ r[2] \in Nat
      BY <2>2, <1>1, <1>3, <1>12 DEF Missing
    <3> QED BY <3>1, <2>1, <1>10
  <2>3. CASE r \notin records
    <3>1. r \in Legible(site) /\ r[2] \in Nat /\ r[2] > 0
      BY <2>1, <2>3, <1>2, SiteIsDated DEF Types
    <3>2. ~(r[2] > Reference)
      BY <2>3, <3>1, <1>3
    <3>3. CASE r \in cassandra
      <4>1. r[2] >= start
        BY <3>3, <1>1, <1>12 DEF Missing, Deleted
      <4> QED BY <4>1, <3>1, <3>2, <1>4, <1>5, <1>6
    <3>4. CASE r \notin cassandra
      <4>1. r[2] > mark
        BY <3>4, <2>1, <2>3 DEF Clear, Missing
      <4> QED BY <4>1, <3>1, <3>2, <1>2, <1>5 DEF WeatherlinkMarks, Types
    <3> QED BY <3>3, <3>4
  <2> QED BY <2>2, <2>3
<1>13. Clear(mark)'
  BY <1>12 DEF Clear
<1>14. WeatherlinkMarks'
  <2>1. Newest' = Newest
    BY <1>2 DEF Newest, Latest, Max, TimesOf, Legible
  <2> QED BY <1>2, <1>10, <2>1 DEF WeatherlinkMarks
<1>15. SpansInOrder' /\ PagesInOrder' /\ HoursInOrder' /\ NothingIsMissing' /\ TargetsInOrder'
  BY <1>2 DEF SpansInOrder, PagesInOrder, HoursInOrder, NothingIsMissing, TargetsInOrder
<1> QED BY <1>11, <1>13, <1>14, <1>15

\* The records of a span, and their last time.
LEMMA SpanTypes ==
  ASSUME Types, NEW lo \in Int, NEW hi \in Int
  PROVE  /\ Between(site, lo, hi) \subseteq site
         /\ Legible(Between(site, lo, hi)) \subseteq Legible(site)
         /\ \A r \in Legible(site) : lo <= r[2] /\ r[2] <= hi => r \in Legible(Between(site, lo, hi))
         /\ \A r \in Between(site, lo, hi) : lo <= r[2] /\ r[2] <= hi /\ r[2] \in Nat /\ r[2] > 0
         /\ Between(site, lo, hi) \subseteq Dated
BY SiteIsDated DEF Between, Legible, Dated

\* The next span, or the end of the loop.
LEMMA GoOnTypes ==
  ASSUME Types, NEW next \in Int, GoOn(next)
  PROVE  /\ cursor' \in Int /\ until' \in Int
         /\ cursor' \in {next, Idle} /\ (~(next < until) => cursor' = Idle)
BY DownloadersAssumption DEF GoOn, Done, Idle, Types

\* What a span deletes is on the site, in its page, and of a part that has something
\* new: it is inserted again.  What is missing comes after the span, or is refused.
LEMMA Apiv2Step ==
  ASSUME IInv, Apiv2Span
  PROVE  IInv'
<1> USE DEF IInv
<1> DEFINE page == Legible(Between(site, cursor + 1, cursor + Window))
           records == {r \in page : r[1] \in Fresh(page)}
           deleted == UNION {Deleted(OfPart(cassandra, p), Min(TimesOf(OfPart(page, p))),
                                     Latest(OfPart(page, p), 0)) : p \in Fresh(page)}
           next == cursor + Window
<1>1. PICK o \in Outcomes(records) :
         /\ newest' = Latest(records, newest)
         /\ cassandra' = (cassandra \ deleted) \cup (records \ o.refused)
         /\ IF o.refused = {} THEN Advance(Apiv2Reference(page), o) ELSE UNCHANGED <<mark, lastArchive>>
         /\ forsaken' = forsaken \cup PassedOver(o)
         /\ offered' = offered \cup records
  <2>1. PICK o \in Outcomes(records) :
         /\ newest' = Latest(records, newest)
         /\ cassandra' = (cassandra \ deleted) \cup (records \ o.refused)
         /\ IF o.refused = {} THEN Advance(Apiv2Reference(page), o) ELSE UNCHANGED <<mark, lastArchive>>
         /\ forsaken' = forsaken \cup PassedOver(o)
         /\ offered' = offered \cup Legible(records)
    BY DEF Apiv2Span, Show
  <2>2. Legible(records) = records
    BY DEF Legible
  <2> QED BY <2>1, <2>2
<1>2. UNCHANGED <<kind, now, site>> /\ kind = "apiv2" /\ Busy /\ GoOn(next)
  BY DEF Apiv2Span
<1>3. cursor \in Int /\ Window \in Nat /\ next \in Int /\ cursor + 1 \in Int
  BY DownloadersAssumption DEF Types
<1>4. /\ page \subseteq Legible(site) /\ page \subseteq Dated
      /\ \A r \in Legible(site) : cursor + 1 <= r[2] /\ r[2] <= next => r \in page
      /\ \A r \in page : cursor + 1 <= r[2] /\ r[2] <= next /\ r[2] \in Nat /\ r[2] > 0
  BY <1>3, SpanTypes DEF Legible
<1>5. o.refused \subseteq records
  BY OutcomeType
<1>6. lastArchive = mark /\ mark \in Int /\ 0 <= mark /\ Clear(cursor)
  BY <1>2 DEF SpansInOrder, Types
<1> HIDE DEF page, next
<1>7. ASSUME NEW p
      PROVE  /\ OfPart(page, p) \subseteq page
             /\ Latest(OfPart(page, p), 0) \in Int /\ 0 <= Latest(OfPart(page, p), 0)
             /\ \A r \in OfPart(page, p) : r[2] <= Latest(OfPart(page, p), 0)
             /\ Latest(OfPart(page, p), 0) = 0 \/ Latest(OfPart(page, p), 0) <= next
  <2>1. OfPart(page, p) \subseteq page /\ OfPart(page, p) \subseteq Dated
    BY <1>4 DEF OfPart
  <2>2. /\ Latest(OfPart(page, p), 0) \in Int /\ 0 <= Latest(OfPart(page, p), 0)
        /\ Latest(OfPart(page, p), 0) = 0 \/ \E r \in OfPart(page, p) : r[2] = Latest(OfPart(page, p), 0)
        /\ \A r \in OfPart(page, p) : r[2] <= Latest(OfPart(page, p), 0)
    BY <2>1, LatestIsLast
  <2> QED BY <2>1, <2>2, <1>4
<1>8. ASSUME NEW r \in page, r[2] > mark PROVE r \in records
  <2>1. r \in OfPart(page, r[1]) /\ r[1] \in Parts /\ r[2] \in Nat
    BY <1>4, SiteIsDated DEF OfPart, Legible
  <2>2. Latest(OfPart(page, r[1]), 0) > lastArchive
    BY <1>6, <1>7, <1>8, <2>1
  <2> QED BY <2>1, <2>2 DEF Fresh
<1>9. ASSUME NEW r \in cassandra, r \in deleted PROVE r \in records
  <2>1. PICK p \in Fresh(page) :
           r \in Deleted(OfPart(cassandra, p), Min(TimesOf(OfPart(page, p))), Latest(OfPart(page, p), 0))
    BY <1>9
  <2>2. /\ r[1] = p /\ r \in Legible(site)
        /\ Min(TimesOf(OfPart(page, p))) <= r[2] /\ r[2] <= Latest(OfPart(page, p), 0)
    <3>1. r \in Legible(site)
      BY <1>2 DEF Types
    <3>2. r[1] = p
      BY <2>1 DEF Deleted, OfPart
    <3> QED BY <2>1, <3>1, <3>2 DEF Deleted
  <2>3. Latest(OfPart(page, p), 0) > mark
    BY <1>6 DEF Fresh
  <2>4. OfPart(page, p) # {}
    <3>1. Latest(OfPart(page, p), 0) # 0 /\ OfPart(page, p) \subseteq Dated
      BY <1>4, <1>6, <1>7, <2>3
    <3> QED BY <3>1, LatestIsLast
  <2>5. /\ TimesOf(OfPart(page, p)) \subseteq Nat /\ TimesOf(OfPart(page, p)) # {}
        /\ \A t \in TimesOf(OfPart(page, p)) : cursor + 1 <= t
    <3>1. OfPart(page, p) \subseteq Dated
      BY <1>4, <1>7
    <3>2. TimesOf(OfPart(page, p)) \subseteq Nat /\ TimesOf(OfPart(page, p)) # {}
      BY <2>4, <3>1, TimesOfRecords
    <3>3. \A t \in TimesOf(OfPart(page, p)) : \E q \in OfPart(page, p) : t = q[2]
      BY DEF TimesOf
    <3> QED BY <1>4, <1>7, <3>2, <3>3
  <2>6. Min(TimesOf(OfPart(page, p))) \in TimesOf(OfPart(page, p))
    BY <2>5, FirstTime
  <2>7. cursor + 1 <= r[2] /\ r[2] <= next
    <3>1. r[2] \in Nat /\ r[2] > 0 /\ Min(TimesOf(OfPart(page, p))) \in Nat
      BY <2>2, <2>5, <2>6, SiteIsDated
    <3> QED BY <2>2, <2>5, <2>6, <3>1, <1>3, <1>7
  <2>8. r \in page
    BY <2>2, <2>7, <1>4
  <2> QED BY <2>2, <2>8
<1>10. records \subseteq page
  OBVIOUS
<1> HIDE DEF records, deleted
<1>11. /\ lastArchive' = mark' /\ mark' \in Int /\ 0 <= mark'
       /\ mark' = mark \/ (o.refused = {} /\ (mark' = 0 \/ mark' <= next))
  <2>1. /\ Apiv2Reference(page) \in Int /\ 0 <= Apiv2Reference(page)
        /\ Apiv2Reference(page) = mark \/ Apiv2Reference(page) = 0 \/ Apiv2Reference(page) <= next
    BY <1>6, <1>7 DEF Apiv2Reference
  <2> HIDE DEF Apiv2Reference
  <2>2. CASE o.refused = {} /\ ~o.stuck
    <3>1. mark' = Apiv2Reference(page) /\ lastArchive' = Apiv2Reference(page)
      BY <2>2, <1>1 DEF Advance
    <3> QED BY <2>1, <2>2, <3>1
  <2>3. CASE ~(o.refused = {} /\ ~o.stuck)
    <3>1. mark' = mark /\ lastArchive' = lastArchive
      BY <2>3, <1>1 DEF Advance
    <3> QED BY <1>6, <3>1
  <2> QED BY <2>2, <2>3
<1>12. cursor' \in Int /\ until' \in Int /\ cursor' \in {next, Idle} /\ (~(next < until) => cursor' = Idle)
  BY <1>2, <1>3, GoOnTypes
<1>13. Types'
  <2>1. cassandra' \cup offered' \subseteq Legible(site) /\ forsaken' \subseteq offered'
    BY <1>1, <1>2, <1>4, <1>5, <1>10 DEF Types, PassedOver
  <2>2. newest' \in Int
    <3>1. newest \in Int /\ records \subseteq Dated
      BY <1>4, <1>10 DEF Types
    <3> QED BY <1>1, <3>1, LatestIsLast
  <2>3. {mark', lastArchive', newest', cursor', until'} \subseteq Int
    BY <1>11, <1>12, <2>2
  <2> QED BY <1>2, <2>1, <2>3, StoredTypes
<1>14. ASSUME NEW r \in Missing' PROVE r[2] > mark' /\ (cursor' # Idle => r[2] > cursor')
  <2>1. r \in offered \cup records /\ r \notin forsaken /\ r \notin PassedOver(o) /\ r \notin cassandra'
    BY <1>1, <1>14 DEF Missing
  <2>2. CASE r \in records
    <3>1. r \in o.refused /\ r[2] \in Nat
      BY <2>1, <2>2, <1>1, <1>4, <1>10
    <3>2. ~(next < until) /\ r[2] > lastArchive
      BY <2>1, <3>1, <1>6 DEF PassedOver, next
    <3> QED BY <3>1, <3>2, <1>6, <1>11, <1>12
  <2>3. CASE r \notin records
    <3>1. r \in Missing
      BY <2>1, <2>3, <1>1, <1>9 DEF Missing
    <3>2. r[2] > cursor /\ r[2] > mark /\ r \in Legible(site) /\ r[2] \in Nat /\ r[2] > 0
      BY <3>1, <1>2, <1>6, SiteIsDated DEF Clear, Missing, Types
    <3>3. r \notin page
      BY <2>3, <3>2, <1>8
    <3>4. r[2] > next
      BY <3>2, <3>3, <1>3, <1>4
    <3> QED BY <3>2, <3>4, <1>3, <1>11, <1>12
  <2> QED BY <2>2, <2>3
<1>15. Clear(mark)' /\ SpansInOrder'
  BY <1>11, <1>14 DEF Clear, SpansInOrder, Busy, Idle
<1>16. WeatherlinkMarks' /\ PagesInOrder' /\ HoursInOrder' /\ NothingIsMissing' /\ TargetsInOrder'
  BY <1>2 DEF WeatherlinkMarks, PagesInOrder, HoursInOrder, NothingIsMissing, TargetsInOrder
<1> QED BY <1>13, <1>15, <1>16

\* What it deletes and does not insert again is forsaken.
LEMMA FieldClimateStep ==
  ASSUME IInv, FieldClimateSpan
  PROVE  IInv'
<1> USE DEF IInv
<1> DEFINE records == Legible(Between(site, cursor, cursor + Window))
           last == Latest(records, 0)
           deleted == Deleted(cassandra, lastArchive, last)
           next == cursor + Window
<1>1. PICK o \in Outcomes(records) :
         /\ offered' = offered \cup Legible(records)
         /\ IF records = {}
            THEN UNCHANGED <<mark, lastArchive, databases, forsaken>>
            ELSE /\ cassandra' = (cassandra \ deleted) \cup (records \ o.refused)
                 /\ forsaken' = forsaken \cup PassedOver(o) \cup ((deleted \ records) \cap offered)
                 /\ IF o.refused = {} THEN Advance(last, o) ELSE UNCHANGED <<mark, lastArchive>>
  BY DEF FieldClimateSpan, Show
<1>2. UNCHANGED <<kind, now, site, newest>> /\ kind = "fieldclimate" /\ Busy /\ GoOn(next)
  BY DEF FieldClimateSpan
<1>3. cursor \in Int /\ Window \in Nat /\ next \in Int
  BY DownloadersAssumption DEF Types
<1>4. /\ records \subseteq Legible(site) /\ records \subseteq Dated /\ Legible(records) = records
      /\ \A r \in Legible(site) : cursor <= r[2] /\ r[2] <= next => r \in records
      /\ \A r \in records : r[2] <= next /\ r[2] \in Nat
  BY <1>3, SpanTypes DEF Legible
<1>5. o.refused \subseteq records
  BY OutcomeType
<1>6. lastArchive = mark /\ mark \in Int /\ 0 <= mark /\ Clear(cursor)
  BY <1>2 DEF SpansInOrder, Types
<1> HIDE DEF records, next
<1>7. last \in Int /\ 0 <= last /\ (records # {} => last <= next)
  BY <1>3, <1>4, LatestIsLast
<1> HIDE DEF last, deleted
<1>8. /\ lastArchive' = mark' /\ mark' \in Int /\ 0 <= mark'
      /\ mark' = mark \/ (o.refused = {} /\ mark' <= next)
  <2>1. \/ UNCHANGED <<mark, lastArchive>>
        \/ records # {} /\ o.refused = {} /\ mark' = last /\ lastArchive' = last
    BY <1>1 DEF Advance
  <2> QED BY <2>1, <1>6, <1>7
<1>9. cursor' \in Int /\ until' \in Int /\ cursor' \in {next, Idle} /\ (~(next < until) => cursor' = Idle)
  BY <1>2, <1>3, GoOnTypes
<1>10. Types'
  <2>1. cassandra' \cup offered' \subseteq Legible(site) /\ forsaken' \subseteq offered'
    <3>1. CASE records = {}
      BY <3>1, <1>1, <1>2, <1>4 DEF Types, databases
    <3>2. CASE records # {}
      BY <3>2, <1>1, <1>2, <1>4, <1>5 DEF Types, PassedOver
    <3> QED BY <3>1, <3>2
  <2>2. {mark', lastArchive', newest', cursor', until'} \subseteq Int
    BY <1>2, <1>8, <1>9 DEF Types
  <2> QED BY <1>2, <2>1, <2>2, StoredTypes
<1>11. ASSUME NEW r \in Missing' PROVE r[2] > mark' /\ (cursor' # Idle => r[2] > cursor')
  <2>1. r \in offered \cup records /\ r \notin forsaken' /\ r \notin cassandra'
    BY <1>1, <1>4, <1>11 DEF Missing
  <2>2. CASE r \in records
    <3>1. r \in o.refused /\ r[2] \in Nat /\ r \notin PassedOver(o)
      BY <2>1, <2>2, <1>1, <1>4
    <3>2. ~(next < until) /\ r[2] > lastArchive
      BY <3>1, <1>6 DEF PassedOver, next
    <3> QED BY <3>1, <3>2, <1>6, <1>8, <1>9
  <2>3. CASE r \notin records
    <3>1. r \in Missing
      BY <2>1, <2>3, <1>1 DEF Missing, databases
    <3>2. r[2] > cursor /\ r[2] > mark /\ r \in Legible(site) /\ r[2] \in Nat
      BY <3>1, <1>2, <1>6, SiteIsDated DEF Clear, Missing, Types
    <3>3. r[2] > next
      BY <2>3, <3>2, <1>3, <1>4
    <3> QED BY <3>2, <3>3, <1>3, <1>8, <1>9
  <2> QED BY <2>2, <2>3
<1>12. Clear(mark)' /\ SpansInOrder'
  BY <1>8, <1>11 DEF Clear, SpansInOrder, Busy, Idle
<1>13. WeatherlinkMarks' /\ PagesInOrder' /\ HoursInOrder' /\ NothingIsMissing' /\ TargetsInOrder'
  BY <1>2 DEF WeatherlinkMarks, PagesInOrder, HoursInOrder, NothingIsMissing, TargetsInOrder
<1> QED BY <1>10, <1>12, <1>13

\* What a step shows is stored or forsaken.
LEMMA RadomeKeeps ==
  ASSUME IInv, RadomeStep
  PROVE  IInv'
<1> USE DEF IInv
<1> DEFINE records == Legible(Between(site, cursor, cursor))
<1>1. PICK o \in Outcomes(records), garbled \in BOOLEAN :
         /\ cassandra' = IF garbled THEN cassandra ELSE cassandra \cup (records \ o.refused)
         /\ forsaken' = forsaken \cup (IF garbled THEN records ELSE o.refused \cup o.late)
         /\ mark' \in {mark, cursor}
         /\ offered' = offered \cup Legible(records)
  BY DEF RadomeStep, Show, Higher
<1>2. UNCHANGED <<kind, now, site, lastArchive, newest>> /\ kind = "radome" /\ RadomeGoOn
  BY DEF RadomeStep
<1>3. cursor \in Int
  BY DEF Types
<1>4. records \subseteq Legible(site) /\ Legible(records) = records
  BY <1>3, SpanTypes DEF Legible
<1>5. o.refused \subseteq records /\ o.late \subseteq records
  BY OutcomeType
<1> HIDE DEF records
<1>6. Types'
  <2>1. cassandra' \cup offered' \subseteq Legible(site) /\ forsaken' \subseteq offered'
    BY <1>1, <1>2, <1>4, <1>5 DEF Types
  <2>2. cursor' \in Int /\ until' \in Int
    BY <1>2, DownloadersAssumption DEF RadomeGoOn, Done, Idle, Types
  <2>3. {mark', lastArchive', newest', cursor', until'} \subseteq Int
    BY <1>1, <1>2, <2>2 DEF Types
  <2> QED BY <1>2, <2>1, <2>3, StoredTypes
<1>7. Missing' = {}
  <2>1. offered \subseteq cassandra \cup forsaken
    BY <1>2 DEF NothingIsMissing, Missing
  <2>2. records \subseteq cassandra' \cup forsaken'
    BY <1>1
  <2> QED BY <1>1, <1>4, <2>1, <2>2 DEF Missing
<1>8. Clear(mark)' /\ NothingIsMissing'
  BY <1>7 DEF Clear, NothingIsMissing
<1>9. WeatherlinkMarks' /\ SpansInOrder' /\ PagesInOrder' /\ HoursInOrder' /\ TargetsInOrder'
  BY <1>2 DEF WeatherlinkMarks, SpansInOrder, PagesInOrder, HoursInOrder, TargetsInOrder
<1> QED BY <1>6, <1>8, <1>9

\* Current data only add to the database.
LEMMA RealTimeStep ==
  ASSUME IInv, RealTime
  PROVE  IInv'
<1> USE DEF IInv
<1> DEFINE records == Legible({r \in site : r[2] = Latest(OfPart(site, r[1]), 0)})
<1>1. PICK o \in Outcomes(records) : cassandra' = cassandra \cup (records \ o.refused)
  BY DEF RealTime
<1>2. /\ UNCHANGED <<kind, now, site, mark, lastArchive, loop, history>>
      /\ kind \in {"apiv2", "fieldclimate"} /\ ~Busy
  BY DEF RealTime
<1>3. records \subseteq Legible(site)
  BY DEF Legible
<1> HIDE DEF records
<1>4. Types'
  <2>1. cassandra' \cup offered' \subseteq Legible(site) /\ forsaken' \subseteq offered'
    BY <1>1, <1>2, <1>3 DEF Types, history
  <2>2. {mark', lastArchive', newest', cursor', until'} \subseteq Int
    BY <1>2 DEF Types, loop
  <2> QED BY <1>2, <2>1, <2>2, StoredTypes
<1>5. Missing' \subseteq Missing
  BY <1>1, <1>2 DEF Missing, history
<1>6. Clear(mark)' /\ SpansInOrder'
  BY <1>2, <1>5 DEF Clear, SpansInOrder, Busy, Idle, loop
<1>7. WeatherlinkMarks' /\ PagesInOrder' /\ HoursInOrder' /\ NothingIsMissing' /\ TargetsInOrder'
  BY <1>2 DEF WeatherlinkMarks, PagesInOrder, HoursInOrder, NothingIsMissing, TargetsInOrder
<1> QED BY <1>4, <1>6, <1>7

\* A record of a span that is not in its page is later than the whole page.
LEMMA PageComesFirst ==
  ASSUME NEW span, span \subseteq Dated,
         NEW r \in span, r \notin Page(span), NEW s \in Page(span)
  PROVE  s[2] < r[2]
<1> DEFINE Before(t) == {x \in span : x[2] < t}
<1>1. /\ s \in span /\ Cardinality(Before(s[2])) < PageSize
      /\ ~(Cardinality(Before(r[2])) < PageSize)
  BY DEF Page
<1>2. SUFFICES ASSUME ~(s[2] < r[2]) PROVE FALSE
  OBVIOUS
<1>3. s[2] \in Nat /\ r[2] \in Nat /\ \A x \in span : x[2] \in Nat
  BY <1>1 DEF Dated
<1>4. Before(r[2]) \subseteq Before(s[2])
  BY <1>2, <1>3
<1>5. IsFiniteSet(Before(s[2]))
  <2>1. IsFiniteSet({1, 2}) /\ IsFiniteSet(0..MaxTime)
    <3>1. MaxTime \in Int
      BY DownloadersAssumption
    <3>2. IsFiniteSet({1} \cup {2})
      BY FS_Singleton, FS_AddElement
    <3>3. IsFiniteSet(0..MaxTime)
      BY <3>1, FS_Interval
    <3>4. {1, 2} \subseteq {1} \cup {2}
      OBVIOUS
    <3> QED BY <3>2, <3>3, <3>4, FS_Subset
  <2>2. IsFiniteSet(Dated)
    BY <2>1, FS_Product DEF Dated
  <2>3. Before(s[2]) \subseteq Dated
    OBVIOUS
  <2> QED BY <2>2, <2>3, FS_Subset
<1> HIDE DEF Before
<1>6. /\ Cardinality(Before(r[2])) <= Cardinality(Before(s[2]))
      /\ Cardinality(Before(r[2])) \in Nat /\ Cardinality(Before(s[2])) \in Nat
  BY <1>4, <1>5, FS_Subset, FS_CardinalityType
<1> QED BY <1>1, <1>6, DownloadersAssumption

\* What a page that advances leaves out comes after the next one, or is forsaken; a
\* page with a refusal ends the download, before the mark.
LEMMA LiveobjectsStep ==
  ASSUME IInv, LiveobjectsPage
  PROVE  IInv'
<1> USE DEF IInv
<1> DEFINE span == Between(site, cursor + 1, cursor + Window)
           page == Legible(Page(span))
           next == LiveobjectsNext(newest')
<1>1. PICK o \in Outcomes(page) :
         /\ newest' = Latest(page \ (o.refused \cup o.late), newest)
         /\ ok' = (page \ (o.refused \cup o.late) = page)
         /\ cassandra' = cassandra \cup (page \ o.refused)
         /\ forsaken' = forsaken \cup (IF cursor >= newest' THEN Legible(span \ Page(span)) ELSE {})
         /\ offered' = offered \cup Legible(span)
         /\ LiveobjectsGoOn(next, ok', oldest', newest', o)
  BY DEF LiveobjectsPage, Show
<1>2. UNCHANGED <<kind, now, site>> /\ kind = "liveobjects" /\ Busy
  BY DEF LiveobjectsPage
<1>3. cursor \in Int /\ Window \in Nat \ {0} /\ cursor + 1 \in Int /\ cursor + Window \in Int
  BY DownloadersAssumption DEF Types
<1>4. /\ span \subseteq Dated /\ Legible(span) \subseteq Legible(site) /\ Page(span) \subseteq span
      /\ page \subseteq Legible(span) /\ page \subseteq Page(span)
      /\ \A r \in Legible(span) : r \in page \/ r \in Legible(span \ Page(span))
      /\ \A r \in Legible(site) : cursor + 1 <= r[2] /\ r[2] <= cursor + Window => r \in Legible(span)
      /\ \A r \in span : cursor + 1 <= r[2] /\ r[2] <= cursor + Window /\ r[2] \in Nat
  <2>1. /\ span \subseteq Dated /\ Legible(span) \subseteq Legible(site)
        /\ \A r \in Legible(site) : cursor + 1 <= r[2] /\ r[2] <= cursor + Window => r \in Legible(span)
        /\ \A r \in span : cursor + 1 <= r[2] /\ r[2] <= cursor + Window /\ r[2] \in Nat
    BY <1>3, SpanTypes
  <2>2. Page(span) \subseteq span
    BY DEF Page
  <2> HIDE DEF span
  <2>3. /\ page \subseteq Legible(span) /\ page \subseteq Page(span)
        /\ \A r \in Legible(span) : r \in page \/ r \in Legible(span \ Page(span))
    BY <2>2 DEF Legible
  <2> QED BY <2>1, <2>2, <2>3
<1>5. o.refused \subseteq page /\ o.late \subseteq page
  BY OutcomeType
<1>6. /\ lastArchive = mark /\ mark \in Int /\ Clear(cursor)
      /\ lastArchive <= newest /\ newest <= cursor /\ newest \in Int
  BY <1>2 DEF PagesInOrder, Types
<1> HIDE DEF span, page
<1>7. /\ newest' \in Int /\ newest <= newest'
      /\ newest' = newest \/ \E r \in page : r[2] = newest'
      /\ \A r \in page \ (o.refused \cup o.late) : r[2] <= newest'
  <2>1. page \ (o.refused \cup o.late) \subseteq Dated
    BY <1>4
  <2> QED BY <1>1, <1>6, <2>1, LatestIsLast
<1>8. next \in Int /\ newest' <= next /\ cursor <= next
      /\ next = IF cursor >= newest' THEN cursor + Window ELSE newest'
  BY <1>3, <1>7 DEF LiveobjectsNext
<1> HIDE DEF next
<1>9. /\ {mark', lastArchive', cursor', until'} \subseteq Int /\ lastArchive' = mark'
      /\ ~ok' => cursor' = Idle /\ mark' = mark
      /\ mark' = mark \/ mark' = newest'
      /\ cursor' \in {next, Idle} /\ (cursor' # Idle => mark' = mark)
  <2>1. Idle \in Int
    BY DownloadersAssumption DEF Idle
  <2>2. CASE ok' /\ next < until
    BY <2>1, <2>2, <1>1, <1>6, <1>8 DEF LiveobjectsGoOn, Types
  <2>3. CASE ~(ok' /\ next < until)
    <3>1. Done /\ (IF ok' THEN Advance(newest', o) ELSE UNCHANGED <<mark, lastArchive>>)
      BY <2>3, <1>1 DEF LiveobjectsGoOn
    <3> QED BY <2>1, <3>1, <1>6, <1>7 DEF Done, Advance
  <2> QED BY <2>2, <2>3
<1>10. Types'
  <2>1. cassandra' \cup offered' \subseteq Legible(site) /\ forsaken' \subseteq offered'
    <3>1. Legible(span \ Page(span)) \subseteq Legible(span)
      BY DEF Legible
    <3> QED BY <1>1, <1>2, <1>4, <3>1 DEF Types
  <2> QED BY <1>2, <1>7, <1>9, <2>1, StoredTypes
<1>11. ASSUME NEW r \in Missing', ok' PROVE r[2] > next
  <2>1. o.refused = {}
    BY <1>1, <1>5, <1>11
  <2>2. r \in offered \cup Legible(span) /\ r \notin forsaken /\ r \notin cassandra /\ r \notin page
    BY <1>1, <1>11, <2>1 DEF Missing
  <2>3. r \in Legible(site) /\ r[2] \in Nat
    BY <2>2, <1>2, <1>4, SiteIsDated DEF Types
  <2>4. CASE r \in Legible(span)
    <3>1. r \in Legible(span \ Page(span))
      BY <2>2, <2>4, <1>4
    <3>2. newest' > cursor
      BY <3>1, <1>1, <1>3, <1>7, <1>11 DEF Missing
    <3>3. PICK s \in page : s[2] = newest'
      BY <3>2, <1>3, <1>6, <1>7
    <3>4. r \in span /\ r \notin Page(span) /\ s \in Page(span)
      BY <3>1, <3>3, <1>4 DEF Legible
    <3>5. s[2] < r[2]
      BY <3>4, <1>4, PageComesFirst
    <3> QED BY <3>2, <3>3, <3>5, <2>3, <1>3, <1>7, <1>8
  <2>5. CASE r \notin Legible(span)
    <3>1. r[2] > cursor
      BY <2>2, <2>5, <1>6 DEF Clear, Missing
    <3>2. r[2] > cursor + Window
      BY <3>1, <2>3, <2>5, <1>3, <1>4
    <3>3. newest' <= cursor + Window
      BY <1>3, <1>4, <1>6, <1>7
    <3> QED BY <3>2, <3>3, <2>3, <1>3, <1>7, <1>8
  <2> QED BY <2>4, <2>5
<1>12. ASSUME NEW r \in Missing' PROVE r[2] > mark' /\ (cursor' # Idle => r[2] > cursor')
  <2>1. r \in offered \cup Legible(span) /\ r \notin forsaken /\ r \notin cassandra
    BY <1>1, <1>12 DEF Missing
  <2>2. r[2] \in Nat
    BY <2>1, <1>2, <1>4, SiteIsDated DEF Types
  <2>3. CASE ok'
    BY <2>2, <2>3, <1>3, <1>6, <1>7, <1>8, <1>9, <1>11, <1>12
  <2>4. CASE ~ok'
    <3>1. CASE r \in Legible(span)
      <4>1. cursor + 1 <= r[2]
        BY <3>1, <1>4 DEF Legible
      <4> QED BY <4>1, <2>2, <2>4, <1>3, <1>6, <1>9
    <3>2. CASE r \notin Legible(span)
      <4>1. r[2] > mark
        BY <3>2, <2>1 DEF Clear, Missing
      <4> QED BY <4>1, <2>4, <1>9
    <3> QED BY <3>1, <3>2
  <2> QED BY <2>3, <2>4
<1>13. Clear(mark)' /\ PagesInOrder'
  <2>1. Clear(mark)'
    BY <1>12 DEF Clear
  <2>2. lastArchive' = mark'
    BY <1>9
  <2>3. ASSUME cursor' # Idle PROVE lastArchive' <= newest' /\ newest' <= cursor'
    BY <2>3, <1>6, <1>7, <1>8, <1>9
  <2>4. Busy' => cursor' # Idle
    BY DEF Busy, Idle
  <2> QED BY <2>1, <2>2, <2>3, <2>4, <1>12 DEF Clear, PagesInOrder
<1>14. WeatherlinkMarks' /\ SpansInOrder' /\ HoursInOrder' /\ NothingIsMissing' /\ TargetsInOrder'
  BY <1>2 DEF WeatherlinkMarks, SpansInOrder, HoursInOrder, NothingIsMissing, TargetsInOrder
<1> QED BY <1>10, <1>13, <1>14

\* The next hour of Météo-France, or the end of the loop.
LEMMA MeteoFranceGoOnTypes ==
  ASSUME Types, kind = "meteofrance", HoursInOrder,
         NEW good \in BOOLEAN, NEW e \in Int, NEW o, MeteoFranceGoOn(good, e, o)
  PROVE  /\ cursor' \in Int /\ until' \in Int /\ lastArchive' = mark'
         /\ mark' \in {mark, e} /\ (~good => mark' = mark)
         /\ cursor' \in {cursor + 1, Idle} /\ (cursor' # Idle => good /\ mark' = mark)
<1>1. Idle \in Int /\ cursor \in Int /\ until \in Int /\ lastArchive = mark
  BY DownloadersAssumption DEF Idle, Types, HoursInOrder
<1>2. CASE good /\ cursor + 1 < until
  BY <1>1, <1>2 DEF MeteoFranceGoOn
<1>3. CASE ~(good /\ cursor + 1 < until)
  <2>1. Done /\ (IF good THEN Advance(e, o) ELSE UNCHANGED <<mark, lastArchive>>)
    BY <1>3 DEF MeteoFranceGoOn
  <2> QED BY <1>1, <2>1 DEF Done, Advance
<1> QED BY <1>2, <1>3

\* The hour is stored, or refused and not passed; the record of the mark is there, so
\* that it is not the one refused.
LEMMA MeteoFranceHourStep ==
  ASSUME IInv, MeteoFranceHour
  PROVE  IInv'
<1> USE DEF IInv
<1> DEFINE records == Legible(Between(site, cursor, cursor))
<1>1. PICK o \in Outcomes(records) :
         /\ newest' = Latest(records \ (o.refused \cup o.late), newest)
         /\ ok' = (records \ (o.refused \cup o.late) = records)
         /\ cassandra' = cassandra \cup (records \ o.refused)
         /\ offered' = offered \cup Legible(records)
         /\ MeteoFranceGoOn(ok', newest', o)
  BY DEF MeteoFranceHour, Show
<1>2. UNCHANGED <<kind, now, site, forsaken>> /\ kind = "meteofrance" /\ Busy
  BY DEF MeteoFranceHour
<1>3. /\ cursor \in Int /\ newest \in Int /\ mark \in Int
      /\ lastArchive = mark /\ (mark = 0 \/ <<1, mark>> \in cassandra)
      /\ \A r \in Missing : r[2] >= cursor
      /\ lastArchive <= cursor /\ newest <= cursor /\ (newest = 0 \/ <<1, newest>> \in cassandra)
  BY <1>2 DEF HoursInOrder, Types
<1>4. /\ records \subseteq Legible(site) /\ records \subseteq Dated /\ Legible(records) = records
      /\ \A r \in Legible(site) : r[2] = cursor => r \in records
      /\ \A r \in records : r = <<1, cursor>> /\ r[2] = cursor /\ cursor > 0
  <2>1. /\ records \subseteq Legible(site) /\ records \subseteq Dated /\ Legible(records) = records
        /\ \A r \in Legible(site) : r[2] = cursor => r \in records
        /\ \A r \in records : r[2] = cursor /\ r[2] > 0
    BY <1>3, SpanTypes DEF Legible
  <2> HIDE DEF records
  <2>2. \A r \in records : r = <<1, cursor>>
    <3>1. \A r \in records : r = <<r[1], r[2]>> /\ r[1] \in {1}
      BY <1>2, <2>1, SiteIsDated DEF Parts
    <3> QED BY <2>1, <3>1
  <2> QED BY <2>1, <2>2
<1>5. o.refused \subseteq records /\ o.late \subseteq records
  BY OutcomeType
<1> HIDE DEF records
<1>6. /\ newest' \in Int /\ newest' <= cursor
      /\ newest' = 0 \/ <<1, newest'>> \in cassandra'
  <2>1. records \ (o.refused \cup o.late) \subseteq Dated
    BY <1>4
  <2>2. /\ newest' \in Int
        /\ newest' = newest \/ \E r \in records \ (o.refused \cup o.late) : r[2] = newest'
    BY <1>1, <1>3, <2>1, LatestIsLast
  <2>3. CASE newest' = newest
    BY <2>2, <2>3, <1>1, <1>3
  <2>4. CASE \E r \in records \ (o.refused \cup o.late) : r[2] = newest'
    <3>1. PICK r \in records \ (o.refused \cup o.late) : r[2] = newest'
      BY <2>4
    <3>2. r = <<1, newest'>> /\ newest' = cursor /\ r \in cassandra'
      BY <3>1, <1>1, <1>4
    <3> QED BY <3>2, <2>2, <1>3
  <2> QED BY <2>2, <2>3, <2>4
<1>7. /\ cursor' \in Int /\ until' \in Int /\ lastArchive' = mark'
      /\ mark' \in {mark, newest'} /\ (~ok' => mark' = mark)
      /\ cursor' \in {cursor + 1, Idle} /\ (cursor' # Idle => ok' /\ mark' = mark)
  <2>1. ok' \in BOOLEAN
    BY <1>1
  <2> QED BY <1>1, <1>2, <1>6, <2>1, MeteoFranceGoOnTypes
<1>8. Types'
  <2>1. cassandra' \cup offered' \subseteq Legible(site) /\ forsaken' \subseteq offered'
    BY <1>1, <1>2, <1>4 DEF Types
  <2>2. {mark', lastArchive', newest', cursor', until'} \subseteq Int
    BY <1>3, <1>6, <1>7
  <2> QED BY <1>2, <2>1, <2>2, StoredTypes
<1>9. ASSUME NEW r \in Missing'
      PROVE  /\ r[2] \in Nat /\ r[2] >= cursor /\ (ok' => r[2] > cursor)
             /\ r[2] > mark
  <2>1. r \in offered \cup records /\ r \notin forsaken /\ r \notin cassandra /\ r \notin cassandra'
    BY <1>1, <1>2, <1>4, <1>9 DEF Missing
  <2>2. r \in Legible(site) /\ r[2] \in Nat
    BY <2>1, <1>2, <1>4, SiteIsDated DEF Types
  <2>3. CASE r \in records
    <3>1. r = <<1, cursor>> /\ r[2] = cursor /\ cursor > 0 /\ ~ok'
      BY <2>1, <2>3, <1>1, <1>4, <1>5
    <3>2. mark # cursor
      BY <3>1, <2>1, <1>3
    <3> QED BY <2>2, <3>1, <3>2, <1>3
  <2>4. CASE r \notin records
    <3>1. r \in Missing
      BY <2>1, <2>4 DEF Missing
    <3>2. r[2] >= cursor /\ r[2] # cursor /\ r[2] > mark
      BY <3>1, <2>2, <2>4, <1>3, <1>4 DEF Clear
    <3> QED BY <2>2, <3>2, <1>3
  <2> QED BY <2>3, <2>4
<1>10. Clear(mark)'
  <2>1. ASSUME NEW r \in Missing' PROVE r[2] > mark'
    BY <2>1, <1>3, <1>6, <1>7, <1>9
  <2> QED BY <2>1 DEF Clear
<1>11. HoursInOrder'
  <2>1. mark' = 0 \/ <<1, mark'>> \in cassandra'
    BY <1>1, <1>3, <1>6, <1>7
  <2>2. ASSUME cursor' # Idle
        PROVE  /\ \A r \in Missing' : r[2] >= cursor'
               /\ lastArchive' <= cursor' /\ newest' <= cursor'
    BY <2>2, <1>3, <1>6, <1>7, <1>9
  <2>3. Busy' => cursor' # Idle
    BY DEF Busy, Idle
  <2> QED BY <1>6, <1>7, <2>1, <2>2, <2>3 DEF HoursInOrder
<1>12. WeatherlinkMarks' /\ SpansInOrder' /\ PagesInOrder' /\ NothingIsMissing' /\ TargetsInOrder'
  BY <1>2 DEF WeatherlinkMarks, SpansInOrder, PagesInOrder, NothingIsMissing, TargetsInOrder
<1> QED BY <1>8, <1>10, <1>11, <1>12

\* An hour that is skipped is forsaken.
LEMMA MeteoFranceGarbledStep ==
  ASSUME IInv, MeteoFranceGarbled
  PROVE  IInv'
<1> USE DEF IInv
<1> DEFINE records == Legible(Between(site, cursor, cursor))
<1>1. /\ offered' = offered \cup Legible(records) /\ forsaken' = forsaken \cup records
      /\ MeteoFranceGoOn(TRUE, newest, Smooth)
      /\ UNCHANGED <<kind, now, site, newest, cassandra>> /\ kind = "meteofrance" /\ Busy
  BY DEF MeteoFranceGarbled, Show, databases
<1>2. /\ cursor \in Int /\ newest \in Int /\ mark \in Int
      /\ lastArchive = mark /\ (mark = 0 \/ <<1, mark>> \in cassandra)
      /\ \A r \in Missing : r[2] >= cursor
      /\ lastArchive <= cursor /\ newest <= cursor /\ (newest = 0 \/ <<1, newest>> \in cassandra)
  BY <1>1 DEF HoursInOrder, Types
<1>3. /\ records \subseteq Legible(site) /\ Legible(records) = records
      /\ \A r \in Legible(site) : r[2] = cursor => r \in records
  BY <1>2, SpanTypes DEF Legible
<1> HIDE DEF records
<1>4. /\ cursor' \in Int /\ until' \in Int /\ lastArchive' = mark' /\ mark' \in {mark, newest}
      /\ cursor' \in {cursor + 1, Idle}
  BY <1>1, <1>2, MeteoFranceGoOnTypes
<1>5. Types'
  <2>1. cassandra' \cup offered' \subseteq Legible(site) /\ forsaken' \subseteq offered'
    BY <1>1, <1>3 DEF Types
  <2>2. {mark', lastArchive', newest', cursor', until'} \subseteq Int
    BY <1>1, <1>2, <1>4
  <2> QED BY <1>1, <2>1, <2>2, StoredTypes
<1>6. ASSUME NEW r \in Missing' PROVE r[2] \in Nat /\ r[2] > cursor
  <2>1. r \in Missing /\ r \notin records
    BY <1>1, <1>3, <1>6 DEF Missing
  <2>2. r \in Legible(site) /\ r[2] \in Nat
    BY <2>1, <1>1, SiteIsDated DEF Types, Missing
  <2> QED BY <2>1, <2>2, <1>2, <1>3
<1>7. Clear(mark)'
  <2>1. ASSUME NEW r \in Missing' PROVE r[2] > mark'
    BY <2>1, <1>2, <1>4, <1>6
  <2> QED BY <2>1 DEF Clear
<1>8. HoursInOrder'
  <2>1. mark' = 0 \/ <<1, mark'>> \in cassandra'
    BY <1>1, <1>2, <1>4
  <2>2. ASSUME cursor' # Idle
        PROVE  /\ \A r \in Missing' : r[2] >= cursor'
               /\ lastArchive' <= cursor' /\ newest' <= cursor'
    BY <2>2, <1>1, <1>2, <1>4, <1>6
  <2>3. Busy' => cursor' # Idle
    BY DEF Busy, Idle
  <2> QED BY <1>1, <1>2, <1>4, <2>1, <2>2, <2>3 DEF HoursInOrder
<1>9. WeatherlinkMarks' /\ SpansInOrder' /\ PagesInOrder' /\ NothingIsMissing' /\ TargetsInOrder'
  BY <1>1 DEF WeatherlinkMarks, SpansInOrder, PagesInOrder, NothingIsMissing, TargetsInOrder
<1> QED BY <1>5, <1>7, <1>8, <1>9

\* A target stored moves the mark to the end, and forsakes what the loop has not
\* stored up to there.
LEMMA VirtualStep ==
  ASSUME IInv, VirtualTarget
  PROVE  IInv'
<1> USE DEF IInv
<1> DEFINE target == {<<1, cursor>>}
           targets == {<<1, t>> : t \in Higher(cursor, 1) .. until}
<1>1. PICK o \in Outcomes(target) :
         /\ cassandra' = cassandra \cup (target \ o.refused)
         /\ timescale' = timescale \cup (target \ (o.refused \cup o.late))
         /\ ok' = (o = Smooth)
         /\ IF ok' THEN mark' = newest /\ lastArchive' = cursor ELSE UNCHANGED <<mark, lastArchive>>
         /\ offered' = offered \cup targets
         /\ forsaken' = forsaken \cup (IF ok' THEN offered' \ timescale' ELSE {})
  BY DEF VirtualTarget
<1>2. /\ UNCHANGED <<kind, now, site, newest>> /\ kind = "virtual" /\ Busy
      /\ \/ ok' /\ cursor + 1 <= until /\ cursor' = cursor + 1 /\ UNCHANGED until
         \/ cursor' = Idle /\ until' = Idle
  BY DEF VirtualTarget, Done
<1>3. /\ timescale \subseteq cassandra /\ {mark, lastArchive, cursor, until} \subseteq Int
      /\ lastArchive <= mark /\ 0 <= lastArchive
      /\ \A t \in 1..mark : <<1, t>> \in cassandra \cup forsaken
      /\ offered \subseteq {1} \X (1..MaxTime)
      /\ 0 <= cursor /\ cursor <= until /\ until = newest /\ until <= now /\ cursor <= lastArchive + 1
      /\ now \in 1..MaxTime /\ MaxTime \in Nat /\ Idle \in Int
  BY <1>2, DownloadersAssumption DEF TargetsInOrder, Types, Idle
<1>4. /\ \A t \in Higher(cursor, 1)..until : t \in 1..MaxTime /\ cursor <= t
      /\ \A t \in 1..until : t < cursor \/ t \in Higher(cursor, 1)..until
  BY <1>3 DEF Higher
<1>5. targets \subseteq {1} \X (1..MaxTime) /\ \A t \in 1..until : t < cursor \/ <<1, t>> \in targets
  BY <1>4
<1> HIDE DEF targets
<1>6. offered' \subseteq {1} \X (1..MaxTime) /\ forsaken' \subseteq offered'
  BY <1>1, <1>3, <1>5 DEF Types
<1>7. Types'
  <2>1. target \subseteq Records
    BY <1>3 DEF Records, Times
  <2>2. cassandra' \subseteq Records
    BY <2>1, <1>1 DEF Types
  <2>3. offered' \subseteq Records
    <3>1. {1} \X (1..MaxTime) \subseteq Records
      BY <1>3 DEF Records, Times
    <3> QED BY <1>6, <3>1
  <2>4. {mark', lastArchive', newest', cursor', until'} \subseteq Int
    BY <1>1, <1>2, <1>3
  <2>5. now' \in 1..MaxTime /\ site' \subseteq Parts' \X (1..now') /\ kind' = "virtual"
    BY <1>2 DEF Types, Parts
  <2> QED BY <1>6, <2>2, <2>3, <2>4, <2>5 DEF Types, Records, Times
<1>8. timescale' \subseteq cassandra'
  BY <1>1, <1>3
<1>9. \A t \in 1..mark' : <<1, t>> \in cassandra' \cup forsaken'
  <2>1. SUFFICES ASSUME NEW t \in 1..mark' PROVE <<1, t>> \in cassandra' \cup forsaken'
    OBVIOUS
  <2>2. CASE t \in 1..mark
    BY <2>2, <1>1, <1>3
  <2>3. CASE t \notin 1..mark
    <3>1. mark' # mark
      BY <2>1, <2>3
    <3>2. ok' /\ mark' = until
      BY <3>1, <1>1, <1>3
    <3>3. ~(t < cursor)
      BY <2>1, <2>3, <3>2, <1>3
    <3>4. <<1, t>> \in targets
      BY <2>1, <3>2, <3>3, <1>5
    <3> QED BY <3>2, <3>4, <1>1, <1>8
  <2> QED BY <2>2, <2>3
<1>10. TargetsInOrder'
  <2>1. lastArchive' <= mark' /\ 0 <= lastArchive'
    BY <1>1, <1>3
  <2>2. ASSUME cursor' # Idle
        PROVE  /\ 0 <= cursor' /\ cursor' <= until' /\ until' = newest' /\ until' <= now'
               /\ cursor' <= lastArchive' + 1
    BY <2>2, <1>1, <1>2, <1>3
  <2>3. Busy' => cursor' # Idle
    BY DEF Busy, Idle
  <2> QED BY <1>6, <1>8, <1>9, <1>2, <2>1, <2>2, <2>3 DEF TargetsInOrder
<1>11. Clear(mark)'
  <2>1. SUFFICES ASSUME NEW r \in Missing' PROVE r[2] > mark'
    BY DEF Clear
  <2>2. r[2] \in 1..MaxTime /\ r = <<1, r[2]>> /\ r \notin cassandra' \cup forsaken'
    BY <1>6 DEF Missing
  <2>3. r[2] \notin 1..mark'
    BY <2>2, <1>9
  <2> QED BY <2>2, <2>3, <1>1, <1>3
<1>12. WeatherlinkMarks' /\ SpansInOrder' /\ PagesInOrder' /\ HoursInOrder' /\ NothingIsMissing'
  BY <1>2 DEF WeatherlinkMarks, SpansInOrder, PagesInOrder, HoursInOrder, NothingIsMissing
<1> QED BY <1>7, <1>10, <1>11, <1>12

-----------------------------------------------------------------------------
(* The invariant holds, and the promise is kept                             *)

LEMMA InitInvariant == Init => IInv
<1> SUFFICES ASSUME Init PROVE IInv
  OBVIOUS
<1>1. Rewind \in Nat /\ MaxTime \in Nat \ {0} /\ Idle \in Int
  BY DownloadersAssumption DEF Idle
<1>2. Types
  BY <1>1 DEF Init, Types, Records
<1>3. Newest \in Int /\ 0 <= Newest
  BY <1>2, NewestBounds
<1> QED BY <1>2, <1>3 DEF Init, IInv, Clear, Missing, WeatherlinkMarks, SpansInOrder, PagesInOrder,
       HoursInOrder, NothingIsMissing, TargetsInOrder, Busy

\* Each action keeps the invariant.
LEMMA NextInvariant == IInv /\ [Next]_vars => IInv'
<1> SUFFICES ASSUME IInv, [Next]_vars PROVE IInv'
  OBVIOUS
<1>1. Idle \in Int /\ MaxTime \in Nat /\ now \in 1..MaxTime /\ until \in Int /\ now \in now..MaxTime
  BY DownloadersAssumption DEF Idle, IInv, Types
<1>2. CASE Tick
  BY <1>1, <1>2, QuietStep DEF Tick, loop
<1>3. CASE \E p \in Parts, t \in 1..MaxTime : Upload(p, t)
  BY <1>3, UploadStep
<1>4. CASE WeatherlinkDownload
  BY <1>4, WeatherlinkStep
<1>5. CASE Begin
  BY <1>5, BeginStep
<1>6. CASE Answer
  <2>1. CASE LiveobjectsGarbled
    BY <1>1, <2>1, QuietStep DEF LiveobjectsGarbled
  <2>2. CASE ~LiveobjectsGarbled
    BY <1>6, <2>2, Apiv2Step, FieldClimateStep, LiveobjectsStep, MeteoFranceHourStep,
       MeteoFranceGarbledStep, RadomeKeeps, VirtualStep DEF Answer
  <2> QED BY <2>1, <2>2
<1>7. CASE RealTime
  BY <1>7, RealTimeStep
<1>8. CASE RequestFails
  BY <1>1, <1>8, QuietStep DEF RequestFails, Finish, Done
<1>9. CASE ReloadStations \/ Crash
  BY <1>1, <1>9, QuietStep DEF ReloadStations, Crash, Rebuild, Done
<1>10. CASE UNCHANGED vars
  BY <1>1, <1>10, QuietStep DEF vars, loop
<1> QED BY <1>2, <1>3, <1>4, <1>5, <1>6, <1>7, <1>8, <1>9, <1>10 DEF Next

LEMMA Invariant == Spec => []IInv
BY InitInvariant, NextInvariant, PTL DEF Spec

\* What was shown and what was forsaken stay so.
LEMMA HistoryGrows ==
  ASSUME [Next]_vars
  PROVE  offered \subseteq offered' /\ forsaken \subseteq forsaken'
<1>1. CASE Answer
  <2>1. CASE Apiv2Span
    BY <2>1 DEF Apiv2Span, Show
  <2>2. CASE FieldClimateSpan
    BY <2>2 DEF FieldClimateSpan, Show
  <2>3. CASE LiveobjectsPage \/ LiveobjectsGarbled
    BY <2>3 DEF LiveobjectsPage, LiveobjectsGarbled, Show, history
  <2>4. CASE MeteoFranceHour \/ MeteoFranceGarbled
    BY <2>4 DEF MeteoFranceHour, MeteoFranceGarbled, Show
  <2>5. CASE RadomeStep
    BY <2>5 DEF RadomeStep, Show
  <2>6. CASE VirtualTarget
    BY <2>6 DEF VirtualTarget
  <2> QED BY <1>1, <2>1, <2>2, <2>3, <2>4, <2>5, <2>6 DEF Answer
<1>2. CASE WeatherlinkDownload
  BY <1>2 DEF WeatherlinkDownload, Show
<1>3. CASE UNCHANGED history
  BY <1>3 DEF history
<1>4. CASE Begin
  BY <1>4 DEF Begin, Apiv2Begin, FieldClimateBegin, LiveobjectsBegin, MeteoFranceBegin, RadomeBegin,
              VirtualBegin, BeginLoop, history
<1>5. CASE (\E p \in Parts, t \in 1..MaxTime : Upload(p, t)) \/ Tick \/ RealTime \/ RequestFails
             \/ ReloadStations \/ Crash \/ UNCHANGED vars
  BY <1>5, <1>3 DEF Upload, Tick, RealTime, RequestFails, ReloadStations, Crash, Rebuild, vars
<1> QED BY <1>1, <1>2, <1>4, <1>5 DEF Next

\* Each of the seven downloaders implements PolledArchive: whatever the site shows and
\* when, whatever the databases refuse, the requests that fail and the crashes, the time
\* of the last archive download passes no record that is neither in the database nor
\* forsaken in one of the ways the actions name.
THEOREM PromiseKept == Spec => KeepsPromise
<1>1. Init => Promise!Init
  BY DEF Init, Promise!Init
<1>2. IInv => Promise!Covered
  <2> SUFFICES ASSUME IInv, NEW r \in offered, r[2] <= mark
               PROVE  r \in cassandra \cup forsaken
    BY DEF Promise!Covered
  <2>1. r[2] \in Int /\ mark \in Int
    BY DEF IInv, Types, Records, Times
  <2> QED BY <2>1 DEF IInv, Clear, Missing
<1>3. IInv' /\ Promise!Covered' /\ [Next]_vars => [Promise!Next]_<<offered, cassandra, forsaken, mark>>
  <2> SUFFICES ASSUME IInv', Promise!Covered', [Next]_vars PROVE Promise!Next
    OBVIOUS
  <2>1. offered \subseteq offered' /\ forsaken \subseteq forsaken'
    BY HistoryGrows
  <2>2. /\ offered' \subseteq Records /\ cassandra' \subseteq Records
        /\ forsaken' \subseteq offered' /\ mark' \in Int
    BY DEF IInv, Types, Records, Times
  <2> QED BY <2>1, <2>2 DEF Promise!Next, Records, Times
<1> QED BY Invariant, <1>1, <1>2, <1>3, PTL DEF Spec, KeepsPromise, Promise!Spec

-----------------------------------------------------------------------------
(* The second database, and the climatology                                 *)

\* What the site has shown and is neither in TimescaleDB nor forsaken.
Unfollowed == offered \ (timescale \cup forsaken)

\* Every record it has passed is in TimescaleDB, even those Cassandra has refused: a
\* late one makes it wait.
WeatherlinkFollowed ==
    kind = "weatherlink" => \A r \in Legible(site) : r[2] <= mark => r \in timescale

\* A page or an hour that is not in both databases ends the download.
PagesFollowed ==
    kind = "liveobjects" => \A r \in Unfollowed : r[2] > mark /\ (Busy => r[2] > cursor)
HoursFollowed ==
    kind = "meteofrance" =>
        /\ mark = 0 \/ <<1, mark>> \in timescale
        /\ \A r \in Unfollowed : r[2] > mark /\ (Busy => r[2] >= cursor)
        /\ Busy => newest = 0 \/ <<1, newest>> \in timescale
TargetsFollowed == kind = "virtual" => \A t \in 1..mark : <<1, t>> \in timescale \cup forsaken

Follows == WeatherlinkFollowed /\ PagesFollowed /\ HoursFollowed /\ TargetsFollowed

\* What is stored after the mark, up to a time.
Pending(t) == {r \in offered \cap cassandra : mark < r[2] /\ r[2] <= t}

\* What a download has passed is asked for already, or will be with the bounds it keeps.
SpansAsked == kind = "apiv2" /\ Busy => \A r \in Pending(cursor) : oldest <= r[2] /\ r[2] <= newest
FieldAsked == kind = "fieldclimate" /\ Busy /\ forsaken = {} => \A r \in Pending(cursor) : <<Station, r[2]>> \in jobs
PagesAsked == kind = "liveobjects" /\ Busy => \A r \in Pending(cursor) : r \in forsaken \/ oldest <= r[2]
HoursAsked == kind = "meteofrance" /\ Busy => oldest = mark

Asks == oldest \in Int /\ SpansAsked /\ FieldAsked /\ PagesAsked /\ HoursAsked

\* Steps that store nothing change nothing of it.
LEMMA QuietFollows ==
  ASSUME IInv, Follows, Asks, UNCHANGED <<kind, mark, databases, jobs, history>>,
         oldest' \in Int, site' = site \/ kind # "weatherlink",
         UNCHANGED <<oldest, newest, cursor>> \/ cursor' = Idle
  PROVE  Follows' /\ Asks' /\ Asked
<1> USE DEF databases, history
<1>1. Follows'
  <2>1. kind = "weatherlink" => Legible(site)' = Legible(site)
    BY DEF Legible
  <2> QED BY <2>1 DEF Follows, WeatherlinkFollowed, PagesFollowed, HoursFollowed, TargetsFollowed,
          Unfollowed, Busy, Idle
<1>2. Asks'
  <2>1. Station' = Station
    BY DEF Station
  <2> QED BY <2>1 DEF Asks, SpansAsked, FieldAsked, PagesAsked, HoursAsked, Pending, Busy, Idle
<1>3. Asked
  <2>1. mark \in Int /\ \A r \in offered : r[2] \in Int
    BY DEF IInv, Types, Records, Times
  <2> QED BY <2>1 DEF Asked
<1> QED BY <1>1, <1>2, <1>3

\* A record more on the site of a weatherlink station comes after the mark.
LEMMA UploadFollows ==
  ASSUME IInv, Follows, Asks, NEW p \in Parts, NEW t \in 1..MaxTime, Upload(p, t)
  PROVE  Follows' /\ Asks' /\ Asked
<1>1. CASE kind # "weatherlink"
  BY <1>1, QuietFollows DEF Upload, loop, Asks
<1>2. CASE kind = "weatherlink"
  <2>1. /\ site' = site \cup {<<p, t>>} /\ t > Latest(OfPart(site, p), 0) /\ t \in Nat
        /\ UNCHANGED <<kind, mark, loop, databases, jobs, history>>
    BY <1>2 DEF Upload
  <2>2. t > mark
    <3>1. OfPart(site, p) \subseteq Dated
      BY SiteIsDated DEF OfPart, IInv
    <3>2. /\ Latest(OfPart(site, p), 0) \in Int /\ 0 <= Latest(OfPart(site, p), 0)
          /\ \A r \in OfPart(site, p) : r[2] <= Latest(OfPart(site, p), 0)
      BY <3>1, LatestIsLast
    <3>3. \A r \in Legible(site) : r \in OfPart(site, p) /\ r[2] \in Nat
      BY <1>2, SiteIsDated DEF OfPart, Legible, Parts, IInv
    <3>4. Newest \in Int /\ (Newest = 0 \/ \E r \in Legible(site) : r[2] = Newest) /\ mark \in Int
      BY NewestBounds DEF IInv, Types
    <3>5. Newest <= Latest(OfPart(site, p), 0)
      BY <3>2, <3>3, <3>4
    <3>6. mark <= Newest
      BY <1>2 DEF IInv, WeatherlinkMarks
    <3> QED BY <2>1, <3>2, <3>4, <3>5, <3>6
  <2>3. WeatherlinkFollowed'
    <3>1. \A r \in Legible(site') : r \in Legible(site) \/ (r[2] = t)
      BY <2>1 DEF Legible
    <3>2. Legible(site)' = Legible(site')
      BY DEF Legible
    <3>3. mark \in Int
      BY DEF IInv, Types
    <3> QED BY <1>2, <2>1, <2>2, <3>1, <3>2, <3>3 DEF Follows, WeatherlinkFollowed, databases
  <2>4. PagesFollowed' /\ HoursFollowed' /\ TargetsFollowed' /\ Asked
    BY <1>2, <2>1 DEF PagesFollowed, HoursFollowed, TargetsFollowed, Asked, Publishes
  <2>5. Asks'
    BY <1>2, <2>1 DEF Asks, SpansAsked, FieldAsked, PagesAsked, HoursAsked, loop
  <2> QED BY <2>3, <2>4, <2>5 DEF Follows
<1> QED BY <1>1, <1>2

\* A download is begun at the mark, or before it.
LEMMA BeginFollows ==
  ASSUME IInv, Follows, Asks, Begin
  PROVE  Follows' /\ Asks' /\ Asked
<1>1. /\ UNCHANGED <<kind, site, mark, lastArchive, databases, jobs, history>>
      /\ mark \in Int /\ MaxTime \in Int /\ Rewind \in Nat
      /\ \A r \in offered : r[2] \in Int
  BY DownloadersAssumption DEF Begin, Apiv2Begin, FieldClimateBegin, LiveobjectsBegin, MeteoFranceBegin,
         RadomeBegin, VirtualBegin, BeginLoop, IInv, Types, Records, Times
<1>2. Asked
  BY <1>1 DEF Asked, history, databases
<1>3. CASE Apiv2Begin \/ FieldClimateBegin
  <2>1. kind \in {"apiv2", "fieldclimate"} /\ oldest' = oldest
    BY <1>3 DEF Apiv2Begin, FieldClimateBegin
  <2>2. cursor' <= mark
    <3>1. lastArchive = mark /\ cursor' \in {lastArchive, lastArchive - Rewind}
      BY <1>3, <2>1 DEF Apiv2Begin, FieldClimateBegin, BeginLoop, IInv, SpansInOrder
    <3> QED BY <1>1, <3>1
  <2>3. ASSUME NEW r \in Pending(cursor)' PROVE FALSE
    <3>1. r \in offered /\ mark < r[2] /\ r[2] <= cursor'
      BY <1>1, <2>3 DEF Pending, history
    <3>2. cursor' \in Int
      BY <1>1, <1>3 DEF Apiv2Begin, FieldClimateBegin, BeginLoop, IInv, Types
    <3> QED BY <1>1, <2>2, <3>1, <3>2
  <2>4. Asks'
    BY <1>1, <2>1, <2>3 DEF Asks, SpansAsked, FieldAsked, PagesAsked, HoursAsked
  <2>5. Follows'
    BY <1>1, <2>1 DEF Follows, WeatherlinkFollowed, PagesFollowed, HoursFollowed, TargetsFollowed
  <2> QED BY <1>2, <2>4, <2>5
<1>4. CASE LiveobjectsBegin
  <2>1. kind = "liveobjects" /\ oldest' = MaxTime /\ cursor' = mark
    BY <1>4 DEF LiveobjectsBegin, BeginLoop, IInv, PagesInOrder
  <2>2. Pending(cursor)' = {}
    BY <1>1, <2>1 DEF Pending, history
  <2>3. Asks'
    BY <1>1, <2>1, <2>2 DEF Asks, SpansAsked, FieldAsked, PagesAsked, HoursAsked
  <2>4. Follows'
    BY <1>1, <2>1 DEF Follows, WeatherlinkFollowed, PagesFollowed, HoursFollowed, TargetsFollowed,
       Unfollowed, history, databases
  <2> QED BY <1>2, <2>3, <2>4
<1>5. CASE MeteoFranceBegin
  <2>1. kind = "meteofrance" /\ oldest' = mark /\ newest' = mark /\ cursor' = mark
    BY <1>5 DEF MeteoFranceBegin, BeginLoop, IInv, HoursInOrder
  <2>2. Asks'
    BY <1>1, <2>1 DEF Asks, SpansAsked, FieldAsked, PagesAsked, HoursAsked
  <2>3. Follows'
    BY <1>1, <2>1 DEF Follows, WeatherlinkFollowed, PagesFollowed, HoursFollowed, TargetsFollowed,
       Unfollowed, history, databases
  <2> QED BY <1>2, <2>2, <2>3
<1>6. CASE RadomeBegin \/ VirtualBegin
  <2>1. kind \in {"radome", "virtual"} /\ oldest' \in {oldest, lastArchive}
    BY <1>6 DEF RadomeBegin, VirtualBegin
  <2>2. Asks'
    BY <1>1, <2>1 DEF Asks, SpansAsked, FieldAsked, PagesAsked, HoursAsked, IInv, Types
  <2>3. Follows'
    BY <1>1, <2>1 DEF Follows, WeatherlinkFollowed, PagesFollowed, HoursFollowed, TargetsFollowed,
       history, databases
  <2> QED BY <1>2, <2>2, <2>3
<1> QED BY <1>3, <1>4, <1>5, <1>6 DEF Begin

\* The services whose TimescaleDB is checked, and those whose climatology is.
LEMMA OtherServices ==
  ASSUME kind' = kind, oldest' \in Int
  PROVE  /\ kind \in TimescaleLast => Follows'
         /\ kind \in {"weatherlink", "radome", "virtual"} => Asks' /\ Asked
BY DEF TimescaleLast, Follows, WeatherlinkFollowed, PagesFollowed, HoursFollowed, TargetsFollowed,
   Asks, SpansAsked, FieldAsked, PagesAsked, HoursAsked, Asked, Publishes

\* The first and last times of what is stored extend the bounds.
LEMMA BoundsExtend ==
  ASSUME NEW S, S \subseteq Dated, NEW b \in Int
  PROVE  /\ Min({b} \cup TimesOf(S)) \in Int /\ Min({b} \cup TimesOf(S)) <= b
         /\ \A r \in S : Min({b} \cup TimesOf(S)) <= r[2]
<1> DEFINE T == TimesOf(S)
<1>1. T \subseteq Nat /\ \A r \in S : r[2] \in T
  BY TimesOfRecords
<1>2. \E m \in {b} \cup T : \A t \in {b} \cup T : m <= t
  <2>1. CASE T = {}
    BY <2>1
  <2>2. CASE T # {}
    <3>1. PICK m \in T : \A t \in T : m <= t
      BY <1>1, <2>2, LeastNumber
    <3>2. m \in Int
      BY <1>1, <3>1
    <3>3. CASE m <= b
      BY <3>1, <3>2, <3>3
    <3>4. CASE b < m
      BY <1>1, <3>1, <3>2, <3>4
    <3> QED BY <3>2, <3>3, <3>4
  <2> QED BY <2>1, <2>2
<1>3. Min({b} \cup T) \in {b} \cup T /\ \A t \in {b} \cup T : Min({b} \cup T) <= t
  BY <1>2 DEF Min
<1>4. {b} \cup T \subseteq Int
  BY <1>1
<1> QED BY <1>1, <1>3, <1>4

\* Either all the records asked for go to TimescaleDB, or the mark stays.
LEMMA WeatherlinkFollows ==
  ASSUME IInv, Follows, Asks, WeatherlinkDownload
  PROVE  Follows' /\ Asks' /\ Asked
<1> DEFINE records == Legible({r \in site : r[2] > Reference})
           start == Min({now} \cup TimesOf(records))
<1>1. /\ UNCHANGED <<kind, site>> /\ kind = "weatherlink"
      /\ oldest' = Lower(oldest, start)
      /\ \/ timescale' = timescale \cup records
         \/ timescale' = timescale /\ mark' = mark
  BY DEF WeatherlinkDownload
<1>2. WeatherlinkFollowed'
  <2>1. Legible(site)' = Legible(site)
    BY <1>1 DEF Legible
  <2>2. ASSUME NEW r \in Legible(site), r[2] <= mark', timescale' = timescale \cup records
        PROVE  r \in timescale'
    <3>1. r[2] \in Nat /\ r[2] > 0 /\ r \in site /\ r[2] \notin Illegible
      BY SiteIsDated DEF Legible, IInv
    <3>2. Reference <= mark \/ Reference = 0
      BY <1>1 DEF Reference, IInv, WeatherlinkMarks
    <3>3. Reference \in Int /\ mark \in Int
      BY DEF Reference, IInv, Types
    <3>4. CASE r[2] > Reference
      BY <2>2, <3>1, <3>4 DEF Legible
    <3>5. CASE ~(r[2] > Reference)
      BY <1>1, <2>2, <3>1, <3>2, <3>3, <3>5 DEF Follows, WeatherlinkFollowed
    <3> QED BY <3>4, <3>5
  <2> HIDE DEF records
  <2> QED BY <1>1, <2>1, <2>2 DEF Follows, WeatherlinkFollowed
<1>3. PagesFollowed' /\ HoursFollowed' /\ TargetsFollowed'
  BY <1>1 DEF PagesFollowed, HoursFollowed, TargetsFollowed
<1>4. oldest' \in Int
  <2>1. {now} \cup TimesOf(records) \subseteq Nat
    <3>1. records \subseteq Dated
      BY SiteIsDated DEF Legible, IInv
    <3> HIDE DEF records
    <3> QED BY <3>1, TimesOfRecords, SiteIsDated DEF IInv
  <2> HIDE DEF records
  <2>2. start \in Nat
    BY <2>1, FirstTime
  <2> HIDE DEF start
  <2> QED BY <1>1, <2>2 DEF Lower, Asks
<1> QED BY <1>1, <1>2, <1>3, <1>4, OtherServices DEF Follows

\* A target stored in both databases moves the mark, and forsakes what is not in
\* TimescaleDB yet.
LEMMA VirtualFollows ==
  ASSUME IInv, IInv', Follows, Asks, VirtualTarget
  PROVE  Follows' /\ Asks' /\ Asked
<1> DEFINE targets == {<<1, t>> : t \in Higher(cursor, 1) .. until}
<1>1. /\ UNCHANGED <<kind, site, oldest>> /\ kind = "virtual" /\ Busy
      /\ timescale \subseteq timescale' /\ forsaken \subseteq forsaken'
      /\ \/ mark' = mark
         \/ mark' = newest /\ offered' = offered \cup targets /\ offered' \subseteq timescale' \cup forsaken'
  BY DEF VirtualTarget
<1>2. /\ {mark, lastArchive, cursor, until} \subseteq Int /\ lastArchive <= mark /\ 0 <= lastArchive
      /\ 0 <= cursor /\ cursor <= until /\ until = newest /\ cursor <= lastArchive + 1
  BY <1>1 DEF IInv, TargetsInOrder, Types
<1>3. \A t \in 1..mark : <<1, t>> \in timescale' \cup forsaken'
  BY <1>1 DEF Follows, TargetsFollowed
<1>4. ASSUME mark' = mark PROVE TargetsFollowed'
  BY <1>1, <1>3, <1>4 DEF TargetsFollowed
<1>5. ASSUME mark' # mark PROVE TargetsFollowed'
  <2>1. ASSUME NEW t \in 1..mark', t \notin 1..mark PROVE <<1, t>> \in targets
    <3>1. t \in Higher(cursor, 1)..until
      BY <1>1, <1>2, <1>5, <2>1 DEF Higher
    <3> QED BY <3>1
  <2> HIDE DEF targets
  <2> QED BY <1>1, <1>3, <1>5, <2>1 DEF TargetsFollowed
<1>6. WeatherlinkFollowed' /\ PagesFollowed' /\ HoursFollowed'
  BY <1>1 DEF WeatherlinkFollowed, PagesFollowed, HoursFollowed
<1> QED BY <1>1, <1>4, <1>5, <1>6, OtherServices DEF Follows, Asks

\* A page of liveobjects, and where the loop goes next: what is on the site before that
\* is in the page, or was passed already, or is forsaken.
LEMMA PageOutcome ==
  ASSUME IInv, Asks, LiveobjectsPage
  PROVE  \E page, stored, next, o :
            /\ stored \subseteq page /\ page \subseteq Legible(site) /\ page \subseteq Dated
            /\ \A r \in page : cursor < r[2]
            /\ cassandra' \subseteq cassandra \cup page
            /\ timescale' = timescale \cup stored
            /\ offered \subseteq offered' /\ offered' \subseteq Legible(site)
            /\ \A r \in offered' \ offered : cursor < r[2]
            /\ forsaken \subseteq forsaken'
            /\ newest' = Latest(stored, newest) /\ oldest' = Min({oldest} \cup TimesOf(stored))
            /\ next \in Int /\ newest' \in Int /\ newest' <= next
            /\ ok' <=> stored = page
            /\ ok' => \A r \in Legible(site) : cursor < r[2] /\ r[2] <= next => r \in page \cup forsaken'
            /\ LiveobjectsGoOn(next, ok', oldest', newest', o)
<1> USE DEF IInv
<1> DEFINE span == Between(site, cursor + 1, cursor + Window)
           page == Legible(Page(span))
<1>1. PICK o \in Outcomes(page) :
         /\ newest' = Latest(page \ (o.refused \cup o.late), newest)
         /\ oldest' = Min({oldest} \cup TimesOf(page \ (o.refused \cup o.late)))
         /\ ok' = (page \ (o.refused \cup o.late) = page)
         /\ cassandra' = cassandra \cup (page \ o.refused)
         /\ timescale' = timescale \cup (page \ (o.refused \cup o.late))
         /\ forsaken' = forsaken \cup (IF cursor >= newest' THEN Legible(span \ Page(span)) ELSE {})
         /\ offered' = offered \cup Legible(span)
         /\ LiveobjectsGoOn(LiveobjectsNext(newest'), ok', oldest', newest', o)
  BY DEF LiveobjectsPage, Show
<1>2. kind = "liveobjects" /\ Busy
  BY DEF LiveobjectsPage
<1>3. cursor \in Int /\ Window \in Nat \ {0} /\ cursor + 1 \in Int /\ cursor + Window \in Int
  BY DownloadersAssumption DEF Types
<1>4. /\ span \subseteq Dated /\ Legible(span) \subseteq Legible(site) /\ Page(span) \subseteq span
      /\ \A r \in Legible(site) : cursor + 1 <= r[2] /\ r[2] <= cursor + Window => r \in Legible(span)
      /\ \A r \in span : cursor + 1 <= r[2] /\ r[2] <= cursor + Window /\ r[2] \in Nat
  <2>1. Page(span) \subseteq span
    BY DEF Page
  <2> HIDE DEF page
  <2> QED BY <1>3, <2>1, SpanTypes
<1> HIDE DEF span
<1>5. /\ page \subseteq Legible(span) /\ page \subseteq Page(span)
      /\ \A r \in Legible(span) : r \in page \/ r \in Legible(span \ Page(span))
      /\ Legible(span \ Page(span)) \subseteq Legible(span) /\ Legible(span) \subseteq span
      /\ \A r \in Legible(span \ Page(span)) : r \in span /\ r \notin Page(span)
  BY <1>4 DEF Legible
<1> HIDE DEF page
<1>6. newest <= cursor /\ newest \in Int /\ oldest \in Int
  BY <1>2 DEF PagesInOrder, Types, Asks
<1> DEFINE stored == page \ (o.refused \cup o.late)
           next == LiveobjectsNext(newest')
<1>7. /\ stored \subseteq page /\ page \subseteq Dated
      /\ \A r \in page : cursor < r[2] /\ r[2] <= cursor + Window
  BY <1>3, <1>4, <1>5
<1>8. /\ newest' \in Int /\ newest <= newest'
      /\ newest' = newest \/ \E r \in stored : r[2] = newest'
  BY <1>1, <1>6, <1>7, LatestIsLast
<1>9. next \in Int /\ newest' <= next /\ next <= cursor + Window
      /\ next = IF cursor >= newest' THEN cursor + Window ELSE newest'
  BY <1>3, <1>6, <1>7, <1>8 DEF LiveobjectsNext
<1> HIDE DEF next
<1>10. ASSUME NEW r \in Legible(site), cursor < r[2], r[2] <= next
       PROVE  r \in page \cup forsaken'
  <2>1. r[2] \in Nat
    BY SiteIsDated DEF Legible
  <2>2. r \in Legible(span)
    <3>1. cursor + 1 <= r[2] /\ r[2] <= cursor + Window
      <4>1. cursor < r[2] /\ r[2] <= next /\ next \in Int /\ next <= cursor + Window
        BY <1>9, <1>10
      <4> HIDE DEF stored
      <4> QED BY <1>3, <2>1, <4>1
    <3> QED BY <1>4, <3>1
  <2>3. CASE r \in Legible(span \ Page(span)) /\ ~(cursor >= newest')
    <3>1. PICK s \in page : s[2] = newest'
      BY <2>3, <1>6, <1>8
    <3>2. s[2] < r[2]
      BY <2>3, <3>1, <1>4, <1>5, PageComesFirst
    <3> QED BY <2>1, <2>3, <3>1, <3>2, <1>8, <1>9, <1>10
  <2> QED BY <2>2, <2>3, <1>1, <1>5
<1>11. offered' \subseteq Legible(site) /\ \A r \in offered' \ offered : cursor < r[2]
  <2>1. offered \subseteq Legible(site)
    BY <1>2 DEF Types
  <2> QED BY <1>1, <1>3, <1>4, <1>5, <2>1
<1>12. /\ stored \subseteq page /\ page \subseteq Legible(site) /\ page \subseteq Dated
       /\ \A r \in page : cursor < r[2]
       /\ cassandra' \subseteq cassandra \cup page /\ timescale' = timescale \cup stored
       /\ offered \subseteq offered' /\ forsaken \subseteq forsaken'
       /\ newest' = Latest(stored, newest) /\ oldest' = Min({oldest} \cup TimesOf(stored))
       /\ ok' <=> stored = page
       /\ LiveobjectsGoOn(next, ok', oldest', newest', o)
  <2>1. cassandra' \subseteq cassandra \cup page
    BY <1>1
  <2> QED BY <1>1, <1>4, <1>5, <1>7, <2>1 DEF next
<1> HIDE DEF stored
<1> QED BY <1>8, <1>9, <1>10, <1>11, <1>12

\* A page that is not in both databases ends the download before the mark; the others are
\* within the bounds that are asked for at the end.
LEMMA LiveobjectsFollows ==
  ASSUME IInv, IInv', Follows, Asks, LiveobjectsPage
  PROVE  Follows' /\ Asks' /\ Asked
<1>1. PICK page, stored, next, o :
            /\ stored \subseteq page /\ page \subseteq Legible(site) /\ page \subseteq Dated
            /\ \A r \in page : cursor < r[2]
            /\ cassandra' \subseteq cassandra \cup page
            /\ timescale' = timescale \cup stored
            /\ offered \subseteq offered' /\ offered' \subseteq Legible(site)
            /\ \A r \in offered' \ offered : cursor < r[2]
            /\ forsaken \subseteq forsaken'
            /\ newest' = Latest(stored, newest) /\ oldest' = Min({oldest} \cup TimesOf(stored))
            /\ next \in Int /\ newest' \in Int /\ newest' <= next
            /\ ok' <=> stored = page
            /\ ok' => \A r \in Legible(site) : cursor < r[2] /\ r[2] <= next => r \in page \cup forsaken'
            /\ LiveobjectsGoOn(next, ok', oldest', newest', o)
  BY PageOutcome
<1>2. UNCHANGED <<kind, site>> /\ kind = "liveobjects" /\ Busy
  BY DEF LiveobjectsPage
<1>3. /\ {cursor, newest, oldest, mark, until} \subseteq Int /\ Idle \in Int
      /\ mark <= newest /\ newest <= cursor
      /\ \A r \in Legible(site) : r[2] \in Nat
  BY <1>2, SiteIsDated, DownloadersAssumption DEF Idle, IInv, Types, Asks, PagesInOrder, Legible
<1>4. oldest' \in Int /\ oldest' <= oldest /\ \A r \in stored : oldest' <= r[2]
  BY <1>1, <1>3, BoundsExtend
<1>5. \/ ok' /\ cursor' = next /\ mark' = mark /\ jobs' = jobs
      \/ ~ok' /\ cursor' = Idle /\ mark' = mark /\ jobs' = jobs
      \/ ok' /\ cursor' = Idle /\ mark' \in {mark, newest'} /\ jobs' = jobs \cup ({Station} \X (oldest' .. newest'))
  <2>1. LiveobjectsGoOn(next, ok', oldest', newest', o)
    BY <1>1
  <2>2. CASE ok' /\ next < until
    BY <2>1, <2>2 DEF LiveobjectsGoOn
  <2>3. CASE ok' /\ ~(next < until)
    BY <2>1, <2>3 DEF LiveobjectsGoOn, Done, Advance, Publish
  <2>4. CASE ~ok'
    BY <2>1, <2>4 DEF LiveobjectsGoOn, Done
  <2> QED BY <2>2, <2>3, <2>4
<1>6. ASSUME NEW r \in Unfollowed'
      PROVE  r[2] > mark /\ (ok' => r[2] > next)
  <2>1. r \in Legible(site) /\ r[2] \in Nat /\ r \notin stored /\ r \notin forsaken' /\ r \in offered'
    BY <1>1, <1>3, <1>6 DEF Unfollowed
  <2>2. r[2] > cursor
    <3>1. CASE r \in offered
      BY <1>1, <1>2, <1>6, <3>1 DEF Unfollowed, Follows, PagesFollowed
    <3> QED BY <1>1, <2>1, <3>1
  <2> QED BY <1>1, <1>3, <2>1, <2>2
<1>7. PagesFollowed'
  <2>1. ASSUME NEW r \in Unfollowed' PROVE r[2] > mark' /\ (cursor' # Idle => r[2] > cursor')
    <3>1. r[2] \in Nat
      BY <1>1, <1>3, <2>1 DEF Unfollowed
    <3>2. r[2] > mark /\ (ok' => r[2] > next)
      BY <1>6, <2>1
    <3> QED BY <1>1, <1>3, <1>5, <3>1, <3>2
  <2> QED BY <2>1 DEF PagesFollowed, Busy, Idle
<1>8. ASSUME NEW r \in offered' \cap cassandra', mark < r[2], r[2] <= next, r \notin forsaken', ok'
      PROVE  oldest' <= r[2]
  <2>1. r \in Legible(site) /\ r[2] \in Nat
    BY <1>1, <1>3, <1>8
  <2>2. CASE cursor < r[2]
    BY <1>1, <1>4, <1>8, <2>1, <2>2
  <2>3. CASE ~(cursor < r[2])
    <3>1. r \in Pending(cursor) /\ r \notin forsaken
      BY <1>1, <1>3, <1>8, <2>1, <2>3 DEF Pending
    <3>2. oldest <= r[2]
      BY <1>2, <3>1 DEF Asks, PagesAsked
    <3> QED BY <1>3, <1>4, <2>1, <3>2
  <2> QED BY <2>2, <2>3
<1>9. PagesAsked'
  <2>1. ASSUME NEW r \in Pending(cursor)', cursor' # Idle PROVE r \in forsaken' \/ oldest' <= r[2]
    <3>1. r \in offered' \cap cassandra' /\ mark < r[2] /\ r[2] <= next /\ ok'
      BY <1>5, <2>1 DEF Pending
    <3> QED BY <1>8, <3>1
  <2> QED BY <2>1 DEF PagesAsked, Busy, Idle
<1>10. Asked
  <2>1. SUFFICES ASSUME NEW r \in (offered \cap cassandra)', mark < r[2], r[2] <= mark', r \notin forsaken'
                 PROVE  <<Station, r[2]>> \in jobs'
    BY <1>2 DEF Asked
  <2>2. r[2] \in Nat
    BY <1>1, <1>3, <2>1
  <2>3. ok' /\ mark' = newest' /\ jobs' = jobs \cup ({Station} \X (oldest' .. newest'))
    BY <1>3, <1>5, <2>1, <2>2
  <2>4. oldest' <= r[2] /\ r[2] <= newest'
    <3>1. r[2] <= newest' /\ r[2] <= next
      BY <1>1, <2>1, <2>2, <2>3
    <3> QED BY <1>8, <2>1, <2>3, <3>1
  <2> QED BY <1>1, <1>4, <2>2, <2>3, <2>4
<1>11. Follows' /\ Asks'
  BY <1>2, <1>4, <1>7, <1>9 DEF Follows, WeatherlinkFollowed, HoursFollowed, TargetsFollowed, Asks,
     SpansAsked, FieldAsked, HoursAsked
<1> QED BY <1>10, <1>11

\* The next hour, or the end of the loop: all since the mark is asked for.
LEMMA HoursGoOn ==
  ASSUME IInv, Asks, kind = "meteofrance", Busy, NEW good \in BOOLEAN, NEW e \in Int, NEW o,
         MeteoFranceGoOn(good, e, o)
  PROVE  \/ good /\ cursor' = cursor + 1 /\ mark' = mark /\ jobs' = jobs
         \/ cursor' = Idle /\ mark' = mark
         \/ good /\ cursor' = Idle /\ mark' = e /\ (e > mark => jobs' = jobs \cup ({Station} \X (mark .. e)))
<1>1. oldest = mark
  BY DEF Asks, HoursAsked
<1>2. CASE good /\ cursor + 1 < until
  BY <1>2 DEF MeteoFranceGoOn
<1>3. CASE good /\ ~(cursor + 1 < until)
  BY <1>1, <1>3 DEF MeteoFranceGoOn, Done, Advance, Publish
<1>4. CASE ~good
  BY <1>4 DEF MeteoFranceGoOn, Done
<1> QED BY <1>2, <1>3, <1>4

\* An hour that is not in both databases ends the download before the mark.
LEMMA MeteoFranceFollows ==
  ASSUME IInv, Follows, Asks, MeteoFranceHour \/ MeteoFranceGarbled
  PROVE  Follows' /\ Asks' /\ Asked
<1> DEFINE records == Legible(Between(site, cursor, cursor))
<1>1. \E stored, lost, good, o :
         /\ stored \subseteq records /\ good \in BOOLEAN
         /\ timescale' = timescale \cup stored /\ forsaken' = forsaken \cup lost
         /\ good => records \subseteq stored \cup lost
         /\ newest' = Latest(stored, newest) \/ (newest' = newest /\ stored = {})
         /\ offered' = offered \cup records
         /\ MeteoFranceGoOn(good, newest', o)
  <2>1. Legible(records) = records
    BY DEF Legible
  <2>2. CASE MeteoFranceHour
    <3>1. PICK o \in Outcomes(records) :
             /\ newest' = Latest(records \ (o.refused \cup o.late), newest)
             /\ ok' = (records \ (o.refused \cup o.late) = records)
             /\ timescale' = timescale \cup (records \ (o.refused \cup o.late))
             /\ offered' = offered \cup Legible(records)
             /\ MeteoFranceGoOn(ok', newest', o) /\ forsaken' = forsaken
      BY <2>2 DEF MeteoFranceHour, Show
    <3> DEFINE stored == records \ (o.refused \cup o.late)
    <3>2. /\ stored \subseteq records
          /\ timescale' = timescale \cup stored /\ forsaken' = forsaken \cup {}
          /\ ok' \in BOOLEAN /\ (ok' => records \subseteq stored \cup {})
          /\ newest' = Latest(stored, newest)
          /\ offered' = offered \cup records
          /\ MeteoFranceGoOn(ok', newest', o)
      BY <2>1, <3>1
    <3> HIDE DEF records, stored
    <3> QED BY <3>2, Zenon
  <2>3. CASE MeteoFranceGarbled
    <3>1. /\ offered' = offered \cup records /\ forsaken' = forsaken \cup records
          /\ MeteoFranceGoOn(TRUE, newest, Smooth) /\ UNCHANGED <<newest, timescale>>
      BY <2>1, <2>3 DEF MeteoFranceGarbled, Show, databases
    <3> HIDE DEF records
    <3>2. PICK good \in BOOLEAN : good = TRUE
      OBVIOUS
    <3>3. PICK stored : stored = {}
      OBVIOUS
    <3>4. /\ stored \subseteq records /\ good \in BOOLEAN /\ timescale' = timescale \cup stored
          /\ (good => records \subseteq stored \cup records) /\ (newest' = newest /\ stored = {})
      BY <3>1, <3>2, <3>3
    <3>5. MeteoFranceGoOn(good, newest', Smooth)
      BY <3>1, <3>2
    <3> QED BY <3>1, <3>4, <3>5, Zenon
  <2> QED BY <2>2, <2>3
<1>2. PICK stored, lost, good, o :
         /\ stored \subseteq records /\ good \in BOOLEAN
         /\ timescale' = timescale \cup stored /\ forsaken' = forsaken \cup lost
         /\ good => records \subseteq stored \cup lost
         /\ newest' = Latest(stored, newest) \/ (newest' = newest /\ stored = {})
         /\ offered' = offered \cup records
         /\ MeteoFranceGoOn(good, newest', o)
  BY <1>1
<1>3. UNCHANGED <<kind, site, oldest>> /\ kind = "meteofrance" /\ Busy
  BY DEF MeteoFranceHour, MeteoFranceGarbled
<1>4. /\ {cursor, newest, oldest, mark} \subseteq Int /\ Idle \in Int
      /\ oldest = mark /\ mark <= cursor /\ newest <= cursor
      /\ \A r \in offered : r \in Legible(site)
  BY <1>3, DownloadersAssumption DEF Idle, IInv, Types, Asks, HoursAsked, HoursInOrder
<1>5. /\ \A r \in records : r = <<1, cursor>> /\ r[2] = cursor /\ r \in Legible(site) /\ r \in Dated
      /\ \A r \in Legible(site) : r[2] \in Nat /\ r[2] > 0 /\ r = <<1, r[2]>>
  <2>1. \A r \in Legible(site) : r[2] \in Nat /\ r[2] > 0 /\ r = <<r[1], r[2]>> /\ r[1] = 1 /\ r \in Dated
    BY <1>3, SiteIsDated DEF Parts, Legible, IInv
  <2>2. records \subseteq Legible(site) /\ \A r \in records : cursor <= r[2] /\ r[2] <= cursor
    BY DEF Legible, Between
  <2> HIDE DEF records
  <2> QED BY <2>1, <2>2, <1>4
<1> HIDE DEF records
<1>6. /\ newest' \in Int /\ newest' <= cursor
      /\ newest' = newest \/ <<1, newest'>> \in stored
  <2>1. CASE stored = {} /\ newest' = newest
    BY <1>4, <2>1
  <2>2. CASE newest' = Latest(stored, newest)
    <3>1. stored \subseteq Dated
      BY <1>2, <1>5
    <3>2. newest' \in Int /\ (newest' = newest \/ \E r \in stored : r[2] = newest')
      BY <1>4, <2>2, <3>1, LatestIsLast
    <3> QED BY <1>2, <1>4, <1>5, <3>2
  <2> QED BY <1>2, <2>1, <2>2
<1>7. \/ good /\ cursor' = cursor + 1 /\ mark' = mark /\ jobs' = jobs
      \/ cursor' = Idle /\ mark' = mark
      \/ good /\ cursor' = Idle /\ mark' = newest' /\ (newest' > mark => jobs' = jobs \cup ({Station} \X (mark .. newest')))
  BY <1>2, <1>3, <1>6, HoursGoOn
<1>8. newest = 0 \/ <<1, newest>> \in timescale
  BY <1>3 DEF Follows, HoursFollowed
<1>9. mark = 0 \/ <<1, mark>> \in timescale
  BY <1>3 DEF Follows, HoursFollowed
<1>10. ASSUME NEW r \in Unfollowed'
       PROVE  r[2] \in Nat /\ r[2] > mark /\ r[2] >= cursor /\ (good => r[2] > cursor)
  <2>1. r \in offered' /\ r \notin timescale /\ r \notin stored /\ r \notin lost /\ r \notin forsaken
    BY <1>2, <1>10 DEF Unfollowed
  <2>2. r \in Legible(site) /\ r[2] \in Nat /\ r = <<1, r[2]>> /\ r[2] > 0
    BY <1>2, <1>4, <1>5, <2>1
  <2>3. r[2] # mark
    BY <1>9, <2>1, <2>2
  <2>4. CASE r \in records
    BY <1>2, <1>4, <1>5, <2>1, <2>2, <2>3, <2>4
  <2>5. CASE r \notin records
    <3>1. r \in Unfollowed
      BY <1>2, <2>1, <2>5 DEF Unfollowed
    <3>2. r[2] > mark /\ r[2] >= cursor
      BY <1>3, <3>1 DEF Follows, HoursFollowed
    <3>3. r[2] # cursor
      <4>1. \A q \in Legible(site) : cursor <= q[2] /\ q[2] <= cursor => q \in records
        BY <1>4, SpanTypes DEF records, IInv
      <4> QED BY <1>4, <2>2, <2>5, <4>1
    <3> QED BY <1>4, <2>2, <3>2, <3>3
  <2> QED BY <2>4, <2>5
<1>11. HoursFollowed'
  <2>1. mark' = 0 \/ <<1, mark'>> \in timescale'
    BY <1>2, <1>6, <1>7, <1>8, <1>9
  <2>2. cursor' # Idle => newest' = 0 \/ <<1, newest'>> \in timescale'
    BY <1>2, <1>6, <1>8
  <2>3. ASSUME NEW r \in Unfollowed' PROVE r[2] > mark' /\ (cursor' # Idle => r[2] >= cursor')
    BY <1>4, <1>6, <1>7, <1>10, <2>3
  <2> QED BY <2>1, <2>2, <2>3 DEF HoursFollowed, Busy, Idle
<1>12. Asked
  <2>1. SUFFICES ASSUME NEW r \in (offered \cap cassandra)', mark < r[2], r[2] <= mark'
                 PROVE  <<Station, r[2]>> \in jobs'
    BY DEF Asked
  <2>2. r[2] \in Nat
    BY <1>2, <1>4, <1>5, <2>1
  <2>3. mark' = newest' /\ (newest' > mark => jobs' = jobs \cup ({Station} \X (mark .. newest')))
    BY <1>4, <1>7, <2>1, <2>2
  <2> QED BY <1>4, <1>6, <2>1, <2>2, <2>3
<1>13. Asks'
  <2>1. cursor' # Idle => oldest' = mark'
    BY <1>3, <1>4, <1>6, <1>7
  <2> QED BY <1>3, <2>1 DEF Asks, SpansAsked, FieldAsked, PagesAsked, HoursAsked, Busy, Idle
<1>14. WeatherlinkFollowed' /\ PagesFollowed' /\ TargetsFollowed'
  BY <1>3 DEF WeatherlinkFollowed, PagesFollowed, TargetsFollowed
<1> QED BY <1>11, <1>12, <1>13, <1>14 DEF Follows

\* A span of apiv2 stores all it has after the mark, and keeps its bounds.
LEMMA Apiv2Follows ==
  ASSUME IInv, IInv', Follows, Asks, Apiv2Span
  PROVE  Follows' /\ Asks' /\ Asked
<1> DEFINE page == Legible(Between(site, cursor + 1, cursor + Window))
           records == {r \in page : r[1] \in Fresh(page)}
           next == cursor + Window
<1>1. PICK o \in Outcomes(records) :
         /\ oldest' = Min({oldest} \cup TimesOf(records))
         /\ newest' = Latest(records, newest)
         /\ \E deleted : cassandra' = (cassandra \ deleted) \cup (records \ o.refused)
         /\ \/ mark' = mark
            \/ mark' = Apiv2Reference(page) /\ jobs' = jobs \cup ({Station} \X (oldest' .. newest'))
         /\ offered' = offered \cup Legible(records)
  <2>1. PICK o \in Outcomes(records) :
         /\ oldest' = Min({oldest} \cup TimesOf(records))
         /\ newest' = Latest(records, newest)
         /\ \E deleted : cassandra' = (cassandra \ deleted) \cup (records \ o.refused)
         /\ IF o.refused = {}
            THEN Advance(Apiv2Reference(page), o) /\ Publish(oldest', newest')
            ELSE UNCHANGED <<mark, lastArchive, jobs>>
         /\ offered' = offered \cup Legible(records)
    BY DEF Apiv2Span, Show
  <2> HIDE DEF records, page
  <2>2. \/ mark' = mark
        \/ mark' = Apiv2Reference(page) /\ jobs' = jobs \cup ({Station} \X (oldest' .. newest'))
    BY <2>1 DEF Advance, Publish
  <2> QED BY <2>1, <2>2
<1>2. UNCHANGED <<kind, now, site>> /\ kind = "apiv2" /\ Busy /\ GoOn(next)
  BY DEF Apiv2Span
<1>3. cursor \in Int /\ Window \in Nat /\ next \in Int /\ cursor + 1 \in Int
  BY DownloadersAssumption DEF IInv, Types
<1>4. /\ page \subseteq Legible(site) /\ page \subseteq Dated
      /\ \A r \in Legible(site) : cursor + 1 <= r[2] /\ r[2] <= next => r \in page
      /\ \A r \in page : r[2] <= next /\ r[2] \in Nat
      /\ \A r \in Legible(site) : r[2] \in Nat /\ r[1] \in Parts
  BY <1>3, SpanTypes, SiteIsDated DEF Legible, IInv
<1>5. lastArchive = mark /\ mark \in Int /\ 0 <= mark /\ mark' \in Int
  BY <1>2 DEF SpansInOrder, Types, IInv
<1>6. /\ records \subseteq page /\ Legible(records) = records /\ records \subseteq Dated
      /\ \A r \in records : r[2] \in Nat
  BY <1>4 DEF Legible
<1> HIDE DEF page, next
<1>7. ASSUME NEW r \in page, r[2] > mark PROVE r \in records
  <2>1. r \in OfPart(page, r[1]) /\ r[1] \in Parts /\ r[2] \in Nat
    BY <1>4, <1>7 DEF OfPart
  <2>2. OfPart(page, r[1]) \subseteq Dated
    BY <1>4 DEF OfPart
  <2>3. Latest(OfPart(page, r[1]), 0) > lastArchive
    <3>1. Latest(OfPart(page, r[1]), 0) \in Int /\ r[2] <= Latest(OfPart(page, r[1]), 0)
      BY <2>1, <2>2, LatestIsLast
    <3> QED BY <1>5, <1>7, <2>1, <3>1
  <2> QED BY <2>1, <2>3 DEF Fresh
<1>8. mark' = mark \/ mark' <= next
  <2>1. ASSUME NEW p PROVE Latest(OfPart(page, p), 0) <= next \/ Latest(OfPart(page, p), 0) = 0
    <3>1. OfPart(page, p) \subseteq page /\ OfPart(page, p) \subseteq Dated
      BY <1>4 DEF OfPart
    <3> QED BY <1>4, <3>1, LatestIsLast
  <2>2. Fresh(page) # {} => Max(Fresh(page)) \in Fresh(page)
    <3>1. Fresh(page) \subseteq {1, 2}
      BY DEF Fresh, Parts
    <3>2. Fresh(page) # {} => \E m \in Fresh(page) : \A p \in Fresh(page) : m >= p
      BY <3>1
    <3> QED BY <3>2 DEF Max
  <2>3. ASSUME NEW p \in Fresh(page) PROVE Latest(OfPart(page, p), 0) > mark
    BY <1>5 DEF Fresh
  <2>4. Apiv2Reference(page) = mark \/ Apiv2Reference(page) <= next
    <3>1. CASE Fresh(page) = {}
      BY <1>5, <3>1 DEF Apiv2Reference
    <3>2. CASE Fresh(page) # {}
      <4>1. Latest(OfPart(page, Max(Fresh(page))), 0) > mark
        BY <2>2, <2>3, <3>2
      <4>2. Latest(OfPart(page, Max(Fresh(page))), 0) # 0
        BY <1>5, <4>1
      <4> QED BY <2>1, <3>2, <4>2 DEF Apiv2Reference
    <3> QED BY <3>1, <3>2
  <2> QED BY <1>1, <2>4
<1> HIDE DEF records
<1>9. /\ oldest' \in Int /\ newest' \in Int /\ oldest' <= oldest /\ newest <= newest'
      /\ \A r \in records : oldest' <= r[2] /\ r[2] <= newest'
      /\ oldest \in Int /\ newest \in Int
  <2>1. oldest \in Int /\ newest \in Int
    BY DEF Asks, IInv, Types
  <2> QED BY <1>1, <1>6, <2>1, BoundsExtend, LatestIsLast
<1>10. ASSUME NEW r \in offered' \cap cassandra', mark < r[2], r[2] <= next
       PROVE  oldest' <= r[2] /\ r[2] <= newest'
  <2>1. CASE r \in records
    BY <1>9, <2>1
  <2>2. CASE r \notin records
    <3>1. r \in offered \cap cassandra /\ r \in Legible(site) /\ r[2] \in Nat
      BY <1>1, <1>2, <1>4, <1>6, <1>10, <2>2 DEF IInv, Types
    <3>2. r \notin page
      BY <1>5, <1>7, <1>10, <2>2, <3>1
    <3>3. r[2] <= cursor
      BY <1>3, <1>4, <1>10, <3>1, <3>2
    <3>4. r \in Pending(cursor)
      BY <1>10, <3>1, <3>3 DEF Pending
    <3>5. oldest <= r[2] /\ r[2] <= newest
      BY <1>2, <3>4 DEF Asks, SpansAsked
    <3> QED BY <1>9, <3>1, <3>5
  <2> QED BY <2>1, <2>2
<1>11. Asked
  <2>1. SUFFICES ASSUME NEW r \in (offered \cap cassandra)', mark < r[2], r[2] <= mark'
                 PROVE  <<Station, r[2]>> \in jobs'
    BY DEF Asked
  <2>2. r[2] \in Nat
    BY <2>1 DEF IInv, Types, Records, Times
  <2>3. mark' # mark /\ r[2] <= next
    BY <1>3, <1>5, <1>8, <2>1, <2>2 DEF next
  <2>4. oldest' <= r[2] /\ r[2] <= newest'
    BY <1>10, <2>1, <2>3
  <2> QED BY <1>1, <1>9, <2>2, <2>3, <2>4
<1>12. SpansAsked'
  <2>1. cursor' \in {next, Idle}
    <3>1. next \in Int
      BY <1>3 DEF next
    <3> QED BY <1>2, <3>1, GoOnTypes DEF IInv
  <2>2. mark <= mark'
    <3>1. ASSUME NEW p \in Fresh(page) PROVE Latest(OfPart(page, p), 0) > mark
      BY <1>5 DEF Fresh
    <3>2. Fresh(page) # {} => Max(Fresh(page)) \in Fresh(page)
      <4>1. Fresh(page) \subseteq {1, 2}
        BY DEF Fresh, Parts
      <4>2. Fresh(page) # {} => \E m \in Fresh(page) : \A p \in Fresh(page) : m >= p
        BY <4>1
      <4> QED BY <4>2 DEF Max
    <3>3. mark' = mark \/ mark' > mark
      BY <1>1, <1>5, <3>1, <3>2 DEF Apiv2Reference
    <3> QED BY <1>5, <3>3
  <2>3. ASSUME NEW r \in Pending(cursor)', cursor' # Idle PROVE oldest' <= r[2] /\ r[2] <= newest'
    <3>1. r \in offered' \cap cassandra' /\ mark' < r[2] /\ r[2] <= next
      BY <2>1, <2>3 DEF Pending
    <3>2. mark < r[2]
      <4>1. r[2] \in Nat
        BY <3>1 DEF IInv, Types, Records, Times
      <4> QED BY <1>5, <2>2, <3>1, <4>1
    <3> QED BY <1>10, <3>1, <3>2
  <2> QED BY <2>3 DEF SpansAsked, Busy, Idle
<1>13. Asks'
  BY <1>2, <1>9, <1>12 DEF Asks, FieldAsked, PagesAsked, HoursAsked
<1> QED BY <1>2, <1>11, <1>13, OtherServices, <1>9 DEF TimescaleLast

\* A span of fieldclimate is asked for at once, unless it has a refusal.
LEMMA FieldClimateFollows ==
  ASSUME IInv, IInv', Follows, Asks, FieldClimateSpan
  PROVE  Follows' /\ Asks' /\ Asked
<1> DEFINE records == Legible(Between(site, cursor, cursor + Window))
           last == Latest(records, 0)
           next == cursor + Window
<1>1. PICK o \in Outcomes(records) :
         /\ offered' = offered \cup Legible(records)
         /\ IF records = {}
            THEN UNCHANGED <<mark, lastArchive, databases, jobs, forsaken>>
            ELSE /\ cassandra' \subseteq cassandra \cup records
                 /\ forsaken \cup PassedOver(o) \subseteq forsaken'
                 /\ IF o.refused = {} THEN Advance(last, o) /\ Publish(Min(TimesOf(records)), last)
                    ELSE UNCHANGED <<mark, lastArchive, jobs>>
  BY DEF FieldClimateSpan, Show
<1>2. UNCHANGED <<kind, site, oldest>> /\ kind = "fieldclimate" /\ Busy /\ GoOn(next)
  BY DEF FieldClimateSpan
<1>3. cursor \in Int /\ Window \in Nat /\ next \in Int
  BY DownloadersAssumption DEF IInv, Types
<1>4. /\ records \subseteq Legible(site) /\ records \subseteq Dated /\ Legible(records) = records
      /\ \A r \in Legible(site) : cursor <= r[2] /\ r[2] <= next => r \in records
      /\ \A r \in records : cursor <= r[2] /\ r[2] <= next /\ r[2] \in Nat
      /\ \A r \in Legible(site) : r[2] \in Nat
  BY <1>3, SpanTypes, SiteIsDated DEF Legible, IInv
<1>5. {mark, mark', until} \subseteq Int /\ lastArchive = mark
  BY <1>2 DEF SpansInOrder, Types, IInv
<1> HIDE DEF records
<1>6. last \in Int /\ (\A r \in records : r[2] <= last) /\ (records # {} => last <= next)
  BY <1>3, <1>4, LatestIsLast
<1>7. records # {} => Min(TimesOf(records)) \in Nat /\ \A r \in records : Min(TimesOf(records)) <= r[2]
  <2>1. TimesOf(records) \subseteq Nat /\ \A r \in records : r[2] \in TimesOf(records)
    BY <1>4, TimesOfRecords
  <2> QED BY <2>1, FirstTime
<1> DEFINE first == Min(TimesOf(records))
<1> HIDE DEF last, first
<1>8. /\ jobs \subseteq jobs'
      /\ mark' = mark \/ (mark' = last /\ jobs' = jobs \cup ({Station} \X (first .. last)) /\ records # {})
  BY <1>1 DEF Advance, Publish, databases, first
<1>9. ASSUME NEW r \in records, jobs' = jobs \cup ({Station} \X (first .. last)) PROVE <<Station, r[2]>> \in jobs'
  BY <1>4, <1>6, <1>7, <1>9 DEF first
<1>10. ASSUME forsaken' = {}, NEW r \in offered' \cap cassandra', mark < r[2], r[2] <= next,
              mark' # mark \/ next < until
       PROVE  <<Station, r[2]>> \in jobs'
  <2>1. r \in Legible(site) /\ r[2] \in Nat
    BY <1>2, <1>4, <1>10 DEF IInv, Types
  <2>2. CASE r \in records
    <3>1. o.refused = {}
      <4>1. CASE mark' # mark
        BY <1>1, <2>2, <4>1
      <4>2. CASE next < until
        BY <1>1, <1>10, <2>2, <4>2 DEF PassedOver, next
      <4> QED BY <1>10, <4>1, <4>2
    <3>2. jobs' = jobs \cup ({Station} \X (first .. last))
      BY <1>1, <2>2, <3>1 DEF Publish, first
    <3> QED BY <1>9, <2>2, <3>2
  <2>3. CASE r \notin records
    <3>1. r \in offered \cap cassandra
      BY <1>1, <1>4, <1>10, <2>3 DEF databases
    <3>2. r[2] <= cursor
      BY <1>3, <1>4, <1>10, <2>1, <2>3
    <3>3. r \in Pending(cursor) /\ forsaken = {}
      <4>1. forsaken \subseteq forsaken'
        BY <1>1
      <4> QED BY <1>10, <3>1, <3>2, <4>1 DEF Pending
    <3>4. <<Station, r[2]>> \in jobs
      BY <1>2, <3>3 DEF Asks, FieldAsked
    <3> QED BY <1>8, <3>4
  <2> QED BY <2>2, <2>3
<1>11. Asked
  <2>1. SUFFICES ASSUME forsaken' = {}, NEW r \in (offered \cap cassandra)', mark < r[2], r[2] <= mark'
                 PROVE  <<Station, r[2]>> \in jobs'
    BY <1>2 DEF Asked, Publishes
  <2>2. r[2] \in Nat
    BY <2>1 DEF IInv, Types, Records, Times
  <2>3. mark' # mark
    BY <1>5, <2>1, <2>2
  <2>4. r[2] <= next
    BY <1>3, <1>6, <1>8, <2>1, <2>2, <2>3
  <2> QED BY <1>10, <2>1, <2>3, <2>4
<1>12. FieldAsked'
  <2>1. cursor' \in {next, Idle} /\ (~(next < until) => cursor' = Idle)
    BY <1>2, <1>3, GoOnTypes DEF IInv
  <2>2. ASSUME NEW r \in Pending(cursor)', cursor' # Idle, forsaken' = {} PROVE <<Station, r[2]>> \in jobs'
    <3>1. r \in offered' \cap cassandra' /\ mark' < r[2] /\ r[2] <= next /\ next < until
      BY <2>1, <2>2 DEF Pending
    <3>2. r[2] \in Nat
      BY <3>1 DEF IInv, Types, Records, Times
    <3>3. CASE mark < r[2]
      BY <1>10, <2>2, <3>1, <3>3
    <3>4. CASE ~(mark < r[2])
      <4>1. mark' # mark /\ records # {} /\ mark' = last
        BY <1>8, <3>1, <3>4
      <4>2. cursor <= last /\ 0 <= last
        BY <1>3, <1>4, <1>6, <4>1
      <4>3. r[2] > cursor /\ r \in Legible(site)
        BY <1>2, <1>3, <1>6, <3>1, <3>2, <4>1, <4>2 DEF IInv, Types
      <4>4. r \in records
        BY <1>3, <1>4, <3>1, <3>2, <4>3
      <4> QED BY <1>5, <1>6, <3>1, <3>2, <4>1, <4>4
    <3> QED BY <3>3, <3>4
  <2>3. Station' = Station
    BY <1>2 DEF Station
  <2> QED BY <2>2, <2>3 DEF FieldAsked, Busy, Idle
<1>13. oldest' \in Int /\ Asks'
  BY <1>2, <1>12 DEF Asks, SpansAsked, PagesAsked, HoursAsked
<1> QED BY <1>2, <1>11, <1>13, OtherServices DEF TimescaleLast

\* Current data are stored between two downloads; radome has no climatology.
LEMMA OthersFollow ==
  ASSUME IInv, Follows, Asks, RealTime \/ RadomeStep
  PROVE  Follows' /\ Asks' /\ Asked
<1>1. oldest \in Int /\ \A r \in offered : r[2] \in Int
  BY DEF Asks, IInv, Types, Records, Times
<1>2. CASE RealTime
  <2>1. /\ UNCHANGED <<kind, mark, loop, jobs, history>> /\ kind \in {"apiv2", "fieldclimate"} /\ ~Busy
    BY <1>2 DEF RealTime
  <2>2. Asks'
    BY <1>1, <2>1 DEF Asks, SpansAsked, FieldAsked, PagesAsked, HoursAsked, Busy, Idle, loop
  <2>3. Asked
    <3>1. mark \in Int
      BY DEF IInv, Types
    <3> QED BY <1>1, <2>1, <3>1 DEF Asked, history
  <2> QED BY <1>1, <2>1, <2>2, <2>3, OtherServices DEF TimescaleLast, loop
<1>3. CASE RadomeStep
  BY <1>1, <1>3, OtherServices DEF RadomeStep, TimescaleLast
<1> QED BY <1>2, <1>3

LEMMA InitFollows == Init => Follows /\ Asks
<1> SUFFICES ASSUME Init PROVE Follows /\ Asks
  OBVIOUS
<1>1. MaxTime \in Int
  BY DownloadersAssumption
<1>2. mark = 0 /\ offered = {} /\ site = {} /\ oldest = MaxTime /\ ~Busy
  BY DEF Init, Busy
<1> QED BY <1>1, <1>2 DEF Follows, WeatherlinkFollowed, PagesFollowed, HoursFollowed, TargetsFollowed,
       Unfollowed, Legible, Asks, SpansAsked, FieldAsked, PagesAsked, HoursAsked

LEMMA NextFollows == IInv /\ IInv' /\ Follows /\ Asks /\ [Next]_vars => Follows' /\ Asks' /\ Asked
<1> SUFFICES ASSUME IInv, IInv', Follows, Asks, [Next]_vars PROVE Follows' /\ Asks' /\ Asked
  OBVIOUS
<1>1. oldest \in Int /\ MaxTime \in Int
  BY DownloadersAssumption DEF Asks
<1>2. CASE Tick
  BY <1>1, <1>2, QuietFollows DEF Tick, loop
<1>3. CASE \E p \in Parts, t \in 1..MaxTime : Upload(p, t)
  BY <1>3, UploadFollows
<1>4. CASE WeatherlinkDownload
  BY <1>4, WeatherlinkFollows
<1>5. CASE Begin
  BY <1>5, BeginFollows
<1>6. CASE Answer
  <2>1. CASE LiveobjectsGarbled
    BY <1>1, <2>1, QuietFollows DEF LiveobjectsGarbled
  <2>2. CASE ~LiveobjectsGarbled
    BY <1>6, <2>2, Apiv2Follows, FieldClimateFollows, LiveobjectsFollows, MeteoFranceFollows,
       VirtualFollows, OthersFollow DEF Answer
  <2> QED BY <2>1, <2>2
<1>7. CASE RealTime
  BY <1>7, OthersFollow
<1>8. CASE RequestFails
  BY <1>1, <1>8, QuietFollows DEF RequestFails, Finish, Done
<1>9. CASE ReloadStations \/ Crash
  BY <1>1, <1>9, QuietFollows DEF ReloadStations, Crash, Rebuild, Done
<1>10. CASE UNCHANGED vars
  BY <1>1, <1>10, QuietFollows DEF vars, loop
<1> QED BY <1>2, <1>3, <1>4, <1>5, <1>6, <1>7, <1>8, <1>9, <1>10 DEF Next

\* A downloader is that of a service.
LEMMA KindStays == Spec => [](kind \in Services)
<1>1. Init => kind \in Services
  BY DownloadersAssumption DEF Init
<1>2. ASSUME [Next]_vars PROVE kind' = kind
  <2>1. CASE Answer
    BY <2>1 DEF Answer, Apiv2Span, FieldClimateSpan, LiveobjectsPage, LiveobjectsGarbled, MeteoFranceHour,
           MeteoFranceGarbled, RadomeStep, VirtualTarget
  <2>2. CASE Begin
    BY <2>2 DEF Begin, Apiv2Begin, FieldClimateBegin, LiveobjectsBegin, MeteoFranceBegin, RadomeBegin,
           VirtualBegin, BeginLoop
  <2> QED BY <1>2, <2>1, <2>2 DEF Next, Tick, Upload, WeatherlinkDownload, RealTime, RequestFails,
           ReloadStations, Crash, Rebuild, vars
<1>3. kind \in Services /\ [Next]_vars => (kind \in Services)'
  BY <1>2
<1> QED BY <1>1, <1>3, PTL DEF Spec

\* A record up to the time of the last archive download that is in Cassandra is in
\* TimescaleDB too, or was forsaken: whichever database refuses it, and wherever a
\* download stops, weatherlink, liveobjects, meteofrance and virtual ask for it again.
THEOREM TimescaleIsFollowed == Spec => []TimescaleFollows
<1>1. Spec => [](IInv /\ Follows /\ Asks)
  BY Invariant, InitFollows, NextFollows, PTL DEF Spec
<1>2. IInv /\ Follows /\ kind \in Services => TimescaleFollows
  <2> SUFFICES ASSUME IInv, Follows, kind \in Services, kind \notin TimescaleLast,
                      NEW r \in offered, r[2] <= mark, r \in cassandra
               PROVE  r \in timescale \cup forsaken
    BY DEF TimescaleFollows
  <2>1. mark \in Int /\ r[2] \in Int
    BY DEF IInv, Types, Records, Times
  <2>2. kind = "liveobjects" \/ kind = "meteofrance" => r \in timescale \cup forsaken
    BY <2>1 DEF Follows, PagesFollowed, HoursFollowed, Unfollowed
  <2>3. kind = "weatherlink" => r \in timescale
    BY DEF Follows, WeatherlinkFollowed, IInv, Types
  <2>4. kind = "virtual" => r \in timescale \cup forsaken
    BY <2>1 DEF Follows, TargetsFollowed, IInv, TargetsInOrder
  <2> QED BY <2>2, <2>3, <2>4 DEF Services, TimescaleLast
<1> QED BY <1>1, <1>2, KindStays, PTL

\* The mark passes no stored record of the station without the climatology of the station
\* being asked for at its time: the bounds a downloader keeps hold all that it has stored
\* since the last time, spans with a refusal included.  It says nothing of the records of
\* the substations of apiv2, stored under UUIDs that no job is published for, nor of the
\* other exceptions ClimatologyAsked names.
THEOREM ClimatologyIsAsked == Spec => ClimatologyAsked
<1>1. Spec => [](IInv /\ Follows /\ Asks)
  BY Invariant, InitFollows, NextFollows, PTL DEF Spec
<1> QED BY <1>1, NextFollows, PTL DEF Spec, ClimatologyAsked

===============================================================================
