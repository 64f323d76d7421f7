--------------------------- MODULE Services_proofs ---------------------------
(***************************************************************************)
(* Proofs about Services, for any number of commands, faults, records,     *)
(* threads, clients, connections and workers: a stopped service begins     *)
(* nothing, and the imports of the web server keep the promise of          *)
(* PolledArchive, which the downloaders make too.                          *)
(***************************************************************************)
EXTENDS Services, NumberSets

Dated == 1..MaxRecords

-----------------------------------------------------------------------------
(* The invariant                                                            *)

MqttTypes == client \in [Slots -> {"none", "connecting", "connected", "closing"}]

\* A handler is queued for a datagram: it is in the buffer.
UdpTypes ==
    /\ receives \in Nat
    /\ handlers \in Seq({"received", "cancelled"})
    /\ waiting \in Seq(Dated)
    /\ (\E i \in DOMAIN handlers : handlers[i] = "received") => buffer \in Dated

RestTypes ==
    /\ protocol \in {"vp2", "monitorII"} \cup Cimel
    /\ accepts \in Nat
    /\ mark \in 0..sent /\ told \in 0..sent
    /\ protocol = "vp2" => stored \cap Illegible = {}
\* A station posts what comes after the time it was told of: what the mark has
\* passed is in the database or lost, and so is what the station will not post,
\* even when a page without a legible record has set the mark back since.
Behind == \A r \in Everyone : r <= mark \/ r <= told => r \in stored \cup lost

ServerTypes == inSocket \in Seq(Dated) /\ queryBuffer \in Seq(Dated)

Inv ==
    /\ focus \in Kinds
    /\ sent \in 0..MaxRecords
    /\ stored \subseteq Dated
    /\ mark \in Int
    /\ focus = "mqtt" => MqttTypes
    /\ focus = "udp" => UdpTypes
    /\ focus = "rest" => RestTypes /\ Behind
    /\ focus = "server" => ServerTypes

\* What every step does: the service does not change, the station goes on, and
\* what is lost of a posted archive remains so.
Onwards ==
    /\ focus' = focus
    /\ sent <= sent'
    /\ focus = "rest" => lost \subseteq lost'

\* What no step of a stopped service does.
BeginsNothing == stopped /\ stopped' => Begun' \subseteq Begun

Held == Inv' /\ Onwards /\ BeginsNothing

-----------------------------------------------------------------------------
(* MQTT subscribers                                                         *)

\* A step of a subscriber that inserts no record, and begins no connection unless
\* the subscriber runs.
LEMMA MqttQuiet ==
  ASSUME Inv, focus = "mqtt", focus' = focus,
         sent \in Int, sent <= sent', sent' \in 0..MaxRecords, UNCHANGED <<stored, mark>>,
         MqttTypes',
         stopped /\ stopped' => \A c \in Slots : client'[c] = "connecting" => client[c] = "connecting"
  PROVE  Held
BY DEF Held, Inv, Onwards, BeginsNothing, Begun, Kinds

\* The states a client may take in a step.
LEMMA ClientMoves ==
  ASSUME MqttTypes, NEW slot, NEW next \in {"none", "connecting", "connected", "closing"},
         client' = [client EXCEPT ![slot] = next],
         next = "connecting" => client[slot] = "connecting" \/ slot \notin Slots
  PROVE  MqttTypes' /\ \A c \in Slots : client'[c] = "connecting" => client[c] = "connecting"
BY DEF MqttTypes

LEMMA MqttHolds ==
  ASSUME Inv, Mqtt(MqttStep)
  PROVE  Held
<1> USE DEF Mqtt, Focus

<1>1. focus = "mqtt" /\ focus' = focus /\ MqttTypes /\ sent \in 0..MaxRecords /\ MaxRecords \in Nat
  BY ConnectorAssumption DEF Inv
<1>2. ASSUME NEW thread \in Threads, Start(thread) PROVE Held
  <2>1. MqttTypes' /\ ~stopped' /\ UNCHANGED <<sent, stored, mark>>
    BY <1>1, <1>2 DEF Start, Open, MqttTypes, records
  <2> QED BY <1>1, <2>1, MqttQuiet
<1>3. ASSUME NEW thread \in Threads, Reload(thread) PROVE Held
  <2>1. UNCHANGED <<sent, stored, mark, stopped>>
    BY <1>3 DEF Reload, records
  <2>2. PICK old \in AfterDisconnect(client[current]) :
          IF stopped THEN client' = [client EXCEPT ![current] = old] ELSE Open(thread, old)
    BY <1>3 DEF Reload
  <2>3. CASE current \in Slots
    <3>1. /\ old \in {"none", "connecting", "connected", "closing"}
          /\ old = "connecting" => client[current] = "connecting"
      BY <1>1, <2>2, <2>3 DEF AfterDisconnect, MqttTypes
    <3>2. CASE stopped
      <4>1. MqttTypes' /\ \A c \in Slots : client'[c] = "connecting" => client[c] = "connecting"
        BY <1>1, <2>2, <3>1, <3>2, ClientMoves
      <4> QED BY <1>1, <2>1, <4>1, MqttQuiet
    <3>3. CASE ~stopped
      <4>1. MqttTypes'
        BY <1>1, <2>2, <3>1, <3>3 DEF Open, MqttTypes
      <4> QED BY <1>1, <2>1, <3>3, <4>1, MqttQuiet
    <3> QED BY <3>2, <3>3
  <2>4. CASE current \notin Slots
    <3>1. MqttTypes' /\ (stopped => client' = client)
      BY <1>1, <2>2, <2>4 DEF Open, MqttTypes
    <3> QED BY <1>1, <2>1, <3>1, MqttQuiet
  <2> QED BY <2>3, <2>4
<1>4. ASSUME Stop PROVE Held
  <2>1. UNCHANGED <<sent, stored, mark>>
    BY <1>4 DEF Stop, records
  <2>2. PICK old \in AfterDisconnect(client[current]) : client' = [client EXCEPT ![current] = old]
    BY <1>4 DEF Stop
  <2>3. CASE current \in Slots
    <3>1. /\ old \in {"none", "connecting", "connected", "closing"}
          /\ old = "connecting" => client[current] = "connecting"
      BY <1>1, <2>2, <2>3 DEF AfterDisconnect, MqttTypes
    <3>2. MqttTypes' /\ \A c \in Slots : client'[c] = "connecting" => client[c] = "connecting"
      BY <1>1, <2>2, <3>1, ClientMoves
    <3> QED BY <1>1, <2>1, <3>2, MqttQuiet
  <2>4. CASE current \notin Slots
    <3>1. client' = client /\ MqttTypes'
      BY <1>1, <2>2, <2>4 DEF MqttTypes
    <3> QED BY <1>1, <2>1, <3>1, MqttQuiet
  <2> QED BY <2>3, <2>4
<1>5. ASSUME NEW c \in Slots, Gone(c) PROVE Held
  <2>1. UNCHANGED <<sent, stored, mark>>
    BY <1>5 DEF Gone, records
  <2>2. MqttTypes' /\ \A s \in Slots : client'[s] = "connecting" => client[s] = "connecting"
    BY <1>1, <1>5, ClientMoves DEF Gone
  <2> QED BY <1>1, <2>1, <2>2, MqttQuiet
<1>6. ASSUME NEW c \in Slots, Accepted(c) PROVE Held
  <2>1. UNCHANGED <<sent, stored, mark>>
    BY <1>6 DEF Accepted, records
  <2>2. MqttTypes' /\ \A s \in Slots : client'[s] = "connecting" => client[s] = "connecting"
    BY <1>1, <1>6 DEF Accepted, MqttTypes
  <2> QED BY <1>1, <2>1, <2>2, MqttQuiet
<1>7. ASSUME TimerExpires PROVE Held
  <2>1. UNCHANGED <<sent, stored, mark, client>>
    BY <1>7 DEF TimerExpires, records
  <2>2. MqttTypes'
    BY <1>1, <2>1 DEF MqttTypes
  <2> QED BY <1>1, <2>1, <2>2, MqttQuiet
<1>8. ASSUME NEW thread \in Threads, CheckRetryStartDeadline(thread) PROVE Held
  <2>1. UNCHANGED <<sent, stored, mark, stopped>>
    BY <1>8 DEF CheckRetryStartDeadline, records
  <2>2. (client' = client \/ (~stopped /\ Open(thread, client[current])))
    BY <1>8 DEF CheckRetryStartDeadline, Restart
  <2>3. MqttTypes'
    <3>1. CASE client' = client
      BY <1>1, <3>1 DEF MqttTypes
    <3>2. CASE Open(thread, client[current])
      BY <1>1, <3>2 DEF MqttTypes, Open
    <3> QED BY <2>2, <3>1, <3>2
  <2> QED BY <1>1, <2>1, <2>2, <2>3, MqttQuiet
<1>9. ASSUME Publish PROVE Held
  <2>1. UNCHANGED <<stored, mark, client>> /\ sent <= sent' /\ sent' \in 0..MaxRecords
    BY <1>1, <1>9 DEF Publish
  <2>2. MqttTypes'
    BY <1>1, <2>1 DEF MqttTypes
  <2> QED BY <1>1, <2>1, <2>2, MqttQuiet
<1>10. ASSUME NEW r \in Everyone, Receive(r) PROVE Held
  <2>1. UNCHANGED <<sent, client, stopped>>
    BY <1>10 DEF Receive, HandlePublish
  <2>2. r \in Dated
    BY <1>1 DEF Everyone, Dated
  <2>3. stored' \subseteq Dated /\ mark' \in Int
    <3>1. stored' \in {stored, stored \cup {r}} /\ mark' \in {mark, r}
      BY <1>10 DEF Receive, HandlePublish, ProcessArchive, ProcessVp2Archive, ProcessGenericArchive,
           ProcessChirpstackArchive, ProcessLiveobjectsArchive, Unknown, Discarded, Inserted, GivenUp
    <3> QED BY <2>2, <3>1, <1>1 DEF Inv, Dated
  <2>4. MqttTypes'
    BY <1>1, <2>1 DEF MqttTypes
  <2> QED BY <1>1, <2>1, <2>3, <2>4 DEF Held, Inv, Onwards, BeginsNothing, Begun, Kinds
<1>11. ASSUME Exit PROVE Held
  <2>1. UNCHANGED <<sent, stored, mark>> /\ ~stopped' /\ MqttTypes'
    BY <1>11 DEF Exit, records, MqttTypes
  <2> QED BY <1>1, <2>1, MqttQuiet
<1> QED
  BY <1>2, <1>3, <1>4, <1>5, <1>6, <1>7, <1>8, <1>9, <1>10, <1>11
  DEF MqttStep, Lost, Closed, AcceptedByBroker, ClosedByBroker, Retry

-----------------------------------------------------------------------------
(* The UDP server                                                           *)

LEMMA UdpMoves ==
  ASSUME Inv, focus = "udp", focus' = focus, sent \in Int, sent <= sent', sent' \in 0..MaxRecords,
         stored' \subseteq Dated, mark' \in Int, UdpTypes', receives \in Nat,
         stopped /\ stopped' => receives' <= receives
  PROVE  Held
<1>1. BeginsNothing
  <2>1. receives' \in Nat
    BY DEF UdpTypes
  <2> QED BY <2>1 DEF BeginsNothing, Begun
<1> QED BY <1>1 DEF Held, Inv, Onwards, Kinds

\* Closing cancels the receives: no handler of a datagram comes with them.
LEMMA ClosingTypes ==
  ASSUME UdpTypes, CloseUdp, buffer' = buffer, receives' \in Nat
  PROVE  UdpTypes'
<1> DEFINE cancelled == [i \in 1..receives |-> "cancelled"]
<1>1. cancelled \in Seq({"received", "cancelled"}) /\ Len(cancelled) = receives
  BY DEF UdpTypes
<1>2. \A i \in 1..receives : cancelled[i] = "cancelled"
  OBVIOUS
<1>3. handlers' = handlers \o cancelled /\ waiting' = <<>>
  BY DEF CloseUdp
<1>4. handlers' \in Seq({"received", "cancelled"})
  <2> HIDE DEF cancelled
  <2> QED BY <1>1, <1>3 DEF UdpTypes
<1>5. \A i \in DOMAIN handlers' :
        handlers'[i] = "received" => i \in DOMAIN handlers /\ handlers[i] = "received"
  <2> SUFFICES ASSUME NEW i \in DOMAIN handlers', handlers'[i] = "received"
               PROVE  i \in DOMAIN handlers /\ handlers[i] = "received"
    OBVIOUS
  <2> HIDE DEF cancelled
  <2>1. i \in 1..Len(handlers) + Len(cancelled) /\ Len(handlers) \in Nat
    BY <1>1, <1>3 DEF UdpTypes
  <2>2. CASE i <= Len(handlers)
    BY <1>1, <1>3, <2>1, <2>2 DEF UdpTypes
  <2>3. CASE i > Len(handlers)
    <3>1. handlers'[i] = cancelled[i - Len(handlers)] /\ i - Len(handlers) \in 1..receives
      BY <1>1, <1>3, <2>1, <2>3 DEF UdpTypes
    <3> QED BY <1>2, <3>1
  <2> QED BY <2>1, <2>2, <2>3
<1>6. waiting' \in Seq(Dated)
  BY <1>3
<1> QED BY <1>4, <1>5, <1>6 DEF UdpTypes

\* What a datagram's handler does to the database.
LEMMA ProcessKeepsDates ==
  ASSUME stored \subseteq Dated, mark \in Int, NEW datagram \in Dated, NEW lostBefore,
         Process(datagram, lostBefore)
  PROVE  stored' \subseteq Dated /\ mark' \in Int
<1>1. UNCHANGED <<stored, mark>> \/ (stored' = stored \cup {datagram} /\ mark' = datagram)
  BY DEF Process
<1>2. datagram \in Int
  BY ConnectorAssumption DEF Dated
<1> QED BY <1>1, <1>2

LEMMA UdpHolds ==
  ASSUME Inv, Udp(UdpStep)
  PROVE  Held
<1> USE DEF Udp, Focus
<1>1. /\ focus = "udp" /\ focus' = focus /\ UdpTypes
      /\ sent \in 0..MaxRecords /\ MaxRecords \in Nat
      /\ stored \subseteq Dated /\ mark \in Int /\ receives \in Nat
  BY ConnectorAssumption DEF Inv, UdpTypes
<1>2. ASSUME StartUdp PROVE Held
  <2>1. UNCHANGED <<sent, stored, mark, handlers, buffer, waiting>> /\ ~stopped' /\ receives' \in Nat
    BY <1>1, <1>2 DEF StartUdp, records
  <2>2. UdpTypes'
    BY <1>1, <2>1 DEF UdpTypes
  <2> QED BY <1>1, <2>1, <2>2, UdpMoves
<1>3. ASSUME StopUdp \/ ReloadUdp PROVE Held
  <2>1. UNCHANGED <<sent, stored, mark, buffer>> /\ receives' \in {0, 1} /\ (stopped' => receives' = 0)
    BY <1>3 DEF StopUdp, ReloadUdp
  <2>2. CloseUdp \/ UNCHANGED <<handlers, waiting>>
    BY <1>3 DEF StopUdp, ReloadUdp
  <2>3. UdpTypes'
    <3>1. CASE CloseUdp
      BY <1>1, <2>1, <3>1, ClosingTypes
    <3>2. CASE UNCHANGED <<handlers, waiting>>
      BY <1>1, <2>1, <3>2 DEF UdpTypes
    <3> QED BY <2>2, <3>1, <3>2
  <2> QED BY <1>1, <2>1, <2>3, UdpMoves
<1>4. ASSUME ExitUdp PROVE Held
  <2>1. /\ UNCHANGED <<sent, stored, mark>> /\ ~stopped' /\ receives' = 1
        /\ handlers' = <<>> /\ waiting' = <<>>
    BY <1>4 DEF ExitUdp
  <2>2. UdpTypes'
    BY <2>1 DEF UdpTypes
  <2> QED BY <1>1, <2>1, <2>2, UdpMoves
<1>5. ASSUME Datagram PROVE Held
  <2>1. /\ UNCHANGED <<stored, mark, receives, handlers, buffer>>
        /\ sent' = sent + 1 /\ sent' \in Dated
        /\ waiting' \in {waiting, Append(waiting, sent')}
    BY <1>1, <1>5 DEF Datagram, Dated
  <2>2. waiting' \in Seq(Dated)
    BY <1>1, <2>1 DEF UdpTypes
  <2>3. UdpTypes'
    BY <1>1, <2>1, <2>2 DEF UdpTypes
  <2> QED BY <1>1, <2>1, <2>3, UdpMoves DEF Dated
<1>6. ASSUME Received PROVE Held
  <2>1. /\ UNCHANGED <<sent, stored, mark>>
        /\ receives' = receives - 1 /\ receives' \in Nat
        /\ waiting # <<>> /\ buffer' = Head(waiting) /\ waiting' = Tail(waiting)
        /\ handlers' = Append(handlers, "received")
    BY <1>1, <1>6 DEF Received
  <2>2. waiting' \in Seq(Dated) /\ buffer' \in Dated /\ handlers' \in Seq({"received", "cancelled"})
    BY <1>1, <2>1 DEF UdpTypes
  <2>3. UdpTypes'
    BY <2>1, <2>2 DEF UdpTypes
  <2> QED BY <1>1, <2>1, <2>3, UdpMoves
<1>7. ASSUME HandleReceive PROVE Held
  <2>1. /\ UNCHANGED sent /\ stopped' = stopped
        /\ handlers # <<>>
        /\ \/ /\ handlers' = Tail(handlers) /\ UNCHANGED <<buffer, waiting>>
           \/ /\ handlers' = Append(Tail(handlers), "received")
              /\ waiting # <<>> /\ buffer' = Head(waiting) /\ waiting' = Tail(waiting)
        /\ receives' \in {receives, receives + 1} /\ (stopped => receives' = receives)
    BY <1>7 DEF HandleReceive
  <2>2. /\ Tail(handlers) \in Seq({"received", "cancelled"})
        /\ \A i \in DOMAIN Tail(handlers) : i + 1 \in DOMAIN handlers /\ Tail(handlers)[i] = handlers[i + 1]
        /\ 1 \in DOMAIN handlers /\ Head(handlers) = handlers[1]
    BY <1>1, <2>1 DEF UdpTypes
  <2>3. UdpTypes' /\ (buffer' \in Dated \/ Head(handlers) # "received")
    <3>1. CASE handlers' = Tail(handlers) /\ UNCHANGED <<buffer, waiting>>
      BY <1>1, <2>1, <2>2, <3>1 DEF UdpTypes
    <3>2. CASE /\ handlers' = Append(Tail(handlers), "received")
               /\ waiting # <<>> /\ buffer' = Head(waiting) /\ waiting' = Tail(waiting)
      <4>1. waiting' \in Seq(Dated) /\ buffer' \in Dated /\ handlers' \in Seq({"received", "cancelled"})
        BY <1>1, <2>2, <3>2 DEF UdpTypes
      <4>2. receives' \in Nat
        BY <1>1, <2>1
      <4> QED BY <4>1, <4>2 DEF UdpTypes
    <3> QED BY <2>1, <3>1, <3>2
  <2>4. stored' \subseteq Dated /\ mark' \in Int
    <3>1. \/ UNCHANGED <<stored, mark>>
          \/ Head(handlers) = "received" /\ \E lostBefore : Process(buffer', lostBefore)
      BY <1>7 DEF HandleReceive
    <3> QED BY <1>1, <2>3, <3>1, ProcessKeepsDates
  <2> QED BY <1>1, <2>1, <2>3, <2>4, UdpMoves
<1> QED BY <1>2, <1>3, <1>4, <1>5, <1>6, <1>7 DEF UdpStep

-----------------------------------------------------------------------------
(* The web server and its imports                                           *)

\* Whatever becomes of it, the archive posted is kept: nothing that the mark has
\* passed, or that the station does not post again, goes missing.
Kept ==
    /\ stored' \subseteq Dated
    /\ mark' \in 0..sent
    /\ lost \subseteq lost'
    /\ protocol = "vp2" => stored' \cap Illegible = {}
    /\ \A r \in Everyone : r <= mark' \/ r <= told => r \in stored' \cup lost'

Page == {r \in Everyone : r > told}

\* The newest record of a part of the page.
LEMMA LatestOfPage ==
  ASSUME sent \in Nat, NEW page, page \subseteq Everyone
  PROVE  Latest(page) \in 0..sent
<1>1. page \cup {0} \subseteq 0..sent /\ page \cup {0} # {}
  BY DEF Everyone
<1>2. PICK m \in page \cup {0} : \A n \in page \cup {0} : n <= m
  BY <1>1, GreatestNumber
<1>3. \A n \in page \cup {0} : m >= n
  BY <1>1, <1>2
<1>4. Latest(page) \in page \cup {0}
  BY <1>3 DEF Latest, Max
<1> QED BY <1>1, <1>4

\* The whole page is in the database, or lost: so is all the station has made.
LEMMA WholePageKept ==
  ASSUME RestTypes, Behind, sent \in Nat, stored' \subseteq Dated, mark' \in 0..sent,
         lost \subseteq lost', protocol = "vp2" => stored' \cap Illegible = {},
         \A r \in Everyone \ Page : r \in stored => r \in stored',
         \A r \in Page : r \in stored' \cup lost'
  PROVE  Kept
<1>1. ASSUME NEW r \in Everyone \ Page PROVE r \in stored' \cup lost'
  <2>1. r <= told
    BY DEF Page, Everyone, RestTypes
  <2> QED BY <2>1 DEF Behind
<1> QED BY <1>1 DEF Kept

\* The mark does not move: nothing it has passed is taken away.
LEMMA MarkStays ==
  ASSUME RestTypes, Behind, mark' = mark, stored' \subseteq Dated,
         lost \subseteq lost', protocol = "vp2" => stored' \cap Illegible = {},
         \A r \in stored : r <= mark \/ r <= told => r \in stored' \cup lost'
  PROVE  Kept
BY DEF Kept, Behind, RestTypes

LEMMA Vp2Kept ==
  ASSUME RestTypes, Behind, sent \in 0..MaxRecords, stored \subseteq Dated, protocol = "vp2", PostVp2(Page)
  PROVE  Kept
<1> DEFINE legible == Page \ Illegible
           taken == stored \ Span(legible)
<1>1. sent \in Nat /\ MaxRecords \in Nat /\ Everyone \subseteq Dated
  BY ConnectorAssumption DEF Everyone, Dated
<1>2. Page \subseteq Everyone /\ legible \subseteq Everyone /\ stored \cap Illegible = {}
  BY DEF Page, RestTypes
<1>3. Span(legible) \subseteq Page
  BY <1>1 DEF Span, Page, Everyone, RestTypes
<1>4. CASE Imported(taken \cup legible, Page \cap Illegible, Latest(legible))
  <2>1. stored' = taken \cup legible /\ lost' = lost \cup (Page \cap Illegible) /\ mark' \in {mark, Latest(legible)}
    BY <1>4 DEF Imported
  <2>2. mark' \in 0..sent
    <3> HIDE DEF legible, taken
    <3> QED BY <1>1, <1>2, <2>1, LatestOfPage DEF RestTypes
  <2>3. stored' \subseteq Dated /\ stored' \cap Illegible = {}
    BY <1>1, <1>2, <2>1
  <2>4. \A r \in Everyone \ Page : r \in stored => r \in stored'
    BY <1>3, <2>1
  <2>5. \A r \in Page : r \in stored' \cup lost'
    BY <2>1
  <2> QED BY <1>1, <2>1, <2>2, <2>3, <2>4, <2>5, WholePageKept
<1>5. CASE Refused(stored, {})
  BY <1>2, <1>5, MarkStays DEF Refused
<1>6. CASE Refused(taken \cup legible, {})
  <2>1. stored' = taken \cup legible /\ lost' = lost /\ mark' = mark
    BY <1>6 DEF Refused
  <2>2. stored' \subseteq Dated /\ stored' \cap Illegible = {}
    BY <1>1, <1>2, <2>1
  <2>3. \A r \in stored : r \in stored'
    BY <1>2, <1>3, <2>1
  <2> QED BY <2>1, <2>2, <2>3, MarkStays
<1>7. ASSUME NEW refused \in legible,
             LET inserted == {r \in legible : r < refused}
             IN Refused(taken \cup inserted, {r \in stored \cap Span(legible) : r <= mark} \ inserted)
      PROVE  Kept
  <2> DEFINE inserted == {r \in legible : r < refused}
  <2>1. /\ stored' = taken \cup inserted /\ mark' = mark
        /\ lost' = lost \cup ({r \in stored \cap Span(legible) : r <= mark} \ inserted)
    BY <1>7 DEF Refused
  <2>2. stored' \subseteq Dated /\ stored' \cap Illegible = {}
    BY <1>1, <1>2, <2>1
  <2>3. ASSUME NEW r \in stored, r <= mark \/ r <= told PROVE r \in stored' \cup lost'
    <3>1. CASE r \in Span(legible)
      <4>1. r <= mark
        <5>1. r > told /\ r \in Int /\ told \in Int
          BY <1>1, <1>3, <3>1 DEF Page, Everyone, RestTypes
        <5> QED BY <2>3, <5>1
      <4> QED BY <2>1, <3>1, <4>1
    <3>2. CASE r \notin Span(legible)
      BY <2>1, <3>2
    <3> QED BY <3>1, <3>2
  <2> QED BY <2>1, <2>2, <2>3, MarkStays
<1> QED BY <1>4, <1>5, <1>6, <1>7 DEF PostVp2

LEMMA MonitorIIKept ==
  ASSUME RestTypes, Behind, sent \in 0..MaxRecords, stored \subseteq Dated, protocol = "monitorII",
         PostMonitorII(Page)
  PROVE  Kept
<1> DEFINE legible == Page \ Illegible
<1>1. sent \in Nat /\ Page \subseteq Dated /\ legible \subseteq Everyone
  BY ConnectorAssumption DEF Everyone, Dated, Page
<1>2. CASE Imported(stored \cup legible, Page \cap Illegible,
                    IF legible = {} THEN mark ELSE Latest(legible))
  <2>1. /\ stored' = stored \cup legible /\ lost' = lost \cup (Page \cap Illegible)
        /\ mark' \in {mark, Latest(legible)}
    BY <1>2 DEF Imported
  <2>2. mark' \in 0..sent
    <3> HIDE DEF legible
    <3> QED BY <1>1, <2>1, LatestOfPage DEF RestTypes
  <2> QED BY <1>1, <2>1, <2>2, WholePageKept
<1>3. CASE Refused(stored \cup legible, {})
  BY <1>1, <1>3, MarkStays DEF Refused
<1>4. CASE \E refused \in legible : Refused(stored \cup {r \in legible : r < refused}, {})
  BY <1>1, <1>4, MarkStays DEF Refused
<1> QED BY <1>2, <1>3, <1>4 DEF PostMonitorII

LEMMA CimelKept ==
  ASSUME RestTypes, Behind, sent \in 0..MaxRecords, stored \subseteq Dated, protocol \in Cimel,
         PostCimel(Page)
  PROVE  Kept
<1> DEFINE garbage == Page \cap Illegible
           read == {r \in Page : \A g \in garbage : r < g}
           skipped(refused) == IF protocol = "4A" THEN {r \in read : r >= refused /\ SameDay(r, refused)}
                               ELSE {refused}
<1>1. /\ sent \in Nat /\ Page \subseteq Dated /\ Page \subseteq Everyone /\ read \subseteq Everyone
      /\ protocol # "vp2"
  BY ConnectorAssumption DEF Everyone, Dated, Page, Cimel
<1>2. CASE garbage # {}
  BY <1>1, <1>2, MarkStays DEF Refused, PostCimel
<1>3. CASE garbage = {} /\ Imported(stored \cup Page, {}, Latest(Page))
  <2>1. stored' = stored \cup Page /\ lost' = lost /\ mark' \in {mark, Latest(Page)}
    BY <1>3 DEF Imported
  <2>2. mark' \in 0..sent
    BY <1>1, <2>1, LatestOfPage DEF RestTypes
  <2> QED BY <1>1, <2>1, <2>2, WholePageKept
<1>4. ASSUME garbage = {}, NEW refused \in Page,
             /\ stored' = stored \cup (Page \ skipped(refused))
             /\ lost' = lost \cup skipped(refused)
             /\ mark' = Latest(read)
      PROVE  Kept
  <2>1. mark' \in 0..sent
    <3> HIDE DEF read
    <3> QED BY <1>1, <1>4, LatestOfPage
  <2>2. /\ stored' \subseteq Dated /\ lost \subseteq lost' /\ \A r \in stored : r \in stored'
        /\ \A r \in Page : r \in stored' \cup lost'
    <3> HIDE DEF read, skipped
    <3> QED BY <1>1, <1>4
  <2> QED BY <1>1, <2>1, <2>2, WholePageKept
<1> QED BY <1>2, <1>3, <1>4 DEF PostCimel

LEMMA RestMoves ==
  ASSUME Inv, focus = "rest", focus' = focus, sent \in Int, sent <= sent', sent' \in 0..MaxRecords,
         stored' \subseteq Dated, RestTypes', Behind', lost \subseteq lost', accepts \in Nat,
         stopped /\ stopped' => accepts' <= accepts
  PROVE  Held
<1>1. BeginsNothing
  <2>1. accepts' \in Nat
    BY DEF RestTypes
  <2> QED BY <2>1 DEF BeginsNothing, Begun
<1>2. mark' \in Int
  BY DEF RestTypes
<1> QED BY <1>1, <1>2 DEF Held, Inv, Onwards, Kinds

\* A step that has nothing to do with the imports.
LEMMA RestIdle ==
  ASSUME Inv, focus = "rest", focus' = focus, UNCHANGED <<records, importVars>>,
         accepts' \in Nat, stopped /\ stopped' => accepts' <= accepts
  PROVE  Held
<1>1. /\ RestTypes /\ Behind /\ sent \in 0..MaxRecords /\ MaxRecords \in Nat /\ sent \in Int
      /\ stored \subseteq Dated /\ accepts \in Nat
  BY ConnectorAssumption DEF Inv, RestTypes
<1>2. UNCHANGED <<sent, stored, lost, mark, protocol, told>>
  BY DEF records, importVars
<1>3. RestTypes' /\ Behind'
  BY <1>1, <1>2 DEF RestTypes, Behind, Everyone
<1> QED BY <1>1, <1>2, <1>3, RestMoves

LEMMA RestHolds ==
  ASSUME Inv, Rest(RestStep)
  PROVE  Held
<1> USE DEF Rest, Focus
<1>1. /\ focus = "rest" /\ focus' = focus /\ RestTypes /\ Behind
      /\ sent \in 0..MaxRecords /\ MaxRecords \in Nat /\ sent \in Int
      /\ stored \subseteq Dated /\ accepts \in Nat
  BY ConnectorAssumption DEF Inv, RestTypes
<1>2. ASSUME StartRest PROVE Held
  <2>1. UNCHANGED <<records, importVars>> /\ ~stopped' /\ accepts' \in Nat
    BY <1>1, <1>2 DEF StartRest, Accept
  <2> QED BY <1>1, <2>1, RestIdle
<1>3. ASSUME StopRest PROVE Held
  <2>1. UNCHANGED <<records, importVars>> /\ accepts' = 0
    BY <1>3 DEF StopRest
  <2> QED BY <1>1, <2>1, RestIdle
<1>4. ASSUME ReloadRest PROVE Held
  <2>1. UNCHANGED <<records, importVars, accepts>>
    BY <1>4 DEF ReloadRest, restVars
  <2> QED BY <1>1, <2>1, RestIdle
<1>5. ASSUME Aborted PROVE Held
  <2>1. UNCHANGED <<records, importVars>> /\ accepts' \in Nat /\ (stopped => accepts' = accepts)
    BY <1>1, <1>5 DEF Aborted
  <2> QED BY <1>1, <2>1, RestIdle
<1>6. ASSUME NEW c \in Connections, Connect(c) PROVE Held
  <2>1. UNCHANGED <<records, importVars>> /\ accepts' \in Nat /\ accepts' <= accepts
    BY <1>1, <1>6 DEF Connect
  <2> QED BY <1>1, <2>1, RestIdle
<1>7. ASSUME NEW c \in Connections, ServeHttpConnection(c) PROVE Held
  <2>1. UNCHANGED <<records, importVars>> /\ accepts' \in Nat /\ (stopped => accepts' = accepts)
    BY <1>1, <1>7 DEF ServeHttpConnection, Serve, Accept
  <2> QED BY <1>1, <2>1, RestIdle
<1>8. ASSUME NEW c \in Connections, Written(c) \/ CheckDeadline(c) \/ ReadFails(c) \/ Expires(c)
      PROVE  Held
  <2>1. UNCHANGED <<records, importVars, accepts>>
    BY <1>8 DEF Written, CheckDeadline, ReadFails, Expires
  <2> QED BY <1>1, <2>1, RestIdle
<1>9. ASSUME NEW c \in Connections, ProcessRequest(c, OtherRequest) PROVE Held
  <2>1. UNCHANGED <<records, importVars, accepts>>
    BY <1>9 DEF ProcessRequest, OtherRequest, importVars
  <2> QED BY <1>1, <2>1, RestIdle
<1>10. ASSUME NEW c \in Connections, ProcessRequest(c, GetLastArchive) PROVE Held
  <2>1. UNCHANGED <<sent, stored, lost, mark, protocol, accepts>> /\ told' = mark
    BY <1>10 DEF ProcessRequest, GetLastArchive, records
  <2>2. RestTypes'
    BY <1>1, <2>1 DEF RestTypes
  <2>3. Behind'
    BY <1>1, <2>1 DEF Behind, Everyone
  <2> QED BY <1>1, <2>1, <2>2, <2>3, RestMoves
<1>11. ASSUME NEW c \in Connections, ProcessRequest(c, PostArchive) PROVE Held
  <2>1. UNCHANGED <<sent, told, protocol, accepts>>
    BY <1>11 DEF ProcessRequest, PostArchive
  <2>2. Kept
    <3>1. \/ protocol = "vp2" /\ PostVp2(Page)
          \/ protocol = "monitorII" /\ PostMonitorII(Page)
          \/ protocol \in Cimel /\ PostCimel(Page)
      BY <1>11 DEF ProcessRequest, PostArchive, Page
    <3> QED BY <1>1, <3>1, Vp2Kept, MonitorIIKept, CimelKept
  <2>3. RestTypes'
    BY <1>1, <2>1, <2>2 DEF RestTypes, Kept
  <2>4. Behind'
    BY <2>1, <2>2 DEF Behind, Kept, Everyone
  <2> QED BY <1>1, <2>1, <2>2, <2>3, <2>4, RestMoves DEF Kept
<1>12. ASSUME MeasureRest PROVE Held
  <2>1. /\ UNCHANGED <<stored, lost, mark, told, protocol, accepts>>
        /\ sent' = sent + 1 /\ sent' \in 0..MaxRecords
    BY <1>1, <1>12 DEF MeasureRest, Measure
  <2>2. RestTypes'
    BY <1>1, <2>1 DEF RestTypes
  <2>3. ASSUME NEW r \in 1..sent', r <= mark \/ r <= told PROVE r \in stored \cup lost
    <3>1. r \in Everyone
      BY <1>1, <2>1, <2>3 DEF Everyone, RestTypes
    <3> QED BY <1>1, <2>3, <3>1 DEF Behind
  <2>4. Behind'
    BY <2>1, <2>3 DEF Behind, Everyone
  <2> QED BY <1>1, <2>1, <2>2, <2>4, RestMoves
<1>13. ASSUME ExitRest PROVE Held
  <2>1. UNCHANGED <<records, importVars>> /\ ~stopped' /\ accepts' = 1
    BY <1>13 DEF ExitRest
  <2> QED BY <1>1, <2>1, RestIdle
<1> QED
  BY <1>2, <1>3, <1>4, <1>5, <1>6, <1>7, <1>8, <1>9, <1>10, <1>11, <1>12, <1>13
  DEF RestStep, EventLoop, Posts, Asks

-----------------------------------------------------------------------------
(* The server                                                               *)

LEMMA ServerMoves ==
  ASSUME Inv, focus = "server", focus' = focus, sent \in Int, sent <= sent', sent' \in 0..MaxRecords,
         stored' \subseteq Dated, mark' = mark, ServerTypes',
         stopped /\ stopped' => accepting' \subseteq accepting
  PROVE  Held
BY DEF Held, Inv, Onwards, BeginsNothing, Begun, Kinds

\* A step that leaves the control socket's queries where they are.
LEMMA ServerIdle ==
  ASSUME Inv, focus = "server", focus' = focus, UNCHANGED <<sent, stored, mark, inSocket, queryBuffer>>,
         stopped /\ stopped' => accepting' \subseteq accepting
  PROVE  Held
<1>1. /\ ServerTypes /\ sent \in 0..MaxRecords /\ MaxRecords \in Nat /\ sent \in Int
      /\ stored \subseteq Dated
  BY ConnectorAssumption DEF Inv
<1>2. ServerTypes'
  BY <1>1 DEF ServerTypes
<1> QED BY <1>1, <1>2, ServerMoves

\* The handlers of the control socket answer queries, or throw them away.
LEMMA ControlTypes ==
  ASSUME ServerTypes, stored \subseteq Dated, ControlHandlers
  PROVE  ServerTypes' /\ stored' \subseteq Dated /\ sent' = sent
<1>1. ASSUME state = "WAITING_COMMAND", queryBuffer # <<>>, AnswerQuery, sent' = sent
      PROVE  ServerTypes' /\ stored' \subseteq Dated
  <2>1. /\ stored' = stored \cup {Head(queryBuffer)} /\ inSocket' = inSocket
        /\ queryBuffer' = SubSeq(queryBuffer, 3, Len(queryBuffer))
    BY <1>1 DEF AnswerQuery
  <2>2. Head(queryBuffer) \in Dated
    BY <1>1 DEF ServerTypes
  <2>3. queryBuffer' \in Seq(Dated)
    BY <2>1 DEF ServerTypes
  <2> QED BY <2>1, <2>2, <2>3 DEF ServerTypes
<1>2. ASSUME inSocket' \in {inSocket, <<>>}, queryBuffer' \in {queryBuffer, <<>>}, stored' = stored
      PROVE  ServerTypes' /\ stored' \subseteq Dated
  <2>1. <<>> \in Seq(Dated)
    OBVIOUS
  <2> QED BY <1>2, <2>1 DEF ServerTypes
<1>3. ASSUME Success, sent' = sent PROVE ServerTypes' /\ stored' \subseteq Dated
  <2>1. \/ state = "WAITING_COMMAND" /\ queryBuffer # <<>> /\ AnswerQuery
        \/ UNCHANGED <<inSocket, stored>> /\ queryBuffer' \in {queryBuffer, <<>>}
    BY <1>3 DEF Success
  <2> QED BY <1>1, <1>2, <1>3, <2>1
<1>4. ASSUME Deadline PROVE ServerTypes' /\ stored' \subseteq Dated /\ sent' = sent
  <2>1. /\ UNCHANGED <<sent, stored>>
        /\ inSocket' \in {inSocket, <<>>} /\ queryBuffer' \in {queryBuffer, <<>>}
    BY <1>4 DEF Deadline, StopControl
  <2> QED BY <1>2, <2>1
<1>5. ASSUME Flush PROVE ServerTypes' /\ stored' \subseteq Dated /\ sent' = sent
  BY <1>5 DEF Flush, ServerTypes
<1> QED BY <1>3, <1>4, <1>5 DEF ControlHandlers, HandleQuery, AnswerSent

LEMMA ServerHolds ==
  ASSUME Inv, Server(ServerStep)
  PROVE  Held
<1> USE DEF Server, Focus
<1>1. /\ focus = "server" /\ focus' = focus /\ ServerTypes
      /\ sent \in 0..MaxRecords /\ MaxRecords \in Nat /\ sent \in Int
      /\ stored \subseteq Dated
  BY ConnectorAssumption DEF Inv
<1>2. ASSUME PollSignal PROVE Held
  <2>1. UNCHANGED <<sent, stored, mark, inSocket, queryBuffer>> /\ accepting' = {}
    BY <1>2 DEF PollSignal, StopServer, records, controlVars
  <2> QED BY <1>1, <2>1, ServerIdle
<1>9. ASSUME OtherControl PROVE Held
  <2>1. /\ UNCHANGED <<sent, stored, mark, inSocket, queryBuffer>>
        /\ accepting' = {} \/ accepting' = accepting
    BY <1>9 DEF OtherControl, Shutdown, StopServer, records, controlVars
  <2> QED BY <1>1, <2>1, ServerIdle
<1>3. ASSUME ControlSocket PROVE Held
  <2>1. ControlHandlers /\ UNCHANGED mark /\ accepting' \in {accepting, {}}
    BY <1>3 DEF ControlSocket, Shutdown, StopServer
  <2>2. ServerTypes' /\ stored' \subseteq Dated /\ sent' = sent
    BY <1>1, <2>1, ControlTypes
  <2> QED BY <1>1, <2>1, <2>2, ServerMoves
<1>4. ASSUME ControlOutside PROVE Held
  <2>1. UNCHANGED <<mark, accepting>>
    BY <1>4 DEF ControlOutside, network
  <2>2. CASE ReceiveQuery
    <3>1. UNCHANGED <<sent, stored>> /\ queryBuffer' = queryBuffer \o inSocket /\ inSocket' = <<>>
      BY <2>2 DEF ReceiveQuery
    <3>2. ServerTypes'
      BY <1>1, <3>1 DEF ServerTypes
    <3> QED BY <1>1, <2>1, <3>1, <3>2, ServerMoves
  <2>3. CASE Expire
    BY <1>1, <2>1, <2>3, ServerIdle DEF Expire
  <2>4. CASE Ask
    <3>1. /\ sent' = sent + 1 /\ sent' \in Dated /\ UNCHANGED <<stored, queryBuffer>>
          /\ inSocket' = Append(inSocket, sent')
      BY <1>1, <2>4 DEF Ask, Dated
    <3>2. ServerTypes'
      BY <1>1, <3>1 DEF ServerTypes
    <3> QED BY <1>1, <2>1, <3>1, <3>2, ServerMoves DEF Dated
  <2>5. CASE Leave
    <3>1. UNCHANGED <<sent, stored>> /\ inSocket' = <<>> /\ queryBuffer' = <<>>
      BY <2>5 DEF Leave, StopControl
    <3>2. ServerTypes'
      BY <3>1 DEF ServerTypes
    <3> QED BY <1>1, <2>1, <3>1, <3>2, ServerMoves
  <2> QED BY <1>4, <2>2, <2>3, <2>4, <2>5 DEF ControlOutside, ControlEvents, ControlClient
<1>5. ASSUME NEW acceptor \in Acceptors, Connection(acceptor) PROVE Held
  <2>1. UNCHANGED <<sent, stored, mark, inSocket, queryBuffer>> /\ accepting' \subseteq accepting
    BY <1>5 DEF Connection, records, controlVars
  <2> QED BY <1>1, <2>1, ServerIdle
<1>6. ASSUME NEW acceptor \in Acceptors, RunNewConnector(acceptor) PROVE Held
  <2>1. /\ UNCHANGED <<sent, stored, mark, inSocket, queryBuffer>>
        /\ stopped => accepting' = accepting
    BY <1>6 DEF RunNewConnector, records
  <2> QED BY <1>1, <2>1, ServerIdle
<1>7. ASSUME StationLeaves \/ DownloadBegins \/ DownloadEnds \/ WatchdogExpires \/ Notify \/ RunReturns
      PROVE  Held
  <2>1. UNCHANGED <<sent, stored, mark, inSocket, queryBuffer, accepting>>
    BY <1>7 DEF StationLeaves, DownloadBegins, DownloadEnds, WatchdogExpires, Notify, RunReturns,
         records, controlVars, network
  <2> QED BY <1>1, <2>1, ServerIdle
<1>8. ASSUME ExitServer \/ SystemdAborts PROVE Held
  <2>1. UNCHANGED <<sent, stored, mark>> /\ ~stopped' /\ inSocket' = <<>> /\ queryBuffer' = <<>>
    BY <1>8 DEF ExitServer, SystemdAborts, RestartServer, NoControl
  <2>2. ServerTypes'
    BY <2>1 DEF ServerTypes
  <2> QED BY <1>1, <2>1, <2>2, ServerMoves
<1> QED
  BY <1>2, <1>3, <1>4, <1>5, <1>6, <1>7, <1>8, <1>9 DEF ServerStep, Handlers, NewConnector

-----------------------------------------------------------------------------
(* The theorems                                                             *)

LEMMA InitInv == Init => Inv
<1> SUFFICES ASSUME Init PROVE Inv
  OBVIOUS
<1>1. /\ focus \in Kinds /\ sent = 0 /\ stored = {} /\ mark = 0
  BY DEF Init, ConnectorInit
<1>2. MqttTypes
  BY DEF Init, MqttInit, MqttTypes
<1>3. UdpTypes
  BY DEF Init, UdpInit, UdpTypes
<1>4. RestTypes /\ Behind
  BY <1>1 DEF Init, RestInit, ImportInit, RestTypes, Behind, Everyone
<1>5. ServerTypes
  BY DEF Init, ServerInit, ControlInit, ServerTypes
<1> QED BY <1>1, <1>2, <1>3, <1>4, <1>5, ConnectorAssumption DEF Inv

LEMMA NextHolds ==
  ASSUME Inv, [Next]_vars
  PROVE  Held
<1>1. CASE Next
  BY <1>1, MqttHolds, UdpHolds, RestHolds, ServerHolds DEF Next
<1>2. CASE UNCHANGED vars
  <2>1. UNCHANGED <<focus, stopped, sent, stored, lost, mark, client, receives, handlers, buffer,
                    waiting, protocol, told, accepts, inSocket, queryBuffer, accepting>>
    BY <1>2 DEF vars, connectorVars, mqttVars, udpVars, restVars, importVars, serverVars, controlVars,
      network
  <2>2. (MqttTypes => MqttTypes') /\ (UdpTypes => UdpTypes')
    BY <2>1 DEF MqttTypes, UdpTypes
  <2>3. (RestTypes => RestTypes') /\ (Behind => Behind') /\ (ServerTypes => ServerTypes')
    BY <2>1 DEF RestTypes, Behind, Everyone, ServerTypes
  <2>4. Inv'
    BY <2>1, <2>2, <2>3 DEF Inv
  <2>5. sent <= sent'
    BY <2>1, ConnectorAssumption DEF Inv
  <2> QED BY <2>1, <2>4, <2>5 DEF Held, Onwards, BeginsNothing, Begun
<1> QED BY <1>1, <1>2

\* Every service keeps the invariant: types, and for the imports of the web server,
\* that what the mark has passed, and what the station will not post again, is in
\* the database or lost.
THEOREM TypeCorrect == Spec => []Inv
<1>1. Inv /\ [Next]_vars => Inv'
  BY NextHolds DEF Held
<1> QED BY <1>1, InitInv, PTL DEF Spec

\* After stop(), no handler that was already waiting, for a connection, a timer or a
\* datagram, connects, receives or accepts again, whatever the service and
\* however many handlers were in the queue.
THEOREM StoppedServicesStayDown == Spec => StoppedStaysDown
<1>1. Inv /\ [Next]_vars => [BeginsNothing]_vars
  BY NextHolds DEF Held
<1>2. Spec => [][BeginsNothing]_vars
  BY <1>1, TypeCorrect, PTL DEF Spec
<1> QED BY <1>2, PTL DEF StoppedStaysDown, BeginsNothing

\* Under the mapping, a state in the invariant is one the promise allows.
LEMMA MarkIsCovered ==
  ASSUME Inv
  PROVE  Archive!Covered
<1>1. CASE focus = "rest"
  <2>1. ASSUME NEW r \in {1} \X Everyone, r[2] <= mark
        PROVE  r \in ({1} \X stored) \cup ({1} \X (lost \cap Everyone))
    <3>1. r[2] \in Everyone /\ r = <<1, r[2]>>
      OBVIOUS
    <3>2. r[2] \in stored \cup lost
      BY <1>1, <2>1, <3>1 DEF Inv, Behind
    <3> QED BY <3>1, <3>2
  <2> QED BY <1>1, <2>1 DEF Archive!Covered
<1>2. CASE focus # "rest"
  BY <1>2 DEF Archive!Covered
<1> QED BY <1>1, <1>2

LEMMA StepKeepsPromise ==
  ASSUME Inv, Held, Archive!Covered'
  PROVE  Archive!Next
<1>1. /\ stored' \subseteq Dated /\ mark' \in Int
      /\ sent \in Int /\ sent' \in 0..MaxRecords /\ sent <= sent' /\ MaxRecords \in Nat
      /\ focus' = focus /\ (focus = "rest" => lost \subseteq lost')
  BY ConnectorAssumption DEF Held, Inv, Onwards
<1>2. 1..sent \subseteq 1..sent' /\ 1..sent' \subseteq Dated
  BY <1>1 DEF Dated
<1>3. {1} \X stored' \subseteq {1} \X Dated
  BY <1>1
<1>4. CASE focus = "rest"
  <2>1. /\ {1} \X (1..sent) \subseteq {1} \X (1..sent')
        /\ {1} \X (1..sent') \subseteq {1} \X Dated
    BY <1>2
  <2>2. /\ {1} \X (lost \cap 1..sent) \subseteq {1} \X (lost' \cap 1..sent')
        /\ {1} \X (lost' \cap 1..sent') \subseteq {1} \X (1..sent')
    BY <1>1, <1>2, <1>4
  <2> QED BY <1>1, <1>3, <1>4, <2>1, <2>2 DEF Archive!Next, Everyone, Dated
<1>5. CASE focus # "rest"
  BY <1>1, <1>3, <1>5 DEF Archive!Next, Dated
<1> QED BY <1>4, <1>5

\* The imports of the web server implement PolledArchive: whatever the station, the
\* pages it posts, what cannot be read in them, and what the database refuses, the
\* time of the last archive it is told never passes a record that is neither in
\* the database nor lost in one of the named ways.
THEOREM ImportsPromiseKept == Spec => ImportsKeepPromise
<1>1. Init => Archive!Init
  <2> SUFFICES ASSUME Init PROVE Archive!Init
    OBVIOUS
  <2>1. sent = 0 /\ stored = {} /\ lost = {} /\ mark = 0
    BY DEF Init, ConnectorInit
  <2> QED BY <2>1 DEF Archive!Init, Everyone
<1>2. Inv /\ Inv' /\ [Next]_vars => Archive!Next
  <2> SUFFICES ASSUME Inv, Inv', [Next]_vars PROVE Archive!Next
    OBVIOUS
  <2>1. Inv' => Archive!Covered'
    BY MarkIsCovered, PTL
  <2> QED BY <2>1, NextHolds, StepKeepsPromise
<1> QED BY <1>1, <1>2, TypeCorrect, PTL DEF Spec, ImportsKeepPromise, Archive!Spec
=============================================================================
