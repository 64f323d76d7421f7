----------------------------- MODULE RainGauges -----------------------------
(***************************************************************************)
(* The rain gauges do not send rain but a counter of clicks.  ingest()     *)
(* subtracts the clicks of the last message, cached with its time by       *)
(* cacheValues() once the observation is in both databases or, over UDP,   *)
(* before; what a wrap of the counter adds differs from one sensor to the  *)
(* next.  Messages get lost, come twice (at_least_once) and, over UDP,     *)
(* come late; either insertion and the update of the cache may fail.  The  *)
(* databases keep one value per time: an insertion replaces.               *)
(***************************************************************************)
EXTENDS HexPayload, Sums, FiniteSetsExt, Functions

CONSTANTS
    Gauges,         \* the sensors: a subset of AllGauges
    MaxTime,        \* the last message the device sends
    Staleness,      \* the age, in messages, of the 24 hours a cached value is good for
    Steps,          \* the numbers of clicks between two messages
    MaxFaults,      \* failed insertions and failed updates of the cache
    MaxDuplicates   \* messages delivered twice, or late

\* Not the meteohelix of 2026, whose count is read beyond the bytes parsed.
AllGauges == {"thermohygro", "rain_gauge", "lorain", "cpl01", "thpllora", "thplnbiot"}

ASSUME RainAssumption ==
    /\ Gauges \subseteq AllGauges
    /\ MaxTime \in Nat /\ Staleness \in Nat /\ MaxFaults \in Nat /\ MaxDuplicates \in Nat
    /\ Steps \subseteq Nat

VARIABLES
    gauge,      \* the sensor of the station
    total,      \* time -> clicks since the device was installed, the last time is now
    cassandra,  \* time -> the rainfall stored, in clicks
    timescale,
    cache,      \* the cached clicks and their time
    origin,     \* the time from which the rain is accounted for
    wraps,      \* how often the counter went round since the origin
    dry,        \* messages stored since the origin with the count of the cached one
    faults,
    cacheFaults,    \* updates of the cache that failed
    duplicates
rainVars == <<gauge, total, cassandra, timescale, cache, origin, wraps, dry,
              faults, cacheFaults, duplicates>>

NoGauge == "none"     \* a behaviour about something else
NoCache == [time |-> -1, clicks |-> 0]
Now == Max(DOMAIN total)
Start == CASE gauge = "thermohygro" -> 254 [] gauge = "rain_gauge" -> 4094
           [] OTHER -> 65534

\* What the payload holds of the count: 8 bits, 12, 16, or what is left of more
\* in the 16 bits of the decoder.
Width(g) == CASE g = "thermohygro" -> 256
              [] g = "rain_gauge" -> 4096
              [] g = "thplnbiot" -> 2^24      \* 2^32, never reached
              [] OTHER -> 65536
\* The three high bits of rain_gauge are shifted two places too far.
High3(t) == (total[t] \div 512) % 8
Counter(t) ==
    (total[t] % Width(gauge)) + (IF gauge = "rain_gauge" THEN 1536 * High3(t) ELSE 0)

-----------------------------------------------------------------------------
(* The rain since the cached clicks                                         *)

\* (The first one is a fault used as a mutant.)
ThermohygroWrapShort(prev, clicks) ==
    IF clicks >= prev THEN clicks - prev ELSE 255 - prev + clicks
ThermohygroRain(prev, clicks) ==
    IF clicks >= prev THEN clicks - prev ELSE 256 - prev + clicks
\* A correction that has not grown, here one that stays the same, adds as much as
\* its counter going round: 4096 hundredths of a click, in whole clicks.
Correction == 41
RainGaugeRain(prev, clicks) ==
    Correction + (IF clicks > prev THEN clicks - prev ELSE 4096 - prev + clicks)
LorainRain(prev, clicks) ==
    IF clicks < prev THEN clicks + 65535 - prev ELSE clicks - prev
Cpl01Rain(prev, clicks) ==
    IF clicks >= prev THEN clicks - prev ELSE (2^24 - 1 - prev) + clicks
\* ThplloraWrap stands for 0xFFFFFFFF, beyond the integers of TLC.
ThplloraWrap == 2^30
ThplloraRain(prev, clicks) ==
    IF clicks >= prev THEN clicks - prev ELSE (ThplloraWrap - prev) + clicks
Rain(prev, clicks) ==
    CASE gauge = "thermohygro" -> ThermohygroRain(prev, clicks)
      [] gauge = "rain_gauge" -> RainGaugeRain(prev, clicks)
      [] gauge = "lorain" -> LorainRain(prev, clicks)
      [] gauge = "cpl01" -> Cpl01Rain(prev, clicks)
      [] OTHER -> ThplloraRain(prev, clicks)

\* lastUpdate > now - 24 h: the cached clicks are a reference
Fresh == cache # NoCache /\ cache.time > Now - Staleness

\* The observations of a message: time -> rain.  The ones of thplnbiot carry two
\* archives; those not after the cached time, or below its count, have no rain.
ThplnbiotRains(times) ==
    LET Previous(t) == IF t - 1 \in times /\ t - 1 > cache.time
                       THEN Counter(t - 1) ELSE cache.clicks
    IN  [t \in times |->
            IF cache = NoCache \/ t <= cache.time \/ Counter(t) < Previous(t)
            THEN NaN ELSE Counter(t) - Previous(t)]
Archived(t) == IF gauge = "thplnbiot" /\ t > 0 THEN {t - 1, t} ELSE {t}
Observations(t, unset) ==
    IF gauge = "thplnbiot" THEN ThplnbiotRains(Archived(t))
    ELSE [u \in {t} |-> IF Fresh THEN Rain(cache.clicks, Counter(t)) ELSE unset]

\* Without a reference the rain is NaN but for the two sensors of Barani, whose
\* member has no initial value.
Unset == IF gauge \in {"thermohygro", "rain_gauge"} THEN {NaN, 7} ELSE {NaN}

\* An observation without rain leaves the one stored before.
Insert(database, observations) ==
    [t \in DOMAIN observations \cup DOMAIN database |->
        IF t \in DOMAIN observations /\ (Has(observations[t]) \/ t \notin DOMAIN database)
        THEN observations[t] ELSE database[t]]

-----------------------------------------------------------------------------
(* The device and the network                                               *)

\* The device sends its count: from now on a message may be delivered.
Count ==
    /\ Now < MaxTime
    /\ \E n \in Steps :
          total' = [t \in 0..(Now + 1) |-> IF t <= Now THEN total[t] ELSE total[Now] + n]
    /\ UNCHANGED <<gauge, cassandra, timescale, cache, origin, wraps, dry,
                   faults, cacheFaults, duplicates>>

\* The new message or, again, one already delivered; over UDP, one that is late.
Delivered(t) ==
    \/ t = Now /\ t > cache.time /\ UNCHANGED duplicates
    \/ /\ duplicates < MaxDuplicates
       /\ t = Now \/ gauge = "thplnbiot"
       /\ duplicates' = duplicates + 1

-----------------------------------------------------------------------------
(* processArchive: both insertions, then cacheValues                        *)

InsertionFails(t, unset) ==
    /\ faults + cacheFaults < MaxFaults
    /\ faults' = faults + 1
    /\ \/ UNCHANGED cassandra
       \/ cassandra' = Insert(cassandra, Observations(t, unset))
    /\ UNCHANGED <<gauge, total, timescale, cache, origin, wraps, dry, cacheFaults>>

\* The clicks are accounted for when they are cached.  The account starts again when the message has no reference.
Account(t) ==
    IF cache = NoCache \/ (gauge # "thplnbiot" /\ ~Fresh)
    THEN origin' = t /\ wraps' = 0 /\ dry' = 0
    ELSE /\ UNCHANGED origin
         /\ wraps' = wraps + (IF Counter(t) < cache.clicks THEN 1 ELSE 0)
         /\ dry' = dry + (IF Counter(t) = cache.clicks THEN 1 ELSE 0)

CacheValues(t) ==
    \/ cache' = [time |-> t, clicks |-> Counter(t)] /\ Account(t) /\ UNCHANGED cacheFaults
    \/ /\ faults + cacheFaults < MaxFaults
       /\ cacheFaults' = cacheFaults + 1
       /\ UNCHANGED <<cache, origin, wraps, dry>>

Insertion(t, unset) ==
    /\ cassandra' = Insert(cassandra, Observations(t, unset))
    /\ timescale' = Insert(timescale, Observations(t, unset))
    /\ CacheValues(t)
    /\ UNCHANGED <<gauge, total, faults>>

\* Over UDP the clicks are cached first and each insertion fails on its own.
ProcessRequest(t) ==
    LET observations == Observations(t, NaN)
    IN  /\ CacheValues(t)
        /\ \E refused \in SUBSET DOMAIN observations, lost \in {0, 1} :
              /\ cassandra' = Insert(cassandra, Restrict(observations, DOMAIN observations \ refused))
              /\ timescale' = IF lost = 1 THEN timescale ELSE Insert(timescale, observations)
              /\ faults' = faults + Cardinality(refused) + lost
        /\ faults' + cacheFaults' <= MaxFaults
        /\ UNCHANGED <<gauge, total>>

Receive(t) ==
    /\ Delivered(t)
    /\ IF gauge = "thplnbiot" THEN ProcessRequest(t)
       ELSE \E unset \in Unset : Insertion(t, unset) \/ InsertionFails(t, unset)

RainInit ==
    /\ gauge \in Gauges
    /\ total = [t \in {0} |-> Start]
    /\ cassandra = <<>> /\ timescale = <<>>
    /\ cache = NoCache /\ origin = -1
    /\ wraps = 0 /\ dry = 0 /\ faults = 0 /\ cacheFaults = 0 /\ duplicates = 0

RainIdle ==
    /\ gauge = NoGauge
    /\ total = [t \in {0} |-> 0]
    /\ cassandra = <<>> /\ timescale = <<>>
    /\ cache = NoCache /\ origin = -1
    /\ wraps = 0 /\ dry = 0 /\ faults = 0 /\ cacheFaults = 0 /\ duplicates = 0
RainNext == gauge # NoGauge /\ (Count \/ \E t \in DOMAIN total : Receive(t))

-----------------------------------------------------------------------------
(* Properties                                                               *)

Rains(database) ==
    {t \in DOMAIN database : t > origin /\ t <= cache.time /\ Has(database[t])}
\* What the decoder of rain_gauge adds to each message.
Added == IF gauge = "rain_gauge" THEN Correction ELSE 0
Net(database) == [t \in Nat |-> IF t \in Rains(database) THEN database[t] - Added ELSE 0]
Stored(database) == SumTo(Net(database), cache.time)
Counted == total[cache.time] - total[origin]
\* What else the decoders are known to add or to lose: the README tells of each.
Known ==
    CASE gauge = "rain_gauge" -> 4096 * dry + 1536 * (High3(cache.time) - High3(origin))
      [] gauge = "lorain" -> 0 - wraps
      [] gauge = "cpl01" -> (2^24 - 1 - 65536) * wraps
      [] gauge = "thpllora" -> (ThplloraWrap - 65536) * wraps
      [] OTHER -> 0
CachedFirst == gauge = "thplnbiot" /\ faults > 0

\* Whatever messages are lost and insertions fail, the rain stored in Timescale
\* between two cached counts is the one counted by the gauge, neither less nor
\* twice, but for what Added and Known say of the gauge, as long as no message comes
\* twice or late, no update of the cache fails and, over UDP, no insertion fails.
RainIsCounted ==
    cache # NoCache /\ duplicates = 0 /\ cacheFaults = 0 /\ ~CachedFirst =>
        Stored(timescale) = Counted + Known

\* A failed insertion leaves the cached count alone, so that its clicks are in
\* the next message: Cassandra may hold them twice (the insertion that failed
\* was the other one) but never misses any; not so over UDP, and a wrap of
\* rain_gauge stores less than nothing, and may do so twice.
RainIsNotLost ==
    cache # NoCache /\ duplicates = 0 /\ ~CachedFirst /\ ~(gauge = "rain_gauge" /\ wraps > 0) =>
        Stored(cassandra) >= Counted + Known

\* The rain of a gauge reaches the databases once, whatever gets lost or fails, but
\* for the exceptions above.
GaugeRainIsCounted == RainIsCounted /\ RainIsNotLost
=============================================================================
