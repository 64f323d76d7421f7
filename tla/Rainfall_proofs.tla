--------------------------- MODULE Rainfall_proofs ---------------------------
(***************************************************************************)
(* Proofs about Rainfall: the rain of the gauges is stored once, for any   *)
(* number of messages, faults and clicks, and so is the rain of the files, *)
(* for any weather, length of the day and number of files and mishaps; the *)
(* climatology follows the observations, for any months, jobs and failures.*)
(***************************************************************************)
EXTENDS Rainfall, NumberSets

\* No gauge goes round more than once while its cached clicks are good for a
\* reference, with at most so many clicks between two messages; the one of 32 bits
\* never does.
NoFullTurn(most) ==
    /\ Steps \subseteq 0..most
    /\ \A g \in Gauges : IF g = "thplnbiot" THEN 65534 + MaxTime * most < Width(g)
                         ELSE (Staleness - 1) * most < Width(g)

-----------------------------------------------------------------------------
(* Counters that go round                                                   *)

\* Two counts less than a turn apart, and what is left of them.
LEMMA LessThanATurn ==
  ASSUME NEW m \in Nat \ {0}, NEW a \in Nat, NEW b \in Nat, a <= b, b - a < m
  PROVE  b - a = ((b % m) - (a % m)) + (IF (b % m) < (a % m) THEN m ELSE 0)
<1> DEFINE qa == a \div m
           qb == b \div m
           ra == a % m
           rb == b % m
           d == qb - qa
           e == m * d
<1>1. qa \in Int /\ ra \in 0..(m - 1) /\ a = m * qa + ra
  OBVIOUS
<1>2. qb \in Int /\ rb \in 0..(m - 1) /\ b = m * qb + rb
  OBVIOUS
<1> HIDE DEF qa, qb, ra, rb
<1>3. d \in Int /\ m * d = m * qb - m * qa
  BY <1>1, <1>2
<1> HIDE DEF d
<1>4. e \in Int /\ b - a = e + (rb - ra)
  BY <1>1, <1>2, <1>3
<1>5. (d >= 2 => e >= 2 * m) /\ (d <= -1 => e <= -m) /\ (d = 0 => e = 0) /\ (d = 1 => e = m)
  BY <1>3
<1> HIDE DEF e
<1>6. d = 0 \/ d = 1
  BY <1>1, <1>2, <1>3, <1>4, <1>5
<1>7. b - a = (rb - ra) + (IF rb < ra THEN m ELSE 0)
  BY <1>1, <1>2, <1>4, <1>5, <1>6
<1> QED BY <1>7 DEF ra, rb

\* The high bits of a count are those of what is left of it in 12 bits.
LEMMA HighBits ==
  ASSUME NEW a \in Nat
  PROVE  (a \div 512) % 8 = (a % 4096) \div 512
<1> DEFINE q == a \div 4096
           r == a % 4096
           s == r \div 512
<1>1. q \in Nat /\ r \in 0..4095 /\ a = 4096 * q + r
  OBVIOUS
<1>2. s \in 0..7 /\ 512 * s <= r /\ r < 512 * s + 512
  <2> HIDE DEF q, r
  <2> QED BY <1>1
<1>3. a \div 512 = 8 * q + s
  <2> HIDE DEF q, r, s
  <2> QED BY <1>1, <1>2
<1>4. (8 * q + s) % 8 = s
  <2> HIDE DEF q, r, s
  <2> QED BY <1>1, <1>2
<1> QED BY <1>3, <1>4

\* rain_gauge: the count that is read orders messages as the 12 bits do.
LEMMA HighBitsOrder ==
  ASSUME NEW a \in Nat, NEW b \in Nat
  PROVE  /\ (a \div 512) % 8 \in 0..7
         /\ (a % 4096) < (b % 4096) =>
              (a % 4096) + 1536 * ((a \div 512) % 8) < (b % 4096) + 1536 * ((b \div 512) % 8)
         /\ (a % 4096) = (b % 4096) =>
              (a % 4096) + 1536 * ((a \div 512) % 8) = (b % 4096) + 1536 * ((b \div 512) % 8)
<1> DEFINE r == a % 4096
           s == b % 4096
           h == (a \div 512) % 8
           k == (b \div 512) % 8
<1>1. r \in 0..4095 /\ s \in 0..4095
  OBVIOUS
<1>2. h = r \div 512 /\ k = s \div 512
  BY HighBits
<1> HIDE DEF r, s, h, k
<1>3. h \in 0..7 /\ k \in 0..7 /\ (r <= s => h <= k) /\ (r = s => h = k)
  BY <1>1, <1>2
<1>4. /\ r < s => r + 1536 * h < s + 1536 * k
      /\ r = s => r + 1536 * h = s + 1536 * k
  BY <1>1, <1>3
<1> QED BY <1>3, <1>4 DEF r, s, h, k

\* ... and the difference of two such counts, on one turn or two.
Low12(n) == n % 4096
High12(n) == (n \div 512) % 8
Count12(n) == Low12(n) + 1536 * High12(n)

LEMMA Turn12 ==
  ASSUME NEW x \in Nat, NEW y \in Nat, x <= y, y - x < 4096
  PROVE  /\ Count12(x) \in Nat /\ Count12(y) \in Nat
         /\ High12(x) \in 0..7 /\ High12(y) \in 0..7
         /\ Low12(x) \in 0..4095 /\ Low12(y) \in 0..4095
         /\ y - x = (Count12(y) - Count12(x)) - 1536 * (High12(y) - High12(x))
                    + (IF Count12(y) < Count12(x) THEN 4096 ELSE 0)
         /\ y - x = (Low12(y) - Low12(x)) + (IF Count12(y) < Count12(x) THEN 4096 ELSE 0)
<1> DEFINE r == Low12(x)
           s == Low12(y)
           h == High12(x)
           k == High12(y)
           d == y - x
<1>1. r \in 0..4095 /\ s \in 0..4095 /\ d \in Nat
  BY DEF Low12
<1>2. /\ h \in 0..7 /\ k \in 0..7
      /\ r < s => r + 1536 * h < s + 1536 * k
      /\ s < r => s + 1536 * k < r + 1536 * h
      /\ r = s => r + 1536 * h = s + 1536 * k
  BY HighBitsOrder DEF Low12, High12
<1>3. d = (s - r) + (IF s < r THEN 4096 ELSE 0)
  BY LessThanATurn DEF Low12
<1>4. Count12(x) = r + 1536 * h /\ Count12(y) = s + 1536 * k
  BY DEF Count12
<1> HIDE DEF r, s, h, k, d
<1>5. s < r <=> Count12(y) < Count12(x)
  BY <1>1, <1>2, <1>4
<1>6. d = (Count12(y) - Count12(x)) - 1536 * (k - h) + (IF Count12(y) < Count12(x) THEN 4096 ELSE 0)
  BY <1>1, <1>2, <1>3, <1>4, <1>5
<1>7. Count12(x) \in Nat /\ Count12(y) \in Nat
  BY <1>1, <1>2, <1>4
<1>8. d = (s - r) + (IF Count12(y) < Count12(x) THEN 4096 ELSE 0)
  BY <1>3, <1>5
<1> QED BY <1>1, <1>2, <1>6, <1>7, <1>8 DEF d, r, s, h, k

\* A count that has not gone round from x to y has not in between.
LEMMA NoTurn12 ==
  ASSUME NEW x \in Nat, NEW u \in Nat, NEW y \in Nat, x <= u, u <= y, y - x < 4096,
         Count12(y) >= Count12(x)
  PROVE  Count12(u) >= Count12(x)
<1>1. u - x < 4096
  OBVIOUS
<1>2. /\ Low12(x) \in 0..4095 /\ Low12(u) \in 0..4095 /\ Low12(y) \in 0..4095
      /\ Count12(x) \in Nat /\ Count12(u) \in Nat /\ Count12(y) \in Nat
      /\ u - x = (Low12(u) - Low12(x)) + (IF Count12(u) < Count12(x) THEN 4096 ELSE 0)
      /\ y - x = (Low12(y) - Low12(x)) + (IF Count12(y) < Count12(x) THEN 4096 ELSE 0)
  BY <1>1, Turn12
<1>3. ASSUME Count12(u) < Count12(x) PROVE FALSE
  <2>1. u - x = (Low12(u) - Low12(x)) + 4096
    BY <1>2, <1>3
  <2>2. ~(Count12(y) < Count12(x))
    BY <1>2
  <2>3. y - x = (Low12(y) - Low12(x)) + 0
    BY <1>2, <2>2
  <2> DEFINE r == Low12(x)
             q == Low12(u)
             s == Low12(y)
  <2>4. r \in 0..4095 /\ q \in 0..4095 /\ s \in 0..4095
    BY <1>2
  <2>5. u - x = (q - r) + 4096 /\ y - x = (s - r) + 0
    BY <2>1, <2>3
  <2> HIDE DEF r, q, s
  <2>6. u = x + q - r + 4096 /\ y = x + s - r
    BY <2>4, <2>5
  <2> QED BY <2>4, <2>6
<1> QED BY <1>2, <1>3

-----------------------------------------------------------------------------
(* The gauge and its counter                                                *)

Counting(most) ==
    /\ Now \in 0..MaxTime
    /\ total \in [0..Now -> Nat]
    /\ total[0] = Start
    /\ \A a, b \in 0..Now : a <= b => total[a] <= total[b] /\ total[b] - total[a] <= (b - a) * most

LEMMA LatestIsNow ==
  ASSUME NEW n \in Nat, NEW f, DOMAIN f = 0..n
  PROVE  Max(DOMAIN f) = n
<1>1. \A y \in 0..n : n >= y
  OBVIOUS
<1>2. \A x \in 0..n : (\A y \in 0..n : x >= y) => x = n
  OBVIOUS
<1> QED BY <1>1, <1>2 DEF Max

LEMMA GaugeKinds ==
  ASSUME gauge \in Gauges
  PROVE  /\ gauge \in AllGauges
         /\ Width(gauge) \in Nat \ {0}
         /\ gauge = "thermohygro" => Width(gauge) = 256
         /\ gauge = "rain_gauge" => Width(gauge) = 4096
         /\ gauge = "thplnbiot" => Width(gauge) = 16777216
         /\ gauge \in {"lorain", "cpl01", "thpllora"} => Width(gauge) = 65536
<1>1. gauge \in AllGauges
  BY RainAssumption
<1> QED BY <1>1 DEF AllGauges, Width

\* What the decoder reads of a count.
LEMMA CounterReads ==
  ASSUME gauge \in Gauges, NEW t, total[t] \in Nat
  PROVE  /\ Counter(t) \in Nat
         /\ High3(t) \in 0..7
         /\ gauge # "rain_gauge" => Counter(t) = total[t] % Width(gauge)
         /\ gauge = "rain_gauge" => Counter(t) = (total[t] % 4096) + 1536 * High3(t)
<1>1. High3(t) \in 0..7
  BY HighBitsOrder DEF High3
<1>2. Width(gauge) \in Nat \ {0} /\ (gauge = "rain_gauge" => Width(gauge) = 4096)
  BY GaugeKinds
<1>3. total[t] % Width(gauge) \in Nat
  BY <1>2
<1> QED BY <1>1, <1>2, <1>3 DEF Counter

\* The count goes down when the gauge has gone round, which it does once at most.
LEMMA CounterTurns ==
  ASSUME gauge \in Gauges, NEW a, NEW b, total[a] \in Nat, total[b] \in Nat,
         total[a] <= total[b], total[b] - total[a] < Width(gauge)
  PROVE  /\ gauge # "rain_gauge" =>
              total[b] - total[a] = (Counter(b) - Counter(a))
                                    + (IF Counter(b) < Counter(a) THEN Width(gauge) ELSE 0)
         /\ gauge = "rain_gauge" =>
              total[b] - total[a] = (Counter(b) - Counter(a)) - 1536 * (High3(b) - High3(a))
                                    + (IF Counter(b) < Counter(a) THEN 4096 ELSE 0)
<1>1. PICK x \in Nat : x = total[a]
  OBVIOUS
<1>2. PICK y \in Nat : y = total[b]
  OBVIOUS
<1>3. x <= y /\ y - x < Width(gauge)
  BY <1>1, <1>2
<1>4. CASE gauge # "rain_gauge"
  <2> DEFINE m == Width(gauge)
  <2>1. m \in Nat \ {0}
    BY GaugeKinds
  <2>2. y - x = ((y % m) - (x % m)) + (IF (y % m) < (x % m) THEN m ELSE 0)
    <3> HIDE DEF m
    <3> QED BY <1>3, <2>1, LessThanATurn DEF m
  <2>3. Counter(a) = x % m /\ Counter(b) = y % m
    BY <1>1, <1>2, <1>4, CounterReads
  <2> HIDE DEF m
  <2> QED BY <1>1, <1>2, <1>4, <2>2, <2>3 DEF m
<1>5. CASE gauge = "rain_gauge"
  <2>1. y - x < 4096
    BY <1>3, <1>5, GaugeKinds
  <2>2. /\ y - x = (Count12(y) - Count12(x)) - 1536 * (High12(y) - High12(x))
                    + (IF Count12(y) < Count12(x) THEN 4096 ELSE 0)
    BY <1>3, <2>1, Turn12
  <2>3. Counter(a) = Count12(x) /\ High3(a) = High12(x)
    BY <1>1, <1>5, CounterReads DEF Count12, Low12, High12, High3
  <2>4. Counter(b) = Count12(y) /\ High3(b) = High12(y)
    BY <1>2, <1>5, CounterReads DEF Count12, Low12, High12, High3
  <2> QED BY <1>1, <1>2, <1>5, <2>2, <2>3, <2>4
<1> QED BY <1>4, <1>5

\* A gauge that has not gone round from a to b has not in between.
LEMMA NoTurnBetween ==
  ASSUME gauge \in Gauges, NEW a, NEW u, NEW b,
         total[a] \in Nat, total[u] \in Nat, total[b] \in Nat,
         total[a] <= total[u], total[u] <= total[b], total[b] - total[a] < Width(gauge),
         gauge = "rain_gauge", Counter(b) >= Counter(a)
  PROVE  Counter(u) >= Counter(a)
<1>1. PICK x \in Nat : x = total[a]
  OBVIOUS
<1>2. PICK y \in Nat : y = total[u]
  OBVIOUS
<1>3. PICK z \in Nat : z = total[b]
  OBVIOUS
<1>4. Counter(a) = Count12(x)
  BY <1>1, CounterReads DEF Count12, Low12, High12, High3
<1>5. Counter(u) = Count12(y)
  BY <1>2, CounterReads DEF Count12, Low12, High12, High3
<1>6. Counter(b) = Count12(z)
  BY <1>3, CounterReads DEF Count12, Low12, High12, High3
<1>7. x <= y /\ y <= z /\ z - x < 4096
  BY <1>1, <1>2, <1>3, GaugeKinds
<1> QED BY <1>4, <1>5, <1>6, <1>7, NoTurn12

-----------------------------------------------------------------------------
(* The rain since the cached clicks                                         *)

\* What the decoder makes of the clicks since the cached ones, beside their number.
Turned(t) == IF Counter(t) < cache.clicks THEN 1 ELSE 0
Gain(t) ==
    CASE gauge = "rain_gauge" ->
            4096 * (IF Counter(t) = cache.clicks THEN 1 ELSE 0) + 1536 * (High3(t) - High3(cache.time))
      [] gauge = "lorain" -> 0 - Turned(t)
      [] gauge = "cpl01" -> (2^24 - 1 - 65536) * Turned(t)
      [] gauge = "thpllora" -> (ThplloraWrap - 65536) * Turned(t)
      [] OTHER -> 0

LEMMA RainSinceCached ==
  ASSUME gauge \in Gauges, gauge # "thplnbiot", NEW t,
         total[cache.time] \in Nat, total[t] \in Nat, total[cache.time] <= total[t],
         total[t] - total[cache.time] < Width(gauge), cache.clicks = Counter(cache.time)
  PROVE  /\ Rain(cache.clicks, Counter(t)) \in Int
         /\ Rain(cache.clicks, Counter(t)) - Added = (total[t] - total[cache.time]) + Gain(t)
         /\ (gauge = "rain_gauge" => Counter(t) >= cache.clicks) =>
                Rain(cache.clicks, Counter(t)) >= Added
<1> DEFINE c == cache.clicks
           n == Counter(t)
           D == total[t] - total[cache.time]
           h == High3(cache.time)
           k == High3(t)
<1>1. /\ c \in Nat /\ n \in Nat /\ D \in Nat /\ h \in 0..7 /\ k \in 0..7
      /\ D = total[t] - total[cache.time]
  BY CounterReads
<1>2. /\ gauge # "rain_gauge" => D = (n - c) + (IF n < c THEN Width(gauge) ELSE 0)
      /\ gauge = "rain_gauge" => D = (n - c) - 1536 * (k - h) + (IF n < c THEN 4096 ELSE 0)
  BY CounterTurns
<1>3. gauge # "rain_gauge" => c \in 0..(Width(gauge) - 1)
  BY GaugeKinds, CounterReads
<1>4. gauge \in AllGauges
  BY GaugeKinds
<1>5. CASE gauge = "thermohygro"
  <2>1. Width(gauge) = 256 /\ Added = 0 /\ Gain(t) = 0 /\ Rain(c, n) = ThermohygroRain(c, n)
    BY <1>5, GaugeKinds DEF Added, Gain, Rain
  <2> HIDE DEF c, n, D, h, k
  <2>2. Rain(c, n) \in Int /\ Rain(c, n) = D /\ Rain(c, n) >= 0
    BY <1>1, <1>2, <1>3, <1>5, <2>1 DEF ThermohygroRain
  <2> QED BY <1>1, <2>1, <2>2 DEF c, n
<1>6. CASE gauge = "rain_gauge"
  <2>1. Added = 41 /\ Rain(c, n) = RainGaugeRain(c, n)
        /\ Gain(t) = 4096 * (IF n = c THEN 1 ELSE 0) + 1536 * (k - h)
    BY <1>6 DEF Added, Correction, Gain, Rain
  <2> HIDE DEF c, n, D, h, k
  <2>2. /\ Rain(c, n) \in Int
        /\ Rain(c, n) - 41 = D + 4096 * (IF n = c THEN 1 ELSE 0) + 1536 * (k - h)
        /\ n >= c => Rain(c, n) >= 41
    BY <1>1, <1>2, <1>6, <2>1 DEF RainGaugeRain, Correction
  <2>3. Rain(c, n) - Added = D + Gain(t)
    BY <1>1, <2>1, <2>2
  <2> QED BY <1>1, <1>6, <2>1, <2>2, <2>3 DEF c, n
<1>7. CASE gauge = "lorain"
  <2>1. Width(gauge) = 65536 /\ Added = 0 /\ Gain(t) = 0 - (IF n < c THEN 1 ELSE 0)
        /\ Rain(c, n) = LorainRain(c, n)
    BY <1>7, GaugeKinds DEF Added, Gain, Rain, Turned
  <2> HIDE DEF c, n, D, h, k
  <2>2. Rain(c, n) \in Int /\ Rain(c, n) = D - (IF n < c THEN 1 ELSE 0) /\ Rain(c, n) >= 0
    BY <1>1, <1>2, <1>3, <1>7, <2>1 DEF LorainRain
  <2> QED BY <1>1, <2>1, <2>2 DEF c, n
<1>8. CASE gauge = "cpl01"
  <2>1. Width(gauge) = 65536 /\ Added = 0
        /\ Gain(t) = 16711679 * (IF n < c THEN 1 ELSE 0)
        /\ Rain(c, n) = IF n >= c THEN n - c ELSE (16777215 - c) + n
    BY <1>8, GaugeKinds DEF Added, Gain, Rain, Turned, Cpl01Rain
  <2> HIDE DEF c, n, D, h, k
  <2>2. Rain(c, n) \in Int /\ Rain(c, n) = D + 16711679 * (IF n < c THEN 1 ELSE 0) /\ Rain(c, n) >= 0
    BY <1>1, <1>2, <1>3, <1>8, <2>1
  <2> QED BY <1>1, <2>1, <2>2 DEF c, n
<1>9. CASE gauge = "thpllora"
  <2>1. Width(gauge) = 65536 /\ Added = 0
        /\ Gain(t) = 1073676288 * (IF n < c THEN 1 ELSE 0)
        /\ Rain(c, n) = IF n >= c THEN n - c ELSE (1073741824 - c) + n
    BY <1>9, GaugeKinds DEF Added, Gain, Rain, Turned, ThplloraRain, ThplloraWrap
  <2> HIDE DEF c, n, D, h, k
  <2>2. Rain(c, n) \in Int /\ Rain(c, n) = D + 1073676288 * (IF n < c THEN 1 ELSE 0) /\ Rain(c, n) >= 0
    BY <1>1, <1>2, <1>3, <1>9, <2>1
  <2> QED BY <1>1, <2>1, <2>2 DEF c, n
<1> QED BY <1>4, <1>5, <1>6, <1>7, <1>8, <1>9 DEF AllGauges

-----------------------------------------------------------------------------
(* The rows of a database                                                   *)

Row(database, t) == t \in DOMAIN database /\ Has(database[t])
Table(database, n) ==
    DOMAIN database \subseteq 0..n /\ \A t \in DOMAIN database : database[t] \in Int \cup {NaN}
SameRow(database, later, t) ==
    /\ Row(later, t) <=> Row(database, t)
    /\ Row(database, t) => later[t] = database[t]

LEMMA Inserted ==
  ASSUME NEW database, NEW observations
  PROVE  /\ DOMAIN Insert(database, observations) = DOMAIN database \cup DOMAIN observations
         /\ \A t \in DOMAIN observations : Has(observations[t]) =>
                /\ Row(Insert(database, observations), t)
                /\ Insert(database, observations)[t] = observations[t]
         /\ \A t : t \notin DOMAIN observations \/ ~Has(observations[t]) =>
                SameRow(database, Insert(database, observations), t)
<1> DEFINE later == Insert(database, observations)
<1>1. later = [t \in DOMAIN observations \cup DOMAIN database |->
                 IF t \in DOMAIN observations /\ (Has(observations[t]) \/ t \notin DOMAIN database)
                 THEN observations[t] ELSE database[t]]
  BY DEF Insert
<1> HIDE DEF later
<1>2. DOMAIN later = DOMAIN database \cup DOMAIN observations
  BY <1>1
<1>3. \A t \in DOMAIN later :
        later[t] = IF t \in DOMAIN observations /\ (Has(observations[t]) \/ t \notin DOMAIN database)
                   THEN observations[t] ELSE database[t]
  BY <1>1
<1>4. ASSUME NEW t \in DOMAIN observations, Has(observations[t])
      PROVE  Row(later, t) /\ later[t] = observations[t]
  BY <1>2, <1>3, <1>4 DEF Row
<1>5. ASSUME NEW t, t \notin DOMAIN observations \/ ~Has(observations[t])
      PROVE  SameRow(database, later, t)
  <2>1. CASE t \in DOMAIN database
    BY <1>2, <1>3, <1>5, <2>1 DEF SameRow, Row
  <2>2. CASE t \notin DOMAIN database /\ t \in DOMAIN observations
    BY <1>2, <1>3, <1>5, <2>2 DEF SameRow, Row
  <2>3. CASE t \notin DOMAIN database /\ t \notin DOMAIN observations
    BY <1>2, <2>3 DEF SameRow, Row
  <2> QED BY <2>1, <2>2, <2>3
<1> QED BY <1>2, <1>4, <1>5 DEF later

LEMMA TableInserted ==
  ASSUME NEW n, NEW database, Table(database, n), NEW observations, Table(observations, n)
  PROVE  Table(Insert(database, observations), n)
<1> DEFINE later == Insert(database, observations)
<1>1. /\ DOMAIN later = DOMAIN database \cup DOMAIN observations
      /\ \A t \in DOMAIN observations : Has(observations[t]) => later[t] = observations[t]
      /\ \A t : t \notin DOMAIN observations \/ ~Has(observations[t]) => SameRow(database, later, t)
  BY Inserted
<1> HIDE DEF later
<1>2. ASSUME NEW t \in DOMAIN later PROVE later[t] \in Int \cup {NaN}
  <2>1. CASE t \in DOMAIN observations /\ Has(observations[t])
    BY <1>1, <2>1 DEF Table
  <2>2. CASE t \notin DOMAIN observations \/ ~Has(observations[t])
    BY <1>1, <1>2, <2>2 DEF SameRow, Row, Has, Table
  <2> QED BY <2>1, <2>2
<1>3. DOMAIN later \subseteq 0..n
  BY <1>1 DEF Table
<1> QED BY <1>2, <1>3 DEF Table, later

\* What Net is, of any origin and any end.
Nets(database, from, to, added) ==
    [t \in Nat |-> IF Row(database, t) /\ t > from /\ t <= to THEN database[t] - added ELSE 0]

LEMMA NetsOfTable ==
  ASSUME NEW n, NEW database, Table(database, n), NEW from, NEW to, NEW added \in Nat
  PROVE  Nets(database, from, to, added) \in [Nat -> Int]
<1>1. ASSUME NEW t \in Nat, Row(database, t) PROVE database[t] - added \in Int
  BY <1>1 DEF Table, Row, Has
<1> QED BY <1>1 DEF Nets

LEMMA NetsStay ==
  ASSUME NEW n, NEW database, Table(database, n), NEW later, Table(later, n),
         NEW from, NEW to \in Nat, NEW added \in Nat,
         \A t \in 0..to : SameRow(database, later, t)
  PROVE  SumTo(Nets(later, from, to, added), to) = SumTo(Nets(database, from, to, added), to)
<1> DEFINE v == Nets(database, from, to, added)
           w == Nets(later, from, to, added)
<1>1. v \in [Nat -> Int] /\ w \in [Nat -> Int]
  BY NetsOfTable
<1>2. \A t \in 0..to : w[t] = v[t]
  BY DEF Nets, SameRow
<1> HIDE DEF v, w
<1>3. SumTo(w, to) = SumTo(v, to)
  BY <1>1, <1>2, SameSum
<1> QED BY <1>3 DEF v, w

LEMMA NetsAdvance ==
  ASSUME NEW n, NEW database, Table(database, n), NEW later, Table(later, n),
         NEW from \in Nat, NEW c \in Nat, NEW to \in Nat, NEW added \in Nat, from <= c, c < to,
         \A t \in 0..c : SameRow(database, later, t), Row(later, to)
  PROVE  /\ (\A t \in (c + 1)..(to - 1) : Row(later, t) => later[t] >= added) =>
                SumTo(Nets(later, from, to, added), to)
                  >= SumTo(Nets(database, from, c, added), c) + (later[to] - added)
         /\ (\A t \in (c + 1)..(to - 1) : ~Row(later, t)) =>
                SumTo(Nets(later, from, to, added), to)
                  = SumTo(Nets(database, from, c, added), c) + (later[to] - added)
         /\ later[to] \in Int
         /\ SumTo(Nets(later, from, to, added), to) \in Int
         /\ SumTo(Nets(database, from, c, added), c) \in Int
<1> DEFINE v == Nets(database, from, c, added)
           w == Nets(later, from, to, added)
<1>1. v \in [Nat -> Int] /\ w \in [Nat -> Int]
  BY NetsOfTable
<1>2. \A t \in 0..c : v[t] = w[t]
  BY DEF Nets, SameRow
<1>3. w[to] = later[to] - added /\ later[to] \in Int
  BY DEF Nets, Row, Table, Has
<1>4. (\A t \in (c + 1)..(to - 1) : Row(later, t) => later[t] >= added) =>
        \A t \in (c + 1)..(to - 1) : w[t] >= 0
  <2> SUFFICES ASSUME \A t \in (c + 1)..(to - 1) : Row(later, t) => later[t] >= added,
                      NEW t \in (c + 1)..(to - 1)
               PROVE  w[t] >= 0
    OBVIOUS
  <2>1. CASE Row(later, t)
    <3>1. later[t] \in Int /\ later[t] >= added
      BY <2>1 DEF Row, Table, Has
    <3> QED BY <2>1, <3>1 DEF Nets
  <2>2. CASE ~Row(later, t)
    BY <2>2 DEF Nets
  <2> QED BY <2>1, <2>2
<1>5. (\A t \in (c + 1)..(to - 1) : ~Row(later, t)) =>
        \A t \in (c + 1)..(to - 1) : w[t] = 0
  BY DEF Nets
<1> HIDE DEF v, w
<1>6. /\ (\A t \in (c + 1)..(to - 1) : w[t] >= 0) => SumTo(w, to) >= SumTo(v, c) + w[to]
      /\ (\A t \in (c + 1)..(to - 1) : w[t] = 0) => SumTo(w, to) = SumTo(v, c) + w[to]
  BY <1>1, <1>2, SumAdvances
<1>7. SumTo(w, to) \in Int /\ SumTo(v, c) \in Int
  BY <1>1, SumDefinition
<1> QED BY <1>3, <1>4, <1>5, <1>6, <1>7 DEF v, w

LEMMA NetsBegin ==
  ASSUME NEW n, NEW database, Table(database, n), NEW to \in Nat, NEW added \in Nat
  PROVE  SumTo(Nets(database, to, to, added), to) = 0
<1> DEFINE v == Nets(database, to, to, added)
<1>1. v \in [Nat -> Int]
  BY NetsOfTable
<1>2. \A t \in 0..to : v[t] = 0
  BY DEF Nets
<1> HIDE DEF v
<1>3. SumTo(v, to) = SumTo(v, 0)
  BY <1>1, <1>2, SumStays
<1>4. SumTo(v, 0) = v[0]
  BY <1>1, SumDefinition
<1>5. SumTo(v, to) = 0
  BY <1>2, <1>3, <1>4
<1> QED BY <1>5 DEF v

-----------------------------------------------------------------------------
(* The invariant                                                            *)

\* Rows stored after the cached clicks count from them: of an insertion that failed
\* in Timescale, or before an update of the cache that did.
Reference(t) == gauge = "thplnbiot" \/ cache.time > t - Staleness
Onward(t) == gauge = "rain_gauge" => Counter(t) >= cache.clicks
Pending ==
    \A t : Row(cassandra, t) /\ t > cache.time /\ Reference(t) /\ Onward(t) => cassandra[t] >= Added
CachedClicks ==
    /\ cache.time \in 0..Now
    /\ origin \in 0..cache.time
    /\ cache.clicks = Counter(cache.time)
StoredOnce == cacheFaults = 0 => Stored(timescale) = Counted + Known
StoredAtLeast == ~(gauge = "rain_gauge" /\ wraps > 0) => Stored(cassandra) >= Counted + Known

Tables ==
    /\ Table(cassandra, Now) /\ Table(timescale, Now)
    /\ cacheFaults = 0 => DOMAIN timescale \subseteq 0..cache.time
Accounts == CachedClicks /\ Pending /\ StoredOnce /\ StoredAtLeast
Counters ==
    /\ gauge \in Gauges \cup {NoGauge}
    /\ {faults, cacheFaults, duplicates, wraps, dry} \subseteq Nat
    /\ gauge = NoGauge => cache = NoCache
Inv(most) ==
    /\ Counters
    /\ gauge # NoGauge => Counting(most)
    /\ gauge # NoGauge /\ duplicates = 0 /\ ~CachedFirst =>
           Tables /\ (cache = NoCache \/ Accounts)

\* What is counted and known, from one cached time to the next.
LEMMA KnownGrows ==
  ASSUME gauge \in Gauges, {wraps, dry} \subseteq Nat, NEW t,
         total[t] \in Nat, total[cache.time] \in Nat, total[origin] \in Nat,
         UNCHANGED <<gauge, total, origin>>, cache' = [time |-> t, clicks |-> Counter(t)],
         wraps' = wraps + (IF Counter(t) < cache.clicks THEN 1 ELSE 0),
         dry' = dry + (IF Counter(t) = cache.clicks THEN 1 ELSE 0)
  PROVE  /\ Counted \in Int /\ Known \in Int /\ Gain(t) \in Int
         /\ Counted' = Counted + (total[t] - total[cache.time])
         /\ Known' = Known + Gain(t)
<1>1. Counted \in Int /\ Counted' = Counted + (total[t] - total[cache.time])
  BY DEF Counted
<1>2. High3(t) \in 0..7 /\ High3(cache.time) \in 0..7 /\ High3(origin) \in 0..7
  BY CounterReads
<1>3. gauge \in AllGauges /\ wraps \in Nat /\ dry \in Nat
  BY GaugeKinds
<1> DEFINE wrap == IF Counter(t) < cache.clicks THEN 1 ELSE 0
           idle == IF Counter(t) = cache.clicks THEN 1 ELSE 0
<1>4. wrap \in {0, 1} /\ idle \in {0, 1} /\ wraps' = wraps + wrap /\ dry' = dry + idle
  OBVIOUS
<1>5. Turned(t) = wrap
  BY DEF Turned
<1>6. CASE gauge = "rain_gauge"
  <2>1. High3(origin)' = High3(origin) /\ High3(cache.time)' = High3(t)
    BY DEF High3
  <2>2. /\ Known = 4096 * dry + 1536 * (High3(cache.time) - High3(origin))
        /\ Known' = 4096 * dry' + 1536 * (High3(t) - High3(origin))
        /\ Gain(t) = 4096 * idle + 1536 * (High3(t) - High3(cache.time))
    BY <1>6, <2>1 DEF Known, Gain
  <2> HIDE DEF wrap, idle
  <2>3. Known' = Known + Gain(t) /\ Known \in Int /\ Gain(t) \in Int
    BY <1>2, <1>3, <1>4, <2>2
  <2> QED BY <1>1, <2>3
<1>7. CASE gauge = "lorain"
  <2>1. Known = 0 - wraps /\ Known' = 0 - wraps' /\ Gain(t) = 0 - wrap
    BY <1>5, <1>7 DEF Known, Gain
  <2> HIDE DEF wrap, idle
  <2> QED BY <1>1, <1>3, <1>4, <2>1
<1>8. CASE gauge = "cpl01"
  <2>1. /\ Known = 16711679 * wraps /\ Known' = 16711679 * wraps'
        /\ Gain(t) = 16711679 * wrap
    BY <1>5, <1>8 DEF Known, Gain
  <2> HIDE DEF wrap, idle
  <2> QED BY <1>1, <1>3, <1>4, <2>1
<1>9. CASE gauge = "thpllora"
  <2>1. /\ Known = 1073676288 * wraps /\ Known' = 1073676288 * wraps'
        /\ Gain(t) = 1073676288 * wrap
    BY <1>5, <1>9 DEF Known, Gain, ThplloraWrap
  <2> HIDE DEF wrap, idle
  <2> QED BY <1>1, <1>3, <1>4, <2>1
<1>10. CASE gauge \in {"thermohygro", "thplnbiot"}
  <2>1. Known = 0 /\ Known' = 0 /\ Gain(t) = 0
    BY <1>10 DEF Known, Gain
  <2> QED BY <1>1, <2>1
<1> QED BY <1>3, <1>6, <1>7, <1>8, <1>9, <1>10 DEF AllGauges

LEMMA StoredSums ==
  /\ Added \in Nat
  /\ \A database : Stored(database) = SumTo(Nets(database, origin, cache.time, Added), cache.time)
  /\ Stored(cassandra)' = SumTo(Nets(cassandra', origin', cache.time', Added'), cache.time')
  /\ Stored(timescale)' = SumTo(Nets(timescale', origin', cache.time', Added'), cache.time')
<1>1. Added \in Nat
  BY DEF Added, Correction
<1>2. ASSUME NEW database
      PROVE  Net(database) = Nets(database, origin, cache.time, Added)
  <2>1. \A t \in Nat : t \in Rains(database) <=> Row(database, t) /\ t > origin /\ t <= cache.time
    BY DEF Rains, Row
  <2> QED BY <2>1 DEF Net, Nets
<1>3. Net(cassandra)' = Nets(cassandra', origin', cache.time', Added')
  <2>1. \A t \in Nat : (t \in Rains(cassandra))' <=> Row(cassandra', t) /\ t > origin' /\ t <= cache.time'
    BY DEF Rains, Row
  <2> QED BY <2>1 DEF Net, Nets
<1>4. Net(timescale)' = Nets(timescale', origin', cache.time', Added')
  <2>1. \A t \in Nat : (t \in Rains(timescale))' <=> Row(timescale', t) /\ t > origin' /\ t <= cache.time'
    BY DEF Rains, Row
  <2> QED BY <2>1 DEF Net, Nets
<1> QED BY <1>1, <1>2, <1>3, <1>4 DEF Stored

-----------------------------------------------------------------------------
(* What becomes of the account                                              *)

LEMMA Steady ==
  ASSUME UNCHANGED <<gauge, total>>
  PROVE  /\ \A t : Counter(t)' = Counter(t)
         /\ \A t : High3(t)' = High3(t)
         /\ Now' = Now /\ Added' = Added /\ Width(gauge)' = Width(gauge)
<1>1. Now' = Now
  BY DEF Now
<1>2. \A t : High3(t)' = High3(t)
  BY DEF High3
<1>3. Width(gauge)' = Width(gauge)
  OBVIOUS
<1>4. \A t : Counter(t)' = Counter(t)
  BY <1>2, <1>3 DEF Counter
<1> QED BY <1>1, <1>2, <1>3, <1>4 DEF Added

\* It starts again at the first cached clicks, or when they are too old.
LEMMA Begun ==
  ASSUME gauge \in Gauges, NEW t \in Nat, t = Now, total[t] \in Nat, UNCHANGED <<gauge, total>>,
         cache' = [time |-> t, clicks |-> Counter(t)], origin' = t, wraps' = 0, dry' = 0,
         Table(cassandra', t), Table(timescale', t)
  PROVE  Accounts'
<1>1. cache'.time = t /\ cache'.clicks = Counter(t)
  OBVIOUS
<1>2. CachedClicks'
  BY <1>1, Steady DEF CachedClicks
<1>3. Pending'
  <2>1. \A u : Row(cassandra', u) => u \in 0..t
    BY DEF Table, Row
  <2>2. \A u : ~(Row(cassandra', u) /\ u > t)
    BY <2>1
  <2> QED BY <1>1, <2>2 DEF Pending
<1>4. Counted' = 0
  <2>1. Counted' = total[t] - total[t]
    BY <1>1 DEF Counted
  <2> QED BY <2>1
<1>5. Known' = 0
  <2>1. High3(t) \in 0..7
    BY CounterReads
  <2>2. High3(cache.time)' = High3(t) /\ High3(origin)' = High3(t)
    BY <1>1 DEF High3
  <2>3. (4096 * dry + 1536 * (High3(cache.time) - High3(origin)))' = 0
    BY <2>1, <2>2
  <2>4. wraps' = 0
    OBVIOUS
  <2>5. \A n \in Nat : n = 0 => 0 - n = 0 /\ 16711679 * n = 0 /\ 1073676288 * n = 0
    BY SMT
  <2> QED BY <2>3, <2>4, <2>5, SMT DEF Known, ThplloraWrap
<1>6. Stored(cassandra)' = 0 /\ Stored(timescale)' = 0
  <2>1. Added' \in Nat
    BY Steady, StoredSums
  <2>2. SumTo(Nets(cassandra', t, t, Added'), t) = 0
    BY <2>1, NetsBegin
  <2>3. SumTo(Nets(timescale', t, t, Added'), t) = 0
    BY <2>1, NetsBegin
  <2> QED BY <1>1, <2>2, <2>3, StoredSums
<1> QED BY <1>2, <1>3, <1>4, <1>5, <1>6 DEF Accounts, StoredOnce, StoredAtLeast

\* Nothing is cached: what is stored is ahead of the account.
LEMMA Kept ==
  ASSUME UNCHANGED <<gauge, total, cache, origin, wraps, dry>>, Accounts, Now \in Nat,
         Table(cassandra, Now), Table(cassandra', Now),
         \A t \in 0..cache.time : SameRow(cassandra, cassandra', t),
         cacheFaults' = 0 => cacheFaults = 0 /\ timescale' = timescale,
         Pending'
  PROVE  Accounts'
<1>1. CachedClicks'
  BY Steady DEF CachedClicks, Accounts
<1>2. Counted' = Counted
  BY DEF Counted
<1>3. Known' = Known
  <2>1. High3(cache.time)' = High3(cache.time) /\ High3(origin)' = High3(origin)
    BY DEF High3
  <2> QED BY <2>1, SMT DEF Known
<1>4. cache.time \in Nat /\ Added' = Added /\ Added \in Nat
  BY Steady, StoredSums DEF Accounts, CachedClicks
<1>5. Stored(cassandra)' = Stored(cassandra)
  <2>1. SumTo(Nets(cassandra', origin, cache.time, Added), cache.time)
          = SumTo(Nets(cassandra, origin, cache.time, Added), cache.time)
    BY <1>4, NetsStay
  <2>2. Stored(cassandra)' = SumTo(Nets(cassandra', origin, cache.time, Added), cache.time)
    BY <1>4, StoredSums
  <2> QED BY <2>1, <2>2, StoredSums
<1>6. timescale' = timescale => Stored(timescale)' = Stored(timescale)
  <2> SUFFICES ASSUME timescale' = timescale PROVE Stored(timescale)' = Stored(timescale)
    OBVIOUS
  <2>2. Stored(timescale)' = SumTo(Nets(timescale, origin, cache.time, Added), cache.time)
    BY <1>4, StoredSums
  <2> QED BY <2>2, StoredSums
<1>7. StoredOnce' /\ StoredAtLeast'
  BY <1>2, <1>3, <1>5, <1>6 DEF Accounts, StoredOnce, StoredAtLeast
<1> QED BY <1>1, <1>7 DEF Accounts

\* The clicks are cached: the account goes on to them.
LEMMA WentOn ==
  ASSUME gauge \in Gauges, {wraps, dry} \subseteq Nat, NEW t \in Nat, t = Now,
         total[t] \in Nat, total[cache.time] \in Nat, total[origin] \in Nat,
         UNCHANGED <<gauge, total, origin, cacheFaults>>,
         cache' = [time |-> t, clicks |-> Counter(t)], cache.time < t,
         wraps' = wraps + (IF Counter(t) < cache.clicks THEN 1 ELSE 0),
         dry' = dry + (IF Counter(t) = cache.clicks THEN 1 ELSE 0),
         Accounts, Table(cassandra', t), Table(timescale', t),
         Stored(cassandra) \in Int, Stored(timescale) \in Int,
         Stored(cassandra)' \in Int, Stored(timescale)' \in Int,
         cacheFaults = 0 =>
             Stored(timescale)' = Stored(timescale) + ((total[t] - total[cache.time]) + Gain(t)),
         ~(gauge = "rain_gauge" /\ wraps' > 0) =>
             Stored(cassandra)' >= Stored(cassandra) + ((total[t] - total[cache.time]) + Gain(t))
  PROVE  Accounts'
<1>1. cache'.time = t /\ cache'.clicks = Counter(t)
  OBVIOUS
<1>2. CachedClicks'
  BY <1>1, Steady DEF CachedClicks, Accounts
<1>3. Pending'
  <2>1. \A u : Row(cassandra', u) => u \in 0..t
    BY DEF Table, Row
  <2>2. \A u : ~(Row(cassandra', u) /\ u > t)
    BY <2>1
  <2> QED BY <1>1, <2>2 DEF Pending
<1> DEFINE D == total[t] - total[cache.time]
<1>4. /\ Counted \in Int /\ Known \in Int /\ Gain(t) \in Int
      /\ Counted' = Counted + D /\ Known' = Known + Gain(t)
  BY KnownGrows
<1>5. D \in Int
  OBVIOUS
<1> HIDE DEF D
<1>6. StoredOnce'
  <2>1. SUFFICES ASSUME cacheFaults = 0 PROVE Stored(timescale)' = Counted' + Known'
    BY DEF StoredOnce
  <2>2. Stored(timescale) = Counted + Known
    BY <2>1 DEF Accounts, StoredOnce
  <2>3. Stored(timescale)' = Stored(timescale) + (D + Gain(t))
    BY <2>1 DEF D
  <2> QED BY <1>4, <1>5, <2>2, <2>3
<1>7. StoredAtLeast'
  <2>1. SUFFICES ASSUME ~(gauge = "rain_gauge" /\ wraps' > 0)
                 PROVE  Stored(cassandra)' >= Counted' + Known'
    BY DEF StoredAtLeast
  <2>2. ~(gauge = "rain_gauge" /\ wraps > 0)
    BY <2>1
  <2>3. Stored(cassandra) >= Counted + Known
    BY <2>2 DEF Accounts, StoredAtLeast
  <2>4. Stored(cassandra)' >= Stored(cassandra) + (D + Gain(t))
    BY <2>1 DEF D
  <2> QED BY <1>4, <1>5, <2>3, <2>4
<1> QED BY <1>2, <1>3, <1>6, <1>7 DEF Accounts

-----------------------------------------------------------------------------
(* The message that comes                                                   *)

\* A reference is less than a turn old; the counter of 32 bits never turns.
LEMMA WithinATurn ==
  ASSUME NEW most \in Nat, NoFullTurn(most), Counting(most), gauge \in Gauges
  PROVE  /\ Now \in Nat /\ \A a \in 0..Now : total[a] \in Nat
         /\ \A a, b \in 0..Now : a <= b => total[a] <= total[b]
         /\ gauge # "thplnbiot" => \A a, b \in 0..Now :
                a <= b /\ a > b - Staleness => total[b] - total[a] < Width(gauge)
         /\ gauge = "thplnbiot" => \A a \in 0..Now : Counter(a) = total[a]
<1>1. /\ Now \in Nat /\ Now <= MaxTime /\ MaxTime \in Nat /\ Staleness \in Nat
      /\ \A a \in 0..Now : total[a] \in Nat
      /\ \A a, b \in 0..Now : a <= b => total[a] <= total[b]
  BY RainAssumption DEF Counting
<1>2. Width(gauge) \in Nat \ {0}
  BY GaugeKinds
<1>3. ASSUME gauge # "thplnbiot", NEW a \in 0..Now, NEW b \in 0..Now, a <= b, a > b - Staleness
      PROVE  total[b] - total[a] < Width(gauge)
  <2>1. total[b] - total[a] <= (b - a) * most
    BY <1>3 DEF Counting
  <2>2. (b - a) * most <= (Staleness - 1) * most
    <3> DEFINE x == b - a
               y == Staleness - 1
    <3>1. x \in Nat /\ y \in Nat /\ x <= y
      BY <1>1, <1>3
    <3> HIDE DEF x, y
    <3>2. x * most <= y * most
      BY <3>1
    <3> QED BY <3>2 DEF x, y
  <2>3. (Staleness - 1) * most < Width(gauge)
    BY <1>3 DEF NoFullTurn
  <2>4. total[a] \in Nat /\ total[b] \in Nat
    BY <1>1
  <2> DEFINE d == total[b] - total[a]
             x == (b - a) * most
             y == (Staleness - 1) * most
  <2>5. d \in Int /\ x \in Int /\ y \in Int
    BY <1>1, <2>4
  <2> HIDE DEF d, x, y
  <2>6. d <= x /\ x <= y /\ y < Width(gauge)
    BY <2>1, <2>2, <2>3 DEF d, x, y
  <2>7. d < Width(gauge)
    BY <1>2, <2>5, <2>6
  <2> QED BY <2>7 DEF d
<1>4. ASSUME gauge = "thplnbiot", NEW a \in 0..Now
      PROVE  Counter(a) = total[a]
  <2>1. Start = 65534
    BY <1>4 DEF Start
  <2>2. total[a] - total[0] <= (a - 0) * most /\ total[0] = 65534
    BY <1>1, <2>1 DEF Counting
  <2>3. (a - 0) * most <= MaxTime * most
    <3>1. a - 0 \in Nat /\ a - 0 <= MaxTime
      BY <1>1
    <3> QED BY <1>1, <3>1
  <2>4. 65534 + MaxTime * most < Width(gauge)
    BY <1>4 DEF NoFullTurn
  <2>5. total[a] < Width(gauge)
    <3> DEFINE x == (a - 0) * most
               y == MaxTime * most
    <3>1. x \in Int /\ y \in Int /\ total[a] \in Nat
      BY <1>1
    <3>2. x <= y /\ total[a] - total[0] <= x /\ 65534 + y < Width(gauge)
      BY <2>2, <2>3, <2>4
    <3> HIDE DEF x, y
    <3> QED BY <1>2, <2>2, <3>1, <3>2
  <2>6. total[a] \in Nat
    BY <1>1
  <2>7. \A n \in Nat, w \in Nat \ {0} : n < w => n % w = n
    OBVIOUS
  <2>8. total[a] % Width(gauge) = total[a]
    BY <1>2, <2>5, <2>6, <2>7
  <2> QED BY <1>4, <2>6, <2>8, CounterReads
<1> QED BY <1>1, <1>3, <1>4

\* A message with a reference, stored.
LEMMA Stored1 ==
  ASSUME NEW most \in Nat, NoFullTurn(most), Counting(most), gauge \in Gauges, gauge # "thplnbiot",
         NEW t, t = Now, cache.time < t, cache.time > t - Staleness, CachedClicks,
         NEW database, Table(database, t), NEW observations,
         DOMAIN observations = {t}, observations[t] = Rain(cache.clicks, Counter(t))
  PROVE  LET later == Insert(database, observations)
             sum == SumTo(Nets(later, origin, t, Added), t)
             D == total[t] - total[cache.time]
         IN  /\ Table(later, t) /\ \A u \in 0..cache.time : SameRow(database, later, u)
             /\ \A u : u # t => SameRow(database, later, u)
             /\ Onward(t) => later[t] >= Added
             /\ sum \in Int /\ Stored(database) \in Int /\ Gain(t) \in Int
             /\ DOMAIN database \subseteq 0..cache.time => sum = Stored(database) + (D + Gain(t))
             /\ Onward(t) /\ (\A u \in (cache.time + 1)..(t - 1) :
                                  Row(database, u) /\ Onward(u) => database[u] >= Added) =>
                    sum >= Stored(database) + (D + Gain(t))
<1> DEFINE later == Insert(database, observations)
           sum == SumTo(Nets(later, origin, t, Added), t)
           D == total[t] - total[cache.time]
           c == cache.time
           rain == Rain(cache.clicks, Counter(t))
<1>1. /\ t \in Nat /\ c \in Nat /\ origin \in Nat /\ origin <= c /\ c < t /\ Added \in Nat
      /\ c \in 0..Now /\ t \in 0..Now
  BY WithinATurn, StoredSums DEF CachedClicks
<1>2. total[c] \in Nat /\ total[t] \in Nat /\ total[c] <= total[t] /\ D < Width(gauge)
  BY <1>1, WithinATurn
<1>3. /\ rain \in Int
      /\ rain - Added = D + Gain(t)
      /\ Onward(t) => rain >= Added
  <2>1. cache.clicks = Counter(cache.time)
    BY DEF CachedClicks
  <2> QED BY <1>1, <1>2, <2>1, RainSinceCached DEF Onward
<1>4. Table(observations, t) /\ Has(rain)
  BY <1>1, <1>3, NaNAssumption DEF Table, Has
<1> HIDE DEF rain
<1>5. Table(later, t)
  BY <1>4, TableInserted
<1>6. Row(later, t) /\ later[t] = rain
  <2>1. t \in DOMAIN observations /\ observations[t] = rain
    BY DEF rain
  <2>2. Row(later, t) /\ later[t] = observations[t]
    <3>1. Has(observations[t])
      BY <1>4, <2>1
    <3>2. \A u \in DOMAIN observations : Has(observations[u]) =>
              Row(later, u) /\ later[u] = observations[u]
      BY Inserted
    <3> HIDE DEF later
    <3> QED BY <2>1, <3>1, <3>2
  <2> QED BY <2>1, <2>2
<1>7. \A u : u # t => SameRow(database, later, u)
  <2>1. \A u : u # t => u \notin DOMAIN observations
    OBVIOUS
  <2> QED BY <2>1, Inserted
<1>8. \A u \in 0..c : SameRow(database, later, u)
  BY <1>1, <1>7
<1>9. Stored(database) = SumTo(Nets(database, origin, c, Added), c)
  BY StoredSums
<1>10. D \in Int
  BY <1>2
<1> HIDE DEF later, D, c
<1>11. /\ (\A u \in (c + 1)..(t - 1) : Row(later, u) => later[u] >= Added) =>
                sum >= Stored(database) + (rain - Added)
       /\ (\A u \in (c + 1)..(t - 1) : ~Row(later, u)) =>
                sum = Stored(database) + (rain - Added)
       /\ sum \in Int /\ Stored(database) \in Int
  BY <1>1, <1>5, <1>6, <1>8, <1>9, NetsAdvance
<1> HIDE DEF sum
<1>12. ASSUME DOMAIN database \subseteq 0..c
       PROVE  sum = Stored(database) + (D + Gain(t))
  <2>1. ASSUME NEW u \in (c + 1)..(t - 1) PROVE ~Row(later, u)
    BY <1>1, <1>7, <1>12 DEF SameRow, Row
  <2> QED BY <1>3, <1>11, <2>1
<1>13. ASSUME Onward(t), \A u \in (c + 1)..(t - 1) :
                            Row(database, u) /\ Onward(u) => database[u] >= Added
       PROVE  sum >= Stored(database) + (D + Gain(t))
  <2>1. ASSUME NEW u \in (c + 1)..(t - 1), Row(later, u) PROVE later[u] >= Added
    <3>1. u \in 0..Now /\ c <= u /\ u <= t /\ u # t
      BY <1>1
    <3>2. Row(database, u) /\ later[u] = database[u]
      BY <1>7, <2>1, <3>1 DEF SameRow
    <3>3. /\ total[u] \in Nat /\ total[c] <= total[u] /\ total[u] <= total[t]
          /\ total[t] - total[c] < Width(gauge)
      BY <1>1, <1>2, <3>1, WithinATurn DEF D, c
    <3>4. cache.clicks = Counter(c)
      BY DEF CachedClicks, c
    <3>5. Onward(u)
      BY <1>2, <1>13, <3>3, <3>4, NoTurnBetween DEF Onward, c
    <3> QED BY <1>13, <3>2, <3>5
  <2> QED BY <1>3, <1>11, <2>1
<1>14. Gain(t) \in Int
  <2>1. High3(t) \in 0..7 /\ High3(cache.time) \in 0..7
    BY <1>1, <1>2, CounterReads DEF c
  <2>2. Turned(t) \in {0, 1}
    BY DEF Turned
  <2> QED BY <2>1, <2>2, SMT DEF Gain, ThplloraWrap
<1>15. Onward(t) => later[t] >= Added
  BY <1>3, <1>6
<1> QED BY <1>5, <1>7, <1>8, <1>11, <1>12, <1>13, <1>14, <1>15 DEF later, sum, D, c

\* The same over UDP, whose message has two archives: the rain of both follows on.
LEMMA Stored2 ==
  ASSUME NEW most \in Nat, NoFullTurn(most), Counting(most), gauge \in Gauges, gauge = "thplnbiot",
         NEW t, t = Now, cache # NoCache, cache.time < t, CachedClicks,
         NEW database, Table(database, t), NEW observations,
         observations = ThplnbiotRains(Archived(t))
  PROVE  LET later == Insert(database, observations)
             sum == SumTo(Nets(later, origin, t, Added), t)
             D == total[t] - total[cache.time]
         IN  /\ Table(later, t) /\ \A u \in 0..cache.time : SameRow(database, later, u)
             /\ sum \in Int /\ Stored(database) \in Int /\ Gain(t) \in Int
             /\ DOMAIN database \subseteq 0..cache.time => sum = Stored(database) + (D + Gain(t))
             /\ (\A u \in (cache.time + 1)..(t - 1) : Row(database, u) => database[u] >= Added) =>
                    /\ sum >= Stored(database) + (D + Gain(t))
                    /\ \A u \in (cache.time + 1)..t : Row(later, u) => later[u] >= Added
<1> DEFINE later == Insert(database, observations)
           sum == SumTo(Nets(later, origin, t, Added), t)
           c == cache.time
           b == t - 1
           D == total[t] - total[c]
           before == SumTo(Nets(later, origin, b, Added), b)
<1>1. /\ t \in Nat /\ c \in Nat /\ origin \in Nat /\ origin <= c /\ c < t
      /\ b \in Nat /\ c <= b /\ b < t /\ b + 1 = t
      /\ c \in 0..Now /\ t \in 0..Now /\ b \in 0..Now
  BY WithinATurn DEF CachedClicks
<1>2. Added = 0 /\ Gain(t) = 0
  BY DEF Added, Gain
<1>3. /\ total[c] \in Nat /\ total[b] \in Nat /\ total[t] \in Nat
      /\ total[c] <= total[b] /\ total[b] <= total[t]
      /\ Counter(c) = total[c] /\ Counter(b) = total[b] /\ Counter(t) = total[t]
      /\ cache.clicks = total[c]
  BY <1>1, WithinATurn DEF CachedClicks
<1>4. Archived(t) = {b, t}
  BY <1>1 DEF Archived
<1>5. /\ DOMAIN observations = {b, t}
      /\ c < b => observations[b] = total[b] - total[c] /\ observations[t] = total[t] - total[b]
      /\ c = b => observations[b] = NaN /\ observations[t] = total[t] - total[c]
  <2> DEFINE Previous(u) == IF u - 1 \in {b, t} /\ u - 1 > cache.time
                            THEN Counter(u - 1) ELSE cache.clicks
  <2>1. observations = [u \in {b, t} |->
            IF cache = NoCache \/ u <= cache.time \/ Counter(u) < Previous(u)
            THEN NaN ELSE Counter(u) - Previous(u)]
    BY <1>4 DEF ThplnbiotRains
  <2>2. DOMAIN observations = {b, t}
    BY <2>1
  <2>3. observations[b] = IF cache = NoCache \/ b <= c \/ Counter(b) < Previous(b)
                          THEN NaN ELSE Counter(b) - Previous(b)
    BY <2>1
  <2>4. observations[t] = IF cache = NoCache \/ t <= c \/ Counter(t) < Previous(t)
                          THEN NaN ELSE Counter(t) - Previous(t)
    BY <2>1
  <2>5. Previous(b) = total[c]
    <3>1. b - 1 \notin {b, t}
      BY <1>1
    <3> QED BY <1>3, <3>1
  <2>6. Previous(t) = IF b > c THEN total[b] ELSE total[c]
    <3>1. t - 1 = b /\ t - 1 \in {b, t}
      BY <1>1
    <3> QED BY <1>3, <3>1
  <2> HIDE DEF Previous, b, c
  <2>7. c < b => observations[b] = total[b] - total[c] /\ observations[t] = total[t] - total[b]
    <3> SUFFICES ASSUME c < b
                 PROVE  observations[b] = total[b] - total[c] /\ observations[t] = total[t] - total[b]
      OBVIOUS
    <3>1. ~(b <= c) /\ ~(t <= c) /\ ~(Counter(b) < Previous(b)) /\ Previous(t) = total[b]
          /\ ~(Counter(t) < Previous(t))
      BY <1>1, <1>3, <2>5, <2>6
    <3> QED BY <1>3, <2>3, <2>4, <2>5, <3>1
  <2>8. c = b => observations[b] = NaN /\ observations[t] = total[t] - total[c]
    <3> SUFFICES ASSUME c = b
                 PROVE  observations[b] = NaN /\ observations[t] = total[t] - total[c]
      OBVIOUS
    <3>1. b <= c /\ ~(t <= c) /\ Previous(t) = total[c] /\ ~(Counter(t) < Previous(t))
      BY <1>1, <1>3, <2>6
    <3> QED BY <1>3, <2>3, <2>4, <3>1
  <2> QED BY <2>2, <2>7, <2>8
<1> HIDE DEF b
<1>6. Table(observations, t)
  <2>1. observations[b] \in Int \cup {NaN} /\ observations[t] \in Int \cup {NaN}
    BY <1>1, <1>3, <1>5
  <2> QED BY <1>1, <1>5, <2>1 DEF Table
<1>7. Table(later, t)
  BY <1>6, TableInserted
<1>8. /\ \A u \in DOMAIN observations : Has(observations[u]) =>
              Row(later, u) /\ later[u] = observations[u]
      /\ \A u : u \notin DOMAIN observations \/ ~Has(observations[u]) => SameRow(database, later, u)
  <2>1. \A u \in DOMAIN observations : Has(observations[u]) =>
              Row(later, u) /\ later[u] = observations[u]
    BY ONLY Inserted
  <2>2. \A u : u \notin DOMAIN observations \/ ~Has(observations[u]) => SameRow(database, later, u)
    BY Inserted
  <2> QED BY <2>1, <2>2
<1>9. Stored(database) = SumTo(Nets(database, origin, c, Added), c) /\ Added \in Nat
  BY StoredSums
<1> HIDE DEF later, D, c
<1>10. \A u : u # b /\ u # t => SameRow(database, later, u)
  BY <1>5, <1>8
<1>11. Row(later, t) /\ later[t] = observations[t] /\ observations[t] \in Int /\ observations[t] >= 0
  <2>1. observations[t] \in Int /\ observations[t] >= 0
    BY <1>1, <1>3, <1>5
  <2>2. Has(observations[t])
    BY <2>1, NaNAssumption DEF Has
  <2> QED BY <1>5, <1>8, <2>1, <2>2
<1>12. c < b => Row(later, b) /\ later[b] = observations[b] /\ observations[b] \in Int /\ observations[b] >= 0
  <2> SUFFICES ASSUME c < b
               PROVE  Row(later, b) /\ later[b] = observations[b] /\ observations[b] \in Int /\ observations[b] >= 0
    OBVIOUS
  <2>1. observations[b] \in Int /\ observations[b] >= 0
    BY <1>1, <1>3, <1>5
  <2>2. Has(observations[b])
    BY <2>1, NaNAssumption DEF Has
  <2> QED BY <1>5, <1>8, <2>1, <2>2
<1>13. \A u \in 0..c : SameRow(database, later, u)
  <2>1. \A u \in 0..c : u # t /\ (u # b \/ ~Has(observations[u]))
    BY <1>1, <1>5 DEF Has
  <2> QED BY <1>5, <1>8, <2>1
<1>14. CASE c = b
  <2>1. (c + 1)..(t - 1) = {}
    BY <1>1, <1>14
  <2>2. sum = Stored(database) + (later[t] - Added) /\ sum \in Int /\ Stored(database) \in Int
    <3>1. /\ (\A u \in (c + 1)..(t - 1) : ~Row(later, u)) =>
                 sum = Stored(database) + (later[t] - Added)
          /\ sum \in Int /\ Stored(database) \in Int
      BY SMTT(30), <1>1, <1>7, <1>9, <1>11, <1>13, NetsAdvance
    <3> HIDE DEF sum
    <3> QED BY <2>1, <3>1
  <2>3. later[t] - Added = D /\ D \in Int
    BY <1>2, <1>3, <1>5, <1>11, <1>14 DEF D
  <2> HIDE DEF sum
  <2>4. sum = Stored(database) + (D + Gain(t)) /\ sum >= Stored(database) + (D + Gain(t))
    BY <1>2, <2>2, <2>3
  <2>5. \A u \in (c + 1)..t : u = t
    BY <1>1, <1>14
  <2>6. \A u \in (c + 1)..t : Row(later, u) => later[u] >= Added
    BY <1>2, <1>11, <2>5
  <2> QED BY <1>2, <1>7, <1>13, <2>2, <2>4, <2>6 DEF sum, later, D, c
<1>15. CASE c < b
  <2>1. t..(t - 1) = {}
    BY <1>1
  <2>2. sum = before + (later[t] - Added) /\ sum \in Int /\ before \in Int
    <3>1. \A u \in 0..b : SameRow(later, later, u)
      BY DEF SameRow
    <3>2. (b + 1)..(t - 1) = {} /\ origin <= b
      BY <1>1
    <3> QED BY SMTT(30), <1>1, <1>2, <1>7, <1>11, <3>1, <3>2, NetsAdvance
  <2> HIDE DEF sum
  <2>3. /\ (\A u \in (c + 1)..(b - 1) : Row(later, u) => later[u] >= Added) =>
                before >= Stored(database) + (later[b] - Added)
        /\ (\A u \in (c + 1)..(b - 1) : ~Row(later, u)) =>
                before = Stored(database) + (later[b] - Added)
        /\ Stored(database) \in Int
    BY SMTT(30), <1>1, <1>2, <1>7, <1>9, <1>12, <1>13, <1>15, NetsAdvance
  <2> HIDE DEF before
  <2>4. later[t] - Added = total[t] - total[b] /\ later[b] - Added = total[b] - total[c]
    BY <1>2, <1>3, <1>5, <1>11, <1>12, <1>15
  <2>5. D \in Int /\ D = (total[t] - total[b]) + (total[b] - total[c])
    BY <1>3 DEF D
  <2>6. \A u \in (c + 1)..(b - 1) : SameRow(database, later, u)
    BY <1>1, <1>10
  <2>7. ASSUME DOMAIN database \subseteq 0..c
        PROVE  sum = Stored(database) + (D + Gain(t))
    <3>1. ASSUME NEW u \in (c + 1)..(b - 1) PROVE ~Row(later, u)
      <4>1. u \notin 0..c
        BY <1>1
      <4> QED BY <2>6, <2>7, <4>1 DEF SameRow, Row
    <3>2. before = Stored(database) + (total[b] - total[c])
      BY <2>3, <2>4, <3>1
    <3> QED BY <1>2, <1>3, <2>2, <2>3, <2>4, <2>5, <3>2
  <2>8. ASSUME \A u \in (c + 1)..(t - 1) : Row(database, u) => database[u] >= Added
        PROVE  /\ sum >= Stored(database) + (D + Gain(t))
               /\ \A u \in (c + 1)..t : Row(later, u) => later[u] >= Added
    <3>1. ASSUME NEW u \in (c + 1)..(b - 1), Row(later, u) PROVE later[u] >= Added
      <4>1. u \in (c + 1)..(t - 1)
        BY <1>1
      <4> QED BY <2>6, <2>8, <3>1, <4>1 DEF SameRow
    <3>2. before >= Stored(database) + (total[b] - total[c])
      BY <2>3, <2>4, <3>1
    <3>3. sum >= Stored(database) + (D + Gain(t))
      BY <1>2, <1>3, <2>2, <2>3, <2>4, <2>5, <3>2
    <3>4. \A u \in (c + 1)..t : u \in (c + 1)..(b - 1) \/ u = b \/ u = t
      BY <1>1
    <3>5. \A u \in (c + 1)..t : Row(later, u) => later[u] >= Added
      BY <1>2, <1>11, <1>12, <1>15, <3>1, <3>4
    <3> QED BY <3>3, <3>5
  <2> QED BY <1>2, <1>7, <1>13, <2>2, <2>3, <2>7, <2>8 DEF sum, later, D, c
<1> QED BY <1>1, <1>14, <1>15

\* The first observation of a station that has no reference.
LEMMA NoReference ==
  ASSUME NEW t \in Nat, NEW unset \in Unset, gauge # "thplnbiot", ~Fresh
  PROVE  Table(Observations(t, unset), t)
<1>1. Observations(t, unset) = [u \in {t} |-> unset]
  BY DEF Observations
<1>2. unset \in Int \cup {NaN}
  <2>1. Unset \subseteq Int \cup {NaN}
    BY DEF Unset
  <2> QED BY <2>1
<1> QED BY <1>1, <1>2 DEF Table

-----------------------------------------------------------------------------
(* The steps                                                                *)

LEMMA Starts ==
  ASSUME NEW most \in Nat, RainInit \/ RainIdle
  PROVE  Inv(most)
<1>1. cassandra = <<>> /\ timescale = <<>> /\ cache = NoCache
      /\ wraps = 0 /\ dry = 0 /\ faults = 0 /\ cacheFaults = 0 /\ duplicates = 0
  BY DEF RainInit, RainIdle
<1>2. Counters
  BY <1>1 DEF RainInit, RainIdle, Counters
<1>3. ASSUME gauge # NoGauge PROVE Counting(most)
  <2>1. gauge \in Gauges /\ total = [t \in {0} |-> Start]
    BY <1>3 DEF RainInit, RainIdle
  <2>2. {0} = 0..0
    OBVIOUS
  <2>3. Now = 0
    <3>1. DOMAIN total = 0..0
      BY <2>1, <2>2
    <3> QED BY <3>1, LatestIsNow DEF Now
  <2>4. Start \in Nat
    BY DEF Start
  <2>5. total[0] = Start /\ total \in [0..0 -> Nat]
    BY <2>1, <2>2, <2>4
  <2>6. \A a, b \in 0..0 : a <= b => total[a] <= total[b] /\ total[b] - total[a] <= (b - a) * most
    <3>1. \A a, b \in 0..0 : a = 0 /\ b = 0
      OBVIOUS
    <3>2. total[0] <= total[0] /\ total[0] - total[0] <= (0 - 0) * most
      <4>1. \A n \in Nat : n <= n /\ n - n <= (0 - 0) * most
        OBVIOUS
      <4> QED BY <2>4, <2>5, <4>1
    <3> QED BY <3>1, <3>2
  <2> QED BY <2>3, <2>5, <2>6, RainAssumption DEF Counting
<1>4. Tables
  <2>1. DOMAIN cassandra = {} /\ DOMAIN timescale = {}
    BY <1>1
  <2> QED BY <2>1 DEF Tables, Table
<1> QED BY <1>1, <1>2, <1>3, <1>4 DEF Inv

LEMMA CountStep ==
  ASSUME NEW most \in Nat, NoFullTurn(most), Inv(most), gauge # NoGauge, Count
  PROVE  Inv(most)'
<1> USE DEF Count
<1>1. Counting(most) /\ gauge \in Gauges
  BY DEF Inv, Counters
<1>2. PICK n \in Steps : total' = [t \in 0..(Now + 1) |-> IF t <= Now THEN total[t] ELSE total[Now] + n]
  OBVIOUS
<1>3. n \in Nat /\ n <= most
  BY DEF NoFullTurn
<1>4. Now \in Nat /\ Now < MaxTime /\ MaxTime \in Nat /\ \A a \in 0..Now : total[a] \in Nat
  BY <1>1, RainAssumption DEF Counting
<1>5. Now' = Now + 1
  <2>1. DOMAIN total' = 0..(Now + 1)
    BY <1>2
  <2>2. Now + 1 \in Nat
    BY <1>4
  <2>3. Max(DOMAIN total') = Now + 1
    BY <2>1, <2>2, LatestIsNow
  <2> QED BY <2>3 DEF Now
<1>6. \A t \in 0..Now : total'[t] = total[t]
  BY <1>2, <1>4
<1>7. total'[Now + 1] = total[Now] + n
  BY <1>2, <1>4
<1>8. Counting(most)'
  <2>1. total' \in [0..(Now + 1) -> Nat]
    BY <1>2, <1>3, <1>4
  <2>2. total'[0] = Start'
    BY <1>1, <1>4, <1>6 DEF Counting, Start
  <2>3. ASSUME NEW a \in 0..(Now + 1), NEW b \in 0..(Now + 1), a <= b
        PROVE  total'[a] <= total'[b] /\ total'[b] - total'[a] <= (b - a) * most
    <3>1. CASE b \in 0..Now
      <4>1. a \in 0..Now
        BY <1>4, <2>3, <3>1
      <4> QED BY <1>1, <1>6, <2>3, <3>1, <4>1 DEF Counting
    <3>2. CASE b = Now + 1 /\ a \in 0..Now
      <4>1. /\ total[a] <= total[Now] /\ total[Now] - total[a] <= (Now - a) * most
            /\ total[a] \in Nat /\ total[Now] \in Nat
        BY <1>1, <1>4, <3>2 DEF Counting
      <4>2. (b - a) * most = (Now - a) * most + most
        BY <1>4, <3>2
      <4> DEFINE x == (Now - a) * most
      <4>3. x \in Int
        BY <1>4, <3>2
      <4> HIDE DEF x
      <4>4. total'[a] = total[a] /\ total'[b] = total[Now] + n
        BY <1>6, <1>7, <3>2
      <4>5. total[Now] - total[a] <= x /\ (b - a) * most = x + most
        BY <4>1, <4>2 DEF x
      <4> QED BY <1>3, <4>1, <4>3, <4>4, <4>5
    <3>3. CASE b = Now + 1 /\ a = Now + 1
      <4>1. total'[a] = total'[b] /\ total'[b] \in Nat /\ (b - a) * most = 0
        BY <1>3, <1>4, <1>7, <3>3
      <4> QED BY <4>1
    <3> QED BY <1>4, <3>1, <3>2, <3>3
  <2>4. Now' \in 0..MaxTime'
    BY <1>4, <1>5
  <2> QED BY <1>5, <2>1, <2>2, <2>3, <2>4 DEF Counting
<1>9. \A t \in 0..Now : High3(t)' = High3(t) /\ Counter(t)' = Counter(t)
  <2> SUFFICES ASSUME NEW t \in 0..Now PROVE High3(t)' = High3(t) /\ Counter(t)' = Counter(t)
    OBVIOUS
  <2>1. High3(t)' = High3(t)
    BY <1>6 DEF High3
  <2>2. Width(gauge)' = Width(gauge)
    OBVIOUS
  <2> QED BY <1>6, <2>1, <2>2 DEF Counter
<1>10. ASSUME Tables PROVE Tables'
  BY <1>4, <1>5, <1>10 DEF Tables, Table
<1>11. ASSUME Tables, Accounts PROVE Accounts'
  <2>1. cache.time \in 0..Now /\ origin \in 0..Now /\ cache.clicks = Counter(cache.time) /\ origin \in 0..cache.time
    BY <1>4, <1>11 DEF Accounts, CachedClicks
  <2>2. CachedClicks'
    BY <1>4, <1>5, <1>9, <2>1 DEF CachedClicks
  <2>3. Added' = Added
    BY DEF Added
  <2>4. Pending'
    <3>1. ASSUME NEW u, Row(cassandra, u), u > cache.time, Reference(u), Onward(u)'
          PROVE  cassandra[u] >= Added
      <4>1. u \in 0..Now
        BY <1>11, <3>1 DEF Tables, Table, Row
      <4>2. Onward(u)
        BY <1>9, <3>1, <4>1 DEF Onward
      <4> QED BY <1>11, <3>1, <4>2 DEF Accounts, Pending
    <3>2. \A u : Reference(u)' = Reference(u)
      BY DEF Reference
    <3> QED BY <2>3, <3>1, <3>2 DEF Pending
  <2>5. Counted' = Counted
    BY <1>6, <2>1 DEF Counted
  <2>6. Known' = Known
    <3>1. High3(cache.time)' = High3(cache.time) /\ High3(origin)' = High3(origin)
      BY <1>6, <2>1 DEF High3
    <3> QED BY <3>1, SMT DEF Known
  <2>7. Stored(cassandra)' = Stored(cassandra) /\ Stored(timescale)' = Stored(timescale)
    BY <2>3, StoredSums
  <2> QED BY <1>11, <2>2, <2>4, <2>5, <2>6, <2>7 DEF Accounts, StoredOnce, StoredAtLeast
<1>12. Counters'
  BY DEF Inv, Counters
<1>13. CachedFirst' = CachedFirst
  BY DEF CachedFirst
<1> QED BY <1>8, <1>10, <1>11, <1>12, <1>13 DEF Inv

\* The new clicks in the cache, after both insertions.
LEMMA CachedStep ==
  ASSUME NEW most \in Nat, NoFullTurn(most), Counting(most), Counters, gauge \in Gauges,
         NEW t \in Nat, t = Now, cache.time < t, UNCHANGED <<gauge, total, cacheFaults>>,
         cache' = [time |-> t, clicks |-> Counter(t)], Account(t), Tables, cache = NoCache \/ Accounts,
         NEW observations, cassandra' = Insert(cassandra, observations),
         timescale' = Insert(timescale, observations),
         Table(cassandra', t), Table(timescale', t),
         gauge = "thplnbiot" => observations = ThplnbiotRains(Archived(t)),
         gauge # "thplnbiot" /\ Fresh =>
             DOMAIN observations = {t} /\ observations[t] = Rain(cache.clicks, Counter(t))
  PROVE  Tables' /\ Accounts'
<1>1. Now' = t /\ cache'.time = t
  BY Steady
<1>2. Tables'
  BY <1>1 DEF Tables, Table
<1>3. t \in 0..Now /\ total[t] \in Nat
  BY WithinATurn
<1>4. CASE cache = NoCache \/ (gauge # "thplnbiot" /\ ~Fresh)
  <2>1. origin' = t /\ wraps' = 0 /\ dry' = 0
    BY <1>4 DEF Account
  <2>2. Accounts'
    BY <1>3, <2>1, Begun
  <2> QED BY <1>2, <2>2
<1>5. CASE cache # NoCache /\ (gauge = "thplnbiot" \/ Fresh)
  <2>1. /\ UNCHANGED origin
        /\ wraps' = wraps + (IF Counter(t) < cache.clicks THEN 1 ELSE 0)
        /\ dry' = dry + (IF Counter(t) = cache.clicks THEN 1 ELSE 0)
    BY <1>5 DEF Account
  <2>2. Accounts /\ CachedClicks /\ cache.time \in 0..Now /\ origin \in 0..Now
    BY <1>3, <1>5 DEF Accounts, CachedClicks
  <2>3. total[cache.time] \in Nat /\ total[origin] \in Nat
    BY <2>2, WithinATurn
  <2> DEFINE D == total[t] - total[cache.time]
             onCassandra == SumTo(Nets(Insert(cassandra, observations), origin, t, Added), t)
             onTimescale == SumTo(Nets(Insert(timescale, observations), origin, t, Added), t)
  <2>4. Stored(cassandra)' = onCassandra /\ Stored(timescale)' = onTimescale
    BY <1>1, <2>1, Steady, StoredSums
  <2>5. Table(cassandra, t) /\ Table(timescale, t)
    BY DEF Tables
  <2>6. /\ onCassandra \in Int /\ onTimescale \in Int
        /\ Stored(cassandra) \in Int /\ Stored(timescale) \in Int
        /\ cacheFaults = 0 => onTimescale = Stored(timescale) + (D + Gain(t))
        /\ ~(gauge = "rain_gauge" /\ wraps' > 0) => onCassandra >= Stored(cassandra) + (D + Gain(t))
    <3>1. cacheFaults = 0 => DOMAIN timescale \subseteq 0..cache.time
      BY DEF Tables
    <3>2. CASE gauge = "thplnbiot"
      <4>1. /\ onTimescale \in Int /\ Stored(timescale) \in Int
            /\ DOMAIN timescale \subseteq 0..cache.time => onTimescale = Stored(timescale) + (D + Gain(t))
        BY <1>5, <2>2, <2>5, <3>2, Stored2
      <4>2. /\ onCassandra \in Int /\ Stored(cassandra) \in Int
            /\ (\A u \in (cache.time + 1)..(t - 1) : Row(cassandra, u) => cassandra[u] >= Added) =>
                 onCassandra >= Stored(cassandra) + (D + Gain(t))
        BY <1>5, <2>2, <2>5, <3>2, Stored2
      <4>3. ASSUME NEW u \in (cache.time + 1)..(t - 1), Row(cassandra, u)
            PROVE  cassandra[u] >= Added
        <5>1. u > cache.time
          BY <2>2
        <5> QED BY <2>2, <3>2, <4>3, <5>1 DEF Accounts, Pending, Reference, Onward
      <4> HIDE DEF onCassandra, onTimescale, D
      <4> QED BY <3>1, <4>1, <4>2, <4>3
    <3>3. CASE gauge # "thplnbiot"
      <4>1. Fresh /\ cache.time > t - Staleness
        BY <1>5, <3>3 DEF Fresh
      <4>2. DOMAIN observations = {t} /\ observations[t] = Rain(cache.clicks, Counter(t))
        BY <3>3, <4>1
      <4>3. /\ onTimescale \in Int /\ Stored(timescale) \in Int
            /\ DOMAIN timescale \subseteq 0..cache.time => onTimescale = Stored(timescale) + (D + Gain(t))
        BY <2>2, <2>5, <3>3, <4>1, <4>2, Stored1
      <4>4. /\ onCassandra \in Int /\ Stored(cassandra) \in Int
            /\ Onward(t) /\ (\A u \in (cache.time + 1)..(t - 1) :
                                  Row(cassandra, u) /\ Onward(u) => cassandra[u] >= Added) =>
                 onCassandra >= Stored(cassandra) + (D + Gain(t))
        BY <2>2, <2>5, <3>3, <4>1, <4>2, Stored1
      <4>5. ASSUME NEW u \in (cache.time + 1)..(t - 1), Row(cassandra, u), Onward(u)
            PROVE  cassandra[u] >= Added
        <5>1. u > cache.time /\ cache.time > u - Staleness
          BY <2>2, <4>1, RainAssumption
        <5> QED BY <2>2, <4>5, <5>1 DEF Accounts, Pending, Reference
      <4>6. ~(gauge = "rain_gauge" /\ wraps' > 0) => Onward(t)
        <5>1. Counter(t) \in Nat /\ cache.clicks \in Nat /\ wraps \in Nat
          BY <1>3, <2>2, <2>3, CounterReads DEF CachedClicks, Counters
        <5> QED BY <2>1, <5>1 DEF Onward
      <4> HIDE DEF onCassandra, onTimescale, D
      <4> QED BY <3>1, <4>3, <4>4, <4>5, <4>6
    <3> QED BY <3>2, <3>3
  <2>7. {wraps, dry} \subseteq Nat
    BY DEF Counters
  <2> HIDE DEF onCassandra, onTimescale
  <2>8. Accounts'
    BY <1>3, <2>1, <2>2, <2>3, <2>4, <2>6, <2>7, WentOn
  <2> QED BY <1>2, <2>8
<1> QED BY <1>4, <1>5

\* What is stored of a message whose clicks are not cached.
LEMMA UncachedStep ==
  ASSUME NEW most \in Nat, NoFullTurn(most), Counting(most), gauge \in Gauges,
         NEW t \in Nat, t = Now, cache.time < t,
         UNCHANGED <<gauge, total, cache, origin, wraps, dry>>, Tables, cache = NoCache \/ Accounts,
         cacheFaults' = 0 => cacheFaults = 0 /\ timescale' = timescale,
         NEW observations, cassandra' \in {cassandra, Insert(cassandra, observations)},
         Table(cassandra', t), Table(timescale', t),
         gauge = "thplnbiot" => observations = ThplnbiotRains(Archived(t)),
         gauge # "thplnbiot" => DOMAIN observations = {t},
         gauge # "thplnbiot" /\ Fresh => observations[t] = Rain(cache.clicks, Counter(t))
  PROVE  Tables' /\ (cache = NoCache \/ Accounts)'
<1>1. Now' = t
  BY Steady
<1>2. Tables'
  BY <1>1 DEF Tables
<1>3. SUFFICES ASSUME cache # NoCache PROVE Accounts'
  BY <1>2
<1>4. Accounts /\ CachedClicks /\ cache.time \in 0..Now /\ Table(cassandra, t)
  BY <1>3 DEF Accounts, CachedClicks, Tables
<1>5. \A u : Onward(u)' = Onward(u) /\ Reference(u)' = Reference(u)
  BY Steady DEF Onward, Reference
<1>6. Added' = Added
  BY Steady
<1>7. ASSUME /\ \A u \in 0..cache.time : SameRow(cassandra, cassandra', u)
             /\ \A u : Row(cassandra', u) /\ u > cache.time /\ Reference(u) /\ Onward(u) =>
                            cassandra'[u] >= Added
      PROVE  Accounts'
  <2>1. Pending'
    BY <1>5, <1>6, <1>7 DEF Pending
  <2> QED BY <1>4, <1>7, <2>1, Kept
<1>8. CASE cassandra' = cassandra
  <2>1. \A u : SameRow(cassandra, cassandra', u)
    BY <1>8 DEF SameRow
  <2>2. Pending
    BY <1>4 DEF Accounts
  <2> QED BY <1>7, <1>8, <2>1, <2>2 DEF Pending
<1>9. CASE cassandra' = Insert(cassandra, observations) /\ gauge = "thplnbiot"
  <2> DEFINE later == Insert(cassandra, observations)
  <2>1. /\ Table(later, t)
        /\ \A u \in 0..cache.time : SameRow(cassandra, later, u)
        /\ (\A u \in (cache.time + 1)..(t - 1) : Row(cassandra, u) => cassandra[u] >= Added) =>
             \A u \in (cache.time + 1)..t : Row(later, u) => later[u] >= Added
    BY <1>3, <1>4, <1>9, Stored2
  <2> HIDE DEF later
  <2>2. ASSUME NEW u \in (cache.time + 1)..(t - 1), Row(cassandra, u)
        PROVE  cassandra[u] >= Added
    <3>1. u > cache.time
      BY <1>4
    <3> QED BY <1>4, <1>9, <2>2, <3>1 DEF Accounts, Pending, Reference, Onward
  <2>3. ASSUME NEW u, Row(later, u), u > cache.time PROVE later[u] >= Added
    <3>1. u \in 0..t
      BY <2>1, <2>3 DEF Table, Row
    <3>2. u \in (cache.time + 1)..t
      BY <1>4, <2>3, <3>1
    <3> QED BY <2>1, <2>2, <2>3, <3>2
  <2>4. cassandra' = later
    BY <1>9 DEF later
  <2> QED BY <1>7, <2>1, <2>3, <2>4
<1>10. CASE cassandra' = Insert(cassandra, observations) /\ gauge # "thplnbiot"
  <2> DEFINE later == Insert(cassandra, observations)
  <2>1. \A u : u # t => SameRow(cassandra, later, u)
    <3>1. \A u : u # t => u \notin DOMAIN observations
      BY <1>10
    <3> QED BY <3>1, Inserted
  <2>2. Fresh /\ Onward(t) => later[t] >= Added
    <3> SUFFICES ASSUME Fresh, Onward(t) PROVE later[t] >= Added
      OBVIOUS
    <3>1. cache.time > t - Staleness
      BY DEF Fresh
    <3>2. DOMAIN observations = {t} /\ observations[t] = Rain(cache.clicks, Counter(t))
      BY <1>10
    <3> QED BY <1>4, <1>10, <3>1, <3>2, Stored1
  <2> HIDE DEF later
  <2>3. Reference(t) => Fresh
    BY <1>3, <1>10 DEF Reference, Fresh
  <2>4. ASSUME NEW u, Row(later, u), u > cache.time, Reference(u), Onward(u)
        PROVE  later[u] >= Added
    <3>1. CASE u = t
      BY <2>2, <2>3, <2>4, <3>1
    <3>2. CASE u # t
      BY <1>4, <2>1, <2>4, <3>2 DEF Accounts, Pending, SameRow
    <3> QED BY <3>1, <3>2
  <2>5. \A u \in 0..cache.time : SameRow(cassandra, later, u)
    BY <1>4, <2>1
  <2>6. cassandra' = later
    BY <1>10 DEF later
  <2> QED BY <1>7, <2>4, <2>5, <2>6
<1> QED BY <1>8, <1>9, <1>10

\* A message over LoRaWAN.
LEMMA InsertionStep ==
  ASSUME NEW most \in Nat, NoFullTurn(most), Counting(most), Counters, gauge \in Gauges,
         gauge # "thplnbiot", NEW t \in Nat, t = Now, cache.time < t,
         Tables, cache = NoCache \/ Accounts, NEW unset \in Unset,
         Insertion(t, unset) \/ InsertionFails(t, unset)
  PROVE  Tables' /\ (cache = NoCache \/ Accounts)'
<1> DEFINE observations == Observations(t, unset)
<1>1. /\ DOMAIN observations = {t}
      /\ Fresh => observations[t] = Rain(cache.clicks, Counter(t))
  BY DEF Observations
<1>2. Table(cassandra, t) /\ Table(timescale, t)
  BY DEF Tables
<1>3. ASSUME NEW database, Table(database, t)
      PROVE  Table(Insert(database, observations), t)
  <2>1. CASE Fresh
    <3>1. cache # NoCache /\ cache.time > t - Staleness
      BY <2>1 DEF Fresh
    <3>2. CachedClicks
      BY <3>1 DEF Accounts
    <3>3. observations[t] = Rain(cache.clicks, Counter(t))
      BY <1>1, <2>1
    <3> HIDE DEF observations
    <3> QED BY <1>1, <1>3, <3>1, <3>2, <3>3, Stored1
  <2>2. CASE ~Fresh
    <3>1. Table(observations, t)
      BY <2>2, NoReference
    <3> HIDE DEF observations
    <3> QED BY <1>3, <3>1, TableInserted
  <2> QED BY <2>1, <2>2
<1>4. Table(Insert(cassandra, observations), t) /\ Table(Insert(timescale, observations), t)
  BY <1>2, <1>3
<1>5. CASE InsertionFails(t, unset)
  <2>1. /\ UNCHANGED <<gauge, total, cache, origin, wraps, dry, timescale, cacheFaults>>
        /\ cassandra' \in {cassandra, Insert(cassandra, observations)}
    BY <1>5 DEF InsertionFails
  <2>2. Table(cassandra', t) /\ Table(timescale', t)
    BY <1>2, <1>4, <2>1
  <2> HIDE DEF observations
  <2> QED BY <1>1, <2>1, <2>2, UncachedStep
<1>6. CASE Insertion(t, unset)
  <2>1. /\ UNCHANGED <<gauge, total>> /\ CacheValues(t)
        /\ cassandra' = Insert(cassandra, observations)
        /\ timescale' = Insert(timescale, observations)
    BY <1>6 DEF Insertion
  <2>2. Table(cassandra', t) /\ Table(timescale', t)
    BY <1>4, <2>1
  <2> HIDE DEF observations
  <2>3. CASE cache' = [time |-> t, clicks |-> Counter(t)] /\ Account(t) /\ UNCHANGED cacheFaults
    <3>1. Tables' /\ Accounts'
      BY <1>1, <2>1, <2>2, <2>3, CachedStep
    <3> QED BY <3>1
  <2>4. CASE cacheFaults' = cacheFaults + 1 /\ UNCHANGED <<cache, origin, wraps, dry>>
    <3>1. cacheFaults' # 0
      BY <2>4 DEF Counters
    <3>2. cassandra' \in {cassandra, Insert(cassandra, observations)}
      BY <2>1
    <3> QED BY <1>1, <2>1, <2>2, <2>4, <3>1, <3>2, UncachedStep
  <2> QED BY <2>1, <2>3, <2>4 DEF CacheValues
<1> QED BY <1>5, <1>6

LEMMA Refusals ==
  ASSUME NEW t \in Nat, NEW refused \in SUBSET DOMAIN ThplnbiotRains(Archived(t))
  PROVE  Cardinality(refused) \in Nat /\ (Cardinality(refused) = 0 => refused = {})
<1>1. IsFiniteSet({t - 1, t})
  <2>1. IsFiniteSet({t - 1})
    BY FS_Singleton
  <2>2. {t - 1, t} = {t - 1} \cup {t}
    OBVIOUS
  <2> QED BY <2>1, <2>2, FS_AddElement
<1>2. refused \subseteq {t - 1, t}
  BY DEF ThplnbiotRains, Archived
<1>3. IsFiniteSet(refused)
  BY <1>1, <1>2, FS_Subset
<1> QED BY <1>3, FS_CardinalityType, FS_EmptySet

\* A message over UDP.
LEMMA ProcessStep ==
  ASSUME NEW most \in Nat, NoFullTurn(most), Counting(most), Counters, gauge \in Gauges,
         gauge = "thplnbiot", NEW t \in Nat, t = Now, cache.time < t,
         Tables, cache = NoCache \/ Accounts, ProcessRequest(t), faults' = 0
  PROVE  Tables' /\ (cache = NoCache \/ Accounts)'
<1> DEFINE observations == ThplnbiotRains(Archived(t))
<1>1. Observations(t, NaN) = observations
  BY DEF Observations
<1>2. PICK refused \in SUBSET DOMAIN observations, lost \in {0, 1} :
        /\ cassandra' = Insert(cassandra, Restrict(observations, DOMAIN observations \ refused))
        /\ timescale' = IF lost = 1 THEN timescale ELSE Insert(timescale, observations)
        /\ faults' = faults + Cardinality(refused) + lost
  BY <1>1 DEF ProcessRequest
<1>3. refused = {} /\ lost = 0
  <2>1. Cardinality(refused) \in Nat /\ (Cardinality(refused) = 0 => refused = {})
    BY Refusals
  <2>2. faults \in Nat
    BY DEF Counters
  <2> DEFINE k == Cardinality(refused)
  <2>3. k \in Nat /\ 0 = (faults + k) + lost
    BY <1>2, <2>1
  <2> HIDE DEF k, observations
  <2>4. k = 0 /\ lost = 0
    BY <2>2, <2>3
  <2> QED BY <2>1, <2>4 DEF k
<1>4. Restrict(observations, DOMAIN observations \ refused) = observations
  <2>1. observations = [u \in DOMAIN observations |-> observations[u]]
    BY DEF ThplnbiotRains
  <2>2. DOMAIN observations \ refused = DOMAIN observations
    BY <1>3
  <2> HIDE DEF observations
  <2> QED BY <2>1, <2>2 DEF Restrict
<1>5. cassandra' = Insert(cassandra, observations) /\ timescale' = Insert(timescale, observations)
  BY <1>2, <1>3, <1>4
<1>6. UNCHANGED <<gauge, total>> /\ CacheValues(t)
  BY DEF ProcessRequest
<1>7. Table(cassandra, t) /\ Table(timescale, t)
  BY DEF Tables
<1>8. ASSUME NEW database, Table(database, t)
      PROVE  Table(Insert(database, observations), t)
  <2>1. CASE cache = NoCache
    <3>1. \A u \in DOMAIN observations : observations[u] = NaN
      BY <2>1 DEF ThplnbiotRains
    <3>2. DOMAIN observations \subseteq 0..t
      BY DEF ThplnbiotRains, Archived
    <3>3. Table(observations, t)
      BY <3>1, <3>2 DEF Table
    <3> HIDE DEF observations
    <3> QED BY <1>8, <3>3, TableInserted
  <2>2. CASE cache # NoCache
    <3>1. CachedClicks
      BY <2>2 DEF Accounts
    <3> QED BY <1>8, <2>2, <3>1, Stored2
  <2> QED BY <2>1, <2>2
<1>9. Table(cassandra', t) /\ Table(timescale', t)
  BY <1>5, <1>7, <1>8
<1> HIDE DEF observations
<1>10. observations = ThplnbiotRains(Archived(t))
  BY DEF observations
<1>11. CASE cache' = [time |-> t, clicks |-> Counter(t)] /\ Account(t) /\ UNCHANGED cacheFaults
  <2>1. Tables' /\ Accounts'
    BY <1>5, <1>6, <1>9, <1>10, <1>11, CachedStep
  <2> QED BY <2>1
<1>12. CASE cacheFaults' = cacheFaults + 1 /\ UNCHANGED <<cache, origin, wraps, dry>>
  <2>1. cacheFaults' # 0
    BY <1>12 DEF Counters
  <2>2. cassandra' \in {cassandra, Insert(cassandra, observations)}
    BY <1>5
  <2> QED BY <1>6, <1>9, <1>10, <1>12, <2>1, <2>2, UncachedStep
<1> QED BY <1>6, <1>11, <1>12 DEF CacheValues

LEMMA CountersStep ==
  ASSUME Counters, gauge # NoGauge, NEW t \in Nat, Receive(t)
  PROVE  /\ Counters' /\ UNCHANGED <<gauge, total>>
         /\ faults' >= faults /\ duplicates' >= duplicates
<1>1. /\ faults \in Nat /\ cacheFaults \in Nat /\ duplicates \in Nat /\ wraps \in Nat /\ dry \in Nat
  BY DEF Counters
<1>2. duplicates' \in Nat /\ duplicates' >= duplicates
  BY <1>1 DEF Receive, Delivered
<1>3. ASSUME CacheValues(t)
      PROVE  cacheFaults' \in Nat /\ wraps' \in Nat /\ dry' \in Nat
  <2>1. CASE Account(t) /\ UNCHANGED cacheFaults
    <3>1. CASE origin' = t /\ wraps' = 0 /\ dry' = 0
      BY <1>1, <2>1, <3>1
    <3>2. CASE /\ wraps' = wraps + (IF Counter(t) < cache.clicks THEN 1 ELSE 0)
               /\ dry' = dry + (IF Counter(t) = cache.clicks THEN 1 ELSE 0)
      BY <1>1, <2>1, <3>2
    <3> QED BY <2>1, <3>1, <3>2 DEF Account
  <2>2. CASE cacheFaults' = cacheFaults + 1 /\ UNCHANGED <<cache, origin, wraps, dry>>
    BY <1>1, <2>2
  <2> QED BY <1>3, <2>1, <2>2 DEF CacheValues
<1>4. CASE gauge = "thplnbiot"
  <2>1. ProcessRequest(t)
    BY <1>4 DEF Receive
  <2>2. PICK refused \in SUBSET DOMAIN ThplnbiotRains(Archived(t)), lost \in {0, 1} :
            faults' = faults + Cardinality(refused) + lost
    BY <1>4, <2>1 DEF ProcessRequest, Observations
  <2>3. Cardinality(refused) \in Nat
    BY Refusals
  <2>4. faults' \in Nat /\ faults' >= faults
    BY <1>1, <2>2, <2>3
  <2>5. UNCHANGED <<gauge, total>> /\ CacheValues(t)
    BY <2>1 DEF ProcessRequest
  <2> QED BY <1>2, <1>3, <2>4, <2>5 DEF Counters
<1>5. CASE gauge # "thplnbiot"
  <2>1. PICK unset \in Unset : Insertion(t, unset) \/ InsertionFails(t, unset)
    BY <1>5 DEF Receive
  <2>2. CASE Insertion(t, unset)
    <3>1. UNCHANGED <<gauge, total, faults>> /\ CacheValues(t)
      BY <2>2 DEF Insertion
    <3> QED BY <1>1, <1>2, <1>3, <3>1 DEF Counters
  <2>3. CASE InsertionFails(t, unset)
    <3>1. UNCHANGED <<gauge, total, cacheFaults, wraps, dry>> /\ faults' = faults + 1
      BY <2>3 DEF InsertionFails
    <3> QED BY <1>1, <1>2, <3>1 DEF Counters
  <2> QED BY <2>1, <2>2, <2>3
<1> QED BY <1>4, <1>5

LEMMA ReceiveStep ==
  ASSUME NEW most \in Nat, NoFullTurn(most), Inv(most), gauge # NoGauge,
         NEW t \in DOMAIN total, Receive(t)
  PROVE  Inv(most)'
<1>1. Counters /\ Counting(most) /\ gauge \in Gauges
  BY DEF Inv, Counters
<1>2. t \in Nat
  BY <1>1, WithinATurn DEF Counting
<1>3. /\ Counters' /\ UNCHANGED <<gauge, total>>
      /\ faults' >= faults /\ duplicates' >= duplicates
  BY <1>1, <1>2, CountersStep
<1>4. Counting(most)'
  BY <1>1, <1>3, Steady DEF Counting, Start
<1>5. ASSUME duplicates' = 0, ~CachedFirst'
      PROVE  Tables' /\ (cache = NoCache \/ Accounts)'
  <2>1. faults \in Nat /\ faults' \in Nat /\ duplicates \in Nat
    BY <1>1, <1>3 DEF Counters
  <2>2. duplicates = 0 /\ ~CachedFirst /\ (gauge = "thplnbiot" => faults' = 0)
    BY <1>3, <1>5, <2>1 DEF CachedFirst
  <2>3. Tables /\ (cache = NoCache \/ Accounts)
    BY <2>2 DEF Inv
  <2>4. t = Now /\ cache.time < t
    <3>1. Delivered(t)
      BY DEF Receive
    <3>2. t = Now /\ t > cache.time
      BY <1>5, <2>2, <3>1 DEF Delivered
    <3>3. cache.time \in Int
      BY <1>2, <2>3 DEF NoCache, Accounts, CachedClicks
    <3> QED BY <1>2, <3>2, <3>3
  <2>5. CASE gauge = "thplnbiot"
    <3>1. ProcessRequest(t)
      BY <2>5 DEF Receive
    <3> QED BY <1>1, <1>2, <2>2, <2>3, <2>4, <2>5, <3>1, ProcessStep
  <2>6. CASE gauge # "thplnbiot"
    <3>1. PICK unset \in Unset : Insertion(t, unset) \/ InsertionFails(t, unset)
      BY <2>6 DEF Receive
    <3> QED BY <1>1, <1>2, <2>3, <2>4, <2>6, <3>1, InsertionStep
  <2> QED BY <2>5, <2>6
<1> QED BY <1>3, <1>4, <1>5 DEF Inv

-----------------------------------------------------------------------------
(* The rain is stored once                                                  *)

\* Whatever insertions, updates of the cache and messages are lost, the rain between
\* two cached counts of a gauge is in Timescale once and in Cassandra at least once,
\* but for what its decoder is known to add or to lose, when no counter goes round
\* more than once in a day: for any number of messages, faults and clicks.
THEOREM GaugeRainCounted ==
  ASSUME NEW most \in Nat, NoFullTurn(most)
  PROVE  Spec => []GaugeRainIsCounted
<1>1. Init => Inv(most)
  BY Starts DEF Init
<1>2. Inv(most) /\ [Next]_<<rainVars, rainFileVars, climVars>> => Inv(most)'
  <2> SUFFICES ASSUME Inv(most), [Next]_<<rainVars, rainFileVars, climVars>> PROVE Inv(most)'
    OBVIOUS
  <2>1. CASE RainNext
    <3>1. gauge # NoGauge
      BY <2>1 DEF RainNext
    <3>2. CASE Count
      BY <3>1, <3>2, CountStep
    <3>3. CASE \E t \in DOMAIN total : Receive(t)
      BY <3>1, <3>3, ReceiveStep
    <3> QED BY <2>1, <3>2, <3>3 DEF RainNext
  <2>2. CASE UNCHANGED rainVars
    <3>1. UNCHANGED <<gauge, total, cassandra, timescale, cache, origin, wraps, dry,
                      faults, cacheFaults, duplicates>>
      BY <2>2 DEF rainVars
    <3>2. Counters' /\ CachedFirst' = CachedFirst
      BY <3>1 DEF Inv, Counters, CachedFirst
    <3>3. Counting(most) => Counting(most)'
      BY <3>1, Steady DEF Counting, Start
    <3>4. Tables => Tables'
      BY <3>1, Steady DEF Tables
    <3>5. gauge # NoGauge /\ Tables /\ Accounts => Accounts'
      <4> SUFFICES ASSUME gauge # NoGauge, Tables, Accounts PROVE Accounts'
        OBVIOUS
      <4>1. gauge \in Gauges /\ Counting(most)
        BY DEF Inv, Counters
      <4>2. Now \in Nat
        BY <4>1 DEF Counting
      <4>3. \A t : SameRow(cassandra, cassandra', t)
        BY <3>1 DEF SameRow
      <4>4. \A t : Onward(t)' = Onward(t) /\ Reference(t)' = Reference(t)
        BY <3>1, Steady DEF Onward, Reference
      <4>5. Pending'
        BY <3>1, <4>4, Steady DEF Accounts, Pending
      <4> QED BY <3>1, <4>2, <4>3, <4>5, Kept DEF Tables
    <3> QED BY <3>1, <3>2, <3>3, <3>4, <3>5 DEF Inv
  <2>3. RainNext \/ UNCHANGED rainVars
    BY DEF Next
  <2> QED BY <2>1, <2>2, <2>3
<1>3. Inv(most) => GaugeRainIsCounted
  <2> SUFFICES ASSUME Inv(most), cache # NoCache, duplicates = 0, ~CachedFirst
               PROVE  /\ cacheFaults = 0 => Stored(timescale) = Counted + Known
                      /\ ~(gauge = "rain_gauge" /\ wraps > 0) => Stored(cassandra) >= Counted + Known
    BY DEF GaugeRainIsCounted, RainIsCounted, RainIsNotLost
  <2>1. Accounts
    BY DEF Inv, Counters
  <2> QED BY <2>1 DEF Accounts, StoredOnce, StoredAtLeast
<1> QED BY <1>1, <1>2, <1>3, PTL DEF Spec

-----------------------------------------------------------------------------
(* The rain of the files: sums of rows                                      *)

IsTable(rows) ==
    DOMAIN rows \subseteq 0..LastTick /\ \A u \in DOMAIN rows : rows[u] \in Int
Old(rows, t) == IF t \in DOMAIN rows THEN rows[t] ELSE 0

LEMMA RowValues ==
  ASSUME NEW rows, IsTable(rows), NEW a \in Int, NEW b \in Int
  PROVE  /\ RowsBetween(rows, a, b) \in [Nat -> Int]
         /\ \A k \in Nat : RowsBetween(rows, a, b)[k] =
                IF k \in DOMAIN rows /\ a <= k /\ k <= b THEN rows[k] ELSE 0
         /\ LastTick \in Nat /\ RainBetween(rows, a, b) \in Int
<1>1. RowsBetween(rows, a, b) \in [Nat -> Int]
  BY DEF RowsBetween, IsTable
<1>2. LastTick \in Nat
  BY DayRainAssumption
<1>3. RainBetween(rows, a, b) \in Int
  BY <1>1, <1>2, SumDefinition DEF RainBetween
<1> QED BY <1>1, <1>2, <1>3 DEF RowsBetween

\* The same rows make the same rain.
LEMMA SameRain ==
  ASSUME NEW rows, IsTable(rows), NEW a \in Int, NEW b \in Int,
         NEW others, IsTable(others), NEW c \in Int, NEW d \in Int,
         \A u \in DOMAIN rows : a <= u /\ u <= b =>
             u \in DOMAIN others /\ c <= u /\ u <= d /\ others[u] = rows[u],
         \A u \in DOMAIN others : c <= u /\ u <= d => u \in DOMAIN rows /\ a <= u /\ u <= b
  PROVE  RainBetween(rows, a, b) = RainBetween(others, c, d)
<1> DEFINE v == RowsBetween(rows, a, b)
           w == RowsBetween(others, c, d)
<1>1. v \in [Nat -> Int] /\ w \in [Nat -> Int] /\ LastTick \in Nat
  BY RowValues
<1>2. \A k \in 0..LastTick : v[k] = w[k]
  BY <1>1, RowValues
<1> HIDE DEF v, w
<1>3. SumTo(v, LastTick) = SumTo(w, LastTick)
  BY <1>1, <1>2, SameSum
<1> QED BY <1>3 DEF RainBetween, v, w

\* No rows, no rain.
LEMMA NoRows ==
  ASSUME NEW rows, IsTable(rows), NEW a \in Int, NEW b \in Int,
         \A u \in DOMAIN rows : a <= u /\ u <= b => rows[u] = 0
  PROVE  RainBetween(rows, a, b) = 0
<1> DEFINE v == RowsBetween(rows, a, b)
<1>1. v \in [Nat -> Int] /\ LastTick \in Nat
  BY RowValues
<1>2. \A k \in Nat : v[k] = 0
  BY <1>1, RowValues
<1> HIDE DEF v
<1>3. SumTo(v, LastTick) = SumTo(v, 0) /\ SumTo(v, 0) = v[0]
  BY <1>1, <1>2, SumStays, SumDefinition
<1> QED BY <1>2, <1>3 DEF RainBetween, v

\* A new row, in the place of an old one or not.
LEMMA NewRow ==
  ASSUME NEW rows, IsTable(rows), NEW a \in Int, NEW b \in Int,
         NEW t \in 0..LastTick, NEW x \in Int,
         NEW more, more = [u \in DOMAIN rows \cup {t} |-> IF u = t THEN x ELSE rows[u]]
  PROVE  /\ IsTable(more)
         /\ a <= t /\ t <= b => RainBetween(more, a, b) = (RainBetween(rows, a, b) - Old(rows, t)) + x
         /\ ~(a <= t /\ t <= b) => RainBetween(more, a, b) = RainBetween(rows, a, b)
<1> DEFINE v == RowsBetween(rows, a, b)
           w == RowsBetween(more, a, b)
<1>1. IsTable(more)
  BY DEF IsTable
<1>2. v \in [Nat -> Int] /\ w \in [Nat -> Int] /\ LastTick \in Nat
  BY <1>1, RowValues
<1>3. \A k \in Nat : v[k] = IF k \in DOMAIN rows /\ a <= k /\ k <= b THEN rows[k] ELSE 0
  BY RowValues
<1>4. \A k \in Nat : w[k] = IF k \in DOMAIN more /\ a <= k /\ k <= b THEN more[k] ELSE 0
  BY <1>1, RowValues
<1>5. CASE a <= t /\ t <= b
  <2>1. v[t] = Old(rows, t) /\ w[t] = x
    BY <1>3, <1>4, <1>5 DEF Old
  <2>2. \A k \in 0..LastTick : k # t => w[k] = v[k]
    BY <1>2, <1>3, <1>4
  <2> HIDE DEF v, w
  <2>3. SumTo(w, LastTick) = (SumTo(v, LastTick) - v[t]) + w[t]
    BY <1>2, <2>2, SumChanges
  <2> QED BY <1>1, <1>5, <2>1, <2>3 DEF RainBetween, v, w
<1>6. CASE ~(a <= t /\ t <= b)
  <2>1. \A k \in 0..LastTick : v[k] = w[k]
    BY <1>2, <1>3, <1>4, <1>6
  <2> HIDE DEF v, w
  <2>2. SumTo(v, LastTick) = SumTo(w, LastTick)
    BY <1>2, <2>1, SameSum
  <2> QED BY <1>1, <1>6, <2>2 DEF RainBetween, v, w
<1> QED BY <1>5, <1>6

\* The rain of some times, all but a row, is at most that of the times that cover them.
LEMMA Covering ==
  ASSUME NEW rows, IsTable(rows), \A u \in DOMAIN rows : rows[u] >= 0,
         NEW a \in Int, NEW b \in Int, NEW t \in 0..LastTick, a <= t, t <= b,
         NEW c \in Int, NEW d \in Int, NEW e \in Int, NEW f \in Int,
         \A u \in DOMAIN rows : a <= u /\ u <= b /\ u # t /\ rows[u] # 0 =>
             (c <= u /\ u <= d) \/ (e <= u /\ u <= f)
  PROVE  RainBetween(rows, a, b) - Old(rows, t) <= RainBetween(rows, c, d) + RainBetween(rows, e, f)
<1> DEFINE most == [u \in DOMAIN rows \cup {t} |-> IF u = t THEN 0 ELSE rows[u]]
           v == RowsBetween(most, a, b)
           w == RowsBetween(rows, c, d)
           x == RowsBetween(rows, e, f)
<1>1. IsTable(most) /\ RainBetween(most, a, b) = (RainBetween(rows, a, b) - Old(rows, t)) + 0
  <2> HIDE DEF most
  <2>1. most = [u \in DOMAIN rows \cup {t} |-> IF u = t THEN 0 ELSE rows[u]]
    BY DEF most
  <2> QED BY <2>1, NewRow
<1>2. v \in [Nat -> Int] /\ w \in [Nat -> Int] /\ x \in [Nat -> Int] /\ LastTick \in Nat
  BY <1>1, RowValues
<1>3. \A k \in Nat : v[k] = IF k \in DOMAIN rows /\ k # t /\ a <= k /\ k <= b THEN rows[k] ELSE 0
  BY <1>1, RowValues
<1>4. \A k \in Nat : w[k] = IF k \in DOMAIN rows /\ c <= k /\ k <= d THEN rows[k] ELSE 0
  BY RowValues
<1>5. \A k \in Nat : x[k] = IF k \in DOMAIN rows /\ e <= k /\ k <= f THEN rows[k] ELSE 0
  BY RowValues
<1> HIDE DEF v, w, x, most
<1>6. \A k \in 0..LastTick : v[k] <= w[k] + x[k]
  <2> SUFFICES ASSUME NEW k \in 0..LastTick PROVE v[k] <= w[k] + x[k]
    OBVIOUS
  <2>1. k \in Nat /\ (k \in DOMAIN rows => rows[k] \in Int /\ rows[k] >= 0)
    BY DEF IsTable
  <2>2. CASE k \in DOMAIN rows /\ k # t /\ a <= k /\ k <= b /\ rows[k] # 0
    BY <1>3, <1>4, <1>5, <2>1, <2>2
  <2>3. CASE ~(k \in DOMAIN rows /\ k # t /\ a <= k /\ k <= b /\ rows[k] # 0)
    <3>1. v[k] = 0
      BY <1>3, <2>1, <2>3
    <3>2. w[k] \in Int /\ x[k] \in Int /\ w[k] >= 0 /\ x[k] >= 0
      BY <1>4, <1>5, <2>1
    <3> QED BY <3>1, <3>2
  <2> QED BY <2>2, <2>3
<1>7. SumTo(v, LastTick) <= SumTo(w, LastTick) + SumTo(x, LastTick)
  BY <1>2, <1>6, SumCovered
<1>8. RainBetween(rows, a, b) \in Int /\ Old(rows, t) \in Int /\ RainBetween(most, a, b) \in Int
  BY <1>1, RowValues DEF Old, IsTable
<1> QED BY <1>1, <1>7, <1>8 DEF RainBetween, v, w, x

\* The rain of some times is at most that of more times; and there is no negative rain.
LEMMA MoreRain ==
  ASSUME NEW rows, IsTable(rows), \A u \in DOMAIN rows : rows[u] >= 0,
         NEW a \in Int, NEW b \in Int, NEW c \in Int, NEW d \in Int,
         \A u \in DOMAIN rows : a <= u /\ u <= b => c <= u /\ u <= d
  PROVE  0 <= RainBetween(rows, a, b) /\ RainBetween(rows, a, b) <= RainBetween(rows, c, d)
<1> DEFINE v == RowsBetween(rows, a, b)
           w == RowsBetween(rows, c, d)
           x == RowsBetween(rows, 1, 0)
<1>2. v \in [Nat -> Int] /\ w \in [Nat -> Int] /\ x \in [Nat -> Int] /\ LastTick \in Nat
  BY RowValues
<1>3. \A k \in Nat : v[k] = IF k \in DOMAIN rows /\ a <= k /\ k <= b THEN rows[k] ELSE 0
  BY RowValues
<1>4. \A k \in Nat : w[k] = IF k \in DOMAIN rows /\ c <= k /\ k <= d THEN rows[k] ELSE 0
  BY RowValues
<1>5. \A k \in Nat : x[k] = 0
  BY RowValues
<1>0. \A k \in DOMAIN rows : rows[k] \in Int /\ rows[k] >= 0
  BY DEF IsTable
<1>6. RainBetween(rows, 1, 0) = 0
  <2>1. \A u \in DOMAIN rows : 1 <= u /\ u <= 0 => rows[u] = 0
    BY DEF IsTable
  <2> QED BY ONLY <2>1, IsTable(rows), NoRows
<1> HIDE DEF v, w, x
<1>7. \A k \in 0..LastTick : v[k] <= w[k] + x[k] /\ x[k] <= v[k] + x[k]
  BY <1>0, <1>3, <1>4, <1>5
<1>8. SumTo(v, LastTick) <= SumTo(w, LastTick) + SumTo(x, LastTick)
      /\ SumTo(x, LastTick) <= SumTo(v, LastTick) + SumTo(x, LastTick)
  BY <1>2, <1>7, SumCovered
<1>9. SumTo(v, LastTick) \in Int /\ SumTo(w, LastTick) \in Int
  BY <1>2, SumDefinition
<1> QED BY <1>6, <1>8, <1>9 DEF RainBetween, v, w, x

-----------------------------------------------------------------------------
(* The rain of the files: the clock and the weather                         *)

LEMMA MidnightBefore ==
  ASSUME NEW t \in Nat
  PROVE  Midnight(t) \in 0..t /\ Day \in Nat \ {0}
<1>1. Day \in Nat \ {0}
  BY DayRainAssumption
<1> DEFINE q == t \div Day
           r == t % Day
           e == Day * q
<1>2. q \in Int /\ r \in 0..(Day - 1) /\ t = Day * q + r
  BY <1>1
<1> HIDE DEF q, r
<1>3. e \in Int /\ t = e + r /\ (q >= 0 => e >= 0) /\ (q <= -1 => e <= 0 - Day)
  BY <1>1, <1>2
<1> HIDE DEF e
<1>4. r <= t /\ 0 <= r
  BY <1>1, <1>2, <1>3
<1> QED BY <1>1, <1>2, <1>4 DEF Midnight, r

\* The times of a day, and the order of the days.
LEMMA TimesOfDay ==
  ASSUME NEW t \in Nat, NEW u \in Nat
  PROVE  /\ Midnight(t) <= u /\ u <= (Midnight(t) + Day) - 1 <=> Midnight(u) = Midnight(t)
         /\ u <= t => Midnight(u) <= Midnight(t)
<1>1. Day \in Nat \ {0}
  BY DayRainAssumption
<1> DEFINE q == t \div Day
           r == t % Day
           p == u \div Day
           s == u % Day
           m == t - r
           k == u - s
           n == p - q
           e == Day * n
<1>2. q \in Int /\ r \in 0..(Day - 1) /\ t = Day * q + r
  BY <1>1
<1>3. p \in Int /\ s \in 0..(Day - 1) /\ u = Day * p + s
  BY <1>1
<1> HIDE DEF q, r, p, s
<1>4. n \in Int /\ Day * n = Day * p - Day * q
  BY <1>1, <1>2, <1>3
<1> HIDE DEF n
<1>5. e \in Int /\ e = k - m
  BY <1>1, <1>2, <1>3, <1>4
<1>6. (n >= 1 => e >= Day) /\ (n <= -1 => e <= 0 - Day) /\ (n = 0 => e = 0)
  BY <1>1, <1>4
<1> HIDE DEF e
<1>7. m <= u /\ u <= (m + Day) - 1 <=> k = m
  BY <1>1, <1>2, <1>3, <1>4, <1>5, <1>6
<1>8. u <= t => k <= m
  BY <1>1, <1>2, <1>3, <1>4, <1>5, <1>6
<1>9. Midnight(t) = m /\ Midnight(u) = k
  BY DEF Midnight, r, s
<1> QED BY <1>7, <1>8, <1>9

\* The rain that has fallen never decreases.
LEMMA RainFalls ==
  ASSUME fallen \in Weather, NEW t \in 0..LastTick, NEW u \in 0..t
  PROVE  fallen[u] \in Nat /\ fallen[t] \in Nat /\ fallen[u] <= fallen[t]
<1>1. fallen \in [0..LastTick -> Nat] /\ LastTick \in Nat
  BY DayRainAssumption
<1> DEFINE S == {k \in Nat : u <= k /\ k <= LastTick => fallen[u] <= fallen[k]}
<1>2. ASSUME NEW k \in Nat, \A i \in 0..(k - 1) : i \in S
      PROVE  k \in S
  <2> SUFFICES ASSUME u <= k, k <= LastTick PROVE fallen[u] <= fallen[k]
    OBVIOUS
  <2>1. CASE k = u
    BY <1>1, <2>1
  <2>2. CASE k # u
    <3>0. k - 1 \in Nat /\ u <= k - 1 /\ k - 1 <= LastTick /\ k - 1 \in 0..(k - 1)
      BY <1>1, <2>2
    <3>1. k - 1 \in Nat /\ k - 1 \in S /\ u <= k - 1 /\ k - 1 <= LastTick
      <4> HIDE DEF S
      <4> QED BY <1>2, <3>0
    <3>2. fallen[u] <= fallen[k - 1]
      BY <3>1
    <3>3. k - 1 \in 0..(LastTick - 1) /\ (k - 1) + 1 = k
      BY <1>1, <3>1
    <3>4. fallen[k - 1] <= fallen[(k - 1) + 1]
      BY <3>3, DayRainAssumption
    <3>5. fallen[k - 1] \in Nat /\ fallen[k] \in Nat /\ fallen[u] \in Nat
      BY <1>1, <3>1
    <3> QED BY <3>2, <3>3, <3>4, <3>5
  <2> QED BY <2>1, <2>2
<1>3. Nat \subseteq S
  <2> HIDE DEF S
  <2> QED BY <1>2, NoFirstFailure
<1>4. fallen[u] <= fallen[t]
  BY <1>3
<1> QED BY <1>1, <1>4

LEMMA DayRains ==
  ASSUME fallen \in Weather, NEW t \in 0..LastTick, NEW u \in 0..t, Midnight(u) = Midnight(t)
  PROVE  DayRainfall(u) \in Nat /\ DayRainfall(t) \in Nat /\ DayRainfall(u) <= DayRainfall(t)
<1> DEFINE m == Midnight(t)
<1>1. LastTick \in Nat /\ u \in 0..LastTick
  BY DayRainAssumption
<1>2. m \in 0..t /\ m \in 0..u /\ m \in 0..LastTick
  BY <1>1, MidnightBefore
<1> HIDE DEF m
<1>3. fallen[m] \in Nat /\ fallen[u] \in Nat /\ fallen[t] \in Nat
      /\ fallen[m] <= fallen[u] /\ fallen[u] <= fallen[t]
  BY <1>1, <1>2, RainFalls
<1> QED BY <1>3 DEF DayRainfall, m

\* The beginning of the hour that ends at a tick.
Before(t) == Max({0, t - Hour})

LEMMA HourBefore ==
  ASSUME NEW t \in 0..LastTick
  PROVE  /\ Hour \in Nat \ {0}
         /\ Before(t) = IF t < Hour THEN 0 ELSE t - Hour
         /\ Before(t) \in 0..LastTick /\ Before(t) <= t
         /\ HourRainfall(t) = fallen[t] - fallen[Before(t)]
         /\ \A u \in 0..t : Before(u) <= Before(t)
<1>1. Hour \in Nat \ {0} /\ LastTick \in Nat
  BY DayRainAssumption
<1>2. ASSUME NEW u \in 0..LastTick PROVE Before(u) = IF u < Hour THEN 0 ELSE u - Hour
  <2> DEFINE later == IF u < Hour THEN 0 ELSE u - Hour
             both == {0, u - Hour}
  <2>1. later \in both /\ (\A y \in both : later >= y) /\ (\A y \in both : y \in Int)
    BY <1>1
  <2>2. \A y \in both : (\A z \in both : y >= z) => y = later
    <3> HIDE DEF both, later
    <3> QED BY <2>1
  <2>3. Max(both) = later
    <3> HIDE DEF both, later
    <3> QED BY <2>1, <2>2 DEF Max
  <2> QED BY <2>3 DEF Before
<1>3. \A u \in 0..t : u \in 0..LastTick
  BY <1>1
<1>4. HourRainfall(t) = fallen[t] - fallen[Before(t)]
  BY DEF HourRainfall, Before
<1>5. Before(t) = IF t < Hour THEN 0 ELSE t - Hour
  BY <1>2
<1>6. Before(t) \in 0..LastTick /\ Before(t) <= t
  BY <1>1, <1>5
<1>7. ASSUME NEW u \in 0..t PROVE Before(u) <= Before(t)
  <2>1. Before(u) = IF u < Hour THEN 0 ELSE u - Hour
    BY <1>2, <1>3
  <2> QED BY <1>1, <1>5, <2>1
<1> QED BY <1>1, <1>4, <1>5, <1>6, <1>7

-----------------------------------------------------------------------------
(* The rain of the files: the invariant                                     *)

Ticks == 0..LastTick
Rows == DOMAIN fileCopies

FileTypes ==
    /\ source \in Sources
    /\ bounds \subseteq {"begin", "end"}
    /\ source \notin {"static", "statichour"} => bounds = {"begin", "end"}
    /\ fallen \in Weather
    /\ now \in Ticks /\ file \in -1..now /\ polled \in -1..now
    /\ downloads \in Seq([file : Ticks, at : Ticks])
    /\ IsTable(fileRows) /\ IsTable(fileCopies)
    /\ source # "day" => \A u \in Rows : fileCopies[u] >= 0
    /\ rainCache.time \in -1..LastTick
    /\ rainCache.time >= 0 => rainCache.rain = DayRainfall(rainCache.time)

\* The files are downloaded, ingested and stored in the order of their times, each
\* after its own.
FilesInOrder ==
    /\ \A k \in DOMAIN downloads :
          /\ downloads[k].file <= downloads[k].at
          /\ downloads[k].at <= polled /\ downloads[k].file <= file
          /\ \A u \in Rows : u <= downloads[k].file /\ u < downloads[k].at
          /\ rainCache.time <= downloads[k].file
    /\ \A i, k \in DOMAIN downloads : i < k =>
          downloads[i].file <= downloads[k].file /\ downloads[i].at < downloads[k].at
    /\ \A u \in Rows : u <= file /\ u <= polled
    /\ rainCache.time <= file

SameRows == summed = "cassandra" /\ "half" \notin lapses => fileRows = fileCopies

\* No lapse that counts rain twice, or that leaves some out.
OnceAtMost == lapses \cap {"late", "uncached", "close", "early", "half"} = {}
OnceAtLeast == lapses \cap {"replayed", "gap", "edge", "half"} = {}

\* The rows of a day hold the rain of the day up to any time after the last one, and no
\* less than the rain up to any of them.
RainOfDay(x) == RainBetween(fileCopies, Midnight(x), (Midnight(x) + Day) - 1)
DayAtMost ==
    \A x \in Ticks : (\A u \in Rows : Midnight(u) = Midnight(x) => u <= x) =>
        RainOfDay(x) <= DayRainfall(x)
DayAtLeast == \A u \in Rows : DayRainfall(u) <= RainOfDay(u)

\* What is subtracted from the total of the day: the total that is cached, or what the
\* rows hold, to which midnight adds nothing.
Subtracted ==
    /\ OnceAtMost => \A u \in Rows : fileCopies[u] >= 0 /\ u <= rainCache.time
    /\ OnceAtLeast /\ rainCache.time >= 0 =>
          rainCache.rain <= RainOfDay(rainCache.time) \/ rainCache.rain >= Limit
MidnightIsDry == \A u \in Rows : Midnight(u) = u => fileCopies[u] = 0

DaysCounted ==
    /\ OnceAtMost => DayAtMost
    /\ OnceAtLeast => DayAtLeast
    /\ source = "day" => Subtracted
    /\ source = "static" /\ OnceAtMost => MidnightIsDry

\* All the rows up to any time hold the rain since the hour before the first, and no
\* less than the rain up to any of them.
IsFirst(f) == f \in Rows /\ \A u \in Rows : f <= u
HoursAtMost ==
    \A f, x \in Ticks : IsFirst(f) /\ Before(f) <= x =>
        RainBetween(fileCopies, 0, x) <= fallen[x] - fallen[Before(f)]
HoursAtLeast ==
    \A f, u \in Rows : IsFirst(f) =>
        fallen[u] - fallen[Before(f)] <= RainBetween(fileCopies, 0, LastTick)

HoursCounted ==
    /\ OnceAtMost => HoursAtMost
    /\ OnceAtLeast => HoursAtLeast
    /\ source = "hour" => \A u \in Rows : fileCopies[u] = HourRainfall(u)

OfDays == {"day", "static", "current"}
OfHours == {"hour", "statichour"}
FilesInv ==
    /\ source \in Sources \cup {NoSource}
    /\ source # NoSource =>
        /\ FileTypes /\ FilesInOrder /\ SameRows
        /\ source \in OfDays => DaysCounted
        /\ source \in OfHours => HoursCounted

-----------------------------------------------------------------------------
(* The rain of the files: one more row                                      *)

Stores(t, x) ==
    fileCopies' = [u \in DOMAIN fileCopies \cup {t} |-> IF u = t THEN x ELSE fileCopies[u]]

LEMMA RowStored ==
  ASSUME IsTable(fileCopies), NEW t \in Ticks, NEW x \in Int, Stores(t, x)
  PROVE  /\ IsTable(fileCopies')
         /\ Rows' = Rows \cup {t}
         /\ fileCopies'[t] = x /\ \A u \in Rows : u # t => fileCopies'[u] = fileCopies[u]
         /\ \A a, b \in Int :
              /\ a <= t /\ t <= b =>
                   RainBetween(fileCopies', a, b) = (RainBetween(fileCopies, a, b) - Old(fileCopies, t)) + x
              /\ ~(a <= t /\ t <= b) => RainBetween(fileCopies', a, b) = RainBetween(fileCopies, a, b)
<1>1. t \in 0..LastTick
  BY DEF Ticks
<1>2. fileCopies' = [u \in DOMAIN fileCopies \cup {t} |-> IF u = t THEN x ELSE fileCopies[u]]
  BY DEF Stores
<1>3. Rows' = Rows \cup {t} /\ fileCopies'[t] = x
      /\ \A u \in Rows : u # t => fileCopies'[u] = fileCopies[u]
  BY <1>2 DEF Rows
<1>4. IsTable(fileCopies')
  BY <1>1, <1>3 DEF IsTable, Rows
<1>5. ASSUME NEW a \in Int, NEW b \in Int
      PROVE  /\ a <= t /\ t <= b =>
                   RainBetween(fileCopies', a, b) = (RainBetween(fileCopies, a, b) - Old(fileCopies, t)) + x
             /\ ~(a <= t /\ t <= b) => RainBetween(fileCopies', a, b) = RainBetween(fileCopies, a, b)
  BY <1>1, <1>2, NewRow
<1> QED BY <1>3, <1>4, <1>5

LEMMA DaySums ==
  ASSUME IsTable(fileCopies), NEW t \in Ticks
  PROVE  /\ RainOfDay(t) \in Int /\ Old(fileCopies, t) \in Int
         /\ Midnight(t) \in Int /\ (Midnight(t) + Day) - 1 \in Int
<1>1. t \in Nat
  BY DEF Ticks
<1>2. Midnight(t) \in Int /\ (Midnight(t) + Day) - 1 \in Int
  BY <1>1, MidnightBefore
<1>3. RainOfDay(t) \in Int
  BY <1>2, RowValues DEF RainOfDay
<1> QED BY <1>2, <1>3 DEF Old, IsTable

\* What a row does to the rain of a day.
LEMMA DaySumsMove ==
  ASSUME IsTable(fileCopies), NEW t \in Ticks, NEW x \in Int, Stores(t, x), NEW y \in Ticks
  PROVE  /\ Midnight(y) = Midnight(t) => RainOfDay(y)' = (RainOfDay(t) - Old(fileCopies, t)) + x
         /\ Midnight(y) # Midnight(t) => RainOfDay(y)' = RainOfDay(y)
<1>1. t \in Nat /\ y \in Nat
  BY DEF Ticks
<1> DEFINE a == Midnight(y)
           b == (Midnight(y) + Day) - 1
<1>2. a \in Int /\ b \in Int
  BY DaySums
<1>3. RainOfDay(y)' = RainBetween(fileCopies', a, b) /\ RainOfDay(y) = RainBetween(fileCopies, a, b)
  BY DEF RainOfDay
<1>4. a <= t /\ t <= b <=> Midnight(t) = Midnight(y)
  BY <1>1, TimesOfDay
<1>5. Midnight(y) = Midnight(t) => RainOfDay(t) = RainOfDay(y)
  BY DEF RainOfDay
<1> HIDE DEF a, b
<1>6. /\ a <= t /\ t <= b =>
          RainBetween(fileCopies', a, b) = (RainBetween(fileCopies, a, b) - Old(fileCopies, t)) + x
      /\ ~(a <= t /\ t <= b) => RainBetween(fileCopies', a, b) = RainBetween(fileCopies, a, b)
  BY <1>2, RowStored
<1> QED BY <1>3, <1>4, <1>5, <1>6

LEMMA DayAtMostStep ==
  ASSUME IsTable(fileCopies), fallen \in Weather, fallen' = fallen, NEW t \in Ticks, NEW x \in Int,
         Stores(t, x), DayAtMost, (RainOfDay(t) - Old(fileCopies, t)) + x <= DayRainfall(t)
  PROVE  DayAtMost'
<1> SUFFICES ASSUME NEW y \in Ticks, \A u \in Rows' : Midnight(u) = Midnight(y) => u <= y
             PROVE  RainOfDay(y)' <= DayRainfall(y)
  BY DEF DayAtMost, DayRainfall
<1>1. Rows' = Rows \cup {t}
  BY RowStored
<1>2. CASE Midnight(y) = Midnight(t)
  <2>1. t <= y
    BY <1>1, <1>2
  <2>2. DayRainfall(t) \in Nat /\ DayRainfall(y) \in Nat /\ DayRainfall(t) <= DayRainfall(y)
    BY <1>2, <2>1, DayRains DEF Ticks
  <2>3. RainOfDay(y)' = (RainOfDay(t) - Old(fileCopies, t)) + x
    BY <1>2, DaySumsMove
  <2>4. RainOfDay(t) \in Int /\ Old(fileCopies, t) \in Int
    BY DaySums
  <2> QED BY <2>2, <2>3, <2>4
<1>3. CASE Midnight(y) # Midnight(t)
  BY <1>1, <1>3, DaySumsMove DEF DayAtMost
<1> QED BY <1>2, <1>3

LEMMA DayAtLeastStep ==
  ASSUME IsTable(fileCopies), fallen \in Weather, fallen' = fallen, NEW t \in Ticks, NEW x \in Int,
         Stores(t, x), DayAtLeast, \A u \in Rows : u < t, DayRainfall(t) <= RainOfDay(t) + x
  PROVE  DayAtLeast' /\ DayRainfall(t) <= RainOfDay(t)'
<1>1. Rows' = Rows \cup {t}
  BY RowStored
<1>2. RainOfDay(t) \in Int /\ Old(fileCopies, t) = 0
  BY DaySums DEF Old, Rows, Ticks
<1>3. ASSUME NEW y \in Rows' PROVE DayRainfall(y) <= RainOfDay(y)'
  <2>1. y \in Ticks /\ y <= t
    BY <1>1 DEF IsTable, Rows, Ticks
  <2>2. CASE Midnight(y) = Midnight(t)
    <3>1. DayRainfall(y) \in Nat /\ DayRainfall(t) \in Nat /\ DayRainfall(y) <= DayRainfall(t)
      BY <2>1, <2>2, DayRains DEF Ticks
    <3>2. RainOfDay(y)' = (RainOfDay(t) - Old(fileCopies, t)) + x
      BY <2>1, <2>2, DaySumsMove
    <3> QED BY <1>2, <3>1, <3>2
  <2>3. CASE Midnight(y) # Midnight(t)
    <3>1. y \in Rows /\ RainOfDay(y)' = RainOfDay(y)
      BY <1>1, <2>1, <2>3, DaySumsMove
    <3> QED BY <3>1 DEF DayAtLeast
  <2> QED BY <2>2, <2>3
<1>4. DayAtLeast'
  BY <1>3 DEF DayAtLeast, DayRainfall
<1> QED BY <1>1, <1>3, <1>4

\* The first of the rows when there is one more.
FirstWith(f, t) == f \in Rows \cup {t} /\ f <= t /\ \A u \in Rows : f <= u

LEMMA FirstRow ==
  ASSUME IsTable(fileCopies), NEW t \in Ticks, \A u \in Rows : u <= t, NEW f, FirstWith(f, t)
  PROVE  f \in Ticks /\ (Rows # {} => IsFirst(f)) /\ (Rows = {} => f = t)
<1>1. f \in Ticks /\ \A u \in Rows : u \in Ticks
  BY DEF FirstWith, IsTable, Rows, Ticks
<1>2. ASSUME Rows # {} PROVE f \in Rows
  <2>1. PICK u \in Rows : TRUE
    BY <1>2
  <2>2. f = t => u = t
    BY <1>1, <2>1 DEF FirstWith, Ticks
  <2> QED BY <2>1, <2>2 DEF FirstWith
<1> QED BY <1>1, <1>2 DEF FirstWith, IsFirst

LEMMA HoursAtMostStep ==
  ASSUME IsTable(fileCopies), fallen \in Weather, fallen' = fallen, NEW t \in Ticks, NEW x \in Int,
         Stores(t, x), HoursAtMost, \A u \in Rows : u <= t,
         \A f : FirstWith(f, t) =>
            (RainBetween(fileCopies, 0, t) - Old(fileCopies, t)) + x <= fallen[t] - fallen[Before(f)]
  PROVE  HoursAtMost'
<1> SUFFICES ASSUME NEW f \in Ticks, NEW y \in Ticks, IsFirst(f)', Before(f) <= y
             PROVE  RainBetween(fileCopies', 0, y) <= fallen[y] - fallen[Before(f)]
  BY DEF HoursAtMost
<1>1. Rows' = Rows \cup {t}
  BY RowStored
<1>2. FirstWith(f, t)
  BY <1>1 DEF FirstWith, IsFirst
<1>3. \A u \in Rows : u \in Ticks
  BY DEF IsTable, Rows, Ticks
<1>4. Before(f) \in Ticks
  BY HourBefore DEF Ticks
<1>5. CASE t <= y
  <2>1. RainBetween(fileCopies', 0, y) = (RainBetween(fileCopies, 0, y) - Old(fileCopies, t)) + x
    BY <1>5, RowStored DEF Ticks
  <2>2. RainBetween(fileCopies, 0, y) = RainBetween(fileCopies, 0, t)
    <3>1. \A u \in DOMAIN fileCopies : 0 <= u /\ u <= y <=> 0 <= u /\ u <= t
      BY <1>3, <1>5 DEF Rows, Ticks
    <3> QED BY <3>1, SameRain DEF Ticks
  <2>3. (RainBetween(fileCopies, 0, t) - Old(fileCopies, t)) + x <= fallen[t] - fallen[Before(f)]
    BY <1>2
  <2>4. fallen[t] \in Nat /\ fallen[y] \in Nat /\ fallen[t] <= fallen[y]
    BY <1>5, RainFalls DEF Ticks
  <2>5. Before(f) \in 0..y
    BY <1>4 DEF Ticks
  <2>6. fallen[Before(f)] \in Nat
    BY <2>5, RainFalls DEF Ticks
  <2>7. RainBetween(fileCopies, 0, t) \in Int /\ Old(fileCopies, t) \in Int
    BY RowValues DEF Old, IsTable, Ticks
  <2> QED BY <2>1, <2>2, <2>3, <2>4, <2>6, <2>7
<1>6. CASE ~(t <= y)
  <2>1. RainBetween(fileCopies', 0, y) = RainBetween(fileCopies, 0, y)
    BY <1>6, RowStored DEF Ticks
  <2>2. CASE Rows = {}
    <3>1. RainBetween(fileCopies, 0, y) = 0
      BY <2>2, NoRows DEF Rows, Ticks
    <3>2. Before(f) \in 0..y
      BY <1>4 DEF Ticks
    <3>3. fallen[Before(f)] \in Nat /\ fallen[y] \in Nat /\ fallen[Before(f)] <= fallen[y]
      BY <3>2, RainFalls DEF Ticks
    <3> QED BY <2>1, <3>1, <3>3
  <2>3. CASE Rows # {}
    <3>1. IsFirst(f)
      BY <1>2, <2>3, FirstRow
    <3> QED BY <2>1, <3>1 DEF HoursAtMost
  <2> QED BY <2>2, <2>3
<1> QED BY <1>5, <1>6

LEMMA HoursAtLeastStep ==
  ASSUME IsTable(fileCopies), fallen \in Weather, fallen' = fallen, NEW t \in Ticks, NEW x \in Int,
         Stores(t, x), \A u \in Rows : u <= t,
         \A f : FirstWith(f, t) =>
            fallen[t] - fallen[Before(f)] <=
                (RainBetween(fileCopies, 0, LastTick) - Old(fileCopies, t)) + x
  PROVE  HoursAtLeast'
<1>1. Rows' = Rows \cup {t}
  BY RowStored
<1> SUFFICES ASSUME NEW f \in Rows', NEW u \in Rows', IsFirst(f)'
             PROVE  fallen[u] - fallen[Before(f)] <= RainBetween(fileCopies', 0, LastTick)
  BY DEF HoursAtLeast
<1>2. FirstWith(f, t)
  BY <1>1 DEF FirstWith, IsFirst
<1>3. u \in 0..t /\ t \in 0..LastTick /\ f \in Ticks /\ f <= t /\ LastTick \in Int
  BY <1>1, <1>2, FirstRow, DayRainAssumption DEF IsTable, Rows, Ticks
<1>4. RainBetween(fileCopies', 0, LastTick) =
        (RainBetween(fileCopies, 0, LastTick) - Old(fileCopies, t)) + x
  BY <1>3, RowStored
<1>5. fallen[u] \in Nat /\ fallen[t] \in Nat /\ fallen[u] <= fallen[t]
  BY <1>3, RainFalls
<1>6. Before(f) \in 0..t
  BY <1>3, HourBefore DEF Ticks
<1>7. fallen[Before(f)] \in Nat
  BY <1>3, <1>6, RainFalls
<1>8. RainBetween(fileCopies, 0, LastTick) \in Int /\ Old(fileCopies, t) \in Int
  BY <1>3, RowValues DEF Old, IsTable
<1>9. fallen[t] - fallen[Before(f)] <= (RainBetween(fileCopies, 0, LastTick) - Old(fileCopies, t)) + x
  BY <1>2
<1> QED BY <1>4, <1>5, <1>7, <1>8, <1>9

-----------------------------------------------------------------------------
(* The rain of the files: the totals of an hour                             *)

\* Rows an hour apart or more.
LEMMA HourMost ==
  ASSUME IsTable(fileCopies), \A u \in Rows : fileCopies[u] >= 0, fallen \in Weather, NEW t \in Ticks,
         HoursAtMost, \A u \in Rows : u <= t, \A u \in Rows : u # t => u <= t - Hour,
         NEW f, FirstWith(f, t)
  PROVE  (RainBetween(fileCopies, 0, t) - Old(fileCopies, t)) + HourRainfall(t)
            <= fallen[t] - fallen[Before(f)]
<1> DEFINE b == Before(t)
           s == RainBetween(fileCopies, 0, t)
           o == Old(fileCopies, t)
<1>1. /\ Hour \in Nat \ {0} /\ b = (IF t < Hour THEN 0 ELSE t - Hour) /\ b \in 0..t
      /\ HourRainfall(t) = fallen[t] - fallen[b]
  BY HourBefore DEF Ticks
<1>2. f \in Ticks /\ (Rows # {} => IsFirst(f)) /\ f \in Rows \cup {t} /\ f <= t
  BY FirstRow DEF FirstWith
<1>3. s \in Int /\ o \in Int
  BY RowValues DEF Old, IsTable, Ticks
<1>4. fallen[t] \in Nat /\ fallen[b] \in Nat
  BY <1>1, RainFalls DEF Ticks
<1>5. RainBetween(fileCopies, 1, 0) = 0
  BY NoRows DEF IsTable
<1>6. \A u \in DOMAIN fileCopies : u \in Ticks
  BY DEF IsTable, Ticks
<1>7. CASE f = t
  <2>1. \A u \in DOMAIN fileCopies : u = t
    BY <1>6, <1>7 DEF FirstWith, Rows, Ticks
  <2>2. s - o <= RainBetween(fileCopies, 1, 0) + RainBetween(fileCopies, 1, 0)
    BY <2>1, Covering DEF Rows, Ticks
  <2> HIDE DEF b, s, o
  <2> QED BY <1>1, <1>3, <1>4, <1>5, <1>7, <2>2 DEF b, s, o
<1>8. CASE f # t
  <2>1. f \in Rows /\ f <= t - Hour
    BY <1>2, <1>8
  <2>2. b = t - Hour /\ b \in Ticks
    <3>1. f \in Nat /\ t \in 0..LastTick /\ LastTick \in Int
      BY <1>2, DayRainAssumption DEF Ticks
    <3> HIDE DEF b
    <3> QED BY <1>1, <2>1, <3>1 DEF Ticks
  <2>3. \A u \in DOMAIN fileCopies : 0 <= u /\ u <= t /\ u # t => 0 <= u /\ u <= b
    BY <2>2 DEF Rows
  <2>4. s - o <= RainBetween(fileCopies, 0, b) + RainBetween(fileCopies, 1, 0)
    BY <2>2, <2>3, Covering DEF Rows, Ticks
  <2>5. Before(f) <= b /\ Before(f) \in 0..t
    BY <1>2, HourBefore DEF Ticks
  <2>6. RainBetween(fileCopies, 0, b) <= fallen[b] - fallen[Before(f)]
    BY <1>2, <2>1, <2>2, <2>5 DEF HoursAtMost
  <2>7. RainBetween(fileCopies, 0, b) \in Int /\ fallen[Before(f)] \in Nat
    BY <2>2, <2>5, RowValues, RainFalls DEF Ticks
  <2> HIDE DEF b, s, o
  <2> QED BY <1>1, <1>3, <1>4, <1>5, <2>4, <2>6, <2>7 DEF s, o
<1> QED BY <1>7, <1>8

LEMMA HourLeast ==
  ASSUME IsTable(fileCopies), fallen \in Weather, NEW t \in Ticks,
         HoursAtLeast, \A u \in Rows : u <= t,
         t \in Rows => fileCopies[t] = HourRainfall(t),
         Rows = {} \/ \E u \in Rows : u >= t - Hour,
         NEW f, FirstWith(f, t)
  PROVE  fallen[t] - fallen[Before(f)] <=
            (RainBetween(fileCopies, 0, LastTick) - Old(fileCopies, t)) + HourRainfall(t)
<1> DEFINE b == Before(t)
           s == RainBetween(fileCopies, 0, LastTick)
<1>1. /\ Hour \in Nat \ {0} /\ b = (IF t < Hour THEN 0 ELSE t - Hour) /\ b \in 0..t
      /\ HourRainfall(t) = fallen[t] - fallen[b]
  BY HourBefore DEF Ticks
<1>2. f \in Ticks /\ (Rows # {} => IsFirst(f)) /\ (Rows = {} => f = t) /\ Before(f) \in 0..t
  <2>1. f \in Ticks /\ f <= t
    BY FirstRow DEF FirstWith
  <2>2. Before(f) \in 0..t
    BY <2>1, HourBefore DEF Ticks
  <2> QED BY <2>1, <2>2, FirstRow
<1>3. s \in Int
  BY RowValues, DayRainAssumption
<1>4. fallen[t] \in Nat /\ fallen[b] \in Nat /\ fallen[Before(f)] \in Nat
  BY <1>1, <1>2, RainFalls DEF Ticks
<1>5. CASE t \in Rows
  <2>1. Old(fileCopies, t) = HourRainfall(t)
    BY <1>5 DEF Old, Rows
  <2>2. fallen[t] - fallen[Before(f)] <= s
    BY <1>2, <1>5 DEF HoursAtLeast, IsFirst
  <2> HIDE DEF b, s
  <2> QED BY <1>1, <1>3, <1>4, <2>1, <2>2 DEF s
<1>6. CASE Rows = {}
  <2>1. s = 0 /\ Old(fileCopies, t) = 0
    BY <1>6, NoRows, DayRainAssumption DEF Rows, Old
  <2> HIDE DEF s
  <2> QED BY <1>1, <1>2, <1>4, <1>6, <2>1 DEF s
<1>7. CASE t \notin Rows /\ Rows # {}
  <2>1. PICK u \in Rows : u >= t - Hour
    BY <1>7
  <2>2. u \in 0..t /\ b \in 0..u /\ u \in 0..LastTick
    BY <1>1, <2>1 DEF IsTable, Rows, Ticks
  <2>3. fallen[b] <= fallen[u] /\ fallen[u] \in Nat
    BY <2>2, RainFalls
  <2>4. fallen[u] - fallen[Before(f)] <= s
    BY <1>2, <1>7, <2>1 DEF HoursAtLeast, IsFirst
  <2>5. Old(fileCopies, t) = 0
    BY <1>7 DEF Old, Rows
  <2> HIDE DEF b, s
  <2> QED BY <1>1, <1>3, <1>4, <2>3, <2>4, <2>5 DEF s
<1> QED BY <1>5, <1>6, <1>7

\* What is missing of the last hour is added.
LEMMA StaticHourMost ==
  ASSUME IsTable(fileCopies), \A u \in Rows : fileCopies[u] >= 0, fallen \in Weather, NEW t \in Ticks,
         HoursAtMost, \A u \in Rows : u <= t,
         NEW a \in {t - Hour, (t - Hour) + 1}, NEW b \in {t - 1, t},
         NEW f, FirstWith(f, t)
  PROVE  (RainBetween(fileCopies, 0, t) - Old(fileCopies, t))
            + Clamp(HourRainfall(t) - RainBetween(fileCopies, a, b)) <= fallen[t] - fallen[Before(f)]
<1> DEFINE h == Before(t)
           k == Before(f)
           s == RainBetween(fileCopies, 0, t)
           o == Old(fileCopies, t)
           g == RainBetween(fileCopies, a, b)
           x == Clamp(HourRainfall(t) - g)
<1>1. /\ Hour \in Nat \ {0} /\ h = (IF t < Hour THEN 0 ELSE t - Hour) /\ h \in 0..t
      /\ HourRainfall(t) = fallen[t] - fallen[h] /\ t \in 0..LastTick /\ LastTick \in Int
  <2>1. LastTick \in Int /\ t \in 0..LastTick
    BY DayRainAssumption DEF Ticks
  <2> HIDE DEF k, s, o, g, x
  <2>2. /\ Hour \in Nat \ {0} /\ Before(t) = (IF t < Hour THEN 0 ELSE t - Hour)
        /\ Before(t) \in 0..LastTick /\ Before(t) <= t
        /\ HourRainfall(t) = fallen[t] - fallen[Before(t)]
    BY <2>1, HourBefore
  <2> QED BY <2>1, <2>2
<1>2. f \in Ticks /\ (Rows # {} => IsFirst(f)) /\ (Rows = {} => f = t) /\ f <= t
  BY FirstRow DEF FirstWith
<1>3. /\ k \in 0..h /\ k \in 0..t
      /\ (f < Hour => k = 0)
  <2>1. f \in 0..t
    BY <1>2 DEF Ticks
  <2>2. Before(f) <= Before(t) /\ Before(f) \in 0..LastTick /\ Before(f) <= f
    BY <1>1, <1>2, <2>1, HourBefore DEF Ticks
  <2>3. f < Hour => Before(f) = 0
    BY <1>2, HourBefore DEF Ticks
  <2> QED BY <1>1, <2>1, <2>2, <2>3
<1>4. fallen[t] \in Nat /\ fallen[h] \in Nat /\ fallen[k] \in Nat /\ fallen[k] <= fallen[t]
  <2> HIDE DEF h, k
  <2> QED BY <1>1, <1>3, RainFalls
<1>5. s \in Int /\ g \in Int /\ o \in Int /\ o >= 0
  BY <1>1, RowValues DEF Old, IsTable, Rows
<1>6. RainBetween(fileCopies, 1, 0) = 0
  BY NoRows DEF IsTable
<1>7. \A u \in DOMAIN fileCopies : u \in 0..LastTick /\ u <= t
  BY DEF IsTable, Rows
<1>8. Rows = {} => \A y \in Int : RainBetween(fileCopies, 0, y) = 0
  BY NoRows DEF Rows
<1>9. Rows # {} => \A y \in Ticks : k <= y => RainBetween(fileCopies, 0, y) <= fallen[y] - fallen[k]
  BY <1>2 DEF HoursAtMost
<1>10. t \in Ticks /\ h \in Ticks
  BY <1>1 DEF Ticks
<1>11. CASE x = 0
  <2>1. s <= fallen[t] - fallen[k]
    <3>1. CASE Rows = {}
      <4>1. s = 0
        BY <1>1, <1>8, <3>1
      <4> HIDE DEF s, k
      <4> QED BY <1>4, <4>1
    <3>2. CASE Rows # {}
      <4> HIDE DEF k
      <4> QED BY <1>3, <1>9, <1>10, <3>2
    <3> QED BY <3>1, <3>2
  <2> HIDE DEF k, s, o, x
  <2>2. (s - o) + x <= fallen[t] - fallen[k]
    BY <1>4, <1>5, <1>11, <2>1
  <2> QED BY <2>2 DEF k, s, o, x, g
<1>12. CASE x = HourRainfall(t) - g
  <2>1. CASE t < Hour
    <3>1. \A u \in DOMAIN fileCopies : 0 <= u /\ u <= t /\ u # t => a <= u /\ u <= b
      BY <1>1, <1>7, <2>1
    <3>2. s - o <= g + RainBetween(fileCopies, 1, 0)
      BY <1>1, <3>1, Covering DEF Rows
    <3>3. h = 0 /\ k = 0
      <4> HIDE DEF h, k
      <4> QED BY <1>1, <1>2, <1>3, <2>1 DEF Ticks
    <3> HIDE DEF h, k, s, o, g, x
    <3>4. (s - o) + x <= fallen[t] - fallen[k]
      BY <1>1, <1>4, <1>5, <1>6, <1>12, <3>2, <3>3
    <3> QED BY <3>4 DEF k, s, o, x, g
  <2>2. CASE ~(t < Hour)
    <3>1. h = t - Hour
      BY <1>1, <2>2
    <3>2. \A u \in DOMAIN fileCopies : 0 <= u /\ u <= t /\ u # t => (0 <= u /\ u <= h) \/ (a <= u /\ u <= b)
      <4> HIDE DEF h
      <4> QED BY <1>1, <1>7, <3>1
    <3>3. s - o <= RainBetween(fileCopies, 0, h) + g
      <4> HIDE DEF h
      <4> QED BY <1>1, <3>1, <3>2, Covering DEF Rows
    <3>4. RainBetween(fileCopies, 0, h) <= fallen[h] - fallen[k]
      <4>1. CASE Rows = {}
        <5>1. RainBetween(fileCopies, 0, h) = 0
          <6> HIDE DEF h
          <6> QED BY <1>1, <1>8, <4>1
        <5>2. k = h
          BY <1>2, <4>1
        <5> HIDE DEF h, k
        <5> QED BY <1>4, <5>1, <5>2
      <4>2. CASE Rows # {}
        <5> HIDE DEF h, k
        <5> QED BY <1>3, <1>9, <1>10, <4>2
      <4> QED BY <4>1, <4>2
    <3>5. RainBetween(fileCopies, 0, h) \in Int
      <4> HIDE DEF h
      <4> QED BY <1>1, RowValues
    <3> HIDE DEF h, k, s, o, g, x
    <3>6. (s - o) + x <= fallen[t] - fallen[k]
      BY <1>1, <1>4, <1>5, <1>12, <3>3, <3>4, <3>5
    <3> QED BY <3>6 DEF k, s, o, x, g
  <2> QED BY <2>1, <2>2
<1> QED BY <1>11, <1>12 DEF Clamp

LEMMA StaticHourLeast ==
  ASSUME IsTable(fileCopies), fallen \in Weather, NEW t \in Ticks,
         HoursAtLeast, \A u \in Rows : u <= t, t \notin Rows,
         Rows = {} \/ \E u \in Rows : u >= t - Hour,
         NEW g \in Int, Rows = {} => g = 0,
         \A u \in Rows : u < t /\ (\A v \in Rows : v <= u \/ v >= t) => ~(g > HourUpTo(u, t)),
         NEW f, FirstWith(f, t)
  PROVE  fallen[t] - fallen[Before(f)] <=
            (RainBetween(fileCopies, 0, LastTick) - Old(fileCopies, t)) + Clamp(HourRainfall(t) - g)
<1> DEFINE h == Before(t)
           k == Before(f)
           s == RainBetween(fileCopies, 0, LastTick)
           x == Clamp(HourRainfall(t) - g)
<1>1. /\ Hour \in Nat \ {0} /\ h = (IF t < Hour THEN 0 ELSE t - Hour) /\ h \in 0..t
      /\ HourRainfall(t) = fallen[t] - fallen[h] /\ t \in 0..LastTick /\ LastTick \in Nat
  BY SMTT(30), HourBefore, DayRainAssumption DEF Ticks
<1>2. f \in Ticks /\ (Rows # {} => IsFirst(f)) /\ (Rows = {} => f = t) /\ k \in 0..t
  <2>1. f \in Ticks /\ f <= t
    BY FirstRow DEF FirstWith
  <2>2. Before(f) \in 0..t
    BY <2>1, HourBefore DEF Ticks
  <2> QED BY <2>1, <2>2, FirstRow
<1>3. s \in Int /\ Old(fileCopies, t) = 0
  BY <1>1, RowValues DEF Old, Rows
<1>4. fallen[t] \in Nat /\ fallen[h] \in Nat /\ fallen[k] \in Nat
  <2> HIDE DEF h, k
  <2> QED BY <1>1, <1>2, RainFalls
<1>5. x \in Int /\ x >= (fallen[t] - fallen[h]) - g
  <2> HIDE DEF h
  <2> QED BY <1>1, <1>4 DEF Clamp
<1>6. CASE Rows = {}
  <2>1. s = 0 /\ h = k /\ g = 0
    BY <1>1, <1>2, <1>6, NoRows DEF Rows
  <2> HIDE DEF h, k, s, x
  <2> QED BY <1>3, <1>4, <1>5, <2>1 DEF s, x, k
<1>7. CASE Rows # {}
  <2>1. Rows \subseteq 0..LastTick
    BY DEF IsTable, Rows
  <2>2. PICK u \in Rows : \A v \in Rows : v <= u
    BY <1>1, <1>7, <2>1, GreatestNumber
  <2>3. PICK w \in Rows : w >= t - Hour
    BY <1>7
  <2>4. u \in 0..t /\ u < t /\ u >= t - Hour
    BY <1>1, <2>1, <2>2, <2>3
  <2>5. ~(g > HourUpTo(u, t))
    BY <2>2, <2>4
  <2>6. HourUpTo(u, t) = fallen[u] - fallen[h]
    <3> DEFINE both == {u, t - Hour}
               m == t - Hour
    <3>1. m \in both /\ (\A y \in both : m <= y /\ y \in Int)
      BY <1>1, <2>4
    <3>2. Min(both) = m
      <4>1. \A y \in both : (\A z \in both : y <= z) => y = m
        <5> HIDE DEF both, m
        <5>1. m \in Int
          BY <3>1
        <5> QED BY <3>1, <5>1
      <4> HIDE DEF both, m
      <4> QED BY <3>1, <4>1 DEF Min
    <3> QED BY <3>2 DEF HourUpTo, Before
  <2>7. fallen[u] - fallen[k] <= s
    BY <1>2, <1>7 DEF HoursAtLeast, IsFirst
  <2>8. fallen[u] \in Nat
    BY <1>1, <2>4, RainFalls
  <2> HIDE DEF h, k, s, x
  <2> QED BY <1>3, <1>4, <1>5, <2>5, <2>6, <2>7, <2>8 DEF s, x, k
<1> QED BY <1>6, <1>7

-----------------------------------------------------------------------------
(* The rain of the files: the totals of a day                               *)

LEMMA DayTimes ==
  ASSUME NEW t \in Ticks
  PROVE  /\ LastTick \in Nat /\ t \in Nat /\ t \in 0..LastTick
         /\ Day \in Nat \ {0} /\ Midnight(t) \in 0..t /\ t <= (Midnight(t) + Day) - 1
<1>1. LastTick \in Nat /\ t \in Nat /\ t \in 0..LastTick
  BY DayRainAssumption DEF Ticks
<1>2. Midnight(t) \in 0..t /\ Day \in Nat \ {0}
  BY <1>1, MidnightBefore
<1>3. t <= (Midnight(t) + Day) - 1
  BY <1>1, TimesOfDay
<1> QED BY <1>1, <1>2, <1>3

LEMMA RowTimes ==
  ASSUME IsTable(fileCopies)
  PROVE  \A u \in DOMAIN fileCopies : u \in Rows /\ u \in Ticks /\ u \in Nat /\ fileCopies[u] \in Int
BY DayRainAssumption DEF IsTable, Rows, Ticks

\* Some rows of a day, or none: their rain is at most that of the day.
LEMMA SomeOfDay ==
  ASSUME IsTable(fileCopies), \A u \in Rows : fileCopies[u] >= 0, NEW t \in Ticks,
         NEW a \in Int, NEW b \in Int,
         \A u \in Rows : a <= u /\ u <= b => Midnight(u) = Midnight(t)
  PROVE  0 <= RainBetween(fileCopies, a, b) /\ RainBetween(fileCopies, a, b) <= RainOfDay(t)
<1> DEFINE c == Midnight(t)
           d == (Midnight(t) + Day) - 1
<1>1. c \in Int /\ d \in Int /\ t \in Nat
  BY DaySums, DayTimes
<1>2. \A u \in DOMAIN fileCopies : fileCopies[u] >= 0
  BY DEF Rows
<1>3. \A u \in DOMAIN fileCopies : a <= u /\ u <= b => c <= u /\ u <= d
  BY <1>1, RowTimes, TimesOfDay
<1> HIDE DEF c, d
<1>4. 0 <= RainBetween(fileCopies, a, b) /\ RainBetween(fileCopies, a, b) <= RainBetween(fileCopies, c, d)
  BY <1>1, <1>2, <1>3, MoreRain
<1> QED BY <1>4 DEF RainOfDay, c, d

\* All the rows of a day.
LEMMA AllOfDay ==
  ASSUME IsTable(fileCopies), NEW t \in Ticks, NEW a \in Int, NEW b \in Int,
         \A u \in Rows : a <= u /\ u <= b <=> Midnight(u) = Midnight(t)
  PROVE  RainBetween(fileCopies, a, b) = RainOfDay(t)
<1> DEFINE c == Midnight(t)
           d == (Midnight(t) + Day) - 1
<1>1. c \in Int /\ d \in Int /\ t \in Nat
  BY DaySums, DayTimes
<1>2. \A u \in DOMAIN fileCopies : a <= u /\ u <= b <=> c <= u /\ u <= d
  BY <1>1, RowTimes, TimesOfDay
<1> HIDE DEF c, d
<1>3. RainBetween(fileCopies, a, b) = RainBetween(fileCopies, c, d)
  BY <1>1, <1>2, SameRain
<1> QED BY <1>3 DEF RainOfDay, c, d

\* A day without rows.
LEMMA EmptyDay ==
  ASSUME IsTable(fileCopies), NEW t \in Ticks, \A u \in Rows : Midnight(u) # Midnight(t)
  PROVE  RainOfDay(t) = 0
<1>1. RainBetween(fileCopies, 1, 0) = RainOfDay(t)
  <2>1. \A u \in Rows : u \in Nat
    BY RowTimes DEF Rows
  <2>2. \A u \in Rows : 1 <= u /\ u <= 0 <=> Midnight(u) = Midnight(t)
    BY <2>1
  <2> QED BY <2>2, AllOfDay
<1>2. RainBetween(fileCopies, 1, 0) = 0
  BY RowTimes, NoRows
<1> QED BY <1>1, <1>2

\* What is missing of the day is added.
LEMMA StaticCounts ==
  ASSUME IsTable(fileCopies), \A u \in Rows : fileCopies[u] >= 0, fallen \in Weather, NEW t \in Ticks,
         \A u \in Rows : u <= t,
         NEW a \in {Midnight(t), Midnight(t) + 1}, NEW b \in {t - 1, t}
  PROVE  /\ Clamp(DayRainfall(t) - RainBetween(fileCopies, a, b)) \in Nat
         /\ MidnightIsDry /\ DayAtMost =>
              (RainOfDay(t) - Old(fileCopies, t))
                + Clamp(DayRainfall(t) - RainBetween(fileCopies, a, b)) <= DayRainfall(t)
         /\ DayRainfall(t) <= RainOfDay(t) + Clamp(DayRainfall(t) - RainBetween(fileCopies, a, b))
         /\ Midnight(t) = t => Clamp(DayRainfall(t) - RainBetween(fileCopies, a, b)) = 0
<1> DEFINE g == RainBetween(fileCopies, a, b)
           r == RainOfDay(t)
           o == Old(fileCopies, t)
           m == DayRainfall(t)
           x == Clamp(m - g)
<1>1. r \in Int /\ o \in Int /\ o >= 0 /\ Midnight(t) \in Int /\ (Midnight(t) + Day) - 1 \in Int
  BY DaySums DEF Old, Rows
<1>2. m \in Nat /\ (Midnight(t) = t => m = 0)
  <2>1. m \in Nat
    BY DayTimes, DayRains
  <2>2. Midnight(t) = t => m = fallen[t] - fallen[t]
    BY DEF DayRainfall
  <2>3. fallen[t] \in Nat
    BY DayTimes, RainFalls
  <2> QED BY <2>1, <2>2, <2>3
<1>3. a \in Int /\ b \in Int /\ t \in Nat /\ Midnight(t) <= a /\ b <= t
  BY <1>1, DayTimes
<1>4. 0 <= g /\ g <= r /\ g \in Int
  <2>1. \A u \in Rows : a <= u /\ u <= b => Midnight(t) <= u /\ u <= (Midnight(t) + Day) - 1
    BY <1>1, <1>3, DayTimes, RowTimes DEF Rows
  <2>2. \A u \in Rows : a <= u /\ u <= b => Midnight(u) = Midnight(t)
    BY <1>3, <2>1, RowTimes, TimesOfDay DEF Rows
  <2> HIDE DEF g, r
  <2>3. 0 <= g /\ g <= r
    BY <1>3, <2>2, SomeOfDay DEF g, r
  <2>4. g \in Int
    BY <1>3, RowValues DEF g
  <2> QED BY <2>3, <2>4
<1>5. ASSUME MidnightIsDry PROVE r - o <= g
  <2>1. \A u \in DOMAIN fileCopies :
           Midnight(t) <= u /\ u <= (Midnight(t) + Day) - 1 /\ u # t /\ fileCopies[u] # 0 =>
              (a <= u /\ u <= b) \/ (1 <= u /\ u <= 0)
    <3> SUFFICES ASSUME NEW u \in DOMAIN fileCopies, Midnight(t) <= u, u <= (Midnight(t) + Day) - 1,
                        u # t, fileCopies[u] # 0
                 PROVE  a <= u /\ u <= b
      OBVIOUS
    <3>1. u \in Rows /\ u \in Nat /\ u <= t
      BY RowTimes
    <3>2. Midnight(u) = Midnight(t)
      BY <1>3, <3>1, TimesOfDay
    <3>3. u # Midnight(t)
      BY <1>5, <3>1, <3>2 DEF MidnightIsDry
    <3> QED BY <1>1, <1>3, <3>1, <3>3
  <2>2. RainBetween(fileCopies, 1, 0) = 0
    BY RowTimes, NoRows
  <2>3. \A u \in DOMAIN fileCopies : fileCopies[u] >= 0
    BY DEF Rows
  <2> HIDE DEF g, o
  <2>4. RainBetween(fileCopies, Midnight(t), (Midnight(t) + Day) - 1) - o <= g + RainBetween(fileCopies, 1, 0)
    BY <1>1, <1>3, <2>1, <2>3, DayTimes, Covering DEF g, o
  <2> QED BY <1>4, <2>2, <2>4 DEF RainOfDay
<1>6. DayAtMost => r <= m
  BY RowTimes DEF DayAtMost
<1> HIDE DEF g, r, o, m
<1>7. x \in Nat /\ (MidnightIsDry /\ DayAtMost => (r - o) + x <= m) /\ m <= r + x /\ (Midnight(t) = t => x = 0)
  BY <1>1, <1>2, <1>4, <1>5, <1>6 DEF Clamp
<1> QED BY <1>7 DEF g, r, o, m

\* What the current conditions know: the rows since the midnight of the download.
LEMMA CurrentCounts ==
  ASSUME IsTable(fileCopies), \A u \in Rows : fileCopies[u] >= 0, fallen \in Weather, NEW t \in Ticks,
         NEW at \in Ticks, t <= at, \A u \in Rows : u <= t /\ u < at,
         NEW b \in {at - 2, at - 1},
         RainBetween(fileCopies, Midnight(at), b) <= DayRainfall(t),
         NEW x, x = DayRainfall(t) - RainBetween(fileCopies, Midnight(at), b)
  PROVE  /\ x \in Nat
         /\ b = at - 1 /\ Midnight(at) = Midnight(t) =>
              (RainOfDay(t) - Old(fileCopies, t)) + x <= DayRainfall(t)
         /\ DayRainfall(t) <= RainOfDay(t) + x
<1> DEFINE g == RainBetween(fileCopies, Midnight(at), b)
           r == RainOfDay(t)
           o == Old(fileCopies, t)
           m == DayRainfall(t)
<1>1. r \in Int /\ o \in Int /\ o >= 0 /\ Midnight(at) \in Int
  BY DaySums DEF Old, Rows
<1>2. m \in Nat
  BY DayTimes, DayRains
<1>3. b \in Int /\ t \in Nat /\ at \in Nat /\ b < at
  BY DayTimes
<1>4. g \in Int
  BY <1>1, <1>3, RowValues
<1>5. \A u \in Rows : u \in Nat
  BY RowTimes DEF Rows
<1>6. \A u \in Rows : Midnight(at) <= u /\ u <= b => Midnight(u) = Midnight(t)
  <2> SUFFICES ASSUME NEW u \in Rows, Midnight(at) <= u, u <= b PROVE Midnight(u) = Midnight(t)
    OBVIOUS
  <2>1. u <= (Midnight(at) + Day) - 1 /\ t <= (Midnight(at) + Day) - 1 /\ Midnight(at) <= t
    BY <1>1, <1>3, <1>5, DayTimes
  <2>2. Midnight(u) = Midnight(at) /\ Midnight(t) = Midnight(at)
    BY <1>3, <1>5, <2>1, TimesOfDay
  <2> QED BY <2>2
<1>7. g <= r
  <2> HIDE DEF g, r
  <2> QED BY <1>1, <1>3, <1>6, SomeOfDay DEF g, r
<1>8. b = at - 1 /\ Midnight(at) = Midnight(t) => g = r
  <2> SUFFICES ASSUME b = at - 1, Midnight(at) = Midnight(t) PROVE g = r
    OBVIOUS
  <2>1. \A u \in Rows : Midnight(u) = Midnight(t) => Midnight(at) <= u /\ u <= b
    <3>1. \A u \in Rows : Midnight(u) \in 0..u
      BY <1>5, MidnightBefore
    <3> QED BY <1>1, <1>3, <1>5, <3>1
  <2> HIDE DEF g, r
  <2> QED BY <1>1, <1>3, <1>6, <2>1, AllOfDay DEF g, r
<1>9. g <= m /\ x = m - g
  OBVIOUS
<1> HIDE DEF g, r, o, m
<1>10. x \in Nat /\ (b = at - 1 /\ Midnight(at) = Midnight(t) => (r - o) + x <= m) /\ m <= r + x
  BY <1>1, <1>2, <1>4, <1>7, <1>8, <1>9
<1> QED BY <1>10 DEF r, o, m

\* What the total of the day is known to be: the one of the cache, or the rows.
IsKnown(g) ==
    /\ g \in Int
    /\ rainCache.time > Midnight(now) => g = rainCache.rain
    /\ ~(rainCache.time > Midnight(now)) => g = RainBetween(fileCopies, Midnight(now), now)
CacheOfDay(t) ==
    /\ rainCache.time \in -1..t
    /\ rainCache.time >= 0 => rainCache.rain = DayRainfall(rainCache.time)

\* The day of the cache is the one it is, and the one of the file.
LEMMA CachedDay ==
  ASSUME fallen \in Weather, NEW t \in Ticks, now \in Ticks, t <= now, CacheOfDay(t),
         rainCache.time > Midnight(now)
  PROVE  /\ rainCache.time \in Ticks /\ rainCache.time <= t
         /\ Midnight(rainCache.time) = Midnight(t) /\ Midnight(now) = Midnight(t)
         /\ rainCache.rain = DayRainfall(rainCache.time)
         /\ rainCache.rain \in Nat /\ DayRainfall(t) \in Nat /\ rainCache.rain <= DayRainfall(t)
<1>1. Midnight(now) \in Nat /\ now \in Nat /\ t \in Nat /\ now <= (Midnight(now) + Day) - 1 /\ Day \in Nat
  BY DayTimes
<1>2. rainCache.time \in Ticks /\ rainCache.time \in 0..t /\ rainCache.time \in Nat
  BY <1>1, DayTimes DEF CacheOfDay, Ticks
<1>3. Midnight(rainCache.time) = Midnight(now) /\ Midnight(t) = Midnight(now)
  <2>1. Midnight(now) <= rainCache.time /\ rainCache.time <= (Midnight(now) + Day) - 1
        /\ Midnight(now) <= t /\ t <= (Midnight(now) + Day) - 1
    BY <1>1, <1>2
  <2> QED BY <1>1, <1>2, <2>1, TimesOfDay
<1>4. rainCache.rain = DayRainfall(rainCache.time)
  BY <1>2 DEF CacheOfDay
<1>5. DayRainfall(rainCache.time) \in Nat /\ DayRainfall(t) \in Nat
      /\ DayRainfall(rainCache.time) <= DayRainfall(t)
  BY <1>2, <1>3, DayTimes, DayRains
<1> QED BY <1>2, <1>3, <1>4, <1>5

\* Without the cache: the rows of the day when it is the one of the file, and else none.
LEMMA UncachedDay ==
  ASSUME IsTable(fileCopies), NEW t \in Ticks, now \in Ticks, t <= now, \A u \in Rows : u <= t
  PROVE  /\ Midnight(now) = Midnight(t) => RainBetween(fileCopies, Midnight(now), now) = RainOfDay(t)
         /\ Midnight(now) # Midnight(t) => RainBetween(fileCopies, Midnight(now), now) = 0
<1>1. Midnight(now) \in Nat /\ now \in Nat /\ t \in Nat /\ now <= (Midnight(now) + Day) - 1 /\ Day \in Nat
  BY DayTimes
<1>2. \A u \in Rows : u \in Nat /\ u <= t /\ u <= now
  BY <1>1, RowTimes DEF Rows
<1>3. ASSUME Midnight(now) = Midnight(t) PROVE RainBetween(fileCopies, Midnight(now), now) = RainOfDay(t)
  <2>1. \A u \in Rows : Midnight(now) <= u /\ u <= now <=> Midnight(u) = Midnight(t)
    <3> SUFFICES ASSUME NEW u \in Rows
                 PROVE  Midnight(now) <= u /\ u <= now <=> Midnight(u) = Midnight(t)
      OBVIOUS
    <3>1. Midnight(now) <= u /\ u <= (Midnight(now) + Day) - 1 <=> Midnight(u) = Midnight(now)
      BY <1>1, <1>2, TimesOfDay
    <3>2. u \in Nat /\ u <= now
      BY <1>2
    <3> QED BY <1>1, <1>3, <3>1, <3>2
  <2> QED BY <1>1, <2>1, AllOfDay
<1>4. ASSUME Midnight(now) # Midnight(t) PROVE RainBetween(fileCopies, Midnight(now), now) = 0
  <2>1. t < Midnight(now)
    <3>1. Midnight(now) <= t => Midnight(t) = Midnight(now)
      BY <1>1, TimesOfDay
    <3> QED BY <1>1, <1>4, <3>1
  <2>2. \A u \in DOMAIN fileCopies : ~(Midnight(now) <= u)
    BY <1>1, <1>2, <2>1 DEF Rows
  <2> QED BY <1>1, <2>2, NoRows
<1> QED BY <1>3, <1>4

LEMMA DayCountsMost ==
  ASSUME IsTable(fileCopies), fallen \in Weather, NEW t \in Ticks, now \in Ticks, t <= now,
         \A u \in Rows : u <= t, CacheOfDay(t), NEW g, IsKnown(g),
         DayAtMost, \A u \in Rows : fileCopies[u] >= 0 /\ u <= rainCache.time,
         Midnight(now) = Midnight(t)
  PROVE  /\ DayRainfall(t) - g \in Nat
         /\ (RainOfDay(t) - Old(fileCopies, t)) + (DayRainfall(t) - g) <= DayRainfall(t)
<1>1. DayRainfall(t) \in Nat /\ RainOfDay(t) \in Int /\ Old(fileCopies, t) \in Int
      /\ Old(fileCopies, t) >= 0 /\ g \in Int
  BY DayTimes, DayRains, DaySums DEF Old, Rows, IsKnown
<1>2. CASE rainCache.time > Midnight(now)
  <2>1. /\ rainCache.time \in Ticks /\ Midnight(rainCache.time) = Midnight(t)
        /\ g = DayRainfall(rainCache.time) /\ g <= DayRainfall(t)
    BY <1>2, CachedDay DEF IsKnown
  <2>2. RainOfDay(rainCache.time) <= DayRainfall(rainCache.time)
    BY <2>1 DEF DayAtMost
  <2>3. RainOfDay(rainCache.time) = RainOfDay(t)
    BY <2>1 DEF RainOfDay
  <2> QED BY <1>1, <2>1, <2>2, <2>3
<1>3. CASE ~(rainCache.time > Midnight(now))
  <2>1. g = RainOfDay(t)
    BY <1>3, UncachedDay DEF IsKnown
  <2>2. RainOfDay(t) <= DayRainfall(t)
    BY DEF DayAtMost
  <2> QED BY <1>1, <2>1, <2>2
<1> QED BY <1>2, <1>3

LEMMA DayCountsLeast ==
  ASSUME IsTable(fileCopies), fallen \in Weather, NEW t \in Ticks, now \in Ticks, t <= now,
         \A u \in Rows : u <= t, CacheOfDay(t), NEW g, IsKnown(g), DayRainfall(t) < Limit, Limit \in Nat,
         DayAtLeast,
         rainCache.time >= 0 =>
            rainCache.rain <= RainOfDay(rainCache.time) \/ rainCache.rain >= Limit
  PROVE  DayRainfall(t) <= RainOfDay(t) + (DayRainfall(t) - g)
<1>1. DayRainfall(t) \in Nat /\ RainOfDay(t) \in Int /\ g \in Int
  BY DayTimes, DayRains, DaySums DEF IsKnown
<1>2. CASE rainCache.time > Midnight(now)
  <2>1. /\ rainCache.time \in Ticks /\ Midnight(rainCache.time) = Midnight(t)
        /\ g = rainCache.rain /\ rainCache.rain <= DayRainfall(t)
    BY <1>2, CachedDay DEF IsKnown
  <2>2. rainCache.time >= 0
    BY <2>1, DayTimes
  <2>3. RainOfDay(rainCache.time) = RainOfDay(t)
    BY <2>1 DEF RainOfDay
  <2>4. rainCache.rain <= RainOfDay(rainCache.time)
    BY <1>1, <2>1, <2>2
  <2> QED BY <1>1, <2>1, <2>3, <2>4
<1>3. CASE ~(rainCache.time > Midnight(now)) /\ Midnight(now) = Midnight(t)
  <2>1. g = RainOfDay(t)
    BY <1>3, UncachedDay DEF IsKnown
  <2> QED BY <1>1, <2>1
<1>4. CASE ~(rainCache.time > Midnight(now)) /\ Midnight(now) # Midnight(t)
  <2>1. g = 0
    BY <1>4, UncachedDay DEF IsKnown
  <2>2. RainOfDay(t) >= 0
    <3>1. CASE \E u \in Rows : Midnight(u) = Midnight(t)
      <4>1. PICK u \in Rows : Midnight(u) = Midnight(t)
        BY <3>1
      <4>2. u \in 0..t
        BY <4>1, RowTimes DEF Rows
      <4>3. DayRainfall(u) \in Nat
        BY <4>1, <4>2, DayTimes, DayRains
      <4>4. DayRainfall(u) <= RainOfDay(u) /\ RainOfDay(u) = RainOfDay(t)
        BY <4>1 DEF DayAtLeast, RainOfDay
      <4> QED BY <1>1, <4>3, <4>4
    <3>2. CASE ~\E u \in Rows : Midnight(u) = Midnight(t)
      BY <3>2, EmptyDay
    <3> QED BY <3>1, <3>2
  <2> QED BY <1>1, <2>1, <2>2
<1> QED BY <1>2, <1>3, <1>4

\* The sums of the days when one more row is stored, or none.
LEMMA DaysMove ==
  ASSUME IsTable(fileCopies), fallen \in Weather, fallen' = fallen, lapses \subseteq lapses',
         OnceAtMost => DayAtMost, OnceAtLeast => DayAtLeast,
         NEW t \in Ticks, \A u \in Rows : u <= t, NEW x \in Int, Stores(t, x),
         OnceAtMost' => (RainOfDay(t) - Old(fileCopies, t)) + x <= DayRainfall(t),
         OnceAtLeast' => t \notin Rows /\ DayRainfall(t) <= RainOfDay(t) + x
  PROVE  /\ OnceAtMost' => DayAtMost'
         /\ OnceAtLeast' => DayAtLeast' /\ DayRainfall(t) <= RainOfDay(t)'
<1>1. ASSUME OnceAtMost' PROVE DayAtMost'
  <2>1. OnceAtMost
    BY <1>1 DEF OnceAtMost
  <2> QED BY <1>1, <2>1, DayAtMostStep
<1>2. ASSUME OnceAtLeast' PROVE DayAtLeast' /\ DayRainfall(t) <= RainOfDay(t)'
  <2>1. OnceAtLeast
    BY <1>2 DEF OnceAtLeast
  <2>2. \A u \in Rows : u < t
    <3>1. \A u \in Rows : u \in Nat /\ u <= t /\ u # t
      BY <1>2, RowTimes DEF Rows
    <3> QED BY <3>1, DayTimes
  <2> QED BY <1>2, <2>1, <2>2, DayAtLeastStep
<1> QED BY <1>1, <1>2

\* When nothing is stored.
LEMMA DaysStay ==
  ASSUME UNCHANGED <<fallen, fileCopies>>, lapses \subseteq lapses',
         OnceAtMost => DayAtMost, OnceAtLeast => DayAtLeast
  PROVE  (OnceAtMost' => DayAtMost') /\ (OnceAtLeast' => DayAtLeast')
<1>1. Rows' = Rows /\ (\A x : RainOfDay(x)' = RainOfDay(x)) /\ (\A x : DayRainfall(x)' = DayRainfall(x))
  BY DEF Rows, RainOfDay, DayRainfall
<1>2. (OnceAtMost' => OnceAtMost) /\ (OnceAtLeast' => OnceAtLeast)
  BY DEF OnceAtMost, OnceAtLeast
<1>3. DayAtMost => DayAtMost'
  BY <1>1 DEF DayAtMost
<1>4. DayAtLeast => DayAtLeast'
  BY <1>1 DEF DayAtLeast
<1> QED BY <1>2, <1>3, <1>4

-----------------------------------------------------------------------------
(* The rain of the files: what is computed, and its lapses                  *)

\* The file to ingest.
TheFile == downloads[1].file
ThePoll == downloads[1].at

LEMMA Downloaded ==
  ASSUME FileTypes, NEW k \in DOMAIN downloads
  PROVE  downloads[k].file \in Ticks /\ downloads[k].at \in Ticks
<1> DEFINE S == [file : Ticks, at : Ticks]
<1>1. downloads \in Seq(S)
  BY DEF FileTypes
<1>2. downloads[k] \in S
  <2> HIDE DEF S
  <2> QED BY <1>1
<1> QED BY <1>2

LEMMA TheDownload ==
  ASSUME FileTypes, FilesInOrder, downloads # <<>>
  PROVE  /\ TheFile \in Ticks /\ ThePoll \in Ticks /\ TheFile <= ThePoll
         /\ ThePoll <= polled /\ TheFile <= file /\ TheFile <= now
         /\ \A u \in Rows : u <= TheFile /\ u < ThePoll
         /\ CacheOfDay(TheFile)
<1>1. 1 \in DOMAIN downloads
  <2> DEFINE S == [file : Ticks, at : Ticks]
  <2>1. downloads \in Seq(S)
    BY DEF FileTypes
  <2> HIDE DEF S
  <2> QED BY <2>1
<1>2. TheFile \in Ticks /\ ThePoll \in Ticks
  BY <1>1, Downloaded DEF TheFile, ThePoll
<1>3. /\ TheFile <= ThePoll /\ ThePoll <= polled /\ TheFile <= file
      /\ \A u \in Rows : u <= TheFile /\ u < ThePoll
      /\ rainCache.time <= TheFile
  BY <1>1 DEF FilesInOrder, TheFile, ThePoll
<1>4. now \in Ticks /\ file \in -1..now /\ rainCache.time \in -1..LastTick
      /\ (rainCache.time >= 0 => rainCache.rain = DayRainfall(rainCache.time))
  BY DEF FileTypes
<1>5. TheFile \in Nat /\ now \in Nat /\ LastTick \in Nat
  BY <1>2, <1>4, DayTimes
<1>6. TheFile <= now
  BY <1>3, <1>4, <1>5
<1>7. CacheOfDay(TheFile)
  BY <1>3, <1>4, <1>5 DEF CacheOfDay
<1> QED BY <1>2, <1>3, <1>6, <1>7

\* The others follow it.
LEMMA DownloadTaken ==
  ASSUME FileTypes, FilesInOrder, downloads # <<>>, downloads' = Tail(downloads),
         Rows' \subseteq Rows \cup {TheFile}, rainCache'.time \in {rainCache.time, TheFile},
         UNCHANGED <<file, polled, now>>
  PROVE  FilesInOrder' /\ downloads' \in Seq([file : Ticks, at : Ticks])
<1>1. downloads \in Seq([file : Ticks, at : Ticks]) /\ now \in Ticks /\ file \in -1..now /\ polled \in -1..now
  BY DEF FileTypes
<1>2. downloads' \in Seq([file : Ticks, at : Ticks])
  BY <1>1
<1>3. \A k \in DOMAIN downloads' :
         /\ k \in DOMAIN downloads /\ k + 1 \in DOMAIN downloads /\ 1 \in DOMAIN downloads
         /\ k \in Nat /\ 1 < k + 1 /\ downloads'[k] = downloads[k + 1]
  BY <1>1
<1>4. /\ TheFile \in Ticks /\ ThePoll \in Ticks /\ TheFile <= ThePoll
      /\ ThePoll <= polled /\ TheFile <= file
      /\ \A u \in Rows : u <= TheFile /\ u < ThePoll
      /\ rainCache.time <= TheFile
  BY TheDownload DEF CacheOfDay
<1>5. ASSUME NEW k \in DOMAIN downloads'
      PROVE  /\ downloads'[k].file <= downloads'[k].at
             /\ downloads'[k].at <= polled' /\ downloads'[k].file <= file'
             /\ \A u \in Rows' : u <= downloads'[k].file /\ u < downloads'[k].at
             /\ rainCache'.time <= downloads'[k].file
  <2>1. 1 \in DOMAIN downloads /\ k + 1 \in DOMAIN downloads /\ downloads'[k] = downloads[k + 1]
        /\ 1 < k + 1
    BY <1>3
  <2>2. /\ downloads[k + 1].file <= downloads[k + 1].at
        /\ downloads[k + 1].at <= polled /\ downloads[k + 1].file <= file
        /\ \A u \in Rows : u <= downloads[k + 1].file /\ u < downloads[k + 1].at
        /\ rainCache.time <= downloads[k + 1].file
        /\ TheFile <= downloads[k + 1].file /\ ThePoll < downloads[k + 1].at
    BY <2>1 DEF FilesInOrder, TheFile, ThePoll
  <2>3. downloads[k + 1].file \in Ticks /\ downloads[k + 1].at \in Ticks
    BY <2>1, Downloaded
  <2>4. downloads[k + 1].at \in Nat /\ ThePoll \in Nat /\ TheFile \in Nat
    BY <1>4, <2>3, DayTimes
  <2>5. TheFile < downloads[k + 1].at
    BY <1>4, <2>2, <2>4
  <2> QED BY <2>1, <2>2, <2>5
<1>6. ASSUME NEW i \in DOMAIN downloads', NEW k \in DOMAIN downloads', i < k
      PROVE  downloads'[i].file <= downloads'[k].file /\ downloads'[i].at < downloads'[k].at
  <2>1. /\ i + 1 \in DOMAIN downloads /\ k + 1 \in DOMAIN downloads /\ i + 1 < k + 1
        /\ downloads'[i] = downloads[i + 1] /\ downloads'[k] = downloads[k + 1]
    BY <1>3, <1>6
  <2> QED BY <2>1 DEF FilesInOrder
<1>7. \A u \in Rows' : u <= file' /\ u <= polled'
  <2>1. TheFile <= polled
    <3>1. TheFile \in Nat /\ ThePoll \in Nat /\ now \in Nat
      BY <1>1, <1>4, DayTimes
    <3> QED BY <1>1, <1>4, <3>1
  <2> QED BY <1>4, <2>1 DEF FilesInOrder
<1>8. rainCache'.time <= file'
  BY <1>4 DEF FilesInOrder
<1>9. FilesInOrder'
  BY <1>5, <1>6, <1>7, <1>8 DEF FilesInOrder
<1> QED BY <1>2, <1>9

\* What the database that is read holds.
LEMMA TheRows ==
  ASSUME FileTypes, NEW begin \in Int, NEW end \in Int
  PROVE  /\ GetRainfall(begin, end) \in Int
         /\ SameRows /\ "half" \notin lapses =>
              GetRainfall(begin, end) =
                RainBetween(fileCopies, IF "begin" \in bounds THEN begin ELSE begin + 1,
                                        IF "end" \in bounds THEN end ELSE end - 1)
<1> DEFINE a == IF "begin" \in bounds THEN begin ELSE begin + 1
           b == IF "end" \in bounds THEN end ELSE end - 1
           rows == IF summed = "cassandra" THEN fileRows ELSE fileCopies
<1>1. GetRainfall(begin, end) = RainBetween(rows, a, b)
  BY DEF GetRainfall
<1>2. a \in Int /\ b \in Int /\ IsTable(rows)
  BY DEF FileTypes
<1>3. RainBetween(rows, a, b) \in Int
  <2> HIDE DEF a, b, rows
  <2> QED BY <1>2, RowValues
<1>4. SameRows /\ "half" \notin lapses => rows = fileCopies
  BY DEF SameRows
<1> QED BY <1>1, <1>3, <1>4

LEMMA RowAdded ==
  ASSUME NEW rows, IsTable(rows), NEW t \in Ticks, NEW rain \in Int \cup {NaN}
  PROVE  /\ IsTable(WithRain(rows, t, rain))
         /\ rain = NaN => WithRain(rows, t, rain) = rows
         /\ rain # NaN =>
              WithRain(rows, t, rain) = [u \in DOMAIN rows \cup {t} |-> IF u = t THEN rain ELSE rows[u]]
<1>1. NaN \notin Int
  BY NaNAssumption
<1>2. rain = NaN => WithRain(rows, t, rain) = rows
  BY DEF WithRain, Has
<1>3. rain # NaN =>
         WithRain(rows, t, rain) = [u \in DOMAIN rows \cup {t} |-> IF u = t THEN rain ELSE rows[u]]
  BY DEF WithRain, Has
<1>4. CASE rain = NaN
  BY <1>2, <1>3, <1>4
<1>5. CASE rain # NaN
  <2> DEFINE more == [u \in DOMAIN rows \cup {t} |-> IF u = t THEN rain ELSE rows[u]]
  <2>1. IsTable(more)
    BY <1>1, <1>5 DEF IsTable, Ticks
  <2> HIDE DEF more
  <2> QED BY <1>2, <1>3, <1>5, <2>1 DEF more
<1> QED BY <1>4, <1>5

\* The lapses, one by one.
LEMMA TheLapses ==
  ASSUME NEW d, NEW early \in BOOLEAN, NEW lapse \in {"replayed", "late", "close", "gap", "edge", "early"}
  PROVE  lapse \in LapsesOf(d, early) <=>
            CASE lapse = "replayed" -> d.file \in Rows /\ source \in {"day", "static", "statichour", "current"}
              [] lapse = "late" ->
                    \/ source = "day" /\ Midnight(now) # Midnight(d.file)
                    \/ source = "current" /\ Midnight(d.at) # Midnight(d.file)
              [] lapse = "close" ->
                    /\ source = "hour" /\ d.file % Hour < TopOfTheHour
                    /\ \E u \in Rows : u # d.file /\ u > d.file - Hour
              [] lapse = "gap" ->
                    \/ /\ source = "hour" /\ d.file % Hour < TopOfTheHour /\ Rows # {}
                       /\ \A u \in Rows : u < d.file - Hour
                    \/ source = "statichour" /\ Rows # {} /\ \A u \in Rows : u < d.file - Hour
              [] lapse = "edge" ->
                    /\ source = "statichour"
                    /\ \E u \in Rows : /\ u < d.file /\ \A v \in Rows : v <= u \/ v >= d.file
                                       /\ GetRainfall(d.file - Hour, d.file) > HourUpTo(u, d.file)
              [] OTHER -> early
BY DEF LapsesOf, Rows

\* The rain to store.
TheRain(early) == ComputedRainfall(downloads[1], early)
LEMMA RainComputed ==
  ASSUME NEW early
  PROVE  /\ source = "day" => TheRain(early) = DayMessageRain(TheFile)
         /\ source = "hour" => TheRain(early) = HourMessageRain(TheFile)
         /\ source = "static" => TheRain(early) = StaticRain(TheFile)
         /\ source = "statichour" => TheRain(early) = StaticHourRain(TheFile)
         /\ source = "current" => TheRain(early) = CurrentRain(TheFile, ThePoll, early)
BY DEF TheRain, ComputedRainfall, TheFile, ThePoll

\* A file is ingested.
Ingests(early) ==
    /\ fileCopies' = WithRain(fileCopies, TheFile, TheRain(early))
    /\ lapses \cup LapsesOf(downloads[1], early) \subseteq lapses'
    /\ UNCHANGED <<source, bounds, summed, fallen, now>>

LEMMA IngestLapses ==
  ASSUME NEW early \in BOOLEAN, Ingests(early)
  PROVE  /\ lapses \subseteq lapses'
         /\ (OnceAtMost' => OnceAtMost) /\ (OnceAtLeast' => OnceAtLeast)
         /\ OnceAtMost' \/ OnceAtLeast' => "half" \notin lapses
         /\ OnceAtMost' =>
              /\ ~early
              /\ source = "day" => Midnight(now) = Midnight(TheFile)
              /\ source = "current" => Midnight(ThePoll) = Midnight(TheFile)
              /\ source = "hour" /\ TheFile % Hour < TopOfTheHour =>
                    \A u \in Rows : u # TheFile => ~(u > TheFile - Hour)
         /\ OnceAtLeast' =>
              /\ source \in {"day", "static", "statichour", "current"} => TheFile \notin Rows
              /\ (source = "hour" /\ TheFile % Hour < TopOfTheHour) \/ source = "statichour" =>
                    Rows = {} \/ \E u \in Rows : ~(u < TheFile - Hour)
              /\ source = "statichour" =>
                    \A u \in Rows : u < TheFile /\ (\A v \in Rows : v <= u \/ v >= TheFile) =>
                       ~(GetRainfall(TheFile - Hour, TheFile) > HourUpTo(u, TheFile))
<1> DEFINE L == LapsesOf(downloads[1], early)
<1>0. lapses \subseteq lapses' /\ L \subseteq lapses'
  BY DEF Ingests
<1>1. "early" \in L <=> early
  BY TheLapses
<1>2. "late" \in L <=>
        \/ source = "day" /\ Midnight(now) # Midnight(TheFile)
        \/ source = "current" /\ Midnight(ThePoll) # Midnight(TheFile)
  BY TheLapses DEF TheFile, ThePoll
<1>3. "close" \in L <=>
        /\ source = "hour" /\ TheFile % Hour < TopOfTheHour
        /\ \E u \in Rows : u # TheFile /\ u > TheFile - Hour
  BY TheLapses DEF TheFile
<1>4. "replayed" \in L <=> TheFile \in Rows /\ source \in {"day", "static", "statichour", "current"}
  BY TheLapses DEF TheFile
<1>5. "gap" \in L <=>
        \/ /\ source = "hour" /\ TheFile % Hour < TopOfTheHour /\ Rows # {}
           /\ \A u \in Rows : u < TheFile - Hour
        \/ source = "statichour" /\ Rows # {} /\ \A u \in Rows : u < TheFile - Hour
  BY TheLapses DEF TheFile
<1>6. "edge" \in L <=>
        /\ source = "statichour"
        /\ \E u \in Rows : /\ u < TheFile /\ \A v \in Rows : v <= u \/ v >= TheFile
                           /\ GetRainfall(TheFile - Hour, TheFile) > HourUpTo(u, TheFile)
  BY TheLapses DEF TheFile
<1> HIDE DEF L
<1>7. OnceAtMost' => {"late", "close", "early"} \cap L = {} /\ "half" \notin lapses /\ OnceAtMost
  BY <1>0 DEF OnceAtMost
<1>8. OnceAtLeast' => {"replayed", "gap", "edge"} \cap L = {} /\ "half" \notin lapses /\ OnceAtLeast
  BY <1>0 DEF OnceAtLeast
<1>9. OnceAtMost' =>
              /\ ~early
              /\ source = "day" => Midnight(now) = Midnight(TheFile)
              /\ source = "current" => Midnight(ThePoll) = Midnight(TheFile)
              /\ source = "hour" /\ TheFile % Hour < TopOfTheHour =>
                    \A u \in Rows : u # TheFile => ~(u > TheFile - Hour)
  BY <1>1, <1>2, <1>3, <1>7
<1>10. OnceAtLeast' =>
              /\ source \in {"day", "static", "statichour", "current"} => TheFile \notin Rows
              /\ (source = "hour" /\ TheFile % Hour < TopOfTheHour) \/ source = "statichour" =>
                    Rows = {} \/ \E u \in Rows : ~(u < TheFile - Hour)
              /\ source = "statichour" =>
                    \A u \in Rows : u < TheFile /\ (\A v \in Rows : v <= u \/ v >= TheFile) =>
                       ~(GetRainfall(TheFile - Hour, TheFile) > HourUpTo(u, TheFile))
  BY <1>4, <1>5, <1>6, <1>8
<1> QED BY <1>0, <1>7, <1>8, <1>9, <1>10

LEMMA HourRains ==
  ASSUME fallen \in Weather, NEW t \in Ticks
  PROVE  HourRainfall(t) \in Nat
<1>1. t \in 0..LastTick /\ t \in Nat
  BY DayTimes
<1>2. Before(t) \in 0..LastTick /\ Before(t) <= t
      /\ HourRainfall(t) = fallen[t] - fallen[Before(t)]
  BY <1>1, HourBefore
<1>3. Before(t) \in 0..t
  BY <1>1, <1>2
<1>4. fallen[Before(t)] \in Nat /\ fallen[t] \in Nat /\ fallen[Before(t)] <= fallen[t]
  BY <1>1, <1>3, RainFalls
<1> QED BY <1>2, <1>4

\* The rain is a number or NaN, and only the total of a day may be negative.
LEMMA RainTypes ==
  ASSUME FileTypes, FilesInOrder, downloads # <<>>, NEW early \in BOOLEAN
  PROVE  TheRain(early) \in Int \cup {NaN} /\ (source # "day" => TheRain(early) \in Nat \cup {NaN})
<1>1. /\ source \in Sources /\ fallen \in Weather /\ now \in Ticks
      /\ TheFile \in Ticks /\ ThePoll \in Ticks /\ CacheOfDay(TheFile) /\ TheFile <= now
  BY TheDownload DEF FileTypes
<1>2. DayRainfall(TheFile) \in Nat
  BY <1>1, DayTimes, DayRains
<1>3. /\ Midnight(now) \in Int /\ now \in Int /\ Midnight(TheFile) \in Int /\ TheFile \in Int
      /\ Midnight(ThePoll) \in Int /\ ThePoll \in Int /\ Hour \in Int
  BY <1>1, DayTimes, DayRainAssumption
<1>4. \A a, b \in Int : GetRainfall(a, b) \in Int
  BY TheRows
<1>5. CASE source = "day"
  <2>1. GetDayRainfall(now) \in Int
    <3>1. CASE rainCache.time > Midnight(now)
      BY <1>1, <3>1, CachedDay DEF GetDayRainfall
    <3>2. CASE ~(rainCache.time > Midnight(now))
      BY <1>3, <1>4, <3>2 DEF GetDayRainfall
    <3> QED BY <3>1, <3>2
  <2> QED BY <1>2, <1>5, <2>1, RainComputed DEF DayMessageRain, NoRain
<1>6. CASE source = "hour"
  <2>1. HourRainfall(TheFile) \in Nat
    BY <1>1, HourRains
  <2> QED BY <1>6, <2>1, RainComputed DEF HourMessageRain, NoRain
<1>7. CASE source = "static"
  <2>1. GetRainfall(Midnight(TheFile), TheFile) \in Int
    BY <1>3, <1>4
  <2> QED BY <1>2, <1>7, <2>1, RainComputed DEF StaticRain, Clamp
<1>8. CASE source = "statichour"
  <2>1. HourRainfall(TheFile) \in Int
    BY <1>1, HourRains
  <2>2. GetRainfall(TheFile - Hour, TheFile) \in Int
    BY <1>3, <1>4
  <2> QED BY <1>8, <2>1, <2>2, RainComputed DEF StaticHourRain, Clamp
<1>9. CASE source = "current"
  <2>1. KnownRain(ThePoll, early) \in Int
    <3>1. GetRainfall(Midnight(ThePoll), ThePoll - 2) \in Int
          /\ GetRainfall(Midnight(ThePoll), ThePoll - 1) \in Int
      <4>1. ThePoll - 2 \in Int /\ ThePoll - 1 \in Int
        BY <1>3
      <4> QED BY <1>3, <4>1, TheRows
    <3>2. KnownRain(ThePoll, early) = IF early THEN GetRainfall(Midnight(ThePoll), ThePoll - 2)
                                      ELSE GetRainfall(Midnight(ThePoll), ThePoll - 1)
      BY DEF KnownRain
    <3> QED BY <3>1, <3>2
  <2> QED BY <1>2, <1>9, <2>1, RainComputed DEF CurrentRain, NoRain
<1> QED BY <1>1, <1>5, <1>6, <1>7, <1>8, <1>9 DEF Sources

\* A row with the rain, or none.
LEMMA RowIngested ==
  ASSUME FileTypes, FilesInOrder, downloads # <<>>, NEW early \in BOOLEAN, Ingests(early)
  PROVE  /\ IsTable(fileCopies')
         /\ TheRain(early) = NaN => fileCopies' = fileCopies
         /\ TheRain(early) # NaN => TheRain(early) \in Int /\ Stores(TheFile, TheRain(early))
         /\ Rows' \subseteq Rows \cup {TheFile}
         /\ source # "day" => \A u \in Rows' : fileCopies'[u] >= 0
<1>1. TheFile \in Ticks /\ IsTable(fileCopies) /\ (source # "day" => \A u \in Rows : fileCopies[u] >= 0)
  BY TheDownload DEF FileTypes
<1>2. TheRain(early) \in Int \cup {NaN} /\ (source # "day" => TheRain(early) \in Nat \cup {NaN})
  BY RainTypes
<1>3. /\ IsTable(fileCopies')
      /\ TheRain(early) = NaN => fileCopies' = fileCopies
      /\ TheRain(early) # NaN => TheRain(early) \in Int /\ Stores(TheFile, TheRain(early))
  <2> DEFINE more == WithRain(fileCopies, TheFile, TheRain(early))
             full == [u \in DOMAIN fileCopies \cup {TheFile} |->
                        IF u = TheFile THEN TheRain(early) ELSE fileCopies[u]]
  <2>1. /\ IsTable(more)
        /\ TheRain(early) = NaN => more = fileCopies
        /\ TheRain(early) # NaN => more = full
    BY <1>1, <1>2, RowAdded
  <2>2. fileCopies' = more
    BY DEF Ingests
  <2>3. fileCopies' = full => Stores(TheFile, TheRain(early))
    BY DEF Stores
  <2> HIDE DEF more, full
  <2> QED BY <1>2, <2>1, <2>2, <2>3
<1>4. CASE TheRain(early) = NaN
  BY <1>1, <1>3, <1>4 DEF Rows
<1>5. CASE TheRain(early) # NaN
  <2>1. /\ Rows' = Rows \cup {TheFile} /\ fileCopies'[TheFile] = TheRain(early)
        /\ \A u \in Rows : u # TheFile => fileCopies'[u] = fileCopies[u]
    BY <1>1, <1>3, <1>5, RowStored
  <2>2. source # "day" => TheRain(early) \in Nat
    BY <1>2, <1>5
  <2> QED BY <1>1, <1>3, <1>5, <2>1, <2>2
<1> QED BY <1>4, <1>5

-----------------------------------------------------------------------------
(* The rain of the files: a file is ingested                                *)

\* Totals of the day, in StatIC files.
LEMMA StaticIngests ==
  ASSUME FileTypes, FilesInOrder, SameRows, DaysCounted, downloads # <<>>,
         NEW early \in BOOLEAN, Ingests(early), source = "static"
  PROVE  (OnceAtMost' => DayAtMost') /\ (OnceAtLeast' => DayAtLeast') /\ (OnceAtMost' => MidnightIsDry')
<1> DEFINE t == TheFile
           x == TheRain(early)
           a == IF "begin" \in bounds THEN Midnight(t) ELSE Midnight(t) + 1
           b == IF "end" \in bounds THEN t ELSE t - 1
           g == GetRainfall(Midnight(t), t)
<1>1. /\ t \in Ticks /\ (\A u \in Rows : u <= t) /\ fallen \in Weather
      /\ IsTable(fileCopies) /\ (\A u \in Rows : fileCopies[u] >= 0) /\ fallen' = fallen
  BY TheDownload DEF FileTypes, Ingests
<1>2. /\ lapses \subseteq lapses' /\ (OnceAtMost' => OnceAtMost) /\ (OnceAtLeast' => OnceAtLeast)
      /\ (OnceAtMost' \/ OnceAtLeast' => "half" \notin lapses) /\ (OnceAtLeast' => t \notin Rows)
  BY IngestLapses
<1>3. (OnceAtMost => DayAtMost) /\ (OnceAtLeast => DayAtLeast) /\ (OnceAtMost => MidnightIsDry)
  BY DEF DaysCounted
<1>4. t \in Nat /\ Midnight(t) \in Int /\ t \in Int
  BY <1>1, DayTimes
<1>5. a \in {Midnight(t), Midnight(t) + 1} /\ b \in {t - 1, t}
  OBVIOUS
<1>6. x = Clamp(DayRainfall(t) - g)
  BY RainComputed DEF StaticRain
<1>7. DayRainfall(t) \in Nat /\ (Midnight(t) = t => DayRainfall(t) = 0)
  <2>1. DayRainfall(t) \in Nat /\ fallen[t] \in Nat
    BY <1>1, DayTimes, DayRains, RainFalls
  <2>2. Midnight(t) = t => DayRainfall(t) = fallen[t] - fallen[t]
    BY DEF DayRainfall
  <2> QED BY <2>1, <2>2
<1>8. OnceAtMost' \/ OnceAtLeast' => g = RainBetween(fileCopies, a, b)
  BY <1>2, <1>4, TheRows
<1>9. g \in Int
  BY <1>4, TheRows
<1>10. x \in Nat /\ x \in Int /\ x # NaN
  BY <1>6, <1>7, <1>9, NaNAssumption DEF Clamp
<1>11. Stores(t, x) /\ IsTable(fileCopies')
  BY <1>10, RowIngested
<1> HIDE DEF t, x, a, b, g
<1>12. OnceAtMost' \/ OnceAtLeast' =>
         /\ (MidnightIsDry /\ DayAtMost => (RainOfDay(t) - Old(fileCopies, t)) + x <= DayRainfall(t))
         /\ DayRainfall(t) <= RainOfDay(t) + x
         /\ (Midnight(t) = t => x = 0)
  BY <1>1, <1>5, <1>6, <1>8, StaticCounts
<1>13. (OnceAtMost' => DayAtMost') /\ (OnceAtLeast' => DayAtLeast')
  BY <1>1, <1>2, <1>3, <1>10, <1>11, <1>12, DaysMove
<1>14. ASSUME OnceAtMost' PROVE MidnightIsDry'
  <2>1. MidnightIsDry /\ (Midnight(t) = t => x = 0)
    BY <1>2, <1>3, <1>12, <1>14
  <2>2. /\ Rows' = Rows \cup {t} /\ fileCopies'[t] = x
        /\ \A u \in Rows : u # t => fileCopies'[u] = fileCopies[u]
    BY <1>1, <1>10, <1>11, RowStored
  <2> QED BY <2>1, <2>2 DEF MidnightIsDry
<1> QED BY <1>13, <1>14 DEF t

\* Current conditions.
LEMMA CurrentIngests ==
  ASSUME FileTypes, FilesInOrder, SameRows, DaysCounted, downloads # <<>>,
         NEW early \in BOOLEAN, Ingests(early), source = "current"
  PROVE  (OnceAtMost' => DayAtMost') /\ (OnceAtLeast' => DayAtLeast')
<1> DEFINE t == TheFile
           at == ThePoll
           x == TheRain(early)
           b == IF early THEN at - 2 ELSE at - 1
           g == RainBetween(fileCopies, Midnight(at), b)
           k == KnownRain(at, early)
<1>1. /\ t \in Ticks /\ (\A u \in Rows : u <= t /\ u < at) /\ fallen \in Weather
      /\ IsTable(fileCopies) /\ (\A u \in Rows : fileCopies[u] >= 0) /\ fallen' = fallen
      /\ at \in Ticks /\ t <= at /\ bounds = {"begin", "end"} /\ fileCopies' = WithRain(fileCopies, t, x)
  BY TheDownload DEF FileTypes, Ingests
<1>2. /\ lapses \subseteq lapses' /\ (OnceAtMost' => OnceAtMost) /\ (OnceAtLeast' => OnceAtLeast)
      /\ (OnceAtMost' \/ OnceAtLeast' => "half" \notin lapses) /\ (OnceAtLeast' => t \notin Rows)
      /\ (OnceAtMost' => ~early /\ Midnight(at) = Midnight(t))
  BY IngestLapses
<1>3. (OnceAtMost => DayAtMost) /\ (OnceAtLeast => DayAtLeast)
  BY DEF DaysCounted
<1>4. b \in {at - 2, at - 1} /\ (~early => b = at - 1) /\ b \in Int /\ Midnight(at) \in Int
  BY <1>1, DayTimes
<1>5. x = IF DayRainfall(t) >= k THEN DayRainfall(t) - k ELSE NaN
  BY RainComputed DEF CurrentRain, NoRain
<1>6. OnceAtMost' \/ OnceAtLeast' => k = g
  <2>1. k = GetRainfall(Midnight(at), b)
    BY DEF KnownRain
  <2> HIDE DEF b, k
  <2> QED BY <1>1, <1>2, <1>4, <2>1, TheRows
<1>7. /\ x = NaN => fileCopies' = fileCopies
      /\ x # NaN => x \in Int /\ Stores(t, x)
  BY RowIngested
<1> HIDE DEF t, at, x, b, k
<1>8. CASE x = NaN
  BY <1>1, <1>2, <1>3, <1>7, <1>8, DaysStay
<1>9. CASE x # NaN /\ (OnceAtMost' \/ OnceAtLeast')
  <2>1. k = g /\ k <= DayRainfall(t) /\ x = DayRainfall(t) - k
    <3>1. DayRainfall(t) \in Nat /\ g \in Int
      BY <1>1, <1>4, DayTimes, DayRains, RowValues
    <3> HIDE DEF g
    <3> QED BY <1>5, <1>6, <1>9, <3>1
  <2>2. /\ b = at - 1 /\ Midnight(at) = Midnight(t) =>
             (RainOfDay(t) - Old(fileCopies, t)) + x <= DayRainfall(t)
        /\ DayRainfall(t) <= RainOfDay(t) + x
    BY <1>1, <1>4, <2>1, CurrentCounts
  <2> QED BY <1>1, <1>2, <1>3, <1>4, <1>7, <1>9, <2>2, DaysMove
<1>10. CASE ~(OnceAtMost' \/ OnceAtLeast')
  BY <1>10
<1> QED BY <1>8, <1>9, <1>10

\* Totals of the day, in the other files.
LEMMA DayIngests ==
  ASSUME FileTypes, FilesInOrder, SameRows, DaysCounted, downloads # <<>>,
         NEW early \in BOOLEAN, Ingests(early), source = "day",
         NEW t, t = TheFile, NEW c, c = rainCache.time
  PROVE  /\ OnceAtMost' => DayAtMost' /\ \A u \in Rows' : fileCopies'[u] >= 0 /\ u <= t
         /\ OnceAtLeast' => DayAtLeast'
         /\ OnceAtLeast' => DayRainfall(t) <= RainOfDay(t)' \/ DayRainfall(t) >= Limit
         /\ OnceAtLeast' /\ c >= 0 => rainCache.rain <= RainOfDay(c)' \/ rainCache.rain >= Limit
<1> DEFINE x == TheRain(early)
           g == GetDayRainfall(now)
<1>1. /\ t \in Ticks /\ (\A u \in Rows : u <= t) /\ fallen \in Weather /\ t <= now /\ now \in Ticks
      /\ IsTable(fileCopies) /\ fallen' = fallen /\ bounds = {"begin", "end"} /\ CacheOfDay(t)
  BY TheDownload DEF FileTypes, Ingests
<1>2. /\ lapses \subseteq lapses' /\ (OnceAtMost' => OnceAtMost) /\ (OnceAtLeast' => OnceAtLeast)
      /\ (OnceAtMost' \/ OnceAtLeast' => "half" \notin lapses) /\ (OnceAtLeast' => t \notin Rows)
      /\ (OnceAtMost' => Midnight(now) = Midnight(t))
  BY IngestLapses
<1>3. /\ (OnceAtMost => DayAtMost) /\ (OnceAtLeast => DayAtLeast)
      /\ (OnceAtMost => \A u \in Rows : fileCopies[u] >= 0 /\ u <= c)
      /\ (OnceAtLeast /\ c >= 0 => rainCache.rain <= RainOfDay(c) \/ rainCache.rain >= Limit)
  BY DEF DaysCounted, Subtracted
<1>4. DayRainfall(t) \in Nat /\ Limit \in Nat
  BY SMTT(30), <1>1, DayTimes, DayRains, DayRainAssumption
<1>5. x = IF DayRainfall(t) < Limit THEN DayRainfall(t) - g ELSE NaN
  BY RainComputed DEF DayMessageRain, NoRain
<1>6. OnceAtMost' \/ OnceAtLeast' => IsKnown(g)
  <2> SUFFICES ASSUME OnceAtMost' \/ OnceAtLeast' PROVE IsKnown(g)
    OBVIOUS
  <2>1. Midnight(now) \in Int /\ now \in Int
    BY <1>1, DayTimes
  <2>2. GetRainfall(Midnight(now), now) = RainBetween(fileCopies, Midnight(now), now)
        /\ GetRainfall(Midnight(now), now) \in Int
    BY <1>1, <1>2, <2>1, TheRows
  <2>3. rainCache.time > Midnight(now) => rainCache.rain \in Int
    BY <1>1, CachedDay
  <2>4. g = IF rainCache.time > Midnight(now) THEN rainCache.rain ELSE GetRainfall(Midnight(now), now)
    BY DEF GetDayRainfall
  <2> HIDE DEF g
  <2> QED BY <2>2, <2>3, <2>4 DEF IsKnown
<1>7. /\ x = NaN => fileCopies' = fileCopies
      /\ x # NaN => x \in Int /\ Stores(t, x)
  BY RowIngested
<1>8. c \in -1..t /\ (c >= 0 => rainCache.rain = DayRainfall(c)) /\ t \in Nat
  BY <1>1, DayTimes DEF CacheOfDay
<1> HIDE DEF x, g
<1>9. CASE x = NaN /\ (OnceAtMost' \/ OnceAtLeast')
  <2>1. (OnceAtMost' => DayAtMost') /\ (OnceAtLeast' => DayAtLeast')
    BY <1>1, <1>2, <1>3, <1>7, <1>9, DaysStay
  <2>2. Rows' = Rows /\ fileCopies' = fileCopies /\ RainOfDay(c)' = RainOfDay(c)
    BY <1>7, <1>9 DEF Rows, RainOfDay
  <2>3. DayRainfall(t) >= Limit
    <3>1. g \in Int
      BY <1>6, <1>9 DEF IsKnown
    <3> QED BY <1>4, <1>5, <1>9, <3>1, NaNAssumption
  <2> QED BY <1>1, <1>2, <1>3, <2>1, <2>2, <2>3
<1>10. CASE x # NaN /\ (OnceAtMost' \/ OnceAtLeast')
  <2>1. x = DayRainfall(t) - g /\ DayRainfall(t) < Limit /\ IsKnown(g) /\ g \in Int
        /\ x \in Int /\ Stores(t, x)
    BY <1>4, <1>5, <1>6, <1>7, <1>10 DEF IsKnown
  <2>2. OnceAtMost' => x \in Nat /\ (RainOfDay(t) - Old(fileCopies, t)) + x <= DayRainfall(t)
    BY <1>1, <1>2, <1>3, <2>1, DayCountsMost
  <2>3. OnceAtLeast' => t \notin Rows /\ DayRainfall(t) <= RainOfDay(t) + x
    BY <1>1, <1>2, <1>3, <1>4, <2>1, DayCountsLeast
  <2>4. /\ OnceAtMost' => DayAtMost'
        /\ OnceAtLeast' => DayAtLeast' /\ DayRainfall(t) <= RainOfDay(t)'
    BY <1>1, <1>2, <1>3, <2>1, <2>2, <2>3, DaysMove
  <2>5. /\ Rows' = Rows \cup {t} /\ fileCopies'[t] = x
        /\ \A u \in Rows : u # t => fileCopies'[u] = fileCopies[u]
    BY <1>1, <2>1, RowStored
  <2>6. OnceAtMost' => \A u \in Rows' : fileCopies'[u] >= 0 /\ u <= t
    BY <1>1, <1>2, <1>3, <1>8, <2>2, <2>5
  <2>7. ASSUME OnceAtLeast', c >= 0
        PROVE  rainCache.rain <= RainOfDay(c)' \/ rainCache.rain >= Limit
    <3>1. c \in 0..t /\ c \in Ticks /\ rainCache.rain = DayRainfall(c)
      BY SMTT(30), <1>1, <1>8, <2>7, DayTimes DEF Ticks
    <3>2. CASE Midnight(c) = Midnight(t)
      <4>1. DayRainfall(c) \in Nat /\ DayRainfall(c) <= DayRainfall(t)
        BY <1>1, <3>1, <3>2, DayTimes, DayRains
      <4>2. RainOfDay(c)' = (RainOfDay(t) - Old(fileCopies, t)) + x
        BY <1>1, <2>1, <3>1, <3>2, DaySumsMove
      <4>3. Old(fileCopies, t) = 0 /\ DayRainfall(t) <= RainOfDay(t) + x /\ RainOfDay(t) \in Int
        BY <1>1, <2>3, <2>7, DaySums DEF Old, Rows
      <4> QED BY <1>4, <2>1, <3>1, <4>1, <4>2, <4>3
    <3>3. CASE Midnight(c) # Midnight(t)
      <4>1. RainOfDay(c)' = RainOfDay(c)
        BY <1>1, <2>1, <3>1, <3>3, DaySumsMove
      <4> QED BY <1>2, <1>3, <2>7, <4>1
    <3> QED BY <3>2, <3>3
  <2> QED BY <2>4, <2>6, <2>7
<1>11. CASE ~(OnceAtMost' \/ OnceAtLeast')
  BY <1>11
<1> QED BY <1>9, <1>10, <1>11

LEMMA HoursStay ==
  ASSUME UNCHANGED <<fallen, fileCopies>>, lapses \subseteq lapses',
         OnceAtMost => HoursAtMost, OnceAtLeast => HoursAtLeast
  PROVE  (OnceAtMost' => HoursAtMost') /\ (OnceAtLeast' => HoursAtLeast')
<1>1. Rows' = Rows /\ (\A f : IsFirst(f)' <=> IsFirst(f))
  BY DEF Rows, IsFirst
<1>2. (OnceAtMost' => OnceAtMost) /\ (OnceAtLeast' => OnceAtLeast)
  BY DEF OnceAtMost, OnceAtLeast
<1>3. HoursAtMost => HoursAtMost'
  BY <1>1 DEF HoursAtMost
<1>4. HoursAtLeast => HoursAtLeast'
  BY <1>1 DEF HoursAtLeast
<1> QED BY <1>2, <1>3, <1>4

\* Totals of an hour, stored in the first minutes of the next one.
LEMMA HourIngests ==
  ASSUME FileTypes, FilesInOrder, HoursCounted, downloads # <<>>,
         NEW early \in BOOLEAN, Ingests(early), source = "hour",
         NEW t, t = TheFile
  PROVE  /\ (OnceAtMost' => HoursAtMost') /\ (OnceAtLeast' => HoursAtLeast')
         /\ \A u \in Rows' : fileCopies'[u] = HourRainfall(u)
<1> DEFINE x == TheRain(early)
<1>1. /\ t \in Ticks /\ (\A u \in Rows : u <= t) /\ fallen \in Weather
      /\ IsTable(fileCopies) /\ (\A u \in Rows : fileCopies[u] >= 0) /\ fallen' = fallen
  BY TheDownload DEF FileTypes, Ingests
<1>2. /\ lapses \subseteq lapses' /\ (OnceAtMost' => OnceAtMost) /\ (OnceAtLeast' => OnceAtLeast)
      /\ (OnceAtMost' /\ t % Hour < TopOfTheHour => \A u \in Rows : u # t => ~(u > t - Hour))
      /\ (OnceAtLeast' /\ t % Hour < TopOfTheHour => Rows = {} \/ \E u \in Rows : ~(u < t - Hour))
  BY IngestLapses
<1>3. /\ (OnceAtMost => HoursAtMost) /\ (OnceAtLeast => HoursAtLeast)
      /\ \A u \in Rows : fileCopies[u] = HourRainfall(u)
  BY DEF HoursCounted
<1>4. HourRainfall(t) \in Nat /\ HourRainfall(t) # NaN /\ HourRainfall(t) \in Int
  BY <1>1, HourRains, NaNAssumption
<1>5. x = IF t % Hour < TopOfTheHour THEN HourRainfall(t) ELSE NaN
  BY RainComputed DEF HourMessageRain, NoRain
<1>6. /\ x = NaN => fileCopies' = fileCopies
      /\ x # NaN => x \in Int /\ Stores(t, x)
  BY RowIngested
<1>7. Hour \in Nat /\ t \in Nat /\ \A u \in Rows : u \in Nat
  BY <1>1, DayTimes, RowTimes, DayRainAssumption DEF Rows
<1>8. t - Hour \in Int
  BY <1>7
<1> HIDE DEF x
<1>9. CASE x = NaN
  BY <1>1, <1>2, <1>3, <1>6, <1>9, HoursStay DEF Rows
<1>10. CASE x # NaN
  <2>1. x = HourRainfall(t) /\ Stores(t, x) /\ x \in Int /\ t % Hour < TopOfTheHour
    BY <1>5, <1>6, <1>10
  <2>2. /\ Rows' = Rows \cup {t} /\ fileCopies'[t] = x
        /\ \A u \in Rows : u # t => fileCopies'[u] = fileCopies[u]
    BY <1>1, <2>1, RowStored
  <2>3. \A u \in Rows' : fileCopies'[u] = HourRainfall(u)
    BY <1>3, <2>1, <2>2
  <2>4. ASSUME OnceAtMost' PROVE HoursAtMost'
    <3>1. \A u \in Rows : u # t => u <= t - Hour
      BY <1>2, <1>7, <1>8, <2>1, <2>4
    <3>2. HoursAtMost
      BY <1>2, <1>3, <2>4
    <3>3. \A f : FirstWith(f, t) =>
             (RainBetween(fileCopies, 0, t) - Old(fileCopies, t)) + x <= fallen[t] - fallen[Before(f)]
      BY <1>1, <2>1, <3>1, <3>2, HourMost
    <3> QED BY <1>1, <2>1, <3>2, <3>3, HoursAtMostStep
  <2>5. ASSUME OnceAtLeast' PROVE HoursAtLeast'
    <3>1. Rows = {} \/ \E u \in Rows : u >= t - Hour
      BY <1>2, <1>7, <1>8, <2>1, <2>5
    <3>2. HoursAtLeast
      BY <1>2, <1>3, <2>5
    <3>3. \A f : FirstWith(f, t) =>
             fallen[t] - fallen[Before(f)] <=
                (RainBetween(fileCopies, 0, LastTick) - Old(fileCopies, t)) + x
      BY <1>1, <1>3, <2>1, <3>1, <3>2, HourLeast
    <3> QED BY <1>1, <2>1, <3>3, HoursAtLeastStep
  <2> QED BY <2>3, <2>4, <2>5
<1> QED BY <1>9, <1>10

\* Totals of an hour, in StatIC files.
LEMMA StaticHourIngests ==
  ASSUME FileTypes, FilesInOrder, SameRows, HoursCounted, downloads # <<>>,
         NEW early \in BOOLEAN, Ingests(early), source = "statichour",
         NEW t, t = TheFile
  PROVE  (OnceAtMost' => HoursAtMost') /\ (OnceAtLeast' => HoursAtLeast')
<1> DEFINE x == TheRain(early)
           g == GetRainfall(t - Hour, t)
           a == IF "begin" \in bounds THEN t - Hour ELSE (t - Hour) + 1
           b == IF "end" \in bounds THEN t ELSE t - 1
<1>1. /\ t \in Ticks /\ (\A u \in Rows : u <= t) /\ fallen \in Weather
      /\ IsTable(fileCopies) /\ (\A u \in Rows : fileCopies[u] >= 0) /\ fallen' = fallen
  BY TheDownload DEF FileTypes, Ingests
<1>2. /\ lapses \subseteq lapses' /\ (OnceAtMost' => OnceAtMost) /\ (OnceAtLeast' => OnceAtLeast)
      /\ (OnceAtMost' \/ OnceAtLeast' => "half" \notin lapses) /\ (OnceAtLeast' => t \notin Rows)
      /\ (OnceAtLeast' => Rows = {} \/ \E u \in Rows : ~(u < t - Hour))
      /\ (OnceAtLeast' =>
            \A u \in Rows : u < t /\ (\A v \in Rows : v <= u \/ v >= t) => ~(g > HourUpTo(u, t)))
  BY IngestLapses
<1>3. (OnceAtMost => HoursAtMost) /\ (OnceAtLeast => HoursAtLeast)
  BY DEF HoursCounted
<1>4. Hour \in Nat /\ t \in Nat /\ \A u \in Rows : u \in Nat
  BY <1>1, DayTimes, RowTimes, DayRainAssumption DEF Rows
<1>5. t - Hour \in Int /\ a \in {t - Hour, (t - Hour) + 1} /\ b \in {t - 1, t} /\ t \in Int
      /\ a \in Int /\ b \in Int
  BY <1>4
<1>6. x = Clamp(HourRainfall(t) - g)
  BY RainComputed DEF StaticHourRain
<1>7. g \in Int /\ (OnceAtMost' \/ OnceAtLeast' => g = RainBetween(fileCopies, a, b))
  BY <1>2, <1>5, TheRows
<1>8. x \in Int /\ x # NaN
  BY <1>1, <1>6, <1>7, HourRains, NaNAssumption DEF Clamp
<1>9. Stores(t, x)
  BY <1>8, RowIngested
<1> HIDE DEF x, g, a, b
<1>10. ASSUME OnceAtMost' PROVE HoursAtMost'
  <2>1. HoursAtMost /\ g = RainBetween(fileCopies, a, b)
    BY <1>2, <1>3, <1>7, <1>10
  <2>2. \A f : FirstWith(f, t) =>
           (RainBetween(fileCopies, 0, t) - Old(fileCopies, t)) + x <= fallen[t] - fallen[Before(f)]
    BY <1>1, <1>5, <1>6, <2>1, StaticHourMost
  <2> QED BY <1>1, <1>8, <1>9, <2>1, <2>2, HoursAtMostStep
<1>11. ASSUME OnceAtLeast' PROVE HoursAtLeast'
  <2>1. HoursAtLeast /\ t \notin Rows /\ g = RainBetween(fileCopies, a, b)
    BY <1>2, <1>3, <1>7, <1>11
  <2>2. Rows = {} \/ \E u \in Rows : u >= t - Hour
    BY <1>2, <1>4, <1>5, <1>11
  <2>3. Rows = {} => g = 0
    BY <1>1, <1>5, <2>1, NoRows DEF Rows
  <2>4. \A u \in Rows : u < t /\ (\A v \in Rows : v <= u \/ v >= t) => ~(g > HourUpTo(u, t))
    BY <1>2, <1>11
  <2>5. \A f : FirstWith(f, t) =>
           fallen[t] - fallen[Before(f)] <=
              (RainBetween(fileCopies, 0, LastTick) - Old(fileCopies, t)) + x
    BY <1>1, <1>6, <1>7, <2>1, <2>2, <2>3, <2>4, StaticHourLeast
  <2> QED BY <1>1, <1>8, <1>9, <2>5, HoursAtLeastStep
<1> QED BY <1>10, <1>11

-----------------------------------------------------------------------------
(* The rain of the files: the steps                                         *)

\* The steps that store no row.
LEMMA FilesStay ==
  ASSUME FilesInv, source # NoSource, UNCHANGED <<source, fallen, fileCopies, rainCache>>,
         lapses \subseteq lapses', FileTypes', FilesInOrder', SameRows'
  PROVE  FilesInv'
<1>1. source \in Sources /\ source' = source
      /\ (source \in OfDays => DaysCounted) /\ (source \in OfHours => HoursCounted)
  BY DEF FilesInv, FileTypes
<1>2. Rows' = Rows /\ (\A x : RainOfDay(x)' = RainOfDay(x)) /\ (\A x : HourRainfall(x)' = HourRainfall(x))
  BY DEF Rows, RainOfDay, HourRainfall
<1>3. (OnceAtMost' => OnceAtMost) /\ (OnceAtLeast' => OnceAtLeast)
  BY DEF OnceAtMost, OnceAtLeast
<1>4. ASSUME DaysCounted PROVE DaysCounted'
  <2>1. (OnceAtMost => DayAtMost) /\ (OnceAtLeast => DayAtLeast)
    BY <1>4 DEF DaysCounted
  <2>2. (OnceAtMost' => DayAtMost') /\ (OnceAtLeast' => DayAtLeast')
    BY <2>1, DaysStay
  <2>3. Subtracted => Subtracted'
    <3>1. OnceAtLeast /\ rainCache.time >= 0 =>
             (rainCache.rain <= RainOfDay(rainCache.time) \/ rainCache.rain >= Limit) <=>
             (rainCache.rain <= RainOfDay(rainCache.time) \/ rainCache.rain >= Limit)'
      BY <1>2 DEF RainOfDay
    <3> QED BY <1>2, <1>3, <3>1 DEF Subtracted
  <2>4. MidnightIsDry => MidnightIsDry'
    BY <1>2 DEF MidnightIsDry
  <2> QED BY <1>1, <1>3, <1>4, <2>2, <2>3, <2>4 DEF DaysCounted
<1>5. ASSUME HoursCounted PROVE HoursCounted'
  <2>1. (OnceAtMost => HoursAtMost) /\ (OnceAtLeast => HoursAtLeast)
    BY <1>5 DEF HoursCounted
  <2>2. (OnceAtMost' => HoursAtMost') /\ (OnceAtLeast' => HoursAtLeast')
    BY <2>1, HoursStay
  <2> QED BY <1>1, <1>2, <1>5, <2>2 DEF HoursCounted
<1> QED BY <1>1, <1>4, <1>5 DEF FilesInv

\* Those that store one, and then update the cache, or fail to.
Caches(t) ==
    \/ rainCache' = rainCache /\ (source = "day" => "uncached" \in lapses')
    \/ source = "day" /\ rainCache' = [time |-> t, rain |-> DayRainfall(t)]

LEMMA FilesMove ==
  ASSUME FilesInv, source # NoSource, downloads # <<>>, NEW early \in BOOLEAN, Ingests(early),
         downloads' = Tail(downloads), UNCHANGED <<file, polled>>, IsTable(fileRows'), SameRows',
         NEW t, t = TheFile, Caches(t)
  PROVE  FilesInv'
<1>1. /\ FileTypes /\ FilesInOrder /\ SameRows /\ source \in Sources
      /\ (source \in OfDays => DaysCounted) /\ (source \in OfHours => HoursCounted)
  BY DEF FilesInv, FileTypes
<1>2. UNCHANGED <<source, bounds, summed, fallen, now>>
  BY DEF Ingests
<1>3. t \in Ticks /\ CacheOfDay(t)
  BY <1>1, TheDownload
<1>4. rainCache'.time \in {rainCache.time, t}
  BY DEF Caches
<1>5. FilesInOrder' /\ downloads' \in Seq([file : Ticks, at : Ticks])
  <2>1. Rows' \subseteq Rows \cup {TheFile}
    BY <1>1, RowIngested
  <2> QED BY <1>1, <1>2, <1>4, <2>1, DownloadTaken
<1>6. FileTypes'
  <2>1. /\ IsTable(fileCopies') /\ (source' # "day" => \A u \in Rows' : fileCopies'[u] >= 0)
    BY <1>1, <1>2, RowIngested
  <2>2. /\ rainCache'.time \in -1..LastTick
        /\ rainCache'.time >= 0 => rainCache'.rain = DayRainfall(rainCache.time)'
    <3>1. CASE rainCache' = rainCache
      BY <1>1, <1>2, <3>1 DEF FileTypes, DayRainfall
    <3>2. CASE source = "day" /\ rainCache' = [time |-> t, rain |-> DayRainfall(t)]
      <4>1. rainCache'.time = t /\ rainCache'.rain = DayRainfall(t)
        BY <3>2
      <4>2. t \in -1..LastTick
        BY <1>3, DayTimes
      <4>3. DayRainfall(rainCache.time)' = DayRainfall(t)
        BY <1>2, <4>1 DEF DayRainfall
      <4> QED BY <4>1, <4>2, <4>3
    <3> QED BY <3>1, <3>2 DEF Caches
  <2> QED BY <1>1, <1>2, <1>5, <2>1, <2>2 DEF FileTypes
<1>7. CASE source = "static"
  <2>1. (OnceAtMost' => DayAtMost') /\ (OnceAtLeast' => DayAtLeast') /\ (OnceAtMost' => MidnightIsDry')
    BY <1>1, <1>7, StaticIngests DEF OfDays
  <2> QED BY <1>1, <1>2, <1>5, <1>6, <1>7, <2>1 DEF FilesInv, DaysCounted, OfDays, OfHours
<1>8. CASE source = "current"
  <2>1. (OnceAtMost' => DayAtMost') /\ (OnceAtLeast' => DayAtLeast')
    BY <1>1, <1>8, CurrentIngests DEF OfDays
  <2> QED BY <1>1, <1>2, <1>5, <1>6, <1>8, <2>1 DEF FilesInv, DaysCounted, OfDays, OfHours
<1>9. CASE source = "hour"
  <2>1. /\ (OnceAtMost' => HoursAtMost') /\ (OnceAtLeast' => HoursAtLeast')
        /\ \A u \in Rows' : fileCopies'[u] = HourRainfall(u)
    BY <1>1, <1>9, HourIngests DEF OfHours
  <2>2. \A u : HourRainfall(u)' = HourRainfall(u)
    BY <1>2 DEF HourRainfall
  <2>3. HoursCounted'
    BY <1>2, <2>1, <2>2 DEF HoursCounted
  <2> QED BY <1>1, <1>2, <1>5, <1>6, <1>9, <2>3 DEF FilesInv, OfDays, OfHours
<1>10. CASE source = "statichour"
  <2>1. (OnceAtMost' => HoursAtMost') /\ (OnceAtLeast' => HoursAtLeast')
    BY <1>1, <1>10, StaticHourIngests DEF OfHours
  <2> QED BY <1>1, <1>2, <1>5, <1>6, <1>10, <2>1 DEF FilesInv, HoursCounted, OfDays, OfHours
<1>11. CASE source = "day"
  <2>0. PICK k : k = rainCache.time
    OBVIOUS
  <2>1. /\ OnceAtMost' => DayAtMost' /\ \A u \in Rows' : fileCopies'[u] >= 0 /\ u <= t
        /\ OnceAtLeast' => DayAtLeast'
        /\ OnceAtLeast' => DayRainfall(t) <= RainOfDay(t)' \/ DayRainfall(t) >= Limit
        /\ OnceAtLeast' /\ k >= 0 => rainCache.rain <= RainOfDay(k)' \/ rainCache.rain >= Limit
    BY <1>1, <1>11, <2>0, DayIngests DEF OfDays
  <2>2. Subtracted'
    <3>1. CASE rainCache' = rainCache /\ "uncached" \in lapses'
      <4>1. ~OnceAtMost'
        BY <3>1 DEF OnceAtMost
      <4>2. RainOfDay(rainCache.time)' = RainOfDay(k)'
        BY <2>0, <3>1 DEF RainOfDay
      <4> QED BY <2>0, <2>1, <3>1, <4>1, <4>2 DEF Subtracted
    <3>2. CASE rainCache' = [time |-> t, rain |-> DayRainfall(t)]
      <4>1. rainCache'.time = t /\ rainCache'.rain = DayRainfall(t)
        BY <3>2
      <4>2. RainOfDay(rainCache.time)' = RainOfDay(t)'
        BY <4>1 DEF RainOfDay
      <4> QED BY <2>1, <4>1, <4>2 DEF Subtracted
    <3> QED BY <1>11, <3>1, <3>2 DEF Caches
  <2>3. DaysCounted'
    BY <1>2, <1>11, <2>1, <2>2 DEF DaysCounted
  <2> QED BY <1>1, <1>2, <1>5, <1>6, <1>11, <2>3 DEF FilesInv, OfDays, OfHours
<1> QED BY <1>1, <1>7, <1>8, <1>9, <1>10, <1>11 DEF Sources

LEMMA FilesStart ==
  /\ DayRainInit => FilesInv
  /\ DayRainIdle => FilesInv
<1>1. ASSUME DayRainInit PROVE FilesInv
  <2>1. LastTick \in Nat
    BY DayRainAssumption
  <2>2. source \in Sources /\ bounds \subseteq {"begin", "end"}
        /\ (source \notin {"static", "statichour"} => bounds = {"begin", "end"})
    BY <1>1 DEF DayRainInit
  <2>3. /\ fallen \in Weather /\ now = 0 /\ file = -1 /\ polled = -1 /\ downloads = <<>>
        /\ fileRows = <<>> /\ fileCopies = <<>>
        /\ rainCache.time = -1 /\ rainCache.time < 0
    BY <1>1 DEF DayRainInit
  <2>4. Rows = {} /\ IsTable(fileRows) /\ IsTable(fileCopies)
    BY <2>3 DEF Rows, IsTable
  <2>5. DOMAIN downloads = {} /\ downloads \in Seq([file : Ticks, at : Ticks])
    BY <2>3
  <2>6. now \in Ticks /\ file \in -1..now /\ polled \in -1..now /\ rainCache.time \in -1..LastTick
    BY <2>1, <2>3 DEF Ticks
  <2>7. FileTypes
    BY <2>2, <2>3, <2>4, <2>5, <2>6 DEF FileTypes
  <2>8. FilesInOrder /\ SameRows
    BY <2>3, <2>4, <2>5 DEF FilesInOrder, SameRows
  <2>9. \A x \in Ticks : RainOfDay(x) = 0
    BY <2>4, EmptyDay
  <2>10. DayAtMost /\ DayAtLeast /\ Subtracted /\ MidnightIsDry
    <3>1. \A x \in Ticks : DayRainfall(x) \in Nat
      BY <2>3, DayTimes, DayRains
    <3>2. DayAtMost
      BY <2>9, <3>1 DEF DayAtMost
    <3> QED BY <2>3, <2>4, <3>2 DEF DayAtLeast, Subtracted, MidnightIsDry
  <2>11. HoursCounted
    BY <2>4 DEF HoursCounted, HoursAtMost, HoursAtLeast, IsFirst
  <2> QED BY <2>2, <2>7, <2>8, <2>10, <2>11 DEF FilesInv, DaysCounted
<1>2. ASSUME DayRainIdle PROVE FilesInv
  BY <1>2 DEF DayRainIdle, FilesInv
<1> QED BY <1>1, <1>2

LEMMA FilesUnchanged ==
  ASSUME FilesInv, UNCHANGED rainFileVars
  PROVE  FilesInv'
<1>1. UNCHANGED <<source, bounds, summed, fallen, now, file, polled, downloads, fileRows,
                  fileCopies, rainCache, last, lapses, mishaps>>
  BY DEF rainFileVars
<1>2. CASE source = NoSource
  BY <1>1, <1>2 DEF FilesInv
<1>3. CASE source # NoSource
  <2>1. FileTypes /\ FilesInOrder /\ SameRows
    BY <1>3 DEF FilesInv
  <2>2. Rows' = Rows /\ DayRainfall(rainCache.time)' = DayRainfall(rainCache.time)
    BY <1>1 DEF Rows, DayRainfall
  <2>3. FileTypes'
    BY <1>1, <2>1, <2>2 DEF FileTypes
  <2>4. FilesInOrder'
    BY <1>1, <2>1, <2>2 DEF FilesInOrder
  <2>5. SameRows'
    BY <1>1, <2>1 DEF SameRows
  <2> QED BY <1>1, <1>3, <2>3, <2>4, <2>5, FilesStay
<1> QED BY <1>2, <1>3

\* Time passes.
LEMMA TickStep ==
  ASSUME FilesInv, source # NoSource, Tick
  PROVE  FilesInv'
<1>1. FileTypes /\ FilesInOrder /\ SameRows
  BY DEF FilesInv
<1>2. UNCHANGED <<source, bounds, summed, fallen, polled, downloads, fileRows, fileCopies,
                   rainCache, last, lapses, mishaps>>
  BY DEF Tick
<1>3. now < LastTick /\ now' = now + 1 /\ file' \in {file, now'} /\ LastTick \in Nat
  BY DayRainAssumption DEF Tick
<1>4. Rows' = Rows /\ DayRainfall(rainCache.time)' = DayRainfall(rainCache.time)
  BY <1>2 DEF Rows, DayRainfall
<1>5. now \in Ticks /\ file \in -1..now /\ polled \in -1..now
  BY <1>1 DEF FileTypes
<1>6. now' \in Ticks /\ file' \in -1..now' /\ polled' \in -1..now' /\ file <= file'
      /\ now \in Int /\ file \in Int /\ file' \in Int
  BY <1>2, <1>3, <1>5 DEF Ticks
<1>7. FileTypes'
  BY <1>1, <1>2, <1>4, <1>6 DEF FileTypes
<1>8. FilesInOrder'
  <2>1. \A k \in DOMAIN downloads : downloads[k].file <= file'
    <3> SUFFICES ASSUME NEW k \in DOMAIN downloads PROVE downloads[k].file <= file'
      OBVIOUS
    <3>1. downloads[k].file \in Int /\ downloads[k].file <= file
      BY <1>1, Downloaded, DayTimes DEF FilesInOrder
    <3> QED BY <1>6, <3>1
  <2>2. (\A u \in Rows : u <= file') /\ rainCache.time <= file'
    <3>1. (\A u \in Rows : u \in Int) /\ rainCache.time \in Int
      BY <1>1, <1>3, RowTimes DEF FileTypes, Rows
    <3> QED BY <1>1, <1>6, <3>1 DEF FilesInOrder
  <2> QED BY <1>1, <1>2, <1>4, <2>1, <2>2 DEF FilesInOrder
<1>9. SameRows'
  BY <1>1, <1>2 DEF SameRows
<1> QED BY <1>2, <1>7, <1>8, <1>9, FilesStay

\* A download waits after the others.
LEMMA DownloadStep ==
  ASSUME FilesInv, source # NoSource, DownloadOnly
  PROVE  FilesInv'
<1>1. FileTypes /\ FilesInOrder /\ SameRows
  BY DEF FilesInv
<1>2. UNCHANGED <<source, bounds, summed, fallen, now, file, fileRows, fileCopies,
                   rainCache, last, lapses, mishaps>>
  BY DEF DownloadOnly
<1>3. now \in Ticks /\ file \in -1..now /\ polled \in -1..now /\ now \in 0..LastTick /\ LastTick \in Nat
  BY <1>1, DayRainAssumption DEF FileTypes, Ticks
<1>4. file >= 0 /\ polled < now /\ polled' = now
      /\ downloads' = Append(downloads, [file |-> file, at |-> now])
  BY DEF DownloadOnly
<1>5. file \in Ticks /\ file <= now
  BY <1>3, <1>4 DEF Ticks
<1> DEFINE n == Len(downloads)
           S == [file : Ticks, at : Ticks]
<1>6. /\ downloads \in Seq(S) /\ downloads' \in Seq(S)
      /\ DOMAIN downloads = 1..n /\ DOMAIN downloads' = 1..(n + 1) /\ n \in Nat
      /\ \A k \in 1..n : downloads'[k] = downloads[k]
      /\ downloads'[n + 1] = [file |-> file, at |-> now]
  <2>1. [file |-> file, at |-> now] \in S
    BY <1>3, <1>5
  <2>2. downloads \in Seq(S)
    BY <1>1 DEF FileTypes
  <2> HIDE DEF S
  <2> QED BY <1>4, <2>1, <2>2
<1>7. downloads'[n + 1].file = file /\ downloads'[n + 1].at = now
  BY <1>6
<1> HIDE DEF n
<1>8. \A k \in DOMAIN downloads' : k = n + 1 \/ (k \in 1..n /\ k \in DOMAIN downloads)
  BY <1>6
<1>9. Rows' = Rows /\ DayRainfall(rainCache.time)' = DayRainfall(rainCache.time)
  BY <1>2 DEF Rows, DayRainfall
<1>10. \A k \in DOMAIN downloads : /\ downloads[k].file \in Int /\ downloads[k].at \in Int
                                   /\ downloads[k].file <= downloads[k].at
                                   /\ downloads[k].at <= polled /\ downloads[k].file <= file
                                   /\ downloads[k].at < now
                                   /\ \A u \in Rows : u <= downloads[k].file /\ u < downloads[k].at
                                   /\ rainCache.time <= downloads[k].file
  <2> SUFFICES ASSUME NEW k \in DOMAIN downloads
               PROVE  /\ downloads[k].file \in Int /\ downloads[k].at \in Int
                      /\ downloads[k].file <= downloads[k].at
                      /\ downloads[k].at <= polled /\ downloads[k].file <= file
                      /\ downloads[k].at < now
                      /\ \A u \in Rows : u <= downloads[k].file /\ u < downloads[k].at
                      /\ rainCache.time <= downloads[k].file
    OBVIOUS
  <2>1. downloads[k].file \in Int /\ downloads[k].at \in Int
    BY <1>1, Downloaded, DayTimes
  <2>2. /\ downloads[k].file <= downloads[k].at
        /\ downloads[k].at <= polled /\ downloads[k].file <= file
        /\ \A u \in Rows : u <= downloads[k].file /\ u < downloads[k].at
        /\ rainCache.time <= downloads[k].file
    BY <1>1 DEF FilesInOrder
  <2>3. downloads[k].at < now
    BY <1>3, <1>4, <2>1, <2>2
  <2> QED BY <2>1, <2>2, <2>3
<1>11. /\ \A u \in Rows : u \in Int /\ u <= file /\ u <= polled /\ u < now /\ u <= now
       /\ rainCache.time <= file
  <2>1. \A u \in Rows : u \in Int
    BY <1>1, RowTimes DEF FileTypes, Rows
  <2>2. (\A u \in Rows : u <= file /\ u <= polled) /\ rainCache.time <= file
    BY <1>1 DEF FilesInOrder
  <2> QED BY <1>3, <1>4, <2>1, <2>2
<1>12. FileTypes'
  <2>1. polled' \in -1..now'
    BY <1>2, <1>3, <1>4
  <2> QED BY <1>1, <1>2, <1>6, <1>9, <2>1 DEF FileTypes
<1>13. FilesInOrder'
  <2>1. ASSUME NEW k \in DOMAIN downloads'
        PROVE  /\ downloads'[k].file <= downloads'[k].at
               /\ downloads'[k].at <= polled' /\ downloads'[k].file <= file'
               /\ \A u \in Rows' : u <= downloads'[k].file /\ u < downloads'[k].at
               /\ rainCache'.time <= downloads'[k].file
    <3>1. CASE k = n + 1
      BY <1>2, <1>3, <1>4, <1>5, <1>7, <1>9, <1>11, <3>1
    <3>2. CASE k \in 1..n /\ k \in DOMAIN downloads
      <4>1. downloads'[k] = downloads[k]
        BY <1>6, <3>2
      <4>2. downloads[k].at <= now
        BY <1>3, <1>10, <3>2
      <4> QED BY <1>2, <1>4, <1>9, <1>10, <3>2, <4>1, <4>2
    <3> QED BY <1>8, <3>1, <3>2
  <2>2. ASSUME NEW i \in DOMAIN downloads', NEW k \in DOMAIN downloads', i < k
        PROVE  downloads'[i].file <= downloads'[k].file /\ downloads'[i].at < downloads'[k].at
    <3>1. i \in 1..n /\ i \in DOMAIN downloads /\ downloads'[i] = downloads[i]
      BY <1>6, <2>2
    <3>2. CASE k = n + 1
      BY <1>7, <1>10, <3>1, <3>2
    <3>3. CASE k \in 1..n /\ k \in DOMAIN downloads
      <4>1. downloads'[k] = downloads[k]
        BY <1>6, <3>3
      <4> QED BY <1>1, <2>2, <3>1, <3>3, <4>1 DEF FilesInOrder
    <3> QED BY <1>8, <3>2, <3>3
  <2>3. (\A u \in Rows' : u <= file' /\ u <= polled') /\ rainCache'.time <= file'
    BY <1>2, <1>4, <1>9, <1>11
  <2> QED BY <2>1, <2>2, <2>3 DEF FilesInOrder
<1>14. SameRows'
  BY <1>1, <1>2 DEF SameRows
<1> QED BY <1>2, <1>12, <1>13, <1>14, FilesStay

\* A download is discarded, or neither database takes its row.
LEMMA NothingIngested ==
  ASSUME FilesInv, source # NoSource, downloads # <<>>, downloads' = Tail(downloads),
         UNCHANGED <<source, bounds, summed, fallen, now, file, polled, fileCopies, rainCache>>,
         lapses \subseteq lapses', IsTable(fileRows'), SameRows'
  PROVE  FilesInv'
<1>1. FileTypes /\ FilesInOrder
  BY DEF FilesInv
<1>2. Rows' = Rows /\ DayRainfall(rainCache.time)' = DayRainfall(rainCache.time)
  BY DEF Rows, DayRainfall
<1>3. FilesInOrder' /\ downloads' \in Seq([file : Ticks, at : Ticks])
  BY <1>1, <1>2, DownloadTaken
<1>4. FileTypes'
  BY <1>1, <1>2, <1>3 DEF FileTypes
<1> QED BY <1>3, <1>4, FilesStay

LEMMA RestartStep ==
  ASSUME FilesInv, source # NoSource, Restart
  PROVE  FilesInv'
<1>1. FileTypes /\ FilesInOrder /\ SameRows
  BY DEF FilesInv
<1>2. UNCHANGED <<source, bounds, summed, fallen, now, file, polled, downloads,
                   fileRows, fileCopies, rainCache, lapses>>
  BY DEF Restart
<1>3. Rows' = Rows /\ DayRainfall(rainCache.time)' = DayRainfall(rainCache.time)
  BY <1>2 DEF Rows, DayRainfall
<1>4. FileTypes' /\ FilesInOrder' /\ SameRows'
  BY <1>1, <1>2, <1>3 DEF FileTypes, FilesInOrder, SameRows
<1> QED BY <1>2, <1>4, FilesStay

LEMMA DiscardStep ==
  ASSUME FilesInv, source # NoSource, DiscardLastFile
  PROVE  FilesInv'
<1>1. UNCHANGED <<source, bounds, summed, fallen, now, file, polled, fileRows,
                   fileCopies, rainCache, last, lapses, mishaps>>
      /\ downloads # <<>> /\ downloads' = Tail(downloads)
  BY DEF DiscardLastFile
<1>2. IsTable(fileRows') /\ SameRows'
  BY <1>1 DEF FilesInv, FileTypes, SameRows
<1> QED BY <1>1, <1>2, NothingIngested

\* Both databases take the row.
LEMMA BothRows ==
  ASSUME FilesInv, source # NoSource, downloads # <<>>, NEW early \in BOOLEAN, Ingests(early),
         fileRows' = WithRain(fileRows, TheFile, TheRain(early))
  PROVE  IsTable(fileRows') /\ SameRows'
<1>1. FileTypes /\ FilesInOrder /\ SameRows
  BY DEF FilesInv
<1>2. TheFile \in Ticks /\ TheRain(early) \in Int \cup {NaN} /\ IsTable(fileRows)
  BY <1>1, TheDownload, RainTypes DEF FileTypes
<1>3. IsTable(WithRain(fileRows, TheFile, TheRain(early)))
  BY <1>2, RowAdded
<1>4. fileRows = fileCopies => fileRows' = fileCopies'
  BY DEF Ingests
<1>5. summed' = summed /\ lapses \subseteq lapses'
  BY DEF Ingests
<1> QED BY <1>1, <1>3, <1>4, <1>5 DEF SameRows

LEMMA StoreStep ==
  ASSUME FilesInv, source # NoSource, StoreRain
  PROVE  FilesInv'
<1>1. downloads # <<>> /\ downloads' = Tail(downloads)
      /\ UNCHANGED <<source, bounds, summed, fallen, now, file, polled>>
  BY DEF StoreRain
<1>2. PICK early \in BOOLEAN :
        /\ fileRows' = WithRain(fileRows, TheFile, TheRain(early))
        /\ fileCopies' = WithRain(fileCopies, TheFile, TheRain(early))
        /\ CacheRainfall(TheFile)
        /\ lapses' = lapses \cup LapsesOf(downloads[1], early)
  BY DEF StoreRain, TheFile, TheRain
<1>3. Ingests(early)
  BY <1>1, <1>2 DEF Ingests
<1>4. IsTable(fileRows') /\ SameRows'
  BY <1>1, <1>2, <1>3, BothRows
<1>5. Caches(TheFile)
  BY <1>2 DEF CacheRainfall, Caches
<1> QED BY <1>1, <1>3, <1>4, <1>5, FilesMove

LEMMA CacheFailsStep ==
  ASSUME FilesInv, source # NoSource, CacheFails
  PROVE  FilesInv'
<1>1. downloads # <<>> /\ downloads' = Tail(downloads)
      /\ UNCHANGED <<source, bounds, summed, fallen, now, file, polled, rainCache>>
  BY DEF CacheFails
<1>2. /\ fileRows' = WithRain(fileRows, TheFile, TheRain(FALSE))
      /\ fileCopies' = WithRain(fileCopies, TheFile, TheRain(FALSE))
      /\ lapses' = lapses \cup LapsesOf(downloads[1], FALSE) \cup {"uncached"}
  BY DEF CacheFails, TheFile, TheRain
<1>3. Ingests(FALSE)
  BY <1>1, <1>2 DEF Ingests
<1>4. IsTable(fileRows') /\ SameRows'
  BY <1>1, <1>2, <1>3, BothRows
<1>5. Caches(TheFile)
  BY <1>1, <1>2 DEF Caches
<1> QED BY <1>1, <1>3, <1>4, <1>5, FilesMove

LEMMA RefusedStep ==
  ASSUME FilesInv, source # NoSource, InsertionRefused
  PROVE  FilesInv'
<1>1. downloads # <<>> /\ downloads' = Tail(downloads)
      /\ UNCHANGED <<source, bounds, summed, fallen, now, file, polled, rainCache, last>>
  BY DEF InsertionRefused
<1>2. FileTypes /\ FilesInOrder /\ SameRows
  BY DEF FilesInv
<1>3. CASE /\ fileRows' = fileRows
           /\ fileCopies' = IF source = "current" THEN WithRain(fileCopies, TheFile, TheRain(FALSE))
                            ELSE fileCopies
           /\ lapses' = lapses \cup (IF source = "current" THEN LapsesOf(downloads[1], FALSE) ELSE {})
                        \cup (IF source = "current" /\ summed = "cassandra" THEN {"half"} ELSE {})
  <2>1. CASE source = "current"
    <3>1. Ingests(FALSE)
      BY <1>1, <1>3, <2>1 DEF Ingests
    <3>2. IsTable(fileRows') /\ SameRows'
      BY <1>1, <1>2, <1>3, <2>1 DEF FileTypes, SameRows
    <3>3. Caches(TheFile)
      BY <1>1, <2>1 DEF Caches
    <3> QED BY <1>1, <3>1, <3>2, <3>3, FilesMove
  <2>2. CASE source # "current"
    <3>1. fileCopies' = fileCopies /\ lapses' = lapses
      BY <1>3, <2>2
    <3>2. IsTable(fileRows') /\ SameRows'
      BY <1>1, <1>2, <1>3, <3>1 DEF FileTypes, SameRows
    <3> QED BY <1>1, <3>1, <3>2, NothingIngested
  <2> QED BY <2>1, <2>2
<1>4. CASE /\ fileRows' = WithRain(fileRows, TheFile, TheRain(FALSE))
           /\ fileCopies' = fileCopies
           /\ lapses' = lapses \cup (IF summed = "cassandra" THEN {"half"} ELSE {})
  <2>1. IsTable(fileRows')
    <3>1. TheFile \in Ticks /\ TheRain(FALSE) \in Int \cup {NaN} /\ IsTable(fileRows)
      BY <1>1, <1>2, TheDownload, RainTypes DEF FileTypes
    <3> QED BY <1>4, <3>1, RowAdded
  <2>2. SameRows' /\ lapses \subseteq lapses'
    BY <1>1, <1>4 DEF SameRows
  <2> QED BY <1>1, <1>4, <2>1, <2>2, NothingIngested
<1> QED BY <1>3, <1>4 DEF InsertionRefused, TheFile, TheRain

-----------------------------------------------------------------------------
(* The rain of the files: what the sums are                                 *)

LEMMA FirstAndLast ==
  ASSUME NEW S, S \subseteq 0..LastTick, S # {}
  PROVE  /\ Max(S) \in S /\ \A u \in S : u <= Max(S)
         /\ Min(S) \in S /\ \A u \in S : Min(S) <= u
<1>1. LastTick \in Nat
  BY DayRainAssumption
<1>2. PICK m \in S : \A n \in S : n <= m
  BY <1>1, GreatestNumber
<1>3. PICK l \in S : \A n \in S : l <= n
  <2>1. S \subseteq Nat
    OBVIOUS
  <2> QED BY <2>1, LeastNumber
<1>4. \A y \in S : y \in Int
  OBVIOUS
<1>5. \A y \in S : (\A n \in S : y >= n) => y = m
  BY <1>2, <1>4
<1>6. \A y \in S : (\A n \in S : y <= n) => y = l
  BY <1>3, <1>4
<1>7. Max(S) = m
  BY <1>2, <1>4, <1>5 DEF Max
<1>8. Min(S) = l
  BY <1>3, <1>4, <1>6 DEF Min
<1> QED BY <1>2, <1>3, <1>7, <1>8

LEMMA ExcessOfDays ==
  ASSUME FilesInv, source # NoSource, source \in OfDays, NEW e \in Excess
  PROVE  (OnceAtMost => e <= 0) /\ (OnceAtLeast => e >= 0)
<1>1. FileTypes /\ DaysCounted
  BY DEF FilesInv
<1>2. IsTable(fileCopies) /\ fallen \in Weather
  BY <1>1 DEF FileTypes
<1>3. Spans = {<<day, day, LastOfDay(day)>> : day \in DaysStored}
  BY DEF Spans, OfDays
<1>4. PICK day \in DaysStored :
         e = RainBetween(fileCopies, day, LastOfDay(day)) - (fallen[LastOfDay(day)] - fallen[day])
  BY <1>3 DEF Excess
<1>5. PICK t \in Rows : day = Midnight(t)
  BY DEF DaysStored, Rows
<1> DEFINE S == {u \in DOMAIN fileCopies : Midnight(u) = day}
           l == LastOfDay(day)
<1>6. l \in S /\ \A u \in S : u <= l
  <2>1. S \subseteq 0..LastTick /\ S # {}
    BY <1>2, <1>5 DEF IsTable, Rows
  <2>2. l = Max(S)
    BY DEF LastOfDay
  <2> HIDE DEF S, l
  <2> QED BY <2>1, <2>2, FirstAndLast
<1>7. l \in Rows /\ l \in Ticks /\ l \in Nat /\ Midnight(l) = day
      /\ \A u \in Rows : Midnight(u) = day => u <= l
  BY <1>2, <1>6, RowTimes DEF Rows
<1> HIDE DEF l
<1>8. RainBetween(fileCopies, day, l) = RainOfDay(l)
  <2>1. day \in Int /\ day <= l /\ l <= (day + Day) - 1 /\ Day \in Nat
    BY <1>7, DayTimes
  <2>2. \A u \in Rows : u \in Nat
    BY <1>2, RowTimes DEF Rows
  <2>3. \A u \in Rows : day <= u /\ u <= l <=> Midnight(u) = Midnight(l)
    <3> SUFFICES ASSUME NEW u \in Rows PROVE day <= u /\ u <= l <=> Midnight(u) = day
      BY <1>7
    <3>1. Midnight(l) <= u /\ u <= (Midnight(l) + Day) - 1 <=> Midnight(u) = Midnight(l)
      BY <1>7, <2>2, TimesOfDay
    <3>2. u \in Nat /\ (Midnight(u) = day => u <= l)
      BY <1>7, <2>2
    <3> QED BY <1>7, <2>1, <3>1, <3>2
  <2> QED BY <1>2, <1>7, <2>1, <2>3, AllOfDay
<1>9. DayRainfall(l) = fallen[l] - fallen[day]
  BY <1>7 DEF DayRainfall
<1>10. e = RainOfDay(l) - DayRainfall(l)
  BY <1>4, <1>8, <1>9 DEF l
<1>11. RainOfDay(l) \in Int /\ DayRainfall(l) \in Nat
  BY <1>2, <1>7, DaySums, DayTimes, DayRains
<1>12. OnceAtMost => RainOfDay(l) <= DayRainfall(l)
  BY <1>1, <1>7 DEF DaysCounted, DayAtMost
<1>13. OnceAtLeast => DayRainfall(l) <= RainOfDay(l)
  BY <1>1, <1>7 DEF DaysCounted, DayAtLeast
<1> QED BY <1>10, <1>11, <1>12, <1>13

LEMMA ExcessOfHours ==
  ASSUME FilesInv, source # NoSource, source \in OfHours, NEW e \in Excess
  PROVE  (OnceAtMost => e <= 0) /\ (OnceAtLeast => e >= 0)
<1>1. FileTypes /\ HoursCounted
  BY DEF FilesInv
<1>2. IsTable(fileCopies) /\ fallen \in Weather
  BY <1>1 DEF FileTypes
<1> DEFINE f == Min(DOMAIN fileCopies)
           l == Max(DOMAIN fileCopies)
           r == RainBetween(fileCopies, f, l)
<1>3. Rows # {} /\ e = r - (fallen[l] - fallen[Before(f)])
  <2>1. Spans = IF DOMAIN fileCopies = {} THEN {} ELSE {<<Before(f), f, l>>}
    BY DEF Spans, OfHours, Before
  <2>2. PICK s \in Spans : e = RainBetween(fileCopies, s[2], s[3]) - (fallen[s[3]] - fallen[s[1]])
    BY DEF Excess
  <2> HIDE DEF f, l
  <2>3. DOMAIN fileCopies # {} /\ s = <<Before(f), f, l>>
    BY <2>1, <2>2
  <2> QED BY <2>2, <2>3 DEF Rows
<1>4. f \in Rows /\ l \in Rows /\ \A u \in DOMAIN fileCopies : f <= u /\ u <= l
  <2>1. DOMAIN fileCopies \subseteq 0..LastTick /\ DOMAIN fileCopies # {}
    BY <1>2, <1>3 DEF IsTable, Rows
  <2> QED BY <2>1, FirstAndLast DEF Rows
<1> HIDE DEF f, l
<1>5. IsFirst(f) /\ f \in Ticks /\ l \in Ticks /\ f \in 0..LastTick /\ l \in 0..LastTick /\ f <= l
      /\ LastTick \in Int
  BY <1>2, <1>4, DayRainAssumption DEF IsFirst, IsTable, Rows, Ticks
<1>6. Before(f) \in 0..LastTick /\ Before(f) <= f
  BY <1>5, HourBefore
<1>7. Before(f) <= l /\ Before(f) \in 0..l
  BY <1>5, <1>6
<1>8. fallen[l] \in Nat /\ fallen[Before(f)] \in Nat
  BY <1>2, <1>5, <1>7, RainFalls
<1>9. r = RainBetween(fileCopies, 0, l) /\ r = RainBetween(fileCopies, 0, LastTick) /\ r \in Int
  <2>1. \A u \in DOMAIN fileCopies : u \in Int /\ 0 <= u /\ u <= LastTick /\ f <= u /\ u <= l
    BY <1>2, <1>4, <1>5 DEF IsTable
  <2>2. f \in Int /\ l \in Int /\ 0 \in Int
    BY <1>5
  <2>3. r = RainBetween(fileCopies, 0, l)
    BY <1>2, <2>1, <2>2, SameRain
  <2>4. r = RainBetween(fileCopies, 0, LastTick)
    BY <1>2, <1>5, <2>1, <2>2, SameRain
  <2> QED BY <1>2, <2>2, <2>3, <2>4, RowValues
<1> HIDE DEF r
<1>10. OnceAtMost => r <= fallen[l] - fallen[Before(f)]
  BY <1>1, <1>5, <1>7, <1>9 DEF HoursCounted, HoursAtMost
<1>11. OnceAtLeast => fallen[l] - fallen[Before(f)] <= r
  BY <1>1, <1>4, <1>5, <1>9 DEF HoursCounted, HoursAtLeast
<1> QED BY <1>3, <1>8, <1>9, <1>10, <1>11

\* The rain of the files of a day, and that of the hours, is stored once, whatever the
\* station writes and whenever it is downloaded, ingested or refused, but for the lapses
\* that are known: for any weather, length of the day and number of files and mishaps.
THEOREM FileRainStored == Spec => []RainStoredOnce
<1>1. Init => FilesInv
  BY FilesStart DEF Init
<1>2. FilesInv /\ [Next]_<<rainVars, rainFileVars, climVars>> => FilesInv'
  <2> SUFFICES ASSUME FilesInv, [Next]_<<rainVars, rainFileVars, climVars>> PROVE FilesInv'
    OBVIOUS
  <2>1. CASE DayRainNext
    <3>1. source # NoSource
      BY <2>1 DEF DayRainNext
    <3>2. CASE Tick
      BY <3>1, <3>2, TickStep
    <3>3. CASE MBDataOffload \/ StaticOffload \/ WeatherlinkOffload
      BY <3>1, <3>3, DownloadStep DEF MBDataOffload, StaticOffload, WeatherlinkOffload
    <3>4. CASE Restart
      BY <3>1, <3>4, RestartStep
    <3>5. CASE DiscardLastFile
      BY <3>1, <3>5, DiscardStep
    <3>6. CASE StoreRain
      BY <3>1, <3>6, StoreStep
    <3>7. CASE CacheFails
      BY <3>1, <3>7, CacheFailsStep
    <3>8. CASE InsertionRefused
      BY <3>1, <3>8, RefusedStep
    <3> QED BY <2>1, <3>2, <3>3, <3>4, <3>5, <3>6, <3>7, <3>8 DEF DayRainNext
  <2>2. CASE UNCHANGED rainFileVars
    BY <2>2, FilesUnchanged
  <2> QED BY <2>1, <2>2 DEF Next
<1>3. FilesInv => RainStoredOnce
  <2> SUFFICES ASSUME FilesInv, source # NoSource
               PROVE  \A e \in Excess : (OnceAtMost => e <= 0) /\ (OnceAtLeast => e >= 0)
    BY DEF RainStoredOnce, NoRainTwice, NoRainMissed, OnceAtMost, OnceAtLeast
  <2>1. source \in OfDays \/ source \in OfHours
    BY DEF FilesInv, FileTypes, Sources, OfDays, OfHours
  <2> QED BY <2>1, ExcessOfDays, ExcessOfHours
<1> QED BY <1>1, <1>2, <1>3, PTL DEF Spec

-----------------------------------------------------------------------------
(* The climatology: the days of the months                                  *)

LEMMA DaysAndMonths ==
  ASSUME NEW d \in Nat
  PROVE  /\ Month(d) \in Int /\ BeginningOfMonth(d) \in Int
         /\ BeginningOfMonth(d) <= d - 1 /\ d - 1 < BeginningOfMonth(d) + MonthLength
         /\ d >= 1 => /\ Month(d) >= 1 /\ BeginningOfMonth(d) \in 0..(d - 1)
                      /\ Month(d) = 1 <=> BeginningOfMonth(d) = 0
<1> DEFINE q == (d - 1) \div MonthLength
           e == MonthLength * q
<1>1. MonthLength \in Nat \ {0}
  BY ClimatologyAssumption
<1>2. q \in Int /\ e \in Int /\ e <= d - 1 /\ d - 1 < e + MonthLength
  BY <1>1
<1>3. d >= 1 => q >= 0
  BY <1>1
<1>4. (q = 0 => e = 0) /\ (q >= 1 => e >= MonthLength)
  <2>1. q \in Int
    BY <1>2
  <2> HIDE DEF q
  <2> QED BY <1>1, <2>1
<1>5. Month(d) = 1 + q /\ BeginningOfMonth(d) = MonthLength * ((1 + q) - 1)
  BY DEF Month, BeginningOfMonth
<1> HIDE DEF q
<1>6. BeginningOfMonth(d) = e
  BY <1>2, <1>5
<1> HIDE DEF e
<1> QED BY <1>1, <1>2, <1>3, <1>4, <1>5, <1>6

LEMMA MonthsInOrder ==
  ASSUME NEW d \in Nat, NEW e \in Nat, d <= e
  PROVE  Month(d) <= Month(e)
<1> DEFINE p == (d - 1) \div MonthLength
           q == (e - 1) \div MonthLength
<1>1. MonthLength \in Nat \ {0}
  BY ClimatologyAssumption
<1>2. p \in Int /\ MonthLength * p <= d - 1
  BY <1>1
<1>3. q \in Int /\ e - 1 < MonthLength * q + MonthLength
  BY <1>1
<1>4. Month(d) = 1 + p /\ Month(e) = 1 + q
  BY DEF Month
<1> HIDE DEF p, q
<1>5. MonthLength * p < MonthLength * (q + 1)
  BY <1>1, <1>2, <1>3
<1>6. p < q + 1
  BY <1>1, <1>2, <1>3, <1>5
<1> QED BY <1>2, <1>3, <1>4, <1>6

\* Each of the months of consecutive days has one of them.
LEMMA MonthHasDay ==
  ASSUME NEW b \in Nat \ {0}, NEW e \in Nat, b <= e, NEW m \in Month(b)..Month(e)
  PROVE  \E d \in b..e : Month(d) = m
<1> DEFINE first == MonthLength * (m - 1) + 1
<1>1. MonthLength \in Nat \ {0}
  BY ClimatologyAssumption
<1>2. Month(b) \in Int /\ Month(e) \in Int /\ Month(b) >= 1 /\ m \in Int /\ m >= 1
  BY DaysAndMonths
<1>3. CASE m = Month(b)
  BY <1>3
<1>4. CASE m # Month(b)
  <2>1. first \in Nat /\ (first - 1) \div MonthLength = m - 1
    <3> DEFINE k == m - 1
    <3>1. k \in Nat
      BY <1>2
    <3>2. MonthLength * k \in Nat /\ (MonthLength * k) \div MonthLength = k
      <4> HIDE DEF k
      <4> QED BY <1>1, <3>1
    <3> HIDE DEF k
    <3>3. first = MonthLength * k + 1
      BY DEF k
    <3> HIDE DEF first
    <3>4. first \in Nat /\ first - 1 = MonthLength * k
      BY <3>2, <3>3
    <3> QED BY <3>2, <3>4 DEF k
  <2> HIDE DEF first
  <2>2. Month(first) = m
    BY <1>2, <2>1 DEF Month
  <2>3. b <= first
    BY <1>2, <1>4, <2>1, <2>2, MonthsInOrder
  <2>4. first <= e
    <3>1. BeginningOfMonth(e) <= e - 1 /\ BeginningOfMonth(e) = MonthLength * (Month(e) - 1)
      BY DaysAndMonths DEF BeginningOfMonth
    <3>2. MonthLength * (m - 1) <= MonthLength * (Month(e) - 1)
      <4> DEFINE x == m - 1
                 y == Month(e) - 1
      <4>1. x \in Int /\ y \in Int /\ x <= y
        BY <1>2
      <4> HIDE DEF x, y
      <4>2. MonthLength * x <= MonthLength * y
        BY <1>1, <4>1
      <4> QED BY <4>2 DEF x, y
    <3>3. MonthLength * (m - 1) \in Int /\ MonthLength * (Month(e) - 1) \in Int
      BY <1>1, <1>2
    <3> QED BY <3>1, <3>2, <3>3 DEF first
  <2> QED BY <2>1, <2>2, <2>3, <2>4
<1> QED BY <1>3, <1>4

-----------------------------------------------------------------------------
(* The climatology: the rows of the days                                    *)

Value == Int \cup {Nothing}
IsRows(rows) ==
    /\ DOMAIN rows \subseteq DOMAIN observed
    /\ \A d \in DOMAIN rows : rows[d].rain \in Int /\ rows[d].year \in Value

\* The rows follow from one another, but for those of some days, where the older row
\* comes first.
FollowsYear(rows, old, d) ==
    /\ d = 1 => rows[d].year = rows[d].rain
    /\ d > 1 /\ d \notin old /\ d - 1 \in DOMAIN rows =>
        rows[d].year = Plus(rows[d].rain, rows[d - 1].year)
MonthSoFar(d) == (BeginningOfMonth(d) + 1)..d
FollowsMonth(rows, old, d) ==
    MonthSoFar(d) \subseteq DOMAIN rows \ old =>
        /\ Month(d) = 1 => rows[d].month = rows[d].year
        /\ Month(d) > 1 /\ BeginningOfMonth(d) \in DOMAIN rows =>
            rows[d].month = Minus(rows[d].year, rows[BeginningOfMonth(d)].year)
Follow(rows, old, but) ==
    \A d \in DOMAIN rows \ but : FollowsYear(rows, old, d) /\ FollowsMonth(rows, old, d)

Restaled(rows, old, d) == (old \ {d}) \cup ({d + 1} \cap DOMAIN rows)

\* The row of one more day disturbs no other.
LEMMA OtherRows ==
  ASSUME NEW rows, NEW old, NEW d \in Days, NEW v, NEW u \in DOMAIN rows \cap Days, u # d,
         FollowsYear(rows, old, u), FollowsMonth(rows, old, u)
  PROVE  /\ FollowsYear(WithRow(rows, d, v), Restaled(rows, old, d), u)
         /\ FollowsMonth(WithRow(rows, d, v), Restaled(rows, old, d), u)
<1> DEFINE later == WithRow(rows, d, v)
           older == Restaled(rows, old, d)
<1>1. /\ DOMAIN later = DOMAIN rows \cup {d}
      /\ \A k \in DOMAIN rows : k # d => later[k] = rows[k]
  BY DEF WithRow
<1>2. /\ u \in DOMAIN rows /\ later[u] = rows[u]
      /\ u \in Nat /\ u >= 1 /\ d \in Nat /\ d >= 1
  BY <1>1, ClimatologyAssumption DEF Days
<1>3. \A k : k # d /\ k \notin older => k \notin old
  BY DEF Restaled
<1>4. d + 1 \in DOMAIN rows => d + 1 \in older
  BY DEF Restaled
<1> HIDE DEF later, older
<1>5. FollowsYear(later, older, u)
  <2>1. u = 1 => later[u].year = later[u].rain
    BY <1>2 DEF FollowsYear
  <2>2. ASSUME u > 1, u \notin older, u - 1 \in DOMAIN later
        PROVE  later[u].year = Plus(later[u].rain, later[u - 1].year)
    <3>1. u - 1 # d
      BY <1>2, <1>4, <2>2
    <3>2. u - 1 \in DOMAIN rows /\ later[u - 1] = rows[u - 1] /\ u \notin old
      BY <1>1, <1>3, <2>2, <3>1
    <3> QED BY <1>2, <2>2, <3>2 DEF FollowsYear
  <2> QED BY <2>1, <2>2 DEF FollowsYear
<1>6. FollowsMonth(later, older, u)
  <2> DEFINE b == BeginningOfMonth(u)
  <2>1. b \in Int /\ 0 <= b /\ b < u /\ MonthSoFar(u) = (b + 1)..u /\ Month(u) \in Int
    BY <1>2, DaysAndMonths DEF MonthSoFar
  <2> HIDE DEF b
  <2>2. ASSUME MonthSoFar(u) \subseteq DOMAIN later \ older
        PROVE  /\ MonthSoFar(u) \subseteq DOMAIN rows \ old
               /\ d # b
    <3>1. d \notin (b + 1)..u
      <4> SUFFICES ASSUME d \in (b + 1)..u PROVE FALSE
        OBVIOUS
      <4>1. d + 1 \in (b + 1)..u
        BY <1>2, <2>1
      <4>2. d + 1 \in DOMAIN later \ older
        BY <2>1, <2>2, <4>1
      <4> QED BY <1>1, <1>2, <1>4, <4>2
    <3>2. MonthSoFar(u) \subseteq DOMAIN rows \ old
      <4> SUFFICES ASSUME NEW k \in MonthSoFar(u) PROVE k \in DOMAIN rows /\ k \notin old
        OBVIOUS
      <4>1. k # d /\ k \in DOMAIN later /\ k \notin older
        BY <2>1, <2>2, <3>1
      <4> QED BY <1>1, <1>3, <4>1
    <3>3. d # b
      <4> SUFFICES ASSUME d = b PROVE FALSE
        OBVIOUS
      <4>1. d + 1 \in (b + 1)..u
        BY <1>2, <2>1
      <4>2. d + 1 \in DOMAIN later \ older
        BY <2>1, <2>2, <4>1
      <4> QED BY <1>1, <1>2, <1>4, <4>2
    <3> QED BY <3>2, <3>3
  <2> SUFFICES ASSUME MonthSoFar(u) \subseteq DOMAIN later \ older
               PROVE  /\ Month(u) = 1 => later[u].month = later[u].year
                      /\ Month(u) > 1 /\ b \in DOMAIN later =>
                         later[u].month = Minus(later[u].year, later[b].year)
    BY DEF FollowsMonth, b
  <2>3. MonthSoFar(u) \subseteq DOMAIN rows \ old /\ d # b
    BY <2>2
  <2>4. b \in DOMAIN later => b \in DOMAIN rows /\ later[b] = rows[b]
    BY <1>1, <2>3
  <2>5. /\ Month(u) = 1 => rows[u].month = rows[u].year
        /\ Month(u) > 1 /\ b \in DOMAIN rows => rows[u].month = Minus(rows[u].year, rows[b].year)
    BY <2>3 DEF FollowsMonth, b
  <2> QED BY <1>2, <2>4, <2>5
<1> QED BY <1>5, <1>6 DEF later, older

\* Nor does it follow from the ones before any less than they, if nothing fails.
LEMMA ItsRow ==
  ASSUME NEW rows, NEW old, NEW d \in Days, NEW v, NEW values,
         v = [rain |-> observed[d], year |-> YearRain(rows, d, "none"),
              month |-> MonthRain(rows, d, "none", values)]
  PROVE  /\ FollowsYear(WithRow(rows, d, v), Restaled(rows, old, d), d)
         /\ FollowsMonth(WithRow(rows, d, v), Restaled(rows, old, d), d)
<1> DEFINE later == WithRow(rows, d, v)
           older == Restaled(rows, old, d)
           b == BeginningOfMonth(d)
<1>1. /\ DOMAIN later = DOMAIN rows \cup {d} /\ later[d] = v
      /\ \A k \in DOMAIN later : k # d => k \in DOMAIN rows /\ later[k] = rows[k]
  BY DEF WithRow
<1>2. d \in Nat /\ d >= 1 /\ d - 1 # d
  BY ClimatologyAssumption DEF Days
<1>3. /\ Month(d) \in Int /\ b \in Int /\ 0 <= b /\ b < d
  BY <1>2, DaysAndMonths
<1>4. /\ v.rain = observed[d] /\ v.year = YearRain(rows, d, "none")
      /\ v.month = MonthRain(rows, d, "none", values)
  OBVIOUS
<1> HIDE DEF later, older
<1>5. FollowsYear(later, older, d)
  <2>1. d = 1 => v.year = v.rain
    BY <1>4 DEF YearRain
  <2>2. ASSUME d > 1, d - 1 \in DOMAIN later
        PROVE  v.year = Plus(v.rain, later[d - 1].year)
    <3>1. d - 1 \in DOMAIN rows /\ later[d - 1] = rows[d - 1]
      BY <1>1, <1>2, <2>2
    <3> QED BY <1>2, <1>4, <2>2, <3>1 DEF YearRain, HasYearly
  <2> QED BY <1>1, <2>1, <2>2 DEF FollowsYear
<1>6. FollowsMonth(later, older, d)
  <2>1. Month(d) = 1 => v.month = v.year
    BY <1>4 DEF MonthRain
  <2>2. ASSUME Month(d) > 1, b \in DOMAIN later
        PROVE  v.month = Minus(v.year, later[b].year)
    <3>1. b \in DOMAIN rows /\ later[b] = rows[b]
      BY <1>1, <1>3, <2>2
    <3> QED BY <1>3, <1>4, <2>2, <3>1 DEF MonthRain, HasYearly
  <2> QED BY <1>1, <2>1, <2>2 DEF FollowsMonth
<1> QED BY <1>5, <1>6 DEF later, older

LEMMA OneMoreRow ==
  ASSUME NEW rows, IsRows(rows), NEW old, NEW but, Follow(rows, old, but),
         DOMAIN observed \subseteq Days, NEW d \in Days, NEW v
  PROVE  Follow(WithRow(rows, d, v), Restaled(rows, old, d), but \cup {d})
<1> DEFINE later == WithRow(rows, d, v)
           older == Restaled(rows, old, d)
<1>1. DOMAIN later = DOMAIN rows \cup {d}
  BY DEF WithRow
<1> SUFFICES ASSUME NEW u \in DOMAIN later \ (but \cup {d})
             PROVE  FollowsYear(later, older, u) /\ FollowsMonth(later, older, u)
  BY DEF Follow
<1> HIDE DEF later, older
<1>2. u \in DOMAIN rows /\ u # d /\ u \notin but /\ u \in Days
  BY <1>1 DEF IsRows
<1>3. FollowsYear(rows, old, u) /\ FollowsMonth(rows, old, u)
  BY <1>2 DEF Follow
<1> QED BY <1>2, <1>3, OtherRows DEF later, older

-----------------------------------------------------------------------------
(* The climatology: a job                                                   *)

Observes == DOMAIN observed \subseteq Days /\ \A d \in DOMAIN observed : observed[d] \in Int

\* What the days of a job, up to one of them, have become.
UpTo(progress, begin, end, fault, k) ==
    /\ progress.ret \in BOOLEAN
    /\ IsRows(progress.rows)
    /\ DOMAIN daily \subseteq DOMAIN progress.rows
    /\ \A d \in DOMAIN progress.rows :
        d \notin begin..k => d \in DOMAIN daily /\ progress.rows[d] = daily[d]
    /\ progress.ret => \A d \in begin..k :
                        d \in DOMAIN progress.rows /\ progress.rows[d].rain = observed[d]
    /\ Follow(progress.rows, progress.stale, unsure \cup begin..end)
    /\ progress.ret /\ fault = "none" =>
        Follow(progress.rows, progress.stale, unsure \ (begin..k))

LEMMA YearIsValue ==
  ASSUME NEW rows, IsRows(rows), NEW d, observed[d] \in Int, NEW fault
  PROVE  YearRain(rows, d, fault) \in Value
<1>1. d - 1 \in DOMAIN rows => rows[d - 1].year \in Value
  BY DEF IsRows
<1>2. \A x \in Value : Plus(observed[d], x) \in Value
  BY DEF Plus, Value
<1> QED BY <1>1, <1>2 DEF YearRain, HasYearly, Value

LEMMA DayComputed ==
  ASSUME Observes, NEW begin \in Days, NEW end \in Days, NEW day, NEW fault, NEW k \in begin..end,
         NEW progress, UpTo(progress, begin, end, fault, k - 1),
         NEW faced, faced = (IF k = day THEN fault ELSE "none")
  PROVE  UpTo(ComputeDay(progress, k, faced), begin, end, fault, k)
<1> DEFINE next == ComputeDay(progress, k, faced)
           rows == progress.rows
           old == progress.stale
           v == [rain |-> observed[k], year |-> YearRain(rows, k, faced),
                 month |-> MonthRain(rows, k, faced, progress.values)]
           inserted == progress.ret /\ faced # "insert"
           skipped == k \notin DOMAIN observed \/ faced = "values"
<1>1. k \in Days /\ k \in Nat /\ begin \in Nat /\ end \in Nat
      /\ \A d \in Days : d \in begin..k <=> d = k \/ d \in begin..(k - 1)
  BY ClimatologyAssumption DEF Days
<1>2. /\ progress.ret \in BOOLEAN
      /\ IsRows(rows)
      /\ DOMAIN daily \subseteq DOMAIN rows
      /\ \A d \in DOMAIN rows : d \notin begin..(k - 1) => d \in DOMAIN daily /\ rows[d] = daily[d]
      /\ progress.ret => \A d \in begin..(k - 1) : d \in DOMAIN rows /\ rows[d].rain = observed[d]
      /\ Follow(rows, old, unsure \cup begin..end)
      /\ progress.ret /\ fault = "none" => Follow(rows, old, unsure \ (begin..(k - 1)))
  BY DEF UpTo
<1>3. CASE skipped \/ ~inserted
  <2>1. next.rows = rows /\ next.stale = old /\ next.ret = FALSE
    <3>1. CASE skipped
      BY <3>1 DEF ComputeDay
    <3>2. CASE ~skipped /\ ~inserted
      <4>1. next = [rows |-> rows, stale |-> old, values |-> v, ret |-> FALSE]
        BY <3>2 DEF ComputeDay
      <4> QED BY <4>1
    <3> QED BY <1>3, <3>1, <3>2
  <2> HIDE DEF next, rows, old
  <2>2. \A d \in DOMAIN rows : d \notin begin..k => d \in DOMAIN daily /\ rows[d] = daily[d]
    BY <1>1, <1>2
  <2> QED BY <1>2, <2>1, <2>2 DEF UpTo, next, rows, old
<1>4. CASE ~skipped /\ inserted
  <2> DEFINE later == WithRow(rows, k, v)
             older == Restaled(rows, old, k)
  <2>1. next.rows = later /\ next.stale = older /\ next.ret = (faced # "timescale")
    <3>1. next = [rows |-> later, stale |-> older, values |-> v, ret |-> faced # "timescale"]
      BY <1>4 DEF ComputeDay, Restaled
    <3> QED BY <3>1
  <2>2. observed[k] \in Int /\ k \in DOMAIN observed /\ progress.ret
    BY <1>4 DEF Observes
  <2>3. v.rain = observed[k] /\ v.year \in Value
    BY <1>2, <2>2, YearIsValue
  <2>4. /\ DOMAIN later = DOMAIN rows \cup {k} /\ later[k] = v
        /\ \A d \in DOMAIN rows : d # k => later[d] = rows[d]
    BY DEF WithRow
  <2>5. Follow(later, older, (unsure \cup begin..end) \cup {k})
    BY <1>1, <1>2, OneMoreRow DEF Observes
  <2>6. (unsure \cup begin..end) \cup {k} = unsure \cup begin..end
    OBVIOUS
  <2>7. fault = "none" => Follow(later, older, unsure \ (begin..k))
    <3> SUFFICES ASSUME fault = "none" PROVE Follow(later, older, unsure \ (begin..k))
      OBVIOUS
    <3>1. Follow(rows, old, unsure \ (begin..(k - 1)))
      BY <1>2, <2>2
    <3>2. Follow(later, older, (unsure \ (begin..(k - 1))) \cup {k})
      BY <1>1, <1>2, <3>1, OneMoreRow DEF Observes
    <3>3. faced = "none"
      OBVIOUS
    <3>4. FollowsYear(later, older, k) /\ FollowsMonth(later, older, k)
      BY <1>1, <3>3, ItsRow
    <3> HIDE DEF later, older
    <3>5. \A d \in DOMAIN later \ (unsure \ (begin..k)) :
            d = k \/ d \in DOMAIN later \ ((unsure \ (begin..(k - 1))) \cup {k})
      BY <1>1
    <3> QED BY <3>2, <3>4, <3>5 DEF Follow
  <2> HIDE DEF next, later, older, rows, old, v
  <2>8. IsRows(later)
    BY <1>2, <2>2, <2>3, <2>4 DEF IsRows
  <2>9. \A d \in DOMAIN later : d \notin begin..k => d \in DOMAIN daily /\ later[d] = daily[d]
    BY <1>1, <1>2, <2>4
  <2>10. \A d \in begin..k : d \in DOMAIN later /\ later[d].rain = observed[d]
    <3> SUFFICES ASSUME NEW d \in begin..k PROVE d \in DOMAIN later /\ later[d].rain = observed[d]
      OBVIOUS
    <3>1. d = k \/ (d # k /\ d \in begin..(k - 1))
      BY <1>1
    <3>2. CASE d = k
      BY <2>3, <2>4, <3>2
    <3>3. CASE d # k /\ d \in begin..(k - 1)
      <4>1. d \in DOMAIN rows /\ rows[d].rain = observed[d]
        BY <1>2, <2>2, <3>3
      <4> QED BY <2>4, <3>3, <4>1
    <3> QED BY <3>1, <3>2, <3>3
  <2>11. DOMAIN daily \subseteq DOMAIN later
    BY <1>2, <2>4
  <2>12. UpTo(next, begin, end, fault, k)
    BY <2>1, <2>5, <2>6, <2>7, <2>8, <2>9, <2>10, <2>11 DEF UpTo
  <2> QED BY <2>12 DEF next
<1> QED BY <1>3, <1>4

Started == [rows |-> daily, stale |-> stale, values |-> NoValues, ret |-> TRUE]
Loops(progress, begin, end, day, fault) ==
    progress = [d \in (begin - 1)..end |->
                   IF d < begin THEN Started
                   ELSE ComputeDay(progress[d - 1], d, IF d = day THEN fault ELSE "none")]

\* The loop over the days ends, on some progress.
LEMMA LoopEnds ==
  ASSUME NEW begin \in Nat, NEW day, NEW fault, NEW n \in Nat
  PROVE  \E progress : Loops(progress, begin, (begin - 1) + n, day, fault)
<1> DEFINE S == {k \in Nat : \E progress : Loops(progress, begin, (begin - 1) + k, day, fault)}
           faced(d) == IF d = day THEN fault ELSE "none"
<1>1. ASSUME NEW k \in Nat, \A i \in 0..(k - 1) : i \in S
      PROVE  k \in S
  <2>1. CASE k = 0
    <3> DEFINE f == [d \in (begin - 1)..(begin - 1) |-> Started]
    <3>1. Loops(f, begin, (begin - 1) + k, day, fault)
      BY <2>1 DEF Loops
    <3> QED BY <3>1
  <2>2. CASE k # 0
    <3>1. k - 1 \in S /\ k - 1 \in Nat
      BY <1>1, <2>2
    <3>2. PICK f : Loops(f, begin, (begin - 1) + (k - 1), day, fault)
      BY <3>1
    <3> DEFINE e == (begin - 1) + k
               g == [d \in (begin - 1)..e |-> IF d = e THEN ComputeDay(f[e - 1], e, faced(e)) ELSE f[d]]
    <3>3. e \in Int /\ begin <= e /\ (begin - 1) + (k - 1) = e - 1
      BY <2>2
    <3>4. f = [d \in (begin - 1)..(e - 1) |->
                  IF d < begin THEN Started ELSE ComputeDay(f[d - 1], d, faced(d))]
      BY <3>2, <3>3 DEF Loops
    <3> HIDE DEF e, faced
    <3>5. \A d \in (begin - 1)..e : g[d] = IF d < begin THEN Started ELSE ComputeDay(g[d - 1], d, faced(d))
      <4> SUFFICES ASSUME NEW d \in (begin - 1)..e
                   PROVE  g[d] = IF d < begin THEN Started ELSE ComputeDay(g[d - 1], d, faced(d))
        OBVIOUS
      <4>1. CASE d = e
        <5>1. g[d] = ComputeDay(f[e - 1], e, faced(e)) /\ g[e - 1] = f[e - 1]
          BY <3>3, <4>1
        <5> HIDE DEF g
        <5> QED BY <3>3, <4>1, <5>1
      <4>2. CASE d # e
        <5>1. d \in (begin - 1)..(e - 1) /\ g[d] = f[d]
          BY <3>3, <4>2
        <5>2. f[d] = IF d < begin THEN Started ELSE ComputeDay(f[d - 1], d, faced(d))
          BY <3>4, <5>1
        <5>3. d >= begin => g[d - 1] = f[d - 1]
          BY <3>3, <4>2
        <5> HIDE DEF g
        <5> QED BY <5>1, <5>2, <5>3
      <4> QED BY <4>1, <4>2
    <3>6. g = [d \in (begin - 1)..e |-> IF d < begin THEN Started ELSE ComputeDay(g[d - 1], d, faced(d))]
      <4>1. g = [d \in (begin - 1)..e |-> g[d]]
        OBVIOUS
      <4> HIDE DEF g
      <4> QED BY <3>5, <4>1
    <3> HIDE DEF g
    <3>7. Loops(g, begin, e, day, fault)
      BY <3>6 DEF Loops, faced
    <3> QED BY <3>7 DEF e
  <2> QED BY <2>1, <2>2
<1>2. Nat \subseteq S
  <2> HIDE DEF S
  <2> QED BY <1>1, NoFirstFailure
<1> QED BY <1>2

LEMMA ComputedDayByDay ==
  ASSUME NEW begin \in Nat, NEW end \in Nat, begin <= end, NEW day, NEW fault
  PROVE  \E progress : /\ progress[begin - 1] = Started
                       /\ \A d \in begin..end : progress[d] =
                            ComputeDay(progress[d - 1], d, IF d = day THEN fault ELSE "none")
                       /\ ComputeMinmax(begin, end, day, fault) = progress[end]
<1> DEFINE p == CHOOSE progress : Loops(progress, begin, end, day, fault)
           n == end - (begin - 1)
<1>1. n \in Nat /\ (begin - 1) + n = end
  OBVIOUS
<1>2. \E progress : Loops(progress, begin, end, day, fault)
  BY <1>1, LoopEnds
<1>3. Loops(p, begin, end, day, fault)
  BY <1>2
<1>4. ComputeMinmax(begin, end, day, fault) = p[end]
  BY DEF ComputeMinmax, Loops, Started
<1> HIDE DEF p
<1>5. p[begin - 1] = Started
  BY <1>3 DEF Loops
<1>6. \A d \in begin..end : p[d] = ComputeDay(p[d - 1], d, IF d = day THEN fault ELSE "none")
  BY <1>3 DEF Loops
<1> QED BY <1>4, <1>5, <1>6

JobSet == {j \in [begin : Days, end : Days] : j.begin <= j.end}
Queued(d) == \E i \in 1..Len(jobs) : d \in jobs[i].begin..jobs[i].end
ClimTypes ==
    /\ today \in Nat /\ news \in Nat
    /\ Observes /\ IsRows(daily)
    /\ jobs \in Seq(JobSet)
    /\ monthJobs \in Seq([begin : Nat \ {0}, end : Nat])
    /\ \/ running = Idle
       \/ running \in [begin : Days, end : Days, state : {"computed", "failed"}]
          /\ running.begin <= running.end
RowsFollow ==
    /\ Follow(daily, stale, unsure)
    /\ \A d \in DOMAIN daily \ unsure : daily[d].rain = observed[d] \/ Queued(d)

MonthComputed(m) == m \in DOMAIN monthly /\ monthly[m] = RainOfMonth(m)
MonthQueued(m) == \E i \in 1..Len(monthJobs) : m \in monthJobs[i].begin..monthJobs[i].end
BeingComputed(m) == running # Idle /\ m \in Over(running.begin, running.end)
HasRow(m) == DaysOf(m) \cap DOMAIN daily # {}
MonthsAreQueued ==
    /\ turned \subseteq Nat /\ \A m \in turned : m < Month(today)
    /\ running.state = "computed" => running.begin..running.end \subseteq DOMAIN daily
    /\ \A i \in 1..Len(monthJobs) : \A m \in monthJobs[i].begin..monthJobs[i].end : HasRow(m)
    /\ \A m \in turned : MonthComputed(m) \/ BeingComputed(m) \/ MonthQueued(m)
ClimInv == ClimTypes /\ RowsFollow /\ MonthsAreQueued

LEMMA FollowBut ==
  ASSUME NEW rows, NEW old, NEW but, Follow(rows, old, but), NEW more, but \subseteq more
  PROVE  Follow(rows, old, more)
BY DEF Follow

\* The rows a job leaves.
LEMMA JobComputed ==
  ASSUME ClimTypes, RowsFollow, NEW begin \in Days, NEW end \in Days, begin <= end,
         NEW day, NEW fault
  PROVE  UpTo(ComputeMinmax(begin, end, day, fault), begin, end, fault, end)
<1>1. begin \in Nat /\ end \in Nat /\ begin >= 1
  BY ClimatologyAssumption DEF Days
<1>2. PICK p : /\ p[begin - 1] = Started
               /\ \A d \in begin..end : p[d] = ComputeDay(p[d - 1], d, IF d = day THEN fault ELSE "none")
               /\ ComputeMinmax(begin, end, day, fault) = p[end]
  BY <1>1, ComputedDayByDay
<1>3. UpTo(p[begin - 1], begin, end, fault, begin - 1)
  <2>1. begin..(begin - 1) = {} /\ unsure \ (begin..(begin - 1)) = unsure
    BY <1>1
  <2>2. Follow(daily, stale, unsure \cup begin..end)
    BY FollowBut DEF RowsFollow
  <2> DEFINE s == Started
  <2>3. s.rows = daily /\ s.stale = stale /\ s.ret = TRUE
    BY DEF Started
  <2>4. IsRows(daily) /\ Follow(daily, stale, unsure)
    BY DEF ClimTypes, RowsFollow
  <2> HIDE DEF s
  <2>5. UpTo(s, begin, end, fault, begin - 1)
    BY <2>1, <2>2, <2>3, <2>4 DEF UpTo
  <2> QED BY <1>2, <2>5 DEF s
<1> DEFINE S == {n \in Nat : n <= end - (begin - 1) =>
                    UpTo(p[(begin - 1) + n], begin, end, fault, (begin - 1) + n)}
<1>4. ASSUME NEW n \in Nat, \A i \in 0..(n - 1) : i \in S
      PROVE  n \in S
  <2> DEFINE k == (begin - 1) + n
  <2> SUFFICES ASSUME n <= end - (begin - 1) PROVE UpTo(p[k], begin, end, fault, k)
    OBVIOUS
  <2>1. CASE n = 0
    <3>1. k = begin - 1
      BY <1>1, <2>1
    <3> QED BY <1>3, <3>1
  <2>2. CASE n # 0
    <3>1. k \in begin..end /\ k - 1 = (begin - 1) + (n - 1) /\ n - 1 <= end - (begin - 1)
          /\ n - 1 \in 0..(n - 1)
      BY <1>1, <2>2
    <3>2. n - 1 \in S
      BY <1>4, <3>1
    <3>3. UpTo(p[k - 1], begin, end, fault, k - 1)
      BY <3>1, <3>2
    <3> HIDE DEF k
    <3> DEFINE faced == IF k = day THEN fault ELSE "none"
    <3>4. p[k] = ComputeDay(p[k - 1], k, faced)
      BY <1>2, <3>1
    <3>5. Observes
      BY DEF ClimTypes
    <3> HIDE DEF faced
    <3>6. faced = (IF k = day THEN fault ELSE "none")
      BY DEF faced
    <3>7. UpTo(ComputeDay(p[k - 1], k, faced), begin, end, fault, k)
      <4> DEFINE q == p[k - 1]
      <4>1. UpTo(q, begin, end, fault, k - 1) /\ k \in begin..end
        BY <3>1, <3>3
      <4> HIDE DEF q
      <4>2. UpTo(ComputeDay(q, k, faced), begin, end, fault, k)
        BY SMTT(30), <3>5, <3>6, <4>1, DayComputed
      <4> QED BY <4>2 DEF q
    <3>8. UpTo(p[k], begin, end, fault, k)
      BY <3>4, <3>7
    <3> QED BY <3>8 DEF k
  <2> QED BY <2>1, <2>2
<1>5. Nat \subseteq S
  <2> HIDE DEF S
  <2> QED BY <1>4, NoFirstFailure
<1>6. end - (begin - 1) \in Nat /\ (begin - 1) + (end - (begin - 1)) = end
  BY <1>1
<1>7. UpTo(p[end], begin, end, fault, end)
  <2>1. end - (begin - 1) \in S
    BY <1>5, <1>6
  <2> QED BY <1>6, <2>1
<1> QED BY <1>2, <1>7

\* They follow the observations, unless the job has failed.
Renewed(begin, end) ==
    /\ DOMAIN daily \subseteq DOMAIN daily'
    /\ \A d \in DOMAIN daily' : d \notin begin..end => d \in DOMAIN daily /\ daily'[d] = daily[d]
    /\ \A d \in (DOMAIN daily)' \ unsure' :
        \/ d \in begin..end /\ daily'[d].rain = observed'[d]
        \/ d \notin begin..end /\ d \notin unsure

LEMMA RowsStored ==
  ASSUME ClimTypes, RowsFollow, NEW begin \in Days, NEW end \in Days, begin <= end,
         NEW day, NEW fault, StoreRows(begin, end, day, fault), observed' = observed
  PROVE  /\ Observes' /\ IsRows(daily)' /\ Follow(daily, stale, unsure)'
         /\ Renewed(begin, end)
         /\ ComputeMinmax(begin, end, day, fault).ret => begin..end \subseteq (DOMAIN daily)'
<1> DEFINE p == ComputeMinmax(begin, end, day, fault)
           ok == p.ret /\ fault = "none"
<1>1. UpTo(p, begin, end, fault, end)
  BY JobComputed
<1>2. /\ daily' = p.rows /\ stale' = p.stale
      /\ unsure' = IF ok THEN unsure \ (begin..end) ELSE unsure \cup begin..end
  BY DEF StoreRows
<1> HIDE DEF p
<1>3. Observes'
  BY DEF ClimTypes, Observes
<1>4. IsRows(daily)'
  BY <1>1, <1>2 DEF UpTo, IsRows
<1>5. Follow(daily, stale, unsure)'
  <2>1. Follow(p.rows, p.stale, IF ok THEN unsure \ (begin..end) ELSE unsure \cup begin..end)
    BY <1>1 DEF UpTo
  <2>2. Follow(daily', stale', unsure')
    BY <1>2, <2>1
  <2> QED BY <2>2 DEF Follow, FollowsYear, FollowsMonth
<1>6. Renewed(begin, end)
  <2>1. \A d \in DOMAIN p.rows : d \notin begin..end => d \in DOMAIN daily /\ p.rows[d] = daily[d]
    BY <1>1 DEF UpTo
  <2>2. ASSUME NEW d \in DOMAIN p.rows, d \notin unsure'
        PROVE  \/ d \in begin..end /\ p.rows[d].rain = observed[d]
               \/ d \notin begin..end /\ d \notin unsure
    <3>1. CASE ok
      <4>1. d \in begin..end => p.rows[d].rain = observed[d]
        BY <1>1, <3>1 DEF UpTo
      <4> QED BY <1>2, <2>2, <3>1, <4>1
    <3>2. CASE ~ok
      BY <1>2, <2>2, <3>2
    <3> QED BY <3>1, <3>2
  <2>3. DOMAIN daily \subseteq DOMAIN p.rows
    BY <1>1 DEF UpTo
  <2> QED BY <1>2, <2>1, <2>2, <2>3 DEF Renewed
<1>7. p.ret => begin..end \subseteq (DOMAIN daily)'
  BY <1>1, <1>2 DEF UpTo
<1> QED BY <1>3, <1>4, <1>5, <1>6, <1>7 DEF p

-----------------------------------------------------------------------------
(* The climatology: the queues and the months                               *)

LEMMA JobAppended ==
  ASSUME NEW S, NEW q \in Seq(S), NEW j \in S
  PROVE  /\ Append(q, j) \in Seq(S)
         /\ Len(Append(q, j)) \in 1..Len(Append(q, j)) /\ Append(q, j)[Len(Append(q, j))] = j
         /\ \A i \in 1..Len(q) : i \in 1..Len(Append(q, j)) /\ Append(q, j)[i] = q[i]
         /\ \A i \in 1..Len(Append(q, j)) : Append(q, j)[i] = j \/ (i \in 1..Len(q) /\ Append(q, j)[i] = q[i])
OBVIOUS

LEMMA JobTaken ==
  ASSUME NEW S, NEW q \in Seq(S), q # <<>>
  PROVE  /\ Tail(q) \in Seq(S) /\ Head(q) \in S /\ Head(q) = q[1] /\ 1 \in 1..Len(q)
         /\ \A i \in 1..Len(q) : i = 1 \/ (i - 1 \in 1..Len(Tail(q)) /\ Tail(q)[i - 1] = q[i])
         /\ \A i \in 1..Len(Tail(q)) : i + 1 \in 1..Len(q) /\ Tail(q)[i] = q[i + 1]
OBVIOUS

LEMMA TakenFromJobs ==
  ASSUME ClimTypes, jobs # <<>>, jobs' = Tail(jobs)
  PROVE  /\ Head(jobs) = jobs[1]
         /\ Head(jobs).begin \in Days /\ Head(jobs).end \in Days /\ Head(jobs).begin <= Head(jobs).end
         /\ (jobs \in Seq(JobSet))'
         /\ \A d : Queued(d) => d \in Head(jobs).begin..Head(jobs).end \/ Queued(d)'
<1> DEFINE S == JobSet
<1>1. jobs \in Seq(S)
  BY DEF ClimTypes
<1>2. \A j \in S : j.begin \in Days /\ j.end \in Days /\ j.begin <= j.end
  BY DEF JobSet
<1> HIDE DEF S
<1>3. /\ Tail(jobs) \in Seq(S) /\ Head(jobs) \in S /\ Head(jobs) = jobs[1]
      /\ \A i \in 1..Len(jobs) : i = 1 \/ (i - 1 \in 1..Len(Tail(jobs)) /\ Tail(jobs)[i - 1] = jobs[i])
  BY <1>1, JobTaken
<1>4. \A d : Queued(d) => d \in Head(jobs).begin..Head(jobs).end \/ Queued(d)'
  <2> SUFFICES ASSUME NEW d, Queued(d), d \notin Head(jobs).begin..Head(jobs).end
               PROVE  Queued(d)'
    OBVIOUS
  <2>1. PICK i \in 1..Len(jobs) : d \in jobs[i].begin..jobs[i].end
    BY DEF Queued
  <2>2. i # 1
    BY <1>3, <2>1
  <2>3. i - 1 \in 1..Len(jobs') /\ jobs'[i - 1] = jobs[i]
    BY <1>3, <2>2
  <2>4. \E k \in 1..Len(jobs') : d \in jobs'[k].begin..jobs'[k].end
    BY <2>1, <2>3
  <2> QED BY <2>4 DEF Queued
<1>5. (jobs \in Seq(JobSet))'
  <2>1. jobs' \in Seq(S)
    BY <1>3
  <2> QED BY <2>1 DEF S, JobSet, Days
<1> QED BY <1>2, <1>3, <1>4, <1>5

LEMMA AddedToJobs ==
  ASSUME ClimTypes, NEW begin \in Days, NEW end \in Days, begin <= end,
         jobs' = Append(jobs, [begin |-> begin, end |-> end])
  PROVE  /\ (jobs \in Seq(JobSet))'
         /\ \A d : Queued(d) \/ d \in begin..end => Queued(d)'
<1> DEFINE S == JobSet
           j == [begin |-> begin, end |-> end]
<1>1. jobs \in Seq(S)
  BY DEF ClimTypes
<1>2. j \in S /\ j.begin = begin /\ j.end = end
  BY DEF JobSet
<1> HIDE DEF S, j
<1>3. jobs' = Append(jobs, j)
  BY DEF j
<1>4. /\ jobs' \in Seq(S)
      /\ Len(jobs') \in 1..Len(jobs') /\ jobs'[Len(jobs')] = j
      /\ \A i \in 1..Len(jobs) : i \in 1..Len(jobs') /\ jobs'[i] = jobs[i]
  BY <1>1, <1>2, <1>3, JobAppended
<1>5. ASSUME NEW d, Queued(d) \/ d \in begin..end PROVE Queued(d)'
  <2>1. \E k \in 1..Len(jobs') : d \in jobs'[k].begin..jobs'[k].end
    BY <1>2, <1>4, <1>5 DEF Queued
  <2> QED BY <2>1 DEF Queued
<1>6. (jobs \in Seq(JobSet))'
  BY <1>4 DEF S, JobSet, Days
<1> QED BY <1>5, <1>6

RainIn(rows, m) ==
    SumTo([d \in Nat |-> IF d \in DaysOf(m) \cap DOMAIN rows THEN rows[d].rain ELSE 0], LastDay)

LEMMA SameMonth ==
  ASSUME NEW rows, NEW later, NEW m,
         \A d \in DOMAIN rows : rows[d].rain \in Int, \A d \in DOMAIN later : later[d].rain \in Int,
         \A d \in DaysOf(m) : (d \in DOMAIN rows <=> d \in DOMAIN later)
                              /\ (d \in DOMAIN rows => later[d] = rows[d])
  PROVE  RainIn(later, m) = RainIn(rows, m)
<1> DEFINE v == [d \in Nat |-> IF d \in DaysOf(m) \cap DOMAIN rows THEN rows[d].rain ELSE 0]
           w == [d \in Nat |-> IF d \in DaysOf(m) \cap DOMAIN later THEN later[d].rain ELSE 0]
<1>1. LastDay \in Nat
  BY ClimatologyAssumption
<1>2. v \in [Nat -> Int] /\ w \in [Nat -> Int]
  OBVIOUS
<1>3. \A d \in 0..LastDay : w[d] = v[d]
  OBVIOUS
<1>4. RainIn(rows, m) = SumTo(v, LastDay) /\ RainIn(later, m) = SumTo(w, LastDay)
  BY DEF RainIn
<1> HIDE DEF v, w
<1>5. SumTo(w, LastDay) = SumTo(v, LastDay)
  BY <1>1, <1>2, <1>3, SameSum
<1> QED BY <1>4, <1>5

LEMMA MonthStays ==
  ASSUME ClimTypes, IsRows(daily)', NEW begin \in Days, NEW end \in Days, Renewed(begin, end),
         monthly' = monthly, NEW m, m \notin Month(begin)..Month(end), MonthComputed(m)
  PROVE  MonthComputed(m)'
<1>1. ASSUME NEW d \in DaysOf(m) PROVE d \notin begin..end
  <2> SUFFICES ASSUME d \in begin..end PROVE FALSE
    OBVIOUS
  <2>1. d \in Nat /\ begin \in Nat /\ end \in Nat /\ begin <= d /\ d <= end /\ Month(d) = m
    BY <1>1, ClimatologyAssumption DEF Days, DaysOf
  <2>2. Month(begin) \in Int /\ Month(end) \in Int /\ Month(d) \in Int
    BY <2>1, DaysAndMonths
  <2>3. Month(begin) <= Month(d) /\ Month(d) <= Month(end)
    BY <2>1, MonthsInOrder
  <2> QED BY <2>1, <2>2, <2>3
<1> DEFINE later == daily'
<1>2. \A d \in DaysOf(m) : (d \in DOMAIN daily <=> d \in DOMAIN later)
                           /\ (d \in DOMAIN daily => later[d] = daily[d])
  BY <1>1 DEF Renewed
<1>3. \A d \in DOMAIN daily : daily[d].rain \in Int
  BY DEF ClimTypes, IsRows
<1>4. \A d \in DOMAIN later : later[d].rain \in Int
  BY DEF IsRows
<1> HIDE DEF later
<1>5. RainIn(later, m) = RainIn(daily, m)
  BY <1>2, <1>3, <1>4, SameMonth
<1>6. RainOfMonth(m)' = RainOfMonth(m)
  BY <1>5 DEF RainOfMonth, RainIn, later, DaysOf, Days, Month
<1> QED BY <1>6 DEF MonthComputed

LEMMA RainStillFollows ==
  ASSUME RowsFollow, Follow(daily, stale, unsure)', NEW begin, NEW end, Renewed(begin, end),
         observed' = observed, \A d : Queued(d) => d \in begin..end \/ Queued(d)'
  PROVE  RowsFollow'
<1> SUFFICES ASSUME NEW d \in (DOMAIN daily)', d \notin unsure'
             PROVE  daily'[d].rain = observed'[d] \/ Queued(d)'
  BY DEF RowsFollow
<1>1. CASE d \in begin..end
  BY <1>1 DEF Renewed
<1>2. CASE d \notin begin..end
  <2>1. d \notin unsure /\ d \in DOMAIN daily /\ daily'[d] = daily[d]
    BY <1>2 DEF Renewed
  <2>2. daily[d].rain = observed[d] \/ Queued(d)
    BY <2>1 DEF RowsFollow
  <2> QED BY <1>2, <2>1, <2>2
<1> QED BY <1>1, <1>2

\* Nothing that the rows of the days depend on.
LEMMA RowsStay ==
  ASSUME RowsFollow, daily' = daily, stale' = stale, observed' = observed, unsure \subseteq unsure',
         \A d : Queued(d) => d \in unsure' \/ Queued(d)'
  PROVE  RowsFollow'
<1>1. Follow(daily, stale, unsure')
  BY FollowBut DEF RowsFollow
<1>2. Follow(daily, stale, unsure)'
  BY <1>1 DEF Follow, FollowsYear, FollowsMonth
<1> QED BY <1>2 DEF RowsFollow

LEMMA OverOrder ==
  ASSUME NEW begin \in Days, NEW end \in Days, NEW m
  PROVE  /\ m \in Over(begin, end) <=> m \in Month(begin)..Month(end) /\ m < Month(today)
         /\ m \in Month(begin)..Month(end) => m \in Nat
<1>1. begin \in Nat /\ begin >= 1 /\ end \in Nat
  BY ClimatologyAssumption DEF Days
<1>2. Month(begin) \in Int /\ Month(end) \in Int /\ Month(begin) >= 1
  BY <1>1, DaysAndMonths
<1> QED BY <1>2 DEF Over

\* A month with a row keeps it.
LEMMA RowsRemain ==
  ASSUME MonthsAreQueued, DOMAIN daily \subseteq DOMAIN daily'
  PROVE  \A i \in 1..Len(monthJobs) : \A m \in monthJobs[i].begin..monthJobs[i].end : HasRow(m)'
<1>1. \A m : HasRow(m) => HasRow(m)'
  BY DEF HasRow, DaysOf, Days, Month
<1> QED BY <1>1 DEF MonthsAreQueued

-----------------------------------------------------------------------------
(* The climatology: the steps                                               *)

LEMMA ProcessJobStep ==
  ASSUME ClimInv, ProcessJob
  PROVE  ClimInv'
<1> PICK b, e : b = Head(jobs).begin /\ e = Head(jobs).end
  OBVIOUS
<1>0. ClimTypes /\ RowsFollow /\ MonthsAreQueued
  BY DEF ClimInv
<1>1. /\ running = Idle /\ jobs # <<>> /\ jobs' = Tail(jobs)
      /\ UNCHANGED <<today, observed, monthly, monthJobs, news>>
  BY DEF ProcessJob
<1>2. /\ b \in Days /\ e \in Days /\ b <= e
      /\ (jobs \in Seq(JobSet))'
      /\ \A d : Queued(d) => d \in b..e \/ Queued(d)'
  BY <1>0, <1>1, TakenFromJobs
<1>3. PICK fault, day :
        /\ StoreRows(b, e, day, fault)
        /\ turned' = IF fault = "none" THEN turned \cup Over(b, e) ELSE turned \ Over(b, e)
        /\ running' = [begin |-> b, end |-> e,
                       state |-> IF ComputeMinmax(b, e, day, fault).ret
                                 THEN "computed" ELSE "failed"]
  BY DEF ProcessJob
<1>4. /\ Observes' /\ IsRows(daily)' /\ Follow(daily, stale, unsure)'
      /\ Renewed(b, e)
      /\ ComputeMinmax(b, e, day, fault).ret => b..e \subseteq (DOMAIN daily)'
  BY <1>0, <1>1, <1>2, <1>3, RowsStored
<1>5. /\ running'.begin = b /\ running'.end = e /\ running' # Idle
      /\ running' \in [begin : Days, end : Days, state : {"computed", "failed"}]
      /\ running'.state = "computed" => ComputeMinmax(b, e, day, fault).ret
  <2> DEFINE ret == ComputeMinmax(b, e, day, fault).ret
             s == IF ret THEN "computed" ELSE "failed"
  <2>1. s \in {"computed", "failed"} /\ (s = "computed" => ret)
    OBVIOUS
  <2>2. running' = [begin |-> b, end |-> e, state |-> s]
    BY <1>3
  <2> HIDE DEF ret, s
  <2>3. running' # Idle
    <3>1. running'.state # "idle"
      BY <2>1, <2>2
    <3> QED BY <3>1 DEF Idle
  <2> QED BY <1>2, <2>1, <2>2, <2>3 DEF ret
<1>6. ClimTypes'
  BY <1>0, <1>1, <1>2, <1>4, <1>5 DEF ClimTypes, Days
<1>7. RowsFollow'
  BY <1>0, <1>1, <1>2, <1>4, RainStillFollows
<1>8. MonthsAreQueued'
  <2>1. /\ turned \subseteq Nat /\ \A m \in turned : m < Month(today)
        /\ \A m \in turned : MonthComputed(m) \/ BeingComputed(m) \/ MonthQueued(m)
    BY <1>0 DEF MonthsAreQueued
  <2>2. \A m : m \in Over(b, e) <=> m \in Month(b)..Month(e) /\ m < Month(today)
    BY <1>2, OverOrder
  <2>3. turned' \subseteq Nat /\ \A m \in turned' : m < Month(today)'
    <3>1. \A m \in Over(b, e) : m \in Nat /\ m < Month(today)
      BY <1>2, <2>2, OverOrder
    <3>2. Month(today)' = Month(today)
      BY <1>1 DEF Month
    <3> QED BY <1>3, <2>1, <3>1, <3>2
  <2>4. running'.state = "computed" => running'.begin..running'.end \subseteq (DOMAIN daily)'
    BY <1>4, <1>5
  <2>5. \A i \in 1..Len(monthJobs') : \A m \in monthJobs'[i].begin..monthJobs'[i].end : HasRow(m)'
    <3>1. DOMAIN daily \subseteq DOMAIN daily'
      BY <1>4 DEF Renewed
    <3> QED BY <1>0, <1>1, <3>1, RowsRemain
  <2>6. ASSUME NEW m \in turned' PROVE MonthComputed(m)' \/ BeingComputed(m)' \/ MonthQueued(m)'
    <3>1. CASE m \in Over(b, e)
      <4>1. m \in Over(b, e)'
        BY <1>1, <3>1 DEF Over, Month
      <4>2. (running # Idle)'
        BY <1>5 DEF Idle
      <4>3. (m \in Over(running.begin, running.end))'
        BY <1>5, <4>1 DEF Over, Month
      <4> QED BY <4>2, <4>3 DEF BeingComputed
    <3>2. CASE m \notin Over(b, e)
      <4>1. m \in turned /\ m \notin Month(b)..Month(e)
        BY <1>3, <2>1, <2>2, <2>3, <3>2
      <4>2. ~BeingComputed(m)
        BY <1>1 DEF BeingComputed
      <4>3. MonthComputed(m) => MonthComputed(m)'
        BY <1>0, <1>1, <1>2, <1>4, <4>1, MonthStays
      <4>4. MonthQueued(m) => MonthQueued(m)'
        BY <1>1 DEF MonthQueued
      <4> QED BY <2>1, <4>1, <4>2, <4>3, <4>4
    <3> QED BY <3>1, <3>2
  <2> QED BY <2>3, <2>4, <2>5, <2>6 DEF MonthsAreQueued
<1> QED BY <1>6, <1>7, <1>8 DEF ClimInv

LEMMA MinmaxToolStep ==
  ASSUME ClimInv, MinmaxTool
  PROVE  ClimInv'
<1>0. ClimTypes /\ RowsFollow /\ MonthsAreQueued
  BY DEF ClimInv
<1>1. PICK b \in Days, e \in Days :
        b <= e /\ StoreRows(b, e, b, "none") /\ turned' = turned \ Over(b, e)
  BY DEF MinmaxTool
<1>2. UNCHANGED <<today, observed, monthly, jobs, monthJobs, running, news>>
  BY DEF MinmaxTool
<1>3. /\ Observes' /\ IsRows(daily)' /\ Follow(daily, stale, unsure)'
      /\ Renewed(b, e)
  BY <1>0, <1>1, <1>2, RowsStored
<1>4. DOMAIN daily \subseteq DOMAIN daily'
  BY <1>3 DEF Renewed
<1>5. ClimTypes'
  BY <1>0, <1>2, <1>3 DEF ClimTypes, Idle, JobSet, Days
<1>6. RowsFollow'
  <2>1. \A d : Queued(d) => Queued(d)'
    BY <1>2 DEF Queued
  <2> QED BY <1>0, <1>2, <1>3, <2>1, RainStillFollows
<1>7. MonthsAreQueued'
  <2>1. /\ turned \subseteq Nat /\ \A m \in turned : m < Month(today)
        /\ running.state = "computed" => running.begin..running.end \subseteq DOMAIN daily
        /\ \A m \in turned : MonthComputed(m) \/ BeingComputed(m) \/ MonthQueued(m)
    BY <1>0 DEF MonthsAreQueued
  <2>2. turned' \subseteq Nat /\ \A m \in turned' : m < Month(today)'
    BY <1>1, <1>2, <2>1 DEF Month
  <2>3. running'.state = "computed" => running'.begin..running'.end \subseteq (DOMAIN daily)'
    BY <1>2, <1>4, <2>1
  <2>4. \A i \in 1..Len(monthJobs') : \A m \in monthJobs'[i].begin..monthJobs'[i].end : HasRow(m)'
    BY <1>0, <1>2, <1>4, RowsRemain
  <2>5. ASSUME NEW m \in turned' PROVE MonthComputed(m)' \/ BeingComputed(m)' \/ MonthQueued(m)'
    <3>1. m \in turned /\ m \notin Month(b)..Month(e)
      BY <1>1, <2>1, OverOrder
    <3>2. MonthComputed(m) => MonthComputed(m)'
      BY <1>0, <1>2, <1>3, <3>1, MonthStays
    <3>3. MonthQueued(m) => MonthQueued(m)'
      BY <1>2 DEF MonthQueued
    <3>4. BeingComputed(m) => BeingComputed(m)'
      BY <1>2 DEF BeingComputed, Over, Month, Idle
    <3> QED BY <2>1, <3>1, <3>2, <3>3, <3>4
  <2> QED BY <2>2, <2>3, <2>4, <2>5 DEF MonthsAreQueued
<1> QED BY <1>5, <1>6, <1>7 DEF ClimInv

\* The rows stay, and so do the months that are computed.
LEMMA MonthKept ==
  ASSUME daily' = daily, monthly' = monthly, NEW m, MonthComputed(m)
  PROVE  MonthComputed(m)'
BY DEF MonthComputed, RainOfMonth, DaysOf, Days, Month

LEMMA MarkStep ==
  ASSUME ClimInv, MarkJobAsFinished
  PROVE  ClimInv'
<1> PICK b, e : b = running.begin /\ e = running.end
  OBVIOUS
<1> DEFINE published == running.state = "computed" /\ IsPast(b, e)
           S == [begin : Nat \ {0}, end : Nat]
<1>0. ClimTypes /\ RowsFollow /\ MonthsAreQueued
  BY DEF ClimInv
<1>1. /\ running.state \in {"computed", "failed"} /\ running' = Idle
      /\ monthJobs' = IF published THEN Append(monthJobs, [begin |-> Month(b), end |-> Month(e)])
                      ELSE monthJobs
      /\ turned' = IF running.state = "failed" THEN turned \ Over(b, e) ELSE turned
      /\ UNCHANGED <<today, observed, daily, stale, monthly, jobs, unsure, news>>
  BY DEF MarkJobAsFinished
<1>2. b \in Days /\ e \in Days /\ b <= e
  <2>1. running # Idle
    BY <1>1 DEF Idle
  <2> QED BY <1>0, <2>1 DEF ClimTypes
<1>3. /\ b \in Nat \ {0} /\ e \in Nat /\ Month(b) \in Nat /\ Month(e) \in Nat
      /\ Month(b) >= 1 /\ Month(e) >= 1
  BY <1>2, ClimatologyAssumption, DaysAndMonths DEF Days
<1>4. /\ turned \subseteq Nat /\ \A m \in turned : m < Month(today)
      /\ running.state = "computed" => b..e \subseteq DOMAIN daily
      /\ \A i \in 1..Len(monthJobs) : \A m \in monthJobs[i].begin..monthJobs[i].end : HasRow(m)
      /\ \A m \in turned : MonthComputed(m) \/ BeingComputed(m) \/ MonthQueued(m)
  BY <1>0 DEF MonthsAreQueued
<1>5. PICK j : j = [begin |-> Month(b), end |-> Month(e)]
  OBVIOUS
<1>6. j \in S /\ j.begin = Month(b) /\ j.end = Month(e)
  BY <1>3, <1>5
<1>7. monthJobs \in Seq(S)
  BY <1>0 DEF ClimTypes
<1> HIDE DEF S, published
<1>8. monthJobs' = IF published THEN Append(monthJobs, j) ELSE monthJobs
  BY <1>1, <1>5
<1>9. /\ monthJobs' \in Seq(S)
      /\ \A i \in 1..Len(monthJobs) : i \in 1..Len(monthJobs') /\ monthJobs'[i] = monthJobs[i]
      /\ \A i \in 1..Len(monthJobs') :
           (published /\ monthJobs'[i] = j) \/ (i \in 1..Len(monthJobs) /\ monthJobs'[i] = monthJobs[i])
      /\ published => Len(monthJobs') \in 1..Len(monthJobs') /\ monthJobs'[Len(monthJobs')] = j
  <2>1. CASE published
    <3>1. monthJobs' = Append(monthJobs, j)
      BY <1>8, <2>1
    <3> QED BY <1>6, <1>7, <2>1, <3>1, JobAppended
  <2>2. CASE ~published
    BY <1>7, <1>8, <2>2
  <2> QED BY <2>1, <2>2
<1>10. ClimTypes'
  BY <1>0, <1>1, <1>9 DEF ClimTypes, Observes, IsRows, JobSet, Days, Value, S
<1>11. RowsFollow'
  <2>1. \A d : Queued(d) => Queued(d)'
    BY <1>1 DEF Queued
  <2> QED BY <1>0, <1>1, <2>1, RowsStay
<1>12. MonthsAreQueued'
  <2>1. turned' \subseteq Nat /\ \A m \in turned' : m < Month(today)'
    BY <1>1, <1>4 DEF Month
  <2>2. (running.state = "computed" => running.begin..running.end \subseteq DOMAIN daily)'
    BY <1>1 DEF Idle
  <2>3. ASSUME NEW i \in 1..Len(monthJobs'), NEW m \in monthJobs'[i].begin..monthJobs'[i].end
        PROVE  HasRow(m)'
    <3>1. HasRow(m)
      <4>1. CASE published /\ monthJobs'[i] = j
        <5>1. m \in Month(b)..Month(e)
          BY <1>6, <2>3, <4>1
        <5>2. PICK d \in b..e : Month(d) = m
          BY ONLY <1>2, <1>3, <5>1, MonthHasDay
        <5>3. d \in Days
          BY <1>2, ClimatologyAssumption DEF Days
        <5>4. d \in DOMAIN daily
          BY <1>4, <4>1 DEF published
        <5> QED BY <5>2, <5>3, <5>4 DEF HasRow, DaysOf
      <4>2. CASE i \in 1..Len(monthJobs) /\ monthJobs'[i] = monthJobs[i]
        BY <1>4, <2>3, <4>2
      <4> QED BY <1>9, <4>1, <4>2
    <3> QED BY <1>1, <3>1 DEF HasRow, DaysOf, Days, Month
  <2>4. ASSUME NEW m \in turned' PROVE MonthComputed(m)' \/ BeingComputed(m)' \/ MonthQueued(m)'
    <3>1. m \in turned
      BY <1>1
    <3>2. MonthComputed(m) => MonthComputed(m)'
      BY <1>1, MonthKept
    <3>3. MonthQueued(m) => MonthQueued(m)'
      <4> SUFFICES ASSUME MonthQueued(m) PROVE MonthQueued(m)'
        OBVIOUS
      <4>1. PICK i \in 1..Len(monthJobs) : m \in monthJobs[i].begin..monthJobs[i].end
        BY DEF MonthQueued
      <4>2. \E k \in 1..Len(monthJobs') : m \in monthJobs'[k].begin..monthJobs'[k].end
        BY <1>9, <4>1
      <4> QED BY <4>2 DEF MonthQueued
    <3>4. BeingComputed(m) => MonthQueued(m)'
      <4> SUFFICES ASSUME BeingComputed(m) PROVE MonthQueued(m)'
        OBVIOUS
      <4>1. m \in Over(b, e)
        BY DEF BeingComputed
      <4>2. running.state = "computed"
        BY <1>1, <2>4, <4>1
      <4>3. m \in Month(b)..Month(e) /\ m < Month(today)
        BY <1>2, <4>1, OverOrder
      <4>4. IsPast(b, e)
        <5>1. Month(today) \in Int
          BY <1>0, DaysAndMonths DEF ClimTypes
        <5> QED BY <1>3, <4>3, <5>1 DEF IsPast
      <4>5. published
        BY <4>2, <4>4 DEF published
      <4>6. \E k \in 1..Len(monthJobs') : m \in monthJobs'[k].begin..monthJobs'[k].end
        BY <1>6, <1>9, <4>3, <4>5
      <4> QED BY <4>6 DEF MonthQueued
    <3> QED BY <1>4, <3>1, <3>2, <3>3, <3>4
  <2> QED BY <2>1, <2>2, <2>3, <2>4 DEF MonthsAreQueued
<1> QED BY <1>10, <1>11, <1>12 DEF ClimInv

LEMMA ExitStep ==
  ASSUME ClimInv, MinmaxDaemonExits
  PROVE  ClimInv'
<1>0. ClimTypes /\ RowsFollow /\ MonthsAreQueued
  BY DEF ClimInv
<1>1. /\ running' = Idle
      /\ UNCHANGED <<today, observed, daily, stale, monthly, monthJobs, news>>
  BY DEF MinmaxDaemonExits
<1>2. PICK b, e :
        /\ unsure' = unsure \cup b..e /\ turned' = turned \ Over(b, e)
        /\ \/ running # Idle /\ b = running.begin /\ e = running.end /\ jobs' = jobs
           \/ /\ running = Idle /\ jobs # <<>> /\ jobs' = Tail(jobs)
              /\ b = Head(jobs).begin /\ e = Head(jobs).end
  <2>1. CASE running # Idle /\ jobs' = jobs /\ LoseJob(running)
    BY <2>1 DEF LoseJob
  <2>2. CASE running = Idle /\ jobs # <<>> /\ jobs' = Tail(jobs) /\ LoseJob(jobs[1])
    <3>1. Head(jobs) = jobs[1]
      BY <1>0, <2>2, TakenFromJobs
    <3> QED BY <2>2, <3>1 DEF LoseJob
  <2> QED BY <2>1, <2>2 DEF MinmaxDaemonExits
<1>3. (jobs \in Seq(JobSet))' /\ \A d : Queued(d) => d \in unsure' \/ Queued(d)'
  <2>1. CASE jobs' = jobs
    BY <1>0, <2>1 DEF ClimTypes, JobSet, Days, Queued
  <2>2. CASE jobs # <<>> /\ jobs' = Tail(jobs) /\ b = Head(jobs).begin /\ e = Head(jobs).end
    BY <1>0, <1>2, <2>2, TakenFromJobs
  <2> QED BY <1>2, <2>1, <2>2
<1>4. ClimTypes'
  BY <1>0, <1>1, <1>3 DEF ClimTypes, Observes, IsRows, Value, Idle, Days
<1>5. RowsFollow'
  BY <1>0, <1>1, <1>2, <1>3, RowsStay
<1>6. MonthsAreQueued'
  <2>1. /\ turned \subseteq Nat /\ \A m \in turned : m < Month(today)
        /\ \A m \in turned : MonthComputed(m) \/ BeingComputed(m) \/ MonthQueued(m)
    BY <1>0 DEF MonthsAreQueued
  <2>2. turned' \subseteq Nat /\ \A m \in turned' : m < Month(today)'
    BY <1>1, <1>2, <2>1 DEF Month
  <2>3. (running.state = "computed" => running.begin..running.end \subseteq DOMAIN daily)'
    BY <1>1 DEF Idle
  <2>4. \A i \in 1..Len(monthJobs') : \A m \in monthJobs'[i].begin..monthJobs'[i].end : HasRow(m)'
    BY <1>0, <1>1, RowsRemain
  <2>5. ASSUME NEW m \in turned' PROVE MonthComputed(m)' \/ BeingComputed(m)' \/ MonthQueued(m)'
    <3>1. m \in turned /\ ~BeingComputed(m)
      BY <1>2 DEF BeingComputed
    <3>2. MonthComputed(m) => MonthComputed(m)'
      BY <1>1, MonthKept
    <3>3. MonthQueued(m) => MonthQueued(m)'
      BY <1>1 DEF MonthQueued
    <3> QED BY <2>1, <3>1, <3>2, <3>3
  <2> QED BY <2>2, <2>3, <2>4, <2>5 DEF MonthsAreQueued
<1> QED BY <1>4, <1>5, <1>6 DEF ClimInv

LEMMA MonthsOfJob ==
  ASSUME NEW begin \in Int, NEW end \in Int, NEW fault, daily' = daily,
         monthly' = ComputeMonthMinmax(begin, end, fault), NEW m
  PROVE  /\ MonthComputed(m) => MonthComputed(m)'
         /\ m \in begin..end /\ (\A j \in begin..m : HasRow(j) /\ j # fault) => MonthComputed(m)'
<1> DEFINE months == {k \in begin..end : DaysOf(k) \cap DOMAIN daily # {} /\ k # fault}
           computed == {k \in months : begin..k \subseteq months}
<1>1. /\ DOMAIN monthly' = DOMAIN monthly \cup computed
      /\ \A k \in DOMAIN monthly' :
            monthly'[k] = IF k \in computed THEN RainOfMonth(k) ELSE monthly[k]
  BY DEF ComputeMonthMinmax
<1>2. ASSUME m \in begin..end, \A j \in begin..m : HasRow(j) /\ j # fault
      PROVE  m \in computed
  <2>1. \A j \in begin..m : j \in months
    BY <1>2 DEF HasRow
  <2>2. m \in begin..m
    BY <1>2
  <2> QED BY <2>1, <2>2
<1> HIDE DEF computed
<1>3. RainOfMonth(m)' = RainOfMonth(m)
  BY DEF RainOfMonth, DaysOf, Days, Month
<1>4. MonthComputed(m) \/ m \in computed => MonthComputed(m)'
  BY <1>1, <1>3 DEF MonthComputed
<1> QED BY <1>2, <1>4

LEMMA MonthJobStep ==
  ASSUME ClimInv, ProcessMonthJob
  PROVE  ClimInv'
<1> DEFINE S == [begin : Nat \ {0}, end : Nat]
<1>0. ClimTypes /\ RowsFollow /\ MonthsAreQueued
  BY DEF ClimInv
<1>1. /\ monthJobs # <<>> /\ monthJobs' = Tail(monthJobs)
      /\ UNCHANGED <<today, observed, daily, stale, jobs, running, unsure, news>>
  BY DEF ProcessMonthJob
<1>2. PICK b, e, fault :
        /\ b = Head(monthJobs).begin /\ e = Head(monthJobs).end
        /\ fault \in {0} \cup b..e
        /\ monthly' = ComputeMonthMinmax(b, e, fault)
        /\ turned' = IF fault = 0 THEN turned ELSE turned \ (fault..e)
  BY DEF ProcessMonthJob
<1>3. monthJobs \in Seq(S)
  BY <1>0 DEF ClimTypes
<1>4. \A j \in S : j.begin \in Nat \ {0} /\ j.end \in Nat
  OBVIOUS
<1> HIDE DEF S
<1>5. /\ Tail(monthJobs) \in Seq(S) /\ Head(monthJobs) \in S
      /\ Head(monthJobs) = monthJobs[1] /\ 1 \in 1..Len(monthJobs)
      /\ \A i \in 1..Len(monthJobs) :
            i = 1 \/ (i - 1 \in 1..Len(Tail(monthJobs)) /\ Tail(monthJobs)[i - 1] = monthJobs[i])
      /\ \A i \in 1..Len(Tail(monthJobs)) :
            i + 1 \in 1..Len(monthJobs) /\ Tail(monthJobs)[i] = monthJobs[i + 1]
  BY <1>1, <1>3, JobTaken
<1>6. b \in Nat \ {0} /\ e \in Nat
  BY <1>2, <1>4, <1>5
<1>7. /\ turned \subseteq Nat /\ \A m \in turned : m < Month(today)
      /\ running.state = "computed" => running.begin..running.end \subseteq DOMAIN daily
      /\ \A i \in 1..Len(monthJobs) : \A m \in monthJobs[i].begin..monthJobs[i].end : HasRow(m)
      /\ \A m \in turned : MonthComputed(m) \/ BeingComputed(m) \/ MonthQueued(m)
  BY <1>0 DEF MonthsAreQueued
<1>8. ClimTypes'
  BY <1>0, <1>1, <1>5 DEF ClimTypes, Observes, IsRows, Value, JobSet, Days, Idle, S
<1>9. RowsFollow'
  <2>1. \A d : Queued(d) => Queued(d)'
    BY <1>1 DEF Queued
  <2> QED BY <1>0, <1>1, <2>1, RowsStay
<1>10. MonthsAreQueued'
  <2>1. turned' \subseteq Nat /\ \A m \in turned' : m < Month(today)'
    BY <1>1, <1>2, <1>7 DEF Month
  <2>2. (running.state = "computed" => running.begin..running.end \subseteq DOMAIN daily)'
    BY <1>1, <1>7
  <2>3. ASSUME NEW i \in 1..Len(monthJobs'), NEW m \in monthJobs'[i].begin..monthJobs'[i].end
        PROVE  HasRow(m)'
    <3>1. HasRow(m)
      BY <1>1, <1>5, <1>7, <2>3
    <3> QED BY <1>1, <3>1 DEF HasRow, DaysOf, Days, Month
  <2>4. ASSUME NEW m \in turned' PROVE MonthComputed(m)' \/ BeingComputed(m)' \/ MonthQueued(m)'
    <3>1. m \in turned /\ m \in Nat /\ (fault # 0 => m \notin fault..e)
      BY <1>2, <1>7
    <3>2. /\ MonthComputed(m) => MonthComputed(m)'
          /\ m \in b..e /\ (\A j \in b..m : HasRow(j) /\ j # fault) => MonthComputed(m)'
      BY <1>1, <1>2, <1>6, MonthsOfJob
    <3>3. BeingComputed(m) => BeingComputed(m)'
      BY <1>1 DEF BeingComputed, Over, Month, Idle
    <3>4. ASSUME MonthQueued(m) PROVE MonthComputed(m)' \/ MonthQueued(m)'
      <4>1. PICK i \in 1..Len(monthJobs) : m \in monthJobs[i].begin..monthJobs[i].end
        BY <3>4 DEF MonthQueued
      <4>2. CASE i = 1
        <5>1. m \in b..e /\ \A j \in b..e : HasRow(j)
          BY <1>2, <1>5, <1>7, <4>1, <4>2
        <5>2. \A j \in b..m : j \in b..e /\ j # fault
          BY <1>2, <1>6, <3>1, <5>1
        <5> QED BY <3>2, <5>1, <5>2
      <4>3. CASE i # 1
        <5>1. i - 1 \in 1..Len(monthJobs') /\ monthJobs'[i - 1] = monthJobs[i]
          BY <1>1, <1>5, <4>3
        <5>2. \E k \in 1..Len(monthJobs') : m \in monthJobs'[k].begin..monthJobs'[k].end
          BY <4>1, <5>1
        <5> QED BY <5>2 DEF MonthQueued
      <4> QED BY <4>2, <4>3
    <3> QED BY <1>7, <3>1, <3>2, <3>3, <3>4
  <2> QED BY <2>1, <2>2, <2>3, <2>4 DEF MonthsAreQueued
<1> QED BY <1>8, <1>9, <1>10 DEF ClimInv

LEMMA MonthToolStep ==
  ASSUME ClimInv, MonthMinmaxTool
  PROVE  ClimInv'
<1>0. ClimTypes /\ RowsFollow /\ MonthsAreQueued
  BY DEF ClimInv
<1>1. UNCHANGED <<today, observed, daily, stale, jobs, monthJobs, running, turned, unsure, news>>
  BY DEF MonthMinmaxTool
<1>2. PICK b \in 1..Month(LastDay), e \in 1..Month(LastDay) :
        monthly' = ComputeMonthMinmax(b, e, 0)
  BY DEF MonthMinmaxTool
<1>3. b \in Int /\ e \in Int
  OBVIOUS
<1>4. ClimTypes'
  BY <1>0, <1>1 DEF ClimTypes, Observes, IsRows, Value, JobSet, Days, Idle
<1>5. RowsFollow'
  <2>1. \A d : Queued(d) => Queued(d)'
    BY <1>1 DEF Queued
  <2> QED BY <1>0, <1>1, <2>1, RowsStay
<1>6. MonthsAreQueued'
  <2>1. \A m \in turned : MonthComputed(m) => MonthComputed(m)'
    BY <1>1, <1>2, <1>3, MonthsOfJob
  <2>2. \A m : BeingComputed(m) => BeingComputed(m)'
    BY <1>1 DEF BeingComputed, Over, Month, Idle
  <2>3. \A m : MonthQueued(m) => MonthQueued(m)'
    BY <1>1 DEF MonthQueued
  <2>4. \A i \in 1..Len(monthJobs') : \A m \in monthJobs'[i].begin..monthJobs'[i].end : HasRow(m)'
    BY <1>0, <1>1, RowsRemain
  <2>5. turned' \subseteq Nat /\ \A m \in turned' : m < Month(today)'
    BY <1>0, <1>1 DEF Month, MonthsAreQueued
  <2> QED BY <1>0, <1>1, <2>1, <2>2, <2>3, <2>4, <2>5 DEF MonthsAreQueued
<1> QED BY <1>4, <1>5, <1>6 DEF ClimInv

LEMMA NextDayStep ==
  ASSUME ClimInv, NextDay
  PROVE  ClimInv'
<1>0. ClimTypes /\ RowsFollow /\ MonthsAreQueued
  BY DEF ClimInv
<1>1. /\ today' = today + 1
      /\ UNCHANGED <<observed, daily, stale, monthly, jobs, monthJobs, running, turned, unsure, news>>
  BY DEF NextDay
<1>2. today \in Nat /\ today' \in Nat /\ today <= today'
  BY <1>0, <1>1 DEF ClimTypes
<1>3. Month(today)' = Month(today')
  BY DEF Month
<1>4. Month(today) \in Int /\ Month(today') \in Int /\ Month(today) <= Month(today')
  <2>1. \A n \in Nat : today <= n => Month(today) \in Int /\ Month(n) \in Int /\ Month(today) <= Month(n)
    BY <1>2, DaysAndMonths, MonthsInOrder
  <2> QED BY <1>2, <2>1
<1>5. ClimTypes'
  BY <1>0, <1>1, <1>2 DEF ClimTypes, Observes, IsRows, Value, JobSet, Days, Idle
<1>6. RowsFollow'
  <2>1. \A d : Queued(d) => Queued(d)'
    BY <1>1 DEF Queued
  <2> QED BY <1>0, <1>1, <2>1, RowsStay
<1>7. MonthsAreQueued'
  <2>1. \A m \in turned : MonthComputed(m) => MonthComputed(m)'
    BY <1>1, MonthKept
  <2>2. ASSUME NEW m, BeingComputed(m) PROVE BeingComputed(m)'
    <3>1. running # Idle /\ running.begin \in Days /\ running.end \in Days
      BY <1>0, <2>2 DEF BeingComputed, ClimTypes
    <3>2. m \in Over(running.begin, running.end)
      BY <2>2 DEF BeingComputed
    <3>3. m \in Month(running.begin)..Month(running.end) /\ m < Month(today) /\ m \in Nat
      BY <3>1, <3>2, OverOrder
    <3>4. m < Month(today')
      BY <1>4, <3>3
    <3>5. (m \in Over(running.begin, running.end))'
      BY <1>1, <3>3, <3>4 DEF Over, Month
    <3> QED BY <1>1, <3>1, <3>5 DEF BeingComputed, Idle
  <2>3. \A m : MonthQueued(m) => MonthQueued(m)'
    BY <1>1 DEF MonthQueued
  <2>4. \A i \in 1..Len(monthJobs') : \A m \in monthJobs'[i].begin..monthJobs'[i].end : HasRow(m)'
    BY <1>0, <1>1, RowsRemain
  <2>5. turned' \subseteq Nat /\ \A m \in turned' : m < Month(today)'
    <3>1. turned \subseteq Nat /\ \A m \in turned : m < Month(today)
      BY <1>0 DEF MonthsAreQueued
    <3> QED BY <1>1, <1>3, <1>4, <3>1
  <2> QED BY <1>0, <1>1, <2>1, <2>2, <2>3, <2>4, <2>5 DEF MonthsAreQueued
<1> QED BY <1>5, <1>6, <1>7 DEF ClimInv

LEMMA LesserOfTwo ==
  ASSUME NEW a \in Int, NEW b \in Int
  PROVE  Min({a, b}) = IF a <= b THEN a ELSE b
BY DEF Min

LEMMA PublishStep ==
  ASSUME ClimInv, PublishJob
  PROVE  ClimInv'
<1>0. ClimTypes /\ RowsFollow /\ MonthsAreQueued
  BY DEF ClimInv
<1>1. /\ news' = news + 1
      /\ UNCHANGED <<today, daily, stale, monthly, monthJobs, running, turned, unsure>>
  BY DEF PublishJob
<1>2. PICK b, e, l :
        /\ b \in Days /\ e \in Days /\ l \in {e, Min({today, LastDay})}
        /\ b <= e /\ e <= today
        /\ observed' = [d \in DOMAIN observed \cup b..e |->
                            IF d \in b..e THEN news + 1 ELSE observed[d]]
        /\ jobs' = Append(jobs, [begin |-> b, end |-> l])
  BY DEF PublishJob
<1>3. l \in Days /\ e <= l /\ b <= l /\ today \in Nat /\ news \in Nat
  <2>1. today \in Nat /\ LastDay \in Nat /\ news \in Nat
    BY <1>0, ClimatologyAssumption DEF ClimTypes
  <2>2. Min({today, LastDay}) = IF today <= LastDay THEN today ELSE LastDay
    BY <2>1, LesserOfTwo
  <2>3. b \in 1..LastDay /\ e \in 1..LastDay /\ b <= e /\ e <= today
        /\ (l = e \/ l = Min({today, LastDay}))
    BY <1>2 DEF Days
  <2> QED BY <2>1, <2>2, <2>3 DEF Days
<1>4. /\ (jobs \in Seq(JobSet))'
      /\ \A d : Queued(d) \/ d \in b..l => Queued(d)'
  BY <1>0, <1>2, <1>3, AddedToJobs
<1>5. /\ DOMAIN observed \subseteq DOMAIN observed' /\ DOMAIN observed' \subseteq Days
      /\ \A d \in DOMAIN observed' : observed'[d] \in Int
      /\ \A d \in DOMAIN observed : d \in b..e \/ observed'[d] = observed[d]
  <2>1. DOMAIN observed \subseteq Days /\ \A d \in DOMAIN observed : observed[d] \in Int
    BY <1>0 DEF ClimTypes, Observes
  <2>2. b..e \subseteq Days
    BY <1>2, ClimatologyAssumption DEF Days
  <2>3. news + 1 \in Int
    BY <1>3
  <2> QED BY <1>2, <2>1, <2>2, <2>3
<1>6. ClimTypes'
  BY <1>0, <1>1, <1>3, <1>4, <1>5 DEF ClimTypes, Observes, IsRows, Value, Days, Idle
<1>7. RowsFollow'
  <2>1. Follow(daily, stale, unsure)'
    BY <1>0, <1>1 DEF RowsFollow, Follow, FollowsYear, FollowsMonth
  <2>2. ASSUME NEW d \in (DOMAIN daily)', d \notin unsure'
        PROVE  daily'[d].rain = observed'[d] \/ Queued(d)'
    <3>1. d \in DOMAIN daily /\ d \in DOMAIN observed /\ (daily[d].rain = observed[d] \/ Queued(d))
      BY <1>0, <1>1, <2>2 DEF RowsFollow, ClimTypes, IsRows
    <3>2. d \in b..e => d \in b..l
      BY <1>2, <1>3, ClimatologyAssumption DEF Days
    <3> QED BY <1>1, <1>4, <1>5, <3>1, <3>2
  <2> QED BY <2>1, <2>2 DEF RowsFollow
<1>8. MonthsAreQueued'
  <2>1. \A m \in turned : MonthComputed(m) => MonthComputed(m)'
    BY <1>1, MonthKept
  <2>2. \A m : BeingComputed(m) => BeingComputed(m)'
    BY <1>1 DEF BeingComputed, Over, Month, Idle
  <2>3. \A m : MonthQueued(m) => MonthQueued(m)'
    BY <1>1 DEF MonthQueued
  <2>4. \A i \in 1..Len(monthJobs') : \A m \in monthJobs'[i].begin..monthJobs'[i].end : HasRow(m)'
    BY <1>0, <1>1, RowsRemain
  <2>5. turned' \subseteq Nat /\ \A m \in turned' : m < Month(today)'
    BY <1>0, <1>1 DEF Month, MonthsAreQueued
  <2> QED BY <1>0, <1>1, <2>1, <2>2, <2>3, <2>4, <2>5 DEF MonthsAreQueued
<1> QED BY <1>6, <1>7, <1>8 DEF ClimInv

LEMMA ClimStarts ==
  ASSUME ClimInit \/ ClimIdle
  PROVE  ClimInv
<1>1. /\ today \in Nat /\ news \in Nat /\ running = Idle
      /\ observed = <<>> /\ daily = <<>> /\ jobs = <<>> /\ monthJobs = <<>> /\ turned = {}
  BY DEF ClimInit, ClimIdle
<1>2. DOMAIN observed = {} /\ DOMAIN daily = {} /\ Len(jobs) = 0 /\ Len(monthJobs) = 0
  BY <1>1
<1>3. ClimTypes
  BY <1>1, <1>2 DEF ClimTypes, Observes, IsRows
<1>4. RowsFollow
  BY <1>2 DEF RowsFollow, Follow
<1>5. MonthsAreQueued
  <2>1. running.state # "computed"
    BY <1>1 DEF Idle
  <2> QED BY <1>1, <1>2, <2>1 DEF MonthsAreQueued
<1> QED BY <1>3, <1>4, <1>5 DEF ClimInv

LEMMA ClimUnchanged ==
  ASSUME ClimInv, UNCHANGED climVars
  PROVE  ClimInv'
<1>0. ClimTypes /\ RowsFollow /\ MonthsAreQueued
  BY DEF ClimInv
<1>1. UNCHANGED <<today, observed, daily, stale, monthly, jobs, monthJobs, running, turned, unsure, news>>
  BY DEF climVars
<1>2. ClimTypes'
  BY <1>0, <1>1 DEF ClimTypes, Observes, IsRows, Value, JobSet, Days, Idle
<1>3. RowsFollow'
  <2>1. \A d : Queued(d) => Queued(d)'
    BY <1>1 DEF Queued
  <2> QED BY <1>0, <1>1, <2>1, RowsStay
<1>4. MonthsAreQueued'
  <2>1. \A m \in turned : MonthComputed(m) => MonthComputed(m)'
    BY <1>1, MonthKept
  <2>2. \A m : BeingComputed(m) => BeingComputed(m)'
    BY <1>1 DEF BeingComputed, Over, Month, Idle
  <2>3. \A m : MonthQueued(m) => MonthQueued(m)'
    BY <1>1 DEF MonthQueued
  <2>4. \A i \in 1..Len(monthJobs') : \A m \in monthJobs'[i].begin..monthJobs'[i].end : HasRow(m)'
    BY <1>0, <1>1, RowsRemain
  <2>5. turned' \subseteq Nat /\ \A m \in turned' : m < Month(today)'
    BY <1>0, <1>1 DEF Month, MonthsAreQueued
  <2> QED BY <1>0, <1>1, <2>1, <2>2, <2>3, <2>4, <2>5 DEF MonthsAreQueued
<1> QED BY <1>2, <1>3, <1>4 DEF ClimInv

-----------------------------------------------------------------------------
(* The climatology: what the sums are                                       *)

\* The rows that follow from one another hold the sums.
LEMMA YearIsSum ==
  ASSUME ClimTypes, RowsFollow, jobs = <<>>, NEW d \in Days, Ordered(d), 1..d \cap unsure = {},
         NEW v \in [Nat -> Int], v[0] = 0, \A k \in 1..d : v[k] = observed[k],
         NEW n \in 1..d
  PROVE  daily[n].year = SumTo(v, n)
<1> DEFINE S == {k \in Nat : k \in 1..d => daily[k].year = SumTo(v, k)}
<1>1. d \in Nat /\ d >= 1
  BY ClimatologyAssumption DEF Days
<1>2. \A k \in 1..d : k \in DOMAIN daily /\ k \notin stale /\ k \notin unsure /\ k \in DOMAIN observed
  BY DEF Ordered, ClimTypes, IsRows
<1>3. \A k \in 1..d : daily[k].rain = v[k]
  <2>1. \A k : ~Queued(k)
    BY DEF Queued
  <2> QED BY <1>2, <2>1 DEF RowsFollow
<1>4. \A k \in 1..d : FollowsYear(daily, stale, k)
  BY <1>2 DEF RowsFollow, Follow
<1>5. ASSUME NEW k \in Nat, \A i \in 0..(k - 1) : i \in S
      PROVE  k \in S
  <2> SUFFICES ASSUME k \in 1..d PROVE daily[k].year = SumTo(v, k)
    OBVIOUS
  <2>1. k - 1 \in Nat /\ (k - 1) + 1 = k /\ k - 1 \in 0..(k - 1)
    OBVIOUS
  <2>2. SumTo(v, k) = SumTo(v, k - 1) + v[k] /\ SumTo(v, k - 1) \in Int /\ v[k] \in Int
    BY <2>1, SumDefinition
  <2>3. CASE k = 1
    <3>1. daily[k].year = v[k]
      BY <1>3, <1>4, <2>3 DEF FollowsYear
    <3>2. SumTo(v, 0) = 0
      BY SumDefinition
    <3> QED BY <2>2, <2>3, <3>1, <3>2
  <2>4. CASE k # 1
    <3>1. k - 1 \in 1..d /\ k - 1 \in S
      BY <1>1, <1>5, <2>1, <2>4
    <3>2. daily[k - 1].year = SumTo(v, k - 1)
      BY <3>1
    <3>3. daily[k].year = Plus(v[k], SumTo(v, k - 1))
      BY <1>2, <1>3, <1>4, <2>4, <3>1, <3>2 DEF FollowsYear
    <3>4. Plus(v[k], SumTo(v, k - 1)) = v[k] + SumTo(v, k - 1)
      BY <2>2, ClimatologyAssumption DEF Plus
    <3> QED BY <2>2, <3>3, <3>4
  <2> QED BY <2>3, <2>4
<1>6. Nat \subseteq S
  <2> HIDE DEF S
  <2> QED BY <1>5, NoFirstFailure
<1> QED BY <1>1, <1>6

LEMMA SumsFollow ==
  ASSUME ClimTypes, RowsFollow, jobs = <<>>, NEW d \in Days, Ordered(d), 1..d \cap unsure = {}
  PROVE  /\ daily[d].year = RainOver(1..d)
         /\ daily[d].month = RainOver((BeginningOfMonth(d) + 1)..d)
<1> DEFINE v == [k \in Nat |-> IF k \in 1..d THEN observed[k] ELSE 0]
           b == BeginningOfMonth(d)
           w == [k \in Nat |-> IF k \in (b + 1)..d THEN observed[k] ELSE 0]
<1>1. d \in Nat /\ d >= 1 /\ d <= LastDay /\ LastDay \in Nat
  BY ClimatologyAssumption DEF Days
<1>2. Month(d) \in Int /\ Month(d) >= 1 /\ b \in 0..(d - 1) /\ (Month(d) = 1 <=> b = 0)
  BY <1>1, DaysAndMonths
<1> HIDE DEF b
<1>3. v \in [Nat -> Int] /\ w \in [Nat -> Int]
  <2>1. \A k \in 1..d : observed[k] \in Int
    BY DEF Ordered, ClimTypes, IsRows, Observes
  <2>2. \A k \in (b + 1)..d : observed[k] \in Int
    BY <1>1, <1>2, <2>1
  <2> QED BY <2>1, <2>2
<1>4. /\ v[0] = 0 /\ \A k \in 1..d : v[k] = observed[k]
      /\ \A k \in 0..b : w[k] = 0
      /\ \A k \in (b + 1)..d : w[k] = v[k]
      /\ \A k \in (d + 1)..LastDay : w[k] = 0 /\ v[k] = 0
  BY <1>1, <1>2
<1>5. RainOver(1..d) = SumTo(v, LastDay) /\ RainOver((b + 1)..d) = SumTo(w, LastDay)
  BY DEF RainOver
<1> HIDE DEF v, w
<1>6. SumTo(v, LastDay) = SumTo(v, d) /\ SumTo(w, LastDay) = SumTo(w, d)
  BY <1>1, <1>3, <1>4, SumStays
<1>7. SumTo(w, d) = SumTo(v, d) - SumTo(v, b)
  <2>1. b \in Nat /\ b <= d /\ d \in Nat
    BY <1>1, <1>2
  <2> QED BY <1>3, <1>4, <2>1, SumSince
<1>8. \A n \in 1..d : daily[n].year = SumTo(v, n)
  BY <1>3, <1>4, YearIsSum
<1>9. daily[d].year = SumTo(v, d)
  BY <1>1, <1>8
<1>10. daily[d].month = SumTo(w, d)
  <2>1. FollowsMonth(daily, stale, d) /\ MonthSoFar(d) \subseteq DOMAIN daily \ stale
    <3>1. 1..d \subseteq DOMAIN daily \ stale
      BY DEF Ordered
    <3>2. MonthSoFar(d) \subseteq 1..d /\ d \in 1..d
      BY <1>1, <1>2 DEF MonthSoFar, b
    <3> QED BY <3>1, <3>2 DEF RowsFollow, Follow
  <2>2. CASE Month(d) = 1
    <3>1. daily[d].month = daily[d].year
      BY <2>1, <2>2 DEF FollowsMonth
    <3>2. b = 0 /\ SumTo(v, 0) = 0 /\ SumTo(v, d) \in Int
      BY <1>1, <1>2, <1>3, <1>4, <2>2, SumDefinition
    <3> QED BY <1>7, <1>9, <3>1, <3>2
  <2>3. CASE Month(d) # 1
    <3>1. b \in 1..d /\ b \in DOMAIN daily /\ Month(d) > 1
      BY <1>1, <1>2, <2>3 DEF Ordered
    <3>2. daily[d].month = Minus(daily[d].year, daily[b].year)
      BY <2>1, <3>1 DEF FollowsMonth, b
    <3>3. daily[b].year = SumTo(v, b)
      BY <1>8, <3>1
    <3>4. SumTo(v, d) \in Int /\ SumTo(v, b) \in Int
      <4>1. b \in Nat /\ d \in Nat
        BY <1>1, <3>1
      <4> QED BY <1>3, <4>1, SumDefinition
    <3>5. Minus(SumTo(v, d), SumTo(v, b)) = SumTo(v, d) - SumTo(v, b)
      BY <3>4, ClimatologyAssumption DEF Minus
    <3> QED BY <1>7, <1>9, <3>2, <3>3, <3>5
  <2> QED BY <2>2, <2>3
<1> QED BY <1>5, <1>6, <1>9, <1>10 DEF b

LEMMA ClimatologyHolds ==
  ASSUME ClimInv
  PROVE  ClimatologyFollows
<1>0. ClimTypes /\ RowsFollow /\ MonthsAreQueued
  BY DEF ClimInv
<1>1. SumsAreRight
  <2> SUFFICES ASSUME jobs = <<>>, NEW d \in DOMAIN daily, d \notin unsure
               PROVE  /\ daily[d].rain = observed[d]
                      /\ Ordered(d) /\ 1..d \cap unsure = {} =>
                          /\ daily[d].year = RainOver(1..d)
                          /\ daily[d].month = RainOver((BeginningOfMonth(d) + 1)..d)
    BY DEF SumsAreRight
  <2>1. ~Queued(d)
    BY DEF Queued
  <2>2. d \in Days
    BY <1>0 DEF ClimTypes, Observes, IsRows
  <2> QED BY <1>0, <2>1, <2>2, SumsFollow DEF RowsFollow
<1>2. MonthsFollow
  <2> SUFFICES ASSUME running = Idle, monthJobs = <<>>, NEW m \in turned
               PROVE  MonthComputed(m)
    BY DEF MonthsFollow, MonthComputed
  <2>1. ~BeingComputed(m) /\ ~MonthQueued(m)
    BY DEF BeingComputed, MonthQueued
  <2> QED BY <1>0, <2>1 DEF MonthsAreQueued
<1> QED BY <1>1, <1>2 DEF ClimatologyFollows

\* The rows of the days and of the months follow the observations, whatever the order
\* these, the jobs, the tools and the failures come in: for any length of the months and
\* of the year, and number of observations, jobs, failures and runs of the tools.
THEOREM ClimatologyFollowsObservations == Spec => []ClimatologyFollows
<1>1. Init => ClimInv
  BY ClimStarts DEF Init
<1>2. ClimInv /\ [Next]_<<rainVars, rainFileVars, climVars>> => ClimInv'
  <2> SUFFICES ASSUME ClimInv, [Next]_<<rainVars, rainFileVars, climVars>> PROVE ClimInv'
    OBVIOUS
  <2>1. CASE ClimNext
    BY <2>1, NextDayStep, PublishStep, MinmaxToolStep, MonthToolStep, ProcessJobStep, MarkStep,
       ExitStep, MonthJobStep DEF ClimNext
  <2>2. CASE UNCHANGED climVars
    BY <2>2, ClimUnchanged
  <2> QED BY <2>1, <2>2 DEF Next
<1>3. ClimInv => ClimatologyFollows
  BY ClimatologyHolds
<1> QED BY <1>1, <1>2, <1>3, PTL DEF Spec
=============================================================================
