------------------------------ MODULE DateProofs ------------------------------
(***************************************************************************)
(* Dates.                                                                  *)
(***************************************************************************)
EXTENDS SimulationDates, TLAPS

(***************************************************************************)
(* Time points are the whole numbers.                                      *)
(***************************************************************************)
Nanos(t) == (t.day * MsOfDay + t.ms) * NsOfMs + t.ns
Half == Nanos(Top)

LEMMA Units == MsOfDay = 86400000 /\ MsOfHour = 3600000 /\ MsOfMinute = 60000
               /\ MsOfSecond = 1000 /\ NsOfMs = 1000000 /\ SecondsOfDay = 86400
BY SMT DEF SecondsOfDay, MsOfDay, MsOfHour, MsOfMinute, MsOfSecond, NsOfMs

LEMMA UnitsTyped == MsOfDay \in Int /\ NsOfMs \in Int /\ 0 < MsOfDay /\ 0 < NsOfMs
BY SMT, Units

(* The literal bounds of an interval are best kept from the provers, which  *)
(* would enumerate it.                                                      *)
LEMMA TimesTyped ==
  ASSUME NEW t \in Times
  PROVE  /\ t.day \in Int /\ t.ms \in Int /\ t.ns \in Int
         /\ 0 <= t.ms /\ t.ms < MsOfDay /\ 0 <= t.ns /\ t.ns < NsOfMs
         /\ t = [day |-> t.day, ms |-> t.ms, ns |-> t.ns]
         /\ Nanos(t) \in Int
BY UnitsTyped DEF Times, Nanos

LEMMA TimesMade ==
  ASSUME NEW d \in Int, NEW m \in Int, NEW n \in Int,
         0 <= m, m < MsOfDay, 0 <= n, n < NsOfMs
  PROVE  [day |-> d, ms |-> m, ns |-> n] \in Times
BY UnitsTyped DEF Times

LEMMA NormalNanos ==
  ASSUME NEW d \in Int, NEW m \in Int, NEW n \in Int
  PROVE  /\ Normal(d, m, n) \in Times
         /\ Nanos(Normal(d, m, n)) = (d * MsOfDay + m) * NsOfMs + n
<1> DEFINE c == m + n \div NsOfMs
           q == c \div MsOfDay
           r == c % MsOfDay
           e == n % NsOfMs
<1>1. /\ c \in Int /\ e \in Int /\ 0 <= e /\ e < NsOfMs
      /\ c * NsOfMs + e = m * NsOfMs + n
  BY SMT, Units
<1> HIDE DEF c
<1>2. /\ q \in Int /\ r \in Int /\ 0 <= r /\ r < MsOfDay /\ c = q * MsOfDay + r
  BY SMT, Units, <1>1
<1> USE DEF c
<1>3. Normal(d, m, n) = [day |-> d + q, ms |-> r, ns |-> e]
  BY Zenon DEF Normal
<1> HIDE DEF c, q, r, e
<1>4. Normal(d, m, n) \in Times
  BY <1>1, <1>2, <1>3, TimesMade
<1>5. Nanos(Normal(d, m, n)) = ((d + q) * MsOfDay + r) * NsOfMs + e
  BY <1>3 DEF Nanos
<1>6. ((d + q) * MsOfDay + r) * NsOfMs + e = (d * MsOfDay + c) * NsOfMs + e
  BY SMT, <1>1, <1>2, Units
<1>7. (d * MsOfDay + c) * NsOfMs + e = (d * MsOfDay + m) * NsOfMs + n
  BY SMT, <1>1, Units
<1> QED BY <1>4, <1>5, <1>6, <1>7

LEMMA EarlierNanos ==
  ASSUME NEW a \in Times, NEW b \in Times
  PROVE  /\ Earlier(a, b) <=> Nanos(a) < Nanos(b)
         /\ NotLater(a, b) <=> Nanos(a) <= Nanos(b)
         /\ Nanos(a) = Nanos(b) => a = b
<1>1. Earlier(a, b) <=> Nanos(a) < Nanos(b)
  BY SMT, TimesTyped, Units DEF Earlier, Nanos
<1>2. Nanos(a) = Nanos(b) => a = b
  <2> SUFFICES ASSUME Nanos(a) = Nanos(b) PROVE a = b
    OBVIOUS
  <2>1. ~Earlier(a, b) /\ ~Earlier(b, a)
    <3>1. Earlier(b, a) <=> Nanos(b) < Nanos(a)
      BY SMT, TimesTyped, Units DEF Earlier, Nanos
    <3> QED BY <1>1, <3>1, TimesTyped
  <2>2. a.day = b.day /\ a.ms = b.ms /\ a.ns = b.ns
    BY <2>1, TimesTyped DEF Earlier
  <2> QED BY <2>2, TimesTyped
<1>3. NotLater(a, b) <=> Nanos(a) <= Nanos(b)
  BY <1>1, <1>2, TimesTyped DEF NotLater
<1> QED BY <1>1, <1>2, <1>3

LEMMA TopIs == Top.day = 106751 /\ Top.ms = 85636854 /\ Top.ns = 775808
BY SMT DEF Top

LEMMA TopTyped == Top \in Times
<1>1. PICK d \in Int, m \in Int, n \in Int : d = Top.day /\ m = Top.ms /\ n = Top.ns
  BY SMT, TopIs
<1>2. 0 <= m /\ m < MsOfDay /\ 0 <= n /\ n < NsOfMs
  BY SMT, <1>1, TopIs, Units
<1>3. Top = [day |-> d, ms |-> m, ns |-> n]
  BY SMT, <1>1 DEF Top
<1> QED BY <1>2, <1>3, TimesMade

LEMMA HalfIs == Half = 9223372036854 * NsOfMs + 775808
<1>1. PICK d \in Int, m \in Int, n \in Int : d = Top.day /\ m = Top.ms /\ n = Top.ns
  BY SMT, TopIs
<1>2. Half = (d * MsOfDay + m) * NsOfMs + n
  BY <1>1 DEF Half, Nanos
<1>3. d * MsOfDay + m = 9223372036854 /\ n = 775808
  BY SMT, <1>1, TopIs, Units
<1> QED BY SMT, <1>2, <1>3

LEMMA FitsNanos ==
  ASSUME NEW t \in Times
  PROVE  Representable(t) <=> -Half <= Nanos(t) /\ Nanos(t) < Half
<1> DEFINE low == Normal(-Top.day, -Top.ms, -Top.ns)
<1>1. Top.day \in Int /\ Top.ms \in Int /\ Top.ns \in Int /\ Half \in Int
  BY TopTyped, TimesTyped DEF Half
<1>2. low \in Times /\ Nanos(low) = ((-Top.day) * MsOfDay + (-Top.ms)) * NsOfMs + (-Top.ns)
  BY <1>1, NormalNanos
<1>3. Nanos(low) = -Half
  BY <1>1, <1>2, UnitsTyped DEF Half, Nanos
<1>4. Earlier(t, Top) <=> Nanos(t) < Half
  BY TopTyped, EarlierNanos DEF Half
<1>5. NotLater(low, t) <=> Nanos(low) <= Nanos(t)
  BY <1>2, EarlierNanos
<1> QED BY <1>3, <1>4, <1>5 DEF Representable

LEMMA TurnedNanos ==
  ASSUME NEW t \in Times, NEW k \in Int
  PROVE  Turned(t, k) \in Times /\ Nanos(Turned(t, k)) = Nanos(t) + k * (2 * Half)
<1>1. Top.day \in Int /\ Top.ms \in Int /\ Top.ns \in Int
  BY TopTyped, TimesTyped
<1>2. t.day \in Int /\ t.ms \in Int /\ t.ns \in Int
  BY TimesTyped
<1>3. t.day + 2 * k * Top.day \in Int /\ t.ms + 2 * k * Top.ms \in Int /\ t.ns + 2 * k * Top.ns \in Int
  BY <1>1, <1>2
<1>4. /\ Turned(t, k) \in Times
      /\ Nanos(Turned(t, k)) = ((t.day + 2 * k * Top.day) * MsOfDay + (t.ms + 2 * k * Top.ms)) * NsOfMs
                               + (t.ns + 2 * k * Top.ns)
  BY <1>3, NormalNanos DEF Turned
<1>5. PICK d \in Int, m \in Int, n \in Int : d = t.day /\ m = t.ms /\ n = t.ns
  BY <1>2
<1>6. ((d + 2 * k * Top.day) * MsOfDay + (m + 2 * k * Top.ms)) * NsOfMs + (n + 2 * k * Top.ns)
        = ((d * MsOfDay + m) * NsOfMs + n) + k * (2 * ((Top.day * MsOfDay + Top.ms) * NsOfMs + Top.ns))
  BY SMT, <1>1, UnitsTyped
<1> QED BY <1>4, <1>5, <1>6 DEF Nanos, Half

(* A whole number of turns leads into 64 bits, and only one does.           *)
LEMMA HalfTyped == Half \in Int /\ 0 < Half
<1>1. Half \in Int
  BY TopTyped, TimesTyped DEF Half
<1>2. PICK d \in Int, m \in Int, n \in Int : d = Top.day /\ m = Top.ms /\ n = Top.ns
  BY SMT, TopIs
<1>3. 0 < d /\ 0 < m /\ 0 < n
  BY SMT, <1>2, TopIs
<1>4. 0 < (d * MsOfDay + m) * NsOfMs + n
  BY SMT, <1>3, Units
<1>5. Half = (d * MsOfDay + m) * NsOfMs + n
  BY <1>2 DEF Half, Nanos
<1> QED BY <1>1, <1>4, <1>5

LEMMA Divided ==
  ASSUME NEW n \in Int, NEW w \in Int, 0 < w
  PROVE  n \div w \in Int /\ n % w \in Int /\ n = w * (n \div w) + (n % w)
BY SMT

LEMMA Remains ==
  ASSUME NEW n \in Int, NEW w \in Int, 0 < w
  PROVE  0 <= n % w /\ n % w < w
BY SMT

LEMMA OneTurn ==
  ASSUME NEW n \in Int
  PROVE  \E k \in Int : -Half <= n + k * (2 * Half) /\ n + k * (2 * Half) < Half
<1>1. PICK h \in Int : h = Half /\ 0 < h
  BY HalfTyped
<1> DEFINE w == 2 * h
<1>2. w \in Int /\ 0 < w /\ n + h \in Int
  BY SMT, <1>1
<1> HIDE DEF w
<1>3. PICK q \in Int, r \in Int : 0 <= r /\ r < w /\ n + h = w * q + r
  <2>1. (n + h) \div w \in Int /\ (n + h) % w \in Int
        /\ n + h = w * ((n + h) \div w) + ((n + h) % w)
    BY <1>2, Divided
  <2>2. 0 <= (n + h) % w /\ (n + h) % w < w
    BY <1>2, Remains
  <2> QED BY Zenon, <2>1, <2>2
<1>4. -h <= n + (-q) * (2 * h) /\ n + (-q) * (2 * h) < h
  BY SMT, <1>1, <1>3 DEF w
<1>5. -q \in Int
  BY <1>3
<1> QED BY <1>1, <1>4, <1>5

LEMMA TurnsApart ==
  ASSUME NEW n \in Int, NEW k \in Int, NEW l \in Int,
         -Half <= n + k * (2 * Half), n + k * (2 * Half) < Half,
         -Half <= n + l * (2 * Half), n + l * (2 * Half) < Half
  PROVE  k = l
<1>1. PICK h \in Int : h = Half /\ 0 < h
  BY HalfTyped
<1>2. /\ -h <= n + k * (2 * h) /\ n + k * (2 * h) < h
      /\ -h <= n + l * (2 * h) /\ n + l * (2 * h) < h
  BY <1>1
<1>3. (k - l) * (2 * h) < 2 * h /\ (l - k) * (2 * h) < 2 * h
  BY SMT, <1>1, <1>2
<1>4. k - l < 1 /\ l - k < 1
  BY SMT, <1>1, <1>3
<1> QED BY SMT, <1>4


(* k turns of 2 * Half nanoseconds, when the whole of them are bounded. *)
LEMMA FewTurns ==
  ASSUME NEW k \in Int, NEW l \in Int, NEW w \in Int, 0 < w, 2 * ((k + l) * w) < w
  PROVE  k <= -l
<1>1. CASE k + l >= 1
  <2>1. (k + l) * w >= w
    BY SMT, <1>1
  <2> QED BY SMT, <2>1
<1>2. CASE k + l < 1
  BY SMT, <1>2
<1> QED BY SMT, <1>1, <1>2

(* 2 * Half lies between 213503 and 213504 days. *)
LEMMA TurnDays ==
  ASSUME NEW b \in Int, b = MsOfDay * NsOfMs, NEW w \in Int, w = 2 * Half
  PROVE  /\ 0 < b /\ 0 < w
         /\ 213503 * b < w /\ w < 213504 * b
<1>1. PICK d \in Int, m \in Int, n \in Int : d = Top.day /\ m = Top.ms /\ n = Top.ns
  BY SMT, TopIs
<1>2. d = 106751 /\ m = 85636854 /\ n = 775808
  BY SMT, <1>1, TopIs
<1>3. Half = (d * MsOfDay + m) * NsOfMs + n
  BY <1>1 DEF Half, Nanos
<1>4. w = 2 * ((d * MsOfDay + m) * NsOfMs + n)
  BY <1>3
<1>5. 0 < b
  BY SMT, Units
<1>6. MsOfDay < 2 * m /\ m + 1 < MsOfDay /\ 0 <= n /\ n < NsOfMs
  BY SMT, <1>2, Units
<1>7. 213503 * b < w
  <2>1. MsOfDay * NsOfMs < (2 * m) * NsOfMs
    BY SMT, <1>6, UnitsTyped
  <2> QED BY SMT, <1>2, <1>4, <1>6, <2>1, UnitsTyped
<1>8. w < 213504 * b
  <2>1. (m + 1) * NsOfMs < MsOfDay * NsOfMs
    BY SMT, <1>6, UnitsTyped
  <2> QED BY SMT, <1>2, <1>4, <1>6, <2>1, UnitsTyped
<1>9. 0 < w
  BY SMT, <1>5, <1>7
<1> QED BY <1>5, <1>7, <1>8, <1>9

LEMMA TurnsReach ==
  ASSUME NEW t \in Times, NEW k \in Int, Representable(Turned(t, k))
  PROVE  k \in Turns(t)
<1> DEFINE more == t.day \div 213503
           less == t.day \div 213504
<1> HIDE DEF more, less
<1>1. PICK d \in Int, n \in Int, b \in Int, w \in Int :
        d = t.day /\ n = Nanos(t) /\ b = MsOfDay * NsOfMs /\ w = 2 * Half
  <2> QED BY TimesTyped, UnitsTyped, HalfTyped
<1>a. PICK g \in Int, h \in Int : g = 213503 /\ h = 213504
  BY SMT
<1>2. d * b <= n /\ n < (d + 1) * b
  <2>1. PICK m \in Int, x \in Int : m = t.ms /\ x = t.ns
    BY TimesTyped
  <2>2. 0 <= m /\ m + 1 <= MsOfDay /\ 0 <= x /\ x < NsOfMs
    BY <2>1, TimesTyped, UnitsTyped
  <2>3. n = (d * MsOfDay + m) * NsOfMs + x
    BY <1>1, <2>1 DEF Nanos
  <2>4. n = d * b + (m * NsOfMs + x)
    BY SMT, <1>1, <2>3, UnitsTyped
  <2>5. 0 <= m * NsOfMs /\ (m + 1) * NsOfMs <= MsOfDay * NsOfMs
    BY SMT, <2>2, UnitsTyped
  <2>6. 0 <= m * NsOfMs + x /\ m * NsOfMs + x < b
    BY SMT, <1>1, <2>2, <2>5, UnitsTyped
  <2>7. (d + 1) * b = d * b + b
    BY SMT
  <2>8. PICK y \in Int : y = m * NsOfMs + x
    BY <2>1, UnitsTyped
  <2> QED BY SMT, <2>4, <2>6, <2>7, <2>8
<1>3. 0 < b /\ 0 < w /\ g * b < w /\ w < h * b
  BY SMT, <1>a, <1>1, TurnDays
<1>4. -w <= 2 * (n + k * w) /\ 2 * (n + k * w) < w
  <2>1. Turned(t, k) \in Times /\ Nanos(Turned(t, k)) = n + k * w
    BY <1>1, TurnedNanos
  <2>2. -Half <= n + k * w /\ n + k * w < Half
    BY <2>1, FitsNanos
  <2> QED BY SMT, <1>1, <2>2, HalfTyped
<1>5. PICK p \in Int, q \in Int : /\ p = more /\ q = less
                                  /\ g * p <= d /\ d + 1 <= g * (p + 1)
                                  /\ h * q <= d /\ d + 1 <= h * (q + 1)
  BY SMT, <1>a, <1>1 DEF more, less
<1>6. ASSUME NEW a \in Int, a * w <= n PROVE k <= -a
  <2>1. 2 * ((k + a) * w) < w
    BY SMT, <1>4, <1>6
  <2> QED BY <1>3, <2>1, FewTurns
<1>7. ASSUME NEW a \in Int, n < a * w PROVE -a <= k
  <2>1. 2 * ((-k + -a) * w) < w
    BY SMT, <1>4, <1>7
  <2>2. -k <= - -a
    <3>1. -k \in Int /\ -a \in Int
      OBVIOUS
    <3> QED BY <1>3, <2>1, <3>1, FewTurns
  <2> QED BY SMT, <2>2
<1>8. ASSUME NEW i \in Int, NEW j \in Int, i <= j PROVE i * b <= j * b
  BY SMT, <1>3, <1>8
<1>9. CASE d < 0
  <2>1. p < 0 /\ q < 0
    BY SMT, <1>a, <1>5, <1>9
  <2>2. p * w <= n
    <3>1. p * w <= p * (g * b)
      BY SMT, <1>3, <2>1
    <3>2. (g * p) * b <= d * b
      <4>1. g * p \in Int
        OBVIOUS
      <4> QED BY Zenon, <1>5, <1>8, <4>1
    <3> QED BY SMT, <1>2, <3>1, <3>2
  <2>3. n < (q + 1) * w
    <3>1. (q + 1) * (h * b) <= (q + 1) * w
      BY SMT, <1>3, <2>1
    <3>2. (d + 1) * b <= (h * (q + 1)) * b
      <4>1. d + 1 \in Int /\ h * (q + 1) \in Int
        OBVIOUS
      <4> QED BY Zenon, <1>5, <1>8, <4>1
    <3> QED BY SMT, <1>2, <3>1, <3>2
  <2>4. k <= -p /\ -(q + 1) <= k
    BY <1>6, <1>7, <2>2, <2>3
  <2>5. k \in -q - 1 .. -p + 1
    BY SMT, <2>4
  <2> QED BY SMT, <1>1, <1>5, <1>9, <2>5 DEF Turns, more, less
<1>10. CASE d >= 0
  <2>1. p >= 0 /\ q >= 0
    BY SMT, <1>a, <1>5, <1>10
  <2>2. q * w <= n
    <3>1. q * w <= q * (h * b)
      BY SMT, <1>3, <2>1
    <3>2. (h * q) * b <= d * b
      <4>1. h * q \in Int
        OBVIOUS
      <4> QED BY Zenon, <1>5, <1>8, <4>1
    <3> QED BY SMT, <1>2, <3>1, <3>2
  <2>3. n < (p + 1) * w
    <3>1. (p + 1) * (g * b) <= (p + 1) * w
      BY SMT, <1>3, <2>1
    <3>2. (d + 1) * b <= (g * (p + 1)) * b
      <4>1. d + 1 \in Int /\ g * (p + 1) \in Int
        OBVIOUS
      <4> QED BY Zenon, <1>5, <1>8, <4>1
    <3> QED BY SMT, <1>2, <3>1, <3>2
  <2>4. k <= -q /\ -(p + 1) <= k
    BY <1>6, <1>7, <2>2, <2>3
  <2>5. k \in -p - 1 .. -q + 1
    BY SMT, <2>4
  <2> QED BY SMT, <1>1, <1>5, <1>10, <2>5 DEF Turns, more, less
<1> QED BY SMT, <1>9, <1>10

(* What 64 bits make of a time point fits, and is the time point when that  *)
(* fitted.                                                                  *)
LEMMA WrapFits ==
  ASSUME NEW t \in Times
  PROVE  /\ Wrap(t) \in Times /\ Representable(Wrap(t))
         /\ Representable(t) => Wrap(t) = t
<1> DEFINE U == {Turned(t, k) : k \in Turns(t)}
<1>1. Nanos(t) \in Int
  BY TimesTyped
<1>2. PICK k \in Int : -Half <= Nanos(t) + k * (2 * Half) /\ Nanos(t) + k * (2 * Half) < Half
  BY <1>1, OneTurn
<1>3. Turned(t, k) \in Times /\ Representable(Turned(t, k))
  BY <1>2, TurnedNanos, FitsNanos
<1>4. Turned(t, k) \in U
  BY <1>3, TurnsReach
<1>5. Wrap(t) \in U /\ Representable(Wrap(t))
  <2> HIDE DEF U
  <2>1. \E u \in U : Representable(u)
    BY <1>3, <1>4
  <2>2. Wrap(t) = CHOOSE u \in U : Representable(u)
    BY Zenon DEF Wrap, U
  <2> QED BY Zenon, <2>1, <2>2
<1>6. PICK l \in Turns(t) : Wrap(t) = Turned(t, l)
  BY <1>5
<1>7. l \in Int
  <2>1. t.day \in Int
    BY TimesTyped
  <2> QED BY SMT, <1>6, <2>1 DEF Turns
<1>8. Wrap(t) \in Times
  BY <1>6, <1>7, TurnedNanos
<1>9. ASSUME Representable(t) PROVE Wrap(t) = t
  <2>1. -Half <= Nanos(t) /\ Nanos(t) < Half
    BY <1>9, FitsNanos
  <2>2. Nanos(t) + 0 * (2 * Half) = Nanos(t)
    BY <1>1, HalfTyped
  <2>3. Nanos(Wrap(t)) = Nanos(t) + l * (2 * Half)
    BY <1>6, <1>7, TurnedNanos
  <2>4. -Half <= Nanos(t) + l * (2 * Half) /\ Nanos(t) + l * (2 * Half) < Half
    BY <1>5, <1>8, <2>3, FitsNanos
  <2>5. l = 0
    BY <1>1, <1>7, <2>1, <2>2, <2>4, TurnsApart
  <2> QED BY <1>8, <2>2, <2>3, <2>5, EarlierNanos
<1> QED BY <1>5, <1>8, <1>9

(***************************************************************************)
(* Days that fit 64 bits.                                                  *)
(***************************************************************************)
LEMMA NormalIs ==
  ASSUME NEW d \in Int, NEW m \in Int, NEW n \in Int,
         0 <= m, m < MsOfDay, 0 <= n, n < NsOfMs
  PROVE  Normal(d, m, n) = [day |-> d, ms |-> m, ns |-> n]
<1> DEFINE t == [day |-> d, ms |-> m, ns |-> n]
<1>1. t \in Times
  BY TimesMade
<1>2. Nanos(t) = (d * MsOfDay + m) * NsOfMs + n
  BY DEF Nanos
<1> QED BY <1>1, <1>2, NormalNanos, EarlierNanos

LEMMA DayFits ==
  ASSUME NEW t \in Times
  PROVE  /\ -106752 < t.day /\ t.day < 106751 => Representable(t)
         /\ Representable(t) => -106752 <= t.day /\ t.day <= 106751
<1> DEFINE low == Normal(-Top.day, -Top.ms, -Top.ns)
<1>1. PICK d \in Int, m \in Int, n \in Int : d = Top.day /\ m = Top.ms /\ n = Top.ns
  BY SMT, TopIs
<1>2. /\ -n = NsOfMs * (-1) + (NsOfMs - n) /\ 0 <= NsOfMs - n /\ NsOfMs - n < NsOfMs
      /\ 0 < m + 1 /\ m + 1 < MsOfDay
  BY SMT, <1>1, TopIs, Units
<1>3. Normal(-d, -m, -n) = Normal(-d - 1, MsOfDay - m - 1, NsOfMs - n)
  <2> DEFINE a == Normal(-d, -m, -n)
             b == Normal(-d - 1, MsOfDay - m - 1, NsOfMs - n)
  <2>1. a \in Times /\ Nanos(a) = ((-d) * MsOfDay + (-m)) * NsOfMs + (-n)
    BY NormalNanos
  <2>2. -d - 1 \in Int /\ MsOfDay - m - 1 \in Int /\ NsOfMs - n \in Int
    BY UnitsTyped
  <2>3. b \in Times /\ Nanos(b) = ((-d - 1) * MsOfDay + (MsOfDay - m - 1)) * NsOfMs + (NsOfMs - n)
    BY <2>2, NormalNanos
  <2>4. ((-d) * MsOfDay + (-m)) * NsOfMs + (-n)
          = ((-d - 1) * MsOfDay + (MsOfDay - m - 1)) * NsOfMs + (NsOfMs - n)
    BY SMT, UnitsTyped
  <2> QED BY <2>1, <2>3, <2>4, EarlierNanos
<1>4. low = [day |-> -d - 1, ms |-> MsOfDay - m - 1, ns |-> NsOfMs - n]
  <2>1. /\ -d - 1 \in Int /\ MsOfDay - m - 1 \in Int /\ NsOfMs - n \in Int
        /\ 0 <= MsOfDay - m - 1 /\ MsOfDay - m - 1 < MsOfDay
        /\ 0 <= NsOfMs - n /\ NsOfMs - n < NsOfMs
    BY SMT, <1>1, <1>2, TopIs, Units
  <2> QED BY <1>1, <1>3, <2>1, NormalIs
<1>5. low.day = -d - 1
  BY <1>4
<1> HIDE DEF low
<1>6. t.day \in Int
  BY TimesTyped
<1>7. d = 106751
  BY SMT, <1>1, TopIs
<1>8. ASSUME -106752 < t.day, t.day < 106751 PROVE Representable(t)
  <2>1. low.day < t.day /\ t.day < Top.day
    BY SMT, <1>1, <1>5, <1>6, <1>7, <1>8
  <2> QED BY <2>1 DEF Representable, Earlier, NotLater, low
<1>9. ASSUME Representable(t) PROVE -106752 <= t.day /\ t.day <= 106751
  <2>1. Earlier(t, Top) /\ NotLater(low, t)
    BY <1>9 DEF Representable, low
  <2>2. t.day <= d /\ low.day <= t.day
    BY <1>1, <1>5, <1>6, <2>1 DEF Earlier, NotLater
  <2> QED BY SMT, <1>5, <1>6, <1>7, <2>2
<1> QED BY SMT, <1>8, <1>9

(***************************************************************************)
(* The calendar.                                                           *)
(***************************************************************************)
LEMMA YearLength ==
  ASSUME NEW y \in Int
  PROVE  /\ DaysBefore(y) \in Int
         /\ \/ DaysBefore(y + 1) = DaysBefore(y) + 365 /\ ~Leap(y)
            \/ DaysBefore(y + 1) = DaysBefore(y) + 366 /\ Leap(y)
BY SMT DEF DaysBefore, Leap

LEMMA YearsPass ==
  ASSUME NEW y \in Int, NEW z \in Int, y <= z
  PROVE  DaysBefore(y) <= DaysBefore(z)
BY SMT DEF DaysBefore

(* The mean year is 146097 days in 400. *)
LEMMA YearNear ==
  ASSUME NEW y \in Int
  PROVE  /\ 146097 * (y - 1970) - 600 <= 400 * DaysBefore(y)
         /\ 400 * DaysBefore(y) <= 146097 * (y - 1970) + 600
BY SMT DEF DaysBefore

(* The year of a day is unique, and within the years YearOf looks at for    *)
(* every day of 64 bits.                                                    *)
LEMMA YearUnique ==
  ASSUME NEW y \in Int, NEW z \in Int, NEW x \in Int,
         DaysBefore(y) <= x, x < DaysBefore(y + 1),
         DaysBefore(z) <= x, x < DaysBefore(z + 1)
  PROVE  y = z
<1>1. ASSUME NEW a \in Int, NEW b \in Int, a < b, DaysBefore(b) <= x PROVE ~(x < DaysBefore(a + 1))
  <2>1. a + 1 \in Int /\ a + 1 <= b
    BY <1>1
  <2>2. DaysBefore(a + 1) <= DaysBefore(b)
    BY <2>1, YearsPass
  <2> QED BY SMT, <1>1, <2>1, <2>2, YearLength
<1>2. ~(y < z) /\ ~(z < y)
  BY <1>1
<1> QED BY <1>2

LEMMA YearSought ==
  ASSUME NEW x \in Int, -106752 <= x, x <= 106751,
         NEW y \in Int, DaysBefore(y) <= x, x < DaysBefore(y + 1)
  PROVE  y \in 1968 + x \div 366 .. 1972 + x \div 365
<1>1. /\ 146097 * (y - 1970) - 600 <= 400 * x
      /\ 400 * x < 146097 * (y - 1969) + 600
  BY SMT, YearNear, YearLength
<1>2. 1968 + x \div 366 <= y /\ y <= 1972 + x \div 365
  BY SMT, <1>1
<1> QED BY SMT, <1>2

LEMMA YearExists ==
  ASSUME NEW x \in Int
  PROVE  \E y \in Int : DaysBefore(y) <= x /\ x < DaysBefore(y + 1)
<1> DEFINE g == 1970 + (400 * x) \div 146097
<1>1. g \in Int /\ 146097 * (g - 1970) <= 400 * x /\ 400 * x < 146097 * (g - 1969)
  BY SMT
<1> HIDE DEF g
<1>2. 400 * DaysBefore(g - 1) <= 400 * x /\ 400 * x < 400 * DaysBefore(g + 2)
  BY SMT, <1>1, YearNear, YearLength
<1>3. /\ g - 1 \in Int /\ g + 1 \in Int /\ g + 2 \in Int
      /\ (g - 1) + 1 = g /\ (g + 1) + 1 = g + 2
  BY SMT, <1>1
<1>4. DaysBefore(g - 1) \in Int /\ DaysBefore(g) \in Int /\ DaysBefore(g + 1) \in Int /\ DaysBefore(g + 2) \in Int
  BY <1>1, <1>3, YearLength
<1>5. DaysBefore(g - 1) <= x /\ x < DaysBefore(g + 2)
  BY SMT, <1>2, <1>4
<1>6. \/ DaysBefore(g - 1) <= x /\ x < DaysBefore((g - 1) + 1)
      \/ DaysBefore(g) <= x /\ x < DaysBefore(g + 1)
      \/ DaysBefore(g + 1) <= x /\ x < DaysBefore((g + 1) + 1)
  BY <1>3, <1>4, <1>5
<1> QED BY <1>1, <1>3, <1>6

Day64(x) == x \in Int /\ -106752 <= x /\ x <= 106751

LEMMA DayTyped ==
  ASSUME NEW x, Day64(x)
  PROVE  x \in Int
BY SMT DEF Day64

LEMMA YearIs ==
  ASSUME NEW x, Day64(x)
  PROVE  /\ YearOf(x) \in Int
         /\ DaysBefore(YearOf(x)) <= x /\ x < DaysBefore(YearOf(x) + 1)
         /\ \A y \in Int : DaysBefore(y) <= x /\ x < DaysBefore(y + 1) => YearOf(x) = y
<1> DEFINE R == 1968 + x \div 366 .. 1972 + x \div 365
           P(y) == DaysBefore(y) <= x /\ x < DaysBefore(y + 1)
<1>1. PICK y \in Int : P(y)
  <2>1. x \in Int
    BY SMT DEF Day64
  <2> QED BY <2>1, YearExists
<1>2. y \in R
  BY SMT, <1>1, YearSought DEF Day64
<1>3. YearOf(x) = CHOOSE v \in R : P(v)
  BY Zenon DEF YearOf
<1>4. R \subseteq Int
  OBVIOUS
<1> HIDE DEF R
<1>5. YearOf(x) \in R /\ P(YearOf(x))
  <2> HIDE DEF P
  <2> QED BY Zenon, <1>1, <1>2, <1>3
<1>6. ASSUME NEW v \in Int, P(v) PROVE YearOf(x) = v
  <2>1. x \in Int
    BY SMT DEF Day64
  <2>2. YearOf(x) \in Int
    BY Zenon, <1>4, <1>5
  <2> QED BY <1>5, <1>6, <2>1, <2>2, YearUnique
<1> QED BY <1>4, <1>5, <1>6

LEMMA YearInside ==
  ASSUME NEW x, Day64(x)
  PROVE  1677 <= YearOf(x) /\ YearOf(x) <= 2262
<1>1. PICK y \in Int : y = YearOf(x) /\ DaysBefore(y) <= x /\ x < DaysBefore(y + 1)
  BY YearIs
<1>2. x \in Int /\ -106752 <= x /\ x <= 106751
  BY SMT DEF Day64
<1>3. 1677 <= y /\ y <= 2262
  BY SMT, <1>1, <1>2, YearNear, YearLength
<1> QED BY SMT, <1>1, <1>3

(* The months of a year, e the day more of a leap year.                     *)
LEMMA MonthStarts ==
  ASSUME NEW y \in Int, NEW b, b = DaysBefore(y), NEW e, e = IF Leap(y) THEN 1 ELSE 0
  PROVE  /\ MonthStart(y, 1) = b
         /\ MonthStart(y, 2) = b + 31
         /\ MonthStart(y, 3) = b + 59 + e
         /\ MonthStart(y, 4) = b + 90 + e
         /\ MonthStart(y, 5) = b + 120 + e
         /\ MonthStart(y, 6) = b + 151 + e
         /\ MonthStart(y, 7) = b + 181 + e
         /\ MonthStart(y, 8) = b + 212 + e
         /\ MonthStart(y, 9) = b + 243 + e
         /\ MonthStart(y, 10) = b + 273 + e
         /\ MonthStart(y, 11) = b + 304 + e
         /\ MonthStart(y, 12) = b + 334 + e
<1>1. b \in Int /\ e \in {0, 1}
  BY YearLength
<1>2. MonthStart(y, 1) = b
  BY <1>1 DEF MonthStart
<1>3. MonthStart(y, 2) = b + 31
  BY <1>1 DEF MonthStart
<1>4. MonthStart(y, 3) = b + 59 + e
  BY <1>1 DEF MonthStart
<1>5. MonthStart(y, 4) = b + 90 + e
  BY <1>1 DEF MonthStart
<1>6. MonthStart(y, 5) = b + 120 + e
  BY <1>1 DEF MonthStart
<1>7. MonthStart(y, 6) = b + 151 + e
  BY <1>1 DEF MonthStart
<1>8. MonthStart(y, 7) = b + 181 + e
  BY <1>1 DEF MonthStart
<1>9. MonthStart(y, 8) = b + 212 + e
  BY <1>1 DEF MonthStart
<1>10. MonthStart(y, 9) = b + 243 + e
  BY <1>1 DEF MonthStart
<1>11. MonthStart(y, 10) = b + 273 + e
  BY <1>1 DEF MonthStart
<1>12. MonthStart(y, 11) = b + 304 + e
  BY <1>1 DEF MonthStart
<1>13. MonthStart(y, 12) = b + 334 + e
  BY <1>1 DEF MonthStart
<1> QED BY <1>2, <1>3, <1>4, <1>5, <1>6, <1>7, <1>8, <1>9, <1>10, <1>11, <1>12, <1>13

LEMMA MonthLengths ==
  ASSUME NEW y \in Int, NEW e, e = IF Leap(y) THEN 1 ELSE 0
  PROVE  /\ LastDay(y, 1) = 31
         /\ LastDay(y, 2) = 28 + e
         /\ LastDay(y, 3) = 31
         /\ LastDay(y, 4) = 30
         /\ LastDay(y, 5) = 31
         /\ LastDay(y, 6) = 30
         /\ LastDay(y, 7) = 31
         /\ LastDay(y, 8) = 31
         /\ LastDay(y, 9) = 30
         /\ LastDay(y, 10) = 31
         /\ LastDay(y, 11) = 30
         /\ LastDay(y, 12) = 31
<1>1. DaysBefore(y) \in Int /\ e \in {0, 1}
  BY YearLength
<1>2. LastDay(y, 1) = 31
  BY <1>1, MonthStarts DEF LastDay
<1>3. LastDay(y, 2) = 28 + e
  BY <1>1, MonthStarts DEF LastDay
<1>4. LastDay(y, 3) = 31
  BY <1>1, MonthStarts DEF LastDay
<1>5. LastDay(y, 4) = 30
  BY <1>1, MonthStarts DEF LastDay
<1>6. LastDay(y, 5) = 31
  BY <1>1, MonthStarts DEF LastDay
<1>7. LastDay(y, 6) = 30
  BY <1>1, MonthStarts DEF LastDay
<1>8. LastDay(y, 7) = 31
  BY <1>1, MonthStarts DEF LastDay
<1>9. LastDay(y, 8) = 31
  BY <1>1, MonthStarts DEF LastDay
<1>10. LastDay(y, 9) = 30
  BY <1>1, MonthStarts DEF LastDay
<1>11. LastDay(y, 10) = 31
  BY <1>1, MonthStarts DEF LastDay
<1>12. LastDay(y, 11) = 30
  BY <1>1, MonthStarts DEF LastDay
<1>13. LastDay(y, 12) = 31
  BY <1>1, MonthStarts DEF LastDay
<1> QED BY <1>2, <1>3, <1>4, <1>5, <1>6, <1>7, <1>8, <1>9, <1>10, <1>11, <1>12, <1>13

LEMMA MonthSteps ==
  ASSUME NEW y \in Int, NEW m \in 1..12
  PROVE  /\ MonthStart(y, m) \in Int /\ LastDay(y, m) \in Int
         /\ 28 <= LastDay(y, m) /\ LastDay(y, m) <= 31
         /\ DaysBefore(y) <= MonthStart(y, m)
         /\ MonthStart(y, m) + LastDay(y, m) <= DaysBefore(y + 1)
         /\ IF m < 12 THEN MonthStart(y, m + 1) = MonthStart(y, m) + LastDay(y, m)
                      ELSE DaysBefore(y + 1) = MonthStart(y, m) + LastDay(y, m)
<1>1. PICK b \in Int, e \in {0, 1} :
        /\ b = DaysBefore(y) /\ e = IF Leap(y) THEN 1 ELSE 0
        /\ DaysBefore(y + 1) = b + 365 + e
  BY YearLength
<1> QED BY <1>1, MonthStarts, MonthLengths

LEMMA MonthOrder ==
  ASSUME NEW y \in Int, NEW m \in 1..12, NEW n \in 1..12, m < n
  PROVE  MonthStart(y, m) + LastDay(y, m) <= MonthStart(y, n)
<1>1. PICK b \in Int, e \in {0, 1} : b = DaysBefore(y) /\ e = IF Leap(y) THEN 1 ELSE 0
  BY YearLength
<1> QED BY <1>1, MonthStarts, MonthLengths

LEMMA MonthIs ==
  ASSUME NEW x, Day64(x)
  PROVE  /\ MonthOf(x) \in 1..12
         /\ MonthStart(YearOf(x), MonthOf(x)) <= x
         /\ x < MonthStart(YearOf(x), MonthOf(x)) + LastDay(YearOf(x), MonthOf(x))
         /\ \A m \in 1..12 : MonthStart(YearOf(x), m) <= x /\ x < MonthStart(YearOf(x), m) + LastDay(YearOf(x), m)
                               => MonthOf(x) = m
<1>1. PICK y \in Int : y = YearOf(x) /\ DaysBefore(y) <= x /\ x < DaysBefore(y + 1)
  BY YearIs
<1> DEFINE P(m) == MonthStart(y, m) <= x /\ x < MonthStart(y, m) + LastDay(y, m)
<1>2. x \in Int
  BY SMT DEF Day64
<1>3. \E m \in 1..12 : P(m)
  <2>1. PICK b \in Int, e \in {0, 1} :
          /\ b = DaysBefore(y) /\ e = IF Leap(y) THEN 1 ELSE 0
          /\ DaysBefore(y + 1) = b + 365 + e
    BY YearLength
  <2>2. b <= x /\ x < b + 365 + e
    BY <1>1, <2>1
  <2> QED BY SMT, <1>2, <2>1, <2>2, MonthStarts, MonthLengths
<1>4. MonthOf(x) = CHOOSE m \in 1..12 : P(m)
  BY Zenon, <1>1 DEF MonthOf
<1>5. MonthOf(x) \in 1..12 /\ P(MonthOf(x))
  <2> HIDE DEF P
  <2> QED BY Zenon, <1>3, <1>4
<1>6. ASSUME NEW m \in 1..12, P(m) PROVE MonthOf(x) = m
  <2>1. ASSUME NEW i \in 1..12, NEW j \in 1..12, i < j, P(i), P(j) PROVE FALSE
    <3>1. MonthStart(y, i) + LastDay(y, i) <= MonthStart(y, j)
      BY <2>1, MonthOrder
    <3>2. MonthStart(y, i) \in Int /\ LastDay(y, i) \in Int /\ MonthStart(y, j) \in Int
      BY MonthSteps
    <3> QED BY SMT, <1>2, <2>1, <3>1, <3>2
  <2>2. PICK o \in 1..12 : o = MonthOf(x) /\ P(o)
    BY <1>5
  <2>3. ~(m < o) /\ ~(o < m)
    <3> HIDE DEF P
    <3> QED BY Zenon, <1>6, <2>1, <2>2
  <2> QED BY <2>2, <2>3
<1> QED BY <1>1, <1>5, <1>6

(* A day of 64 bits is the day of its month of its year, and no other.      *)
LEMMA DateOfDay ==
  ASSUME NEW x, Day64(x)
  PROVE  /\ YearOf(x) \in Int /\ MonthOf(x) \in 1..12 /\ DayOf(x) \in Int
         /\ 1 <= DayOf(x) /\ DayOf(x) <= LastDay(YearOf(x), MonthOf(x))
         /\ x = MonthStart(YearOf(x), MonthOf(x)) + DayOf(x) - 1
<1>1. PICK y \in Int, m \in 1..12 : y = YearOf(x) /\ m = MonthOf(x)
  BY YearIs, MonthIs
<1>2. x \in Int /\ MonthStart(y, m) \in Int /\ LastDay(y, m) \in Int
  BY MonthSteps, DayTyped
<1>3. DayOf(x) = x - MonthStart(y, m) + 1
  BY Zenon, <1>1 DEF DayOf
<1>4. MonthStart(y, m) <= x /\ x < MonthStart(y, m) + LastDay(y, m)
  BY Zenon, <1>1, MonthIs
<1>5. 1 <= DayOf(x) /\ DayOf(x) <= LastDay(y, m) /\ DayOf(x) \in Int /\ x = MonthStart(y, m) + DayOf(x) - 1
  BY SMT, <1>2, <1>3, <1>4
<1> QED BY Zenon, <1>1, <1>5

LEMMA DayOfDate ==
  ASSUME NEW y \in Int, NEW m \in 1..12, NEW d \in Int, 1 <= d, d <= LastDay(y, m),
         NEW x, x = MonthStart(y, m) + d - 1, Day64(x)
  PROVE  YearOf(x) = y /\ MonthOf(x) = m /\ DayOf(x) = d
<1>0. /\ MonthStart(y, m) \in Int /\ LastDay(y, m) \in Int /\ x \in Int
      /\ DaysBefore(y) \in Int /\ DaysBefore(y + 1) \in Int
      /\ DaysBefore(y) <= MonthStart(y, m) /\ MonthStart(y, m) + LastDay(y, m) <= DaysBefore(y + 1)
  <2>1. y + 1 \in Int
    OBVIOUS
  <2>2. DaysBefore(y) \in Int /\ DaysBefore(y + 1) \in Int
    BY <2>1, YearLength
  <2>3. MonthStart(y, m) \in Int /\ LastDay(y, m) \in Int
        /\ DaysBefore(y) <= MonthStart(y, m) /\ MonthStart(y, m) + LastDay(y, m) <= DaysBefore(y + 1)
    BY MonthSteps
  <2> QED BY <2>2, <2>3, DayTyped
<1>1. MonthStart(y, m) <= x /\ x < MonthStart(y, m) + LastDay(y, m)
  BY SMT, <1>0
<1>2. DaysBefore(y) <= x /\ x < DaysBefore(y + 1)
  BY SMT, <1>0, <1>1
<1>3. YearOf(x) = y
  BY <1>2, YearIs
<1>4. MonthOf(x) = m
  BY Zenon, <1>1, <1>3, MonthIs
<1>5. DayOf(x) = x - MonthStart(y, m) + 1
  BY Zenon, <1>3, <1>4 DEF DayOf
<1> QED BY SMT, <1>0, <1>3, <1>4, <1>5

(***************************************************************************)
(* The object always holds a time point of 64 bits, whichever calls it     *)
(* took.                                                                   *)
(***************************************************************************)
Instant(t) == t \in Times /\ Representable(t)

LEMMA WrapInstant ==
  ASSUME NEW d \in Int, NEW m \in Int, NEW n \in Int
  PROVE  Instant(Wrap(Normal(d, m, n)))
<1>1. Normal(d, m, n) \in Times
  BY NormalNanos
<1> QED BY <1>1, WrapFits DEF Instant

LEMMA InstantDay ==
  ASSUME NEW t, Instant(t)
  PROVE  Day64(t.day)
<1>1. t \in Times /\ Representable(t)
  BY DEF Instant
<1>2. t.day \in Int
  BY <1>1, TimesTyped
<1> QED BY SMT, <1>1, <1>2, DayFits DEF Day64

LEMMA ShortIs ==
  ASSUME NEW y \in Int
  PROVE  Short(y) \in Int /\ (-32768 <= y /\ y <= 32767 => Short(y) = y)
BY SMT DEF Short

LEMMA ByteIs ==
  ASSUME NEW n \in Int
  PROVE  Byte(n) \in Int /\ (0 <= n /\ n <= 255 => Byte(n) = n)
BY SMT DEF Byte

(* The fields of the time of day, and what they add up to.                  *)
LEMMA TimeOfDay ==
  ASSUME NEW s \in Int, 0 <= s, s < MsOfDay
  PROVE  /\ s \div MsOfHour \in Int /\ (s % MsOfHour) \div MsOfMinute \in Int
         /\ (s % MsOfMinute) \div MsOfSecond \in Int /\ s % MsOfSecond \in Int
         /\ (s \div MsOfHour) * MsOfHour + ((s % MsOfHour) \div MsOfMinute) * MsOfMinute
              + ((s % MsOfMinute) \div MsOfSecond) * MsOfSecond + (s % MsOfSecond) = s
BY SMT, Units

FieldsTyped(f) ==
  /\ f.year \in Int /\ f.month \in Int /\ f.day \in Int
  /\ f.hour \in Int /\ f.minute \in Int /\ f.second \in Int /\ f.ms \in Int

LEMMA FieldsAre ==
  ASSUME NEW t, Instant(t)
  PROVE  FieldsTyped(Fields(t))
<1>1. Day64(t.day) /\ t \in Times
  BY InstantDay DEF Instant
<1>2. YearOf(t.day) \in Int /\ MonthOf(t.day) \in 1..12 /\ DayOf(t.day) \in Int
  BY <1>1, DateOfDay
<1>3. t.ms \in Int /\ 0 <= t.ms /\ t.ms < MsOfDay
  BY <1>1, TimesTyped
<1>4. /\ t.ms \div MsOfHour \in Int /\ (t.ms % MsOfHour) \div MsOfMinute \in Int
      /\ (t.ms % MsOfMinute) \div MsOfSecond \in Int /\ t.ms % MsOfSecond \in Int
  BY <1>3, TimeOfDay
<1> QED BY <1>2, <1>4 DEF Fields, FieldsTyped

LEMMA SetInstant ==
  ASSUME NEW f, FieldsTyped(f), ~Throws(f)
  PROVE  Instant(Set(f))
<1>1. Short(f.year) \in Int /\ Byte(f.day) \in Int
  BY ShortIs, ByteIs DEF FieldsTyped
<1>2. Byte(f.month) \in 1..12
  BY Zenon DEF Throws, Valid
<1>3. MonthStart(Short(f.year), Byte(f.month)) \in Int
  BY <1>1, <1>2, MonthSteps
<1>4. MonthStart(Short(f.year), Byte(f.month)) + Byte(f.day) - 1 \in Int
  BY <1>1, <1>3
<1>5. f.hour * MsOfHour + f.minute * MsOfMinute + f.second * MsOfSecond + f.ms \in Int
  BY SMT, Units DEF FieldsTyped
<1>6. 0 \in Int
  OBVIOUS
<1> QED BY <1>4, <1>5, <1>6, WrapInstant DEF Set

LEMMA PlusInstant ==
  ASSUME NEW t, Instant(t), NEW d \in Int, NEW m \in Int
  PROVE  Instant(Plus(t, d, m))
<1>1. t.day + d \in Int /\ t.ms + m \in Int /\ t.ns \in Int
  BY TimesTyped DEF Instant
<1> QED BY <1>1, WrapInstant DEF Plus

LEMMA PlusSecondsInstant ==
  ASSUME NEW t, Instant(t), NEW n \in Int
  PROVE  Instant(PlusSeconds(t, n))
<1>1. n \div SecondsOfDay \in Int /\ (n % SecondsOfDay) * MsOfSecond \in Int
  BY SMT, Units
<1> QED BY Zenon, <1>1, PlusInstant DEF PlusSeconds

LEMMA PlusMonthsInstant ==
  ASSUME NEW t, Instant(t), NEW n \in Int
  PROVE  Instant(PlusMonths(t, n))
<1> DEFINE i == MonthIndex(t) + n
<1>1. Day64(t.day) /\ t.ms \in Int
  BY InstantDay, TimesTyped DEF Instant
<1>2. YearOf(t.day) \in Int /\ MonthOf(t.day) \in 1..12 /\ DayOf(t.day) \in Int
  BY <1>1, DateOfDay
<1>3. i \in Int
  BY SMT, <1>2 DEF MonthIndex
<1> HIDE DEF i
<1>4. i \div 12 \in Int /\ (i % 12) + 1 \in 1..12
  BY SMT, <1>3
<1>5. Short(i \div 12) \in Int
  BY <1>4, ShortIs
<1>6. MonthStart(Short(i \div 12), (i % 12) + 1) \in Int
  BY <1>4, <1>5, MonthSteps
<1>7. MonthStart(Short(i \div 12), (i % 12) + 1) + DayOf(t.day) - 1 \in Int /\ 0 \in Int
  BY <1>2, <1>6
<1>8. PlusMonths(t, n) = Wrap(Normal(MonthStart(Short(i \div 12), (i % 12) + 1) + DayOf(t.day) - 1, t.ms, 0))
  BY Zenon DEF PlusMonths, i
<1> QED BY <1>1, <1>7, <1>8, WrapInstant

LEMMA SecondsTyped ==
  ASSUME NEW t, Instant(t)
  PROVE  ToSeconds(t).day \in Int /\ ToSeconds(t).second \in Int
<1> DEFINE up == t.day < 0 /\ (t.ms % MsOfSecond # 0 \/ t.ns # 0)
           next == t.ms \div MsOfSecond + (IF up THEN 1 ELSE 0)
<1>1. t.day \in Int /\ t.ms \in Int
  BY TimesTyped DEF Instant
<1>2. next \in Int
  <2> HIDE DEF up
  <2>1. t.ms \div MsOfSecond \in Int
    BY SMT, <1>1, Units
  <2> QED BY <2>1
<1>3. ToSeconds(t) = [day |-> t.day + next \div SecondsOfDay, second |-> next % SecondsOfDay]
  BY Zenon DEF ToSeconds
<1> HIDE DEF next
<1>4. t.day + next \div SecondsOfDay \in Int /\ next % SecondsOfDay \in Int
  BY SMT, <1>1, <1>2, Units
<1> HIDE DEF up
<1> QED BY <1>3, <1>4

LEMMA AssignInstant ==
  ASSUME Instant(now), NEW f, FieldsTyped(f), Assign(f)
  PROVE  Instant(now')
<1>1. CASE Throws(f)
  BY <1>1 DEF Assign, Becomes
<1>2. CASE ~Throws(f)
  BY <1>2, SetInstant DEF Assign, Becomes
<1> QED BY <1>1, <1>2

(* A setter's fields: those of the object, one of them replaced. *)
LEMMA SetterInstant ==
  ASSUME Instant(now), NEW n \in Int,
         \/ SetYear(n) \/ SetMonth(n) \/ SetDay(n) \/ SetHour(n)
         \/ SetMinute(n) \/ SetSecond(n) \/ SetMillisecond(n)
  PROVE  Instant(now')
<1> DEFINE f == Fields(now)
<1>1. FieldsTyped(f) /\ DOMAIN f = {"year", "month", "day", "hour", "minute", "second", "ms"}
  BY FieldsAre DEF Fields
<1>2. f = [year |-> f.year, month |-> f.month, day |-> f.day, hour |-> f.hour,
           minute |-> f.minute, second |-> f.second, ms |-> f.ms]
  BY DEF Fields
<1> HIDE DEF f
<1>3. PICK g : g = f
  OBVIOUS
<1>4. FieldsTyped(Whole(f)) /\ Whole(f) = [year |-> f.year, month |-> f.month, day |-> f.day, hour |-> f.hour,
                                            minute |-> f.minute, second |-> f.second, ms |-> 0]
  BY <1>1, <1>2 DEF FieldsTyped, Whole
<1>5. CASE SetYear(n)
  <2>1. FieldsTyped([Whole(f) EXCEPT !.year = n])
    BY <1>4 DEF FieldsTyped
  <2> QED BY <1>5, <2>1, AssignInstant DEF SetYear, f
<1>6. CASE SetMonth(n)
  <2>1. FieldsTyped([Whole(f) EXCEPT !.month = n])
    BY <1>4 DEF FieldsTyped
  <2> QED BY <1>6, <2>1, AssignInstant DEF SetMonth, f
<1>7. CASE SetDay(n)
  <2>1. FieldsTyped([Whole(f) EXCEPT !.day = n])
    BY <1>4 DEF FieldsTyped
  <2> QED BY <1>7, <2>1, AssignInstant DEF SetDay, f
<1>8. CASE SetHour(n)
  <2>1. FieldsTyped([Whole(f) EXCEPT !.hour = n])
    BY <1>4 DEF FieldsTyped
  <2> QED BY <1>8, <2>1, AssignInstant DEF SetHour, f
<1>9. CASE SetMinute(n)
  <2>1. FieldsTyped([Whole(f) EXCEPT !.minute = n])
    BY <1>4 DEF FieldsTyped
  <2> QED BY <1>9, <2>1, AssignInstant DEF SetMinute, f
<1>10. CASE SetSecond(n)
  <2>1. FieldsTyped([Whole(f) EXCEPT !.second = n])
    BY <1>4 DEF FieldsTyped
  <2> QED BY <1>10, <2>1, AssignInstant DEF SetSecond, f
<1>11. CASE SetMillisecond(n)
  <2>1. FieldsTyped([f EXCEPT !.ms = n])
    BY <1>1, <1>2 DEF FieldsTyped
  <2> QED BY <1>11, <2>1, AssignInstant DEF SetMillisecond, f
<1> QED BY <1>5, <1>6, <1>7, <1>8, <1>9, <1>10, <1>11

LEMMA ShiftInstant ==
  ASSUME Instant(now), NEW n \in Int,
         \/ AddSeconds(n) \/ AddMinutes(n) \/ AddHours(n) \/ AddDays(n) \/ AddWeeks(n)
         \/ AddMeanMonths(n) \/ AddMeanYears(n) \/ AddMonths(n) \/ AddYears(n)
  PROVE  Instant(now')
<1>1. 60 * n \in Int /\ 3600 * n \in Int /\ 7 * n \in Int /\ 12 * n \in Int /\ 0 \in Int
  BY SMT
<1>2. n * (SecondsOfYear \div 12) \in Int /\ n * SecondsOfYear \in Int
  BY SMT DEF SecondsOfYear
<1>3. CASE AddSeconds(n)
  BY <1>3, PlusSecondsInstant DEF AddSeconds, Becomes
<1>4. CASE AddMinutes(n)
  BY <1>1, <1>4, PlusSecondsInstant DEF AddMinutes, Becomes
<1>5. CASE AddHours(n)
  BY <1>1, <1>5, PlusSecondsInstant DEF AddHours, Becomes
<1>6. CASE AddDays(n)
  BY <1>1, <1>6, PlusInstant DEF AddDays, Becomes
<1>7. CASE AddWeeks(n)
  BY <1>1, <1>7, PlusInstant DEF AddWeeks, Becomes
<1>8. CASE AddMeanMonths(n)
  BY <1>2, <1>8, PlusSecondsInstant DEF AddMeanMonths, PlusMeanMonths, Becomes
<1>9. CASE AddMeanYears(n)
  BY <1>2, <1>9, PlusSecondsInstant DEF AddMeanYears, PlusMeanYears, Becomes
<1>10. CASE AddMonths(n)
  BY <1>10, PlusMonthsInstant DEF AddMonths, Becomes
<1>11. CASE AddYears(n)
  BY <1>1, <1>11, PlusMonthsInstant DEF AddYears, PlusYears, Becomes
<1> QED BY <1>3, <1>4, <1>5, <1>6, <1>7, <1>8, <1>9, <1>10, <1>11

(* The year, the month and the day of an instant come through set() whole.  *)
LEMMA FieldsPass ==
  ASSUME NEW t, Instant(t)
  PROVE  /\ Short(YearOf(t.day)) = YearOf(t.day)
         /\ Byte(MonthOf(t.day)) = MonthOf(t.day)
         /\ Byte(DayOf(t.day)) = DayOf(t.day)
         /\ Valid(YearOf(t.day), MonthOf(t.day), DayOf(t.day))
<1>1. PICK x : x = t.day /\ Day64(x)
  BY InstantDay
<1>2. PICK y \in Int, m \in 1..12, d \in Int : y = YearOf(x) /\ m = MonthOf(x) /\ d = DayOf(x)
  BY <1>1, DateOfDay
<1>3. 1 <= d /\ d <= LastDay(y, m)
  BY <1>1, <1>2, DateOfDay
<1>4. LastDay(y, m) \in Int /\ LastDay(y, m) <= 31
  BY MonthSteps
<1>5. 1677 <= y /\ y <= 2262
  BY <1>1, <1>2, YearInside
<1>6. Short(y) = y /\ Byte(m) = m /\ Byte(d) = d
  <2>1. -32768 <= y /\ y <= 32767 /\ m \in Int /\ 0 <= m /\ m <= 255 /\ 0 <= d /\ d <= 255
    BY SMT, <1>3, <1>4, <1>5
  <2> QED BY SMT, <2>1, ShortIs, ByteIs
<1>7. Valid(y, m, d)
  BY <1>3, <1>4 DEF Valid
<1> QED BY Zenon, <1>1, <1>2, <1>6, <1>7

LEMMA TripInstant ==
  ASSUME Instant(now), TakeCopy \/ ViaSeconds \/ ViaText
  PROVE  Instant(now')
<1> DEFINE f == Fields(now)
           g == [f EXCEPT !.ms = 0]
<1>1. FieldsTyped(f) /\ FieldsTyped(g)
  <2>1. FieldsTyped(f)
    BY FieldsAre
  <2>2. FieldsTyped(g)
    BY <2>1 DEF FieldsTyped, Fields
  <2> QED BY <2>1, <2>2
<1>2. ~Throws(f) /\ ~Throws(g)
  <2>1. /\ f.year = YearOf(now.day) /\ f.month = MonthOf(now.day) /\ f.day = DayOf(now.day)
        /\ g.year = YearOf(now.day) /\ g.month = MonthOf(now.day) /\ g.day = DayOf(now.day)
    BY DEF Fields
  <2> HIDE DEF f, g
  <2> QED BY Zenon, <2>1, FieldsPass DEF Throws
<1> HIDE DEF f, g
<1>3. CASE TakeCopy
  BY <1>1, <1>2, <1>3, SetInstant DEF TakeCopy, Copy, Becomes, f
<1>4. CASE ViaSeconds
  <2>1. PICK s : s = ToSeconds(now) /\ s.day \in Int /\ s.second \in Int
    BY SecondsTyped
  <2>2. s.second * MsOfSecond \in Int /\ 0 \in Int
    BY SMT, <2>1, Units
  <2> QED BY <1>4, <2>1, <2>2, WrapInstant DEF ViaSeconds, FromSeconds, Becomes
<1>5. CASE ViaText
  BY <1>1, <1>2, <1>5, SetInstant DEF ViaText, ReadText, Becomes, f, g
<1> QED BY <1>3, <1>4, <1>5

LEMMA InstantKept ==
  ASSUME Instant(now), [DateNext]_dateVars
  PROVE  Instant(now')
<1>1. Shifts \subseteq Int /\ Years \subseteq Int /\ Small \subseteq Int
  BY DateAssumption
<1>2. ASSUME NEW y \in Years, SetYear(y) PROVE Instant(now')
  BY <1>1, <1>2, SetterInstant
<1>3. ASSUME NEW n \in Small,
             \/ SetMonth(n) \/ SetDay(n) \/ SetHour(n)
             \/ SetMinute(n) \/ SetSecond(n) \/ SetMillisecond(n)
      PROVE  Instant(now')
  BY <1>1, <1>3, SetterInstant
<1>4. ASSUME NEW n \in Shifts,
             \/ AddSeconds(n) \/ AddMinutes(n) \/ AddHours(n) \/ AddDays(n) \/ AddWeeks(n)
             \/ AddMeanMonths(n) \/ AddMeanYears(n) \/ AddMonths(n) \/ AddYears(n)
      PROVE  Instant(now')
  BY <1>1, <1>4, ShiftInstant
<1>5. CASE TakeCopy \/ ViaSeconds \/ ViaText
  BY <1>5, TripInstant
<1>6. CASE UNCHANGED dateVars
  BY <1>6 DEF dateVars
<1> QED BY Zenon, <1>2, <1>3, <1>4, <1>5, <1>6 DEF DateNext

LEMMA InstantStarts ==
  ASSUME DateInit
  PROVE  Instant(now)
BY DateAssumption DEF DateInit, Instant

(* Whatever is set, added, copied or read, the object holds a time point of *)
(* 64 bits: no overflow leaves the range, and no call ends on a date that   *)
(* is none (CDate::set(), the setters, the add...() methods and the         *)
(* operators).                                                              *)
THEOREM InstantAlways == Spec => []Instant(now)
<1>1. Init => Instant(now)
  BY InstantStarts DEF Init
<1>2. Instant(now) /\ [Next]_<<dateVars, simVars>> => Instant(now)'
  <2> SUFFICES ASSUME Instant(now), [Next]_<<dateVars, simVars>> PROVE Instant(now)'
    OBVIOUS
  <2>1. [DateNext]_dateVars
    BY DEF Next
  <2> QED BY <2>1, InstantKept
<1> QED BY <1>1, <1>2, PTL DEF Spec

(***************************************************************************)
(* Months added.                                                           *)
(***************************************************************************)
Near(y) == y \in Int /\ 1699 <= y /\ y <= 2241

LEMMA ModerateNear ==
  ASSUME NEW y \in Moderate
  PROVE  y \in Int /\ 1700 <= y /\ y <= 2240
BY SMT DEF Moderate

LEMMA AtDay ==
  ASSUME NEW y, Near(y), NEW m \in 1..12, NEW d \in Int, 1 <= d, d <= 31,
         NEW s \in Int, 0 <= s, s < MsOfDay,
         NEW x, x = MonthStart(y, m) + d - 1
  PROVE  /\ Day64(x) /\ Instant([day |-> x, ms |-> s, ns |-> 0])
         /\ Wrap(Normal(x, s, 0)) = [day |-> x, ms |-> s, ns |-> 0]
<1> DEFINE t == [day |-> x, ms |-> s, ns |-> 0]
<1>1. y \in Int /\ 1699 <= y /\ y <= 2241 /\ y + 1 \in Int
  BY SMT DEF Near
<1>a. y \in Int /\ y + 1 \in Int
  BY SMT, <1>1
<1>2. /\ MonthStart(y, m) \in Int /\ LastDay(y, m) \in Int /\ 28 <= LastDay(y, m)
      /\ DaysBefore(y) <= MonthStart(y, m) /\ MonthStart(y, m) + LastDay(y, m) <= DaysBefore(y + 1)
  BY Zenon, <1>a, MonthSteps
<1>3. DaysBefore(y) \in Int /\ DaysBefore(y + 1) \in Int
  BY <1>a, YearLength
<1>4. /\ 146097 * (y - 1970) - 600 <= 400 * DaysBefore(y)
      /\ 400 * DaysBefore(y + 1) <= 146097 * ((y + 1) - 1970) + 600
  BY SMT, <1>1, YearNear
<1>5. x \in Int /\ -106752 < x /\ x < 106751
  BY SMT, <1>1, <1>2, <1>3, <1>4
<1>6. Day64(x)
  BY SMT, <1>5 DEF Day64
<1>7. x \in Int /\ 0 <= 0 /\ 0 < NsOfMs /\ 0 \in Int
  BY Zenon, <1>6, DayTyped, UnitsTyped, SMT
<1>8. t \in Times /\ t.day = x
  BY <1>7, TimesMade
<1>9. Representable(t)
  BY SMT, <1>5, <1>8, DayFits
<1>10. Normal(x, s, 0) = t
  BY <1>7, NormalIs
<1> HIDE DEF t
<1>11. Wrap(t) = t
  BY <1>8, <1>9, WrapFits
<1> QED BY <1>6, <1>8, <1>9, <1>10, <1>11 DEF Instant, t

LEMMA NearShort ==
  ASSUME NEW y, Near(y)
  PROVE  y \in Int /\ Short(y) = y
BY SMT, ShortIs DEF Near

(* Months counted from that of year 0: the day before its first, its days.  *)
StartOf(i)  == MonthStart(i \div 12, (i % 12) + 1)
LengthOf(i) == LastDay(i \div 12, (i % 12) + 1)

LEMMA MonthAfter ==
  ASSUME NEW i \in Int
  PROVE  /\ StartOf(i) \in Int /\ LengthOf(i) \in Int
         /\ 28 <= LengthOf(i) /\ LengthOf(i) <= 31
         /\ StartOf(i + 1) = StartOf(i) + LengthOf(i)
<1>1. PICK y \in Int, m \in 1..12 : y = i \div 12 /\ m = (i % 12) + 1
  BY SMT
<1>2. PICK z \in Int, o \in 1..12 : z = (i + 1) \div 12 /\ o = ((i + 1) % 12) + 1
  BY SMT
<1>3. IF m < 12 THEN z = y /\ o = m + 1 ELSE z = y + 1 /\ o = 1
  BY SMT, <1>1, <1>2
<1>4. MonthStart(z, o) = MonthStart(y, m) + LastDay(y, m)
  <2>1. CASE m < 12
    BY <1>3, <2>1, MonthSteps
  <2>2. CASE m = 12
    <3>1. z = y + 1 /\ o = 1 /\ MonthStart(z, 1) = DaysBefore(z)
      BY <1>3, <2>2, MonthStarts
    <3> QED BY Zenon, <2>2, <3>1, MonthSteps, SMT
  <2> QED BY <2>1, <2>2
<1>5. /\ MonthStart(y, m) \in Int /\ LastDay(y, m) \in Int
      /\ 28 <= LastDay(y, m) /\ LastDay(y, m) <= 31
  BY MonthSteps
<1> QED BY Zenon, <1>1, <1>2, <1>4, <1>5 DEF StartOf, LengthOf

LEMMA MonthsLand ==
  ASSUME NEW t, Instant(t), NEW n \in Int, NEW i \in Int, MonthIndex(t) + n = i, Near(i \div 12)
  PROVE  /\ Instant(PlusMonths(t, n))
         /\ PlusMonths(t, n) = [day |-> StartOf(i) + DayOf(t.day) - 1, ms |-> t.ms, ns |-> 0]
<1>1. Day64(t.day) /\ t.ms \in Int /\ 0 <= t.ms /\ t.ms < MsOfDay
  BY InstantDay, TimesTyped DEF Instant
<1>2. PICK d \in Int : d = DayOf(t.day) /\ 1 <= d /\ d <= 31
  <2>1. PICK y \in Int, m \in 1..12, d \in Int :
          /\ y = YearOf(t.day) /\ m = MonthOf(t.day) /\ d = DayOf(t.day)
          /\ 1 <= d /\ d <= LastDay(y, m)
    BY <1>1, DateOfDay
  <2>2. LastDay(y, m) \in Int /\ LastDay(y, m) <= 31
    BY MonthSteps
  <2>3. d <= 31
    BY SMT, <2>1, <2>2
  <2> QED BY Zenon, <2>1, <2>3
<1>3. PICK y \in Int, m \in 1..12 : y = i \div 12 /\ m = (i % 12) + 1 /\ Near(y)
  BY SMT
<1>4. Short(y) = y
  BY <1>3, NearShort
<1>5. PICK x : x = MonthStart(y, m) + d - 1
  OBVIOUS
<1>6. PlusMonths(t, n) = Wrap(Normal(x, t.ms, 0))
  BY Zenon, <1>2, <1>3, <1>4, <1>5 DEF PlusMonths
<1>7. /\ Instant([day |-> x, ms |-> t.ms, ns |-> 0])
      /\ Wrap(Normal(x, t.ms, 0)) = [day |-> x, ms |-> t.ms, ns |-> 0]
  BY <1>1, <1>2, <1>3, <1>5, AtDay
<1> QED BY Zenon, <1>2, <1>3, <1>5, <1>6, <1>7 DEF StartOf

(* The month index of a date put together from an index. *)
LEMMA IndexOf ==
  ASSUME NEW i \in Int, NEW d \in Int, 1 <= d, d <= LengthOf(i),
         NEW u, u.day = StartOf(i) + d - 1, Day64(u.day)
  PROVE  MonthIndex(u) = i /\ DayOf(u.day) = d
<1>1. PICK y \in Int, m \in 1..12 : y = i \div 12 /\ m = (i % 12) + 1
  BY SMT
<1>2. d <= LastDay(y, m) /\ u.day = MonthStart(y, m) + d - 1
  BY Zenon, <1>1 DEF StartOf, LengthOf
<1>3. YearOf(u.day) = y /\ MonthOf(u.day) = m /\ DayOf(u.day) = d
  BY <1>2, DayOfDate
<1>4. MonthIndex(u) = 12 * y + m - 1
  BY Zenon, <1>3 DEF MonthIndex
<1>5. 12 * y + m - 1 = i
  BY SMT, <1>1
<1> QED BY Zenon, <1>3, <1>4, <1>5

LEMMA IndexIs ==
  ASSUME NEW t, Instant(t), NEW i, i = MonthIndex(t)
  PROVE  /\ i \in Int /\ i \div 12 = YearOf(t.day) /\ (i % 12) + 1 = MonthOf(t.day)
         /\ DayOf(t.day) \in Int /\ 1 <= DayOf(t.day) /\ DayOf(t.day) <= LengthOf(i)
         /\ t.day = StartOf(i) + DayOf(t.day) - 1
<1>1. Day64(t.day)
  BY InstantDay
<1>2. PICK y \in Int, m \in 1..12, d \in Int :
        /\ y = YearOf(t.day) /\ m = MonthOf(t.day) /\ d = DayOf(t.day)
        /\ 1 <= d /\ d <= LastDay(y, m) /\ t.day = MonthStart(y, m) + d - 1
  BY <1>1, DateOfDay
<1>3. PICK k \in Int : k = 12 * y + m - 1 /\ k \div 12 = y /\ (k % 12) + 1 = m
  BY SMT
<1>4. i = k
  BY Zenon, <1>2, <1>3 DEF MonthIndex
<1> QED BY Zenon, <1>2, <1>3, <1>4 DEF StartOf, LengthOf

LEMMA MonthsExactNow ==
  ASSUME Instant(now)
  PROVE  MonthsExact
<1> SUFFICES ASSUME Inside(now), NEW n \in Shifts, (MonthIndex(now) + n) \div 12 \in Moderate
             PROVE  LET u     == PlusMonths(now, n)
                        i     == MonthIndex(now) + n
                        last  == LastDay(i \div 12, (i % 12) + 1)
                        there == DayOf(now.day) <= last
                    IN  /\ MonthIndex(u) = IF there THEN i ELSE i + 1
                        /\ DayOf(u.day) = IF there THEN DayOf(now.day) ELSE DayOf(now.day) - last
                        /\ u.ms = now.ms
                        /\ (PlusMonths(u, -n) = [now EXCEPT !.ns = 0]) <=> there
  BY Zenon DEF MonthsExact
<1>0. PICK i, d, last, u : /\ i = MonthIndex(now) + n /\ i \div 12 \in Moderate
                           /\ d = DayOf(now.day) /\ last = LengthOf(i) /\ u = PlusMonths(now, n)
  OBVIOUS
<1> SUFFICES /\ MonthIndex(u) = IF d <= last THEN i ELSE i + 1
             /\ DayOf(u.day) = IF d <= last THEN d ELSE d - last
             /\ u.ms = now.ms
             /\ (PlusMonths(u, -n) = [now EXCEPT !.ns = 0]) <=> d <= last
  BY Zenon, <1>0 DEF LengthOf
<1>1. PICK j : j = MonthIndex(now)
  OBVIOUS
<1>2. /\ j \in Int /\ n \in Int /\ i \in Int /\ i = j + n /\ d \in Int /\ 1 <= d
      /\ j \div 12 = YearOf(now.day)
      /\ d <= LengthOf(j) /\ now.day = StartOf(j) + d - 1
  <2>1. n \in Int
    BY DateAssumption
  <2>2. /\ j \in Int /\ j \div 12 = YearOf(now.day) /\ d \in Int /\ 1 <= d
        /\ d <= LengthOf(j) /\ now.day = StartOf(j) + d - 1
    BY Zenon, <1>0, <1>1, IndexIs
  <2> QED BY <1>0, <1>1, <2>1, <2>2
<1>3. Near(i \div 12) /\ Near(j \div 12) /\ Near((j + 1) \div 12) /\ i + 1 \in Int /\ j + 1 \in Int
  <2>1. j \div 12 \in Moderate
    BY Zenon, <1>2 DEF Inside
  <2>2. i \div 12 \in Int /\ j \div 12 \in Int /\ (j + 1) \div 12 \in Int
        /\ (j \div 12 <= (j + 1) \div 12 /\ (j + 1) \div 12 <= (j \div 12) + 1)
    BY SMT, <1>2
  <2>3. 1700 <= i \div 12 /\ i \div 12 <= 2240 /\ 1700 <= j \div 12 /\ j \div 12 <= 2240
    BY <1>0, <2>1, ModerateNear
  <2> QED BY SMT, <1>2, <2>2, <2>3 DEF Near
<1>4. [now EXCEPT !.ns = 0] = [day |-> now.day, ms |-> now.ms, ns |-> 0]
  <2>1. now = [day |-> now.day, ms |-> now.ms, ns |-> now.ns]
    BY TimesTyped DEF Instant
  <2> QED BY <2>1
<1>5. /\ StartOf(i) \in Int /\ LengthOf(i) \in Int /\ last = LengthOf(i) /\ 28 <= last
      /\ StartOf(j) \in Int /\ LengthOf(j) \in Int /\ LengthOf(j) <= 31
      /\ StartOf(i + 1) = StartOf(i) + last /\ StartOf(j + 1) = StartOf(j) + LengthOf(j)
      /\ LengthOf(i + 1) \in Int /\ 28 <= LengthOf(i + 1)
  BY <1>0, <1>2, <1>3, MonthAfter
<1>6. Instant(u) /\ u = [day |-> StartOf(i) + d - 1, ms |-> now.ms, ns |-> 0]
  BY <1>0, <1>1, <1>2, <1>3, MonthsLand
<1>7. u.day = StartOf(i) + d - 1 /\ u.ms = now.ms /\ Day64(u.day)
  BY <1>6, InstantDay
<1>8. CASE d <= last
  <2>1. MonthIndex(u) = i /\ DayOf(u.day) = d
    BY <1>2, <1>5, <1>7, <1>8, IndexOf
  <2>2. -n \in Int /\ MonthIndex(u) + (-n) = j
    BY <1>2, <2>1
  <2>3. PlusMonths(u, -n) = [day |-> StartOf(j) + d - 1, ms |-> now.ms, ns |-> 0]
    <3>1. PlusMonths(u, -n) = [day |-> StartOf(j) + DayOf(u.day) - 1, ms |-> u.ms, ns |-> 0]
      BY Zenon, <1>2, <1>3, <1>6, <2>2, MonthsLand
    <3> QED BY Zenon, <1>7, <2>1, <3>1
  <2>4. PlusMonths(u, -n) = [now EXCEPT !.ns = 0]
    BY Zenon, <1>2, <1>4, <2>3
  <2> QED BY Zenon, <1>7, <1>8, <2>1, <2>4
<1>9. CASE ~(d <= last)
  <2>1. /\ d - last \in Int /\ 1 <= d - last /\ d - last <= LengthOf(i + 1)
        /\ StartOf(i) + d - 1 = StartOf(i + 1) + (d - last) - 1
    BY SMT, <1>2, <1>5, <1>9
  <2>2. MonthIndex(u) = i + 1 /\ DayOf(u.day) = d - last
    BY <1>3, <1>7, <2>1, IndexOf
  <2>3. -n \in Int /\ MonthIndex(u) + (-n) = j + 1
    BY <1>2, <2>2
  <2>4. PlusMonths(u, -n) = [day |-> StartOf(j + 1) + (d - last) - 1, ms |-> now.ms, ns |-> 0]
    BY <1>3, <1>6, <1>7, <2>2, <2>3, MonthsLand
  <2>5. StartOf(j + 1) + (d - last) - 1 # now.day
    BY SMT, <1>2, <1>5, <1>9
  <2>6. PlusMonths(u, -n) # [now EXCEPT !.ns = 0]
    BY <1>4, <2>4, <2>5
  <2> QED BY Zenon, <1>7, <1>9, <2>2, <2>6
<1> QED BY Zenon, <1>8, <1>9

(* Whatever was done to the object before, months added to it land where    *)
(* they should and come off again exactly when the day existed (operator+=  *)
(* and -= of CDate::months).                                                *)
THEOREM MonthsAlways == Spec => []MonthsExact
<1>1. Instant(now) => MonthsExact
  BY MonthsExactNow
<1> QED BY <1>1, InstantAlways, PTL

(***************************************************************************)
(* What a date loses on its way.                                           *)
(***************************************************************************)
Central(x) == x \in Int /\ -100001 < x /\ x < 100001

LEMMA InsideIs ==
  ASSUME NEW t, Instant(t), Inside(t)
  PROVE  Near(YearOf(t.day)) /\ t.day + 1 \in Int /\ Central(t.day) /\ Central(t.day + 1)
<1>1. PICK y \in Int : y = YearOf(t.day) /\ 1700 <= y /\ y <= 2240
  BY ModerateNear DEF Inside
<1>2. t.day \in Int /\ Day64(t.day)
  BY InstantDay, DayTyped
<1>3. DaysBefore(y) <= t.day /\ t.day < DaysBefore(y + 1)
  BY <1>1, <1>2, YearIs
<1>4. DaysBefore(y) \in Int /\ DaysBefore(y + 1) \in Int /\ y + 1 \in Int
  BY <1>1, YearLength
<1>5. /\ 146097 * (y - 1970) - 600 <= 400 * DaysBefore(y)
      /\ 400 * DaysBefore(y + 1) <= 146097 * ((y + 1) - 1970) + 600
  BY SMT, <1>1, YearNear
<1>6. -100000 < t.day /\ t.day < 100000
  BY SMT, <1>1, <1>2, <1>3, <1>4, <1>5
<1>7. Near(y)
  BY SMT, <1>1 DEF Near
<1>8. Central(t.day) /\ Central(t.day + 1) /\ t.day + 1 \in Int
  BY SMT, <1>2, <1>6 DEF Central
<1> QED BY <1>1, <1>7, <1>8

(* set(), given a day that exists and a time of that day. *)
LEMMA SetAt ==
  ASSUME NEW f, NEW y, Near(y), NEW m \in 1..12, NEW d \in Int, 1 <= d, d <= 31,
         f.year = y, f.month = m, f.day = d,
         NEW s \in Int, 0 <= s, s < MsOfDay,
         s = f.hour * MsOfHour + f.minute * MsOfMinute + f.second * MsOfSecond + f.ms,
         NEW x, x = MonthStart(y, m) + d - 1
  PROVE  Set(f) = [day |-> x, ms |-> s, ns |-> 0] /\ Day64(x) /\ Instant(Set(f))
<1>1. Short(y) = y /\ Byte(m) = m /\ Byte(d) = d
  <2>1. m \in Int /\ 0 <= m /\ m <= 255 /\ 0 <= d /\ d <= 255
    BY SMT
  <2> QED BY <2>1, NearShort, ByteIs
<1>2. Set(f) = Wrap(Normal(x, s, 0))
  BY Zenon, <1>1 DEF Set
<1>3. /\ Day64(x) /\ Instant([day |-> x, ms |-> s, ns |-> 0])
      /\ Wrap(Normal(x, s, 0)) = [day |-> x, ms |-> s, ns |-> 0]
  BY AtDay
<1> QED BY Zenon, <1>2, <1>3

LEMMA TripsOfFields ==
  ASSUME NEW t, Instant(t), Near(YearOf(t.day))
  PROVE  /\ Copy(t) = [t EXCEPT !.ns = 0]
         /\ ReadText(Fields(t)) = [day |-> t.day, ms |-> t.ms - (t.ms % MsOfSecond), ns |-> 0]
<1>1. /\ t = [day |-> t.day, ms |-> t.ms, ns |-> t.ns]
      /\ t.ms \in Int /\ 0 <= t.ms /\ t.ms < MsOfDay
  BY TimesTyped DEF Instant
<1>2. PICK y \in Int, m \in 1..12, d \in Int :
        /\ Near(y) /\ y = YearOf(t.day) /\ m = MonthOf(t.day) /\ d = DayOf(t.day)
        /\ 1 <= d /\ d <= 31 /\ t.day = MonthStart(y, m) + d - 1
  <2>1. PICK y \in Int, m \in 1..12, d \in Int :
          /\ y = YearOf(t.day) /\ m = MonthOf(t.day) /\ d = DayOf(t.day)
          /\ 1 <= d /\ d <= LastDay(y, m) /\ t.day = MonthStart(y, m) + d - 1
    BY InstantDay, DateOfDay
  <2>2. LastDay(y, m) \in Int /\ LastDay(y, m) <= 31
    BY MonthSteps
  <2>3. d <= 31
    BY SMT, <2>1, <2>2
  <2> QED BY Zenon, <2>1, <2>3
<1> DEFINE f == Fields(t)
           g == [f EXCEPT !.ms = 0]
           r == t.ms % MsOfSecond
<1>3. /\ f.year = y /\ f.month = m /\ f.day = d
      /\ g.year = y /\ g.month = m /\ g.day = d
      /\ f.hour = t.ms \div MsOfHour /\ f.minute = (t.ms % MsOfHour) \div MsOfMinute
      /\ f.second = (t.ms % MsOfMinute) \div MsOfSecond /\ f.ms = r
      /\ g.hour = f.hour /\ g.minute = f.minute /\ g.second = f.second /\ g.ms = 0
  BY <1>2 DEF Fields
<1> HIDE DEF f, g
<1>4. f.hour * MsOfHour + f.minute * MsOfMinute + f.second * MsOfSecond + f.ms = t.ms
  BY Zenon, <1>1, <1>3, TimeOfDay
<1>a. PICK a \in Int, b \in Int, c \in Int : a = f.hour /\ b = f.minute /\ c = f.second
  BY Zenon, <1>1, <1>3, TimeOfDay
<1>b. r \in Int /\ t.ms - r \in Int /\ 0 <= t.ms - r /\ t.ms - r < MsOfDay
  BY SMT, <1>1, Units
<1>5. g.hour * MsOfHour + g.minute * MsOfMinute + g.second * MsOfSecond + g.ms = t.ms - r
  <2> HIDE DEF r
  <2>1. a * MsOfHour + b * MsOfMinute + c * MsOfSecond + r = t.ms
    BY Zenon, <1>3, <1>4, <1>a
  <2>2. a * MsOfHour + b * MsOfMinute + c * MsOfSecond + 0 = t.ms - r
    BY SMT, <1>1, <1>b, <2>1, Units
  <2> QED BY Zenon, <1>3, <1>a, <2>2
<1>6. Set(f) = [day |-> t.day, ms |-> t.ms, ns |-> 0]
  BY <1>1, <1>2, <1>3, <1>4, SetAt
<1>7. Set(g) = [day |-> t.day, ms |-> t.ms - r, ns |-> 0]
  BY <1>1, <1>2, <1>3, <1>5, <1>b, SetAt
<1>8. Copy(t) = [t EXCEPT !.ns = 0]
  BY <1>1, <1>6 DEF Copy, f
<1>9. ReadText(Fields(t)) = [day |-> t.day, ms |-> t.ms - (t.ms % MsOfSecond), ns |-> 0]
  BY Zenon, <1>7 DEF ReadText, f, g, r
<1> QED BY <1>8, <1>9

LEMMA PlusSecond ==
  ASSUME NEW t \in Times, Central(t.day)
  PROVE  /\ Plus(t, 0, MsOfSecond) \in Times
         /\ Nanos(Plus(t, 0, MsOfSecond)) = Nanos(t) + MsOfSecond * NsOfMs
<1> DEFINE u == Normal(t.day + 0, t.ms + MsOfSecond, t.ns)
<1>1. PICK d \in Int, m \in Int, n \in Int : d = t.day /\ m = t.ms /\ n = t.ns
  BY TimesTyped
<1>2. d + 0 \in Int /\ m + MsOfSecond \in Int /\ d + 0 = d
  BY SMT, Units
<1>3. u \in Times /\ Nanos(u) = (d * MsOfDay + (m + MsOfSecond)) * NsOfMs + n
  BY <1>1, <1>2, NormalNanos
<1>4. (d * MsOfDay + (m + MsOfSecond)) * NsOfMs + n = ((d * MsOfDay + m) * NsOfMs + n) + MsOfSecond * NsOfMs
  BY SMT, Units
<1>5. Nanos(u) = Nanos(t) + MsOfSecond * NsOfMs
  BY <1>1, <1>3, <1>4 DEF Nanos
<1>6. u.day = d + ((m + MsOfSecond) + n \div NsOfMs) \div MsOfDay
  <2>1. u = Normal(d, m + MsOfSecond, n)
    BY Zenon, <1>1, <1>2
  <2> HIDE DEF u
  <2> QED BY <2>1 DEF Normal
<1> HIDE DEF u
<1>7. 0 <= m /\ m < MsOfDay /\ 0 <= n /\ n < NsOfMs
  BY <1>1, TimesTyped
<1>8. u.day \in Int /\ d <= u.day /\ u.day <= d + 1
  BY SMT, <1>6, <1>7, Units
<1>9. Representable(u)
  <2>1. -100001 < d /\ d < 100001
    BY SMT, <1>1 DEF Central
  <2> QED BY SMT, <1>3, <1>8, <2>1, DayFits
<1>10. Plus(t, 0, MsOfSecond) = u
  BY <1>3, <1>9, WrapFits DEF Plus, u
<1> QED BY <1>3, <1>5, <1>10

(* Through seconds: towards 1970, by less than a second. *)
LEMMA TripOfSeconds ==
  ASSUME NEW t, Instant(t), Inside(t), NEW s, s = FromSeconds(ToSeconds(t))
  PROVE  /\ Earlier(s, Plus(t, 0, MsOfSecond)) /\ Earlier(t, Plus(s, 0, MsOfSecond))
         /\ s.ms % MsOfSecond = 0 /\ s.ns = 0
         /\ IF t.day < 0 THEN NotLater(t, s) ELSE NotLater(s, t)
<1> DEFINE up == t.day < 0 /\ (t.ms % MsOfSecond # 0 \/ t.ns # 0)
           next == t.ms \div MsOfSecond + (IF up THEN 1 ELSE 0)
<1>1. t \in Times /\ Central(t.day) /\ Central(t.day + 1)
  BY InsideIs DEF Instant
<1>2. PICK D \in Int, M \in Int, N \in Int :
        /\ D = t.day /\ M = t.ms /\ N = t.ns /\ 0 <= M /\ M < MsOfDay /\ 0 <= N /\ N < NsOfMs
  BY <1>1, TimesTyped
<1>3. PICK S \in Int, R \in Int : /\ S = t.ms \div MsOfSecond /\ R = t.ms % MsOfSecond
                                  /\ M = S * MsOfSecond + R /\ 0 <= R /\ R < MsOfSecond
                                  /\ 0 <= S /\ S < SecondsOfDay
  BY SMT, <1>2, Units
<1>4. PICK U \in {0, 1} : U = IF up THEN 1 ELSE 0
  OBVIOUS
<1>5. U = 1 <=> (D < 0 /\ (R # 0 \/ N # 0))
  <2>1. up <=> (D < 0 /\ (R # 0 \/ N # 0))
    BY Zenon, <1>2, <1>3
  <2> HIDE DEF up
  <2> QED BY <1>4, <2>1
<1>6. next = S + U
  BY Zenon, <1>3, <1>4
<1>7. ToSeconds(t) = [day |-> D + (S + U) \div SecondsOfDay, second |-> (S + U) % SecondsOfDay]
  <2>1. ToSeconds(t) = [day |-> t.day + next \div SecondsOfDay, second |-> next % SecondsOfDay]
    BY Zenon DEF ToSeconds
  <2> HIDE DEF next
  <2> QED BY Zenon, <1>2, <1>6, <2>1
<1> HIDE DEF up, next
<1>8. PICK E \in Int, F \in Int :
        /\ E = D + (S + U) \div SecondsOfDay /\ F = ((S + U) % SecondsOfDay) * MsOfSecond
        /\ (E = D \/ E = D + 1) /\ 0 <= F /\ F < MsOfDay /\ F % MsOfSecond = 0
        /\ E * MsOfDay + F = D * MsOfDay + (S + U) * MsOfSecond
  BY SMT, <1>3, <1>4, Units
<1>9. s = Wrap(Normal(E, F, 0))
  <2>1. PICK z : z = ToSeconds(t)
    OBVIOUS
  <2>2. z.day = D + (S + U) \div SecondsOfDay /\ z.second = (S + U) % SecondsOfDay
    BY <1>7, <2>1
  <2> QED BY Zenon, <1>8, <2>1, <2>2 DEF FromSeconds
<1>10. Normal(E, F, 0) = [day |-> E, ms |-> F, ns |-> 0] /\ [day |-> E, ms |-> F, ns |-> 0] \in Times
  <2>1. 0 \in Int /\ 0 <= 0 /\ 0 < NsOfMs
    BY UnitsTyped
  <2> QED BY <1>8, <2>1, NormalIs, TimesMade
<1>11. PICK v : v = [day |-> E, ms |-> F, ns |-> 0]
  OBVIOUS
<1>12. v \in Times /\ v.day = E /\ v.ms = F /\ v.ns = 0 /\ Central(v.day)
  BY <1>1, <1>2, <1>8, <1>10, <1>11
<1>13. Representable(v)
  <2>1. E \in Int /\ -106752 < E /\ E < 106751
    BY SMT, <1>12 DEF Central
  <2> QED BY SMT, <1>12, <2>1, DayFits
<1>14. s = v
  BY Zenon, <1>9, <1>10, <1>11, <1>12, <1>13, WrapFits
<1>15. Nanos(v) = (E * MsOfDay + F) * NsOfMs /\ Nanos(t) = (D * MsOfDay + M) * NsOfMs + N
  BY <1>2, <1>12, UnitsTyped DEF Nanos
<1>16. /\ Plus(t, 0, MsOfSecond) \in Times /\ Plus(v, 0, MsOfSecond) \in Times
       /\ Nanos(Plus(t, 0, MsOfSecond)) = Nanos(t) + MsOfSecond * NsOfMs
       /\ Nanos(Plus(v, 0, MsOfSecond)) = Nanos(v) + MsOfSecond * NsOfMs
  BY Zenon, <1>1, <1>12, PlusSecond
<1>17. PICK a \in Int, b \in Int :
         /\ a = Nanos(t) /\ b = Nanos(v)
         /\ a = (D * MsOfDay + (S * MsOfSecond + R)) * NsOfMs + N
         /\ b = (D * MsOfDay + (S + U) * MsOfSecond) * NsOfMs
  <2>1. Nanos(t) \in Int /\ Nanos(v) \in Int
    BY <1>1, <1>12, TimesTyped
  <2> QED BY Zenon, <1>3, <1>8, <1>15, <2>1
<1>18. a - b = (R * NsOfMs + N) - (U * MsOfSecond) * NsOfMs
  <2>1. PICK P \in Int, Q \in Int : P = D * MsOfDay + S * MsOfSecond /\ Q = U * MsOfSecond
    BY UnitsTyped, Units
  <2>2. D * MsOfDay + (S * MsOfSecond + R) = P + R /\ D * MsOfDay + (S + U) * MsOfSecond = P + Q
    BY SMT, <2>1, Units
  <2>3. a = (P + R) * NsOfMs + N /\ b = (P + Q) * NsOfMs
    BY Zenon, <1>17, <2>2
  <2>4. a - b = (R * NsOfMs + N) - Q * NsOfMs
    BY SMT, <2>3, Units
  <2> QED BY Zenon, <2>1, <2>4
<1>19. 0 <= R * NsOfMs + N /\ R * NsOfMs + N < MsOfSecond * NsOfMs
  BY SMT, <1>2, <1>3, Units
<1>20. /\ b < a + MsOfSecond * NsOfMs /\ a < b + MsOfSecond * NsOfMs
       /\ IF D < 0 THEN a <= b ELSE b <= a
  <2>1. CASE U = 0
    <3>1. a - b = R * NsOfMs + N
      BY SMT, <1>18, <2>1, Units
    <3>2. D < 0 => a - b = 0
      BY SMT, <1>5, <2>1, <3>1, Units
    <3> QED BY SMT, <1>19, <3>1, <3>2, Units
  <2>2. CASE U = 1
    <3>1. a - b = (R * NsOfMs + N) - MsOfSecond * NsOfMs
      BY SMT, <1>18, <2>2, Units
    <3>2. D < 0 /\ (R # 0 \/ N # 0)
      BY <1>5, <2>2
    <3>3. 0 < R * NsOfMs + N
      <4>1. 0 <= N /\ 0 <= R /\ (1 <= R \/ 1 <= N)
        BY SMT, <1>2, <1>3, <3>2
      <4> QED BY SMT, <4>1, Units
    <3> QED BY SMT, <1>19, <3>1, <3>2, <3>3, Units
  <2> QED BY <2>1, <2>2
<1>21. Earlier(v, Plus(t, 0, MsOfSecond)) /\ Earlier(t, Plus(v, 0, MsOfSecond))
  BY Zenon, <1>1, <1>12, <1>16, <1>17, <1>20, EarlierNanos
<1>22. IF t.day < 0 THEN NotLater(t, v) ELSE NotLater(v, t)
  BY Zenon, <1>1, <1>2, <1>12, <1>17, <1>20, EarlierNanos
<1> QED BY Zenon, <1>8, <1>12, <1>14, <1>21, <1>22

LEMMA TripsTruncateNow ==
  ASSUME Instant(now)
  PROVE  TripsTruncate
BY Zenon, InsideIs, TripsOfFields, TripOfSeconds DEF TripsTruncate

(* A copy of a date keeps it to the millisecond, its text to the second,    *)
(* and its seconds to the second towards 1970, after whatever was done to   *)
(* it (the copy constructor, toString() and fromString(), toSeconds() and   *)
(* fromSeconds()).                                                          *)
THEOREM TripsAlways == Spec => []TripsTruncate
<1>1. Instant(now) => TripsTruncate
  BY TripsTruncateNow
<1> QED BY <1>1, InstantAlways, PTL

(***************************************************************************)
(* The setters.                                                            *)
(***************************************************************************)
LEMMA TimeRanges ==
  ASSUME NEW s \in Int, 0 <= s, s < MsOfDay
  PROVE  /\ 0 <= (s % MsOfHour) \div MsOfMinute /\ (s % MsOfHour) \div MsOfMinute < 60
         /\ 0 <= (s % MsOfMinute) \div MsOfSecond /\ (s % MsOfMinute) \div MsOfSecond < 60
BY SMT, Units

LEMMA TimeSplit ==
  ASSUME NEW a \in Int, NEW b \in Int, NEW c \in Int, 0 <= b, b < 60, 0 <= c, c < 60,
         NEW s, s = a * MsOfHour + b * MsOfMinute + c * MsOfSecond
  PROVE  /\ s \div MsOfHour = a /\ (s % MsOfHour) \div MsOfMinute = b
         /\ (s % MsOfMinute) \div MsOfSecond = c /\ s % MsOfSecond = 0
<1>1. s \in Int /\ s = 1000 * (3600 * a + (60 * b + c))
  BY SMT, Units
<1>2. PICK p \in Int, q \in Int : p = 1000 * (60 * b + c) /\ q = 1000 * c
  BY SMT
<1>3. s \div MsOfHour = a /\ s % MsOfHour = p /\ s % MsOfMinute = q
  BY SMT, <1>1, <1>2, Units
<1>4. p \div MsOfMinute = b /\ q \div MsOfSecond = c /\ s % MsOfSecond = 0
  BY SMT, <1>1, <1>2, Units
<1> QED BY <1>3, <1>4

(* Fields up to the second, put together, are the fields of what they make. *)
LEMMA SetWhole ==
  ASSUME NEW t, Instant(t), NEW y \in Int, Near(y), NEW m \in 1..12,
         NEW d \in Int, 1 <= d, d <= LastDay(y, m),
         NEW f, f = [year |-> y, month |-> m, day |-> d, hour |-> Fields(t).hour,
                     minute |-> Fields(t).minute, second |-> Fields(t).second, ms |-> 0]
  PROVE  Fields(Set(f)) = f
<1> DEFINE r == t.ms % MsOfSecond
           s == t.ms - r
<1>1. t.ms \in Int /\ 0 <= t.ms /\ t.ms < MsOfDay
  BY TimesTyped DEF Instant
<1>2. PICK a \in Int, b \in Int, c \in Int :
        /\ a = t.ms \div MsOfHour /\ b = (t.ms % MsOfHour) \div MsOfMinute
        /\ c = (t.ms % MsOfMinute) \div MsOfSecond
        /\ a * MsOfHour + b * MsOfMinute + c * MsOfSecond + r = t.ms
        /\ 0 <= b /\ b < 60 /\ 0 <= c /\ c < 60
  <2>1. /\ t.ms \div MsOfHour \in Int /\ (t.ms % MsOfHour) \div MsOfMinute \in Int
        /\ (t.ms % MsOfMinute) \div MsOfSecond \in Int
        /\ (t.ms \div MsOfHour) * MsOfHour + ((t.ms % MsOfHour) \div MsOfMinute) * MsOfMinute
              + ((t.ms % MsOfMinute) \div MsOfSecond) * MsOfSecond + r = t.ms
    BY <1>1, TimeOfDay
  <2>2. /\ 0 <= (t.ms % MsOfHour) \div MsOfMinute /\ (t.ms % MsOfHour) \div MsOfMinute < 60
        /\ 0 <= (t.ms % MsOfMinute) \div MsOfSecond /\ (t.ms % MsOfMinute) \div MsOfSecond < 60
    BY <1>1, TimeRanges
  <2> HIDE DEF r
  <2> QED BY Zenon, <2>1, <2>2
<1>3. /\ f.year = y /\ f.month = m /\ f.day = d
      /\ f.hour = a /\ f.minute = b /\ f.second = c /\ f.ms = 0
      /\ f = [year |-> y, month |-> m, day |-> d, hour |-> a, minute |-> b, second |-> c, ms |-> 0]
  <2>1. Fields(t).hour = a /\ Fields(t).minute = b /\ Fields(t).second = c
    BY <1>2 DEF Fields
  <2> QED BY <2>1
<1>4. s \in Int /\ r \in Int /\ 0 <= s /\ s < MsOfDay
  BY SMT, <1>1, Units
<1>5. s = f.hour * MsOfHour + f.minute * MsOfMinute + f.second * MsOfSecond + f.ms
  <2> HIDE DEF r
  <2>1. t.ms - r = a * MsOfHour + b * MsOfMinute + c * MsOfSecond + 0
    BY SMT, <1>1, <1>2, <1>4, Units
  <2> QED BY Zenon, <1>3, <2>1
<1> HIDE DEF r, s
<1>6. /\ s \div MsOfHour = a /\ (s % MsOfHour) \div MsOfMinute = b
      /\ (s % MsOfMinute) \div MsOfSecond = c /\ s % MsOfSecond = 0
  <2>1. s = a * MsOfHour + b * MsOfMinute + c * MsOfSecond
    <3>1. s = a * MsOfHour + b * MsOfMinute + c * MsOfSecond + 0
      BY Zenon, <1>3, <1>5
    <3> QED BY SMT, <3>1, Units
  <2> QED BY <1>2, <2>1, TimeSplit
<1>7. d <= 31
  <2>1. LastDay(y, m) \in Int /\ LastDay(y, m) <= 31
    BY MonthSteps
  <2> QED BY SMT, <2>1
<1>8. PICK x : x = MonthStart(y, m) + d - 1
  OBVIOUS
<1>9. Set(f) = [day |-> x, ms |-> s, ns |-> 0] /\ Day64(x)
  <2>1. PICK g : g = f
    OBVIOUS
  <2>2. /\ g.year = y /\ g.month = m /\ g.day = d
        /\ s = g.hour * MsOfHour + g.minute * MsOfMinute + g.second * MsOfSecond + g.ms
    BY Zenon, <1>3, <1>5, <2>1
  <2>3. Set(g) = [day |-> x, ms |-> s, ns |-> 0] /\ Day64(x)
    BY <1>4, <1>7, <1>8, <2>2, SetAt
  <2> QED BY Zenon, <2>1, <2>3
<1>10. YearOf(x) = y /\ MonthOf(x) = m /\ DayOf(x) = d
  BY <1>8, <1>9, DayOfDate
<1>11. PICK u : u = Set(f) /\ u.day = x /\ u.ms = s
  BY <1>9
<1>12. Fields(u) = [year |-> y, month |-> m, day |-> d, hour |-> a, minute |-> b, second |-> c, ms |-> 0]
  BY Zenon, <1>6, <1>10, <1>11 DEF Fields
<1> QED BY Zenon, <1>3, <1>11, <1>12

(* set() throws exactly when the day does not exist. *)
LEMMA ThrowsWhen ==
  ASSUME NEW f, NEW y, Near(y), NEW m \in 1..12, NEW d \in Int, 0 <= d, d <= 31,
         f.year = y, f.month = m, f.day = d
  PROVE  Throws(f) <=> ~(1 <= d /\ d <= LastDay(y, m))
<1>1. Short(y) = y /\ Byte(m) = m /\ Byte(d) = d /\ y \in Int
  <2>1. m \in Int /\ 0 <= m /\ m <= 255 /\ 0 <= d /\ d <= 255
    BY SMT
  <2> QED BY <2>1, NearShort, ByteIs
<1>2. LastDay(y, m) \in Int
  BY <1>1, MonthSteps
<1>3. Valid(y, m, d) <=> (1 <= d /\ d <= LastDay(y, m))
  BY <1>2 DEF Valid
<1> QED BY Zenon, <1>1, <1>3, <1>2 DEF Throws

LEMMA SetterLands ==
  ASSUME Instant(now), NEW y, Near(y), NEW m \in 1..12, NEW d \in Int, 0 <= d, d <= 31,
         NEW f, f = [year |-> y, month |-> m, day |-> d, hour |-> Fields(now).hour,
                     minute |-> Fields(now).minute, second |-> Fields(now).second, ms |-> 0],
         Assign(f)
  PROVE  IF 1 <= d /\ d <= LastDay(y, m) THEN Fields(now') = f ELSE now' = now
<1>1. f.year = y /\ f.month = m /\ f.day = d
  OBVIOUS
<1>2. Throws(f) <=> ~(1 <= d /\ d <= LastDay(y, m))
  BY <1>1, ThrowsWhen
<1>3. now' = IF Throws(f) THEN now ELSE Set(f)
  BY Zenon DEF Assign, Becomes
<1>4. y \in Int
  BY NearShort
<1>5. CASE 1 <= d /\ d <= LastDay(y, m)
  <2>1. Fields(Set(f)) = f
    BY <1>4, <1>5, SetWhole
  <2> QED BY Zenon, <1>2, <1>3, <1>5, <2>1
<1>6. CASE ~(1 <= d /\ d <= LastDay(y, m))
  BY Zenon, <1>2, <1>3, <1>6
<1> QED BY Zenon, <1>5, <1>6

LEMMA SetsFieldNow ==
  ASSUME Instant(now)
  PROVE  SetsField
<1> SUFFICES ASSUME Inside(now) PROVE SetsField
  BY Zenon DEF SetsField
<1>1. PICK y, m, d, h, i, s : /\ y = YearOf(now.day) /\ m = MonthOf(now.day) /\ d = DayOf(now.day)
                              /\ h = Fields(now).hour /\ i = Fields(now).minute /\ s = Fields(now).second
  OBVIOUS
<1>2. Whole(Fields(now)) = [year |-> y, month |-> m, day |-> d, hour |-> h, minute |-> i, second |-> s, ms |-> 0]
  BY <1>1 DEF Whole, Fields
<1>3. y \in Int /\ Near(y) /\ m \in 1..12 /\ d \in Int /\ 1 <= d /\ 0 <= d /\ d <= 31
  <2>1. y \in Int /\ m \in 1..12 /\ d \in Int /\ 1 <= d /\ d <= LastDay(y, m)
    BY Zenon, <1>1, InstantDay, DateOfDay
  <2>2. LastDay(y, m) \in Int /\ LastDay(y, m) <= 31
    BY <2>1, MonthSteps
  <2>3. 0 <= d /\ d <= 31
    BY SMT, <2>1, <2>2
  <2> QED BY Zenon, <1>1, <2>1, <2>3, InsideIs
<1>4. ASSUME NEW n \in Small \cap 1..12, SetMonth(n)
      PROVE  IF DayOf(now.day) <= LastDay(YearOf(now.day), n)
             THEN Fields(now') = [Whole(Fields(now)) EXCEPT !.month = n] ELSE now' = now
  <2>1. PICK f : f = [Whole(Fields(now)) EXCEPT !.month = n]
    OBVIOUS
  <2>2. f = [year |-> y, month |-> n, day |-> d, hour |-> h, minute |-> i, second |-> s, ms |-> 0]
    BY <1>2, <2>1
  <2>3. Assign(f)
    BY Zenon, <1>4, <2>1 DEF SetMonth
  <2>4. IF 1 <= d /\ d <= LastDay(y, n) THEN Fields(now') = f ELSE now' = now
    BY <1>1, <1>3, <2>2, <2>3, SetterLands
  <2> QED BY Zenon, <1>1, <1>3, <2>1, <2>4
<1>5. ASSUME NEW n \in Small \cap 0..31, SetDay(n)
      PROVE  IF n \in 1..LastDay(YearOf(now.day), MonthOf(now.day))
             THEN Fields(now') = [Whole(Fields(now)) EXCEPT !.day = n] ELSE now' = now
  <2>1. PICK f : f = [Whole(Fields(now)) EXCEPT !.day = n]
    OBVIOUS
  <2>2. f = [year |-> y, month |-> m, day |-> n, hour |-> h, minute |-> i, second |-> s, ms |-> 0]
    BY <1>2, <2>1
  <2>3. Assign(f)
    BY Zenon, <1>5, <2>1 DEF SetDay
  <2>4. n \in Int /\ 0 <= n /\ n <= 31
    BY SMT
  <2>5. IF 1 <= n /\ n <= LastDay(y, m) THEN Fields(now') = f ELSE now' = now
    BY <1>1, <1>3, <2>2, <2>3, <2>4, SetterLands
  <2>6. LastDay(y, m) \in Int
    BY <1>3, MonthSteps
  <2>7. n \in 1..LastDay(y, m) <=> (1 <= n /\ n <= LastDay(y, m))
    BY SMT, <2>4, <2>6
  <2> QED BY Zenon, <1>1, <2>1, <2>5, <2>7
<1>6. ASSUME NEW n \in Years \cap Moderate, SetYear(n)
      PROVE  IF DayOf(now.day) <= LastDay(n, MonthOf(now.day))
             THEN Fields(now') = [Whole(Fields(now)) EXCEPT !.year = n] ELSE now' = now
  <2>1. PICK f : f = [Whole(Fields(now)) EXCEPT !.year = n]
    OBVIOUS
  <2>2. f = [year |-> n, month |-> m, day |-> d, hour |-> h, minute |-> i, second |-> s, ms |-> 0]
    BY <1>2, <2>1
  <2>3. Assign(f)
    BY Zenon, <1>6, <2>1 DEF SetYear
  <2>4. Near(n)
    BY SMT, ModerateNear DEF Near
  <2>5. IF 1 <= d /\ d <= LastDay(n, m) THEN Fields(now') = f ELSE now' = now
    BY <1>1, <1>3, <2>2, <2>3, <2>4, SetterLands
  <2> QED BY Zenon, <1>1, <1>3, <2>1, <2>5
<1> QED BY Zenon, <1>4, <1>5, <1>6 DEF SetsField

(* A setter changes its field and what is past the second, or throws and    *)
(* changes nothing because the day does not exist (setYear(), setMonth()    *)
(* and setDay(), through set()).                                            *)
THEOREM SettersAlways == Spec => SettersExact
<1>1. Instant(now) => [SetsField]_dateVars
  BY SetsFieldNow
<1> QED BY <1>1, InstantAlways, PTL DEF SettersExact

(***************************************************************************)
(* The simulation dates: whole seconds, days that leave room.              *)
(***************************************************************************)
Tidy(t)    == t \in Times /\ t.ns = 0 /\ t.ms % MsOfSecond = 0
Seconds(t) == t.day * SecondsOfDay + t.ms \div MsOfSecond
Far(x)     == x \in Int /\ -106000 < x /\ x < 106000
WindDay(x) == x \in Int /\ -98710 < x /\ x < 99010
SimDay(x)  == x \in Int /\ -102400 < x /\ x < 102700
TwoYears(n) == n \in Int /\ 0 <= n /\ n <= 63072000

LEMMA FarFits ==
  ASSUME NEW t \in Times, Far(t.day)
  PROVE  Instant(t) /\ Wrap(t) = t
<1>1. Representable(t)
  BY SMT, DayFits DEF Far
<1> QED BY <1>1, WrapFits DEF Instant

LEMMA DaysRoom ==
  ASSUME NEW x
  PROVE  /\ WindDay(x) => SimDay(x) /\ Far(x)
         /\ SimDay(x) => Far(x)
BY SMT DEF WindDay, SimDay, Far

LEMMA TidyIs ==
  ASSUME NEW t, Tidy(t)
  PROVE  /\ t.day \in Int /\ t.ms \in Int /\ 0 <= t.ms /\ t.ms < MsOfDay
         /\ t = [day |-> t.day, ms |-> t.ms, ns |-> 0]
         /\ t.ms \div MsOfSecond \in Int /\ 0 <= t.ms \div MsOfSecond /\ t.ms \div MsOfSecond < SecondsOfDay
         /\ t.ms = (t.ms \div MsOfSecond) * MsOfSecond
         /\ Seconds(t) \in Int
<1>1. /\ t.day \in Int /\ t.ms \in Int /\ 0 <= t.ms /\ t.ms < MsOfDay
      /\ t = [day |-> t.day, ms |-> t.ms, ns |-> 0] /\ t.ms % MsOfSecond = 0
  BY TimesTyped DEF Tidy
<1>2. /\ t.ms \div MsOfSecond \in Int /\ 0 <= t.ms \div MsOfSecond /\ t.ms \div MsOfSecond < SecondsOfDay
      /\ t.ms = (t.ms \div MsOfSecond) * MsOfSecond
  BY SMT, <1>1, Units
<1>3. Seconds(t) \in Int
  BY SMT, <1>1, <1>2, Units DEF Seconds
<1> QED BY Zenon, <1>1, <1>2, <1>3

LEMMA TidySeconds ==
  ASSUME NEW t, Tidy(t)
  PROVE  ToSeconds(t) = [day |-> t.day, second |-> t.ms \div MsOfSecond]
<1> DEFINE up == t.day < 0 /\ (t.ms % MsOfSecond # 0 \/ t.ns # 0)
           next == t.ms \div MsOfSecond + (IF up THEN 1 ELSE 0)
<1>1. ~up
  BY Zenon DEF Tidy
<1>2. PICK s \in Int : s = t.ms \div MsOfSecond /\ 0 <= s /\ s < SecondsOfDay
  BY TidyIs
<1>3. next = s
  <2>1. next = s + 0
    BY Zenon, <1>1, <1>2
  <2> QED BY SMT, <2>1
<1>4. ToSeconds(t) = [day |-> t.day + next \div SecondsOfDay, second |-> next % SecondsOfDay]
  BY Zenon DEF ToSeconds
<1> HIDE DEF next, up
<1>5. s \div SecondsOfDay = 0 /\ s % SecondsOfDay = s
  BY SMT, <1>2, Units
<1>6. t.day + 0 = t.day
  BY TidyIs
<1> QED BY Zenon, <1>2, <1>3, <1>4, <1>5, <1>6

LEMMA BetweenIs ==
  ASSUME NEW a, NEW b, Tidy(a), Tidy(b)
  PROVE  Between(a, b) = Seconds(b) - Seconds(a)
<1>1. PICK d \in Int, s \in Int : d = a.day /\ s = a.ms \div MsOfSecond
  BY TidyIs
<1>2. PICK e \in Int, u \in Int : e = b.day /\ u = b.ms \div MsOfSecond
  BY TidyIs
<1>3. PICK x : x = ToSeconds(a) /\ x.day = d /\ x.second = s
  BY <1>1, TidySeconds
<1>4. PICK y : y = ToSeconds(b) /\ y.day = e /\ y.second = u
  BY <1>2, TidySeconds
<1>5. Between(a, b) = (e - d) * SecondsOfDay + u - s
  BY Zenon, <1>3, <1>4 DEF Between
<1>6. Seconds(a) = d * SecondsOfDay + s /\ Seconds(b) = e * SecondsOfDay + u
  BY Zenon, <1>1, <1>2 DEF Seconds
<1> QED BY SMT, <1>5, <1>6, Units

LEMMA PlusDays ==
  ASSUME NEW t, Tidy(t), NEW n \in Int, Far(t.day + n)
  PROVE  /\ Plus(t, n, 0) = [day |-> t.day + n, ms |-> t.ms, ns |-> 0]
         /\ Tidy(Plus(t, n, 0))
<1>1. PICK x \in Int, m \in Int : x = t.day + n /\ m = t.ms /\ 0 <= m /\ m < MsOfDay /\ t.ns = 0 /\ m % MsOfSecond = 0
  BY TidyIs DEF Tidy
<1>2. t.ms + 0 = m
  BY <1>1
<1>3. Plus(t, n, 0) = Wrap(Normal(x, m, 0))
  BY Zenon, <1>1, <1>2 DEF Plus
<1>4. PICK v : v = [day |-> x, ms |-> m, ns |-> 0]
  OBVIOUS
<1>5. 0 \in Int /\ 0 <= 0 /\ 0 < NsOfMs
  BY UnitsTyped
<1>6. Normal(x, m, 0) = v /\ v \in Times /\ v.day = x /\ v.ms = m /\ v.ns = 0
  BY <1>1, <1>4, <1>5, NormalIs, TimesMade
<1>7. Wrap(v) = v
  BY Zenon, <1>1, <1>6, FarFits
<1>8. Tidy(v)
  BY Zenon, <1>1, <1>6 DEF Tidy
<1> QED BY Zenon, <1>1, <1>3, <1>4, <1>6, <1>7, <1>8

LEMMA PlusSecs ==
  ASSUME NEW t, Tidy(t), SimDay(t.day), NEW n \in Int, TwoYears(n)
  PROVE  Tidy(PlusSeconds(t, n)) /\ Seconds(PlusSeconds(t, n)) = Seconds(t) + n
<1>1. PICK d \in Int, s \in Int : /\ d = t.day /\ s = t.ms \div MsOfSecond /\ t.ms = s * MsOfSecond
                                  /\ 0 <= s /\ s < SecondsOfDay /\ t.ns = 0
  BY SMT, TidyIs DEF Tidy
<1>2. PICK p \in Int, q \in Int : /\ p = n \div SecondsOfDay /\ q = n % SecondsOfDay
                                  /\ n = p * SecondsOfDay + q /\ 0 <= q /\ q < SecondsOfDay
                                  /\ 0 <= p /\ p <= 730
  BY SMT, Units DEF TwoYears
<1>3. PICK c \in Int, e \in Int : /\ 0 <= e /\ e < SecondsOfDay
                                  /\ c * SecondsOfDay + e = (d * SecondsOfDay + s) + n
                                  /\ d <= c /\ c <= d + 731
  <2>0. PICK w \in Int : w = SecondsOfDay /\ 0 < w
    BY SMT, Units
  <2>1. CASE s + q < w
    <3>1. (d + p) * w + (s + q) = (d * w + s) + n
      BY SMT, <1>2, <2>0
    <3>2. d + p \in Int /\ s + q \in Int /\ 0 <= s + q /\ d <= d + p /\ d + p <= d + 731
      BY SMT, <1>1, <1>2
    <3> QED BY Zenon, <2>0, <2>1, <3>1, <3>2
  <2>2. CASE ~(s + q < w)
    <3>1. (d + p + 1) * w + (s + q - w) = (d * w + s) + n
      BY SMT, <1>2, <2>0
    <3>2. /\ d + p + 1 \in Int /\ s + q - w \in Int /\ 0 <= s + q - w /\ s + q - w < w
          /\ d <= d + p + 1 /\ d + p + 1 <= d + 731
      BY SMT, <1>1, <1>2, <2>0, <2>2
    <3> QED BY Zenon, <2>0, <3>1, <3>2
  <2> QED BY <2>1, <2>2
<1>4. Plus(t, p, q * MsOfSecond) = Wrap(Normal(d + p, s * MsOfSecond + q * MsOfSecond, 0))
  BY Zenon, <1>1 DEF Plus
<1>5. PICK v : v = [day |-> c, ms |-> e * MsOfSecond, ns |-> 0]
  OBVIOUS
<1>6. /\ e * MsOfSecond \in Int /\ 0 <= e * MsOfSecond /\ e * MsOfSecond < MsOfDay
      /\ 0 \in Int /\ 0 <= 0 /\ 0 < NsOfMs
      /\ (e * MsOfSecond) % MsOfSecond = 0 /\ (e * MsOfSecond) \div MsOfSecond = e
  BY SMT, <1>3, Units
<1>7. v \in Times /\ v.day = c /\ v.ms = e * MsOfSecond /\ v.ns = 0
  BY <1>5, <1>6, TimesMade
<1>8. Normal(d + p, s * MsOfSecond + q * MsOfSecond, 0) = v
  <2>1. d + p \in Int /\ s * MsOfSecond + q * MsOfSecond \in Int /\ 0 \in Int
    BY SMT, Units
  <2>2. /\ Normal(d + p, s * MsOfSecond + q * MsOfSecond, 0) \in Times
        /\ Nanos(Normal(d + p, s * MsOfSecond + q * MsOfSecond, 0))
             = ((d + p) * MsOfDay + (s * MsOfSecond + q * MsOfSecond)) * NsOfMs + 0
    BY <2>1, NormalNanos
  <2>3. (d + p) * MsOfDay + (s * MsOfSecond + q * MsOfSecond) = c * MsOfDay + e * MsOfSecond
    BY SMT, <1>2, <1>3, Units
  <2>4. Nanos(v) = (c * MsOfDay + e * MsOfSecond) * NsOfMs + 0
    BY Zenon, <1>7 DEF Nanos
  <2> QED BY Zenon, <1>7, <2>2, <2>3, <2>4, EarlierNanos
<1>9. Far(v.day)
  BY SMT, <1>1, <1>3, <1>7 DEF SimDay, Far
<1>10. PlusSeconds(t, n) = v
  <2>1. PlusSeconds(t, n) = Plus(t, p, q * MsOfSecond)
    BY Zenon, <1>2 DEF PlusSeconds
  <2> QED BY Zenon, <1>4, <1>7, <1>8, <1>9, <2>1, FarFits
<1>11. Tidy(v)
  BY Zenon, <1>6, <1>7 DEF Tidy
<1>12. Seconds(v) = c * SecondsOfDay + e /\ Seconds(t) = d * SecondsOfDay + s
  BY Zenon, <1>1, <1>6, <1>7 DEF Seconds
<1> QED BY Zenon, <1>3, <1>10, <1>11, <1>12

(* The dates of a wind file, its times of two characters each. *)
LEMMA WindDays ==
  ASSUME NEW y \in Moderate, NEW m \in 1..12, NEW d \in Int, 1 <= d, d <= LastDay(y, m),
         NEW q \in Int, -1 <= q, q <= 4
  PROVE  MonthStart(y, m) + d - 1 \in Int /\ WindDay(MonthStart(y, m) + d - 1 + q)
<1>1. y \in Int /\ 1700 <= y /\ y <= 2240 /\ y + 1 \in Int
  BY SMT, ModerateNear
<1>a. y \in Int /\ y + 1 \in Int
  BY SMT, <1>1
<1>2. /\ MonthStart(y, m) \in Int /\ LastDay(y, m) \in Int /\ 28 <= LastDay(y, m)
      /\ DaysBefore(y) <= MonthStart(y, m) /\ MonthStart(y, m) + LastDay(y, m) <= DaysBefore(y + 1)
  BY Zenon, <1>a, MonthSteps
<1>3. DaysBefore(y) \in Int /\ DaysBefore(y + 1) \in Int
  BY <1>a, YearLength
<1>4. /\ 146097 * (y - 1970) - 600 <= 400 * DaysBefore(y)
      /\ 400 * DaysBefore(y + 1) <= 146097 * ((y + 1) - 1970) + 600
  BY SMT, <1>1, YearNear
<1> QED BY SMT, <1>1, <1>2, <1>3, <1>4 DEF WindDay

LEMMA YearOfWind ==
  ASSUME NEW x, WindDay(x)
  PROVE  Near(YearOf(x))
<1>1. x \in Int /\ Day64(x)
  BY SMT DEF WindDay, Day64
<1>2. PICK y \in Int : y = YearOf(x) /\ DaysBefore(y) <= x /\ x < DaysBefore(y + 1)
  BY Zenon, <1>1, YearIs
<1>3. DaysBefore(y) \in Int /\ DaysBefore(y + 1) \in Int /\ y + 1 \in Int
  BY <1>2, YearLength
<1>4. /\ 146097 * (y - 1970) - 600 <= 400 * DaysBefore(y)
      /\ 400 * DaysBefore(y + 1) <= 146097 * ((y + 1) - 1970) + 600
  BY SMT, <1>3, YearNear
<1>5. Near(y)
  BY SMT, <1>1, <1>2, <1>3, <1>4 DEF Near, WindDay
<1> QED BY Zenon, <1>2, <1>5

(* A copy of such a date is that date. *)
LEMMA CopyTidy ==
  ASSUME NEW t, Tidy(t), WindDay(t.day)
  PROVE  Copy(t) = t
<1>1. Near(YearOf(t.day))
  BY YearOfWind
<1>2. t \in Times /\ t = [day |-> t.day, ms |-> t.ms, ns |-> 0]
  BY Zenon, TidyIs DEF Tidy
<1>3. Instant(t)
  BY <1>2, DaysRoom, FarFits
<1>4. Copy(t) = [t EXCEPT !.ns = 0]
  BY Zenon, <1>1, <1>3, TripsOfFields
<1>5. [t EXCEPT !.ns = 0] = t
  BY <1>2
<1> QED BY Zenon, <1>4, <1>5

LEMMA CarriedTime ==
  ASSUME NEW h \in Int, NEW i \in Int, -9 <= h, h <= 99, -9 <= i, i <= 99,
         NEW n, n = h * MsOfHour + i * MsOfMinute + 0 * MsOfSecond + 0
  PROVE  /\ n \in Int /\ n \div MsOfDay \in Int /\ -1 <= n \div MsOfDay /\ n \div MsOfDay <= 4
         /\ n % MsOfDay \in Int /\ 0 <= n % MsOfDay /\ n % MsOfDay < MsOfDay
         /\ (n % MsOfDay) % MsOfSecond = 0
BY SMT, Units

LEMMA ReadTidy ==
  ASSUME NEW f \in Dates, InReach(f), ~Throws(f)
  PROVE  Tidy(Set(f)) /\ WindDay(Set(f).day)
<1>1. PICK y \in Moderate, h \in Int, i \in Int : /\ y = f.year /\ h = f.hour /\ i = f.minute
                                                  /\ -9 <= h /\ h <= 99 /\ -9 <= i /\ i <= 99
  BY DEF InReach
<1>2. y \in Int /\ Short(y) = y
  BY SMT, ModerateNear, NearShort DEF Near
<1>3. PICK m, d : m = Byte(f.month) /\ d = Byte(f.day)
  OBVIOUS
<1>4. m \in 1..12 /\ d \in Int /\ 1 <= d /\ d <= LastDay(y, m)
  <2>1. m \in 1..12 /\ d \in 1..LastDay(y, m)
    BY Zenon, <1>1, <1>2, <1>3 DEF Throws, Valid
  <2>2. LastDay(y, m) \in Int
    BY <1>2, <2>1, MonthSteps
  <2> QED BY <2>1, <2>2
<1>5. f.second = 0 /\ f.ms = 0
  BY DEF Dates
<1>6. PICK n : n = h * MsOfHour + i * MsOfMinute + 0 * MsOfSecond + 0
  OBVIOUS
<1>7. PICK q, r : q = n \div MsOfDay /\ r = n % MsOfDay
  OBVIOUS
<1>8. /\ n \in Int /\ q \in Int /\ -1 <= q /\ q <= 4
      /\ r \in Int /\ 0 <= r /\ r < MsOfDay /\ r % MsOfSecond = 0
  BY <1>1, <1>6, <1>7, CarriedTime
<1>9. PICK x \in Int : x = MonthStart(y, m) + d - 1 /\ WindDay(x + q)
  BY <1>4, <1>8, WindDays
<1>10. Set(f) = Wrap(Normal(x, n, 0))
  BY Zenon, <1>1, <1>2, <1>3, <1>5, <1>6, <1>9 DEF Set
<1>11. PICK v : v = [day |-> x + q, ms |-> r, ns |-> 0]
  OBVIOUS
<1>12. v \in Times /\ v.day = x + q /\ v.ms = r /\ v.ns = 0
  BY <1>8, <1>11, TimesMade, UnitsTyped
<1>13. Normal(x, n, 0) = v
  <2>1. 0 \div NsOfMs = 0 /\ 0 % NsOfMs = 0 /\ n + 0 = n
    BY SMT, <1>8, Units
  <2> QED BY Zenon, <1>7, <1>11, <2>1 DEF Normal
<1>14. Wrap(v) = v
  BY <1>9, <1>12, DaysRoom, FarFits
<1> QED BY Zenon, <1>8, <1>9, <1>10, <1>12, <1>13, <1>14 DEF Tidy

(* The remainder of C++, and cycles counted from a date. *)
LEMMA Cycles ==
  ASSUME NEW d \in Int, 0 < d, NEW k \in Int
  PROVE  (d * k) % d = 0
<1>1. PICK n \in Int : n = d * k
  OBVIOUS
<1>2. PICK q \in Int, r \in Int : q = n \div d /\ r = n % d /\ n = d * q + r /\ 0 <= r /\ r < d
  <2>1. n \div d \in Int /\ n % d \in Int /\ n = d * (n \div d) + (n % d)
    BY Divided
  <2>2. 0 <= n % d /\ n % d < d
    BY Remains
  <2> QED BY Zenon, <2>1, <2>2
<1>3. d * (k - q) = r
  BY SMT, <1>1, <1>2
<1>4. CASE k - q >= 1
  <2>1. d * (k - q) >= d
    BY SMT, <1>4
  <2> QED BY SMT, <1>2, <1>3, <2>1
<1>5. CASE k - q <= -1
  <2>1. d * (k - q) <= -d
    BY SMT, <1>5
  <2> QED BY SMT, <1>2, <1>3, <2>1
<1>6. CASE k - q = 0
  BY SMT, <1>1, <1>2, <1>3, <1>6
<1> QED BY SMT, <1>4, <1>5, <1>6

LEMMA RemainderIs ==
  ASSUME NEW n \in Int, NEW d \in Int, 0 < d
  PROVE  \E k \in Int, r \in Int : /\ r = Remainder(n, d) /\ n = d * k + r
                                  /\ -d < r /\ r < d /\ (n >= 0 => 0 <= r)
<1> DEFINE r == Remainder(n, d)
<1> HIDE DEF r
<1>1. CASE n >= 0
  <2>1. r = n % d
    BY Zenon, <1>1 DEF Remainder, r
  <2>2. n \div d \in Int /\ n % d \in Int /\ n = d * (n \div d) + (n % d)
    BY Divided
  <2>3. 0 <= n % d /\ n % d < d
    BY Remains
  <2>4. PICK k \in Int : n = d * k + r
    BY Zenon, <2>1, <2>2
  <2>5. r \in Int /\ 0 <= r /\ r < d
    BY Zenon, <2>1, <2>2, <2>3
  <2>6. -d < r
    BY SMT, <2>5
  <2> QED BY Zenon, <2>4, <2>5, <2>6 DEF r
<1>2. CASE ~(n >= 0)
  <2>0. PICK m \in Int : m = -n
    OBVIOUS
  <2>1. r = -(m % d)
    BY Zenon, <1>2, <2>0 DEF Remainder, r
  <2>2. m \div d \in Int /\ m % d \in Int /\ m = d * (m \div d) + (m % d)
    BY Divided
  <2>3. 0 <= m % d /\ m % d < d
    BY Remains
  <2>4. PICK k \in Int, e \in Int : k = m \div d /\ e = m % d /\ m = d * k + e /\ 0 <= e /\ e < d
    BY Zenon, <2>2, <2>3
  <2>5. r = -e
    BY Zenon, <2>1, <2>4
  <2>6. n = d * (-k) + r /\ -k \in Int
    BY SMT, <2>0, <2>4, <2>5
  <2>7. r \in Int /\ -d < r /\ r < d
    BY SMT, <2>4, <2>5
  <2> QED BY Zenon, <1>2, <2>6, <2>7 DEF r
<1> QED BY <1>1, <1>2

SpunUp(w, o) == Plus(w.from, -(o.up \div 24), 0)
Asked(w, o)  == Plus(w.to, o.down \div 24, 0)
Dated(w)     == Tidy(w.from) /\ WindDay(w.from.day) /\ Tidy(w.to) /\ WindDay(w.to.day)
Ends(w, o, t) ==
  IF o.swan = NoStep THEN Between(Asked(w, o), t) = 0
  ELSE /\ Between(w.from, t) % o.swan = 0
       /\ Between(Asked(w, o), t) >= 0
       /\ Between(w.from, Asked(w, o)) >= 0 => Between(Asked(w, o), t) < o.swan

LEMMA OptionsAre ==
  ASSUME Ordinary, NEW o \in Options
  PROVE  /\ o.first \in Dates /\ InReach(o.first) /\ o.last \in Dates /\ InReach(o.last)
         /\ o.up \in Spins /\ o.down \in Spins
         /\ o.swan # NoStep => o.swan \in SwanSteps
<1>1. PICK f \in WindFiles, u \in Spins, d \in Spins, s \in SwanSteps \cup {NoStep} :
        o = [first |-> f.first, last |-> f.last, second |-> f.second, up |-> u, down |-> d, swan |-> s]
  BY DEF Options
<1>2. o.first = f.first /\ o.last = f.last /\ o.up = u /\ o.down = d /\ o.swan = s
  BY <1>1
<1>3. f.first \in Dates /\ f.last \in Dates
  BY Zenon, SimulationAssumption
<1>4. InReach(f.first) /\ InReach(f.last)
  BY SMT DEF Ordinary
<1> QED BY Zenon, <1>2, <1>3, <1>4

LEMMA SpinDays ==
  ASSUME Ordinary, NEW n \in Spins, NEW x, WindDay(x)
  PROVE  /\ n \div 24 \in Int /\ -(n \div 24) \in Int
         /\ SimDay(x + n \div 24) /\ SimDay(x + (-(n \div 24)))
<1>1. n \in Int /\ -87600 <= n /\ n <= 87600
  BY SMT, SimulationAssumption DEF Ordinary
<1>2. PICK k \in Int : k = n \div 24 /\ -3650 <= k /\ k <= 3650
  BY SMT, <1>1
<1>3. SimDay(x + k) /\ SimDay(x + (-k))
  BY SMT, <1>2 DEF SimDay, WindDay
<1> QED BY SMT, <1>2, <1>3

LEMMA AskedIs ==
  ASSUME Ordinary, NEW o \in Options, NEW w, Dated(w)
  PROVE  Tidy(Asked(w, o)) /\ SimDay(Asked(w, o).day)
<1>1. PICK n : n = o.down \div 24
  OBVIOUS
<1>2. n \in Int /\ SimDay(w.to.day + n)
  BY <1>1, OptionsAre, SpinDays DEF Dated
<1>3. Far(w.to.day + n)
  BY <1>2, DaysRoom
<1>4. Plus(w.to, n, 0) = [day |-> w.to.day + n, ms |-> w.to.ms, ns |-> 0] /\ Tidy(Plus(w.to, n, 0))
  BY <1>2, <1>3, PlusDays DEF Dated
<1>5. Plus(w.to, n, 0).day = w.to.day + n
  BY <1>4
<1> QED BY Zenon, <1>1, <1>2, <1>4, <1>5 DEF Asked

(* Moving the end by what is lacking puts it on a cycle. *)
LEMMA AlignEnds ==
  ASSUME Ordinary, NEW o \in Options, NEW w, Dated(w), o.swan # 0,
         NEW a, a = Asked(w, o),
         NEW check, check = Remainder(Between(w.from, a), o.swan),
         NEW t, t = IF o.swan = NoStep \/ check = 0 THEN a
                    ELSE PlusSeconds(a, Lacking(check, o.swan))
  PROVE  Ends(w, o, t)
<1>1. Tidy(a) /\ SimDay(a.day) /\ Tidy(w.from)
  BY AskedIs DEF Dated
<1>2. PICK s \in Int, b \in Int : s = Seconds(w.from) /\ b = Seconds(a)
  BY <1>1, TidyIs
<1>3. Between(w.from, a) = b - s /\ Between(a, a) = b - b
  BY <1>1, <1>2, BetweenIs
<1>4. CASE o.swan = NoStep
  <2>1. t = a
    BY <1>4
  <2>2. Between(a, a) = 0
    BY <1>3
  <2> QED BY Zenon, <1>4, <2>1, <2>2 DEF Ends
<1>5. CASE o.swan # NoStep
  <2>1. o.swan \in SwanSteps
    BY <1>5, OptionsAre
  <2>2. PICK d \in Int : d = o.swan /\ 0 < d /\ TwoYears(2 * d)
    <3>1. PICK e \in SwanSteps : e = o.swan /\ e # 0
      BY <2>1
    <3>2. e \in Int /\ 0 < e
      BY <3>1, SimulationAssumption
    <3>3. TwoYears(2 * e)
      BY SMT, <3>2 DEF Ordinary, TwoYears
    <3> QED BY Zenon, <3>1, <3>2, <3>3
  <2>3. PICK n \in Int : n = b - s
    OBVIOUS
  <2>4. check = Remainder(n, d)
    BY Zenon, <1>3, <2>2, <2>3
  <2>5. d \in Int /\ 0 < d
    BY SMT, <2>2
  <2>6. PICK k \in Int, r \in Int : /\ r = Remainder(n, d) /\ n = d * k + r
                                   /\ -d < r /\ r < d /\ (n >= 0 => 0 <= r)
    BY Zenon, <2>5, RemainderIs
  <2>7. r = check
    BY Zenon, <2>4, <2>6
  <2>8. CASE check = 0
    <3>1. t = a
      BY Zenon, <2>8
    <3>2. n = d * k
      BY SMT, <2>6, <2>7, <2>8
    <3>3. n % d = 0
      BY <2>5, <3>2, Cycles
    <3>4. Between(w.from, t) % o.swan = 0
      BY SMT, <1>3, <2>2, <2>3, <3>1, <3>3
    <3>5. Between(a, t) = 0 /\ 0 >= 0 /\ 0 < o.swan
      BY SMT, <1>3, <2>2, <3>1
    <3> QED BY Zenon, <1>5, <3>4, <3>5 DEF Ends
  <2>9. CASE check # 0
    <3>1. PICK l \in Int : l = d - check /\ 0 < l /\ TwoYears(l) /\ (n >= 0 => l < d)
      BY SMT, <2>2, <2>6, <2>7, <2>9 DEF TwoYears
    <3>2. t = PlusSeconds(a, l)
      BY Zenon, <1>5, <2>2, <2>9, <3>1 DEF Lacking
    <3>3. Tidy(t) /\ Seconds(t) = b + l
      BY Zenon, <1>1, <1>2, <3>1, <3>2, PlusSecs
    <3>4. Between(w.from, t) = b + l - s /\ Between(a, t) = b + l - b
      BY <1>1, <1>2, <3>3, BetweenIs
    <3>5. b + l - s = d * (k + 1) /\ k + 1 \in Int
      <4>1. d * (k + 1) = d * k + d /\ d * k \in Int /\ k + 1 \in Int
        BY SMT
      <4>2. PICK z \in Int : z = d * k
        BY <4>1
      <4>3. b + l - s = z + d
        BY SMT, <2>3, <2>6, <2>7, <3>1, <4>2
      <4> QED BY Zenon, <4>1, <4>2, <4>3
    <3>6. (d * (k + 1)) % d = 0
      BY <2>5, <3>5, Cycles
    <3>7. Between(w.from, t) % d = 0
      BY Zenon, <3>4, <3>5, <3>6
    <3>8. b + l - b = l /\ l >= 0
      BY SMT, <3>1
    <3> QED BY Zenon, <1>3, <1>5, <2>2, <2>3, <3>1, <3>4, <3>7, <3>8 DEF Ends
  <2> QED BY <2>8, <2>9
<1> QED BY <1>4, <1>5

(* What main() has at each of its stretches. *)
SimInvariant ==
  /\ at # "start" => options \in Options
  /\ at \in {"dates", "spanned", "aligned", "done"} => Dated(wind)
  /\ at = "spanned" => sim = [from |-> SpunUp(wind, options), to |-> Asked(wind, options)]
  /\ at \in {"aligned", "done"} => sim.from = SpunUp(wind, options) /\ Ends(wind, options, sim.to)
  /\ \E a, b, c : report = [from |-> a, to |-> b, days |-> c]
  /\ at = "done" => report.from = sim.from /\ report.to = sim.to

LEMMA SimStarts ==
  ASSUME SimInit
  PROVE  SimInvariant
<1>1. report = [from |-> 0, to |-> 0, days |-> 0]
  BY DEF SimInit, NotPrinted
<1> QED BY Zenon, <1>1 DEF SimInit, SimInvariant

LEMMA SimSteps ==
  ASSUME Ordinary, SimInvariant, SimNext
  PROVE  SimInvariant'
<1>1. CASE Launch
  <2>1. options' \in Options /\ at' = "options" /\ report' = report
    BY Zenon, <1>1 DEF Launch
  <2> QED BY <2>1 DEF SimInvariant
<1>2. CASE ReadDates
  <2>1. /\ at = "options" /\ at' = "dates" /\ options' = options /\ report' = report
        /\ wind' = [from |-> Set(options.first), to |-> Set(options.last)]
        /\ ~Throws(options.first) /\ ~Throws(options.last)
    BY Zenon, <1>2 DEF ReadDates, Unreadable
  <2>2. options \in Options
    BY <2>1 DEF SimInvariant
  <2>3. /\ Tidy(Set(options.first)) /\ WindDay(Set(options.first).day)
        /\ Tidy(Set(options.last)) /\ WindDay(Set(options.last).day)
    BY Zenon, <2>1, <2>2, OptionsAre, ReadTidy
  <2>4. wind'.from = Set(options.first) /\ wind'.to = Set(options.last)
    BY <2>1
  <2>5. Dated(wind')
    BY Zenon, <2>3, <2>4 DEF Dated
  <2> QED BY <2>1, <2>2, <2>5 DEF SimInvariant
<1>3. CASE ReadFails
  BY <1>3 DEF SimInvariant, ReadFails, Terminate
<1>4. CASE Span
  <2>1. /\ at = "dates" /\ at' = "spanned" /\ options' = options /\ wind' = wind /\ report' = report
        /\ sim' = [from |-> Plus(Copy(wind.from), -(options.up \div 24), 0),
                   to   |-> Plus(Copy(wind.to), options.down \div 24, 0)]
    BY Zenon, <1>4 DEF Span
  <2>2. Dated(wind) /\ options \in Options
    BY <2>1 DEF SimInvariant
  <2>3. Copy(wind.from) = wind.from /\ Copy(wind.to) = wind.to
    BY Zenon, <2>2, CopyTidy DEF Dated
  <2>4. sim' = [from |-> SpunUp(wind, options), to |-> Asked(wind, options)]
    BY Zenon, <2>1, <2>3 DEF SpunUp, Asked
  <2> QED BY <2>1, <2>2, <2>4 DEF SimInvariant
<1>5. CASE Align
  <2>1. PICK check :
        /\ check = Remainder(Between(wind.from, sim.to), options.swan)
        /\ at = "spanned" /\ at' = "aligned" /\ options' = options /\ wind' = wind
        /\ options.swan # 0
        /\ sim' = IF options.swan = NoStep \/ check = 0 THEN sim
                  ELSE [sim EXCEPT !.to = PlusSeconds(@, Lacking(check, options.swan))]
        /\ report' = [report EXCEPT !.days = Between(sim.from, sim.to)]
    BY Zenon, <1>5 DEF Align
  <2>2. /\ options \in Options /\ Dated(wind)
        /\ sim = [from |-> SpunUp(wind, options), to |-> Asked(wind, options)]
    BY <2>1 DEF SimInvariant
  <2>3. PICK a, s : a = Asked(wind, options) /\ s = SpunUp(wind, options) /\ sim = [from |-> s, to |-> a]
    BY Zenon, <2>2
  <2>4. sim.from = s /\ sim.to = a
    BY <2>3
  <2>5. PICK t : t = IF options.swan = NoStep \/ check = 0 THEN a
                     ELSE PlusSeconds(a, Lacking(check, options.swan))
    OBVIOUS
  <2>6. sim' = [from |-> s, to |-> t]
    <3>1. CASE options.swan = NoStep \/ check = 0
      BY Zenon, <2>1, <2>3, <2>5, <3>1
    <3>2. CASE ~(options.swan = NoStep \/ check = 0)
      <4>1. t = PlusSeconds(sim.to, Lacking(check, options.swan))
        BY Zenon, <2>4, <2>5, <3>2
      <4>2. sim' = [sim EXCEPT !.to = t]
        BY Zenon, <2>1, <3>2, <4>1
      <4> QED BY <2>3, <4>2
    <3> QED BY <3>1, <3>2
  <2>7. Ends(wind, options, t)
    <3>1. check = Remainder(Between(wind.from, a), options.swan)
      BY Zenon, <2>1, <2>4
    <3> QED BY Zenon, <2>1, <2>2, <2>3, <2>5, <3>1, AlignEnds
  <2>8. sim'.from = SpunUp(wind', options') /\ Ends(wind', options', sim'.to)
    <3>1. sim'.from = s /\ sim'.to = t
      BY <2>6
    <3> QED BY Zenon, <2>1, <2>3, <2>7, <3>1
  <2>9. \E x, y, z : report' = [from |-> x, to |-> y, days |-> z]
    <3>1. PICK x, y, z : report = [from |-> x, to |-> y, days |-> z]
      BY DEF SimInvariant
    <3>2. PICK v : v = Between(sim.from, sim.to)
      OBVIOUS
    <3>3. report' = [report EXCEPT !.days = v]
      BY Zenon, <2>1, <3>2
    <3>4. report' = [from |-> x, to |-> y, days |-> v]
      BY <3>1, <3>3
    <3> QED BY <3>4
  <2>10. options' \in Options /\ Dated(wind')
    BY <2>1, <2>2
  <2>11. at' = "aligned"
    BY <2>1
  <2> QED BY <2>8, <2>9, <2>10, <2>11 DEF SimInvariant
<1>6. CASE AlignByZero
  BY <1>6 DEF SimInvariant, AlignByZero, Terminate
<1>7. CASE PrintDates
  <2>1. /\ at = "aligned" /\ at' = "done" /\ options' = options /\ wind' = wind /\ sim' = sim
        /\ report' = [report EXCEPT !.from = sim.from, !.to = sim.to]
    BY Zenon, <1>7 DEF PrintDates
  <2>2. PICK x, y, z : report = [from |-> x, to |-> y, days |-> z]
    BY DEF SimInvariant
  <2>3. PICK s, t : s = sim.from /\ t = sim.to
    OBVIOUS
  <2>4. report' = [[report EXCEPT !.from = s] EXCEPT !.to = t]
    BY Zenon, <2>1, <2>3
  <2>5. report' = [from |-> s, to |-> t, days |-> z]
    BY <2>2, <2>4
  <2>6. report'.from = sim'.from /\ report'.to = sim'.to
    BY <2>1, <2>3, <2>5
  <2>7. \E a, b, c : report' = [from |-> a, to |-> b, days |-> c]
    BY <2>5
  <2> QED BY <2>1, <2>6, <2>7 DEF SimInvariant
<1> QED BY <1>1, <1>2, <1>3, <1>4, <1>5, <1>6, <1>7 DEF SimNext

LEMMA SimInvariantKept ==
  ASSUME Ordinary, SimInvariant, [Next]_<<dateVars, simVars>>
  PROVE  SimInvariant'
<1>1. CASE SimNext
  BY Zenon, <1>1, SimSteps
<1>2. CASE UNCHANGED simVars
  BY <1>2 DEF simVars, SimInvariant
<1> QED BY Zenon, <1>1, <1>2 DEF Next

LEMMA EndsOnCycleThen ==
  ASSUME SimInvariant
  PROVE  EndsOnCycle
<1> SUFFICES ASSUME at = "done" PROVE EndsOnCycle
  BY Zenon DEF EndsOnCycle
<1>1. /\ sim.from = SpunUp(wind, options) /\ Ends(wind, options, sim.to)
      /\ report.from = sim.from /\ report.to = sim.to
  BY DEF SimInvariant
<1>2. PICK a : a = Asked(wind, options)
  OBVIOUS
<1>3. PICK over : over = Between(a, report.to)
  OBVIOUS
<1>4. IF options.swan = NoStep THEN over = 0
      ELSE /\ Between(wind.from, report.to) % options.swan = 0
           /\ over >= 0
           /\ Between(wind.from, a) >= 0 => over < options.swan
  BY Zenon, <1>1, <1>2, <1>3 DEF Ends
<1>5. report.from = Plus(wind.from, -(options.up \div 24), 0)
  BY Zenon, <1>1 DEF SpunUp
<1> QED BY Zenon, <1>2, <1>3, <1>4, <1>5 DEF EndsOnCycle, Asked

(* Of files and options in reach, the simulation printed spans the wind and *)
(* the whole days asked for and ends on a cycle of SWAN (main()).           *)
THEOREM EndsAlways ==
  ASSUME Ordinary
  PROVE  Spec => []EndsOnCycle
<1>1. Init => SimInvariant
  BY SimStarts DEF Init
<1>2. SimInvariant /\ [Next]_<<dateVars, simVars>> => SimInvariant'
  BY SimInvariantKept
<1>3. SimInvariant => EndsOnCycle
  BY EndsOnCycleThen
<1> QED BY <1>1, <1>2, <1>3, PTL DEF Spec
=============================================================================
