----------------------------- MODULE ValuesProofs -----------------------------
(***************************************************************************)
(* Proofs about memory guards, settings, dates, TOTP secrets and file      *)
(* names, for any page size, memory, integer width, day, text and name.    *)
(***************************************************************************)
EXTENDS CivilDays, Settings, Pages, Totp, FileNames, WellFoundedInduction, TLAPS

-----------------------------------------------------------------------------
(* Memory guards.  A page is what the kernel marks, a byte what a buffer    *)
(* owns.                                                                    *)
LEMMA Division ==
  ASSUME NEW P \in Nat \ {0}, NEW a \in Nat
  PROVE  /\ a \div P \in Nat /\ a % P \in 0..P - 1
         /\ P * (a \div P) <= a /\ a < P * (a \div P) + P
         /\ a - (a % P) = P * (a \div P) /\ a \div P <= a
  <1>1. a \div P \in Nat /\ a % P \in 0..P - 1 /\ a = P * (a \div P) + (a % P)
    OBVIOUS
  <1>2. a \div P <= P * (a \div P)
    <2>1. \A n, m \in Nat : m >= 1 => n <= m * n
      OBVIOUS
    <2>2. QED
      BY <1>1, <2>1
  <1>3. P * (a \div P) \in Nat
    BY <1>1
  <1>4. QED
    BY <1>1, <1>2, <1>3

(* The rounded range covers every page the buffer has a byte in, and so     *)
(* the last one too.                                                        *)
LEMMA RangeCoversBuffer ==
  ASSUME NEW g \in Buffers
  PROVE  Own(g) \subseteq Aligned(g)
  <1>0. /\ PageSize \in Nat \ {0} /\ MemorySize \in Nat /\ g.base \in Nat /\ g.end \in Nat
        /\ g.end <= MemorySize
    BY PagesAssumption DEF Buffers
  <1> SUFFICES ASSUME NEW a \in g.base..g.end - 1 PROVE a \div PageSize \in Aligned(g)
    BY DEF Own
  <1> DEFINE P == PageSize
             p == a \div PageSize
             b == g.base \div PageSize
  <1>1. a \in Nat /\ g.base <= a /\ a < g.end
    BY <1>0
  <1>2. p \in Nat /\ P * p <= a /\ a < P * p + P /\ p <= a
    BY <1>0, <1>1, Division
  <1>3. b \in Nat /\ P * b <= g.base /\ g.base - (g.base % P) = P * b
    BY <1>0, Division
  <1>4. g.end % P \in 0..P - 1
    BY <1>0
  <1> HIDE DEF p, b
  <1>5. P * b <= P * p
    <2>1. ASSUME p < b PROVE FALSE
      <3>1. p + 1 <= b
        BY <1>2, <1>3, <2>1
      <3>2. \A m, n, q \in Nat : m <= n => q * m <= q * n
        OBVIOUS
      <3>3. P * (p + 1) <= P * b /\ P * (p + 1) = P * p + P
        BY <1>0, <1>2, <1>3, <3>1, <3>2
      <3>4. P * p \in Nat /\ P * b \in Nat
        BY <1>0, <1>2, <1>3
      <3>5. QED
        BY <1>0, <1>1, <1>2, <1>3, <3>3, <3>4
    <2>2. p <= b \/ p >= b
      BY <1>2, <1>3
    <2>3. \A m, n, q \in Nat : m <= n => q * m <= q * n
      OBVIOUS
    <2>4. QED
      BY <1>0, <1>2, <1>3, <2>1, <2>3
  <1>6. P * p < AlignedEnd(g.end) /\ P * p = p * P /\ P * p \in Nat
    BY <1>0, <1>1, <1>2, <1>4 DEF AlignedEnd
  <1>7. p \in 0..MemorySize
    BY <1>0, <1>1, <1>2
  <1>8. g.base - (g.base % P) <= p * P /\ p * P < AlignedEnd(g.end)
    BY <1>3, <1>5, <1>6
  <1>9. QED
    BY <1>7, <1>8 DEF Aligned, p

(* Whatever is locked is around a buffer that lives.                        *)
PagesInv ==
  /\ guards \subseteq Buffers
  /\ AloneStaysLocked /\ NeverDumped
  /\ locked \subseteq UNION {Aligned(g) : g \in guards}

LEMMA PagesStep == PagesInv /\ [PagesNext]_pageVars => PagesInv'
  <1> SUFFICES ASSUME PagesInv, [PagesNext]_pageVars PROVE PagesInv'
    OBVIOUS
  <1> USE DEF PagesInv, AloneStaysLocked, NeverDumped
  <1>1. ASSUME NEW g \in Buffers, New(g) PROVE PagesInv'
    BY <1>1, RangeCoversBuffer DEF New
  <1>2. ASSUME NEW g \in Buffers, NewFails(g) PROVE PagesInv'
    BY <1>2 DEF NewFails, Munlock
  <1>3. ASSUME NEW g \in guards, Drop(g) PROVE PagesInv'
    BY <1>3 DEF Drop, Munlock
  <1>4. CASE UNCHANGED pageVars
    BY <1>4 DEF pageVars
  <1>5. QED
    BY <1>1, <1>2, <1>3, <1>4 DEF PagesNext

LEMMA PagesInits == PagesInit => PagesInv
  BY DEF PagesInit, PagesInv, AloneStaysLocked, NeverDumped

(* A live buffer is locked to its last byte, for any page size, as long as  *)
(* nothing on its pages was dropped (memory_guard.rs 47-77, 90-117).        *)
THEOREM BuffersStayLocked == PagesSpec => []AloneStaysLocked
  <1>1. PagesInv => AloneStaysLocked
    BY DEF PagesInv
  <1>2. QED
    BY <1>1, PagesInits, PagesStep, PTL DEF PagesSpec

(* A live buffer is left out of core dumps, whatever was dropped beside it. *)
THEOREM BuffersStayOutOfDumps == PagesSpec => []NeverDumped
  <1>1. PagesInv => NeverDumped
    BY DEF PagesInv
  <1>2. QED
    BY <1>1, PagesInits, PagesStep, PTL DEF PagesSpec

(* No locked page is left behind by the last buffer.                        *)
THEOREM PagesAreUnlocked == PagesSpec => []NothingStaysLocked
  <1>1. PagesInv => NothingStaysLocked
    BY DEF PagesInv, NothingStaysLocked
  <1>2. QED
    BY <1>1, PagesInits, PagesStep, PTL DEF PagesSpec

-----------------------------------------------------------------------------
(* Settings.  What was reported saved is the file's text; the timeout in    *)
(* force is the file's unless its seconds wrapped round to zero.            *)
SavedInv ==
  said # Unset =>
    /\ said.minutes \in Minutes /\ said.minutes > 0
    /\ said.quit \in Shortcuts /\ said.hide \in Shortcuts
    /\ file = InMinutes(said.minutes, said.quit, said.hide)
    /\ file.secs # 0 => timeout = file.secs

LEMMA SecondsFacts ==
  ASSUME NEW m \in Minutes
  PROVE  /\ (m * 60) % Modulus \in Nat /\ (m * 60) % Modulus # Unset
         /\ m * 60 < Modulus => (m * 60) % Modulus = m * 60
  <1>1. m \in Nat /\ Modulus \in Nat \ {0} /\ Unset \notin Nat
    BY SettingsAssumption
  <1>2. m * 60 \in Nat
    BY <1>1
  <1>3. \A n \in Nat, k \in Nat \ {0} : n % k \in Nat /\ (n < k => n % k = n)
    OBVIOUS
  <1>4. QED
    BY <1>1, <1>2, <1>3

LEMMA SavedStep == SavedInv /\ [SettingsNext]_settingsVars => SavedInv'
  <1> SUFFICES ASSUME SavedInv, [SettingsNext]_settingsVars PROVE SavedInv'
    OBVIOUS
  <1>1. ASSUME NEW m \in Minutes, NEW q \in Shortcuts, NEW h \in Shortcuts, SaveSettings(m, q, h)
        PROVE  SavedInv'
    <2>1. m > 0
      BY <1>1 DEF SaveSettings
    <2>2. CASE UNCHANGED <<file, timeout, said>>
      BY <2>2 DEF SavedInv
    <2>3. CASE said' = Unset
      BY <2>3 DEF SavedInv
    <2>4. CASE /\ file' = InMinutes(m, q, h) /\ timeout' = InMinutes(m, q, h).secs
               /\ said' = [minutes |-> m, quit |-> q, hide |-> h]
      BY <2>1, <2>4 DEF SavedInv
    <2>5. QED
      BY <1>1, <2>2, <2>3, <2>4 DEF SaveSettings
  <1>2. CASE Start
    <2>1. timeout' = load(file).secs /\ UNCHANGED <<file, said>>
      BY <1>2 DEF Start
    <2>2. said # Unset => file.secs # Unset
      BY SecondsFacts DEF SavedInv, InMinutes
    <2>3. said # Unset /\ file.secs # 0 => load(file).secs = file.secs
      BY <2>2 DEF load
    <2>4. QED
      BY <2>1, <2>3 DEF SavedInv
  <1>3. ASSUME NEW s \in Restored, RestoreSettings(s) PROVE SavedInv'
    BY <1>3 DEF RestoreSettings, SavedInv
  <1>4. CASE UNCHANGED settingsVars
    BY <1>4 DEF settingsVars, SavedInv
  <1>5. QED
    BY <1>1, <1>2, <1>3, <1>4 DEF SettingsNext

(* Settings reported saved are in force and are what the next start loads,  *)
(* for any integer width, as long as the minutes fit (main.rs 864-901,      *)
(* settings.rs 29-77).                                                      *)
THEOREM SavedSettingsAreKept == SettingsSpec => []SavedIsKept
  <1>1. SettingsInit => SavedInv
    BY DEF SettingsInit, SavedInv
  <1>2. SavedInv => SavedIsKept
    <2> SUFFICES ASSUME SavedInv, said # Unset, said.minutes * 60 < Modulus
                 PROVE  /\ load(file) = InMinutes(said.minutes, said.quit, said.hide)
                        /\ timeout = load(file).secs
      BY DEF SavedIsKept
    <2>1. /\ said.minutes \in Minutes /\ said.minutes \in Nat /\ said.minutes > 0
          /\ said.quit \in Shortcuts /\ said.hide \in Shortcuts
          /\ file = InMinutes(said.minutes, said.quit, said.hide)
          /\ file.secs # 0 => timeout = file.secs
      BY SettingsAssumption DEF SavedInv
    <2>2. /\ file.secs = (said.minutes * 60) % Modulus
          /\ file.quit = said.quit /\ file.hide = said.hide
      BY <2>1 DEF InMinutes
    <2>3. file.secs # Unset /\ file.secs # 0
      BY <2>1, <2>2, SecondsFacts
    <2>4. load(file) = [secs |-> file.secs, quit |-> file.quit, hide |-> file.hide]
      BY <2>1, <2>2, <2>3 DEF load
    <2>5. QED
      BY <2>1, <2>2, <2>3, <2>4 DEF InMinutes
  <1>3. QED
    BY <1>1, <1>2, SavedStep, PTL DEF SettingsSpec

-----------------------------------------------------------------------------
(* Dates.  Quotients by constants come with the bounds of their remainders, *)
(* and what is left are linear inequalities.                                *)

(* Eras have 400 years, which begin in March, and 146097 days.              *)
YearStart(y) == 365 * y + y \div 4 - y \div 100
LongYear(y) == (y + 1) % 4 = 0 /\ ((y + 1) % 100 # 0 \/ y = 399)
YearLength(y) == IF LongYear(y) THEN 366 ELSE 365

LEMMA EraArithmetic ==
  ASSUME NEW doe \in Nat, doe <= 146096, NEW a \in Int, NEW b \in Int, NEW c \in Int,
         NEW y \in Int, NEW p \in Int, NEW q \in Int,
         1460 * a <= doe, doe < 1460 * a + 1460,
         36524 * b <= doe, doe < 36524 * b + 36524,
         146096 * c <= doe,  doe < 146096 * c + 146096,
         365 * y <= doe - a + b - c, doe - a + b - c < 365 * y + 365,
         4 * p <= y, y < 4 * p + 4, 100 * q <= y, y < 100 * q + 100
  PROVE  /\ y >= 0 /\ y <= 399
         /\ 365 * y + p - q <= doe
         /\ doe < 365 * y + p - q + 366
         /\ doe = 365 * y + p - q + 365 => y = 4 * p + 3 /\ (y # 100 * q + 99 \/ y = 399)
  BY SMT

LEMMA YearFacts ==
  ASSUME NEW y \in Nat
  PROVE  /\ YearStart(y) = 365 * y + y \div 4 - y \div 100
         /\ y \div 4 \in Int /\ 4 * (y \div 4) <= y /\ y < 4 * (y \div 4) + 4
         /\ y \div 100 \in Int /\ 100 * (y \div 100) <= y /\ y < 100 * (y \div 100) + 100
         /\ LongYear(y) <=> y = 4 * (y \div 4) + 3 /\ (y # 100 * (y \div 100) + 99 \/ y = 399)
  <1>1. y \div 4 \in Int /\ 4 * (y \div 4) <= y /\ y < 4 * (y \div 4) + 4
    BY SMT
  <1>2. y \div 100 \in Int /\ 100 * (y \div 100) <= y /\ y < 100 * (y \div 100) + 100
    BY SMT
  <1>3. (y + 1) % 4 = 0 <=> y = 4 * (y \div 4) + 3
    BY SMT
  <1>4. (y + 1) % 100 # 0 <=> y # 100 * (y \div 100) + 99
    BY SMT
  <1>5. QED
    BY <1>1, <1>2, <1>3, <1>4, SMT DEF YearStart, LongYear

(* The year that the code divides its way to is the one the day is in.      *)
LEMMA YearOfEraFacts ==
  ASSUME NEW doe \in Nat, doe <= 146096
  PROVE  /\ YearOfEra(doe) \in Nat /\ YearOfEra(doe) <= 399
         /\ YearStart(YearOfEra(doe)) <= doe
         /\ doe < YearStart(YearOfEra(doe)) + YearLength(YearOfEra(doe))
  <1>1. PICK a \in Int : a = doe \div 1460 /\ 1460 * a <= doe /\ doe < 1460 * a + 1460
    BY SMT
  <1>2. PICK b \in Int : b = doe \div 36524 /\ 36524 * b <= doe /\ doe < 36524 * b + 36524
    BY SMT
  <1>3. PICK c \in Int : c = doe \div 146096 /\ 146096 * c <= doe /\ doe < 146096 * c + 146096
    BY SMT
  <1>4. PICK e \in Int : e = doe - a + b - c
    BY SMT
  <1>5. PICK y \in Int : y = e \div 365 /\ 365 * y <= e /\ e < 365 * y + 365
    BY SMT
  <1>6. YearOfEra(doe) = y
    BY <1>1, <1>2, <1>3, <1>4, <1>5, SMT DEF YearOfEra
  <1>7. PICK p \in Int : p = y \div 4 /\ 4 * p <= y /\ y < 4 * p + 4
    BY SMT
  <1>8. PICK q \in Int : q = y \div 100 /\ 100 * q <= y /\ y < 100 * q + 100
    BY SMT
  <1>9. /\ y >= 0 /\ y <= 399 /\ 365 * y + p - q <= doe /\ doe < 365 * y + p - q + 366
        /\ doe = 365 * y + p - q + 365 => y = 4 * p + 3 /\ (y # 100 * q + 99 \/ y = 399)
    BY <1>1, <1>2, <1>3, <1>4, <1>5, <1>7, <1>8, EraArithmetic, SMT
  <1>10. YearStart(y) = 365 * y + p - q
    BY <1>7, <1>8, SMT DEF YearStart
  <1>11. doe = 365 * y + p - q + 365 => LongYear(y)
    BY <1>7, <1>8, <1>9, YearFacts, SMT
  <1>12. QED
    BY <1>6, <1>9, <1>10, <1>11, SMT DEF YearLength

LEMMA YearsFollow ==
  ASSUME NEW y \in Nat, y <= 399
  PROVE  /\ YearStart(y) \in Nat /\ YearLength(y) \in {365, 366}
         /\ y < 399 => YearStart(y + 1) = YearStart(y) + YearLength(y)
         /\ y = 399 => YearStart(y) + YearLength(y) = 146097
         /\ YearStart(y) + YearLength(y) <= 146097
         /\ YearStart(0) = 0
  <1>1. PICK p \in Int : p = y \div 4 /\ 4 * p <= y /\ y < 4 * p + 4
    BY SMT
  <1>2. PICK q \in Int : q = y \div 100 /\ 100 * q <= y /\ y < 100 * q + 100
    BY SMT
  <1>3. /\ YearStart(y) = 365 * y + p - q
        /\ LongYear(y) <=> y = 4 * p + 3 /\ (y # 100 * q + 99 \/ y = 399)
    BY <1>1, <1>2, YearFacts, SMT
  <1>4. YearLength(y) = IF y = 4 * p + 3 /\ (y # 100 * q + 99 \/ y = 399) THEN 366 ELSE 365
    BY <1>3, SMT DEF YearLength
  <1>5. ASSUME y < 399 PROVE YearStart(y + 1) = YearStart(y) + YearLength(y)
    <2>1. (y + 1) \div 4 = IF y = 4 * p + 3 THEN p + 1 ELSE p
      BY <1>1, SMT
    <2>2. (y + 1) \div 100 = IF y = 100 * q + 99 THEN q + 1 ELSE q
      BY <1>2, SMT
    <2>3. y = 100 * q + 99 => y = 4 * p + 3
      BY <1>1, <1>2, SMT
    <2>4. YearStart(y + 1) = 365 * (y + 1) + (y + 1) \div 4 - (y + 1) \div 100
      BY DEF YearStart
    <2>5. QED
      BY <1>3, <1>4, <1>5, <2>1, <2>2, <2>3, <2>4, SMT
  <1>6. YearStart(y) \in Nat /\ YearLength(y) \in {365, 366}
    BY <1>1, <1>2, <1>3, <1>4, SMT
  <1>7. y = 399 => YearStart(y) + YearLength(y) = 146097
    BY <1>1, <1>2, <1>3, <1>4, SMT
  <1>8. YearStart(y) + YearLength(y) <= 146097
    BY <1>1, <1>2, <1>3, <1>4, SMT
  <1>9. YearStart(0) = 0
    BY SMT DEF YearStart
  <1>10. QED
    BY <1>5, <1>6, <1>7, <1>8, <1>9, SMT

LEMMA YearsApart ==
  ASSUME NEW y \in Nat, NEW z \in Nat, y < z, z <= 399
  PROVE  YearStart(y) + YearLength(y) <= YearStart(z)
  <1>1. PICK p \in Int : p = y \div 4 /\ 4 * p <= y /\ y < 4 * p + 4
    BY SMT
  <1>2. PICK q \in Int : q = y \div 100 /\ 100 * q <= y /\ y < 100 * q + 100
    BY SMT
  <1>3. PICK r \in Int : r = z \div 4 /\ 4 * r <= z /\ z < 4 * r + 4
    BY SMT
  <1>4. PICK s \in Int : s = z \div 100 /\ 100 * s <= z /\ z < 100 * s + 100
    BY SMT
  <1>5. /\ YearStart(y) = 365 * y + p - q /\ YearStart(z) = 365 * z + r - s
        /\ YearLength(y) = IF y = 4 * p + 3 /\ (y # 100 * q + 99 \/ y = 399) THEN 366 ELSE 365
    BY <1>1, <1>2, <1>3, <1>4, YearFacts, SMT DEF YearLength
  <1>6. QED
    BY <1>1, <1>2, <1>3, <1>4, <1>5, SMT

(* A day has one place in its year and era. *)
LEMMA OnePlace ==
  ASSUME NEW e \in Int, NEW y \in Nat, NEW n \in Nat, y <= 399, n < YearLength(y),
         NEW f \in Int, NEW z \in Nat, NEW m \in Nat, z <= 399, m < YearLength(z),
         146097 * e + YearStart(y) + n = 146097 * f + YearStart(z) + m
  PROVE  e = f /\ y = z /\ n = m
  <1>1. /\ YearStart(y) \in Nat /\ YearLength(y) \in Nat /\ YearStart(y) + YearLength(y) <= 146097
        /\ YearStart(z) \in Nat /\ YearLength(z) \in Nat /\ YearStart(z) + YearLength(z) <= 146097
    BY YearsFollow, SMT
  <1>2. e = f
    BY <1>1, SMT
  <1>3. y = z
    <2>1. ~(y < z)
      BY <1>1, <1>2, YearsApart, SMT
    <2>2. ~(z < y)
      BY <1>1, <1>2, YearsApart, SMT
    <2>3. QED
      BY <2>1, <2>2, SMT
  <1>4. QED
    BY <1>1, <1>2, <1>3, SMT

(* What civil_from_days makes of the place.                                 *)
Civil(era, y, doy) ==
  LET mp == (5 * doy + 2) \div 153
      m == IF mp < 10 THEN mp + 3 ELSE mp - 9
  IN  <<y + era * 400 + (IF m <= 2 THEN 1 ELSE 0), m, doy - (153 * mp + 2) \div 5 + 1>>

Place(n, era, y, doy) ==
  /\ y <= 399 /\ doy < YearLength(y)
  /\ n + 719468 = 146097 * era + YearStart(y) + doy
  /\ civil_from_days(n) = Civil(era, y, doy)

LEMMA CivilIsPlace ==
  ASSUME NEW n \in Nat
  PROVE  \E era \in Nat, y \in Nat, doy \in Nat : Place(n, era, y, doy)
  <1>1. PICK z \in Nat : z = n + 719468
    BY SMT
  <1>2. PICK era \in Nat : era = z \div 146097 /\ 146097 * era <= z /\ z < 146097 * era + 146097
    BY SMT
  <1>3. PICK doe \in Nat : doe = z - era * 146097 /\ doe <= 146096
    BY <1>2, SMT
  <1>4. PICK y \in Nat : /\ y = YearOfEra(doe) /\ y <= 399 /\ YearStart(y) <= doe
                         /\ doe < YearStart(y) + YearLength(y)
    BY <1>3, YearOfEraFacts, SMT
  <1>5. YearStart(y) \in Nat
    BY <1>4, YearsFollow, SMT
  <1>6. PICK doy \in Nat : doy = doe - YearStart(y) /\ doy < YearLength(y)
    <2>1. YearLength(y) \in {365, 366}
      BY <1>4, YearsFollow, SMT
    <2>2. QED
      BY <1>4, <1>5, <2>1, SMT
  <1>7. civil_from_days(n) = Civil(era, y, doy)
    <2>1. (IF z >= 0 THEN z ELSE z - 146096) = z /\ Quotient(z, 146097) = era
      BY <1>2, SMT DEF Quotient
    <2>2. doy = doe - (365 * y + y \div 4 - y \div 100)
      BY <1>6, SMT DEF YearStart
    <2>3. QED
      BY <1>1, <1>3, <1>4, <2>1, <2>2, SMT DEF civil_from_days, Civil
  <1>8. n + 719468 = 146097 * era + YearStart(y) + doy
    BY <1>1, <1>3, <1>5, <1>6, SMT
  <1>9. Place(n, era, y, doy)
    BY <1>4, <1>6, <1>7, <1>8, SMT DEF Place
  <1>10. QED
    BY <1>9, Zenon

(* Months begin in March too, and February is as long as the year leaves.   *)
MonthStart(mp) == (153 * mp + 2) \div 5
MonthLength(mp) == IF mp \in {1, 3, 6, 8} THEN 30 ELSE 31

LEMMA MonthFacts ==
  ASSUME NEW doy \in Nat, doy <= 365
  PROVE  LET mp == (5 * doy + 2) \div 153 IN
         /\ mp \in Nat /\ mp <= 11
         /\ MonthStart(mp) \in Nat /\ MonthStart(mp) <= doy
         /\ mp < 11 => doy < MonthStart(mp) + MonthLength(mp)
         /\ mp = 11 <=> doy >= 337
         /\ mp = 11 => MonthStart(mp) = 337
  <1>1. PICK mp \in Int : /\ mp = (5 * doy + 2) \div 153
                          /\ 153 * mp <= 5 * doy + 2 /\ 5 * doy + 2 < 153 * mp + 153
    BY SMT
  <1>2. mp \in Nat /\ mp <= 11
    BY <1>1, SMT
  <1>3. PICK s \in Int : s = (153 * mp + 2) \div 5 /\ 5 * s <= 153 * mp + 2 /\ 153 * mp + 2 < 5 * s + 5
    BY SMT
  <1>4. s \in Nat /\ s <= doy
    BY <1>1, <1>2, <1>3, SMT
  <1>5. mp < 11 => doy < s + MonthLength(mp)
    BY <1>1, <1>2, <1>3, SMT DEF MonthLength
  <1>6. (mp = 11 <=> doy >= 337) /\ (mp = 11 => s = 337)
    BY <1>1, <1>2, <1>3, SMT
  <1>7. QED
    BY <1>1, <1>2, <1>3, <1>4, <1>5, <1>6, SMT DEF MonthStart

(* From one day to the next inside a year: the same month, or the next one  *)
(* after its last day.                                                      *)
LEMMA MonthsFollow ==
  ASSUME NEW doy \in Nat, doy < 365
  PROVE  LET mp == (5 * doy + 2) \div 153
             next == (5 * (doy + 1) + 2) \div 153 IN
         \/ next = mp /\ (mp < 11 => doy + 1 < MonthStart(mp) + MonthLength(mp))
         \/ /\ mp < 11 /\ next = mp + 1 /\ MonthStart(next) = doy + 1
            /\ doy + 1 = MonthStart(mp) + MonthLength(mp)
  <1>1. PICK mp \in Int : /\ mp = (5 * doy + 2) \div 153
                          /\ 153 * mp <= 5 * doy + 2 /\ 5 * doy + 2 < 153 * mp + 153
    BY SMT
  <1>2. PICK next \in Int : /\ next = (5 * (doy + 1) + 2) \div 153
                            /\ 153 * next <= 5 * doy + 7 /\ 5 * doy + 7 < 153 * next + 153
    BY SMT
  <1>3. PICK s \in Int : s = (153 * mp + 2) \div 5 /\ 5 * s <= 153 * mp + 2 /\ 153 * mp + 2 < 5 * s + 5
    BY SMT
  <1>4. PICK t \in Int : t = (153 * next + 2) \div 5 /\ 5 * t <= 153 * next + 2 /\ 153 * next + 2 < 5 * t + 5
    BY SMT
  <1>5. mp >= 0 /\ mp <= 11
    BY <1>1, SMT
  <1>6. next = mp \/ (next = mp + 1 /\ mp < 11)
    BY <1>1, <1>2, SMT
  <1>7. next = mp /\ mp < 11 => doy + 1 < s + MonthLength(mp)
    BY <1>1, <1>2, <1>3, <1>5, SMT DEF MonthLength
  <1>8. next = mp + 1 /\ mp < 11 => t = doy + 1 /\ doy + 1 = s + MonthLength(mp)
    BY <1>1, <1>2, <1>3, <1>4, <1>5, SMT DEF MonthLength
  <1>9. QED
    BY <1>1, <1>2, <1>3, <1>4, <1>6, <1>7, <1>8, SMT DEF MonthStart

LEMMA LeapFacts ==
  ASSUME NEW era \in Nat, NEW y \in Nat, y <= 399
  PROVE  Leap(y + era * 400 + 1) <=> LongYear(y)
  <1>1. (y + era * 400 + 1) % 4 = (y + 1) % 4
    BY SMT
  <1>2. (y + era * 400 + 1) % 100 = (y + 1) % 100
    BY SMT
  <1>3. (y + era * 400 + 1) % 400 = 0 <=> y = 399
    BY SMT
  <1>4. QED
    BY <1>1, <1>2, <1>3 DEF Leap, LongYear

(* The date of a place and the day after it, by the rules of the calendar.  *)
LEMMA TomorrowInYear ==
  ASSUME NEW era \in Nat, NEW y \in Nat, y <= 399, NEW doy \in Nat, doy + 1 < YearLength(y)
  PROVE  Civil(era, y, doy + 1) = Tomorrow(Civil(era, y, doy))
  <1>1. YearLength(y) \in {365, 366} /\ (YearLength(y) = 366 <=> LongYear(y))
    BY SMT DEF YearLength
  <1>2. doy <= 364
    BY <1>1, SMT
  <1>3. PICK mp \in Int : mp = (5 * doy + 2) \div 153
    BY SMT
  <1>4. PICK next \in Int : next = (5 * (doy + 1) + 2) \div 153
    BY SMT
  <1>5. /\ mp \in Nat /\ mp <= 11 /\ MonthStart(mp) \in Nat /\ MonthStart(mp) <= doy
        /\ mp = 11 <=> doy >= 337
        /\ mp = 11 => MonthStart(mp) = 337
    BY <1>2, <1>3, MonthFacts, SMT
  <1>6. \/ next = mp /\ (mp < 11 => doy + 1 < MonthStart(mp) + MonthLength(mp))
        \/ /\ mp < 11 /\ next = mp + 1 /\ MonthStart(next) = doy + 1
           /\ doy + 1 = MonthStart(mp) + MonthLength(mp)
    BY <1>2, <1>3, <1>4, MonthsFollow, SMT
  <1> DEFINE Month(p) == IF p < 10 THEN p + 3 ELSE p - 9
             Year(p) == y + era * 400 + (IF Month(p) <= 2 THEN 1 ELSE 0)
  <1>7. Civil(era, y, doy) = <<Year(mp), Month(mp), doy - MonthStart(mp) + 1>>
    BY <1>3, SMT DEF Civil, MonthStart
  <1>8. Civil(era, y, doy + 1) = <<Year(next), Month(next), doy + 1 - MonthStart(next) + 1>>
    BY <1>4, SMT DEF Civil, MonthStart
  <1>9. LastOf(Year(mp), Month(mp)) = IF mp = 11 THEN (IF LongYear(y) THEN 29 ELSE 28)
                                                 ELSE MonthLength(mp)
    <2>1. CASE mp = 11
      <3>1. Month(mp) = 2 /\ Year(mp) = y + era * 400 + 1
        BY <2>1, SMT
      <3>2. Leap(y + era * 400 + 1) <=> LongYear(y)
        BY LeapFacts
      <3>3. QED
        BY <2>1, <3>1, <3>2, Zenon DEF LastOf
    <2>2. CASE mp < 11
      <3>1. Month(mp) # 2 /\ (Month(mp) \in {4, 6, 9, 11} <=> mp \in {1, 3, 6, 8})
        BY <1>5, <2>2, SMT
      <3>2. mp # 11
        BY <2>2, SMT
      <3>3. QED
        BY <3>1, <3>2, Zenon DEF LastOf, MonthLength
    <2>3. QED
      BY <1>5, <2>1, <2>2, SMT
  <1>10. Tomorrow(<<Year(mp), Month(mp), doy - MonthStart(mp) + 1>>) =
           LET d == doy - MonthStart(mp) + 1 IN
           IF d < LastOf(Year(mp), Month(mp)) THEN <<Year(mp), Month(mp), d + 1>>
           ELSE IF Month(mp) < 12 THEN <<Year(mp), Month(mp) + 1, 1>>
           ELSE <<Year(mp) + 1, 1, 1>>
    BY DEF Tomorrow
  <1>11. CASE next = mp /\ (mp < 11 => doy + 1 < MonthStart(mp) + MonthLength(mp))
    <2>1. doy - MonthStart(mp) + 1 < LastOf(Year(mp), Month(mp))
      <3>1. CASE mp = 11
        BY <1>1, <1>5, <1>9, <3>1, SMT
      <3>2. CASE mp < 11
        <4>1. MonthLength(mp) \in {30, 31}
          BY DEF MonthLength
        <4>2. LastOf(Year(mp), Month(mp)) = MonthLength(mp)
          BY <1>9, <3>2, SMT
        <4>3. QED
          BY <1>5, <1>11, <3>2, <4>1, <4>2, SMT
      <3>3. QED
        BY <1>5, <3>1, <3>2, SMT
    <2>2. doy + 1 - MonthStart(next) + 1 = doy - MonthStart(mp) + 1 + 1
      BY <1>5, <1>11, SMT
    <2>3. QED
      BY <1>7, <1>8, <1>10, <1>11, <2>1, <2>2, SMT
  <1>12. CASE /\ mp < 11 /\ next = mp + 1 /\ MonthStart(next) = doy + 1
              /\ doy + 1 = MonthStart(mp) + MonthLength(mp)
    <2>1. LastOf(Year(mp), Month(mp)) = MonthLength(mp) /\ MonthLength(mp) \in {30, 31}
      BY <1>9, <1>12, SMT DEF MonthLength
    <2>2. ~(doy - MonthStart(mp) + 1 < LastOf(Year(mp), Month(mp)))
      BY <1>5, <1>12, <2>1, SMT
    <2>3. doy + 1 - MonthStart(next) + 1 = 1
      BY <1>12, SMT
    <2>4. IF Month(mp) < 12 THEN Year(next) = Year(mp) /\ Month(next) = Month(mp) + 1
                            ELSE Year(next) = Year(mp) + 1 /\ Month(next) = 1
      BY <1>5, <1>12, SMT
    <2>5. QED
      BY <1>7, <1>8, <1>10, <2>2, <2>3, <2>4, SMT
  <1>13. QED
    BY <1>6, <1>11, <1>12

LEMMA TomorrowInNextYear ==
  ASSUME NEW era \in Nat, NEW y \in Nat, y <= 399, NEW doy \in Nat, doy + 1 = YearLength(y)
  PROVE  Tomorrow(Civil(era, y, doy)) = <<y + era * 400 + 1, 3, 1>>
  <1>1. YearLength(y) = IF LongYear(y) THEN 366 ELSE 365
    BY DEF YearLength
  <1>2. doy = IF LongYear(y) THEN 365 ELSE 364
    BY <1>1, SMT
  <1>3. (5 * doy + 2) \div 153 = 11 /\ (153 * 11 + 2) \div 5 = 337
    BY <1>2, SMT
  <1>4. doy - (153 * 11 + 2) \div 5 + 1 = IF LongYear(y) THEN 29 ELSE 28
    BY <1>2, <1>3, SMT
  <1>5. Civil(era, y, doy) = <<y + era * 400 + 1, 2, IF LongYear(y) THEN 29 ELSE 28>>
    BY <1>3, <1>4, SMT DEF Civil
  <1>6. LastOf(y + era * 400 + 1, 2) = IF LongYear(y) THEN 29 ELSE 28
    <2>1. Leap(y + era * 400 + 1) <=> LongYear(y)
      BY LeapFacts
    <2>2. QED
      BY <2>1, Zenon DEF LastOf
  <1>7. QED
    BY <1>5, <1>6, SMT DEF Tomorrow

LEMMA YearsBegin ==
  ASSUME NEW era \in Nat, NEW y \in Nat
  PROVE  Civil(era, y, 0) = <<y + era * 400, 3, 1>>
  BY SMT DEF Civil

(* civil_from_days is the calendar: every day's date is the one after the   *)
(* date of the day before.                                                  *)
LEMMA DatesFollow ==
  ASSUME NEW n \in Nat
  PROVE  civil_from_days(n + 1) = Tomorrow(civil_from_days(n))
  <1>p. PICK era \in Nat, y \in Nat, doy \in Nat : Place(n, era, y, doy)
    BY CivilIsPlace, Zenon
  <1>1. /\ y <= 399 /\ doy < YearLength(y)
        /\ n + 719468 = 146097 * era + YearStart(y) + doy
        /\ civil_from_days(n) = Civil(era, y, doy)
    BY <1>p, SMT DEF Place
  <1>2. n + 1 \in Nat
    BY SMT
  <1>q. PICK f \in Nat, z \in Nat, m \in Nat : Place(n + 1, f, z, m)
    BY <1>2, CivilIsPlace, Zenon
  <1>3. /\ z <= 399 /\ m < YearLength(z)
        /\ (n + 1) + 719468 = 146097 * f + YearStart(z) + m
        /\ civil_from_days(n + 1) = Civil(f, z, m)
    BY <1>q, SMT DEF Place
  <1>4. /\ YearStart(y) \in Nat /\ YearLength(y) \in {365, 366} /\ YearStart(0) = 0
        /\ y < 399 => YearStart(y + 1) = YearStart(y) + YearLength(y)
        /\ y = 399 => YearStart(y) + YearLength(y) = 146097
        /\ YearStart(z) \in Nat /\ YearLength(z) \in {365, 366}
    BY <1>1, <1>3, YearsFollow, SMT
  <1>5. CASE doy + 1 < YearLength(y)
    <2>1. 146097 * era + YearStart(y) + (doy + 1) = 146097 * f + YearStart(z) + m
      BY <1>1, <1>3, <1>4, SMT
    <2>2. f = era /\ z = y /\ m = doy + 1
      BY <1>1, <1>3, <1>5, <2>1, OnePlace, SMT
    <2>3. QED
      BY <1>1, <1>3, <1>5, <2>2, TomorrowInYear, SMT
  <1>6. CASE doy + 1 = YearLength(y) /\ y < 399
    <2>1. 146097 * era + YearStart(y + 1) + 0 = 146097 * f + YearStart(z) + m
      BY <1>1, <1>3, <1>4, <1>6, SMT
    <2>2. YearLength(y + 1) \in {365, 366}
      BY SMT DEF YearLength
    <2>3. f = era /\ z = y + 1 /\ m = 0
      BY <1>1, <1>3, <1>6, <2>1, <2>2, OnePlace, SMT
    <2>4. y + 1 \in Nat /\ Civil(era, y + 1, 0) = <<(y + 1) + era * 400, 3, 1>>
      <3>1. y + 1 \in Nat
        BY SMT
      <3>2. QED
        BY <3>1, YearsBegin
    <2>5. (y + 1) + era * 400 = y + era * 400 + 1
      BY SMT
    <2>6. civil_from_days(n + 1) = <<y + era * 400 + 1, 3, 1>>
      <3>1. civil_from_days(n + 1) = Civil(era, y + 1, 0)
        BY <1>3, <2>3, SMT
      <3>2. QED
        BY <3>1, <2>4, <2>5, SMT
    <2>7. Tomorrow(Civil(era, y, doy)) = <<y + era * 400 + 1, 3, 1>>
      BY <1>1, <1>6, TomorrowInNextYear
    <2>8. civil_from_days(n) = Civil(era, y, doy)
      BY <1>1, SMT
    <2>9. QED
      BY <2>6, <2>7, <2>8, SMT
  <1>7. CASE doy + 1 = YearLength(y) /\ y = 399
    <2>1. 146097 * (era + 1) + YearStart(0) + 0 = 146097 * f + YearStart(z) + m
      BY <1>1, <1>3, <1>4, <1>7, SMT
    <2>2. YearLength(0) \in {365, 366}
      BY SMT DEF YearLength
    <2>3. f = era + 1 /\ z = 0 /\ m = 0
      <3>1. PICK e \in Int, v \in Nat, u \in Nat : e = era + 1 /\ v = 0 /\ u = 0
        BY SMT
      <3>2. v <= 399 /\ u < YearLength(v) /\ 146097 * e + YearStart(v) + u = 146097 * f + YearStart(z) + m
        BY <2>1, <2>2, <3>1, SMT
      <3>3. e = f /\ v = z /\ u = m
        BY <1>3, <3>2, OnePlace, SMT
      <3>4. QED
        BY <3>1, <3>3, SMT
    <2>4. era + 1 \in Nat /\ Civil(era + 1, 0, 0) = <<0 + (era + 1) * 400, 3, 1>>
      <3>1. era + 1 \in Nat
        BY SMT
      <3>2. 0 \in Nat
        BY SMT
      <3>3. QED
        BY <3>1, <3>2, YearsBegin, Zenon
    <2>5. 0 + (era + 1) * 400 = y + era * 400 + 1
      BY <1>7, SMT
    <2>6. civil_from_days(n + 1) = <<y + era * 400 + 1, 3, 1>>
      <3>1. civil_from_days(n + 1) = Civil(era + 1, 0, 0)
        BY <1>3, <2>3, SMT
      <3>2. QED
        BY <3>1, <2>4, <2>5, SMT
    <2>7. Tomorrow(Civil(era, y, doy)) = <<y + era * 400 + 1, 3, 1>>
      BY <1>1, <1>7, TomorrowInNextYear
    <2>8. civil_from_days(n) = Civil(era, y, doy)
      BY <1>1, SMT
    <2>9. QED
      BY <2>6, <2>7, <2>8, SMT
  <1>8. QED
    BY <1>1, <1>4, <1>5, <1>6, <1>7, SMT

(* The time of day, likewise.                                               *)
LEMMA TimesFollow ==
  ASSUME NEW n \in Nat, NEW s \in Nat, s <= LastSecond
  PROVE  SecondLater(Stamp(n, s)) = IF s = LastSecond THEN Stamp(n + 1, 0) ELSE Stamp(n, s + 1)
  <1>1. s <= 86399 /\ (s = LastSecond <=> s = 86399)
    BY SMT DEF LastSecond
  <1>2. PICK h \in Int : h = s \div 3600 /\ 3600 * h <= s /\ s < 3600 * h + 3600
    BY SMT
  <1>3. PICK r \in Int : r = s % 3600 /\ r = s - 3600 * h
    BY <1>2, SMT
  <1>4. PICK m \in Int : m = r \div 60 /\ 60 * m <= r /\ r < 60 * m + 60
    BY SMT
  <1>5. PICK x \in Int : x = s % 60 /\ x = r - 60 * m
    BY <1>2, <1>3, <1>4, SMT
  <1>6. Stamp(n, s) = [date |-> civil_from_days(n), time |-> <<h, m, x>>]
    BY <1>2, <1>3, <1>4, <1>5, SMT DEF Stamp
  <1>7. h >= 0 /\ h <= 23 /\ m >= 0 /\ m <= 59 /\ x >= 0 /\ x <= 59
    BY <1>1, <1>2, <1>3, <1>4, <1>5, SMT
  <1>8. s = 86399 <=> h = 23 /\ m = 59 /\ x = 59
    BY <1>1, <1>2, <1>3, <1>4, <1>5, SMT
  <1>9. SecondLater(Stamp(n, s)) =
          IF x < 59 THEN [date |-> civil_from_days(n), time |-> <<h, m, x + 1>>]
          ELSE IF m < 59 THEN [date |-> civil_from_days(n), time |-> <<h, m + 1, 0>>]
          ELSE IF h < 23 THEN [date |-> civil_from_days(n), time |-> <<h + 1, 0, 0>>]
          ELSE [date |-> Tomorrow(civil_from_days(n)), time |-> <<0, 0, 0>>]
    BY <1>6, SMT DEF SecondLater
  <1>10. CASE s = 86399
    <2>1. Stamp(n + 1, 0) = [date |-> Tomorrow(civil_from_days(n)), time |-> <<0, 0, 0>>]
      BY DatesFollow, SMT DEF Stamp
    <2>2. QED
      BY <1>1, <1>8, <1>9, <1>10, <2>1, SMT
  <1>11. CASE s < 86399
    <2>1. Stamp(n, s + 1) = [date |-> civil_from_days(n),
                             time |-> <<(s + 1) \div 3600, ((s + 1) % 3600) \div 60, (s + 1) % 60>>]
      BY DEF Stamp
    <2>2. CASE x < 59
      <3>1. (s + 1) \div 3600 = h /\ ((s + 1) % 3600) \div 60 = m /\ (s + 1) % 60 = x + 1
        BY <1>2, <1>3, <1>4, <1>5, <1>7, <2>2, SMT
      <3>2. QED
        BY <1>1, <1>9, <1>11, <2>1, <2>2, <3>1, SMT
    <2>3. CASE x = 59 /\ m < 59
      <3>1. (s + 1) \div 3600 = h /\ ((s + 1) % 3600) \div 60 = m + 1 /\ (s + 1) % 60 = 0
        BY <1>2, <1>3, <1>4, <1>5, <1>7, <2>3, SMT
      <3>2. QED
        BY <1>1, <1>9, <1>11, <2>1, <2>3, <3>1, SMT
    <2>4. CASE x = 59 /\ m = 59
      <3>1. h < 23
        BY <1>7, <1>8, <1>11, <2>4, SMT
      <3>2. (s + 1) \div 3600 = h + 1 /\ ((s + 1) % 3600) \div 60 = 0 /\ (s + 1) % 60 = 0
        BY <1>2, <1>3, <1>4, <1>5, <1>7, <2>4, SMT
      <3>3. QED
        BY <1>1, <1>9, <1>11, <2>1, <2>4, <3>1, <3>2, SMT
    <2>5. QED
      BY <1>7, <2>2, <2>3, <2>4, SMT
  <1>12. QED
    BY <1>1, <1>10, <1>11, SMT

ClockInv == day \in Nat /\ second \in Nat /\ second <= LastSecond /\ stamp = Stamp(day, second)

(* The names of backup files count on as calendar and clock do, on every    *)
(* day from 1970 (main.rs 927-937, 1902-1917).                              *)
THEOREM NamesFollowTheCalendar == ClockSpec => CalendarTurns
  <1>1. LastSecond \in Nat
    BY SMT DEF LastSecond
  <1>2. ClockInit => ClockInv
    <2> SUFFICES ASSUME ClockInit
                 PROVE  ClockInv
      OBVIOUS
    <2>1. day \in Nat /\ second \in Nat /\ second <= LastSecond
      <3>1. CASE day \in Days /\ second = LastSecond
        BY <1>1, <3>1, DaysAssumption, SMT
      <3>2. CASE day = 0 /\ second \in 0..LastSecond
        BY <1>1, <3>2, SMT
      <3>3. QED
        BY <3>1, <3>2, Zenon DEF ClockInit
    <2>2. QED
      BY <2>1, Zenon DEF ClockInit, ClockInv
  <1>3. ClockInv /\ [Tick]_clockVars => ClockInv'
    BY <1>1, SMT DEF ClockInv, Tick, clockVars
  <1>4. civil_from_days(0) = <<1970, 1, 1>>
    BY SMT DEF civil_from_days, Quotient, YearOfEra
  <1>5. ClockInv /\ [Tick]_clockVars =>
          [/\ day = 0 => stamp.date = <<1970, 1, 1>>
           /\ stamp' = SecondLater(stamp)]_clockVars
    <2> SUFFICES ASSUME ClockInv, Tick
                 PROVE  /\ day = 0 => stamp.date = <<1970, 1, 1>>
                        /\ stamp' = SecondLater(stamp)
      BY SMT
    <2>1. day = 0 => stamp.date = <<1970, 1, 1>>
      BY <1>4, SMT DEF ClockInv, Stamp
    <2>2. SecondLater(stamp) = IF second = LastSecond THEN Stamp(day + 1, 0) ELSE Stamp(day, second + 1)
      <3>1. day \in Nat /\ second \in Nat /\ second <= LastSecond /\ stamp = Stamp(day, second)
        BY Zenon DEF ClockInv
      <3>2. SecondLater(Stamp(day, second)) = IF second = LastSecond THEN Stamp(day + 1, 0) ELSE Stamp(day, second + 1)
        BY <3>1, TimesFollow
      <3>3. QED
        BY <3>1, <3>2, Zenon
    <2>3. stamp' = Stamp(day', second') /\ (IF second = LastSecond THEN day' = day + 1 /\ second' = 0
                                            ELSE second' = second + 1 /\ UNCHANGED day)
      BY Zenon DEF Tick
    <2>4. stamp' = SecondLater(stamp)
      BY <2>2, <2>3, SMT
    <2>5. QED
      BY <2>1, <2>4
  <1>6. QED
    BY <1>2, <1>3, <1>5, PTL DEF ClockSpec, CalendarTurns

-----------------------------------------------------------------------------
(* TOTP secrets.  First induction over the numbers, then the two loops over *)
(* characters, the bits of the accumulator, the whole of decode_base32, and *)
(* the way of a secret through the entry.                                   *)
(* A set of numbers has a least one, as their order is well-founded.        *)
LEMMA LeastElement ==
  ASSUME NEW T \in SUBSET Nat, T # {}
  PROVE  \E x \in T : \A y \in T : x <= y
  <1> DEFINE R == {ss \in Nat \X Nat : ss[1] < ss[2]}
  <1>1. IsWellFoundedOn(R, Nat)
    BY NatLessThanWellFounded DEF OpToRel
  <1>2. \A x, y \in Nat : <<y, x>> \in R <=> y < x
    OBVIOUS
  <1> HIDE DEF R
  <1> T \subseteq Nat
    OBVIOUS
  <1>3. PICK x \in T : \A y \in T : ~(<<y, x>> \in R)
    BY <1>1, WFMin
  <1>4. \A y \in T : x \in Nat /\ y \in Nat /\ ~(y < x) => x <= y
    OBVIOUS
  <1>5. QED
    BY <1>2, <1>3, <1>4

(* Whatever holds of zero and of the next number holds of each: a set stands*)
(* for the predicate.                                                       *)
LEMMA Induction ==
  ASSUME NEW S, 0 \in S, \A n \in Nat : n \in S => n + 1 \in S
  PROVE  \A n \in Nat : n \in S
  <1> SUFFICES ASSUME Nat \ S # {} PROVE FALSE
    OBVIOUS
  <1>1. PICK x \in Nat \ S : \A y \in Nat \ S : x <= y
    BY LeastElement
  <1>2. x - 1 \in Nat /\ (x - 1) + 1 = x
    BY <1>1
  <1>3. QED
    BY <1>1, <1>2

(* Min, by which the first padding is found, finds the least.               *)
LEMMA MinIsLeast ==
  ASSUME NEW T \in SUBSET Nat, T # {}
  PROVE  Min(T) \in T /\ \A y \in T : Min(T) <= y
  BY LeastElement DEF Min

(* f is what the filter of decode_base32 has kept of the first n characters. *)
KeptFrom(text, S, f, n) ==
  f = [i \in 0..n |->
        IF i = 0 THEN <<>> ELSE IF text[i] \in S THEN Append(f[i - 1], text[i]) ELSE f[i - 1]]

(* The filter of decode_base32 is a function of the text, of any length: the*)
(* recursive definition has a solution.                                     *)
LEMMA KeptExists ==
  ASSUME NEW text, NEW S
  PROVE  \A n \in Nat : \E f : KeptFrom(text, S, f, n)
  <1> DEFINE Q == {n \in Nat : \E f : KeptFrom(text, S, f, n)}
  <1>1. 0 \in Q
    <2>1. KeptFrom(text, S, [i \in 0..0 |-> <<>>], 0)
      BY DEF KeptFrom
    <2>2. QED
      BY <2>1
  <1>2. ASSUME NEW n \in Nat, n \in Q PROVE n + 1 \in Q
    <2>1. PICK f : KeptFrom(text, S, f, n)
      BY <1>2
    <2> DEFINE last == IF text[n + 1] \in S THEN Append(f[n], text[n + 1]) ELSE f[n]
               g == [i \in 0..n + 1 |-> IF i = n + 1 THEN last ELSE f[i]]
    <2>2. g = [i \in 0..n + 1 |->
                IF i = 0 THEN <<>> ELSE IF text[i] \in S THEN Append(g[i - 1], text[i]) ELSE g[i - 1]]
      <3>1. \A i \in 0..n : f[i] = IF i = 0 THEN <<>> ELSE IF text[i] \in S THEN Append(f[i - 1], text[i]) ELSE f[i - 1]
        BY <2>1, Zenon DEF KeptFrom
      <3>2. \A i \in 0..n : i # n + 1 /\ i \in 0..n + 1 /\ (i # 0 => i - 1 \in 0..n /\ i - 1 \in 0..n + 1 /\ i - 1 # n + 1)
        OBVIOUS
      <3>3. n + 1 # 0 /\ (n + 1) - 1 = n /\ n \in 0..n + 1 /\ n # n + 1
        OBVIOUS
      <3>4. \A i \in 0..n + 1 : i = n + 1 \/ i \in 0..n
        OBVIOUS
      <3>5. \A i \in 0..n + 1 : g[i] =
                IF i = 0 THEN <<>> ELSE IF text[i] \in S THEN Append(g[i - 1], text[i]) ELSE g[i - 1]
        BY <3>1, <3>2, <3>3, <3>4
      <3>6. QED
        BY <3>5
    <2> HIDE DEF g
    <2>3. KeptFrom(text, S, g, n + 1)
      BY <2>2, Zenon DEF KeptFrom
    <2>4. n + 1 \in Nat
      OBVIOUS
    <2>5. QED
      BY <2>3, <2>4
  <1> HIDE DEF Q
  <1>3. \A n \in Nat : n \in Q
    BY <1>1, <1>2, Induction
  <1>4. QED
    BY <1>3, Zenon DEF Q

(* What the filter keeps of a text is a text, of the characters asked for.  *)
LEMMA KeptType ==
  ASSUME NEW A, NEW text \in Seq(A), NEW S
  PROVE  Kept(text, S) \in Seq(S \cap A)
  <1> DEFINE n == Len(text)
             B == S \cap A
  <1>1. n \in Nat
    OBVIOUS
  <1>2. PICK g : KeptFrom(text, S, g, n) /\ Kept(text, S) = g[n]
    <2> DEFINE g == CHOOSE g : KeptFrom(text, S, g, n)
    <2>1. KeptFrom(text, S, g, n)
      BY <1>1, KeptExists, Zenon
    <2>2. Kept(text, S) = g[n]
      BY Zenon DEF Kept, KeptFrom
    <2>3. QED
      BY <2>1, <2>2
  <1> DEFINE Q == {i \in Nat : i <= n => g[i] \in Seq(B)}
  <1>3. 0 \in Q
    BY <1>1, <1>2 DEF KeptFrom
  <1>4. ASSUME NEW i \in Nat, i \in Q PROVE i + 1 \in Q
    <2>1. SUFFICES ASSUME i + 1 <= n PROVE g[i + 1] \in Seq(B)
      OBVIOUS
    <2>2. g[i] \in Seq(B) /\ i + 1 \in 0..n /\ text[i + 1] \in A
      BY <1>1, <1>4, <2>1
    <2>3. g[i + 1] = IF text[i + 1] \in S THEN Append(g[i], text[i + 1]) ELSE g[i]
      <3>1. \A j \in 0..n : g[j] =
              IF j = 0 THEN <<>> ELSE IF text[j] \in S THEN Append(g[j - 1], text[j]) ELSE g[j - 1]
        BY <1>2, Zenon DEF KeptFrom
      <3>2. i + 1 # 0 /\ (i + 1) - 1 = i
        OBVIOUS
      <3>3. QED
        BY <2>2, <3>1, <3>2
    <2>4. QED
      BY <2>2, <2>3
  <1> HIDE DEF Q
  <1>5. n \in Q
    BY <1>1, <1>3, <1>4, Induction
  <1>6. QED
    BY <1>1, <1>2, <1>5 DEF Q

(* f is the state of the loop over the characters.                                *)
ScanFrom(data, f, n) ==
  f = [i \in 0..n |->
        IF i = 0 THEN [acc |-> 0, bits |-> 0, out |-> <<>>] ELSE Take(f[i - 1], data[i])]

(* So is the loop over the characters.                                      *)
LEMMA ScanExists ==
  ASSUME NEW data
  PROVE  \A n \in Nat : \E f : ScanFrom(data, f, n)
  <1> DEFINE Q == {n \in Nat : \E f : ScanFrom(data, f, n)}
             start == [acc |-> 0, bits |-> 0, out |-> <<>>]
  <1>1. 0 \in Q
    <2>1. ScanFrom(data, [i \in 0..0 |-> start], 0)
      BY DEF ScanFrom
    <2>2. QED
      BY <2>1
  <1>2. ASSUME NEW n \in Nat, n \in Q PROVE n + 1 \in Q
    <2>1. PICK f : ScanFrom(data, f, n)
      BY <1>2
    <2> DEFINE last == Take(f[n], data[n + 1])
               g == [i \in 0..n + 1 |-> IF i = n + 1 THEN last ELSE f[i]]
    <2>2. g = [i \in 0..n + 1 |-> IF i = 0 THEN start ELSE Take(g[i - 1], data[i])]
      <3>1. \A i \in 0..n : f[i] = IF i = 0 THEN start ELSE Take(f[i - 1], data[i])
        BY <2>1, Zenon DEF ScanFrom
      <3>2. \A i \in 0..n : i # n + 1 /\ i \in 0..n + 1 /\ (i # 0 => i - 1 \in 0..n /\ i - 1 \in 0..n + 1 /\ i - 1 # n + 1)
        OBVIOUS
      <3>3. n + 1 # 0 /\ (n + 1) - 1 = n /\ n \in 0..n + 1 /\ n # n + 1
        OBVIOUS
      <3>4. \A i \in 0..n + 1 : i = n + 1 \/ i \in 0..n
        OBVIOUS
      <3>5. \A i \in 0..n + 1 : g[i] = IF i = 0 THEN start ELSE Take(g[i - 1], data[i])
        BY <3>1, <3>2, <3>3, <3>4
      <3>6. QED
        BY <3>5
    <2> HIDE DEF g
    <2>3. ScanFrom(data, g, n + 1)
      BY <2>2, Zenon DEF ScanFrom
    <2>4. n + 1 \in Nat
      OBVIOUS
    <2>5. QED
      BY <2>3, <2>4
  <1> HIDE DEF Q
  <1>3. \A n \in Nat : n \in Q
    BY <1>1, <1>2, Induction
  <1>4. QED
    BY <1>3, Zenon DEF Q

(* The loop begins with nothing, and each turn takes one character.         *)
LEMMA ScanSteps ==
  ASSUME NEW data, Len(data) \in Nat
  PROVE  /\ Scan(data)[0] = [acc |-> 0, bits |-> 0, out |-> <<>>]
         /\ \A i \in Nat : i < Len(data) => Scan(data)[i + 1] = Take(Scan(data)[i], data[i + 1])
  <1> DEFINE n == Len(data)
             g == CHOOSE g : ScanFrom(data, g, n)
  <1>1. ScanFrom(data, g, n)
    BY ScanExists, Zenon
  <1>2. Scan(data) = g
    BY Zenon DEF Scan, ScanFrom
  <1> HIDE DEF g
  <1>3. \A j \in 0..n : g[j] =
          IF j = 0 THEN [acc |-> 0, bits |-> 0, out |-> <<>>] ELSE Take(g[j - 1], data[j])
    BY <1>1, Zenon DEF ScanFrom
  <1>4. ASSUME NEW i \in Nat, i < n PROVE g[i + 1] = Take(g[i], data[i + 1])
    <2>1. i + 1 # 0 /\ (i + 1) - 1 = i /\ i + 1 \in 0..n
      BY <1>4
    <2>2. QED
      BY <1>3, <2>1
  <1>5. 0 \in 0..n
    OBVIOUS
  <1>6. QED
    BY <1>2, <1>3, <1>4, <1>5

(* Bits of a number, from the lowest. *)
BitOf(x, t) == (x \div 2^t) % 2

(* The twelve lowest bits by the powers the arithmetic knows.               *)
LEMMA BitValues ==
  ASSUME NEW x
  PROVE  /\ BitOf(x, 0) = (x \div 1) % 2 /\ BitOf(x, 1) = (x \div 2) % 2 /\ BitOf(x, 2) = (x \div 4) % 2
         /\ BitOf(x, 3) = (x \div 8) % 2 /\ BitOf(x, 4) = (x \div 16) % 2 /\ BitOf(x, 5) = (x \div 32) % 2
         /\ BitOf(x, 6) = (x \div 64) % 2 /\ BitOf(x, 7) = (x \div 128) % 2
         /\ BitOf(x, 8) = (x \div 256) % 2 /\ BitOf(x, 9) = (x \div 512) % 2
         /\ BitOf(x, 10) = (x \div 1024) % 2 /\ BitOf(x, 11) = (x \div 2048) % 2
  <1>1. /\ 2^0 = 1 /\ 2^1 = 2 /\ 2^2 = 4 /\ 2^3 = 8 /\ 2^4 = 16 /\ 2^5 = 32 /\ 2^6 = 64 /\ 2^7 = 128
        /\ 2^8 = 256 /\ 2^9 = 512 /\ 2^10 = 1024 /\ 2^11 = 2048
    OBVIOUS
  <1>2. QED
    BY <1>1 DEF BitOf

(* Five bits are taken in below the others, and no bit that is still asked  *)
(* for is lost above.                                                       *)
LEMMA TakenBits ==
  ASSUME NEW acc \in Nat, NEW v \in Nat, v <= 31
  PROVE  /\ Shifted(acc, v) \in Nat
         /\ \A t \in 0..4 : BitOf(Shifted(acc, v), t) = BitOf(v, t)
         /\ \A t \in 5..11 : BitOf(Shifted(acc, v), t) = BitOf(acc, t - 5)
  <1> DEFINE a == (acc * 32 + v) % 65536
  <1>1. a \in Nat
    OBVIOUS
  <1>2. /\ (a \div 1) % 2 = (v \div 1) % 2 /\ (a \div 2) % 2 = (v \div 2) % 2 /\ (a \div 4) % 2 = (v \div 4) % 2
        /\ (a \div 8) % 2 = (v \div 8) % 2 /\ (a \div 16) % 2 = (v \div 16) % 2
    OBVIOUS
  <1>3. a \div 32 = acc % 2048
    OBVIOUS
  <1>4. /\ (a \div 32) % 2 = (acc \div 1) % 2 /\ (a \div 64) % 2 = (acc \div 2) % 2
        /\ (a \div 128) % 2 = (acc \div 4) % 2
    OBVIOUS
  <1>5. /\ (a \div 256) % 2 = (acc \div 8) % 2 /\ (a \div 512) % 2 = (acc \div 16) % 2
    OBVIOUS
  <1>6. /\ (a \div 1024) % 2 = (acc \div 32) % 2 /\ (a \div 2048) % 2 = (acc \div 64) % 2
    OBVIOUS
  <1> HIDE DEF a, Shifted
  <1>7. /\ BitOf(a, 0) = BitOf(v, 0) /\ BitOf(a, 1) = BitOf(v, 1) /\ BitOf(a, 2) = BitOf(v, 2)
        /\ BitOf(a, 3) = BitOf(v, 3) /\ BitOf(a, 4) = BitOf(v, 4)
    BY <1>2, BitValues
  <1>8. /\ BitOf(a, 5) = BitOf(acc, 0) /\ BitOf(a, 6) = BitOf(acc, 1) /\ BitOf(a, 7) = BitOf(acc, 2)
        /\ BitOf(a, 8) = BitOf(acc, 3) /\ BitOf(a, 9) = BitOf(acc, 4) /\ BitOf(a, 10) = BitOf(acc, 5)
        /\ BitOf(a, 11) = BitOf(acc, 6)
    BY <1>4, <1>5, <1>6, BitValues
  <1>9. QED
    BY <1>1, <1>7, <1>8 DEF a, Shifted

(* The cast to u8 keeps the eight lowest bits.                              *)
LEMMA LowByteBits ==
  ASSUME NEW x \in Nat
  PROVE  \A t \in 0..7 : BitOf(x % 256, t) = BitOf(x, t)
  <1> DEFINE y == x % 256
  <1>1. /\ (y \div 1) % 2 = (x \div 1) % 2 /\ (y \div 2) % 2 = (x \div 2) % 2
        /\ (y \div 4) % 2 = (x \div 4) % 2 /\ (y \div 8) % 2 = (x \div 8) % 2
        /\ (y \div 16) % 2 = (x \div 16) % 2 /\ (y \div 32) % 2 = (x \div 32) % 2
        /\ (y \div 64) % 2 = (x \div 64) % 2 /\ (y \div 128) % 2 = (x \div 128) % 2
    OBVIOUS
  <1> HIDE DEF y
  <1>2. /\ BitOf(y, 0) = BitOf(x, 0) /\ BitOf(y, 1) = BitOf(x, 1)
        /\ BitOf(y, 2) = BitOf(x, 2) /\ BitOf(y, 3) = BitOf(x, 3)
    BY <1>1, BitValues
  <1>3. /\ BitOf(y, 4) = BitOf(x, 4) /\ BitOf(y, 5) = BitOf(x, 5)
        /\ BitOf(y, 6) = BitOf(x, 6) /\ BitOf(y, 7) = BitOf(x, 7)
    BY <1>1, BitValues
  <1>4. QED
    BY <1>2, <1>3 DEF y

(* A shift to the right by at most four.                                    *)
LEMMA ShiftedBits ==
  ASSUME NEW a \in Nat, NEW b \in 0..4, NEW t \in 0..7
  PROVE  BitOf(a \div 2^b, t) = BitOf(a, t + b)
  <1>1. CASE b = 0
    <2> DEFINE x == a \div 1
    <2>0. 2^b = 1
      BY <1>1
    <2>1. /\ x \div 1 = a \div 1 /\ x \div 2 = a \div 2 /\ x \div 4 = a \div 4 /\ x \div 8 = a \div 8
          /\ x \div 16 = a \div 16 /\ x \div 32 = a \div 32 /\ x \div 64 = a \div 64 /\ x \div 128 = a \div 128
      OBVIOUS
    <2> HIDE DEF x
    <2>2. /\ BitOf(x, 0) = BitOf(a, 0) /\ BitOf(x, 1) = BitOf(a, 1) /\ BitOf(x, 2) = BitOf(a, 2) /\ BitOf(x, 3) = BitOf(a, 3)
          /\ BitOf(x, 4) = BitOf(a, 4) /\ BitOf(x, 5) = BitOf(a, 5) /\ BitOf(x, 6) = BitOf(a, 6) /\ BitOf(x, 7) = BitOf(a, 7)
      BY <2>1, BitValues
    <2>3. QED
      BY <1>1, <2>0, <2>2 DEF x
  <1>2. CASE b = 1
    <2> DEFINE x == a \div 2
    <2>0. 2^b = 2
      BY <1>2
    <2>1. /\ x \div 1 = a \div 2 /\ x \div 2 = a \div 4 /\ x \div 4 = a \div 8 /\ x \div 8 = a \div 16
          /\ x \div 16 = a \div 32 /\ x \div 32 = a \div 64 /\ x \div 64 = a \div 128 /\ x \div 128 = a \div 256
      OBVIOUS
    <2> HIDE DEF x
    <2>2. /\ BitOf(x, 0) = BitOf(a, 1) /\ BitOf(x, 1) = BitOf(a, 2) /\ BitOf(x, 2) = BitOf(a, 3) /\ BitOf(x, 3) = BitOf(a, 4)
          /\ BitOf(x, 4) = BitOf(a, 5) /\ BitOf(x, 5) = BitOf(a, 6) /\ BitOf(x, 6) = BitOf(a, 7) /\ BitOf(x, 7) = BitOf(a, 8)
      BY <2>1, BitValues
    <2>3. QED
      BY <1>2, <2>0, <2>2 DEF x
  <1>3. CASE b = 2
    <2> DEFINE x == a \div 4
    <2>0. 2^b = 4
      BY <1>3
    <2>1. /\ x \div 1 = a \div 4 /\ x \div 2 = a \div 8 /\ x \div 4 = a \div 16 /\ x \div 8 = a \div 32
          /\ x \div 16 = a \div 64 /\ x \div 32 = a \div 128 /\ x \div 64 = a \div 256 /\ x \div 128 = a \div 512
      OBVIOUS
    <2> HIDE DEF x
    <2>2. /\ BitOf(x, 0) = BitOf(a, 2) /\ BitOf(x, 1) = BitOf(a, 3) /\ BitOf(x, 2) = BitOf(a, 4) /\ BitOf(x, 3) = BitOf(a, 5)
          /\ BitOf(x, 4) = BitOf(a, 6) /\ BitOf(x, 5) = BitOf(a, 7) /\ BitOf(x, 6) = BitOf(a, 8) /\ BitOf(x, 7) = BitOf(a, 9)
      BY <2>1, BitValues
    <2>3. QED
      BY <1>3, <2>0, <2>2 DEF x
  <1>4. CASE b = 3
    <2> DEFINE x == a \div 8
    <2>0. 2^b = 8
      BY <1>4
    <2>1. /\ x \div 1 = a \div 8 /\ x \div 2 = a \div 16 /\ x \div 4 = a \div 32 /\ x \div 8 = a \div 64
          /\ x \div 16 = a \div 128 /\ x \div 32 = a \div 256 /\ x \div 64 = a \div 512 /\ x \div 128 = a \div 1024
      OBVIOUS
    <2> HIDE DEF x
    <2>2. /\ BitOf(x, 0) = BitOf(a, 3) /\ BitOf(x, 1) = BitOf(a, 4) /\ BitOf(x, 2) = BitOf(a, 5) /\ BitOf(x, 3) = BitOf(a, 6)
          /\ BitOf(x, 4) = BitOf(a, 7) /\ BitOf(x, 5) = BitOf(a, 8) /\ BitOf(x, 6) = BitOf(a, 9) /\ BitOf(x, 7) = BitOf(a, 10)
      BY <2>1, BitValues
    <2>3. QED
      BY <1>4, <2>0, <2>2 DEF x
  <1>5. CASE b = 4
    <2> DEFINE x == a \div 16
    <2>0. 2^b = 16
      BY <1>5
    <2>1. /\ x \div 1 = a \div 16 /\ x \div 2 = a \div 32 /\ x \div 4 = a \div 64 /\ x \div 8 = a \div 128
          /\ x \div 16 = a \div 256 /\ x \div 32 = a \div 512 /\ x \div 64 = a \div 1024 /\ x \div 128 = a \div 2048
      OBVIOUS
    <2> HIDE DEF x
    <2>2. /\ BitOf(x, 0) = BitOf(a, 4) /\ BitOf(x, 1) = BitOf(a, 5) /\ BitOf(x, 2) = BitOf(a, 6) /\ BitOf(x, 3) = BitOf(a, 7)
          /\ BitOf(x, 4) = BitOf(a, 8) /\ BitOf(x, 5) = BitOf(a, 9) /\ BitOf(x, 6) = BitOf(a, 10) /\ BitOf(x, 7) = BitOf(a, 11)
      BY <2>1, BitValues
    <2>3. QED
      BY <1>5, <2>0, <2>2 DEF x
  <1>6. QED
    BY <1>1, <1>2, <1>3, <1>4, <1>5

(* It gives a number.                                                       *)
LEMMA Halved ==
  ASSUME NEW a \in Nat, NEW b \in 0..4
  PROVE  a \div 2^b \in Nat
  <1>1. 2^0 = 1 /\ 2^1 = 2 /\ 2^2 = 4 /\ 2^3 = 8 /\ 2^4 = 16
    OBVIOUS
  <1>2. /\ a \div 1 \in Nat /\ a \div 2 \in Nat /\ a \div 4 \in Nat
        /\ a \div 8 \in Nat /\ a \div 16 \in Nat
    OBVIOUS
  <1>3. b = 0 \/ b = 1 \/ b = 2 \/ b = 3 \/ b = 4
    OBVIOUS
  <1>4. QED
    BY <1>1, <1>2, <1>3, Zenon

(* A byte of the output is eight bits of the accumulator.                   *)
LEMMA ByteBits ==
  ASSUME NEW a \in Nat, NEW b \in 0..4
  PROVE  /\ Byte(a, b) \in Nat /\ Byte(a, b) < 256
         /\ \A t \in 0..7 : BitOf(Byte(a, b), t) = BitOf(a, t + b)
  <1> DEFINE x == a \div 2^b
  <1>1. x \in Nat
    BY Halved
  <1>2. \A t \in 0..7 : BitOf(x, t) = BitOf(a, t + b)
    BY ShiftedBits
  <1> HIDE DEF x
  <1>3. x % 256 \in Nat /\ x % 256 < 256
    BY <1>1
  <1>4. \A t \in 0..7 : BitOf(x % 256, t) = BitOf(x, t)
    BY <1>1, LowByteBits
  <1>5. QED
    BY <1>2, <1>3, <1>4 DEF x, Byte

(* The mask test at the end says of each left-over bit that it is zero.     *)
LEMMA LowBits ==
  ASSUME NEW a \in Nat, NEW b \in 0..7
  PROVE  a % 2^b = 0 <=> \A t \in 0..b - 1 : BitOf(a, t) = 0
  <1>0. 2^0 = 1 /\ 2^1 = 2 /\ 2^2 = 4 /\ 2^3 = 8 /\ 2^4 = 16 /\ 2^5 = 32 /\ 2^6 = 64 /\ 2^7 = 128
    OBVIOUS
  <1> DEFINE z(d) == (a \div d) % 2 = 0
  <1>1. /\ a % 1 = 0
        /\ a % 2 = 0 <=> z(1)
        /\ a % 4 = 0 <=> z(1) /\ z(2)
        /\ a % 8 = 0 <=> z(1) /\ z(2) /\ z(4)
        /\ a % 16 = 0 <=> z(1) /\ z(2) /\ z(4) /\ z(8)
        /\ a % 32 = 0 <=> z(1) /\ z(2) /\ z(4) /\ z(8) /\ z(16)
        /\ a % 64 = 0 <=> z(1) /\ z(2) /\ z(4) /\ z(8) /\ z(16) /\ z(32)
        /\ a % 128 = 0 <=> z(1) /\ z(2) /\ z(4) /\ z(8) /\ z(16) /\ z(32) /\ z(64)
    OBVIOUS
  <1>2. /\ BitOf(a, 0) = 0 <=> z(1)
        /\ BitOf(a, 1) = 0 <=> z(2)
        /\ BitOf(a, 2) = 0 <=> z(4)
        /\ BitOf(a, 3) = 0 <=> z(8)
        /\ BitOf(a, 4) = 0 <=> z(16)
        /\ BitOf(a, 5) = 0 <=> z(32)
        /\ BitOf(a, 6) = 0 <=> z(64)
    BY BitValues
  <1> HIDE DEF z
  <1>3. CASE b = 0
    BY <1>0, <1>1, <1>2, <1>3
  <1>4. CASE b = 1
    BY <1>0, <1>1, <1>2, <1>4
  <1>5. CASE b = 2
    BY <1>0, <1>1, <1>2, <1>5
  <1>6. CASE b = 3
    BY <1>0, <1>1, <1>2, <1>6
  <1>7. CASE b = 4
    BY <1>0, <1>1, <1>2, <1>7
  <1>8. CASE b = 5
    BY <1>0, <1>1, <1>2, <1>8
  <1>9. CASE b = 6
    BY <1>0, <1>1, <1>2, <1>9
  <1>10. CASE b = 7
    BY <1>0, <1>1, <1>2, <1>10
  <1>11. QED
    BY <1>3, <1>4, <1>5, <1>6, <1>7, <1>8, <1>9, <1>10

(* Eight bits make a byte.                                                  *)
LEMMA EqualBits ==
  ASSUME NEW x \in Nat, NEW y \in Nat, x < 256, y < 256, \A t \in 0..7 : BitOf(x, t) = BitOf(y, t)
  PROVE  x = y
  <1>1. /\ (x \div 1) % 2 = (y \div 1) % 2 /\ (x \div 2) % 2 = (y \div 2) % 2
        /\ (x \div 4) % 2 = (y \div 4) % 2 /\ (x \div 8) % 2 = (y \div 8) % 2
        /\ (x \div 16) % 2 = (y \div 16) % 2 /\ (x \div 32) % 2 = (y \div 32) % 2
        /\ (x \div 64) % 2 = (y \div 64) % 2 /\ (x \div 128) % 2 = (y \div 128) % 2
    BY BitValues
  <1>2. QED
    BY <1>1

(* Bytes, by their bound.                                                   *)
Octets == {x \in Nat : x < 256}

(* Bit i of a word is one of a character, or of a byte.                     *)
LEMMA BitsOfWords ==
  ASSUME NEW word, NEW i
  PROVE  /\ Bit(word, 5, i) = BitOf(word[(i \div 5) + 1], 5 - 1 - (i % 5))
         /\ Bit(word, 8, i) = BitOf(word[(i \div 8) + 1], 8 - 1 - (i % 8))
  BY DEF Bit, BitOf

(* Which byte a bit is of.                                                  *)
LEMMA Eights ==
  ASSUME NEW q \in Nat, NEW n \in Nat, 8 * q <= n, n < 8 * q + 8
  PROVE  n \div 8 = q /\ n % 8 = n - 8 * q
  OBVIOUS

(* Which character a bit is of.                                             *)
LEMMA Fives ==
  ASSUME NEW q \in Nat, NEW n \in Nat, 5 * q <= n, n < 5 * q + 5
  PROVE  n \div 5 = q /\ n % 5 = n - 5 * q
  OBVIOUS

(* A turn that makes no byte, and one that does.                            *)
LEMMA TakeCases ==
  ASSUME NEW s, NEW v, s.bits \in Nat
  PROVE  /\ s.bits + 5 < 8 =>
              Take(s, v) = [acc |-> Shifted(s.acc, v), bits |-> s.bits + 5, out |-> s.out]
         /\ s.bits + 5 >= 8 =>
              Take(s, v) = [acc |-> Shifted(s.acc, v), bits |-> (s.bits + 5) - 8,
                            out |-> Append(s.out, Byte(Shifted(s.acc, v), (s.bits + 5) - 8))]
  BY DEF Take

(* What decode_base32 has before character j + 1: the bytes hold the first  *)
(* bits of the text and the accumulator those that do not make a byte yet. *)
Scanned(data, j, s) ==
  /\ s.acc \in Nat /\ s.out \in Seq(Octets)
  /\ s.bits \in Nat /\ s.bits <= 7 /\ 5 * j = 8 * Len(s.out) + s.bits
  /\ \A i \in Nat : i < 8 * Len(s.out) => Bit(s.out, 8, i) = Bit(data, 5, i)
  /\ \A i \in Nat : 8 * Len(s.out) <= i /\ i < 5 * j => BitOf(s.acc, 5 * j - 1 - i) = Bit(data, 5, i)

(* A turn of the loop keeps its invariant.                                  *)
LEMMA ScannedStep ==
  ASSUME NEW data \in Seq(Nat), \A i \in 1..Len(data) : data[i] <= 31,
         NEW j \in Nat, j < Len(data), NEW s, Scanned(data, j, s)
  PROVE  Scanned(data, j + 1, Take(s, data[j + 1]))
  <1>1. PICK v : v = data[j + 1]
    OBVIOUS
  <1>2. v \in Nat /\ v <= 31
    BY <1>1
  <1>3. PICK acc : acc = Shifted(s.acc, v)
    OBVIOUS
  <1>0. /\ s.acc \in Nat /\ s.out \in Seq(Octets)
        /\ s.bits \in Nat /\ s.bits <= 7 /\ 5 * j = 8 * Len(s.out) + s.bits
    BY Zenon DEF Scanned
  <1>4. PICK L \in Nat, b \in Nat : L = Len(s.out) /\ b = s.bits
    BY <1>0
  <1>5. /\ s.acc \in Nat /\ s.out \in Seq(Octets) /\ b <= 7 /\ 5 * j = 8 * L + b
        /\ \A i \in Nat : i < 8 * L => Bit(s.out, 8, i) = Bit(data, 5, i)
        /\ \A i \in Nat : 8 * L <= i /\ i < 5 * j => BitOf(s.acc, 5 * j - 1 - i) = Bit(data, 5, i)
    BY <1>4 DEF Scanned
  <1>6. /\ acc \in Nat
        /\ \A t \in 0..4 : BitOf(acc, t) = BitOf(v, t)
        /\ \A t \in 5..11 : BitOf(acc, t) = BitOf(s.acc, t - 5)
    <2>1. /\ Shifted(s.acc, v) \in Nat
          /\ \A t \in 0..4 : BitOf(Shifted(s.acc, v), t) = BitOf(v, t)
          /\ \A t \in 5..11 : BitOf(Shifted(s.acc, v), t) = BitOf(s.acc, t - 5)
      BY <1>0, <1>2, TakenBits, Zenon
    <2>2. QED
      BY <1>3, <2>1, Zenon
  <1>7. ASSUME NEW i \in Nat, 8 * L <= i, i < 5 * j + 5
        PROVE  BitOf(acc, 5 * j + 4 - i) = Bit(data, 5, i)
    <2>1. CASE i < 5 * j
      <3>1. 5 * j + 4 - i \in 5..11 /\ (5 * j + 4 - i) - 5 = 5 * j - 1 - i
        BY <1>5, <1>7, <2>1
      <3>2. QED
        BY <1>5, <1>6, <1>7, <2>1, <3>1
    <2>2. CASE i >= 5 * j
      <3>1. 5 * j <= i
        BY <2>2
      <3>2. i \div 5 = j /\ i % 5 = i - 5 * j
        BY <1>7, <3>1, Fives
      <3>3. 5 * j + 4 - i \in 0..4 /\ 5 - 1 - (i - 5 * j) = 5 * j + 4 - i
        BY <1>7, <2>2
      <3>4. Bit(data, 5, i) = BitOf(v, 5 * j + 4 - i)
        BY <1>1, <3>2, <3>3, BitsOfWords
      <3>5. QED
        BY <1>6, <3>3, <3>4
    <2>3. QED
      BY <1>7, <2>1, <2>2
  <1>8. CASE b + 5 < 8
    <2>1. Take(s, v) = [acc |-> acc, bits |-> b + 5, out |-> s.out]
      BY <1>3, <1>4, <1>8, TakeCases
    <2>2. 5 * (j + 1) = 8 * L + (b + 5)
      BY <1>5
    <2>3. \A i \in Nat : 8 * L <= i /\ i < 5 * (j + 1) => BitOf(acc, 5 * (j + 1) - 1 - i) = Bit(data, 5, i)
      BY <1>7
    <2>4. PICK r : r = [acc |-> acc, bits |-> b + 5, out |-> s.out]
      OBVIOUS
    <2>5. r.acc = acc /\ r.bits = b + 5 /\ r.out = s.out
      BY <2>4
    <2>6. b + 5 \in Nat /\ b + 5 <= 7
      BY <1>8
    <2>7. Scanned(data, j + 1, r)
      BY <1>4, <1>5, <1>6, <2>2, <2>3, <2>5, <2>6, Zenon DEF Scanned
    <2>8. QED
      BY <1>1, <2>1, <2>4, <2>7
  <1>9. CASE b + 5 >= 8
    <2>0. (b + 5) - 8 \in 0..4
      <3>1. b <= 7
        BY <1>5
      <3>2. QED
        BY <1>9, <3>1
    <2>1. PICK e \in 0..4 : e = (b + 5) - 8
      BY <2>0
    <2>2. PICK o : o = Byte(acc, e)
      OBVIOUS
    <2>3. /\ o \in Nat /\ o < 256
          /\ \A t \in 0..7 : BitOf(o, t) = BitOf(acc, t + e)
      BY <1>6, <2>2, ByteBits
    <2>4. PICK out : out = Append(s.out, o)
      OBVIOUS
    <2>5. Take(s, v) = [acc |-> acc, bits |-> e, out |-> out]
      BY <1>3, <1>4, <1>9, <2>1, <2>2, <2>4, TakeCases
    <2>6. o \in Octets
      BY <2>3 DEF Octets
    <2>7. /\ out \in Seq(Octets) /\ Len(out) = L + 1 /\ out[L + 1] = o
          /\ \A k \in 1..L : out[k] = s.out[k]
      BY <1>4, <1>5, <2>4, <2>6
    <2>8. 5 * (j + 1) = 8 * (L + 1) + e
      BY <1>5, <2>1
    <2>9. ASSUME NEW i \in Nat, i < 8 * (L + 1) PROVE Bit(out, 8, i) = Bit(data, 5, i)
      <3>1. CASE i < 8 * L
        <4>1. (i \div 8) + 1 \in 1..L
          BY <3>1
        <4>2. out[(i \div 8) + 1] = s.out[(i \div 8) + 1]
          BY <2>7, <4>1
        <4>3. Bit(out, 8, i) = Bit(s.out, 8, i)
          BY <4>2, BitsOfWords
        <4>4. QED
          BY <1>5, <3>1, <4>3
      <3>2. CASE i >= 8 * L
        <4>1. 8 * L <= i /\ i < 8 * L + 8 /\ i - 8 * L \in 0..7
          BY <2>9, <3>2
        <4>2. i \div 8 = L /\ i % 8 = i - 8 * L
          BY <2>9, <4>1, Eights
        <4>3. PICK t \in 0..7 : t = 8 - 1 - (i - 8 * L)
          BY <4>1
        <4>4. t + e = 5 * j + 4 - i /\ i < 5 * j + 5
          BY <2>8, <2>9, <4>3
        <4>5. Bit(out, 8, i) = BitOf(o, t)
          BY <2>7, <4>2, <4>3, BitsOfWords
        <4>6. BitOf(o, t) = BitOf(acc, 5 * j + 4 - i)
          BY <2>3, <4>4
        <4>7. QED
          BY <1>7, <3>2, <4>4, <4>5, <4>6
      <3>3. QED
        BY <2>9, <3>1, <3>2
    <2>10. ASSUME NEW i \in Nat, 8 * (L + 1) <= i, i < 5 * (j + 1)
           PROVE  BitOf(acc, 5 * (j + 1) - 1 - i) = Bit(data, 5, i)
      <3>1. 8 * L <= i /\ i < 5 * j + 5 /\ 5 * (j + 1) - 1 - i = 5 * j + 4 - i
        BY <2>10
      <3>2. QED
        BY <1>7, <3>1
    <2>11. PICK r : r = [acc |-> acc, bits |-> e, out |-> out]
      OBVIOUS
    <2>12. r.acc = acc /\ r.bits = e /\ r.out = out
      BY <2>11
    <2>13. e \in Nat /\ e <= 7
      OBVIOUS
    <2>14. Scanned(data, j + 1, r)
      BY <1>6, <2>7, <2>8, <2>9, <2>10, <2>12, <2>13, Zenon DEF Scanned
    <2>15. QED
      BY <1>1, <2>5, <2>11, <2>14
  <1>10. QED
    BY <1>8, <1>9

(* So it holds when the characters are read.                                *)
LEMMA ScannedAlways ==
  ASSUME NEW data \in Seq(Nat), \A i \in 1..Len(data) : data[i] <= 31
  PROVE  Scanned(data, Len(data), Scan(data)[Len(data)])
  <1> DEFINE Q == {j \in Nat : j <= Len(data) => Scanned(data, j, Scan(data)[j])}
  <1>1. 0 \in Q
    <2>1. Scan(data)[0] = [acc |-> 0, bits |-> 0, out |-> <<>>]
      BY ScanSteps
    <2>2. Scanned(data, 0, [acc |-> 0, bits |-> 0, out |-> <<>>])
      BY DEF Scanned
    <2>3. QED
      BY <2>1, <2>2
  <1>2. ASSUME NEW j \in Nat, j \in Q PROVE j + 1 \in Q
    <2>1. SUFFICES ASSUME j + 1 <= Len(data) PROVE Scanned(data, j + 1, Scan(data)[j + 1])
      OBVIOUS
    <2>2. j < Len(data) /\ Scanned(data, j, Scan(data)[j])
      BY <1>2, <2>1
    <2>3. Scan(data)[j + 1] = Take(Scan(data)[j], data[j + 1])
      BY <2>2, ScanSteps
    <2>4. QED
      BY <2>2, <2>3, ScannedStep
  <1>3. Len(data) \in Nat
    OBVIOUS
  <1> HIDE DEF Q
  <1>4. Len(data) \in Q
    BY <1>1, <1>2, <1>3, Induction
  <1>5. QED
    BY <1>3, <1>4 DEF Q

(* The three bad lengths are those that leave more than four bits; any other*)
(* is the length that the bytes read so far take, and no other number of    *)
(* bytes takes it.                                                          *)
LEMMA GoodLengths ==
  ASSUME NEW m \in Nat, NEW L \in Nat, NEW b \in Nat, b <= 7, 5 * m = 8 * L + b
  PROVE  /\ BadLength(m) <=> b > 4
         /\ m > 0 /\ b <= 4 => L > 0
         /\ b <= 4 => (8 * L + 4) \div 5 = m
         /\ \A k \in Nat : (8 * k + 4) \div 5 = m => k = L /\ b <= 4
         /\ \A k \in Nat : (8 * k + 4) \div 5 = m /\ k > 0 => m > 0
  <1>1. BadLength(m) <=> m % 8 = 1 \/ m % 8 = 3 \/ m % 8 = 6
    BY DEF BadLength
  <1>2. PICK q \in Nat, r \in 0..7 : m = 8 * q + r /\ r = m % 8
    <2>1. m \div 8 \in Nat /\ m % 8 \in 0..7 /\ m = 8 * (m \div 8) + (m % 8)
      OBVIOUS
    <2>2. QED
      BY <2>1
  <1>3. 5 * m = 40 * q + 5 * r
    BY <1>2
  <1>4. b > 4 <=> r = 1 \/ r = 3 \/ r = 6
    BY <1>2, <1>3
  <1>5. m > 0 /\ b <= 4 => L > 0
    OBVIOUS
  <1>6. b <= 4 => (8 * L + 4) \div 5 = m
    OBVIOUS
  <1>7. ASSUME NEW k \in Nat, (8 * k + 4) \div 5 = m PROVE k = L /\ b <= 4
    BY <1>7
  <1>8. ASSUME NEW k \in Nat, (8 * k + 4) \div 5 = m, k > 0 PROVE m > 0
    BY <1>8
  <1>9. QED
    BY <1>1, <1>2, <1>4, <1>5, <1>6, <1>7, <1>8

(* Where the paddings begin. *)
DataEnd(chars) ==
  IF {i \in 1..Len(chars) : chars[i] = Pad} = {}
    THEN Len(chars) ELSE Min({i \in 1..Len(chars) : chars[i] = Pad}) - 1

(* Characters end before the first padding, or with the text.               *)
LEMMA DataEnds ==
  ASSUME NEW chars \in Seq(Nat)
  PROVE  /\ DataEnd(chars) \in 0..Len(chars)
         /\ \A i \in 1..DataEnd(chars) : chars[i] # Pad
         /\ DataEnd(chars) < Len(chars) => chars[DataEnd(chars) + 1] = Pad
         /\ SubSeq(chars, 1, DataEnd(chars)) \in Seq(Nat)
         /\ Len(SubSeq(chars, 1, DataEnd(chars))) = DataEnd(chars)
         /\ \A i \in 1..DataEnd(chars) : SubSeq(chars, 1, DataEnd(chars))[i] = chars[i]
  <1> DEFINE pads == {i \in 1..Len(chars) : chars[i] = Pad}
  <1>1. pads \subseteq Nat /\ Len(chars) \in Nat
    OBVIOUS
  <1>2. pads # {} => Min(pads) \in pads /\ \A y \in pads : Min(pads) <= y
    BY <1>1, MinIsLeast
  <1>3. DataEnd(chars) = IF pads = {} THEN Len(chars) ELSE Min(pads) - 1
    BY DEF DataEnd
  <1>4. PICK start : start = DataEnd(chars)
    OBVIOUS
  <1>5. CASE pads = {}
    <2>1. start = Len(chars) /\ \A i \in 1..Len(chars) : chars[i] # Pad
      BY <1>3, <1>4, <1>5
    <2>2. QED
      BY <1>1, <1>4, <2>1
  <1>6. CASE pads # {}
    <2>1. PICK p \in 1..Len(chars) : chars[p] = Pad /\ start = p - 1 /\ \A y \in pads : p <= y
      BY <1>2, <1>3, <1>4, <1>6
    <2>2. start \in 0..Len(chars) /\ start + 1 = p
      BY <2>1
    <2>3. \A i \in 1..start : chars[i] # Pad
      BY <2>1, <2>2
    <2>4. QED
      BY <1>1, <1>4, <2>1, <2>2, <2>3
  <1>7. QED
    BY <1>5, <1>6

(* decode_base32, with that end named.                                      *)
LEMMA DecodeUnfolds ==
  ASSUME NEW text
  PROVE  LET chars == Kept(text, Chars \ {Space})
             start == DataEnd(chars)
             data == SubSeq(chars, 1, start)
             end == Scan(data)[start]
         IN  decode_base32(text) =
               IF \/ data = <<>> \/ BadLength(start)
                  \/ \E i \in start + 1..Len(chars) : chars[i] # Pad
                  \/ \E i \in 1..start : data[i] > 31
                  \/ end.acc % 2^end.bits # 0
                 THEN Error ELSE end.out
  BY Zenon DEF decode_base32, DataEnd

(* Bytes of the same bits are the same.                                     *)
LEMMA EqualBytes ==
  ASSUME NEW u \in Seq(Octets), NEW w \in Seq(Octets), NEW L \in Nat, Len(u) = L, Len(w) = L,
         \A i \in Nat : i < 8 * L => Bit(u, 8, i) = Bit(w, 8, i)
  PROVE  u = w
  <1>1. ASSUME NEW k \in 1..L PROVE u[k] = w[k]
    <2>1. u[k] \in Octets /\ w[k] \in Octets
      OBVIOUS
    <2>2. u[k] \in Nat /\ w[k] \in Nat /\ u[k] < 256 /\ w[k] < 256
      BY <2>1 DEF Octets
    <2>3. ASSUME NEW t \in 0..7 PROVE BitOf(u[k], t) = BitOf(w[k], t)
      <3>1. PICK i \in Nat : i = 8 * (k - 1) + (7 - t)
        OBVIOUS
      <3>2. 8 * (k - 1) <= i /\ i < 8 * (k - 1) + 8 /\ k - 1 \in Nat /\ i < 8 * L
        BY <3>1
      <3>3. i \div 8 = k - 1 /\ i % 8 = i - 8 * (k - 1)
        BY <3>2, Eights
      <3>4. (k - 1) + 1 = k /\ 8 - 1 - (i - 8 * (k - 1)) = t
        BY <3>1
      <3>5. Bit(u, 8, i) = BitOf(u[k], t) /\ Bit(w, 8, i) = BitOf(w[k], t)
        BY <3>3, <3>4, BitsOfWords
      <3>6. QED
        BY <3>2, <3>5
    <2>4. QED
      BY <2>2, <2>3, EqualBits
  <1>2. QED
    BY <1>1

(* The mask test at the end, and what it is about: the bits of the characters*)
(* from the first that no byte holds on.                                    *)
Ended(s) == s.acc % 2^s.bits = 0
ZerosFrom(data, L, m) == \A i \in Nat : 8 * L <= i /\ i < 5 * m => Bit(data, 5, i) = 0

(* The accumulator ends with zeros exactly if the text does.                *)
LEMMA TrailingZeros ==
  ASSUME NEW data, NEW m \in Nat, NEW s, Scanned(data, m, s), NEW L \in Nat, L = Len(s.out)
  PROVE  Ended(s) <=> ZerosFrom(data, L, m)
  <1>1. PICK b \in 0..7 : b = s.bits /\ 5 * m = 8 * L + b
    <2>1. s.bits \in Nat /\ s.bits <= 7 /\ 5 * m = 8 * Len(s.out) + s.bits
      BY Zenon DEF Scanned
    <2>2. s.bits \in 0..7
      BY <2>1
    <2>3. QED
      BY <2>1, <2>2
  <1>2. /\ s.acc \in Nat
        /\ \A i \in Nat : 8 * L <= i /\ i < 5 * m => BitOf(s.acc, 5 * m - 1 - i) = Bit(data, 5, i)
    BY Zenon DEF Scanned
  <1>3. s.acc % 2^b = 0 <=> \A t \in 0..b - 1 : BitOf(s.acc, t) = 0
    BY <1>2, LowBits
  <1>4. ASSUME \A t \in 0..b - 1 : BitOf(s.acc, t) = 0, NEW i \in Nat, 8 * L <= i, i < 5 * m
        PROVE  Bit(data, 5, i) = 0
    <2>1. 5 * m - 1 - i \in 0..b - 1
      BY <1>1, <1>4
    <2>2. QED
      BY <1>2, <1>4, <2>1
  <1>5. ASSUME \A i \in Nat : 8 * L <= i /\ i < 5 * m => Bit(data, 5, i) = 0, NEW t \in 0..b - 1
        PROVE  BitOf(s.acc, t) = 0
    <2>1. PICK i \in Nat : i = 5 * m - 1 - t
      BY <1>1
    <2>2. 8 * L <= i /\ i < 5 * m /\ 5 * m - 1 - i = t
      BY <1>1, <2>1
    <2>3. QED
      BY <1>2, <1>5, <2>2
  <1>6. QED
    BY <1>1, <1>3, <1>4, <1>5 DEF Ended, ZerosFrom

(* A sequence over a set is one over a larger set.                          *)
LEMMA WiderSeq ==
  ASSUME NEW A, NEW B, A \subseteq B, NEW u \in Seq(A)
  PROVE  u \in Seq(B)
  <1>1. Len(u) \in Nat /\ u = [i \in 1..Len(u) |-> u[i]] /\ \A i \in 1..Len(u) : u[i] \in B
    OBVIOUS
  <1>2. QED
    BY <1>1

(* Characters are numbers.                                                  *)
LEMMA CharsAreNumbers == Chars \subseteq Nat /\ Other \in Nat
  <1>1. Other \in Nat
    BY DEF Other
  <1>2. QED
    BY <1>1 DEF Chars

(* decode_base32 is the inverse of the encoding of RFC 4648 and nothing else:*)
(* of any text it either returns the one bytes string that the text encodes,*)
(* or finds that there is none (totp.rs 346-390).                           *)
THEOREM DecodeInverts ==
  ASSUME NEW text \in Seq(Chars)
  PROVE  /\ decode_base32(text) = Error \/ decode_base32(text) \in Seq(Octets)
         /\ decode_base32(text) # Error => Encodes(text, decode_base32(text))
         /\ \A bytes \in Seq(Octets) : Encodes(text, bytes) => decode_base32(text) = bytes
  <1>1. PICK chars : chars = Kept(text, Chars \ {Space}) /\ chars \in Seq(Nat)
    <2>1. Kept(text, Chars \ {Space}) \in Seq((Chars \ {Space}) \cap Chars)
      BY KeptType
    <2>2. Chars \subseteq Nat
      BY CharsAreNumbers
    <2>3. QED
      BY <2>1, <2>2, WiderSeq
  <1>2. PICK n \in Nat : n = Len(chars)
    BY <1>1
  <1>3. PICK m \in 0..n : m = DataEnd(chars)
    BY <1>1, <1>2, DataEnds
  <1>4. PICK data \in Seq(Nat) : data = SubSeq(chars, 1, m) /\ Len(data) = m
    BY <1>1, <1>3, DataEnds
  <1>5. /\ \A i \in 1..m : chars[i] # Pad /\ data[i] = chars[i] /\ chars[i] \in Nat
        /\ m < n => chars[m + 1] = Pad
    BY <1>1, <1>2, <1>3, <1>4, DataEnds
  <1>6. PICK s : s = Scan(data)[m]
    OBVIOUS
  <1> DEFINE wrong == \/ data = <<>> \/ BadLength(m)
                      \/ \E i \in m + 1..n : chars[i] # Pad
                      \/ \E i \in 1..m : data[i] > 31
                      \/ ~Ended(s)
  <1>7. decode_base32(text) = IF wrong THEN Error ELSE s.out
    BY <1>1, <1>2, <1>3, <1>4, <1>6, DecodeUnfolds, Zenon DEF Ended
  <1>8. \A bytes : Encodes(text, bytes) <=>
          LET k == (8 * Len(bytes) + 4) \div 5 IN
          /\ bytes # <<>> /\ k <= n
          /\ \A i \in 1..k : chars[i] <= 31
          /\ \A i \in k + 1..n : chars[i] = Pad
          /\ \A i \in 0..5 * k - 1 : Bits(chars, 5, i) = Bits(bytes, 8, i)
    BY <1>1, <1>2, Zenon DEF Encodes
  <1>9. ASSUME \A i \in 1..m : data[i] <= 31
        PROVE  Scanned(data, m, s)
    BY <1>4, <1>6, <1>9, ScannedAlways
  <1>10. ASSUME \A i \in 1..m : data[i] <= 31,
                NEW L \in Nat, L = Len(s.out), NEW b \in Nat, b = s.bits
         PROVE  /\ s.out \in Seq(Octets) /\ b <= 7 /\ 5 * m = 8 * L + b
                /\ \A i \in Nat : i < 8 * L => Bit(s.out, 8, i) = Bit(data, 5, i)
                /\ Ended(s) <=> ZerosFrom(data, L, m)
    <2>0. m \in Nat
      OBVIOUS
    <2>1. Scanned(data, m, s)
      BY <1>9, <1>10
    <2>2. Ended(s) <=> ZerosFrom(data, L, m)
      BY <1>10, <2>0, <2>1, TrailingZeros, Zenon
    <2>3. QED
      BY <1>10, <2>1, <2>2, Zenon DEF Scanned
  <1>11. ASSUME NEW i \in Nat, i < 5 * m
         PROVE  Bits(chars, 5, i) = Bit(data, 5, i)
    <2>1. i < 5 * Len(chars) /\ (i \div 5) + 1 \in 1..m
      BY <1>2, <1>3, <1>11
    <2>2. chars[(i \div 5) + 1] = data[(i \div 5) + 1]
      BY <1>5, <2>1
    <2>3. Bit(chars, 5, i) = Bit(data, 5, i)
      BY <2>2, BitsOfWords, Zenon
    <2>4. QED
      BY <2>1, <2>3 DEF Bits
  <1>12. ASSUME \A i \in 1..m : data[i] <= 31
         PROVE  s.out \in Seq(Octets) /\ s.bits \in Nat
    <2>1. Scanned(data, m, s)
      BY <1>9, <1>12
    <2>2. QED
      BY <2>1, Zenon DEF Scanned
  <1>13. ASSUME NEW bytes \in Seq(Octets), Encodes(text, bytes)
         PROVE  ~wrong /\ s.out = bytes
    <2>0. PICK K \in Nat : K = Len(bytes)
      OBVIOUS
    <2>1. PICK k \in Nat : K = Len(bytes) /\ k = (8 * K + 4) \div 5
      BY <2>0
    <2>2. /\ bytes # <<>> /\ k <= n
          /\ \A i \in 1..k : chars[i] <= 31
          /\ \A i \in k + 1..n : chars[i] = Pad
          /\ \A i \in 0..5 * k - 1 : Bits(chars, 5, i) = Bits(bytes, 8, i)
      BY <1>8, <1>13, <2>1, Zenon
    <2>3. m = k
      <3>1. ASSUME m < k PROVE FALSE
        <4>1. m < n /\ m + 1 \in 1..k
          BY <2>2, <3>1
        <4>2. QED
          BY <1>5, <2>2, <4>1 DEF Pad
      <3>2. ASSUME m > k PROVE FALSE
        <4>1. m \in k + 1..n /\ m \in 1..m
          BY <3>2
        <4>2. QED
          BY <1>5, <2>2, <4>1
      <3>3. QED
        BY <3>1, <3>2
    <2>4. \A i \in 1..m : data[i] <= 31
      BY <1>5, <2>2, <2>3
    <2>5. PICK L \in Nat, b \in Nat : L = Len(s.out) /\ b = s.bits
      BY <1>12, <2>4
    <2>6. /\ s.out \in Seq(Octets) /\ b <= 7 /\ 5 * m = 8 * L + b
          /\ \A i \in Nat : i < 8 * L => Bit(s.out, 8, i) = Bit(data, 5, i)
          /\ Ended(s) <=> ZerosFrom(data, L, m)
      BY <1>10, <2>4, <2>5, Zenon
    <2>7. K > 0
      BY <2>1, <2>2
    <2>8. K = L /\ b <= 4 /\ ~BadLength(m) /\ m > 0
      <3>1. m \in Nat /\ b <= 7 /\ 5 * m = 8 * L + b
        BY <2>6
      <3>2. /\ BadLength(m) <=> b > 4
            /\ \A j \in Nat : (8 * j + 4) \div 5 = m => j = L /\ b <= 4
            /\ \A j \in Nat : (8 * j + 4) \div 5 = m /\ j > 0 => m > 0
        BY <3>1, GoodLengths
      <3>3. QED
        BY <2>1, <2>3, <2>7, <3>2
    <2>9. \A i \in Nat : i < 5 * m => Bit(data, 5, i) = Bits(bytes, 8, i)
      <3>1. ASSUME NEW i \in Nat, i < 5 * m PROVE Bit(data, 5, i) = Bits(bytes, 8, i)
        <4>1. i \in 0..5 * k - 1
          BY <2>3, <3>1
        <4>2. QED
          BY <1>11, <2>2, <3>1, <4>1
      <3>2. QED
        BY <3>1
    <2>10. Ended(s)
      <3>1. ASSUME NEW i \in Nat, 8 * L <= i, i < 5 * m PROVE Bit(data, 5, i) = 0
        <4>1. ~(i < 8 * Len(bytes))
          BY <2>1, <2>8, <3>1
        <4>2. Bits(bytes, 8, i) = 0
          BY <4>1 DEF Bits
        <4>3. QED
          BY <2>9, <3>1, <4>2
      <3>2. QED
        BY <2>6, <3>1 DEF ZerosFrom
    <2>11. s.out = bytes
      <3>1. ASSUME NEW i \in Nat, i < 8 * L PROVE Bit(s.out, 8, i) = Bit(bytes, 8, i)
        <4>1. i < 8 * Len(bytes) /\ i < 5 * m
          BY <2>1, <2>6, <2>8, <3>1
        <4>2. Bits(bytes, 8, i) = Bit(bytes, 8, i)
          BY <4>1 DEF Bits
        <4>3. QED
          BY <2>6, <2>9, <3>1, <4>1, <4>2
      <3>2. QED
        BY <2>1, <2>5, <2>6, <2>8, <3>1, EqualBytes
    <2>12. data # <<>>
      <3>1. Len(data) > 0
        BY <1>4, <2>8
      <3>2. Len(<<>>) = 0
        OBVIOUS
      <3>3. QED
        BY <3>1, <3>2
    <2>13. \A i \in m + 1..n : chars[i] = Pad
      BY <2>2, <2>3
    <2>14. ~\E i \in 1..m : data[i] > 31
      BY <1>5, <2>4
    <2>15. QED
      BY <2>8, <2>10, <2>11, <2>12, <2>13, <2>14
  <1>14. ASSUME ~wrong
         PROVE  s.out \in Seq(Octets) /\ Encodes(text, s.out)
    <2>1. /\ data # <<>> /\ ~BadLength(m) /\ Ended(s)
          /\ \A i \in m + 1..n : chars[i] = Pad
          /\ \A i \in 1..m : ~(data[i] > 31)
      BY <1>14, Zenon
    <2>2. \A i \in 1..m : data[i] <= 31
      BY <1>5, <2>1
    <2>3. PICK L \in Nat, b \in Nat : L = Len(s.out) /\ b = s.bits
      BY <1>12, <2>2
    <2>4. /\ s.out \in Seq(Octets) /\ b <= 7 /\ 5 * m = 8 * L + b
          /\ \A i \in Nat : i < 8 * L => Bit(s.out, 8, i) = Bit(data, 5, i)
          /\ Ended(s) <=> ZerosFrom(data, L, m)
      BY <1>10, <2>2, <2>3, Zenon
    <2>5. L > 0 /\ (8 * L + 4) \div 5 = m
      <3>1. m \in Nat /\ b <= 7 /\ 5 * m = 8 * L + b /\ m # 0
        BY <1>4, <2>1, <2>4
      <3>2. /\ BadLength(m) <=> b > 4
            /\ m > 0 /\ b <= 4 => L > 0
            /\ b <= 4 => (8 * L + 4) \div 5 = m
        BY <3>1, GoodLengths
      <3>3. QED
        BY <2>1, <3>1, <3>2
    <2>6. ASSUME NEW i \in 0..5 * m - 1 PROVE Bits(chars, 5, i) = Bits(s.out, 8, i)
      <3>1. i \in Nat /\ i < 5 * m
        BY <2>6
      <3>2. Bits(chars, 5, i) = Bit(data, 5, i)
        BY <1>11, <3>1
      <3>3. CASE i < 8 * L
        <4>1. Bits(s.out, 8, i) = Bit(s.out, 8, i)
          BY <2>3, <3>3 DEF Bits
        <4>2. QED
          BY <2>4, <3>1, <3>2, <3>3, <4>1
      <3>4. CASE ~(i < 8 * L)
        <4>1. Bits(s.out, 8, i) = 0
          BY <2>3, <3>4 DEF Bits
        <4>2. 8 * L <= i
          BY <3>1, <3>4
        <4>3. QED
          BY <2>1, <2>4, <3>1, <3>2, <4>1, <4>2 DEF ZerosFrom
      <3>5. QED
        BY <3>3, <3>4
    <2>7. s.out # <<>>
      BY <2>3, <2>5
    <2>8. m <= n /\ \A i \in 1..m : chars[i] <= 31
      BY <1>5, <2>2
    <2>9. QED
      BY <1>8, <2>1, <2>3, <2>4, <2>5, <2>6, <2>7, <2>8, Zenon
  <1>15. CASE wrong
    <2>1. decode_base32(text) = Error
      BY <1>7, <1>15, Zenon
    <2>2. QED
      BY <1>13, <1>15, <2>1, Zenon
  <1>16. CASE ~wrong
    <2>1. decode_base32(text) = s.out
      BY <1>7, <1>16, Zenon
    <2>2. QED
      BY <1>13, <1>14, <1>16, <2>1, Zenon
  <1>17. QED
    BY <1>15, <1>16, Zenon

(* The candidate of the reference is made of bytes.                         *)
LEMMA BytesAreOctets ==
  ASSUME NEW word \in Seq(Nat)
  PROVE  Bytes(word) \in Seq(Octets)
  <1>1. ASSUME NEW i \in Nat PROVE Bits(word, 5, i) \in {0, 1}
    <2>1. CASE i < 5 * Len(word)
      <3>1. word[(i \div 5) + 1] \in Nat /\ i % 5 \in 0..4
        BY <2>1
      <3>2. PICK x \in Nat, t \in 0..4 : x = word[(i \div 5) + 1] /\ t = 5 - 1 - (i % 5)
        <4>1. 5 - 1 - (i % 5) \in 0..4
          BY <3>1
        <4>2. QED
          BY <3>1, <4>1
      <3>3. Bits(word, 5, i) = BitOf(x, t)
        BY <2>1, <3>2, BitsOfWords DEF Bits
      <3>4. PICK y \in Nat : y = x \div 2^t
        BY Halved
      <3>5. y % 2 \in {0, 1}
        OBVIOUS
      <3>6. QED
        BY <3>3, <3>4, <3>5, Zenon DEF BitOf
    <2>2. CASE ~(i < 5 * Len(word))
      BY <2>2 DEF Bits
    <2>3. QED
      BY <2>1, <2>2
  <1>2. ASSUME NEW k \in Nat, k >= 1 PROVE Octet(word, k) \in Octets
    <2> DEFINE b(j) == Bits(word, 5, 8 * (k - 1) + j)
    <2>1. ASSUME NEW j \in Nat PROVE b(j) \in Nat /\ b(j) <= 1
      <3>1. 8 * (k - 1) + j \in Nat
        BY <1>2
      <3>2. b(j) \in {0, 1}
        BY <1>1, <3>1
      <3>3. QED
        BY <3>2
    <2>2. /\ b(0) \in Nat /\ b(1) \in Nat /\ b(2) \in Nat /\ b(3) \in Nat
          /\ b(4) \in Nat /\ b(5) \in Nat /\ b(6) \in Nat /\ b(7) \in Nat
          /\ b(0) <= 1 /\ b(1) <= 1 /\ b(2) <= 1 /\ b(3) <= 1
          /\ b(4) <= 1 /\ b(5) <= 1 /\ b(6) <= 1 /\ b(7) <= 1
      BY <2>1
    <2>3. Octet(word, k) = 128 * b(0) + 64 * b(1) + 32 * b(2) + 16 * b(3) + 8 * b(4) + 4 * b(5) + 2 * b(6) + b(7)
      BY DEF Octet
    <2> HIDE DEF b
    <2>4. Octet(word, k) \in Nat /\ Octet(word, k) < 256
      <3>1. PICK c0 \in Nat : c0 = b(0)
        BY <2>2
      <3>2. PICK c1 \in Nat : c1 = b(1)
        BY <2>2
      <3>3. PICK c2 \in Nat : c2 = b(2)
        BY <2>2
      <3>4. PICK c3 \in Nat : c3 = b(3)
        BY <2>2
      <3>5. PICK c4 \in Nat : c4 = b(4)
        BY <2>2
      <3>6. PICK c5 \in Nat : c5 = b(5)
        BY <2>2
      <3>7. PICK c6 \in Nat : c6 = b(6)
        BY <2>2
      <3>8. PICK c7 \in Nat : c7 = b(7)
        BY <2>2
      <3>9. c0 <= 1 /\ c1 <= 1 /\ c2 <= 1 /\ c3 <= 1 /\ c4 <= 1 /\ c5 <= 1 /\ c6 <= 1 /\ c7 <= 1
        BY <2>2, <3>1, <3>2, <3>3, <3>4, <3>5, <3>6, <3>7, <3>8
      <3>10. Octet(word, k) = 128 * c0 + 64 * c1 + 32 * c2 + 16 * c3 + 8 * c4 + 4 * c5 + 2 * c6 + c7
        BY <2>3, <3>1, <3>2, <3>3, <3>4, <3>5, <3>6, <3>7, <3>8
      <3>11. QED
        BY <3>9, <3>10
    <2>5. QED
      BY <2>4 DEF Octets
  <1>3. PICK n \in Nat : n = (5 * Len(word)) \div 8
    OBVIOUS
  <1>4. Bytes(word) = [k \in 1..n |-> Octet(word, k)]
    BY <1>3 DEF Bytes
  <1>5. \A k \in 1..n : Octet(word, k) \in Octets
    BY <1>2
  <1>6. QED
    BY <1>4, <1>5

(* Bytes are numbers.                                                       *)
LEMMA OctetsAreNumbers == Octets \subseteq Nat
  BY DEF Octets

(* How each kind of input is resolved.                                      *)
LEMMA Resolved ==
  ASSUME NEW in \in Inputs
  PROVE  /\ resolve_secret(in) = Error \/ resolve_secret(in) \in Seq(Nat)
         /\ in.scheme # "none" /\ resolve_secret(in) # Error =>
              /\ in.scheme # "mixed" /\ in.type = "totp" /\ Valid(in.params)
              /\ resolve_secret(in) = decode_base32(in.text)
         /\ in.scheme = "small" /\ in.type = "totp" /\ Valid(in.params) =>
              resolve_secret(in) = decode_base32(in.text)
         /\ in.scheme = "none" /\ ~in.raw /\ looks_like_base32(in.text) =>
              resolve_secret(in) = decode_base32(in.text)
         /\ in.text \in Seq(Chars)
  <1>1. in.text \in Seq(Chars) /\ in.scheme \in {"none", "small", "capital", "mixed"}
    BY TotpAssumption DEF Inputs
  <1>2. in.text \in Seq(Nat)
    BY <1>1, CharsAreNumbers, WiderSeq
  <1>3. decode_base32(in.text) = Error \/ decode_base32(in.text) \in Seq(Nat)
    BY <1>1, DecodeInverts, OctetsAreNumbers, WiderSeq
  <1>4. CASE in.scheme = "none"
    <2>1. resolve_secret(in) = IF ~in.raw /\ looks_like_base32(in.text) THEN decode_base32(in.text) ELSE in.text
      BY <1>4, Zenon DEF resolve_secret, is_otpauth_uri, decode_secret
    <2>2. in.scheme # "small"
      BY <1>4
    <2>3. QED
      BY <1>1, <1>2, <1>3, <1>4, <2>1, <2>2, Zenon
  <1>5. CASE in.scheme # "none"
    <2>1. resolve_secret(in) =
            IF in.scheme = "mixed" \/ in.type # "totp" \/ decode_base32(in.text) = Error \/ ~Valid(in.params)
              THEN Error ELSE decode_base32(in.text)
      BY <1>5, Zenon DEF resolve_secret, is_otpauth_uri, parse_otpauth_uri
    <2>2. in.scheme = "small" => in.scheme # "mixed"
      OBVIOUS
    <2>3. QED
      BY <1>1, <1>3, <1>5, <2>1, <2>2, Zenon
  <1>6. QED
    BY <1>4, <1>5

(* What encode_entry writes.                                                *)
Payload(bytes, p) == <<to_byte(p.algorithm), p.digits>> \o PeriodBytes(p.period) \o bytes

(* Parameters as their types in the code have them.                         *)
ProperParams(p) ==
  /\ p = [algorithm |-> p.algorithm, digits |-> p.digits, period |-> p.period]
  /\ p.algorithm \in {"sha1", "sha256", "sha512"} /\ p.digits \in Nat /\ p.period \in Nat

(* decode_entry reads back what encode_entry wrote, for any secret, any digits*)
(* and any period.                                                          *)
LEMMA PayloadReads ==
  ASSUME NEW bytes \in Seq(Nat), NEW p, ProperParams(p), NEW q, q = Payload(bytes, p)
  PROVE  /\ Len(q) = 6 + Len(bytes) /\ SubSeq(q, 7, Len(q)) = bytes
         /\ [algorithm |-> Algorithms[q[1] + 1], digits |-> q[2], period |-> q[3] + 256 * q[4]] = p
  <1>1. to_byte(p.algorithm) \in 0..2 /\ Algorithms[to_byte(p.algorithm) + 1] = p.algorithm
    <2>1. \E i \in 1..3 : Algorithms[i] = p.algorithm
      BY DEF ProperParams, Algorithms
    <2>2. PICK i \in 1..3 : i = CHOOSE j \in 1..3 : Algorithms[j] = p.algorithm
      BY <2>1
    <2>3. Algorithms[i] = p.algorithm
      BY <2>1, <2>2
    <2>4. to_byte(p.algorithm) = i - 1
      BY <2>2 DEF to_byte
    <2>5. QED
      BY <2>3, <2>4
  <1>2. PICK a \in Nat : a = to_byte(p.algorithm)
    BY <1>1
  <1>3. PICK d \in Nat, n \in Nat : d = p.digits /\ n = p.period
    BY DEF ProperParams
  <1>4. PICK lo \in Nat, hi \in Nat : lo = n % 256 /\ hi = n \div 256 /\ lo + 256 * hi = n
    OBVIOUS
  <1>5. q = <<a, d>> \o <<lo, hi, 0, 0>> \o bytes
    BY <1>2, <1>3, <1>4 DEF Payload, PeriodBytes
  <1>6. /\ Len(q) = 6 + Len(bytes) /\ q[1] = a /\ q[2] = d /\ q[3] = lo /\ q[4] = hi
        /\ q \in Seq(Nat) /\ \A i \in 1..Len(bytes) : q[6 + i] = bytes[i]
    BY <1>5
  <1>7. SubSeq(q, 7, Len(q)) = bytes
    <2>1. PICK u : u = SubSeq(q, 7, Len(q))
      OBVIOUS
    <2>2. Len(bytes) \in Nat /\ Len(q) \in Nat /\ Len(q) - 7 + 1 = Len(bytes)
      BY <1>6
    <2>3. u = [i \in 1..Len(bytes) |-> q[i + 7 - 1]]
      BY <1>6, <2>1, <2>2
    <2>4. \A i \in 1..Len(bytes) : i + 7 - 1 = 6 + i
      BY <2>2
    <2>5. bytes = [i \in 1..Len(bytes) |-> bytes[i]]
      OBVIOUS
    <2>6. QED
      BY <1>6, <2>1, <2>3, <2>4, <2>5
  <1>8. QED
    BY <1>1, <1>2, <1>3, <1>4, <1>6, <1>7 DEF ProperParams

(* How far an input came, and what is left of it there. *)
TotpInv ==
  /\ stage \in {"asked", "typed", "resolved", "stored", "at rest", "shown", "refused"}
  /\ stage # "asked" => input \in Inputs
  /\ stage \in {"asked", "typed", "at rest", "refused"} => secret = <<>>
  /\ stage \in {"resolved", "stored", "shown"} =>
       secret = resolve_secret(input) /\ params = input.params
  /\ stage \in {"resolved", "stored", "at rest", "shown"} =>
       Valid(input.params) /\ resolve_secret(input) \in Seq(Nat)
  /\ stage \in {"stored", "at rest"} =>
       resolve_secret(input) # <<>> /\ payload = Payload(resolve_secret(input), input.params)
  /\ stage = "refused" /\ Valid(input.params) => resolve_secret(input) \in {Error, <<>>}

(* The parameters of an input are as the assumption has them.               *)
LEMMA ProperInputs ==
  ASSUME NEW in \in Inputs
  PROVE  ProperParams(in.params)
  BY TotpAssumption DEF Inputs, ProperParams

(* Each step of an input keeps the invariant.                               *)
LEMMA TotpInvStep ==
  ASSUME TotpInv, [TotpNext]_totpVars
  PROVE  TotpInv'
  <1>1. CASE UNCHANGED totpVars
    BY <1>1, Zenon DEF TotpInv, totpVars
  <1>2. CASE Type
    <2>1. stage = "asked" /\ input' \in Inputs /\ stage' = "typed" /\ secret' = secret
      BY <1>2 DEF Type
    <2>2. QED
      BY <2>1 DEF TotpInv
  <1>3. CASE Resolve
    <2>1. stage = "typed" /\ input' = input /\ input \in Inputs /\ secret = <<>>
      BY <1>3 DEF Resolve, TotpInv
    <2>2. PICK bytes : bytes = resolve_secret(input)
      OBVIOUS
    <2>3. bytes = Error \/ bytes \in Seq(Nat)
      BY <2>1, <2>2, Resolved
    <2>4. CASE bytes = Error \/ ~Valid(input.params)
      <3>1. stage' = "refused" /\ secret' = <<>>
        BY <1>3, <2>1, <2>2, <2>4 DEF Resolve
      <3>2. QED
        BY <2>1, <2>2, <2>4, <3>1 DEF TotpInv
    <2>5. CASE ~(bytes = Error \/ ~Valid(input.params))
      <3>1. stage' = "resolved" /\ secret' = bytes /\ params' = input.params
        BY <1>3, <2>2, <2>5 DEF Resolve
      <3>2. QED
        BY <2>1, <2>2, <2>3, <2>5, <3>1 DEF TotpInv
    <2>6. QED
      BY <2>4, <2>5
  <1>4. CASE Store
    <2>1. stage = "resolved" /\ input' = input /\ secret' = secret /\ params' = params
      BY <1>4 DEF Store
    <2>2. /\ input \in Inputs /\ secret = resolve_secret(input) /\ params = input.params
          /\ Valid(input.params) /\ resolve_secret(input) \in Seq(Nat)
      BY <2>1 DEF TotpInv
    <2>3. CASE secret # <<>>
      <3>1. stage' = "stored" /\ payload' = Payload(secret, params)
        BY <1>4, <2>2, <2>3 DEF Store, Payload
      <3>2. QED
        BY <2>1, <2>2, <2>3, <3>1 DEF TotpInv
    <2>4. CASE secret = <<>>
      <3>1. stage' = "refused"
        BY <1>4, <2>4 DEF Store
      <3>2. QED
        BY <2>1, <2>2, <2>4, <3>1 DEF TotpInv
    <2>5. QED
      BY <2>3, <2>4
  <1>5. CASE Forget
    <2>1. stage = "stored" /\ stage' = "at rest" /\ secret' = <<>> /\ input' = input /\ payload' = payload
      BY <1>5 DEF Forget
    <2>2. QED
      BY <2>1 DEF TotpInv
  <1>6. CASE Show
    <2>1. stage = "at rest" /\ input' = input /\ payload' = payload
      BY <1>6 DEF Show
    <2>2. /\ input \in Inputs /\ Valid(input.params) /\ resolve_secret(input) \in Seq(Nat)
          /\ resolve_secret(input) # <<>> /\ payload = Payload(resolve_secret(input), input.params)
      BY <2>1 DEF TotpInv
    <2>3. /\ Len(payload) = 6 + Len(resolve_secret(input))
          /\ SubSeq(payload, 7, Len(payload)) = resolve_secret(input)
          /\ [algorithm |-> Algorithms[payload[1] + 1], digits |-> payload[2],
              period |-> payload[3] + 256 * payload[4]] = input.params
      <3>1. ProperParams(input.params)
        BY <2>2, ProperInputs
      <3>2. PICK bytes \in Seq(Nat) : bytes = resolve_secret(input)
        BY <2>2
      <3>3. PICK p, q : p = input.params /\ q = payload
        OBVIOUS
      <3>4. q = Payload(bytes, p) /\ ProperParams(p)
        BY <2>2, <3>1, <3>2, <3>3
      <3>5. /\ Len(q) = 6 + Len(bytes) /\ SubSeq(q, 7, Len(q)) = bytes
            /\ [algorithm |-> Algorithms[q[1] + 1], digits |-> q[2], period |-> q[3] + 256 * q[4]] = p
        BY <3>2, <3>4, PayloadReads
      <3>6. QED
        BY <3>2, <3>3, <3>5, Zenon
    <2>4. ~(Len(payload) < 7)
      BY <2>2, <2>3
    <2>5. stage' = "shown" /\ params' = input.params /\ secret' = resolve_secret(input)
      BY <1>6, <2>2, <2>3, <2>4, Zenon DEF Show
    <2>6. QED
      BY <2>1, <2>2, <2>5 DEF TotpInv
  <1>7. QED
    BY <1>1, <1>2, <1>3, <1>4, <1>5, <1>6 DEF TotpNext

(* So it always holds.                                                      *)
LEMMA TotpInvAlways == TotpSpec => []TotpInv
  <1>1. TotpInit => TotpInv
    BY DEF TotpInit, TotpInv
  <1>2. QED
    BY <1>1, TotpInvStep, PTL DEF TotpSpec

(* A text read as base32 becomes the bytes it encodes, and one that is      *)
(* refused encodes none: for any texts typed and any parameters.            *)
THEOREM DecodingIsCanonical == TotpSpec => []Base32IsCanonical
  <1>1. TotpInv => Base32IsCanonical
    <2> SUFFICES ASSUME TotpInv, ReadAsBase32 
                 PROVE  /\ stage = "resolved" => Encodes(input.text, secret)
                        /\ stage = "refused" => ~Encodes(input.text, Bytes(Kept(input.text, 0..31)))
      BY DEF Base32IsCanonical
    <2>1. Valid(input.params)
      BY DEF ReadAsBase32
    <2>2. ASSUME stage \in {"resolved", "refused"}
          PROVE  input \in Inputs /\ resolve_secret(input) = decode_base32(input.text)
      <3>1. input \in Inputs
        BY <2>2 DEF TotpInv
      <3>2. QED
        BY <2>1, <3>1, Resolved DEF ReadAsBase32
    <2>3. ASSUME stage = "resolved" PROVE Encodes(input.text, secret)
      <3>1. secret = decode_base32(input.text) /\ secret \in Seq(Nat)
        BY <2>2, <2>3 DEF TotpInv
      <3>2. secret # Error
        BY <3>1, TotpAssumption
      <3>3. input.text \in Seq(Chars)
        BY <2>2, <2>3, Resolved
      <3>4. QED
        BY <3>1, <3>2, <3>3, DecodeInverts
    <2>4. ASSUME stage = "refused", NEW bytes \in Seq(Octets), Encodes(input.text, bytes) PROVE FALSE
      <3>1. decode_base32(input.text) \in {Error, <<>>}
        BY <2>1, <2>2, <2>4 DEF TotpInv
      <3>2. input.text \in Seq(Chars)
        BY <2>2, <2>4, Resolved
      <3>3. decode_base32(input.text) = bytes
        BY <2>4, <3>2, DecodeInverts
      <3>4. bytes \in Seq(Nat)
        BY OctetsAreNumbers, WiderSeq
      <3>5. bytes # Error
        BY <3>4, TotpAssumption
      <3>6. bytes # <<>>
        BY <2>4, Zenon DEF Encodes
      <3>7. QED
        BY <3>1, <3>3, <3>5, <3>6
    <2>5. stage = "refused" => Bytes(Kept(input.text, 0..31)) \in Seq(Octets)
      <3>1. SUFFICES ASSUME stage = "refused" PROVE Bytes(Kept(input.text, 0..31)) \in Seq(Octets)
        OBVIOUS
      <3>2. input.text \in Seq(Chars)
        BY <2>2, <3>1, Resolved
      <3>3. Kept(input.text, 0..31) \in Seq((0..31) \cap Chars)
        BY <3>2, KeptType, Zenon
      <3>4. (0..31) \cap Chars \subseteq Nat
        BY CharsAreNumbers, Zenon
      <3>5. Kept(input.text, 0..31) \in Seq(Nat)
        <4>1. PICK A : A = (0..31) \cap Chars
          OBVIOUS
        <4>2. PICK u \in Seq(A) : u = Kept(input.text, 0..31)
          BY <3>3, <4>1, Zenon
        <4>3. u \in Seq(Nat)
          BY <3>4, <4>1, WiderSeq
        <4>4. QED
          BY <4>2, <4>3
      <3>6. QED
        BY <3>5, BytesAreOctets, Zenon
    <2>6. QED
      BY <2>3, <2>4, <2>5, Zenon
  <1>2. QED
    BY <1>1, TotpInvAlways, PTL

(* The code is made from what was typed, however long it lay in its payload,*)
(* and only an empty secret is lost.                                        *)
THEOREM CodesAreKept == TotpSpec => []EntryKeepsCode
  <1>1. TotpInv => EntryKeepsCode
    BY DEF TotpInv, EntryKeepsCode
  <1>2. QED
    BY <1>1, TotpInvAlways, PTL

(* No URI is taken for the text of a bare secret.                           *)
THEOREM UrisAreParsed == TotpSpec => []UriIsNeverAKey
  <1>1. TotpInv => UriIsNeverAKey
    <2> SUFFICES ASSUME TotpInv, stage # "asked", input.scheme # "none", secret # <<>>
                 PROVE  input.type = "totp" /\ Encodes(input.text, secret)
      BY DEF UriIsNeverAKey
    <2>1. stage \in {"resolved", "stored", "shown"}
      BY DEF TotpInv
    <2>2. /\ input \in Inputs /\ secret = resolve_secret(input)
          /\ resolve_secret(input) \in Seq(Nat)
      BY <2>1 DEF TotpInv
    <2>3. resolve_secret(input) # Error
      BY <2>2, TotpAssumption
    <2>4. /\ input.type = "totp" /\ resolve_secret(input) = decode_base32(input.text)
          /\ input.text \in Seq(Chars)
      BY <2>2, <2>3, Resolved
    <2>5. QED
      BY <2>2, <2>3, <2>4, DecodeInverts
  <1>2. QED
    BY <1>1, TotpInvAlways, PTL

-----------------------------------------------------------------------------
(* File names. *)
NameChars == Allowed \cup Special

(* f is the output of sanitize_filename before each character of a name.    *)
OutFrom(name, f, n) ==
  f = [i \in 0..n |-> IF i = 0 THEN <<>> ELSE f[i - 1] \o Encoded(name[i])]

(* The output of the loop is a function of the name, of any length.         *)
LEMMA OutExists ==
  ASSUME NEW name
  PROVE  \A n \in Nat : \E f : OutFrom(name, f, n)
  <1> DEFINE Q == {n \in Nat : \E f : OutFrom(name, f, n)}
  <1>1. 0 \in Q
    <2>1. OutFrom(name, [i \in 0..0 |-> <<>>], 0)
      BY DEF OutFrom
    <2>2. QED
      BY <2>1
  <1>2. ASSUME NEW n \in Nat, n \in Q PROVE n + 1 \in Q
    <2>1. PICK f : OutFrom(name, f, n)
      BY <1>2
    <2> DEFINE last == f[n] \o Encoded(name[n + 1])
               g == [i \in 0..n + 1 |-> IF i = n + 1 THEN last ELSE f[i]]
    <2>2. g = [i \in 0..n + 1 |-> IF i = 0 THEN <<>> ELSE g[i - 1] \o Encoded(name[i])]
      <3>1. \A i \in 0..n : f[i] = IF i = 0 THEN <<>> ELSE f[i - 1] \o Encoded(name[i])
        BY <2>1, Zenon DEF OutFrom
      <3>2. \A i \in 0..n : /\ i # n + 1 /\ i \in 0..n + 1
                            /\ i # 0 => i - 1 \in 0..n /\ i - 1 \in 0..n + 1 /\ i - 1 # n + 1
        OBVIOUS
      <3>3. n + 1 # 0 /\ (n + 1) - 1 = n /\ n \in 0..n + 1 /\ n # n + 1
        OBVIOUS
      <3>4. \A i \in 0..n + 1 : i = n + 1 \/ i \in 0..n
        OBVIOUS
      <3>5. \A i \in 0..n + 1 : g[i] = IF i = 0 THEN <<>> ELSE g[i - 1] \o Encoded(name[i])
        BY <3>1, <3>2, <3>3, <3>4
      <3>6. QED
        BY <3>5
    <2> HIDE DEF g
    <2>3. OutFrom(name, g, n + 1)
      BY <2>2, Zenon DEF OutFrom
    <2>4. n + 1 \in Nat
      OBVIOUS
    <2>5. QED
      BY <2>3, <2>4
  <1> HIDE DEF Q
  <1>3. \A n \in Nat : n \in Q
    BY <1>1, <1>2, Induction
  <1>4. QED
    BY <1>3, Zenon DEF Q

(* The output before character i + 1, and how it grows. *)
Outputs(name, f) ==
  /\ f[0] = <<>> /\ f[Len(name)] = Sanitize(name)
  /\ \A i \in Nat : i < Len(name) => f[i + 1] = f[i] \o Encoded(name[i + 1])

(* It begins with nothing and grows by one character's encoding at a time.  *)
LEMMA OutSteps ==
  ASSUME NEW name, Len(name) \in Nat
  PROVE  \E f : Outputs(name, f)
  <1> DEFINE n == Len(name)
             g == CHOOSE g : OutFrom(name, g, n)
  <1>1. OutFrom(name, g, n)
    BY OutExists, Zenon
  <1>2. Sanitize(name) = g[n]
    BY Zenon DEF Sanitize, OutFrom
  <1> HIDE DEF g
  <1>3. \A j \in 0..n : g[j] = IF j = 0 THEN <<>> ELSE g[j - 1] \o Encoded(name[j])
    BY <1>1, Zenon DEF OutFrom
  <1>4. ASSUME NEW i \in Nat, i < n PROVE g[i + 1] = g[i] \o Encoded(name[i + 1])
    <2>1. i + 1 # 0 /\ (i + 1) - 1 = i /\ i + 1 \in 0..n
      BY <1>4
    <2>2. QED
      BY <1>3, <2>1
  <1>5. 0 \in 0..n
    OBVIOUS
  <1>6. Outputs(name, g)
    BY <1>2, <1>3, <1>4, <1>5 DEF Outputs
  <1>7. QED
    BY <1>6

(* A character becomes itself, or its code between two underscores.         *)
LEMMA EncodedType ==
  ASSUME NEW c \in NameChars
  PROVE  /\ Encoded(c) \in Seq(Allowed) /\ Len(Encoded(c)) > 0
         /\ c \in Allowed => Encoded(c) = <<c>>
         /\ c \notin Allowed =>
              /\ c \in Special /\ Hex[c] \in Seq(Allowed \ {Underscore})
              /\ Encoded(c) = <<Underscore>> \o Hex[c] \o <<Underscore>>
  <1>1. CASE c \in Allowed
    <2>1. Encoded(c) = <<c>>
      BY <1>1 DEF Encoded
    <2>2. <<c>> \in Seq(Allowed) /\ Len(<<c>>) > 0
      BY <1>1
    <2>3. QED
      BY <1>1, <2>1, <2>2
  <1>2. CASE c \notin Allowed
    <2>1. PICK h : h = Hex[c] /\ h \in Seq(Allowed \ {Underscore})
      BY <1>2, FileNamesAssumption DEF NameChars
    <2>2. Encoded(c) = <<Underscore>> \o h \o <<Underscore>>
      BY <1>2, <2>1 DEF Encoded
    <2>3. PICK u \in Allowed : u = Underscore
      BY FileNamesAssumption
    <2>4. h \in Seq(Allowed)
      BY <2>1, WiderSeq
    <2>5. <<u>> \o h \o <<u>> \in Seq(Allowed) /\ Len(<<u>> \o h \o <<u>>) > 0
      <3>1. PICK w : w = <<u>>
        OBVIOUS
      <3>0. w \in Seq(Allowed) /\ Len(w) = 1
        BY <2>3, <3>1
      <3>2. w \o h \o w \in Seq(Allowed) /\ Len(w \o h \o w) > 0
        BY <2>4, <3>0
      <3>3. QED
        BY <3>1, <3>2
    <2>6. QED
      BY <1>2, <2>1, <2>2, <2>3, <2>5 DEF NameChars
  <1>3. QED
    BY <1>1, <1>2

(* The output is made of allowed characters at any time.                    *)
LEMMA OutType ==
  ASSUME NEW name \in Seq(NameChars), NEW f, Outputs(name, f)
  PROVE  \A i \in 0..Len(name) : f[i] \in Seq(Allowed)
  <1> DEFINE Q == {i \in Nat : i <= Len(name) => f[i] \in Seq(Allowed)}
  <1>1. 0 \in Q
    <2>1. f[0] = <<>>
      BY Zenon DEF Outputs
    <2>2. f[0] \in Seq(Allowed)
      BY <2>1
    <2>3. QED
      BY <2>2
  <1>2. ASSUME NEW i \in Nat, i \in Q PROVE i + 1 \in Q
    <2>1. SUFFICES ASSUME i + 1 <= Len(name) PROVE f[i + 1] \in Seq(Allowed)
      OBVIOUS
    <2>2. i < Len(name) /\ f[i] \in Seq(Allowed) /\ name[i + 1] \in NameChars
      BY <1>2, <2>1
    <2>3. PICK e \in Seq(Allowed) : e = Encoded(name[i + 1])
      BY <2>2, EncodedType
    <2>4. f[i + 1] = f[i] \o e
      BY <2>2, <2>3 DEF Outputs
    <2>5. QED
      BY <2>2, <2>4
  <1> HIDE DEF Q
  <1>3. \A i \in Nat : i \in Q
    BY <1>1, <1>2, Induction
  <1>4. QED
    BY <1>3 DEF Q

(* So are both file names.                                                  *)
LEMMA SanitizeType ==
  ASSUME NEW name \in Seq(NameChars)
  PROVE  Sanitize(name) \in Seq(Allowed) /\ SanitizeLegacy(name) \in Seq(Allowed)
  <1>1. PICK f : Outputs(name, f)
    BY OutSteps
  <1>2. Len(name) \in 0..Len(name)
    OBVIOUS
  <1>3. Sanitize(name) = f[Len(name)]
    BY <1>1, Zenon DEF Outputs
  <1>4. Sanitize(name) \in Seq(Allowed)
    BY <1>1, <1>2, <1>3, OutType
  <1>5. PICK u \in Allowed : u = Underscore
    BY FileNamesAssumption
  <1>6. SanitizeLegacy(name) = [i \in 1..Len(name) |-> IF name[i] \in Allowed THEN name[i] ELSE u]
    BY <1>5 DEF SanitizeLegacy
  <1>7. [i \in 1..Len(name) |-> IF name[i] \in Allowed THEN name[i] ELSE u] \in Seq(Allowed)
    OBVIOUS
  <1>8. QED
    BY <1>4, <1>6, <1>7

(* A name of allowed characters is its own file name.                       *)
LEMMA AllowedStay ==
  ASSUME NEW name \in Seq(Allowed)
  PROVE  Sanitize(name) = name /\ SanitizeLegacy(name) = name
  <1>0. name \in Seq(NameChars)
    BY DEF NameChars
  <1>1. PICK f : Outputs(name, f)
    BY OutSteps
  <1> DEFINE Q == {i \in Nat : i <= Len(name) => Len(f[i]) = i /\ \A k \in 1..i : f[i][k] = name[k]}
  <1>2. 0 \in Q
    BY <1>1 DEF Outputs
  <1>3. ASSUME NEW i \in Nat, i \in Q PROVE i + 1 \in Q
    <2>1. SUFFICES ASSUME i + 1 <= Len(name)
                   PROVE  Len(f[i + 1]) = i + 1 /\ \A k \in 1..i + 1 : f[i + 1][k] = name[k]
      OBVIOUS
    <2>2. i < Len(name) /\ Len(f[i]) = i /\ \A k \in 1..i : f[i][k] = name[k]
      BY <1>3, <2>1
    <2>3. f[i] \in Seq(Allowed) /\ name[i + 1] \in Allowed
      BY <1>0, <1>1, <2>2, OutType
    <2>4. f[i + 1] = f[i] \o <<name[i + 1]>>
      BY <1>1, <2>2, <2>3 DEF Outputs, Encoded
    <2>5. QED
      BY <2>2, <2>3, <2>4
  <1> HIDE DEF Q
  <1>4. Len(name) \in Q
    BY <1>2, <1>3, Induction
  <1>5. Len(Sanitize(name)) = Len(name) /\ \A k \in 1..Len(name) : Sanitize(name)[k] = name[k]
    BY <1>1, <1>4 DEF Q, Outputs
  <1>6. Sanitize(name) \in Seq(Allowed)
    BY <1>0, SanitizeType
  <1>7. Sanitize(name) = name
    BY <1>5, <1>6
  <1>8. SanitizeLegacy(name) = [i \in 1..Len(name) |-> name[i]]
    <2>1. DOMAIN name = 1..Len(name) /\ \A i \in 1..Len(name) : name[i] \in Allowed
      OBVIOUS
    <2>2. QED
      BY <2>1 DEF SanitizeLegacy
  <1>9. QED
    BY <1>7, <1>8

(* What NamesAssumption asks of the two encodings, for names of any length: a*)
(* listed stem, typed back, leads to its own file (keystore.rs 543-568).    *)
THEOREM StemsStay ==
  \A name \in Seq(NameChars) : \A stem \in {Sanitize(name), SanitizeLegacy(name)} :
    stem \in Seq(Allowed) /\ Sanitize(stem) = stem /\ SanitizeLegacy(stem) = stem
  BY SanitizeType, AllowedStay

(* e can be read in w behind position p. *)
ReadAt(w, p, e) == p + Len(e) <= Len(w) /\ \A k \in 1..Len(e) : w[p + k] = e[k]

(* An escaped character begins and ends with an underscore and has none     *)
(* inside.                                                                  *)
LEMMA SpecialReads ==
  ASSUME NEW c \in Special, NEW h, h = Hex[c]
  PROVE  /\ h \in Seq(Allowed \ {Underscore})
         /\ Len(Encoded(c)) = Len(h) + 2
         /\ Encoded(c)[1] = Underscore /\ Encoded(c)[Len(h) + 2] = Underscore
         /\ \A k \in 1..Len(h) : Encoded(c)[k + 1] = h[k] /\ h[k] # Underscore
  <1>1. h \in Seq(Allowed \ {Underscore}) /\ c \notin Allowed
    BY FileNamesAssumption
  <1>2. PICK u : u = <<Underscore>> /\ u \in Seq({Underscore}) /\ Len(u) = 1 /\ u[1] = Underscore
    <2>1. <<Underscore>> \in Seq({Underscore}) /\ Len(<<Underscore>>) = 1 /\ <<Underscore>>[1] = Underscore
      OBVIOUS
    <2>2. QED
      BY <2>1, Zenon
  <1>3. Encoded(c) = u \o h \o u
    BY <1>1, <1>2 DEF Encoded
  <1>4. PICK l \in Nat : l = Len(h)
    BY <1>1
  <1>5. PICK v : v = u \o h
    OBVIOUS
  <1>6. /\ v \in Seq(Allowed) /\ Len(v) = l + 1 /\ v[1] = Underscore
        /\ \A k \in 1..l : v[k + 1] = h[k]
    <2>1. h \in Seq(Allowed) /\ u \in Seq(Allowed)
      BY <1>1, <1>2, FileNamesAssumption, WiderSeq
    <2>2. QED
      BY <1>2, <1>4, <1>5, <2>1
  <1>7. PICK e : e = v \o u
    OBVIOUS
  <1>8. /\ Len(e) = l + 2 /\ e[l + 2] = Underscore
        /\ \A k \in 1..l + 1 : e[k] = v[k]
    <2>1. u \in Seq(Allowed)
      BY <1>2, FileNamesAssumption, WiderSeq
    <2>2. QED
      BY <1>2, <1>6, <1>7, <2>1
  <1>9. \A k \in 1..l : h[k] # Underscore
    BY <1>1, <1>4
  <1>10. \A k \in 1..l : e[k + 1] = h[k]
    <2>1. \A k \in 1..l : k + 1 \in 1..l + 1
      BY <1>4
    <2>2. QED
      BY <1>6, <1>8, <2>1
  <1>11. e[1] = Underscore
    BY <1>6, <1>8
  <1>12. Encoded(c) = e
    BY <1>3, <1>5, <1>7
  <1>13. QED
    BY <1>1, <1>4, <1>8, <1>9, <1>10, <1>11, <1>12

(* No code is the beginning of another's.                                   *)
LEMMA CodesEnd ==
  ASSUME NEW c \in Special, NEW d \in Special, NEW w, NEW p \in Nat,
         ReadAt(w, p, Encoded(c)), ReadAt(w, p, Encoded(d))
  PROVE  Len(Hex[d]) <= Len(Hex[c]) /\ \A k \in 1..Len(Hex[d]) : Hex[d][k] = Hex[c][k]
  <1>1. PICK h, g : h = Hex[c] /\ g = Hex[d]
    OBVIOUS
  <1>2. PICK x, y : x = Encoded(c) /\ y = Encoded(d)
    OBVIOUS
  <1>3. /\ h \in Seq(Allowed \ {Underscore}) /\ Len(x) = Len(h) + 2 /\ x[Len(h) + 2] = Underscore
        /\ \A k \in 1..Len(h) : x[k + 1] = h[k] /\ h[k] # Underscore
    BY <1>1, <1>2, SpecialReads
  <1>4. /\ g \in Seq(Allowed \ {Underscore}) /\ Len(y) = Len(g) + 2
        /\ \A k \in 1..Len(g) : y[k + 1] = g[k] /\ g[k] # Underscore
    BY <1>1, <1>2, SpecialReads
  <1>5. /\ \A k \in 1..Len(x) : w[p + k] = x[k]
        /\ \A k \in 1..Len(y) : w[p + k] = y[k]
    BY <1>2 DEF ReadAt
  <1>6. PICK l \in Nat, m \in Nat : l = Len(h) /\ m = Len(g)
    BY <1>3, <1>4
  <1>7. m <= l
    <2>1. SUFFICES ASSUME l + 1 \in 1..m PROVE FALSE
      BY <1>6
    <2>2. y[l + 2] = g[l + 1] /\ g[l + 1] # Underscore
      <3>1. (l + 1) + 1 = l + 2
        OBVIOUS
      <3>2. QED
        BY <1>4, <1>6, <2>1, <3>1
    <2>3. l + 2 \in 1..Len(x) /\ l + 2 \in 1..Len(y)
      BY <1>3, <1>4, <1>6, <2>1
    <2>4. QED
      BY <1>3, <1>5, <1>6, <2>2, <2>3
  <1>8. ASSUME NEW k \in 1..m PROVE g[k] = h[k]
    <2>1. k + 1 \in 1..Len(x) /\ k + 1 \in 1..Len(y) /\ k \in 1..l
      BY <1>3, <1>4, <1>6, <1>7
    <2>2. w[p + (k + 1)] = x[k + 1] /\ w[p + (k + 1)] = y[k + 1]
      BY <1>5, <2>1
    <2>3. x[k + 1] = h[k] /\ y[k + 1] = g[k]
      BY <1>3, <1>4, <1>6, <2>1
    <2>4. QED
      BY <2>2, <2>3
  <1>9. QED
    BY <1>1, <1>6, <1>7, <1>8

(* At one place of a file name only one character can be read, unless it may*)
(* be an underscore of the name itself.                                     *)
LEMMA OneCharacter ==
  ASSUME NEW c \in NameChars \ {Underscore}, NEW d \in NameChars \ {Underscore}, NEW w, NEW p \in Nat,
         ReadAt(w, p, Encoded(c)), ReadAt(w, p, Encoded(d))
  PROVE  c = d
  <1>1. \A x \in NameChars : x \in Allowed => Encoded(x) = <<x>>
    BY EncodedType
  <1>2. \A x \in NameChars : ReadAt(w, p, Encoded(x)) => w[p + 1] = Encoded(x)[1]
    BY EncodedType DEF ReadAt
  <1>3. \A x \in NameChars : x \in Allowed /\ ReadAt(w, p, Encoded(x)) => w[p + 1] = x
    BY <1>1, <1>2
  <1>4. \A x \in NameChars : x \notin Allowed /\ ReadAt(w, p, Encoded(x)) => w[p + 1] = Underscore
    BY <1>2, SpecialReads DEF NameChars
  <1>5. CASE c \in Allowed \/ d \in Allowed
    BY <1>3, <1>4, <1>5
  <1>6. CASE c \notin Allowed /\ d \notin Allowed
    <2>1. c \in Special /\ d \in Special
      BY <1>6 DEF NameChars
    <2>2. PICK h, g : h = Hex[c] /\ g = Hex[d]
      OBVIOUS
    <2>3. h \in Seq(Allowed \ {Underscore}) /\ g \in Seq(Allowed \ {Underscore})
      BY <2>1, <2>2, FileNamesAssumption
    <2>4. /\ Len(g) <= Len(h) /\ \A k \in 1..Len(g) : g[k] = h[k]
          /\ Len(h) <= Len(g)
      BY <2>1, <2>2, CodesEnd
    <2>5. h = g
      BY <2>3, <2>4
    <2>6. QED
      BY <2>1, <2>2, <2>5, FileNamesAssumption
  <1>7. QED
    BY <1>5, <1>6

(* What is written stays: the encoding of each character can be read where  *)
(* it was written.                                                          *)
LEMMA OutReads ==
  ASSUME NEW name \in Seq(NameChars), NEW f, Outputs(name, f), NEW i \in Nat, i < Len(name)
  PROVE  /\ Len(f[i]) \in Nat /\ Len(f[i + 1]) = Len(f[i]) + Len(Encoded(name[i + 1]))
         /\ ReadAt(Sanitize(name), Len(f[i]), Encoded(name[i + 1]))
  <1>1. PICK e \in Seq(Allowed) : e = Encoded(name[i + 1])
    <2>1. name[i + 1] \in NameChars
      OBVIOUS
    <2>2. QED
      BY <2>1, EncodedType
  <1>2. f[i] \in Seq(Allowed) /\ f[i + 1] = f[i] \o e
    <2>1. i \in 0..Len(name)
      OBVIOUS
    <2>2. f[i] \in Seq(Allowed)
      BY <2>1, OutType
    <2>3. f[i + 1] = f[i] \o e
      BY <1>1 DEF Outputs
    <2>4. QED
      BY <2>2, <2>3
  <1>3. PICK p \in Nat : p = Len(f[i])
    BY <1>2
  <1>4. Len(f[i + 1]) = p + Len(e) /\ \A k \in 1..Len(e) : f[i + 1][p + k] = e[k]
    BY <1>2, <1>3
  <1> DEFINE Q == {j \in Nat : i + 1 + j <= Len(name) => ReadAt(f[i + 1 + j], p, e)}
  <1>5. 0 \in Q
    <2>1. ReadAt(f[i + 1], p, e)
      BY <1>4, <1>3 DEF ReadAt
    <2>2. i + 1 + 0 = i + 1
      OBVIOUS
    <2>3. QED
      BY <2>1, <2>2
  <1>6. ASSUME NEW j \in Nat, j \in Q PROVE j + 1 \in Q
    <2>1. PICK n \in Nat : n = i + 1 + j /\ n + 1 = i + 1 + (j + 1)
      OBVIOUS
    <2>2. SUFFICES ASSUME n + 1 <= Len(name) PROVE ReadAt(f[n + 1], p, e)
      BY <2>1
    <2>3. n < Len(name) /\ n \in 0..Len(name) /\ ReadAt(f[n], p, e)
      BY <1>6, <2>1, <2>2
    <2>4. PICK d \in Seq(Allowed) : f[n + 1] = f[n] \o d
      <3>1. name[n + 1] \in NameChars
        BY <2>3
      <3>2. Encoded(name[n + 1]) \in Seq(Allowed)
        BY <3>1, EncodedType
      <3>3. f[n + 1] = f[n] \o Encoded(name[n + 1])
        BY <2>3 DEF Outputs
      <3>4. QED
        BY <3>2, <3>3
    <2>5. f[n] \in Seq(Allowed)
      BY <2>3, OutType
    <2>6. Len(f[n + 1]) = Len(f[n]) + Len(d) /\ \A k \in 1..Len(f[n]) : f[n + 1][k] = f[n][k]
      BY <2>4, <2>5
    <2>7. p + Len(e) <= Len(f[n]) /\ \A k \in 1..Len(e) : f[n][p + k] = e[k]
      BY <2>3 DEF ReadAt
    <2>8. \A k \in 1..Len(e) : p + k \in 1..Len(f[n])
      BY <2>5, <2>7
    <2>9. p + Len(e) <= Len(f[n + 1]) /\ \A k \in 1..Len(e) : f[n + 1][p + k] = e[k]
      BY <2>5, <2>6, <2>7, <2>8
    <2>10. QED
      BY <2>9 DEF ReadAt
  <1> HIDE DEF Q
  <1>7. PICK j \in Nat : i + 1 + j = Len(name)
    <2>1. Len(name) - (i + 1) \in Nat /\ i + 1 + (Len(name) - (i + 1)) = Len(name)
      OBVIOUS
    <2>2. QED
      BY <2>1
  <1>8. j \in Q
    BY <1>5, <1>6, Induction
  <1>9. ReadAt(f[Len(name)], p, e)
    BY <1>7, <1>8 DEF Q
  <1>10. f[Len(name)] = Sanitize(name)
    BY Zenon DEF Outputs
  <1>11. QED
    BY <1>1, <1>3, <1>4, <1>9, <1>10

(* The exact extent of "collision-free" *)
Without(c) == NameChars \ {c}

(* Reading the file name from its start finds the same characters.          *)
LEMMA SameStart ==
  ASSUME NEW a \in Seq(Without(Underscore)), NEW b \in Seq(Without(Underscore)), Sanitize(a) = Sanitize(b)
  PROVE  Len(a) <= Len(b) /\ \A k \in 1..Len(a) : a[k] = b[k]
  <1>1. a \in Seq(NameChars) /\ b \in Seq(NameChars)
    BY WiderSeq DEF Without
  <1>2. PICK f : Outputs(a, f)
    BY <1>1, OutSteps
  <1>3. PICK g : Outputs(b, g)
    BY <1>1, OutSteps
  <1> DEFINE same(i) == i <= Len(b) /\ Len(f[i]) = Len(g[i]) /\ \A k \in 1..i : a[k] = b[k]
             Q == {i \in Nat : i <= Len(a) => same(i)}
  <1>4. 0 \in Q
    <2>1. f[0] = <<>> /\ g[0] = <<>>
      BY <1>2, <1>3, Zenon DEF Outputs
    <2>2. same(0)
      BY <2>1
    <2>3. QED
      BY <2>2
  <1>5. ASSUME NEW i \in Nat, i \in Q PROVE i + 1 \in Q
    <2>1. SUFFICES ASSUME i + 1 <= Len(a) PROVE same(i + 1)
      OBVIOUS
    <2>2. i < Len(a) /\ same(i)
      BY <1>5, <2>1
    <2>3. PICK c \in NameChars \ {Underscore} : c = a[i + 1]
      BY <2>2 DEF Without
    <2>4. PICK p \in Nat : p = Len(f[i]) /\ p = Len(g[i])
      BY <1>1, <1>2, <2>2, OutReads
    <2>5. Len(f[i + 1]) = p + Len(Encoded(c)) /\ ReadAt(Sanitize(a), p, Encoded(c))
      <3>1. /\ Len(f[i + 1]) = Len(f[i]) + Len(Encoded(a[i + 1]))
            /\ ReadAt(Sanitize(a), Len(f[i]), Encoded(a[i + 1]))
        BY <1>1, <1>2, <2>2, OutReads
      <3>2. QED
        BY <2>3, <2>4, <3>1
    <2>6. i < Len(b)
      <3>1. SUFFICES ASSUME i = Len(b) PROVE FALSE
        BY <2>2
      <3>2. Sanitize(a) = g[i]
        BY <1>3, <3>1, Zenon DEF Outputs
      <3>3. p + Len(Encoded(c)) <= p
        BY <2>4, <2>5, <3>2 DEF ReadAt
      <3>4. Len(Encoded(c)) \in Nat /\ Len(Encoded(c)) > 0
        BY EncodedType
      <3>5. QED
        BY <3>3, <3>4
    <2>7. PICK d \in NameChars \ {Underscore} : d = b[i + 1]
      BY <2>6 DEF Without
    <2>8. Len(g[i + 1]) = p + Len(Encoded(d)) /\ ReadAt(Sanitize(a), p, Encoded(d))
      <3>1. /\ Len(g[i + 1]) = Len(g[i]) + Len(Encoded(b[i + 1]))
            /\ ReadAt(Sanitize(b), Len(g[i]), Encoded(b[i + 1]))
        BY <1>1, <1>3, <2>6, OutReads
      <3>2. QED
        BY <2>4, <2>7, <3>1
    <2>9. c = d
      BY <2>5, <2>8, OneCharacter
    <2>10. QED
      <3>1. a[i + 1] = b[i + 1] /\ Len(f[i + 1]) = Len(g[i + 1])
        BY <2>3, <2>5, <2>7, <2>8, <2>9
      <3>2. i + 1 <= Len(b)
        BY <2>6
      <3>3. ASSUME NEW k \in 1..i + 1 PROVE a[k] = b[k]
        <4>1. k \in 1..i \/ k = i + 1
          OBVIOUS
        <4>2. QED
          BY <2>2, <3>1, <4>1
      <3>4. QED
        BY <3>1, <3>2, <3>3
  <1> HIDE DEF Q
  <1>6. Len(a) \in Q
    BY <1>4, <1>5, Induction
  <1>7. QED
    BY <1>6 DEF Q

(* "Different names never map to the same filename" (keystore.rs 537-542) is*)
(* true of names without an underscore, however long; that it is not of all *)
(* is what the run keystore_edit shows.                                     *)
THEOREM PlainNamesAreDistinct ==
  \A a, b \in Seq(Without(Underscore)) : Sanitize(a) = Sanitize(b) => a = b
  BY SameStart
=============================================================================
