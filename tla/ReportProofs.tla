---------------------------- MODULE ReportProofs ----------------------------
(***************************************************************************)
(* Proofs about the text of a report, for any room that holds it, any      *)
(* requests and any number of bytes.                                       *)
(***************************************************************************)
EXTENDS Report, FiniteSetTheorems, TLAPS

\* The places of the first numbers.
LEMMA Places ==
  ASSUME NEW d \in Nat
  PROVE  IsFiniteSet(1 .. d) /\ Cardinality(1 .. d) = d
<1>1. /\ IsFiniteSet(1 .. d)
      /\ Cardinality(1 .. d) = IF 1 > d THEN 0 ELSE d - 1 + 1
  BY FS_Interval
<1> QED BY <1>1

\* A value that reaches d powers of ten at most has d + 1 digits at most.
LEMMA DigitsAtMost ==
  ASSUME NEW n, NEW d \in Nat, {k \in 1 .. 9 : PowerOfTen[k] <= n} \subseteq 1 .. d
  PROVE  Digits(n) \in Nat /\ Digits(n) <= d + 1
<1> DEFINE Reached == {k \in 1 .. 9 : PowerOfTen[k] <= n}
<1>1. Digits(n) = 1 + Cardinality(Reached)
  BY DEF Digits
<1>2. Reached \in SUBSET (1 .. d)
  OBVIOUS
<1> HIDE DEF Reached
<1>3. IsFiniteSet(1 .. d) /\ Cardinality(1 .. d) = d
  BY Places
<1>4. IsFiniteSet(Reached) /\ Cardinality(Reached) <= Cardinality(1 .. d)
  BY <1>2, <1>3, FS_Subset
<1>5. Cardinality(Reached) \in Nat
  BY <1>4, FS_CardinalityType
<1> QED BY <1>1, <1>3, <1>4, <1>5

\* A counter has ten digits at most; a small value has fewer.
LEMMA DigitsBounded ==
  ASSUME NEW n
  PROVE  Digits(n) \in Nat /\ Digits(n) <= 10
<1>1. {k \in 1 .. 9 : PowerOfTen[k] <= n} \subseteq 1 .. 9
  OBVIOUS
<1> QED BY <1>1, DigitsAtMost

\* The digits of a value up to four digits.
LEMMA DigitsOfSmallValues ==
  ASSUME NEW n \in Nat
  PROVE  /\ n <= 9    => Digits(n) <= 1
         /\ n <= 99   => Digits(n) <= 2
         /\ n <= 999  => Digits(n) <= 3
         /\ n <= 9999 => Digits(n) <= 4
<1>1. ASSUME NEW k \in 1 .. 9
      PROVE  /\ PowerOfTen[k] \in Int /\ PowerOfTen[k] >= 10
             /\ k >= 2 => PowerOfTen[k] >= 100
             /\ k >= 3 => PowerOfTen[k] >= 1000
             /\ k >= 4 => PowerOfTen[k] >= 10000
  BY SMT DEF PowerOfTen
<1>2. ASSUME n <= 9 PROVE Digits(n) <= 0 + 1
  <2>1. ASSUME NEW k \in 1 .. 9, PowerOfTen[k] <= n
        PROVE  k \in 1 .. 0
    BY <1>1, <1>2, <2>1
  <2> QED BY <2>1, DigitsAtMost
<1>4. ASSUME n <= 99 PROVE Digits(n) <= 1 + 1
  <2>1. ASSUME NEW k \in 1 .. 9, PowerOfTen[k] <= n
        PROVE  k \in 1 .. 1
    BY <1>1, <1>4, <2>1
  <2> QED BY <2>1, DigitsAtMost
<1>5. ASSUME n <= 999 PROVE Digits(n) <= 2 + 1
  <2>1. ASSUME NEW k \in 1 .. 9, PowerOfTen[k] <= n
        PROVE  k \in 1 .. 2
    BY <1>1, <1>5, <2>1
  <2> QED BY <2>1, DigitsAtMost
<1>6. ASSUME n <= 9999 PROVE Digits(n) <= 3 + 1
  <2>1. ASSUME NEW k \in 1 .. 9, PowerOfTen[k] <= n
        PROVE  k \in 1 .. 3
    BY <1>1, <1>6, <2>1
  <2> QED BY <2>1, DigitsAtMost
<1> QED BY <1>2, <1>4, <1>5, <1>6

\* rx, ae and irq, with the text around them, end within the room of a payload
\* (app.c, 165-183), so snprintf leaves them whole.
LEMMA FirstCountersFit ==
  ASSUME NEW c \in {"rx", "ae", "irq"}
  PROVE  Ends[c] \in Int /\ Ends[c] <= Room
<1>1. Room \in Nat /\ Room >= 42
  BY ReportAssumption
<1> DEFINE d1 == Digits(count.rx)
           d2 == Digits(count.ae)
           d3 == Digits(count.irq)
<1>2. /\ d1 \in Nat /\ d1 <= 10
      /\ d2 \in Nat /\ d2 <= 10
      /\ d3 \in Nat /\ d3 <= 10
  BY DigitsBounded
<1>3. /\ Ends.rx = 3 + d1
      /\ Ends.ae = 3 + d1 + 4 + d2
      /\ Ends.irq = 3 + d1 + 4 + d2 + 5 + d3
  BY DEF Ends
<1> HIDE DEF d1, d2, d3
<1>4. /\ Ends.rx \in Int /\ Ends.rx <= Room
      /\ Ends.ae \in Int /\ Ends.ae <= Room
      /\ Ends.irq \in Int /\ Ends.irq <= Room
  BY <1>1, <1>2, <1>3
<1> QED BY <1>4

\* Whatever the counters hold, and whatever snprintf cuts, a report gives rx,
\* ae and irq as they were read (app_build_status_message).
THEOREM FirstCountersSurvive == Spec => []FirstCountersAreExact
<1>1. FirstCountersAreExact
  <2> SUFFICES ASSUME NEW c \in {"rx", "ae", "irq"}
               PROVE  app_build_status_message[c] = count[c]
    BY DEF FirstCountersAreExact
  <2>1. c \in Counter
    BY DEF Counter
  <2>2. Ends[c] \in Int /\ Ends[c] <= Room /\ Room \in Nat
    BY FirstCountersFit, ReportAssumption
  <2>3. Ends[c] - Room <= 0
    BY <2>2
  <2> QED BY <2>1, <2>3 DEF app_build_status_message
<1> QED BY <1>1, PTL

-----------------------------------------------------------------------------
(* The whole report.                                                       *)

\* How the counters are bound to one another: every byte dropped or parsed was
\* counted by the interrupt, a message takes 12 of the parsed bytes and a refused
\* frame one, and every message is received by the application.
ReportInv ==
  /\ count \in [Counter -> Nat]
  /\ count.irq <= MaxBytes
  /\ count.pb + count.qd <= count.irq
  /\ 12 * count.pm + count.pe <= count.pb
  /\ count.rx = count.pm
  /\ count.ae <= count.rx

\* A counter that stays below the limit does not wrap.
LEMMA NoWrap ==
  ASSUME NEW a \in Nat, NEW b \in Nat, a + b < Limit
  PROVE  (a + b) % Limit = a + b
BY ReportAssumption

\* The seven counters after a step that adds to them, when none wraps.
LEMMA AddMoves ==
  ASSUME NEW increment \in [Counter -> Nat], count \in [Counter -> Nat], Add(increment),
         \A c \in Counter : count[c] + increment[c] < Limit
  PROVE  /\ count' \in [Counter -> Nat]
         /\ \A c \in Counter : count'[c] = count[c] + increment[c]
<1>1. ASSUME NEW c \in Counter
      PROVE  count'[c] = count[c] + increment[c]
  <2>1. count'[c] = (count[c] + increment[c]) % Limit
    BY DEF Add
  <2>2. count[c] \in Nat /\ increment[c] \in Nat /\ count[c] + increment[c] < Limit
    OBVIOUS
  <2> QED BY <2>1, <2>2, NoWrap
<1>2. ASSUME NEW c \in Counter
      PROVE  (count[c] + increment[c]) % Limit \in Nat
  <2>1. count[c] \in Nat /\ increment[c] \in Nat /\ count[c] + increment[c] < Limit
    OBVIOUS
  <2> QED BY <2>1, NoWrap
<1>3. count' \in [Counter -> Nat]
  BY <1>2 DEF Add
<1> QED BY <1>1, <1>3

\* No counter is above irq but rx, ae and pm, which are a twelfth of it.
LEMMA AllBelowIrq ==
  ASSUME ReportInv, NEW c \in Counter
  PROVE  count[c] \in Nat /\ count[c] <= count.irq
<1>1. /\ count.rx \in Nat /\ count.ae \in Nat /\ count.irq \in Nat /\ count.pb \in Nat
      /\ count.pm \in Nat /\ count.pe \in Nat /\ count.qd \in Nat
  BY DEF ReportInv, Counter
<1>2. /\ count.rx <= count.irq /\ count.ae <= count.irq /\ count.irq <= count.irq
      /\ count.pb <= count.irq /\ count.pm <= count.irq /\ count.pe <= count.irq
      /\ count.qd <= count.irq
  BY <1>1 DEF ReportInv
<1> QED BY <1>1, <1>2 DEF Counter

\* A byte that the interrupt counts adds one to some of the counters.
LEMMA OneMoreByte ==
  ASSUME NothingWraps, ReportInv, count.irq < MaxBytes,
         NEW increment \in [Counter -> Nat], \A c \in Counter : increment[c] <= 1,
         Add(increment)
  PROVE  /\ count' \in [Counter -> Nat]
         /\ \A c \in Counter : count'[c] = count[c] + increment[c]
<1>1. count \in [Counter -> Nat] /\ count.irq \in Nat /\ MaxBytes < Limit
  BY DEF ReportInv, NothingWraps, Counter
<1>2. ASSUME NEW c \in Counter
      PROVE  count[c] + increment[c] < Limit
  <2>1. count[c] \in Nat /\ count[c] <= count.irq
    BY AllBelowIrq
  <2>2. increment[c] \in Nat /\ increment[c] <= 1
    OBVIOUS
  <2> QED BY <1>1, <2>1, <2>2, ReportBounds, ReportAssumption
<1> QED BY <1>1, <1>2, AddMoves

\* A request adds its bytes to irq and pb, and one to pm and rx.
LEMMA ServeKeeps ==
  ASSUME NothingWraps, ReportInv, Serve
  PROVE  ReportInv'
<1>1. PICK r \in Request :
        /\ count.irq + r.bytes <= MaxBytes
        /\ Add([Nothing EXCEPT !.irq = r.bytes, !.pb = r.bytes, !.pm = 1, !.rx = 1,
                               !.ae = r.errors])
  BY DEF Serve
<1> DEFINE increment == [Nothing EXCEPT !.irq = r.bytes, !.pb = r.bytes, !.pm = 1,
                                        !.rx = 1, !.ae = r.errors]
<1>2. r.bytes \in Nat /\ r.bytes >= 12 /\ r.errors \in {0, 1}
  BY ReportAssumption DEF NothingWraps
<1>3. /\ increment.irq = r.bytes /\ increment.pb = r.bytes /\ increment.pm = 1
      /\ increment.rx = 1 /\ increment.ae = r.errors
      /\ increment.pe = 0 /\ increment.qd = 0
  BY Zenon DEF Nothing, Counter
<1>4. increment \in [Counter -> Nat]
  <2>1. increment = [c \in Counter |-> increment[c]]
    BY Zenon DEF Nothing
  <2> HIDE DEF increment
  <2>2. \A c \in Counter : increment[c] \in Nat
    BY <1>2, <1>3 DEF Counter
  <2> QED BY <2>1, <2>2
<1>5. Add(increment)
  BY <1>1
<1> HIDE DEF increment
<1>6. ASSUME NEW c \in Counter
      PROVE  increment[c] \in Nat /\ increment[c] <= r.bytes
  BY <1>2, <1>3 DEF Counter
<1>7. count \in [Counter -> Nat] /\ count.irq \in Nat /\ MaxBytes < Limit
  BY DEF ReportInv, NothingWraps, Counter
<1>8. ASSUME NEW c \in Counter
      PROVE  count[c] + increment[c] < Limit
  <2>1. count[c] \in Nat /\ count[c] <= count.irq
    BY AllBelowIrq
  <2> QED BY <1>1, <1>2, <1>6, <1>7, <2>1, ReportBounds, ReportAssumption
<1>9. /\ count' \in [Counter -> Nat]
      /\ \A c \in Counter : count'[c] = count[c] + increment[c]
  BY <1>4, <1>5, <1>7, <1>8, AddMoves
<1>10. /\ count'.rx = count.rx + 1 /\ count'.ae = count.ae + r.errors
       /\ count'.irq = count.irq + r.bytes /\ count'.pb = count.pb + r.bytes
       /\ count'.pm = count.pm + 1 /\ count'.pe = count.pe + 0 /\ count'.qd = count.qd + 0
  BY <1>3, <1>9 DEF Counter
<1>11. /\ count.rx \in Nat /\ count.ae \in Nat /\ count.irq \in Nat /\ count.pb \in Nat
       /\ count.pm \in Nat /\ count.pe \in Nat /\ count.qd \in Nat
  BY <1>7 DEF Counter
<1>12. /\ count'.irq <= MaxBytes
       /\ count'.pb + count'.qd <= count'.irq
       /\ 12 * count'.pm + count'.pe <= count'.pb
       /\ count'.rx = count'.pm
       /\ count'.ae <= count'.rx
  BY <1>1, <1>2, <1>10, <1>11 DEF ReportInv
<1> QED BY <1>9, <1>12 DEF ReportInv

\* A byte that breaks a frame is counted and parsed.
LEMMA RefuseKeeps ==
  ASSUME NothingWraps, ReportInv, Refuse
  PROVE  ReportInv'
<1> DEFINE increment == [Nothing EXCEPT !.irq = 1, !.pb = 1, !.pe = 1]
<1>1. Add(increment) /\ count.irq < MaxBytes
  BY DEF Refuse
<1>2. /\ increment.irq = 1 /\ increment.pb = 1 /\ increment.pe = 1
      /\ increment.rx = 0 /\ increment.ae = 0 /\ increment.pm = 0 /\ increment.qd = 0
  BY Zenon DEF Nothing, Counter
<1>3. increment = [c \in Counter |-> increment[c]]
  BY Zenon DEF Nothing
<1> HIDE DEF increment
<1>4. /\ increment \in [Counter -> Nat]
      /\ \A c \in Counter : increment[c] \in Nat /\ increment[c] <= 1
  BY <1>2, <1>3 DEF Counter
<1>5. /\ count' \in [Counter -> Nat]
      /\ \A c \in Counter : count'[c] = count[c] + increment[c]
  BY <1>1, <1>4, OneMoreByte
<1>6. /\ count'.rx = count.rx + 0 /\ count'.ae = count.ae + 0
      /\ count'.irq = count.irq + 1 /\ count'.pb = count.pb + 1
      /\ count'.pm = count.pm + 0 /\ count'.pe = count.pe + 1 /\ count'.qd = count.qd + 0
  BY <1>2, <1>5 DEF Counter
<1>7. /\ count.rx \in Nat /\ count.ae \in Nat /\ count.irq \in Nat /\ count.pb \in Nat
      /\ count.pm \in Nat /\ count.pe \in Nat /\ count.qd \in Nat
  BY AllBelowIrq DEF Counter
<1>8. /\ count'.irq <= MaxBytes
      /\ count'.pb + count'.qd <= count'.irq
      /\ 12 * count'.pm + count'.pe <= count'.pb
      /\ count'.rx = count'.pm
      /\ count'.ae <= count'.rx
  BY <1>1, <1>6, <1>7, ReportBounds DEF ReportInv
<1> QED BY <1>5, <1>8 DEF ReportInv

\* A byte that the full queue refuses is counted and not parsed.
LEMMA DropKeeps ==
  ASSUME NothingWraps, ReportInv, Drop
  PROVE  ReportInv'
<1> DEFINE increment == [Nothing EXCEPT !.irq = 1, !.qd = 1]
<1>1. Add(increment) /\ count.irq < MaxBytes
  BY DEF Drop
<1>2. /\ increment.irq = 1 /\ increment.qd = 1 /\ increment.pb = 0 /\ increment.pe = 0
      /\ increment.rx = 0 /\ increment.ae = 0 /\ increment.pm = 0
  BY Zenon DEF Nothing, Counter
<1>3. increment = [c \in Counter |-> increment[c]]
  BY Zenon DEF Nothing
<1> HIDE DEF increment
<1>4. /\ increment \in [Counter -> Nat]
      /\ \A c \in Counter : increment[c] \in Nat /\ increment[c] <= 1
  BY <1>2, <1>3 DEF Counter
<1>5. /\ count' \in [Counter -> Nat]
      /\ \A c \in Counter : count'[c] = count[c] + increment[c]
  BY <1>1, <1>4, OneMoreByte
<1>6. /\ count'.rx = count.rx + 0 /\ count'.ae = count.ae + 0
      /\ count'.irq = count.irq + 1 /\ count'.pb = count.pb + 0
      /\ count'.pm = count.pm + 0 /\ count'.pe = count.pe + 0 /\ count'.qd = count.qd + 1
  BY <1>2, <1>5 DEF Counter
<1>7. /\ count.rx \in Nat /\ count.ae \in Nat /\ count.irq \in Nat /\ count.pb \in Nat
      /\ count.pm \in Nat /\ count.pe \in Nat /\ count.qd \in Nat
  BY AllBelowIrq DEF Counter
<1>8. /\ count'.irq <= MaxBytes
      /\ count'.pb + count'.qd <= count'.irq
      /\ 12 * count'.pm + count'.pe <= count'.pb
      /\ count'.rx = count'.pm
      /\ count'.ae <= count'.rx
  BY <1>1, <1>6, <1>7, ReportBounds DEF ReportInv
<1> QED BY <1>5, <1>8 DEF ReportInv

\* Bytes that wait, or that the parser reads, add to one counter, which does not
\* pass MaxBytes.
LEMMA RunCounted ==
  ASSUME NothingWraps, ReportInv, NEW n \in Nat, NEW d \in {"irq", "pb"},
         count[d] + n <= MaxBytes, Add([Nothing EXCEPT ![d] = n])
  PROVE  /\ count' \in [Counter -> Nat]
         /\ count'[d] = count[d] + n
         /\ \A c \in Counter \ {d} : count'[c] = count[c]
<1> DEFINE increment == [Nothing EXCEPT ![d] = n]
<1>1. /\ increment = [c \in Counter |-> increment[c]]
      /\ increment[d] = n
      /\ \A c \in Counter \ {d} : increment[c] = 0
  BY Zenon DEF Nothing, Counter
<1>2. Add(increment)
  OBVIOUS
<1> HIDE DEF increment
<1>3. increment \in [Counter -> Nat]
  BY <1>1
<1>4. /\ count \in [Counter -> Nat] /\ count.irq <= MaxBytes /\ MaxBytes < Limit
      /\ MaxBytes \in Nat /\ Limit \in Nat
  BY ReportBounds, ReportAssumption DEF ReportInv, NothingWraps
<1>5. ASSUME NEW c \in Counter
      PROVE  count[c] + increment[c] < Limit
  <2>1. count[c] \in Nat /\ count[c] <= count.irq /\ count.irq \in Nat
    BY AllBelowIrq DEF Counter
  <2>2. CASE c = d
    BY <1>1, <1>4, <2>1, <2>2
  <2>3. CASE c # d
    BY <1>1, <1>4, <2>1, <2>3
  <2> QED BY <2>2, <2>3
<1>6. /\ count' \in [Counter -> Nat]
      /\ \A c \in Counter : count'[c] = count[c] + increment[c]
  BY <1>2, <1>3, <1>4, <1>5, AddMoves
<1>7. d \in Counter
  BY DEF Counter
<1> QED BY <1>1, <1>4, <1>6, <1>7

\* Bytes that wait are counted by the interrupt only.
LEMMA QueueKeeps ==
  ASSUME NothingWraps, ReportInv, Queue
  PROVE  ReportInv'
<1>1. PICK n \in Run : count.irq + n <= MaxBytes /\ Add([Nothing EXCEPT !["irq"] = n])
  BY DEF Queue
<1>2. n \in Nat
  BY ReportAssumption
<1>3. /\ count' \in [Counter -> Nat]
      /\ count'.irq = count.irq + n
      /\ count'.rx = count.rx /\ count'.ae = count.ae /\ count'.pb = count.pb
      /\ count'.pm = count.pm /\ count'.pe = count.pe /\ count'.qd = count.qd
  <2>1. /\ count' \in [Counter -> Nat]
        /\ count'["irq"] = count["irq"] + n
        /\ \A c \in Counter \ {"irq"} : count'[c] = count[c]
    BY <1>1, <1>2, RunCounted
  <2> QED BY <2>1 DEF Counter
<1>4. /\ count.irq \in Nat /\ count.pb \in Nat /\ count.qd \in Nat
  BY AllBelowIrq DEF Counter
<1> QED BY <1>1, <1>2, <1>3, <1>4 DEF ReportInv

\* Bytes that neither end a frame nor break one count for the parser only.
LEMMA PassKeeps ==
  ASSUME NothingWraps, ReportInv, Pass
  PROVE  ReportInv'
<1>1. PICK n \in Run : /\ count.pb + count.qd + n <= count.irq
                       /\ Add([Nothing EXCEPT !["pb"] = n])
  BY DEF Pass
<1>2. n \in Nat
  BY ReportAssumption
<1>3. /\ count.irq \in Nat /\ count.pb \in Nat /\ count.qd \in Nat
      /\ count.pm \in Nat /\ count.pe \in Nat
  BY AllBelowIrq DEF Counter
<1>4. count["pb"] + n <= MaxBytes
  BY <1>1, <1>2, <1>3, ReportBounds DEF ReportInv
<1>5. /\ count' \in [Counter -> Nat]
      /\ count'.pb = count.pb + n
      /\ count'.rx = count.rx /\ count'.ae = count.ae /\ count'.irq = count.irq
      /\ count'.pm = count.pm /\ count'.pe = count.pe /\ count'.qd = count.qd
  <2>1. /\ count' \in [Counter -> Nat]
        /\ count'["pb"] = count["pb"] + n
        /\ \A c \in Counter \ {"pb"} : count'[c] = count[c]
    BY <1>1, <1>2, <1>4, RunCounted
  <2> QED BY <2>1 DEF Counter
<1> QED BY <1>1, <1>2, <1>3, <1>5 DEF ReportInv

\* What the seven values can be in an early report, and so their digits.
LEMMA EarlyReportFits ==
  ASSUME NothingWraps, ReportInv, count.irq <= 9999, count.pe <= 99, count.qd <= 9,
         NEW c \in Counter
  PROVE  Ends[c] \in Int /\ Ends[c] <= Room
<1>1. /\ count.rx \in Nat /\ count.ae \in Nat /\ count.irq \in Nat /\ count.pb \in Nat
      /\ count.pm \in Nat /\ count.pe \in Nat /\ count.qd \in Nat
  BY AllBelowIrq DEF Counter
<1>2. /\ count.rx <= 999 /\ count.ae <= 999 /\ count.irq <= 9999 /\ count.pb <= 9999
      /\ count.pm <= 999 /\ count.pe <= 99 /\ count.qd <= 9
  BY <1>1 DEF ReportInv
<1> DEFINE d1 == Digits(count.rx)  d2 == Digits(count.ae)  d3 == Digits(count.irq)
           d4 == Digits(count.pb)  d5 == Digits(count.pm)  d6 == Digits(count.pe)
           d7 == Digits(count.qd)
<1>3. /\ d1 \in Nat /\ d2 \in Nat /\ d3 \in Nat /\ d4 \in Nat
      /\ d5 \in Nat /\ d6 \in Nat /\ d7 \in Nat
  BY DigitsBounded
<1>4. d1 <= 3 /\ d2 <= 3 /\ d3 <= 4 /\ d4 <= 4 /\ d5 <= 3 /\ d6 <= 2 /\ d7 <= 1
  BY <1>1, <1>2, DigitsOfSmallValues
<1>5. Room \in Nat /\ Room >= 48
  BY ReportAssumption DEF NothingWraps
<1>6. /\ Ends.rx = 3 + d1
      /\ Ends.ae = 3 + d1 + 4 + d2
      /\ Ends.irq = 3 + d1 + 4 + d2 + 5 + d3
      /\ Ends.pb = 3 + d1 + 4 + d2 + 5 + d3 + 4 + d4
      /\ Ends.pm = 3 + d1 + 4 + d2 + 5 + d3 + 4 + d4 + 4 + d5
      /\ Ends.pe = 3 + d1 + 4 + d2 + 5 + d3 + 4 + d4 + 4 + d5 + 4 + d6
      /\ Ends.qd = 3 + d1 + 4 + d2 + 5 + d3 + 4 + d4 + 4 + d5 + 4 + d6 + 4 + d7
  BY DEF Ends
<1> HIDE DEF d1, d2, d3, d4, d5, d6, d7
<1>7. \A x \in {Ends.rx, Ends.ae, Ends.irq, Ends.pb, Ends.pm, Ends.pe, Ends.qd} :
        x \in Int /\ x <= Room
  BY <1>3, <1>4, <1>5, <1>6
<1> QED BY <1>7 DEF Counter

\* The report as the application builds it is the counters as they stand, for as
\* long as irq, pe and qd are within four, two and one digits (app.c, 165-183).
THEOREM EarlyReports ==
  ASSUME NothingWraps
  PROVE  Spec => []EarlyReportsAreExact
<1>1. Init => ReportInv
  BY ReportBounds DEF Init, ReportInv, Counter
<1>2. ReportInv /\ [Next]_count => ReportInv'
  <2> SUFFICES ASSUME ReportInv, [Next]_count
               PROVE  ReportInv'
    OBVIOUS
  <2>1. CASE Serve
    BY <2>1, ServeKeeps
  <2>2. CASE Refuse
    BY <2>2, RefuseKeeps
  <2>3. CASE Drop
    BY <2>3, DropKeeps
  <2>4. CASE Queue
    BY <2>4, QueueKeeps
  <2>5. CASE Pass
    BY <2>5, PassKeeps
  <2>6. CASE UNCHANGED count
    BY <2>6 DEF ReportInv
  <2> QED BY <2>1, <2>2, <2>3, <2>4, <2>5, <2>6 DEF Next, Silence
<1>3. ReportInv => EarlyReportsAreExact
  <2> SUFFICES ASSUME ReportInv, count.irq <= 9999, count.pe <= 99, count.qd <= 9
               PROVE  app_build_status_message = count
    BY DEF EarlyReportsAreExact
  <2>1. ASSUME NEW c \in Counter
        PROVE  app_build_status_message[c] = count[c]
    <3>1. Ends[c] \in Int /\ Ends[c] <= Room /\ Room \in Nat
      BY EarlyReportFits, ReportAssumption
    <3>2. Ends[c] - Room <= 0
      BY <3>1
    <3> QED BY <3>2 DEF app_build_status_message
  <2>2. app_build_status_message = [c \in Counter |-> app_build_status_message[c]]
    BY DEF app_build_status_message
  <2>3. count = [c \in Counter |-> count[c]]
    BY DEF ReportInv
  <2> HIDE DEF app_build_status_message
  <2> QED BY <2>1, <2>2, <2>3
<1> QED BY <1>1, <1>2, <1>3, PTL DEF Spec

=============================================================================
