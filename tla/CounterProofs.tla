--------------------------- MODULE CounterProofs ----------------------------
(***************************************************************************)
(* Reading the counters a byte at a time is safe for counters of every     *)
(* width, processors of every speed and any number of interruptions; the   *)
(* two views of the clock agree; and a program whose handlers latch too    *)
(* can tell when what it read is whole.                                    *)
(***************************************************************************)
EXTENDS SharedLatches, ProofLemmas

(* Division with remainder is unique, and goes place by place.             *)
LEMMA DivisionIsUnique ==
    ASSUME NEW d \in Nat \ {0}, NEW q \in Nat, NEW r \in 0..d-1, NEW n, n = d * q + r
    PROVE  n \div d = q /\ n % d = r
<1>1. n \in Nat /\ d * q \in Nat
  BY SMT
<1>2. n \div d \in Nat /\ n % d \in 0..d-1 /\ n = (d * (n \div d)) + (n % d)
  BY <1>1, SMT
<1>3. PICK p \in Nat, s \in 0..d-1 : p = n \div d /\ s = n % d /\ n = d * p + s
  BY <1>2
<1>4. ~(p < q)
  <2> SUFFICES ASSUME p < q PROVE FALSE
    OBVIOUS
  <2>1. PICK k \in Nat : q = p + 1 + k
    <3>1. q - p - 1 \in Nat /\ q = p + 1 + (q - p - 1)
      OBVIOUS
    <3> QED
      BY <3>1
  <2>2. d * (p + 1 + k) = d * p + d + d * k /\ d * k \in Nat /\ d * p \in Nat
    BY SMT
  <2> QED
    BY <1>3, <2>1, <2>2
<1>5. ~(q < p)
  <2> SUFFICES ASSUME q < p PROVE FALSE
    OBVIOUS
  <2>1. PICK k \in Nat : p = q + 1 + k
    <3>1. p - q - 1 \in Nat /\ p = q + 1 + (p - q - 1)
      OBVIOUS
    <3> QED
      BY <3>1
  <2>2. d * (q + 1 + k) = d * q + d + d * k /\ d * k \in Nat /\ d * q \in Nat
    BY SMT
  <2> QED
    BY <1>3, <2>1, <2>2
<1>6. p = q
  BY <1>4, <1>5
<1>7. s = r
  BY <1>1, <1>3, <1>6
<1> QED
  BY <1>3, <1>6, <1>7

LEMMA OnePlaceMore ==
    ASSUME NEW n \in Nat, NEW b \in Nat \ {0}, NEW p \in Nat \ {0}
    PROVE  n % (b * p) = (p * ((n \div p) % b)) + (n % p)
<1>1. PICK q \in Nat, r \in 0..p-1 : q = n \div p /\ r = n % p /\ n = p * q + r
  <2>1. n \div p \in Nat /\ n % p \in 0..p-1 /\ n = (p * (n \div p)) + (n % p)
    BY SMT
  <2> QED
    BY <2>1
<1>2. PICK s \in Nat, t \in 0..b-1 : s = q \div b /\ t = q % b /\ q = b * s + t
  <2>1. q \div b \in Nat /\ q % b \in 0..b-1 /\ q = (b * (q \div b)) + (q % b)
    BY SMT
  <2> QED
    BY <2>1
<1>3. n = (b * p) * s + (p * t + r)
  <2>1. p * (b * s + t) = (b * p) * s + p * t
    BY SMT
  <2>2. (b * p) * s \in Int /\ p * t \in Int
    BY SMT
  <2>3. p * q = (b * p) * s + p * t
    BY <1>2, <2>1
  <2> QED
    BY <1>1, <2>2, <2>3
<1>4. p * t + r \in 0..(b * p)-1 /\ b * p \in Nat \ {0}
  <2>1. PICK k \in Nat : b = t + 1 + k
    <3>1. b - t - 1 \in Nat /\ b = t + 1 + (b - t - 1)
      OBVIOUS
    <3> QED
      BY <3>1
  <2>2. (t + 1 + k) * p = p * t + p + k * p /\ k * p \in Nat /\ p * t \in Nat
    BY SMT
  <2> QED
    BY <2>1, <2>2
<1>5. \A d \in Nat \ {0} : \A e \in 0..d-1 : n = d * s + e => n % d = e
  BY DivisionIsUnique
<1>6. n % (b * p) = p * t + r
  BY <1>3, <1>4, <1>5
<1> QED
  BY <1>1, <1>2, <1>6

(* Powers of the radix, as far as the bytes of a counter go.               *)
LEMMA PowersPositive == \A i \in 0..CounterBytes : Radix^i \in Nat \ {0}
<1> DEFINE S == {i \in Nat : i <= CounterBytes => Radix^i \in Nat \ {0}}
<1>1. CounterBytes \in Nat /\ Radix \in Nat \ {0}
  BY WidthAssumption
<1>2. 0 \in S
  BY PowersAssumption
<1>3. ASSUME NEW i \in Nat, i \in S PROVE i + 1 \in S
  <2> SUFFICES ASSUME i + 1 <= CounterBytes PROVE Radix^(i + 1) \in Nat \ {0}
    OBVIOUS
  <2>1. i \in 0..CounterBytes-1 /\ Radix^i \in Nat \ {0}
    BY <1>1, <1>3
  <2>2. \A a, b \in Nat \ {0} : a * b \in Nat \ {0}
    BY SMT
  <2> QED
    BY <1>1, <2>1, <2>2, PowersAssumption
<1> HIDE DEF S
<1>4. Nat \subseteq S
  BY <1>2, <1>3, Induction
<1> QED
  BY <1>1, <1>4 DEF S

LEMMA HalfIsPower == Half \in Nat \ {0}
<1>1. CounterBytes \div 2 \in 0..CounterBytes
  BY WidthAssumption, SMT
<1> QED
  BY <1>1, PowersPositive DEF Half

LEMMA RadixFits == Radix <= CounterMod
<1>1. CounterBytes - 1 \in 0..CounterBytes-1 /\ (CounterBytes - 1) + 1 = CounterBytes
      /\ CounterBytes - 1 \in 0..CounterBytes
  BY WidthAssumption
<1>2. CounterMod = Radix * Radix^(CounterBytes - 1) /\ Radix^(CounterBytes - 1) \in Nat \ {0}
  BY <1>1, PowersAssumption, PowersPositive, WidthAssumption
<1>3. \A a, b \in Nat \ {0} : a <= a * b
  BY SMT
<1> QED
  BY <1>2, <1>3, WidthAssumption

(* A number below the modulus is determined by its bytes.                  *)
LEMMA BytesDetermine ==
    ASSUME NEW u \in 0..CounterMod-1, NEW v \in 0..CounterMod-1,
           \A k \in 1..CounterBytes : ByteOf(u, k - 1) = ByteOf(v, k - 1)
    PROVE  u = v
<1>0. CounterBytes \in Nat /\ Radix \in Nat \ {0} /\ CounterMod \in Nat \ {0}
  BY WidthAssumption
<1>1. u \in Nat /\ v \in Nat
  BY <1>0
<1> DEFINE S == {i \in Nat : i <= CounterBytes => u % Radix^i = v % Radix^i}
<1>2. 0 \in S
  <2>1. u % 1 = 0 /\ v % 1 = 0
    BY <1>1, SMT
  <2> QED
    BY <2>1, PowersAssumption
<1>3. ASSUME NEW i \in Nat, i \in S PROVE i + 1 \in S
  <2> SUFFICES ASSUME i + 1 <= CounterBytes PROVE u % Radix^(i + 1) = v % Radix^(i + 1)
    OBVIOUS
  <2>1. i \in 0..CounterBytes-1 /\ i \in 0..CounterBytes /\ i + 1 \in 1..CounterBytes /\ (i + 1) - 1 = i
    BY <1>0
  <2>2. Radix^(i + 1) = Radix * Radix^i /\ Radix^i \in Nat \ {0}
    BY <2>1, PowersAssumption, PowersPositive
  <2>3. u % Radix^i = v % Radix^i
    BY <1>3, <2>1
  <2>4. (u \div Radix^i) % Radix = (v \div Radix^i) % Radix
    BY <2>1 DEF ByteOf
  <2>5. PICK p \in Nat \ {0} : p = Radix^i
    BY <2>2
  <2>6. /\ u % (Radix * p) = (p * ((u \div p) % Radix)) + (u % p)
        /\ v % (Radix * p) = (p * ((v \div p) % Radix)) + (v % p)
    BY <1>0, <1>1, OnePlaceMore
  <2> QED
    BY <2>2, <2>3, <2>4, <2>5, <2>6
<1> HIDE DEF S
<1>4. CounterBytes \in S
  BY <1>0, <1>2, <1>3, Induction
<1>5. u % CounterMod = v % CounterMod
  BY <1>0, <1>4, WidthAssumption DEF S
<1>6. u % CounterMod = u /\ v % CounterMod = v
  BY <1>0, SMT
<1> QED
  BY <1>5, <1>6

LEMMA NumberOfBytes ==
    ASSUME NEW v \in 0..CounterMod-1, NEW bytes, DOMAIN bytes = 1..CounterBytes, BytesOf(v, bytes)
    PROVE  Number(bytes) = v
<1> DEFINE n == CHOOSE n \in 0..CounterMod-1 : BytesOf(n, bytes)
<1>1. n \in 0..CounterMod-1 /\ BytesOf(n, bytes)
  OBVIOUS
<1>2. Number(bytes) = n
  BY DEF Number
<1> HIDE DEF n
<1>3. \A k \in 1..CounterBytes : ByteOf(n, k - 1) = ByteOf(v, k - 1)
  BY <1>1 DEF BytesOf
<1> QED
  BY <1>1, <1>2, <1>3, BytesDetermine

(* Both halves of a split time fit.                                        *)
LEMMA PowersAdd ==
    \A i \in 0..CounterBytes, j \in 0..CounterBytes :
        i + j <= CounterBytes => Radix^(i + j) = Radix^i * Radix^j
<1>0. CounterBytes \in Nat /\ Radix \in Nat \ {0}
  BY WidthAssumption
<1> SUFFICES ASSUME NEW j \in 0..CounterBytes
             PROVE  \A i \in 0..CounterBytes :
                        i + j <= CounterBytes => Radix^(i + j) = Radix^i * Radix^j
  OBVIOUS
<1> DEFINE S == {i \in Nat : i + j <= CounterBytes => Radix^(i + j) = Radix^i * Radix^j}
<1>1. 0 \in S
  <2>1. Radix^j \in Nat /\ 0 + j = j
    BY PowersPositive
  <2> QED
    BY <2>1, PowersAssumption
<1>2. ASSUME NEW i \in Nat, i \in S PROVE i + 1 \in S
  <2> SUFFICES ASSUME i + 1 + j <= CounterBytes
               PROVE  Radix^(i + 1 + j) = Radix^(i + 1) * Radix^j
    OBVIOUS
  <2>1. /\ i \in 0..CounterBytes-1 /\ i + j \in 0..CounterBytes-1 /\ i + 1 + j = (i + j) + 1
        /\ i \in 0..CounterBytes
    BY <1>0
  <2>2. Radix^(i + 1 + j) = Radix * Radix^(i + j) /\ Radix^(i + 1) = Radix * Radix^i
    BY <2>1, PowersAssumption
  <2>3. Radix^(i + j) = Radix^i * Radix^j
    BY <1>0, <1>2, <2>1
  <2>4. Radix^i \in Nat /\ Radix^j \in Nat
    BY <2>1, PowersPositive
  <2>5. \A a, b, c \in Nat : a * (b * c) = (a * b) * c
    BY SMT
  <2> QED
    BY <1>0, <2>2, <2>3, <2>4, <2>5
<1> HIDE DEF S
<1>3. \A i \in Nat : i \in S
  BY <1>1, <1>2, Induction
<1> QED
  BY <1>0, <1>3 DEF S

LEMMA HalvesFit == Half * Half <= CounterMod
<1> DEFINE h == CounterBytes \div 2
<1>0. CounterBytes \in Nat /\ Radix \in Nat \ {0}
  BY WidthAssumption
<1>1. h \in 0..CounterBytes /\ (h + h = CounterBytes \/ (h + h) + 1 = CounterBytes)
  BY <1>0, SMT
<1>2. Radix^(h + h) = Half * Half
  <2>1. h + h <= CounterBytes
    BY <1>0, <1>1
  <2> QED
    BY <1>1, <2>1, PowersAdd DEF Half
<1> HIDE DEF h
<1>3. CASE h + h = CounterBytes
  <2>1. Half * Half = CounterMod /\ CounterMod \in Nat
    BY <1>2, <1>3, WidthAssumption
  <2> QED
    BY <2>1
<1>4. CASE (h + h) + 1 = CounterBytes
  <2>1. h + h \in 0..CounterBytes-1 /\ h + h \in 0..CounterBytes
    BY <1>0, <1>1, <1>4
  <2>2. CounterMod = Radix * Radix^(h + h) /\ Radix^(h + h) \in Nat \ {0}
    BY <1>4, <2>1, PowersAssumption, PowersPositive, WidthAssumption
  <2>3. \A a, b \in Nat \ {0} : b <= a * b
    BY SMT
  <2> QED
    BY <1>0, <1>2, <2>2, <2>3
<1> QED
  BY <1>1, <1>3, <1>4

(* What the two latches of the clock hold: neither is cut off, and a split *)
(* time is not all ones.                                                   *)
LEMMA TimesFit ==
    ASSUME NEW ts \in Times
    PROVE  /\ Nanoseconds(ts) \in 0..CounterMod-1
           /\ Split(ts) \in 0..CounterMod-2
           /\ Nanoseconds(ts) = NsecPerSec * (Split(ts) \div Half) + (Split(ts) % Half)
<1>1. ts.sec \in 0..Half-1 /\ ts.nsec \in 0..NsecPerSec-1
  BY TimesAssumption DEF IsTime
<1>2. PICK h \in Nat \ {0} : h = Half /\ h * h <= CounterMod /\ NsecPerSec \in 1..h-1
  BY HalfIsPower, HalvesFit, WidthAssumption
<1>3. PICK s \in 0..h-1, n \in 0..NsecPerSec-1 : s = ts.sec /\ n = ts.nsec
  BY <1>1, <1>2
<1>4. NsecPerSec \in Nat /\ s \in Nat /\ n \in Nat /\ CounterMod \in Nat \ {0}
      /\ n \in 0..h-1 /\ n <= h - 2
  BY <1>2, <1>3, WidthAssumption
<1>5. h * s + n <= h * h - 2 /\ h * s + n \in Nat
  <2>1. PICK k \in Nat : h = s + 1 + k
    <3>1. h - s - 1 \in Nat /\ h = s + 1 + (h - s - 1)
      BY <1>3, <1>4
    <3> QED
      BY <3>1
  <2>2. h * (s + 1 + k) = h * s + h + h * k /\ h * k \in Nat /\ h * s \in Nat
    BY <1>4, SMT
  <2>3. h * h = h * s + h + h * k
    BY <2>1, <2>2
  <2> QED
    BY <1>4, <2>2, <2>3
<1>6. NsecPerSec * s + n <= h * s + n /\ NsecPerSec * s + n \in Nat
  <2>1. PICK k \in Nat : h = NsecPerSec + k
    <3>1. h - NsecPerSec \in Nat /\ h = NsecPerSec + (h - NsecPerSec)
      BY <1>2, <1>4
    <3> QED
      BY <3>1
  <2>2. (NsecPerSec + k) * s = NsecPerSec * s + k * s /\ k * s \in Nat /\ NsecPerSec * s \in Nat
    BY <1>4, SMT
  <2>3. h * s = NsecPerSec * s + k * s
    BY <2>1, <2>2
  <2> QED
    BY <1>4, <2>2, <2>3
<1>7. h * h \in Nat
  BY <1>2, SMT
<1>8. h * s + n \in 0..CounterMod-2 /\ NsecPerSec * s + n \in 0..CounterMod-1
  <2>1. \A a, b, c, d \in Int : a <= c - 2 /\ c <= d /\ b <= a /\ 0 <= a /\ 0 <= b =>
            a \in 0..d-2 /\ b \in 0..d-1
    OBVIOUS
  <2> QED
    BY <1>2, <1>4, <1>5, <1>6, <1>7, <2>1
<1>9. \A a \in 0..CounterMod-1 : a % CounterMod = a
  BY <1>4, SMT
<1>10. Nanoseconds(ts) = NsecPerSec * s + n /\ Split(ts) = h * s + n
  <2>1. h * s + n \in 0..CounterMod-1
    BY <1>4, <1>8
  <2> QED
    BY <1>2, <1>3, <1>8, <1>9, <2>1 DEF Nanoseconds, Split
<1>11. (h * s + n) \div h = s /\ (h * s + n) % h = n
  BY <1>4, DivisionIsUnique
<1> QED
  BY <1>2, <1>8, <1>10, <1>11

-----------------------------------------------------------------------------
(* The latches hold the counters and the time of one instant; the          *)
(* selection register, or the handler that borrowed it, holds what the     *)
(* program selected; and what the program has are bytes of the latches, in *)
(* order.                                                                  *)
ReadBytes == {ByteOf(Latched[l], k) : l \in Latches, k \in 0..CounterBytes-1}

ProgramType ==
    /\ main \in [pc : {"latch", "select", "read"}, latch : {0} \cup Latches, got : Seq(ReadBytes)]
    /\ handler \in [pc : {"away", "save", "select", "restore"},
                    saved : {0} \cup Latches, latch : {0} \cup Latches]
    /\ LatchedValueSelected \in {0} \cup Latches
    /\ main.pc = "read" => Len(main.got) < CounterBytes /\ main.latch \in Latches

LatchesHold == \A l \in CounterLatches : Latched[l] = CounterAt(instant.counter, l)

ClockHeld ==
    /\ instant.time \in Times \cup {NoTime}
    /\ Latched[WALLCLOCK_TIME] =
          IF instant.time = NoTime THEN CounterMod - 1 ELSE Nanoseconds(instant.time)
    /\ Latched[WALLCLOCK_TIME_SPLIT] =
          IF instant.time = NoTime THEN CounterMod - 1 ELSE Split(instant.time)

(* Before the first latch there is nothing to hold.                        *)
ClockIsHeld == main.pc # "latch" \/ DOMAIN values # {} => ClockHeld

SelectionHeld ==
    main.pc = "read" =>
        /\ handler.pc \in {"away", "save"} => LatchedValueSelected = main.latch
        /\ handler.pc \in {"select", "restore"} => handler.saved = main.latch

BytesHeld ==
    /\ \A l \in DOMAIN values :
          DOMAIN values[l] = 1..CounterBytes /\ BytesOf(Latched[l], values[l])
    /\ main.pc = "read" => BytesOf(Latched[main.latch], main.got)

ProgramInv == ProgramType /\ LatchesHold /\ ClockIsHeld /\ SelectionHeld /\ BytesHeld

(* A write to the latch register holds every counter and the time.         *)
LEMMA SampleHolds ==
    ASSUME NEW ts
    PROVE  /\ Sample(ts)[CLOCKCYCLE_COUNTER] = Counter.ClockCycles
           /\ Sample(ts)[INSTRUCTION_COUNTER] = Counter.CpuInstructions
           /\ Sample(ts)[IRQ_COUNTER] = Counter.IrqEvents
           /\ Sample(ts)[NMI_COUNTER] = Counter.NmiEvents
           /\ Sample(ts)[WALLCLOCK_TIME] = IF ts = NoTime THEN CounterMod - 1 ELSE Nanoseconds(ts)
           /\ Sample(ts)[WALLCLOCK_TIME_SPLIT] = IF ts = NoTime THEN CounterMod - 1 ELSE Split(ts)
  BY SMT DEF Sample, Latches, CLOCKCYCLE_COUNTER, INSTRUCTION_COUNTER, IRQ_COUNTER, NMI_COUNTER,
             WALLCLOCK_TIME, WALLCLOCK_TIME_SPLIT

(* The k-th byte of the aperture is the k-th byte of the selected latch.   *)
LEMMA ApertureShowsSelection ==
    ASSUME LatchedValueSelected \in Latches, NEW k \in 0..CounterBytes-1
    PROVE  PeripheralsReadByte(VALUE + k) = ByteOf(Latched[LatchedValueSelected], k)
<1>1. CounterBytes \in Nat
  BY WidthAssumption
<1>2. 2 + k # 1 /\ 2 + k \in 2 .. 2 + CounterBytes - 1 /\ 2 + k - 2 = k
  BY <1>1, SMT
<1> QED
  BY <1>1, <1>2, SMT DEF PeripheralsReadByte, Selected, VALUE, SELECT

LEMMA InitHolds == Init => ProgramInv
<1> SUFFICES ASSUME Init
             PROVE  ProgramInv
  OBVIOUS
<1>1. ProgramType
  BY DEF Init, Idle, Away, PeripheralsInit, ProgramType
<1>2. LatchesHold
  BY SMT DEF Init, PeripheralsInit, CountersInit, LatchesHold, CounterAt, CounterLatches, Latches,
         CounterFields, Events, CLOCKCYCLE_COUNTER, INSTRUCTION_COUNTER, IRQ_COUNTER, NMI_COUNTER,
             WALLCLOCK_TIME, WALLCLOCK_TIME_SPLIT
<1>3. SelectionHeld
  BY DEF Init, Idle, SelectionHeld
<1>4. BytesHeld /\ ClockIsHeld
  BY DEF Init, Idle, BytesHeld, ClockIsHeld
<1> QED
  BY <1>1, <1>2, <1>3, <1>4 DEF ProgramInv

(* What the program sees is unchanged by steps that leave the latches and   *)
(* its own state alone.                                                     *)
LEMMA Undisturbed ==
    ASSUME ProgramInv, UNCHANGED <<Latched, main, values, instant>>
    PROVE  LatchesHold' /\ ClockIsHeld' /\ BytesHeld' /\ ReadBytes' = ReadBytes
  BY DEF ProgramInv, LatchesHold, ClockIsHeld, ClockHeld, BytesHeld, ReadBytes

LEMMA MainLatchStep == ProgramInv /\ MainLatch => ProgramInv'
<1> SUFFICES ASSUME ProgramInv, MainLatch
             PROVE  ProgramInv'
  OBVIOUS
<1>1. PICK ts \in Times \cup {NoTime} :
          /\ PeripheralsWriteByte(LATCH, 0, ts)
          /\ instant' = [counter |-> Counter, time |-> ts]
  BY DEF MainLatch
<1>2. Latched' = Sample(ts) /\ UNCHANGED <<Counter, LatchedValueSelected>>
  BY <1>1, SMT DEF PeripheralsWriteByte, LATCH, SELECT
<1>3. main' = [pc |-> "select", latch |-> 0, got |-> <<>>] /\ values' = <<>> /\ handler' = handler
  BY DEF MainLatch, Idle
<1>4. ProgramType'
  BY <1>2, <1>3 DEF ProgramInv, ProgramType
<1>5. LatchesHold'
  BY <1>1, <1>2, SampleHolds DEF LatchesHold, CounterAt, CounterLatches,
     CLOCKCYCLE_COUNTER, INSTRUCTION_COUNTER, IRQ_COUNTER, NMI_COUNTER
<1>6. SelectionHeld' /\ BytesHeld'
  BY <1>3 DEF SelectionHeld, BytesHeld
<1>7. ClockIsHeld'
  BY <1>1, <1>2, SampleHolds DEF ClockIsHeld, ClockHeld
<1> QED
  BY <1>4, <1>5, <1>6, <1>7 DEF ProgramInv

LEMMA MainSelectStep == ProgramInv /\ handler.pc = "away" /\ MainSelect => ProgramInv'
<1> SUFFICES ASSUME ProgramInv, handler.pc = "away", MainSelect
             PROVE  ProgramInv'
  OBVIOUS
<1>1. PICK l \in Latches \ DOMAIN values :
          /\ PeripheralsWriteByte(SELECT, l, NoTime)
          /\ main' = [pc |-> "read", latch |-> l, got |-> <<>>]
  BY DEF MainSelect
<1>2. LatchedValueSelected' = l /\ UNCHANGED <<Counter, Latched>>
  BY <1>1, SMT DEF PeripheralsWriteByte, LATCH, SELECT
<1>3. UNCHANGED <<values, handler, instant>>
  BY DEF MainSelect
<1>4. ReadBytes' = ReadBytes
  BY <1>2 DEF ReadBytes
<1>5. Len(<<>>) < CounterBytes
  BY WidthAssumption, SMT
<1>6. ProgramType'
  BY <1>1, <1>2, <1>3, <1>4, <1>5 DEF ProgramInv, ProgramType
<1>7. LatchesHold' /\ SelectionHeld'
  BY <1>1, <1>2, <1>3 DEF ProgramInv, LatchesHold, SelectionHeld
<1>8. BytesHeld'
  BY <1>1, <1>2, <1>3 DEF ProgramInv, BytesHeld, BytesOf
<1>9. ClockIsHeld'
  BY <1>2, <1>3 DEF MainSelect, ProgramInv, ClockIsHeld, ClockHeld
<1> QED
  BY <1>6, <1>7, <1>8, <1>9 DEF ProgramInv

(* The step that matters: the byte that is read continues the sequence.    *)
LEMMA MainReadStep == ProgramInv /\ handler.pc = "away" /\ MainRead => ProgramInv'
<1> SUFFICES ASSUME ProgramInv, handler.pc = "away", MainRead
             PROVE  ProgramInv'
  OBVIOUS
<1> DEFINE n    == Len(main.got)
           byte == PeripheralsReadByte(VALUE + n)
           got  == Append(main.got, byte)
<1>1. n \in 0..CounterBytes-1 /\ main.got \in Seq(ReadBytes) /\ main.latch \in Latches
  BY WidthAssumption, SMT DEF MainRead, ProgramInv, ProgramType
<1>2. LatchedValueSelected = main.latch
  BY DEF MainRead, ProgramInv, SelectionHeld
<1>3. byte = ByteOf(Latched[main.latch], n)
  BY <1>1, <1>2, ApertureShowsSelection
<1>4. byte \in ReadBytes
  BY <1>1, <1>3 DEF ReadBytes
<1>5. UNCHANGED <<Counter, Latched, LatchedValueSelected, handler, instant>>
  BY DEF MainRead, peripherals
<1>6. ReadBytes' = ReadBytes
  BY <1>5 DEF ReadBytes
<1>7. /\ main' = [main EXCEPT !.got = got, !.pc = IF Len(got) = CounterBytes THEN "select" ELSE "read"]
      /\ values' = IF Len(got) = CounterBytes
                   THEN [l \in DOMAIN values \cup {main.latch} |->
                            IF l = main.latch THEN got ELSE values[l]]
                   ELSE values
  BY DEF MainRead
<1> HIDE DEF byte
<1>8. got \in Seq(ReadBytes) /\ Len(got) = n + 1
      /\ \A k \in DOMAIN got : got[k] = (IF k = n + 1 THEN byte ELSE main.got[k])
      /\ \A m \in DOMAIN got : m # n + 1 => m \in DOMAIN main.got
  BY <1>1, <1>4, SMT
<1>9. BytesOf(Latched[main.latch], got)
  <2> SUFFICES ASSUME NEW k \in DOMAIN got
               PROVE  got[k] = ByteOf(Latched[main.latch], k - 1)
    BY DEF BytesOf
  <2>1. CASE k = n + 1
    <3>1. k - 1 = n
      BY <1>1, <2>1, SMT
    <3> QED
      BY <1>3, <1>8, <2>1, <3>1
  <2>2. CASE k # n + 1
    BY <1>8, <2>2 DEF MainRead, ProgramInv, BytesHeld, BytesOf
  <2> QED
    BY <2>1, <2>2
<1> HIDE DEF n, got
<1>10. main'.got = got /\ main'.latch = main.latch /\ main'.pc \in {"select", "read"}
       /\ (main'.pc = "read" => Len(got) # CounterBytes)
  BY <1>7 DEF ProgramInv, ProgramType
<1>11. ProgramType'
  <2>1. main' \in [pc : {"latch", "select", "read"}, latch : {0} \cup Latches, got : Seq(ReadBytes)]
    BY <1>7, <1>8 DEF ProgramInv, ProgramType
  <2>2. Len(got) # CounterBytes => Len(got) < CounterBytes
    BY <1>1, <1>8, WidthAssumption, SMT
  <2> QED
    BY <1>1, <1>5, <1>6, <1>10, <2>1, <2>2 DEF ProgramInv, ProgramType
<1>12. LatchesHold' /\ SelectionHeld'
  BY <1>2, <1>5, <1>10 DEF MainRead, ProgramInv, LatchesHold, SelectionHeld
<1>13. BytesHeld'
  <2>1. Len(got) = CounterBytes => DOMAIN got = 1..CounterBytes
    BY <1>8
  <2>2. ASSUME NEW l \in DOMAIN values'
        PROVE  DOMAIN values'[l] = 1..CounterBytes /\ BytesOf(Latched[l], values'[l])
    <3>1. (Len(got) = CounterBytes /\ l = main.latch /\ values'[l] = got)
          \/ (l \in DOMAIN values /\ values'[l] = values[l])
      BY <1>7
    <3>2. l \in DOMAIN values => DOMAIN values[l] = 1..CounterBytes /\ BytesOf(Latched[l], values[l])
      BY DEF ProgramInv, BytesHeld
    <3> QED
      BY <1>9, <2>1, <3>1, <3>2
  <2> QED
    BY <1>5, <1>9, <1>10, <2>2 DEF BytesHeld
<1>14. ClockIsHeld'
  BY <1>5, <1>10 DEF MainRead, ProgramInv, ClockIsHeld, ClockHeld
<1> QED
  BY <1>11, <1>12, <1>13, <1>14 DEF ProgramInv

(* No step breaks the invariant.                                           *)
LEMMA StepHolds == ProgramInv /\ [Next]_vars => ProgramInv'
<1> SUFFICES ASSUME ProgramInv, [Next]_vars
             PROVE  ProgramInv'
  OBVIOUS
<1>1. CASE MainStep
  <2>1. CASE MainAgain
    <3>1. UNCHANGED <<Latched, LatchedValueSelected, values, handler, instant>> /\ main' = Idle
      BY <2>1 DEF MainAgain, peripherals
    <3> QED
      BY <2>1, <3>1 DEF MainAgain, ProgramInv, ProgramType, LatchesHold, ClockIsHeld, ClockHeld,
                        SelectionHeld, BytesHeld, Idle
  <2> QED
    BY <1>1, <2>1, MainLatchStep, MainSelectStep, MainReadStep DEF MainStep
<1>2. CASE HandlerSave
  <2>1. UNCHANGED <<Latched, LatchedValueSelected, main, values, instant>>
    BY <1>2 DEF HandlerSave, peripherals
  <2>2. PeripheralsReadByte(SELECT) = LatchedValueSelected
    <3>1. CounterBytes \in Nat
      BY WidthAssumption
    <3> QED
      BY <3>1, SMT DEF PeripheralsReadByte, SELECT, VALUE
  <2>3. handler' = [handler EXCEPT !.pc = "select", !.saved = LatchedValueSelected]
    BY <1>2, <2>2 DEF HandlerSave
  <2> QED
    BY <1>2, <2>1, <2>3, Undisturbed DEF HandlerSave, ProgramInv, ProgramType, SelectionHeld
<1>3. CASE HandlerSelect
  <2>1. PICK l \in Latches : /\ PeripheralsWriteByte(SELECT, l, NoTime)
                             /\ handler' = [handler EXCEPT !.pc = "restore", !.latch = l]
    BY <1>3 DEF HandlerSelect
  <2>2. LatchedValueSelected' = l /\ Latched' = Latched
    BY <2>1, SMT DEF PeripheralsWriteByte, LATCH, SELECT
  <2>3. UNCHANGED <<main, values, instant>>
    BY <1>3 DEF HandlerSelect
  <2> QED
    BY <1>3, <2>1, <2>2, <2>3, Undisturbed DEF HandlerSelect, ProgramInv, ProgramType, SelectionHeld
<1>4. CASE HandlerRestore
  <2>1. LatchedValueSelected' = handler.saved /\ Latched' = Latched
    BY <1>4, SMT DEF HandlerRestore, PeripheralsWriteByte, LATCH, SELECT
  <2>2. handler' = Away /\ UNCHANGED <<main, values, instant>>
    BY <1>4 DEF HandlerRestore
  <2> QED
    BY <1>4, <2>1, <2>2, Undisturbed
       DEF HandlerRestore, ProgramInv, ProgramType, SelectionHeld, Away
<1>5. CASE Instruction
  <2>1. UNCHANGED <<Latched, LatchedValueSelected, main, values, handler, instant>>
    BY <1>5 DEF Instruction
  <2> QED
    BY <2>1, Undisturbed DEF ProgramInv, ProgramType, SelectionHeld
<1>6. CASE Interrupt
  <2>1. UNCHANGED <<Latched, LatchedValueSelected, main, values, instant>>
    BY <1>6 DEF Interrupt
  <2>2. handler.pc = "away" /\ handler' = [pc |-> "save", saved |-> 0, latch |-> 0]
    BY <1>6 DEF Interrupt, Away
  <2> QED
    BY <2>1, <2>2, Undisturbed DEF ProgramInv, ProgramType, SelectionHeld
<1>7. CASE UNCHANGED vars
  <2>1. UNCHANGED <<Latched, LatchedValueSelected, main, values, handler, instant>>
    BY <1>7 DEF vars, peripherals
  <2> QED
    BY <2>1, Undisturbed DEF ProgramInv, ProgramType, SelectionHeld
<1> QED
  BY <1>1, <1>2, <1>3, <1>4, <1>5, <1>6, <1>7 DEF Next

LEMMA ProgramInvariance == Spec => []ProgramInv
<1> QED
  BY InitHolds, StepHolds, PTL DEF Spec

(* A program that latches once and then reads any registers a byte at a    *)
(* time never sees a byte from another instant, whatever the processor     *)
(* executes in between and whoever else looks at the latches               *)
(* (PeripheralsWriteByte, PeripheralsReadByte).                            *)
THEOREM ReadsAreAtomic == Spec => []NoTearing
<1>1. ProgramInv => NoTearing
  BY DEF ProgramInv, LatchesHold, BytesHeld, NoTearing
<1> QED
  BY <1>1, ProgramInvariance, PTL

(* An interrupt handler can give the selection register back.              *)
THEOREM SelectionIsRestored == Spec => []SelectionKept
<1>1. ProgramInv => SelectionKept
  BY DEF ProgramInv, ProgramType, SelectionHeld, SelectionKept
<1> QED
  BY <1>1, ProgramInvariance, PTL

(* The two views of the host's clock that a program reads after one latch   *)
(* are of one time, whichever of the two it reads first and however long it *)
(* takes, and all ones appear only when the clock could not be read         *)
(* (PeripheralsWriteByte).                                                  *)
THEOREM ClocksAreOneTime == Spec => []WallClocksAgree
<1>1. ProgramInv => WallClocksAgree
  <2> SUFFICES ASSUME ProgramInv, {WALLCLOCK_TIME, WALLCLOCK_TIME_SPLIT} \subseteq DOMAIN values
               PROVE  LET time  == Number(values[WALLCLOCK_TIME])
                          split == Number(values[WALLCLOCK_TIME_SPLIT])
                      IN  IF split = CounterMod - 1
                          THEN time = CounterMod - 1 /\ instant.time = NoTime
                          ELSE time = NsecPerSec * (split \div Half) + (split % Half)
    BY DEF WallClocksAgree
  <2> DEFINE nano  == Latched[WALLCLOCK_TIME]
             split == Latched[WALLCLOCK_TIME_SPLIT]
  <2>0. CounterMod \in Nat \ {0}
    BY WidthAssumption
  <2>1. /\ instant.time \in Times \cup {NoTime}
        /\ nano = IF instant.time = NoTime THEN CounterMod - 1 ELSE Nanoseconds(instant.time)
        /\ split = IF instant.time = NoTime THEN CounterMod - 1 ELSE Split(instant.time)
    BY DEF ProgramInv, ClockIsHeld, ClockHeld
  <2>2. instant.time # NoTime =>
            /\ Nanoseconds(instant.time) \in 0..CounterMod-1
            /\ Split(instant.time) \in 0..CounterMod-2
            /\ Nanoseconds(instant.time) =
                  NsecPerSec * (Split(instant.time) \div Half) + (Split(instant.time) % Half)
    BY <2>1, TimesFit
  <2>3. nano \in 0..CounterMod-1 /\ split \in 0..CounterMod-1
        /\ (instant.time # NoTime => split # CounterMod - 1)
    BY <2>0, <2>1, <2>2
  <2>4. /\ DOMAIN values[WALLCLOCK_TIME] = 1..CounterBytes /\ BytesOf(nano, values[WALLCLOCK_TIME])
        /\ DOMAIN values[WALLCLOCK_TIME_SPLIT] = 1..CounterBytes
        /\ BytesOf(split, values[WALLCLOCK_TIME_SPLIT])
    BY DEF ProgramInv, BytesHeld
  <2> HIDE DEF nano, split
  <2>5. Number(values[WALLCLOCK_TIME]) = nano /\ Number(values[WALLCLOCK_TIME_SPLIT]) = split
    BY <2>3, <2>4, NumberOfBytes
  <2> QED
    BY <2>1, <2>2, <2>3, <2>5
<1> QED
  BY <1>1, ProgramInvariance, PTL

-----------------------------------------------------------------------------
(* Handlers that latch.  The k-th byte the program reads, of the           *)
(* ByteCount it reads, is the PlaceOf(k)-th of register RegisterOf(k).     *)
ByteCount == 4 + CounterBytes

RegisterOf(k) ==
    IF k \in {1, 3 + CounterBytes} THEN IRQ_COUNTER
    ELSE IF k \in {2, 4 + CounterBytes} THEN NMI_COUNTER
    ELSE reader.want

PlaceOf(k) == IF k \in 3..2+CounterBytes THEN k - 3 ELSE 0

SelectAccesses == {1, 3, 5, 6 + CounterBytes, 8 + CounterBytes}
ReadAccesses   == 1..9+CounterBytes \ SelectAccesses

(* The bytes the program has when its access number `at' is next.          *)
BytesBefore(at) ==
    IF at <= 2 THEN 0
    ELSE IF at <= 4 THEN 1
    ELSE IF at <= 6 THEN 2
    ELSE IF at <= 6 + CounterBytes THEN at - 4
    ELSE IF at = 7 + CounterBytes THEN 2 + CounterBytes
    ELSE IF at <= 9 + CounterBytes THEN 3 + CounterBytes
    ELSE 4 + CounterBytes

Images      == [Latches -> Nat]
ImageBytes  == {ByteOf(samples[n][l], k) : n \in DOMAIN samples, l \in Latches, k \in 0..CounterBytes-1}
HandlerType == [pc : {"save", "latch", "select", "restore"}, saved : Latches]

SharedType ==
    /\ Counter \in [CounterFields -> Nat]
    /\ EventsSoFar <= MaxEvents
    /\ LatchedValueSelected \in Latches
    /\ samples \in Seq(Images)
    /\ handlers \in Seq(HandlerType)
    /\ reader \in [at : 0..10+CounterBytes, want : Latches, got : Seq(ImageBytes)]
    /\ samples = <<>> <=> reader.at = 0
    /\ Len(reader.got) = BytesBefore(reader.at)

(* The latches are the last of the samples; interrupts are only added.     *)
SamplesInOrder ==
    /\ samples # <<>> => Latched = samples[Len(samples)]
    /\ \A n \in DOMAIN samples :
          /\ samples[n][IRQ_COUNTER] <= Counter.IrqEvents
          /\ samples[n][NMI_COUNTER] <= Counter.NmiEvents
    /\ \A m, n \in DOMAIN samples :
          m <= n => /\ samples[m][IRQ_COUNTER] <= samples[n][IRQ_COUNTER]
                    /\ samples[m][NMI_COUNTER] <= samples[n][NMI_COUNTER]

(* What the selection register will show when all handlers have returned:  *)
(* what the outermost of those that have looked at it has saved.           *)
WillShow(l) ==
    /\ (\A j \in DOMAIN handlers : handlers[j].pc = "save") => LatchedValueSelected = l
    /\ \A j \in DOMAIN handlers :
          /\ handlers[j].pc # "save"
          /\ \A k \in DOMAIN handlers : k > j => handlers[k].pc = "save"
          => handlers[j].saved = l

SelectionComesBack ==
    reader.at \in ReadAccesses => WillShow(RegisterOf(Len(reader.got) + 1))

(* Since sample n was looked at, every handler was counted before it       *)
(* latched.                                                                *)
Taken(image) == image[IRQ_COUNTER] + image[NMI_COUNTER]

CountedSince(n) ==
    /\ handlers # <<>> => Taken(samples[n]) < Counter.IrqEvents + Counter.NmiEvents
    /\ \A m \in DOMAIN samples : m > n => Taken(samples[n]) < Taken(samples[m])

LooksAt(look) ==
    /\ \A k \in DOMAIN reader.got :
          look[k] # 0 /\ reader.got[k] = ByteOf(samples[look[k]][RegisterOf(k)], PlaceOf(k))
    /\ \A j, k \in DOMAIN reader.got : j < k => look[j] <= look[k]
    /\ 2 \in DOMAIN reader.got => CountedSince(look[2])

BytesAreLooks == \E look \in [1..ByteCount -> DOMAIN samples \cup {0}] : LooksAt(look)

SharedInv == SharedType /\ SamplesInOrder /\ SelectionComesBack /\ BytesAreLooks

(* Which access is next.                                                   *)
LEMMA NextAccess ==
    ASSUME NEW at \in 1..9+CounterBytes
    PROVE  /\ DOMAIN Accesses = 1..9+CounterBytes
           /\ Len(Accesses) = 9 + CounterBytes
           /\ at \in SelectAccesses =>
                 Accesses[at] = SelectReg(RegisterOf(BytesBefore(at) + 1))
           /\ at \notin SelectAccesses =>
                 Accesses[at] = ReadByte(PlaceOf(BytesBefore(at) + 1))
<1> DEFINE want == <<SelectReg(reader.want)>>
           bytes == [k \in 1..CounterBytes |-> ReadByte(k - 1)]
           A == {SelectReg(l) : l \in Latches \cup {reader.want}} \cup {ReadByte(k) : k \in 0..CounterBytes}
<1>1. CounterBytes \in Nat \ {0}
  BY WidthAssumption
<1>2. /\ Check \in Seq(A) /\ Len(Check) = 4
      /\ Check[1] = SelectReg(IRQ_COUNTER) /\ Check[2] = ReadByte(0)
      /\ Check[3] = SelectReg(NMI_COUNTER) /\ Check[4] = ReadByte(0)
  BY <1>1, SMT DEF Check, Latches
<1>3. want \in Seq(A) /\ Len(want) = 1 /\ want[1] = SelectReg(reader.want)
  BY SMT
<1>4. bytes \in Seq(A) /\ Len(bytes) = CounterBytes /\ \A k \in 1..CounterBytes : bytes[k] = ReadByte(k - 1)
  BY <1>1, SMT
<1>5. Accesses = ((Check \o want) \o bytes) \o Check
  BY DEF Accesses
<1> HIDE DEF want, bytes, A
<1>6. /\ Accesses \in Seq(A) /\ Len(Accesses) = 9 + CounterBytes
      /\ Accesses[1] = SelectReg(IRQ_COUNTER) /\ Accesses[2] = ReadByte(0)
      /\ Accesses[3] = SelectReg(NMI_COUNTER) /\ Accesses[4] = ReadByte(0)
      /\ Accesses[5] = SelectReg(reader.want)
      /\ \A j \in 6..5+CounterBytes : Accesses[j] = ReadByte(j - 6)
      /\ Accesses[6 + CounterBytes] = SelectReg(IRQ_COUNTER)
      /\ Accesses[7 + CounterBytes] = ReadByte(0)
      /\ Accesses[8 + CounterBytes] = SelectReg(NMI_COUNTER)
      /\ Accesses[9 + CounterBytes] = ReadByte(0)
  <2> DEFINE p == Check \o want
             q == p \o bytes
  <2>1. /\ p \in Seq(A) /\ Len(p) = 5
        /\ (\A j \in 1..4 : p[j] = Check[j])
        /\ (\A j \in 1..1 : p[4 + j] = want[j])
    <3>1. Check \in Seq(A) /\ want \in Seq(A) /\ p = Check \o want
      BY <1>2, <1>3
    <3>2. /\ p \in Seq(A) /\ Len(p) = Len(Check) + Len(want)
          /\ \A j \in 1..Len(Check) : p[j] = Check[j]
          /\ \A j \in 1..Len(want) : p[Len(Check) + j] = want[j]
      BY <3>1, Joined
    <3> QED
      BY <1>2, <1>3, <3>2, SMT
  <2> HIDE DEF p
  <2>2. /\ q \in Seq(A) /\ Len(q) = 5 + CounterBytes
        /\ (\A j \in 1..5 : q[j] = p[j])
        /\ \A j \in 1..CounterBytes : q[5 + j] = bytes[j]
    <3>1. p \in Seq(A) /\ bytes \in Seq(A) /\ q = p \o bytes
      BY <1>4, <2>1
    <3>2. /\ q \in Seq(A) /\ Len(q) = Len(p) + Len(bytes)
          /\ \A j \in 1..Len(p) : q[j] = p[j]
          /\ \A j \in 1..Len(bytes) : q[Len(p) + j] = bytes[j]
      BY <3>1, Joined
    <3> QED
      BY <1>4, <2>1, <3>2
  <2>3. Accesses = q \o Check
    BY <1>5 DEF p
  <2> HIDE DEF q
  <2>4. /\ Accesses \in Seq(A) /\ Len(Accesses) = 5 + CounterBytes + 4
        /\ (\A j \in 1..5+CounterBytes : Accesses[j] = q[j])
        /\ \A j \in 1..4 : Accesses[5 + CounterBytes + j] = Check[j]
    <3>1. q \in Seq(A) /\ Check \in Seq(A) /\ Accesses = q \o Check
      BY <1>2, <2>2, <2>3
    <3>2. /\ Accesses \in Seq(A) /\ Len(Accesses) = Len(q) + Len(Check)
          /\ \A j \in 1..Len(q) : Accesses[j] = q[j]
          /\ \A j \in 1..Len(Check) : Accesses[Len(q) + j] = Check[j]
      BY <3>1, Joined
    <3> QED
      BY <1>2, <2>2, <3>2
  <2>5. \A j \in 1..5 : j \in 1..5+CounterBytes
    BY <1>1, SMT
  <2>6. \A j \in 6..5+CounterBytes :
            j - 5 \in 1..CounterBytes /\ 5 + (j - 5) = j /\ (j - 5) - 1 = j - 6 /\ j \in 1..5+CounterBytes
    BY <1>1, SMT
  <2>7. \A j \in 6..5+CounterBytes : Accesses[j] = ReadByte(j - 6)
    BY <1>4, <2>2, <2>4, <2>6
  <2>8. 5 + CounterBytes + 1 = 6 + CounterBytes /\ 5 + CounterBytes + 2 = 7 + CounterBytes
        /\ 5 + CounterBytes + 3 = 8 + CounterBytes /\ 5 + CounterBytes + 4 = 9 + CounterBytes
    BY <1>1, SMT
  <2>9. \A j \in 1..5 : Accesses[j] = p[j]
    BY <2>2, <2>4, <2>5
  <2>10. p[5] = want[1]
    BY <2>1, SMT
  <2>11. 1 \in 1..4 /\ 2 \in 1..4 /\ 3 \in 1..4 /\ 4 \in 1..4 /\ 1 \in 1..5 /\ 2 \in 1..5
         /\ 3 \in 1..5 /\ 4 \in 1..5 /\ 5 \in 1..5
    OBVIOUS
  <2> QED
    BY <1>2, <1>3, <2>1, <2>4, <2>7, <2>8, <2>9, <2>10, <2>11
<1>7. DOMAIN Accesses = 1..9+CounterBytes
  BY <1>6, SMT
<1>8. CASE at \in 1..5
  BY <1>1, <1>6, <1>7, <1>8, SMT DEF SelectAccesses, BytesBefore, RegisterOf, PlaceOf
<1>9. CASE at \in 6..5+CounterBytes
  <2>1. at \notin SelectAccesses /\ PlaceOf(BytesBefore(at) + 1) = at - 6
    BY <1>1, <1>9, SMT DEF SelectAccesses, BytesBefore, PlaceOf
  <2> QED
    BY <1>6, <1>7, <1>9, <2>1
<1>10. CASE at \in 6+CounterBytes..9+CounterBytes
  BY <1>1, <1>6, <1>7, <1>10, SMT DEF SelectAccesses, BytesBefore, RegisterOf, PlaceOf
<1> QED
  BY <1>1, <1>8, <1>9, <1>10, SMT

(* Counts below Radix are their low byte, and never come round.            *)
LEMMA LowByte == \A v \in 0..MaxEvents : ByteOf(v, 0) = v
<1>1. Radix \in Nat \ {0, 1} /\ MaxEvents \in 0..Radix-1 /\ Radix^0 = 1
  BY WidthAssumption, SharingAssumption, PowersAssumption
<1>2. ASSUME NEW v \in 0..MaxEvents PROVE ByteOf(v, 0) = v
  <2>1. v \in 0..Radix-1 /\ v \div 1 = v
    BY <1>1, SMT
  <2>2. v % Radix = v
    BY <1>1, <2>1, SMT
  <2> QED
    BY <1>1, <2>1, <2>2 DEF ByteOf
<1> QED
  BY <1>2

LEMMA EventCounted ==
    ASSUME SharedType, EventsSoFar < MaxEvents, NEW event \in Events, NEW cycles \in Nat,
           Advance(event, cycles)
    PROVE  /\ Counter' \in [CounterFields -> Nat]
           /\ Counter'[event] = Counter[event] + 1
           /\ \A e \in Events \ {event} : Counter'[e] = Counter[e]
           /\ EventsSoFar' <= MaxEvents
<1>1. CounterMod \in Nat \ {0} /\ MaxEvents < CounterMod /\ MaxEvents \in Nat
  BY RadixFits, WidthAssumption, SharingAssumption, SMT
<1>2. Counter \in [CounterFields -> Nat] /\ event \in CounterFields /\ event # "ClockCycles"
      /\ "ClockCycles" \in CounterFields \ Events /\ Events \subseteq CounterFields
  BY DEF SharedType, CounterFields, Events
<1>3. /\ Counter' = [Counter EXCEPT ![event] = (Counter[event] + 1) % CounterMod,
                                    !["ClockCycles"] = (Counter["ClockCycles"] + cycles) % CounterMod]
  BY DEF Advance
<1>4. /\ Counter["CpuInstructions"] \in Nat /\ Counter["IrqEvents"] \in Nat /\ Counter["NmiEvents"] \in Nat
      /\ Counter["ClockCycles"] \in Nat
  BY <1>2 DEF CounterFields, Events
<1>5. Counter[event] + 1 <= MaxEvents
  BY <1>1, <1>4, SMT DEF EventsSoFar, Events
<1>6. (Counter[event] + 1) % CounterMod = Counter[event] + 1
  BY <1>1, <1>2, <1>5, SMT
<1>7. (Counter["ClockCycles"] + cycles) % CounterMod \in Nat
  BY <1>1, <1>4, SMT
<1>8. Counter' \in [CounterFields -> Nat]
  BY <1>2, <1>3, <1>6, <1>7
<1>9. Counter'[event] = Counter[event] + 1 /\ \A e \in Events \ {event} : Counter'[e] = Counter[e]
  BY <1>2, <1>3, <1>6
<1>10. EventsSoFar' = EventsSoFar + 1
  BY <1>4, <1>9, SMT DEF EventsSoFar, Events
<1> QED
  BY <1>1, <1>4, <1>8, <1>9, <1>10, SMT DEF EventsSoFar

(* A write to the latch register, and to the selection register.           *)
LEMMA LatchWritten ==
    ASSUME Counter \in [CounterFields -> Nat], NEW ts \in Times \cup {NoTime},
           PeripheralsWriteByte(LATCH, 0, ts)
    PROVE  /\ UNCHANGED <<Counter, LatchedValueSelected>>
           /\ Latched' \in Images
           /\ Latched'[IRQ_COUNTER] = Counter.IrqEvents
           /\ Latched'[NMI_COUNTER] = Counter.NmiEvents
<1>1. Latched' = Sample(ts) /\ UNCHANGED <<Counter, LatchedValueSelected>>
  BY SMT DEF PeripheralsWriteByte, LATCH, SELECT
<1>2. CounterMod \in Nat \ {0} /\ NsecPerSec \in Nat
  BY WidthAssumption
<1>3. ts # NoTime => Nanoseconds(ts) \in Nat /\ Split(ts) \in Nat
  <2> SUFFICES ASSUME ts \in Times PROVE Nanoseconds(ts) \in Nat /\ Split(ts) \in Nat
    OBVIOUS
  <2>1. ts.sec \in Int /\ ts.nsec \in Int
    BY TimesAssumption DEF IsTime
  <2>2. Half \in Int
    BY HalfIsPower
  <2>3. NsecPerSec * ts.sec + ts.nsec \in Int /\ Half * ts.sec + ts.nsec \in Int
    BY <1>2, <2>1, <2>2
  <2> QED
    BY <1>2, <2>3, SMT DEF Nanoseconds, Split
<1>4. CounterMod - 1 \in Nat
  BY <1>2
<1>5. /\ Counter.ClockCycles \in Nat /\ Counter.CpuInstructions \in Nat
      /\ Counter.IrqEvents \in Nat /\ Counter.NmiEvents \in Nat
  BY DEF CounterFields, Events
<1>6. ASSUME NEW l \in Latches PROVE Sample(ts)[l] \in Nat
  BY <1>3, <1>4, <1>5, SMT DEF Sample, Latches, CLOCKCYCLE_COUNTER, INSTRUCTION_COUNTER,
     IRQ_COUNTER, NMI_COUNTER, WALLCLOCK_TIME, WALLCLOCK_TIME_SPLIT
<1>7. Sample(ts) \in Images
  BY <1>6 DEF Sample, Images
<1> QED
  BY <1>1, <1>7, SampleHolds

LEMMA SelectWritten ==
    ASSUME NEW l, PeripheralsWriteByte(SELECT, l, NoTime)
    PROVE  LatchedValueSelected' = l /\ UNCHANGED <<Counter, Latched>>
  BY SMT DEF PeripheralsWriteByte, LATCH, SELECT

-----------------------------------------------------------------------------
(* The parts of the invariant, step by step.                               *)
LEMMA SharedFacts ==
    ASSUME SharedType
    PROVE  /\ CounterBytes \in Nat \ {0}
           /\ Len(handlers) \in Nat /\ DOMAIN handlers = 1..Len(handlers)
           /\ Len(samples) \in Nat /\ DOMAIN samples = 1..Len(samples)
           /\ Len(reader.got) \in Nat /\ DOMAIN reader.got = 1..Len(reader.got)
           /\ (handlers = <<>> <=> Len(handlers) = 0)
           /\ (samples = <<>> <=> Len(samples) = 0)
           /\ Counter.CpuInstructions \in Nat /\ Counter.IrqEvents \in Nat /\ Counter.NmiEvents \in Nat
           /\ \A n \in DOMAIN samples : /\ samples[n] \in Images
                                        /\ samples[n][IRQ_COUNTER] \in Nat
                                        /\ samples[n][NMI_COUNTER] \in Nat
           /\ \A j \in DOMAIN handlers : handlers[j] \in HandlerType
<1>1. /\ IRQ_COUNTER \in Latches /\ NMI_COUNTER \in Latches
  BY DEF Latches
<1>2. \A n \in DOMAIN samples : samples[n] \in Images
  BY DEF SharedType
<1>3. \A n \in DOMAIN samples : samples[n][IRQ_COUNTER] \in Nat /\ samples[n][NMI_COUNTER] \in Nat
  BY <1>1, <1>2 DEF Images
<1>4. /\ Counter.CpuInstructions \in Nat /\ Counter.IrqEvents \in Nat /\ Counter.NmiEvents \in Nat
  BY DEF SharedType, CounterFields, Events
<1>5. samples \in Seq(Images) /\ handlers \in Seq(HandlerType) /\ reader.got \in Seq(ImageBytes)
  BY DEF SharedType
<1> HIDE DEF SharedType
<1>6. /\ Len(handlers) \in Nat /\ DOMAIN handlers = 1..Len(handlers)
      /\ Len(samples) \in Nat /\ DOMAIN samples = 1..Len(samples)
      /\ Len(reader.got) \in Nat /\ DOMAIN reader.got = 1..Len(reader.got)
      /\ (handlers = <<>> <=> Len(handlers) = 0)
      /\ (samples = <<>> <=> Len(samples) = 0)
      /\ \A j \in DOMAIN handlers : handlers[j] \in HandlerType
  BY <1>5
<1> QED
  BY <1>2, <1>3, <1>4, <1>6, WidthAssumption

LEMMA AtMostAll ==
    ASSUME SharedType
    PROVE  Len(reader.got) <= ByteCount
<1>1. CounterBytes \in Nat \ {0} /\ reader.at \in 0..10+CounterBytes
  BY WidthAssumption DEF SharedType
<1>2. BytesBefore(reader.at) <= ByteCount
  BY <1>1, SMT DEF BytesBefore, ByteCount
<1> QED
  BY <1>2 DEF SharedType

(* Without a new sample, more interrupts only help.                        *)
LEMMA OrderKept ==
    ASSUME SharedType, SamplesInOrder, UNCHANGED <<samples, Latched>>,
           Counter.IrqEvents <= Counter'.IrqEvents, Counter.NmiEvents <= Counter'.NmiEvents,
           Counter'.IrqEvents \in Nat, Counter'.NmiEvents \in Nat
    PROVE  SamplesInOrder'
<1>1. ASSUME NEW n \in DOMAIN samples
      PROVE  /\ samples[n][IRQ_COUNTER] <= Counter'.IrqEvents
             /\ samples[n][NMI_COUNTER] <= Counter'.NmiEvents
  <2>1. samples[n][IRQ_COUNTER] \in Nat /\ samples[n][NMI_COUNTER] \in Nat
        /\ Counter.IrqEvents \in Nat /\ Counter.NmiEvents \in Nat
    BY SharedFacts
  <2>2. samples[n][IRQ_COUNTER] <= Counter.IrqEvents /\ samples[n][NMI_COUNTER] <= Counter.NmiEvents
    BY DEF SamplesInOrder
  <2> QED
    BY <2>1, <2>2, SMT
<1> QED
  BY <1>1 DEF SamplesInOrder

LEMMA LooksKept ==
    ASSUME SharedType, SamplesInOrder, BytesAreLooks, UNCHANGED <<reader, samples>>,
           Counter.IrqEvents <= Counter'.IrqEvents, Counter.NmiEvents <= Counter'.NmiEvents,
           Counter'.IrqEvents \in Nat, Counter'.NmiEvents \in Nat,
           handlers' # <<>> =>
               \/ handlers # <<>>
               \/ Counter.IrqEvents + Counter.NmiEvents < Counter'.IrqEvents + Counter'.NmiEvents
    PROVE  BytesAreLooks'
<1>1. PICK look \in [1..ByteCount -> DOMAIN samples \cup {0}] : LooksAt(look)
  BY DEF BytesAreLooks
<1>2. 2 \in DOMAIN reader.got => CountedSince(look[2])'
  <2> SUFFICES ASSUME 2 \in DOMAIN reader.got, handlers' # <<>>
               PROVE  Taken(samples[look[2]]) < Counter'.IrqEvents + Counter'.NmiEvents
    BY <1>1 DEF LooksAt, CountedSince, Taken
  <2> DEFINE n == look[2]
  <2>1. Len(reader.got) <= ByteCount
    BY AtMostAll
  <2>2. 2 \in 1..ByteCount
    BY <2>1, SharedFacts, SMT DEF ByteCount
  <2>3. n \in DOMAIN samples
    BY <1>1, <2>2 DEF LooksAt
  <2>4. CountedSince(n)
    BY <1>1 DEF LooksAt
  <2> HIDE DEF n
  <2>5. /\ samples[n][IRQ_COUNTER] \in Nat /\ samples[n][NMI_COUNTER] \in Nat
        /\ Counter.IrqEvents \in Nat /\ Counter.NmiEvents \in Nat
        /\ samples[n][IRQ_COUNTER] <= Counter.IrqEvents /\ samples[n][NMI_COUNTER] <= Counter.NmiEvents
    BY <2>3, SharedFacts DEF SamplesInOrder
  <2>6. handlers # <<>> => samples[n][IRQ_COUNTER] + samples[n][NMI_COUNTER] < Counter.IrqEvents + Counter.NmiEvents
    BY <2>4 DEF CountedSince, Taken
  <2>7. samples[n][IRQ_COUNTER] + samples[n][NMI_COUNTER] < Counter'.IrqEvents + Counter'.NmiEvents
    BY <2>5, <2>6, SMT
  <2> QED
    BY <2>7 DEF Taken, n
<1>3. LooksAt(look)'
  BY <1>1, <1>2 DEF LooksAt, RegisterOf
<1> QED
  BY <1>1, <1>3 DEF BytesAreLooks

(* What the selection register will show is what it will show when the     *)
(* innermost handler has saved it, latched, selected another register,     *)
(* restored it, or been interrupted.                                       *)
LEMMA HeadMoves ==
    ASSUME handlers \in Seq(HandlerType), handlers # <<>>, NEW h \in HandlerType, NEW l,
           handlers' = <<h>> \o Tail(handlers), h.pc # "save",
           h.saved = IF handlers[1].pc = "save" THEN LatchedValueSelected ELSE handlers[1].saved,
           WillShow(l)
    PROVE  WillShow(l)'
<1>1. /\ handlers' \in Seq(HandlerType) /\ Len(handlers') = Len(handlers) /\ handlers'[1] = h
      /\ \A j \in DOMAIN handlers : j # 1 => handlers'[j] = handlers[j]
  BY Replaced
<1>2. Len(handlers) \in Nat \ {0} /\ DOMAIN handlers = 1..Len(handlers) /\ DOMAIN handlers' = 1..Len(handlers)
  BY <1>1
<1>3. 1 \in DOMAIN handlers /\ DOMAIN handlers' = DOMAIN handlers
      /\ \A j \in DOMAIN handlers : j # 1 => j > 1
  BY <1>2
<1>4. ASSUME NEW j \in DOMAIN handlers, handlers'[j].pc # "save",
             \A k \in DOMAIN handlers : k > j => handlers'[k].pc = "save"
      PROVE  handlers'[j].saved = l
  <2>1. CASE j = 1
    <3>1. \A k \in DOMAIN handlers : k # 1 => handlers[k].pc = "save"
      BY <1>1, <1>3, <1>4, <2>1
    <3>2. CASE handlers[1].pc = "save"
      BY <1>1, <2>1, <3>1, <3>2 DEF WillShow
    <3>3. CASE handlers[1].pc # "save"
      <4>1. \A k \in DOMAIN handlers : k > 1 => handlers[k].pc = "save"
        BY <3>1, <1>2
      <4> QED
        BY <1>1, <1>3, <2>1, <3>3, <4>1 DEF WillShow
    <3> QED
      BY <3>2, <3>3
  <2>2. CASE j # 1
    <3>1. \A k \in DOMAIN handlers : k > j => handlers[k].pc = "save"
      <4> SUFFICES ASSUME NEW k \in DOMAIN handlers, k > j PROVE handlers[k].pc = "save"
        OBVIOUS
      <4>1. k # 1
        BY <1>2, <2>2
      <4> QED
        BY <1>1, <1>4, <4>1
    <3> QED
      BY <1>1, <1>4, <2>2, <3>1 DEF WillShow
  <2> QED
    BY <2>1, <2>2
<1> QED
  BY <1>1, <1>3, <1>4 DEF WillShow

LEMMA HeadReturns ==
    ASSUME handlers \in Seq(HandlerType), handlers # <<>>, NEW l, handlers' = Tail(handlers),
           handlers[1].pc # "save", LatchedValueSelected' = handlers[1].saved, WillShow(l)
    PROVE  WillShow(l)'
<1>1. /\ Len(handlers) \in Nat \ {0} /\ DOMAIN handlers = 1..Len(handlers)
      /\ handlers' \in Seq(HandlerType) /\ Len(handlers') = Len(handlers) - 1
      /\ DOMAIN handlers' = 1..Len(handlers)-1
      /\ \A j \in 1..Len(handlers)-1 : handlers'[j] = handlers[j + 1]
  OBVIOUS
<1>2. ASSUME \A j \in DOMAIN handlers' : handlers'[j].pc = "save"
      PROVE  LatchedValueSelected' = l
  <2>1. \A k \in DOMAIN handlers : k > 1 => k - 1 \in DOMAIN handlers' /\ (k - 1) + 1 = k
    BY <1>1
  <2>2. \A k \in DOMAIN handlers : k > 1 => handlers[k].pc = "save"
    BY <1>1, <1>2, <2>1
  <2>3. 1 \in DOMAIN handlers
    BY <1>1
  <2> QED
    BY <2>2, <2>3 DEF WillShow
<1>3. ASSUME NEW j \in DOMAIN handlers', handlers'[j].pc # "save",
             \A k \in DOMAIN handlers' : k > j => handlers'[k].pc = "save"
      PROVE  handlers'[j].saved = l
  <2>1. j + 1 \in DOMAIN handlers /\ handlers'[j] = handlers[j + 1]
    BY <1>1
  <2>2. \A k \in DOMAIN handlers : k > j + 1 => k - 1 \in DOMAIN handlers' /\ k - 1 > j /\ (k - 1) + 1 = k
    BY <1>1
  <2>3. \A k \in DOMAIN handlers : k > j + 1 => handlers[k].pc = "save"
    BY <1>1, <1>3, <2>2
  <2> QED
    BY <1>3, <2>1, <2>3 DEF WillShow
<1> QED
  BY <1>2, <1>3 DEF WillShow

LEMMA HeadComes ==
    ASSUME handlers \in Seq(HandlerType), NEW h \in HandlerType, NEW l,
           handlers' = <<h>> \o handlers, h.pc = "save",
           LatchedValueSelected' = LatchedValueSelected, WillShow(l)
    PROVE  WillShow(l)'
<1>1. /\ handlers' \in Seq(HandlerType) /\ Len(handlers') = Len(handlers) + 1 /\ handlers'[1] = h
      /\ \A j \in DOMAIN handlers : handlers'[j + 1] = handlers[j]
  BY PushedItem
<1>2. Len(handlers) \in Nat /\ DOMAIN handlers = 1..Len(handlers) /\ DOMAIN handlers' = 1..Len(handlers)+1
  BY <1>1
<1>3. \A j \in DOMAIN handlers : j + 1 \in DOMAIN handlers'
  BY <1>2
<1>4. \A j \in DOMAIN handlers' : j # 1 => j - 1 \in DOMAIN handlers /\ (j - 1) + 1 = j
  BY <1>2
<1>5. ASSUME \A j \in DOMAIN handlers' : handlers'[j].pc = "save"
      PROVE  LatchedValueSelected' = l
  BY <1>1, <1>3, <1>5 DEF WillShow
<1>6. ASSUME NEW j \in DOMAIN handlers', handlers'[j].pc # "save",
             \A k \in DOMAIN handlers' : k > j => handlers'[k].pc = "save"
      PROVE  handlers'[j].saved = l
  <2>1. j # 1
    BY <1>1, <1>6
  <2>2. j - 1 \in DOMAIN handlers /\ handlers'[j] = handlers[j - 1]
    BY <1>1, <1>4, <2>1
  <2>3. \A k \in DOMAIN handlers : k > j - 1 => k + 1 > j
    BY <1>2
  <2>4. \A k \in DOMAIN handlers : k > j - 1 => handlers[k].pc = "save"
    BY <1>1, <1>3, <1>6, <2>3
  <2> QED
    BY <1>6, <2>2, <2>4 DEF WillShow
<1> QED
  BY <1>5, <1>6 DEF WillShow

(* The registers and bytes that belong to the next access.                 *)
LEMMA Positions ==
    ASSUME SharedType, NEW at \in 1..9+CounterBytes
    PROVE  /\ at + 1 \in 0..10+CounterBytes
           /\ BytesBefore(at) + 1 \in 1..ByteCount
           /\ PlaceOf(BytesBefore(at) + 1) \in 0..CounterBytes-1
           /\ RegisterOf(BytesBefore(at) + 1) \in Latches
           /\ at \in SelectAccesses => BytesBefore(at + 1) = BytesBefore(at)
           /\ at \notin SelectAccesses => BytesBefore(at + 1) = BytesBefore(at) + 1
           /\ at \notin SelectAccesses /\ at + 1 \in ReadAccesses =>
                 RegisterOf(BytesBefore(at) + 2) = RegisterOf(BytesBefore(at) + 1)
<1>1. CounterBytes \in Nat \ {0}
  BY WidthAssumption
<1>2. reader.want \in Latches /\ IRQ_COUNTER \in Latches /\ NMI_COUNTER \in Latches
  BY DEF SharedType, Latches
<1>3. \A k : RegisterOf(k) \in Latches
  BY <1>2 DEF RegisterOf
<1>4. at + 1 \in 0..10+CounterBytes /\ BytesBefore(at) + 1 \in 1..ByteCount
      /\ PlaceOf(BytesBefore(at) + 1) \in 0..CounterBytes-1
  BY <1>1, SMT DEF BytesBefore, ByteCount, PlaceOf
<1>5. /\ at \in SelectAccesses => BytesBefore(at + 1) = BytesBefore(at)
      /\ at \notin SelectAccesses => BytesBefore(at + 1) = BytesBefore(at) + 1
  BY <1>1, SMT DEF BytesBefore, SelectAccesses
<1>6. at \notin SelectAccesses /\ at + 1 \in ReadAccesses =>
         BytesBefore(at) + 1 \in 3..1+CounterBytes
  BY <1>1, SMT DEF BytesBefore, SelectAccesses, ReadAccesses
<1>7. BytesBefore(at) + 1 \in 3..1+CounterBytes =>
         RegisterOf(BytesBefore(at) + 1) = reader.want /\ RegisterOf(BytesBefore(at) + 2) = reader.want
  <2>1. BytesBefore(at) \in Int
    BY <1>1, SMT DEF BytesBefore
  <2>2. \A b \in Int : b + 1 \in 3..1+CounterBytes =>
            /\ b + 1 \notin {1, 3 + CounterBytes} /\ b + 1 \notin {2, 4 + CounterBytes}
            /\ b + 2 \notin {1, 3 + CounterBytes} /\ b + 2 \notin {2, 4 + CounterBytes}
    BY <1>1, SMT
  <2> QED
    BY <2>1, <2>2 DEF RegisterOf
<1> QED
  BY <1>3, <1>4, <1>5, <1>6, <1>7

LEMMA SharedInitHolds == SharedInit => SharedInv
<1> SUFFICES ASSUME SharedInit PROVE SharedInv
  OBVIOUS
<1>1. CounterBytes \in Nat \ {0} /\ MaxEvents \in Nat /\ 0 \in Latches
  BY WidthAssumption, ProgramAssumption DEF Latches, CLOCKCYCLE_COUNTER
<1>2. reader = [at |-> 0, want |-> 0, got |-> <<>>] /\ handlers = <<>> /\ samples = <<>>
      /\ Counter = [f \in CounterFields |-> 0] /\ LatchedValueSelected = 0
  BY DEF SharedInit, PeripheralsInit, CountersInit
<1>3. EventsSoFar = 0
  BY <1>2 DEF EventsSoFar, CounterFields, Events
<1>4. BytesBefore(0) = 0 /\ 0 \in 0..10+CounterBytes
  BY <1>1 DEF BytesBefore
<1>5. SharedType
  BY <1>1, <1>2, <1>3, <1>4 DEF SharedType
<1>6. SamplesInOrder
  BY <1>2 DEF SamplesInOrder
<1>7. SelectionComesBack
  BY <1>2, <1>1 DEF SelectionComesBack, ReadAccesses
<1>8. BytesAreLooks
  <2>1. [k \in 1..ByteCount |-> 0] \in [1..ByteCount -> DOMAIN samples \cup {0}]
    OBVIOUS
  <2>2. LooksAt([k \in 1..ByteCount |-> 0])
    BY <1>2 DEF LooksAt
  <2> QED
    BY <2>1, <2>2 DEF BytesAreLooks
<1> QED
  BY <1>5, <1>6, <1>7, <1>8 DEF SharedInv

LEMMA ReaderLatchStep == SharedInv /\ handlers = <<>> /\ ReaderLatch => SharedInv'
<1> SUFFICES ASSUME SharedInv, handlers = <<>>, ReaderLatch
             PROVE  SharedInv'
  OBVIOUS
<1>0. CounterBytes \in Nat \ {0} /\ Counter \in [CounterFields -> Nat]
      /\ Counter.IrqEvents \in Nat /\ Counter.NmiEvents \in Nat
  BY SharedFacts DEF SharedInv, SharedType
<1>1. PICK ts \in Times \cup {NoTime} : PeripheralsWriteByte(LATCH, 0, ts)
  BY DEF ReaderLatch
<1>2. /\ UNCHANGED <<Counter, LatchedValueSelected>>
      /\ Latched' \in Images
      /\ Latched'[IRQ_COUNTER] = Counter.IrqEvents
      /\ Latched'[NMI_COUNTER] = Counter.NmiEvents
  BY <1>0, <1>1, LatchWritten
<1>3. PICK l \in Latches : reader' = [at |-> 1, want |-> l, got |-> <<>>]
  BY DEF ReaderLatch
<1>4. samples' = <<Latched'>> /\ handlers' = handlers
  BY DEF ReaderLatch
<1>5. samples' \in Seq(Images) /\ Len(samples') = 1 /\ DOMAIN samples' = {1} /\ samples'[1] = Latched'
      /\ samples' # <<>>
  BY <1>2, <1>4
<1>6. BytesBefore(1) = 0 /\ 1 \in 0..10+CounterBytes /\ 1 \notin ReadAccesses
  BY <1>0 DEF BytesBefore, ReadAccesses, SelectAccesses
<1>7. SharedType'
  BY <1>2, <1>3, <1>4, <1>5, <1>6 DEF SharedInv, SharedType, EventsSoFar
<1>8. SamplesInOrder'
  BY <1>0, <1>2, <1>5 DEF SamplesInOrder
<1>9. SelectionComesBack'
  BY <1>3, <1>6 DEF SelectionComesBack
<1>10. BytesAreLooks'
  <2>1. [k \in 1..ByteCount |-> 0] \in [1..ByteCount -> DOMAIN samples' \cup {0}]
    OBVIOUS
  <2>2. LooksAt([k \in 1..ByteCount |-> 0])'
    BY <1>3 DEF LooksAt
  <2> QED
    BY <2>1, <2>2 DEF BytesAreLooks
<1> QED
  BY <1>7, <1>8, <1>9, <1>10 DEF SharedInv

LEMMA ReaderSelectStep == SharedInv /\ handlers = <<>> /\ ReaderSelect => SharedInv'
<1> SUFFICES ASSUME SharedInv, handlers = <<>>, ReaderSelect
             PROVE  SharedInv'
  OBVIOUS
<1> DEFINE at == reader.at
<1>0. SharedType
  BY DEF SharedInv
<1>1. at \in 1..9+CounterBytes
  <2>1. at \in 0..10+CounterBytes /\ CounterBytes \in Nat \ {0} /\ at \in DOMAIN Accesses
    BY <1>0, SharedFacts DEF ReaderSelect, SharedType
  <2>2. 1 \in 1..9+CounterBytes
    BY <2>1
  <2>3. DOMAIN Accesses = 1..9+CounterBytes
    BY <2>2, NextAccess
  <2> QED
    BY <2>1, <2>3
<1>2. at \in SelectAccesses /\ Accesses[at] = SelectReg(RegisterOf(BytesBefore(at) + 1))
  <2>1. Accesses[at].write
    BY DEF ReaderSelect
  <2>2. \A k : ~ReadByte(k).write
    BY DEF ReadByte
  <2> QED
    BY <1>1, <2>1, <2>2, NextAccess
<1>3. Len(reader.got) = BytesBefore(at)
  BY <1>0 DEF SharedType
<1>4. PeripheralsWriteByte(SELECT, RegisterOf(BytesBefore(at) + 1), NoTime)
  BY <1>2 DEF ReaderSelect, SelectReg
<1>5. /\ LatchedValueSelected' = RegisterOf(BytesBefore(at) + 1) /\ UNCHANGED <<Counter, Latched>>
  BY <1>4, SelectWritten
<1>6. reader' = [reader EXCEPT !.at = at + 1] /\ UNCHANGED <<handlers, samples>>
  BY DEF ReaderSelect
<1>7. BytesBefore(at + 1) = BytesBefore(at) /\ at + 1 \in 0..10+CounterBytes
      /\ RegisterOf(BytesBefore(at) + 1) \in Latches
  BY <1>0, <1>1, <1>2, Positions
<1>8. reader.at # 0 /\ at + 1 # 0
  BY <1>1, WidthAssumption
<1> HIDE DEF at
<1>9. /\ reader'.at = at + 1 /\ reader'.want = reader.want /\ reader'.got = reader.got
      /\ ImageBytes' = ImageBytes
      /\ reader' \in [at : 0..10+CounterBytes, want : Latches, got : Seq(ImageBytes)]
  BY <1>0, <1>6, <1>7 DEF SharedType, ImageBytes
<1>10. SharedType'
  BY <1>0, <1>3, <1>5, <1>6, <1>7, <1>8, <1>9 DEF SharedType, EventsSoFar
<1>11. SamplesInOrder'
  BY <1>5, <1>6 DEF SharedInv, SamplesInOrder
<1>12. SelectionComesBack'
  BY <1>3, <1>5, <1>6, <1>9 DEF SelectionComesBack, WillShow, RegisterOf
<1>13. BytesAreLooks'
  BY <1>5, <1>6, <1>9 DEF SharedInv, BytesAreLooks, LooksAt, CountedSince, RegisterOf
<1> QED
  BY <1>10, <1>11, <1>12, <1>13 DEF SharedInv

(* The step that matters: what is read is a byte of the last sample, and   *)
(* no handler is in progress that could latch without being counted.       *)
LEMMA ReaderReadStep == SharedInv /\ handlers = <<>> /\ ReaderRead => SharedInv'
<1> SUFFICES ASSUME SharedInv, handlers = <<>>, ReaderRead
             PROVE  SharedInv'
  OBVIOUS
<1> DEFINE at   == reader.at
           m    == BytesBefore(at) + 1
           byte == PeripheralsReadByte(VALUE + PlaceOf(m))
           last == Len(samples)
<1>0. SharedType
  BY DEF SharedInv
<1>1. at \in 1..9+CounterBytes
  <2>1. at \in 0..10+CounterBytes /\ CounterBytes \in Nat \ {0} /\ at \in DOMAIN Accesses
    BY <1>0, SharedFacts DEF ReaderRead, SharedType
  <2>2. 1 \in 1..9+CounterBytes
    BY <2>1
  <2>3. DOMAIN Accesses = 1..9+CounterBytes
    BY <2>2, NextAccess
  <2> QED
    BY <2>1, <2>3
<1>2. at \notin SelectAccesses /\ Accesses[at] = ReadByte(PlaceOf(m))
  <2>1. ~Accesses[at].write
    BY DEF ReaderRead
  <2>2. \A l : SelectReg(l).write
    BY DEF SelectReg
  <2> QED
    BY <1>1, <2>1, <2>2, NextAccess
<1>3. Len(reader.got) = BytesBefore(at) /\ m \in 1..ByteCount /\ Len(reader.got) + 1 = m
  BY <1>0, <1>1, Positions DEF SharedType
<1>4. LatchedValueSelected = RegisterOf(m) /\ RegisterOf(m) \in Latches
  <2>1. at \in ReadAccesses
    BY <1>1, <1>2 DEF ReadAccesses
  <2>2. WillShow(RegisterOf(m))
    BY <1>3, <2>1 DEF SharedInv, SelectionComesBack
  <2> QED
    BY <1>0, <1>1, <2>2, Positions DEF WillShow
<1>5. last \in DOMAIN samples /\ Latched = samples[last]
  <2>1. samples # <<>>
    BY <1>0, <1>1, WidthAssumption DEF SharedType
  <2> QED
    BY <1>0, <2>1, SharedFacts DEF SharedInv, SamplesInOrder
<1>6. byte = ByteOf(samples[last][RegisterOf(m)], PlaceOf(m)) /\ PlaceOf(m) \in 0..CounterBytes-1
  <2>1. PlaceOf(m) \in 0..CounterBytes-1
    BY <1>0, <1>1, Positions
  <2> QED
    BY <1>4, <1>5, <2>1, ApertureShowsSelection
<1>7. byte \in ImageBytes
  BY <1>4, <1>5, <1>6 DEF ImageBytes
<1>8. reader' = [reader EXCEPT !.at = at + 1, !.got = Append(reader.got, byte)]
      /\ UNCHANGED <<Counter, Latched, LatchedValueSelected, handlers, samples>>
  BY <1>2 DEF ReaderRead, ReadByte, peripherals
<1>9. BytesBefore(at + 1) = m /\ at + 1 \in 0..10+CounterBytes
  BY <1>0, <1>1, <1>2, Positions
<1>10. at + 1 # 0 /\ at # 0
  BY <1>1, WidthAssumption
<1> HIDE DEF byte
<1>11. LET got == Append(reader.got, byte)
       IN  /\ got \in Seq(ImageBytes) /\ Len(got) = m /\ DOMAIN got = 1..m
           /\ DOMAIN reader.got = 1..m-1
           /\ got[m] = byte /\ \A k \in 1..m-1 : got[k] = reader.got[k]
  BY <1>0, <1>3, <1>7, SMT DEF SharedType
<1> HIDE DEF at, m, last
<1>12. /\ reader'.at = at + 1 /\ reader'.want = reader.want
       /\ reader'.got = Append(reader.got, byte)
       /\ ImageBytes' = ImageBytes
       /\ reader' \in [at : 0..10+CounterBytes, want : Latches, got : Seq(ImageBytes)]
  <2>1. reader \in [at : 0..10+CounterBytes, want : Latches, got : Seq(ImageBytes)]
    BY <1>0 DEF SharedType
  <2>2. at + 1 \in 0..10+CounterBytes /\ Append(reader.got, byte) \in Seq(ImageBytes)
    BY <1>9, <1>11
  <2>3. ImageBytes' = ImageBytes
    BY <1>8 DEF ImageBytes
  <2> HIDE DEF ImageBytes
  <2> QED
    BY <1>8, <2>1, <2>2, <2>3
<1>13. SharedType'
  BY <1>0, <1>8, <1>9, <1>10, <1>11, <1>12 DEF SharedType, EventsSoFar, at
<1>14. SamplesInOrder'
  BY <1>8 DEF SharedInv, SamplesInOrder
<1>15. SelectionComesBack'
  <2> SUFFICES ASSUME at + 1 \in ReadAccesses
               PROVE  LatchedValueSelected = RegisterOf(m + 1)
    BY <1>8, <1>11, <1>12 DEF SelectionComesBack, WillShow, RegisterOf
  <2>1. RegisterOf(BytesBefore(at) + 2) = RegisterOf(m) /\ BytesBefore(at) + 2 = m + 1
    BY <1>0, <1>1, <1>2, <1>3, Positions DEF m
  <2> QED
    BY <1>4, <2>1
<1>16. BytesAreLooks'
  <2>1. PICK look \in [1..ByteCount -> DOMAIN samples \cup {0}] : LooksAt(look)
    BY DEF SharedInv, BytesAreLooks
  <2>2. PICK now \in [1..ByteCount -> DOMAIN samples \cup {0}] : now = [look EXCEPT ![m] = last]
    BY <1>5
  <2>3. now[m] = last /\ \A k \in 1..m-1 : now[k] = look[k]
    BY <1>3, <2>2
  <2>4. last # 0 /\ \A k \in 1..ByteCount : look[k] <= last
    BY <1>0, <1>5, SharedFacts DEF last
  <2>5. m \in Nat /\ \A k \in 1..m : k = m \/ k \in 1..m-1
    BY <1>3
  <2>6. \A k \in 1..m-1 : k \in 1..ByteCount
    BY <1>3, SharedFacts, <1>0 DEF ByteCount
  <2>7. ASSUME NEW k \in 1..m
        PROVE  now[k] # 0 /\ reader'.got[k] = ByteOf(samples[now[k]][RegisterOf(k)], PlaceOf(k))
    <3>1. CASE k = m
      BY <1>6, <1>11, <1>12, <2>3, <2>4, <3>1
    <3>2. CASE k \in 1..m-1
      BY <1>11, <1>12, <2>1, <2>3, <3>2 DEF LooksAt
    <3> QED
      BY <2>5, <3>1, <3>2
  <2>8. ASSUME NEW j \in 1..m, NEW k \in 1..m, j < k
        PROVE  now[j] <= now[k]
    <3>1. j \in 1..m-1
      BY <2>5, <2>8
    <3>2. CASE k = m
      BY <2>3, <2>4, <2>6, <3>1, <3>2
    <3>3. CASE k \in 1..m-1
      BY <1>11, <2>1, <2>3, <2>8, <3>1, <3>3 DEF LooksAt
    <3> QED
      BY <2>5, <3>2, <3>3
  <2>9. 2 \in 1..m => CountedSince(now[2])'
    <3>1. CASE m = 2
      <4>1. \A n \in DOMAIN samples : ~(n > last)
        BY <1>0, SharedFacts DEF last
      <4> QED
        BY <1>8, <2>3, <3>1, <4>1 DEF CountedSince
    <3>2. CASE 2 \in 1..m-1
      BY <1>8, <1>11, <2>1, <2>3, <3>2 DEF LooksAt, CountedSince
    <3> QED
      BY <2>5, <3>1, <3>2
  <2>10. DOMAIN reader'.got = 1..m /\ samples' = samples
    BY <1>8, <1>11, <1>12
  <2>11. \A k : RegisterOf(k)' = RegisterOf(k)
    BY <1>12 DEF RegisterOf
  <2>12. LooksAt(now)'
    BY <2>7, <2>8, <2>9, <2>10, <2>11 DEF LooksAt
  <2> QED
    BY <2>2, <2>10, <2>12 DEF BytesAreLooks
<1> QED
  BY <1>13, <1>14, <1>15, <1>16 DEF SharedInv

LEMMA ReaderAgainStep == SharedInv /\ handlers = <<>> /\ ReaderAgain => SharedInv'
<1> SUFFICES ASSUME SharedInv, handlers = <<>>, ReaderAgain
             PROVE  SharedInv'
  OBVIOUS
<1>1. CounterBytes \in Nat \ {0} /\ 0 \in Latches
  BY WidthAssumption DEF Latches, CLOCKCYCLE_COUNTER
<1>2. reader' = [at |-> 0, want |-> 0, got |-> <<>>] /\ handlers' = <<>> /\ samples' = <<>>
      /\ UNCHANGED <<Counter, Latched, LatchedValueSelected>>
  BY DEF ReaderAgain, peripherals
<1>3. BytesBefore(0) = 0 /\ 0 \in 0..10+CounterBytes
  BY <1>1 DEF BytesBefore
<1>4. SharedType'
  BY <1>1, <1>2, <1>3 DEF SharedInv, SharedType, EventsSoFar
<1>5. SamplesInOrder'
  BY <1>2 DEF SamplesInOrder
<1>6. SelectionComesBack'
  BY <1>1, <1>2 DEF SelectionComesBack, ReadAccesses
<1>7. BytesAreLooks'
  <2>1. [k \in 1..ByteCount |-> 0] \in [1..ByteCount -> DOMAIN samples' \cup {0}]
    OBVIOUS
  <2>2. LooksAt([k \in 1..ByteCount |-> 0])'
    BY <1>2 DEF LooksAt
  <2> QED
    BY <2>1, <2>2 DEF BytesAreLooks
<1> QED
  BY <1>4, <1>5, <1>6, <1>7 DEF SharedInv

-----------------------------------------------------------------------------
(* The handlers: their own steps leave the program's state alone.          *)
LEMMA SelectionKeptBy ==
    ASSUME UNCHANGED reader, SelectionComesBack, \A l : WillShow(l) => WillShow(l)'
    PROVE  SelectionComesBack'
<1>1. \A k : RegisterOf(k)' = RegisterOf(k)
  BY DEF RegisterOf
<1> SUFFICES ASSUME reader.at \in ReadAccesses
             PROVE  WillShow(RegisterOf(Len(reader.got) + 1))'
  BY DEF SelectionComesBack
<1>2. PICK l : l = RegisterOf(Len(reader.got) + 1)
  OBVIOUS
<1>3. WillShow(l)'
  BY <1>2 DEF SelectionComesBack
<1>4. RegisterOf(Len(reader.got) + 1)' = l
  BY <1>1, <1>2
<1> QED
  BY <1>3, <1>4 DEF WillShow

LEMMA InnermostHandler ==
    ASSUME SharedType, NEW pc, InHandler(pc)
    PROVE  /\ handlers # <<>> /\ handlers \in Seq(HandlerType)
           /\ handlers[1] \in HandlerType /\ handlers[1].pc = pc
           /\ Head(handlers) = handlers[1]
<1>1. handlers \in Seq(HandlerType) /\ handlers # <<>>
  BY DEF SharedType, InHandler
<1>2. Head(handlers) = handlers[1] /\ handlers[1] \in HandlerType
  BY <1>1
<1> QED
  BY <1>1, <1>2 DEF InHandler

LEMMA SaveStep == SharedInv /\ LatchingSave => SharedInv'
<1> SUFFICES ASSUME SharedInv, LatchingSave PROVE SharedInv'
  OBVIOUS
<1> DEFINE h == [pc |-> "latch", saved |-> PeripheralsReadByte(SELECT)]
<1>0. SharedType /\ SamplesInOrder /\ SelectionComesBack /\ BytesAreLooks
  BY DEF SharedInv
<1>1. PeripheralsReadByte(SELECT) = LatchedValueSelected
  <2>1. CounterBytes \in Nat
    BY WidthAssumption
  <2> QED
    BY <2>1, SMT DEF PeripheralsReadByte, SELECT, VALUE
<1>2. /\ UNCHANGED <<Counter, Latched, LatchedValueSelected, reader, samples>>
      /\ handlers' = <<h>> \o Tail(handlers)
  BY DEF LatchingSave, peripherals
<1>3. handlers # <<>> /\ handlers \in Seq(HandlerType) /\ handlers[1].pc = "save"
  BY <1>0, InnermostHandler DEF LatchingSave
<1>4. h \in HandlerType /\ h.pc # "save" /\ h.saved = LatchedValueSelected
  BY <1>0, <1>1 DEF SharedType, HandlerType
<1> HIDE DEF h
<1>5. handlers' \in Seq(HandlerType)
  BY <1>2, <1>3, <1>4, Replaced
<1>6. SharedType'
  BY <1>0, <1>2, <1>5 DEF SharedType, EventsSoFar, ImageBytes
<1>7. SamplesInOrder'
  BY <1>0, <1>2 DEF SamplesInOrder
<1>8. ASSUME NEW l, WillShow(l) PROVE WillShow(l)'
  <2>1. PICK e \in HandlerType : e = h
    BY <1>4
  <2> QED
    BY <1>2, <1>3, <1>4, <1>8, <2>1, HeadMoves
<1>9. SelectionComesBack'
  BY <1>0, <1>2, <1>8, SelectionKeptBy
<1>10. BytesAreLooks'
  BY <1>0, <1>2, <1>3, SharedFacts, LooksKept
<1> QED
  BY <1>6, <1>7, <1>9, <1>10 DEF SharedInv

(* A handler that latches was counted since the program last looked.       *)
LEMMA LatchStep == SharedInv /\ LatchingLatch => SharedInv'
<1> SUFFICES ASSUME SharedInv, LatchingLatch PROVE SharedInv'
  OBVIOUS
<1> DEFINE h == [Head(handlers) EXCEPT !.pc = "select"]
           n == Len(samples)
<1>0. SharedType /\ SamplesInOrder /\ SelectionComesBack /\ BytesAreLooks
  BY DEF SharedInv
<1>1. handlers # <<>> /\ handlers \in Seq(HandlerType) /\ handlers[1].pc = "latch"
      /\ handlers[1] \in HandlerType /\ Head(handlers) = handlers[1]
  BY <1>0, InnermostHandler DEF LatchingLatch
<1>2. PICK ts \in Times \cup {NoTime} : PeripheralsWriteByte(LATCH, 0, ts)
  BY DEF LatchingLatch
<1>3. /\ UNCHANGED <<Counter, LatchedValueSelected>>
      /\ Latched' \in Images
      /\ Latched'[IRQ_COUNTER] = Counter.IrqEvents
      /\ Latched'[NMI_COUNTER] = Counter.NmiEvents
  BY <1>0, <1>2, LatchWritten DEF SharedType
<1>4. /\ handlers' = <<h>> \o Tail(handlers) /\ reader' = reader
      /\ samples' = IF samples = <<>> THEN <<>> ELSE Append(samples, Latched')
  BY DEF LatchingLatch, HandlerAt
<1>5. h \in HandlerType /\ h.pc # "save" /\ h.saved = handlers[1].saved
  BY <1>1 DEF HandlerType
<1> HIDE DEF h
<1>6. handlers' \in Seq(HandlerType) /\ handlers' # <<>>
  BY <1>1, <1>4, <1>5, Replaced
<1>7. /\ n \in Nat /\ DOMAIN samples = 1..n /\ samples \in Seq(Images)
      /\ Counter.IrqEvents \in Nat /\ Counter.NmiEvents \in Nat
      /\ \A k \in 1..n : samples[k][IRQ_COUNTER] \in Nat /\ samples[k][NMI_COUNTER] \in Nat
      /\ \A k \in 1..n : /\ samples[k][IRQ_COUNTER] <= Counter.IrqEvents
                         /\ samples[k][NMI_COUNTER] <= Counter.NmiEvents
  BY <1>0, SharedFacts DEF SamplesInOrder, SharedType
<1>8. ASSUME NEW l, WillShow(l) PROVE WillShow(l)'
  <2>1. PICK e \in HandlerType : e = h
    BY <1>5
  <2> QED
    BY <1>1, <1>4, <1>5, <1>8, <2>1, HeadMoves
<1>9. SelectionComesBack'
  BY <1>0, <1>4, <1>8, SelectionKeptBy
<1>10. CASE samples = <<>>
  <2>1. samples' = <<>>
    BY <1>4, <1>10
  <2>2. SharedType'
    BY <1>0, <1>3, <1>4, <1>6, <1>10, <2>1 DEF SharedType, EventsSoFar, ImageBytes
  <2>3. SamplesInOrder'
    BY <2>1 DEF SamplesInOrder
  <2>4. reader.got = <<>>
    BY <1>0, <1>10, SharedFacts, SMT DEF SharedType, BytesBefore
  <2>5. BytesAreLooks'
    BY <1>0, <1>4, <1>10, <2>1, <2>4 DEF BytesAreLooks, LooksAt
  <2> QED
    BY <1>9, <2>2, <2>3, <2>5 DEF SharedInv
<1>11. CASE samples # <<>>
  <2>1. /\ samples' \in Seq(Images) /\ samples' # <<>> /\ Len(samples') = n + 1
        /\ DOMAIN samples' = 1..n+1
        /\ samples'[n + 1] = Latched' /\ \A k \in 1..n : samples'[k] = samples[k]
    BY <1>3, <1>4, <1>7, <1>11
  <2> HIDE DEF n
  <2>2. \A k \in 1..n+1 : k = n + 1 \/ k \in 1..n
    BY <1>7
  <2>3. ImageBytes \subseteq ImageBytes'
    <3>1. \A k \in 1..n : k \in 1..n+1
      BY <1>7
    <3> QED
      BY <1>7, <2>1, <3>1 DEF ImageBytes
  <2>4. SharedType'
    <3>1. reader' \in [at : 0..10+CounterBytes, want : Latches, got : Seq(ImageBytes)']
      <4>1. reader.got \in Seq(ImageBytes) /\ reader.at \in 0..10+CounterBytes /\ reader.want \in Latches
        BY <1>0 DEF SharedType
      <4>2. reader.got \in Seq(ImageBytes')
        BY <2>3, <4>1
      <4>3. reader = [at |-> reader.at, want |-> reader.want, got |-> reader.got]
        BY <1>0 DEF SharedType
      <4> QED
        BY <1>4, <4>1, <4>2, <4>3
    <3> QED
      BY <1>0, <1>3, <1>4, <1>6, <1>11, <2>1, <3>1 DEF SharedType, EventsSoFar
  <2>5. SamplesInOrder'
    <3>1. ASSUME NEW j \in 1..n+1, NEW k \in 1..n+1, j <= k
          PROVE  /\ samples'[j][IRQ_COUNTER] <= samples'[k][IRQ_COUNTER]
                 /\ samples'[j][NMI_COUNTER] <= samples'[k][NMI_COUNTER]
      <4>1. CASE k = n + 1
        BY <1>3, <1>7, <2>1, <2>2, <4>1
      <4>2. CASE k \in 1..n
        <5>1. j \in 1..n
          BY <1>7, <3>1, <4>2
        <5> QED
          BY <1>0, <1>7, <2>1, <3>1, <4>2, <5>1 DEF SamplesInOrder
      <4> QED
        BY <2>2, <4>1, <4>2
    <3>2. \A k \in 1..n+1 : /\ samples'[k][IRQ_COUNTER] <= Counter.IrqEvents
                            /\ samples'[k][NMI_COUNTER] <= Counter.NmiEvents
      BY <1>3, <1>7, <2>1, <2>2
    <3> QED
      BY <1>3, <2>1, <3>1, <3>2 DEF SamplesInOrder
  <2>6. BytesAreLooks'
    <3>1. PICK look \in [1..ByteCount -> DOMAIN samples \cup {0}] : LooksAt(look)
      BY <1>0 DEF BytesAreLooks
    <3>2. look \in [1..ByteCount -> DOMAIN samples' \cup {0}]
      BY <1>7, <2>1, <3>1
    <3>3. Len(reader.got) <= ByteCount
      BY <1>0, AtMostAll
    <3>4. \A k \in DOMAIN reader.got : k \in 1..ByteCount
      BY <1>0, <3>3, SharedFacts DEF ByteCount
    <3>5. \A k \in DOMAIN reader.got : look[k] \in 1..n
      BY <1>7, <3>1, <3>4 DEF LooksAt
    <3>6. 2 \in DOMAIN reader.got => CountedSince(look[2])'
      <4> SUFFICES ASSUME 2 \in DOMAIN reader.got PROVE CountedSince(look[2])'
        OBVIOUS
      <4>1. CountedSince(look[2]) /\ look[2] \in 1..n
        BY <3>1, <3>5 DEF LooksAt
      <4>2. samples'[look[2]] = samples[look[2]]
        BY <2>1, <4>1
      <4>3. Taken(samples[look[2]]) < Counter.IrqEvents + Counter.NmiEvents
        BY <1>1, <4>1 DEF CountedSince
      <4>4. Taken(samples'[n + 1]) = Counter.IrqEvents + Counter.NmiEvents
        BY <1>3, <2>1 DEF Taken
      <4>5. ASSUME NEW k \in 1..n+1, k > look[2]
            PROVE  Taken(samples[look[2]]) < Taken(samples'[k])
        <5>1. CASE k = n + 1
          BY <4>3, <4>4, <5>1
        <5>2. CASE k \in 1..n
          BY <1>7, <2>1, <4>1, <4>5, <5>2 DEF CountedSince
        <5> QED
          BY <2>2, <5>1, <5>2
      <4> QED
        BY <1>3, <2>1, <4>2, <4>3, <4>5 DEF CountedSince
    <3>7. \A k : RegisterOf(k)' = RegisterOf(k)
      BY <1>4 DEF RegisterOf
    <3>8. LooksAt(look)'
      BY <1>4, <2>1, <3>1, <3>5, <3>6, <3>7 DEF LooksAt
    <3> QED
      BY <3>2, <3>8 DEF BytesAreLooks
  <2> QED
    BY <1>9, <2>4, <2>5, <2>6 DEF SharedInv
<1> QED
  BY <1>10, <1>11

LEMMA SelectStep == SharedInv /\ LatchingSelect => SharedInv'
<1> SUFFICES ASSUME SharedInv, LatchingSelect PROVE SharedInv'
  OBVIOUS
<1> DEFINE h == [Head(handlers) EXCEPT !.pc = "restore"]
<1>0. SharedType /\ SamplesInOrder /\ SelectionComesBack /\ BytesAreLooks
  BY DEF SharedInv
<1>1. handlers # <<>> /\ handlers \in Seq(HandlerType) /\ handlers[1].pc = "select"
      /\ handlers[1] \in HandlerType /\ Head(handlers) = handlers[1]
  BY <1>0, InnermostHandler DEF LatchingSelect
<1>2. PICK s \in Latches : PeripheralsWriteByte(SELECT, s, NoTime)
  BY DEF LatchingSelect
<1>3. LatchedValueSelected' = s /\ UNCHANGED <<Counter, Latched>>
  BY <1>2, SelectWritten
<1>4. handlers' = <<h>> \o Tail(handlers) /\ UNCHANGED <<reader, samples>>
  BY DEF LatchingSelect, HandlerAt
<1>5. h \in HandlerType /\ h.pc # "save" /\ h.saved = handlers[1].saved
  BY <1>1 DEF HandlerType
<1> HIDE DEF h
<1>6. handlers' \in Seq(HandlerType)
  BY <1>1, <1>4, <1>5, Replaced
<1>7. SharedType'
  BY <1>0, <1>2, <1>3, <1>4, <1>6 DEF SharedType, EventsSoFar, ImageBytes
<1>8. SamplesInOrder'
  BY <1>0, <1>3, <1>4 DEF SamplesInOrder
<1>9. ASSUME NEW l, WillShow(l) PROVE WillShow(l)'
  <2>1. PICK e \in HandlerType : e = h
    BY <1>5
  <2> QED
    BY <1>1, <1>4, <1>5, <1>9, <2>1, HeadMoves
<1>10. SelectionComesBack'
  BY <1>0, <1>4, <1>9, SelectionKeptBy
<1>11. BytesAreLooks'
  BY <1>0, <1>1, <1>3, <1>4, SharedFacts, LooksKept
<1> QED
  BY <1>7, <1>8, <1>10, <1>11 DEF SharedInv

LEMMA RestoreStep == SharedInv /\ LatchingRestore => SharedInv'
<1> SUFFICES ASSUME SharedInv, LatchingRestore PROVE SharedInv'
  OBVIOUS
<1>0. SharedType /\ SamplesInOrder /\ SelectionComesBack /\ BytesAreLooks
  BY DEF SharedInv
<1>1. handlers # <<>> /\ handlers \in Seq(HandlerType) /\ handlers[1].pc = "restore"
      /\ handlers[1] \in HandlerType /\ Head(handlers) = handlers[1]
  BY <1>0, InnermostHandler DEF LatchingRestore
<1>2. LatchedValueSelected' = handlers[1].saved /\ UNCHANGED <<Counter, Latched>>
  BY <1>1, SelectWritten DEF LatchingRestore
<1>3. handlers' = Tail(handlers) /\ UNCHANGED <<reader, samples>>
  BY DEF LatchingRestore
<1>4. handlers' \in Seq(HandlerType) /\ handlers[1].saved \in Latches
  BY <1>1, <1>3 DEF HandlerType
<1>5. SharedType'
  BY <1>0, <1>2, <1>3, <1>4 DEF SharedType, EventsSoFar, ImageBytes
<1>6. SamplesInOrder'
  BY <1>0, <1>2, <1>3 DEF SamplesInOrder
<1>7. ASSUME NEW l, WillShow(l) PROVE WillShow(l)'
  BY <1>1, <1>2, <1>3, <1>7, HeadReturns
<1>8. SelectionComesBack'
  BY <1>0, <1>3, <1>7, SelectionKeptBy
<1>9. BytesAreLooks'
  BY <1>0, <1>1, <1>2, <1>3, SharedFacts, LooksKept
<1> QED
  BY <1>5, <1>6, <1>8, <1>9 DEF SharedInv

-----------------------------------------------------------------------------
(* The processor: an interrupt is counted before its handler runs.         *)
LEMMA SharedInstructionStep == SharedInv /\ SharedInstruction => SharedInv'
<1> SUFFICES ASSUME SharedInv, SharedInstruction PROVE SharedInv'
  OBVIOUS
<1>0. SharedType /\ SamplesInOrder /\ SelectionComesBack /\ BytesAreLooks
  BY DEF SharedInv
<1>1. PICK cycles \in InsnCycles : Advance("CpuInstructions", cycles)
  BY DEF SharedInstruction
<1>2. cycles \in Nat /\ "CpuInstructions" \in Events /\ EventsSoFar < MaxEvents
  BY ProgramAssumption DEF SharedInstruction, Events
<1>3. /\ Counter' \in [CounterFields -> Nat] /\ EventsSoFar' <= MaxEvents
      /\ \A e \in Events \ {"CpuInstructions"} : Counter'[e] = Counter[e]
  BY <1>0, <1>1, <1>2, EventCounted
<1>4. UNCHANGED <<Latched, LatchedValueSelected, reader, handlers, samples>>
  BY DEF SharedInstruction
<1>5. Counter'.IrqEvents = Counter.IrqEvents /\ Counter'.NmiEvents = Counter.NmiEvents
      /\ Counter.IrqEvents \in Nat /\ Counter.NmiEvents \in Nat
  BY <1>0, <1>3, SharedFacts DEF Events
<1>6. SharedType'
  BY <1>0, <1>3, <1>4 DEF SharedType, ImageBytes
<1>7. SamplesInOrder'
  BY <1>0, <1>4, <1>5, OrderKept
<1>8. SelectionComesBack'
  BY <1>0, <1>4 DEF SelectionComesBack, WillShow, RegisterOf
<1>9. BytesAreLooks'
  BY <1>0, <1>4, <1>5, LooksKept
<1> QED
  BY <1>6, <1>7, <1>8, <1>9 DEF SharedInv

LEMMA SharedInterruptStep == SharedInv /\ SharedInterrupt => SharedInv'
<1> SUFFICES ASSUME SharedInv, SharedInterrupt PROVE SharedInv'
  OBVIOUS
<1> DEFINE h == [pc |-> "save", saved |-> 0]
<1>0. SharedType /\ SamplesInOrder /\ SelectionComesBack /\ BytesAreLooks
  BY DEF SharedInv
<1>1. PICK event \in {"IrqEvents", "NmiEvents"} : Advance(event, 7)
  BY DEF SharedInterrupt
<1>2. event \in Events /\ EventsSoFar < MaxEvents /\ handlers \in Seq(HandlerType)
  BY <1>0 DEF SharedInterrupt, Events, SharedType
<1>3. /\ Counter' \in [CounterFields -> Nat] /\ EventsSoFar' <= MaxEvents
      /\ Counter'[event] = Counter[event] + 1
      /\ \A e \in Events \ {event} : Counter'[e] = Counter[e]
  BY <1>0, <1>1, <1>2, EventCounted
<1>4. UNCHANGED <<Latched, LatchedValueSelected, reader, samples>> /\ handlers' = <<h>> \o handlers
  BY DEF SharedInterrupt
<1>5. /\ Counter.IrqEvents \in Nat /\ Counter.NmiEvents \in Nat
      /\ Counter'.IrqEvents \in Nat /\ Counter'.NmiEvents \in Nat
      /\ Counter.IrqEvents <= Counter'.IrqEvents /\ Counter.NmiEvents <= Counter'.NmiEvents
      /\ Counter.IrqEvents + Counter.NmiEvents < Counter'.IrqEvents + Counter'.NmiEvents
  <2>1. Counter.IrqEvents \in Nat /\ Counter.NmiEvents \in Nat
    BY <1>0, SharedFacts
  <2>2. CASE event = "IrqEvents"
    BY <1>3, <2>1, <2>2 DEF Events
  <2>3. CASE event = "NmiEvents"
    BY <1>3, <2>1, <2>3 DEF Events
  <2> QED
    BY <2>2, <2>3
<1>6. h \in HandlerType /\ h.pc = "save"
  BY DEF HandlerType, Latches, CLOCKCYCLE_COUNTER
<1> HIDE DEF h
<1>7. handlers' \in Seq(HandlerType)
  BY <1>2, <1>4, <1>6, PushedItem
<1>8. SharedType'
  BY <1>0, <1>3, <1>4, <1>7 DEF SharedType, ImageBytes
<1>9. SamplesInOrder'
  BY <1>0, <1>4, <1>5, OrderKept
<1>10. ASSUME NEW l, WillShow(l) PROVE WillShow(l)'
  BY <1>2, <1>4, <1>6, <1>10, HeadComes
<1>11. SelectionComesBack'
  BY <1>0, <1>4, <1>10, SelectionKeptBy
<1>12. BytesAreLooks'
  BY <1>0, <1>4, <1>5, LooksKept
<1> QED
  BY <1>8, <1>9, <1>11, <1>12 DEF SharedInv

LEMMA SharedStepHolds == SharedInv /\ [SharedNext]_sharedVars => SharedInv'
<1> SUFFICES ASSUME SharedInv, [SharedNext]_sharedVars PROVE SharedInv'
  OBVIOUS
<1>1. CASE UNCHANGED sharedVars
  <2>1. UNCHANGED <<Counter, Latched, LatchedValueSelected, reader, handlers, samples>>
    BY <1>1 DEF sharedVars, peripherals
  <2>2. SharedType'
    BY <2>1 DEF SharedInv, SharedType, EventsSoFar, ImageBytes
  <2>3. SamplesInOrder'
    BY <2>1 DEF SharedInv, SamplesInOrder
  <2>4. SelectionComesBack'
    BY <2>1 DEF SharedInv, SelectionComesBack, WillShow, RegisterOf
  <2>5. BytesAreLooks'
    BY <2>1 DEF SharedInv, BytesAreLooks, LooksAt, CountedSince, RegisterOf
  <2> QED
    BY <2>2, <2>3, <2>4, <2>5 DEF SharedInv
<1> QED
  BY <1>1, ReaderLatchStep, ReaderSelectStep, ReaderReadStep, ReaderAgainStep, SaveStep, LatchStep,
     SelectStep, RestoreStep, SharedInstructionStep, SharedInterruptStep DEF SharedNext, ReaderStep

-----------------------------------------------------------------------------
(* The bytes of a register and of the two looks, out of all that were read. *)
LEMMA TheParts ==
    ASSUME SharedType
    PROVE  /\ DOMAIN Wanted \subseteq 1..CounterBytes
           /\ \A k \in DOMAIN Wanted :
                 /\ k + 2 \in DOMAIN reader.got /\ Wanted[k] = reader.got[k + 2]
                 /\ RegisterOf(k + 2) = reader.want /\ PlaceOf(k + 2) = k - 1
           /\ Len(reader.got) = ByteCount =>
                 /\ Before[1] = reader.got[1] /\ Before[2] = reader.got[2]
                 /\ After[1] = reader.got[3 + CounterBytes] /\ After[2] = reader.got[4 + CounterBytes]
<1> DEFINE n == Len(reader.got)
<1>1. CounterBytes \in Nat \ {0} /\ n \in Nat /\ DOMAIN reader.got = 1..n /\ reader.got \in Seq(ImageBytes)
  BY SharedFacts DEF SharedType
<1> DEFINE last == IF 2 + CounterBytes < n THEN 2 + CounterBytes ELSE n
<1>2. /\ Wanted = SubSeq(reader.got, 3, last) /\ last - 3 + 1 = last - 2
      /\ last \in Nat /\ last <= Len(reader.got)
  BY <1>1 DEF Wanted, Part
<1>3. last \in Nat /\ last <= n /\ last <= 2 + CounterBytes
  BY <1>1
<1> HIDE DEF last, n
<1>4. ASSUME NEW k \in 1..last-2
      PROVE  /\ k \in 1..CounterBytes
             /\ k + 2 \in 1..n /\ k + 2 = 3 + k - 1
             /\ k + 2 \in 3..2+CounterBytes /\ (k + 2) - 3 = k - 1
             /\ k + 2 \notin {1, 3 + CounterBytes} /\ k + 2 \notin {2, 4 + CounterBytes}
  BY <1>1, <1>3, SMT
<1>5. DOMAIN Wanted = 1..last-2 /\ \A k \in 1..last-2 : Wanted[k] = reader.got[3 + k - 1]
  <2>1. DOMAIN Wanted = 1..last-3+1 /\ \A k \in 1..last-3+1 : Wanted[k] = reader.got[3 + k - 1]
    BY <1>1, <1>2, Parted
  <2> QED
    BY <1>2, <2>1
<1>6. /\ DOMAIN Wanted \subseteq 1..CounterBytes
      /\ \A k \in DOMAIN Wanted :
            /\ k + 2 \in DOMAIN reader.got /\ Wanted[k] = reader.got[k + 2]
            /\ RegisterOf(k + 2) = reader.want /\ PlaceOf(k + 2) = k - 1
  BY <1>1, <1>4, <1>5 DEF RegisterOf, PlaceOf
<1>7. ASSUME n = ByteCount
      PROVE  /\ Before[1] = reader.got[1] /\ Before[2] = reader.got[2]
             /\ After[1] = reader.got[3 + CounterBytes] /\ After[2] = reader.got[4 + CounterBytes]
  <2>1. Before = SubSeq(reader.got, 1, 2)
    BY <1>1, <1>7, SMT DEF Before, Part, ByteCount, n
  <2>2. After = SubSeq(reader.got, 3 + CounterBytes, 4 + CounterBytes)
    BY <1>1, <1>7, SMT DEF After, Part, ByteCount, n
  <2>3. /\ 1..2-1+1 = 1..2 /\ 1 + 1 - 1 = 1 /\ 1 + 2 - 1 = 2
        /\ (4 + CounterBytes) - (3 + CounterBytes) + 1 = 2
        /\ 3 + CounterBytes + 1 - 1 = 3 + CounterBytes /\ 3 + CounterBytes + 2 - 1 = 4 + CounterBytes
        /\ 1 \in 1..2 /\ 2 \in 1..2
    BY <1>1
  <2>4. /\ 2 \in Nat /\ 2 <= Len(reader.got)
        /\ 3 + CounterBytes \in Nat \ {0} /\ 4 + CounterBytes \in Nat
        /\ 4 + CounterBytes <= Len(reader.got)
    BY <1>1, <1>7 DEF ByteCount, n
  <2>5. \A k \in 1..2-1+1 : Before[k] = reader.got[1 + k - 1]
    BY <1>1, <2>1, <2>4, Parted
  <2>6. \A k \in 1..(4+CounterBytes)-(3+CounterBytes)+1 : After[k] = reader.got[3 + CounterBytes + k - 1]
    BY <1>1, <2>2, <2>4, Parted
  <2> QED
    BY <2>3, <2>5, <2>6
<1> QED
  BY <1>6, <1>7 DEF n

LEMMA LooksComeInOrder == SharedInv => BytesComeInOrder
<1> SUFFICES ASSUME SharedInv PROVE BytesComeInOrder
  OBVIOUS
<1>1. PICK look \in [1..ByteCount -> DOMAIN samples \cup {0}] : LooksAt(look)
  BY DEF SharedInv, BytesAreLooks
<1>2. CounterBytes \in Nat \ {0}
  BY WidthAssumption
<1> DEFINE latch == [k \in 1..CounterBytes |-> look[k + 2]]
<1>3. \A k \in 1..CounterBytes : k + 2 \in 1..ByteCount
  BY <1>2 DEF ByteCount
<1>4. latch \in [1..CounterBytes -> DOMAIN samples \cup {0}]
  BY <1>1, <1>3
<1>5. ASSUME NEW k \in DOMAIN Wanted
      PROVE  latch[k] # 0 /\ Wanted[k] = ByteOf(samples[latch[k]][reader.want], k - 1)
  <2>1. k \in 1..CounterBytes /\ k + 2 \in DOMAIN reader.got /\ Wanted[k] = reader.got[k + 2]
        /\ RegisterOf(k + 2) = reader.want /\ PlaceOf(k + 2) = k - 1
    BY TheParts DEF SharedInv
  <2> QED
    BY <1>1, <2>1 DEF LooksAt
<1>6. ASSUME NEW j \in DOMAIN Wanted, NEW k \in DOMAIN Wanted, j < k
      PROVE  latch[j] <= latch[k]
  <2>1. j \in 1..CounterBytes /\ k \in 1..CounterBytes
        /\ j + 2 \in DOMAIN reader.got /\ k + 2 \in DOMAIN reader.got
    BY TheParts DEF SharedInv
  <2>2. j + 2 < k + 2
    BY <1>6, <2>1
  <2> QED
    BY <1>1, <2>1, <2>2 DEF LooksAt
<1> QED
  BY <1>4, <1>5, <1>6 DEF BytesComeInOrder

(* Equal counts before and after: the samples looked at in between are one. *)
LEMMA EqualLooksAreOne == SharedInv => CheckedReadIsWhole
<1> SUFFICES ASSUME SharedInv, reader.at = Len(Accesses) + 1, Before = After
             PROVE  \E n \in DOMAIN samples :
                       \A k \in DOMAIN Wanted : Wanted[k] = ByteOf(samples[n][reader.want], k - 1)
  BY DEF CheckedReadIsWhole
<1>0. SharedType /\ SamplesInOrder
  BY DEF SharedInv
<1>1. CounterBytes \in Nat \ {0} /\ DOMAIN reader.got = 1..Len(reader.got) /\ DOMAIN samples = 1..Len(samples)
      /\ Len(samples) \in Nat
  BY <1>0, SharedFacts
<1>2. Len(reader.got) = ByteCount
  <2>1. 1 \in 1..9+CounterBytes
    BY <1>1
  <2>2. Len(Accesses) = 9 + CounterBytes
    BY <2>1, NextAccess
  <2>3. reader.at = 10 + CounterBytes
    BY <1>1, <2>2
  <2> QED
    BY <1>0, <1>1, <2>3, SMT DEF SharedType, BytesBefore, ByteCount
<1>3. PICK look \in [1..ByteCount -> DOMAIN samples \cup {0}] : LooksAt(look)
  BY DEF SharedInv, BytesAreLooks
<1>4. 1 \in 1..ByteCount /\ 2 \in 1..ByteCount /\ 3 + CounterBytes \in 1..ByteCount
      /\ 4 + CounterBytes \in 1..ByteCount
  BY <1>1 DEF ByteCount
<1>5. \A k \in 1..ByteCount : look[k] \in DOMAIN samples
  BY <1>1, <1>2, <1>3 DEF LooksAt
<1> DEFINE a == look[1]  b == look[2]  c == look[3 + CounterBytes]  d == look[4 + CounterBytes]
<1>6. a \in DOMAIN samples /\ b \in DOMAIN samples /\ c \in DOMAIN samples /\ d \in DOMAIN samples
  BY <1>4, <1>5
<1>7. ASSUME NEW n \in DOMAIN samples
      PROVE  /\ samples[n][IRQ_COUNTER] \in 0..MaxEvents /\ samples[n][NMI_COUNTER] \in 0..MaxEvents
  <2>1. samples[n][IRQ_COUNTER] \in Nat /\ samples[n][NMI_COUNTER] \in Nat
        /\ samples[n][IRQ_COUNTER] <= Counter.IrqEvents /\ samples[n][NMI_COUNTER] <= Counter.NmiEvents
        /\ Counter.CpuInstructions \in Nat /\ Counter.IrqEvents \in Nat /\ Counter.NmiEvents \in Nat
        /\ Counter.CpuInstructions + Counter.IrqEvents + Counter.NmiEvents <= MaxEvents
    BY <1>0, SharedFacts DEF SamplesInOrder, SharedType, EventsSoFar
  <2> QED
    BY <2>1, ProgramAssumption, SMT
<1>8. /\ RegisterOf(1) = IRQ_COUNTER /\ RegisterOf(3 + CounterBytes) = IRQ_COUNTER
      /\ RegisterOf(2) = NMI_COUNTER /\ RegisterOf(4 + CounterBytes) = NMI_COUNTER
      /\ PlaceOf(1) = 0 /\ PlaceOf(2) = 0 /\ PlaceOf(3 + CounterBytes) = 0 /\ PlaceOf(4 + CounterBytes) = 0
  BY <1>1, SMT DEF RegisterOf, PlaceOf
<1>9. /\ reader.got[1] = samples[a][IRQ_COUNTER] /\ reader.got[2] = samples[b][NMI_COUNTER]
      /\ reader.got[3 + CounterBytes] = samples[c][IRQ_COUNTER]
      /\ reader.got[4 + CounterBytes] = samples[d][NMI_COUNTER]
  <2>1. \A k \in 1..ByteCount :
            reader.got[k] = ByteOf(samples[look[k]][RegisterOf(k)], PlaceOf(k))
    BY <1>1, <1>2, <1>3 DEF LooksAt
  <2> QED
    BY <1>4, <1>6, <1>7, <1>8, <2>1, LowByte
<1>10. samples[a][IRQ_COUNTER] = samples[c][IRQ_COUNTER] /\ samples[b][NMI_COUNTER] = samples[d][NMI_COUNTER]
  BY <1>0, <1>2, <1>9, TheParts
<1>11. \A j, k \in 1..ByteCount : j < k => look[j] <= look[k]
  BY <1>1, <1>2, <1>3 DEF LooksAt
<1>12. CountedSince(b)
  BY <1>1, <1>2, <1>3, <1>4 DEF LooksAt
<1>13. ASSUME NEW k \in DOMAIN Wanted
       PROVE  look[k + 2] = b
  <2>1. k \in 1..CounterBytes
    BY <1>0, TheParts
  <2>2. k + 2 \in 1..ByteCount /\ 2 < k + 2 /\ k + 2 < 3 + CounterBytes
        /\ 3 + CounterBytes < 4 + CounterBytes /\ 1 < 2
    BY <1>1, <2>1 DEF ByteCount
  <2> DEFINE w == look[k + 2]
  <2>3. w \in DOMAIN samples /\ a <= b /\ b <= w /\ w <= c /\ c <= d
    BY <1>4, <1>5, <1>11, <2>2
  <2>4. a \in Nat /\ b \in Nat /\ c \in Nat /\ d \in Nat /\ w \in Nat /\ w <= d
    BY <1>1, <1>6, <2>3
  <2> HIDE DEF a, b, c, d, w
  <2>5. /\ samples[a][IRQ_COUNTER] <= samples[b][IRQ_COUNTER]
        /\ samples[b][IRQ_COUNTER] <= samples[w][IRQ_COUNTER]
        /\ samples[w][IRQ_COUNTER] <= samples[c][IRQ_COUNTER]
        /\ samples[b][NMI_COUNTER] <= samples[w][NMI_COUNTER]
        /\ samples[w][NMI_COUNTER] <= samples[d][NMI_COUNTER]
    BY <1>0, <1>6, <2>3, <2>4 DEF SamplesInOrder
  <2>6. Taken(samples[w]) = Taken(samples[b])
    <3>1. /\ samples[a][IRQ_COUNTER] \in Int /\ samples[b][IRQ_COUNTER] \in Int
          /\ samples[c][IRQ_COUNTER] \in Int /\ samples[w][IRQ_COUNTER] \in Int
          /\ samples[b][NMI_COUNTER] \in Int /\ samples[w][NMI_COUNTER] \in Int
          /\ samples[d][NMI_COUNTER] \in Int
      BY <1>6, <1>7, <2>3
    <3> QED
      BY <1>10, <2>5, <3>1 DEF Taken
  <2>7. ~(w > b)
    <3>1. Taken(samples[b]) \in Int
      BY <1>6, <1>7 DEF Taken
    <3> QED
      BY <1>12, <2>3, <2>6, <3>1 DEF CountedSince
  <2>8. w = b
    BY <2>3, <2>4, <2>7
  <2> QED
    BY <2>8 DEF w
<1>14. ASSUME NEW k \in DOMAIN Wanted
       PROVE  Wanted[k] = ByteOf(samples[b][reader.want], k - 1)
  <2>1. k + 2 \in DOMAIN reader.got /\ Wanted[k] = reader.got[k + 2]
        /\ RegisterOf(k + 2) = reader.want /\ PlaceOf(k + 2) = k - 1
    BY <1>0, TheParts
  <2> QED
    BY <1>3, <1>13, <2>1 DEF LooksAt
<1> QED
  BY <1>6, <1>14

(* However many handlers latch while a program reads, and however deeply    *)
(* they interrupt each other, the bytes it has are those of latches since   *)
(* its own, in order; and if both interrupt counters show the same before   *)
(* and after, they are the bytes of one latch (PeripheralsWriteByte,        *)
(* PeripheralsReadByte), as long as fewer than Radix interrupts happen.     *)
THEOREM CheckedReadsAreWhole == SharedSpec => []BytesOfLatches
<1>1. SharedInv => BytesOfLatches
  BY LooksComeInOrder, EqualLooksAreOne DEF BytesOfLatches
<1> QED
  BY <1>1, SharedInitHolds, SharedStepHolds, PTL DEF SharedSpec
=============================================================================
