---------------------------- MODULE Peripherals -----------------------------
(***************************************************************************)
(* The Counter peripheral (peripherals.c): counters that run while the     *)
(* processor executes, latches that sample all of them at once, and a      *)
(* register that selects which latch shows in the read-only aperture.  A   *)
(* counter is CounterBytes bytes of Radix values each: 8 and 256 in the    *)
(* program, smaller in a model, so that carries between bytes are common.  *)
(***************************************************************************)
EXTENDS Counters

CONSTANTS
    Radix,          \* values of a byte
    CounterBytes,   \* bytes of a counter, an even number
    NsecPerSec,
    Times           \* what the host's clock may show: records [sec, nsec]

Half == Radix^(CounterBytes \div 2)

IsTime(ts) == ts.sec \in 0..Half-1 /\ ts.nsec \in 0..NsecPerSec-1

ASSUME WidthAssumption ==
    /\ Radix \in Nat \ {0, 1}
    /\ CounterBytes \in Nat \ {0}
    /\ CounterMod = Radix^CounterBytes
    /\ CounterMod \in Nat \ {0}
    /\ NsecPerSec \in 1..Half-1

(* What powers are: of the places a counter has, and no more than that.    *)
ASSUME PowersAssumption ==
    /\ Radix^0 = 1
    /\ \A i \in 0..CounterBytes-1 : Radix^(i + 1) = Radix * Radix^i

ASSUME TimesAssumption == \A ts \in Times : IsTime(ts)

(* Offsets in the aperture and values of the selection register.           *)
LATCH  == 0
SELECT == 1
VALUE  == 2

CLOCKCYCLE_COUNTER   == \h00
INSTRUCTION_COUNTER  == \h01
IRQ_COUNTER          == \h02
NMI_COUNTER          == \h03
WALLCLOCK_TIME       == \h80
WALLCLOCK_TIME_SPLIT == \h81

Latches == {CLOCKCYCLE_COUNTER, INSTRUCTION_COUNTER, IRQ_COUNTER, NMI_COUNTER,
            WALLCLOCK_TIME, WALLCLOCK_TIME_SPLIT}

VARIABLES
    Latched,               \* the six latched registers
    LatchedValueSelected

peripherals == <<Counter, Latched, LatchedValueSelected>>

PeripheralsInit ==
    /\ CountersInit
    /\ Latched = [l \in Latches |-> 0]
    /\ LatchedValueSelected = 0

-----------------------------------------------------------------------------
(* Nanoseconds are below 2^32, so that or-ing the halves adds them.  A     *)
(* clock that cannot be read (ts is no time) shows as all ones.            *)
NoTime == [sec |-> Half, nsec |-> 0]

Nanoseconds(ts) == (NsecPerSec * ts.sec + ts.nsec) % CounterMod
Split(ts)       == (Half * ts.sec + ts.nsec) % CounterMod

Sample_Fault(ts) ==
    [l \in Latches |->
        CASE l = CLOCKCYCLE_COUNTER   -> Counter.ClockCycles
          [] l = INSTRUCTION_COUNTER  -> Counter.CpuInstructions
          [] l = IRQ_COUNTER          -> Counter.IrqEvents
          [] l = NMI_COUNTER          -> Counter.NmiEvents
          [] l = WALLCLOCK_TIME       -> IF ts = NoTime THEN CounterMod - 1 ELSE Nanoseconds(ts)
          [] l = WALLCLOCK_TIME_SPLIT -> Split(ts)]

Sample_Stale(ts) ==
    [l \in Latches |->
        CASE l = CLOCKCYCLE_COUNTER   -> Counter.ClockCycles
          [] l = INSTRUCTION_COUNTER  -> Counter.CpuInstructions
          [] l = WALLCLOCK_TIME       -> IF ts = NoTime THEN CounterMod - 1 ELSE Nanoseconds(ts)
          [] l = WALLCLOCK_TIME_SPLIT -> IF ts = NoTime THEN CounterMod - 1 ELSE Split(ts)
          [] OTHER                    -> Latched[l]]

Sample(ts) ==
    [l \in Latches |->
        CASE l = CLOCKCYCLE_COUNTER   -> Counter.ClockCycles
          [] l = INSTRUCTION_COUNTER  -> Counter.CpuInstructions
          [] l = IRQ_COUNTER          -> Counter.IrqEvents
          [] l = NMI_COUNTER          -> Counter.NmiEvents
          [] l = WALLCLOCK_TIME       -> IF ts = NoTime THEN CounterMod - 1 ELSE Nanoseconds(ts)
          [] l = WALLCLOCK_TIME_SPLIT -> IF ts = NoTime THEN CounterMod - 1 ELSE Split(ts)]

(* The write of a byte, when the host's clock shows ts.                    *)
PeripheralsWriteByte(addr, val, ts) ==
    \/ /\ addr = LATCH
       /\ Latched' = Sample(ts)
       /\ UNCHANGED <<Counter, LatchedValueSelected>>
    \/ /\ addr = SELECT
       /\ LatchedValueSelected' = val
       /\ UNCHANGED <<Counter, Latched>>
    \/ /\ addr \notin {LATCH, SELECT}
       /\ UNCHANGED peripherals

ByteOf(v, i) == (v \div Radix^i) % Radix

Selected_Fault ==
    CASE LatchedValueSelected = CLOCKCYCLE_COUNTER -> Counter.ClockCycles
      [] LatchedValueSelected \in Latches \ {CLOCKCYCLE_COUNTER} -> Latched[LatchedValueSelected]
      [] OTHER -> 0

Selected ==
    IF LatchedValueSelected \in Latches THEN Latched[LatchedValueSelected] ELSE 0

(* What a read returns; it changes nothing.                                *)
PeripheralsReadByte(addr) ==
    CASE addr = SELECT -> LatchedValueSelected
      [] addr \in VALUE .. VALUE + CounterBytes - 1 -> ByteOf(Selected, addr - VALUE)
      [] OTHER -> 0
=============================================================================
