--------------------------- MODULE CounterProgram ---------------------------
(***************************************************************************)
(* A program on the simulated machine that reads counters the way          *)
(* peripherals.h intends: one write latches all registers, then it selects *)
(* registers and reads each a byte at a time while the processor runs on.  *)
(* Between any two of its accesses an interrupt handler may look at the    *)
(* same latches; it saves the selection register and restores it.          *)
(***************************************************************************)
EXTENDS Peripherals, Sequences

CONSTANTS
    InsnCycles,   \* cycles an instruction may take
    MaxEvents     \* bound: instructions and interrupts after which the model stops

ASSUME ProgramAssumption == InsnCycles \subseteq 0..8 /\ MaxEvents \in Nat

VARIABLES
    main,       \* [pc, latch, got]: what the program is about to do, the bytes it has
    values,     \* the registers it has read completely since it latched
    handler,    \* [pc, saved, latch]
    instant     \* history: the counters and the time at the last latch

vars == <<peripherals, main, values, handler, instant>>

Idle == [pc |-> "latch", latch |-> 0, got |-> <<>>]
Away == [pc |-> "away", saved |-> 0, latch |-> 0]

Init ==
    /\ PeripheralsInit
    /\ main = Idle
    /\ values = <<>>
    /\ handler = Away
    /\ instant = [counter |-> Counter, time |-> NoTime]

-----------------------------------------------------------------------------
(* The program's accesses *)

MainLatch ==
    /\ main.pc = "latch"
    /\ \E ts \in Times \cup {NoTime} :
          /\ PeripheralsWriteByte(LATCH, 0, ts)
          /\ instant' = [counter |-> Counter, time |-> ts]
    /\ main' = [Idle EXCEPT !.pc = "select"]
    /\ values' = <<>>
    /\ UNCHANGED handler

MainSelect ==
    /\ main.pc = "select"
    /\ \E l \in Latches \ DOMAIN values :
          /\ PeripheralsWriteByte(SELECT, l, NoTime)
          /\ main' = [pc |-> "read", latch |-> l, got |-> <<>>]
    /\ UNCHANGED <<values, handler, instant>>

MainRead ==
    /\ main.pc = "read"
    /\ LET got == Append(main.got, PeripheralsReadByte(VALUE + Len(main.got)))
           last == Len(got) = CounterBytes
       IN  /\ main' = [main EXCEPT !.got = got, !.pc = IF last THEN "select" ELSE "read"]
           /\ values' = IF last
                        THEN [l \in DOMAIN values \cup {main.latch} |->
                                 IF l = main.latch THEN got ELSE values[l]]
                        ELSE values
    /\ UNCHANGED <<peripherals, handler, instant>>

(* It may stop at any register and latch again.                            *)
MainAgain ==
    /\ main.pc = "select"
    /\ DOMAIN values # {}
    /\ main' = Idle
    /\ UNCHANGED <<peripherals, values, handler, instant>>

MainStep == handler.pc = "away" /\ (MainLatch \/ MainSelect \/ MainRead \/ MainAgain)

-----------------------------------------------------------------------------
(* The handler's accesses *)

HandlerSave ==
    /\ handler.pc = "save"
    /\ handler' = [handler EXCEPT !.pc = "select", !.saved = PeripheralsReadByte(SELECT)]
    /\ UNCHANGED <<peripherals, main, values, instant>>

HandlerSelect ==
    /\ handler.pc = "select"
    /\ \E l \in Latches :
          /\ PeripheralsWriteByte(SELECT, l, NoTime)
          /\ handler' = [handler EXCEPT !.pc = "restore", !.latch = l]
    /\ UNCHANGED <<main, values, instant>>

HandlerRestore ==
    /\ handler.pc = "restore"
    /\ PeripheralsWriteByte(SELECT, handler.saved, NoTime)
    /\ handler' = Away
    /\ UNCHANGED <<main, values, instant>>

-----------------------------------------------------------------------------
(* The processor *)

EventsSoFar == Counter.CpuInstructions + Counter.IrqEvents + Counter.NmiEvents

Instruction ==
    /\ EventsSoFar < MaxEvents
    /\ \E cycles \in InsnCycles : Advance("CpuInstructions", cycles)
    /\ UNCHANGED <<Latched, LatchedValueSelected, main, values, handler, instant>>

Interrupt ==
    /\ EventsSoFar < MaxEvents
    /\ handler.pc = "away"
    /\ \E event \in {"IrqEvents", "NmiEvents"} : Advance(event, 7)
    /\ handler' = [Away EXCEPT !.pc = "save"]
    /\ UNCHANGED <<Latched, LatchedValueSelected, main, values, instant>>

Next ==
    \/ MainStep
    \/ HandlerSave \/ HandlerSelect \/ HandlerRestore
    \/ Instruction \/ Interrupt

Spec == Init /\ [][Next]_vars

-----------------------------------------------------------------------------
(* The counter behind a latch.                                             *)
CounterLatches == {CLOCKCYCLE_COUNTER, INSTRUCTION_COUNTER, IRQ_COUNTER, NMI_COUNTER}

CounterAt(counter, l) ==
    CASE l = CLOCKCYCLE_COUNTER  -> counter.ClockCycles
      [] l = INSTRUCTION_COUNTER -> counter.CpuInstructions
      [] l = IRQ_COUNTER         -> counter.IrqEvents
      [] l = NMI_COUNTER         -> counter.NmiEvents

BytesOf(v, bytes) == \A k \in DOMAIN bytes : bytes[k] = ByteOf(v, k - 1)

(* The number whose bytes the program collected, low byte first.           *)
Number(bytes) == CHOOSE n \in 0..CounterMod-1 : BytesOf(n, bytes)

(* Whatever runs between the byte accesses, every byte of every counter the *)
(* program has read is a byte of that counter as it was when the program    *)
(* latched, all of them at the same instant ("without having to worry that  *)
(* their content will change along the way", peripherals.h).                *)
NoTearing ==
    \A l \in CounterLatches :
        /\ l \in DOMAIN values => BytesOf(CounterAt(instant.counter, l), values[l])
        /\ main.pc = "read" /\ main.latch = l => BytesOf(CounterAt(instant.counter, l), main.got)

(* The two views of the wall clock a program reads after one latch name the *)
(* same instant, and all ones in both says that there was no time to read.  *)
WallClocksAgree ==
    {WALLCLOCK_TIME, WALLCLOCK_TIME_SPLIT} \subseteq DOMAIN values =>
        LET time  == Number(values[WALLCLOCK_TIME])
            split == Number(values[WALLCLOCK_TIME_SPLIT])
        IN  IF split = CounterMod - 1
            THEN time = CounterMod - 1 /\ instant.time = NoTime
            ELSE time = NsecPerSec * (split \div Half) + (split % Half)

(* A handler that saves and restores the selection register is invisible to *)
(* the program it interrupts: the register reads back what was written.     *)
SelectionKept ==
    main.pc = "read" =>
        LatchedValueSelected = main.latch \/ handler.pc \in {"select", "restore"}
=============================================================================
