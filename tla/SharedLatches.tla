--------------------------- MODULE SharedLatches ----------------------------
(***************************************************************************)
(* Programs and interrupt handlers that both latch.  There is one set of   *)
(* latches and no way to give it back, so a handler that latches replaces  *)
(* all registers under the program it interrupted.  A program that looks   *)
(* at the interrupt counters before and after can tell: they are latched   *)
(* with the rest, and count an interrupt before its handler runs.          *)
(***************************************************************************)
EXTENDS CounterProgram

(* Fewer interrupts than the low byte of their counter has values.         *)
ASSUME SharingAssumption == MaxEvents \in 0..Radix-1

VARIABLES
    reader,     \* [at, want, got]: the access that is next, the register it is after, the bytes it read
    handlers,   \* the handlers in progress, innermost first: [pc, saved]
    samples     \* history: the latches since the program latched, each as they were

sharedVars == <<peripherals, reader, handlers, samples>>

SharedInit ==
    /\ PeripheralsInit
    /\ reader = [at |-> 0, want |-> 0, got |-> <<>>]
    /\ handlers = <<>>
    /\ samples = <<>>

-----------------------------------------------------------------------------
(* The program: latch, look at both interrupt counters, read the register, *)
(* look at the interrupt counters again.                                   *)

SelectReg(l) == [write |-> TRUE, arg |-> l]
ReadByte(k)  == [write |-> FALSE, arg |-> k]

Check == <<SelectReg(IRQ_COUNTER), ReadByte(0), SelectReg(NMI_COUNTER), ReadByte(0)>>

Accesses ==
    Check \o <<SelectReg(reader.want)>> \o [k \in 1..CounterBytes |-> ReadByte(k - 1)] \o Check

ReaderLatch ==
    /\ reader.at = 0
    /\ \E ts \in Times \cup {NoTime} : PeripheralsWriteByte(LATCH, 0, ts)
    /\ \E l \in Latches : reader' = [at |-> 1, want |-> l, got |-> <<>>]
    /\ samples' = <<Latched'>>
    /\ UNCHANGED handlers

ReaderSelect ==
    /\ reader.at \in DOMAIN Accesses
    /\ Accesses[reader.at].write
    /\ PeripheralsWriteByte(SELECT, Accesses[reader.at].arg, NoTime)
    /\ reader' = [reader EXCEPT !.at = @ + 1]
    /\ UNCHANGED <<handlers, samples>>

ReaderRead ==
    /\ reader.at \in DOMAIN Accesses
    /\ ~Accesses[reader.at].write
    /\ reader' = [reader EXCEPT !.at = @ + 1,
                                !.got = Append(@, PeripheralsReadByte(VALUE + Accesses[reader.at].arg))]
    /\ UNCHANGED <<peripherals, handlers, samples>>

ReaderAgain ==
    /\ reader.at = Len(Accesses) + 1
    /\ reader' = [at |-> 0, want |-> 0, got |-> <<>>]
    /\ samples' = <<>>
    /\ UNCHANGED <<peripherals, handlers>>

ReaderStep == handlers = <<>> /\ (ReaderLatch \/ ReaderSelect \/ ReaderRead \/ ReaderAgain)

-----------------------------------------------------------------------------
(* The handlers: save the selection, latch, select a register, restore.    *)

InHandler(pc) == handlers # <<>> /\ Head(handlers).pc = pc
HandlerAt(pc) == <<[Head(handlers) EXCEPT !.pc = pc]>> \o Tail(handlers)

LatchingSave ==
    /\ InHandler("save")
    /\ handlers' = <<[pc |-> "latch", saved |-> PeripheralsReadByte(SELECT)]>> \o Tail(handlers)
    /\ UNCHANGED <<peripherals, reader, samples>>

LatchingLatch ==
    /\ InHandler("latch")
    /\ \E ts \in Times \cup {NoTime} : PeripheralsWriteByte(LATCH, 0, ts)
    /\ handlers' = HandlerAt("select")
    /\ samples' = IF samples = <<>> THEN <<>> ELSE Append(samples, Latched')
    /\ UNCHANGED reader

LatchingSelect ==
    /\ InHandler("select")
    /\ \E l \in Latches : PeripheralsWriteByte(SELECT, l, NoTime)
    /\ handlers' = HandlerAt("restore")
    /\ UNCHANGED <<reader, samples>>

LatchingRestore ==
    /\ InHandler("restore")
    /\ PeripheralsWriteByte(SELECT, Head(handlers).saved, NoTime)
    /\ handlers' = Tail(handlers)
    /\ UNCHANGED <<reader, samples>>

-----------------------------------------------------------------------------
(* The processor; handlers may be interrupted too.                         *)

SharedInstruction ==
    /\ EventsSoFar < MaxEvents
    /\ \E cycles \in InsnCycles : Advance("CpuInstructions", cycles)
    /\ UNCHANGED <<Latched, LatchedValueSelected, reader, handlers, samples>>

SharedInterrupt ==
    /\ EventsSoFar < MaxEvents
    /\ \E event \in {"IrqEvents", "NmiEvents"} : Advance(event, 7)
    /\ handlers' = <<[pc |-> "save", saved |-> 0]>> \o handlers
    /\ UNCHANGED <<Latched, LatchedValueSelected, reader, samples>>

SharedNext ==
    \/ ReaderStep
    \/ LatchingSave \/ LatchingLatch \/ LatchingSelect \/ LatchingRestore
    \/ SharedInstruction \/ SharedInterrupt

SharedSpec == SharedInit /\ [][SharedNext]_sharedVars

-----------------------------------------------------------------------------
Part(first, last) == SubSeq(reader.got, first, IF last < Len(reader.got) THEN last ELSE Len(reader.got))

Before == Part(1, 2)
Wanted == Part(3, 2 + CounterBytes)
After  == Part(3 + CounterBytes, 4 + CounterBytes)

BytesComeInOrder ==
    \E latch \in [1..CounterBytes -> DOMAIN samples \cup {0}] :
        /\ \A k \in DOMAIN Wanted :
              latch[k] # 0 /\ Wanted[k] = ByteOf(samples[latch[k]][reader.want], k - 1)
        /\ \A j, k \in DOMAIN Wanted : j < k => latch[j] <= latch[k]

CheckedReadIsWhole ==
    reader.at = Len(Accesses) + 1 /\ Before = After =>
        \E n \in DOMAIN samples :
            \A k \in DOMAIN Wanted : Wanted[k] = ByteOf(samples[n][reader.want], k - 1)

(* However many handlers latched meanwhile, every byte the program has is a *)
(* byte of its register at some latch since its own, and never an earlier   *)
(* latch than that of the byte before (PeripheralsReadByte reads latches    *)
(* and not counters).  If both interrupt counters show what they showed     *)
(* before, no handler has latched in between, and the bytes are those of    *)
(* one instant (one write latches "all registers", peripherals.h).  Fewer   *)
(* than Radix interrupts fit between two looks, or their low byte could     *)
(* come round.                                                              *)
BytesOfLatches == BytesComeInOrder /\ CheckedReadIsWhole
=============================================================================
