--------------------------- MODULE CpuInterrupts ----------------------------
(***************************************************************************)
(* The processor implements the interrupt contract of module Interrupts:   *)
(* the latches are the two request flags, the mask is bit I of the status  *)
(* register, and what was taken is counted in the event counters.          *)
(***************************************************************************)
EXTENDS Cpu6502

Abs == INSTANCE Interrupts WITH
          nmi      <- HaveNMIRequest,
          irq      <- HaveIRQRequest,
          masked   <- Masked,
          nmiTaken <- Counter.NmiEvents,
          irqTaken <- Counter.IrqEvents

(* Requests are remembered once, NMIs are taken first and whatever the mask,*)
(* IRQs only while unmasked, both mask IRQs and count, resets forget both   *)
(* requests, and no instruction loses, invents or counts a request          *)
(* (ExecuteInsn, IRQRequest, NMIRequest, Reset).                            *)
RefinesInterrupts == Abs!Spec

Running == INSTANCE Counters

(* What ExecuteInsn does next, by the field that must count it.             *)
EventOfStep ==
    CASE HaveNMIRequest -> "NmiEvents"
      [] ~HaveNMIRequest /\ HaveIRQRequest /\ ~Masked -> "IrqEvents"
      [] OTHER -> "CpuInstructions"

(* The processor drives the counters as their readers may expect (module    *)
(* Counters), and each call of ExecuteInsn counts what it did, an NMI, an   *)
(* IRQ or an instruction, and exactly the cycles it returns, be they those  *)
(* of an earlier call as after an illegal opcode; an interrupt is not an    *)
(* instruction, and requests and resets count nothing.                      *)
RefinesCounters ==
    /\ Running!CountersSpec
    /\ [][IF ExecuteInsn THEN Running!Advance(EventOfStep, Cycles') ELSE UNCHANGED Counter]_vars

(* Unless NMIs keep coming for ever, no IRQ waits for ever, in a program    *)
(* whose handlers return and that unmasks what it masks itself: ExecuteInsn *)
(* looks at the requests before every instruction, entry saves the status   *)
(* register as it was before masking, and RTI restores it.                  *)
IrqIsTaken == (<>[]~HaveNMIRequest) => (HaveIRQRequest ~> ~HaveIRQRequest)
=============================================================================
