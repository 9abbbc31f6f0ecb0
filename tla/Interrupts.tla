----------------------------- MODULE Interrupts -----------------------------
(***************************************************************************)
(* What the processor promises to whoever raises interrupts, without its   *)
(* registers, its memory or its instructions: two request latches that     *)
(* remember at most one request each, an interrupt mask, and the number of *)
(* requests taken so far (modulo the width of the counters).               *)
(***************************************************************************)
EXTENDS Naturals

CONSTANT CounterMod

VARIABLES
    nmi,          \* an NMI is pending
    irq,          \* an IRQ is pending
    masked,       \* IRQs are not taken
    nmiTaken,     \* NMIs taken so far
    irqTaken      \* IRQs taken so far

vars == <<nmi, irq, masked, nmiTaken, irqTaken>>

Init ==
    /\ nmi = FALSE
    /\ irq = FALSE
    /\ masked \in BOOLEAN
    /\ nmiTaken = 0
    /\ irqTaken = 0

(* A request that is already pending is not remembered twice.              *)
RaiseNMI == nmi' = TRUE /\ UNCHANGED <<irq, masked, nmiTaken, irqTaken>>
RaiseIRQ == irq' = TRUE /\ UNCHANGED <<nmi, masked, nmiTaken, irqTaken>>

(* A reset forgets both requests and unmasks.                              *)
Clear ==
    /\ nmi' = FALSE
    /\ irq' = FALSE
    /\ masked' = FALSE
    /\ UNCHANGED <<nmiTaken, irqTaken>>

TakeNMI ==
    /\ nmi
    /\ nmi' = FALSE
    /\ masked' = TRUE
    /\ nmiTaken' = (nmiTaken + 1) % CounterMod
    /\ UNCHANGED <<irq, irqTaken>>

(* An IRQ waits for the mask to clear and for a pending NMI.               *)
TakeIRQ ==
    /\ irq
    /\ ~nmi
    /\ ~masked
    /\ irq' = FALSE
    /\ masked' = TRUE
    /\ irqTaken' = (irqTaken + 1) % CounterMod
    /\ UNCHANGED <<nmi, nmiTaken>>

(* The program runs only while there is nothing to take, and may change    *)
(* the mask and nothing else.                                              *)
Instruction ==
    /\ ~nmi
    /\ irq => masked
    /\ masked' \in BOOLEAN
    /\ UNCHANGED <<nmi, irq, nmiTaken, irqTaken>>

Next == RaiseNMI \/ RaiseIRQ \/ Clear \/ TakeNMI \/ TakeIRQ \/ Instruction

Spec == Init /\ [][Next]_vars
=============================================================================
