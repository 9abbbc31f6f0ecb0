---------------------------- MODULE MCInterrupts ----------------------------
(***************************************************************************)
(* Small programs under interrupts that arrive between any two steps, and  *)
(* one with calls, software interrupts, IRQs and NMIs nested in one        *)
(* another on a stack that wraps from $0100 to $01FF.                      *)
(***************************************************************************)
EXTENDS CpuInterrupts, CpuStack, TLC

Code(base, bytes) == [a \in base .. base + Len(bytes) - 1 |-> bytes[a - base + 1]]

(* Main programs at $0200: an idle loop; a loop that masks and unmasks; a  *)
(* software interrupt; an illegal opcode, at which the processor stays;    *)
(* JSR $0240, SED.                                                         *)
NOP == \hEA
Jam(cpu) == IF cpu = "CPU_65C02" THEN \hDB ELSE \h02
Calls == <<\h20, \h40, \h02, \hF8, \h4C, \h00, \h02>>

Programs(cpu) ==
    { <<NOP, \h4C, \h00, \h02>>,
      <<\h78, NOP, \h58, \h4C, \h00, \h02>>,
      <<\h00, NOP, \hF8, \h4C, \h00, \h02>>,
      <<Jam(cpu)>> }

(* PHP, BRK and its padding byte, PLP, RTS.                                *)
Subroutine == Code(\h0240, <<\h08, \h00, \hEA, \h28, \h60>>)

(* The handlers just return.                                               *)
IRQHandler == Code(\h0260, <<\h40>>)
NMIHandler == Code(\h0280, <<\h40>>)
Vectors    == Code(NMIVector, <<\h80, \h02, \h00, \h02, \h60, \h02>>)

Start(cpu, sp, mem) ==
    [cpu  |-> cpu,
     regs |-> [AC |-> \hA5, XR |-> 0, YR |-> 0, SP |-> sp, SR |-> AlwaysOne, PC |-> \h0200],
     mem  |-> mem @@ IRQHandler @@ NMIHandler @@ Vectors]

Short(cpu) ==
    {Start(cpu, 2, Code(\h0200, p)) : p \in Programs(cpu)}

(* An NMOS part and the 65C02, which differ in what entry does to D.  With *)
(* these stack pointers the pushes wrap at different bytes.                *)
Nested ==
    {Start(start[1], start[2], Code(\h0200, Calls) @@ Subroutine) :
        start \in {<<"CPU_6502", 1>>, <<"CPU_65C02", 3>>}}

MCStarts == Nested \cup UNION {Short(cpu) : cpu \in {"CPU_6502", "CPU_65C02"}}

(* The bound: no further request while this many returns are outstanding.  *)
MaxFrames == 2

(* Resets where the stack is empty, so that it does not drift.             *)
MCReset == frames = <<>> /\ StackReset

MCNext ==
    \/ Len(frames) < MaxFrames /\ (IRQRequest \/ NMIRequest) /\ UNCHANGED frames
    \/ MCReset
    \/ StackExecuteInsn

MCSpec == StackInit /\ [][MCNext]_stackVars /\ WF_stackVars(StackExecuteInsn)
=============================================================================
