------------------------------- MODULE MCInsn -------------------------------
(***************************************************************************)
(* Every opcode of every processor model, executed once from machine       *)
(* states on the boundaries: page crossings, address and program counter   *)
(* wrap-around, stack wrap-around, code in the stack page, decimal mode.   *)
(* An addition with every accumulator and both carries, before which the   *)
(* arithmetic is compared with its reference for every operand.  And       *)
(* requests and resets in front of a NOP.                                  *)
(***************************************************************************)
EXTENDS CpuProperties, CpuInterrupts, AluProperties, TLC

(* Where the instruction is, its two operand bytes, and the registers.     *)
Situation(pc, b1, b2, ac, xr, yr, sp) ==
    [pc |-> pc, b1 |-> b1, b2 |-> b2, ac |-> ac, xr |-> xr, yr |-> yr, sp |-> sp]

Situations ==
    { Situation(\h0200, \h10, \h03, \h35, 1, 2, \hFD),        \* nothing special
      Situation(\h0200, \hFF, \h03, \hC0, 1, 1, \h01),        \* index reaches the next page exactly
      Situation(\h0200, \hFF, \hFF, \h99, 255, 255, \h02),    \* the address wraps
      Situation(\hFFFE, \h80, \h7F, \hFF, 0, 128, \h00),      \* PC and stack wrap, branch back
      Situation(\h01FC, \h34, \h12, \h0F, 7, 9, \hFE),        \* the instruction is on the stack
      Situation(\h02FD, \h02, \h02, \h50, 3, 200, \h80),      \* branch into the next page
      Situation(\h02FE, \h02, \h02, \h6F, 60, 250, \hFF) }    \* branch from the page boundary

(* No two flags agree in all of them.                                      *)
StatusValues == {AlwaysOne, AlwaysOne \cup {CF, SF, DF}, AlwaysOne \cup {CF, OF}, 0..7}

(* Pointers in page zero, also one in its last byte.                       *)
Pointers == [a \in {0, 1, 2, \h10, \h11, \h34, \hFE, \hFF} |->
              CASE a = 0 -> \h04 [] a = 1 -> \h82 [] a = 2 -> \h7F [] a = \h10 -> \hF0
                [] a = \h11 -> \h02 [] a = \h34 -> \h99 [] a = \hFE -> \h01 [] OTHER -> \hFF]

(* Data wherever the modes find their operands, other data at each.        *)
Data(s) ==
    LET word == ToWord(s.b1, s.b2)
        p    == MemReadZPWord(Pointers, s.b1)
        px   == MemReadZPWord(Pointers, s.b1 + s.xr)
        at   == {Wrap16(a) : a \in {word, word + s.xr, word + s.yr, p, p + s.yr, px}}
                   \cup {Wrap8(s.b1 + s.xr), Wrap8(s.b1 + s.yr)} \cup {\h0100 + Wrap8(s.sp + n) : n \in 1..3}
    IN  [a \in at |-> (37 * a + \h5A) % 256]

Image(opc, s) ==
    (s.pc :> opc @@ Wrap16(s.pc + 1) :> s.b1 @@ Wrap16(s.pc + 2) :> s.b2) @@ Pointers @@ Data(s)

Machines ==
    { [cpu  |-> cpu,
       regs |-> [AC |-> s.ac, XR |-> s.xr, YR |-> s.yr, SP |-> s.sp, SR |-> sr, PC |-> s.pc],
       mem  |-> Image(opc, s)]
      : cpu \in CPUType, s \in Situations, sr \in StatusValues, opc \in Byte }

ADC == \h69
NOP == \hEA

Additions ==
    { [cpu  |-> "CPU_6502",
       regs |-> [AC |-> byte, XR |-> 0, YR |-> 0, SP |-> 0, SR |-> AlwaysOne \cup sr, PC |-> \h0400],
       mem  |-> (\h0400 :> ADC)]
      : byte \in Byte, sr \in {{}, {CF}} }

MCStarts == Machines \cup Additions

(* The bound: this many instructions from each start, and requests only    *)
(* before anything is counted.                                             *)
MaxInsns == 1

Before == Opcode = NOP /\ \A f \in CounterFields : Counter[f] = 0

Request == Before /\ (IRQRequest \/ NMIRequest)
MCReset == Before /\ Reset
Run  == Counter.CpuInstructions < MaxInsns /\ ExecuteInsn
Halt == Counter.CpuInstructions = MaxInsns /\ UNCHANGED vars

MCSpec == Init /\ [][Request \/ MCReset \/ Run \/ Halt]_vars
=============================================================================
