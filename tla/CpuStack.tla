------------------------------ MODULE CpuStack ------------------------------
(***************************************************************************)
(* The processor together with a history of its control transfers: frames  *)
(* is the sequence of calls and interrupts that have not returned yet, the *)
(* innermost last, with the machine state each of them must come back to.  *)
(* The processor itself knows nothing of it; it only has page one.         *)
(***************************************************************************)
EXTENDS Cpu6502, SequencesExt

VARIABLE frames

stackVars == <<vars, frames>>

StackInit == Init /\ frames = <<>>

(* The state to come back to, and the status byte as it must lie in memory.*)
Frame(kind, pc) ==
    [kind |-> kind, pc |-> pc, sp |-> Regs.SP, sr |-> Regs.SR,
     status |-> IF kind = "BRK" THEN Regs.SR \cup {BF} ELSE Regs.SR \ {BF}]

Enter(kind, pc) == frames' = Append(frames, Frame(kind, pc))
Leave == frames' = IF frames = <<>> THEN <<>> ELSE Front(frames)

StackNMI == ServeNMI /\ Enter("NMI", Regs.PC)
StackIRQ == ServeIRQ /\ Enter("IRQ", Regs.PC)

StackOpcode ==
    /\ ExecuteOpcode
    /\ CASE Insn.op = "BRK" -> Enter("BRK", Wrap16(Regs.PC + 2))
         [] Insn.op = "JSR" -> Enter("JSR", Wrap16(Regs.PC + 3))
         [] Insn.op \in {"RTI", "RTS"} -> Leave
         [] OTHER -> UNCHANGED frames

StackExecuteInsn == StackNMI \/ StackIRQ \/ StackOpcode

StackReset == Reset /\ frames' = <<>>

StackNext ==
    \/ (IRQRequest \/ NMIRequest) /\ UNCHANGED frames
    \/ StackReset
    \/ StackExecuteInsn

StackSpec == StackInit /\ [][StackNext]_stackVars

-----------------------------------------------------------------------------
Slot(f, n) == MemReadByte(Mem, StackPage + Wrap8(f.sp - n))

Intact(f) ==
    LET ret == IF f.kind = "JSR" THEN Wrap16(f.pc - 1) ELSE f.pc
    IN  /\ Slot(f, 0) = Hi(ret)
        /\ Slot(f, 1) = Lo(ret)
        /\ f.kind # "JSR" => Bits(Slot(f, 2)) = f.status

Returns == StackOpcode /\ frames # <<>> /\ Insn.op \in {"RTI", "RTS"}

ResumesAt(f) ==
    /\ Insn.op = "RTS" <=> f.kind = "JSR"
    /\ Regs'.PC = f.pc
    /\ Regs'.SP = f.sp
    /\ Insn.op = "RTI" => Regs'.SR = f.sr

(* Every frame stays intact on the stack: return address high byte first,   *)
(* then low byte, then (but for calls) the status byte, whose break bit is  *)
(* set for BRK alone; a call's address is that of its last byte.  And RTI   *)
(* and RTS resume where the innermost interrupt or call left off, with its  *)
(* stack pointer, and RTI with its status register.  Nested interrupts, a   *)
(* wrapping stack pointer and bytes pushed in between could break either.   *)
FramesHold ==
    /\ [](\A i \in DOMAIN frames : Intact(frames[i]))
    /\ [][Returns => ResumesAt(Last(frames))]_stackVars
=============================================================================
