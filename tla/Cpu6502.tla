------------------------------ MODULE Cpu6502 ------------------------------
(***************************************************************************)
(* The simulated processor (6502.c): its registers, the memory it works on,*)
(* the two interrupt request latches, the cycle count of the instruction   *)
(* being executed and the event counters it maintains.  One action per     *)
(* entry point of the simulator; ExecuteInsn is split by what the step     *)
(* turns out to be.                                                        *)
(***************************************************************************)
EXTENDS Alu, Memory, Opcodes

CONSTANTS
    Starts,      \* the machine states execution may start from: records [cpu, regs, mem]
    CounterMod   \* the event counters count modulo this; 2^64 in the program

(* Bits 4 and 5 of the status register are set in every state a caller may *)
(* set up (Reset assigns 0x30, the test harness ors 0x30 in).              *)
AlwaysOne == {BF, UF}

IsStart(s) ==
    /\ s.cpu \in CPUType
    /\ IsRegs(s.regs)
    /\ AlwaysOne \subseteq s.regs.SR
    /\ IsMemory(s.mem)

ASSUME StartsAssumption == \A s \in Starts : IsStart(s)
ASSUME CounterModAssumption == CounterMod \in Nat \ {0}

VARIABLES
    CPU,              \* the simulated processor model
    Regs,             \* the register file
    Mem,              \* the 64 KiB of memory
    Cycles,           \* cycles of the current instruction; survives between calls
    HaveNMIRequest,
    HaveIRQRequest,
    Counter,          \* clock cycles, instructions, IRQs and NMIs so far
    Reported          \* which of Error and Warning have been called

requests == <<HaveNMIRequest, HaveIRQRequest>>
vars == <<CPU, Regs, Mem, Cycles, HaveNMIRequest, HaveIRQRequest, Counter, Reported>>

CounterFields == {"ClockCycles", "CpuInstructions", "IrqEvents", "NmiEvents"}

TypeOK ==
    /\ CPU \in CPUType
    /\ IsRegs(Regs)
    /\ IsMemory(Mem)
    /\ Cycles \in 0..8
    /\ HaveNMIRequest \in BOOLEAN
    /\ HaveIRQRequest \in BOOLEAN
    /\ Counter \in [CounterFields -> 0..CounterMod-1]
    /\ Reported \subseteq {"error", "warning"}

Init ==
    /\ \E s \in Starts : CPU = s.cpu /\ Regs = s.regs /\ Mem = s.mem
    /\ Cycles = 0
    /\ HaveNMIRequest = FALSE
    /\ HaveIRQRequest = FALSE
    /\ Counter = [f \in CounterFields |-> 0]
    /\ Reported = {}

-----------------------------------------------------------------------------
(* The stack page and interrupt entry *)

StackPage   == \h0100
NMIVector   == \hFFFA
ResetVector == \hFFFC
IRQVector   == \hFFFE

PUSH_Fault(mem, sp, val) == MemWriteByte(mem, StackPage + sp, val)

(* The memory after a byte, or a word high byte first, is pushed at sp; the *)
(* handler lowers SP by as many bytes.                                      *)
PUSH(mem, sp, val) == MemWriteByte(mem, StackPage + Wrap8(sp), val)

PushWord(mem, sp, w) == PUSH(PUSH(mem, sp, Hi(w)), sp - 1, Lo(w))

(* The byte that the n-th POP from now returns. *)
POP(n) == MemReadByte(Mem, StackPage + Wrap8(Regs.SP + n))

(* What BRK, NMI and IRQ share: save the return address and the status     *)
(* register, mask interrupts, leave decimal mode on the 65C02.             *)
EnterInterrupt(ret, pushedSR, vector) ==
    LET mem == PUSH(PushWord(Mem, Regs.SP, ret), Regs.SP - 2, ToByte(pushedSR))
    IN  /\ Mem' = mem
        /\ Regs' = [Regs EXCEPT !.SP = Wrap8(@ - 3),
                                !.SR = (@ \cup {IFlag}) \ When(DF, CPU = "CPU_65C02"),
                                !.PC = MemReadWord(mem, vector)]
        /\ Cycles' = 7
        /\ UNCHANGED Reported

-----------------------------------------------------------------------------
(* Operand fetch (the ADR_ macros) *)

OperandByte == MemReadByte(Mem, Regs.PC + 1)
OperandWord == MemReadWord(Mem, Regs.PC + 1)

ADR(mode) ==
    CASE mode = "ZP"  -> OperandByte
      [] mode = "ZPX" -> Wrap8(OperandByte + Regs.XR)
      [] mode = "ZPY" -> Wrap8(OperandByte + Regs.YR)
      [] mode = "ABS" -> OperandWord
      [] mode \in {"ABSX", "ABSX_NP"} -> Wrap16(OperandWord + Regs.XR)
      [] mode \in {"ABSY", "ABSY_NP"} -> Wrap16(OperandWord + Regs.YR)
      [] mode = "ZPXIND" -> MemReadZPWord(Mem, OperandByte + Regs.XR)
      [] mode \in {"ZPINDY", "ZPINDY_NP"} -> Wrap16(MemReadZPWord(Mem, OperandByte) + Regs.YR)
      [] OTHER -> MemReadZPWord(Mem, OperandByte)               \* ZPIND

(* Does indexing leave the page, in a mode that charges for it? *)
PAGE_CROSS(mode) ==
    CASE mode = "ABSX"   -> Lo(OperandWord) + Regs.XR >= 256
      [] mode = "ABSY"   -> Lo(OperandWord) + Regs.YR >= 256
      [] mode = "ZPINDY" -> Lo(MemReadZPWord(Mem, OperandByte)) + Regs.YR >= 256
      [] OTHER -> FALSE

CrossPenalty(mode) == IF PAGE_CROSS(mode) THEN 1 ELSE 0

Absolute == {"ABS", "ABSX", "ABSX_NP", "ABSY", "ABSY_NP"}
NextPC(mode) == Wrap16(Regs.PC + (IF mode \in Absolute THEN 3 ELSE 2))

ALU_CY == [IMM |-> 2, ZP |-> 3, ZPX |-> 4, ZPY |-> 4, ABS |-> 4, ABSX |-> 4, ABSY |-> 4,
           ZPXIND |-> 6, ZPINDY |-> 5, ZPIND |-> 5]

STO_CY == [ZP |-> 3, ZPX |-> 4, ZPY |-> 4, ABS |-> 4, ABSX_NP |-> 5, ABSY_NP |-> 5,
           ZPXIND |-> 6, ZPINDY_NP |-> 6, ZPIND |-> 5]

(* The 65C02 shifts indexed by X start from one cycle less and pay for a   *)
(* page crossing.                                                          *)
RMW_CY == [ZP |-> 5, ZPX |-> 6, ABS |-> 6, ABSX |-> 6, ABSX_NP |-> 7, ABSY_NP |-> 7,
           ZPXIND |-> 8, ZPINDY_NP |-> 8]

(* ADC and SBC in decimal mode cost the 65C02 a cycle (and so would ARR,   *)
(* which no 65C02 opcode reaches).                                         *)
DecimalPenalty(op) ==
    IF /\ DF \in Regs.SR
       /\ op \in {"ADC_65C02", "SBC_65C02"} \/ (op = "ARR" /\ CPU = "CPU_65C02")
    THEN 1 ELSE 0

-----------------------------------------------------------------------------
(* The instruction at PC, and the effects that several handlers share *)

Insn == Handlers[CPU][MemReadByte(Mem, Regs.PC)]

(* RMBn, SMBn, BBRn and BBSn carry their bit number in the opcode.         *)
BitNumber == (MemReadByte(Mem, Regs.PC) \div 16) % 8

Step(op, mode) == Insn.op = op /\ Insn.mode = mode

(* Registers change, PC moves past the instruction, memory does not change.*)
Advance(regs, length, cycles) ==
    /\ Regs' = [regs EXCEPT !.PC = Wrap16(Regs.PC + length)]
    /\ Cycles' = cycles
    /\ UNCHANGED <<Mem, Reported>>

-----------------------------------------------------------------------------
(* Handlers: operands in memory *)

ALU_OP ==
    /\ Insn.op \in AluOps
    /\ Insn.mode \in DOMAIN ALU_CY
    /\ LET v == IF Insn.mode = "IMM" THEN OperandByte ELSE MemReadByte(Mem, ADR(Insn.mode))
       IN  Regs' = [ALU(Insn.op, Regs, v) EXCEPT !.PC = NextPC(Insn.mode)]
    /\ Cycles' = ALU_CY[Insn.mode] + CrossPenalty(Insn.mode) + DecimalPenalty(Insn.op)
    /\ UNCHANGED <<Mem, Reported>>

Stored ==
    [STA |-> Regs.AC, STX |-> Regs.XR, STY |-> Regs.YR, STZ |-> 0, SAX |-> And(Regs.AC, Regs.XR)]

STO_OP ==
    /\ Insn.op \in DOMAIN Stored
    /\ Insn.mode \in DOMAIN STO_CY
    /\ Mem' = MemWriteByte(Mem, ADR(Insn.mode), Stored[Insn.op])
    /\ Regs' = [Regs EXCEPT !.PC = NextPC(Insn.mode)]
    /\ Cycles' = STO_CY[Insn.mode]
    /\ UNCHANGED Reported

MEM_OP ==
    /\ Insn.op \in RmwOps
    /\ Insn.mode \in DOMAIN RMW_CY
    /\ LET a == ADR(Insn.mode)
           e == RMW(Insn.op, Regs, MemReadByte(Mem, a))
       IN  /\ Regs' = [e.regs EXCEPT !.PC = NextPC(Insn.mode)]
           /\ Mem' = MemWriteByte(Mem, a, e.val)
    /\ Cycles' = RMW_CY[Insn.mode] + CrossPenalty(Insn.mode)
    /\ UNCHANGED Reported

ZP_BITOP ==
    /\ Insn.op \in {"RMB", "SMB"}
    /\ LET b == Bits(MemReadByte(Mem, OperandByte))
       IN  Mem' = MemWriteByte(Mem, OperandByte,
                      ToByte(IF Insn.op = "SMB" THEN b \cup {BitNumber} ELSE b \ {BitNumber}))
    /\ Regs' = [Regs EXCEPT !.PC = Wrap16(@ + 2)]
    /\ Cycles' = 5
    /\ UNCHANGED Reported

(* SHA, SHX, SHY and TAS store the and of the registers with the incremented *)
(* high byte of the unindexed address; when indexing carries, the high byte  *)
(* of the address is replaced by the stored value.                           *)
UnstableStores == {"SHA", "SHX", "SHY", "TAS"}

UnstableStore ==
    /\ Insn.op \in UnstableStores
    /\ LET base  == IF Insn.mode = "ZPINDY" THEN MemReadZPWord(Mem, OperandByte) ELSE OperandWord
           index == IF Insn.mode = "ABSX" THEN Regs.XR ELSE Regs.YR
           source == CASE Insn.op = "SHX" -> Regs.XR
                       [] Insn.op = "SHY" -> Regs.YR
                       [] OTHER -> And(Regs.AC, Regs.XR)
           val   == And(source, Wrap8(Hi(base) + 1))
           high  == IF Lo(base) + index > 255 THEN val ELSE Hi(base)
       IN  Mem' = MemWriteByte(Mem, ToWord(Wrap8(Lo(base) + index), high), val)
    /\ Regs' = [Regs EXCEPT !.PC = NextPC(Insn.mode),
                            !.SP = IF Insn.op = "TAS" THEN And(Regs.AC, Regs.XR) ELSE @]
    /\ Cycles' = IF Insn.mode = "ZPINDY" THEN 6 ELSE 5
    /\ UNCHANGED Reported

-----------------------------------------------------------------------------
(* Handlers: registers only *)

Accumulator ==
    /\ Insn.op \in RmwOps
    /\ Insn.mode = "ACC"
    /\ LET e == RMW(Insn.op, Regs, Regs.AC)
       IN  Advance([e.regs EXCEPT !.AC = e.val], 1, 2)

ImpliedOps == {"CLC", "SEC", "CLI", "SEI", "CLV", "CLD", "SED", "NOP", "TAX", "TAY", "TXA", "TYA",
               "TSX", "TXS", "INX", "INY", "DEX", "DEY"}

ImpliedRegs(op, r) ==
    CASE op = "CLC" -> [r EXCEPT !.SR = @ \ {CF}]
      [] op = "SEC" -> [r EXCEPT !.SR = @ \cup {CF}]
      [] op = "CLI" -> [r EXCEPT !.SR = @ \ {IFlag}]
      [] op = "SEI" -> [r EXCEPT !.SR = @ \cup {IFlag}]
      [] op = "CLV" -> [r EXCEPT !.SR = @ \ {OF}]
      [] op = "CLD" -> [r EXCEPT !.SR = @ \ {DF}]
      [] op = "SED" -> [r EXCEPT !.SR = @ \cup {DF}]
      [] op = "TAX" -> [r EXCEPT !.XR = r.AC, !.SR = SetNZ(@, r.AC)]
      [] op = "TAY" -> [r EXCEPT !.YR = r.AC, !.SR = SetNZ(@, r.AC)]
      [] op = "TXA" -> LoadAC(r, r.XR)
      [] op = "TYA" -> LoadAC(r, r.YR)
      [] op = "TSX" -> [r EXCEPT !.XR = r.SP, !.SR = SetNZ(@, r.SP)]
      [] op = "TXS" -> [r EXCEPT !.SP = r.XR]
      [] op = "INX" -> LET e == INC(r, r.XR) IN [e.regs EXCEPT !.XR = e.val]
      [] op = "INY" -> LET e == INC(r, r.YR) IN [e.regs EXCEPT !.YR = e.val]
      [] op = "DEX" -> LET e == DEC(r, r.XR) IN [e.regs EXCEPT !.XR = e.val]
      [] op = "DEY" -> LET e == DEC(r, r.YR) IN [e.regs EXCEPT !.YR = e.val]
      [] OTHER -> r                                             \* NOP

Implied ==
    /\ Insn.op \in ImpliedOps
    /\ Insn.mode = "IMP"
    /\ Advance(ImpliedRegs(Insn.op, Regs), 1, 2)

(* The 65C02 fills its unused opcodes with NOPs of different shapes.       *)
NopLength == [NOP11 |-> 1, NOP22 |-> 2, NOP24 |-> 2, NOP34 |-> 3, NOP38 |-> 3]
NopCycles == [NOP11 |-> 1, NOP22 |-> 2, NOP24 |-> 4, NOP34 |-> 4, NOP38 |-> 8]

FillerNop ==
    /\ Insn.op \in DOMAIN NopLength
    /\ Advance(Regs, NopLength[Insn.op], NopCycles[Insn.op])

-----------------------------------------------------------------------------
(* Handlers: the stack *)

Pushed == [PHA |-> Regs.AC, PHX |-> Regs.XR, PHY |-> Regs.YR, PHP |-> ToByte(Regs.SR)]

PushRegister ==
    /\ Insn.op \in DOMAIN Pushed
    /\ Mem' = PUSH(Mem, Regs.SP, Pushed[Insn.op])
    /\ Regs' = [Regs EXCEPT !.SP = Wrap8(@ - 1), !.PC = Wrap16(@ + 1)]
    /\ Cycles' = 3
    /\ UNCHANGED Reported

PulledRegs_Fault(op, r, v) ==
    CASE op = "PLA" -> LoadAC(r, v)
      [] op = "PLX" -> [r EXCEPT !.XR = v, !.SR = SetNZ(@, v)]
      [] op = "PLY" -> [r EXCEPT !.YR = v, !.SR = SetNZ(@, v)]
      [] OTHER -> [r EXCEPT !.SR = Bits(v)]

PulledRegs(op, r, v) ==
    CASE op = "PLA" -> LoadAC(r, v)
      [] op = "PLX" -> [r EXCEPT !.XR = v, !.SR = SetNZ(@, v)]
      [] op = "PLY" -> [r EXCEPT !.YR = v, !.SR = SetNZ(@, v)]
      [] OTHER -> [r EXCEPT !.SR = Bits(v) \cup AlwaysOne]      \* PLP

PullRegister ==
    /\ Insn.op \in {"PLA", "PLX", "PLY", "PLP"}
    /\ Advance([PulledRegs(Insn.op, Regs, POP(1)) EXCEPT !.SP = Wrap8(@ + 1)], 1, 4)

BRK ==
    /\ Insn.op = "BRK"
    /\ EnterInterrupt(Wrap16(Regs.PC + 2), Regs.SR, IRQVector)

(* The low half of the target is read before the return address is pushed, *)
(* the high half after it.                                                 *)
JSR ==
    /\ Insn.op = "JSR"
    /\ LET mem == PushWord(Mem, Regs.SP, Wrap16(Regs.PC + 2))
       IN  /\ Mem' = mem
           /\ Regs' = [Regs EXCEPT !.SP = Wrap8(@ - 2),
                                   !.PC = ToWord(OperandByte, MemReadByte(mem, Regs.PC + 2))]
    /\ Cycles' = 6
    /\ UNCHANGED Reported

RTI_Fault ==
    /\ Insn.op = "RTI"
    /\ Regs' = [Regs EXCEPT !.SR = Bits(POP(1)) \cup AlwaysOne,
                            !.PC = ToWord(POP(3), POP(2)),
                            !.SP = Wrap8(@ + 3)]
    /\ Cycles' = 6
    /\ UNCHANGED <<Mem, Reported>>

RTI ==
    /\ Insn.op = "RTI"
    /\ Regs' = [Regs EXCEPT !.SR = Bits(POP(1)) \cup AlwaysOne,
                            !.PC = ToWord(POP(2), POP(3)),
                            !.SP = Wrap8(@ + 3)]
    /\ Cycles' = 6
    /\ UNCHANGED <<Mem, Reported>>

RTS ==
    /\ Insn.op = "RTS"
    /\ Regs' = [Regs EXCEPT !.PC = Wrap16(ToWord(POP(1), POP(2)) + 1), !.SP = Wrap8(@ + 2)]
    /\ Cycles' = 6
    /\ UNCHANGED <<Mem, Reported>>

-----------------------------------------------------------------------------
(* Handlers: branches and jumps *)

Branches == {"BPL", "BMI", "BVC", "BVS", "BCC", "BCS", "BNE", "BEQ", "BRA"}

Condition(op) ==
    CASE op = "BPL" -> SF \notin Regs.SR
      [] op = "BMI" -> SF \in Regs.SR
      [] op = "BVC" -> OF \notin Regs.SR
      [] op = "BVS" -> OF \in Regs.SR
      [] op = "BCC" -> CF \notin Regs.SR
      [] op = "BCS" -> CF \in Regs.SR
      [] op = "BNE" -> ZF \notin Regs.SR
      [] op = "BEQ" -> ZF \in Regs.SR
      [] OTHER -> TRUE                                          \* BRA

(* PC after a taken branch, from the address behind the instruction; a     *)
(* target in another page than that address costs one more cycle.          *)
Target(after, displacement) == Wrap16(after + Signed(displacement))
FarPenalty(after, target) == IF Hi(target) # Hi(after) THEN 1 ELSE 0

BRANCH_Fault ==
    /\ Insn.op \in Branches
    /\ LET after  == Wrap16(Regs.PC + 2)
           target == Target(after, OperandByte)
       IN  IF Condition(Insn.op)
           THEN /\ Regs' = [Regs EXCEPT !.PC = target]
                /\ Cycles' = 3 + FarPenalty(Regs.PC, target)
           ELSE /\ Regs' = [Regs EXCEPT !.PC = after]
                /\ Cycles' = 2
    /\ UNCHANGED <<Mem, Reported>>

BRANCH ==
    /\ Insn.op \in Branches
    /\ LET after  == Wrap16(Regs.PC + 2)
           target == Target(after, OperandByte)
       IN  IF Condition(Insn.op)
           THEN /\ Regs' = [Regs EXCEPT !.PC = target]
                /\ Cycles' = 3 + FarPenalty(after, target)
           ELSE /\ Regs' = [Regs EXCEPT !.PC = after]
                /\ Cycles' = 2
    /\ UNCHANGED <<Mem, Reported>>

ZP_BIT_BRANCH ==
    /\ Insn.op \in {"BBR", "BBS"}
    /\ LET after  == Wrap16(Regs.PC + 3)
           target == Target(after, MemReadByte(Mem, Regs.PC + 2))
           isSet  == BitNumber \in Bits(MemReadByte(Mem, OperandByte))
       IN  IF isSet = (Insn.op = "BBS")
           THEN /\ Regs' = [Regs EXCEPT !.PC = target]
                /\ Cycles' = 6 + FarPenalty(after, target)
           ELSE /\ Regs' = [Regs EXCEPT !.PC = after]
                /\ Cycles' = 5
    /\ UNCHANGED <<Mem, Reported>>

JMP_abs ==
    /\ Step("JMP", "ABS")
    /\ Regs' = [Regs EXCEPT !.PC = OperandWord]
    /\ Cycles' = 3
    /\ UNCHANGED <<Mem, Reported>>

(* The NMOS part never carries into the pointer's high byte, so a pointer  *)
(* at the end of a page is read from both ends of that page.               *)
JMP_ind ==
    /\ Step("JMP", "IND")
    /\ LET lo == OperandWord
           hi == ToWord(Wrap8(lo + 1), Hi(lo))
       IN  /\ Regs' = [Regs EXCEPT !.PC = ToWord(MemReadByte(Mem, lo), MemReadByte(Mem, hi))]
           /\ Reported' = Reported \cup When("warning", hi # lo + 1)
    /\ Cycles' = 5
    /\ UNCHANGED Mem

JMP_ind_65C02 ==
    /\ Insn.op = "JMP"
    /\ Insn.mode \in {"IND_65C02", "ABSXIND"}
    /\ LET pointer == IF Insn.mode = "ABSXIND" THEN OperandWord + Regs.XR ELSE OperandWord
       IN  Regs' = [Regs EXCEPT !.PC = MemReadWord(Mem, pointer)]
    /\ Cycles' = 6
    /\ UNCHANGED <<Mem, Reported>>

(* Error returns here, so the handler leaves PC and Cycles as they were.   *)
OPC_Illegal ==
    /\ Insn.op = "Illegal"
    /\ Reported' = Reported \cup {"error"}
    /\ UNCHANGED <<Regs, Mem, Cycles>>

-----------------------------------------------------------------------------
(* The entry points *)

IRQRequest ==
    /\ HaveIRQRequest' = TRUE
    /\ UNCHANGED <<CPU, Regs, Mem, Cycles, HaveNMIRequest, Counter, Reported>>

NMIRequest ==
    /\ HaveNMIRequest' = TRUE
    /\ UNCHANGED <<CPU, Regs, Mem, Cycles, HaveIRQRequest, Counter, Reported>>

(* A reset drops both requests and leaves I clear; it does not touch the   *)
(* other registers, the memory or the counters.                            *)
Reset ==
    /\ HaveIRQRequest' = FALSE
    /\ HaveNMIRequest' = FALSE
    /\ Regs' = [Regs EXCEPT !.SR = AlwaysOne, !.PC = MemReadWord(Mem, ResetVector)]
    /\ UNCHANGED <<CPU, Mem, Cycles, Counter, Reported>>

Masked == IFlag \in Regs.SR

Count_Fault(event) ==
    Counter' = [Counter EXCEPT ![event] = (@ + 1) % CounterMod,
                               !.ClockCycles = (@ + Cycles) % CounterMod]

(* The bookkeeping at the end of every ExecuteInsn.                        *)
Count(event) ==
    Counter' = [Counter EXCEPT ![event] = (@ + 1) % CounterMod,
                               !.ClockCycles = (@ + Cycles') % CounterMod]

ServeNMI ==
    /\ HaveNMIRequest
    /\ HaveNMIRequest' = FALSE
    /\ EnterInterrupt(Regs.PC, Regs.SR \ {BF}, NMIVector)
    /\ Count("NmiEvents")
    /\ UNCHANGED <<CPU, HaveIRQRequest>>

ServeIRQ_Fault ==
    /\ HaveIRQRequest
    /\ ~Masked
    /\ HaveIRQRequest' = FALSE
    /\ EnterInterrupt(Regs.PC, Regs.SR \ {BF}, IRQVector)
    /\ Count("IrqEvents")
    /\ UNCHANGED <<CPU, HaveNMIRequest>>

ServeIRQ ==
    /\ ~HaveNMIRequest
    /\ HaveIRQRequest
    /\ ~Masked
    /\ HaveIRQRequest' = FALSE
    /\ EnterInterrupt(Regs.PC, Regs.SR \ {BF}, IRQVector)
    /\ Count("IrqEvents")
    /\ UNCHANGED <<CPU, HaveNMIRequest>>

Handler ==
    \/ ALU_OP \/ STO_OP \/ MEM_OP \/ ZP_BITOP \/ UnstableStore
    \/ Accumulator \/ Implied \/ FillerNop
    \/ PushRegister \/ PullRegister \/ BRK \/ JSR \/ RTI \/ RTS
    \/ BRANCH \/ ZP_BIT_BRANCH \/ JMP_abs \/ JMP_ind \/ JMP_ind_65C02
    \/ OPC_Illegal

ExecuteOpcode_Fault ==
    /\ ~HaveNMIRequest
    /\ Handler
    /\ Count("CpuInstructions")
    /\ UNCHANGED <<CPU, HaveNMIRequest, HaveIRQRequest>>

ExecuteOpcode ==
    /\ ~HaveNMIRequest
    /\ HaveIRQRequest => Masked
    /\ Handler
    /\ Count("CpuInstructions")
    /\ UNCHANGED <<CPU, HaveNMIRequest, HaveIRQRequest>>

ExecuteInsn == ServeNMI \/ ServeIRQ \/ ExecuteOpcode

Next == IRQRequest \/ NMIRequest \/ Reset \/ ExecuteInsn

Spec == Init /\ [][Next]_vars

(* The host keeps calling ExecuteInsn; requests and resets may never come. *)
FairSpec == Spec /\ WF_vars(ExecuteInsn)
=============================================================================
