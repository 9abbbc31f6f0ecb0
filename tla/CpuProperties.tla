--------------------------- MODULE CpuProperties ---------------------------
(***************************************************************************)
(* What single steps of the processor must do, judged against statements   *)
(* of the repository that do not share code with the handlers: the tables  *)
(* in the header comment of 6502.c, the opcode lists of test_opcodes.py,   *)
(* and the comments at the odd handlers.                                   *)
(***************************************************************************)
EXTENDS Cpu6502, FiniteSets

Opcode == MemReadByte(Mem, Regs.PC)

(* One instruction is executed by this step (and not an interrupt entry).  *)
Executes == ~HaveNMIRequest /\ (HaveIRQRequest => Masked) /\ ExecuteInsn

-----------------------------------------------------------------------------
(* The header comment on undocumented NMOS opcodes: cycles, whether the    *)
(* cycle count carries a star (one more when a page is crossed), and the   *)
(* flags marked X.                                                         *)

DocCycles(opc) ==
    CASE opc \in {\h03, \h13, \h23, \h33, \h43, \h53, \h63, \h73, \hC3, \hD3, \hE3, \hF3} -> 8
      [] opc \in {\h1F, \h1B, \h3F, \h3B, \h5F, \h5B, \h7F, \h7B, \hDF, \hDB, \hFF, \hFB} -> 7
      [] opc \in {\h0F, \h17, \h2F, \h37, \h4F, \h57, \h6F, \h77, \hCF, \hD7, \hEF, \hF7,
                  \h83, \hA3, \h93} -> 6
      [] opc \in {\h07, \h27, \h47, \h67, \hC7, \hE7, \h9B, \h9C, \h9E, \h9F, \hB3} -> 5
      [] opc \in {\h8F, \h97, \hAF, \hB7, \h14, \h34, \h54, \h74, \hD4, \hF4, \h0C,
                  \hBF, \h1C, \h3C, \h5C, \h7C, \hDC, \hFC, \hBB} -> 4
      [] opc \in {\h87, \hA7, \h04, \h44, \h64} -> 3
      [] OTHER -> 2

DocStarred == {\hBF, \hB3, \hBB, \h1C, \h3C, \h5C, \h7C, \hDC, \hFC}

DocNops ==
    {\h1A, \h3A, \h5A, \h7A, \hDA, \hFA, \h80, \h82, \h89, \hC2, \hE2,
     \h04, \h14, \h34, \h44, \h54, \h64, \h74, \hD4, \hF4,
     \h0C, \h1C, \h3C, \h5C, \h7C, \hDC, \hFC}

DocFlags(opc) ==
    CASE opc \in {\h63, \h67, \h6F, \h73, \h77, \h7B, \h7F,                      \* RRA
                  \hE3, \hE7, \hEF, \hF3, \hF7, \hFB, \hFF, \hEB} -> {SF, OF, ZF, CF}  \* ISC, SBC
      [] opc \in {\hA3, \hA7, \hAF, \hB3, \hB7, \hBF, \hBB, \h8B, \hAB} -> {SF, ZF}
      [] opc \in {\h83, \h87, \h8F, \h97, \h93, \h9B, \h9C, \h9E, \h9F}
                 \cup DocNops -> {}
      [] OTHER -> {SF, ZF, CF}                        \* SLO RLA SRE DCP ASR ARR SBX ANC

(* The opcodes test_opcodes.py runs for each processor.                    *)
Documented ==
    UNION { {opc \in Byte : opc % 16 \in {0, 1, 5, 6, 8, 9, 13, 14}} \ {\h80, \h89, \h9E},
            {\hA2, \h24, \h84, \h94, \hA4, \hB4, \hC4, \hE4},
            {\h0A, \h2A, \h4A, \h6A, \h8A, \h9A, \hAA, \hBA, \hCA, \hEA},
            {\h2C, \h4C, \h6C, \h8C, \hAC, \hBC, \hCC, \hEC} }

Jams == {\h02, \h12, \h22, \h32, \h42, \h52, \h62, \h72, \h92, \hB2, \hD2, \hF2}

sim65_supported_opcodes ==
    [CPU_6502 |-> Documented, CPU_6502X |-> Byte \ Jams, CPU_65C02 |-> Byte \ {\hCB, \hDB}]

Undocumented == CPU = "CPU_6502X" /\ Opcode \in Byte \ (Documented \cup Jams)

-----------------------------------------------------------------------------
(* Bits 4 and 5 of the status register read as one in every state, whatever *)
(* is pulled into it: "Bits 5 and 4 aren't used, and always are 1!" (PLP,   *)
(* RTI, Reset).                                                             *)
SrHighBits == AlwaysOne \subseteq Regs.SR

(* The state in which the program finds the processor: see also TypeOK.     *)
StateOK == TypeOK /\ SrHighBits

(* An opcode is three fields, aaabbbcc: roughly the operation, the mode and *)
(* the group.  What the modes have in common is read off these fields, not  *)
(* off the tables.                                                          *)
aaa == Opcode \div 32
bbb == (Opcode \div 4) % 8
cc  == Opcode % 4

(* The address indexing starts from, and the register it adds.  STX, LDX    *)
(* and the combined SAX and LAX cannot be indexed by X.                     *)
IndexBase == IF bbb = 4 THEN MemReadZPWord(Mem, OperandByte) ELSE OperandWord
Index     == IF bbb \in {4, 6} \/ (cc >= 2 /\ aaa \in {4, 5}) THEN Regs.YR ELSE Regs.XR
LeavesPage == Hi(Wrap16(IndexBase + Index)) # Hi(IndexBase)
IfLeavesPage == IF LeavesPage THEN 1 ELSE 0

TableCycles == DocCycles(Opcode) + (IF Opcode \in DocStarred THEN IfLeavesPage ELSE 0)

ChangedFlags == (Regs.SR \ Regs'.SR) \cup (Regs'.SR \ Regs.SR)

(* An undocumented opcode takes as many cycles as its row in the header     *)
(* says, plus one exactly when the row is starred and indexing changes the  *)
(* high byte of the address.  It changes no flag that the row leaves        *)
(* unmarked, but for ARR ($6B), whose flags are FlagsAsDocumented's.        *)
UndocumentedOpcodes ==
    [][Executes /\ Undocumented =>
        /\ Cycles' = TableCycles
        /\ Opcode # \h6B => ChangedFlags \subseteq DocFlags(Opcode)]_vars

(* No undocumented opcode changes a flag that its row leaves unmarked: what *)
(* the header says of the flags, ARR included ("FLAGS: X . . . . X X").     *)
FlagsAsDocumented ==
    [][Executes /\ Undocumented => ChangedFlags \subseteq DocFlags(Opcode)]_vars

-----------------------------------------------------------------------------
(* Pages *)

(* A branch goes to its target or falls through, and pays one cycle for     *)
(* going and another for going to another page than the next instruction's. *)
BranchesTo(after, displacement, taken, cycles) ==
    /\ Regs'.PC = IF taken THEN Wrap16(after + Signed(displacement)) ELSE after
    /\ Cycles' = cycles + (IF ~taken THEN 0 ELSE IF Hi(Regs'.PC) # Hi(after) THEN 2 ELSE 1)

(* xxy10000 branches when the flag xx is y.                                 *)
TestedFlag == CASE aaa \in {0, 1} -> SF [] aaa \in {2, 3} -> OF [] aaa \in {4, 5} -> CF [] OTHER -> ZF
FlagAsWanted == TestedFlag \in Regs.SR <=> aaa % 2 = 1

(* On the 65C02 $80 always branches, and ybbb1111 when bit bbb of a cell in *)
(* page zero is y.                                                          *)
BitOf(byte, n) == (byte \div 2^n) % 2
TestedBit == BitOf(MemReadByte(Mem, OperandByte), (Opcode \div 16) % 8)
BitAsWanted == TestedBit = Opcode \div 128

BranchOutcome ==
    /\ Opcode % 32 = 16 => BranchesTo(Wrap16(Regs.PC + 2), OperandByte, FlagAsWanted, 2)
    /\ CPU = "CPU_65C02" /\ Opcode = \h80 => BranchesTo(Wrap16(Regs.PC + 2), OperandByte, TRUE, 2)
    /\ CPU = "CPU_65C02" /\ Opcode % 16 = 15 =>
          BranchesTo(Wrap16(Regs.PC + 3), MemReadByte(Mem, Regs.PC + 2), BitAsWanted, 5)

(* The opcodes that read at an indexed address: group one, LDY and LDX; on  *)
(* the 65C02 BIT, and the shifts, which write as well.                      *)
ReadsIndexed ==
    \/ cc = 1 /\ aaa # 4 /\ bbb \in {4, 6, 7}
    \/ Opcode \in {\hBC, \hBE} \/ (CPU = "CPU_65C02" /\ Opcode = \h3C)
ShiftsIndexed == Opcode \in {\h1E, \h3E, \h5E, \h7E}

(* Those that write at one: STA; DEC and INC; STZ.                          *)
WritesIndexed == Opcode \in {\h91, \h99, \h9D} \/ (CPU = "CPU_65C02" /\ Opcode = \h9E)

DecimalCycle ==
    IF CPU = "CPU_65C02" /\ DF \in Regs.SR /\ cc = 1 /\ aaa \in {3, 7} THEN 1 ELSE 0

(* Reads pay for leaving the page, writes always take the longer time, and  *)
(* only the 65C02 saves it in the shifts.                                   *)
IndexedCycles ==
    /\ ReadsIndexed  => Cycles' = (IF bbb = 4 THEN 5 ELSE 4) + IfLeavesPage + DecimalCycle
    /\ ShiftsIndexed => Cycles' = IF CPU = "CPU_65C02" THEN 6 + IfLeavesPage ELSE 7
    /\ Opcode \in {\hDE, \hFE} => Cycles' = 7
    /\ WritesIndexed => Cycles' = IF bbb = 4 THEN 6 ELSE 5

SplitPointer == Opcode = \h6C /\ CPU # "CPU_65C02" /\ Lo(OperandWord) = 255

(* What depends on the end of a page.  A branch goes where its condition    *)
(* sends it, in two cycles when it fails, three when it holds and four when *)
(* the target is in another page than the next instruction (BBR and BBS:    *)
(* three more each).  A documented read at an indexed address takes a cycle *)
(* more exactly when indexing leaves the page of the address it starts from,*)
(* a write never does.  And an indirect jump warns exactly when an NMOS     *)
(* part takes its pointer from the last byte of a page.                     *)
PageBoundaries ==
    [][Executes =>
        /\ BranchOutcome
        /\ IndexedCycles
        /\ "warning" \in Reported' <=> ("warning" \in Reported \/ SplitPointer)]_vars

-----------------------------------------------------------------------------
(* Slots *)

(* The bytes of an instruction by the column of its opcode, for the opcodes *)
(* that fall through to the next instruction.                               *)
FallThrough(opc) ==
    /\ opc \in sim65_supported_opcodes[CPU]
    /\ opc \notin {\h00, \h20, \h40, \h60, \h4C, \h6C}
    /\ opc % 32 # 16
    /\ CPU = "CPU_65C02" => opc \notin {\h80, \h7C} /\ opc % 16 # 15

InstructionBytes(opc) ==
    LET column == opc % 16
        oddRow == (opc \div 16) % 2 = 1
    IN  CASE column \in {8, 10} -> 1
          [] column \in {3, 11} /\ CPU = "CPU_65C02" -> 1
          [] column = 9 \/ (column = 11 /\ CPU # "CPU_65C02") -> IF oddRow THEN 3 ELSE 2
          [] column \in {12, 13, 14, 15} -> 3
          [] OTHER -> 2

(* Where the operand is; on the 65C02 xxx10010 uses a pointer in page zero. *)
OperandAddress ==
    CASE Opcode % 32 = 18 -> IndexBase
      [] bbb = 0 -> IF cc \in {0, 2} THEN Regs.PC + 1 ELSE MemReadZPWord(Mem, OperandByte + Regs.XR)
      [] bbb = 1 -> OperandByte
      [] bbb = 2 -> Regs.PC + 1
      [] bbb = 3 -> OperandWord
      [] bbb = 5 -> Wrap8(OperandByte + Index)
      [] OTHER   -> Wrap16(IndexBase + Index)

Operand == MemReadByte(Mem, OperandAddress)
Stores(byte) == MemReadByte(Mem', OperandAddress) = byte
Keeps(register) == Regs'[register] = Regs[register]
Moves(from, to) == Regs'[to] = Regs[from]
CarryIn == Carry(Regs)
KeepsCarry == CF \in Regs'.SR <=> CF \in Regs.SR

(* Z tells of the result, but on NMOS parts of the binary one.              *)
Sums(binary) ==
    /\ DF \notin Regs.SR => Regs'.AC = binary
    /\ ZF \in Regs'.SR <=> IF CPU = "CPU_65C02" THEN Regs'.AC = 0 ELSE binary = 0

Compares(register, v) == Keeps(register) /\ (CF \in Regs'.SR <=> Regs[register] >= v)

(* ORA, AND, EOR, ADC, STA, LDA, CMP, SBC, and what the 65C02 adds to them. *)
GroupOne(v, carryIn) ==
    CASE aaa = 0 -> Regs'.AC = Or(Regs.AC, v)
      [] aaa = 1 -> Regs'.AC = And(Regs.AC, v)
      [] aaa = 2 -> Regs'.AC = Xor(Regs.AC, v)
      [] aaa = 3 -> Sums((Regs.AC + v + carryIn) % 256)
      [] aaa = 4 -> Stores(Regs.AC) /\ Keeps("AC")
      [] aaa = 5 -> Regs'.AC = v
      [] aaa = 6 -> Compares("AC", v)
      [] OTHER   -> Sums((Regs.AC - v - (1 - carryIn)) % 256)

(* ASL, ROL, LSR, ROR, then DEC and INC.                                    *)
Shift(v) ==
    CASE aaa = 0 -> (2 * v) % 256
      [] aaa = 1 -> ((2 * v) % 256) + CarryIn
      [] aaa = 2 -> v \div 2
      [] aaa = 3 -> v \div 2 + 128 * CarryIn
      [] aaa = 6 -> (v - 1) % 256
      [] OTHER   -> (v + 1) % 256

(* A combined opcode shifts like the one before it and goes on like the one *)
(* before that, ADC with the carry shifted out.                             *)
Combined == Stores(Shift(Operand)) /\ GroupOne(Shift(Operand), IF aaa = 3 THEN Operand % 2 ELSE CarryIn)

Regular ==
    /\ cc = 1 /\ Opcode # \h89 => GroupOne(Operand, CarryIn) /\ (aaa # 4 => Mem' = Mem)
    /\ cc = 1 /\ aaa \in {0, 1, 2, 4, 5} => KeepsCarry
    /\ cc = 2 /\ bbb \in {1, 3, 5, 7} /\ aaa > 3 => KeepsCarry
    /\ cc = 2 /\ bbb \in {1, 3, 5, 7} /\ aaa \notin {4, 5} => Stores(Shift(Operand))
    /\ cc = 2 /\ bbb = 2 /\ aaa < 4 => Regs'.AC = Shift(Regs.AC)
    /\ Opcode \in {\hA2, \hA6, \hAE, \hB6, \hBE} => Regs'.XR = Operand
    /\ Opcode \in {\hA0, \hA4, \hAC, \hB4, \hBC} => Regs'.YR = Operand
    /\ Opcode \in {\h86, \h8E, \h96} => Stores(Regs.XR)
    /\ Opcode \in {\h84, \h8C, \h94} => Stores(Regs.YR)
    /\ Opcode \in {\hE0, \hE4, \hEC} => Compares("XR", Operand)
    /\ Opcode \in {\hC0, \hC4, \hCC} => Compares("YR", Operand)

Tests(v) ==
    /\ Keeps("AC")
    /\ ZF \in Regs'.SR <=> And(Regs.AC, v) = 0
    /\ SF \in Regs'.SR <=> v >= 128
    /\ OF \in Regs'.SR <=> BitOf(v, 6) = 1

(* The bits of the accumulator are cleared in a cell.                       *)
Clears(address) ==
    MemReadByte(Mem', address) = ToByte(Bits(MemReadByte(Mem, address)) \ Bits(Regs.AC))

(* A value is stored with the next page's number masked in.                 *)
MixesIn(value) == ~LeavesPage => Stores(And(value, Wrap8(Hi(IndexBase) + 1)))

TopOfStack(mem, n) == MemReadByte(mem, StackPage + Wrap8(Regs.SP + n))

(* No register changes but PC; nothing else changes.                        *)
KeepsRegisters == Regs' = [Regs EXCEPT !.PC = Regs'.PC]
Passes == KeepsRegisters /\ Mem' = Mem

(* The opcodes with a meaning of their own.                                 *)
Single ==
    /\ Opcode \in {\h24, \h2C} => Tests(Operand)
    /\ Opcode \in {\h18, \h38} => (CF \in Regs'.SR <=> Opcode = \h38)
    /\ Opcode \in {\h58, \h78} => (IFlag \in Regs'.SR <=> Opcode = \h78)
    /\ Opcode \in {\hD8, \hF8} => (DF \in Regs'.SR <=> Opcode = \hF8)
    /\ Opcode = \hB8 => OF \notin Regs'.SR
    /\ Opcode = \h8A => Moves("XR", "AC")
    /\ Opcode = \h98 => Moves("YR", "AC")
    /\ Opcode = \hAA => Moves("AC", "XR")
    /\ Opcode = \hA8 => Moves("AC", "YR")
    /\ Opcode = \hBA => Moves("SP", "XR")
    /\ Opcode = \h9A => Moves("XR", "SP")
    /\ Opcode \in {\hCA, \hE8} => Regs'.XR = Wrap8(Regs.XR + (IF Opcode = \hE8 THEN 1 ELSE -1))
    /\ Opcode \in {\h88, \hC8} => Regs'.YR = Wrap8(Regs.YR + (IF Opcode = \hC8 THEN 1 ELSE -1))
    /\ Opcode = \h48 => TopOfStack(Mem', 0) = Regs.AC
    /\ Opcode = \h08 => TopOfStack(Mem', 0) = ToByte(Regs.SR)
    /\ Opcode = \h68 => Regs'.AC = TopOfStack(Mem, 1)
    /\ Opcode = \h28 => Regs'.SR = Bits(TopOfStack(Mem, 1)) \cup AlwaysOne
    /\ Opcode = \h4C => Regs'.PC = OperandWord
    /\ Opcode = \h60 => Regs'.PC = Wrap16(ToWord(TopOfStack(Mem, 1), TopOfStack(Mem, 2)) + 1)
    /\ Opcode = \h40 => Regs'.PC = ToWord(TopOfStack(Mem, 2), TopOfStack(Mem, 3))
    /\ Opcode = \h00 => Regs'.PC = MemReadWord(Mem', IRQVector)
    /\ Opcode = \hEA => Passes /\ Cycles' = 2
    /\ Opcode = \h6C /\ CPU # "CPU_65C02" =>
          Regs'.PC = ToWord(MemReadByte(Mem, OperandWord),
                            MemReadByte(Mem, ToWord(Wrap8(OperandWord + 1), Hi(OperandWord))))

(* SLO, RLA, SRE, RRA, SAX, LAX, DCP and ISC; the immediate operations; and *)
(* the stores that mix in the address, in the page it starts from.          *)
NmosOnly ==
    CPU = "CPU_6502X" =>
        /\ cc = 3 /\ bbb # 2 /\ aaa \notin {4, 5} => Combined
        /\ cc = 3 /\ bbb \in {0, 1, 3, 5} /\ aaa = 4 => Stores(And(Regs.AC, Regs.XR))
        /\ cc = 3 /\ bbb \notin {2, 6} /\ aaa = 5 => Regs'.AC = Operand /\ Regs'.XR = Operand
        /\ Opcode = \hBB => \A register \in {"AC", "XR", "SP"} : Regs'[register] = And(Regs.SP, Operand)
        /\ Opcode \in {\h0B, \h2B} =>
              Regs'.AC = And(Regs.AC, Operand) /\ (CF \in Regs'.SR <=> Regs'.AC >= 128)
        /\ Opcode = \h4B => Regs'.AC = And(Regs.AC, Operand) \div 2
        /\ Opcode = \h6B /\ DF \notin Regs.SR =>
              Regs'.AC = (And(Regs.AC, Operand) \div 2) + 128 * CarryIn
        /\ Opcode = \h8B => Regs'.AC = And(And(Or(Regs.AC, \hEE), Regs.XR), Operand)
        /\ Opcode = \hAB => \A register \in {"AC", "XR"} :
              Regs'[register] = And(Or(Regs.AC, \hEE), Operand)
        /\ Opcode = \hCB => Regs'.XR = (And(Regs.AC, Regs.XR) - Operand) % 256
        /\ Opcode = \hEB => GroupOne(Operand, CarryIn)
        /\ Opcode \in {\h93, \h9B, \h9F} => MixesIn(And(Regs.AC, Regs.XR))
        /\ Opcode = \h9C => MixesIn(Regs.YR)
        /\ Opcode = \h9E => MixesIn(Regs.XR)
        /\ Opcode = \h9B => Regs'.SP = And(Regs.AC, Regs.XR)
        /\ Opcode \in {\h93, \h9F} => Keeps("SP")
        /\ Opcode \in DocNops => Passes

CmosNops == {\h44, \h54, \h5C, \hD4, \hDC, \hF4, \hFC} \cup {\h02, \h22, \h42, \h62, \h82, \hC2, \hE2}
              \cup {opc \in Byte \ {\hCB, \hDB} : opc % 8 = 3}

CmosNopCycles ==
    CASE cc = 3 -> 1 [] cc = 2 -> 2 [] Opcode = \h44 -> 3 [] Opcode = \h5C -> 8 [] OTHER -> 4

CmosOnly ==
    CPU = "CPU_65C02" =>
        /\ Opcode % 32 = 18 => GroupOne(Operand, CarryIn)
        /\ Opcode \in {\h34, \h3C} => Tests(Operand)
        /\ Opcode = \h1A => Regs'.AC = Wrap8(Regs.AC + 1)
        /\ Opcode = \h3A => Regs'.AC = Wrap8(Regs.AC - 1)
        /\ Opcode \in {\h04, \h0C} => Stores(Or(Operand, Regs.AC))
        /\ Opcode \in {\h14, \h1C} => Clears(IF Opcode = \h14 THEN OperandByte ELSE OperandWord)
        /\ Opcode \in {\h64, \h74} => Stores(0)
        /\ Opcode \in {\h9C, \h9E} =>
              MemReadByte(Mem', OperandWord + (IF Opcode = \h9E THEN Regs.XR ELSE 0)) = 0
        /\ Opcode = \h89 => Keeps("AC") /\ (ZF \in Regs'.SR <=> And(Regs.AC, Operand) = 0)
        /\ Opcode = \h6C => Regs'.PC = MemReadWord(Mem, OperandWord)
        /\ Opcode = \h7C => Regs'.PC = MemReadWord(Mem, OperandWord + Regs.XR)
        /\ Opcode = \h7A => Regs'.YR = TopOfStack(Mem, 1)
        /\ Opcode = \hFA => Regs'.XR = TopOfStack(Mem, 1)
        /\ Opcode = \h5A => TopOfStack(Mem', 0) = Regs.YR
        /\ Opcode = \hDA => TopOfStack(Mem', 0) = Regs.XR
        /\ Opcode % 16 = 7 =>
              /\ KeepsRegisters
              /\ \A n \in 0..7 : BitOf(MemReadByte(Mem', OperandByte), n) =
                    IF n = (Opcode \div 16) % 8 THEN Opcode \div 128
                    ELSE BitOf(MemReadByte(Mem, OperandByte), n)
        /\ Opcode \in CmosNops => Passes /\ Cycles' = CmosNopCycles

(* The registers change by the opcodes that are about them and no other.    *)
Nmosx(opcodes) == CPU = "CPU_6502X" /\ Opcode \in opcodes
Cmos(opcodes)  == CPU = "CPU_65C02" /\ Opcode \in opcodes

AboutXR == Opcode \in {\hA2, \hA6, \hAE, \hB6, \hBE, \hAA, \hBA, \hCA, \hE8}
              \/ Nmosx({\hA3, \hA7, \hAB, \hAF, \hB3, \hB7, \hBB, \hBF, \hCB}) \/ Cmos({\hFA})
AboutYR == Opcode \in {\hA0, \hA4, \hAC, \hB4, \hBC, \hA8, \h88, \hC8} \/ Cmos({\h7A})
AboutSP == Opcode \in {\h00, \h20, \h40, \h60, \h08, \h28, \h48, \h68, \h9A}
              \/ Nmosx({\h9B, \hBB}) \/ Cmos({\h5A, \hDA, \h7A, \hFA})
AboutAC == cc = 1 \/ Opcode \in {\h0A, \h2A, \h4A, \h6A, \h8A, \h98, \h68}
              \/ (CPU = "CPU_6502X" /\ cc = 3) \/ Cmos({\h12, \h1A, \h32, \h3A, \h52, \h72, \hB2, \hF2})

Untouched ==
    /\ AboutXR \/ Keeps("XR")
    /\ AboutYR \/ Keeps("YR")
    /\ AboutSP \/ Keeps("SP")
    /\ AboutAC \/ Keeps("AC")

(* The simulator reports an illegal opcode exactly for the opcodes that the *)
(* test script does not list as supported, and those that fall through are  *)
(* as long as their column says: nothing supported is missing from a        *)
(* dispatch table, nothing else is executed (OP6502Table, OP6502XTable,     *)
(* OP65C02Table).  And every supported opcode but the branches and JSR,     *)
(* which PageBoundaries and StackWrites judge, has the result in registers  *)
(* and memory that its bits, or its own line above, give it: an operation   *)
(* or a mode in the slot of another shows in that result.                   *)
DispatchTables ==
    [][Executes =>
        /\ "error" \in Reported' <=>
              ("error" \in Reported \/ Opcode \notin sim65_supported_opcodes[CPU])
        /\ FallThrough(Opcode) => Regs'.PC = Wrap16(Regs.PC + InstructionBytes(Opcode))
        /\ Opcode \in Documented => Regular /\ Single
        /\ NmosOnly
        /\ CmosOnly
        /\ Untouched]_vars

Changed == {a \in DOMAIN Mem' : MemReadByte(Mem', a) # MemReadByte(Mem, a)}

PushedBytes(opc) ==
    CASE opc = \h00 -> 3
      [] opc = \h20 -> 2
      [] opc \in {\h08, \h48} \cup (IF CPU = "CPU_65C02" THEN {\h5A, \hDA} ELSE {}) -> 1
      [] OTHER -> 0

WriteFootprint ==
    LET pushed == PushedBytes(Opcode)
    IN  IF pushed > 0
        THEN /\ Changed \subseteq {StackPage + Wrap8(Regs.SP - k) : k \in 0..pushed-1}
             /\ Regs'.SP = Wrap8(Regs.SP - pushed)
        ELSE Cardinality(Changed) <= 1

(* JSR reads the low half of its target before it pushes and the high half  *)
(* after ("the order of the bus operations on a real 6502"), which shows    *)
(* when the instruction itself lies in the part of the stack it pushes to.  *)
JsrBusOrder ==
    Opcode = \h20 =>
        /\ Lo(Regs'.PC) = MemReadByte(Mem, Regs.PC + 1)
        /\ Hi(Regs'.PC) = MemReadByte(Mem', Regs.PC + 2)

(* An instruction that pushes changes nothing but the cells it pushed, all  *)
(* of them in page one, and lowers the stack pointer by as many, modulo     *)
(* 256; any other instruction changes at most one cell.  JSR does so        *)
(* between the reads of its two operand bytes.                              *)
StackWrites == [][Executes => WriteFootprint /\ JsrBusOrder]_vars
=============================================================================
