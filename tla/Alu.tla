-------------------------------- MODULE Alu --------------------------------
(***************************************************************************)
(* The arithmetic and flag effects of the 6502 family, as operators from a *)
(* register file and an operand to a register file (6502.c, the operation  *)
(* macros).  The status register is the SET of the numbers of its one-bits;*)
(* pushing and popping it converts with ToByte and Bits.                   *)
(***************************************************************************)
EXTENDS Bytes

(* Status register bits; bit 5 has no name in the source. *)
CF == 0
ZF == 1
IFlag == 2
DF == 3
BF == 4
UF == 5
OF == 6
SF == 7

IsRegs(r) ==
    r \in [AC : Byte, XR : Byte, YR : Byte, SP : Byte, SR : SUBSET (0..7), PC : Word]

Carry(r) == IF CF \in r.SR THEN 1 ELSE 0
Borrow(r) == 1 - Carry(r)
Negative(v) == v >= 128
LowNibble(v) == v % 16

(* {flag} when the condition holds, else nothing. *)
When(flag, cond) == IF cond THEN {flag} ELSE {}

(* SET_xF for a group of flags at once: those in mask take their new value.*)
SetFlags(sr, mask, new) == (sr \ mask) \cup new

(* TEST_ZF and TEST_SF of a byte. *)
SetNZ(sr, v) == SetFlags(sr, {ZF, SF}, When(ZF, v = 0) \cup When(SF, Negative(v)))

SetNZC(sr, v, c) == SetFlags(SetNZ(sr, v), {CF}, When(CF, c))

(* The four arithmetic flags together with the new accumulator. *)
Arith(r, ac, n, v, z, c) ==
    [r EXCEPT !.AC = ac,
              !.SR = SetFlags(@, {CF, ZF, OF, SF},
                        When(SF, n) \cup When(OF, v) \cup When(ZF, z) \cup When(CF, c))]

(* Two numbers of one sign whose result has the other sign. *)
SignedOverflow(a, b, n) == (Negative(a) # n) /\ (Negative(b) # n)

-----------------------------------------------------------------------------
(* Addition *)

ADC_BINARY_MODE(r, v) ==
    LET sum == r.AC + v + Carry(r)
        ac  == Wrap8(sum)
    IN  Arith(r, ac, Negative(ac), SignedOverflow(r.AC, v, Negative(ac)), ac = 0, sum >= 256)

AdjustUp_Fault(nibble) == IF nibble > 10 THEN (nibble - 10) % 16 ELSE nibble

(* A decimal digit that reached ten carries and is reduced to four bits. *)
AdjustUp(nibble) == IF nibble > 9 THEN (nibble - 10) % 16 ELSE nibble

(* The nibble sums of a decimal addition; high still unadjusted. *)
DecimalSum(r, v) ==
    LET low  == LowNibble(r.AC) + LowNibble(v) + Carry(r)
        high == r.AC \div 16 + v \div 16 + (IF low > 9 THEN 1 ELSE 0)
    IN  [ac    |-> 16 * AdjustUp(high) + AdjustUp(low),
         n     |-> (high \div 8) % 2 = 1,
         carry |-> high > 9]

(* NMOS parts take Z from the binary sum, N and V from the sum before the  *)
(* high digit is adjusted.                                                 *)
ADC_DECIMAL_MODE_6502(r, v) ==
    LET d == DecimalSum(r, v)
    IN  Arith(r, d.ac, d.n, SignedOverflow(r.AC, v, d.n),
              Wrap8(r.AC + v + Carry(r)) = 0, d.carry)

ADC_DECIMAL_MODE_65C02(r, v) ==
    LET d == DecimalSum(r, v)
    IN  Arith(r, d.ac, Negative(d.ac), SignedOverflow(r.AC, v, d.n), d.ac = 0, d.carry)

ADC_6502(r, v)  == IF DF \in r.SR THEN ADC_DECIMAL_MODE_6502(r, v)  ELSE ADC_BINARY_MODE(r, v)
ADC_65C02(r, v) == IF DF \in r.SR THEN ADC_DECIMAL_MODE_65C02(r, v) ELSE ADC_BINARY_MODE(r, v)

-----------------------------------------------------------------------------
(* Subtraction: the operand's complement decides overflow, carry is "no borrow". *)

SubOverflow(a, b, n) == (Negative(a) # n) /\ (~Negative(b) # n)

SBC_BINARY_MODE_Fault(r, v) ==
    LET diff == r.AC - v - Borrow(r)
        ac   == Wrap8(diff)
    IN  Arith(r, ac, Negative(ac), SubOverflow(r.AC, v, Negative(ac)), ac = 0, r.AC >= v)

SBC_BINARY_MODE(r, v) ==
    LET diff == r.AC - v - Borrow(r)
        ac   == Wrap8(diff)
    IN  Arith(r, ac, Negative(ac), SubOverflow(r.AC, v, Negative(ac)), ac = 0, diff >= 0)

(* N, V and Z are those of the binary difference, carry is the borrow out  *)
(* of the high digit.                                                      *)
SBC_DECIMAL_MODE_6502(r, v) ==
    LET bin  == Wrap8(r.AC - v - Borrow(r))
        low  == LowNibble(r.AC) - LowNibble(v) - Borrow(r)
        high == r.AC \div 16 - v \div 16 - (IF low < 0 THEN 1 ELSE 0)
        digit(x) == IF x < 0 THEN (x + 10) % 16 ELSE x
    IN  Arith(r, 16 * digit(high) + digit(low), Negative(bin),
              SubOverflow(r.AC, v, Negative(bin)), bin = 0, high >= 0)

(* The CMOS part borrows a second time when an invalid low digit is still  *)
(* negative after its adjustment.                                          *)
SBC_DECIMAL_MODE_65C02(r, v) ==
    LET low  == LowNibble(r.AC) - LowNibble(v) - Borrow(r)
        lowFixed == IF low < 0 THEN low + 10 ELSE low
        high == r.AC \div 16 - v \div 16 - (IF low < 0 THEN 1 ELSE 0)
        highFixed == (IF high < 0 THEN high + 10 ELSE high) - (IF lowFixed < 0 THEN 1 ELSE 0)
        ac   == 16 * LowNibble(highFixed) + LowNibble(lowFixed)
    IN  Arith(r, ac, Negative(ac), SubOverflow(r.AC, v, (high \div 8) % 2 = 1), ac = 0, high >= 0)

SBC_6502(r, v)  == IF DF \in r.SR THEN SBC_DECIMAL_MODE_6502(r, v)  ELSE SBC_BINARY_MODE(r, v)
SBC_65C02(r, v) == IF DF \in r.SR THEN SBC_DECIMAL_MODE_65C02(r, v) ELSE SBC_BINARY_MODE(r, v)

-----------------------------------------------------------------------------
(* Compare, test, load and the undocumented immediates *)

COMPARE(r, v1, v2) == [r EXCEPT !.SR = SetNZC(@, Wrap8(v1 - v2), v1 >= v2)]

BITIMM(r, v) == [r EXCEPT !.SR = SetFlags(@, {ZF}, When(ZF, And(v, r.AC) = 0))]

BIT(r, v) ==
    [BITIMM(r, v) EXCEPT !.SR =
        SetFlags(@, {SF, OF}, When(SF, 7 \in Bits(v)) \cup When(OF, 6 \in Bits(v)))]

LoadAC(r, v) == [r EXCEPT !.AC = v, !.SR = SetNZ(@, v)]
LAX(r, v) == [LoadAC(r, v) EXCEPT !.XR = v]
ANC(r, v) == LET w == And(r.AC, v) IN [LoadAC(r, w) EXCEPT !.SR = SetFlags(@, {CF}, When(CF, Negative(w)))]
LAS(r, v) == LET w == And(r.SP, v) IN [LAX(r, w) EXCEPT !.SP = w]

SBX(r, v) ==
    LET d == And(r.AC, r.XR) - v
    IN  [r EXCEPT !.XR = Wrap8(d), !.SR = SetNZC(@, Wrap8(d), d >= 0)]

(* AND with the operand, then rotate right, with flags of their own. *)
ARR(r, v) ==
    LET tmp  == And(r.AC, v)
        rot  == tmp \div 2 + 128 * Carry(r)
        low  == IF LowNibble(tmp) + (tmp % 2) > 5 THEN (rot + 6) % 16 ELSE rot % 16
        over == 16 * (tmp \div 16) + 16 * ((tmp \div 16) % 2) > 80
        high == IF over THEN (rot \div 16 + 6) % 16 ELSE rot \div 16
        b    == Bits(rot)
    IN  IF DF \in r.SR
        THEN Arith(r, 16 * high + low, Carry(r) = 1, (6 \in b) # (6 \in Bits(tmp)), rot = 0, over)
        ELSE Arith(r, rot, Negative(rot), (6 \in b) # (5 \in b), rot = 0, 6 \in b)

-----------------------------------------------------------------------------
(* Read-modify-write operations: the new registers and the value written back. *)

Shifted(r, v, c) == [regs |-> [r EXCEPT !.SR = SetNZC(@, v, c)], val |-> v]
Stepped(r, v)    == [regs |-> [r EXCEPT !.SR = SetNZ(@, v)], val |-> v]

ASL(r, v) == Shifted(r, Wrap8(2 * v), Negative(v))
LSR(r, v) == Shifted(r, v \div 2, v % 2 = 1)

ROL(r, v) == Shifted(r, Wrap8(2 * v) + Carry(r), Negative(v))
ROR(r, v) == Shifted(r, v \div 2 + 128 * Carry(r), v % 2 = 1)
INC(r, v) == Stepped(r, Wrap8(v + 1))
DEC(r, v) == Stepped(r, Wrap8(v - 1))
TSB(r, v) == [regs |-> BITIMM(r, v), val |-> Or(v, r.AC)]
TRB(r, v) == [regs |-> BITIMM(r, v), val |-> ToByte(Bits(v) \ Bits(r.AC))]

(* The combined undocumented ones: the shift decides carry, the second     *)
(* operation works on the shifted value.                                   *)
SLO(r, v) == LET s == ASL(r, v) IN [s EXCEPT !.regs = LoadAC(@, Or(r.AC, s.val))]
RLA(r, v) == LET s == ROL(r, v) IN [s EXCEPT !.regs = LoadAC(@, And(r.AC, s.val))]
SRE(r, v) == LET s == LSR(r, v) IN [s EXCEPT !.regs = LoadAC(@, Xor(r.AC, s.val))]
RRA(r, v) ==
    LET s == v \div 2 + 128 * Carry(r)
    IN  [regs |-> ADC_6502([r EXCEPT !.SR = SetFlags(@, {CF}, When(CF, v % 2 = 1))], s), val |-> s]

DCP_Fault(r, v) ==
    LET d == Wrap8(v - 1)
    IN  [regs |-> [SBC_BINARY_MODE([r EXCEPT !.SR = @ \cup {CF}], d) EXCEPT !.AC = r.AC], val |-> d]

DCP(r, v) == LET d == Wrap8(v - 1) IN [regs |-> COMPARE(r, r.AC, d), val |-> d]
ISC(r, v) == LET i == Wrap8(v + 1) IN [regs |-> SBC_6502(r, i), val |-> i]
ASR(r, v) == LET s == LSR(r, And(r.AC, v)) IN [s.regs EXCEPT !.AC = s.val]

-----------------------------------------------------------------------------
(* Dispatch by operation name *)

AluOps == {"ORA", "AND", "EOR", "ADC_6502", "ADC_65C02", "SBC_6502", "SBC_65C02", "CMP", "CPX",
           "CPY", "BIT", "BITIMM", "LDA", "LDX", "LDY", "LAX", "ANC", "ASR", "ARR", "ANE", "LXA",
           "SBX", "LAS", "NOP"}

ALU(op, r, v) ==
    CASE op = "ORA" -> LoadAC(r, Or(r.AC, v))
      [] op = "AND" -> LoadAC(r, And(r.AC, v))
      [] op = "EOR" -> LoadAC(r, Xor(r.AC, v))
      [] op = "ADC_6502"  -> ADC_6502(r, v)
      [] op = "ADC_65C02" -> ADC_65C02(r, v)
      [] op = "SBC_6502"  -> SBC_6502(r, v)
      [] op = "SBC_65C02" -> SBC_65C02(r, v)
      [] op = "CMP" -> COMPARE(r, r.AC, v)
      [] op = "CPX" -> COMPARE(r, r.XR, v)
      [] op = "CPY" -> COMPARE(r, r.YR, v)
      [] op = "BIT" -> BIT(r, v)
      [] op = "BITIMM" -> BITIMM(r, v)
      [] op = "LDA" -> LoadAC(r, v)
      [] op = "LDX" -> [r EXCEPT !.XR = v, !.SR = SetNZ(@, v)]
      [] op = "LDY" -> [r EXCEPT !.YR = v, !.SR = SetNZ(@, v)]
      [] op = "LAX" -> LAX(r, v)
      [] op = "ANC" -> ANC(r, v)
      [] op = "ASR" -> ASR(r, v)
      [] op = "ARR" -> ARR(r, v)
      [] op = "ANE" -> LoadAC(r, And(And(Or(r.AC, \hEE), r.XR), v))
      [] op = "LXA" -> LAX(r, And(Or(r.AC, \hEE), v))
      [] op = "SBX" -> SBX(r, v)
      [] op = "LAS" -> LAS(r, v)
      [] OTHER -> r                                             \* NOP reads and drops its operand

RmwOps == {"ASL", "LSR", "ROL", "ROR", "INC", "DEC", "TSB", "TRB",
           "SLO", "RLA", "SRE", "RRA", "DCP", "ISC"}

RMW(op, r, v) ==
    CASE op = "ASL" -> ASL(r, v)
      [] op = "LSR" -> LSR(r, v)
      [] op = "ROL" -> ROL(r, v)
      [] op = "ROR" -> ROR(r, v)
      [] op = "INC" -> INC(r, v)
      [] op = "DEC" -> DEC(r, v)
      [] op = "TSB" -> TSB(r, v)
      [] op = "TRB" -> TRB(r, v)
      [] op = "SLO" -> SLO(r, v)
      [] op = "RLA" -> RLA(r, v)
      [] op = "SRE" -> SRE(r, v)
      [] op = "RRA" -> RRA(r, v)
      [] op = "DCP" -> DCP(r, v)
      [] OTHER -> ISC(r, v)
=============================================================================
