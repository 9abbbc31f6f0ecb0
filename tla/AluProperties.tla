---------------------------- MODULE AluProperties ----------------------------
(***************************************************************************)
(* The arithmetic of the processor against reference definitions that are  *)
(* stated on numbers (signed, unsigned, decimal) and not on nibbles and    *)
(* sign bits, for the accumulator and carry of the processor and every     *)
(* operand.                                                                *)
(***************************************************************************)
EXTENDS Cpu6502

acc   == Regs.AC
carry == Carry(Regs)

(* The registers in decimal mode or not.                                   *)
File(decimal) == [Regs EXCEPT !.SR = (@ \ {DF}) \cup When(DF, decimal)]

Flag(r, f) == f \in r.SR
ArithFlags(r) == r.SR \cap {CF, ZF, OF, SF}

-----------------------------------------------------------------------------
(* Reference: binary numbers *)

(* ADC leaves the unsigned sum modulo 256, carry says that the unsigned sum *)
(* did not fit and overflow that the signed sum did not.                    *)
AddsBinary(operand) ==
    LET r == ADC_6502(File(FALSE), operand)
        sum == acc + operand + carry
    IN  /\ r.AC = sum % 256
        /\ Flag(r, CF) <=> sum > 255
        /\ Flag(r, OF) <=> (Signed(acc) + Signed(operand) + carry) \notin -128..127
        /\ Flag(r, SF) <=> Signed(r.AC) < 0
        /\ Flag(r, ZF) <=> r.AC = 0

(* SBC adds the complement, flags included.                                 *)
SubtractsBinary(operand) ==
    SBC_65C02(File(FALSE), operand) = ADC_65C02(File(FALSE), 255 - operand)

(* CMP sets the flags of a subtraction without borrow and nothing else.     *)
ComparesBinary(operand) ==
    LET r == [File(FALSE) EXCEPT !.SR = @ \cup {CF}]
        c == COMPARE(r, acc, operand)
        s == SBC_6502(r, operand)
    IN  /\ c = [r EXCEPT !.SR = c.SR]
        /\ ArithFlags(c) \ {OF} = ArithFlags(s) \ {OF}

-----------------------------------------------------------------------------
(* Reference: packed decimal numbers *)

IsBcd(b) == b % 16 < 10 /\ b \div 16 < 10
Decimal(b) == 10 * (b \div 16) + (b % 16)

(* ADC adds packed decimal numbers modulo 100 with a decimal carry, on both *)
(* processors.                                                              *)
AddsDecimal(operand) ==
    LET sum == Decimal(acc) + Decimal(operand) + carry
    IN  \A r \in {ADC_6502(File(TRUE), operand), ADC_65C02(File(TRUE), operand)} :
           /\ IsBcd(r.AC)
           /\ Decimal(r.AC) = sum % 100
           /\ Flag(r, CF) <=> sum > 99

(* SBC subtracts them modulo 100, carry being "no borrow", on both.         *)
SubtractsDecimal(operand) ==
    LET diff == Decimal(acc) - Decimal(operand) - (1 - carry)
    IN  \A r \in {SBC_6502(File(TRUE), operand), SBC_65C02(File(TRUE), operand)} :
           /\ IsBcd(r.AC)
           /\ Decimal(r.AC) = diff % 100
           /\ Flag(r, CF) <=> diff >= 0

(* On NMOS parts the flags of a decimal subtraction are those of the binary *)
(* one for every operand, decimal or not, and Z of a decimal addition is    *)
(* that of the binary sum.                                                  *)
KeepsBinaryFlags(operand) ==
    /\ ArithFlags(SBC_6502(File(TRUE), operand)) = ArithFlags(SBC_6502(File(FALSE), operand))
    /\ Flag(ADC_6502(File(TRUE), operand), ZF) <=> Flag(ADC_6502(File(FALSE), operand), ZF)

(* Operands that are not packed decimal: both processors borrow alike but   *)
(* the 65C02 borrows once more from the high digit when the adjusted low    *)
(* digit is still negative, so its result is 16 less there, and only there. *)
SubtractsAnything(operand) ==
    LET n == SBC_6502(File(TRUE), operand)
        c == SBC_65C02(File(TRUE), operand)
        low == (acc % 16) - (operand % 16) - (1 - carry)
    IN  /\ Flag(n, CF) <=> Flag(c, CF)
        /\ (n.AC - c.AC) % 256 = IF low < -10 THEN 16 ELSE 0

-----------------------------------------------------------------------------
BinaryNumbers ==
    \A operand \in Byte :
        AddsBinary(operand) /\ SubtractsBinary(operand) /\ ComparesBinary(operand)

DecimalNumbers ==
    \A operand \in Byte :
        /\ IsBcd(acc) /\ IsBcd(operand) => AddsDecimal(operand) /\ SubtractsDecimal(operand)
        /\ KeepsBinaryFlags(operand) /\ SubtractsAnything(operand)

(* Both hold in every state, and are checked where the processor is about   *)
(* to add (opcode 69): trying 256 operands in every state takes too long.   *)
Adding == MemReadByte(Mem, Regs.PC) = \h69

(* For every accumulator, operand and carry, binary addition, subtraction   *)
(* and comparison are those of signed and unsigned numbers, flags included  *)
(* (ADC_BINARY_MODE, SBC_BINARY_MODE, COMPARE).                             *)
BinaryArithmetic == Adding => BinaryNumbers

(* In decimal mode packed decimal numbers are added and subtracted as such, *)
(* and bytes that are none give each processor its own known result and     *)
(* flags (the four macros for decimal mode).                                *)
DecimalArithmetic == Adding => DecimalNumbers
=============================================================================
