--------------------------- MODULE Cpu6502Proofs ----------------------------
(***************************************************************************)
(* What is true of the processor for every program, every memory and every *)
(* width of the event counters: its state is well formed, it implements    *)
(* the contracts of those who raise interrupts and of those who read       *)
(* counters, each instruction does what the tables and comments of the     *)
(* code say of it, and its arithmetic is arithmetic.                       *)
(*                                                                         *)
(* Type correctness is not inductive on its own, nor is the constancy of   *)
(* status bits 4 and 5: registers are registers only because what handlers *)
(* compute is, and IInv is the conjunction of the two.                     *)
(***************************************************************************)
EXTENDS CpuProperties, CpuInterrupts, AluProperties, FiniteSetTheorems, TLAPS

-----------------------------------------------------------------------------
(* What the operators the processor is built from return: bytes, words,    *)
(* memories and register files again, for every argument of theirs.        *)

(* Truncation yields a byte or a word, whatever was truncated.             *)
LEMMA WrapType ==
    ASSUME NEW x \in Int
    PROVE  Wrap8(x) \in Byte /\ Wrap16(x) \in Word
  BY SMT DEF Wrap8, Wrap16, Byte, Word

(* A byte is a word.                                                       *)
LEMMA ByteIsWord ==
    ASSUME NEW b \in Byte
    PROVE  b \in Word
  BY SMT DEF Byte, Word

(* A byte is an integer.                                                   *)
LEMMA ByteIsInt ==
    ASSUME NEW b \in Byte
    PROVE  b \in Int /\ b >= 0 /\ b <= 255
  BY SMT DEF Byte

(* So is an address.                                                       *)
LEMMA WordIsInt ==
    ASSUME NEW w \in Word
    PROVE  w \in Int
  BY SMT DEF Word

(* The low half of an address is a byte.                                   *)
LEMMA LoType ==
    ASSUME NEW w \in Word
    PROVE  Lo(w) \in Byte
  BY SMT DEF Byte, Word, Lo

(* The high half of an address is a byte.                                  *)
LEMMA HiType ==
    ASSUME NEW w \in Word
    PROVE  Hi(w) \in Byte
<1>1. (w \div 256) \in Int
  BY SMT DEF Word
<1> QED
  BY <1>1, SMT DEF Byte, Hi

(* Two bytes make an address.                                              *)
LEMMA ToWordType ==
    ASSUME NEW lo \in Byte, NEW hi \in Byte
    PROVE  ToWord(lo, hi) \in Word
<1>1. lo \in Int /\ hi \in Int /\ 0 <= lo /\ lo <= 255 /\ 0 <= hi /\ hi <= 255
  BY SMT DEF Byte
<1> QED
  BY <1>1, SMT DEF Word, ToWord

(* A displacement lies between -128 and 127.                               *)
LEMMA SignedType ==
    ASSUME NEW b \in Byte
    PROVE  Signed(b) \in Int
  BY SMT DEF Byte, Signed

(* A set of bit numbers weighs at most 255, whatever else is in it.        *)
LEMMA ToByteType ==
    ASSUME NEW S
    PROVE  ToByte(S) \in Byte
  BY SMT DEF ToByte, Weight, Byte

(* The one-bits of anything are bit numbers.                               *)
LEMMA BitsType ==
    ASSUME NEW b
    PROVE  Bits(b) \in SUBSET (0..7)
  BY DEF Bits

(* The bitwise operators return bytes.                                     *)
LEMMA BitwiseType ==
    ASSUME NEW a, NEW b
    PROVE  And(a, b) \in Byte /\ Or(a, b) \in Byte /\ Xor(a, b) \in Byte
  BY ToByteType DEF And, Or, Xor

-----------------------------------------------------------------------------
(* Memory *)

(* Reading a memory yields a byte at every address.                        *)
LEMMA ReadByteType ==
    ASSUME NEW mem, IsMemory(mem), NEW a
    PROVE  MemReadByte(mem, a) \in Byte
<1>1. 0 \in Byte
  BY SMT DEF Byte
<1> QED
  BY <1>1 DEF MemReadByte, IsMemory

(* Reading two bytes yields a word.                                        *)
LEMMA ReadWordType ==
    ASSUME NEW mem, IsMemory(mem), NEW a
    PROVE  MemReadWord(mem, a) \in Word /\ MemReadZPWord(mem, a) \in Word
<1>1. \A x : MemReadByte(mem, x) \in Byte
  BY ReadByteType
<1>2. \A x, y : ToWord(MemReadByte(mem, x), MemReadByte(mem, y)) \in Word
  BY <1>1, ToWordType
<1> QED
  BY <1>2 DEF MemReadWord, MemReadZPWord

(* A write leaves a memory, whatever address and value it is given.        *)
LEMMA WriteType ==
    ASSUME NEW mem, IsMemory(mem), NEW a \in Int, NEW v \in Int
    PROVE  IsMemory(MemWriteByte(mem, a, v))
<1>1. Wrap16(a) \in Word /\ Wrap8(v) \in Byte
  BY WrapType
<1>2. MemWriteByte(mem, a, v)
        = [x \in DOMAIN mem \cup {Wrap16(a)} |-> IF x = Wrap16(a) THEN Wrap8(v) ELSE mem[x]]
  BY DEF MemWriteByte
<1> QED
  BY <1>1, <1>2 DEF IsMemory

-----------------------------------------------------------------------------
(* Register files: typed, and with both constant status bits set *)

Sound(r) == IsRegs(r) /\ {BF, UF} \subseteq r.SR

SoundSR(sr) == sr \in SUBSET (0..7) /\ {BF, UF} \subseteq sr

(* Replacing a register by a byte keeps a register file sound.             *)
LEMMA ReplaceByte ==
    ASSUME NEW r, Sound(r), NEW b \in Byte
    PROVE  /\ Sound([r EXCEPT !.AC = b])
           /\ Sound([r EXCEPT !.XR = b])
           /\ Sound([r EXCEPT !.YR = b])
           /\ Sound([r EXCEPT !.SP = b])
  BY SMT DEF Sound, IsRegs

(* So does replacing the status register by one with bits 4 and 5 set.     *)
LEMMA ReplaceSR ==
    ASSUME NEW r, Sound(r), NEW sr, SoundSR(sr)
    PROVE  Sound([r EXCEPT !.SR = sr])
  BY SMT DEF Sound, SoundSR, IsRegs

(* So does replacing the program counter by an address.                    *)
LEMMA ReplacePC ==
    ASSUME NEW r, Sound(r), NEW w \in Word
    PROVE  Sound([r EXCEPT !.PC = w])
  BY SMT DEF Sound, IsRegs

(* The fields of a sound register file.                                    *)
LEMMA FieldTypes ==
    ASSUME NEW r, Sound(r)
    PROVE  /\ r.AC \in Byte /\ r.XR \in Byte /\ r.YR \in Byte /\ r.SP \in Byte
           /\ r.PC \in Word /\ SoundSR(r.SR)
  BY SMT DEF Sound, SoundSR, IsRegs

(* A flag group that leaves bits 4 and 5 out of its mask cannot clear them. *)
LEMMA SetFlagsSound ==
    ASSUME NEW sr, SoundSR(sr), NEW mask, BF \notin mask, UF \notin mask,
           NEW new \in SUBSET (0..7)
    PROVE  SoundSR(SetFlags(sr, mask, new))
<1>1. SetFlags(sr, mask, new) \in SUBSET (0..7)
  BY DEF SoundSR, SetFlags
<1>2. BF \in SetFlags(sr, mask, new) /\ UF \in SetFlags(sr, mask, new)
  BY DEF SoundSR, SetFlags
<1> QED
  BY <1>1, <1>2 DEF SoundSR

(* A conditional flag is a set of bit numbers.                             *)
LEMMA WhenType ==
    ASSUME NEW flag \in 0..7, NEW cond
    PROVE  When(flag, cond) \in SUBSET (0..7)
  BY DEF When

(* The N and Z flags, and C with them.                                     *)
LEMMA SetNZSound ==
    ASSUME NEW sr, SoundSR(sr), NEW v
    PROVE  SoundSR(SetNZ(sr, v))
<1>1. When(ZF, v = 0) \cup When(SF, Negative(v)) \in SUBSET (0..7)
  <2>1. ZF \in 0..7 /\ SF \in 0..7
    BY SMT DEF ZF, SF
  <2> QED
    BY <2>1, WhenType
<1>2. BF \notin {ZF, SF} /\ UF \notin {ZF, SF}
  BY SMT DEF BF, UF, ZF, SF
<1> QED
  BY <1>1, <1>2, SetFlagsSound DEF SetNZ

(* The N, Z and C flags together.                                          *)
LEMMA SetNZCSound ==
    ASSUME NEW sr, SoundSR(sr), NEW v, NEW c
    PROVE  SoundSR(SetNZC(sr, v, c))
<1>1. When(CF, c) \in SUBSET (0..7)
  <2>1. CF \in 0..7
    BY SMT DEF CF
  <2> QED
    BY <2>1, WhenType
<1>2. BF \notin {CF} /\ UF \notin {CF}
  BY SMT DEF BF, UF, CF
<1> QED
  BY <1>1, <1>2, SetFlagsSound, SetNZSound DEF SetNZC

(* The result of an addition or a subtraction.                             *)
LEMMA ArithSound ==
    ASSUME NEW r, Sound(r), NEW ac \in Byte, NEW n, NEW v, NEW z, NEW c
    PROVE  Sound(Arith(r, ac, n, v, z, c))
<1> DEFINE new == When(SF, n) \cup When(OF, v) \cup When(ZF, z) \cup When(CF, c)
           sr  == SetFlags(r.SR, {CF, ZF, OF, SF}, new)
<1>1. new \in SUBSET (0..7)
  <2>1. CF \in 0..7 /\ ZF \in 0..7 /\ SF \in 0..7 /\ OF \in 0..7
    BY SMT DEF CF, ZF, SF, OF
  <2> QED
    BY <2>1, WhenType
<1>2. BF \notin {CF, ZF, OF, SF} /\ UF \notin {CF, ZF, OF, SF}
  BY SMT DEF BF, UF, CF, ZF, SF, OF
<1>3. SoundSR(sr)
  BY <1>1, <1>2, SetFlagsSound, FieldTypes
<1> HIDE DEF new
<1>4. Arith(r, ac, n, v, z, c) = [[r EXCEPT !.AC = ac] EXCEPT !.SR = sr]
  BY DEF Arith, Sound, IsRegs, new
<1> HIDE DEF sr
<1> QED
  <2>1. Sound([r EXCEPT !.AC = ac])
    BY ReplaceByte
  <2> QED
    BY <1>3, <1>4, <2>1, ReplaceSR

-----------------------------------------------------------------------------
(* The operations, one by one *)

(* The decimal digits a nibble sum or difference is adjusted to.           *)
LEMMA LowNibbleType ==
    ASSUME NEW b \in Int
    PROVE  LowNibble(b) \in 0..15
  BY SMT DEF LowNibble

(* The high digit of a byte.                                               *)
LEMMA HighNibbleType ==
    ASSUME NEW b \in Byte
    PROVE  (b \div 16) \in 0..15
  BY SMT DEF Byte

(* Two digits make a byte.                                                 *)
LEMMA DigitsType ==
    ASSUME NEW h \in 0..15, NEW l \in 0..15
    PROVE  16 * h + l \in Byte
  BY SMT DEF Byte

(* The carry is one bit, and so is its complement.                         *)
LEMMA CarryType ==
    ASSUME NEW r
    PROVE  Carry(r) \in 0..1 /\ Borrow(r) \in 0..1
  BY SMT DEF Carry, Borrow

(* Loading a register sets N and Z.                                        *)
LEMMA LoadSound ==
    ASSUME NEW r, Sound(r), NEW v \in Byte
    PROVE  /\ Sound(LoadAC(r, v))
           /\ Sound([r EXCEPT !.XR = v, !.SR = SetNZ(@, v)])
           /\ Sound([r EXCEPT !.YR = v, !.SR = SetNZ(@, v)])
<1>1. SoundSR(SetNZ(r.SR, v))
  BY FieldTypes, SetNZSound
<1>2. \A q : Sound(q) => Sound([q EXCEPT !.SR = SetNZ(r.SR, v)])
  BY <1>1, ReplaceSR
<1>3. Sound([r EXCEPT !.AC = v]) /\ Sound([r EXCEPT !.XR = v]) /\ Sound([r EXCEPT !.YR = v])
  BY ReplaceByte
<1> QED
  BY <1>2, <1>3 DEF LoadAC

(* A comparison replaces three flags.                                      *)
LEMMA CompareSound ==
    ASSUME NEW r, Sound(r), NEW a, NEW b
    PROVE  Sound(COMPARE(r, a, b))
  BY FieldTypes, SetNZCSound, ReplaceSR DEF COMPARE

(* BIT and its immediate form replace flags only.                          *)
LEMMA BitSound ==
    ASSUME NEW r, Sound(r), NEW v
    PROVE  Sound(BITIMM(r, v)) /\ Sound(BIT(r, v))
<1>1. \A q : Sound(q) => Sound(BITIMM(q, v))
  <2>1. BF \notin {ZF} /\ UF \notin {ZF} /\ ZF \in 0..7
    BY SMT DEF ZF, BF, UF
  <2> QED
    BY <2>1, WhenType, FieldTypes, SetFlagsSound, ReplaceSR DEF BITIMM
<1>2. \A sr, c, d : SoundSR(sr) => SoundSR(SetFlags(sr, {SF, OF}, When(SF, c) \cup When(OF, d)))
  <2>1. BF \notin {SF, OF} /\ UF \notin {SF, OF} /\ SF \in 0..7 /\ OF \in 0..7
    BY SMT DEF SF, OF, BF, UF
  <2> QED
    BY <2>1, WhenType, SetFlagsSound
<1>3. Sound(BITIMM(r, v))
  BY <1>1
<1> QED
  BY <1>2, <1>3, FieldTypes, ReplaceSR DEF BIT

(* Binary addition and subtraction.                                        *)
LEMMA BinarySound ==
    ASSUME NEW r, Sound(r), NEW v \in Byte
    PROVE  Sound(ADC_BINARY_MODE(r, v)) /\ Sound(SBC_BINARY_MODE(r, v))
<1>1. r.AC + v + Carry(r) \in Int /\ r.AC - v - Borrow(r) \in Int
  BY FieldTypes, ByteIsInt, CarryType, SMT
<1>2. Wrap8(r.AC + v + Carry(r)) \in Byte /\ Wrap8(r.AC - v - Borrow(r)) \in Byte
  BY <1>1, WrapType
<1> QED
  BY <1>2, ArithSound DEF ADC_BINARY_MODE, SBC_BINARY_MODE

(* The digits of a decimal sum fit a byte, decimal operands or not.        *)
LEMMA DecimalSumType ==
    ASSUME NEW r, Sound(r), NEW v \in Byte
    PROVE  DecimalSum(r, v).ac \in Byte
<1> DEFINE low  == LowNibble(r.AC) + LowNibble(v) + Carry(r)
           high == r.AC \div 16 + v \div 16 + (IF low > 9 THEN 1 ELSE 0)
<1>1. LowNibble(r.AC) \in 0..15 /\ LowNibble(v) \in 0..15
  BY FieldTypes, ByteIsInt, LowNibbleType
<1>2. (r.AC \div 16) \in 0..15 /\ (v \div 16) \in 0..15
  BY FieldTypes, HighNibbleType
<1>3. low \in 0..31
  BY <1>1, CarryType, SMT
<1>4. high \in 0..31
  <2>1. (IF low > 9 THEN 1 ELSE 0) \in 0..1
    OBVIOUS
  <2> HIDE DEF low
  <2> QED
    BY <1>2, <2>1, SMT
<1>5. \A x \in 0..31 : AdjustUp(x) \in 0..15
  BY SMT DEF AdjustUp
<1>6. DecimalSum(r, v).ac = 16 * AdjustUp(high) + AdjustUp(low)
  BY DEF DecimalSum
<1> HIDE DEF low, high
<1> QED
  BY <1>3, <1>4, <1>5, <1>6, DigitsType

(* Decimal addition.                                                       *)
LEMMA DecimalAddSound ==
    ASSUME NEW r, Sound(r), NEW v \in Byte
    PROVE  Sound(ADC_DECIMAL_MODE_6502(r, v)) /\ Sound(ADC_DECIMAL_MODE_65C02(r, v))
  BY DecimalSumType, ArithSound DEF ADC_DECIMAL_MODE_6502, ADC_DECIMAL_MODE_65C02

(* Decimal subtraction, NMOS parts.                                        *)
LEMMA DecimalSubtract6502Sound ==
    ASSUME NEW r, Sound(r), NEW v \in Byte
    PROVE  Sound(SBC_DECIMAL_MODE_6502(r, v))
<1> DEFINE low  == LowNibble(r.AC) - LowNibble(v) - Borrow(r)
           high == r.AC \div 16 - v \div 16 - (IF low < 0 THEN 1 ELSE 0)
           digit(x) == IF x < 0 THEN (x + 10) % 16 ELSE x
<1>1. LowNibble(r.AC) \in 0..15 /\ LowNibble(v) \in 0..15
  BY FieldTypes, ByteIsInt, LowNibbleType
<1>2. (r.AC \div 16) \in 0..15 /\ (v \div 16) \in 0..15
  BY FieldTypes, HighNibbleType
<1>3. low \in -16..15
  BY <1>1, CarryType, SMT
<1>4. high \in -16..15
  <2>1. (IF low < 0 THEN 1 ELSE 0) \in 0..1
    OBVIOUS
  <2> HIDE DEF low
  <2> QED
    BY <1>2, <2>1, SMT
<1>5. \A x \in -16..15 : digit(x) \in 0..15
  BY SMT
<1>6. digit(high) \in 0..15 /\ digit(low) \in 0..15
  <2> HIDE DEF low, high, digit
  <2> QED
    BY <1>3, <1>4, <1>5
<1>7. 16 * digit(high) + digit(low) \in Byte
  <2> HIDE DEF low, high, digit
  <2> QED
    BY <1>6, DigitsType
<1> QED
  BY <1>7, ArithSound DEF SBC_DECIMAL_MODE_6502

(* Decimal subtraction, 65C02.                                             *)
LEMMA DecimalSubtract65C02Sound ==
    ASSUME NEW r, Sound(r), NEW v \in Byte
    PROVE  Sound(SBC_DECIMAL_MODE_65C02(r, v))
<1> DEFINE low  == LowNibble(r.AC) - LowNibble(v) - Borrow(r)
           lowFixed == IF low < 0 THEN low + 10 ELSE low
           high == r.AC \div 16 - v \div 16 - (IF low < 0 THEN 1 ELSE 0)
           highFixed == (IF high < 0 THEN high + 10 ELSE high) - (IF lowFixed < 0 THEN 1 ELSE 0)
<1>1. LowNibble(r.AC) \in 0..15 /\ LowNibble(v) \in 0..15
  BY FieldTypes, ByteIsInt, LowNibbleType
<1>2. (r.AC \div 16) \in 0..15 /\ (v \div 16) \in 0..15
  BY FieldTypes, HighNibbleType
<1>3. low \in Int
  BY <1>1, CarryType, SMT
<1>4. lowFixed \in Int
  <2> HIDE DEF low
  <2> QED
    BY <1>3, SMT
<1>5. high \in Int
  <2> HIDE DEF low
  <2> QED
    BY <1>2, SMT
<1>6. highFixed \in Int
  <2> HIDE DEF high, lowFixed
  <2> QED
    BY <1>5, SMT
<1>7. 16 * LowNibble(highFixed) + LowNibble(lowFixed) \in Byte
  <2> HIDE DEF highFixed, lowFixed
  <2> QED
    BY <1>4, <1>6, LowNibbleType, DigitsType
<1> QED
  BY <1>7, ArithSound DEF SBC_DECIMAL_MODE_65C02

(* Addition and subtraction in either mode, on either part.                *)
LEMMA AddSubtractSound ==
    ASSUME NEW r, Sound(r), NEW v \in Byte
    PROVE  /\ Sound(ADC_6502(r, v)) /\ Sound(ADC_65C02(r, v))
           /\ Sound(SBC_6502(r, v)) /\ Sound(SBC_65C02(r, v))
  BY BinarySound, DecimalAddSound, DecimalSubtract6502Sound, DecimalSubtract65C02Sound
     DEF ADC_6502, ADC_65C02, SBC_6502, SBC_65C02

-----------------------------------------------------------------------------
(* The undocumented operations *)

(* The loads that also and.                                                *)
LEMMA LoadedSound ==
    ASSUME NEW r, Sound(r), NEW v \in Byte
    PROVE  Sound(LAX(r, v)) /\ Sound(LAS(r, v)) /\ Sound(ANC(r, v))
<1>1. \A b \in Byte : Sound(LAX(r, b))
  BY LoadSound, ReplaceByte DEF LAX
<1>2. Sound(LAS(r, v))
  BY <1>1, BitwiseType, ReplaceByte DEF LAS
<1>3. Sound(ANC(r, v))
  <2>1. BF \notin {CF} /\ UF \notin {CF} /\ CF \in 0..7
    BY SMT DEF CF, BF, UF
  <2>2. Sound(LoadAC(r, And(r.AC, v)))
    BY BitwiseType, LoadSound
  <2> QED
    BY <2>1, <2>2, WhenType, FieldTypes, SetFlagsSound, ReplaceSR DEF ANC
<1> QED
  BY <1>1, <1>2, <1>3

(* AND X, then subtract without borrow.                                    *)
LEMMA SbxSound ==
    ASSUME NEW r, Sound(r), NEW v \in Byte
    PROVE  Sound(SBX(r, v))
<1> DEFINE d  == And(r.AC, r.XR) - v
           nz == SetNZC(r.SR, Wrap8(d), d >= 0)
<1>1. d \in Int
  BY BitwiseType, ByteIsInt, SMT
<1>2. Wrap8(d) \in Byte
  <2> HIDE DEF d
  <2> QED
    BY <1>1, WrapType
<1>3. SoundSR(nz)
  BY FieldTypes, SetNZCSound
<1>4. Sound([r EXCEPT !.XR = Wrap8(d)])
  BY <1>2, ReplaceByte
<1>5. Sound([[r EXCEPT !.XR = Wrap8(d)] EXCEPT !.SR = nz])
  BY <1>3, <1>4, ReplaceSR
<1> QED
  BY <1>5 DEF SBX

(* What is shifted or rotated remains a byte.                              *)
LEMMA RotatedType ==
    ASSUME NEW r, NEW v \in Byte
    PROVE  /\ Wrap8(2 * v) \in Byte /\ Wrap8(2 * v) + Carry(r) \in Byte
           /\ (v \div 2) \in Byte /\ (v \div 2) + 128 * Carry(r) \in Byte
<1>1. Wrap8(2 * v) \in Byte
  BY ByteIsInt, WrapType
<1>2. Wrap8(2 * v) \in 0..254
  BY SMT DEF Byte, Wrap8
<1>3. (v \div 2) \in 0..127
  BY SMT DEF Byte
<1>4. /\ Wrap8(2 * v) + Carry(r) \in Byte
      /\ (v \div 2) + 128 * Carry(r) \in Byte
  BY <1>2, <1>3, CarryType, SMT DEF Byte
<1> QED
  BY <1>1, <1>3, <1>4, SMT DEF Byte

(* ARR in either mode.                                                     *)
LEMMA ArrSound ==
    ASSUME NEW r, Sound(r), NEW v \in Byte
    PROVE  Sound(ARR(r, v))
<1> DEFINE tmp  == And(r.AC, v)
           rot  == tmp \div 2 + 128 * Carry(r)
           low  == IF LowNibble(tmp) + (tmp % 2) > 5 THEN (rot + 6) % 16 ELSE rot % 16
           over == 16 * (tmp \div 16) + 16 * ((tmp \div 16) % 2) > 80
           high == IF over THEN (rot \div 16 + 6) % 16 ELSE rot \div 16
<1>1. tmp \in Byte
  BY BitwiseType
<1>2. rot \in Byte
  <2> HIDE DEF tmp
  <2> QED
    BY <1>1, RotatedType
<1>3. low \in 0..15
  <2> HIDE DEF tmp, rot
  <2>1. rot \in Int
    BY <1>2, ByteIsInt
  <2> QED
    BY <2>1, SMT
<1>4. high \in 0..15
  <2> HIDE DEF tmp, rot, over
  <2>1. (rot \div 16) \in 0..15
    BY <1>2, HighNibbleType
  <2> QED
    BY <2>1, SMT
<1>5. 16 * high + low \in Byte
  <2> HIDE DEF high, low
  <2> QED
    BY <1>3, <1>4, DigitsType
<1> QED
  BY <1>2, <1>5, ArithSound DEF ARR

-----------------------------------------------------------------------------
(* Dispatch *)

(* No operation on an operand leaves a malformed register file or clears   *)
(* bit 4 or 5 of the status register.                                      *)
LEMMA ALUSound ==
    ASSUME NEW op, NEW r, Sound(r), NEW v \in Byte
    PROVE  Sound(ALU(op, r, v))
<1>1. \A b \in Byte : /\ Sound(LoadAC(r, b))
                      /\ Sound([r EXCEPT !.XR = b, !.SR = SetNZ(@, b)])
                      /\ Sound([r EXCEPT !.YR = b, !.SR = SetNZ(@, b)])
                      /\ Sound(LAX(r, b))
  BY LoadSound, LoadedSound
<1>2. \A a, b : And(a, b) \in Byte /\ Or(a, b) \in Byte /\ Xor(a, b) \in Byte
  BY BitwiseType
<1>3. Sound(LAS(r, v)) /\ Sound(ANC(r, v)) /\ Sound(SBX(r, v)) /\ Sound(ARR(r, v))
  BY LoadedSound, SbxSound, ArrSound
<1>4. /\ Sound(ADC_6502(r, v)) /\ Sound(ADC_65C02(r, v))
      /\ Sound(SBC_6502(r, v)) /\ Sound(SBC_65C02(r, v))
  BY AddSubtractSound
<1>5. /\ \A a : Sound(COMPARE(r, a, v))
      /\ Sound(BIT(r, v)) /\ Sound(BITIMM(r, v))
  BY CompareSound, BitSound
<1>6. Sound(ASR(r, v))
  <2>1. (And(r.AC, v) \div 2) \in Byte
    BY <1>2, RotatedType
  <2>2. SoundSR(SetNZC(r.SR, And(r.AC, v) \div 2, And(r.AC, v) % 2 = 1))
    BY FieldTypes, SetNZCSound
  <2>3. Sound([r EXCEPT !.SR = SetNZC(r.SR, And(r.AC, v) \div 2, And(r.AC, v) % 2 = 1)])
    BY <2>2, ReplaceSR
  <2> QED
    BY <2>1, <2>3, ReplaceByte DEF ASR, LSR, Shifted
<1> QED
  BY <1>1, <1>2, <1>3, <1>4, <1>5, <1>6 DEF ALU

(* The outcome of a read-modify-write operation.                           *)
SoundEffect(e) == Sound(e.regs) /\ e.val \in Byte

(* A value written back with its flags.                                    *)
LEMMA ShiftedSound ==
    ASSUME NEW r, Sound(r), NEW v \in Byte, NEW c
    PROVE  SoundEffect(Shifted(r, v, c)) /\ SoundEffect(Stepped(r, v))
<1>1. Sound([r EXCEPT !.SR = SetNZC(r.SR, v, c)]) /\ Sound([r EXCEPT !.SR = SetNZ(r.SR, v)])
  BY FieldTypes, SetNZSound, SetNZCSound, ReplaceSR
<1> QED
  BY <1>1 DEF Shifted, Stepped, SoundEffect

(* The shifts, rotations and steps.                                        *)
LEMMA SimpleRmwSound ==
    ASSUME NEW r, Sound(r), NEW v \in Byte
    PROVE  /\ SoundEffect(ASL(r, v)) /\ SoundEffect(LSR(r, v))
           /\ SoundEffect(ROL(r, v)) /\ SoundEffect(ROR(r, v))
           /\ SoundEffect(INC(r, v)) /\ SoundEffect(DEC(r, v))
           /\ SoundEffect(TSB(r, v)) /\ SoundEffect(TRB(r, v))
<1>1. /\ SoundEffect(ASL(r, v)) /\ SoundEffect(LSR(r, v))
      /\ SoundEffect(ROL(r, v)) /\ SoundEffect(ROR(r, v))
  BY RotatedType, ShiftedSound DEF ASL, LSR, ROL, ROR
<1>2. SoundEffect(INC(r, v)) /\ SoundEffect(DEC(r, v))
  <2>1. v + 1 \in Int /\ v - 1 \in Int
    BY ByteIsInt, SMT
  <2> QED
    BY <2>1, WrapType, ShiftedSound DEF INC, DEC
<1>3. SoundEffect(TSB(r, v)) /\ SoundEffect(TRB(r, v))
  BY BitSound, BitwiseType, ToByteType DEF TSB, TRB, SoundEffect
<1> QED
  BY <1>1, <1>2, <1>3

(* The undocumented shift-and-accumulate operations.                       *)
LEMMA CombinedRmwSound ==
    ASSUME NEW r, Sound(r), NEW v \in Byte
    PROVE  /\ SoundEffect(SLO(r, v)) /\ SoundEffect(RLA(r, v)) /\ SoundEffect(SRE(r, v))
           /\ SoundEffect(RRA(r, v)) /\ SoundEffect(DCP(r, v)) /\ SoundEffect(ISC(r, v))
<1>1. \A s, c, w : SoundEffect(Shifted(r, s, c)) /\ w \in Byte
         => SoundEffect([Shifted(r, s, c) EXCEPT !.regs = LoadAC(@, w)])
  BY LoadSound DEF SoundEffect, Shifted
<1>2. SoundEffect(ASL(r, v)) /\ SoundEffect(ROL(r, v)) /\ SoundEffect(LSR(r, v))
  BY SimpleRmwSound
<1>3. SoundEffect(SLO(r, v)) /\ SoundEffect(RLA(r, v)) /\ SoundEffect(SRE(r, v))
  BY <1>1, <1>2, BitwiseType DEF SLO, RLA, SRE, ASL, ROL, LSR
<1>4. SoundEffect(RRA(r, v))
  <2> DEFINE s == v \div 2 + 128 * Carry(r)
             q == [r EXCEPT !.SR = SetFlags(@, {CF}, When(CF, v % 2 = 1))]
  <2>1. s \in Byte
    BY RotatedType
  <2>2. Sound(q)
    <3>1. BF \notin {CF} /\ UF \notin {CF} /\ CF \in 0..7
      BY SMT DEF CF, BF, UF
    <3> QED
      BY <3>1, WhenType, FieldTypes, SetFlagsSound, ReplaceSR
  <2>3. Sound(ADC_6502(q, s))
    <3> HIDE DEF q, s
    <3> QED
      BY <2>1, <2>2, AddSubtractSound
  <2> QED
    BY <2>1, <2>3 DEF RRA, SoundEffect
<1>5. SoundEffect(DCP(r, v)) /\ SoundEffect(ISC(r, v))
  <2>1. v + 1 \in Int /\ v - 1 \in Int
    BY ByteIsInt, SMT
  <2>2. Wrap8(v + 1) \in Byte /\ Wrap8(v - 1) \in Byte
    BY <2>1, WrapType
  <2> QED
    BY <2>2, CompareSound, AddSubtractSound DEF DCP, ISC, SoundEffect
<1> QED
  BY <1>3, <1>4, <1>5

(* No read-modify-write operation leaves a malformed register file, clears *)
(* bit 4 or 5 of the status register or writes back more than a byte.      *)
LEMMA RMWSound ==
    ASSUME NEW op, NEW r, Sound(r), NEW v \in Byte
    PROVE  SoundEffect(RMW(op, r, v))
  BY SimpleRmwSound, CombinedRmwSound DEF RMW

-----------------------------------------------------------------------------
(* Digits, signs and complements                                           *)

(* A byte and its two digits.                                               *)
LEMMA DigitsOf ==
    ASSUME NEW b \in Byte
    PROVE  /\ b \in Int
           /\ (b % 16) \in 0..15
           /\ (b \div 16) \in 0..15
           /\ b = 16 * (b \div 16) + (b % 16)
  BY SMT DEF Byte

(* Two digits and the byte they make.                                       *)
LEMMA FromDigits ==
    ASSUME NEW h \in 0..15, NEW l \in 0..15
    PROVE  (16 * h + l) % 16 = l /\ (16 * h + l) \div 16 = h
  BY SMT

(* A binary sum against the numbers its operands stand for.                 *)
LEMMA BinarySum ==
    ASSUME NEW a \in 0..255, NEW v \in 0..255, NEW c \in 0..1
    PROVE  LET ac == Wrap8(a + v + c)
           IN  /\ SignedOverflow(a, v, Negative(ac)) <=> (Signed(a) + Signed(v) + c) \notin -128..127
               /\ Negative(ac) <=> Signed(ac) < 0
<1> DEFINE ac == (a + v + c) % 256
<1>1. ac \in 0..255 /\ (ac = a + v + c \/ ac = a + v + c - 256)
  BY SMT
<1> HIDE DEF ac
<1>2. Negative(ac) <=> Signed(ac) < 0
  BY <1>1, SMT DEF Negative, Signed
<1>3. SignedOverflow(a, v, Negative(ac)) <=> (Signed(a) + Signed(v) + c) \notin -128..127
  <2>1. /\ Signed(a) = IF a < 128 THEN a ELSE a - 256
        /\ Signed(v) = IF v < 128 THEN v ELSE v - 256
    BY DEF Signed
  <2>2. SignedOverflow(a, v, Negative(ac)) <=>
          \/ a >= 128 /\ v >= 128 /\ ac < 128
          \/ a < 128 /\ v < 128 /\ ac >= 128
    BY <1>1, SMT DEF SignedOverflow, Negative
  <2> QED
    BY <1>1, <2>1, <2>2, SMT
<1> QED
  BY <1>2, <1>3 DEF ac, Wrap8

(* A difference overflows when the sum with the complement does.            *)
LEMMA ComplementOverflow ==
    ASSUME NEW a, NEW v \in 0..255, NEW k, k = 255 - v, NEW n \in BOOLEAN
    PROVE  SubOverflow(a, v, n) = SignedOverflow(a, k, n)
<1>1. ~Negative(v) <=> Negative(k)
  BY SMT DEF Negative
<1> QED
  BY <1>1 DEF SubOverflow, SignedOverflow, Negative

-----------------------------------------------------------------------------

IInv == TypeOK /\ SrHighBits

(* What the invariant says of the register file, and where operands come   *)
(* from.                                                                   *)
LEMMA StateFacts ==
    ASSUME IInv
    PROVE  /\ Sound(Regs)
           /\ IsMemory(Mem)
           /\ Regs.AC \in Byte /\ Regs.XR \in Byte /\ Regs.YR \in Byte /\ Regs.SP \in Byte
           /\ Regs.PC \in Word /\ SoundSR(Regs.SR)
<1>1. Sound(Regs) /\ IsMemory(Mem)
  BY DEF IInv, TypeOK, SrHighBits, Sound, AlwaysOne
<1> QED
  BY <1>1, FieldTypes

(* Operands are bytes and words, and so is everything that is popped.      *)
LEMMA OperandTypes ==
    ASSUME IInv
    PROVE  /\ OperandByte \in Byte
           /\ OperandWord \in Word
           /\ \A n : POP(n) \in Byte
           /\ \A a : MemReadByte(Mem, a) \in Byte
           /\ \A a : MemReadWord(Mem, a) \in Word /\ MemReadZPWord(Mem, a) \in Word
<1>1. IsMemory(Mem)
  BY StateFacts
<1> QED
  BY <1>1, ReadByteType, ReadWordType DEF OperandByte, OperandWord, POP

(* Every addressing mode yields an address.                                *)
LEMMA ADRType ==
    ASSUME IInv, NEW mode
    PROVE  ADR(mode) \in Int
<1>1. OperandByte \in Int /\ OperandWord \in Int /\ Regs.XR \in Int /\ Regs.YR \in Int
  BY StateFacts, OperandTypes, ByteIsInt, WordIsInt
<1>2. \A a : MemReadZPWord(Mem, a) \in Int
  BY OperandTypes, WordIsInt
<1>3. /\ OperandByte + Regs.XR \in Int /\ OperandByte + Regs.YR \in Int
      /\ OperandWord + Regs.XR \in Int /\ OperandWord + Regs.YR \in Int
      /\ MemReadZPWord(Mem, OperandByte) + Regs.YR \in Int
  BY <1>1, <1>2, SMT
<1>4. \A x \in Int : Wrap8(x) \in Int /\ Wrap16(x) \in Int
  BY WrapType, ByteIsInt, WordIsInt
<1> QED
  BY <1>1, <1>2, <1>3, <1>4 DEF ADR

(* The program counter moved past an instruction is an address.            *)
LEMMA NextPCType ==
    ASSUME IInv
    PROVE  /\ \A n \in Int : Wrap16(Regs.PC + n) \in Word
           /\ \A mode : NextPC(mode) \in Word
<1>1. \A n \in Int : Wrap16(Regs.PC + n) \in Word
  <2>1. \A n \in Int : Regs.PC + n \in Int
    BY StateFacts, WordIsInt, SMT
  <2> QED
    BY <2>1, WrapType
<1>2. \A mode : (IF mode \in Absolute THEN 3 ELSE 2) \in Int
  OBVIOUS
<1> QED
  BY <1>1, <1>2 DEF NextPC

(* Pushing leaves a memory, and the stack pointer stays a byte.            *)
LEMMA PushType ==
    ASSUME IInv
    PROVE  /\ \A sp \in Int, v \in Byte : IsMemory(PUSH(Mem, sp, v))
           /\ \A w \in Word : IsMemory(PushWord(Mem, Regs.SP, w))
           /\ \A w \in Word, v \in Byte :
                 IsMemory(PUSH(PushWord(Mem, Regs.SP, w), Regs.SP - 2, v))
<1>1. \A mem, sp, v : IsMemory(mem) /\ sp \in Int /\ v \in Byte => IsMemory(PUSH(mem, sp, v))
  <2> SUFFICES ASSUME NEW mem, IsMemory(mem), NEW sp \in Int, NEW v \in Byte
               PROVE  IsMemory(PUSH(mem, sp, v))
    OBVIOUS
  <2>1. Wrap8(sp) \in Int
    BY WrapType, ByteIsInt
  <2>2. StackPage + Wrap8(sp) \in Int
    BY <2>1, SMT DEF StackPage
  <2>3. v \in Int
    BY ByteIsInt
  <2> QED
    BY <2>2, <2>3, WriteType DEF PUSH
<1>2. Regs.SP \in Int /\ Regs.SP - 1 \in Int /\ Regs.SP - 2 \in Int
  <2>1. Regs.SP \in Int
    BY StateFacts, ByteIsInt
  <2> QED
    BY <2>1, SMT
<1>3. IsMemory(Mem)
  BY StateFacts
<1>4. \A w \in Word : IsMemory(PushWord(Mem, Regs.SP, w))
  BY <1>1, <1>2, <1>3, LoType, HiType DEF PushWord
<1> QED
  BY <1>1, <1>2, <1>3, <1>4

(* A stack pointer moved up or down by what one step pulls or pushes is a  *)
(* byte.                                                                   *)
LEMMA SPType ==
    ASSUME IInv
    PROVE  /\ Wrap8(Regs.SP + 1) \in Byte
           /\ Wrap8(Regs.SP + 2) \in Byte
           /\ Wrap8(Regs.SP + 3) \in Byte
           /\ Sound([Regs EXCEPT !.SP = Wrap8(Regs.SP - 1)])
           /\ Sound([Regs EXCEPT !.SP = Wrap8(Regs.SP - 2)])
           /\ Sound([Regs EXCEPT !.SP = Wrap8(Regs.SP - 3)])
<1>1. Regs.SP \in Int
  BY StateFacts, ByteIsInt
<1>2. /\ Regs.SP + 1 \in Int /\ Regs.SP + 2 \in Int /\ Regs.SP + 3 \in Int
      /\ Regs.SP - 1 \in Int /\ Regs.SP - 2 \in Int /\ Regs.SP - 3 \in Int
  BY <1>1, SMT
<1>3. /\ Wrap8(Regs.SP + 1) \in Byte /\ Wrap8(Regs.SP + 2) \in Byte
      /\ Wrap8(Regs.SP + 3) \in Byte /\ Wrap8(Regs.SP - 1) \in Byte
      /\ Wrap8(Regs.SP - 2) \in Byte /\ Wrap8(Regs.SP - 3) \in Byte
  BY <1>2, WrapType
<1> QED
  BY <1>3, StateFacts, ReplaceByte

-----------------------------------------------------------------------------
(* Handlers, one by one *)

(* What a handler must leave behind.                                       *)
WellFormedAfter ==
    /\ Sound(Regs')
    /\ IsMemory(Mem')
    /\ Cycles' \in 0..8
    /\ Reported' \subseteq {"error", "warning"}

(* A step that leaves memory and reports alone is judged by its registers  *)
(* and cycles.                                                             *)
LEMMA RegistersOnly ==
    ASSUME IInv, UNCHANGED <<Mem, Reported>>, Sound(Regs'), Cycles' \in 0..8
    PROVE  WellFormedAfter
  BY DEF WellFormedAfter, IInv, TypeOK

(* Moving PC past a register-only instruction.                             *)
LEMMA AdvanceSound ==
    ASSUME IInv, NEW regs, Sound(regs), NEW length \in Int, NEW cycles \in 0..8,
           Advance(regs, length, cycles)
    PROVE  WellFormedAfter
<1>1. Wrap16(Regs.PC + length) \in Word
  BY NextPCType
<1>2. Sound(Regs')
  BY <1>1, ReplacePC DEF Advance
<1> QED
  BY <1>2, RegistersOnly DEF Advance

(* An operation on an operand.                                             *)
LEMMA ALU_OP_Sound ==
    ASSUME IInv, ALU_OP
    PROVE  WellFormedAfter
<1> DEFINE v == IF Insn.mode = "IMM" THEN OperandByte ELSE MemReadByte(Mem, ADR(Insn.mode))
<1>1. v \in Byte
  BY OperandTypes
<1>2. Sound(ALU(Insn.op, Regs, v))
  <2> HIDE DEF v
  <2> QED
    BY <1>1, StateFacts, ALUSound
<1>3. Sound(Regs')
  BY <1>2, NextPCType, ReplacePC DEF ALU_OP
<1>4. Cycles' \in 0..8
  <2>1. \A m \in DOMAIN ALU_CY : ALU_CY[m] \in 0..6
    BY SMT DEF ALU_CY
  <2>2. CrossPenalty(Insn.mode) \in 0..1 /\ DecimalPenalty(Insn.op) \in 0..1
    BY DEF CrossPenalty, DecimalPenalty
  <2>3. ALU_CY[Insn.mode] \in 0..6
    BY <2>1 DEF ALU_OP
  <2>4. ALU_CY[Insn.mode] + CrossPenalty(Insn.mode) + DecimalPenalty(Insn.op) \in 0..8
    BY <2>2, <2>3, SMT
  <2> QED
    BY <2>4 DEF ALU_OP
<1> QED
  BY <1>3, <1>4, RegistersOnly DEF ALU_OP

(* A store: a byte goes to an address, no register but PC changes.         *)
LEMMA STO_OP_Sound ==
    ASSUME IInv, STO_OP
    PROVE  WellFormedAfter
<1>1. Stored[Insn.op] \in Byte
  <2>1. 0 \in Byte
    BY SMT DEF Byte
  <2>2. Insn.op \in {"STA", "STX", "STY", "STZ", "SAX"}
    BY DEF STO_OP, Stored
  <2> QED
    BY <2>1, <2>2, StateFacts, BitwiseType DEF Stored
<1>2. IsMemory(Mem')
  BY <1>1, StateFacts, ADRType, ByteIsInt, WriteType DEF STO_OP
<1>3. Sound(Regs')
  BY StateFacts, NextPCType, ReplacePC DEF STO_OP
<1>4. Cycles' \in 0..8
  <2>1. \A m \in DOMAIN STO_CY : STO_CY[m] \in 0..8
    BY SMT DEF STO_CY
  <2> QED
    BY <2>1 DEF STO_OP
<1> QED
  BY <1>2, <1>3, <1>4 DEF WellFormedAfter, STO_OP, IInv, TypeOK

(* A read-modify-write; none takes more than eight cycles, because the     *)
(* eight-cycle modes never pay for a page crossing.                        *)
LEMMA MEM_OP_Sound ==
    ASSUME IInv, MEM_OP
    PROVE  WellFormedAfter
<1> DEFINE a == ADR(Insn.mode)
           e == RMW(Insn.op, Regs, MemReadByte(Mem, a))
<1>1. SoundEffect(e)
  BY StateFacts, OperandTypes, RMWSound
<1>2. a \in Int
  BY ADRType
<1>3. IsMemory(Mem')
  <2>1. IsMemory(MemWriteByte(Mem, a, e.val))
    <3> HIDE DEF a, e
    <3> QED
      BY <1>1, <1>2, StateFacts, ByteIsInt, WriteType DEF SoundEffect
  <2> QED
    BY <2>1 DEF MEM_OP
<1>4. Sound(Regs')
  <2>1. Sound([e.regs EXCEPT !.PC = NextPC(Insn.mode)])
    <3> HIDE DEF e
    <3> QED
      BY <1>1, NextPCType, ReplacePC DEF SoundEffect
  <2> QED
    BY <2>1 DEF MEM_OP
<1>5. Cycles' \in 0..8
  <2>1. \A m \in DOMAIN RMW_CY : RMW_CY[m] \in 0..8 /\ (m = "ABSX" => RMW_CY[m] \in 0..7)
    BY SMT DEF RMW_CY
  <2>2. \A m \in DOMAIN RMW_CY : m # "ABSX" => CrossPenalty(m) = 0
    BY DEF RMW_CY, CrossPenalty, PAGE_CROSS
  <2>3. \A m : CrossPenalty(m) \in 0..1
    BY DEF CrossPenalty
  <2>4. \A m \in DOMAIN RMW_CY : RMW_CY[m] + CrossPenalty(m) \in 0..8
    BY <2>1, <2>2, <2>3, SMT
  <2> QED
    BY <2>4 DEF MEM_OP
<1> QED
  BY <1>3, <1>4, <1>5 DEF WellFormedAfter, MEM_OP, IInv, TypeOK

(* RMB and SMB write back a byte.                                          *)
LEMMA ZP_BITOP_Sound ==
    ASSUME IInv, ZP_BITOP
    PROVE  WellFormedAfter
<1>1. \A S : IsMemory(MemWriteByte(Mem, OperandByte, ToByte(S)))
  BY StateFacts, OperandTypes, ToByteType, ByteIsInt, WriteType
<1>2. IsMemory(Mem')
  BY <1>1 DEF ZP_BITOP
<1>3. Sound(Regs')
  BY StateFacts, NextPCType, ReplacePC DEF ZP_BITOP
<1> QED
  BY <1>2, <1>3 DEF WellFormedAfter, ZP_BITOP, IInv, TypeOK

(* SHA, SHX, SHY and TAS: the patched address is an address.               *)
LEMMA UnstableStoreSound ==
    ASSUME IInv, UnstableStore
    PROVE  WellFormedAfter
<1> DEFINE base  == IF Insn.mode = "ZPINDY" THEN MemReadZPWord(Mem, OperandByte) ELSE OperandWord
           index == IF Insn.mode = "ABSX" THEN Regs.XR ELSE Regs.YR
           source == CASE Insn.op = "SHX" -> Regs.XR
                       [] Insn.op = "SHY" -> Regs.YR
                       [] OTHER -> And(Regs.AC, Regs.XR)
           val   == And(source, Wrap8(Hi(base) + 1))
           high  == IF Lo(base) + index > 255 THEN val ELSE Hi(base)
           a     == ToWord(Wrap8(Lo(base) + index), high)
<1>1. base \in Word /\ index \in Byte
  BY OperandTypes, StateFacts
<1>2. val \in Byte
  BY BitwiseType
<1>3. high \in Byte
  <2> HIDE DEF base, index, val
  <2> QED
    BY <1>1, <1>2, HiType
<1>4. a \in Word
  <2> HIDE DEF base, index, high
  <2>1. Lo(base) + index \in Int
    BY <1>1, LoType, ByteIsInt, SMT
  <2> QED
    BY <2>1, <1>3, WrapType, ToWordType
<1>5. IsMemory(Mem')
  <2>1. IsMemory(MemWriteByte(Mem, a, val))
    <3> HIDE DEF a, val
    <3> QED
      BY <1>2, <1>4, StateFacts, ByteIsInt, WordIsInt, WriteType
  <2> QED
    BY <2>1 DEF UnstableStore
<1>6. Sound(Regs')
  <2>1. Sound([Regs EXCEPT !.PC = NextPC(Insn.mode)])
    BY StateFacts, NextPCType, ReplacePC
  <2>2. (IF Insn.op = "TAS" THEN And(Regs.AC, Regs.XR) ELSE Regs.SP) \in Byte
    BY StateFacts, BitwiseType
  <2> QED
    BY <2>1, <2>2, ReplaceByte DEF UnstableStore
<1> QED
  BY <1>5, <1>6 DEF WellFormedAfter, UnstableStore, IInv, TypeOK

(* Shifts and steps of the accumulator.                                    *)
LEMMA AccumulatorSound ==
    ASSUME IInv, Accumulator
    PROVE  WellFormedAfter
<1> DEFINE e == RMW(Insn.op, Regs, Regs.AC)
<1>1. SoundEffect(e)
  BY StateFacts, RMWSound
<1>2. Sound([e.regs EXCEPT !.AC = e.val])
  <2> HIDE DEF e
  <2> QED
    BY <1>1, ReplaceByte DEF SoundEffect
<1> QED
  BY <1>2, AdvanceSound DEF Accumulator

(* Flag and transfer instructions.                                         *)
LEMMA ImpliedRegsSound ==
    ASSUME IInv
    PROVE  Sound(ImpliedRegs(Insn.op, Regs))
<1>1. \A b \in Byte : /\ Sound(LoadAC(Regs, b))
                      /\ Sound([Regs EXCEPT !.XR = b, !.SR = SetNZ(@, b)])
                      /\ Sound([Regs EXCEPT !.YR = b, !.SR = SetNZ(@, b)])
                      /\ Sound([Regs EXCEPT !.SP = b])
  BY StateFacts, LoadSound, ReplaceByte
<1>2. \A b \in Byte : SoundEffect(INC(Regs, b)) /\ SoundEffect(DEC(Regs, b))
  BY StateFacts, SimpleRmwSound
<1>3. \A e : SoundEffect(e) => /\ Sound([e.regs EXCEPT !.XR = e.val])
                               /\ Sound([e.regs EXCEPT !.YR = e.val])
  BY ReplaceByte DEF SoundEffect
<1>4. \A f \in {CF, IFlag, OF, DF} : /\ SoundSR(Regs.SR \ {f})
                                     /\ SoundSR(Regs.SR \cup {f})
  <2>1. \A f \in {CF, IFlag, OF, DF} : f \in 0..7 /\ f # BF /\ f # UF
    BY SMT DEF CF, IFlag, OF, DF, BF, UF
  <2> QED
    BY <2>1, StateFacts DEF SoundSR
<1>5. \A f \in {CF, IFlag, OF, DF} : /\ Sound([Regs EXCEPT !.SR = @ \ {f}])
                                     /\ Sound([Regs EXCEPT !.SR = @ \cup {f}])
  BY <1>4, StateFacts, ReplaceSR
<1> QED
  BY <1>1, <1>2, <1>3, <1>5, StateFacts DEF ImpliedRegs

(* They go on behind themselves.                                           *)
LEMMA ImpliedSound ==
    ASSUME IInv, Implied
    PROVE  WellFormedAfter
  BY ImpliedRegsSound, AdvanceSound DEF Implied

(* The fillers of the 65C02.                                               *)
LEMMA FillerNopSound ==
    ASSUME IInv, FillerNop
    PROVE  WellFormedAfter
<1>1. NopLength[Insn.op] \in Int /\ NopCycles[Insn.op] \in 0..8
  BY SMT DEF FillerNop, NopLength, NopCycles
<1> QED
  BY <1>1, StateFacts, AdvanceSound DEF FillerNop

(* PHA, PHX, PHY, PHP.                                                     *)
LEMMA PushRegisterSound ==
    ASSUME IInv, PushRegister
    PROVE  WellFormedAfter
<1>1. Pushed[Insn.op] \in Byte
  <2>1. Insn.op \in {"PHA", "PHX", "PHY", "PHP"}
    BY DEF PushRegister, Pushed
  <2> QED
    BY <2>1, StateFacts, ToByteType DEF Pushed
<1>2. IsMemory(Mem')
  BY <1>1, StateFacts, ByteIsInt, PushType DEF PushRegister
<1>3. Sound(Regs')
  <2>1. Sound([Regs EXCEPT !.SP = Wrap8(Regs.SP - 1)])
    BY SPType
  <2>2. Wrap16(Regs.PC + 1) \in Word
    BY NextPCType
  <2> QED
    BY <2>1, <2>2, ReplacePC DEF PushRegister
<1> QED
  BY <1>2, <1>3 DEF WellFormedAfter, PushRegister, IInv, TypeOK

(* Whatever byte PLP or RTI pulls, bits 4 and 5 are forced to one.         *)
LEMMA ForcedBits ==
    ASSUME NEW v
    PROVE  SoundSR(Bits(v) \cup AlwaysOne)
<1>1. BF \in 0..7 /\ UF \in 0..7
  BY SMT DEF BF, UF
<1> QED
  BY <1>1, BitsType DEF SoundSR, AlwaysOne

(* PLA, PLX, PLY, PLP.                                                     *)
LEMMA PulledSound ==
    ASSUME IInv
    PROVE  Sound([PulledRegs(Insn.op, Regs, POP(1)) EXCEPT !.SP = Wrap8(@ + 1)])
<1> DEFINE pulled == PulledRegs(Insn.op, Regs, POP(1))
<1>1. Sound(pulled)
  BY StateFacts, OperandTypes, LoadSound, ForcedBits, ReplaceSR DEF PulledRegs
<1>2. pulled.SP = Regs.SP
  BY StateFacts DEF PulledRegs, LoadAC, Sound, IsRegs
<1>3. Sound([pulled EXCEPT !.SP = Wrap8(Regs.SP + 1)])
  <2>1. Wrap8(Regs.SP + 1) \in Byte
    BY SPType
  <2> HIDE DEF pulled
  <2> QED
    BY <1>1, <2>1, ReplaceByte
<1> QED
  BY <1>2, <1>3

(* They, too, go on behind themselves.                                     *)
LEMMA PullRegisterSound ==
    ASSUME IInv, PullRegister
    PROVE  WellFormedAfter
<1>1. Sound([PulledRegs(Insn.op, Regs, POP(1)) EXCEPT !.SP = Wrap8(@ + 1)])
  BY PulledSound
<1> QED
  BY <1>1, AdvanceSound DEF PullRegister

(* Interrupt entry, by whichever of the three ways.                        *)
LEMMA EnterInterruptSound ==
    ASSUME IInv, NEW ret \in Word, NEW pushedSR, NEW vector,
           EnterInterrupt(ret, pushedSR, vector)
    PROVE  WellFormedAfter /\ Masked'
<1> DEFINE mem == PUSH(PushWord(Mem, Regs.SP, ret), Regs.SP - 2, ToByte(pushedSR))
           sr  == (Regs.SR \cup {IFlag}) \ When(DF, CPU = "CPU_65C02")
<1>1. IsMemory(mem)
  BY PushType, ToByteType
<1>2. SoundSR(sr) /\ IFlag \in sr
  <2>1. IFlag \in 0..7 /\ DF # BF /\ DF # UF /\ DF # IFlag
    BY SMT DEF IFlag, DF, BF, UF
  <2> QED
    BY <2>1, StateFacts DEF SoundSR, When
<1>3. MemReadWord(mem, vector) \in Word
  BY <1>1, ReadWordType
<1>4. Sound(Regs') /\ Masked'
  <2>1. Sound([Regs EXCEPT !.SP = Wrap8(Regs.SP - 3)])
    BY SPType
  <2>2. Sound([[Regs EXCEPT !.SP = Wrap8(Regs.SP - 3)] EXCEPT !.SR = sr])
    BY <1>2, <2>1, ReplaceSR
  <2>3. Regs' = [[[Regs EXCEPT !.SP = Wrap8(Regs.SP - 3)] EXCEPT !.SR = sr]
                    EXCEPT !.PC = MemReadWord(mem, vector)]
    BY DEF EnterInterrupt
  <2>4. Sound(Regs')
    <3> HIDE DEF sr, mem
    <3> QED
      BY <1>3, <2>2, <2>3, ReplacePC
  <2>5. Regs'.SR = sr
    <3> HIDE DEF sr, mem
    <3> QED
      BY <2>3, StateFacts DEF Sound, IsRegs
  <2> QED
    BY <1>2, <2>4, <2>5 DEF Masked
<1>5. IsMemory(Mem')
  BY <1>1 DEF EnterInterrupt
<1> QED
  BY <1>4, <1>5 DEF WellFormedAfter, EnterInterrupt, IInv, TypeOK

(* The software interrupt.                                                 *)
LEMMA BRKSound ==
    ASSUME IInv, BRK
    PROVE  WellFormedAfter
  BY NextPCType, EnterInterruptSound DEF BRK

(* The target is an address even when the push overwrites its high half.   *)
LEMMA JSRSound ==
    ASSUME IInv, JSR
    PROVE  WellFormedAfter
<1> DEFINE mem == PushWord(Mem, Regs.SP, Wrap16(Regs.PC + 2))
           pc  == ToWord(OperandByte, MemReadByte(mem, Regs.PC + 2))
<1>1. IsMemory(mem)
  BY NextPCType, PushType
<1>2. pc \in Word
  BY <1>1, OperandTypes, ReadByteType, ToWordType
<1>3. Sound([Regs EXCEPT !.SP = Wrap8(Regs.SP - 2)])
  BY SPType
<1>4. Sound([[Regs EXCEPT !.SP = Wrap8(Regs.SP - 2)] EXCEPT !.PC = pc])
  <2> HIDE DEF pc
  <2> QED
    BY <1>2, <1>3, ReplacePC
<1>5. Sound(Regs') /\ IsMemory(Mem')
  BY <1>1, <1>4 DEF JSR
<1> QED
  BY <1>5 DEF WellFormedAfter, JSR, IInv, TypeOK

(* RTI and RTS resume at an address.                                       *)
LEMMA ReturnSound ==
    ASSUME IInv, RTI \/ RTS
    PROVE  WellFormedAfter
<1>1. \A m, n : ToWord(POP(m), POP(n)) \in Word
  BY OperandTypes, ToWordType
<1>2. CASE RTI
  <2>1. Sound([Regs EXCEPT !.SR = Bits(POP(1)) \cup AlwaysOne])
    BY StateFacts, ForcedBits, ReplaceSR
  <2>2. Sound([[Regs EXCEPT !.SR = Bits(POP(1)) \cup AlwaysOne]
                  EXCEPT !.PC = ToWord(POP(2), POP(3))])
    BY <1>1, <2>1, ReplacePC
  <2>3. Wrap8(Regs.SP + 3) \in Byte
    BY SPType
  <2>4. Sound([[[Regs EXCEPT !.SR = Bits(POP(1)) \cup AlwaysOne]
                  EXCEPT !.PC = ToWord(POP(2), POP(3))]
                  EXCEPT !.SP = Wrap8(Regs.SP + 3)])
    BY <2>2, <2>3, ReplaceByte
  <2>5. Sound(Regs')
    BY <1>2, <2>4 DEF RTI
  <2> QED
    BY <1>2, <2>5, RegistersOnly DEF RTI
<1>3. CASE RTS
  <2>1. Wrap16(ToWord(POP(1), POP(2)) + 1) \in Word
    <3>1. ToWord(POP(1), POP(2)) + 1 \in Int
      BY <1>1, WordIsInt, SMT
    <3> QED
      BY <3>1, WrapType
  <2>2. Sound([Regs EXCEPT !.PC = Wrap16(ToWord(POP(1), POP(2)) + 1)])
    BY <2>1, StateFacts, ReplacePC
  <2>3. Wrap8(Regs.SP + 2) \in Byte
    BY SPType
  <2>4. Sound([[Regs EXCEPT !.PC = Wrap16(ToWord(POP(1), POP(2)) + 1)]
                  EXCEPT !.SP = Wrap8(Regs.SP + 2)])
    BY <2>2, <2>3, ReplaceByte
  <2>5. Sound(Regs')
    BY <1>3, <2>4 DEF RTS
  <2> QED
    BY <1>3, <2>5, RegistersOnly DEF RTS
<1> QED
  BY <1>2, <1>3

(* A branch lands on an address and costs at most one cycle for it.        *)
LEMMA TargetType ==
    ASSUME IInv
    PROVE  /\ \A n \in Int, d \in Byte : Target(Wrap16(Regs.PC + n), d) \in Word
           /\ \A a, b : FarPenalty(a, b) \in 0..1
<1>1. \A w \in Word, d \in Byte : w + Signed(d) \in Int
  BY WordIsInt, SignedType, SMT
<1>2. \A w \in Word, d \in Byte : Target(w, d) \in Word
  BY <1>1, WrapType DEF Target
<1> QED
  BY <1>2, NextPCType DEF FarPenalty

(* Conditional branches.                                                   *)
LEMMA BRANCHSound ==
    ASSUME IInv, BRANCH
    PROVE  WellFormedAfter
<1> DEFINE after  == Wrap16(Regs.PC + 2)
           target == Target(after, OperandByte)
<1>1. after \in Word /\ target \in Word
  BY NextPCType, OperandTypes, TargetType
<1>2. FarPenalty(after, target) \in 0..1
  BY TargetType
<1>3. \/ Regs' = [Regs EXCEPT !.PC = target] /\ Cycles' = 3 + FarPenalty(after, target)
      \/ Regs' = [Regs EXCEPT !.PC = after] /\ Cycles' = 2
  BY DEF BRANCH
<1>4. Sound(Regs') /\ Cycles' \in 0..8
  <2> HIDE DEF after, target
  <2>1. Sound(Regs')
    BY <1>1, <1>3, StateFacts, ReplacePC
  <2>2. Cycles' \in 0..8
    BY <1>2, <1>3, SMT
  <2> QED
    BY <2>1, <2>2
<1> QED
  BY <1>4, RegistersOnly DEF BRANCH

(* BBR and BBS.                                                            *)
LEMMA ZP_BIT_BRANCHSound ==
    ASSUME IInv, ZP_BIT_BRANCH
    PROVE  WellFormedAfter
<1> DEFINE after  == Wrap16(Regs.PC + 3)
           target == Target(after, MemReadByte(Mem, Regs.PC + 2))
<1>1. after \in Word /\ target \in Word
  BY NextPCType, OperandTypes, TargetType
<1>2. FarPenalty(after, target) \in 0..1
  BY TargetType
<1>3. \/ Regs' = [Regs EXCEPT !.PC = target] /\ Cycles' = 6 + FarPenalty(after, target)
      \/ Regs' = [Regs EXCEPT !.PC = after] /\ Cycles' = 5
  BY DEF ZP_BIT_BRANCH
<1>4. Sound(Regs') /\ Cycles' \in 0..8
  <2> HIDE DEF after, target
  <2>1. Sound(Regs')
    BY <1>1, <1>3, StateFacts, ReplacePC
  <2>2. Cycles' \in 0..8
    BY <1>2, <1>3, SMT
  <2> QED
    BY <2>1, <2>2
<1> QED
  BY <1>4, RegistersOnly DEF ZP_BIT_BRANCH

(* The jumps; the NMOS one may warn.                                       *)
LEMMA JumpSound ==
    ASSUME IInv, JMP_abs \/ JMP_ind \/ JMP_ind_65C02
    PROVE  WellFormedAfter
<1>1. \A w \in Word : Sound([Regs EXCEPT !.PC = w])
  BY StateFacts, ReplacePC
<1>2. CASE JMP_abs
  BY <1>1, <1>2, OperandTypes, RegistersOnly DEF JMP_abs
<1>3. CASE JMP_ind
  <2>1. \A a, b : ToWord(MemReadByte(Mem, a), MemReadByte(Mem, b)) \in Word
    BY OperandTypes, ToWordType
  <2>2. Sound(Regs')
    BY <1>1, <1>3, <2>1 DEF JMP_ind
  <2>3. Reported' \subseteq {"error", "warning"}
    BY <1>3 DEF JMP_ind, When, IInv, TypeOK
  <2> QED
    BY <1>3, <2>2, <2>3, StateFacts DEF WellFormedAfter, JMP_ind
<1>4. CASE JMP_ind_65C02
  BY <1>1, <1>4, OperandTypes, RegistersOnly DEF JMP_ind_65C02
<1> QED
  BY <1>2, <1>3, <1>4

(* An illegal opcode changes nothing but what was reported.                *)
LEMMA OPC_IllegalSound ==
    ASSUME IInv, OPC_Illegal
    PROVE  WellFormedAfter
  BY StateFacts DEF WellFormedAfter, OPC_Illegal, IInv, TypeOK

(* One instruction, whichever it is.                                       *)
LEMMA HandlerSound ==
    ASSUME IInv, Handler
    PROVE  WellFormedAfter
  BY ALU_OP_Sound, STO_OP_Sound, MEM_OP_Sound, ZP_BITOP_Sound, UnstableStoreSound,
     AccumulatorSound, ImpliedSound, FillerNopSound, PushRegisterSound, PullRegisterSound,
     BRKSound, JSRSound, ReturnSound, BRANCHSound, ZP_BIT_BRANCHSound, JumpSound,
     OPC_IllegalSound
     DEF Handler

-----------------------------------------------------------------------------
(* The entry points *)

(* The event counters stay counters, and only the counted event and the    *)
(* clock move.                                                             *)
LEMMA CountType ==
    ASSUME IInv, NEW event \in CounterFields \ {"ClockCycles"}, Count(event),
           Cycles' \in 0..8
    PROVE  /\ Counter' \in [CounterFields -> 0..CounterMod-1]
           /\ Counter'[event] = (Counter[event] + 1) % CounterMod
           /\ \A f \in CounterFields \ {event, "ClockCycles"} : Counter'[f] = Counter[f]
<1>1. Counter \in [CounterFields -> 0..CounterMod-1]
  BY DEF IInv, TypeOK
<1>2. \A f \in CounterFields : Counter[f] \in Int
  BY <1>1, CounterModAssumption, SMT
<1>3. "ClockCycles" \in CounterFields
  BY DEF CounterFields
<1>4. Counter[event] + 1 \in Int /\ Counter["ClockCycles"] + Cycles' \in Int
  BY <1>2, <1>3, SMT
<1>5. \A x \in Int : x % CounterMod \in 0..CounterMod-1
  BY CounterModAssumption, SMT
<1>6. /\ (Counter[event] + 1) % CounterMod \in 0..CounterMod-1
      /\ (Counter["ClockCycles"] + Cycles') % CounterMod \in 0..CounterMod-1
  BY <1>4, <1>5
<1> DEFINE e == (Counter[event] + 1) % CounterMod
           c == (Counter["ClockCycles"] + Cycles') % CounterMod
<1>7. Counter' = [[Counter EXCEPT ![event] = e] EXCEPT !["ClockCycles"] = c]
  BY <1>1, <1>3 DEF Count
<1> HIDE DEF e, c
<1> QED
  BY <1>1, <1>3, <1>6, <1>7 DEF e, c

(* A start state satisfies the invariant.                                  *)
LEMMA InitInv == Init => IInv
<1> SUFFICES ASSUME Init
             PROVE  IInv
  OBVIOUS
<1>1. PICK s \in Starts : CPU = s.cpu /\ Regs = s.regs /\ Mem = s.mem
  BY DEF Init
<1>2. IsStart(s)
  BY StartsAssumption
<1>3. Counter \in [CounterFields -> 0..CounterMod-1]
  <2>1. 0 \in 0..CounterMod-1
    BY CounterModAssumption, SMT
  <2> QED
    BY <2>1 DEF Init
<1>4. Cycles \in 0..8
  BY SMT DEF Init
<1> QED
  BY <1>1, <1>2, <1>3, <1>4 DEF Init, IInv, TypeOK, SrHighBits, IsStart

(* Every step leaves a well-typed processor with bits 4 and 5 set.          *)
LEMMA NextInv == IInv /\ [Next]_vars => IInv'
<1> SUFFICES ASSUME IInv, [Next]_vars
             PROVE  IInv'
  OBVIOUS
<1> USE DEF IInv, TypeOK, SrHighBits, AlwaysOne
<1>1. CASE IRQRequest
  BY <1>1 DEF IRQRequest
<1>2. CASE NMIRequest
  BY <1>2 DEF NMIRequest
<1>3. CASE Reset
  <2>1. SoundSR(AlwaysOne)
    BY SMT DEF SoundSR, BF, UF
  <2>2. MemReadWord(Mem, ResetVector) \in Word
    BY OperandTypes
  <2>3. Sound([[Regs EXCEPT !.SR = AlwaysOne] EXCEPT !.PC = MemReadWord(Mem, ResetVector)])
    BY <2>1, <2>2, StateFacts, ReplaceSR, ReplacePC
  <2>4. Sound(Regs')
    BY <1>3, <2>3 DEF Reset
  <2> QED
    BY <1>3, <2>4 DEF Reset, Sound
<1>4. ASSUME WellFormedAfter, Counter' \in [CounterFields -> 0..CounterMod-1],
             CPU' = CPU, HaveNMIRequest' \in BOOLEAN, HaveIRQRequest' \in BOOLEAN
      PROVE  IInv'
  BY <1>4 DEF WellFormedAfter, Sound
<1>5. CASE ServeNMI
  <2>1. WellFormedAfter
    BY <1>5, StateFacts, EnterInterruptSound DEF ServeNMI
  <2>2. "NmiEvents" \in CounterFields \ {"ClockCycles"}
    BY DEF CounterFields
  <2>3. Counter' \in [CounterFields -> 0..CounterMod-1]
    BY <1>5, <2>1, <2>2, CountType DEF ServeNMI, WellFormedAfter
  <2> QED
    BY <1>4, <1>5, <2>1, <2>3 DEF ServeNMI
<1>6. CASE ServeIRQ
  <2>1. WellFormedAfter
    BY <1>6, StateFacts, EnterInterruptSound DEF ServeIRQ
  <2>2. "IrqEvents" \in CounterFields \ {"ClockCycles"}
    BY DEF CounterFields
  <2>3. Counter' \in [CounterFields -> 0..CounterMod-1]
    BY <1>6, <2>1, <2>2, CountType DEF ServeIRQ, WellFormedAfter
  <2> QED
    BY <1>4, <1>6, <2>1, <2>3 DEF ServeIRQ
<1>7. CASE ExecuteOpcode
  <2>1. WellFormedAfter
    BY <1>7, HandlerSound DEF ExecuteOpcode
  <2>2. "CpuInstructions" \in CounterFields \ {"ClockCycles"}
    BY DEF CounterFields
  <2>3. Counter' \in [CounterFields -> 0..CounterMod-1]
    BY <1>7, <2>1, <2>2, CountType DEF ExecuteOpcode, WellFormedAfter
  <2> QED
    BY <1>4, <1>7, <2>1, <2>3 DEF ExecuteOpcode
<1>8. CASE UNCHANGED vars
  BY <1>8 DEF vars
<1> QED
  BY <1>1, <1>2, <1>3, <1>5, <1>6, <1>7, <1>8 DEF Next, ExecuteInsn

(* The invariant holds throughout.                                         *)
LEMMA Invariance == Spec => []IInv
<1>1. Init => IInv
  BY InitInv
<1>2. IInv /\ [Next]_vars => IInv'
  BY NextInv
<1> QED
  BY <1>1, <1>2, PTL DEF Spec

(* Bits 4 and 5 of the status register are one in every state, whatever    *)
(* PLP and RTI pull from the stack and whatever the program does.          *)
THEOREM StatusBits == Spec => []SrHighBits
<1>1. IInv => SrHighBits
  BY DEF IInv
<1> QED
  BY <1>1, Invariance, PTL

(* In every execution, from any start, every register is a byte, PC an     *)
(* address, memory holds bytes, an instruction takes at most eight cycles  *)
(* and the counters stay in range: no handler of 6502.c stores a value that *)
(* C would have had to truncate where the model did not.  And bits 4 and 5 *)
(* of the status register are one.                                         *)
THEOREM TypeCorrect == Spec => []StateOK
<1>1. IInv => StateOK
  BY DEF IInv, StateOK
<1> QED
  BY <1>1, Invariance, PTL

-----------------------------------------------------------------------------
(* The processor implements the contract of module Interrupts.             *)

(* Start states map to start states.                                       *)
LEMMA InitRefines == Init => Abs!Init
<1> SUFFICES ASSUME Init
             PROVE  Abs!Init
  OBVIOUS
<1>1. Masked \in BOOLEAN
  BY DEF Masked
<1>2. "NmiEvents" \in CounterFields /\ "IrqEvents" \in CounterFields
  BY DEF CounterFields
<1> QED
  BY <1>1, <1>2 DEF Init, Abs!Init

(* Every step maps to a step of the contract, or to none.                  *)
LEMMA StepRefines == IInv /\ [Next]_vars => [Abs!Next]_(Abs!vars)
<1> SUFFICES ASSUME IInv, [Next]_vars
             PROVE  [Abs!Next]_(Abs!vars)
  OBVIOUS
<1>1. CASE IRQRequest
  <2>1. Abs!RaiseIRQ
    BY <1>1 DEF IRQRequest, Abs!RaiseIRQ, Masked
  <2> QED
    BY <2>1 DEF Abs!Next
<1>2. CASE NMIRequest
  <2>1. Abs!RaiseNMI
    BY <1>2 DEF NMIRequest, Abs!RaiseNMI, Masked
  <2> QED
    BY <2>1 DEF Abs!Next
<1>3. CASE Reset
  <2>1. IFlag \notin AlwaysOne
    BY SMT DEF IFlag, AlwaysOne, BF, UF
  <2>2. Regs'.SR = AlwaysOne
    BY <1>3, StateFacts DEF Reset, Sound, IsRegs
  <2>3. Abs!Clear
    BY <1>3, <2>1, <2>2 DEF Reset, Abs!Clear, Masked
  <2> QED
    BY <2>3 DEF Abs!Next
<1>4. CASE ServeNMI
  <2>1. WellFormedAfter /\ Masked'
    BY <1>4, StateFacts, EnterInterruptSound DEF ServeNMI
  <2>2. "NmiEvents" \in CounterFields \ {"ClockCycles"}
        /\ "IrqEvents" \in CounterFields \ {"NmiEvents", "ClockCycles"}
    BY DEF CounterFields
  <2>3. /\ Counter'["NmiEvents"] = (Counter["NmiEvents"] + 1) % CounterMod
        /\ Counter'["IrqEvents"] = Counter["IrqEvents"]
    BY <1>4, <2>1, <2>2, CountType DEF ServeNMI, WellFormedAfter
  <2>4. Abs!TakeNMI
    BY <1>4, <2>1, <2>3 DEF ServeNMI, Abs!TakeNMI, Masked
  <2> QED
    BY <2>4 DEF Abs!Next
<1>5. CASE ServeIRQ
  <2>1. WellFormedAfter /\ Masked'
    BY <1>5, StateFacts, EnterInterruptSound DEF ServeIRQ
  <2>2. "IrqEvents" \in CounterFields \ {"ClockCycles"}
        /\ "NmiEvents" \in CounterFields \ {"IrqEvents", "ClockCycles"}
    BY DEF CounterFields
  <2>3. /\ Counter'["IrqEvents"] = (Counter["IrqEvents"] + 1) % CounterMod
        /\ Counter'["NmiEvents"] = Counter["NmiEvents"]
    BY <1>5, <2>1, <2>2, CountType DEF ServeIRQ, WellFormedAfter
  <2>4. Abs!TakeIRQ
    BY <1>5, <2>1, <2>3 DEF ServeIRQ, Abs!TakeIRQ, Masked
  <2> QED
    BY <2>4 DEF Abs!Next
<1>6. CASE ExecuteOpcode
  <2>1. WellFormedAfter
    BY <1>6, HandlerSound DEF ExecuteOpcode
  <2>2. "CpuInstructions" \in CounterFields \ {"ClockCycles"}
        /\ "NmiEvents" \in CounterFields \ {"CpuInstructions", "ClockCycles"}
        /\ "IrqEvents" \in CounterFields \ {"CpuInstructions", "ClockCycles"}
    BY DEF CounterFields
  <2>3. /\ Counter'["NmiEvents"] = Counter["NmiEvents"]
        /\ Counter'["IrqEvents"] = Counter["IrqEvents"]
    BY <1>6, <2>1, <2>2, CountType DEF ExecuteOpcode, WellFormedAfter
  <2>4. Masked' \in BOOLEAN
    BY DEF Masked
  <2>5. Abs!Instruction
    BY <1>6, <2>3, <2>4 DEF ExecuteOpcode, Abs!Instruction
  <2> QED
    BY <2>5 DEF Abs!Next
<1>7. CASE UNCHANGED vars
  BY <1>7 DEF vars, Abs!vars, Masked
<1> QED
  BY <1>1, <1>2, <1>3, <1>4, <1>5, <1>6, <1>7 DEF Next, ExecuteInsn

(* Whatever program runs, interrupts are requested, prioritised, masked,   *)
(* taken and counted as module Interrupts says (ExecuteInsn, IRQRequest,   *)
(* NMIRequest, Reset).                                                     *)
THEOREM InterruptContract == Spec => RefinesInterrupts
<1>1. Init => Abs!Init
  BY InitRefines
<1>2. IInv /\ [Next]_vars => [Abs!Next]_(Abs!vars)
  BY StepRefines
<1> QED
  BY <1>1, <1>2, Invariance, PTL DEF Spec, RefinesInterrupts, Abs!Spec

-----------------------------------------------------------------------------
(* A call of ExecuteInsn counts what it did and the cycles it returns.      *)
LEMMA CallCounts ==
    ASSUME IInv, ExecuteInsn
    PROVE  /\ Running!Advance(EventOfStep, Cycles')
           /\ EventOfStep \in {"NmiEvents", "IrqEvents", "CpuInstructions"}
           /\ EventOfStep = "CpuInstructions" => Cycles' \in 0..8
           /\ EventOfStep # "CpuInstructions" => Cycles' = 7
<1>1. CASE ServeNMI
  <2>1. EventOfStep = "NmiEvents"
    BY <1>1 DEF ServeNMI, EventOfStep
  <2>2. Cycles' = 7 /\ Count("NmiEvents")
    BY <1>1 DEF ServeNMI, EnterInterrupt
  <2> QED
    BY <2>1, <2>2 DEF Count, Running!Advance
<1>2. CASE ServeIRQ
  <2>1. EventOfStep = "IrqEvents"
    BY <1>2 DEF ServeIRQ, EventOfStep
  <2>2. Cycles' = 7 /\ Count("IrqEvents")
    BY <1>2 DEF ServeIRQ, EnterInterrupt
  <2> QED
    BY <2>1, <2>2 DEF Count, Running!Advance
<1>3. CASE ExecuteOpcode
  <2>1. EventOfStep = "CpuInstructions"
    BY <1>3 DEF ExecuteOpcode, EventOfStep
  <2>2. Cycles' \in 0..8 /\ Count("CpuInstructions")
    BY <1>3, HandlerSound DEF ExecuteOpcode, WellFormedAfter
  <2> QED
    BY <2>1, <2>2 DEF Count, Running!Advance
<1> QED
  BY <1>1, <1>2, <1>3 DEF ExecuteInsn

(* Every other step counts nothing.                                         *)
LEMMA StepCounts ==
    IInv /\ [Next]_vars =>
        /\ [Running!Tick]_Counter
        /\ [IF ExecuteInsn THEN Running!Advance(EventOfStep, Cycles') ELSE UNCHANGED Counter]_vars
<1> SUFFICES ASSUME IInv, [Next]_vars
             PROVE  /\ [Running!Tick]_Counter
                    /\ IF ExecuteInsn THEN Running!Advance(EventOfStep, Cycles')
                       ELSE UNCHANGED Counter
  OBVIOUS
<1>1. CASE ExecuteInsn
  <2>1. /\ Running!Advance(EventOfStep, Cycles')
        /\ EventOfStep \in {"NmiEvents", "IrqEvents", "CpuInstructions"}
        /\ EventOfStep = "CpuInstructions" => Cycles' \in 0..8
        /\ EventOfStep # "CpuInstructions" => Cycles' = 7
    BY <1>1, CallCounts
  <2>2. Running!Tick
    BY <2>1 DEF Running!Tick
  <2> QED
    BY <1>1, <2>1, <2>2
<1>2. CASE ~ExecuteInsn
  <2>1. UNCHANGED Counter
    BY <1>2 DEF Next, IRQRequest, NMIRequest, Reset, vars
  <2> QED
    BY <1>2, <2>1
<1> QED
  BY <1>1, <1>2

(* Whatever program runs, each call of ExecuteInsn counts what it did, one  *)
(* event and the cycles it returns, and nothing else moves the counters     *)
(* (ExecuteInsn): module Counters is all that module CounterProgram needs   *)
(* to know of the processor.                                                *)
THEOREM CountersContract == Spec => RefinesCounters
<1>1. Init => Running!CountersInit
  BY DEF Init, Running!CountersInit, CounterFields, Running!CounterFields, Running!Events
<1>2. IInv /\ [Next]_vars =>
        /\ [Running!Tick]_Counter
        /\ [IF ExecuteInsn THEN Running!Advance(EventOfStep, Cycles') ELSE UNCHANGED Counter]_vars
  BY StepCounts
<1> QED
  BY <1>1, <1>2, Invariance, PTL DEF Spec, RefinesCounters, Running!CountersSpec

-----------------------------------------------------------------------------
(* The dispatch tables                                                      *)

(* The handler that an entry of a row names, and the opcodes that a family  *)
(* of a row has handlers for.                                               *)
Named(h) == [op |-> h[2], mode |-> h[3]]
Codes(family) == {h[1] : h \in family}

(* The documented opcodes by their columns, and those the 65C02 adds or     *)
(* changes.                                                                 *)
NmosColumns(opc) ==
    \/ opc % 16 \in {0, 1, 5, 6, 8, 9, 13, 14} /\ opc \notin {\h80, \h89, \h9E}
    \/ opc \in {\hA2, \h24, \h84, \h94, \hA4, \hB4, \hC4, \hE4}
    \/ opc \in {\h0A, \h2A, \h4A, \h6A, \h8A, \h9A, \hAA, \hBA, \hCA, \hEA}
    \/ opc \in {\h2C, \h4C, \h6C, \h8C, \hAC, \hBC, \hCC, \hEC}

CmosColumns(opc) ==
    \/ opc % 16 \in {7, 15} \/ opc % 32 = 18
    \/ opc \in {\h04, \h0C, \h14, \h1A, \h1C, \h1E, \h34, \h3A, \h3C, \h3E, \h5A, \h5C, \h5E,
                \h61, \h64, \h65, \h69, \h6C, \h6D, \h71, \h74, \h75, \h79, \h7A, \h7C, \h7D, \h7E}
    \/ opc \in {\h80, \h89, \h9C, \h9E, \hDA, \hE1, \hE5, \hE9, \hED, \hF1, \hF5, \hF9, \hFA, \hFD}

Covers(row, opc) ==
    /\ opc \in Codes(row.nmos) <=> NmosColumns(opc)
    /\ opc \in Codes(row.nmosx) <=> ~NmosColumns(opc) /\ opc \notin Jams
    /\ opc \in Codes(row.cmos) <=> CmosColumns(opc)

(* The operations after which execution does not go on behind the           *)
(* instruction, and the bytes of the others.                                *)
Transfers == Branches \cup {"BBR", "BBS", "JMP", "JSR", "BRK", "RTS", "RTI"}

Pushes == {"PHA", "PHP", "PHX", "PHY"}
Pulls  == {"PLA", "PLP", "PLX", "PLY"}

(* The NOPs that only the 65C02 has.                                        *)
Fillers == {"NOP11", "NOP22", "NOP24", "NOP34", "NOP38"}

Length(insn) ==
    IF insn.op \in {"NOP22", "NOP24", "RMB", "SMB"} THEN 2
    ELSE IF insn.op \in {"NOP34", "NOP38"} THEN 3
    ELSE IF insn.op \in Pushes \cup Pulls \cup {"NOP11"} THEN 1
    ELSE IF insn.mode \in Absolute THEN 3
    ELSE IF insn.mode \in {"IMP", "ACC"} /\ insn.op \notin UnstableStores THEN 1 ELSE 2

(* What must be in the slot of an opcode.                                   *)
InPlace(opc, insn) ==
    /\ opc % 32 = 16 => insn.op \in Branches
    /\ insn.op = "JMP" /\ insn.mode = "IND" <=> opc = \h6C /\ CPU # "CPU_65C02"
    /\ insn.op = "BRK" <=> opc = \h00
    /\ insn.op = "JSR" <=> opc = \h20
    /\ insn.op \in Pushes <=>
          opc \in {\h08, \h48} \/ (CPU = "CPU_65C02" /\ opc \in {\h5A, \hDA})
    /\ FallThrough(opc) => insn.op \notin Transfers /\ Length(insn) = InstructionBytes(opc)

(* The operation that the fields of an opcode (aaabbbcc) stand for.         *)
Operation(opc) == opc \div 32
Shape(opc)     == (opc \div 4) % 8
Group(opc)     == opc % 4

BranchOp(opc) ==
    CASE opc = \h10 -> "BPL" [] opc = \h30 -> "BMI" [] opc = \h50 -> "BVC" [] opc = \h70 -> "BVS"
      [] opc = \h90 -> "BCC" [] opc = \hB0 -> "BCS" [] opc = \hD0 -> "BNE" [] OTHER -> "BEQ"

GroupOneOp(opc) ==
    LET a == Operation(opc)
        cmos == CPU = "CPU_65C02"
    IN  CASE a = 0 -> "ORA"
          [] a = 1 -> "AND"
          [] a = 2 -> "EOR"
          [] a = 3 -> IF cmos THEN "ADC_65C02" ELSE "ADC_6502"
          [] a = 4 -> "STA"
          [] a = 5 -> "LDA"
          [] a = 6 -> "CMP"
          [] OTHER -> IF cmos THEN "SBC_65C02" ELSE "SBC_6502"

ShiftOp(opc) ==
    LET a == Operation(opc)
    IN  CASE a = 0 -> "ASL" [] a = 1 -> "ROL" [] a = 2 -> "LSR" [] a = 3 -> "ROR"
          [] a = 4 -> "STX" [] a = 5 -> "LDX" [] a = 6 -> "DEC" [] OTHER -> "INC"

CombinedOp(opc) ==
    LET a == Operation(opc)
    IN  CASE a = 0 -> "SLO" [] a = 1 -> "RLA" [] a = 2 -> "SRE" [] a = 3 -> "RRA"
          [] a = 4 -> "SAX" [] a = 5 -> "LAX" [] a = 6 -> "DCP" [] OTHER -> "ISC"

ImpliedCodes == {\h18, \h38, \h58, \h78, \hB8, \hD8, \hF8, \hAA, \hA8, \h8A, \h98, \hBA, \h9A,
                 \hCA, \hE8, \h88, \hC8}

ImpliedOp(opc) ==
    CASE opc = \h18 -> "CLC" [] opc = \h38 -> "SEC" [] opc = \h58 -> "CLI" [] opc = \h78 -> "SEI"
      [] opc = \hB8 -> "CLV" [] opc = \hD8 -> "CLD" [] opc = \hF8 -> "SED"
      [] opc = \hAA -> "TAX" [] opc = \hA8 -> "TAY" [] opc = \h8A -> "TXA" [] opc = \h98 -> "TYA"
      [] opc = \hBA -> "TSX" [] opc = \h9A -> "TXS"
      [] opc = \hCA -> "DEX" [] opc = \hE8 -> "INX" [] opc = \h88 -> "DEY" [] OTHER -> "INY"

(* The modes that address the operand where the fields say it is.           *)
UsesYR(opc) == Shape(opc) \in {4, 6} \/ (Group(opc) >= 2 /\ Operation(opc) \in {4, 5})

Reaching(opc) ==
    LET b == Shape(opc)
    IN  CASE opc % 32 = 18 -> {"ZPIND"}
          [] b = 0 -> IF Group(opc) \in {0, 2} THEN {"IMM"} ELSE {"ZPXIND"}
          [] b = 1 -> {"ZP"}
          [] b = 2 -> {"IMM"}
          [] b = 3 -> {"ABS"}
          [] b = 4 /\ opc % 32 # 18 -> {"ZPINDY", "ZPINDY_NP"}
          [] b = 5 -> IF UsesYR(opc) THEN {"ZPY"} ELSE {"ZPX"}
          [] OTHER -> IF UsesYR(opc) THEN {"ABSY", "ABSY_NP"} ELSE {"ABSX", "ABSX_NP"}

(* The opcodes with an operand there.                                       *)
Operated(opc) ==
    \/ Group(opc) = 1 /\ (opc # \h89 \/ CPU = "CPU_65C02")
    \/ Group(opc) = 2 /\ Shape(opc) \in {1, 3, 5, 7} /\ opc # \h9E
    \/ opc \in {\hA0, \hA2, \hA4, \hAC, \hB4, \hBC, \h84, \h8C, \h94, \hC0, \hC4, \hCC,
                \hE0, \hE4, \hEC, \h24, \h2C}
    \/ CPU = "CPU_6502X" /\ Group(opc) = 3 /\ opc \notin {\h93, \h9B, \h9F}
    \/ CPU = "CPU_65C02" /\ (opc % 32 = 18 \/ opc \in {\h34, \h3C, \h04, \h0C, \h64, \h74})

(* Modes that pay for leaving the page, and those that never do.            *)
Indexed  == {"ABSX", "ABSY", "ZPINDY"}
NeverPay == {"ABSX_NP", "ABSY_NP", "ZPINDY_NP"}

DecodesGroups(opc, insn) ==
    /\ Group(opc) = 1 /\ opc # \h89 => insn.op = GroupOneOp(opc)
    /\ Group(opc) = 1 /\ Operation(opc) # 4 /\ Shape(opc) \in {4, 6, 7} => insn.mode \in Indexed
    /\ opc \in {\h91, \h99, \h9D} => insn.mode \in NeverPay
    /\ Group(opc) = 2 /\ Shape(opc) \in {1, 3, 5, 7} /\ opc # \h9E => insn.op = ShiftOp(opc)
    /\ opc \in {\h1E, \h3E, \h5E, \h7E} =>
          insn.mode = IF CPU = "CPU_65C02" THEN "ABSX" ELSE "ABSX_NP"
    /\ opc \in {\hDE, \hFE} => insn.mode = "ABSX_NP"
    /\ opc \in {\hBC, \hBE} => insn.mode \in Indexed
    /\ opc \in {\h0A, \h2A, \h4A, \h6A} => insn.op = ShiftOp(opc) /\ insn.mode = "ACC"
    /\ opc = \hA2 => insn.op = "LDX"
    /\ opc \in {\hA0, \hA4, \hAC, \hB4, \hBC} => insn.op = "LDY"
    /\ opc \in {\h84, \h8C, \h94} => insn.op = "STY"
    /\ opc \in {\hC0, \hC4, \hCC} => insn.op = "CPY"
    /\ opc \in {\hE0, \hE4, \hEC} => insn.op = "CPX"
    /\ opc \in {\h24, \h2C} => insn.op = "BIT"
    /\ Operated(opc) => insn.mode \in Reaching(opc)

DecodesSingles(opc, insn) ==
    /\ opc % 32 = 16 => insn.op = BranchOp(opc)
    /\ opc \in ImpliedCodes => insn.op = ImpliedOp(opc)
    /\ opc = \hEA => insn.op = "NOP" /\ insn.mode = "IMP"
    /\ opc = \h48 => insn.op = "PHA"
    /\ opc = \h08 => insn.op = "PHP"
    /\ opc = \h68 => insn.op = "PLA"
    /\ opc = \h28 => insn.op = "PLP"
    /\ opc = \h4C => insn.op = "JMP" /\ insn.mode = "ABS"
    /\ opc = \h6C => insn.op = "JMP" /\ insn.mode = IF CPU = "CPU_65C02" THEN "IND_65C02" ELSE "IND"
    /\ opc = \h60 => insn.op = "RTS"
    /\ opc = \h40 => insn.op = "RTI"

DecodesNmosOnly(opc, insn) ==
    CPU = "CPU_6502X" =>
        /\ Group(opc) = 3 /\ Shape(opc) # 2 /\ opc \notin {\h93, \h9B, \h9F, \hBB} =>
              insn.op = CombinedOp(opc)
        /\ opc = \hBB => insn.op = "LAS"
        /\ opc \in {\h0B, \h2B} => insn.op = "ANC"
        /\ opc = \h4B => insn.op = "ASR"
        /\ opc = \h6B => insn.op = "ARR"
        /\ opc = \h8B => insn.op = "ANE"
        /\ opc = \hAB => insn.op = "LXA"
        /\ opc = \hCB => insn.op = "SBX"
        /\ opc = \hEB => insn.op = "SBC_6502"
        /\ opc \in {\h93, \h9F} => insn.op = "SHA"
        /\ opc = \h9B => insn.op = "TAS"
        /\ opc = \h9C => insn.op = "SHY"
        /\ opc = \h9E => insn.op = "SHX"
        /\ opc \in {\h93, \h9B, \h9C, \h9E, \h9F} =>
              insn.mode = IF opc = \h93 THEN "ZPINDY" ELSE IF opc = \h9C THEN "ABSX" ELSE "ABSY"
        /\ opc \in DocNops => insn.op = "NOP"

(* The cycles of the NOPs of the 65C02.                                     *)
IdleCycles(opc) ==
    CASE Group(opc) = 3 -> 1 [] Group(opc) = 2 -> 2 [] opc = \h44 -> 3 [] opc = \h5C -> 8 [] OTHER -> 4

DecodesCmosOnly(opc, insn) ==
    CPU = "CPU_65C02" =>
        /\ opc % 32 = 18 => insn.op = GroupOneOp(opc)
        /\ opc \in {\h34, \h3C} => insn.op = "BIT" /\ insn.mode \notin NeverPay
        /\ opc = \h1A => insn.op = "INC" /\ insn.mode = "ACC"
        /\ opc = \h3A => insn.op = "DEC" /\ insn.mode = "ACC"
        /\ opc \in {\h04, \h0C} => insn.op = "TSB"
        /\ opc \in {\h14, \h1C} => insn.op = "TRB" /\ insn.mode = IF opc = \h14 THEN "ZP" ELSE "ABS"
        /\ opc \in {\h64, \h74, \h9C, \h9E} => insn.op = "STZ"
        /\ opc = \h9C => insn.mode = "ABS"
        /\ opc = \h9E => insn.mode = "ABSX_NP"
        /\ opc = \h89 => insn.op = "BITIMM"
        /\ opc = \h7C => insn.op = "JMP" /\ insn.mode = "ABSXIND"
        /\ opc = \h7A => insn.op = "PLY"
        /\ opc = \hFA => insn.op = "PLX"
        /\ opc = \h5A => insn.op = "PHY"
        /\ opc = \hDA => insn.op = "PHX"
        /\ opc % 16 = 7 => insn.op = IF opc < 128 THEN "RMB" ELSE "SMB"
        /\ opc % 16 = 15 => insn.op = IF opc < 128 THEN "BBR" ELSE "BBS"
        /\ opc = \h80 => insn.op = "BRA"
        /\ opc \in CmosNops =>
              IF opc = \h44 THEN insn.op = "NOP" /\ insn.mode = "ZP"
              ELSE insn.op \in Fillers /\ NopCycles[insn.op] = IdleCycles(opc)

(* The operations about each register.                                      *)
OpsOnXR == {"LDX", "TAX", "TSX", "INX", "DEX", "LAX", "LXA", "LAS", "SBX", "PLX"}
OpsOnYR == {"LDY", "TAY", "INY", "DEY", "PLY"}
OpsOnSP == Pushes \cup Pulls \cup {"BRK", "JSR", "RTI", "RTS", "TXS", "TAS", "LAS"}
OpsOnAC == {"ORA", "AND", "EOR", "ADC_6502", "ADC_65C02", "SBC_6502", "SBC_65C02", "LDA", "TXA",
            "TYA", "PLA", "LAX", "LXA", "LAS", "ANC", "ASR", "ARR", "ANE", "SLO", "RLA", "SRE",
            "RRA", "ISC"}

CodesOnXR == {\hA2, \hA6, \hAE, \hB6, \hBE, \hAA, \hBA, \hCA, \hE8}
                \cup (IF CPU = "CPU_6502X" THEN {\hA3, \hA7, \hAB, \hAF, \hB3, \hB7, \hBB, \hBF, \hCB}
                      ELSE IF CPU = "CPU_65C02" THEN {\hFA} ELSE {})
CodesOnYR == {\hA0, \hA4, \hAC, \hB4, \hBC, \hA8, \h88, \hC8}
                \cup (IF CPU = "CPU_65C02" THEN {\h7A} ELSE {})
CodesOnSP == {\h00, \h20, \h40, \h60, \h08, \h28, \h48, \h68, \h9A}
                \cup (IF CPU = "CPU_6502X" THEN {\h9B, \hBB}
                      ELSE IF CPU = "CPU_65C02" THEN {\h5A, \hDA, \h7A, \hFA} ELSE {})
CodesOnAC(opc) ==
    \/ Group(opc) = 1 \/ opc \in {\h0A, \h2A, \h4A, \h6A, \h8A, \h98, \h68}
    \/ CPU = "CPU_6502X" /\ Group(opc) = 3
    \/ CPU = "CPU_65C02" /\ opc \in {\h12, \h1A, \h32, \h3A, \h52, \h72, \hB2, \hF2}

Touches(opc, insn) ==
    /\ insn.op \in OpsOnXR => opc \in CodesOnXR
    /\ insn.op \in OpsOnYR => opc \in CodesOnYR
    /\ insn.op \in OpsOnSP => opc \in CodesOnSP
    /\ insn.op \in OpsOnAC \/ insn.mode = "ACC" => CodesOnAC(opc)

Decoded(opc, insn) ==
    /\ DecodesGroups(opc, insn)
    /\ DecodesSingles(opc, insn)
    /\ DecodesNmosOnly(opc, insn)
    /\ DecodesCmosOnly(opc, insn)
    /\ Touches(opc, insn)

Implements(opc, insn) == InPlace(opc, insn) /\ Decoded(opc, insn) /\ insn.op # "Illegal"

(* Every entry that a processor uses is in the right slot of its row.       *)
NmosFits(h)  == (CPU = "CPU_65C02" => ~CmosColumns(h[1])) => Implements(h[1], Named(h))
NmosxFits(h) == CPU = "CPU_6502X" => Implements(h[1], Named(h))
CmosFits(h)  == CPU = "CPU_65C02" => Implements(h[1], Named(h))

Fits(row) ==
    /\ \A h \in row.nmos : NmosFits(h)
    /\ \A h \in row.nmosx : NmosxFits(h)
    /\ \A h \in row.cmos : CmosFits(h)

(* The row of an opcode is named by its high digit.                         *)
LEMMA RowOf ==
    ASSUME NEW opc \in Byte
    PROVE  \E k \in 1..16 : Row(opc) = Rows[k] /\ opc \in (16 * (k - 1))..(16 * (k - 1) + 15)
<1> DEFINE d == opc \div 16
<1>1. d \in 0..15 /\ opc \in (16 * d)..(16 * d + 15)
  BY SMT DEF Byte
<1>2. Row(opc) = Rows[d + 1]
  BY DEF Row
<1> HIDE DEF d
<1>3. d + 1 \in 1..16 /\ d + 1 - 1 = d
  BY <1>1, SMT
<1> QED
  BY <1>1, <1>2, <1>3

(* The rows have handlers for these opcodes and no other.                   *)
LEMMA Coverage ==
    ASSUME NEW opc \in Byte
    PROVE  Covers(Row(opc), opc)
<1> USE DEF Covers, Codes, NmosColumns, CmosColumns, Jams
<1>1. \A o \in \h00..\h0F : Covers(Opc_0x, o)
  BY SMT DEF Opc_0x
<1>2. \A o \in \h10..\h1F : Covers(Opc_1x, o)
  BY SMT DEF Opc_1x
<1>3. \A o \in \h20..\h2F : Covers(Opc_2x, o)
  BY SMT DEF Opc_2x
<1>4. \A o \in \h30..\h3F : Covers(Opc_3x, o)
  BY SMT DEF Opc_3x
<1>5. \A o \in \h40..\h4F : Covers(Opc_4x, o)
  BY SMT DEF Opc_4x
<1>6. \A o \in \h50..\h5F : Covers(Opc_5x, o)
  BY SMT DEF Opc_5x
<1>7. \A o \in \h60..\h6F : Covers(Opc_6x, o)
  BY SMT DEF Opc_6x
<1>8. \A o \in \h70..\h7F : Covers(Opc_7x, o)
  BY SMT DEF Opc_7x
<1>9. \A o \in \h80..\h8F : Covers(Opc_8x, o)
  BY SMT DEF Opc_8x
<1>10. \A o \in \h90..\h9F : Covers(Opc_9x, o)
  BY SMT DEF Opc_9x
<1>11. \A o \in \hA0..\hAF : Covers(Opc_Ax, o)
  BY SMT DEF Opc_Ax
<1>12. \A o \in \hB0..\hBF : Covers(Opc_Bx, o)
  BY SMT DEF Opc_Bx
<1>13. \A o \in \hC0..\hCF : Covers(Opc_Cx, o)
  BY SMT DEF Opc_Cx
<1>14. \A o \in \hD0..\hDF : Covers(Opc_Dx, o)
  BY SMT DEF Opc_Dx
<1>15. \A o \in \hE0..\hEF : Covers(Opc_Ex, o)
  BY SMT DEF Opc_Ex
<1>16. \A o \in \hF0..\hFF : Covers(Opc_Fx, o)
  BY SMT DEF Opc_Fx
<1> HIDE DEF Covers
<1> QED
  BY <1>1, <1>2, <1>3, <1>4, <1>5, <1>6, <1>7, <1>8, <1>9, <1>10, <1>11, <1>12, <1>13, <1>14, <1>15, <1>16, RowOf DEF Rows

(* And the handlers are in the right slots.                                 *)
LEMMA Placement ==
    ASSUME NEW opc \in Byte
    PROVE  Fits(Row(opc))
<1> USE DEF Named, Transfers, Branches, Length, Absolute, InPlace, Implements, Pushes, Pulls, UnstableStores,
      FallThrough, InstructionBytes, NmosFits, NmosxFits, CmosFits, CmosColumns, Decoded, DecodesGroups,
      DecodesSingles, DecodesNmosOnly, DecodesCmosOnly, Touches, Operation, Shape, Group, BranchOp,
      GroupOneOp, ShiftOp, CombinedOp, ImpliedCodes, ImpliedOp, UsesYR, Reaching, Operated, Indexed,
      NeverPay, Fillers, IdleCycles, NopCycles, OpsOnXR, OpsOnYR, OpsOnSP, OpsOnAC, CodesOnXR,
      CodesOnYR, CodesOnSP, CodesOnAC, DocNops, CmosNops
<1>1. Fits(Opc_0x)
  <2>1. \A h \in Opc_0x.nmos : NmosFits(h)
    BY SMTT(30) DEF Opc_0x
  <2>2. \A h \in Opc_0x.nmosx : NmosxFits(h)
    BY SMTT(30) DEF Opc_0x
  <2>3. \A h \in Opc_0x.cmos : CmosFits(h)
    BY SMTT(30) DEF Opc_0x
  <2> QED
    BY <2>1, <2>2, <2>3 DEF Fits
<1>2. Fits(Opc_1x)
  <2>1. \A h \in Opc_1x.nmos : NmosFits(h)
    BY SMTT(30) DEF Opc_1x
  <2>2. \A h \in Opc_1x.nmosx : NmosxFits(h)
    BY SMTT(30) DEF Opc_1x
  <2>3. \A h \in Opc_1x.cmos : CmosFits(h)
    BY SMTT(30) DEF Opc_1x
  <2> QED
    BY <2>1, <2>2, <2>3 DEF Fits
<1>3. Fits(Opc_2x)
  <2>1. \A h \in Opc_2x.nmos : NmosFits(h)
    BY SMTT(30) DEF Opc_2x
  <2>2. \A h \in Opc_2x.nmosx : NmosxFits(h)
    BY SMTT(30) DEF Opc_2x
  <2>3. \A h \in Opc_2x.cmos : CmosFits(h)
    BY SMTT(30) DEF Opc_2x
  <2> QED
    BY <2>1, <2>2, <2>3 DEF Fits
<1>4. Fits(Opc_3x)
  <2>1. \A h \in Opc_3x.nmos : NmosFits(h)
    BY SMTT(30) DEF Opc_3x
  <2>2. \A h \in Opc_3x.nmosx : NmosxFits(h)
    BY SMTT(30) DEF Opc_3x
  <2>3. \A h \in Opc_3x.cmos : CmosFits(h)
    BY SMTT(30) DEF Opc_3x
  <2> QED
    BY <2>1, <2>2, <2>3 DEF Fits
<1>5. Fits(Opc_4x)
  <2>1. \A h \in Opc_4x.nmos : NmosFits(h)
    BY SMTT(30) DEF Opc_4x
  <2>2. \A h \in Opc_4x.nmosx : NmosxFits(h)
    BY SMTT(30) DEF Opc_4x
  <2>3. \A h \in Opc_4x.cmos : CmosFits(h)
    BY SMTT(30) DEF Opc_4x
  <2> QED
    BY <2>1, <2>2, <2>3 DEF Fits
<1>6. Fits(Opc_5x)
  <2>1. \A h \in Opc_5x.nmos : NmosFits(h)
    BY SMTT(30) DEF Opc_5x
  <2>2. \A h \in Opc_5x.nmosx : NmosxFits(h)
    BY SMTT(30) DEF Opc_5x
  <2>3. \A h \in Opc_5x.cmos : CmosFits(h)
    BY SMTT(30) DEF Opc_5x
  <2> QED
    BY <2>1, <2>2, <2>3 DEF Fits
<1>7. Fits(Opc_6x)
  <2>1. \A h \in Opc_6x.nmos : NmosFits(h)
    BY SMTT(30) DEF Opc_6x
  <2>2. \A h \in Opc_6x.nmosx : NmosxFits(h)
    BY SMTT(30) DEF Opc_6x
  <2>3. \A h \in Opc_6x.cmos : CmosFits(h)
    BY SMTT(30) DEF Opc_6x
  <2> QED
    BY <2>1, <2>2, <2>3 DEF Fits
<1>8. Fits(Opc_7x)
  <2>1. \A h \in Opc_7x.nmos : NmosFits(h)
    BY SMTT(30) DEF Opc_7x
  <2>2. \A h \in Opc_7x.nmosx : NmosxFits(h)
    BY SMTT(30) DEF Opc_7x
  <2>3. \A h \in Opc_7x.cmos : CmosFits(h)
    BY SMTT(30) DEF Opc_7x
  <2> QED
    BY <2>1, <2>2, <2>3 DEF Fits
<1>9. Fits(Opc_8x)
  <2>1. \A h \in Opc_8x.nmos : NmosFits(h)
    BY SMTT(30) DEF Opc_8x
  <2>2. \A h \in Opc_8x.nmosx : NmosxFits(h)
    BY SMTT(30) DEF Opc_8x
  <2>3. \A h \in Opc_8x.cmos : CmosFits(h)
    BY SMTT(30) DEF Opc_8x
  <2> QED
    BY <2>1, <2>2, <2>3 DEF Fits
<1>10. Fits(Opc_9x)
  <2>1. \A h \in Opc_9x.nmos : NmosFits(h)
    BY SMTT(30) DEF Opc_9x
  <2>2. \A h \in Opc_9x.nmosx : NmosxFits(h)
    BY SMTT(30) DEF Opc_9x
  <2>3. \A h \in Opc_9x.cmos : CmosFits(h)
    BY SMTT(30) DEF Opc_9x
  <2> QED
    BY <2>1, <2>2, <2>3 DEF Fits
<1>11. Fits(Opc_Ax)
  <2>1. \A h \in Opc_Ax.nmos : NmosFits(h)
    BY SMTT(30) DEF Opc_Ax
  <2>2. \A h \in Opc_Ax.nmosx : NmosxFits(h)
    BY SMTT(30) DEF Opc_Ax
  <2>3. \A h \in Opc_Ax.cmos : CmosFits(h)
    BY SMTT(30) DEF Opc_Ax
  <2> QED
    BY <2>1, <2>2, <2>3 DEF Fits
<1>12. Fits(Opc_Bx)
  <2>1. \A h \in Opc_Bx.nmos : NmosFits(h)
    BY SMTT(30) DEF Opc_Bx
  <2>2. \A h \in Opc_Bx.nmosx : NmosxFits(h)
    BY SMTT(30) DEF Opc_Bx
  <2>3. \A h \in Opc_Bx.cmos : CmosFits(h)
    BY SMTT(30) DEF Opc_Bx
  <2> QED
    BY <2>1, <2>2, <2>3 DEF Fits
<1>13. Fits(Opc_Cx)
  <2>1. \A h \in Opc_Cx.nmos : NmosFits(h)
    BY SMTT(30) DEF Opc_Cx
  <2>2. \A h \in Opc_Cx.nmosx : NmosxFits(h)
    BY SMTT(30) DEF Opc_Cx
  <2>3. \A h \in Opc_Cx.cmos : CmosFits(h)
    BY SMTT(30) DEF Opc_Cx
  <2> QED
    BY <2>1, <2>2, <2>3 DEF Fits
<1>14. Fits(Opc_Dx)
  <2>1. \A h \in Opc_Dx.nmos : NmosFits(h)
    BY SMTT(30) DEF Opc_Dx
  <2>2. \A h \in Opc_Dx.nmosx : NmosxFits(h)
    BY SMTT(30) DEF Opc_Dx
  <2>3. \A h \in Opc_Dx.cmos : CmosFits(h)
    BY SMTT(30) DEF Opc_Dx
  <2> QED
    BY <2>1, <2>2, <2>3 DEF Fits
<1>15. Fits(Opc_Ex)
  <2>1. \A h \in Opc_Ex.nmos : NmosFits(h)
    BY SMTT(30) DEF Opc_Ex
  <2>2. \A h \in Opc_Ex.nmosx : NmosxFits(h)
    BY SMTT(30) DEF Opc_Ex
  <2>3. \A h \in Opc_Ex.cmos : CmosFits(h)
    BY SMTT(30) DEF Opc_Ex
  <2> QED
    BY <2>1, <2>2, <2>3 DEF Fits
<1>16. Fits(Opc_Fx)
  <2>1. \A h \in Opc_Fx.nmos : NmosFits(h)
    BY SMTT(30) DEF Opc_Fx
  <2>2. \A h \in Opc_Fx.nmosx : NmosxFits(h)
    BY SMTT(30) DEF Opc_Fx
  <2>3. \A h \in Opc_Fx.cmos : CmosFits(h)
    BY SMTT(30) DEF Opc_Fx
  <2> QED
    BY <2>1, <2>2, <2>3 DEF Fits
<1> QED
  BY <1>1, <1>2, <1>3, <1>4, <1>5, <1>6, <1>7, <1>8, <1>9, <1>10, <1>11, <1>12, <1>13, <1>14, <1>15, <1>16, RowOf DEF Rows

(* A handler that a family has for an opcode is the one its row names.      *)
LEMMA Chosen ==
    ASSUME NEW family, NEW opc
    PROVE  /\ Has(family, opc) <=> opc \in Codes(Row(opc)[family])
           /\ Has(family, opc) => \E h \in Row(opc)[family] : h[1] = opc /\ OPC(family, opc) = Named(h)
<1>1. Has(family, opc) <=> opc \in Codes(Row(opc)[family])
  BY DEF Has, Codes
<1>2. ASSUME Has(family, opc)
      PROVE  \E h \in Row(opc)[family] : h[1] = opc /\ OPC(family, opc) = Named(h)
  <2> DEFINE h == CHOOSE e \in Row(opc)[family] : e[1] = opc
  <2>1. h \in Row(opc)[family] /\ h[1] = opc
    BY <1>2 DEF Has
  <2>2. OPC(family, opc) = Named(h)
    BY DEF OPC, Named
  <2> QED
    BY <2>1, <2>2
<1> QED
  BY <1>1, <1>2

(* The opcodes a processor supports, by their columns.                      *)
LEMMA Supported ==
    ASSUME NEW opc \in Byte
    PROVE  /\ opc \in sim65_supported_opcodes["CPU_6502"] <=> NmosColumns(opc)
           /\ opc \in sim65_supported_opcodes["CPU_6502X"] <=> opc \notin Jams
           /\ opc \in sim65_supported_opcodes["CPU_65C02"] <=> opc \notin {\hCB, \hDB}
<1> DEFINE S0 == {b \in Byte : b % 16 \in {0, 1, 5, 6, 8, 9, 13, 14}} \ {\h80, \h89, \h9E}
           S1 == {\hA2, \h24, \h84, \h94, \hA4, \hB4, \hC4, \hE4}
           S2 == {\h0A, \h2A, \h4A, \h6A, \h8A, \h9A, \hAA, \hBA, \hCA, \hEA}
           S3 == {\h2C, \h4C, \h6C, \h8C, \hAC, \hBC, \hCC, \hEC}
<1>1. Documented = UNION {S0, S1, S2, S3}
  BY DEF Documented
<1>2. opc \in Documented <=> opc \in S0 \/ opc \in S1 \/ opc \in S2 \/ opc \in S3
  <2> HIDE DEF S0, S1, S2, S3
  <2> QED
    BY <1>1
<1>3. opc \in Documented <=> NmosColumns(opc)
  BY <1>2 DEF NmosColumns
<1> QED
  BY <1>3 DEF sim65_supported_opcodes

(* An opcode that no handler is in the slot of is none that the properties  *)
(* of single instructions speak of.                                         *)
LEMMA Leftover ==
    ASSUME NEW opc \in Byte, ~NmosColumns(opc), CPU \in CPUType
    PROVE  /\ opc \notin sim65_supported_opcodes[CPU] => InPlace(opc, Illegal)
           /\ CPU = "CPU_65C02" /\ ~CmosColumns(opc) /\ opc \notin {\hCB, \hDB} =>
                 Implements(opc, CmosFiller(opc))
<1>1. /\ opc % 32 # 16
      /\ opc \notin {\h00, \h20, \h08, \h48, \h6C}
  BY SMT DEF NmosColumns, Byte
<1>2. opc \notin sim65_supported_opcodes[CPU] /\ CPU = "CPU_65C02" => opc \notin {\h5A, \hDA}
  BY Supported
<1>3. opc \notin sim65_supported_opcodes[CPU] => InPlace(opc, Illegal)
  BY <1>1, <1>2 DEF InPlace, FallThrough, Illegal, Branches, Pushes
<1>4. ASSUME CPU = "CPU_65C02", ~CmosColumns(opc), opc \notin {\hCB, \hDB}
      PROVE  Implements(opc, CmosFiller(opc))
  <2>1. \/ opc % 16 \in {3, 11} /\ CmosFiller(opc) = [op |-> "NOP11", mode |-> "IMP"]
        \/ opc % 16 = 2 /\ CmosFiller(opc) = [op |-> "NOP22", mode |-> "IMP"]
        \/ opc \in {\h54, \hD4, \hF4} /\ CmosFiller(opc) = [op |-> "NOP24", mode |-> "IMP"]
        \/ opc \in {\hDC, \hFC} /\ CmosFiller(opc) = [op |-> "NOP34", mode |-> "IMP"]
        \/ opc = \h44 /\ CmosFiller(opc) = OPC("nmosx", \h44)
    <3>1. opc \in {\h44, \h54, \hD4, \hF4, \hDC, \hFC} \/ opc % 16 \in {2, 3, 11}
      BY <1>4, SMT DEF NmosColumns, CmosColumns, Byte
    <3> QED
      BY <1>4, <3>1, SMT DEF CmosFiller
  <2>2. OPC("nmosx", \h44) = [op |-> "NOP", mode |-> "ZP"]
    <3>1. \h44 \in Byte /\ ~NmosColumns(\h44) /\ \h44 \notin Jams
      BY SMT DEF Byte, NmosColumns, Jams
    <3>2. PICK h \in Row(\h44)["nmosx"] : h[1] = \h44 /\ OPC("nmosx", \h44) = Named(h)
      BY <3>1, Coverage, Chosen DEF Covers
    <3>3. Row(\h44) = Opc_4x
      BY SMT DEF Row, Rows
    <3>4. \A e \in Opc_4x.nmosx : e[1] = \h44 => Named(e) = [op |-> "NOP", mode |-> "ZP"]
      BY SMT DEF Opc_4x, Named
    <3> QED
      BY <3>2, <3>3, <3>4
  <2>3. /\ opc % 16 \in {3, 11} => InstructionBytes(opc) = 1
        /\ opc % 16 = 2 \/ opc \in {\h44, \h54, \hD4, \hF4} => InstructionBytes(opc) = 2
        /\ opc \in {\hDC, \hFC} => InstructionBytes(opc) = 3
    BY <1>4, SMT DEF InstructionBytes
  <2>4. InPlace(opc, CmosFiller(opc)) /\ CmosFiller(opc).op # "Illegal"
    BY <1>1, <1>4, <2>1, <2>2, <2>3
       DEF InPlace, Length, Absolute, UnstableStores, Transfers, Branches, Pushes, Pulls, CmosColumns
  <2>5. Decoded(opc, CmosFiller(opc))
    <3> DEFINE insn == CmosFiller(opc)
    <3>1. opc \in Byte /\ ~NmosColumns(opc) /\ ~CmosColumns(opc) /\ opc \notin {\hCB, \hDB}
      BY <1>4
    <3>2. IF opc = \h44 THEN insn.op = "NOP" /\ insn.mode = "ZP" ELSE insn.op \in Fillers
      BY <2>1, <2>2, SMT DEF Fillers, Byte
    <3>3. insn.op \in Fillers => NopCycles[insn.op] = IdleCycles(opc)
      BY <2>1, <2>2, <3>1, SMT DEF Fillers, NopCycles, IdleCycles, Group, Byte
    <3>4. insn.mode # "ACC"
      BY <2>1, <2>2
    <3> HIDE DEF insn
    <3>5. DecodesGroups(opc, insn)
      BY <1>4, <3>1, SMT DEF DecodesGroups, NmosColumns, Group, Shape, Operated, Byte, CmosColumns
    <3>6. DecodesSingles(opc, insn)
      BY <3>1, SMT DEF DecodesSingles, NmosColumns, CmosColumns, ImpliedCodes, Byte
    <3>7. DecodesNmosOnly(opc, insn)
      BY <1>4 DEF DecodesNmosOnly
    <3>8. DecodesCmosOnly(opc, insn)
      BY <3>1, <3>2, <3>3, SMT DEF DecodesCmosOnly, NmosColumns, CmosColumns, CmosNops, Byte
    <3>9. Touches(opc, insn)
      BY <3>2, <3>4, SMT DEF Touches, Fillers, OpsOnXR, OpsOnYR, OpsOnSP, OpsOnAC, Pushes, Pulls
    <3> QED
      BY <3>5, <3>6, <3>7, <3>8, <3>9 DEF Decoded, insn
  <2> QED
    BY <2>4, <2>5 DEF Implements
<1> QED
  BY <1>3, <1>4

(* What the processor finds in the slot of an opcode.                       *)
LEMMA SlotOfOpcode ==
    ASSUME NEW opc \in Byte, CPU \in CPUType
    PROVE  /\ InPlace(opc, Handlers[CPU][opc])
           /\ Handlers[CPU][opc].op = "Illegal" <=> opc \notin sim65_supported_opcodes[CPU]
           /\ opc \in sim65_supported_opcodes[CPU] => Decoded(opc, Handlers[CPU][opc])
<1> DEFINE insn == Handlers[CPU][opc]
           row  == Row(opc)
<1>1. Covers(row, opc) /\ Fits(row)
  BY Coverage, Placement
<1>2. ASSUME Has("nmos", opc), CPU = "CPU_65C02" => ~CmosColumns(opc)
      PROVE  Implements(opc, OPC("nmos", opc))
  BY <1>1, <1>2, Chosen DEF Fits, NmosFits
<1>3. CASE CPU = "CPU_6502"
  <2>1. insn = IF Has("nmos", opc) THEN OPC("nmos", opc) ELSE Illegal
    BY <1>3 DEF Handlers, OP6502Table
  <2>2. Has("nmos", opc) <=> NmosColumns(opc)
    BY <1>1, Chosen DEF Covers
  <2> QED
    BY <1>2, <1>3, <2>1, <2>2, Supported, Leftover DEF Implements, Illegal
<1>4. CASE CPU = "CPU_6502X"
  <2>1. insn = IF Has("nmos", opc) THEN OPC("nmos", opc)
               ELSE IF Has("nmosx", opc) THEN OPC("nmosx", opc) ELSE Illegal
    BY <1>4 DEF Handlers, OP6502XTable
  <2>2. /\ Has("nmos", opc) <=> NmosColumns(opc)
        /\ Has("nmosx", opc) <=> ~NmosColumns(opc) /\ opc \notin Jams
    BY <1>1, Chosen DEF Covers
  <2>3. Has("nmosx", opc) => Implements(opc, OPC("nmosx", opc))
    BY <1>1, <1>4, Chosen DEF Fits, NmosxFits
  <2>4. NmosColumns(opc) => opc \notin Jams
    BY SMT DEF NmosColumns, Jams
  <2> QED
    BY <1>2, <1>4, <2>1, <2>2, <2>3, <2>4, Supported, Leftover DEF Implements, Illegal
<1>5. CASE CPU = "CPU_65C02"
  <2>1. insn = IF Has("cmos", opc) THEN OPC("cmos", opc)
               ELSE IF Has("nmos", opc) THEN OPC("nmos", opc) ELSE CmosFiller(opc)
    BY <1>5 DEF Handlers, OP65C02Table
  <2>2. /\ Has("nmos", opc) <=> NmosColumns(opc)
        /\ Has("cmos", opc) <=> CmosColumns(opc)
    BY <1>1, Chosen DEF Covers
  <2>3. Has("cmos", opc) => Implements(opc, OPC("cmos", opc))
    BY <1>1, <1>5, Chosen DEF Fits, CmosFits
  <2>4. opc \in {\hCB, \hDB} => ~NmosColumns(opc) /\ ~CmosColumns(opc) /\ CmosFiller(opc) = Illegal
    BY SMT DEF NmosColumns, CmosColumns, CmosFiller
  <2> QED
    BY <1>2, <1>5, <2>1, <2>2, <2>3, <2>4, Supported, Leftover DEF Implements, Illegal
<1> QED
  BY <1>3, <1>4, <1>5 DEF CPUType

(* The instruction a step executes is the one in the slot of its opcode.    *)
LEMMA InsnSlot ==
    ASSUME IInv
    PROVE  /\ InPlace(Opcode, Insn)
           /\ Insn.op = "Illegal" <=> Opcode \notin sim65_supported_opcodes[CPU]
           /\ Opcode \in sim65_supported_opcodes[CPU] => Decoded(Opcode, Insn)
           /\ Opcode \in Byte
<1>1. Opcode \in Byte
  BY OperandTypes DEF Opcode
<1>2. CPU \in CPUType
  BY DEF IInv, TypeOK
<1>3. Insn = Handlers[CPU][Opcode]
  BY DEF Insn, Opcode
<1> QED
  BY <1>1, <1>2, <1>3, SlotOfOpcode

(* Which handler runs is decided by the operation, and by the mode where    *)
(* the accumulator or a jump is concerned.                                  *)
LEMMA Executed ==
    ASSUME Handler
    PROVE  /\ Insn.op \in AluOps \ {"NOP"} => ALU_OP
           /\ Insn.op = "NOP" => ALU_OP \/ Implied
           /\ Insn.op \in {"STA", "STX", "STY", "STZ", "SAX"} => STO_OP
           /\ Insn.op \in RmwOps => IF Insn.mode = "ACC" THEN Accumulator ELSE MEM_OP
           /\ Insn.op \in {"RMB", "SMB"} => ZP_BITOP
           /\ Insn.op \in UnstableStores => UnstableStore
           /\ Insn.op \in ImpliedOps \ {"NOP"} => Implied
           /\ Insn.op \in Fillers => FillerNop
           /\ Insn.op \in Pushes => PushRegister
           /\ Insn.op \in Pulls => PullRegister
           /\ Insn.op = "BRK" => BRK
           /\ Insn.op = "JSR" => JSR
           /\ Insn.op = "RTI" => RTI
           /\ Insn.op = "RTS" => RTS
           /\ Insn.op \in Branches => BRANCH
           /\ Insn.op \in {"BBR", "BBS"} => ZP_BIT_BRANCH
           /\ Insn.op = "JMP" => \/ JMP_abs
                                 \/ JMP_ind
                                 \/ JMP_ind_65C02
           /\ Insn.op = "Illegal" => OPC_Illegal
<1> DEFINE op == Insn.op
           mode == Insn.mode
<1>1. /\ ALU_OP => op \in AluOps
      /\ STO_OP => op \in {"STA", "STX", "STY", "STZ", "SAX"}
      /\ MEM_OP => op \in RmwOps /\ mode # "ACC"
  BY DEF ALU_OP, STO_OP, Stored, MEM_OP, RMW_CY
<1>2. /\ ZP_BITOP => op \in {"RMB", "SMB"}
      /\ UnstableStore => op \in UnstableStores
      /\ Accumulator => op \in RmwOps /\ mode = "ACC"
      /\ Implied => op \in ImpliedOps
      /\ FillerNop => op \in Fillers
      /\ PushRegister => op \in Pushes
      /\ PullRegister => op \in Pulls
  BY DEF ZP_BITOP, UnstableStore, Accumulator, Implied, FillerNop, NopLength, Fillers,
         PushRegister, Pushed, Pushes, PullRegister, Pulls
<1>3. /\ BRK => op = "BRK"
      /\ JSR => op = "JSR"
      /\ RTI => op = "RTI"
      /\ RTS => op = "RTS"
      /\ BRANCH => op \in Branches
      /\ ZP_BIT_BRANCH => op \in {"BBR", "BBS"}
      /\ JMP_abs \/ JMP_ind \/ JMP_ind_65C02 => op = "JMP"
      /\ OPC_Illegal => op = "Illegal"
  BY DEF BRK, JSR, RTI, RTS, BRANCH, ZP_BIT_BRANCH, JMP_abs, JMP_ind, JMP_ind_65C02,
         OPC_Illegal, Step
<1> HIDE DEF op, mode
<1> USE DEF Handler, AluOps, RmwOps, UnstableStores, ImpliedOps, Fillers, Pushes, Pulls, Branches
<1>4. /\ op \in AluOps \ {"NOP"} => ALU_OP
      /\ op = "NOP" => ALU_OP \/ Implied
      /\ op \in {"STA", "STX", "STY", "STZ", "SAX"} => STO_OP
      /\ op \in RmwOps => IF mode = "ACC" THEN Accumulator ELSE MEM_OP
  BY <1>1, <1>2, <1>3
<1>5. /\ op \in {"RMB", "SMB"} => ZP_BITOP
      /\ op \in UnstableStores => UnstableStore
      /\ op \in ImpliedOps \ {"NOP"} => Implied
      /\ op \in Fillers => FillerNop
      /\ op \in Pushes => PushRegister
      /\ op \in Pulls => PullRegister
  BY <1>1, <1>2, <1>3
<1>6. /\ op = "BRK" => BRK
      /\ op = "JSR" => JSR
      /\ op = "RTI" => RTI
      /\ op = "RTS" => RTS
      /\ op \in Branches => BRANCH
      /\ op \in {"BBR", "BBS"} => ZP_BIT_BRANCH
      /\ op = "JMP" => JMP_abs \/ JMP_ind \/ JMP_ind_65C02
      /\ op = "Illegal" => OPC_Illegal
  BY <1>1, <1>2, <1>3
<1> QED
  BY <1>4, <1>5, <1>6 DEF op, mode

(* The pointer of an NMOS indirect jump crosses a page when it starts in    *)
(* the last byte of one.                                                    *)
LEMMA PointerSplits ==
    ASSUME NEW w \in Word
    PROVE  ToWord(Wrap8(w + 1), Hi(w)) # w + 1 <=> Lo(w) = 255
<1>1. w \in Int /\ 0 <= w /\ w < 65536
  BY SMT DEF Word
<1> QED
  BY <1>1, SMT DEF ToWord, Wrap8, Hi, Lo

(* What is reported: an error for an illegal opcode, a warning for a split  *)
(* pointer, and nothing else.                                               *)
LEMMA HandlerReports ==
    ASSUME IInv, Handler
    PROVE  Reported' = Reported \cup When("error", Insn.op = "Illegal")
                           \cup When("warning", Step("JMP", "IND") /\ Lo(OperandWord) = 255)
<1>1. CASE JMP_ind
  <2>1. Insn.op # "Illegal"
    BY <1>1 DEF JMP_ind, Step
  <2>2. ToWord(Wrap8(OperandWord + 1), Hi(OperandWord)) # OperandWord + 1 <=> Lo(OperandWord) = 255
    BY OperandTypes, PointerSplits
  <2> QED
    BY <1>1, <2>1, <2>2 DEF JMP_ind, When
<1>2. CASE OPC_Illegal
  BY <1>2 DEF OPC_Illegal, When, Step
<1>3. ASSUME Reported' = Reported, Insn.op # "Illegal", ~Step("JMP", "IND")
      PROVE  Reported' = Reported \cup When("error", Insn.op = "Illegal")
                             \cup When("warning", Step("JMP", "IND") /\ Lo(OperandWord) = 255)
  BY <1>3 DEF When
<1>4. CASE ALU_OP \/ STO_OP \/ MEM_OP \/ ZP_BITOP \/ UnstableStore
  BY <1>3, <1>4 DEF ALU_OP, STO_OP, MEM_OP, ZP_BITOP, UnstableStore, AluOps, Stored, RmwOps,
                    UnstableStores, Step
<1>5. CASE Accumulator \/ Implied \/ FillerNop \/ PushRegister \/ PullRegister
  BY <1>3, <1>5 DEF Accumulator, Implied, FillerNop, PushRegister, PullRegister, Advance,
                    RmwOps, ImpliedOps, NopLength, Pushed, Step
<1>6. CASE BRK \/ JSR \/ RTI \/ RTS \/ BRANCH \/ ZP_BIT_BRANCH \/ JMP_abs \/ JMP_ind_65C02
  BY <1>3, <1>6 DEF BRK, EnterInterrupt, JSR, RTI, RTS, BRANCH, Branches, ZP_BIT_BRANCH, JMP_abs,
                    JMP_ind_65C02, Step
<1> QED
  BY <1>1, <1>2, <1>4, <1>5, <1>6 DEF Handler

(* Indexing carries into the high byte exactly when it leaves the page.     *)
LEMMA CarryLeavesPage ==
    ASSUME NEW w \in Word, NEW b \in Byte
    PROVE  Lo(w) + b >= 256 <=> Hi(Wrap16(w + b)) # Hi(w)
<1>1. w \in Int /\ 0 <= w /\ w < 65536 /\ b \in Int /\ 0 <= b /\ b <= 255
  BY ByteIsInt, SMT DEF Word
<1> DEFINE l == w % 256
           h == w \div 256
<1>2. w = 256 * h + l /\ l \in 0..255 /\ h \in 0..255
  BY <1>1, SMT
<1>3. Lo(w) = l /\ Hi(w) = h
  BY <1>2, SMT DEF Lo, Hi
<1> HIDE DEF l, h
<1>4. CASE l + b < 256
  <2>1. Wrap16(w + b) = w + b /\ (w + b) \div 256 = h
    BY <1>1, <1>2, <1>4, SMT DEF Wrap16
  <2>2. Hi(Wrap16(w + b)) = h
    BY <1>2, <2>1, SMT DEF Hi
  <2> QED
    BY <1>1, <1>2, <1>3, <1>4, <2>2, SMT
<1>5. CASE l + b >= 256
  <2>1. (w + b) \div 256 = h + 1
    BY <1>1, <1>2, <1>5, SMT
  <2>2. (Wrap16(w + b) \div 256) % 256 = (h + 1) % 256
    BY <1>1, <1>2, <1>5, <2>1, SMT DEF Wrap16
  <2>3. (h + 1) % 256 # h
    BY <1>2, SMT
  <2> QED
    BY <1>3, <1>5, <2>2, <2>3 DEF Hi
<1> QED
  BY <1>1, <1>2, <1>4, <1>5, SMT

(* A power of two is a number, and a bit is zero or one.                    *)
LEMMA BitValues ==
    ASSUME NEW b \in Byte, NEW n \in 0..7
    PROVE  BitOf(b, n) \in {0, 1} /\ (n \in Bits(b) <=> BitOf(b, n) = 1)
<1> DEFINE Power(i) == 2^i \in Int /\ 2^i > 0
<1>1. Power(n)
  <2>1. Power(0) /\ Power(1)
    BY SMT
  <2>2. Power(2) /\ Power(3)
    BY SMT
  <2>3. Power(4) /\ Power(5)
    BY SMT
  <2>4. Power(6) /\ Power(7)
    BY SMT
  <2>5. n \in {0, 1, 2, 3, 4, 5, 6, 7}
    BY SMT
  <2> HIDE DEF Power
  <2> QED
    BY <2>1, <2>2, <2>3, <2>4, <2>5
<1>2. b \div 2^n \in Int
  BY <1>1, ByteIsInt, SMT
<1>3. (b \div 2^n) % 2 \in {0, 1}
  BY <1>2, SMT
<1> QED
  BY <1>3 DEF BitOf, Bits

(* What is executed when an instruction is.                                 *)
LEMMA ExecutesHandler ==
    ASSUME Executes
    PROVE  Handler
  BY DEF Executes, ExecuteInsn, ServeNMI, ServeIRQ, ExecuteOpcode

(* A branch goes where its condition sends it.                              *)
LEMMA BranchGoes ==
    ASSUME IInv, BRANCH
    PROVE  BranchesTo(Wrap16(Regs.PC + 2), OperandByte, Condition(Insn.op), 2)
<1> DEFINE after  == Wrap16(Regs.PC + 2)
           target == Target(after, OperandByte)
           taken  == Condition(Insn.op)
<1>1. IF taken THEN Regs' = [Regs EXCEPT !.PC = target] /\ Cycles' = 3 + FarPenalty(after, target)
               ELSE Regs' = [Regs EXCEPT !.PC = after] /\ Cycles' = 2
  BY DEF BRANCH
<1>2. \A w : [Regs EXCEPT !.PC = w].PC = w
  BY StateFacts DEF Sound, IsRegs
<1>3. target = Wrap16(after + Signed(OperandByte))
  BY DEF Target
<1> HIDE DEF after, target, taken
<1>4. IF taken THEN Regs'.PC = target /\ Cycles' = 3 + FarPenalty(after, target)
               ELSE Regs'.PC = after /\ Cycles' = 2
  BY <1>1, <1>2
<1>5. BranchesTo(after, OperandByte, taken, 2)
  BY <1>3, <1>4, SMT DEF BranchesTo, FarPenalty
<1> QED
  BY <1>5 DEF after, taken

(* So does a branch that tests a bit.                                       *)
LEMMA BitBranchGoes ==
    ASSUME IInv, ZP_BIT_BRANCH
    PROVE  BranchesTo(Wrap16(Regs.PC + 3), MemReadByte(Mem, Regs.PC + 2),
                      (BitNumber \in Bits(MemReadByte(Mem, OperandByte))) = (Insn.op = "BBS"), 5)
<1> DEFINE after  == Wrap16(Regs.PC + 3)
           shift  == MemReadByte(Mem, Regs.PC + 2)
           target == Target(after, shift)
           taken  == (BitNumber \in Bits(MemReadByte(Mem, OperandByte))) = (Insn.op = "BBS")
<1>1. IF taken THEN Regs' = [Regs EXCEPT !.PC = target] /\ Cycles' = 6 + FarPenalty(after, target)
               ELSE Regs' = [Regs EXCEPT !.PC = after] /\ Cycles' = 5
  BY DEF ZP_BIT_BRANCH
<1>2. \A w : [Regs EXCEPT !.PC = w].PC = w
  BY StateFacts DEF Sound, IsRegs
<1>3. target = Wrap16(after + Signed(shift))
  BY DEF Target
<1> HIDE DEF after, shift, target, taken
<1>4. IF taken THEN Regs'.PC = target /\ Cycles' = 6 + FarPenalty(after, target)
               ELSE Regs'.PC = after /\ Cycles' = 5
  BY <1>1, <1>2
<1>5. BranchesTo(after, shift, taken, 5)
  BY <1>3, <1>4, SMT DEF BranchesTo, FarPenalty
<1> QED
  BY <1>5 DEF after, shift, taken

(* The opcodes whose name a processor must decode.                          *)
LEMMA InsnDecoded ==
    ASSUME IInv
    PROVE  /\ Opcode \in Documented => Decoded(Opcode, Insn)
           /\ CPU = "CPU_6502X" /\ Opcode \notin Jams => Decoded(Opcode, Insn)
           /\ CPU = "CPU_65C02" /\ Opcode \notin {\hCB, \hDB} => Decoded(Opcode, Insn)
           /\ Opcode \in Documented <=> NmosColumns(Opcode)
           /\ Opcode \in Byte /\ CPU \in CPUType
<1>1. Opcode \in Byte /\ CPU \in CPUType
  BY InsnSlot DEF IInv, TypeOK
<1>2. /\ Opcode \in sim65_supported_opcodes["CPU_6502"] <=> NmosColumns(Opcode)
      /\ Opcode \in sim65_supported_opcodes["CPU_6502X"] <=> Opcode \notin Jams
      /\ Opcode \in sim65_supported_opcodes["CPU_65C02"] <=> Opcode \notin {\hCB, \hDB}
  BY <1>1, Supported
<1>3. Opcode \in Documented <=> NmosColumns(Opcode)
  BY <1>2 DEF sim65_supported_opcodes
<1>4. NmosColumns(Opcode) => Opcode \notin Jams \cup {\hCB, \hDB}
  BY SMT DEF NmosColumns, Jams
<1>5. Opcode \in Documented => Opcode \in sim65_supported_opcodes[CPU]
  BY <1>1, <1>2, <1>3, <1>4 DEF CPUType
<1> QED
  BY <1>1, <1>2, <1>3, <1>5, InsnSlot

(* The conditions and bits that the opcodes of branches carry.              *)
LEMMA InsnBranches ==
    ASSUME IInv, Executes
    PROVE  BranchOutcome
<1>1. Handler
  BY ExecutesHandler
<1>2. ASSUME Opcode % 32 = 16
      PROVE  BranchesTo(Wrap16(Regs.PC + 2), OperandByte, FlagAsWanted, 2)
  <2>1. NmosColumns(Opcode)
    BY <1>2, InsnDecoded, SMT DEF NmosColumns, Byte
  <2>2. Insn.op = BranchOp(Opcode)
    BY <1>2, <2>1, InsnDecoded DEF Decoded, DecodesSingles
  <2>3. Condition(BranchOp(Opcode)) = FlagAsWanted
    <3>1. Opcode \in {\h10, \h30, \h50, \h70, \h90, \hB0, \hD0, \hF0}
      BY <1>2, InsnDecoded, SMT DEF Byte
    <3>2. CASE Opcode = \h10
      <4>1. BranchOp(Opcode) = "BPL" /\ aaa = 0 /\ TestedFlag = SF
        BY <3>2, SMT DEF BranchOp, aaa, TestedFlag
      <4>2. aaa % 2 = 0
        BY <4>1, SMT
      <4> QED
        BY <4>1, <4>2 DEF Condition, FlagAsWanted
    <3>3. CASE Opcode = \h30
      <4>1. BranchOp(Opcode) = "BMI" /\ aaa = 1 /\ TestedFlag = SF
        BY <3>3, SMT DEF BranchOp, aaa, TestedFlag
      <4>2. aaa % 2 = 1
        BY <4>1, SMT
      <4> QED
        BY <4>1, <4>2 DEF Condition, FlagAsWanted
    <3>4. CASE Opcode = \h50
      <4>1. BranchOp(Opcode) = "BVC" /\ aaa = 2 /\ TestedFlag = OF
        BY <3>4, SMT DEF BranchOp, aaa, TestedFlag
      <4>2. aaa % 2 = 0
        BY <4>1, SMT
      <4> QED
        BY <4>1, <4>2 DEF Condition, FlagAsWanted
    <3>5. CASE Opcode = \h70
      <4>1. BranchOp(Opcode) = "BVS" /\ aaa = 3 /\ TestedFlag = OF
        BY <3>5, SMT DEF BranchOp, aaa, TestedFlag
      <4>2. aaa % 2 = 1
        BY <4>1, SMT
      <4> QED
        BY <4>1, <4>2 DEF Condition, FlagAsWanted
    <3>6. CASE Opcode = \h90
      <4>1. BranchOp(Opcode) = "BCC" /\ aaa = 4 /\ TestedFlag = CF
        BY <3>6, SMT DEF BranchOp, aaa, TestedFlag
      <4>2. aaa % 2 = 0
        BY <4>1, SMT
      <4> QED
        BY <4>1, <4>2 DEF Condition, FlagAsWanted
    <3>7. CASE Opcode = \hB0
      <4>1. BranchOp(Opcode) = "BCS" /\ aaa = 5 /\ TestedFlag = CF
        BY <3>7, SMT DEF BranchOp, aaa, TestedFlag
      <4>2. aaa % 2 = 1
        BY <4>1, SMT
      <4> QED
        BY <4>1, <4>2 DEF Condition, FlagAsWanted
    <3>8. CASE Opcode = \hD0
      <4>1. BranchOp(Opcode) = "BNE" /\ aaa = 6 /\ TestedFlag = ZF
        BY <3>8, SMT DEF BranchOp, aaa, TestedFlag
      <4>2. aaa % 2 = 0
        BY <4>1, SMT
      <4> QED
        BY <4>1, <4>2 DEF Condition, FlagAsWanted
    <3>9. CASE Opcode = \hF0
      <4>1. BranchOp(Opcode) = "BEQ" /\ aaa = 7 /\ TestedFlag = ZF
        BY <3>9, SMT DEF BranchOp, aaa, TestedFlag
      <4>2. aaa % 2 = 1
        BY <4>1, SMT
      <4> QED
        BY <4>1, <4>2 DEF Condition, FlagAsWanted
    <3> QED
      BY <3>1, <3>2, <3>3, <3>4, <3>5, <3>6, <3>7, <3>8, <3>9
  <2>4. BRANCH
    BY <1>1, <2>2, Executed DEF BranchOp, Branches
  <2> QED
    BY <2>2, <2>3, <2>4, BranchGoes
<1>3. ASSUME CPU = "CPU_65C02", Opcode = \h80
      PROVE  BranchesTo(Wrap16(Regs.PC + 2), OperandByte, TRUE, 2)
  <2>1. Insn.op = "BRA"
    BY <1>3, InsnDecoded DEF Decoded, DecodesCmosOnly
  <2>2. BRANCH
    BY <1>1, <2>1, Executed DEF Branches
  <2>3. Condition("BRA") = TRUE
    BY DEF Condition
  <2> QED
    BY <2>1, <2>2, <2>3, BranchGoes
<1>4. ASSUME CPU = "CPU_65C02", Opcode % 16 = 15
      PROVE  BranchesTo(Wrap16(Regs.PC + 3), MemReadByte(Mem, Regs.PC + 2), BitAsWanted, 5)
  <2> DEFINE v == MemReadByte(Mem, OperandByte)
  <2>1. Opcode \in Byte /\ Opcode \notin {\hCB, \hDB}
    BY <1>4, InsnDecoded, SMT
  <2>2. Insn.op = IF Opcode < 128 THEN "BBR" ELSE "BBS"
    BY <1>4, <2>1, InsnDecoded DEF Decoded, DecodesCmosOnly
  <2>3. ZP_BIT_BRANCH
    BY <1>1, <2>2, Executed
  <2>4. BitNumber = (Opcode \div 16) % 8 /\ BitNumber \in 0..7
    BY <2>1, SMT DEF BitNumber, Opcode, Byte
  <2>5. v \in Byte
    BY OperandTypes
  <2>6. TestedBit = BitOf(v, BitNumber)
    BY <2>4 DEF TestedBit
  <2>7. TestedBit \in {0, 1} /\ (BitNumber \in Bits(v) <=> TestedBit = 1)
    BY <2>4, <2>5, <2>6, BitValues
  <2>8. Opcode \div 128 = IF Opcode < 128 THEN 0 ELSE 1
    BY <2>1, SMT DEF Byte
  <2> HIDE DEF v
  <2>9. ((BitNumber \in Bits(v)) = (Insn.op = "BBS")) = BitAsWanted
    BY <2>2, <2>7, <2>8 DEF BitAsWanted
  <2> QED
    BY <2>3, <2>9, BitBranchGoes DEF v
<1> QED
  BY <1>2, <1>3, <1>4 DEF BranchOutcome

(* The modes with an index, by the fields of the opcode.                    *)
LEMMA IndexedModes ==
    ASSUME IInv, Insn.mode \in Reaching(Opcode), bbb \in {4, 6, 7}, Opcode % 32 # 18
    PROVE  /\ bbb = 4 => Insn.mode \in {"ZPINDY", "ZPINDY_NP"}
           /\ bbb # 4 => Insn.mode \in IF Index = Regs.YR THEN {"ABSX", "ABSX_NP", "ABSY", "ABSY_NP"}
                                       ELSE {"ABSX", "ABSX_NP"}
           /\ Insn.mode \in Indexed => CrossPenalty(Insn.mode) = IfLeavesPage
           /\ Insn.mode \in NeverPay => CrossPenalty(Insn.mode) = 0
<1> DEFINE y == bbb \in {4, 6} \/ (cc >= 2 /\ aaa \in {4, 5})
<1>1. Shape(Opcode) = bbb /\ Group(Opcode) = cc /\ Operation(Opcode) = aaa
  BY DEF Shape, Group, Operation, bbb, cc, aaa
<1>2. UsesYR(Opcode) = y /\ Index = IF y THEN Regs.YR ELSE Regs.XR
  BY <1>1 DEF UsesYR, Index
<1>3. Insn.mode \in IF bbb = 4 THEN {"ZPINDY", "ZPINDY_NP"}
                    ELSE IF y THEN {"ABSY", "ABSY_NP"} ELSE {"ABSX", "ABSX_NP"}
  <2> HIDE DEF y
  <2> QED
    BY <1>1, <1>2 DEF Reaching
<1>4. IndexBase \in Word /\ Index \in Byte
  BY StateFacts, OperandTypes DEF IndexBase, Index
<1>5. Lo(IndexBase) + Index >= 256 <=> LeavesPage
  BY <1>4, CarryLeavesPage DEF LeavesPage
<1>6. bbb = 4 => y
  OBVIOUS
<1>7. Insn.mode \in Indexed => CrossPenalty(Insn.mode) = IfLeavesPage
  <2> HIDE DEF y
  <2> QED
    BY <1>2, <1>3, <1>5, <1>6 DEF Indexed, CrossPenalty, PAGE_CROSS, IfLeavesPage, IndexBase
<1>8. Insn.mode \in NeverPay => CrossPenalty(Insn.mode) = 0
  BY DEF NeverPay, CrossPenalty, PAGE_CROSS
<1> HIDE DEF y
<1> QED
  BY <1>2, <1>3, <1>7, <1>8

(* The cycles of a read at an indexed address.                              *)
LEMMA ReadsPay ==
    ASSUME IInv, Handler, Insn.op \in AluOps \ {"NOP"}, Insn.mode \in Indexed,
           Insn.mode \in Reaching(Opcode), bbb \in {4, 6, 7}, Opcode % 32 # 18,
           DecimalPenalty(Insn.op) = DecimalCycle
    PROVE  Cycles' = (IF bbb = 4 THEN 5 ELSE 4) + IfLeavesPage + DecimalCycle
<1>1. ALU_OP
  BY Executed
<1>2. Cycles' = ALU_CY[Insn.mode] + CrossPenalty(Insn.mode) + DecimalPenalty(Insn.op)
  BY <1>1 DEF ALU_OP
<1>3. CrossPenalty(Insn.mode) = IfLeavesPage
  BY IndexedModes
<1>4. ALU_CY[Insn.mode] = IF bbb = 4 THEN 5 ELSE 4
  BY IndexedModes DEF Indexed, ALU_CY
<1> QED
  BY <1>2, <1>3, <1>4

(* What indexing costs.                                                     *)
LEMMA InsnIndexes ==
    ASSUME IInv, Executes
    PROVE  IndexedCycles
<1>1. Handler
  BY ExecutesHandler
<1>2. Opcode \in Byte /\ CPU \in CPUType
  BY InsnDecoded
<1>3. Shape(Opcode) = bbb /\ Group(Opcode) = cc /\ Operation(Opcode) = aaa
  BY DEF Shape, Group, Operation, bbb, cc, aaa
<1>4. ASSUME ReadsIndexed
      PROVE  Cycles' = (IF bbb = 4 THEN 5 ELSE 4) + IfLeavesPage + DecimalCycle
  <2>1. CASE cc = 1 /\ aaa # 4 /\ bbb \in {4, 6, 7}
    <3>1. NmosColumns(Opcode) /\ Opcode % 32 # 18 /\ Opcode # \h89
      BY <1>2, <2>1, SMT DEF NmosColumns, Byte, cc, aaa, bbb
    <3>2. Operated(Opcode)
      BY <1>3, <2>1, <3>1 DEF Operated
    <3>3. /\ Insn.op = GroupOneOp(Opcode)
          /\ Insn.mode \in Indexed
          /\ Insn.mode \in Reaching(Opcode)
      BY <1>3, <2>1, <3>1, <3>2, InsnDecoded DEF Decoded, DecodesGroups
    <3>4. aaa \in {0, 1, 2, 3, 5, 6, 7}
      BY <1>2, <2>1, SMT DEF aaa, Byte
    <3>5. Insn.op \in AluOps \ {"NOP"} /\ DecimalPenalty(Insn.op) = DecimalCycle
      BY <1>3, <2>1, <3>3, <3>4 DEF GroupOneOp, AluOps, DecimalPenalty, DecimalCycle
    <3> QED
      BY <1>1, <2>1, <3>1, <3>3, <3>5, ReadsPay
  <2>2. CASE Opcode \in {\hBC, \hBE} \/ (CPU = "CPU_65C02" /\ Opcode = \h3C)
    <3>1. bbb = 7 /\ cc # 1 /\ Opcode % 32 # 18 /\ (Opcode \in {\hBC, \hBE} => NmosColumns(Opcode))
      BY <2>2, SMT DEF bbb, cc, NmosColumns
    <3>2. Operated(Opcode)
      BY <2>2, SMT DEF Operated, Group, Shape
    <3>3. Insn.op = IF Opcode = \hBC THEN "LDY" ELSE IF Opcode = \hBE THEN "LDX" ELSE "BIT"
      <4>1. ShiftOp(\hBE) = "LDX" /\ Group(\hBE) = 2 /\ Shape(\hBE) = 7
        BY SMT DEF ShiftOp, Operation, Group, Shape
      <4> QED
        BY <2>2, <3>1, <4>1, InsnDecoded DEF Decoded, DecodesGroups, DecodesCmosOnly
    <3>4. Insn.mode \in Reaching(Opcode)
      BY <2>2, <3>1, <3>2, InsnDecoded DEF Decoded, DecodesGroups
    <3>5. Insn.mode \in Indexed
      <4>1. Opcode \in {\hBC, \hBE} => Insn.mode \in Indexed
        BY <3>1, InsnDecoded DEF Decoded, DecodesGroups
      <4>2. Opcode = \h3C => Insn.mode \notin NeverPay
        BY <2>2, InsnDecoded DEF Decoded, DecodesCmosOnly
      <4>3. Insn.mode \in {"ABSX", "ABSX_NP", "ABSY", "ABSY_NP"}
        BY <3>1, <3>4, IndexedModes
      <4> QED
        BY <2>2, <4>1, <4>2, <4>3 DEF Indexed, NeverPay
    <3>6. Insn.op \in AluOps \ {"NOP"} /\ DecimalPenalty(Insn.op) = DecimalCycle
      BY <3>1, <3>3 DEF AluOps, DecimalPenalty, DecimalCycle
    <3> QED
      BY <1>1, <3>1, <3>4, <3>5, <3>6, ReadsPay
  <2> QED
    BY <1>4, <2>1, <2>2 DEF ReadsIndexed
<1>5. ASSUME Opcode \in {\h1E, \h3E, \h5E, \h7E, \hDE, \hFE}
      PROVE  Cycles' = IF CPU = "CPU_65C02" /\ Opcode \notin {\hDE, \hFE} THEN 6 + IfLeavesPage ELSE 7
  <2>1. /\ bbb = 7 /\ Opcode % 32 # 18 /\ NmosColumns(Opcode)
        /\ Group(Opcode) = 2 /\ Shape(Opcode) = 7 /\ Operated(Opcode)
    BY <1>5, SMT DEF bbb, NmosColumns, Group, Shape, Operated
  <2>2. /\ Insn.op = ShiftOp(Opcode)
        /\ Insn.mode \in Reaching(Opcode)
        /\ Insn.mode = IF CPU = "CPU_65C02" /\ Opcode \notin {\hDE, \hFE} THEN "ABSX" ELSE "ABSX_NP"
    BY <1>5, <2>1, InsnDecoded DEF Decoded, DecodesGroups
  <2>3. ShiftOp(Opcode) \in RmwOps
    BY <1>5, SMT DEF ShiftOp, Operation, RmwOps
  <2>4. MEM_OP
    BY <1>1, <2>2, <2>3, Executed
  <2>5. Cycles' = RMW_CY[Insn.mode] + CrossPenalty(Insn.mode)
    BY <2>4 DEF MEM_OP
  <2>6. CrossPenalty(Insn.mode) = IF Insn.mode = "ABSX" THEN IfLeavesPage ELSE 0
    BY <2>1, <2>2, IndexedModes DEF Indexed, NeverPay
  <2> QED
    BY <2>2, <2>5, <2>6 DEF RMW_CY
<1>6. ASSUME WritesIndexed
      PROVE  Cycles' = IF bbb = 4 THEN 6 ELSE 5
  <2>1. CASE Opcode \in {\h91, \h99, \h9D}
    <3>1. /\ NmosColumns(Opcode) /\ Opcode % 32 # 18 /\ bbb \in {4, 6, 7}
          /\ Group(Opcode) = 1 /\ Opcode # \h89 /\ GroupOneOp(Opcode) = "STA"
      BY <2>1, SMT DEF NmosColumns, bbb, Group, GroupOneOp, Operation
    <3>2. /\ Insn.op = "STA"
          /\ Insn.mode \in NeverPay
          /\ Insn.mode \in Reaching(Opcode)
      BY <2>1, <3>1, InsnDecoded DEF Decoded, DecodesGroups, Operated
    <3>3. STO_OP
      BY <1>1, <3>2, Executed
    <3>4. Insn.mode = IF bbb = 4 THEN "ZPINDY_NP" ELSE Insn.mode
      BY <3>1, <3>2, IndexedModes DEF NeverPay
    <3>5. bbb # 4 => Insn.mode \in {"ABSX_NP", "ABSY_NP"}
      BY <3>1, <3>2, IndexedModes DEF NeverPay
    <3> QED
      BY <3>3, <3>4, <3>5 DEF STO_OP, STO_CY
  <2>2. CASE CPU = "CPU_65C02" /\ Opcode = \h9E
    <3>1. Insn.op = "STZ" /\ Insn.mode = "ABSX_NP"
      BY <2>2, InsnDecoded DEF Decoded, DecodesCmosOnly
    <3>2. STO_OP
      BY <1>1, <3>1, Executed
    <3>3. bbb = 7
      BY <2>2, SMT DEF bbb
    <3> QED
      BY <3>1, <3>2, <3>3 DEF STO_OP, STO_CY
  <2> QED
    BY <1>6, <2>1, <2>2 DEF WritesIndexed
<1> QED
  BY <1>4, <1>5, <1>6 DEF IndexedCycles, ShiftsIndexed

(* Every instruction executed by this step leaves as much to the page       *)
(* boundaries as it should.                                                 *)
LEMMA InsnPageBoundaries ==
    ASSUME IInv, Executes
    PROVE  /\ BranchOutcome
           /\ IndexedCycles
           /\ "warning" \in Reported' <=> ("warning" \in Reported \/ SplitPointer)
<1>1. Step("JMP", "IND") <=> Opcode = \h6C /\ CPU # "CPU_65C02"
  BY InsnSlot DEF InPlace, Step
<1>2. Reported' = Reported \cup When("error", Insn.op = "Illegal")
                         \cup When("warning", Step("JMP", "IND") /\ Lo(OperandWord) = 255)
  BY ExecutesHandler, HandlerReports
<1>3. "warning" \in Reported' <=> ("warning" \in Reported \/ SplitPointer)
  BY <1>1, <1>2 DEF When, SplitPointer
<1> QED
  BY <1>3, InsnBranches, InsnIndexes

(* An instruction that goes on behind itself is as long as its handler      *)
(* makes it.                                                                *)
LEMMA HandlerLength ==
    ASSUME IInv, Handler, Insn.op \notin Transfers \cup {"Illegal"}
    PROVE  Regs'.PC = Wrap16(Regs.PC + Length(Insn))
<1>1. \A r, w : Sound(r) => [r EXCEPT !.PC = w].PC = w
  BY DEF Sound, IsRegs
<1>2. CASE ALU_OP
  <2>1. Regs'.PC = NextPC(Insn.mode)
    <3> DEFINE v == IF Insn.mode = "IMM" THEN OperandByte ELSE MemReadByte(Mem, ADR(Insn.mode))
    <3>1. v \in Byte
      BY OperandTypes
    <3> HIDE DEF v
    <3>2. Sound(ALU(Insn.op, Regs, v))
      BY <3>1, StateFacts, ALUSound
    <3> QED
      BY <1>1, <1>2, <3>2 DEF ALU_OP, v
  <2> QED
    BY <1>2, <2>1 DEF ALU_OP, AluOps, ALU_CY, NextPC, Length, Absolute, Pushes, Pulls, UnstableStores
<1>3. CASE STO_OP
  BY <1>1, <1>3, StateFacts
     DEF STO_OP, Stored, STO_CY, NextPC, Length, Absolute, Pushes, Pulls, UnstableStores
<1>4. CASE MEM_OP
  <2>1. Regs'.PC = NextPC(Insn.mode)
    <3> DEFINE e == RMW(Insn.op, Regs, MemReadByte(Mem, ADR(Insn.mode)))
    <3>1. Sound(e.regs)
      BY StateFacts, OperandTypes, RMWSound DEF SoundEffect
    <3>2. Regs' = [e.regs EXCEPT !.PC = NextPC(Insn.mode)]
      BY <1>4 DEF MEM_OP
    <3> HIDE DEF e
    <3> QED
      BY <1>1, <3>1, <3>2
  <2> QED
    BY <1>4, <2>1 DEF MEM_OP, RmwOps, RMW_CY, NextPC, Length, Absolute, Pushes, Pulls, UnstableStores
<1>5. CASE ZP_BITOP
  BY <1>1, <1>5, StateFacts DEF ZP_BITOP, Length
<1>6. CASE UnstableStore
  BY <1>1, <1>6, StateFacts
     DEF UnstableStore, UnstableStores, NextPC, Length, Absolute, Pushes, Pulls, Sound, IsRegs
<1>7. ASSUME NEW regs, Sound(regs), NEW length, NEW cycles, Advance(regs, length, cycles)
      PROVE  Regs'.PC = Wrap16(Regs.PC + length)
  BY <1>1, <1>7 DEF Advance
<1>8. CASE Accumulator
  <2> DEFINE e == RMW(Insn.op, Regs, Regs.AC)
  <2>1. Sound([e.regs EXCEPT !.AC = e.val])
    <3>1. SoundEffect(e)
      BY StateFacts, RMWSound
    <3> HIDE DEF e
    <3> QED
      BY <3>1, ReplaceByte DEF SoundEffect
  <2>2. Advance([e.regs EXCEPT !.AC = e.val], 1, 2)
    BY <1>8 DEF Accumulator
  <2> HIDE DEF e
  <2>3. Regs'.PC = Wrap16(Regs.PC + 1)
    BY <1>7, <2>1, <2>2
  <2> QED
    BY <1>8, <2>3 DEF Accumulator, RmwOps, Length, Absolute, Pushes, Pulls, UnstableStores
<1>9. CASE Implied
  <2>1. Regs'.PC = Wrap16(Regs.PC + 1)
    BY <1>9, StateFacts, ImpliedRegsSound, <1>7 DEF Implied
  <2> QED
    BY <1>9, <2>1 DEF Implied, ImpliedOps, Length, Absolute, Pushes, Pulls, UnstableStores
<1>10. CASE FillerNop
  BY <1>7, <1>10, StateFacts DEF FillerNop, NopLength, Length, Pushes, Pulls
<1>11. CASE PushRegister
  BY <1>11, StateFacts DEF PushRegister, Pushed, Length, Pushes, Sound, IsRegs
<1>12. CASE PullRegister
  <2> DEFINE pulled == [PulledRegs(Insn.op, Regs, POP(1)) EXCEPT !.SP = Wrap8(@ + 1)]
  <2>1. Sound(pulled)
    BY <1>12, PulledSound DEF PullRegister
  <2>2. Advance(pulled, 1, 4)
    BY <1>12 DEF PullRegister
  <2> HIDE DEF pulled
  <2> QED
    BY <1>7, <1>12, <2>1, <2>2 DEF PullRegister, Length, Pushes, Pulls
<1>13. CASE BRK \/ JSR \/ RTI \/ RTS \/ BRANCH \/ ZP_BIT_BRANCH \/ JMP_abs \/ JMP_ind
            \/ JMP_ind_65C02 \/ OPC_Illegal
  BY <1>13 DEF BRK, JSR, RTI, RTS, BRANCH, ZP_BIT_BRANCH, JMP_abs, JMP_ind, JMP_ind_65C02,
               OPC_Illegal, Step, Transfers
<1> QED
  BY <1>2, <1>3, <1>4, <1>5, <1>6, <1>8, <1>9, <1>10, <1>11, <1>12, <1>13 DEF Handler

(* Every instruction executed by this step is in its slot.                  *)
LEMMA InsnDispatch ==
    ASSUME IInv, Executes
    PROVE  /\ "error" \in Reported' <=>
                 ("error" \in Reported \/ Opcode \notin sim65_supported_opcodes[CPU])
           /\ FallThrough(Opcode) => Regs'.PC = Wrap16(Regs.PC + InstructionBytes(Opcode))
<1>1. Handler
  BY DEF Executes, ExecuteInsn, ServeNMI, ServeIRQ, ExecuteOpcode
<1>2. /\ InPlace(Opcode, Insn)
      /\ Insn.op = "Illegal" <=> Opcode \notin sim65_supported_opcodes[CPU]
  BY InsnSlot
<1>3. "error" \in Reported' <=>
         ("error" \in Reported \/ Opcode \notin sim65_supported_opcodes[CPU])
  <2>1. Reported' = Reported \cup When("error", Insn.op = "Illegal")
                           \cup When("warning", Step("JMP", "IND") /\ Lo(OperandWord) = 255)
    BY <1>1, HandlerReports
  <2> QED
    BY <1>2, <2>1 DEF When
<1>4. ASSUME FallThrough(Opcode)
      PROVE  Regs'.PC = Wrap16(Regs.PC + InstructionBytes(Opcode))
  <2>1. /\ Insn.op \notin Transfers \cup {"Illegal"}
        /\ Length(Insn) = InstructionBytes(Opcode)
    BY <1>2, <1>4 DEF InPlace, FallThrough
  <2> QED
    BY <1>1, <2>1, HandlerLength
<1> QED
  BY <1>3, <1>4

-----------------------------------------------------------------------------
(* What an instruction writes                                               *)

(* A write is read back at its address and nowhere else.                    *)
LEMMA ReadAfterWrite ==
    ASSUME NEW mem, NEW a, NEW v, NEW x
    PROVE  MemReadByte(MemWriteByte(mem, a, v), x)
              = IF Wrap16(x) = Wrap16(a) THEN Wrap8(v) ELSE MemReadByte(mem, x)
  BY DEF MemReadByte, MemWriteByte

(* An address that memory holds is the one it is read at.                   *)
LEMMA HeldAddress ==
    ASSUME NEW mem, IsMemory(mem), NEW x \in DOMAIN mem
    PROVE  x \in Word /\ Wrap16(x) = x
<1>1. x \in Word
  BY DEF IsMemory
<1> QED
  BY <1>1, SMT DEF Word, Wrap16

(* The cells of the stack page.                                             *)
LEMMA StackCell ==
    ASSUME NEW sp \in Int
    PROVE  /\ Wrap16(StackPage + Wrap8(sp)) = StackPage + Wrap8(sp)
           /\ StackPage + Wrap8(sp) \in Int
  BY SMT DEF StackPage, Wrap16, Wrap8

(* Two bytes are the halves of the address they make.                       *)
LEMMA Halves ==
    ASSUME NEW lo \in Byte, NEW hi \in Byte
    PROVE  Lo(ToWord(lo, hi)) = lo /\ Hi(ToWord(lo, hi)) = hi
<1>1. lo \in Int /\ hi \in Int /\ 0 <= lo /\ lo <= 255 /\ 0 <= hi /\ hi <= 255
  BY ByteIsInt
<1> QED
  BY <1>1, SMT DEF Lo, Hi, ToWord

(* The cells that may change when a byte, a word, or a word and a byte are  *)
(* pushed.                                                                  *)
LEMMA PushedCells ==
    ASSUME IInv, NEW w \in Word, NEW v \in Byte, NEW x, Wrap16(x) = x
    PROVE  /\ MemReadByte(PUSH(Mem, Regs.SP, v), x) # MemReadByte(Mem, x) =>
                 x = StackPage + Wrap8(Regs.SP)
           /\ MemReadByte(PushWord(Mem, Regs.SP, w), x) # MemReadByte(Mem, x) =>
                 x \in {StackPage + Wrap8(Regs.SP), StackPage + Wrap8(Regs.SP - 1)}
           /\ MemReadByte(PUSH(PushWord(Mem, Regs.SP, w), Regs.SP - 2, v), x)
                 # MemReadByte(Mem, x) =>
                 x \in {StackPage + Wrap8(Regs.SP), StackPage + Wrap8(Regs.SP - 1),
                        StackPage + Wrap8(Regs.SP - 2)}
<1>1. Regs.SP \in Int /\ Regs.SP - 1 \in Int /\ Regs.SP - 2 \in Int
  <2>1. Regs.SP \in Int
    BY StateFacts, ByteIsInt
  <2> QED
    BY <2>1, SMT
<1>2. /\ Wrap16(StackPage + Wrap8(Regs.SP)) = StackPage + Wrap8(Regs.SP)
      /\ Wrap16(StackPage + Wrap8(Regs.SP - 1)) = StackPage + Wrap8(Regs.SP - 1)
      /\ Wrap16(StackPage + Wrap8(Regs.SP - 2)) = StackPage + Wrap8(Regs.SP - 2)
  BY <1>1, StackCell
<1>3. \A m, sp, b : MemReadByte(PUSH(m, sp, b), x) =
         IF Wrap16(x) = Wrap16(StackPage + Wrap8(sp)) THEN Wrap8(b) ELSE MemReadByte(m, x)
  BY ReadAfterWrite DEF PUSH
<1>4. \A b : MemReadByte(PUSH(Mem, Regs.SP, b), x) # MemReadByte(Mem, x) =>
                x = StackPage + Wrap8(Regs.SP)
  BY <1>2, <1>3
<1>5. MemReadByte(PushWord(Mem, Regs.SP, w), x) # MemReadByte(Mem, x) =>
         x \in {StackPage + Wrap8(Regs.SP), StackPage + Wrap8(Regs.SP - 1)}
  BY <1>2, <1>3, <1>4 DEF PushWord
<1> QED
  BY <1>2, <1>3, <1>4, <1>5

(* Any other instruction writes once or not at all.                         *)
LEMMA OneWrite ==
    ASSUME IInv, Handler, Insn.op \notin Pushes \cup {"BRK", "JSR"}
    PROVE  Mem' = Mem \/ \E a, v : Mem' = MemWriteByte(Mem, a, v)
<1>1. CASE STO_OP \/ MEM_OP \/ ZP_BITOP \/ UnstableStore
  BY <1>1 DEF STO_OP, MEM_OP, ZP_BITOP, UnstableStore
<1>2. CASE ALU_OP \/ Accumulator \/ Implied \/ FillerNop \/ PullRegister
  BY <1>2 DEF ALU_OP, Accumulator, Implied, FillerNop, PullRegister, Advance
<1>3. CASE RTI \/ RTS \/ BRANCH \/ ZP_BIT_BRANCH \/ JMP_abs \/ JMP_ind \/ JMP_ind_65C02
           \/ OPC_Illegal
  BY <1>3 DEF RTI, RTS, BRANCH, ZP_BIT_BRANCH, JMP_abs, JMP_ind, JMP_ind_65C02, OPC_Illegal
<1>4. CASE PushRegister \/ BRK \/ JSR
  BY <1>4 DEF PushRegister, Pushed, Pushes, BRK, JSR
<1> QED
  BY <1>1, <1>2, <1>3, <1>4 DEF Handler

(* And then at most one cell changes.                                       *)
LEMMA OneCell ==
    ASSUME IInv, IsMemory(Mem'), Mem' = Mem \/ \E a, v : Mem' = MemWriteByte(Mem, a, v)
    PROVE  Cardinality(Changed) <= 1
<1>1. \E c : Changed \subseteq {c}
  <2>1. CASE Mem' = Mem
    BY <2>1 DEF Changed
  <2>2. ASSUME NEW a, NEW v, Mem' = MemWriteByte(Mem, a, v)
        PROVE  Changed \subseteq {Wrap16(a)}
    <3>1. \A x \in DOMAIN Mem' : Wrap16(x) = x
      BY HeldAddress
    <3> QED
      BY <2>2, <3>1, ReadAfterWrite DEF Changed
  <2> QED
    BY <2>1, <2>2
<1>2. PICK c : Changed \subseteq {c}
  BY <1>1
<1>3. Changed = {} \/ Changed = {c}
  BY <1>2
<1>4. Cardinality({}) = 0 /\ Cardinality({c}) = 1
  BY FS_EmptySet, FS_Singleton
<1> QED
  BY <1>3, <1>4, SMT

(* Every instruction executed by this step writes where it should.          *)
LEMMA InsnWrites ==
    ASSUME IInv, Executes
    PROVE  WriteFootprint /\ JsrBusOrder
<1> DEFINE c(k) == StackPage + Wrap8(Regs.SP - k)
<1>1. Handler
  BY DEF Executes, ExecuteInsn, ServeNMI, ServeIRQ, ExecuteOpcode
<1>2. InPlace(Opcode, Insn) /\ CPU \in CPUType
  BY InsnSlot DEF IInv, TypeOK
<1>3. IsMemory(Mem')
  BY <1>1, HandlerSound DEF WellFormedAfter
<1>4. \A x \in Changed : Wrap16(x) = x /\ MemReadByte(Mem', x) # MemReadByte(Mem, x)
  BY <1>3, HeldAddress DEF Changed
<1>5. Wrap16(Regs.PC + 2) \in Word /\ 0 \in Byte
  BY NextPCType, SMT DEF Byte
<1>6. Regs.SP - 0 = Regs.SP
  BY StateFacts, ByteIsInt, SMT
<1>7. CASE Opcode = \h00
  <2>1. BRK
    BY <1>1, <1>2, <1>7, Executed DEF InPlace
  <2>2. /\ Mem' = PUSH(PushWord(Mem, Regs.SP, Wrap16(Regs.PC + 2)), Regs.SP - 2, ToByte(Regs.SR))
        /\ Regs'.SP = Wrap8(Regs.SP - 3)
    BY <2>1, StateFacts DEF BRK, EnterInterrupt, Sound, IsRegs
  <2>3. Changed \subseteq {c(0), c(1), c(2)}
    BY <1>4, <1>5, <1>6, <2>2, ToByteType, PushedCells
  <2>4. PushedBytes(Opcode) = 3
    BY <1>7 DEF PushedBytes
  <2>5. {c(0), c(1), c(2)} \subseteq {StackPage + Wrap8(Regs.SP - k) : k \in 0..3-1}
    BY SMT
  <2> QED
    BY <1>7, <2>2, <2>3, <2>4, <2>5 DEF WriteFootprint, JsrBusOrder
<1>8. CASE Opcode = \h20
  <2>1. JSR
    BY <1>1, <1>2, <1>8, Executed DEF InPlace
  <2>2. /\ Mem' = PushWord(Mem, Regs.SP, Wrap16(Regs.PC + 2))
        /\ Regs'.SP = Wrap8(Regs.SP - 2)
        /\ Regs'.PC = ToWord(OperandByte, MemReadByte(Mem', Regs.PC + 2))
    BY <2>1, StateFacts DEF JSR, Sound, IsRegs
  <2>3. Changed \subseteq {c(0), c(1)}
    BY <1>4, <1>5, <1>6, <2>2, PushedCells
  <2>4. PushedBytes(Opcode) = 2
    BY <1>8 DEF PushedBytes
  <2>5. {c(0), c(1)} \subseteq {StackPage + Wrap8(Regs.SP - k) : k \in 0..2-1}
    BY SMT
  <2>6. OperandByte \in Byte /\ MemReadByte(Mem', Regs.PC + 2) \in Byte
    BY <1>3, OperandTypes, ReadByteType
  <2>7. /\ Lo(Regs'.PC) = OperandByte
        /\ Hi(Regs'.PC) = MemReadByte(Mem', Regs.PC + 2)
    BY <2>2, <2>6, Halves
  <2> QED
    BY <1>8, <2>2, <2>3, <2>4, <2>5, <2>7 DEF WriteFootprint, JsrBusOrder, OperandByte
<1>9. CASE Opcode \in {\h08, \h48} \/ (CPU = "CPU_65C02" /\ Opcode \in {\h5A, \hDA})
  <2>1. PushRegister /\ Insn.op \in Pushes
    BY <1>1, <1>2, <1>9, Executed DEF InPlace
  <2>2. Pushed[Insn.op] \in Byte
    BY <2>1, StateFacts, ToByteType DEF Pushes, Pushed
  <2>3. /\ Mem' = PUSH(Mem, Regs.SP, Pushed[Insn.op])
        /\ Regs'.SP = Wrap8(Regs.SP - 1)
    BY <2>1, StateFacts DEF PushRegister, Sound, IsRegs
  <2>4. Changed \subseteq {c(0)}
    BY <1>4, <1>5, <1>6, <2>2, <2>3, PushedCells
  <2>5. PushedBytes(Opcode) = 1
    BY <1>9 DEF PushedBytes
  <2>6. {c(0)} \subseteq {StackPage + Wrap8(Regs.SP - k) : k \in 0..1-1}
    BY SMT
  <2> QED
    BY <1>9, <2>3, <2>4, <2>5, <2>6 DEF WriteFootprint, JsrBusOrder
<1>10. CASE /\ Opcode \notin {\h00, \h20, \h08, \h48}
            /\ CPU = "CPU_65C02" => Opcode \notin {\h5A, \hDA}
  <2>1. Insn.op \notin Pushes \cup {"BRK", "JSR"}
    BY <1>2, <1>10 DEF InPlace
  <2>2. Cardinality(Changed) <= 1
    BY <1>1, <1>3, <2>1, OneWrite, OneCell
  <2>3. PushedBytes(Opcode) = 0
    BY <1>10 DEF PushedBytes
  <2> QED
    BY <1>10, <2>2, <2>3 DEF WriteFootprint, JsrBusOrder
<1> QED
  BY <1>7, <1>8, <1>9, <1>10

-----------------------------------------------------------------------------
(* Undocumented opcodes                                                     *)

(* The cycles of an instruction that does not cross a page, and whether it  *)
(* pays for crossing one.                                                   *)
BaseCycles(insn) ==
    IF insn.op \in UnstableStores THEN IF insn.mode = "ZPINDY" THEN 6 ELSE 5
    ELSE IF insn.mode = "IMP" THEN 2
    ELSE IF insn.op = "SAX" THEN STO_CY[insn.mode]
    ELSE IF insn.op \in RmwOps THEN RMW_CY[insn.mode] ELSE ALU_CY[insn.mode]

Pays(insn) == insn.op \in AluOps /\ insn.mode \in Indexed

(* The flags that an undocumented operation may change.                     *)
FlagsOf(op) ==
    IF op \in {"NOP", "SAX"} \cup UnstableStores THEN {}
    ELSE IF op \in {"LAX", "LXA", "LAS", "ANE"} THEN {SF, ZF}
    ELSE IF op \in {"RRA", "ISC", "SBC_6502", "ARR"} THEN {SF, OF, ZF, CF}
    ELSE {SF, ZF, CF}

UndocumentedOps ==
    UnstableStores \cup {"NOP", "SAX", "LAX", "LXA", "LAS", "ANE", "ANC", "ASR", "ARR", "SBX",
                         "SBC_6502", "SLO", "RLA", "SRE", "RRA", "DCP", "ISC"}

(* The header comment describes the handler of this entry.                  *)
Described(h) ==
    LET insn == Named(h)
    IN  /\ insn.op \in UndocumentedOps
        /\ insn.op \in RmwOps => insn.mode \notin Indexed
        /\ insn.mode # "ACC"
        /\ BaseCycles(insn) = DocCycles(h[1])
        /\ Pays(insn) <=> h[1] \in DocStarred
        /\ Pays(insn) => insn.mode = IF h[1] = \hB3 THEN "ZPINDY"
                                     ELSE IF h[1] % 16 = 12 THEN "ABSX" ELSE "ABSY"
        /\ FlagsOf(insn.op) \subseteq DocFlags(h[1]) \cup (IF h[1] = \h6B THEN {OF} ELSE {})

(* It describes them all.                                                   *)
LEMMA Description ==
    ASSUME NEW opc \in Byte
    PROVE  \A h \in Row(opc).nmosx : Described(h)
<1> USE DEF Described, Named, UndocumentedOps, UnstableStores, RmwOps, AluOps, Indexed, Pays,
      BaseCycles, FlagsOf, STO_CY, RMW_CY, ALU_CY, DocCycles, DocStarred, DocFlags, DocNops,
      SF, OF, ZF, CF
<1>1. \A h \in Opc_0x.nmosx : Described(h)
  BY SMTT(30) DEF Opc_0x
<1>2. \A h \in Opc_1x.nmosx : Described(h)
  BY SMTT(30) DEF Opc_1x
<1>3. \A h \in Opc_2x.nmosx : Described(h)
  BY SMTT(30) DEF Opc_2x
<1>4. \A h \in Opc_3x.nmosx : Described(h)
  BY SMTT(30) DEF Opc_3x
<1>5. \A h \in Opc_4x.nmosx : Described(h)
  BY SMTT(30) DEF Opc_4x
<1>6. \A h \in Opc_5x.nmosx : Described(h)
  BY SMTT(30) DEF Opc_5x
<1>7. \A h \in Opc_6x.nmosx : Described(h)
  BY SMTT(30) DEF Opc_6x
<1>8. \A h \in Opc_7x.nmosx : Described(h)
  BY SMTT(30) DEF Opc_7x
<1>9. \A h \in Opc_8x.nmosx : Described(h)
  BY SMTT(30) DEF Opc_8x
<1>10. \A h \in Opc_9x.nmosx : Described(h)
  BY SMTT(30) DEF Opc_9x
<1>11. \A h \in Opc_Ax.nmosx : Described(h)
  BY SMTT(30) DEF Opc_Ax
<1>12. \A h \in Opc_Bx.nmosx : Described(h)
  BY SMTT(30) DEF Opc_Bx
<1>13. \A h \in Opc_Cx.nmosx : Described(h)
  BY SMTT(30) DEF Opc_Cx
<1>14. \A h \in Opc_Dx.nmosx : Described(h)
  BY SMTT(30) DEF Opc_Dx
<1>15. \A h \in Opc_Ex.nmosx : Described(h)
  BY SMTT(30) DEF Opc_Ex
<1>16. \A h \in Opc_Fx.nmosx : Described(h)
  BY SMTT(30) DEF Opc_Fx
<1> HIDE DEF Described
<1> QED
  BY <1>1, <1>2, <1>3, <1>4, <1>5, <1>6, <1>7, <1>8, <1>9, <1>10, <1>11, <1>12, <1>13, <1>14, <1>15, <1>16, RowOf DEF Rows

(* The cycles of the undocumented operations.                               *)
LEMMA UndocumentedCycles ==
    ASSUME IInv, Handler, CPU = "CPU_6502X", Insn.op \in UndocumentedOps,
           Insn.op \in RmwOps => Insn.mode \notin Indexed, Insn.mode # "ACC"
    PROVE  Cycles' = BaseCycles(Insn) + (IF Pays(Insn) /\ PAGE_CROSS(Insn.mode) THEN 1 ELSE 0)
<1> USE DEF UndocumentedOps, UnstableStores
<1>1. CASE ALU_OP
  <2>1. DecimalPenalty(Insn.op) = 0
    BY DEF DecimalPenalty
  <2>2. Insn.op \in AluOps /\ Insn.mode \in DOMAIN ALU_CY
        /\ Cycles' = ALU_CY[Insn.mode] + CrossPenalty(Insn.mode) + DecimalPenalty(Insn.op)
    BY <1>1 DEF ALU_OP
  <2>3. BaseCycles(Insn) = ALU_CY[Insn.mode] /\ ALU_CY[Insn.mode] \in Int
    BY <2>2 DEF BaseCycles, ALU_CY, AluOps, RmwOps
  <2>4. CrossPenalty(Insn.mode) = IF Pays(Insn) /\ PAGE_CROSS(Insn.mode) THEN 1 ELSE 0
    BY <2>2 DEF CrossPenalty, Pays, Indexed, PAGE_CROSS
  <2> QED
    BY <2>1, <2>2, <2>3, <2>4, SMT
<1>2. CASE STO_OP
  BY <1>2 DEF STO_OP, Stored, STO_CY, BaseCycles, Pays, AluOps
<1>3. CASE MEM_OP
  <2>1. CrossPenalty(Insn.mode) = 0
    BY <1>3 DEF MEM_OP, CrossPenalty, PAGE_CROSS, Indexed
  <2> QED
    BY <1>3, <2>1 DEF MEM_OP, RMW_CY, RmwOps, BaseCycles, Pays, AluOps
<1>4. CASE UnstableStore
  BY <1>4 DEF UnstableStore, BaseCycles, Pays, AluOps
<1>5. CASE Implied
  BY <1>5 DEF Implied, Advance, BaseCycles, Pays, Indexed, ImpliedOps
<1>6. ~ZP_BITOP /\ ~Accumulator /\ ~FillerNop /\ ~PushRegister /\ ~PullRegister
  BY DEF ZP_BITOP, Accumulator, FillerNop, PushRegister, PullRegister, NopLength, Pushed
<1>7. ~BRK /\ ~JSR /\ ~RTI /\ ~RTS /\ ~BRANCH /\ ~ZP_BIT_BRANCH /\ ~JMP_abs /\ ~JMP_ind
      /\ ~JMP_ind_65C02 /\ ~OPC_Illegal
  BY DEF BRK, JSR, RTI, RTS, BRANCH, Branches, ZP_BIT_BRANCH, JMP_abs, JMP_ind, JMP_ind_65C02,
         OPC_Illegal, Step
<1> QED
  BY <1>1, <1>2, <1>3, <1>4, <1>5, <1>6, <1>7 DEF Handler

(* The flags in which two status registers differ.                          *)
Delta(a, b) == (a \ b) \cup (b \ a)

(* Setting flags changes those in the mask and those that are set.          *)
LEMMA SetFlagsDelta ==
    ASSUME NEW sr, NEW v, NEW c
    PROVE  /\ Delta(sr, SetNZ(sr, v)) \subseteq {SF, ZF}
           /\ Delta(sr, SetNZC(sr, v, c)) \subseteq {SF, ZF, CF}
           /\ Delta(sr, SetFlags(sr, {CF}, When(CF, c))) \subseteq {CF}
  BY DEF Delta, SetNZ, SetNZC, SetFlags, When

(* Changes one after the other change what any of them does.                *)
LEMMA DeltaChain ==
    ASSUME NEW a, NEW b, NEW c, NEW F, NEW G, Delta(a, b) \subseteq F, Delta(b, c) \subseteq G
    PROVE  Delta(a, c) \subseteq F \cup G
  BY DEF Delta

(* A register file with another register or another status register.       *)
LEMMA OtherRegister ==
    ASSUME NEW r, Sound(r), NEW x
    PROVE  /\ [r EXCEPT !.AC = x].SR = r.SR
           /\ [r EXCEPT !.XR = x].SR = r.SR
           /\ [r EXCEPT !.YR = x].SR = r.SR
           /\ [r EXCEPT !.SP = x].SR = r.SR
           /\ [r EXCEPT !.PC = x].SR = r.SR
           /\ [r EXCEPT !.SR = x].SR = x
  BY DEF Sound, IsRegs

(* Loads change N and Z at most.                                            *)
LEMMA LoadDelta ==
    ASSUME NEW r, Sound(r), NEW v
    PROVE  /\ LoadAC(r, v).SR = SetNZ(r.SR, v)
           /\ LAX(r, v).SR = SetNZ(r.SR, v)
           /\ LAS(r, v).SR = SetNZ(r.SR, And(r.SP, v))
  BY DEF LoadAC, LAX, LAS, Sound, IsRegs

(* Shifts and comparisons change N, Z and C at most.                        *)
LEMMA ShiftDelta ==
    ASSUME NEW r, Sound(r), NEW v
    PROVE  /\ Delta(r.SR, ANC(r, v).SR) \subseteq {SF, ZF, CF}
           /\ Delta(r.SR, SBX(r, v).SR) \subseteq {SF, ZF, CF}
           /\ Delta(r.SR, ASR(r, v).SR) \subseteq {SF, ZF, CF}
           /\ Delta(r.SR, DCP(r, v).regs.SR) \subseteq {SF, ZF, CF}
<1>1. Delta(r.SR, ANC(r, v).SR) \subseteq {SF, ZF, CF}
  <2> DEFINE w == And(r.AC, v)
             sr == SetNZ(r.SR, w)
  <2>1. ANC(r, v).SR = SetFlags(sr, {CF}, When(CF, Negative(w)))
    BY DEF ANC, LoadAC, Sound, IsRegs
  <2> HIDE DEF w
  <2>2. Delta(r.SR, sr) \subseteq {SF, ZF}
    BY SetFlagsDelta
  <2> HIDE DEF sr
  <2>3. Delta(sr, ANC(r, v).SR) \subseteq {CF}
    BY <2>1, SetFlagsDelta
  <2> QED
    BY <2>2, <2>3 DEF Delta
<1>2. \A w, c : Delta(r.SR, SetNZC(r.SR, w, c)) \subseteq {SF, ZF, CF}
  BY SetFlagsDelta
<1>3. Delta(r.SR, SBX(r, v).SR) \subseteq {SF, ZF, CF}
  <2> DEFINE d == And(r.AC, r.XR) - v
  <2>1. SBX(r, v).SR = SetNZC(r.SR, Wrap8(d), d >= 0)
    BY DEF SBX, Sound, IsRegs
  <2> QED
    BY <1>2, <2>1
<1>4. Delta(r.SR, ASR(r, v).SR) \subseteq {SF, ZF, CF}
  <2>1. \E w, c : ASR(r, v).SR = SetNZC(r.SR, w, c)
    BY DEF ASR, LSR, Shifted, Sound, IsRegs
  <2> QED
    BY <1>2, <2>1
<1>5. Delta(r.SR, DCP(r, v).regs.SR) \subseteq {SF, ZF, CF}
  BY <1>2 DEF DCP, COMPARE, Sound, IsRegs
<1> QED
  BY <1>1, <1>3, <1>4, <1>5

(* A shift and a load after it change N, Z and C at most.                   *)
LEMMA CombinedDelta ==
    ASSUME NEW r, Sound(r), NEW v
    PROVE  /\ Delta(r.SR, SLO(r, v).regs.SR) \subseteq {SF, ZF, CF}
           /\ Delta(r.SR, RLA(r, v).regs.SR) \subseteq {SF, ZF, CF}
           /\ Delta(r.SR, SRE(r, v).regs.SR) \subseteq {SF, ZF, CF}
<1>1. ASSUME NEW w, NEW c, NEW b
      PROVE  Delta(r.SR, LoadAC([r EXCEPT !.SR = SetNZC(r.SR, w, c)], b).SR) \subseteq {SF, ZF, CF}
  <2> DEFINE sr == SetNZC(r.SR, w, c)
  <2>1. Delta(r.SR, sr) \subseteq {SF, ZF, CF}
    BY SetFlagsDelta
  <2> HIDE DEF sr
  <2>2. LoadAC([r EXCEPT !.SR = sr], b).SR = SetNZ(sr, b)
    BY DEF LoadAC, Sound, IsRegs
  <2>3. Delta(sr, SetNZ(sr, b)) \subseteq {SF, ZF}
    BY SetFlagsDelta
  <2>4. Delta(r.SR, SetNZ(sr, b)) \subseteq {SF, ZF, CF} \cup {SF, ZF}
    BY <2>1, <2>3, DeltaChain
  <2> QED
    BY <2>2, <2>4 DEF sr
<1>2. \A s, l, b : (\E w, c : s = Shifted(r, w, c)) /\ l = [s EXCEPT !.regs = LoadAC(@, b)] =>
         Delta(r.SR, l.regs.SR) \subseteq {SF, ZF, CF}
  BY <1>1 DEF Shifted
<1> QED
  BY <1>2 DEF SLO, RLA, SRE, ASL, ROL, LSR

(* Any result of the adder changes the four arithmetic flags at most.       *)
LEMMA ArithDelta ==
    ASSUME NEW r, Sound(r), NEW ac, NEW n, NEW o, NEW z, NEW c
    PROVE  Delta(r.SR, Arith(r, ac, n, o, z, c).SR) \subseteq {SF, OF, ZF, CF}
  BY DEF Delta, Arith, SetFlags, When, Sound, IsRegs

(* So additions, subtractions and rotations with it do.                     *)
LEMMA AddSubtractDelta ==
    ASSUME NEW r, Sound(r), NEW v
    PROVE  /\ Delta(r.SR, SBC_6502(r, v).SR) \subseteq {SF, OF, ZF, CF}
           /\ Delta(r.SR, ADC_6502(r, v).SR) \subseteq {SF, OF, ZF, CF}
<1>1. Delta(r.SR, SBC_BINARY_MODE(r, v).SR) \subseteq {SF, OF, ZF, CF}
  BY ArithDelta DEF SBC_BINARY_MODE
<1>2. Delta(r.SR, SBC_DECIMAL_MODE_6502(r, v).SR) \subseteq {SF, OF, ZF, CF}
  BY ArithDelta DEF SBC_DECIMAL_MODE_6502
<1>3. Delta(r.SR, ADC_6502(r, v).SR) \subseteq {SF, OF, ZF, CF}
  BY ArithDelta DEF ADC_6502, ADC_BINARY_MODE, ADC_DECIMAL_MODE_6502
<1> QED
  BY <1>1, <1>2, <1>3 DEF SBC_6502

(* And what is combined from them.                                          *)
LEMMA CarriedDelta ==
    ASSUME NEW r, Sound(r), NEW v
    PROVE  /\ Delta(r.SR, ARR(r, v).SR) \subseteq {SF, OF, ZF, CF}
           /\ Delta(r.SR, ISC(r, v).regs.SR) \subseteq {SF, OF, ZF, CF}
           /\ Delta(r.SR, RRA(r, v).regs.SR) \subseteq {SF, OF, ZF, CF}
<1>1. Delta(r.SR, ARR(r, v).SR) \subseteq {SF, OF, ZF, CF}
  <2> DEFINE tmp  == And(r.AC, v)
             rot  == tmp \div 2 + 128 * Carry(r)
             low  == IF LowNibble(tmp) + (tmp % 2) > 5 THEN (rot + 6) % 16 ELSE rot % 16
             over == 16 * (tmp \div 16) + 16 * ((tmp \div 16) % 2) > 80
             high == IF over THEN (rot \div 16 + 6) % 16 ELSE rot \div 16
             b    == Bits(rot)
             decimal == Arith(r, 16 * high + low, Carry(r) = 1, (6 \in b) # (6 \in Bits(tmp)),
                              rot = 0, over)
             binary  == Arith(r, rot, Negative(rot), (6 \in b) # (5 \in b), rot = 0, 6 \in b)
  <2>1. ARR(r, v) = IF DF \in r.SR THEN decimal ELSE binary
    BY Zenon DEF ARR
  <2> HIDE DEF tmp, rot, low, over, high, b
  <2>2. Delta(r.SR, decimal.SR) \subseteq {SF, OF, ZF, CF}
    BY ArithDelta
  <2>3. Delta(r.SR, binary.SR) \subseteq {SF, OF, ZF, CF}
    BY ArithDelta
  <2> HIDE DEF decimal, binary
  <2> QED
    BY <2>1, <2>2, <2>3
<1>2. Delta(r.SR, ISC(r, v).regs.SR) \subseteq {SF, OF, ZF, CF}
  BY AddSubtractDelta DEF ISC
<1>3. Delta(r.SR, RRA(r, v).regs.SR) \subseteq {SF, OF, ZF, CF}
  <2> DEFINE s  == v \div 2 + 128 * Carry(r)
             sr == SetFlags(r.SR, {CF}, When(CF, v % 2 = 1))
             q  == [r EXCEPT !.SR = sr]
  <2>1. RRA(r, v).regs = ADC_6502(q, s)
    BY DEF RRA
  <2>2. SoundSR(sr)
    BY SMT DEF Sound, SoundSR, SetFlags, When, IsRegs, CF, BF, UF
  <2>3. Delta(r.SR, sr) \subseteq {CF}
    BY SetFlagsDelta
  <2> HIDE DEF sr, s
  <2>4. Sound(q) /\ q.SR = sr
    BY <2>2, ReplaceSR, OtherRegister
  <2> HIDE DEF q
  <2>5. Delta(sr, ADC_6502(q, s).SR) \subseteq {SF, OF, ZF, CF}
    BY <2>4, AddSubtractDelta
  <2> QED
    BY <2>1, <2>3, <2>5 DEF Delta
<1> QED
  BY <1>1, <1>2, <1>3

(* The registers but PC and memory do not matter for the flags.             *)
LEMMA UndocumentedFlags ==
    ASSUME IInv, Handler, Insn.op \in UndocumentedOps, Insn.mode # "ACC"
    PROVE  ChangedFlags \subseteq FlagsOf(Insn.op)
<1> USE DEF UndocumentedOps, UnstableStores
<1>1. ChangedFlags = Delta(Regs.SR, Regs'.SR)
  BY DEF ChangedFlags, Delta
<1>2. Delta(Regs.SR, Regs.SR) = {}
  BY DEF Delta
<1>3. CASE ALU_OP
  <2> DEFINE v == IF Insn.mode = "IMM" THEN OperandByte ELSE MemReadByte(Mem, ADR(Insn.mode))
  <2>1. v \in Byte
    BY OperandTypes
  <2>2. Regs' = [ALU(Insn.op, Regs, v) EXCEPT !.PC = NextPC(Insn.mode)] /\ Insn.op \in AluOps
    BY <1>3 DEF ALU_OP
  <2> HIDE DEF v
  <2>3. Sound(ALU(Insn.op, Regs, v))
    BY <2>1, StateFacts, ALUSound
  <2>4. Regs'.SR = ALU(Insn.op, Regs, v).SR
    BY <2>2, <2>3, OtherRegister
  <2>5. Sound(Regs)
    BY StateFacts
  <2>6. Delta(Regs.SR, ALU(Insn.op, Regs, v).SR) \subseteq FlagsOf(Insn.op)
    <3>1. \A w : Delta(Regs.SR, SetNZ(Regs.SR, w)) \subseteq {SF, ZF}
      BY SetFlagsDelta
    <3>2. CASE Insn.op \in {"LAX", "LXA", "LAS", "ANE"}
      BY <2>5, <3>1, <3>2, LoadDelta DEF ALU, FlagsOf
    <3>3. CASE Insn.op \in {"ANC", "ASR", "SBX"}
      BY <2>5, <3>3, ShiftDelta DEF ALU, FlagsOf
    <3>4. CASE Insn.op \in {"ARR", "SBC_6502"}
      BY <2>5, <3>4, CarriedDelta, AddSubtractDelta DEF ALU, FlagsOf
    <3>5. CASE Insn.op = "NOP"
      BY <1>2, <3>5 DEF ALU, FlagsOf
    <3> QED
      BY <2>2, <3>2, <3>3, <3>4, <3>5 DEF AluOps
  <2> QED
    BY <1>1, <2>4, <2>6
<1>4. CASE STO_OP
  BY <1>1, <1>2, <1>4, StateFacts, OtherRegister DEF STO_OP
<1>5. CASE MEM_OP
  <2> DEFINE e == RMW(Insn.op, Regs, MemReadByte(Mem, ADR(Insn.mode)))
  <2>1. Regs' = [e.regs EXCEPT !.PC = NextPC(Insn.mode)] /\ Insn.op \in RmwOps
    BY <1>5 DEF MEM_OP
  <2>2. Sound(Regs) /\ MemReadByte(Mem, ADR(Insn.mode)) \in Byte
    BY StateFacts, OperandTypes
  <2>3. Sound(e.regs)
    BY <2>2, RMWSound DEF SoundEffect
  <2>4. Delta(Regs.SR, e.regs.SR) \subseteq FlagsOf(Insn.op)
    <3>1. CASE Insn.op \in {"SLO", "RLA", "SRE"}
      BY <2>2, <3>1, CombinedDelta DEF RMW, FlagsOf
    <3>2. CASE Insn.op \in {"RRA", "ISC"}
      BY <2>2, <3>2, CarriedDelta DEF RMW, FlagsOf
    <3>3. CASE Insn.op = "DCP"
      BY <2>2, <3>3, ShiftDelta DEF RMW, FlagsOf
    <3> QED
      BY <2>1, <3>1, <3>2, <3>3 DEF RmwOps
  <2> HIDE DEF e
  <2>5. Regs'.SR = e.regs.SR
    BY <2>1, <2>3, OtherRegister
  <2> QED
    BY <1>1, <2>4, <2>5
<1>6. CASE UnstableStore
  <2>1. Regs'.SR = Regs.SR
    BY <1>6, StateFacts DEF UnstableStore, Sound, IsRegs
  <2> QED
    BY <1>1, <1>2, <2>1
<1>7. CASE Implied
  <2>1. Insn.op = "NOP"
    BY <1>7 DEF Implied, ImpliedOps
  <2>2. Regs'.SR = Regs.SR
    BY <1>7, <2>1, StateFacts, OtherRegister DEF Implied, Advance, ImpliedRegs
  <2> QED
    BY <1>1, <1>2, <2>2
<1>8. ~ZP_BITOP /\ ~Accumulator /\ ~FillerNop /\ ~PushRegister /\ ~PullRegister
  BY DEF ZP_BITOP, Accumulator, FillerNop, PushRegister, PullRegister, NopLength, Pushed
<1>9. ~BRK /\ ~JSR /\ ~RTI /\ ~RTS /\ ~BRANCH /\ ~ZP_BIT_BRANCH /\ ~JMP_abs /\ ~JMP_ind
      /\ ~JMP_ind_65C02 /\ ~OPC_Illegal
  BY DEF BRK, JSR, RTI, RTS, BRANCH, Branches, ZP_BIT_BRANCH, JMP_abs, JMP_ind, JMP_ind_65C02,
         OPC_Illegal, Step
<1> QED
  BY <1>3, <1>4, <1>5, <1>6, <1>7, <1>8, <1>9 DEF Handler

(* Every undocumented opcode executed by this step does what its row in the *)
(* header says.                                                             *)
LEMMA InsnUndocumented ==
    ASSUME IInv, Executes, Undocumented
    PROVE  /\ Cycles' = TableCycles
           /\ Opcode # \h6B => ChangedFlags \subseteq DocFlags(Opcode)
<1>1. Handler
  BY DEF Executes, ExecuteInsn, ServeNMI, ServeIRQ, ExecuteOpcode
<1>2. Opcode \in Byte /\ CPU = "CPU_6502X" /\ Opcode \notin Documented \cup Jams
  BY DEF Undocumented
<1>3. PICK h \in Row(Opcode).nmosx : h[1] = Opcode /\ Insn = Named(h)
  <2>1. ~NmosColumns(Opcode)
    BY <1>2, Supported DEF sim65_supported_opcodes
  <2>2. ~Has("nmos", Opcode) /\ Has("nmosx", Opcode)
    BY <1>2, <2>1, Coverage, Chosen DEF Covers
  <2>3. Insn = OPC("nmosx", Opcode)
    BY <1>2, <2>2 DEF Insn, Opcode, Handlers, OP6502XTable
  <2> QED
    BY <2>2, <2>3, Chosen
<1>4. /\ Insn.op \in UndocumentedOps
      /\ Insn.op \in RmwOps => Insn.mode \notin Indexed
      /\ Insn.mode # "ACC"
      /\ BaseCycles(Insn) = DocCycles(Opcode)
      /\ Pays(Insn) <=> Opcode \in DocStarred
      /\ Pays(Insn) => Insn.mode = IF Opcode = \hB3 THEN "ZPINDY"
                                   ELSE IF Opcode % 16 = 12 THEN "ABSX" ELSE "ABSY"
      /\ FlagsOf(Insn.op) \subseteq DocFlags(Opcode) \cup (IF Opcode = \h6B THEN {OF} ELSE {})
  BY <1>2, <1>3, Description DEF Described
<1>5. ASSUME Pays(Insn)
      PROVE  PAGE_CROSS(Insn.mode) <=> LeavesPage
  <2>1. IndexBase \in Word /\ Index \in Byte
    BY StateFacts, OperandTypes DEF IndexBase, Index
  <2>2. Lo(IndexBase) + Index >= 256 <=> LeavesPage
    BY <2>1, CarryLeavesPage DEF LeavesPage
  <2>3. IF Opcode = \hB3 THEN bbb = 4
        ELSE /\ bbb # 4
             /\ Index = IF Opcode % 16 = 12 THEN Regs.XR ELSE Regs.YR
    BY <1>2, <1>4, <1>5, SMT DEF DocStarred, Index, bbb, cc, aaa
  <2>4. Opcode = \hB3 => Index = Regs.YR
    BY <2>3 DEF Index
  <2> QED
    BY <1>4, <1>5, <2>2, <2>3, <2>4 DEF PAGE_CROSS, IndexBase
<1>6. Cycles' = BaseCycles(Insn) + (IF Pays(Insn) /\ PAGE_CROSS(Insn.mode) THEN 1 ELSE 0)
  BY <1>1, <1>2, <1>4, UndocumentedCycles
<1>7. Cycles' = TableCycles
  BY <1>4, <1>5, <1>6 DEF TableCycles, IfLeavesPage
<1> QED
  BY <1>1, <1>4, <1>7, UndocumentedFlags

-----------------------------------------------------------------------------
(* Arithmetic *)

(* What the adder's result says: the accumulator and the four flags.        *)
LEMMA ArithReads ==
    ASSUME NEW r, Sound(r), NEW ac, NEW n, NEW o, NEW z, NEW c
    PROVE  /\ Arith(r, ac, n, o, z, c).AC = ac
           /\ ArithFlags(Arith(r, ac, n, o, z, c))
                = When(SF, n) \cup When(OF, o) \cup When(ZF, z) \cup When(CF, c)
<1> DEFINE new == When(SF, n) \cup When(OF, o) \cup When(ZF, z) \cup When(CF, c)
           a == Arith(r, ac, n, o, z, c)
<1>1. a.AC = ac /\ a.SR = (r.SR \ {CF, ZF, OF, SF}) \cup new
  BY DEF Arith, SetFlags, Sound, IsRegs
<1>2. new \subseteq {CF, ZF, OF, SF}
  BY DEF When
<1> HIDE DEF new, a
<1>3. ArithFlags(a) = new
  BY <1>1, <1>2 DEF ArithFlags
<1> QED
  BY <1>1, <1>3 DEF new, a

(* Reading the flags one by one.                                            *)
LEMMA FlagReads ==
    /\ CF # ZF /\ CF # OF /\ CF # SF /\ ZF # OF /\ ZF # SF /\ OF # SF
    /\ \A r : \A f \in {CF, ZF, OF, SF} : Flag(r, f) <=> f \in ArithFlags(r)
<1>1. CF # ZF /\ CF # OF /\ CF # SF /\ ZF # OF /\ ZF # SF /\ OF # SF
  BY SMT DEF CF, ZF, OF, SF
<1> QED
  BY <1>1 DEF Flag, ArithFlags

(* The register files the arithmetic is tried on differ from the            *)
(* processor's in the decimal flag only.                                    *)
LEMMA FileFacts ==
    ASSUME IInv, NEW decimal \in BOOLEAN
    PROVE  /\ Sound(File(decimal))
           /\ File(decimal).AC = acc
           /\ Carry(File(decimal)) = carry /\ Borrow(File(decimal)) = 1 - carry
           /\ DF \in File(decimal).SR <=> decimal
           /\ acc \in Byte
           /\ carry \in 0..1
<1> DEFINE sr == (Regs.SR \ {DF}) \cup When(DF, decimal)
<1>1. Sound(Regs) /\ SoundSR(Regs.SR) /\ acc \in Byte
  BY StateFacts DEF acc
<1>2. File(decimal) = [Regs EXCEPT !.SR = sr]
  BY DEF File
<1>3. SoundSR(sr)
  <2>1. DF # BF /\ DF # UF /\ DF \in 0..7
    BY SMT DEF DF, BF, UF
  <2> QED
    BY <1>1, <2>1 DEF SoundSR, When
<1>4. DF # CF
  BY SMT DEF DF, CF
<1>5. DF \in sr <=> decimal
  BY DEF When
<1>6. CF \in sr <=> CF \in Regs.SR
  BY <1>4 DEF When
<1> HIDE DEF sr
<1>7. File(decimal).SR = sr /\ File(decimal).AC = acc
  BY <1>1, <1>2 DEF Sound, IsRegs, acc
<1> QED
  BY <1>1, <1>2, <1>3, <1>5, <1>6, <1>7, ReplaceSR, CarryType DEF Carry, Borrow, carry

(* Binary addition.                                                         *)
LEMMA BinaryAddition ==
    ASSUME IInv, NEW operand \in Byte
    PROVE  AddsBinary(operand)
<1> DEFINE r == File(FALSE)
           sum == acc + operand + carry
           ac == Wrap8(sum)
           o == SignedOverflow(acc, operand, Negative(ac))
<1>1. Sound(r) /\ r.AC = acc /\ Carry(r) = carry /\ DF \notin r.SR /\ acc \in Byte /\ carry \in 0..1
  BY FileFacts
<1> HIDE DEF r
<1>2. ADC_6502(r, operand) = Arith(r, ac, Negative(ac), o, ac = 0, sum >= 256)
  BY <1>1, Zenon DEF ADC_6502, ADC_BINARY_MODE
<1>3. sum \in Int /\ ac = sum % 256
  BY <1>1, SMT DEF Byte, Wrap8
<1>4. /\ o <=> (Signed(acc) + Signed(operand) + carry) \notin -128..127
      /\ Negative(ac) <=> Signed(ac) < 0
  BY <1>1, BinarySum DEF Byte
<1>5. sum >= 256 <=> sum > 255
  BY <1>3, SMT
<1> HIDE DEF sum, ac, o
<1> DEFINE a == ADC_6502(r, operand)
<1>6. /\ a.AC = ac
      /\ ArithFlags(a) = When(SF, Negative(ac)) \cup When(OF, o) \cup When(ZF, ac = 0) \cup When(CF, sum >= 256)
  <2> DEFINE n == Negative(ac)
             z == ac = 0
             c == sum >= 256
  <2>1. a = Arith(r, ac, n, o, z, c)
    BY <1>2
  <2> HIDE DEF a, n, z, c
  <2>2. a.AC = ac /\ ArithFlags(a) = When(SF, n) \cup When(OF, o) \cup When(ZF, z) \cup When(CF, c)
    BY <1>1, <2>1, ArithReads
  <2> QED
    BY <2>2 DEF n, z, c
<1> HIDE DEF a
<1>7. /\ Flag(a, SF) <=> Negative(ac)
      /\ Flag(a, OF) <=> o
      /\ Flag(a, ZF) <=> ac = 0
      /\ Flag(a, CF) <=> sum >= 256
  BY <1>6, FlagReads DEF When
<1>8. AddsBinary(operand) <=>
        /\ a.AC = sum % 256
        /\ Flag(a, CF) <=> sum > 255
        /\ Flag(a, OF) <=> (Signed(acc) + Signed(operand) + carry) \notin -128..127
        /\ Flag(a, SF) <=> Signed(a.AC) < 0
        /\ Flag(a, ZF) <=> a.AC = 0
  BY DEF AddsBinary, a, r, sum
<1> QED
  BY <1>3, <1>4, <1>5, <1>6, <1>7, <1>8

(* Binary subtraction.                                                      *)
LEMMA BinarySubtraction ==
    ASSUME IInv, NEW operand \in Byte
    PROVE  SubtractsBinary(operand)
<1> DEFINE r == File(FALSE)
           k == 255 - operand
           diff == acc - operand - (1 - carry)
           sum  == acc + k + carry
           ac   == Wrap8(diff)
           w    == Wrap8(sum)
<1>1. /\ r.AC = acc /\ Carry(r) = carry /\ Borrow(r) = 1 - carry /\ DF \notin r.SR
      /\ acc \in 0..255 /\ carry \in 0..1 /\ operand \in 0..255
  BY FileFacts DEF Byte
<1> HIDE DEF r
<1>2. SBC_65C02(r, operand)
        = Arith(r, ac, Negative(ac), SubOverflow(acc, operand, Negative(ac)), ac = 0, diff >= 0)
  BY <1>1, Zenon DEF SBC_65C02, SBC_BINARY_MODE
<1>3. /\ w = ac /\ (diff >= 0 <=> sum >= 256)
      /\ \A n \in BOOLEAN : SubOverflow(acc, operand, n) = SignedOverflow(acc, k, n)
  <2>1. k = 255 - operand
    OBVIOUS
  <2>2. w = ac /\ (diff >= 0 <=> sum >= 256)
    <3>1. sum = diff + 256 /\ diff \in Int
      BY <1>1, SMT
    <3> HIDE DEF diff, sum
    <3> QED
      BY <3>1, SMT DEF Wrap8
  <2> HIDE DEF k
  <2>3. \A n \in BOOLEAN : SubOverflow(acc, operand, n) = SignedOverflow(acc, k, n)
    BY <1>1, <2>1, ComplementOverflow, Zenon
  <2> QED
    BY <2>2, <2>3
<1> HIDE DEF k
<1>4. ADC_65C02(r, k) = Arith(r, w, Negative(w), SignedOverflow(acc, k, Negative(w)), w = 0, sum >= 256)
  BY <1>1, Zenon DEF ADC_65C02, ADC_BINARY_MODE
<1> HIDE DEF ac, diff, sum, w
<1>5. Negative(ac) \in BOOLEAN /\ (diff >= 0) = (sum >= 256)
  BY <1>3 DEF Negative
<1>6. SubOverflow(acc, operand, Negative(ac)) = SignedOverflow(acc, k, Negative(ac))
  BY <1>3, <1>5, Zenon
<1>7. SBC_65C02(r, operand) = ADC_65C02(r, k)
  BY <1>2, <1>3, <1>4, <1>5, <1>6, Zenon
<1> QED
  BY <1>7 DEF SubtractsBinary, r, k

(* The flags of a comparison.                                               *)
LEMMA CompareReads ==
    ASSUME NEW r, Sound(r), NEW v1, NEW v2
    PROVE  LET c == COMPARE(r, v1, v2)
           IN  /\ c = [r EXCEPT !.SR = c.SR]
               /\ SF \in c.SR <=> Negative(Wrap8(v1 - v2))
               /\ ZF \in c.SR <=> Wrap8(v1 - v2) = 0
               /\ CF \in c.SR <=> v1 >= v2
<1> DEFINE w == Wrap8(v1 - v2)
           sr == SetNZC(r.SR, w, v1 >= v2)
<1>1. CF # ZF /\ CF # SF /\ ZF # SF
  BY SMT DEF CF, ZF, SF
<1>2. sr = (((r.SR \ {ZF, SF}) \cup (When(ZF, w = 0) \cup When(SF, Negative(w)))) \ {CF}) \cup When(CF, v1 >= v2)
  BY DEF SetNZC, SetNZ, SetFlags
<1>3. /\ SF \in sr <=> Negative(w)
      /\ ZF \in sr <=> w = 0
      /\ CF \in sr <=> v1 >= v2
  BY <1>1, <1>2 DEF When
<1>4. COMPARE(r, v1, v2) = [r EXCEPT !.SR = sr]
  BY DEF COMPARE
<1> HIDE DEF sr
<1>5. COMPARE(r, v1, v2).SR = sr
  BY <1>4 DEF Sound, IsRegs
<1> QED
  BY <1>3, <1>4, <1>5

(* Comparison.                                                              *)
LEMMA BinaryComparison ==
    ASSUME IInv, NEW operand \in Byte
    PROVE  ComparesBinary(operand)
<1> DEFINE f == File(FALSE)
           r == [f EXCEPT !.SR = @ \cup {CF}]
           diff == acc - operand
           w == Wrap8(diff)
           c == COMPARE(r, acc, operand)
           s == SBC_6502(r, operand)
<1>1. Sound(f) /\ f.AC = acc /\ DF \notin f.SR /\ acc \in 0..255 /\ operand \in 0..255
  BY FileFacts DEF Byte
<1>2. CF # DF /\ CF \in 0..7
  BY SMT DEF CF, DF
<1> HIDE DEF f
<1>3. SoundSR(f.SR \cup {CF})
  BY <1>1, <1>2 DEF Sound, IsRegs, SoundSR
<1>4. Sound(r) /\ r.AC = acc /\ r.SR = f.SR \cup {CF}
  BY <1>1, <1>3, ReplaceSR DEF Sound, IsRegs
<1> HIDE DEF r
<1>5. DF \notin r.SR /\ Borrow(r) = 1 - 1
  BY <1>1, <1>2, <1>4 DEF Borrow, Carry
<1>6. acc - operand - Borrow(r) = diff /\ (diff >= 0 <=> acc >= operand)
  BY <1>1, <1>5, SMT
<1>7. s = Arith(r, w, Negative(w), SubOverflow(acc, operand, Negative(w)), w = 0, diff >= 0)
  BY <1>4, <1>5, <1>6, Zenon DEF SBC_6502, SBC_BINARY_MODE
<1> DEFINE o == SubOverflow(acc, operand, Negative(w))
<1>8. ArithFlags(s) = When(SF, Negative(w)) \cup When(OF, o) \cup When(ZF, w = 0) \cup When(CF, diff >= 0)
  <2> DEFINE n == Negative(w)
             z == w = 0
             b == diff >= 0
  <2>1. s = Arith(r, w, n, o, z, b)
    BY <1>7
  <2> HIDE DEF s, w, n, o, z, b
  <2>2. ArithFlags(s) = When(SF, n) \cup When(OF, o) \cup When(ZF, z) \cup When(CF, b)
    BY <1>4, <2>1, ArithReads
  <2> QED
    BY <2>2 DEF n, z, b
<1>9. /\ c = [r EXCEPT !.SR = c.SR]
      /\ SF \in c.SR <=> Negative(w)
      /\ ZF \in c.SR <=> w = 0
      /\ CF \in c.SR <=> acc >= operand
  <2>1. \A v1, v2 : LET k == COMPARE(r, v1, v2)
                  IN  /\ k = [r EXCEPT !.SR = k.SR]
                      /\ SF \in k.SR <=> Negative(Wrap8(v1 - v2))
                      /\ ZF \in k.SR <=> Wrap8(v1 - v2) = 0
                      /\ CF \in k.SR <=> v1 >= v2
    BY <1>4, CompareReads
  <2> QED
    BY <2>1, Zenon
<1> HIDE DEF c, s, w, diff, o
<1>10. ArithFlags(c) \ {OF} = ArithFlags(s) \ {OF}
  <2>1. \A bit \in {CF, ZF, SF} : bit \in ArithFlags(s) <=> bit \in c.SR
    BY <1>6, <1>8, <1>9, FlagReads DEF When
  <2> QED
    BY <2>1, FlagReads DEF ArithFlags
<1>11. ComparesBinary(operand) <=> c = [r EXCEPT !.SR = c.SR] /\ ArithFlags(c) \ {OF} = ArithFlags(s) \ {OF}
  BY DEF ComparesBinary, c, s, r, f
<1> QED
  BY <1>9, <1>10, <1>11

(* On NMOS parts the flags of a decimal difference are the binary ones.     *)
LEMMA DecimalFlags ==
    ASSUME IInv, NEW operand \in Byte
    PROVE  KeepsBinaryFlags(operand)
<1> DEFINE d == File(TRUE)
           r == File(FALSE)
           diff == acc - operand - (1 - carry)
           bin  == Wrap8(diff)
           low  == LowNibble(acc) - LowNibble(operand) - (1 - carry)
           high == acc \div 16 - operand \div 16 - (IF low < 0 THEN 1 ELSE 0)
           n == Negative(bin)
           o == SubOverflow(acc, operand, n)
           z == bin = 0
           digit(x) == IF x < 0 THEN (x + 10) % 16 ELSE x
           ac == 16 * digit(high) + digit(low)
<1>1. /\ Sound(d) /\ d.AC = acc /\ Borrow(d) = 1 - carry /\ Carry(d) = carry /\ DF \in d.SR
      /\ Sound(r) /\ r.AC = acc /\ Borrow(r) = 1 - carry /\ Carry(r) = carry /\ DF \notin r.SR
      /\ acc \in Byte /\ carry \in 0..1
  BY FileFacts
<1> HIDE DEF d, r
<1>2. SBC_6502(d, operand) = Arith(d, ac, n, o, z, high >= 0)
  BY <1>1, Zenon DEF SBC_6502, SBC_DECIMAL_MODE_6502
<1>3. SBC_6502(r, operand) = Arith(r, bin, n, o, z, diff >= 0)
  BY <1>1, Zenon DEF SBC_6502, SBC_BINARY_MODE
<1>4. high >= 0 <=> diff >= 0
  <2> DEFINE al == acc % 16
             ah == acc \div 16
             vl == operand % 16
             vh == operand \div 16
  <2>1. al \in 0..15 /\ ah \in 0..15 /\ vl \in 0..15 /\ vh \in 0..15
        /\ acc = 16 * ah + al /\ operand = 16 * vh + vl
    BY <1>1, DigitsOf
  <2>2. low = al - vl - (1 - carry) /\ high = ah - vh - (IF low < 0 THEN 1 ELSE 0)
    BY DEF LowNibble
  <2> HIDE DEF al, ah, vl, vh, low, high
  <2>3. diff = 16 * (ah - vh) + low /\ low \in -16..15
    BY <1>1, <2>1, <2>2, SMT
  <2> HIDE DEF diff
  <2> QED
    BY <2>1, <2>2, <2>3, SMT
<1>5. When(CF, high >= 0) = When(CF, diff >= 0)
  BY <1>4 DEF When
<1> HIDE DEF ac, bin, high, diff, n, o, z
<1>6. ArithFlags(SBC_6502(d, operand)) = ArithFlags(SBC_6502(r, operand))
  <2> DEFINE c1 == high >= 0
             c2 == diff >= 0
             f == SBC_6502(d, operand)
             g == SBC_6502(r, operand)
  <2>1. f = Arith(d, ac, n, o, z, c1) /\ g = Arith(r, bin, n, o, z, c2)
    BY <1>2, <1>3
  <2>2. When(CF, c1) = When(CF, c2)
    BY <1>5
  <2> HIDE DEF c1, c2, f, g
  <2>3. ArithFlags(f) = When(SF, n) \cup When(OF, o) \cup When(ZF, z) \cup When(CF, c1)
    BY <1>1, <2>1, ArithReads
  <2>4. ArithFlags(g) = When(SF, n) \cup When(OF, o) \cup When(ZF, z) \cup When(CF, c2)
    BY <1>1, <2>1, ArithReads
  <2> QED
    BY <2>2, <2>3, <2>4 DEF f, g
<1>7. Flag(ADC_6502(d, operand), ZF) <=> Flag(ADC_6502(r, operand), ZF)
  <2> DEFINE s == Wrap8(acc + operand + carry)
             e == DecimalSum(d, operand)
             o1 == SignedOverflow(acc, operand, e.n)
             o2 == SignedOverflow(acc, operand, Negative(s))
             n1 == e.n
             n2 == Negative(s)
             zero == s = 0
             c1 == e.carry
             c2 == acc + operand + carry >= 256
             f == ADC_6502(d, operand)
             g == ADC_6502(r, operand)
  <2>1. f = Arith(d, e.ac, n1, o1, zero, c1)
    BY <1>1, Zenon DEF ADC_6502, ADC_DECIMAL_MODE_6502
  <2>2. g = Arith(r, s, n2, o2, zero, c2)
    BY <1>1, Zenon DEF ADC_6502, ADC_BINARY_MODE
  <2> HIDE DEF s, e, o1, o2, n1, n2, zero, c1, c2, f, g
  <2>3. ArithFlags(f) = When(SF, n1) \cup When(OF, o1) \cup When(ZF, zero) \cup When(CF, c1)
    BY <1>1, <2>1, ArithReads
  <2>4. ArithFlags(g) = When(SF, n2) \cup When(OF, o2) \cup When(ZF, zero) \cup When(CF, c2)
    BY <1>1, <2>2, ArithReads
  <2>5. Flag(f, ZF) <=> Flag(g, ZF)
    BY <2>3, <2>4, FlagReads DEF When
  <2> QED
    BY <2>5 DEF f, g
<1> QED
  BY <1>6, <1>7 DEF KeepsBinaryFlags, d, r

(* The number that two decimal digits make.                                 *)
LEMMA DecimalDigits ==
    ASSUME NEW h \in 0..9, NEW l \in 0..9
    PROVE  IsBcd(16 * h + l) /\ Decimal(16 * h + l) = 10 * h + l
<1>1. (16 * h + l) % 16 = l /\ (16 * h + l) \div 16 = h
  BY FromDigits, SMT
<1> DEFINE b == 16 * h + l
<1> HIDE DEF b
<1>2. b % 16 = l /\ b \div 16 = h => IsBcd(b) /\ Decimal(b) = 10 * h + l
  BY SMT DEF IsBcd, Decimal
<1> QED
  BY <1>1, <1>2 DEF b

(* And the digits of a packed decimal number.                               *)
LEMMA DigitsOfDecimal ==
    ASSUME NEW b \in Byte, IsBcd(b)
    PROVE  (b % 16) \in 0..9 /\ (b \div 16) \in 0..9
<1>1. (b % 16) \in 0..15 /\ (b \div 16) \in 0..15
  BY DigitsOf
<1> QED
  BY <1>1, SMT DEF IsBcd

(* Adding two decimal digits at a time.                                     *)
LEMMA DecimalSumOfDigits ==
    ASSUME NEW a \in Byte, NEW v \in Byte, NEW c \in 0..1, IsBcd(a), IsBcd(v), NEW low, NEW high,
           low = LowNibble(a) + LowNibble(v) + c,
           high = a \div 16 + v \div 16 + (IF low > 9 THEN 1 ELSE 0)
    PROVE  /\ IsBcd(16 * AdjustUp(high) + AdjustUp(low))
           /\ Decimal(16 * AdjustUp(high) + AdjustUp(low)) = (Decimal(a) + Decimal(v) + c) % 100
           /\ high > 9 <=> Decimal(a) + Decimal(v) + c > 99
<1> DEFINE al == a % 16
           ah == a \div 16
           vl == v % 16
           vh == v \div 16
           sum == Decimal(a) + Decimal(v) + c
           l == IF low > 9 THEN low - 10 ELSE low
           h == IF high > 9 THEN high - 10 ELSE high
<1>1. al \in 0..9 /\ ah \in 0..9 /\ vl \in 0..9 /\ vh \in 0..9
  BY DigitsOfDecimal
<1>2. low = al + vl + c /\ high = ah + vh + (IF low > 9 THEN 1 ELSE 0)
  BY DEF LowNibble
<1>3. sum = 10 * (ah + vh) + al + vl + c
  <2>1. Decimal(a) = 10 * ah + al /\ Decimal(v) = 10 * vh + vl
    BY DEF Decimal
  <2> HIDE DEF al, ah, vl, vh
  <2> QED
    BY <1>1, <2>1, SMT
<1> HIDE DEF al, ah, vl, vh, sum
<1>4. low \in 0..19 /\ high \in 0..19
  BY <1>1, <1>2, SMT
<1>5. AdjustUp(low) = l /\ AdjustUp(high) = h /\ l \in 0..9 /\ h \in 0..9
  BY <1>4, SMT DEF AdjustUp
<1>6. sum % 100 = 10 * h + l /\ (high > 9 <=> sum > 99)
  BY <1>1, <1>2, <1>3, <1>4, SMT
<1> HIDE DEF l, h
<1> QED
  BY <1>5, <1>6, DecimalDigits DEF sum

(* Decimal addition.                                                        *)
LEMMA DecimalAddition ==
    ASSUME IInv, NEW operand \in Byte, IsBcd(acc), IsBcd(operand)
    PROVE  AddsDecimal(operand)
<1> DEFINE r == File(TRUE)
           sum == Decimal(acc) + Decimal(operand) + carry
           d == DecimalSum(r, operand)
           low == LowNibble(acc) + LowNibble(operand) + carry
           high == acc \div 16 + operand \div 16 + (IF low > 9 THEN 1 ELSE 0)
           z1 == Wrap8(acc + operand + carry) = 0
           z2 == d.ac = 0
           o == SignedOverflow(acc, operand, d.n)
           n1 == d.n
           n2 == Negative(d.ac)
           f == ADC_6502(r, operand)
           g == ADC_65C02(r, operand)
<1>1. Sound(r) /\ r.AC = acc /\ Carry(r) = carry /\ DF \in r.SR /\ acc \in Byte /\ carry \in 0..1
  BY FileFacts
<1> HIDE DEF r
<1>2. d.ac = 16 * AdjustUp(high) + AdjustUp(low) /\ d.carry = (high > 9)
  BY <1>1, Zenon DEF DecimalSum
<1>3. /\ IsBcd(d.ac)
      /\ Decimal(d.ac) = sum % 100
      /\ d.carry <=> sum > 99
  <2>1. /\ IsBcd(16 * AdjustUp(high) + AdjustUp(low))
        /\ Decimal(16 * AdjustUp(high) + AdjustUp(low)) = sum % 100
        /\ high > 9 <=> sum > 99
    <3> DEFINE l == low
               h == high
    <3>1. l = LowNibble(acc) + LowNibble(operand) + carry
          /\ h = acc \div 16 + operand \div 16 + (IF l > 9 THEN 1 ELSE 0)
      OBVIOUS
    <3> HIDE DEF l, h
    <3>2. /\ IsBcd(16 * AdjustUp(h) + AdjustUp(l))
          /\ Decimal(16 * AdjustUp(h) + AdjustUp(l)) = sum % 100
          /\ h > 9 <=> sum > 99
      BY <1>1, <3>1, DecimalSumOfDigits
    <3> QED
      BY <3>2 DEF l, h
  <2> QED
    BY <1>2, <2>1
<1>4. f = Arith(r, d.ac, n1, o, z1, d.carry) /\ g = Arith(r, d.ac, n2, o, z2, d.carry)
  BY <1>1, Zenon DEF ADC_6502, ADC_65C02, ADC_DECIMAL_MODE_6502, ADC_DECIMAL_MODE_65C02
<1> HIDE DEF d, sum, z1, z2, o, n1, n2, f, g, high, low
<1>5. /\ f.AC = d.ac /\ g.AC = d.ac
      /\ ArithFlags(f) = When(SF, n1) \cup When(OF, o) \cup When(ZF, z1) \cup When(CF, d.carry)
      /\ ArithFlags(g) = When(SF, n2) \cup When(OF, o) \cup When(ZF, z2) \cup When(CF, d.carry)
  BY <1>1, <1>4, ArithReads
<1>6. (Flag(f, CF) <=> d.carry) /\ (Flag(g, CF) <=> d.carry)
  BY <1>5, FlagReads DEF When
<1>7. \A q \in {f, g} : IsBcd(q.AC) /\ Decimal(q.AC) = sum % 100 /\ (Flag(q, CF) <=> sum > 99)
  BY <1>3, <1>5, <1>6
<1> QED
  BY <1>7 DEF AddsDecimal, f, g, r, sum

(* The digits of a decimal subtraction: the differences of the operands'    *)
(* digits, the same raised by ten where they are negative, what remains of  *)
(* the high one after a second borrow (65C02), and what NMOS parts keep of  *)
(* both.                                                                    *)
Difference(a, v, c) ==
    LET low    == LowNibble(a) - LowNibble(v) - (1 - c)
        high   == a \div 16 - v \div 16 - (IF low < 0 THEN 1 ELSE 0)
        fixed  == IF low < 0 THEN low + 10 ELSE low
        raised == IF high < 0 THEN high + 10 ELSE high
    IN  [low |-> low, high |-> high, fixed |-> fixed, raised |-> raised,
         top |-> raised - (IF fixed < 0 THEN 1 ELSE 0),
         l |-> IF low < 0 THEN (low + 10) % 16 ELSE low,
         h |-> IF high < 0 THEN (high + 10) % 16 ELSE high]

(* Field by field.                                                          *)
LEMMA DifferenceFields ==
    ASSUME NEW a, NEW v, NEW c, NEW d, d = Difference(a, v, c)
    PROVE  /\ d.low = LowNibble(a) - LowNibble(v) - (1 - c)
           /\ d.high = a \div 16 - v \div 16 - (IF d.low < 0 THEN 1 ELSE 0)
           /\ d.fixed = (IF d.low < 0 THEN d.low + 10 ELSE d.low)
           /\ d.raised = (IF d.high < 0 THEN d.high + 10 ELSE d.high)
           /\ d.top = d.raised - (IF d.fixed < 0 THEN 1 ELSE 0)
           /\ d.l = (IF d.low < 0 THEN (d.low + 10) % 16 ELSE d.low)
           /\ d.h = (IF d.high < 0 THEN (d.high + 10) % 16 ELSE d.high)
  BY DEF Difference

(* For all bytes.                                                           *)
LEMMA DifferenceTypes ==
    ASSUME NEW a \in Byte, NEW v \in Byte, NEW c \in 0..1, NEW d, d = Difference(a, v, c)
    PROVE  d.low \in -16..15 /\ d.high \in -16..15 /\ d.h \in 0..15 /\ d.l \in 0..15
           /\ d.raised \in -6..15 /\ d.fixed \in -6..15
<1> DEFINE al == a % 16
           ah == a \div 16
           vl == v % 16
           vh == v \div 16
<1>1. al \in 0..15 /\ ah \in 0..15 /\ vl \in 0..15 /\ vh \in 0..15
  BY DigitsOf
<1>2. d.low = al - vl - (1 - c) /\ d.high = ah - vh - (IF d.low < 0 THEN 1 ELSE 0)
  BY DifferenceFields DEF LowNibble
<1> HIDE DEF al, ah, vl, vh
<1>3. d.low \in -16..15
  BY <1>1, <1>2, SMT
<1>4. d.high \in -16..15
  BY <1>1, <1>2, <1>3, SMT
<1>5. /\ d.fixed = (IF d.low < 0 THEN d.low + 10 ELSE d.low)
      /\ d.raised = (IF d.high < 0 THEN d.high + 10 ELSE d.high)
      /\ d.l = (IF d.low < 0 THEN (d.low + 10) % 16 ELSE d.low)
      /\ d.h = (IF d.high < 0 THEN (d.high + 10) % 16 ELSE d.high)
  BY DifferenceFields
<1>6. d.l \in 0..15 /\ d.fixed \in -6..15
  BY <1>3, <1>5, SMT
<1>7. d.h \in 0..15 /\ d.raised \in -6..15
  BY <1>4, <1>5, SMT
<1> QED
  BY <1>3, <1>4, <1>6, <1>7

(* For packed decimal numbers.                                              *)
LEMMA DifferenceOfDecimals ==
    ASSUME NEW a \in Byte, NEW v \in Byte, NEW c \in 0..1, IsBcd(a), IsBcd(v),
           NEW d, d = Difference(a, v, c)
    PROVE  /\ d.raised \in 0..9 /\ d.fixed \in 0..9
           /\ d.h = d.raised /\ d.l = d.fixed /\ LowNibble(d.top) = d.raised /\ LowNibble(d.fixed) = d.fixed
           /\ 10 * d.raised + d.fixed = (Decimal(a) - Decimal(v) - (1 - c)) % 100
           /\ d.high >= 0 <=> Decimal(a) - Decimal(v) - (1 - c) >= 0
<1> DEFINE al == a % 16
           ah == a \div 16
           vl == v % 16
           vh == v \div 16
           diff == Decimal(a) - Decimal(v) - (1 - c)
<1>1. al \in 0..9 /\ ah \in 0..9 /\ vl \in 0..9 /\ vh \in 0..9
  BY DigitsOfDecimal
<1>2. d.low = al - vl - (1 - c) /\ d.high = ah - vh - (IF d.low < 0 THEN 1 ELSE 0)
  BY DifferenceFields DEF LowNibble
<1>3. diff = 10 * (ah - vh) + (al - vl - (1 - c))
  <2>1. Decimal(a) = 10 * ah + al /\ Decimal(v) = 10 * vh + vl
    BY DEF Decimal
  <2> HIDE DEF al, ah, vl, vh
  <2> QED
    BY <1>1, <2>1, SMT
<1> HIDE DEF al, ah, vl, vh, diff
<1>4. d.low \in -10..9
  BY <1>1, <1>2, SMT
<1>5. d.high \in -10..9
  BY <1>1, <1>2, <1>4, SMT
<1>6. /\ d.fixed = (IF d.low < 0 THEN d.low + 10 ELSE d.low)
      /\ d.raised = (IF d.high < 0 THEN d.high + 10 ELSE d.high)
      /\ d.top = d.raised - (IF d.fixed < 0 THEN 1 ELSE 0)
      /\ d.l = (IF d.low < 0 THEN (d.low + 10) % 16 ELSE d.low)
      /\ d.h = (IF d.high < 0 THEN (d.high + 10) % 16 ELSE d.high)
  BY DifferenceFields
<1>7. d.fixed \in 0..9 /\ d.l = d.fixed
  BY <1>4, <1>6, SMT
<1>8. d.raised \in 0..9 /\ d.h = d.raised
  BY <1>5, <1>6, SMT
<1>9. d.top = d.raised
  BY <1>6, <1>7, <1>8, SMT
<1>10. LowNibble(d.top) = d.raised /\ LowNibble(d.fixed) = d.fixed
  BY <1>7, <1>8, <1>9, SMT DEF LowNibble
<1>11. diff = 10 * d.raised + d.fixed - (IF d.high < 0 THEN 100 ELSE 0)
  BY <1>1, <1>2, <1>3, <1>4, <1>5, <1>6, SMT
<1>12. 10 * d.raised + d.fixed = diff % 100 /\ (d.high >= 0 <=> diff >= 0)
  BY <1>5, <1>7, <1>8, <1>11, SMT
<1> QED
  BY <1>7, <1>8, <1>10, <1>12 DEF diff

(* The accumulator and carry of a decimal subtraction on each processor.    *)
LEMMA DecimalSubtractReads ==
    ASSUME IInv, NEW operand \in Byte, NEW d, d = Difference(acc, operand, carry)
    PROVE  /\ SBC_6502(File(TRUE), operand).AC = 16 * d.h + d.l
           /\ SBC_65C02(File(TRUE), operand).AC = 16 * LowNibble(d.top) + LowNibble(d.fixed)
           /\ Flag(SBC_6502(File(TRUE), operand), CF) <=> d.high >= 0
           /\ Flag(SBC_65C02(File(TRUE), operand), CF) <=> d.high >= 0
<1> DEFINE r == File(TRUE)
           low == LowNibble(acc) - LowNibble(operand) - (1 - carry)
           high == acc \div 16 - operand \div 16 - (IF low < 0 THEN 1 ELSE 0)
           bin == Wrap8(acc - operand - (1 - carry))
           n1 == Negative(bin)
           o1 == SubOverflow(acc, operand, n1)
           z1 == bin = 0
           ac1 == 16 * d.h + d.l
           ac2 == 16 * LowNibble(d.top) + LowNibble(d.fixed)
           n2 == Negative(ac2)
           n3 == (d.high \div 8) % 2 = 1
           o2 == SubOverflow(acc, operand, n3)
           z2 == ac2 = 0
           c == d.high >= 0
           f == SBC_6502(r, operand)
           g == SBC_65C02(r, operand)
<1>1. Sound(r) /\ r.AC = acc /\ Borrow(r) = 1 - carry /\ DF \in r.SR
  BY FileFacts
<1> HIDE DEF r
<1>2. f = Arith(r, ac1, n1, o1, z1, c)
  BY <1>1 DEF SBC_6502, SBC_DECIMAL_MODE_6502, Difference
<1>3. g = Arith(r, ac2, n2, o2, z2, c)
  BY <1>1 DEF SBC_65C02, SBC_DECIMAL_MODE_65C02, Difference
<1> HIDE DEF n1, o1, z1, ac1, n2, o2, z2, ac2, c, f, g
<1>4. /\ f.AC = ac1 /\ g.AC = ac2
      /\ ArithFlags(f) = When(SF, n1) \cup When(OF, o1) \cup When(ZF, z1) \cup When(CF, c)
      /\ ArithFlags(g) = When(SF, n2) \cup When(OF, o2) \cup When(ZF, z2) \cup When(CF, c)
  BY <1>1, <1>2, <1>3, ArithReads
<1>5. (Flag(f, CF) <=> c) /\ (Flag(g, CF) <=> c)
  BY <1>4, FlagReads DEF When
<1> QED
  BY <1>4, <1>5 DEF f, g, r, c, ac1, ac2

(* Decimal subtraction.                                                     *)
LEMMA DecimalSubtraction ==
    ASSUME IInv, NEW operand \in Byte, IsBcd(acc), IsBcd(operand)
    PROVE  SubtractsDecimal(operand)
<1> DEFINE diff == Decimal(acc) - Decimal(operand) - (1 - carry)
           d == Difference(acc, operand, carry)
           f == SBC_6502(File(TRUE), operand)
           g == SBC_65C02(File(TRUE), operand)
           ac == 16 * d.raised + d.fixed
<1>1. acc \in Byte /\ carry \in 0..1
  BY FileFacts
<1>2. /\ f.AC = 16 * d.h + d.l /\ g.AC = 16 * LowNibble(d.top) + LowNibble(d.fixed)
      /\ Flag(f, CF) <=> d.high >= 0
      /\ Flag(g, CF) <=> d.high >= 0
  BY DecimalSubtractReads
<1>3. /\ d.raised \in 0..9 /\ d.fixed \in 0..9
      /\ d.h = d.raised /\ d.l = d.fixed /\ LowNibble(d.top) = d.raised /\ LowNibble(d.fixed) = d.fixed
      /\ 10 * d.raised + d.fixed = diff % 100
      /\ d.high >= 0 <=> diff >= 0
  BY <1>1, DifferenceOfDecimals
<1> HIDE DEF diff, f, g, d
<1>4. f.AC = ac /\ g.AC = ac
  BY <1>2, <1>3
<1>5. IsBcd(ac) /\ Decimal(ac) = 10 * d.raised + d.fixed
  BY <1>3, DecimalDigits
<1> HIDE DEF ac
<1>6. \A q \in {f, g} : IsBcd(q.AC) /\ Decimal(q.AC) = diff % 100 /\ (Flag(q, CF) <=> diff >= 0)
  BY <1>2, <1>3, <1>4, <1>5
<1> QED
  BY <1>6 DEF SubtractsDecimal, f, g, diff

(* And of bytes that are no decimal numbers.                                *)
LEMMA AnySubtraction ==
    ASSUME IInv, NEW operand \in Byte
    PROVE  SubtractsAnything(operand)
<1> DEFINE d == Difference(acc, operand, carry)
           f == SBC_6502(File(TRUE), operand)
           g == SBC_65C02(File(TRUE), operand)
           t == LowNibble(d.top)
<1>1. acc \in Byte /\ carry \in 0..1
  BY FileFacts
<1>2. /\ f.AC = 16 * d.h + d.l /\ g.AC = 16 * t + LowNibble(d.fixed)
      /\ Flag(f, CF) <=> d.high >= 0
      /\ Flag(g, CF) <=> d.high >= 0
  BY DecimalSubtractReads
<1>3. d.low \in -16..15 /\ d.high \in -16..15 /\ d.h \in 0..15 /\ d.l \in 0..15
      /\ d.raised \in -6..15 /\ d.fixed \in -6..15
  BY <1>1, DifferenceTypes
<1>4. /\ d.low = (acc % 16) - (operand % 16) - (1 - carry)
      /\ d.fixed = (IF d.low < 0 THEN d.low + 10 ELSE d.low)
      /\ d.raised = (IF d.high < 0 THEN d.high + 10 ELSE d.high)
      /\ d.top = d.raised - (IF d.fixed < 0 THEN 1 ELSE 0)
      /\ d.l = (IF d.low < 0 THEN (d.low + 10) % 16 ELSE d.low)
      /\ d.h = (IF d.high < 0 THEN (d.high + 10) % 16 ELSE d.high)
  BY DifferenceFields DEF LowNibble
<1> HIDE DEF d, f, g
<1>5. LowNibble(d.fixed) = d.l
  BY <1>3, <1>4, SMT DEF LowNibble
<1>6. d.h = d.raised % 16
  BY <1>3, <1>4, SMT
<1>7. d.fixed < 0 <=> d.low < -10
  BY <1>3, <1>4, SMT
<1>8. t = (d.raised - (IF d.fixed < 0 THEN 1 ELSE 0)) % 16
  BY <1>4 DEF LowNibble
<1>9. t = IF d.fixed < 0 THEN (IF d.h = 0 THEN 15 ELSE d.h - 1) ELSE d.h
  BY <1>3, <1>6, <1>8, SMT
<1> HIDE DEF t
<1>10. f.AC - g.AC = 16 * d.h - 16 * t
  <2>1. t \in Int /\ d.h \in Int /\ d.l \in Int
    BY <1>3, <1>9
  <2>2. f.AC = 16 * d.h + d.l /\ g.AC = 16 * t + d.l
    BY <1>2, <1>5
  <2> DEFINE x == f.AC
             y == g.AC
  <2> HIDE DEF x, y
  <2>3. x = 16 * d.h + d.l /\ y = 16 * t + d.l => x - y = 16 * d.h - 16 * t
    BY <2>1
  <2> QED
    BY <2>2, <2>3 DEF x, y
<1>11. (16 * d.h - 16 * t) % 256 = IF d.fixed < 0 THEN 16 ELSE 0
  BY <1>3, <1>9, SMT
<1>12. (f.AC - g.AC) % 256 = IF d.low < -10 THEN 16 ELSE 0
  BY <1>7, <1>10, <1>11
<1>13. SubtractsAnything(operand) <=>
        LET low == (acc % 16) - (operand % 16) - (1 - carry)
        IN  (Flag(f, CF) <=> Flag(g, CF)) /\ (f.AC - g.AC) % 256 = IF low < -10 THEN 16 ELSE 0
  BY DEF SubtractsAnything, f, g
<1> QED
  BY <1>2, <1>4, <1>12, <1>13

-----------------------------------------------------------------------------
(* What an operation leaves in the registers                                *)

(* Register files that differ in the program counter at most.               *)
Agree(q, r) == q.AC = r.AC /\ q.XR = r.XR /\ q.YR = r.YR /\ q.SP = r.SP /\ q.SR = r.SR

(* An operation leaves alone the registers it is not about.                 *)
Spares(op, r, q) ==
    /\ op \notin OpsOnXR => q.XR = r.XR
    /\ op \notin OpsOnYR => q.YR = r.YR
    /\ op \notin OpsOnSP => q.SP = r.SP
    /\ op \notin OpsOnAC => q.AC = r.AC

(* Replacing a field replaces no other.                                     *)
LEMMA OtherFields ==
    ASSUME NEW r, Sound(r), NEW x
    PROVE  /\ Agree([r EXCEPT !.PC = x], r) /\ [r EXCEPT !.PC = x].PC = x
           /\ LET q == [r EXCEPT !.AC = x]
              IN  q.AC = x /\ q.XR = r.XR /\ q.YR = r.YR /\ q.SP = r.SP /\ q.SR = r.SR
           /\ LET q == [r EXCEPT !.XR = x]
              IN  q.XR = x /\ q.AC = r.AC /\ q.YR = r.YR /\ q.SP = r.SP /\ q.SR = r.SR
           /\ LET q == [r EXCEPT !.YR = x]
              IN  q.YR = x /\ q.AC = r.AC /\ q.XR = r.XR /\ q.SP = r.SP /\ q.SR = r.SR
           /\ LET q == [r EXCEPT !.SP = x]
              IN  q.SP = x /\ q.AC = r.AC /\ q.XR = r.XR /\ q.YR = r.YR /\ q.SR = r.SR
           /\ LET q == [r EXCEPT !.SR = x]
              IN  q.SR = x /\ q.AC = r.AC /\ q.XR = r.XR /\ q.YR = r.YR /\ q.SP = r.SP
  BY DEF Sound, IsRegs, Agree

(* The flags that setting others leaves alone.                              *)
LEMMA FlagsKept ==
    ASSUME NEW sr, NEW v, NEW c
    PROVE  /\ CF \in SetNZ(sr, v) <=> CF \in sr
           /\ CF \in SetNZC(sr, v, c) <=> c
           /\ CF \in SetFlags(sr, {CF}, When(CF, c)) <=> c
           /\ DF \in SetFlags(sr, {CF}, When(CF, c)) <=> DF \in sr
<1>1. CF # ZF /\ CF # SF /\ CF # DF
  BY SMT DEF CF, ZF, SF, DF
<1> QED
  BY <1>1 DEF SetNZ, SetNZC, SetFlags, When

(* Loads.                                                                   *)
LEMMA LoadReads ==
    ASSUME NEW r, Sound(r), NEW v \in Byte
    PROVE  /\ LET q == LoadAC(r, v)
              IN  q.AC = v /\ q.XR = r.XR /\ q.YR = r.YR /\ q.SP = r.SP /\ q.SR = SetNZ(r.SR, v)
           /\ LET q == [r EXCEPT !.XR = v, !.SR = SetNZ(@, v)]
              IN  q.XR = v /\ q.AC = r.AC /\ q.YR = r.YR /\ q.SP = r.SP /\ q.SR = SetNZ(r.SR, v)
           /\ LET q == [r EXCEPT !.YR = v, !.SR = SetNZ(@, v)]
              IN  q.YR = v /\ q.AC = r.AC /\ q.XR = r.XR /\ q.SP = r.SP /\ q.SR = SetNZ(r.SR, v)
           /\ LET q == LAX(r, v)
              IN  q.AC = v /\ q.XR = v /\ q.YR = r.YR /\ q.SP = r.SP /\ q.SR = SetNZ(r.SR, v)
  BY DEF Sound, IsRegs, LoadAC, LAX

(* The adder, whatever it is given.                                         *)
LEMMA ArithFields ==
    ASSUME NEW r, Sound(r), NEW ac, NEW n, NEW o, NEW z, NEW c
    PROVE  LET q == Arith(r, ac, n, o, z, c)
           IN  /\ q.AC = ac /\ q.XR = r.XR /\ q.YR = r.YR /\ q.SP = r.SP
               /\ ZF \in q.SR <=> z
<1> DEFINE new == When(SF, n) \cup When(OF, o) \cup When(ZF, z) \cup When(CF, c)
           q == Arith(r, ac, n, o, z, c)
<1>1. /\ q.AC = ac /\ q.XR = r.XR /\ q.YR = r.YR /\ q.SP = r.SP
      /\ q.SR = (r.SR \ {CF, ZF, OF, SF}) \cup new
  BY DEF Arith, SetFlags, Sound, IsRegs
<1>2. ZF \in new <=> z
  BY FlagReads DEF When
<1> HIDE DEF new, q
<1>3. ZF \in q.SR <=> z
  BY <1>1, <1>2
<1> QED
  BY <1>1, <1>3 DEF q

(* Sums and differences: the accumulator in binary mode, and the Z flag.    *)
SumOf(r, q, binary) ==
    /\ DF \notin r.SR => q.AC = binary
    /\ ZF \in q.SR <=> binary = 0
    /\ q.XR = r.XR /\ q.YR = r.YR /\ q.SP = r.SP

CmosSumOf(r, q, binary) ==
    /\ DF \notin r.SR => q.AC = binary
    /\ ZF \in q.SR <=> q.AC = 0
    /\ q.XR = r.XR /\ q.YR = r.YR /\ q.SP = r.SP

(* What the flags of a sum are made of does not matter for either.          *)
LEMMA SumFields ==
    ASSUME NEW r, Sound(r), NEW bin, NEW ac, NEW n, NEW o, NEW z, NEW c, DF \notin r.SR => ac = bin
    PROVE  /\ (z <=> bin = 0) => SumOf(r, Arith(r, ac, n, o, z, c), bin)
           /\ (z <=> ac = 0) => CmosSumOf(r, Arith(r, ac, n, o, z, c), bin)
<1> DEFINE q == Arith(r, ac, n, o, z, c)
<1>1. /\ q.AC = ac /\ q.XR = r.XR /\ q.YR = r.YR /\ q.SP = r.SP
      /\ ZF \in q.SR <=> z
  BY ArithFields
<1> HIDE DEF q
<1>2. (z <=> bin = 0) => SumOf(r, q, bin)
  BY <1>1 DEF SumOf
<1>3. (z <=> ac = 0) => CmosSumOf(r, q, bin)
  BY <1>1 DEF CmosSumOf
<1> QED
  BY <1>2, <1>3 DEF q

(* Addition.                                                                *)
LEMMA AdditionFields ==
    ASSUME NEW r, Sound(r), NEW v \in Byte
    PROVE  /\ SumOf(r, ADC_6502(r, v), (r.AC + v + Carry(r)) % 256)
           /\ CmosSumOf(r, ADC_65C02(r, v), (r.AC + v + Carry(r)) % 256)
<1> DEFINE sum == r.AC + v + Carry(r)
           bin == sum % 256
           zero == bin = 0
<1>1. CASE DF \in r.SR
  <2> DEFINE d == DecimalSum(r, v)
             over == SignedOverflow(r.AC, v, d.n)
             none == d.ac = 0
             n == Negative(d.ac)
  <2>1. ADC_6502(r, v) = Arith(r, d.ac, d.n, over, zero, d.carry)
    BY <1>1 DEF ADC_6502, ADC_DECIMAL_MODE_6502, Wrap8
  <2>2. ADC_65C02(r, v) = Arith(r, d.ac, n, over, none, d.carry)
    BY <1>1 DEF ADC_65C02, ADC_DECIMAL_MODE_65C02
  <2>3. (zero <=> bin = 0) /\ (none <=> d.ac = 0)
    OBVIOUS
  <2> HIDE DEF bin, d, over, zero, none, n
  <2>4. SumOf(r, Arith(r, d.ac, d.n, over, zero, d.carry), bin)
    BY <1>1, <2>3, SumFields
  <2>5. CmosSumOf(r, Arith(r, d.ac, n, over, none, d.carry), bin)
    BY <1>1, <2>3, SumFields
  <2> QED
    BY <2>1, <2>2, <2>4, <2>5 DEF bin
<1>2. CASE DF \notin r.SR
  <2> DEFINE over == SignedOverflow(r.AC, v, Negative(bin))
             c == sum >= 256
             n == Negative(bin)
  <2>1. ADC_6502(r, v) = Arith(r, bin, n, over, zero, c) /\ ADC_65C02(r, v) = Arith(r, bin, n, over, zero, c)
    BY <1>2 DEF ADC_6502, ADC_65C02, ADC_BINARY_MODE, Wrap8
  <2>2. zero <=> bin = 0
    OBVIOUS
  <2> HIDE DEF bin, over, zero, c, n
  <2>3. SumOf(r, Arith(r, bin, n, over, zero, c), bin) /\ CmosSumOf(r, Arith(r, bin, n, over, zero, c), bin)
    BY <2>2, SumFields
  <2> QED
    BY <2>1, <2>3 DEF bin
<1> QED
  BY <1>1, <1>2

(* Subtraction.                                                             *)
LEMMA SubtractionFields ==
    ASSUME NEW r, Sound(r), NEW v \in Byte
    PROVE  /\ SumOf(r, SBC_6502(r, v), (r.AC - v - Borrow(r)) % 256)
           /\ CmosSumOf(r, SBC_65C02(r, v), (r.AC - v - Borrow(r)) % 256)
<1> DEFINE diff == r.AC - v - Borrow(r)
           bin  == diff % 256
           zero == bin = 0
           n    == Negative(bin)
           low  == LowNibble(r.AC) - LowNibble(v) - Borrow(r)
           high == r.AC \div 16 - v \div 16 - (IF low < 0 THEN 1 ELSE 0)
           c    == high >= 0
<1>1. CASE DF \in r.SR
  <2> DEFINE over == SubOverflow(r.AC, v, n)
             digit(x) == IF x < 0 THEN (x + 10) % 16 ELSE x
             ac == 16 * digit(high) + digit(low)
             lowFixed == IF low < 0 THEN low + 10 ELSE low
             highFixed == (IF high < 0 THEN high + 10 ELSE high) - (IF lowFixed < 0 THEN 1 ELSE 0)
             cmos == 16 * LowNibble(highFixed) + LowNibble(lowFixed)
             none == cmos = 0
             minus == Negative(cmos)
             half == SubOverflow(r.AC, v, (high \div 8) % 2 = 1)
  <2>1. SBC_6502(r, v) = Arith(r, ac, n, over, zero, c)
    BY <1>1 DEF SBC_6502, SBC_DECIMAL_MODE_6502, Wrap8
  <2>2. SBC_65C02(r, v) = Arith(r, cmos, minus, half, none, c)
    BY <1>1 DEF SBC_65C02, SBC_DECIMAL_MODE_65C02
  <2>3. (zero <=> bin = 0) /\ (none <=> cmos = 0)
    OBVIOUS
  <2> HIDE DEF bin, ac, over, zero, none, minus, half, cmos, c, n
  <2>4. SumOf(r, Arith(r, ac, n, over, zero, c), bin)
    BY <1>1, <2>3, SumFields
  <2>5. CmosSumOf(r, Arith(r, cmos, minus, half, none, c), bin)
    BY <1>1, <2>3, SumFields
  <2> QED
    BY <2>1, <2>2, <2>4, <2>5 DEF bin
<1>2. CASE DF \notin r.SR
  <2> DEFINE over == SubOverflow(r.AC, v, n)
             b == diff >= 0
  <2>1. SBC_6502(r, v) = Arith(r, bin, n, over, zero, b) /\ SBC_65C02(r, v) = Arith(r, bin, n, over, zero, b)
    BY <1>2 DEF SBC_6502, SBC_65C02, SBC_BINARY_MODE, Wrap8
  <2>2. zero <=> bin = 0
    OBVIOUS
  <2> HIDE DEF bin, over, zero, b, n
  <2>3. SumOf(r, Arith(r, bin, n, over, zero, b), bin) /\ CmosSumOf(r, Arith(r, bin, n, over, zero, b), bin)
    BY <2>2, SumFields
  <2> QED
    BY <2>1, <2>3 DEF bin
<1> QED
  BY <1>1, <1>2

(* The operations that read leave alone the registers they are not about.   *)
LEMMA AluSpares ==
    ASSUME NEW op \in AluOps, NEW r, Sound(r), NEW v \in Byte
    PROVE  Spares(op, r, ALU(op, r, v))
<1> USE DEF OpsOnXR, OpsOnYR, OpsOnSP, OpsOnAC, Pushes, Pulls
<1>1. \A a, b : And(a, b) \in Byte /\ Or(a, b) \in Byte /\ Xor(a, b) \in Byte
  BY BitwiseType
<1>2. CASE op \in {"ORA", "AND", "EOR", "LDA", "ANE"}
  <2>1. \A w \in Byte : LoadAC(r, w).XR = r.XR /\ LoadAC(r, w).YR = r.YR /\ LoadAC(r, w).SP = r.SP
    BY LoadReads
  <2> QED
    BY <1>1, <1>2, <2>1 DEF ALU, Spares
<1>3. CASE op \in {"LDX", "LDY"}
  BY <1>3, LoadReads DEF ALU, Spares
<1>4. CASE op \in {"LAX", "LXA"}
  <2>1. \A w \in Byte : LAX(r, w).YR = r.YR /\ LAX(r, w).SP = r.SP
    BY LoadReads
  <2> QED
    BY <1>1, <1>4, <2>1 DEF ALU, Spares
<1>5. CASE op = "LAS"
  <2>1. Sound(LAX(r, And(r.SP, v))) /\ LAX(r, And(r.SP, v)).YR = r.YR
    BY <1>1, LoadedSound, LoadReads
  <2>2. LAS(r, v).YR = r.YR
    BY <2>1, OtherFields DEF LAS
  <2> QED
    BY <1>5, <2>2 DEF ALU, Spares
<1>6. CASE op \in {"ADC_6502", "ADC_65C02", "SBC_6502", "SBC_65C02"}
  BY <1>6, AdditionFields, SubtractionFields DEF ALU, Spares, SumOf, CmosSumOf
<1>7. CASE op \in {"CMP", "CPX", "CPY"}
  BY <1>7, OtherFields DEF ALU, Spares, COMPARE
<1>8. CASE op \in {"BIT", "BITIMM"}
  <2>1. Sound(BITIMM(r, v))
    BY BitSound
  <2>2. Spares(op, r, BITIMM(r, v))
    BY OtherFields DEF Spares, BITIMM
  <2>3. Spares(op, BITIMM(r, v), BIT(r, v))
    BY <2>1, OtherFields DEF Spares, BIT
  <2> QED
    BY <1>8, <2>2, <2>3 DEF ALU, Spares
<1>9. CASE op = "ANC"
  <2> DEFINE q == LoadAC(r, And(r.AC, v))
  <2>1. Sound(q) /\ q.XR = r.XR /\ q.YR = r.YR /\ q.SP = r.SP
    BY <1>1, LoadSound, LoadReads
  <2>2. ALU(op, r, v) = [q EXCEPT !.SR = SetFlags(@, {CF}, When(CF, Negative(And(r.AC, v))))]
    BY <1>9 DEF ALU, ANC
  <2> HIDE DEF q
  <2> QED
    BY <1>9, <2>1, <2>2 DEF Spares, Sound, IsRegs
<1>10. CASE op = "ASR"
  <2> DEFINE q == LSR(r, And(r.AC, v)).regs
  <2>1. Sound(q)
    BY <1>1, SimpleRmwSound DEF SoundEffect
  <2>2. q.XR = r.XR /\ q.YR = r.YR /\ q.SP = r.SP
    BY OtherFields DEF LSR, Shifted
  <2>3. ALU(op, r, v) = [q EXCEPT !.AC = LSR(r, And(r.AC, v)).val]
    BY <1>10 DEF ALU, ASR
  <2> HIDE DEF q
  <2> QED
    BY <1>10, <2>1, <2>2, <2>3 DEF Spares, Sound, IsRegs
<1>11. CASE op = "ARR"
  <2> DEFINE tmp  == And(r.AC, v)
             rot  == tmp \div 2 + 128 * Carry(r)
             low  == IF LowNibble(tmp) + (tmp % 2) > 5 THEN (rot + 6) % 16 ELSE rot % 16
             over == 16 * (tmp \div 16) + 16 * ((tmp \div 16) % 2) > 80
             high == IF over THEN (rot \div 16 + 6) % 16 ELSE rot \div 16
             b    == Bits(rot)
             zero == rot = 0
             set  == Carry(r) = 1
             n    == Negative(rot)
             o    == (6 \in b) # (6 \in Bits(tmp))
             p    == (6 \in b) # (5 \in b)
             c    == 6 \in b
             ac   == 16 * high + low
  <2>1. ALU(op, r, v) = IF DF \in r.SR THEN Arith(r, ac, set, o, zero, over)
                        ELSE Arith(r, rot, n, p, zero, c)
    BY <1>11 DEF ALU, ARR
  <2> HIDE DEF rot, over, zero, set, n, o, p, c, ac
  <2> QED
    BY <1>11, <2>1, ArithFields DEF Spares
<1>12. CASE op = "SBX"
  BY <1>12 DEF ALU, Spares, SBX, Sound, IsRegs
<1>13. CASE op = "NOP"
  BY <1>13 DEF ALU, Spares
<1> QED
  BY <1>2, <1>3, <1>4, <1>5, <1>6, <1>7, <1>8, <1>9, <1>10, <1>11, <1>12, <1>13 DEF AluOps

(* So do those that modify.                                                 *)
LEMMA RmwSpares ==
    ASSUME NEW op \in RmwOps, NEW r, Sound(r), NEW v \in Byte
    PROVE  Spares(op, r, RMW(op, r, v).regs)
<1> USE DEF OpsOnXR, OpsOnYR, OpsOnSP, OpsOnAC, Pushes, Pulls
<1>1. \A a, b : And(a, b) \in Byte /\ Or(a, b) \in Byte /\ Xor(a, b) \in Byte
  BY BitwiseType
<1>2. \A x : Spares("ASL", r, [r EXCEPT !.SR = x])
  BY OtherFields DEF Spares
<1>3. CASE op \in {"ASL", "LSR", "ROL", "ROR", "INC", "DEC"}
  BY <1>3, OtherFields
     DEF RMW, Spares, ASL, LSR, ROL, ROR, INC, DEC, Shifted, Stepped
<1>4. CASE op \in {"TSB", "TRB"}
  BY <1>4, OtherFields DEF RMW, Spares, TSB, TRB, BITIMM
<1>5. CASE op \in {"SLO", "RLA", "SRE"}
  <2>1. ASSUME NEW s, NEW c, NEW w \in Byte, Sound(Shifted(r, s, c).regs)
        PROVE  LET q == LoadAC(Shifted(r, s, c).regs, w)
               IN  q.XR = r.XR /\ q.YR = r.YR /\ q.SP = r.SP
    <3> DEFINE k == Shifted(r, s, c).regs
    <3>1. k.XR = r.XR /\ k.YR = r.YR /\ k.SP = r.SP
      BY DEF Shifted, Sound, IsRegs
    <3> HIDE DEF k
    <3>2. LoadAC(k, w).XR = k.XR /\ LoadAC(k, w).YR = k.YR /\ LoadAC(k, w).SP = k.SP
      BY <2>1, LoadReads DEF k
    <3> QED
      BY <3>1, <3>2 DEF k
  <2>2. Sound(ASL(r, v).regs) /\ Sound(ROL(r, v).regs) /\ Sound(LSR(r, v).regs)
    BY SimpleRmwSound DEF SoundEffect
  <2>3. /\ SLO(r, v).regs = LoadAC(ASL(r, v).regs, Or(r.AC, ASL(r, v).val))
        /\ RLA(r, v).regs = LoadAC(ROL(r, v).regs, And(r.AC, ROL(r, v).val))
        /\ SRE(r, v).regs = LoadAC(LSR(r, v).regs, Xor(r.AC, LSR(r, v).val))
    BY DEF SLO, RLA, SRE, ASL, ROL, LSR, Shifted
  <2>4. \A q \in {SLO(r, v).regs, RLA(r, v).regs, SRE(r, v).regs} :
           q.XR = r.XR /\ q.YR = r.YR /\ q.SP = r.SP
    BY <1>1, <2>1, <2>2, <2>3 DEF ASL, ROL, LSR
  <2> QED
    BY <1>5, <2>4 DEF RMW, Spares
<1>6. CASE op = "RRA"
  <2> DEFINE s == v \div 2 + 128 * Carry(r)
             q == [r EXCEPT !.SR = SetFlags(@, {CF}, When(CF, v % 2 = 1))]
  <2>1. s \in Byte
    BY RotatedType
  <2>2. Sound(q)
    <3>1. BF \notin {CF} /\ UF \notin {CF} /\ CF \in 0..7
      BY SMT DEF CF, BF, UF
    <3> QED
      BY <3>1, WhenType, FieldTypes, SetFlagsSound, ReplaceSR
  <2>3. q.XR = r.XR /\ q.YR = r.YR /\ q.SP = r.SP
    BY OtherFields
  <2>4. RMW(op, r, v).regs = ADC_6502(q, s)
    BY <1>6 DEF RMW, RRA
  <2> HIDE DEF q, s
  <2>5. ADC_6502(q, s).XR = q.XR /\ ADC_6502(q, s).YR = q.YR /\ ADC_6502(q, s).SP = q.SP
    BY <2>1, <2>2, AdditionFields DEF SumOf
  <2> QED
    BY <1>6, <2>3, <2>4, <2>5 DEF Spares
<1>7. CASE op = "DCP"
  BY <1>7 DEF RMW, Spares, DCP, COMPARE, Sound, IsRegs
<1>8. CASE op = "ISC"
  <2>1. Wrap8(v + 1) \in Byte
    BY ByteIsInt, WrapType, SMT
  <2> QED
    BY <1>8, <2>1, SubtractionFields DEF RMW, Spares, ISC, SumOf
<1> QED
  BY <1>3, <1>4, <1>5, <1>6, <1>7, <1>8 DEF RmwOps

(* And the implied ones.                                                    *)
LEMMA ImpliedSpares ==
    ASSUME NEW op \in ImpliedOps, NEW r, Sound(r)
    PROVE  Spares(op, r, ImpliedRegs(op, r))
<1> USE DEF OpsOnXR, OpsOnYR, OpsOnSP, OpsOnAC, Pushes, Pulls
<1>1. CASE op \in {"CLC", "SEC", "CLI", "SEI", "CLV", "CLD", "SED", "NOP", "TXS"}
  BY <1>1, OtherFields DEF ImpliedRegs, Spares
<1>2. CASE op \in {"TAX", "TAY", "TXA", "TYA", "TSX"}
  <2>1. r.AC \in Byte /\ r.XR \in Byte /\ r.YR \in Byte /\ r.SP \in Byte
    BY FieldTypes
  <2> QED
    BY <1>2, <2>1, LoadReads DEF ImpliedRegs, Spares
<1>3. CASE op \in {"INX", "INY", "DEX", "DEY"}
  BY <1>3 DEF ImpliedRegs, Spares, INC, DEC, Stepped, Sound, IsRegs
<1> QED
  BY <1>1, <1>2, <1>3 DEF ImpliedOps

-----------------------------------------------------------------------------
(* What a handler leaves in registers and memory                            *)

(* The operand is where the fields of the opcode say it is.                 *)
LEMMA OperandAt ==
    ASSUME IInv, Insn.mode \in Reaching(Opcode)
    PROVE  OperandAddress = IF Insn.mode = "IMM" THEN Regs.PC + 1 ELSE ADR(Insn.mode)
<1> DEFINE mode == Insn.mode
           y == bbb \in {4, 6} \/ (cc >= 2 /\ aaa \in {4, 5})
<1>1. Shape(Opcode) = bbb /\ Group(Opcode) = cc /\ Operation(Opcode) = aaa
  BY DEF Shape, Group, Operation, bbb, cc, aaa
<1>2. UsesYR(Opcode) = y /\ Index = IF y THEN Regs.YR ELSE Regs.XR
  BY <1>1 DEF UsesYR, Index
<1>3. bbb \in 0..7 /\ (Opcode % 32 = 18 => bbb = 4) /\ (bbb = 4 => y)
  BY InsnDecoded, SMT DEF Byte, bbb
<1> HIDE DEF y, mode
<1>4. CASE Opcode % 32 = 18
  <2>1. mode = "ZPIND" /\ OperandAddress = MemReadZPWord(Mem, OperandByte)
    BY <1>3, <1>4 DEF Reaching, mode, OperandAddress, IndexBase, Shape, bbb
  <2> QED
    BY <2>1 DEF ADR, mode
<1>5. CASE Opcode % 32 # 18 /\ bbb \in {0, 1, 2, 3}
  <2>1. mode = CASE bbb = 0 -> IF cc \in {0, 2} THEN "IMM" ELSE "ZPXIND"
                 [] bbb = 1 -> "ZP"
                 [] bbb = 2 -> "IMM"
                 [] OTHER -> "ABS"
    BY <1>1, <1>5 DEF Reaching, mode
  <2>2. OperandAddress = CASE bbb = 0 -> IF cc \in {0, 2} THEN Regs.PC + 1
                                         ELSE MemReadZPWord(Mem, OperandByte + Regs.XR)
                           [] bbb = 1 -> OperandByte
                           [] bbb = 2 -> Regs.PC + 1
                           [] OTHER -> OperandWord
    BY <1>5 DEF OperandAddress
  <2> QED
    BY <1>5, <2>1, <2>2 DEF ADR, mode
<1>6. CASE bbb = 5
  <2>1. mode = IF y THEN "ZPY" ELSE "ZPX"
    BY <1>1, <1>2, <1>3, <1>6 DEF Reaching, mode
  <2>2. OperandAddress = Wrap8(OperandByte + Index)
    BY <1>3, <1>6 DEF OperandAddress
  <2> QED
    BY <1>2, <2>1, <2>2 DEF ADR, mode
<1>7. CASE Opcode % 32 # 18 /\ bbb \in {4, 6, 7}
  <2>1. mode \in IF bbb = 4 THEN {"ZPINDY", "ZPINDY_NP"}
                 ELSE IF y THEN {"ABSY", "ABSY_NP"} ELSE {"ABSX", "ABSX_NP"}
    BY <1>1, <1>2, <1>7 DEF Reaching, mode
  <2>2. OperandAddress = Wrap16(IndexBase + Index)
    BY <1>7 DEF OperandAddress
  <2> QED
    BY <1>2, <1>3, <2>1, <2>2 DEF ADR, mode, IndexBase
<1> QED
  BY <1>3, <1>4, <1>5, <1>6, <1>7

(* An operation that reads.                                                 *)
LEMMA AluRuns ==
    ASSUME IInv, Handler, Insn.op \in AluOps \ {"NOP"}, Insn.mode \in Reaching(Opcode)
    PROVE  /\ Operand \in Byte
           /\ Agree(Regs', ALU(Insn.op, Regs, Operand))
           /\ Mem' = Mem
<1> DEFINE v == IF Insn.mode = "IMM" THEN OperandByte ELSE MemReadByte(Mem, ADR(Insn.mode))
<1>1. v = Operand
  BY OperandAt DEF Operand, OperandByte
<1>2. Operand \in Byte
  BY OperandTypes DEF Operand
<1>3. ALU_OP
  BY Executed
<1>4. Regs' = [ALU(Insn.op, Regs, v) EXCEPT !.PC = NextPC(Insn.mode)] /\ Mem' = Mem
  BY <1>3 DEF ALU_OP
<1>5. Sound(ALU(Insn.op, Regs, Operand))
  BY <1>2, StateFacts, ALUSound
<1> HIDE DEF v
<1> QED
  BY <1>1, <1>2, <1>4, <1>5, OtherFields

(* What is written at the operand's address can be read there.              *)
LEMMA StoredThere ==
    ASSUME IInv, NEW v \in Byte, Mem' = MemWriteByte(Mem, OperandAddress, v)
    PROVE  Stores(v)
<1>1. MemReadByte(Mem', OperandAddress) = Wrap8(v)
  BY ReadAfterWrite
<1>2. Wrap8(v) = v
  BY SMT DEF Wrap8, Byte
<1> QED
  BY <1>1, <1>2 DEF Stores

(* An operation that stores.                                                *)
LEMMA StoRuns ==
    ASSUME IInv, Handler, Insn.op \in {"STA", "STX", "STY", "STZ", "SAX"}, Insn.mode \in Reaching(Opcode)
    PROVE  /\ Agree(Regs', Regs)
           /\ Stores(Stored[Insn.op])
<1>1. STO_OP
  BY Executed
<1>2. Insn.mode # "IMM"
  BY <1>1 DEF STO_OP, STO_CY
<1>3. Mem' = MemWriteByte(Mem, OperandAddress, Stored[Insn.op])
  BY <1>1, <1>2, OperandAt DEF STO_OP
<1>4. Stored[Insn.op] \in Byte
  <2>1. 0 \in Byte
    BY SMT DEF Byte
  <2> QED
    BY <2>1, StateFacts, BitwiseType DEF Stored
<1>5. Agree(Regs', Regs)
  BY <1>1, StateFacts, OtherFields DEF STO_OP
<1> QED
  BY <1>3, <1>4, <1>5, StoredThere

(* An operation that modifies.                                              *)
LEMMA RmwRuns ==
    ASSUME IInv, Handler, Insn.op \in RmwOps, Insn.mode # "ACC", Insn.mode \in Reaching(Opcode)
    PROVE  /\ Operand \in Byte
           /\ Agree(Regs', RMW(Insn.op, Regs, Operand).regs)
           /\ Stores(RMW(Insn.op, Regs, Operand).val)
<1> DEFINE e == RMW(Insn.op, Regs, Operand)
<1>1. MEM_OP
  BY Executed
<1>2. Insn.mode # "IMM"
  BY <1>1 DEF MEM_OP, RMW_CY
<1>3. Operand = MemReadByte(Mem, ADR(Insn.mode)) /\ Operand \in Byte
  BY <1>2, OperandAt, OperandTypes DEF Operand
<1>4. /\ Regs' = [e.regs EXCEPT !.PC = NextPC(Insn.mode)]
      /\ Mem' = MemWriteByte(Mem, OperandAddress, e.val)
  BY <1>1, <1>2, <1>3, OperandAt DEF MEM_OP
<1>5. Sound(e.regs) /\ e.val \in Byte
  BY <1>3, StateFacts, RMWSound DEF SoundEffect
<1> HIDE DEF e
<1>6. Agree(Regs', e.regs)
  BY <1>4, <1>5, OtherFields
<1> QED
  BY <1>3, <1>4, <1>5, <1>6, StoredThere DEF e

-----------------------------------------------------------------------------
(* What an instruction computes                                             *)

(* The fields of the opcode.                                                *)
LEMMA FieldsOfOpcode ==
    ASSUME IInv
    PROVE  /\ Shape(Opcode) = bbb /\ Group(Opcode) = cc /\ Operation(Opcode) = aaa
           /\ aaa \in 0..7 /\ bbb \in 0..7 /\ cc \in 0..3
<1>1. Opcode \in Byte
  BY InsnDecoded
<1>2. aaa \in 0..7 /\ bbb \in 0..7 /\ cc \in 0..3
  BY <1>1, SMT DEF Byte, aaa, bbb, cc
<1> QED
  BY <1>2 DEF Shape, Group, Operation, bbb, cc, aaa

(* A handler leaves alone the registers its operation is not about; in the  *)
(* accumulator's mode that register changes as well.                        *)
LEMMA HandlerSpares ==
    ASSUME IInv, Handler
    PROVE  /\ Insn.op \notin OpsOnXR => Keeps("XR")
           /\ Insn.op \notin OpsOnYR => Keeps("YR")
           /\ Insn.op \notin OpsOnSP => Keeps("SP")
           /\ Insn.op \notin OpsOnAC /\ Insn.mode # "ACC" => Keeps("AC")
<1> DEFINE Spared(q) == Spares(Insn.op, Regs, q)
<1>1. \A q : Sound(q) => \A w : Agree([q EXCEPT !.PC = w], q)
  BY OtherFields
<1>2. \A q, s : Agree(q, s) /\ Spared(s) => Spared(q)
  BY DEF Agree, Spares
<1>3. Sound(Regs) /\ Spared(Regs)
  BY StateFacts DEF Spares
<1>4. \A v \in Byte : Insn.op \in RmwOps =>
         Sound(RMW(Insn.op, Regs, v).regs) /\ Spared(RMW(Insn.op, Regs, v).regs)
  BY <1>3, RMWSound, RmwSpares DEF SoundEffect
<1>5. ASSUME ALU_OP PROVE Spared(Regs')
  <2> DEFINE v == IF Insn.mode = "IMM" THEN OperandByte ELSE MemReadByte(Mem, ADR(Insn.mode))
             q == ALU(Insn.op, Regs, v)
  <2>1. Insn.op \in AluOps /\ Regs' = [q EXCEPT !.PC = NextPC(Insn.mode)]
    BY <1>5 DEF ALU_OP
  <2>2. v \in Byte
    BY OperandTypes
  <2> HIDE DEF v
  <2>3. Sound(q) /\ Spared(q)
    BY <1>3, <2>1, <2>2, ALUSound, AluSpares
  <2> HIDE DEF q, Spared
  <2> QED
    BY <1>1, <1>2, <2>1, <2>3
<1>6. ASSUME MEM_OP PROVE Spared(Regs')
  <2> DEFINE v == MemReadByte(Mem, ADR(Insn.mode))
             q == RMW(Insn.op, Regs, v).regs
  <2>1. Insn.op \in RmwOps /\ Regs' = [q EXCEPT !.PC = NextPC(Insn.mode)]
    BY <1>6 DEF MEM_OP
  <2>2. v \in Byte
    BY OperandTypes
  <2> HIDE DEF v, Spared
  <2>3. Sound(q) /\ Spared(q)
    BY <1>4, <2>1, <2>2
  <2> HIDE DEF q
  <2> QED
    BY <1>1, <1>2, <2>1, <2>3
<1>7. ASSUME Accumulator
      PROVE  Regs'.XR = Regs.XR /\ Regs'.YR = Regs.YR /\ Regs'.SP = Regs.SP /\ Insn.mode = "ACC"
  <2> DEFINE e == RMW(Insn.op, Regs, Regs.AC)
  <2>1. /\ Insn.op \in RmwOps /\ Insn.mode = "ACC"
        /\ Regs' = [[e.regs EXCEPT !.AC = e.val] EXCEPT !.PC = Wrap16(Regs.PC + 1)]
    BY <1>7 DEF Accumulator, Advance
  <2>2. Sound(e.regs) /\ Spared(e.regs)
    BY <1>4, <2>1, StateFacts
  <2>3. Spared(e.regs) => e.regs.XR = Regs.XR /\ e.regs.YR = Regs.YR /\ e.regs.SP = Regs.SP
    BY <2>1 DEF RmwOps, Spares, OpsOnXR, OpsOnYR, OpsOnSP, Pushes, Pulls
  <2>4. e.val \in Byte
    BY <2>1, StateFacts, RMWSound DEF SoundEffect
  <2> HIDE DEF e, Spared
  <2> QED
    BY <2>1, <2>2, <2>3 DEF Sound, IsRegs
<1>8. ASSUME Implied PROVE Spared(Regs')
  <2> DEFINE q == ImpliedRegs(Insn.op, Regs)
  <2>1. Insn.op \in ImpliedOps /\ Regs' = [q EXCEPT !.PC = Wrap16(Regs.PC + 1)]
    BY <1>8 DEF Implied, Advance
  <2>2. Sound(q) /\ Spared(q)
    BY <1>3, <2>1, ImpliedRegsSound, ImpliedSpares
  <2> HIDE DEF q, Spared
  <2> QED
    BY <1>1, <1>2, <2>1, <2>2
<1>9. ASSUME STO_OP \/ ZP_BITOP \/ FillerNop \/ BRANCH \/ ZP_BIT_BRANCH \/ JMP_abs \/ JMP_ind
               \/ JMP_ind_65C02 \/ OPC_Illegal
      PROVE  Spared(Regs')
  <2>1. (\E w : Regs' = [Regs EXCEPT !.PC = w]) \/ Regs' = Regs
    BY <1>9 DEF STO_OP, ZP_BITOP, FillerNop, Advance, BRANCH, ZP_BIT_BRANCH, JMP_abs, JMP_ind,
                JMP_ind_65C02, OPC_Illegal
  <2> HIDE DEF Spared
  <2> QED
    BY <1>1, <1>2, <1>3, <2>1
<1>10. ASSUME UnstableStore \/ PushRegister \/ BRK \/ JSR \/ RTI \/ RTS
       PROVE  /\ Regs'.XR = Regs.XR /\ Regs'.YR = Regs.YR /\ Regs'.AC = Regs.AC
              /\ Insn.op \notin OpsOnSP => Regs'.SP = Regs.SP
  <2>1. CASE UnstableStore
    <3>1. \E w : Regs' = [Regs EXCEPT !.PC = w,
                                      !.SP = IF Insn.op = "TAS" THEN And(Regs.AC, Regs.XR) ELSE @]
      BY <2>1 DEF UnstableStore
    <3> QED
      BY <1>3, <3>1 DEF Sound, IsRegs, OpsOnSP
  <2>2. CASE PushRegister \/ JSR \/ RTS
    <3>1. \E w, sp : Regs' = [Regs EXCEPT !.SP = sp, !.PC = w] \/ Regs' = [Regs EXCEPT !.PC = w, !.SP = sp]
      BY <2>2 DEF PushRegister, JSR, RTS
    <3>2. Insn.op \in OpsOnSP
      BY <2>2 DEF PushRegister, Pushed, JSR, RTS, OpsOnSP, Pushes
    <3> QED
      BY <1>3, <3>1, <3>2 DEF Sound, IsRegs
  <2>3. CASE BRK
    <3> DEFINE sp == Wrap8(Regs.SP - 3)
               sr == (Regs.SR \cup {IFlag}) \ When(DF, CPU = "CPU_65C02")
               w == MemReadWord(Mem', IRQVector)
    <3>1. Regs' = [Regs EXCEPT !.SP = sp, !.SR = sr, !.PC = w] /\ Insn.op \in OpsOnSP
      BY <2>3 DEF BRK, EnterInterrupt, OpsOnSP
    <3> HIDE DEF sp, sr, w
    <3> QED
      BY <1>3, <3>1 DEF Sound, IsRegs
  <2>4. CASE RTI
    <3> DEFINE sp == Wrap8(Regs.SP + 3)
               sr == Bits(POP(1)) \cup AlwaysOne
               w == ToWord(POP(2), POP(3))
    <3>1. Regs' = [Regs EXCEPT !.SR = sr, !.PC = w, !.SP = sp] /\ Insn.op \in OpsOnSP
      BY <2>4 DEF RTI, OpsOnSP
    <3> HIDE DEF sp, sr, w
    <3> QED
      BY <1>3, <3>1 DEF Sound, IsRegs
  <2> QED
    BY <1>10, <2>1, <2>2, <2>3, <2>4
<1>11. ASSUME PullRegister PROVE Spared(Regs')
  <2> DEFINE q == PulledRegs(Insn.op, Regs, POP(1))
  <2>1. /\ Insn.op \in {"PLA", "PLX", "PLY", "PLP"}
        /\ Regs' = [[q EXCEPT !.SP = Wrap8(@ + 1)] EXCEPT !.PC = Wrap16(Regs.PC + 1)]
    BY <1>11 DEF PullRegister, Advance
  <2>2. Sound(q) /\ Spared(q)
    <3>1. Sound(q)
      BY StateFacts, OperandTypes, LoadSound, ForcedBits, ReplaceSR DEF PulledRegs
    <3>2. POP(1) \in Byte
      BY OperandTypes
    <3>3. Spared(q)
      BY <1>3, <2>1, <3>2, LoadReads, OtherFields
         DEF PulledRegs, Spares, OpsOnXR, OpsOnYR, OpsOnSP, OpsOnAC, Pushes, Pulls
    <3> QED
      BY <3>1, <3>3
  <2>3. Insn.op \in OpsOnSP
    BY <2>1 DEF OpsOnSP, Pulls
  <2> HIDE DEF q
  <2> QED
    BY <2>1, <2>2, <2>3 DEF Sound, IsRegs, Spares
<1>12. Spared(Regs') \/ (/\ Regs'.XR = Regs.XR /\ Regs'.YR = Regs.YR
                         /\ Insn.op \notin OpsOnSP => Regs'.SP = Regs.SP
                         /\ Regs'.AC = Regs.AC \/ Insn.mode = "ACC")
  <2> HIDE DEF Spared
  <2> QED
    BY <1>5, <1>6, <1>7, <1>8, <1>9, <1>10, <1>11 DEF Handler
<1> QED
  BY <1>12 DEF Spares, Keeps

(* The registers change by the opcodes that are about them and no other.    *)
LEMMA InsnUntouched ==
    ASSUME IInv, Executes
    PROVE  Untouched
<1>1. Handler
  BY ExecutesHandler
<1>2. CASE Opcode \in sim65_supported_opcodes[CPU]
  <2>1. Touches(Opcode, Insn)
    BY <1>2, InsnSlot DEF Decoded
  <2>2. /\ Opcode \in CodesOnXR => AboutXR
        /\ Opcode \in CodesOnYR => AboutYR
        /\ Opcode \in CodesOnSP => AboutSP
    BY DEF CodesOnXR, CodesOnYR, CodesOnSP, AboutXR, AboutYR, AboutSP, Nmosx, Cmos
  <2>3. CodesOnAC(Opcode) => AboutAC
    BY FieldsOfOpcode DEF CodesOnAC, AboutAC, Cmos
  <2> QED
    BY <1>1, <2>1, <2>2, <2>3, HandlerSpares DEF Touches, Untouched
<1>3. CASE Opcode \notin sim65_supported_opcodes[CPU]
  <2>1. OPC_Illegal
    BY <1>1, <1>3, InsnSlot, Executed
  <2> QED
    BY <2>1 DEF OPC_Illegal, Untouched, Keeps
<1> QED
  BY <1>2, <1>3

(* A sum in the register file is one in the registers.                      *)
LEMMA SumsFrom ==
    ASSUME NEW q, NEW b, Agree(Regs', q),
           IF CPU = "CPU_65C02" THEN CmosSumOf(Regs, q, b) ELSE SumOf(Regs, q, b)
    PROVE  Sums(b)
  BY DEF Agree, CmosSumOf, SumOf, Sums

(* A comparison in the register file is one in the registers.               *)
LEMMA ComparesFrom ==
    ASSUME IInv, NEW a, NEW v, Agree(Regs', COMPARE(Regs, a, v))
    PROVE  /\ Keeps("AC") /\ Keeps("XR") /\ Keeps("YR")
           /\ CF \in Regs'.SR <=> a >= v
<1> DEFINE c == COMPARE(Regs, a, v)
<1>1. c = [Regs EXCEPT !.SR = c.SR] /\ (CF \in c.SR <=> a >= v)
  BY StateFacts, CompareReads
<1>2. c.AC = Regs.AC /\ c.XR = Regs.XR /\ c.YR = Regs.YR
  <2> HIDE DEF c
  <2> QED
    BY <1>1, StateFacts DEF Sound, IsRegs
<1> HIDE DEF c
<1>3. Agree(Regs', c)
  BY DEF c
<1> QED
  BY <1>1, <1>2, <1>3 DEF Agree, Keeps

(* What the 65C02 and the NMOS parts make of group one.                     *)
LEMMA GroupOneHolds ==
    ASSUME IInv, Handler, Insn.op = GroupOneOp(Opcode), Insn.mode \in Reaching(Opcode)
    PROVE  /\ GroupOne(Operand, CarryIn)
           /\ aaa # 4 => Mem' = Mem
           /\ aaa \in {0, 1, 2, 4, 5} => KeepsCarry
<1>1. aaa \in 0..7 /\ Operation(Opcode) = aaa
  BY FieldsOfOpcode
<1>2. CASE aaa = 4
  <2>1. Insn.op = "STA"
    BY <1>1, <1>2 DEF GroupOneOp
  <2>2. Agree(Regs', Regs) /\ Stores(Regs.AC)
    BY <2>1, StoRuns DEF Stored
  <2> QED
    BY <1>2, <2>2 DEF GroupOne, KeepsCarry, Keeps, Agree
<1>3. CASE aaa # 4
  <2>1. aaa \in {0, 1, 2, 3, 5, 6, 7}
    BY <1>1, <1>3, SMT
  <2>2. Insn.op \in AluOps \ {"NOP"}
    BY <1>1, <2>1 DEF GroupOneOp, AluOps
  <2> DEFINE v == Operand
             q == ALU(Insn.op, Regs, v)
  <2>3. v \in Byte /\ Agree(Regs', q) /\ Mem' = Mem
    BY <2>2, AluRuns
  <2> HIDE DEF v
  <2>4. ASSUME aaa \in {0, 1, 2, 5}
        PROVE  GroupOne(v, CarryIn) /\ KeepsCarry
    <3> DEFINE w == IF aaa = 0 THEN Or(Regs.AC, v) ELSE IF aaa = 1 THEN And(Regs.AC, v)
                    ELSE IF aaa = 2 THEN Xor(Regs.AC, v) ELSE v
    <3>1. q = LoadAC(Regs, w)
      BY <1>1, <2>4 DEF GroupOneOp, ALU
    <3>2. w \in Byte
      BY <2>3, BitwiseType
    <3> HIDE DEF w, q
    <3>3. q.AC = w /\ q.SR = SetNZ(Regs.SR, w)
      BY <3>1, <3>2, StateFacts, LoadReads
    <3>4. Regs'.AC = w /\ KeepsCarry
      BY <2>3, <3>3, FlagsKept DEF Agree, KeepsCarry
    <3> QED
      BY <2>4, <3>4 DEF w, GroupOne
  <2>5. ASSUME aaa = 6
        PROVE  GroupOne(v, CarryIn)
    <3>1. q = COMPARE(Regs, Regs.AC, v)
      BY <1>1, <2>5 DEF GroupOneOp, ALU
    <3> HIDE DEF q
    <3>2. Keeps("AC") /\ (CF \in Regs'.SR <=> Regs.AC >= v)
      BY <2>3, <3>1, ComparesFrom
    <3> QED
      BY <2>5, <3>2 DEF GroupOne, Compares
  <2>6. ASSUME aaa = 3
        PROVE  GroupOne(v, CarryIn)
    <3>1. q = IF CPU = "CPU_65C02" THEN ADC_65C02(Regs, v) ELSE ADC_6502(Regs, v)
      BY <1>1, <2>6 DEF GroupOneOp, ALU
    <3> HIDE DEF q
    <3>2. IF CPU = "CPU_65C02" THEN CmosSumOf(Regs, q, (Regs.AC + v + Carry(Regs)) % 256)
          ELSE SumOf(Regs, q, (Regs.AC + v + Carry(Regs)) % 256)
      BY <2>3, <3>1, StateFacts, AdditionFields
    <3>3. Sums((Regs.AC + v + Carry(Regs)) % 256)
      BY <2>3, <3>2, SumsFrom
    <3> QED
      BY <2>6, <3>3 DEF GroupOne, CarryIn
  <2>7. ASSUME aaa = 7
        PROVE  GroupOne(v, CarryIn)
    <3>1. q = IF CPU = "CPU_65C02" THEN SBC_65C02(Regs, v) ELSE SBC_6502(Regs, v)
      BY <1>1, <2>7 DEF GroupOneOp, ALU
    <3> HIDE DEF q
    <3>2. IF CPU = "CPU_65C02" THEN CmosSumOf(Regs, q, (Regs.AC - v - Borrow(Regs)) % 256)
          ELSE SumOf(Regs, q, (Regs.AC - v - Borrow(Regs)) % 256)
      BY <2>3, <3>1, StateFacts, SubtractionFields
    <3>3. Sums((Regs.AC - v - Borrow(Regs)) % 256)
      BY <2>3, <3>2, SumsFrom
    <3> QED
      BY <2>7, <3>3 DEF GroupOne, CarryIn, Borrow
  <2> QED
    BY <2>1, <2>3, <2>4, <2>5, <2>6, <2>7 DEF v
<1> QED
  BY <1>2, <1>3

(* What the shifts, the steps and the combined operations write.            *)
LEMMA ShiftValues ==
    ASSUME IInv, NEW v, aaa \notin {4, 5}
    PROVE  /\ RMW(ShiftOp(Opcode), Regs, v).val = Shift(v)
           /\ RMW(CombinedOp(Opcode), Regs, v).val = Shift(v)
           /\ ShiftOp(Opcode) \in RmwOps /\ CombinedOp(Opcode) \in RmwOps
<1>1. aaa \in 0..7 /\ Operation(Opcode) = aaa
  BY FieldsOfOpcode
<1>2. aaa \in {0, 1, 2, 3, 6, 7}
  BY <1>1, SMT
<1>3. RMW(ShiftOp(Opcode), Regs, v).val = Shift(v)
  BY <1>1, <1>2 DEF ShiftOp, RMW, Shift, CarryIn, ASL, ROL, LSR, ROR, DEC, INC, Shifted, Stepped, Wrap8
<1>4. RMW(CombinedOp(Opcode), Regs, v).val = Shift(v)
  BY <1>1, <1>2
     DEF CombinedOp, RMW, Shift, CarryIn, SLO, RLA, SRE, RRA, DCP, ISC, ASL, ROL, LSR, Shifted, Wrap8
<1> QED
  BY <1>1, <1>2, <1>3, <1>4 DEF ShiftOp, CombinedOp, RmwOps

(* A shift or a step in the accumulator.                                    *)
LEMMA AccRuns ==
    ASSUME IInv, Handler, Insn.op \in RmwOps, Insn.mode = "ACC"
    PROVE  Regs'.AC = RMW(Insn.op, Regs, Regs.AC).val
<1> DEFINE e == RMW(Insn.op, Regs, Regs.AC)
<1>1. Accumulator
  BY Executed
<1>2. Regs' = [[e.regs EXCEPT !.AC = e.val] EXCEPT !.PC = Wrap16(Regs.PC + 1)]
  BY <1>1 DEF Accumulator, Advance
<1>3. Sound(e.regs)
  BY StateFacts, RMWSound DEF SoundEffect
<1> HIDE DEF e
<1>4. Regs'.AC = e.val
  BY <1>2, <1>3 DEF Sound, IsRegs
<1> QED
  BY <1>4 DEF e

(* Reaching modes are not the accumulator's.                                *)
LEMMA ReachesMemory ==
    ASSUME NEW opc
    PROVE  "ACC" \notin Reaching(opc)
  BY DEF Reaching

(* The registers that LDX and LDY load.                                     *)
LEMMA LoadsIndex ==
    ASSUME IInv, Handler, Insn.op \in {"LDX", "LDY"}, Insn.mode \in Reaching(Opcode)
    PROVE  /\ Insn.op = "LDX" => Regs'.XR = Operand
           /\ Insn.op = "LDY" => Regs'.YR = Operand
           /\ KeepsCarry
<1>1. Operand \in Byte /\ Agree(Regs', ALU(Insn.op, Regs, Operand))
  BY AluRuns DEF AluOps
<1> DEFINE q == ALU(Insn.op, Regs, Operand)
           v == Operand
<1>2. /\ Insn.op = "LDX" => q.XR = v
      /\ Insn.op = "LDY" => q.YR = v
      /\ q.SR = SetNZ(Regs.SR, v)
  <2>1. q = IF Insn.op = "LDX" THEN [Regs EXCEPT !.XR = v, !.SR = SetNZ(@, v)]
            ELSE [Regs EXCEPT !.YR = v, !.SR = SetNZ(@, v)]
    BY DEF ALU
  <2> HIDE DEF q, v
  <2> QED
    BY <2>1, StateFacts DEF Sound, IsRegs
<1>3. Agree(Regs', q)
  BY <1>1
<1> HIDE DEF q
<1> QED
  BY <1>2, <1>3, FlagsKept DEF Agree, KeepsCarry

(* What the documented opcodes of the regular groups do.                    *)
LEMMA InsnRegular ==
    ASSUME IInv, Executes, Opcode \in Documented
    PROVE  Regular
<1>1. Handler
  BY ExecutesHandler
<1>2. DecodesGroups(Opcode, Insn) /\ NmosColumns(Opcode) /\ Opcode \in Byte
  BY InsnDecoded DEF Decoded
<1>3. /\ Shape(Opcode) = bbb /\ Group(Opcode) = cc /\ Operation(Opcode) = aaa
      /\ aaa \in 0..7 /\ bbb \in 0..7 /\ cc \in 0..3
  BY FieldsOfOpcode
<1>4. Opcode \notin {\h89, \h9E}
  BY <1>2, SMT DEF NmosColumns
<1>5. ASSUME cc = 1
      PROVE  /\ GroupOne(Operand, CarryIn)
             /\ aaa # 4 => Mem' = Mem
             /\ aaa \in {0, 1, 2, 4, 5} => KeepsCarry
  <2>1. Insn.op = GroupOneOp(Opcode) /\ Insn.mode \in Reaching(Opcode)
    BY <1>2, <1>3, <1>4, <1>5 DEF DecodesGroups, Operated
  <2> QED
    BY <1>1, <2>1, GroupOneHolds
<1>6. ASSUME cc = 2, bbb \in {1, 3, 5, 7}
      PROVE  Insn.op = ShiftOp(Opcode) /\ Insn.mode \in Reaching(Opcode)
  BY <1>2, <1>3, <1>4, <1>6 DEF DecodesGroups, Operated
<1>7. ASSUME cc = 2, bbb \in {1, 3, 5, 7}, aaa > 3
      PROVE  KeepsCarry
  <2>1. aaa \in {4, 5, 6, 7}
    BY <1>3, <1>7, SMT
  <2>2. CASE aaa = 4
    <3>1. Insn.op = "STX"
      BY <1>3, <1>6, <1>7, <2>2 DEF ShiftOp
    <3>2. Agree(Regs', Regs)
      BY <1>1, <1>6, <1>7, <3>1, StoRuns
    <3> QED
      BY <3>2 DEF Agree, KeepsCarry
  <2>3. CASE aaa = 5
    <3>1. Insn.op = "LDX"
      BY <1>3, <1>6, <1>7, <2>3 DEF ShiftOp
    <3> QED
      BY <1>1, <1>6, <1>7, <3>1, LoadsIndex
  <2>4. CASE aaa \in {6, 7}
    <3> DEFINE q == RMW(Insn.op, Regs, Operand).regs
    <3>1. Insn.op \in {"DEC", "INC"}
      BY <1>3, <1>6, <1>7, <2>4 DEF ShiftOp
    <3>2. Agree(Regs', q)
      BY <1>1, <1>6, <1>7, <3>1, RmwRuns, ReachesMemory DEF RmwOps
    <3>3. \E w : q = [Regs EXCEPT !.SR = SetNZ(@, w)]
      BY <3>1 DEF RMW, DEC, INC, Stepped
    <3> HIDE DEF q
    <3>4. \E w : q.SR = SetNZ(Regs.SR, w)
      BY <3>3, StateFacts, OtherFields
    <3> QED
      BY <3>2, <3>4, FlagsKept DEF Agree, KeepsCarry
  <2> QED
    BY <2>1, <2>2, <2>3, <2>4
<1>8. ASSUME cc = 2, bbb \in {1, 3, 5, 7}, aaa \notin {4, 5}
      PROVE  Stores(Shift(Operand))
  <2>1. Insn.op \in RmwOps /\ RMW(Insn.op, Regs, Operand).val = Shift(Operand)
    BY <1>6, <1>8, ShiftValues
  <2> QED
    BY <1>1, <1>6, <1>8, <2>1, RmwRuns, ReachesMemory
<1>9. ASSUME cc = 2, bbb = 2, aaa < 4
      PROVE  Regs'.AC = Shift(Regs.AC)
  <2>1. Opcode \in {\h0A, \h2A, \h4A, \h6A} /\ aaa \notin {4, 5}
    BY <1>2, <1>9, SMT DEF Byte, aaa, bbb, cc
  <2>2. Insn.op = ShiftOp(Opcode) /\ Insn.mode = "ACC"
    BY <1>2, <2>1 DEF DecodesGroups
  <2> QED
    BY <1>1, <2>1, <2>2, ShiftValues, AccRuns
<1>10. ASSUME Opcode \in {\hA2, \hA6, \hAE, \hB6, \hBE}
       PROVE  Regs'.XR = Operand
  <2>1. Opcode # \hA2 => Group(Opcode) = 2 /\ Shape(Opcode) \in {1, 3, 5, 7} /\ Operation(Opcode) = 5
    BY <1>10, SMT DEF Group, Shape, Operation
  <2>2. Insn.op = "LDX" /\ Insn.mode \in Reaching(Opcode)
    BY <1>2, <1>4, <1>10, <2>1 DEF DecodesGroups, Operated, ShiftOp
  <2> QED
    BY <1>1, <2>2, LoadsIndex
<1>11. ASSUME Opcode \in {\hA0, \hA4, \hAC, \hB4, \hBC}
       PROVE  Regs'.YR = Operand
  <2>1. Insn.op = "LDY" /\ Insn.mode \in Reaching(Opcode)
    BY <1>2, <1>11 DEF DecodesGroups, Operated
  <2> QED
    BY <1>1, <2>1, LoadsIndex
<1>12. ASSUME Opcode \in {\h86, \h8E, \h96}
       PROVE  Stores(Regs.XR)
  <2>1. Group(Opcode) = 2 /\ Shape(Opcode) \in {1, 3, 5, 7} /\ Operation(Opcode) = 4
    BY <1>12, SMT DEF Group, Shape, Operation
  <2>2. Insn.op = "STX" /\ Insn.mode \in Reaching(Opcode)
    BY <1>2, <1>4, <2>1 DEF DecodesGroups, Operated, ShiftOp
  <2> QED
    BY <1>1, <2>2, StoRuns DEF Stored
<1>13. ASSUME Opcode \in {\h84, \h8C, \h94}
       PROVE  Stores(Regs.YR)
  <2>1. Insn.op = "STY" /\ Insn.mode \in Reaching(Opcode)
    BY <1>2, <1>13 DEF DecodesGroups, Operated
  <2> QED
    BY <1>1, <2>1, StoRuns DEF Stored
<1>14. ASSUME Opcode \in {\hE0, \hE4, \hEC}
       PROVE  Compares("XR", Operand)
  <2>1. Insn.op = "CPX" /\ Insn.mode \in Reaching(Opcode)
    BY <1>2, <1>14 DEF DecodesGroups, Operated
  <2>2. Agree(Regs', COMPARE(Regs, Regs.XR, Operand))
    BY <1>1, <2>1, AluRuns DEF AluOps, ALU
  <2> QED
    BY <2>2, ComparesFrom DEF Compares
<1>15. ASSUME Opcode \in {\hC0, \hC4, \hCC}
       PROVE  Compares("YR", Operand)
  <2>1. Insn.op = "CPY" /\ Insn.mode \in Reaching(Opcode)
    BY <1>2, <1>15 DEF DecodesGroups, Operated
  <2>2. Agree(Regs', COMPARE(Regs, Regs.YR, Operand))
    BY <1>1, <2>1, AluRuns DEF AluOps, ALU
  <2> QED
    BY <2>2, ComparesFrom DEF Compares
<1> QED
  BY <1>5, <1>7, <1>8, <1>9, <1>10, <1>11, <1>12, <1>13, <1>14, <1>15 DEF Regular

(* The bits that BIT moves into the flags.                                  *)
LEMMA TopBits ==
    ASSUME NEW v \in Byte
    PROVE  /\ 7 \in Bits(v) <=> v >= 128
           /\ 6 \in Bits(v) <=> BitOf(v, 6) = 1
<1>1. 7 \in 0..7 /\ 6 \in 0..7
  BY SMT
<1>2. 7 \in Bits(v) <=> BitOf(v, 7) = 1
  BY <1>1, BitValues
<1>3. BitOf(v, 7) = (v \div 128) % 2
  <2>1. 2^7 = 128
    BY SMT
  <2> QED
    BY <2>1 DEF BitOf
<1>4. (v \div 128) % 2 = 1 <=> v >= 128
  BY SMT DEF Byte
<1> QED
  BY <1>1, <1>2, <1>3, <1>4, BitValues

(* Testing bits against an operand.                                         *)
LEMMA TestsBits ==
    ASSUME IInv, Handler, Insn.op \in {"BIT", "BITIMM"}, Insn.mode \in Reaching(Opcode)
    PROVE  /\ Keeps("AC")
           /\ ZF \in Regs'.SR <=> And(Regs.AC, Operand) = 0
           /\ Insn.op = "BIT" => Tests(Operand)
<1> DEFINE v == Operand
           z == And(v, Regs.AC) = 0
           s == SetFlags(Regs.SR, {ZF}, When(ZF, z))
           t == SetFlags(s, {SF, OF}, When(SF, 7 \in Bits(v)) \cup When(OF, 6 \in Bits(v)))
           q == ALU(Insn.op, Regs, v)
<1>1. v \in Byte /\ Agree(Regs', q)
  BY AluRuns DEF AluOps
<1>2. q = IF Insn.op = "BIT" THEN [BITIMM(Regs, v) EXCEPT !.SR = SetFlags(@, {SF, OF},
                                     When(SF, 7 \in Bits(v)) \cup When(OF, 6 \in Bits(v)))]
          ELSE BITIMM(Regs, v)
  BY DEF ALU, BIT
<1>3. Sound(BITIMM(Regs, v)) /\ BITIMM(Regs, v) = [Regs EXCEPT !.SR = s]
  BY StateFacts, BitSound DEF BITIMM
<1>4. And(v, Regs.AC) = And(Regs.AC, v)
  <2>1. Bits(v) \cap Bits(Regs.AC) = Bits(Regs.AC) \cap Bits(v)
    OBVIOUS
  <2> QED
    BY <2>1 DEF And
<1>5. (7 \in Bits(v) <=> v >= 128) /\ (6 \in Bits(v) <=> BitOf(v, 6) = 1)
  BY <1>1, TopBits
<1>6. ZF # SF /\ ZF # OF /\ SF # OF
  BY FlagReads
<1>7. /\ ZF \in s <=> z
      /\ ZF \in t <=> z
      /\ SF \in t <=> 7 \in Bits(v)
      /\ OF \in t <=> 6 \in Bits(v)
  BY <1>6 DEF SetFlags, When
<1>8. q.AC = Regs.AC /\ q.SR = IF Insn.op = "BIT" THEN t ELSE s
  <2>1. BITIMM(Regs, v).SR = s /\ BITIMM(Regs, v).AC = Regs.AC
    BY <1>3, StateFacts, OtherFields
  <2>2. q = IF Insn.op = "BIT" THEN [BITIMM(Regs, v) EXCEPT !.SR = t] ELSE BITIMM(Regs, v)
    BY <1>2, <2>1
  <2> HIDE DEF q, s, t
  <2> QED
    BY <1>3, <2>1, <2>2, OtherFields
<1>9. z <=> And(Regs.AC, v) = 0
  BY <1>4
<1> HIDE DEF q, s, t, z
<1>10. /\ Keeps("AC")
       /\ ZF \in Regs'.SR <=> And(Regs.AC, v) = 0
       /\ Insn.op = "BIT" => /\ SF \in Regs'.SR <=> v >= 128
                             /\ OF \in Regs'.SR <=> BitOf(v, 6) = 1
  BY <1>1, <1>5, <1>7, <1>8, <1>9 DEF Agree, Keeps
<1> QED
  BY <1>10 DEF Tests

(* The implied operations.                                                  *)
LEMMA ImpliedRuns ==
    ASSUME IInv, Handler, Insn.op \in ImpliedOps \ {"NOP"}
    PROVE  Agree(Regs', ImpliedRegs(Insn.op, Regs))
<1> DEFINE q == ImpliedRegs(Insn.op, Regs)
<1>1. Implied
  BY Executed
<1>2. Regs' = [q EXCEPT !.PC = Wrap16(Regs.PC + 1)]
  BY <1>1 DEF Implied, Advance
<1>3. Sound(q)
  BY ImpliedRegsSound
<1> HIDE DEF q
<1>4. Agree(Regs', q)
  BY <1>2, <1>3, OtherFields
<1> QED
  BY <1>4 DEF q

(* The flags that have instructions of their own.                           *)
LEMMA FlagInstructions ==
    ASSUME IInv, Handler, Opcode \in ImpliedCodes, Insn.op = ImpliedOp(Opcode)
    PROVE  /\ Opcode \in {\h18, \h38} => (CF \in Regs'.SR <=> Opcode = \h38)
           /\ Opcode \in {\h58, \h78} => (IFlag \in Regs'.SR <=> Opcode = \h78)
           /\ Opcode \in {\hD8, \hF8} => (DF \in Regs'.SR <=> Opcode = \hF8)
           /\ Opcode = \hB8 => OF \notin Regs'.SR
<1> DEFINE FlagOps == {"CLC", "SEC", "CLI", "SEI", "CLV", "CLD", "SED"}
<1>1. /\ Opcode = \h18 => Insn.op = "CLC"
      /\ Opcode = \h38 => Insn.op = "SEC"
      /\ Opcode = \h58 => Insn.op = "CLI"
      /\ Opcode = \h78 => Insn.op = "SEI"
      /\ Opcode = \hB8 => Insn.op = "CLV"
      /\ Opcode = \hD8 => Insn.op = "CLD"
      /\ Opcode = \hF8 => Insn.op = "SED"
  BY DEF ImpliedOp
<1>2. Insn.op \in FlagOps => Agree(Regs', ImpliedRegs(Insn.op, Regs))
  BY ImpliedRuns DEF ImpliedOps
<1>3. \A sr : [Regs EXCEPT !.SR = sr].SR = sr
  BY StateFacts, OtherFields
<1>4. /\ Insn.op = "CLC" => Regs'.SR = Regs.SR \ {CF}
      /\ Insn.op = "SEC" => Regs'.SR = Regs.SR \cup {CF}
  BY <1>2, <1>3 DEF ImpliedRegs, Agree
<1>5. /\ Insn.op = "CLI" => Regs'.SR = Regs.SR \ {IFlag}
      /\ Insn.op = "SEI" => Regs'.SR = Regs.SR \cup {IFlag}
  BY <1>2, <1>3 DEF ImpliedRegs, Agree
<1>6. /\ Insn.op = "CLD" => Regs'.SR = Regs.SR \ {DF}
      /\ Insn.op = "SED" => Regs'.SR = Regs.SR \cup {DF}
      /\ Insn.op = "CLV" => Regs'.SR = Regs.SR \ {OF}
  BY <1>2, <1>3 DEF ImpliedRegs, Agree
<1> QED
  BY <1>1, <1>4, <1>5, <1>6

(* The transfers between registers, and counting in the index registers.    *)
LEMMA TransferInstructions ==
    ASSUME IInv, Handler, Opcode \in ImpliedCodes, Insn.op = ImpliedOp(Opcode)
    PROVE  /\ Opcode = \h8A => Moves("XR", "AC")
           /\ Opcode = \h98 => Moves("YR", "AC")
           /\ Opcode = \hAA => Moves("AC", "XR")
           /\ Opcode = \hA8 => Moves("AC", "YR")
           /\ Opcode = \hBA => Moves("SP", "XR")
           /\ Opcode = \h9A => Moves("XR", "SP")
           /\ Opcode \in {\hCA, \hE8} => Regs'.XR = Wrap8(Regs.XR + (IF Opcode = \hE8 THEN 1 ELSE -1))
           /\ Opcode \in {\h88, \hC8} => Regs'.YR = Wrap8(Regs.YR + (IF Opcode = \hC8 THEN 1 ELSE -1))
<1> DEFINE q == ImpliedRegs(Insn.op, Regs)
           Moving == {"TXA", "TYA", "TAX", "TAY", "TSX", "TXS", "INX", "DEX", "INY", "DEY"}
<1>1. /\ Opcode = \h8A => Insn.op = "TXA"
      /\ Opcode = \h98 => Insn.op = "TYA"
      /\ Opcode = \hAA => Insn.op = "TAX"
      /\ Opcode = \hA8 => Insn.op = "TAY"
      /\ Opcode = \hBA => Insn.op = "TSX"
      /\ Opcode = \h9A => Insn.op = "TXS"
      /\ Opcode = \hE8 => Insn.op = "INX"
      /\ Opcode = \hCA => Insn.op = "DEX"
      /\ Opcode = \hC8 => Insn.op = "INY"
      /\ Opcode = \h88 => Insn.op = "DEY"
  <2>1. Opcode = \h8A => Insn.op = "TXA"
    BY DEF ImpliedOp
  <2>2. Opcode = \h98 => Insn.op = "TYA"
    BY DEF ImpliedOp
  <2>3. Opcode = \hAA => Insn.op = "TAX"
    BY DEF ImpliedOp
  <2>4. Opcode = \hA8 => Insn.op = "TAY"
    BY DEF ImpliedOp
  <2>5. Opcode = \hBA => Insn.op = "TSX"
    BY DEF ImpliedOp
  <2>6. Opcode = \h9A => Insn.op = "TXS"
    BY DEF ImpliedOp
  <2>7. Opcode = \hE8 => Insn.op = "INX"
    BY DEF ImpliedOp
  <2>8. Opcode = \hCA => Insn.op = "DEX"
    BY DEF ImpliedOp
  <2>9. Opcode = \hC8 => Insn.op = "INY"
    BY DEF ImpliedOp
  <2>10. Opcode = \h88 => Insn.op = "DEY"
    BY DEF ImpliedOp
  <2> QED
    BY <2>1, <2>2, <2>3, <2>4, <2>5, <2>6, <2>7, <2>8, <2>9, <2>10
<1>2. Insn.op \in Moving => Agree(Regs', q)
  BY ImpliedRuns DEF ImpliedOps
<1>3. /\ Insn.op = "TXA" => q = LoadAC(Regs, Regs.XR)
      /\ Insn.op = "TYA" => q = LoadAC(Regs, Regs.YR)
      /\ Insn.op = "TAX" => q = [Regs EXCEPT !.XR = Regs.AC, !.SR = SetNZ(@, Regs.AC)]
      /\ Insn.op = "TAY" => q = [Regs EXCEPT !.YR = Regs.AC, !.SR = SetNZ(@, Regs.AC)]
      /\ Insn.op = "TSX" => q = [Regs EXCEPT !.XR = Regs.SP, !.SR = SetNZ(@, Regs.SP)]
      /\ Insn.op = "TXS" => q = [Regs EXCEPT !.SP = Regs.XR]
  BY DEF ImpliedRegs
<1>4. /\ Insn.op = "INX" => q = [INC(Regs, Regs.XR).regs EXCEPT !.XR = INC(Regs, Regs.XR).val]
      /\ Insn.op = "DEX" => q = [DEC(Regs, Regs.XR).regs EXCEPT !.XR = DEC(Regs, Regs.XR).val]
      /\ Insn.op = "INY" => q = [INC(Regs, Regs.YR).regs EXCEPT !.YR = INC(Regs, Regs.YR).val]
      /\ Insn.op = "DEY" => q = [DEC(Regs, Regs.YR).regs EXCEPT !.YR = DEC(Regs, Regs.YR).val]
  BY DEF ImpliedRegs
<1>5. \A v : /\ Sound(INC(Regs, v).regs) /\ INC(Regs, v).val = Wrap8(v + 1)
             /\ Sound(DEC(Regs, v).regs) /\ DEC(Regs, v).val = Wrap8(v - 1)
  BY StateFacts, SetNZSound, ReplaceSR DEF INC, DEC, Stepped
<1> HIDE DEF q
<1>6. /\ Insn.op = "TXA" => q.AC = Regs.XR
      /\ Insn.op = "TYA" => q.AC = Regs.YR
  BY <1>3, StateFacts, LoadReads
<1>7. /\ Insn.op = "TAX" => q.XR = Regs.AC
      /\ Insn.op = "TAY" => q.YR = Regs.AC
      /\ Insn.op = "TSX" => q.XR = Regs.SP
      /\ Insn.op = "TXS" => q.SP = Regs.XR
  BY <1>3, StateFacts DEF Sound, IsRegs
<1>8. /\ Insn.op = "INX" => q.XR = Wrap8(Regs.XR + 1)
      /\ Insn.op = "INY" => q.YR = Wrap8(Regs.YR + 1)
  BY <1>4, <1>5 DEF Sound, IsRegs
<1>9. /\ Insn.op = "DEX" => q.XR = Wrap8(Regs.XR - 1)
      /\ Insn.op = "DEY" => q.YR = Wrap8(Regs.YR - 1)
  BY <1>4, <1>5 DEF Sound, IsRegs
<1>10. Regs.XR + (-1) = Regs.XR - 1 /\ Regs.YR + (-1) = Regs.YR - 1
  <2>1. Regs.XR \in Int /\ Regs.YR \in Int
    BY StateFacts, ByteIsInt
  <2> QED
    BY <2>1, SMT
<1>11. /\ Insn.op = "TXA" => Moves("XR", "AC")
       /\ Insn.op = "TYA" => Moves("YR", "AC")
       /\ Insn.op = "TAX" => Moves("AC", "XR")
       /\ Insn.op = "TAY" => Moves("AC", "YR")
       /\ Insn.op = "TSX" => Moves("SP", "XR")
       /\ Insn.op = "TXS" => Moves("XR", "SP")
  BY <1>2, <1>6, <1>7 DEF Agree, Moves
<1>12. /\ Insn.op = "INX" => Regs'.XR = Wrap8(Regs.XR + 1)
       /\ Insn.op = "DEX" => Regs'.XR = Wrap8(Regs.XR + (-1))
       /\ Insn.op = "INY" => Regs'.YR = Wrap8(Regs.YR + 1)
       /\ Insn.op = "DEY" => Regs'.YR = Wrap8(Regs.YR + (-1))
  BY <1>2, <1>8, <1>9, <1>10 DEF Agree
<1> QED
  BY <1>1, <1>11, <1>12

(* What was pushed is on top of the stack.                                  *)
LEMMA PushedOnTop ==
    ASSUME IInv, Handler, Insn.op \in Pushes
    PROVE  TopOfStack(Mem', 0) = Pushed[Insn.op]
<1>1. Mem' = MemWriteByte(Mem, StackPage + Wrap8(Regs.SP), Pushed[Insn.op])
  BY Executed DEF PushRegister, PUSH
<1>2. Pushed[Insn.op] \in Byte
  BY StateFacts, ToByteType DEF Pushed, Pushes
<1>3. Regs.SP + 0 = Regs.SP
  <2>1. Regs.SP \in Int
    BY StateFacts, ByteIsInt
  <2> QED
    BY <2>1, SMT
<1>4. TopOfStack(Mem', 0) = Wrap8(Pushed[Insn.op])
  BY <1>1, <1>3, ReadAfterWrite DEF TopOfStack
<1>5. \A v \in Byte : Wrap8(v) = v
  BY SMT DEF Wrap8, Byte
<1> QED
  BY <1>2, <1>4, <1>5

(* What is pulled comes from there.                                         *)
LEMMA PulledFromTop ==
    ASSUME IInv, Handler, Insn.op \in Pulls
    PROVE  /\ Insn.op = "PLA" => Regs'.AC = TopOfStack(Mem, 1)
           /\ Insn.op = "PLX" => Regs'.XR = TopOfStack(Mem, 1)
           /\ Insn.op = "PLY" => Regs'.YR = TopOfStack(Mem, 1)
           /\ Insn.op = "PLP" => Regs'.SR = Bits(TopOfStack(Mem, 1)) \cup AlwaysOne
<1> DEFINE v == POP(1)
           q == PulledRegs(Insn.op, Regs, v)
<1>1. Regs' = [[q EXCEPT !.SP = Wrap8(@ + 1)] EXCEPT !.PC = Wrap16(Regs.PC + 1)]
  BY Executed DEF PullRegister, Advance
<1>2. v \in Byte /\ v = TopOfStack(Mem, 1)
  BY OperandTypes DEF POP, TopOfStack
<1>3. Sound(q)
  BY StateFacts, OperandTypes, LoadSound, ForcedBits, ReplaceSR DEF PulledRegs
<1>4. /\ Insn.op = "PLA" => q.AC = v
      /\ Insn.op = "PLX" => q.XR = v
      /\ Insn.op = "PLY" => q.YR = v
      /\ Insn.op = "PLP" => q.SR = Bits(v) \cup AlwaysOne
  <2> HIDE DEF v
  <2> QED
    BY <1>2, StateFacts, LoadReads, OtherFields DEF PulledRegs
<1> HIDE DEF q, v
<1>5. Regs'.AC = q.AC /\ Regs'.XR = q.XR /\ Regs'.YR = q.YR /\ Regs'.SR = q.SR
  BY <1>1, <1>3 DEF Sound, IsRegs
<1> QED
  BY <1>2, <1>4, <1>5

(* Nothing but the program counter changes.                                 *)
LEMMA OnlyPC ==
    ASSUME IInv, NEW w, Regs' = [Regs EXCEPT !.PC = w]
    PROVE  KeepsRegisters /\ Regs'.PC = w
<1>1. Regs'.PC = w
  BY StateFacts DEF Sound, IsRegs
<1> QED
  BY <1>1 DEF KeepsRegisters

(* Where jumps and returns go.                                              *)
LEMMA Continues ==
    ASSUME IInv, Handler
    PROVE  /\ Step("JMP", "ABS") => Regs'.PC = OperandWord
           /\ Step("JMP", "IND") =>
                Regs'.PC = ToWord(MemReadByte(Mem, OperandWord),
                                  MemReadByte(Mem, ToWord(Wrap8(OperandWord + 1), Hi(OperandWord))))
           /\ Step("JMP", "IND_65C02") => Regs'.PC = MemReadWord(Mem, OperandWord)
           /\ Step("JMP", "ABSXIND") => Regs'.PC = MemReadWord(Mem, OperandWord + Regs.XR)
           /\ Insn.op = "RTS" => Regs'.PC = Wrap16(ToWord(TopOfStack(Mem, 1), TopOfStack(Mem, 2)) + 1)
           /\ Insn.op = "RTI" => Regs'.PC = ToWord(TopOfStack(Mem, 2), TopOfStack(Mem, 3))
           /\ Insn.op = "BRK" => Regs'.PC = MemReadWord(Mem', IRQVector)
<1>1. \A w : Regs' = [Regs EXCEPT !.PC = w] => Regs'.PC = w
  BY OnlyPC
<1>2. Insn.op = "JMP" => JMP_abs \/ JMP_ind \/ JMP_ind_65C02
  BY Executed
<1>3. Step("JMP", "ABS") => Regs'.PC = OperandWord
  <2>1. Step("JMP", "ABS") => JMP_abs
    BY <1>2 DEF JMP_ind, JMP_ind_65C02, Step
  <2> QED
    BY <1>1, <2>1 DEF JMP_abs
<1>4. Step("JMP", "IND") =>
         Regs'.PC = ToWord(MemReadByte(Mem, OperandWord),
                           MemReadByte(Mem, ToWord(Wrap8(OperandWord + 1), Hi(OperandWord))))
  <2>1. Step("JMP", "IND") => JMP_ind
    BY <1>2 DEF JMP_abs, JMP_ind_65C02, Step
  <2> QED
    BY <1>1, <2>1 DEF JMP_ind
<1>5. /\ Step("JMP", "IND_65C02") => Regs'.PC = MemReadWord(Mem, OperandWord)
      /\ Step("JMP", "ABSXIND") => Regs'.PC = MemReadWord(Mem, OperandWord + Regs.XR)
  <2>1. Step("JMP", "IND_65C02") \/ Step("JMP", "ABSXIND") => JMP_ind_65C02
    BY <1>2 DEF JMP_abs, JMP_ind, Step
  <2>2. JMP_ind_65C02 =>
           Regs' = [Regs EXCEPT !.PC = MemReadWord(Mem, IF Insn.mode = "ABSXIND" THEN OperandWord + Regs.XR
                                                        ELSE OperandWord)]
    BY DEF JMP_ind_65C02
  <2> QED
    BY <1>1, <2>1, <2>2 DEF Step
<1>6. \A n : POP(n) = TopOfStack(Mem, n)
  BY DEF POP, TopOfStack
<1>7. Insn.op = "RTS" => Regs'.PC = Wrap16(ToWord(TopOfStack(Mem, 1), TopOfStack(Mem, 2)) + 1)
  <2> DEFINE w == Wrap16(ToWord(POP(1), POP(2)) + 1)
             sp == Wrap8(Regs.SP + 2)
  <2>1. Insn.op = "RTS" => Regs' = [Regs EXCEPT !.PC = w, !.SP = sp]
    BY Executed DEF RTS
  <2> HIDE DEF w, sp
  <2>2. Insn.op = "RTS" => Regs'.PC = w
    BY <2>1, StateFacts DEF Sound, IsRegs
  <2> QED
    BY <1>6, <2>2 DEF w
<1>8. Insn.op = "RTI" => Regs'.PC = ToWord(TopOfStack(Mem, 2), TopOfStack(Mem, 3))
  <2> DEFINE w == ToWord(POP(2), POP(3))
             sp == Wrap8(Regs.SP + 3)
             sr == Bits(POP(1)) \cup AlwaysOne
  <2>1. Insn.op = "RTI" => Regs' = [Regs EXCEPT !.SR = sr, !.PC = w, !.SP = sp]
    BY Executed DEF RTI
  <2> HIDE DEF w, sp, sr
  <2>2. Insn.op = "RTI" => Regs'.PC = w
    BY <2>1, StateFacts DEF Sound, IsRegs
  <2> QED
    BY <1>6, <2>2 DEF w
<1>9. Insn.op = "BRK" => Regs'.PC = MemReadWord(Mem', IRQVector)
  <2> DEFINE w == MemReadWord(Mem', IRQVector)
             sp == Wrap8(Regs.SP - 3)
             sr == (Regs.SR \cup {IFlag}) \ When(DF, CPU = "CPU_65C02")
  <2>1. Insn.op = "BRK" => Regs' = [Regs EXCEPT !.SP = sp, !.SR = sr, !.PC = w]
    BY Executed DEF BRK, EnterInterrupt
  <2> HIDE DEF w, sp, sr
  <2>2. Insn.op = "BRK" => Regs'.PC = w
    BY <2>1, StateFacts DEF Sound, IsRegs
  <2> QED
    BY <2>2 DEF w
<1> QED
  BY <1>3, <1>4, <1>5, <1>7, <1>8, <1>9

(* An implied NOP passes.                                                   *)
LEMMA ImpliedNop ==
    ASSUME IInv, Handler, Insn.op = "NOP"
    PROVE  Passes /\ (Insn.mode = "IMP" => Cycles' = 2)
                  /\ (Insn.mode = "ZP" => Cycles' = 3)
<1>1. ALU_OP \/ Implied
  BY Executed
<1>2. CASE ALU_OP
  <2>1. Regs' = [Regs EXCEPT !.PC = NextPC(Insn.mode)] /\ Mem' = Mem
    BY <1>2 DEF ALU_OP, ALU
  <2>2. Insn.mode # "IMP" /\ (Insn.mode = "ZP" => Cycles' = 3)
    BY <1>2 DEF ALU_OP, ALU_CY, CrossPenalty, PAGE_CROSS, DecimalPenalty
  <2> QED
    BY <2>1, <2>2, OnlyPC DEF Passes
<1>3. CASE Implied
  <2>1. Regs' = [Regs EXCEPT !.PC = Wrap16(Regs.PC + 1)] /\ Mem' = Mem /\ Cycles' = 2 /\ Insn.mode = "IMP"
    BY <1>3 DEF Implied, ImpliedRegs, Advance
  <2> QED
    BY <2>1, OnlyPC DEF Passes
<1> QED
  BY <1>1, <1>2, <1>3

(* What the documented opcodes with a meaning of their own do.              *)
LEMMA InsnSingle ==
    ASSUME IInv, Executes, Opcode \in Documented
    PROVE  Single
<1>1. Handler
  BY ExecutesHandler
<1>2. DecodesGroups(Opcode, Insn) /\ DecodesSingles(Opcode, Insn)
  BY InsnDecoded DEF Decoded
<1>3. Opcode \in {\h24, \h2C} => Tests(Operand)
  <2>1. Opcode \in {\h24, \h2C} => Insn.op = "BIT" /\ Insn.mode \in Reaching(Opcode)
    BY <1>2 DEF DecodesGroups, Operated
  <2> QED
    BY <1>1, <2>1, TestsBits
<1>4. Opcode \in ImpliedCodes => Insn.op = ImpliedOp(Opcode)
  BY <1>2 DEF DecodesSingles
<1>5. /\ Opcode \in {\h18, \h38} => (CF \in Regs'.SR <=> Opcode = \h38)
      /\ Opcode \in {\h58, \h78} => (IFlag \in Regs'.SR <=> Opcode = \h78)
      /\ Opcode \in {\hD8, \hF8} => (DF \in Regs'.SR <=> Opcode = \hF8)
      /\ Opcode = \hB8 => OF \notin Regs'.SR
  <2>1. Opcode \in {\h18, \h38, \h58, \h78, \hD8, \hF8, \hB8} => Opcode \in ImpliedCodes
    BY DEF ImpliedCodes
  <2> QED
    BY <1>1, <1>4, <2>1, FlagInstructions
<1>6. /\ Opcode = \h8A => Moves("XR", "AC")
      /\ Opcode = \h98 => Moves("YR", "AC")
      /\ Opcode = \hAA => Moves("AC", "XR")
      /\ Opcode = \hA8 => Moves("AC", "YR")
      /\ Opcode = \hBA => Moves("SP", "XR")
      /\ Opcode = \h9A => Moves("XR", "SP")
      /\ Opcode \in {\hCA, \hE8} => Regs'.XR = Wrap8(Regs.XR + (IF Opcode = \hE8 THEN 1 ELSE -1))
      /\ Opcode \in {\h88, \hC8} => Regs'.YR = Wrap8(Regs.YR + (IF Opcode = \hC8 THEN 1 ELSE -1))
  <2>1. Opcode \in {\h8A, \h98, \hAA, \hA8, \hBA, \h9A, \hCA, \hE8, \h88, \hC8} => Opcode \in ImpliedCodes
    BY DEF ImpliedCodes
  <2> QED
    BY <1>1, <1>4, <2>1, TransferInstructions
<1>7. /\ Opcode = \h48 => TopOfStack(Mem', 0) = Regs.AC
      /\ Opcode = \h08 => TopOfStack(Mem', 0) = ToByte(Regs.SR)
  BY <1>1, <1>2, PushedOnTop DEF DecodesSingles, Pushed, Pushes
<1>8. /\ Opcode = \h68 => Regs'.AC = TopOfStack(Mem, 1)
      /\ Opcode = \h28 => Regs'.SR = Bits(TopOfStack(Mem, 1)) \cup AlwaysOne
  BY <1>1, <1>2, PulledFromTop DEF DecodesSingles, Pulls
<1>9. /\ Opcode = \h4C => Regs'.PC = OperandWord
      /\ Opcode = \h60 => Regs'.PC = Wrap16(ToWord(TopOfStack(Mem, 1), TopOfStack(Mem, 2)) + 1)
      /\ Opcode = \h40 => Regs'.PC = ToWord(TopOfStack(Mem, 2), TopOfStack(Mem, 3))
      /\ Opcode = \h6C /\ CPU # "CPU_65C02" =>
            Regs'.PC = ToWord(MemReadByte(Mem, OperandWord),
                              MemReadByte(Mem, ToWord(Wrap8(OperandWord + 1), Hi(OperandWord))))
  BY <1>1, <1>2, Continues DEF DecodesSingles, Step
<1>10. Opcode = \h00 => Regs'.PC = MemReadWord(Mem', IRQVector)
  BY <1>1, InsnSlot, Continues DEF InPlace
<1>11. Opcode = \hEA => Passes /\ Cycles' = 2
  BY <1>1, <1>2, ImpliedNop DEF DecodesSingles
<1> QED
  BY <1>3, <1>5, <1>6, <1>7, <1>8, <1>9, <1>10, <1>11 DEF Single

(* What the combined opcodes do.                                            *)
LEMMA CombinedHolds ==
    ASSUME IInv, Handler, CPU # "CPU_65C02", aaa \notin {4, 5},
           Insn.op = CombinedOp(Opcode), Insn.mode \in Reaching(Opcode)
    PROVE  Combined
<1> DEFINE v == Operand
           s == Shift(v)
           q == RMW(Insn.op, Regs, v).regs
<1>1. aaa \in {0, 1, 2, 3, 6, 7} /\ Operation(Opcode) = aaa
  <2>1. aaa \in 0..7 /\ Operation(Opcode) = aaa
    BY FieldsOfOpcode
  <2> QED
    BY <2>1, SMT
<1>2. Insn.op \in RmwOps /\ RMW(Insn.op, Regs, v).val = s
  BY ShiftValues
<1>3. v \in Byte /\ Agree(Regs', q) /\ Stores(s)
  BY <1>2, RmwRuns, ReachesMemory
<1>4. Sound(Regs) /\ s \in Byte
  BY <1>2, <1>3, StateFacts, RMWSound DEF SoundEffect
<1>5. ASSUME aaa \in {0, 1, 2}
      PROVE  GroupOne(s, CarryIn)
  <2> DEFINE k == IF aaa = 0 THEN ASL(Regs, v) ELSE IF aaa = 1 THEN ROL(Regs, v) ELSE LSR(Regs, v)
             w == IF aaa = 0 THEN Or(Regs.AC, k.val) ELSE IF aaa = 1 THEN And(Regs.AC, k.val)
                  ELSE Xor(Regs.AC, k.val)
  <2>1. Sound(k.regs)
    BY <1>3, <1>4, SimpleRmwSound DEF SoundEffect
  <2>2. w \in Byte
    BY BitwiseType
  <2>3. q = LoadAC(k.regs, w)
    BY <1>1, <1>5 DEF CombinedOp, RMW, SLO, RLA, SRE, ASL, ROL, LSR, Shifted
  <2>4. k.val = s
    BY <1>5 DEF Shift, CarryIn, ASL, ROL, LSR, Shifted, Wrap8
  <2>5. w = IF aaa = 0 THEN Or(Regs.AC, s) ELSE IF aaa = 1 THEN And(Regs.AC, s)
            ELSE Xor(Regs.AC, s)
    BY <2>4
  <2> HIDE DEF w, k, q, s
  <2>6. q.AC = w
    BY <2>1, <2>2, <2>3, LoadReads
  <2> QED
    BY <1>3, <1>5, <2>5, <2>6 DEF Agree, GroupOne
<1>6. ASSUME aaa = 3
      PROVE  GroupOne(s, v % 2)
  <2> DEFINE bit == v % 2 = 1
             sr == SetFlags(Regs.SR, {CF}, When(CF, bit))
             r == [Regs EXCEPT !.SR = sr]
  <2>1. q = ADC_6502(r, s)
    BY <1>1, <1>6 DEF CombinedOp, RMW, RRA, Shift, CarryIn
  <2>2. (CF \in sr <=> bit) /\ (DF \in sr <=> DF \in Regs.SR)
    BY FlagsKept
  <2>3. SoundSR(sr)
    <3>1. BF \notin {CF} /\ UF \notin {CF} /\ CF \in 0..7
      BY SMT DEF CF, BF, UF
    <3> QED
      BY <1>4, <3>1, WhenType, FieldTypes, SetFlagsSound
  <2>4. v % 2 \in {0, 1}
    BY <1>3, ByteIsInt, SMT
  <2>5. bit <=> v % 2 = 1
    OBVIOUS
  <2> HIDE DEF sr, bit, q, s
  <2>6. Sound(r) /\ r.AC = Regs.AC /\ r.XR = Regs.XR /\ r.YR = Regs.YR /\ r.SP = Regs.SP /\ r.SR = sr
    BY <1>4, <2>3, ReplaceSR, OtherFields
  <2>7. Carry(r) = v % 2
    BY <2>2, <2>4, <2>5, <2>6 DEF Carry
  <2> HIDE DEF r
  <2>8. SumOf(r, q, (r.AC + s + Carry(r)) % 256)
    BY <1>4, <2>1, <2>6, AdditionFields
  <2>9. SumOf(Regs, q, (Regs.AC + s + (v % 2)) % 256)
    BY <2>2, <2>6, <2>7, <2>8 DEF SumOf
  <2>10. Sums((Regs.AC + s + (v % 2)) % 256)
    BY <1>3, <2>9, SumsFrom
  <2> QED
    BY <1>6, <2>10 DEF GroupOne
<1>7. ASSUME aaa = 6
      PROVE  GroupOne(s, CarryIn)
  <2>1. q = COMPARE(Regs, Regs.AC, s)
    BY <1>1, <1>7 DEF CombinedOp, RMW, DCP, Shift, Wrap8
  <2> HIDE DEF q, s
  <2>2. Keeps("AC") /\ (CF \in Regs'.SR <=> Regs.AC >= s)
    BY <1>3, <2>1, ComparesFrom
  <2> QED
    BY <1>7, <2>2 DEF GroupOne, Compares
<1>8. ASSUME aaa = 7
      PROVE  GroupOne(s, CarryIn)
  <2>1. q = SBC_6502(Regs, s)
    BY <1>1, <1>8 DEF CombinedOp, RMW, ISC, Shift, Wrap8
  <2> HIDE DEF q, s
  <2>2. SumOf(Regs, q, (Regs.AC - s - Borrow(Regs)) % 256)
    BY <1>4, <2>1, SubtractionFields
  <2>3. Sums((Regs.AC - s - Borrow(Regs)) % 256)
    BY <1>3, <2>2, SumsFrom
  <2> QED
    BY <1>8, <2>3 DEF GroupOne, CarryIn, Borrow
<1> HIDE DEF q, s, v
<1>9. GroupOne(s, IF aaa = 3 THEN v % 2 ELSE CarryIn)
  BY <1>1, <1>5, <1>6, <1>7, <1>8
<1> QED
  BY <1>3, <1>9 DEF Combined, v, s

(* The undocumented operations on the accumulator, X and the operand.       *)
LEMMA UndocumentedReads ==
    ASSUME IInv, Handler, Insn.mode \in Reaching(Opcode)
    PROVE  /\ Insn.op = "LAX" => Regs'.AC = Operand /\ Regs'.XR = Operand
           /\ Insn.op = "LAS" => \A register \in {"AC", "XR", "SP"} : Regs'[register] = And(Regs.SP, Operand)
           /\ Insn.op = "ANC" => Regs'.AC = And(Regs.AC, Operand) /\ (CF \in Regs'.SR <=> Regs'.AC >= 128)
           /\ Insn.op = "ASR" => Regs'.AC = And(Regs.AC, Operand) \div 2
           /\ Insn.op = "ARR" /\ DF \notin Regs.SR =>
                 Regs'.AC = (And(Regs.AC, Operand) \div 2) + 128 * CarryIn
           /\ Insn.op = "ANE" => Regs'.AC = And(And(Or(Regs.AC, \hEE), Regs.XR), Operand)
           /\ Insn.op = "LXA" => \A register \in {"AC", "XR"} :
                 Regs'[register] = And(Or(Regs.AC, \hEE), Operand)
           /\ Insn.op = "SBX" => Regs'.XR = (And(Regs.AC, Regs.XR) - Operand) % 256
<1> DEFINE v == Operand
           q == ALU(Insn.op, Regs, v)
           w == And(Regs.AC, v)
<1>1. Insn.op \in {"LAX", "LAS", "ANC", "ASR", "ARR", "ANE", "LXA", "SBX"} =>
         v \in Byte /\ Agree(Regs', q)
  BY AluRuns DEF AluOps
<1>2. Sound(Regs) /\ \A a, b : And(a, b) \in Byte
  BY StateFacts, BitwiseType
<1>3. Operand = v
  OBVIOUS
<1> HIDE DEF v
<1>4. ASSUME Insn.op = "LAX" PROVE q.AC = v /\ q.XR = v
  <2>1. q = LAX(Regs, v)
    BY <1>4 DEF ALU
  <2> QED
    BY <1>1, <1>2, <1>4, <2>1, LoadReads
<1>5. ASSUME Insn.op = "LAS" PROVE q.AC = And(Regs.SP, v) /\ q.XR = And(Regs.SP, v) /\ q.SP = And(Regs.SP, v)
  <2> DEFINE a == And(Regs.SP, v)
             l == LAX(Regs, a)
  <2>1. q = [l EXCEPT !.SP = a]
    BY <1>5 DEF ALU, LAS
  <2>2. Sound(l) /\ l.AC = a /\ l.XR = a
    BY <1>2, LoadedSound, LoadReads
  <2> HIDE DEF q, l, a
  <2>3. q.AC = a /\ q.XR = a /\ q.SP = a
    BY <2>1, <2>2 DEF Sound, IsRegs
  <2> QED
    BY <2>3 DEF a
<1>6. ASSUME Insn.op = "ANC" PROVE q.AC = w /\ (CF \in q.SR <=> w >= 128)
  <2> DEFINE l == LoadAC(Regs, w)
             n == Negative(w)
             sr == SetFlags(l.SR, {CF}, When(CF, n))
  <2>1. q = [l EXCEPT !.SR = sr]
    BY <1>6 DEF ALU, ANC
  <2>0. w \in Byte
    BY <1>2
  <2> HIDE DEF w
  <2>2. Sound(l) /\ l.AC = w
    BY <1>2, <2>0, LoadSound, LoadReads
  <2> HIDE DEF l
  <2>3. CF \in sr <=> n
    BY DEF SetFlags, When, Negative
  <2>4. n <=> w >= 128
    BY DEF Negative
  <2> HIDE DEF q, sr, n
  <2>5. q.AC = w /\ q.SR = sr
    BY <2>1, <2>2 DEF Sound, IsRegs
  <2> QED
    BY <2>3, <2>4, <2>5
<1>7. ASSUME Insn.op = "ASR" PROVE q.AC = w \div 2
  <2> DEFINE l == LSR(Regs, w).regs
  <2>1. q = [l EXCEPT !.AC = w \div 2]
    BY <1>7 DEF ALU, ASR, LSR, Shifted
  <2>2. Sound(l)
    BY <1>2, SimpleRmwSound DEF SoundEffect
  <2> HIDE DEF q, l, w
  <2> QED
    BY <2>1, <2>2 DEF Sound, IsRegs
<1>8. ASSUME Insn.op = "ARR", DF \notin Regs.SR PROVE q.AC = w \div 2 + 128 * CarryIn
  <2> DEFINE rot  == w \div 2 + 128 * Carry(Regs)
             b    == Bits(rot)
             zero == rot = 0
             n    == Negative(rot)
             p    == (6 \in b) # (5 \in b)
             c    == 6 \in b
  <2>1. q = Arith(Regs, rot, n, p, zero, c)
    BY <1>8 DEF ALU, ARR
  <2> HIDE DEF zero, n, p, c, q
  <2>2. q.AC = rot
    BY <1>2, <2>1, ArithFields
  <2> QED
    BY <2>2 DEF CarryIn
<1>9. ASSUME Insn.op = "ANE" PROVE q.AC = And(And(Or(Regs.AC, \hEE), Regs.XR), v)
  BY <1>2, <1>9, LoadReads DEF ALU
<1>10. ASSUME Insn.op = "LXA" PROVE q.AC = And(Or(Regs.AC, \hEE), v) /\ q.XR = And(Or(Regs.AC, \hEE), v)
  BY <1>2, <1>10, LoadReads DEF ALU
<1>11. ASSUME Insn.op = "SBX" PROVE q.XR = (And(Regs.AC, Regs.XR) - v) % 256
  <2> DEFINE d == And(Regs.AC, Regs.XR) - v
             sr == SetNZC(Regs.SR, Wrap8(d), d >= 0)
  <2>1. q = [Regs EXCEPT !.XR = Wrap8(d), !.SR = sr]
    BY <1>11 DEF ALU, SBX
  <2> HIDE DEF q, sr, d
  <2>2. q.XR = Wrap8(d)
    BY <1>2, <2>1 DEF Sound, IsRegs
  <2> QED
    BY <2>2 DEF d, Wrap8
<1> HIDE DEF q
<1> QED
  BY <1>1, <1>3, <1>4, <1>5, <1>6, <1>7, <1>8, <1>9, <1>10, <1>11 DEF Agree

(* Indexing within a page.                                                  *)
LEMMA SamePage ==
    ASSUME NEW base \in Word, NEW index \in Byte, Lo(base) + index < 256
    PROVE  ToWord(Wrap8(Lo(base) + index), Hi(base)) = Wrap16(base + index)
  BY SMT DEF Word, Byte, Lo, Hi, ToWord, Wrap8, Wrap16

(* The stores that mix in the address, in the page it starts from.          *)
LEMMA UnstableMixes ==
    ASSUME IInv, Handler, Insn.op \in UnstableStores,
           Opcode \in {\h93, \h9B, \h9C, \h9E, \h9F},
           Insn.mode = IF Opcode = \h93 THEN "ZPINDY" ELSE IF Opcode = \h9C THEN "ABSX" ELSE "ABSY"
    PROVE  /\ MixesIn(CASE Insn.op = "SHX" -> Regs.XR [] Insn.op = "SHY" -> Regs.YR
                        [] OTHER -> And(Regs.AC, Regs.XR))
           /\ Regs'.SP = IF Insn.op = "TAS" THEN And(Regs.AC, Regs.XR) ELSE Regs.SP
<1> DEFINE base  == IF Insn.mode = "ZPINDY" THEN MemReadZPWord(Mem, OperandByte) ELSE OperandWord
           index == IF Insn.mode = "ABSX" THEN Regs.XR ELSE Regs.YR
           source == CASE Insn.op = "SHX" -> Regs.XR [] Insn.op = "SHY" -> Regs.YR
                       [] OTHER -> And(Regs.AC, Regs.XR)
           val   == And(source, Wrap8(Hi(base) + 1))
           high  == IF Lo(base) + index > 255 THEN val ELSE Hi(base)
           sp    == IF Insn.op = "TAS" THEN And(Regs.AC, Regs.XR) ELSE Regs.SP
           pc    == NextPC(Insn.mode)
<1>1. UnstableStore
  BY Executed
<1>2. /\ Mem' = MemWriteByte(Mem, ToWord(Wrap8(Lo(base) + index), high), val)
      /\ Regs' = [Regs EXCEPT !.PC = pc, !.SP = sp]
  BY <1>1 DEF UnstableStore
<1>3. /\ bbb = IF Opcode = \h93 THEN 4 ELSE IF Opcode = \h9B THEN 6 ELSE 7
      /\ cc = IF Opcode = \h9C THEN 0 ELSE IF Opcode = \h9E THEN 2 ELSE 3
      /\ aaa = 4 /\ Opcode % 32 # 18
  BY SMT DEF bbb, cc, aaa
<1>4. base = IndexBase /\ index = Index
  <2>1. base = IndexBase
    BY <1>3 DEF IndexBase
  <2>2. CASE Opcode = \h9C
    BY <1>3, <2>1, <2>2 DEF Index
  <2>3. CASE Opcode # \h9C
    <3>1. bbb \in {4, 6} \/ (cc >= 2 /\ aaa \in {4, 5})
      BY <1>3, <2>3
    <3>2. Insn.mode # "ABSX"
      BY <2>3
    <3> QED
      BY <2>1, <3>1, <3>2 DEF Index
  <2> QED
    BY <2>2, <2>3
<1>5. base \in Word /\ index \in Byte
  BY StateFacts, OperandTypes
<1>6. OperandAddress = Wrap16(IndexBase + Index)
  BY <1>3 DEF OperandAddress
<1>7. val \in Byte
  BY BitwiseType
<1>8. val = And(source, Wrap8(Hi(IndexBase) + 1))
  BY <1>4
<1>9. ~(Lo(base) + index > 255) => high = Hi(base)
  OBVIOUS
<1> HIDE DEF base, index, source, val, high, sp, pc
<1>10. ASSUME ~LeavesPage
       PROVE  Stores(val)
  <2>1. ~(Lo(base) + index >= 256)
    BY <1>4, <1>5, <1>10, CarryLeavesPage DEF LeavesPage
  <2>2. Lo(base) + index < 256 /\ ~(Lo(base) + index > 255)
    <3>1. Lo(base) \in Int /\ index \in Int
      BY <1>5, LoType, ByteIsInt
    <3> QED
      BY <2>1, <3>1, SMT
  <2>3. ToWord(Wrap8(Lo(base) + index), high) = OperandAddress
    BY <1>4, <1>5, <1>6, <1>9, <2>2, SamePage
  <2> QED
    BY <1>2, <1>7, <2>3, StoredThere
<1>11. MixesIn(source)
  BY <1>8, <1>10 DEF MixesIn
<1>12. Regs'.SP = sp
  BY <1>2, StateFacts DEF Sound, IsRegs
<1> QED
  BY <1>11, <1>12 DEF source, sp

(* What only the NMOS parts execute.                                        *)
LEMMA InsnNmosOnly ==
    ASSUME IInv, Executes
    PROVE  NmosOnly
<1> SUFFICES ASSUME CPU = "CPU_6502X" PROVE NmosOnly
  BY DEF NmosOnly
<1>1. Handler
  BY ExecutesHandler
<1>2. /\ Shape(Opcode) = bbb /\ Group(Opcode) = cc /\ Operation(Opcode) = aaa
      /\ aaa \in 0..7 /\ bbb \in 0..7 /\ cc \in 0..3
  BY FieldsOfOpcode
<1>3. (cc = 3 \/ Opcode \in {\h9C, \h9E} \cup DocNops) => DecodesNmosOnly(Opcode, Insn)
  <2>1. Opcode \in Jams => cc = 2
    BY SMT DEF Jams, cc
  <2>2. Opcode \in {\h9C, \h9E} \cup DocNops => Opcode \notin Jams
    BY SMT DEF DocNops, Jams
  <2> QED
    BY <2>1, <2>2, InsnDecoded DEF Decoded
<1>4. cc = 3 /\ Opcode \notin {\h93, \h9B, \h9F} => Insn.mode \in Reaching(Opcode)
  <2>1. cc = 3 => Opcode \notin Jams
    BY SMT DEF Jams, cc
  <2> QED
    BY <1>2, <2>1, InsnDecoded DEF Decoded, DecodesGroups, Operated
<1>5. /\ Opcode \in {\h93, \h9B, \h9F} => cc = 3 /\ aaa = 4 /\ bbb \in {4, 6, 7}
      /\ Opcode = \hBB => cc = 3 /\ aaa = 5 /\ bbb = 6
      /\ Opcode \in {\h0B, \h2B, \h4B, \h6B, \h8B, \hAB, \hCB, \hEB} => cc = 3
      /\ Opcode = \hEB => aaa = 7
  BY SMT DEF cc, aaa, bbb
<1>6. ASSUME cc = 3, bbb # 2, aaa \notin {4, 5}
      PROVE  Combined
  <2>1. Insn.op = CombinedOp(Opcode) /\ Insn.mode \in Reaching(Opcode)
    BY <1>2, <1>3, <1>4, <1>5, <1>6 DEF DecodesNmosOnly
  <2> QED
    BY <1>1, <1>6, <2>1, CombinedHolds
<1>7. ASSUME cc = 3, bbb \in {0, 1, 3, 5}, aaa = 4
      PROVE  Stores(And(Regs.AC, Regs.XR))
  <2>1. Insn.op = "SAX" /\ Insn.mode \in Reaching(Opcode)
    BY <1>2, <1>3, <1>4, <1>5, <1>7 DEF DecodesNmosOnly, CombinedOp
  <2> QED
    BY <1>1, <2>1, StoRuns DEF Stored
<1>8. ASSUME cc = 3, bbb \notin {2, 6}, aaa = 5
      PROVE  Regs'.AC = Operand /\ Regs'.XR = Operand
  <2>1. Insn.op = "LAX" /\ Insn.mode \in Reaching(Opcode)
    BY <1>2, <1>3, <1>4, <1>5, <1>8 DEF DecodesNmosOnly, CombinedOp
  <2> QED
    BY <1>1, <2>1, UndocumentedReads
<1>9. /\ Opcode = \hBB => Insn.op = "LAS"
      /\ Opcode \in {\h0B, \h2B} => Insn.op = "ANC"
      /\ Opcode = \h4B => Insn.op = "ASR"
      /\ Opcode = \h6B => Insn.op = "ARR"
      /\ Opcode = \h8B => Insn.op = "ANE"
      /\ Opcode = \hAB => Insn.op = "LXA"
      /\ Opcode = \hCB => Insn.op = "SBX"
      /\ Opcode = \hEB => Insn.op = "SBC_6502"
  BY <1>3, <1>5 DEF DecodesNmosOnly
<1>10. Opcode \in {\hBB, \h0B, \h2B, \h4B, \h6B, \h8B, \hAB, \hCB, \hEB} => Insn.mode \in Reaching(Opcode)
  BY <1>4, <1>5
<1>11. /\ Opcode = \hBB => \A register \in {"AC", "XR", "SP"} : Regs'[register] = And(Regs.SP, Operand)
       /\ Opcode \in {\h0B, \h2B} =>
             Regs'.AC = And(Regs.AC, Operand) /\ (CF \in Regs'.SR <=> Regs'.AC >= 128)
       /\ Opcode = \h4B => Regs'.AC = And(Regs.AC, Operand) \div 2
       /\ Opcode = \h6B /\ DF \notin Regs.SR =>
             Regs'.AC = (And(Regs.AC, Operand) \div 2) + 128 * CarryIn
  BY <1>1, <1>9, <1>10, UndocumentedReads
<1>12. /\ Opcode = \h8B => Regs'.AC = And(And(Or(Regs.AC, \hEE), Regs.XR), Operand)
       /\ Opcode = \hAB => \A register \in {"AC", "XR"} :
             Regs'[register] = And(Or(Regs.AC, \hEE), Operand)
       /\ Opcode = \hCB => Regs'.XR = (And(Regs.AC, Regs.XR) - Operand) % 256
  BY <1>1, <1>9, <1>10, UndocumentedReads
<1>13. ASSUME Opcode = \hEB
       PROVE  GroupOne(Operand, CarryIn)
  <2>1. Insn.op = GroupOneOp(Opcode)
    BY <1>2, <1>5, <1>9, <1>13 DEF GroupOneOp
  <2> QED
    BY <1>1, <1>10, <1>13, <2>1, GroupOneHolds
<1>14. /\ Opcode \in {\h93, \h9F} => Insn.op = "SHA"
       /\ Opcode = \h9B => Insn.op = "TAS"
       /\ Opcode = \h9C => Insn.op = "SHY"
       /\ Opcode = \h9E => Insn.op = "SHX"
       /\ Opcode \in {\h93, \h9B, \h9C, \h9E, \h9F} =>
             Insn.mode = IF Opcode = \h93 THEN "ZPINDY" ELSE IF Opcode = \h9C THEN "ABSX" ELSE "ABSY"
  BY <1>3, <1>5 DEF DecodesNmosOnly
<1>15. ASSUME Opcode \in {\h93, \h9B, \h9C, \h9E, \h9F}
       PROVE  /\ MixesIn(CASE Insn.op = "SHX" -> Regs.XR [] Insn.op = "SHY" -> Regs.YR
                           [] OTHER -> And(Regs.AC, Regs.XR))
              /\ Regs'.SP = IF Insn.op = "TAS" THEN And(Regs.AC, Regs.XR) ELSE Regs.SP
  <2>1. Insn.op \in UnstableStores
    BY <1>14, <1>15 DEF UnstableStores
  <2> QED
    BY <1>1, <1>14, <1>15, <2>1, UnstableMixes
<1>16. /\ Opcode \in {\h93, \h9B, \h9F} => MixesIn(And(Regs.AC, Regs.XR))
       /\ Opcode = \h9C => MixesIn(Regs.YR)
       /\ Opcode = \h9E => MixesIn(Regs.XR)
       /\ Opcode = \h9B => Regs'.SP = And(Regs.AC, Regs.XR)
       /\ Opcode \in {\h93, \h9F} => Keeps("SP")
  BY <1>14, <1>15 DEF Keeps
<1>17. Opcode \in DocNops => Passes
  BY <1>1, <1>3, ImpliedNop DEF DecodesNmosOnly
<1> QED
  BY <1>6, <1>7, <1>8, <1>11, <1>12, <1>13, <1>16, <1>17 DEF NmosOnly

(* The bits of the number that a set of bits stands for.                    *)
LEMMA BitsOfNumber ==
    ASSUME NEW S, NEW n \in 0..7
    PROVE  BitOf(ToByte(S), n) = IF n \in S THEN 1 ELSE 0
<1> DEFINE b(i) == IF i \in S THEN 1 ELSE 0
           t == b(0) + 2 * b(1) + 4 * b(2) + 8 * b(3) + 16 * b(4) + 32 * b(5) + 64 * b(6) + 128 * b(7)
<1>1. \A i : b(i) \in {0, 1}
  OBVIOUS
<1>2. ToByte(S) = t
  <2>1. \A i : /\ Weight(S, i, 1) = b(i) /\ Weight(S, i, 2) = 2 * b(i)
               /\ Weight(S, i, 4) = 4 * b(i) /\ Weight(S, i, 8) = 8 * b(i)
    BY SMT DEF Weight
  <2>2. \A i : /\ Weight(S, i, 16) = 16 * b(i) /\ Weight(S, i, 32) = 32 * b(i)
               /\ Weight(S, i, 64) = 64 * b(i) /\ Weight(S, i, 128) = 128 * b(i)
    BY SMT DEF Weight
  <2> HIDE DEF b
  <2> QED
    BY <2>1, <2>2 DEF ToByte
<1> DEFINE At(i, w) == (t \div w) % 2 = b(i)
<1>3. /\ At(0, 1) /\ At(1, 2) /\ At(2, 4) /\ At(3, 8)
      /\ At(4, 16) /\ At(5, 32) /\ At(6, 64) /\ At(7, 128)
  <2>1. /\ b(0) \in {0, 1} /\ b(1) \in {0, 1} /\ b(2) \in {0, 1} /\ b(3) \in {0, 1}
        /\ b(4) \in {0, 1} /\ b(5) \in {0, 1} /\ b(6) \in {0, 1} /\ b(7) \in {0, 1}
    BY <1>1
  <2> DEFINE b0 == b(0)
             b1 == b(1)
             b2 == b(2)
             b3 == b(3)
             b4 == b(4)
             b5 == b(5)
             b6 == b(6)
             b7 == b(7)
  <2>2. /\ b0 \in {0, 1} /\ b1 \in {0, 1} /\ b2 \in {0, 1} /\ b3 \in {0, 1}
        /\ b4 \in {0, 1} /\ b5 \in {0, 1} /\ b6 \in {0, 1} /\ b7 \in {0, 1}
    BY <2>1
  <2>3. t = b0 + 2 * b1 + 4 * b2 + 8 * b3 + 16 * b4 + 32 * b5 + 64 * b6 + 128 * b7
    OBVIOUS
  <2> HIDE DEF b0, b1, b2, b3, b4, b5, b6, b7, t, b
  <2>4. (t \div 1) % 2 = b0 /\ (t \div 2) % 2 = b1 /\ (t \div 4) % 2 = b2 /\ (t \div 8) % 2 = b3
    BY <2>2, <2>3, SMT
  <2>5. (t \div 16) % 2 = b4 /\ (t \div 32) % 2 = b5 /\ (t \div 64) % 2 = b6 /\ (t \div 128) % 2 = b7
    BY <2>2, <2>3, SMT
  <2> QED
    BY <2>4, <2>5 DEF b0, b1, b2, b3, b4, b5, b6, b7
<1>4. /\ 2^0 = 1 /\ 2^1 = 2 /\ 2^2 = 4 /\ 2^3 = 8
      /\ 2^4 = 16 /\ 2^5 = 32 /\ 2^6 = 64 /\ 2^7 = 128
  BY SMT
<1>5. n \in {0, 1, 2, 3, 4, 5, 6, 7}
  BY SMT
<1> HIDE DEF t, b
<1>6. (t \div 2^n) % 2 = b(n)
  BY <1>3, <1>4, <1>5
<1> QED
  BY <1>2, <1>6 DEF b, BitOf

(* Setting and clearing one bit of a cell in page zero.                     *)
LEMMA SetsBit ==
    ASSUME IInv, Handler, Insn.op \in {"RMB", "SMB"},
           Insn.op = (IF Opcode < 128 THEN "RMB" ELSE "SMB")
    PROVE  /\ KeepsRegisters
           /\ \A n \in 0..7 : BitOf(MemReadByte(Mem', OperandByte), n) =
                 IF n = (Opcode \div 16) % 8 THEN Opcode \div 128
                 ELSE BitOf(MemReadByte(Mem, OperandByte), n)
<1> DEFINE v == MemReadByte(Mem, OperandByte)
           S == IF Insn.op = "SMB" THEN Bits(v) \cup {BitNumber} ELSE Bits(v) \ {BitNumber}
<1>1. Regs' = [Regs EXCEPT !.PC = Wrap16(Regs.PC + 2)] /\ Mem' = MemWriteByte(Mem, OperandByte, ToByte(S))
  BY Executed DEF ZP_BITOP
<1>2. BitNumber = (Opcode \div 16) % 8 /\ Opcode \in Byte /\ v \in Byte
  BY InsnDecoded, OperandTypes DEF BitNumber, Opcode
<1>3. Opcode \div 128 = IF Insn.op = "SMB" THEN 1 ELSE 0
  BY <1>2, SMT DEF Byte
<1>4. MemReadByte(Mem', OperandByte) = ToByte(S)
  <2> HIDE DEF S
  <2>1. MemReadByte(Mem', OperandByte) = Wrap8(ToByte(S))
    BY <1>1, ReadAfterWrite
  <2>2. ToByte(S) \in Byte
    BY ToByteType
  <2>3. \A x \in Byte : Wrap8(x) = x
    BY SMT DEF Wrap8, Byte
  <2> QED
    BY <2>1, <2>2, <2>3
<1> HIDE DEF v
<1>5. ASSUME NEW n \in 0..7
      PROVE  BitOf(ToByte(S), n) = IF n = BitNumber THEN (IF Insn.op = "SMB" THEN 1 ELSE 0) ELSE BitOf(v, n)
  <2>1. BitOf(ToByte(S), n) = IF n \in S THEN 1 ELSE 0
    <3> HIDE DEF S
    <3> QED
      BY BitsOfNumber
  <2>2. BitOf(v, n) \in {0, 1} /\ (n \in Bits(v) <=> BitOf(v, n) = 1)
    BY <1>2, BitValues
  <2>3. n \in S <=> IF n = BitNumber THEN Insn.op = "SMB" ELSE n \in Bits(v)
    OBVIOUS
  <2> HIDE DEF S
  <2> QED
    BY <2>1, <2>2, <2>3
<1> HIDE DEF S
<1> QED
  BY <1>1, <1>2, <1>3, <1>4, <1>5, OnlyPC DEF v

(* The 65C02's own opcodes that store.                                      *)
LEMMA CmosStores ==
    ASSUME IInv, Handler
    PROVE  /\ Insn.op = "TSB" /\ Insn.mode \in Reaching(Opcode) => Stores(Or(Operand, Regs.AC))
           /\ \A mode \in {"ZP", "ABS"} :
                 Step("TRB", mode) => Clears(IF mode = "ZP" THEN OperandByte ELSE OperandWord)
           /\ Insn.op = "STZ" /\ Insn.mode \in Reaching(Opcode) => Stores(0)
           /\ \A mode \in {"ABS", "ABSX_NP"} : Step("STZ", mode) =>
                 MemReadByte(Mem', OperandWord + (IF mode = "ABSX_NP" THEN Regs.XR ELSE 0)) = 0
<1>1. ASSUME Insn.op = "TSB", Insn.mode \in Reaching(Opcode)
      PROVE  Stores(Or(Operand, Regs.AC))
  <2>1. Insn.op \in RmwOps /\ Insn.mode # "ACC"
    BY <1>1, ReachesMemory DEF RmwOps
  <2>2. Stores(RMW("TSB", Regs, Operand).val)
    BY <1>1, <2>1, RmwRuns
  <2> QED
    BY <2>2 DEF RMW, TSB
<1>2. \A x \in Byte : Wrap8(x) = x
  BY SMT DEF Wrap8, Byte
<1>3. ASSUME NEW mode \in {"ZP", "ABS"}, Step("TRB", mode)
      PROVE  Clears(IF mode = "ZP" THEN OperandByte ELSE OperandWord)
  <2> DEFINE a == IF mode = "ZP" THEN OperandByte ELSE OperandWord
             w == ToByte(Bits(MemReadByte(Mem, a)) \ Bits(Regs.AC))
  <2>1. MEM_OP
    BY <1>3, Executed DEF Step, RmwOps
  <2>2. ADR(Insn.mode) = a
    BY <1>3 DEF Step, ADR
  <2>3. RMW(Insn.op, Regs, MemReadByte(Mem, a)).val = w
    BY <1>3 DEF Step, RMW, TRB
  <2>4. w \in Byte
    BY ToByteType
  <2> HIDE DEF a, w
  <2>5. Mem' = MemWriteByte(Mem, a, w)
    BY <2>1, <2>2, <2>3 DEF MEM_OP
  <2>6. MemReadByte(Mem', a) = w
    BY <1>2, <2>4, <2>5, ReadAfterWrite
  <2> QED
    BY <2>6 DEF Clears, a, w
<1>4. ASSUME Insn.op = "STZ", Insn.mode \in Reaching(Opcode)
      PROVE  Stores(0)
  BY <1>4, StoRuns DEF Stored
<1>5. ASSUME NEW mode \in {"ABS", "ABSX_NP"}, Step("STZ", mode)
      PROVE  MemReadByte(Mem', OperandWord + (IF mode = "ABSX_NP" THEN Regs.XR ELSE 0)) = 0
  <2> DEFINE x == OperandWord + (IF mode = "ABSX_NP" THEN Regs.XR ELSE 0)
             a == ADR(Insn.mode)
  <2>1. STO_OP
    BY <1>5, Executed DEF Step
  <2>2. Mem' = MemWriteByte(Mem, a, 0)
    BY <1>5, <2>1 DEF STO_OP, Stored, Step
  <2>3. Wrap16(x) = Wrap16(a)
    <3>1. OperandWord \in Int /\ Regs.XR \in Int
      BY StateFacts, OperandTypes, ByteIsInt, WordIsInt
    <3>2. a = IF mode = "ABSX_NP" THEN Wrap16(OperandWord + Regs.XR) ELSE OperandWord
      BY <1>5 DEF Step, ADR
    <3> HIDE DEF a
    <3>3. CASE mode = "ABSX_NP"
      BY <3>1, <3>2, <3>3, SMT DEF Wrap16
    <3>4. CASE mode # "ABSX_NP"
      BY <3>1, <3>2, <3>4, SMT
    <3> QED
      BY <3>3, <3>4
  <2> HIDE DEF a, x
  <2>4. MemReadByte(Mem', x) = Wrap8(0)
    BY <2>2, <2>3, ReadAfterWrite
  <2>5. Wrap8(0) = 0
    BY SMT DEF Wrap8
  <2> QED
    BY <2>4, <2>5 DEF x
<1> QED
  BY <1>1, <1>3, <1>4, <1>5

(* The NOPs in the opcodes that the 65C02 has no use for.                   *)
LEMMA CmosIdles ==
    ASSUME IInv, Handler, Insn.op \in Fillers
    PROVE  Passes /\ Cycles' = NopCycles[Insn.op]
<1>1. Regs' = [Regs EXCEPT !.PC = Wrap16(Regs.PC + NopLength[Insn.op])] /\ Mem' = Mem
      /\ Cycles' = NopCycles[Insn.op]
  BY Executed DEF FillerNop, Advance
<1> QED
  BY <1>1, OnlyPC DEF Passes

(* What the opcodes do that only the 65C02 has.                             *)
LEMMA InsnCmosOnly ==
    ASSUME IInv, Executes
    PROVE  CmosOnly
<1> SUFFICES ASSUME CPU = "CPU_65C02" PROVE CmosOnly
  BY DEF CmosOnly
<1>1. Handler
  BY ExecutesHandler
<1>2. /\ Shape(Opcode) = bbb /\ Group(Opcode) = cc /\ Operation(Opcode) = aaa
      /\ aaa \in 0..7 /\ bbb \in 0..7 /\ cc \in 0..3
  BY FieldsOfOpcode
<1>3. Opcode \notin {\hCB, \hDB} =>
         /\ DecodesCmosOnly(Opcode, Insn)
         /\ Operated(Opcode) => Insn.mode \in Reaching(Opcode)
         /\ Opcode = \h6C => Insn.op = "JMP" /\ Insn.mode = "IND_65C02"
  BY InsnDecoded DEF Decoded, DecodesGroups, DecodesSingles
<1>4. /\ Opcode % 32 = 18 => Opcode \notin {\hCB, \hDB}
      /\ Opcode % 16 = 7 => Opcode \notin {\hCB, \hDB}
      /\ Opcode \in CmosNops => Opcode \notin {\hCB, \hDB}
  BY SMT DEF CmosNops
<1>5. Opcode \in {\h34, \h3C, \h1A, \h3A, \h04, \h0C, \h14, \h1C, \h64, \h74, \h9C, \h9E, \h89, \h6C, \h7C,
                  \h7A, \hFA, \h5A, \hDA} => Opcode \notin {\hCB, \hDB}
  OBVIOUS
<1>6. Opcode \in {\h34, \h3C, \h04, \h0C, \h64, \h74, \h89} \/ Opcode % 32 = 18 =>
         Insn.mode \in Reaching(Opcode)
  <2>1. Opcode = \h89 => cc = 1
    BY SMT DEF cc
  <2> QED
    BY <1>2, <1>3, <1>4, <1>5, <2>1 DEF Operated
<1>7. Opcode % 32 = 18 => GroupOne(Operand, CarryIn)
  BY <1>1, <1>3, <1>4, <1>6, GroupOneHolds DEF DecodesCmosOnly
<1>8. /\ Opcode \in {\h34, \h3C} => Tests(Operand)
      /\ Opcode = \h89 => Keeps("AC") /\ (ZF \in Regs'.SR <=> And(Regs.AC, Operand) = 0)
  <2>1. /\ Opcode \in {\h34, \h3C} => Insn.op = "BIT"
        /\ Opcode = \h89 => Insn.op = "BITIMM"
    BY <1>3, <1>5 DEF DecodesCmosOnly
  <2> QED
    BY <1>1, <1>6, <2>1, TestsBits
<1>9. /\ Opcode = \h1A => Regs'.AC = Wrap8(Regs.AC + 1)
      /\ Opcode = \h3A => Regs'.AC = Wrap8(Regs.AC - 1)
  <2>1. /\ Opcode = \h1A => Insn.op = "INC" /\ Insn.mode = "ACC"
        /\ Opcode = \h3A => Insn.op = "DEC" /\ Insn.mode = "ACC"
    BY <1>3, <1>5 DEF DecodesCmosOnly
  <2>2. /\ Opcode = \h1A => Regs'.AC = RMW("INC", Regs, Regs.AC).val
        /\ Opcode = \h3A => Regs'.AC = RMW("DEC", Regs, Regs.AC).val
    BY <1>1, <2>1, AccRuns DEF RmwOps
  <2> QED
    BY <2>2 DEF RMW, INC, DEC, Stepped
<1>10. /\ Opcode \in {\h04, \h0C} => Stores(Or(Operand, Regs.AC))
       /\ Opcode \in {\h64, \h74} => Stores(0)
  <2>1. /\ Opcode \in {\h04, \h0C} => Insn.op = "TSB"
        /\ Opcode \in {\h64, \h74} => Insn.op = "STZ"
    BY <1>3, <1>5 DEF DecodesCmosOnly
  <2> QED
    BY <1>1, <1>6, <2>1, CmosStores
<1>11. /\ Opcode \in {\h14, \h1C} => Clears(IF Opcode = \h14 THEN OperandByte ELSE OperandWord)
       /\ Opcode \in {\h9C, \h9E} =>
             MemReadByte(Mem', OperandWord + (IF Opcode = \h9E THEN Regs.XR ELSE 0)) = 0
  <2>1. /\ Opcode \in {\h14, \h1C} => Step("TRB", IF Opcode = \h14 THEN "ZP" ELSE "ABS")
        /\ Opcode \in {\h9C, \h9E} => Step("STZ", IF Opcode = \h9E THEN "ABSX_NP" ELSE "ABS")
    BY <1>3, <1>5 DEF DecodesCmosOnly, Step
  <2>2. /\ Step("TRB", "ZP") => Clears(OperandByte)
        /\ Step("TRB", "ABS") => Clears(OperandWord)
        /\ Step("STZ", "ABS") => MemReadByte(Mem', OperandWord + 0) = 0
        /\ Step("STZ", "ABSX_NP") => MemReadByte(Mem', OperandWord + Regs.XR) = 0
    BY <1>1, CmosStores
  <2> QED
    BY <2>1, <2>2
<1>12. /\ Opcode = \h6C => Regs'.PC = MemReadWord(Mem, OperandWord)
       /\ Opcode = \h7C => Regs'.PC = MemReadWord(Mem, OperandWord + Regs.XR)
  BY <1>1, <1>3, <1>5, Continues DEF DecodesCmosOnly, Step
<1>13. /\ Opcode = \h7A => Regs'.YR = TopOfStack(Mem, 1)
       /\ Opcode = \hFA => Regs'.XR = TopOfStack(Mem, 1)
       /\ Opcode = \h5A => TopOfStack(Mem', 0) = Regs.YR
       /\ Opcode = \hDA => TopOfStack(Mem', 0) = Regs.XR
  <2>1. /\ Opcode = \h7A => Insn.op = "PLY"
        /\ Opcode = \hFA => Insn.op = "PLX"
        /\ Opcode = \h5A => Insn.op = "PHY"
        /\ Opcode = \hDA => Insn.op = "PHX"
    BY <1>3, <1>5 DEF DecodesCmosOnly
  <2>2. /\ Insn.op = "PHY" => TopOfStack(Mem', 0) = Regs.YR
        /\ Insn.op = "PHX" => TopOfStack(Mem', 0) = Regs.XR
    BY <1>1, PushedOnTop DEF Pushes, Pushed
  <2> QED
    BY <1>1, <2>1, <2>2, PulledFromTop DEF Pulls
<1>14. Opcode % 16 = 7 =>
          /\ KeepsRegisters
          /\ \A n \in 0..7 : BitOf(MemReadByte(Mem', OperandByte), n) =
                IF n = (Opcode \div 16) % 8 THEN Opcode \div 128
                ELSE BitOf(MemReadByte(Mem, OperandByte), n)
  <2>1. Opcode % 16 = 7 => Insn.op = IF Opcode < 128 THEN "RMB" ELSE "SMB"
    BY <1>3, <1>4 DEF DecodesCmosOnly
  <2> QED
    BY <1>1, <2>1, SetsBit
<1>15. ASSUME Opcode \in CmosNops
       PROVE  Passes /\ Cycles' = CmosNopCycles
  <2>1. CmosNopCycles = IdleCycles(Opcode) /\ (Opcode = \h44 => CmosNopCycles = 3)
    <3>1. Opcode = \h44 => cc = 0
      BY SMT DEF cc
    <3> QED
      BY <1>2, <3>1 DEF CmosNopCycles, IdleCycles
  <2>2. IF Opcode = \h44 THEN Insn.op = "NOP" /\ Insn.mode = "ZP"
        ELSE Insn.op \in Fillers /\ NopCycles[Insn.op] = IdleCycles(Opcode)
    BY <1>3, <1>4, <1>15 DEF DecodesCmosOnly
  <2> QED
    BY <1>1, <2>1, <2>2, ImpliedNop, CmosIdles
<1> QED
  BY <1>7, <1>8, <1>9, <1>10, <1>11, <1>12, <1>13, <1>14, <1>15 DEF CmosOnly

-----------------------------------------------------------------------------
(* For every program, processor and memory, a branch goes where its         *)
(* condition sends it and costs what its way costs, a documented access at  *)
(* an indexed address pays for leaving the page exactly when it reads, and  *)
(* an indirect jump warns exactly when an NMOS part splits its pointer      *)
(* (BRANCH, ZP_BIT_BRANCH, PAGE_CROSS, JMP_ind).                            *)
THEOREM BoundariesOfPages == Spec => PageBoundaries
<1>1. IInv => [Executes => /\ BranchOutcome /\ IndexedCycles
                           /\ "warning" \in Reported' <=> ("warning" \in Reported \/ SplitPointer)]_vars
  BY InsnPageBoundaries
<1> QED
  BY <1>1, Invariance, PTL DEF PageBoundaries

(* The three dispatch tables have a handler for exactly the opcodes the     *)
(* tests call supported, each advances the program counter by the length    *)
(* that the column of its opcode asks for, and each does to registers and   *)
(* memory what the bits of its opcode, or the opcode's own line, ask for,   *)
(* for every operand (OP6502Table, OP6502XTable, OP65C02Table).             *)
THEOREM TablesAreComplete == Spec => DispatchTables
<1>1. IInv => [Executes =>
        /\ "error" \in Reported' <=>
              ("error" \in Reported \/ Opcode \notin sim65_supported_opcodes[CPU])
        /\ FallThrough(Opcode) => Regs'.PC = Wrap16(Regs.PC + InstructionBytes(Opcode))
        /\ Opcode \in Documented => Regular /\ Single
        /\ NmosOnly
        /\ CmosOnly
        /\ Untouched]_vars
  BY InsnDispatch, InsnRegular, InsnSingle, InsnNmosOnly, InsnCmosOnly, InsnUntouched
<1> QED
  BY <1>1, Invariance, PTL DEF DispatchTables

(* Whatever the stack pointer, an instruction that pushes writes the cells  *)
(* it pushes and no other, any other writes one cell at most, and JSR       *)
(* fetches its operand around its pushes (PUSH, JSR, MemWriteByte).         *)
THEOREM WritesOfInstructions == Spec => StackWrites
<1>1. IInv => [Executes => WriteFootprint /\ JsrBusOrder]_vars
  BY InsnWrites
<1> QED
  BY <1>1, Invariance, PTL DEF StackWrites

(* The undocumented opcodes of the NMOS part take the cycles, and all but   *)
(* ARR change only the flags, that the table in the header of 6502.c gives  *)
(* them, whatever their operands.                                           *)
THEOREM UndocumentedAsDescribed == Spec => UndocumentedOpcodes
<1>1. IInv => [Executes /\ Undocumented =>
        /\ Cycles' = TableCycles
        /\ Opcode # \h6B => ChangedFlags \subseteq DocFlags(Opcode)]_vars
  BY InsnUndocumented
<1> QED
  BY <1>1, Invariance, PTL DEF UndocumentedOpcodes

(* For every accumulator, operand and carry the processor can meet, binary  *)
(* addition, subtraction and comparison are those of numbers                *)
(* (ADC_BINARY_MODE, SBC_BINARY_MODE, COMPARE).                             *)
THEOREM BinaryArithmeticIsExact == Spec => []BinaryNumbers /\ []BinaryArithmetic
<1>1. IInv => BinaryNumbers
  BY BinaryAddition, BinarySubtraction, BinaryComparison DEF BinaryNumbers
<1>2. BinaryNumbers => BinaryArithmetic
  BY DEF BinaryArithmetic
<1> QED
  BY <1>1, <1>2, Invariance, PTL

(* The decimal modes of both processors add and subtract packed decimal     *)
(* numbers, and differ on other bytes as they are known to                  *)
(* (ADC_DECIMAL_MODE_6502, SBC_DECIMAL_MODE_6502 and their 65C02 forms).    *)
THEOREM DecimalArithmeticIsExact == Spec => []DecimalNumbers /\ []DecimalArithmetic
<1>1. IInv => DecimalNumbers
  BY DecimalAddition, DecimalSubtraction, DecimalFlags, AnySubtraction DEF DecimalNumbers
<1>2. DecimalNumbers => DecimalArithmetic
  BY DEF DecimalArithmetic
<1> QED
  BY <1>1, <1>2, Invariance, PTL

-----------------------------------------------------------------------------
(* What an instruction does is a function of the processor model, the       *)
(* register file and the memory                                             *)

At(c, r, m) == INSTANCE Cpu6502 WITH CPU <- c, Regs <- r, Mem <- m

(* The handler of an entry of the tables.                                   *)
HandlerOf(insn) ==
    CASE insn.op \in AluOps /\ insn.mode # "IMP" -> "ALU_OP"
      [] insn.op \in {"STA", "STX", "STY", "STZ", "SAX"} -> "STO_OP"
      [] insn.op \in RmwOps /\ insn.mode # "ACC" -> "MEM_OP"
      [] insn.op \in {"RMB", "SMB"} -> "ZP_BITOP"
      [] insn.op \in UnstableStores -> "UnstableStore"
      [] insn.op \in RmwOps /\ insn.mode = "ACC" -> "Accumulator"
      [] insn.op \in ImpliedOps /\ insn.mode = "IMP" -> "Implied"
      [] insn.op \in DOMAIN NopLength -> "FillerNop"
      [] insn.op \in Pushes -> "PushRegister"
      [] insn.op \in Pulls -> "PullRegister"
      [] insn.op \in Branches -> "BRANCH"
      [] insn.op \in {"BBR", "BBS"} -> "ZP_BIT_BRANCH"
      [] insn.op = "JMP" -> insn.mode
      [] OTHER -> insn.op                   \* BRK, JSR, RTI, RTS, Illegal

Outcome(regs, mem, cycles, reported) ==
    [regs |-> regs, mem |-> mem, cycles |-> cycles, reported |-> reported]

Moved(r, pc) == [r EXCEPT !.PC = pc]
Behind(r, length) == Wrap16(r.PC + length)


EffectOfALU(c, r, m, insn) ==
    LET v == IF insn.mode = "IMM" THEN At(c, r, m)!OperandByte
             ELSE MemReadByte(m, At(c, r, m)!ADR(insn.mode))
    IN  Outcome(Moved(ALU(insn.op, r, v), At(c, r, m)!NextPC(insn.mode)), m,
                ALU_CY[insn.mode] + At(c, r, m)!CrossPenalty(insn.mode)
                    + At(c, r, m)!DecimalPenalty(insn.op), {})

EffectOfStore(c, r, m, insn) ==
    Outcome(Moved(r, At(c, r, m)!NextPC(insn.mode)),
            MemWriteByte(m, At(c, r, m)!ADR(insn.mode), At(c, r, m)!Stored[insn.op]),
            STO_CY[insn.mode], {})

EffectOfModify(c, r, m, insn) ==
    LET a == At(c, r, m)!ADR(insn.mode)
        e == RMW(insn.op, r, MemReadByte(m, a))
    IN  Outcome(Moved(e.regs, At(c, r, m)!NextPC(insn.mode)), MemWriteByte(m, a, e.val),
                RMW_CY[insn.mode] + At(c, r, m)!CrossPenalty(insn.mode), {})

EffectOfBit(c, r, m, insn) ==
    LET a == At(c, r, m)!OperandByte
        b == Bits(MemReadByte(m, a))
        n == At(c, r, m)!BitNumber
    IN  Outcome(Moved(r, Behind(r, 2)),
                MemWriteByte(m, a, ToByte(IF insn.op = "SMB" THEN b \cup {n} ELSE b \ {n})), 5, {})

EffectOfUnstableStore(c, r, m, insn) ==
    LET base  == IF insn.mode = "ZPINDY" THEN MemReadZPWord(m, At(c, r, m)!OperandByte)
                 ELSE At(c, r, m)!OperandWord
        index == IF insn.mode = "ABSX" THEN r.XR ELSE r.YR
        source == CASE insn.op = "SHX" -> r.XR
                    [] insn.op = "SHY" -> r.YR
                    [] OTHER -> And(r.AC, r.XR)
        val   == And(source, Wrap8(Hi(base) + 1))
        high  == IF Lo(base) + index > 255 THEN val ELSE Hi(base)
    IN  Outcome([r EXCEPT !.PC = At(c, r, m)!NextPC(insn.mode),
                          !.SP = IF insn.op = "TAS" THEN And(r.AC, r.XR) ELSE @],
                MemWriteByte(m, ToWord(Wrap8(Lo(base) + index), high), val),
                IF insn.mode = "ZPINDY" THEN 6 ELSE 5, {})

EffectOfAccumulator(c, r, m, insn) ==
    LET e == RMW(insn.op, r, r.AC) IN Outcome(Moved([e.regs EXCEPT !.AC = e.val], Behind(r, 1)), m, 2, {})

EffectOfPush(c, r, m, insn) ==
    Outcome([r EXCEPT !.SP = Wrap8(@ - 1), !.PC = Wrap16(@ + 1)],
            PUSH(m, r.SP, At(c, r, m)!Pushed[insn.op]), 3, {})

EffectOfPull(c, r, m, insn) ==
    Outcome(Moved([PulledRegs(insn.op, r, At(c, r, m)!POP(1)) EXCEPT !.SP = Wrap8(@ + 1)], Behind(r, 1)),
            m, 4, {})

EffectOfBRK(c, r, m) ==
    LET mem == PUSH(PushWord(m, r.SP, Wrap16(r.PC + 2)), r.SP - 2, ToByte(r.SR))
    IN  Outcome([r EXCEPT !.SP = Wrap8(@ - 3),
                          !.SR = (@ \cup {IFlag}) \ When(DF, c = "CPU_65C02"),
                          !.PC = MemReadWord(mem, IRQVector)], mem, 7, {})

EffectOfJSR(c, r, m) ==
    LET mem == PushWord(m, r.SP, Wrap16(r.PC + 2))
    IN  Outcome([r EXCEPT !.SP = Wrap8(@ - 2),
                          !.PC = ToWord(At(c, r, m)!OperandByte, MemReadByte(mem, r.PC + 2))],
                mem, 6, {})

EffectOfRTI(c, r, m) ==
    Outcome([r EXCEPT !.SR = Bits(At(c, r, m)!POP(1)) \cup AlwaysOne,
                      !.PC = ToWord(At(c, r, m)!POP(2), At(c, r, m)!POP(3)),
                      !.SP = Wrap8(@ + 3)], m, 6, {})

EffectOfRTS(c, r, m) ==
    Outcome([r EXCEPT !.PC = Wrap16(ToWord(At(c, r, m)!POP(1), At(c, r, m)!POP(2)) + 1),
                      !.SP = Wrap8(@ + 2)], m, 6, {})

EffectOfBranch(c, r, m, insn) ==
    LET after  == Wrap16(r.PC + 2)
        target == Target(after, At(c, r, m)!OperandByte)
    IN  IF At(c, r, m)!Condition(insn.op)
        THEN Outcome(Moved(r, target), m, 3 + FarPenalty(after, target), {})
        ELSE Outcome(Moved(r, after), m, 2, {})

EffectOfBitBranch(c, r, m, insn) ==
    LET after  == Wrap16(r.PC + 3)
        target == Target(after, MemReadByte(m, r.PC + 2))
        isSet  == At(c, r, m)!BitNumber \in Bits(MemReadByte(m, At(c, r, m)!OperandByte))
    IN  IF isSet = (insn.op = "BBS")
        THEN Outcome(Moved(r, target), m, 6 + FarPenalty(after, target), {})
        ELSE Outcome(Moved(r, after), m, 5, {})

EffectOfJump(c, r, m, insn) ==
    LET lo == At(c, r, m)!OperandWord
        hi == ToWord(Wrap8(lo + 1), Hi(lo))
    IN  CASE insn.mode = "ABS" -> Outcome(Moved(r, lo), m, 3, {})
          [] insn.mode = "IND" ->
                Outcome(Moved(r, ToWord(MemReadByte(m, lo), MemReadByte(m, hi))), m, 5,
                        When("warning", hi # lo + 1))
          [] OTHER ->
                Outcome(Moved(r, MemReadWord(m, IF insn.mode = "ABSXIND" THEN lo + r.XR ELSE lo)),
                        m, 6, {})

EffectOf(c, r, m, insn) ==
    LET h == HandlerOf(insn)
    IN  CASE h = "ALU_OP" -> EffectOfALU(c, r, m, insn)
          [] h = "STO_OP" -> EffectOfStore(c, r, m, insn)
          [] h = "MEM_OP" -> EffectOfModify(c, r, m, insn)
          [] h = "ZP_BITOP" -> EffectOfBit(c, r, m, insn)
          [] h = "UnstableStore" -> EffectOfUnstableStore(c, r, m, insn)
          [] h = "Accumulator" -> EffectOfAccumulator(c, r, m, insn)
          [] h = "Implied" -> Outcome(Moved(ImpliedRegs(insn.op, r), Behind(r, 1)), m, 2, {})
          [] h = "FillerNop" -> Outcome(Moved(r, Behind(r, NopLength[insn.op])), m, NopCycles[insn.op], {})
          [] h = "PushRegister" -> EffectOfPush(c, r, m, insn)
          [] h = "PullRegister" -> EffectOfPull(c, r, m, insn)
          [] h = "BRK" -> EffectOfBRK(c, r, m)
          [] h = "JSR" -> EffectOfJSR(c, r, m)
          [] h = "RTI" -> EffectOfRTI(c, r, m)
          [] h = "RTS" -> EffectOfRTS(c, r, m)
          [] h = "BRANCH" -> EffectOfBranch(c, r, m, insn)
          [] h = "ZP_BIT_BRANCH" -> EffectOfBitBranch(c, r, m, insn)
          [] h = "Illegal" -> Outcome(r, m, 0, {"error"})
          [] OTHER -> EffectOfJump(c, r, m, insn)

Effect(c, r, m) == EffectOf(c, r, m, Handlers[c][MemReadByte(m, r.PC)])

(* A step does this: what it costs is left open for illegal opcodes.        *)
HasEffect(e) ==
    /\ Regs' = e.regs
    /\ Mem' = e.mem
    /\ Reported' = Reported \cup e.reported
    /\ "error" \notin e.reported => Cycles' = e.cycles

(* Seen from where the processor is, the operators are those of the model.  *)
LEMMA OperatorsAt ==
    /\ At(CPU, Regs, Mem)!OperandByte = OperandByte
    /\ At(CPU, Regs, Mem)!OperandWord = OperandWord
    /\ At(CPU, Regs, Mem)!BitNumber = BitNumber
    /\ At(CPU, Regs, Mem)!Stored = Stored
    /\ At(CPU, Regs, Mem)!Pushed = Pushed
    /\ \A n : At(CPU, Regs, Mem)!POP(n) = POP(n)
    /\ \A op : At(CPU, Regs, Mem)!Condition(op) = Condition(op)
    /\ \A op : At(CPU, Regs, Mem)!DecimalPenalty(op) = DecimalPenalty(op)
    /\ \A mode : /\ At(CPU, Regs, Mem)!ADR(mode) = ADR(mode)
                  /\ At(CPU, Regs, Mem)!NextPC(mode) = NextPC(mode)
                  /\ At(CPU, Regs, Mem)!CrossPenalty(mode) = CrossPenalty(mode)
  BY DEF At!OperandByte, OperandByte, At!OperandWord, OperandWord, At!BitNumber, BitNumber, At!Stored, Stored, At!Pushed, Pushed, At!POP, POP, At!Condition, Condition, At!DecimalPenalty, DecimalPenalty, At!ADR, ADR, At!NextPC, NextPC, At!CrossPenalty, CrossPenalty, At!PAGE_CROSS, PAGE_CROSS, At!Absolute, Absolute, At!StackPage, StackPage, At!MemReadByte, MemReadByte, At!MemReadWord, MemReadWord, At!MemReadZPWord, MemReadZPWord, At!Wrap8, Wrap8, At!Wrap16, Wrap16, At!Lo, Lo, At!ToWord, ToWord, At!And, And, At!ToByte, ToByte, At!Bits, Bits, At!Weight, Weight, At!SF, SF, At!OF, OF, At!CF, CF, At!ZF, ZF, At!DF, DF

(* The handlers exclude each other.                                         *)
LEMMA HandlerNames ==
    /\ ALU_OP => HandlerOf(Insn) = "ALU_OP"
    /\ STO_OP => HandlerOf(Insn) = "STO_OP"
    /\ MEM_OP => HandlerOf(Insn) = "MEM_OP"
    /\ ZP_BITOP => HandlerOf(Insn) = "ZP_BITOP"
    /\ UnstableStore => HandlerOf(Insn) = "UnstableStore"
    /\ Accumulator => HandlerOf(Insn) = "Accumulator"
    /\ Implied => HandlerOf(Insn) = "Implied"
    /\ FillerNop => HandlerOf(Insn) = "FillerNop"
    /\ PushRegister => HandlerOf(Insn) = "PushRegister"
    /\ PullRegister => HandlerOf(Insn) = "PullRegister"
    /\ BRK \/ JSR \/ RTI \/ RTS \/ OPC_Illegal => HandlerOf(Insn) = Insn.op
    /\ BRANCH => HandlerOf(Insn) = "BRANCH"
    /\ ZP_BIT_BRANCH => HandlerOf(Insn) = "ZP_BIT_BRANCH"
    /\ JMP_abs \/ JMP_ind \/ JMP_ind_65C02 => HandlerOf(Insn) = Insn.mode
<1> DEFINE op == Insn.op
           mode == Insn.mode
<1> USE DEF HandlerOf, AluOps, RmwOps, UnstableStores, ImpliedOps, NopLength, Pushes, Pulls, Branches
<1>1. ALU_OP => op \in AluOps /\ mode # "IMP"
  BY DEF ALU_OP, ALU_CY
<1>2. MEM_OP => op \in RmwOps /\ mode # "ACC"
  BY DEF MEM_OP, RMW_CY
<1>a. ALU_OP => HandlerOf(Insn) = "ALU_OP"
  BY <1>1
<1>b. STO_OP => HandlerOf(Insn) = "STO_OP"
  BY DEF STO_OP, Stored
<1>c. MEM_OP => HandlerOf(Insn) = "MEM_OP"
  BY <1>2
<1>d. ZP_BITOP => HandlerOf(Insn) = "ZP_BITOP"
  BY DEF ZP_BITOP
<1>e. UnstableStore => HandlerOf(Insn) = "UnstableStore"
  BY DEF UnstableStore
<1>f. Accumulator => HandlerOf(Insn) = "Accumulator"
  BY DEF Accumulator
<1>g. Implied => HandlerOf(Insn) = "Implied"
  BY DEF Implied
<1>h. FillerNop => HandlerOf(Insn) = "FillerNop"
  BY DEF FillerNop
<1>i. PushRegister => HandlerOf(Insn) = "PushRegister"
  BY DEF PushRegister, Pushed
<1>j. PullRegister => HandlerOf(Insn) = "PullRegister"
  BY DEF PullRegister
<1>k. BRK \/ JSR \/ RTI \/ RTS \/ OPC_Illegal => HandlerOf(Insn) = Insn.op
  BY DEF BRK, JSR, RTI, RTS, OPC_Illegal
<1>l. BRANCH => HandlerOf(Insn) = "BRANCH"
  BY DEF BRANCH
<1>m. ZP_BIT_BRANCH => HandlerOf(Insn) = "ZP_BIT_BRANCH"
  BY DEF ZP_BIT_BRANCH
<1>n. JMP_abs \/ JMP_ind \/ JMP_ind_65C02 => HandlerOf(Insn) = Insn.mode
  BY DEF JMP_abs, JMP_ind, JMP_ind_65C02, Step
<1> QED
  BY <1>a, <1>b, <1>c, <1>d, <1>e, <1>f, <1>g, <1>h, <1>i, <1>j, <1>k, <1>l, <1>m, <1>n

(* Whichever handler runs, it has that effect.                              *)
LEMMA HandlerEffect == Handler => HasEffect(Effect(CPU, Regs, Mem))
<1> SUFFICES ASSUME Handler PROVE HasEffect(EffectOf(CPU, Regs, Mem, Insn))
  BY DEF Effect, Insn
<1> DEFINE insn == Insn
           E == EffectOf(CPU, Regs, Mem, insn)
<1> HIDE DEF insn
<1>0. insn = Insn
  BY DEF insn
<1>1. CASE ALU_OP
  <2>1. E = EffectOfALU(CPU, Regs, Mem, insn)
    BY <1>0, <1>1, HandlerNames DEF EffectOf
  <2>2. HasEffect(EffectOfALU(CPU, Regs, Mem, Insn))
    BY <1>1, OperatorsAt DEF ALU_OP, HasEffect, EffectOfALU, Outcome, Moved
  <2> QED
    BY <1>0, <2>1, <2>2
<1>2. CASE STO_OP
  <2>1. E = EffectOfStore(CPU, Regs, Mem, insn)
    BY <1>0, <1>2, HandlerNames DEF EffectOf
  <2>2. HasEffect(EffectOfStore(CPU, Regs, Mem, Insn))
    BY <1>2, OperatorsAt DEF STO_OP, HasEffect, EffectOfStore, Outcome, Moved
  <2> QED
    BY <1>0, <2>1, <2>2
<1>3. CASE MEM_OP
  <2>1. E = EffectOfModify(CPU, Regs, Mem, insn)
    BY <1>0, <1>3, HandlerNames DEF EffectOf
  <2>2. HasEffect(EffectOfModify(CPU, Regs, Mem, Insn))
    BY <1>3, OperatorsAt DEF MEM_OP, HasEffect, EffectOfModify, Outcome, Moved
  <2> QED
    BY <1>0, <2>1, <2>2
<1>4. CASE ZP_BITOP
  <2>1. E = EffectOfBit(CPU, Regs, Mem, insn)
    BY <1>0, <1>4, HandlerNames DEF EffectOf
  <2>2. HasEffect(EffectOfBit(CPU, Regs, Mem, Insn))
    BY <1>4, OperatorsAt DEF ZP_BITOP, HasEffect, EffectOfBit, Outcome, Moved, Behind
  <2> QED
    BY <1>0, <2>1, <2>2
<1>5. CASE UnstableStore
  <2>1. E = EffectOfUnstableStore(CPU, Regs, Mem, insn)
    BY <1>0, <1>5, HandlerNames DEF EffectOf
  <2>2. HasEffect(EffectOfUnstableStore(CPU, Regs, Mem, Insn))
    BY <1>5, OperatorsAt DEF UnstableStore, HasEffect, EffectOfUnstableStore, Outcome
  <2> QED
    BY <1>0, <2>1, <2>2
<1>6. CASE Accumulator
  <2>1. E = EffectOfAccumulator(CPU, Regs, Mem, insn)
    BY <1>0, <1>6, HandlerNames DEF EffectOf
  <2>2. HasEffect(EffectOfAccumulator(CPU, Regs, Mem, Insn))
    BY <1>6 DEF Accumulator, Advance, HasEffect, EffectOfAccumulator, Outcome, Moved, Behind
  <2> QED
    BY <1>0, <2>1, <2>2
<1>7. CASE Implied
  <2>1. E = Outcome(Moved(ImpliedRegs(insn.op, Regs), Behind(Regs, 1)), Mem, 2, {})
    BY <1>0, <1>7, HandlerNames DEF EffectOf
  <2>2. HasEffect(Outcome(Moved(ImpliedRegs(Insn.op, Regs), Behind(Regs, 1)), Mem, 2, {}))
    BY <1>7 DEF Implied, Advance, HasEffect, Outcome, Moved, Behind
  <2> QED
    BY <1>0, <2>1, <2>2
<1>8. CASE FillerNop
  <2>1. E = Outcome(Moved(Regs, Behind(Regs, NopLength[insn.op])), Mem, NopCycles[insn.op], {})
    BY <1>0, <1>8, HandlerNames DEF EffectOf
  <2>2. HasEffect(Outcome(Moved(Regs, Behind(Regs, NopLength[Insn.op])), Mem, NopCycles[Insn.op], {}))
    BY <1>8 DEF FillerNop, Advance, HasEffect, Outcome, Moved, Behind
  <2> QED
    BY <1>0, <2>1, <2>2
<1>9. CASE PushRegister
  <2>1. E = EffectOfPush(CPU, Regs, Mem, insn)
    BY <1>0, <1>9, HandlerNames DEF EffectOf
  <2>2. HasEffect(EffectOfPush(CPU, Regs, Mem, Insn))
    BY <1>9, OperatorsAt DEF PushRegister, HasEffect, EffectOfPush, Outcome
  <2> QED
    BY <1>0, <2>1, <2>2
<1>10. CASE PullRegister
  <2>1. E = EffectOfPull(CPU, Regs, Mem, insn)
    BY <1>0, <1>10, HandlerNames DEF EffectOf
  <2>2. HasEffect(EffectOfPull(CPU, Regs, Mem, Insn))
    BY <1>10, OperatorsAt DEF PullRegister, Advance, HasEffect, EffectOfPull, Outcome, Moved, Behind
  <2> QED
    BY <1>0, <2>1, <2>2
<1>11. CASE BRK
  <2>1. E = EffectOfBRK(CPU, Regs, Mem)
    BY <1>0, <1>11, HandlerNames DEF EffectOf, BRK
  <2>2. HasEffect(EffectOfBRK(CPU, Regs, Mem))
    BY <1>11 DEF BRK, EnterInterrupt, HasEffect, EffectOfBRK, Outcome
  <2> QED
    BY <1>0, <2>1, <2>2
<1>12. CASE JSR
  <2>1. E = EffectOfJSR(CPU, Regs, Mem)
    BY <1>0, <1>12, HandlerNames DEF EffectOf, JSR
  <2>2. HasEffect(EffectOfJSR(CPU, Regs, Mem))
    BY <1>12, OperatorsAt DEF JSR, HasEffect, EffectOfJSR, Outcome
  <2> QED
    BY <1>0, <2>1, <2>2
<1>13. CASE RTI
  <2>1. E = EffectOfRTI(CPU, Regs, Mem)
    BY <1>0, <1>13, HandlerNames DEF EffectOf, RTI
  <2>2. HasEffect(EffectOfRTI(CPU, Regs, Mem))
    BY <1>13, OperatorsAt DEF RTI, HasEffect, EffectOfRTI, Outcome
  <2> QED
    BY <1>0, <2>1, <2>2
<1>14. CASE RTS
  <2>1. E = EffectOfRTS(CPU, Regs, Mem)
    BY <1>0, <1>14, HandlerNames DEF EffectOf, RTS
  <2>2. HasEffect(EffectOfRTS(CPU, Regs, Mem))
    BY <1>14, OperatorsAt DEF RTS, HasEffect, EffectOfRTS, Outcome
  <2> QED
    BY <1>0, <2>1, <2>2
<1>15. CASE BRANCH
  <2>1. E = EffectOfBranch(CPU, Regs, Mem, insn)
    BY <1>0, <1>15, HandlerNames DEF EffectOf
  <2>2. HasEffect(EffectOfBranch(CPU, Regs, Mem, Insn))
    BY <1>15, OperatorsAt DEF BRANCH, HasEffect, EffectOfBranch, Outcome, Moved
  <2> QED
    BY <1>0, <2>1, <2>2
<1>16. CASE ZP_BIT_BRANCH
  <2>1. E = EffectOfBitBranch(CPU, Regs, Mem, insn)
    BY <1>0, <1>16, HandlerNames DEF EffectOf
  <2>2. HasEffect(EffectOfBitBranch(CPU, Regs, Mem, Insn))
    BY <1>16, OperatorsAt DEF ZP_BIT_BRANCH, HasEffect, EffectOfBitBranch, Outcome, Moved
  <2> QED
    BY <1>0, <2>1, <2>2
<1>17. CASE OPC_Illegal
  <2>1. E = Outcome(Regs, Mem, 0, {"error"})
    BY <1>0, <1>17, HandlerNames DEF EffectOf, OPC_Illegal
  <2>2. HasEffect(Outcome(Regs, Mem, 0, {"error"}))
    BY <1>17 DEF OPC_Illegal, HasEffect, Outcome
  <2> QED
    BY <1>0, <2>1, <2>2
<1>18. CASE JMP_abs \/ JMP_ind \/ JMP_ind_65C02
  <2>0. insn.mode \in {"ABS", "IND", "IND_65C02", "ABSXIND"}
    BY <1>0, <1>18 DEF JMP_abs, JMP_ind, JMP_ind_65C02, Step
  <2>1. E = EffectOfJump(CPU, Regs, Mem, insn)
    BY <1>0, <1>18, <2>0, HandlerNames DEF EffectOf
  <2>2. HasEffect(EffectOfJump(CPU, Regs, Mem, Insn))
    BY <1>18, OperatorsAt
       DEF JMP_abs, JMP_ind, JMP_ind_65C02, Step, HasEffect, EffectOfJump, Outcome, Moved, When
  <2> QED
    BY <1>0, <2>1, <2>2
<1> QED
  BY <1>0, <1>1, <1>2, <1>3, <1>4, <1>5, <1>6, <1>7, <1>8, <1>9, <1>10, <1>11, <1>12, <1>13, <1>14,
     <1>15, <1>16, <1>17, <1>18 DEF Handler

(* Registers, memory and reports after an instruction, and its cycles,      *)
(* depend on the processor model, registers and memory alone (the handlers  *)
(* of 6502.c): not on requests, event counters or earlier reports, and on   *)
(* the instruction before it only for the cycles of an illegal opcode.      *)
THEOREM EffectsAreDetermined ==
    Spec => [][ExecuteOpcode => HasEffect(Effect(CPU, Regs, Mem))]_vars
<1>1. ExecuteOpcode => HasEffect(Effect(CPU, Regs, Mem))
  BY HandlerEffect DEF ExecuteOpcode
<1> QED
  BY <1>1, PTL DEF Spec
=============================================================================
