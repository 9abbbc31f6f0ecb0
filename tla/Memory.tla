------------------------------ MODULE Memory -------------------------------
(***************************************************************************)
(* The simulated 64 KiB address space (memory.c).  A memory is a function  *)
(* from the addresses that were ever given a value to bytes; every other   *)
(* address reads as zero, which is how a test case's memory image starts   *)
(* out.  The addresses are uint16_t parameters in C, so each access wraps. *)
(***************************************************************************)
EXTENDS Bytes

IsMemory(mem) ==
    /\ DOMAIN mem \subseteq Word
    /\ \A a \in DOMAIN mem : mem[a] \in Byte

MemReadByte(mem, addr) ==
    LET a == Wrap16(addr) IN IF a \in DOMAIN mem THEN mem[a] ELSE 0

MemWriteByte(mem, addr, val) ==
    LET a == Wrap16(addr)
    IN  [x \in DOMAIN mem \cup {a} |-> IF x = a THEN Wrap8(val) ELSE mem[x]]

MemReadWord(mem, addr) ==
    ToWord(MemReadByte(mem, addr), MemReadByte(mem, addr + 1))

(* The pointer fetch of the zero-page indirect modes: both bytes come from *)
(* the zero page, also when the pointer starts at $FF.                     *)
MemReadZPWord(mem, addr) ==
    ToWord(MemReadByte(mem, Wrap8(addr)), MemReadByte(mem, Wrap8(addr + 1)))

MemWriteWord(mem, addr, val) ==
    MemWriteByte(MemWriteByte(mem, addr, Lo(val)), addr + 1, Hi(val))
=============================================================================
