------------------------- MODULE SupportedOpcodes --------------------------
(***************************************************************************)
(* Which opcodes test_opcodes.py tests for each processor: the files of    *)
(* the test suite it hands to the test program.                            *)
(***************************************************************************)
EXTENDS Opcodes

(* Opcodes by row and column of the usual 16 by 16 matrix.                 *)
Cells(columns) == {opcode \in 0..255 : opcode % 16 \in columns[(opcode \div 16) + 1]}

Listed6502 == Cells(<<
    {0, 1, 5, 6, 8, 9, 10, 13, 14},      {0, 1, 5, 6, 8, 9, 13, 14},
    {0, 1, 4, 5, 6, 8, 9, 10, 12, 13, 14}, {0, 1, 5, 6, 8, 9, 13, 14},
    {0, 1, 5, 6, 8, 9, 10, 12, 13, 14},  {0, 1, 5, 6, 8, 9, 13, 14},
    {0, 1, 5, 6, 8, 9, 10, 12, 13, 14},  {0, 1, 5, 6, 8, 9, 13, 14},
    {1, 4, 5, 6, 8, 10, 12, 13, 14},     {0, 1, 4, 5, 6, 8, 9, 10, 13},
    {0, 1, 2, 4, 5, 6, 8, 9, 10, 12, 13, 14}, {0, 1, 4, 5, 6, 8, 9, 10, 12, 13, 14},
    {0, 1, 4, 5, 6, 8, 9, 10, 12, 13, 14}, {0, 1, 5, 6, 8, 9, 13, 14},
    {0, 1, 4, 5, 6, 8, 9, 10, 12, 13, 14}, {0, 1, 5, 6, 8, 9, 13, 14} >>)

Listed_Fault == [CPU_6502 |-> Listed6502, CPU_6502X |-> Listed6502 \cup {\h03}, CPU_65C02 |-> 0..255]

(* All but those that lock the processor up, or make it wait.              *)
Listed == [CPU_6502  |-> Listed6502,
           CPU_6502X |-> (0..255) \ {\h02, \h12, \h22, \h32, \h42, \h52, \h62, \h72,
                                     \h92, \hB2, \hD2, \hF2},
           CPU_65C02 |-> (0..255) \ {\hCB, \hDB}]
=============================================================================
