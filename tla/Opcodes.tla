------------------------------ MODULE Opcodes ------------------------------
(***************************************************************************)
(* The opcode handlers of 6502.c and the three dispatch tables.  Every     *)
(* handler is one operation in one addressing mode, so a row of the opcode *)
(* map names, for each family of handlers, <<opcode, operation, mode>>:    *)
(*   nmos   OPC_6502_xx    documented NMOS instructions                    *)
(*   nmosx  OPC_6502X_xx   undocumented NMOS instructions                  *)
(*   cmos   OPC_65C02_xx   additions and changes of the 65C02              *)
(* A mode ending in _NP never pays for a page crossing.                    *)
(***************************************************************************)
EXTENDS Bytes

Opc_0x ==
  [ nmos  |-> {<<\h00, "BRK", "IMP">>, <<\h01, "ORA", "ZPXIND">>, <<\h05, "ORA", "ZP">>,
               <<\h06, "ASL", "ZP">>, <<\h08, "PHP", "IMP">>, <<\h09, "ORA", "IMM">>,
               <<\h0A, "ASL", "ACC">>, <<\h0D, "ORA", "ABS">>, <<\h0E, "ASL", "ABS">>},
    nmosx |-> {<<\h03, "SLO", "ZPXIND">>, <<\h04, "NOP", "ZP">>, <<\h07, "SLO", "ZP">>,
               <<\h0B, "ANC", "IMM">>, <<\h0C, "NOP", "ABS">>, <<\h0F, "SLO", "ABS">>},
    cmos  |-> {<<\h04, "TSB", "ZP">>, <<\h07, "RMB", "ZP">>, <<\h0C, "TSB", "ABS">>,
               <<\h0F, "BBR", "REL">>} ]

Opc_1x ==
  [ nmos  |-> {<<\h10, "BPL", "REL">>, <<\h11, "ORA", "ZPINDY">>, <<\h15, "ORA", "ZPX">>,
               <<\h16, "ASL", "ZPX">>, <<\h18, "CLC", "IMP">>, <<\h19, "ORA", "ABSY">>,
               <<\h1D, "ORA", "ABSX">>, <<\h1E, "ASL", "ABSX_NP">>},
    nmosx |-> {<<\h13, "SLO", "ZPINDY_NP">>, <<\h14, "NOP", "ZPX">>, <<\h17, "SLO", "ZPX">>,
               <<\h1A, "NOP", "IMP">>, <<\h1B, "SLO", "ABSY_NP">>, <<\h1C, "NOP", "ABSX">>,
               <<\h1F, "SLO", "ABSX_NP">>},
    cmos  |-> {<<\h12, "ORA", "ZPIND">>, <<\h14, "TRB", "ZP">>, <<\h17, "RMB", "ZP">>,
               <<\h1A, "INC", "ACC">>, <<\h1C, "TRB", "ABS">>, <<\h1E, "ASL", "ABSX">>,
               <<\h1F, "BBR", "REL">>} ]

Opc_2x ==
  [ nmos  |-> {<<\h20, "JSR", "IMP">>, <<\h21, "AND", "ZPXIND">>, <<\h24, "BIT", "ZP">>,
               <<\h25, "AND", "ZP">>, <<\h26, "ROL", "ZP">>, <<\h28, "PLP", "IMP">>,
               <<\h29, "AND", "IMM">>, <<\h2A, "ROL", "ACC">>, <<\h2C, "BIT", "ABS">>,
               <<\h2D, "AND", "ABS">>, <<\h2E, "ROL", "ABS">>},
    nmosx |-> {<<\h23, "RLA", "ZPXIND">>, <<\h27, "RLA", "ZP">>, <<\h2B, "ANC", "IMM">>,
               <<\h2F, "RLA", "ABS">>},
    cmos  |-> {<<\h27, "RMB", "ZP">>, <<\h2F, "BBR", "REL">>} ]

Opc_3x ==
  [ nmos  |-> {<<\h30, "BMI", "REL">>, <<\h31, "AND", "ZPINDY">>, <<\h35, "AND", "ZPX">>,
               <<\h36, "ROL", "ZPX">>, <<\h38, "SEC", "IMP">>, <<\h39, "AND", "ABSY">>,
               <<\h3D, "AND", "ABSX">>, <<\h3E, "ROL", "ABSX_NP">>},
    nmosx |-> {<<\h33, "RLA", "ZPINDY_NP">>, <<\h34, "NOP", "ZPX">>, <<\h37, "RLA", "ZPX">>,
               <<\h3A, "NOP", "IMP">>, <<\h3B, "RLA", "ABSY_NP">>, <<\h3C, "NOP", "ABSX">>,
               <<\h3F, "RLA", "ABSX_NP">>},
    cmos  |-> {<<\h32, "AND", "ZPIND">>, <<\h34, "BIT", "ZPX">>, <<\h37, "RMB", "ZP">>,
               <<\h3A, "DEC", "ACC">>, <<\h3C, "BIT", "ABSX">>, <<\h3E, "ROL", "ABSX">>,
               <<\h3F, "BBR", "REL">>} ]

Opc_4x ==
  [ nmos  |-> {<<\h40, "RTI", "IMP">>, <<\h41, "EOR", "ZPXIND">>, <<\h45, "EOR", "ZP">>,
               <<\h46, "LSR", "ZP">>, <<\h48, "PHA", "IMP">>, <<\h49, "EOR", "IMM">>,
               <<\h4A, "LSR", "ACC">>, <<\h4C, "JMP", "ABS">>, <<\h4D, "EOR", "ABS">>,
               <<\h4E, "LSR", "ABS">>},
    nmosx |-> {<<\h43, "SRE", "ZPXIND">>, <<\h44, "NOP", "ZP">>, <<\h47, "SRE", "ZP">>,
               <<\h4B, "ASR", "IMM">>, <<\h4F, "SRE", "ABS">>},
    cmos  |-> {<<\h47, "RMB", "ZP">>, <<\h4F, "BBR", "REL">>} ]

Opc_5x ==
  [ nmos  |-> {<<\h50, "BVC", "REL">>, <<\h51, "EOR", "ZPINDY">>, <<\h55, "EOR", "ZPX">>,
               <<\h56, "LSR", "ZPX">>, <<\h58, "CLI", "IMP">>, <<\h59, "EOR", "ABSY">>,
               <<\h5D, "EOR", "ABSX">>, <<\h5E, "LSR", "ABSX_NP">>},
    nmosx |-> {<<\h53, "SRE", "ZPINDY_NP">>, <<\h54, "NOP", "ZPX">>, <<\h57, "SRE", "ZPX">>,
               <<\h5A, "NOP", "IMP">>, <<\h5B, "SRE", "ABSY_NP">>, <<\h5C, "NOP", "ABSX">>,
               <<\h5F, "SRE", "ABSX_NP">>},
    cmos  |-> {<<\h52, "EOR", "ZPIND">>, <<\h57, "RMB", "ZP">>, <<\h5A, "PHY", "IMP">>,
               <<\h5C, "NOP38", "IMP">>, <<\h5E, "LSR", "ABSX">>, <<\h5F, "BBR", "REL">>} ]

Opc_6x ==
  [ nmos  |-> {<<\h60, "RTS", "IMP">>, <<\h61, "ADC_6502", "ZPXIND">>, <<\h65, "ADC_6502", "ZP">>,
               <<\h66, "ROR", "ZP">>, <<\h68, "PLA", "IMP">>, <<\h69, "ADC_6502", "IMM">>,
               <<\h6A, "ROR", "ACC">>, <<\h6C, "JMP", "IND">>, <<\h6D, "ADC_6502", "ABS">>,
               <<\h6E, "ROR", "ABS">>},
    nmosx |-> {<<\h63, "RRA", "ZPXIND">>, <<\h64, "NOP", "ZP">>, <<\h67, "RRA", "ZP">>,
               <<\h6B, "ARR", "IMM">>, <<\h6F, "RRA", "ABS">>},
    cmos  |-> {<<\h61, "ADC_65C02", "ZPXIND">>, <<\h64, "STZ", "ZP">>, <<\h65, "ADC_65C02", "ZP">>,
               <<\h67, "RMB", "ZP">>, <<\h69, "ADC_65C02", "IMM">>, <<\h6C, "JMP", "IND_65C02">>,
               <<\h6D, "ADC_65C02", "ABS">>, <<\h6F, "BBR", "REL">>} ]

Opc_7x ==
  [ nmos  |-> {<<\h70, "BVS", "REL">>, <<\h71, "ADC_6502", "ZPINDY">>, <<\h75, "ADC_6502", "ZPX">>,
               <<\h76, "ROR", "ZPX">>, <<\h78, "SEI", "IMP">>, <<\h79, "ADC_6502", "ABSY">>,
               <<\h7D, "ADC_6502", "ABSX">>, <<\h7E, "ROR", "ABSX_NP">>},
    nmosx |-> {<<\h73, "RRA", "ZPINDY_NP">>, <<\h74, "NOP", "ZPX">>, <<\h77, "RRA", "ZPX">>,
               <<\h7A, "NOP", "IMP">>, <<\h7B, "RRA", "ABSY_NP">>, <<\h7C, "NOP", "ABSX">>,
               <<\h7F, "RRA", "ABSX_NP">>},
    cmos  |-> {<<\h71, "ADC_65C02", "ZPINDY">>, <<\h72, "ADC_65C02", "ZPIND">>, <<\h74, "STZ", "ZPX">>,
               <<\h75, "ADC_65C02", "ZPX">>, <<\h77, "RMB", "ZP">>, <<\h79, "ADC_65C02", "ABSY">>,
               <<\h7A, "PLY", "IMP">>, <<\h7C, "JMP", "ABSXIND">>, <<\h7D, "ADC_65C02", "ABSX">>,
               <<\h7E, "ROR", "ABSX">>, <<\h7F, "BBR", "REL">>} ]

Opc_8x ==
  [ nmos  |-> {<<\h81, "STA", "ZPXIND">>, <<\h84, "STY", "ZP">>, <<\h85, "STA", "ZP">>,
               <<\h86, "STX", "ZP">>, <<\h88, "DEY", "IMP">>, <<\h8A, "TXA", "IMP">>,
               <<\h8C, "STY", "ABS">>, <<\h8D, "STA", "ABS">>, <<\h8E, "STX", "ABS">>},
    nmosx |-> {<<\h80, "NOP", "IMM">>, <<\h82, "NOP", "IMM">>, <<\h83, "SAX", "ZPXIND">>,
               <<\h87, "SAX", "ZP">>, <<\h89, "NOP", "IMM">>, <<\h8B, "ANE", "IMM">>,
               <<\h8F, "SAX", "ABS">>},
    cmos  |-> {<<\h80, "BRA", "REL">>, <<\h87, "SMB", "ZP">>, <<\h89, "BITIMM", "IMM">>,
               <<\h8F, "BBS", "REL">>} ]

Opc_9x ==
  [ nmos  |-> {<<\h90, "BCC", "REL">>, <<\h91, "STA", "ZPINDY_NP">>, <<\h94, "STY", "ZPX">>,
               <<\h95, "STA", "ZPX">>, <<\h96, "STX", "ZPY">>, <<\h98, "TYA", "IMP">>,
               <<\h99, "STA", "ABSY_NP">>, <<\h9A, "TXS", "IMP">>, <<\h9D, "STA", "ABSX_NP">>},
    nmosx |-> {<<\h93, "SHA", "ZPINDY">>, <<\h97, "SAX", "ZPY">>, <<\h9B, "TAS", "ABSY">>,
               <<\h9C, "SHY", "ABSX">>, <<\h9E, "SHX", "ABSY">>, <<\h9F, "SHA", "ABSY">>},
    cmos  |-> {<<\h92, "STA", "ZPIND">>, <<\h97, "SMB", "ZP">>, <<\h9C, "STZ", "ABS">>,
               <<\h9E, "STZ", "ABSX_NP">>, <<\h9F, "BBS", "REL">>} ]

Opc_Ax ==
  [ nmos  |-> {<<\hA0, "LDY", "IMM">>, <<\hA1, "LDA", "ZPXIND">>, <<\hA2, "LDX", "IMM">>,
               <<\hA4, "LDY", "ZP">>, <<\hA5, "LDA", "ZP">>, <<\hA6, "LDX", "ZP">>,
               <<\hA8, "TAY", "IMP">>, <<\hA9, "LDA", "IMM">>, <<\hAA, "TAX", "IMP">>,
               <<\hAC, "LDY", "ABS">>, <<\hAD, "LDA", "ABS">>, <<\hAE, "LDX", "ABS">>},
    nmosx |-> {<<\hA3, "LAX", "ZPXIND">>, <<\hA7, "LAX", "ZP">>, <<\hAB, "LXA", "IMM">>,
               <<\hAF, "LAX", "ABS">>},
    cmos  |-> {<<\hA7, "SMB", "ZP">>, <<\hAF, "BBS", "REL">>} ]

Opc_Bx ==
  [ nmos  |-> {<<\hB0, "BCS", "REL">>, <<\hB1, "LDA", "ZPINDY">>, <<\hB4, "LDY", "ZPX">>,
               <<\hB5, "LDA", "ZPX">>, <<\hB6, "LDX", "ZPY">>, <<\hB8, "CLV", "IMP">>,
               <<\hB9, "LDA", "ABSY">>, <<\hBA, "TSX", "IMP">>, <<\hBC, "LDY", "ABSX">>,
               <<\hBD, "LDA", "ABSX">>, <<\hBE, "LDX", "ABSY">>},
    nmosx |-> {<<\hB3, "LAX", "ZPINDY">>, <<\hB7, "LAX", "ZPY">>, <<\hBB, "LAS", "ABSY">>,
               <<\hBF, "LAX", "ABSY">>},
    cmos  |-> {<<\hB2, "LDA", "ZPIND">>, <<\hB7, "SMB", "ZP">>, <<\hBF, "BBS", "REL">>} ]

Opc_Cx ==
  [ nmos  |-> {<<\hC0, "CPY", "IMM">>, <<\hC1, "CMP", "ZPXIND">>, <<\hC4, "CPY", "ZP">>,
               <<\hC5, "CMP", "ZP">>, <<\hC6, "DEC", "ZP">>, <<\hC8, "INY", "IMP">>,
               <<\hC9, "CMP", "IMM">>, <<\hCA, "DEX", "IMP">>, <<\hCC, "CPY", "ABS">>,
               <<\hCD, "CMP", "ABS">>, <<\hCE, "DEC", "ABS">>},
    nmosx |-> {<<\hC2, "NOP", "IMM">>, <<\hC3, "DCP", "ZPXIND">>, <<\hC7, "DCP", "ZP">>,
               <<\hCB, "SBX", "IMM">>, <<\hCF, "DCP", "ABS">>},
    cmos  |-> {<<\hC7, "SMB", "ZP">>, <<\hCF, "BBS", "REL">>} ]

Opc_Dx ==
  [ nmos  |-> {<<\hD0, "BNE", "REL">>, <<\hD1, "CMP", "ZPINDY">>, <<\hD5, "CMP", "ZPX">>,
               <<\hD6, "DEC", "ZPX">>, <<\hD8, "CLD", "IMP">>, <<\hD9, "CMP", "ABSY">>,
               <<\hDD, "CMP", "ABSX">>, <<\hDE, "DEC", "ABSX_NP">>},
    nmosx |-> {<<\hD3, "DCP", "ZPINDY_NP">>, <<\hD4, "NOP", "ZPX">>, <<\hD7, "DCP", "ZPX">>,
               <<\hDA, "NOP", "IMP">>, <<\hDB, "DCP", "ABSY_NP">>, <<\hDC, "NOP", "ABSX">>,
               <<\hDF, "DCP", "ABSX_NP">>},
    cmos  |-> {<<\hD2, "CMP", "ZPIND">>, <<\hD7, "SMB", "ZP">>, <<\hDA, "PHX", "IMP">>,
               <<\hDF, "BBS", "REL">>} ]

Opc_Ex ==
  [ nmos  |-> {<<\hE0, "CPX", "IMM">>, <<\hE1, "SBC_6502", "ZPXIND">>, <<\hE4, "CPX", "ZP">>,
               <<\hE5, "SBC_6502", "ZP">>, <<\hE6, "INC", "ZP">>, <<\hE8, "INX", "IMP">>,
               <<\hE9, "SBC_6502", "IMM">>, <<\hEA, "NOP", "IMP">>, <<\hEC, "CPX", "ABS">>,
               <<\hED, "SBC_6502", "ABS">>, <<\hEE, "INC", "ABS">>},
    nmosx |-> {<<\hE2, "NOP", "IMM">>, <<\hE3, "ISC", "ZPXIND">>, <<\hE7, "ISC", "ZP">>,
               <<\hEB, "SBC_6502", "IMM">>, <<\hEF, "ISC", "ABS">>},
    cmos  |-> {<<\hE1, "SBC_65C02", "ZPXIND">>, <<\hE5, "SBC_65C02", "ZP">>, <<\hE7, "SMB", "ZP">>,
               <<\hE9, "SBC_65C02", "IMM">>, <<\hED, "SBC_65C02", "ABS">>, <<\hEF, "BBS", "REL">>} ]

Opc_Fx ==
  [ nmos  |-> {<<\hF0, "BEQ", "REL">>, <<\hF1, "SBC_6502", "ZPINDY">>, <<\hF5, "SBC_6502", "ZPX">>,
               <<\hF6, "INC", "ZPX">>, <<\hF8, "SED", "IMP">>, <<\hF9, "SBC_6502", "ABSY">>,
               <<\hFD, "SBC_6502", "ABSX">>, <<\hFE, "INC", "ABSX_NP">>},
    nmosx |-> {<<\hF3, "ISC", "ZPINDY_NP">>, <<\hF4, "NOP", "ZPX">>, <<\hF7, "ISC", "ZPX">>,
               <<\hFA, "NOP", "IMP">>, <<\hFB, "ISC", "ABSY_NP">>, <<\hFC, "NOP", "ABSX">>,
               <<\hFF, "ISC", "ABSX_NP">>},
    cmos  |-> {<<\hF1, "SBC_65C02", "ZPINDY">>, <<\hF2, "SBC_65C02", "ZPIND">>, <<\hF5, "SBC_65C02", "ZPX">>,
               <<\hF7, "SMB", "ZP">>, <<\hF9, "SBC_65C02", "ABSY">>, <<\hFA, "PLX", "IMP">>,
               <<\hFD, "SBC_65C02", "ABSX">>, <<\hFF, "BBS", "REL">>} ]

-----------------------------------------------------------------------------
Rows == <<Opc_0x, Opc_1x, Opc_2x, Opc_3x, Opc_4x, Opc_5x, Opc_6x, Opc_7x,
          Opc_8x, Opc_9x, Opc_Ax, Opc_Bx, Opc_Cx, Opc_Dx, Opc_Ex, Opc_Fx>>

Row(opc) == Rows[(opc \div 16) + 1]

(* Does a family have a handler for the opcode, and which?                 *)
Has(family, opc) == \E h \in Row(opc)[family] : h[1] = opc

OPC(family, opc) ==
    LET h == CHOOSE e \in Row(opc)[family] : e[1] = opc IN [op |-> h[2], mode |-> h[3]]

Illegal == [op |-> "Illegal", mode |-> "IMP"]

OP6502Table_Fault ==
    LET slot == [opc \in Byte |-> CASE opc = \h05 -> \h25 [] opc = \h25 -> \h05 [] OTHER -> opc]
    IN  [opc \in Byte |-> IF Has("nmos", slot[opc]) THEN OPC("nmos", slot[opc]) ELSE Illegal]

OP6502Table ==
    [opc \in Byte |-> IF Has("nmos", opc) THEN OPC("nmos", opc) ELSE Illegal]

OP6502XTable ==
    [opc \in Byte |-> IF Has("nmos", opc) THEN OPC("nmos", opc)
                      ELSE IF Has("nmosx", opc) THEN OPC("nmosx", opc)
                      ELSE Illegal]

(* What the 65C02 executes at the opcodes neither family defines: NOPs, but *)
(* for two opcodes that the simulator does not implement.                   *)
CmosFiller(opc) ==
    CASE opc \in {\hCB, \hDB} -> Illegal
      [] opc % 16 \in {3, 11} /\ opc \notin {\hCB, \hDB} -> [op |-> "NOP11", mode |-> "IMP"]
      [] opc % 16 = 2         -> [op |-> "NOP22", mode |-> "IMP"]
      [] opc \in {\h54, \hD4, \hF4} -> [op |-> "NOP24", mode |-> "IMP"]
      [] opc \in {\hDC, \hFC} -> [op |-> "NOP34", mode |-> "IMP"]
      [] OTHER                -> OPC("nmosx", opc)              \* $44, NOP zp

OP65C02Table ==
    [opc \in Byte |-> IF Has("cmos", opc) THEN OPC("cmos", opc)
                      ELSE IF Has("nmos", opc) THEN OPC("nmos", opc)
                      ELSE CmosFiller(opc)]

Handlers == [CPU_6502 |-> OP6502Table, CPU_65C02 |-> OP65C02Table, CPU_6502X |-> OP6502XTable]

CPUType == {"CPU_6502", "CPU_65C02", "CPU_6502X"}
=============================================================================
