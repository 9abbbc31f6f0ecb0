----------------------------- MODULE MCHarness ------------------------------
(***************************************************************************)
(* What tests the processor, in its three parts: the test program on       *)
(* command lines; the parsing of the test cases it is given, from any      *)
(* document; and the scripts that start the test program, as if they knew  *)
(* nothing of it but its output.  A behaviour is one of one part, while    *)
(* the other two rest: what one part is to another is a constant of it.    *)
(***************************************************************************)
EXTENDS HarnessProperties, JsonTestcases, TestScripts, SupportedOpcodes

CONSTANT Parts      \* the parts to run, of "program", "documents" and "scripts"

VARIABLE part       \* the one that runs

-----------------------------------------------------------------------------
(* The program: command lines with options before, between and after       *)
(* files, with a file that cannot be used, with the same test cases in     *)
(* another order.                                                          *)

Code(base, bytes) == [a \in base .. base + Len(bytes) - 1 |-> bytes[a - base + 1]]

At0200(ac, sr, pc) == [AC |-> ac, XR |-> 0, YR |-> 0, SP |-> 1, SR |-> sr, PC |-> pc]

Testcase(bytes, from, to, cycles) ==
    [wellFormed |-> TRUE, malformed |-> {}, cycles |-> cycles,
     initial |-> [regs |-> from, mem |-> Code(\h0200, bytes)],
     final   |-> [regs |-> to, mem |-> Code(\h0200, bytes)]]

(* LDA #$80, as expected; then with a wrong accumulator and cycle count.   *)
Load  == Testcase(<<\hA9, \h80>>, At0200(1, {}, \h0200), At0200(\h80, {SF, BF}, \h0202), 2)
Wrong == Testcase(<<\hA9, \h80>>, At0200(1, {}, \h0200), At0200(\h7F, {SF}, \h0202), 3)

(* STA $10 writes a byte that the test case does not know of.              *)
Store == Testcase(<<\h85, \h10>>, At0200(5, {CF}, \h0200), At0200(5, {CF}, \h0202), 3)

(* Decimal ADC #$15 without a carry: the 65C02 takes a cycle more.         *)
Add == Testcase(<<\h69, \h15>>, At0200(\h27, {DF}, \h0200), At0200(\h42, {DF}, \h0202), 2)

(* JMP ($02FF) warns on NMOS parts.                                        *)
Jump == Testcase(<<\h6C, \hFF, \h02>>, At0200(0, {}, \h0200), At0200(0, {}, 0), 5)

(* TAX, but the test case expects X to be 9.                               *)
Move == Testcase(<<\hAA>>, At0200(7, {}, \h0200), [At0200(7, {}, \h0201) EXCEPT !.XR = 9], 2)

(* Illegal in all three models but the 65C02.                              *)
Bad == Testcase(<<\h02>>, At0200(0, {}, \h0200), At0200(0, {}, \h0200), 2)

NoFinal   == [Load EXCEPT !.malformed = {"final"}]
NoInitial == [Load EXCEPT !.malformed = {"initial"}]
NoCycles  == [Load EXCEPT !.wellFormed = FALSE]

MCFiles ==
    "a.json" :> <<Load, Jump, Store, Wrong, Load>> @@
    "b.json" :> <<Store, NoCycles, Add, Wrong, Jump, Load>> @@
    "c.json" :> <<Bad, Store, Bad, NoInitial, NoFinal, Move>> @@
    "empty.json" :> <<>>

MCLeftovers == {Load.initial, Store.final}

Args == {"--cpu-mode=65C02", "--disable-cycle-count-test", "--disable-memory-test",
         "a.json", "b.json", "c.json"}
MCCommandLines ==
    {<<>>, <<"a.json", "--help">>, <<"empty.json", "--cpu-mode=6502X", "c.json">>,
     <<"a.json", "missing.json", "b.json">>, <<"--cpu-mode=6502 ", "a.json">>}
    \cup [1..3 -> Args]

-----------------------------------------------------------------------------
(* Documents: test cases as the 65x02 suite writes them, and the same with *)
(* one thing missing, misspelt, out of range or of another type, in every  *)
(* place; two of them in a row.                                            *)

Item(type, name, value, children) ==
    [type |-> type, string |-> name, valueint |-> value, valuestring |-> NoName, child |-> children]

Number(name, value)   == Item("Number", name, value, <<>>)
Text(name, chars)     == [Item("String", name, 0, <<>>) EXCEPT !.valuestring = chars]
True(name)            == Item("True", name, 1, <<>>)
List(name, children)  == Item("Array", name, 0, children)
Dict(name, children)  == Item("Object", name, 0, children)
Cell(address, value)  == List(NoName, <<Number(NoName, address), Number(NoName, value)>>)

Registers(pc, byte) == [n \in DOMAIN Fields |-> Number(Fields[n], IF n = 1 THEN pc ELSE byte + n)]
MachineState(name, pc, byte, cells) == Dict(name, Registers(pc, byte) \o <<List("ram", cells)>>)

Case(chars, initial, final, cycles) ==
    Dict(NoName, <<Text("name", chars), initial, final,
                   List("cycles", [n \in 1..cycles |-> List(NoName, <<>>)])>>)

Good  == Case("good", MachineState("initial", 512, 10, <<Cell(512, 169), Cell(513, 0), Cell(512, 7)>>),
                      MachineState("final", 65535, 20, <<Cell(65535, 255), Cell(0, 1)>>), 2)
Other == Case("other", MachineState("initial", 0, 30, <<Cell(1, 1), Cell(513, 5)>>),
                       MachineState("final", 1, 249, <<>>), 0)

(* One edit of a list of children.                                         *)
Edits(children, replacements) ==
    {Remove(children, children[n]) : n \in DOMAIN children}
      \cup {[children EXCEPT ![n] = r] : n \in DOMAIN children, r \in replacements}

Renamed(item, name) == [item EXCEPT !.string = name]

Values == {-1, 0, 255, 256, 65535, 65536}
BadCells == {Cell(-1, 0), Cell(65536, 1), Cell(0, 256), Cell(0, -1), Number(NoName, 3), List(NoName, <<>>),
             List(NoName, <<Number(NoName, 1)>>), List(NoName, <<True(NoName), Text(NoName, "1")>>),
             List(NoName, <<Number(NoName, 1), Number(NoName, 2), Number(NoName, 3)>>)}

MachineStates(item) ==
    LET ram == item.child[Len(item.child)]
    IN  {[item EXCEPT !.child = c] : c \in
            UNION {{[item.child EXCEPT ![n] = Number(item.child[n].string, value)] : value \in Values}
                       \cup {[item.child EXCEPT ![n] = Text(item.child[n].string, "1")], [item.child EXCEPT ![n].string = "z"]}
                     : n \in DOMAIN Fields}
              \cup {[item.child EXCEPT ![Len(item.child)] = Dict("ram", <<>>)], Reverse(item.child)}
              \cup {[item.child EXCEPT ![Len(item.child)] = List("ram", c)] : c \in Edits(ram.child, BadCells)}
              \cup {<<Number("pc", 77)>> \o item.child}}
          \cup {Number(item.string, 1), Renamed(item, "Initial"),
                List(item.string, [n \in DOMAIN item.child |-> Renamed(item.child[n], NoName)])}

Edited ==
    {[Good EXCEPT !.child[2] = s] : s \in MachineStates(Good.child[2])}
      \cup {[Good EXCEPT !.child[3] = s] : s \in MachineStates(Good.child[3])}
      \cup {[Good EXCEPT !.child = c] : c \in
               Edits(Good.child, {Number("name", 1), Number("cycles", 2), Text("name", "x")})}
      \cup {Number(NoName, 1), List(NoName, [n \in DOMAIN Good.child |-> Renamed(Good.child[n], NoName)]), Item("NULL", NoName, 0, <<>>)}

MCDocuments ==
    {<<first, second>> : first \in {Good, Other} \cup Edited, second \in {Good, Other}}
      \cup {<<first, second>> : first \in {Good, Other}, second \in Edited}

MCGarbage ==
    {[name |-> NoName, cycles |-> 9,
      initial |-> [regs |-> [f \in Range(Fields) |-> 99], ram |-> 512 :> 99 @@ 3 :> 99],
      final   |-> [regs |-> [f \in Range(Fields) |-> 98], ram |-> 4 :> 98]]}

-----------------------------------------------------------------------------
(* Scripts: the three jobs of test_opcodes.py, cut down to opcodes that    *)
(* are treated differently by the three processors, on two processes; one  *)
(* run that may be killed or fail, and another behind it.                  *)

Variants  == <<"CPU_6502", "CPU_6502X", "CPU_65C02">>
MCOpcode  == {\h00, \hCB}
MCSupported == [j \in 1..3 |-> Listed[Variants[j]] \cap MCOpcode]
MCResults == {[errors |-> 0, tests |-> 200], [errors |-> 1, tests |-> 200], [errors |-> 0, tests |-> 0]}

(* A finished dashboard calls illegal exactly what the simulator reports as *)
(* illegal, and of all 256 opcodes those are tested that are implemented:   *)
(* no instruction goes untested, and no test asks for one that ends in      *)
(* Error (the lists of test_opcodes.py against the dispatch tables).        *)
TestsWhatIsImplemented ==
    main = "done" =>
        /\ \A j \in Jobs, opcode \in Opcode :
              page.tables[j].cells[opcode] = "illegal" <=> Handlers[Variants[j]][opcode] = Illegal
        /\ \A cpu \in CPUType : Listed[cpu] = {opcode \in 0..255 : Handlers[cpu][opcode] # Illegal}

-----------------------------------------------------------------------------
(* The parts *)

allVars == <<harnessVars, testcaseVars, scriptVars, part>>

(* The program where it has nothing to do, as at its end.                  *)
ProgramRests ==
    /\ CPU = "CPU_6502" /\ Mem = <<>> /\ Cycles = 0 /\ Reported = {}
    /\ Regs = [AC |-> 0, XR |-> 0, YR |-> 0, SP |-> 0, SR |-> {}, PC |-> 0]
    /\ HaveNMIRequest = FALSE /\ HaveIRQRequest = FALSE
    /\ Counter = [f \in CounterFields |-> 0]
    /\ argv = <<>> /\ i = 1
    /\ cpu_mode = "CPU_6502" /\ test_flags = {}
    /\ testcase_index = 0 /\ testcase_error = 0
    /\ testcase = [initial |-> Load.initial, final |-> Load.final, cycles |-> 0]
    /\ phase = "success"
    /\ log = <<>>

DocumentsRest ==
    /\ document = <<>> /\ index = 0 /\ result = 0
    /\ structure \in Garbage /\ before = structure

MCInit ==
    /\ part \in Parts
    /\ IF part = "documents" THEN ParseInit   ELSE DocumentsRest
    /\ IF part = "program"   THEN HarnessInit ELSE ProgramRests
    /\ ScriptInit

ProgramRuns     == part = "program" /\ HarnessNext /\ UNCHANGED <<part, testcaseVars, scriptVars>>
DocumentsParsed == part = "documents" /\ ParseNext /\ UNCHANGED <<part, harnessVars, scriptVars>>
ScriptsRun      == part = "scripts" /\ ScriptNext /\ UNCHANGED <<part, harnessVars, testcaseVars>>

MCSpec ==
    /\ MCInit /\ [][ProgramRuns \/ DocumentsParsed \/ ScriptsRun]_allVars
    /\ WF_allVars(ProgramRuns)
    /\ WF_allVars(part = "scripts" /\ ScriptStep /\ UNCHANGED <<part, harnessVars, testcaseVars>>)
=============================================================================
