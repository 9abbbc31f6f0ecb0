---------------------------- MODULE TestHarness -----------------------------
(***************************************************************************)
(* The test program around the processor (sim65-test.c, sim65-testcase.c): *)
(* it walks its command line, reads the test cases of each file, runs one  *)
(* instruction for each and compares the machine with what the test case   *)
(* expects.  JSON, files and printing are abstracted to what they deliver: *)
(* a file either can be read or cannot, a test case is well formed or not, *)
(* and what is printed is a log of verdicts.                               *)
(***************************************************************************)
EXTENDS Cpu6502, SequencesExt

CONSTANTS
    CommandLines,   \* the command lines to try: sequences of arguments
    Files,          \* name -> sequence of test cases, for the files that can be processed
    Leftovers       \* machine states an uninitialised test case may hold

(* A machine state as a test case gives it: registers and memory.  Its     *)
(* status byte may lack bits 4 and 5.                                      *)
IsMachineState(s) == IsRegs(s.regs) /\ IsMemory(s.mem)

(* wellFormed: it is an object with a name and a list of cycles;           *)
(* malformed: which of its two machine states do not parse.                *)
IsTestcase(t) ==
    /\ t.wellFormed \in BOOLEAN
    /\ t.malformed \subseteq {"initial", "final"}
    /\ IsMachineState(t.initial) /\ IsMachineState(t.final)
    /\ t.cycles \in Nat

ASSUME FilesAssumption ==
    \A name \in DOMAIN Files :
        /\ Len(Files[name]) \in Nat
        /\ DOMAIN Files[name] = 1..Len(Files[name])
        /\ \A n \in DOMAIN Files[name] : IsTestcase(Files[name][n])
ASSUME LeftoversAssumption == Leftovers # {} /\ \A s \in Leftovers : IsMachineState(s)
ASSUME CommandLinesAssumption == \A line \in CommandLines : line \in Seq(STRING)

VARIABLES
    argv,              \* the command line
    i,                 \* the argument main is at
    cpu_mode,
    test_flags,
    testcase_index,    \* of the current file, 0 before its first test case
    testcase_error,    \* how many of them deviated
    testcase,          \* [initial, final, cycles]: the structure on the stack
    phase,             \* where the program is
    log                \* what it has printed: one record per test case, one per file

program == <<argv, cpu_mode, test_flags>>
cursor  == <<i, testcase_index, testcase_error>>
harnessVars == <<vars, argv, i, cpu_mode, test_flags, testcase_index, testcase_error,
                 testcase, phase, log>>

(* The machine before main: zeroed statics.                                *)
HarnessInit ==
    /\ CPU = "CPU_6502"
    /\ Regs = [AC |-> 0, XR |-> 0, YR |-> 0, SP |-> 0, SR |-> {}, PC |-> 0]
    /\ Mem = <<>>
    /\ Cycles = 0
    /\ HaveNMIRequest = FALSE
    /\ HaveIRQRequest = FALSE
    /\ Counter = [f \in CounterFields |-> 0]
    /\ Reported = {}
    /\ argv \in CommandLines
    /\ i = 1
    /\ cpu_mode = "CPU_6502"
    /\ test_flags = {"CYCLECOUNT", "MEMORY"}
    /\ testcase_index = 0
    /\ testcase_error = 0
    /\ testcase \in [initial : Leftovers, final : Leftovers, cycles : {0}]
    /\ phase = "start"
    /\ log = <<>>

-----------------------------------------------------------------------------
(* main *)

ModeOption ==
    [option \in {"--cpu-mode=6502", "--cpu-mode=6502X", "--cpu-mode=65C02"} |->
        CASE option = "--cpu-mode=6502"  -> "CPU_6502"
          [] option = "--cpu-mode=6502X" -> "CPU_6502X"
          [] option = "--cpu-mode=65C02" -> "CPU_65C02"]

FlagOption ==
    [option \in {"--disable-cycle-count-test", "--disable-memory-test"} |->
        IF option = "--disable-memory-test" THEN "MEMORY" ELSE "CYCLECOUNT"]

Options == DOMAIN ModeOption \cup DOMAIN FlagOption

AsksForHelp == argv = <<>> \/ Range(argv) \cap {"-h", "--help"} # {}

Start ==
    /\ phase = "start"
    /\ phase' = IF AsksForHelp THEN "success" ELSE "args"
    /\ UNCHANGED <<vars, program, cursor, testcase, log>>

TakeOption_Fault ==
    /\ phase = "args"
    /\ i \in DOMAIN argv
    /\ argv[i] \in Options
    /\ cpu_mode' = IF argv[i] \in DOMAIN ModeOption THEN ModeOption[argv[i]] ELSE cpu_mode
    /\ UNCHANGED <<vars, argv, cursor, test_flags, testcase, phase, log>>

TakeOption ==
    /\ phase = "args"
    /\ i \in DOMAIN argv
    /\ \/ /\ argv[i] \in DOMAIN ModeOption
          /\ cpu_mode' = ModeOption[argv[i]]
          /\ UNCHANGED test_flags
       \/ /\ argv[i] \in DOMAIN FlagOption
          /\ test_flags' = test_flags \ {FlagOption[argv[i]]}
          /\ UNCHANGED cpu_mode
    /\ i' = i + 1
    /\ UNCHANGED <<vars, argv, testcase_index, testcase_error, testcase, phase, log>>

(* Everything that is no option is a file.                                 *)
OpenFile ==
    /\ phase = "args"
    /\ i \in DOMAIN argv
    /\ argv[i] \notin Options
    /\ argv[i] \in DOMAIN Files
    /\ testcase_index' = 0
    /\ testcase_error' = 0
    /\ phase' = "parse"
    /\ UNCHANGED <<vars, program, i, testcase, log>>

(* It cannot be opened, read or parsed: the remaining arguments are not    *)
(* looked at.                                                              *)
UnableToProcess ==
    /\ phase = "args"
    /\ i \in DOMAIN argv
    /\ argv[i] \notin Options
    /\ argv[i] \notin DOMAIN Files
    /\ phase' = "failure"
    /\ UNCHANGED <<vars, program, cursor, testcase, log>>

Finish ==
    /\ phase = "args"
    /\ i \notin DOMAIN argv
    /\ phase' = "success"
    /\ UNCHANGED <<vars, program, cursor, testcase, log>>

-----------------------------------------------------------------------------
(* process_json_testcase_array *)

Testcases == Files[argv[i]]
Json      == Testcases[testcase_index']

CannotBeParsed ==
    /\ phase = "parse"
    /\ testcase_index < Len(Testcases)
    /\ testcase_index' = testcase_index + 1
    /\ ~Json.wellFormed
    /\ testcase' \in [initial : Leftovers, final : Leftovers, cycles : {testcase.cycles}]
    /\ log' = Append(log, [file |-> argv[i], index |-> testcase_index', mode |-> cpu_mode,
                           flags |-> test_flags, parsed |-> FALSE])
    /\ UNCHANGED <<vars, program, i, testcase_error, phase>>

(* A machine state that does not parse is not noticed: what the structure  *)
(* then holds was there before, or comes from the part that did parse.     *)
Parsed(which) == IF which \in Json.malformed THEN Leftovers ELSE {Json[which]}

ParseTestcase ==
    /\ phase = "parse"
    /\ testcase_index < Len(Testcases)
    /\ testcase_index' = testcase_index + 1
    /\ Json.wellFormed
    /\ testcase' \in [initial : Parsed("initial"), final : Parsed("final"), cycles : {Json.cycles}]
    /\ phase' = "prepare"
    /\ UNCHANGED <<vars, program, i, testcase_error, log>>

EndOfFile ==
    /\ phase = "parse"
    /\ testcase_index = Len(Testcases)
    /\ log' = Append(log, [file |-> argv[i], index |-> 0, deviations |-> testcase_error])
    /\ i' = i + 1
    /\ phase' = "args"
    /\ UNCHANGED <<vars, program, testcase_index, testcase_error, testcase>>

-----------------------------------------------------------------------------
(* execute_testcase *)

fix_p_register_value(p) == p \cup AlwaysOne

Prepare_Fault ==
    /\ phase = "prepare"
    /\ CPU' = cpu_mode
    /\ HaveNMIRequest' = FALSE
    /\ HaveIRQRequest' = FALSE
    /\ Regs' = [testcase.initial.regs EXCEPT !.SR = fix_p_register_value(@)]
    /\ Mem' = testcase.initial.mem
    /\ phase' = "run"
    /\ UNCHANGED <<Reported, Cycles, Counter, program, cursor, testcase, log>>

(* Reset, and then every register and all of memory from the test case.    *)
(* The reset vector that is written first is overwritten with the rest.    *)
Prepare ==
    /\ phase = "prepare"
    /\ CPU' = cpu_mode
    /\ HaveNMIRequest' = FALSE
    /\ HaveIRQRequest' = FALSE
    /\ Reported' = {}
    /\ Regs' = [testcase.initial.regs EXCEPT !.SR = fix_p_register_value(@)]
    /\ Mem' = testcase.initial.mem
    /\ phase' = "run"
    /\ UNCHANGED <<Cycles, Counter, program, cursor, testcase, log>>

RunInsn ==
    /\ phase = "run"
    /\ ExecuteInsn
    /\ phase' = "verify"
    /\ UNCHANGED <<program, cursor, testcase, log>>

Differing(m, n) == {a \in DOMAIN m \cup DOMAIN n : MemReadByte(m, a) # MemReadByte(n, a)}

(* The messages: which check failed and the two values that are printed.   *)
(* For three registers the expected value is taken from another register.  *)
Deviation(check, expected, sim65) == [check |-> check, expected |-> expected, sim65 |-> sim65]

Printed(reg) == CASE reg \in {"XR", "YR"} -> "AC" [] reg = "PC" -> "SP" [] OTHER -> reg

(* What a test case does not expect of a machine that has executed it, by   *)
(* the checks that are not disabled.                                       *)
Deviations(t, regs, mem, cycles, flags) ==
    LET final  == t.final
        wrong  == {reg \in {"AC", "XR", "YR", "SP", "PC"} : regs[reg] # final.regs[reg]}
        cells  == Differing(mem, final.mem)
        cell   == Min(cells)
    IN  {Deviation(reg, final.regs[Printed(reg)], regs[reg]) : reg \in wrong}
        \cup When(Deviation("SR", ToByte(final.regs.SR), ToByte(regs.SR)),
                  regs.SR # fix_p_register_value(final.regs.SR))
        \cup When(Deviation("CYCLECOUNT", t.cycles, cycles),
                  "CYCLECOUNT" \in flags /\ cycles # t.cycles)
        \cup (IF "MEMORY" \in flags /\ cells # {}
              THEN {Deviation("MEMORY", MemReadByte(final.mem, cell), MemReadByte(mem, cell))}
              ELSE {})

Errors == Deviations(testcase, Regs, Mem, Cycles, test_flags)

Verify_Fault ==
    /\ phase = "verify"
    /\ log' = Append(log, [file |-> argv[i], index |-> testcase_index, mode |-> cpu_mode,
                           flags |-> test_flags, parsed |-> TRUE,
                           errors |-> Errors, notices |-> Reported])
    /\ testcase_error' = testcase_error + IF Errors # {} \/ Reported # {} THEN 1 ELSE 0
    /\ phase' = "parse"
    /\ UNCHANGED <<vars, program, i, testcase_index, testcase>>

Verify ==
    /\ phase = "verify"
    /\ log' = Append(log, [file |-> argv[i], index |-> testcase_index, mode |-> cpu_mode,
                           flags |-> test_flags, parsed |-> TRUE,
                           errors |-> Errors, notices |-> Reported])
    /\ testcase_error' = testcase_error + IF Errors # {} THEN 1 ELSE 0
    /\ phase' = "parse"
    /\ UNCHANGED <<vars, program, i, testcase_index, testcase>>

HarnessNext ==
    \/ Start \/ TakeOption \/ OpenFile \/ UnableToProcess \/ Finish
    \/ CannotBeParsed \/ ParseTestcase \/ EndOfFile
    \/ Prepare \/ RunInsn \/ Verify

(* One thread that nothing stops.                                          *)
HarnessSpec == HarnessInit /\ [][HarnessNext]_harnessVars /\ WF_harnessVars(HarnessNext)
=============================================================================
