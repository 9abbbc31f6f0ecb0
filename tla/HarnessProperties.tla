------------------------- MODULE HarnessProperties --------------------------
(***************************************************************************)
(* What a reader of the test program's output relies on.                   *)
(***************************************************************************)
EXTENDS TestHarness

Entries  == {log[n] : n \in DOMAIN log}
Verdicts == {e \in Entries : e.index > 0 /\ e.parsed}

TestcaseOf(e) == Files[e.file][e.index]
ReportedIllegal(e)    == "error" \in e.notices

(* The machine is well formed in every test case, however malformed the     *)
(* file, and bits 4 and 5 of the status register are one when it runs.      *)
HarnessTypeOK ==
    /\ TypeOK
    /\ IsMachineState(testcase.initial) /\ IsMachineState(testcase.final)
    /\ test_flags \subseteq {"CYCLECOUNT", "MEMORY"}
    /\ testcase_error \in 0..testcase_index
    /\ phase \in {"start", "args", "parse", "prepare", "run", "verify", "success", "failure"}
    /\ phase \in {"run", "verify"} => CPU = cpu_mode /\ AlwaysOne \subseteq Regs.SR

-----------------------------------------------------------------------------
(* Reference: what a command line asks for *)

(* The first argument that is neither an option nor a usable file.         *)
Stop(line) ==
    Min({n \in DOMAIN line : line[n] \notin Options \cup DOMAIN Files} \cup {Len(line) + 1})

ModeAt(line, n) ==
    LET given == {m \in 1..n-1 : line[m] \in DOMAIN ModeOption}
    IN  IF given = {} THEN "CPU_6502" ELSE ModeOption[line[Max(given)]]

FlagsAt(line, n) ==
    {flag \in {"CYCLECOUNT", "MEMORY"} : \A m \in 1..n-1 :
        line[m] \in DOMAIN FlagOption => FlagOption[line[m]] # flag}

(* The lines of one file: its test cases in order, then its summary; and   *)
(* the lines of the first n arguments.                                     *)
Lines(line, n) ==
    IF line[n] \in Options THEN <<>>
    ELSE Append([k \in DOMAIN Files[line[n]] |->
                    <<line[n], k, ModeAt(line, n), FlagsAt(line, n)>>],
                <<line[n], 0>>)

LinesUpTo(line) ==
    LET upTo[n \in 0..Stop(line)-1] ==
            IF n = 0 THEN <<>> ELSE upTo[n - 1] \o Lines(line, n)
    IN  upTo

Requested == IF AsksForHelp THEN <<>> ELSE LinesUpTo(argv)[Stop(argv) - 1]

Line(e) == IF e.index = 0 THEN <<e.file, 0>> ELSE <<e.file, e.index, e.mode, e.flags>>
Done    == [n \in DOMAIN log |-> Line(log[n])]

Deviating(from, to) == {n \in from..to : log[n].parsed /\ log[n].errors # {}}

SummaryAddsUp ==
    \A n \in DOMAIN log : log[n].index = 0 =>
        log[n].deviations = Cardinality(Deviating(n - Len(Files[log[n].file]), n - 1))

(* Every test case of every file is reported once and in order, under the   *)
(* options to the left of its file and no others; a file's summary counts   *)
(* those of its own that deviated; nothing after the first unusable file is *)
(* reported; and the exit status says whether there was one (main,          *)
(* process_json_testcase_array).                                            *)
ReportsWhatWasRequested ==
    /\ IsPrefix(Done, Requested)
    /\ SummaryAddsUp
    /\ phase \in {"success", "failure"} => Done = Requested
    /\ phase = "failure" => ~AsksForHelp /\ Stop(argv) <= Len(argv)
    /\ phase = "success" => AsksForHelp \/ Stop(argv) > Len(argv)

(* The verdict on a test case does not depend on what ran before it, in     *)
(* whatever file and position it stands, and disabling a check removes the  *)
(* deviations of that check and nothing else: no register, no flag, no      *)
(* byte of memory, no report and no request survives from one test case to  *)
(* the next (execute_testcase).  Illegal opcodes are stated below.          *)
Enabled(e, d) == {x \in e.errors : x.check \in {"CYCLECOUNT", "MEMORY"} => x.check \in d.flags}

SameVerdict(d, e) == d.notices = e.notices /\ Enabled(d, e) = Enabled(e, d)

SameCase(d, e) ==
    TestcaseOf(d) = TestcaseOf(e) /\ TestcaseOf(d).malformed = {} /\ d.mode = e.mode

VerdictIsLocal ==
    \A d, e \in Verdicts : SameCase(d, e) /\ ~ReportedIllegal(d) => SameVerdict(d, e)

(* The program comes to an end.                                             *)
Termination == <>(phase \in {"success", "failure"})

-----------------------------------------------------------------------------
(* Statements of the comments that the program does not live up to. *)

(* Also for an illegal opcode ExecuteInsn returns "the number of clock      *)
(* cycles for the executed instruction" (6502.h), so that the verdict       *)
(* depends on the instruction and not on the one before it.                 *)
IllegalVerdictIsLocal ==
    \A d, e \in Verdicts : SameCase(d, e) /\ ReportedIllegal(d) => SameVerdict(d, e)

(* A test case in which a field is not found ("return -1; // Field not      *)
(* found.") is reported as one that cannot be parsed, and is not executed.  *)
OnlyParsedTestcasesRun == \A e \in Verdicts : TestcaseOf(e).malformed = {}
=============================================================================
