--------------------------- MODULE HarnessProofs ----------------------------
(***************************************************************************)
(* The machine under test is well formed throughout, what is printed is    *)
(* what was asked for, and verdicts depend on nothing that ran before, for *)
(* every command line and every set of files, however malformed.           *)
(***************************************************************************)
EXTENDS Cpu6502Proofs, HarnessProperties, ProofLemmas, FiniteSetTheorems

(* What makes it inductive: where a test case is being processed, its file *)
(* is there, and it has been counted but has not been found deviating yet. *)
AtTestcase == phase \in {"prepare", "run", "verify"}

HarnessInv ==
    /\ HarnessTypeOK
    /\ cpu_mode \in CPUType
    /\ testcase_index \in Nat
    /\ testcase_error \in Nat
    /\ AtTestcase => testcase_error < testcase_index
    /\ AtTestcase \/ phase = "parse" => argv[i] \in DOMAIN Files

(* Before main the registers and the memory are zero.                      *)
LEMMA HarnessInitHolds == HarnessInit => HarnessInv
<1> SUFFICES ASSUME HarnessInit
             PROVE  HarnessInv
  OBVIOUS
<1>1. IsRegs(Regs)
  BY SMT DEF HarnessInit, IsRegs, Byte, Word
<1>2. IsMemory(Mem)
  <2>1. DOMAIN Mem = {}
    BY SMT DEF HarnessInit
  <2> QED
    BY <2>1 DEF IsMemory
<1>3. TypeOK
  <2>1. 0 \in 0..CounterMod-1 /\ 0 \in 0..8
    BY CounterModAssumption, SMT
  <2> QED
    BY <1>1, <1>2, <2>1 DEF HarnessInit, TypeOK, CPUType
<1>4. IsMachineState(testcase.initial) /\ IsMachineState(testcase.final)
  BY LeftoversAssumption DEF HarnessInit
<1>5. testcase_error \in 0..testcase_index /\ testcase_index \in Nat /\ testcase_error \in Nat
  BY SMT DEF HarnessInit
<1>6. cpu_mode \in CPUType
  BY DEF HarnessInit, CPUType
<1> QED
  BY <1>3, <1>4, <1>5, <1>6 DEF HarnessInit, HarnessInv, HarnessTypeOK, AtTestcase

(* The machine a test case starts from is a start state of the processor.  *)
LEMMA PreparedIsSound ==
    ASSUME HarnessInv, Prepare
    PROVE  IInv' /\ CPU' = cpu_mode
<1> DEFINE regs == testcase.initial.regs
           sr   == fix_p_register_value(regs.SR)
<1>1. IsRegs(regs) /\ IsMemory(testcase.initial.mem)
  BY DEF HarnessInv, HarnessTypeOK, IsMachineState
<1>2. sr \subseteq 0..7 /\ {BF, UF} \subseteq sr
  <2>1. {BF, UF} \subseteq 0..7
    BY SMT DEF BF, UF
  <2>2. regs.SR \subseteq 0..7
    BY <1>1 DEF IsRegs
  <2> QED
    BY <2>1, <2>2 DEF fix_p_register_value, AlwaysOne
<1> HIDE DEF sr
<1>3. IsRegs([regs EXCEPT !.SR = sr]) /\ [regs EXCEPT !.SR = sr].SR = sr
  BY <1>1, <1>2 DEF IsRegs
<1>4. Regs' = [regs EXCEPT !.SR = sr] /\ Mem' = testcase.initial.mem
  BY DEF Prepare, sr
<1>5. TypeOK'
  BY <1>1, <1>3, <1>4 DEF Prepare, HarnessInv, HarnessTypeOK, TypeOK
<1>6. SrHighBits'
  BY <1>2, <1>3, <1>4 DEF SrHighBits, AlwaysOne
<1> QED
  BY <1>5, <1>6 DEF Prepare, IInv

(* The instruction under test keeps it one.                                *)
LEMMA ExecutionIsSound ==
    ASSUME HarnessInv, RunInsn
    PROVE  IInv' /\ CPU' = CPU
<1>1. IInv
  BY DEF HarnessInv, HarnessTypeOK, RunInsn, IInv, SrHighBits
<1>2. IInv'
  BY <1>1, NextInv DEF RunInsn, Next
<1>3. CPU' = CPU
  BY DEF RunInsn, ExecuteInsn, ServeNMI, ServeIRQ, ExecuteOpcode
<1> QED
  BY <1>2, <1>3

(* The structure a test case is parsed into holds machine states, whether  *)
(* or not it parses.                                                       *)
LEMMA ParsedIsMachineState ==
    ASSUME HarnessInv, phase = "parse", testcase_index < Len(Testcases),
           testcase_index' = testcase_index + 1, UNCHANGED <<argv, i>>,
           NEW which \in {"initial", "final"}, NEW s \in Parsed(which)
    PROVE  IsMachineState(s)
<1>1. argv[i] \in DOMAIN Files
  BY DEF HarnessInv
<1> DEFINE n == testcase_index'
<1>2. n \in 1..Len(Testcases)
  <2>1. Len(Testcases) \in Nat /\ testcase_index \in Nat
    BY <1>1, FilesAssumption DEF Testcases, HarnessInv
  <2> QED
    BY <2>1, SMT
<1>3. IsTestcase(Testcases[n])
  BY <1>1, <1>2, FilesAssumption DEF Testcases
<1> QED
  BY <1>3, LeftoversAssumption DEF Parsed, Json, IsTestcase

(* No step of the program breaks the invariant.                            *)
LEMMA HarnessStepHolds == HarnessInv /\ [HarnessNext]_harnessVars => HarnessInv'
<1> SUFFICES ASSUME HarnessInv, [HarnessNext]_harnessVars
             PROVE  HarnessInv'
  OBVIOUS
<1> USE DEF HarnessInv, HarnessTypeOK, AtTestcase
<1>0. ASSUME UNCHANGED vars PROVE TypeOK' /\ Regs' = Regs /\ CPU' = CPU
  BY <1>0 DEF vars, TypeOK
<1>1. CASE Start
  BY <1>0, <1>1 DEF Start, program, cursor
<1>2. CASE TakeOption
  <2>1. cpu_mode' \in CPUType
    BY <1>2 DEF TakeOption, ModeOption, CPUType
  <2>2. test_flags' \subseteq test_flags
    BY <1>2 DEF TakeOption
  <2> QED
    BY <1>0, <1>2, <2>1, <2>2 DEF TakeOption
<1>3. CASE OpenFile
  <2>1. 0 \in 0..0 /\ 0 \in Nat
    BY SMT
  <2> QED
    BY <1>0, <1>3, <2>1 DEF OpenFile, program
<1>4. CASE UnableToProcess
  BY <1>0, <1>4 DEF UnableToProcess, program, cursor
<1>5. CASE Finish
  BY <1>0, <1>5 DEF Finish, program, cursor
<1>6. CASE CannotBeParsed
  <2>1. IsMachineState(testcase'.initial) /\ IsMachineState(testcase'.final)
    BY <1>6, LeftoversAssumption DEF CannotBeParsed
  <2>2. testcase_index' \in Nat /\ testcase_error \in 0..testcase_index'
    BY <1>6, SMT DEF CannotBeParsed
  <2> QED
    BY <1>0, <1>6, <2>1, <2>2 DEF CannotBeParsed, program
<1>7. CASE ParseTestcase
  <2>1. testcase'.initial \in Parsed("initial") /\ testcase'.final \in Parsed("final")
    BY <1>7 DEF ParseTestcase
  <2>2. IsMachineState(testcase'.initial) /\ IsMachineState(testcase'.final)
    BY <1>7, <2>1, ParsedIsMachineState DEF ParseTestcase, program
  <2>3. /\ testcase_index' \in Nat /\ testcase_error \in 0..testcase_index'
        /\ testcase_error < testcase_index'
    BY <1>7, SMT DEF ParseTestcase
  <2> QED
    BY <1>0, <1>7, <2>2, <2>3 DEF ParseTestcase, program
<1>8. CASE EndOfFile
  BY <1>0, <1>8 DEF EndOfFile, program
<1>9. CASE Prepare
  <2>1. TypeOK' /\ AlwaysOne \subseteq Regs'.SR /\ CPU' = cpu_mode
    BY <1>9, PreparedIsSound DEF IInv, SrHighBits
  <2> QED
    BY <1>9, <2>1 DEF Prepare, program, cursor
<1>10. CASE RunInsn
  <2>1. TypeOK' /\ AlwaysOne \subseteq Regs'.SR /\ CPU' = CPU
    BY <1>10, ExecutionIsSound DEF IInv, SrHighBits
  <2> QED
    BY <1>10, <2>1 DEF RunInsn, program, cursor
<1>11. CASE Verify
  <2>1. testcase_error' \in Nat /\ testcase_error' \in 0..testcase_index
    BY <1>11, SMT DEF Verify
  <2> QED
    BY <1>0, <1>11, <2>1 DEF Verify, program
<1>12. CASE UNCHANGED harnessVars
  BY <1>0, <1>12 DEF harnessVars
<1> QED
  BY <1>1, <1>2, <1>3, <1>4, <1>5, <1>6, <1>7, <1>8, <1>9, <1>10, <1>11, <1>12 DEF HarnessNext

(* Whatever the files hold, the processor only ever executes an             *)
(* instruction on a well-formed machine of the requested model with bits 4  *)
(* and 5 of the status register set (fix_p_register_value, Prepare), and no *)
(* summary counts more deviating test cases than there are.                 *)
THEOREM HarnessTypeCorrect == HarnessSpec => []HarnessTypeOK
<1>1. HarnessInit => HarnessInv
  BY HarnessInitHolds
<1>2. HarnessInv /\ [HarnessNext]_harnessVars => HarnessInv'
  BY HarnessStepHolds
<1>3. HarnessInv => HarnessTypeOK
  BY DEF HarnessInv
<1> QED
  BY <1>1, <1>2, <1>3, PTL DEF HarnessSpec

-----------------------------------------------------------------------------
(* What a command line asks for *)

(* Every argument before the stop is an option or a usable file.           *)
LEMMA StopIsReached ==
    ASSUME NEW line \in Seq(STRING)
    PROVE  /\ Stop(line) \in 1..Len(line)+1
           /\ \A n \in 1..Stop(line)-1 : n \in DOMAIN line /\ line[n] \in Options \cup DOMAIN Files
           /\ Stop(line) <= Len(line) => line[Stop(line)] \notin Options \cup DOMAIN Files
<1> DEFINE S == {n \in DOMAIN line : line[n] \notin Options \cup DOMAIN Files} \cup {Len(line) + 1}
<1>1. Len(line) \in Nat /\ DOMAIN line = 1..Len(line)
  BY SMT
<1>2. S \in SUBSET Nat /\ S # {} /\ S \subseteq 1..Len(line)+1
  BY <1>1
<1>3. PICK least \in S : \A m \in S : least <= m
  <2> HIDE DEF S
  <2> QED
    BY <1>2, Least
<1>4. Stop(line) \in S /\ \A m \in S : Stop(line) <= m
  <2>1. Stop(line) = CHOOSE x \in S : \A y \in S : x =< y
    BY DEF Stop, Min
  <2> HIDE DEF S
  <2> QED
    BY <1>3, <2>1
<1>5. Stop(line) \in 1..Len(line)+1
  BY <1>2, <1>4
<1>6. ASSUME NEW n \in 1..Stop(line)-1
      PROVE  n \in DOMAIN line /\ line[n] \in Options \cup DOMAIN Files
  <2>1. n \in 1..Len(line) /\ n < Stop(line)
    BY <1>1, <1>5
  <2>2. n \notin S
    <3>1. n \in S => Stop(line) <= n
      BY <1>4
    <3> QED
      BY <1>5, <2>1, <3>1
  <2> QED
    BY <1>1, <2>1, <2>2
<1>7. Stop(line) <= Len(line) => line[Stop(line)] \notin Options \cup DOMAIN Files
  BY <1>1, <1>4, <1>5
<1> QED
  BY <1>5, <1>6, <1>7

(* The lines of a file.                                                    *)
LEMMA LinesOfFile ==
    ASSUME NEW line, NEW n, line[n] \in DOMAIN Files, line[n] \notin Options
    PROVE  LET length == Len(Files[line[n]])
           IN  /\ length \in Nat
               /\ Len(Lines(line, n)) = length + 1
               /\ \A k \in 1..length :
                     Lines(line, n)[k] = <<line[n], k, ModeAt(line, n), FlagsAt(line, n)>>
               /\ Lines(line, n)[length + 1] = <<line[n], 0>>
               /\ \E S : Lines(line, n) \in Seq(S)
<1> DEFINE length == Len(Files[line[n]])
           entry(k) == <<line[n], k, ModeAt(line, n), FlagsAt(line, n)>>
           summary == <<line[n], 0>>
           s == [k \in 1..length |-> entry(k)]
           S == {entry(k) : k \in 1..length}
<1>1. length \in Nat /\ DOMAIN Files[line[n]] = 1..length
  BY FilesAssumption
<1>2. Lines(line, n) = Append(s, summary)
  BY <1>1 DEF Lines
<1> HIDE DEF entry, summary, length
<1>3. s \in Seq(S) /\ Len(s) = length /\ \A k \in 1..length : s[k] = entry(k)
  BY <1>1
<1> HIDE DEF s, S
<1>4. /\ Lines(line, n) \in Seq(S \cup {summary})
      /\ Len(Lines(line, n)) = Len(s) + 1
      /\ \A k \in 1..Len(s) : Lines(line, n)[k] = s[k]
      /\ Lines(line, n)[Len(s) + 1] = summary
  BY <1>2, <1>3, Appended
<1>5. /\ length \in Nat /\ Len(Lines(line, n)) = length + 1
      /\ \A k \in 1..length : Lines(line, n)[k] = entry(k)
      /\ Lines(line, n)[length + 1] = summary
  BY <1>1, <1>3, <1>4
<1> QED
  BY <1>4, <1>5, Zenon DEF entry, summary, length

Before(line, n) == Len(LinesUpTo(line)[n - 1])
AllOf(line)     == LinesUpTo(line)[Stop(line) - 1]

(* Where the lines of each argument are in the whole.                      *)
LEMMA Schedule ==
    ASSUME NEW line \in Seq(STRING)
    PROVE  /\ Before(line, 1) = 0
           /\ \A n \in 1..Stop(line) : Before(line, n) \in Nat
           /\ Before(line, Stop(line)) = Len(AllOf(line))
           /\ \E S : AllOf(line) \in Seq(S)
           /\ \A n \in 1..Stop(line) : Before(line, n) <= Len(AllOf(line))
           /\ \A n \in 1..Stop(line)-1 :
                 /\ Before(line, n + 1) = Before(line, n) + Len(Lines(line, n))
                 /\ \A k \in 1..Len(Lines(line, n)) :
                       AllOf(line)[Before(line, n) + k] = Lines(line, n)[k]
<1> DEFINE parts == [n \in 1..Stop(line)-1 |-> Lines(line, n)]
           S == UNION {{parts[n][k] : k \in DOMAIN parts[n]} : n \in 1..Stop(line)-1}
<1>1. PICK N \in Nat : N = Stop(line) - 1
  BY StopIsReached
<1>2. ASSUME NEW n \in 1..N PROVE parts[n] = Lines(line, n) /\ \E T : parts[n] \in Seq(T)
  <2>1. parts[n] = Lines(line, n)
    BY <1>1
  <2>2. CASE line[n] \in Options
    <3>1. Lines(line, n) = <<>>
      BY <2>2 DEF Lines
    <3>2. <<>> \in Seq({})
      OBVIOUS
    <3> QED
      BY <2>1, <3>1, <3>2
  <2>3. CASE line[n] \notin Options
    <3>1. line[n] \in DOMAIN Files
      BY <1>1, <2>3, StopIsReached
    <3> QED
      BY <2>1, <2>3, <3>1, LinesOfFile
  <2> QED
    BY <2>2, <2>3
<1>3. AreSequences(parts, N, S)
  <2> SUFFICES ASSUME NEW n \in 1..N PROVE parts[n] \in Seq(S)
    BY DEF AreSequences
  <2>1. PICK T : parts[n] \in Seq(T)
    BY <1>2
  <2>2. {parts[n][k] : k \in DOMAIN parts[n]} \subseteq S
    BY <1>1
  <2> HIDE DEF parts, S
  <2>3. \A k \in DOMAIN parts[n] : parts[n][k] \in S
    BY <2>2
  <2> QED
    BY <2>1, <2>3
<1>4. \A f : f = [n \in 0..N |-> IF n = 0 THEN <<>> ELSE f[n-1] \o Lines(line, n)]
             <=> f = [n \in 0..N |-> IF n = 0 THEN <<>> ELSE f[n-1] \o parts[n]]
  <2>1. \A n \in 0..N : n # 0 => n \in 1..N
    BY <1>1
  <2>2. \A n \in 0..N : n # 0 => parts[n] = Lines(line, n)
    BY <1>2, <2>1
  <2> HIDE DEF parts
  <2>3. ASSUME NEW f
        PROVE  [n \in 0..N |-> IF n = 0 THEN <<>> ELSE f[n-1] \o Lines(line, n)]
               = [n \in 0..N |-> IF n = 0 THEN <<>> ELSE f[n-1] \o parts[n]]
    BY <2>2, Zenon
  <2> QED
    BY <2>3, Zenon
<1> HIDE DEF parts, S
<1>5. Concatenates(LinesUpTo(line), parts, N)
  <2>1. PICK f : f = [n \in 0..N |-> f[n]] /\ Concatenates(f, parts, N)
    BY <1>3, ConcatenationExists
  <2>2. f = [n \in 0..N |-> IF n = 0 THEN <<>> ELSE f[n-1] \o parts[n]]
    BY <2>1, Concatenated
  <2>3. f = [n \in 0..N |-> IF n = 0 THEN <<>> ELSE f[n-1] \o Lines(line, n)]
    BY <1>4, <2>2, Zenon
  <2>4. LinesUpTo(line) = [n \in 0..N |-> IF n = 0 THEN <<>> ELSE LinesUpTo(line)[n-1] \o Lines(line, n)]
    BY <1>1, <2>3, Zenon DEF LinesUpTo
  <2>5. LinesUpTo(line) = [n \in 0..N |-> IF n = 0 THEN <<>> ELSE LinesUpTo(line)[n-1] \o parts[n]]
    BY <1>4, <2>4, Zenon
  <2> QED
    BY <2>5, Concatenated
<1>6. PICK f : f = LinesUpTo(line) /\ Concatenates(f, parts, N)
  BY <1>5
<1>7. f[N] \in Seq(S) /\ AreLaidOut(f, parts, N)
  BY <1>3, <1>6, PartsOfConcatenation
<1>8. AllOf(line) = f[N] /\ \A n : Before(line, n) = Len(f[n - 1])
  BY <1>1, <1>6, Zenon DEF AllOf, Before
<1>9. 1 - 1 = 0 /\ Stop(line) = N + 1 /\ Stop(line) - 1 = N /\ \A n \in 1..N+1 : n - 1 \in 0..N
  BY <1>1, StopIsReached
<1>10. \A n \in 1..N : (n + 1) - 1 = n
  OBVIOUS
<1>11. Before(line, 1) = 0 /\ Before(line, Stop(line)) = Len(AllOf(line))
  BY <1>7, <1>8, <1>9 DEF AreLaidOut
<1>12. ASSUME NEW n \in 1..Stop(line)
       PROVE  Before(line, n) \in Nat /\ Before(line, n) <= Len(AllOf(line))
  <2>1. n - 1 \in 0..N
    BY <1>9
  <2>2. Before(line, n) = Len(f[n-1]) /\ AllOf(line) = f[N]
    BY <1>8
  <2> QED
    BY <1>7, <2>1, <2>2 DEF AreLaidOut
<1>13. ASSUME NEW n \in 1..N
       PROVE  /\ Before(line, n + 1) = Before(line, n) + Len(Lines(line, n))
              /\ \A k \in 1..Len(Lines(line, n)) :
                    AllOf(line)[Before(line, n) + k] = Lines(line, n)[k]
  <2>1. parts[n] = Lines(line, n)
    BY <1>2 DEF parts
  <2>2. Before(line, n + 1) = Len(f[n]) /\ Before(line, n) = Len(f[n-1])
    BY <1>8, <1>10
  <2> QED
    BY <1>7, <1>8, <2>1, <2>2, Zenon DEF AreLaidOut
<1>14. \E T : AllOf(line) \in Seq(T)
  BY <1>7, <1>8
<1>15. ASSUME NEW n \in 1..Stop(line)-1
       PROVE  /\ Before(line, n + 1) = Before(line, n) + Len(Lines(line, n))
              /\ \A k \in 1..Len(Lines(line, n)) :
                    AllOf(line)[Before(line, n) + k] = Lines(line, n)[k]
  <2>1. n \in 1..N
    BY <1>9
  <2> QED
    BY <1>13, <2>1, Zenon
<1> QED
  BY <1>11, <1>12, <1>14, <1>15, Zenon

(* One more argument.                                                      *)
LEMMA NoOptionYet ==
    ASSUME NEW line
    PROVE  ModeAt(line, 1) = "CPU_6502" /\ FlagsAt(line, 1) = {"CYCLECOUNT", "MEMORY"}
<1>1. 1..1-1 = {}
  OBVIOUS
<1> QED
  BY <1>1 DEF ModeAt, FlagsAt

(* An option that is passed is in force from there on.                     *)
LEMMA OneMoreOption ==
    ASSUME NEW line, NEW n \in Nat \ {0}
    PROVE  /\ ModeAt(line, n + 1) = IF line[n] \in DOMAIN ModeOption THEN ModeOption[line[n]]
                                    ELSE ModeAt(line, n)
           /\ FlagsAt(line, n + 1) = IF line[n] \in DOMAIN FlagOption
                                     THEN FlagsAt(line, n) \ {FlagOption[line[n]]}
                                     ELSE FlagsAt(line, n)
<1> DEFINE given(k) == {m \in 1..k-1 : line[m] \in DOMAIN ModeOption}
<1>1. \A m : m \in 1..(n+1)-1 <=> m \in 1..n-1 \/ m = n
  OBVIOUS
<1>2. ASSUME line[n] \in DOMAIN ModeOption
      PROVE  ModeAt(line, n + 1) = ModeOption[line[n]]
  <2>1. n \in given(n + 1) /\ \A m \in given(n + 1) : n >= m /\ (m >= n => m = n)
    BY <1>2
  <2>2. Max(given(n + 1)) = n
    <3>1. Max(given(n + 1)) = CHOOSE x \in given(n + 1) : \A y \in given(n + 1) : x >= y
      BY DEF Max
    <3> HIDE DEF given
    <3> QED
      BY <2>1, <3>1
  <2>3. given(n + 1) # {}
    BY <2>1
  <2>4. ModeAt(line, n + 1) = IF given(n + 1) = {} THEN "CPU_6502"
                              ELSE ModeOption[line[Max(given(n + 1))]]
    BY DEF ModeAt
  <2> HIDE DEF given
  <2> QED
    BY <1>2, <2>2, <2>3, <2>4
<1>3. ASSUME line[n] \notin DOMAIN ModeOption
      PROVE  ModeAt(line, n + 1) = ModeAt(line, n)
  <2>1. given(n + 1) = given(n)
    BY <1>1, <1>3
  <2>2. \A k : ModeAt(line, k) = IF given(k) = {} THEN "CPU_6502"
                              ELSE ModeOption[line[Max(given(k))]]
    BY DEF ModeAt
  <2> HIDE DEF given
  <2> QED
    BY <2>1, <2>2
<1>4. FlagsAt(line, n + 1) = IF line[n] \in DOMAIN FlagOption
                             THEN FlagsAt(line, n) \ {FlagOption[line[n]]}
                             ELSE FlagsAt(line, n)
  <2> DEFINE kept(flag, m) == line[m] \in DOMAIN FlagOption => FlagOption[line[m]] # flag
  <2>1. \A k : FlagsAt(line, k) = {flag \in {"CYCLECOUNT", "MEMORY"} : \A m \in 1..k-1 : kept(flag, m)}
    BY DEF FlagsAt
  <2>2. \A flag : line[n] \in DOMAIN FlagOption => (kept(flag, n) <=> flag # FlagOption[line[n]])
    OBVIOUS
  <2>3. \A flag : line[n] \notin DOMAIN FlagOption => kept(flag, n)
    OBVIOUS
  <2> HIDE DEF kept
  <2>4. \A flag : (\A m \in 1..(n+1)-1 : kept(flag, m)) <=> (\A m \in 1..n-1 : kept(flag, m)) /\ kept(flag, n)
    BY <1>1, Zenon
  <2>5. \A flag : flag \in FlagsAt(line, n + 1) <=> flag \in FlagsAt(line, n) /\ kept(flag, n)
    BY <2>1, <2>4, Zenon
  <2> QED
    BY <2>2, <2>3, <2>5
<1> QED
  BY <1>2, <1>3, <1>4

(* The two kinds of options.                                               *)
LEMMA OptionsAreApart ==
    /\ DOMAIN ModeOption \cap DOMAIN FlagOption = {}
    /\ Options = DOMAIN ModeOption \cup DOMAIN FlagOption
  BY DEF ModeOption, FlagOption, Options

-----------------------------------------------------------------------------
(* What has been printed *)

(* What was printed stays; one entry more changes no count that ends before *)
(* it and adds at most one to those that it ends.                          *)
LEMMA LogGrows ==
    ASSUME NEW S, log \in Seq(S), NEW e, log' = Append(log, e)
    PROVE  /\ \E T : log' \in Seq(T)
           /\ Len(log) \in Nat /\ DOMAIN log = 1..Len(log)
           /\ Len(log') = Len(log) + 1 /\ DOMAIN log' = 1..Len(log) + 1
           /\ \A n \in 1..Len(log) : log'[n] = log[n]
           /\ log'[Len(log) + 1] = e
<1>1. PICK s \in Seq(S) : s = log
  OBVIOUS
<1> DEFINE r == log'
<1>2. r = Append(s, e)
  BY <1>1
<1> HIDE DEF r
<1>3. /\ r \in Seq(S \cup {e})
      /\ Len(s) \in Nat
      /\ DOMAIN s = 1..Len(s)
      /\ Len(r) = Len(s) + 1
      /\ DOMAIN r = 1..Len(s) + 1
      /\ \A k \in 1..Len(s) : r[k] = s[k]
      /\ r[Len(s) + 1] = e
  BY <1>2, Appended
<1> QED
  BY <1>1, <1>3 DEF r

(* Counts of deviations are numbers.                                       *)
LEMMA DeviatingIsFinite ==
    ASSUME NEW a \in Int, NEW b \in Int
    PROVE  IsFiniteSet(Deviating(a, b)) /\ Cardinality(Deviating(a, b)) \in Nat
<1>1. IsFiniteSet(a..b)
  BY FS_Interval
<1>2. Deviating(a, b) \in SUBSET (a..b)
  BY DEF Deviating
<1> QED
  BY <1>1, <1>2, FS_Subset, FS_CardinalityType

(* One entry more changes no count that ends before it.                    *)
LEMMA DeviatingGrows ==
    ASSUME NEW N \in Nat, NEW e, \A n \in 1..N : log'[n] = log[n], log'[N + 1] = e
    PROVE  /\ \A a \in Nat \ {0} : \A b \in 0..N : Deviating(a, b)' = Deviating(a, b)
           /\ \A a \in 1..N+1 :
                 Cardinality(Deviating(a, N + 1)')
                    = Cardinality(Deviating(a, N)) + IF e.parsed /\ e.errors # {} THEN 1 ELSE 0
<1> DEFINE deviates(n) == log[n].parsed /\ log[n].errors # {}
           deviatesNext(n) == log'[n].parsed /\ log'[n].errors # {}
           deviation == e.parsed /\ e.errors # {}
<1>1. \A n \in 1..N : deviatesNext(n) <=> deviates(n)
  OBVIOUS
<1>2. deviatesNext(N + 1) <=> deviation
  OBVIOUS
<1>3. \A a, b : /\ Deviating(a, b) = {n \in a..b : deviates(n)}
                /\ Deviating(a, b)' = {n \in a..b : deviatesNext(n)}
  BY DEF Deviating
<1> HIDE DEF deviates, deviatesNext, deviation
<1>4. ASSUME NEW a \in Nat \ {0}, NEW b \in 0..N
      PROVE  Deviating(a, b)' = Deviating(a, b)
  <2>1. \A n \in a..b : n \in 1..N
    OBVIOUS
  <2> QED
    BY <1>1, <1>3, <2>1
<1>5. ASSUME NEW a \in 1..N+1
      PROVE  Cardinality(Deviating(a, N + 1)') = Cardinality(Deviating(a, N)) + IF deviation THEN 1 ELSE 0
  <2>1. \A n : n \in a..N+1 <=> n \in a..N \/ n = N + 1
    OBVIOUS
  <2>2. \A n \in a..N : n \in 1..N
    OBVIOUS
  <2>3. N + 1 \notin Deviating(a, N)
    BY <1>3
  <2>4. IsFiniteSet(Deviating(a, N)) /\ Cardinality(Deviating(a, N)) \in Nat
    <3>1. a \in Int /\ N \in Int
      OBVIOUS
    <3> QED
      BY <3>1, DeviatingIsFinite
  <2>5. CASE deviation
    <3>1. Deviating(a, N + 1)' = Deviating(a, N) \cup {N + 1}
      BY <1>1, <1>2, <1>3, <2>1, <2>2, <2>5
    <3> QED
      BY <2>3, <2>4, <2>5, <3>1, FS_AddElement
  <2>6. CASE ~deviation
    <3>1. Deviating(a, N + 1)' = Deviating(a, N)
      BY <1>1, <1>2, <1>3, <2>1, <2>2, <2>6
    <3> QED
      BY <2>4, <2>6, <3>1
  <2> QED
    BY <2>5, <2>6
<1> QED
  BY <1>4, <1>5 DEF deviation

-----------------------------------------------------------------------------
(* The invariant *)

Processing == phase \in {"args", "parse", "prepare", "run", "verify"}
InFile     == phase = "parse" \/ AtTestcase

(* How many test cases of the file it is in have been reported.            *)
Reports == IF phase = "parse" THEN testcase_index
           ELSE IF AtTestcase THEN testcase_index - 1 ELSE 0

OptionsInForce ==
    /\ phase = "start" => /\ i = 1 /\ log = <<>>
                          /\ cpu_mode = "CPU_6502" /\ test_flags = {"CYCLECOUNT", "MEMORY"}
    /\ Processing => /\ ~AsksForHelp
                     /\ i \in 1..Stop(argv)
                     /\ cpu_mode = ModeAt(argv, i) /\ test_flags = FlagsAt(argv, i)
    /\ InFile => i < Stop(argv) /\ argv[i] \notin Options

LogSoFar ==
    Processing => /\ Len(log) = Before(argv, i) + Reports
                  /\ \A n \in DOMAIN log : Line(log[n]) = AllOf(argv)[n]

Summaries ==
    \A n \in DOMAIN log : log[n].index = 0 =>
        /\ Len(Files[log[n].file]) \in 0..n-1
        /\ log[n].deviations = Cardinality(Deviating(n - Len(Files[log[n].file]), n - 1))

CountSoFar ==
    InFile => /\ Reports \in 0..Len(Testcases)
              /\ testcase_index \in 0..Len(Testcases)
              /\ testcase_error = Cardinality(Deviating(Len(log) - Reports + 1, Len(log)))

Ended ==
    /\ phase \in {"success", "failure"} => Done = Requested
    /\ phase = "failure" => ~AsksForHelp /\ Stop(argv) <= Len(argv)
    /\ phase = "success" => AsksForHelp \/ Stop(argv) > Len(argv)

ReportInv ==
    /\ argv \in Seq(STRING)
    /\ \E S : log \in Seq(S)
    /\ OptionsInForce /\ LogSoFar /\ Summaries /\ CountSoFar /\ Ended

(* Before anything is printed.                                             *)
LEMMA NothingPrinted == ASSUME log = <<>> PROVE Done = <<>>
<1>1. DOMAIN log = {}
  OBVIOUS
<1> QED
  BY <1>1 DEF Done

(* At the start of main.                                                   *)
LEMMA ReportInitHolds == HarnessInit => ReportInv
<1> SUFFICES ASSUME HarnessInit
             PROVE  ReportInv
  OBVIOUS
<1>1. argv \in Seq(STRING)
  BY CommandLinesAssumption DEF HarnessInit
<1>2. log \in Seq({}) /\ DOMAIN log = {}
  BY DEF HarnessInit
<1>3. phase = "start" /\ i = 1 /\ log = <<>> /\ cpu_mode = "CPU_6502"
      /\ test_flags = {"CYCLECOUNT", "MEMORY"}
  BY DEF HarnessInit
<1> QED
  BY <1>1, <1>2, <1>3
     DEF ReportInv, OptionsInForce, LogSoFar, Summaries, CountSoFar, Ended, Processing, InFile, AtTestcase

(* When the argument is reached that ends it, all has been printed.        *)
LEMMA AllReported ==
    ASSUME ReportInv, phase = "args", i = Stop(argv)
    PROVE  Done = Requested
<1>1. PICK S : log \in Seq(S)
  BY DEF ReportInv
<1>2. argv \in Seq(STRING) /\ ~AsksForHelp
  BY DEF ReportInv, OptionsInForce, Processing
<1>3. Before(argv, i) = Len(AllOf(argv)) /\ Before(argv, i) \in Nat /\ \E T : AllOf(argv) \in Seq(T)
  <2>1. Stop(argv) \in 1..Stop(argv)
    BY <1>2, StopIsReached
  <2> QED
    BY <1>2, <2>1, Schedule
<1>4. Len(log) = Len(AllOf(argv)) /\ \A n \in DOMAIN log : Line(log[n]) = AllOf(argv)[n]
  BY <1>3 DEF ReportInv, LogSoFar, Reports, Processing, AtTestcase
<1>5. DOMAIN log = 1..Len(log) /\ AllOf(argv) = [n \in 1..Len(AllOf(argv)) |-> AllOf(argv)[n]]
  BY <1>1, <1>3
<1>6. Done = AllOf(argv)
  BY <1>4, <1>5 DEF Done
<1> QED
  BY <1>2, <1>6 DEF Requested, AllOf

(* A line more for a test case of the file it is in.                       *)
LEMMA ReportOfTestcase ==
    ASSUME HarnessInv, ReportInv, InFile, Reports < Len(Testcases),
           NEW e, log' = Append(log, e),
           e.file = argv[i], e.index = Reports + 1, e.mode = cpu_mode, e.flags = test_flags,
           UNCHANGED <<argv, i, cpu_mode, test_flags>>,
           phase' = "parse", testcase_index' = Reports + 1,
           testcase_error' = testcase_error + IF e.parsed /\ e.errors # {} THEN 1 ELSE 0
    PROVE  ReportInv'
<1>1. PICK S : log \in Seq(S)
  BY DEF ReportInv
<1>2. /\ \E T : log' \in Seq(T)
      /\ Len(log) \in Nat /\ DOMAIN log = 1..Len(log)
      /\ Len(log') = Len(log) + 1 /\ DOMAIN log' = 1..Len(log) + 1
      /\ \A n \in 1..Len(log) : log'[n] = log[n]
      /\ log'[Len(log) + 1] = e
  BY <1>1, LogGrows
<1>3. /\ argv \in Seq(STRING) /\ ~AsksForHelp /\ i \in 1..Stop(argv) /\ i < Stop(argv)
      /\ argv[i] \notin Options /\ Processing
      /\ cpu_mode = ModeAt(argv, i) /\ test_flags = FlagsAt(argv, i)
  BY DEF ReportInv, OptionsInForce, InFile, Processing, AtTestcase
<1>4. argv[i] \in DOMAIN Files
  BY DEF HarnessInv, InFile
<1> DEFINE length == Len(Files[argv[i]])
<1>5. length \in Nat /\ Testcases = Files[argv[i]] /\ Reports \in 0..length /\ Reports + 1 \in 1..length
  <2>1. length \in Nat
    BY <1>4, FilesAssumption
  <2>2. Reports \in 0..length
    BY DEF ReportInv, CountSoFar, Testcases
  <2> QED
    BY <2>1, <2>2 DEF Testcases
<1>6. ~AsksForHelp' /\ argv'[i'] \notin Options /\ Testcases' = Files[argv[i]]
  BY <1>3 DEF AsksForHelp, Testcases
<1>7. Reports' = Reports + 1 /\ InFile' /\ Processing'
  BY DEF Reports, InFile, Processing
<1>8. OptionsInForce'
  BY <1>3, <1>6 DEF OptionsInForce
<1>9. /\ Len(log) = Before(argv, i) + Reports /\ Before(argv, i) \in Nat
      /\ \A n \in DOMAIN log : Line(log[n]) = AllOf(argv)[n]
  BY <1>3, Schedule DEF ReportInv, LogSoFar
<1>10. LogSoFar'
  <2>1. Line(e) = <<argv[i], Reports + 1, ModeAt(argv, i), FlagsAt(argv, i)>>
    BY <1>3, <1>5 DEF Line
  <2>2. Lines(argv, i)[Reports + 1] = Line(e) /\ Len(Lines(argv, i)) = length + 1
    BY <1>3, <1>4, <1>5, <2>1, LinesOfFile
  <2>3. AllOf(argv)[Before(argv, i) + (Reports + 1)] = Lines(argv, i)[Reports + 1]
    <3>1. i \in 1..Stop(argv)-1
      BY <1>3, StopIsReached
    <3>2. Reports + 1 \in 1..Len(Lines(argv, i))
      <4> HIDE DEF length
      <4> QED
        BY <1>5, <2>2
    <3> QED
      BY <1>3, <3>1, <3>2, Schedule
  <2>4. Len(log) + 1 = Before(argv, i) + (Reports + 1)
    BY <1>5, <1>9
  <2>5. \A n \in 1..Len(log)+1 : Line(log'[n]) = AllOf(argv)[n]
    <3>1. \A n \in 1..Len(log)+1 : n \in 1..Len(log) \/ n = Len(log) + 1
      BY <1>2
    <3> QED
      BY <1>2, <1>9, <2>2, <2>3, <2>4, <3>1
  <2> QED
    BY <1>2, <1>7, <2>4, <2>5 DEF LogSoFar
<1>11. PICK N \in Nat : N = Len(log)
  BY <1>2
<1>12. /\ \A a \in Nat \ {0} : \A b \in 0..N : Deviating(a, b)' = Deviating(a, b)
       /\ \A a \in 1..N+1 :
             Cardinality(Deviating(a, N + 1)')
                = Cardinality(Deviating(a, N)) + IF e.parsed /\ e.errors # {} THEN 1 ELSE 0
  <2>1. (\A n \in 1..N : log'[n] = log[n]) /\ log'[N + 1] = e
    BY <1>2, <1>11
  <2> QED
    BY <2>1, DeviatingGrows
<1>13. Summaries'
  <2> SUFFICES ASSUME NEW n \in 1..N+1, log'[n].index = 0
               PROVE  \E a : /\ a = Len(Files[log'[n].file]) /\ a \in 0..n-1
                             /\ log'[n].deviations = Cardinality(Deviating(n - a, n - 1)')
    <3>1. \A n \in 1..N+1 : log'[n].index = 0 =>
             \E a : /\ a = Len(Files[log'[n].file]) /\ a \in 0..n-1
                    /\ log'[n].deviations = Cardinality(Deviating(n - a, n - 1)')
      OBVIOUS
    <3> QED
      BY <1>2, <1>11, <3>1, Zenon DEF Summaries, Deviating
  <2>1. n # N + 1
    BY <1>2, <1>5, <1>11
  <2>2. n \in 1..N /\ log'[n] = log[n]
    BY <1>2, <1>11, <2>1
  <2>3. PICK a : a = Len(Files[log[n].file])
    OBVIOUS
  <2>4. a \in 0..n-1 /\ log[n].deviations = Cardinality(Deviating(n - a, n - 1))
    BY <1>2, <1>11, <2>2, <2>3 DEF ReportInv, Summaries
  <2>5. n - a \in Nat \ {0} /\ n - 1 \in 0..N
    BY <2>2, <2>4
  <2>6. Deviating(n - a, n - 1)' = Deviating(n - a, n - 1)
    BY <1>12, <2>5, Zenon
  <2>7. log'[n].deviations = Cardinality(Deviating(n - a, n - 1)') /\ a = Len(Files[log'[n].file])
    BY <2>2, <2>3, <2>4, <2>6
  <2> QED
    BY <2>4, <2>7, Zenon
<1>14. CountSoFar'
  <2>1. PICK a \in 1..N+1 : a = N - Reports + 1
    BY <1>5, <1>9, <1>11
  <2>2. testcase_error = Cardinality(Deviating(a, N))
    BY <1>11, <2>1 DEF ReportInv, CountSoFar
  <2>3. testcase_error' = Cardinality(Deviating(a, N + 1)')
    BY <1>12, <2>2
  <2>4. Len(log') = N + 1 /\ Len(log') - Reports' + 1 = a
    BY <1>2, <1>5, <1>7, <1>11, <2>1
  <2>5. Cardinality(Deviating(Len(log) - Reports + 1, Len(log)))' = Cardinality(Deviating(a, N + 1)')
    BY <2>4 DEF Deviating
  <2> QED
    BY <1>5, <1>6, <1>7, <2>3, <2>5 DEF CountSoFar
<1>15. Ended'
  BY DEF Ended
<1> QED
  BY <1>2, <1>3, <1>8, <1>10, <1>13, <1>14, <1>15 DEF ReportInv

(* The line with which a file ends.                                        *)
LEMMA ReportOfFile ==
    ASSUME HarnessInv, ReportInv, EndOfFile
    PROVE  ReportInv'
<1>1. PICK S : log \in Seq(S)
  BY DEF ReportInv
<1>2. PICK e : e = [file |-> argv[i], index |-> 0, deviations |-> testcase_error]
  OBVIOUS
<1>3. e.file = argv[i] /\ e.index = 0 /\ e.deviations = testcase_error /\ log' = Append(log, e)
  BY <1>2 DEF EndOfFile
<1>4. /\ \E T : log' \in Seq(T)
      /\ Len(log) \in Nat /\ DOMAIN log = 1..Len(log)
      /\ Len(log') = Len(log) + 1 /\ DOMAIN log' = 1..Len(log) + 1
      /\ \A n \in 1..Len(log) : log'[n] = log[n]
      /\ log'[Len(log) + 1] = e
  BY <1>1, <1>3, LogGrows
<1>5. /\ phase = "parse" /\ phase' = "args" /\ i' = i + 1 /\ testcase_index = Len(Testcases)
      /\ UNCHANGED <<argv, cpu_mode, test_flags>>
  BY DEF EndOfFile, program
<1>6. /\ argv \in Seq(STRING) /\ ~AsksForHelp /\ i \in 1..Stop(argv) /\ i < Stop(argv)
      /\ argv[i] \notin Options /\ Processing /\ InFile
      /\ cpu_mode = ModeAt(argv, i) /\ test_flags = FlagsAt(argv, i)
  BY <1>5 DEF ReportInv, OptionsInForce, InFile, Processing, AtTestcase
<1>7. argv[i] \in DOMAIN Files
  BY <1>5 DEF HarnessInv
<1>8. PICK length \in Nat : length = Len(Files[argv[i]]) /\ Reports = length
  <2>1. Len(Files[argv[i]]) \in Nat
    BY <1>7, FilesAssumption
  <2> QED
    BY <1>5, <2>1 DEF Reports, Testcases
<1>9. ~AsksForHelp' /\ ~InFile' /\ Processing' /\ Reports' = 0
  BY <1>5, <1>6 DEF AsksForHelp, InFile, Processing, Reports, AtTestcase
<1>10. i \in 1..Stop(argv)-1 /\ i' \in 1..Stop(argv)
  BY <1>5, <1>6, StopIsReached
<1>11. OptionsInForce'
  <2>1. argv[i] \notin DOMAIN ModeOption /\ argv[i] \notin DOMAIN FlagOption
    BY <1>6, OptionsAreApart
  <2>2. i \in Nat \ {0}
    BY <1>10
  <2>3. ModeAt(argv, i + 1) = cpu_mode /\ FlagsAt(argv, i + 1) = test_flags
    BY <1>6, <2>1, <2>2, OneMoreOption
  <2> QED
    BY <1>5, <1>9, <1>10, <2>3 DEF OptionsInForce
<1>12. /\ Len(log) = Before(argv, i) + length /\ Before(argv, i) \in Nat
       /\ \A n \in DOMAIN log : Line(log[n]) = AllOf(argv)[n]
  BY <1>6, <1>8, Schedule DEF ReportInv, LogSoFar
<1>13. LogSoFar'
  <2>1. Line(e) = <<argv[i], 0>>
    BY <1>3 DEF Line
  <2>2. Lines(argv, i)[length + 1] = Line(e) /\ Len(Lines(argv, i)) = length + 1
    BY <1>6, <1>7, <1>8, <2>1, LinesOfFile
  <2>3. length + 1 \in 1..Len(Lines(argv, i))
    BY <2>2
  <2>4. /\ AllOf(argv)[Before(argv, i) + (length + 1)] = Lines(argv, i)[length + 1]
        /\ Before(argv, i + 1) = Before(argv, i) + Len(Lines(argv, i))
    BY <1>6, <1>10, <2>3, Schedule
  <2>5. Len(log) + 1 = Before(argv, i) + (length + 1)
    BY <1>12
  <2>6. \A n \in 1..Len(log)+1 : Line(log'[n]) = AllOf(argv)[n]
    <3>1. \A n \in 1..Len(log)+1 : n \in 1..Len(log) \/ n = Len(log) + 1
      BY <1>4
    <3> QED
      BY <1>4, <1>12, <2>2, <2>4, <2>5, <3>1
  <2>7. Len(log') = Before(argv, i + 1) + 0
    BY <1>4, <2>2, <2>4, <2>5, <1>12
  <2> QED
    BY <1>4, <1>5, <1>9, <2>6, <2>7 DEF LogSoFar
<1>14. PICK N \in Nat : N = Len(log)
  BY <1>4
<1>15. \A a \in Nat \ {0} : \A b \in 0..N : Deviating(a, b)' = Deviating(a, b)
  <2>1. (\A n \in 1..N : log'[n] = log[n]) /\ log'[N + 1] = e
    BY <1>4, <1>14
  <2> QED
    BY <2>1, DeviatingGrows
<1>16. Summaries'
  <2> SUFFICES ASSUME NEW n \in 1..N+1, log'[n].index = 0
               PROVE  \E a : /\ a = Len(Files[log'[n].file]) /\ a \in 0..n-1
                             /\ log'[n].deviations = Cardinality(Deviating(n - a, n - 1)')
    <3>1. \A n \in 1..N+1 : log'[n].index = 0 =>
             \E a : /\ a = Len(Files[log'[n].file]) /\ a \in 0..n-1
                    /\ log'[n].deviations = Cardinality(Deviating(n - a, n - 1)')
      OBVIOUS
    <3> QED
      BY <1>4, <1>14, <3>1, Zenon DEF Summaries, Deviating
  <2>1. PICK a, d : a = Len(Files[log'[n].file]) /\ d = log'[n].deviations
    OBVIOUS
  <2>2. a \in 0..n-1 /\ d = Cardinality(Deviating(n - a, n - 1))
    <3>1. CASE n = N + 1
      <4>1. a = length /\ d = testcase_error
        BY <1>3, <1>4, <1>8, <1>14, <2>1, <3>1
      <4>2. a \in 0..n-1 /\ n - a = N - length + 1 /\ n - 1 = N
        BY <1>12, <1>14, <3>1, <4>1
      <4>3. testcase_error = Cardinality(Deviating(N - length + 1, N))
        BY <1>6, <1>8, <1>14 DEF ReportInv, CountSoFar
      <4> QED
        BY <4>1, <4>2, <4>3
    <3>2. CASE n \in 1..N
      BY <1>4, <1>14, <2>1, <3>2 DEF ReportInv, Summaries
    <3> QED
      BY <3>1, <3>2
  <2>3. n - a \in Nat \ {0} /\ n - 1 \in 0..N
    BY <2>2
  <2>4. Deviating(n - a, n - 1)' = Deviating(n - a, n - 1)
    BY <1>15, <2>3, Zenon
  <2>5. d = Cardinality(Deviating(n - a, n - 1)')
    BY <2>2, <2>4
  <2> QED
    BY <2>1, <2>2, <2>5, Zenon
<1>17. CountSoFar'
  BY <1>9 DEF CountSoFar
<1>18. Ended'
  BY <1>5 DEF Ended
<1> QED
  BY <1>4, <1>5, <1>6, <1>11, <1>13, <1>16, <1>17, <1>18 DEF ReportInv

(* What is printed stays as it is where nothing is printed.                *)
LEMMA NothingNew ==
    ASSUME ReportInv, UNCHANGED <<argv, log>>
    PROVE  /\ argv' \in Seq(STRING) /\ \E S : log' \in Seq(S)
           /\ Summaries'
           /\ \A a, b : Deviating(a, b)' = Deviating(a, b)
           /\ AsksForHelp' = AsksForHelp
<1>1. Summaries'
  BY Zenon DEF ReportInv, Summaries, Deviating
<1>2. AsksForHelp' = AsksForHelp
  BY DEF AsksForHelp
<1>3. \A a, b : Deviating(a, b)' = Deviating(a, b)
  BY DEF Deviating
<1> QED
  BY <1>1, <1>2, <1>3 DEF ReportInv

(* An argument that is an option or a file comes before the last.          *)
LEMMA BeforeTheStop ==
    ASSUME ReportInv, phase = "args", i \in DOMAIN argv
    PROVE  /\ argv[i] \in Options \cup DOMAIN Files => i \in 1..Stop(argv)-1
           /\ argv[i] \notin Options \cup DOMAIN Files => i = Stop(argv)
<1>1. argv \in Seq(STRING) /\ i \in 1..Stop(argv)
  BY DEF ReportInv, OptionsInForce, Processing
<1>2. DOMAIN argv = 1..Len(argv) /\ Len(argv) \in Nat
  BY <1>1
<1>3. /\ Stop(argv) \in 1..Len(argv)+1
      /\ \A n \in 1..Stop(argv)-1 : argv[n] \in Options \cup DOMAIN Files
      /\ Stop(argv) <= Len(argv) => argv[Stop(argv)] \notin Options \cup DOMAIN Files
  BY <1>1, StopIsReached
<1>4. ASSUME argv[i] \in Options \cup DOMAIN Files PROVE i \in 1..Stop(argv)-1
  <2>1. i # Stop(argv)
    BY <1>2, <1>3, <1>4
  <2> QED
    BY <1>1, <1>3, <2>1
<1>5. ASSUME argv[i] \notin Options \cup DOMAIN Files PROVE i = Stop(argv)
  <2>1. i \notin 1..Stop(argv)-1
    BY <1>3, <1>5
  <2> QED
    BY <1>1, <1>3, <2>1
<1> QED
  BY <1>4, <1>5

(* No step of the program breaks the invariant.                            *)
LEMMA ReportStepHolds ==
    ReportInv /\ HarnessInv /\ [HarnessNext]_harnessVars => ReportInv'
<1> SUFFICES ASSUME ReportInv, HarnessInv, [HarnessNext]_harnessVars
             PROVE  ReportInv'
  OBVIOUS
<1>1. argv \in Seq(STRING) /\ Stop(argv) \in 1..Len(argv)+1 /\ Len(argv) \in Nat
      /\ DOMAIN argv = 1..Len(argv) /\ Before(argv, 1) = 0
  BY StopIsReached, Schedule DEF ReportInv
<1>2. CASE Start
  <2>1. /\ phase = "start" /\ i = 1 /\ log = <<>> /\ DOMAIN log = {} /\ Len(log) = 0
        /\ cpu_mode = "CPU_6502" /\ test_flags = {"CYCLECOUNT", "MEMORY"}
        /\ UNCHANGED <<argv, log, i, cpu_mode, test_flags>>
        /\ phase' = IF AsksForHelp THEN "success" ELSE "args"
    BY <1>2 DEF Start, program, cursor, ReportInv, OptionsInForce
  <2>2. Summaries' /\ AsksForHelp' = AsksForHelp /\ argv' \in Seq(STRING) /\ \E S : log' \in Seq(S)
    BY <2>1, NothingNew
  <2>3. ~InFile' /\ CountSoFar'
    BY <2>1 DEF InFile, AtTestcase, CountSoFar
  <2>4. CASE AsksForHelp
    <3>1. phase' = "success" /\ ~Processing'
      BY <2>1, <2>4 DEF Processing
    <3>2. Requested' = <<>>
      BY <2>2, <2>4 DEF Requested
    <3>3. DOMAIN log' = {}
      BY <2>1
    <3>4. Done' = <<>>
      BY <3>3 DEF Done
    <3>5. OptionsInForce' /\ LogSoFar' /\ Ended'
      BY <2>2, <2>3, <2>4, <3>1, <3>2, <3>4 DEF OptionsInForce, LogSoFar, Ended
    <3> QED
      BY <2>2, <2>3, <3>5 DEF ReportInv
  <2>5. CASE ~AsksForHelp
    <3>1. phase' = "args" /\ Reports' = 0
      BY <2>1, <2>5 DEF Reports, AtTestcase
    <3>2. ModeAt(argv, 1) = cpu_mode /\ FlagsAt(argv, 1) = test_flags
      BY <2>1, NoOptionYet
    <3>3. OptionsInForce'
      BY <1>1, <2>1, <2>2, <2>3, <2>5, <3>1, <3>2 DEF OptionsInForce
    <3>4. LogSoFar'
      BY <1>1, <2>1, <3>1 DEF LogSoFar
    <3>5. Ended'
      BY <3>1 DEF Ended
    <3> QED
      BY <2>2, <2>3, <3>3, <3>4, <3>5 DEF ReportInv
  <2> QED
    BY <2>4, <2>5
<1>3. ASSUME phase = "args" PROVE /\ ~AsksForHelp /\ i \in 1..Stop(argv) /\ Reports = 0
                                  /\ cpu_mode = ModeAt(argv, i) /\ test_flags = FlagsAt(argv, i)
                                  /\ Len(log) = Before(argv, i) /\ Before(argv, i) \in Nat
                                  /\ \A n \in DOMAIN log : Line(log[n]) = AllOf(argv)[n]
  <2>1. ~AsksForHelp /\ i \in 1..Stop(argv) /\ Processing /\ Reports = 0
        /\ cpu_mode = ModeAt(argv, i) /\ test_flags = FlagsAt(argv, i)
    BY <1>3 DEF ReportInv, OptionsInForce, Processing, Reports, AtTestcase
  <2>2. Len(log) = Before(argv, i) + 0 /\ \A n \in DOMAIN log : Line(log[n]) = AllOf(argv)[n]
    BY <2>1 DEF ReportInv, LogSoFar
  <2>3. Before(argv, i) \in Nat
    BY <1>1, <2>1, Schedule
  <2> QED
    BY <2>1, <2>2, <2>3
<1>4. CASE TakeOption
  <2>1. /\ phase = "args" /\ i \in DOMAIN argv /\ i' = i + 1 /\ UNCHANGED <<argv, log, phase>>
        /\ argv[i] \in Options
        /\ cpu_mode' = IF argv[i] \in DOMAIN ModeOption THEN ModeOption[argv[i]] ELSE cpu_mode
        /\ test_flags' = IF argv[i] \in DOMAIN FlagOption
                         THEN test_flags \ {FlagOption[argv[i]]} ELSE test_flags
    BY <1>4, OptionsAreApart DEF TakeOption
  <2>2. i \in 1..Stop(argv)-1 /\ i' \in 1..Stop(argv) /\ i \in Nat \ {0}
    BY <1>1, <2>1, BeforeTheStop
  <2>3. cpu_mode' = ModeAt(argv, i + 1) /\ test_flags' = FlagsAt(argv, i + 1)
    BY <1>3, <2>1, <2>2, OneMoreOption
  <2>4. Before(argv, i + 1) = Before(argv, i)
    <3>1. Lines(argv, i) = <<>> /\ Len(<<>>) = 0
      BY <2>1 DEF Lines
    <3>2. Before(argv, i + 1) = Before(argv, i) + Len(Lines(argv, i))
      BY <1>1, <2>2, Schedule
    <3> QED
      BY <1>3, <2>1, <3>1, <3>2
  <2>5. /\ argv' \in Seq(STRING) /\ (\E S : log' \in Seq(S)) /\ Summaries'
        /\ AsksForHelp' = AsksForHelp
    BY <2>1, NothingNew
  <2>6. Processing' /\ ~InFile' /\ Reports' = 0
    BY <2>1 DEF Processing, InFile, AtTestcase, Reports
  <2>7. OptionsInForce'
    BY <1>3, <2>1, <2>2, <2>3, <2>5, <2>6 DEF OptionsInForce
  <2>8. LogSoFar'
    BY <1>3, <2>1, <2>4, <2>6 DEF LogSoFar
  <2>9. CountSoFar' /\ Ended'
    BY <2>1, <2>6 DEF CountSoFar, Ended
  <2> QED
    BY <2>5, <2>7, <2>8, <2>9 DEF ReportInv
<1>5. CASE OpenFile
  <2>1. /\ phase = "args" /\ i \in DOMAIN argv /\ phase' = "parse"
        /\ UNCHANGED <<argv, log, i, cpu_mode, test_flags>>
        /\ argv[i] \notin Options /\ argv[i] \in DOMAIN Files
        /\ testcase_index' = 0 /\ testcase_error' = 0
    BY <1>5 DEF OpenFile, program
  <2>2. i \in 1..Stop(argv)-1 /\ i < Stop(argv)
    BY <1>1, <2>1, BeforeTheStop
  <2>3. /\ argv' \in Seq(STRING) /\ (\E S : log' \in Seq(S)) /\ Summaries'
        /\ AsksForHelp' = AsksForHelp /\ \A a, b : Deviating(a, b)' = Deviating(a, b)
    BY <2>1, NothingNew
  <2>4. Processing' /\ InFile' /\ Reports' = 0
    BY <2>1 DEF Processing, InFile, AtTestcase, Reports
  <2>5. OptionsInForce'
    BY <1>3, <2>1, <2>2, <2>3, <2>4 DEF OptionsInForce
  <2>6. LogSoFar'
    BY <1>3, <2>1, <2>4 DEF LogSoFar
  <2>7. CountSoFar'
    <3>1. Len(Files[argv[i]]) \in Nat /\ Testcases' = Files[argv[i]]
      BY <2>1, FilesAssumption DEF Testcases
    <3>2. PICK N \in Nat : N = Len(log) /\ N = Len(log')
      BY <1>3, <2>1
    <3>3. Deviating(N + 1, N)' = {}
      BY <3>2 DEF Deviating
    <3>4. Cardinality(Deviating(N + 1, N)') = 0
      BY <3>3, FS_EmptySet
    <3>5. Cardinality(Deviating(Len(log) - Reports + 1, Len(log)))' = Cardinality(Deviating(N + 1, N)')
      <4>1. Len(log') - Reports' + 1 = N + 1 /\ Len(log') = N
        BY <2>4, <3>2
      <4> QED
        BY <4>1 DEF Deviating
    <3> QED
      BY <2>1, <2>4, <3>1, <3>4, <3>5 DEF CountSoFar
  <2>8. Ended'
    BY <2>1 DEF Ended
  <2> QED
    BY <2>3, <2>5, <2>6, <2>7, <2>8 DEF ReportInv
<1>6. CASE UnableToProcess \/ Finish
  <2>1. phase = "args" /\ UNCHANGED <<argv, log, i, cpu_mode, test_flags>>
    BY <1>6 DEF UnableToProcess, Finish, program, cursor
  <2>2. /\ argv' \in Seq(STRING) /\ (\E S : log' \in Seq(S)) /\ Summaries'
        /\ AsksForHelp' = AsksForHelp
    BY <2>1, NothingNew
  <2>3. /\ i = Stop(argv)
        /\ \/ phase' = "failure" /\ Stop(argv) <= Len(argv)
           \/ phase' = "success" /\ Stop(argv) > Len(argv)
    <3>1. CASE UnableToProcess
      <4>1. i \in DOMAIN argv /\ argv[i] \notin Options \cup DOMAIN Files /\ phase' = "failure"
        BY <3>1 DEF UnableToProcess
      <4>2. i = Stop(argv)
        BY <2>1, <4>1, BeforeTheStop
      <4> QED
        BY <1>1, <4>1, <4>2
    <3>2. CASE Finish
      <4>1. i \notin DOMAIN argv /\ phase' = "success"
        BY <3>2 DEF Finish
      <4> QED
        BY <1>1, <1>3, <2>1, <4>1
    <3> QED
      BY <1>6, <3>1, <3>2
  <2>4. Done' = Requested'
    <3>1. Done = Requested
      BY <2>1, <2>3, AllReported
    <3>2. Done' = Done
      BY <2>1 DEF Done
    <3>3. Requested' = Requested
      BY <2>1, <2>2 DEF Requested
    <3> QED
      BY <3>1, <3>2, <3>3
  <2>5. Ended'
    BY <1>1, <1>3, <2>1, <2>2, <2>3, <2>4 DEF Ended
  <2>6. OptionsInForce' /\ LogSoFar' /\ CountSoFar'
    BY <2>3 DEF OptionsInForce, LogSoFar, CountSoFar, Processing, InFile, AtTestcase
  <2> QED
    BY <2>2, <2>5, <2>6 DEF ReportInv
<1>7. CASE CannotBeParsed
  <2>1. PICK e : e = [file |-> argv[i], index |-> testcase_index', mode |-> cpu_mode,
                      flags |-> test_flags, parsed |-> FALSE]
    OBVIOUS
  <2>2. InFile /\ Reports = testcase_index /\ testcase_index' = testcase_index + 1
    BY <1>7 DEF CannotBeParsed, InFile, Reports
  <2>3. Reports < Len(Testcases) /\ log' = Append(log, e)
    BY <1>7, <2>1, <2>2 DEF CannotBeParsed
  <2>4. e.file = argv[i] /\ e.index = Reports + 1 /\ e.mode = cpu_mode /\ e.flags = test_flags /\ e.parsed = FALSE
    BY <2>1, <2>2
  <2>5. phase' = "parse" /\ UNCHANGED <<argv, i, cpu_mode, test_flags, testcase_error>>
    BY <1>7 DEF CannotBeParsed, program
  <2>6. testcase_error' = testcase_error + IF e.parsed /\ e.errors # {} THEN 1 ELSE 0
    BY <2>4, <2>5 DEF HarnessInv
  <2> QED
    BY <2>2, <2>3, <2>4, <2>5, <2>6, ReportOfTestcase
<1>8. CASE EndOfFile
  BY <1>8, ReportOfFile
<1>9. CASE Verify
  <2>1. PICK e : e = [file |-> argv[i], index |-> testcase_index, mode |-> cpu_mode,
                      flags |-> test_flags, parsed |-> TRUE,
                      errors |-> Errors, notices |-> Reported]
    OBVIOUS
  <2>2. InFile /\ Reports = testcase_index - 1 /\ testcase_index' = testcase_index /\ testcase_index \in Nat
    BY <1>9 DEF Verify, InFile, Reports, AtTestcase, HarnessInv
  <2>3. Reports < Len(Testcases) /\ Reports + 1 = testcase_index
    <3>1. testcase_index \in 0..Len(Testcases) /\ Reports \in 0..Len(Testcases) /\ Len(Testcases) \in Nat
      <4>1. argv[i] \in DOMAIN Files
        BY <2>2 DEF HarnessInv, InFile
      <4> QED
        BY <2>2, <4>1, FilesAssumption DEF ReportInv, CountSoFar, Testcases
    <3> QED
      BY <2>2, <3>1
  <2>4. e.file = argv[i] /\ e.index = Reports + 1 /\ e.mode = cpu_mode /\ e.flags = test_flags
        /\ e.parsed = TRUE /\ e.errors = Errors /\ log' = Append(log, e)
    BY <1>9, <2>1, <2>3 DEF Verify
  <2>5. phase' = "parse" /\ UNCHANGED <<argv, i, cpu_mode, test_flags>>
    BY <1>9 DEF Verify, program
  <2>6. testcase_error' = testcase_error + IF e.parsed /\ e.errors # {} THEN 1 ELSE 0
    BY <1>9, <2>4 DEF Verify
  <2> QED
    BY <2>2, <2>3, <2>4, <2>5, <2>6, ReportOfTestcase
<1>10. CASE ParseTestcase \/ Prepare \/ RunInsn \/ UNCHANGED harnessVars
  <2>1. /\ UNCHANGED <<argv, log, i, cpu_mode, test_flags, testcase_error>>
        /\ \/ UNCHANGED <<phase, testcase_index>>
           \/ InFile /\ InFile' /\ testcase_index' \in 0..Len(Testcases)
        /\ Reports' = Reports
    <3>1. CASE ParseTestcase
      <4>1. /\ phase = "parse" /\ phase' = "prepare" /\ testcase_index' = testcase_index + 1
            /\ testcase_index \in Nat /\ testcase_index < Len(Testcases)
            /\ UNCHANGED <<argv, log, i, cpu_mode, test_flags, testcase_error>>
        BY <3>1 DEF ParseTestcase, program, HarnessInv
      <4>2. Len(Testcases) \in Nat
        BY <4>1, FilesAssumption DEF HarnessInv, Testcases
      <4>3. testcase_index' \in 0..Len(Testcases) /\ testcase_index' - 1 = testcase_index
        BY <4>1, <4>2
      <4>4. Reports' = testcase_index' - 1 /\ Reports = testcase_index
        BY <4>1 DEF Reports, AtTestcase
      <4> QED
        BY <4>1, <4>3, <4>4 DEF InFile, AtTestcase
    <3>2. CASE Prepare
      <4>1. /\ phase = "prepare" /\ phase' = "run"
            /\ UNCHANGED <<argv, log, i, cpu_mode, test_flags, testcase_error, testcase_index>>
        BY <3>2 DEF Prepare, program, cursor
      <4>2. testcase_index \in 0..Len(Testcases)
        BY <4>1 DEF ReportInv, CountSoFar, InFile, AtTestcase
      <4> QED
        BY <4>1, <4>2 DEF InFile, Reports, AtTestcase
    <3>3. CASE RunInsn
      <4>1. /\ phase = "run" /\ phase' = "verify"
            /\ UNCHANGED <<argv, log, i, cpu_mode, test_flags, testcase_error, testcase_index>>
        BY <3>3 DEF RunInsn, program, cursor
      <4>2. testcase_index \in 0..Len(Testcases)
        BY <4>1 DEF ReportInv, CountSoFar, InFile, AtTestcase
      <4> QED
        BY <4>1, <4>2 DEF InFile, Reports, AtTestcase
    <3>4. CASE UNCHANGED harnessVars
      BY <3>4 DEF harnessVars, Reports, AtTestcase
    <3> QED
      BY <1>10, <3>1, <3>2, <3>3, <3>4
  <2>2. /\ argv' \in Seq(STRING) /\ (\E S : log' \in Seq(S)) /\ Summaries'
        /\ AsksForHelp' = AsksForHelp /\ \A a, b : Deviating(a, b)' = Deviating(a, b)
    BY <2>1, NothingNew
  <2>3. Testcases' = Testcases /\ Done' = Done /\ Requested' = Requested
    BY <2>1, <2>2 DEF Testcases, Done, Requested
  <2>4. Cardinality(Deviating(Len(log) - Reports + 1, Len(log)))'
           = Cardinality(Deviating(Len(log) - Reports + 1, Len(log)))
    BY <2>1 DEF Deviating
  <2>5. CASE UNCHANGED <<phase, testcase_index>>
    <3>1. OptionsInForce'
      BY <2>1, <2>2, <2>5 DEF ReportInv, OptionsInForce, Processing, InFile, AtTestcase
    <3>2. LogSoFar'
      BY <2>1, <2>5 DEF ReportInv, LogSoFar, Processing
    <3>3. CountSoFar'
      BY <2>1, <2>3, <2>4, <2>5 DEF ReportInv, CountSoFar, InFile, AtTestcase
    <3>4. Ended'
      BY <2>1, <2>2, <2>3, <2>5 DEF ReportInv, Ended
    <3> QED
      BY <2>2, <3>1, <3>2, <3>3, <3>4 DEF ReportInv
  <2>6. CASE InFile /\ InFile' /\ testcase_index' \in 0..Len(Testcases)
    <3>1. Processing /\ Processing' /\ phase' \notin {"start", "success", "failure"}
      BY <2>6 DEF InFile, AtTestcase, Processing
    <3>2. OptionsInForce'
      BY <2>1, <2>2, <2>6, <3>1 DEF ReportInv, OptionsInForce
    <3>3. LogSoFar'
      BY <2>1, <3>1 DEF ReportInv, LogSoFar
    <3>4. CountSoFar'
      BY <2>1, <2>3, <2>4, <2>6 DEF ReportInv, CountSoFar
    <3>5. Ended'
      BY <3>1 DEF Ended
    <3> QED
      BY <2>2, <3>2, <3>3, <3>4, <3>5 DEF ReportInv
  <2> QED
    BY <2>1, <2>5, <2>6
<1> QED
  BY <1>2, <1>4, <1>5, <1>6, <1>7, <1>8, <1>9, <1>10 DEF HarnessNext

(* Sequences of which one begins with the other.                           *)
LEMMA IsPrefixOf ==
    ASSUME NEW S, NEW s \in Seq(S), NEW T, NEW t \in Seq(T), Len(s) <= Len(t),
           \A n \in 1..Len(s) : s[n] = t[n]
    PROVE  IsPrefix(s, t)
<1>1. Len(s) \in Nat /\ Len(t) \in Nat /\ DOMAIN s = 1..Len(s) /\ DOMAIN t = 1..Len(t)
  OBVIOUS
<1>2. SubSeq(s, 1, Len(s)) = s
  OBVIOUS
<1>3. SubSeq(t, 1, Len(s)) = s
  OBVIOUS
<1> QED
  BY <1>2, <1>3 DEF IsPrefix

(* The invariant says what is to be shown.                                 *)
LEMMA ReportInvSuffices == HarnessInv /\ ReportInv => ReportsWhatWasRequested
<1> SUFFICES ASSUME HarnessInv, ReportInv
             PROVE  ReportsWhatWasRequested
  OBVIOUS
<1>1. PICK S : log \in Seq(S)
  BY DEF ReportInv
<1>2. argv \in Seq(STRING) /\ Len(log) \in Nat /\ DOMAIN log = 1..Len(log)
  BY <1>1 DEF ReportInv
<1>3. Done \in Seq({Line(log[n]) : n \in 1..Len(log)}) /\ Len(Done) = Len(log)
      /\ \A n \in 1..Len(log) : Done[n] = Line(log[n])
  BY <1>2 DEF Done
<1>4. \E T : Requested \in Seq(T)
  <2>1. \E T : AllOf(argv) \in Seq(T)
    BY <1>2, Schedule
  <2>2. <<>> \in Seq({})
    OBVIOUS
  <2> QED
    BY <2>1, <2>2 DEF Requested, AllOf
<1>5. IsPrefix(Done, Requested)
  <2>1. PICK T : Requested \in Seq(T)
    BY <1>4
  <2>2. CASE phase = "start"
    <3>1. Len(log) = 0
      BY <2>2 DEF ReportInv, OptionsInForce
    <3>2. Len(Done) <= Len(Requested) /\ \A n \in 1..Len(Done) : Done[n] = Requested[n]
      BY <1>3, <2>1, <3>1
    <3> QED
      BY <1>3, <2>1, <3>2, IsPrefixOf
  <2>3. CASE phase \in {"success", "failure"}
    <3>1. Done = Requested
      BY <2>3 DEF ReportInv, Ended
    <3> QED
      BY <1>3, <2>1, <3>1, IsPrefixOf
  <2>4. CASE Processing
    <3>1. /\ ~AsksForHelp /\ i \in 1..Stop(argv)
          /\ Len(log) = Before(argv, i) + Reports
          /\ \A n \in DOMAIN log : Line(log[n]) = AllOf(argv)[n]
      BY <2>4 DEF ReportInv, OptionsInForce, LogSoFar
    <3>2. Requested = AllOf(argv)
      BY <3>1 DEF Requested, AllOf
    <3>3. Before(argv, i) \in Nat /\ Before(argv, i) <= Len(AllOf(argv))
      BY <1>2, <3>1, Schedule
    <3>4. Len(log) <= Len(AllOf(argv))
      <4>1. CASE InFile
        <5>1. /\ i < Stop(argv) /\ argv[i] \notin Options /\ argv[i] \in DOMAIN Files
              /\ Reports \in 0..Len(Files[argv[i]])
          BY <4>1 DEF ReportInv, OptionsInForce, CountSoFar, InFile, HarnessInv, Testcases
        <5>2. i \in 1..Stop(argv)-1 /\ i + 1 \in 1..Stop(argv)
          BY <1>2, <3>1, <5>1, StopIsReached
        <5>3. Len(Lines(argv, i)) = Len(Files[argv[i]]) + 1 /\ Len(Files[argv[i]]) \in Nat
          BY <5>1, LinesOfFile
        <5>4. Before(argv, i + 1) = Before(argv, i) + Len(Lines(argv, i))
              /\ Before(argv, i + 1) <= Len(AllOf(argv))
          BY <1>2, <5>2, Schedule
        <5>5. Len(AllOf(argv)) \in Nat
          BY <2>1, <3>2
        <5> QED
          BY <3>1, <3>3, <5>1, <5>3, <5>4, <5>5
      <4>2. CASE ~InFile
        <5>1. Reports = 0
          BY <4>2 DEF InFile, Reports
        <5> QED
          BY <3>1, <3>3, <5>1
      <4> QED
        BY <4>1, <4>2
    <3>5. Len(Done) <= Len(Requested) /\ \A n \in 1..Len(Done) : Done[n] = Requested[n]
      BY <1>2, <1>3, <3>1, <3>2, <3>4
    <3> QED
      BY <1>3, <2>1, <3>5, IsPrefixOf
  <2>5. Processing \/ phase \in {"start", "success", "failure"}
    BY DEF HarnessInv, HarnessTypeOK, Processing
  <2> QED
    BY <2>2, <2>3, <2>4, <2>5
<1>6. SummaryAddsUp
  BY DEF ReportInv, Summaries, SummaryAddsUp
<1> QED
  BY <1>5, <1>6 DEF ReportsWhatWasRequested, ReportInv, Ended

(* The test program reports every test case of every file that its command  *)
(* line asks for, once and in order and under the right options, and every  *)
(* summary adds up (main, process_json_testcase_array).                     *)
THEOREM ReportsAreComplete == HarnessSpec => []ReportsWhatWasRequested
<1>1. HarnessInit => HarnessInv /\ ReportInv
  BY HarnessInitHolds, ReportInitHolds
<1>2. HarnessInv /\ ReportInv /\ [HarnessNext]_harnessVars => (HarnessInv /\ ReportInv)'
  BY HarnessStepHolds, ReportStepHolds
<1>3. HarnessInv /\ ReportInv => ReportsWhatWasRequested
  BY ReportInvSuffices
<1> QED
  BY <1>1, <1>2, <1>3, PTL DEF HarnessSpec

-----------------------------------------------------------------------------
(* Verdicts *)

(* What the instruction of a test case does, and the verdict this deserves. *)
Prepared(state) == [state.regs EXCEPT !.SR = fix_p_register_value(@)]

EffectOn(mode, t) == Effect(mode, Prepared(t.initial), t.initial.mem)

Deserves(t, mode, flags, errors, notices) ==
    LET e == EffectOn(mode, t)
    IN  /\ notices = e.reported
        /\ "error" \notin notices => errors = Deviations(t, e.regs, e.mem, e.cycles, flags)

Loaded ==
    AtTestcase /\ Testcases[testcase_index].malformed = {} =>
        /\ testcase.initial = Testcases[testcase_index].initial
        /\ testcase.final = Testcases[testcase_index].final
        /\ testcase.cycles = Testcases[testcase_index].cycles

Ready ==
    phase = "run" =>
        /\ CPU = cpu_mode /\ Regs = Prepared(testcase.initial) /\ Mem = testcase.initial.mem
        /\ ~HaveNMIRequest /\ ~HaveIRQRequest /\ Reported = {}

WasExecuted ==
    phase = "verify" =>
        LET e == EffectOn(cpu_mode, testcase)
        IN  /\ Regs = e.regs /\ Mem = e.mem /\ Reported = e.reported
            /\ "error" \notin Reported => Cycles = e.cycles

Judged ==
    \A n \in DOMAIN log :
        log[n].index > 0 /\ log[n].parsed /\ TestcaseOf(log[n]).malformed = {} =>
            Deserves(TestcaseOf(log[n]), log[n].mode, log[n].flags, log[n].errors, log[n].notices)

VerdictInv == Loaded /\ Ready /\ WasExecuted /\ Judged

LEMMA VerdictInitHolds == HarnessInit => VerdictInv
  BY NothingPrinted DEF HarnessInit, VerdictInv, Loaded, Ready, WasExecuted, Judged, AtTestcase

(* A verdict only looks at these parts of a test case.                      *)
LEMMA SameDeserts ==
    ASSUME NEW t, NEW u, t.initial = u.initial, t.final = u.final, t.cycles = u.cycles,
           NEW mode, NEW flags, NEW errors, NEW notices, Deserves(t, mode, flags, errors, notices)
    PROVE  Deserves(u, mode, flags, errors, notices)
  BY DEF Deserves, EffectOn, Deviations

(* A line more.                                                             *)
LEMMA JudgedGrows ==
    ASSUME ReportInv, Judged, NEW e, log' = Append(log, e),
           e.index > 0 /\ e.parsed /\ TestcaseOf(e).malformed = {} =>
               Deserves(TestcaseOf(e), e.mode, e.flags, e.errors, e.notices)
    PROVE  Judged'
<1>1. PICK S : log \in Seq(S)
  BY DEF ReportInv
<1>2. /\ Len(log) \in Nat /\ DOMAIN log = 1..Len(log) /\ DOMAIN log' = 1..Len(log) + 1
      /\ \A n \in 1..Len(log) : log'[n] = log[n]
      /\ log'[Len(log) + 1] = e
  BY <1>1, LogGrows
<1>3. ASSUME NEW n \in DOMAIN log', NEW x, x = log'[n],
             x.index > 0 /\ x.parsed /\ TestcaseOf(x).malformed = {}
      PROVE  Deserves(TestcaseOf(x), x.mode, x.flags, x.errors, x.notices)
  <2>1. CASE n \in 1..Len(log)
    BY <1>2, <1>3, <2>1 DEF Judged
  <2>2. CASE n = Len(log) + 1
    BY <1>2, <1>3, <2>2
  <2> QED
    BY <1>2, <2>1, <2>2
<1> QED
  BY <1>3 DEF Judged, TestcaseOf

LEMMA VerdictStepHolds ==
    HarnessInv /\ ReportInv /\ VerdictInv /\ [HarnessNext]_harnessVars => VerdictInv'
<1> SUFFICES ASSUME HarnessInv, ReportInv, VerdictInv, [HarnessNext]_harnessVars
             PROVE  VerdictInv'
  OBVIOUS
<1>1. CASE Start \/ TakeOption \/ OpenFile \/ UnableToProcess \/ Finish
  <2>1. log' = log /\ phase' \notin {"prepare", "run", "verify"}
    BY <1>1 DEF Start, TakeOption, OpenFile, UnableToProcess, Finish
  <2> QED
    BY <2>1 DEF VerdictInv, Loaded, Ready, WasExecuted, Judged, AtTestcase, TestcaseOf
<1>2. CASE CannotBeParsed
  <2>1. PICK e : e = [file |-> argv[i], index |-> testcase_index', mode |-> cpu_mode,
                      flags |-> test_flags, parsed |-> FALSE]
    OBVIOUS
  <2>2. log' = Append(log, e) /\ ~e.parsed /\ phase' = "parse"
    BY <1>2, <2>1 DEF CannotBeParsed
  <2>3. Judged'
    BY <2>2, JudgedGrows DEF VerdictInv
  <2> QED
    BY <2>2, <2>3 DEF VerdictInv, Loaded, Ready, WasExecuted, AtTestcase
<1>3. CASE EndOfFile
  <2>1. PICK e : e = [file |-> argv[i], index |-> 0, deviations |-> testcase_error]
    OBVIOUS
  <2>2. log' = Append(log, e) /\ ~(e.index > 0) /\ phase' = "args"
    BY <1>3, <2>1 DEF EndOfFile
  <2>3. Judged'
    BY <2>2, JudgedGrows DEF VerdictInv
  <2> QED
    BY <2>2, <2>3 DEF VerdictInv, Loaded, Ready, WasExecuted, AtTestcase
<1>4. CASE ParseTestcase
  <2>1. /\ log' = log /\ phase' = "prepare" /\ argv' = argv /\ i' = i
        /\ testcase' \in [initial : Parsed("initial"), final : Parsed("final"), cycles : {Json.cycles}]
    BY <1>4 DEF ParseTestcase, program
  <2>2. Json = Testcases'[testcase_index']
    BY <2>1 DEF Json, Testcases
  <2>3. ASSUME Testcases'[testcase_index'].malformed = {}
        PROVE  /\ testcase'.initial = Testcases'[testcase_index'].initial
               /\ testcase'.final = Testcases'[testcase_index'].final
               /\ testcase'.cycles = Testcases'[testcase_index'].cycles
    <3>1. /\ testcase'.initial \in Parsed("initial") /\ testcase'.final \in Parsed("final")
          /\ testcase'.cycles = Json.cycles
      BY <2>1
    <3> QED
      BY <2>2, <2>3, <3>1 DEF Parsed
  <2>4. Judged'
    BY <2>1 DEF VerdictInv, Judged, TestcaseOf
  <2> QED
    BY <2>1, <2>3, <2>4 DEF VerdictInv, Loaded, Ready, WasExecuted, AtTestcase
<1>5. CASE Prepare
  <2>1. UNCHANGED <<log, argv, i, testcase_index, testcase, cpu_mode>> /\ phase = "prepare" /\ phase' = "run"
    BY <1>5 DEF Prepare, program, cursor
  <2>2. Ready'
    BY <1>5, <2>1 DEF Prepare, Ready, Prepared
  <2> QED
    BY <2>1, <2>2 DEF VerdictInv, Loaded, WasExecuted, Judged, AtTestcase, Testcases, TestcaseOf
<1>6. CASE RunInsn
  <2>1. /\ UNCHANGED <<log, argv, i, testcase_index, testcase, cpu_mode>>
        /\ phase = "run" /\ phase' = "verify" /\ ExecuteInsn
    BY <1>6 DEF RunInsn, program, cursor
  <2>2. HasEffect(Effect(CPU, Regs, Mem))
    <3>1. Handler
      BY <2>1 DEF VerdictInv, Ready, ExecuteInsn, ServeNMI, ServeIRQ, ExecuteOpcode
    <3> QED
      BY <3>1, HandlerEffect
  <2>3. Effect(CPU, Regs, Mem) = EffectOn(cpu_mode, testcase) /\ Reported = {}
    BY <2>1 DEF VerdictInv, Ready, EffectOn
  <2>4. WasExecuted'
    BY <2>1, <2>2, <2>3 DEF WasExecuted, HasEffect, EffectOn, Prepared
  <2> QED
    BY <2>1, <2>4 DEF VerdictInv, Loaded, Ready, Judged, AtTestcase, Testcases, TestcaseOf
<1>7. CASE Verify
  <2>1. PICK e : e = [file |-> argv[i], index |-> testcase_index, mode |-> cpu_mode,
                      flags |-> test_flags, parsed |-> TRUE,
                      errors |-> Errors, notices |-> Reported]
    OBVIOUS
  <2>2. log' = Append(log, e) /\ phase = "verify" /\ phase' = "parse"
    BY <1>7, <2>1 DEF Verify
  <2>3. ASSUME TestcaseOf(e).malformed = {}
        PROVE  Deserves(TestcaseOf(e), e.mode, e.flags, e.errors, e.notices)
    <3>1. TestcaseOf(e) = Testcases[testcase_index]
      BY <2>1 DEF TestcaseOf, Testcases
    <3>2. /\ testcase.initial = TestcaseOf(e).initial /\ testcase.final = TestcaseOf(e).final
          /\ testcase.cycles = TestcaseOf(e).cycles
      BY <2>2, <2>3, <3>1 DEF VerdictInv, Loaded, AtTestcase
    <3>3. Deserves(testcase, e.mode, e.flags, e.errors, e.notices)
      <4>1. e.mode = cpu_mode /\ e.flags = test_flags /\ e.errors = Errors /\ e.notices = Reported
        BY <2>1
      <4> QED
        BY <2>2, <4>1 DEF VerdictInv, WasExecuted, Deserves, Errors
    <3> QED
      BY <3>2, <3>3, SameDeserts
  <2>4. Judged'
    BY <2>2, <2>3, JudgedGrows DEF VerdictInv
  <2> QED
    BY <2>2, <2>4 DEF VerdictInv, Loaded, Ready, WasExecuted, AtTestcase
<1>8. CASE UNCHANGED harnessVars
  BY <1>8 DEF harnessVars, vars, VerdictInv, Loaded, Ready, WasExecuted, Judged, AtTestcase, Testcases, TestcaseOf
<1> QED
  BY <1>1, <1>2, <1>3, <1>4, <1>5, <1>6, <1>7, <1>8 DEF HarnessNext

(* A check that is disabled takes its deviation with it and no other.       *)
LEMMA FlagsSelect ==
    ASSUME NEW t, NEW regs, NEW mem, NEW cycles, NEW f, NEW g, NEW x,
           x \in Deviations(t, regs, mem, cycles, f),
           x.check \in {"CYCLECOUNT", "MEMORY"} => x.check \in g
    PROVE  /\ x \in Deviations(t, regs, mem, cycles, g)
           /\ x.check \in {"CYCLECOUNT", "MEMORY"} => x.check \in f
<1> DEFINE final == t.final
           wrong == {reg \in {"AC", "XR", "YR", "SP", "PC"} : regs[reg] # final.regs[reg]}
           cells == Differing(mem, final.mem)
           always == {Deviation(reg, final.regs[Printed(reg)], regs[reg]) : reg \in wrong}
                       \cup When(Deviation("SR", ToByte(final.regs.SR), ToByte(regs.SR)),
                                 regs.SR # fix_p_register_value(final.regs.SR))
           cycle == Deviation("CYCLECOUNT", t.cycles, cycles)
           memory == Deviation("MEMORY", MemReadByte(final.mem, Min(cells)), MemReadByte(mem, Min(cells)))
<1>1. \A h : Deviations(t, regs, mem, cycles, h) =
          always \cup When(cycle, "CYCLECOUNT" \in h /\ cycles # t.cycles)
                 \cup (IF "MEMORY" \in h /\ cells # {} THEN {memory} ELSE {})
  BY DEF Deviations
<1>2. cycle.check = "CYCLECOUNT" /\ memory.check = "MEMORY"
  BY DEF Deviation
<1>3. \A y \in always : y.check \notin {"CYCLECOUNT", "MEMORY"}
  BY DEF Deviation, When
<1> HIDE DEF always, cycle, memory, cells
<1> QED
  BY <1>1, <1>2, <1>3 DEF When

(* Verdicts are what test cases deserve, and so they are local.             *)
LEMMA VerdictInvSuffices == VerdictInv => VerdictIsLocal
<1> SUFFICES ASSUME VerdictInv, NEW d \in Verdicts, NEW e \in Verdicts,
                    SameCase(d, e), ~ReportedIllegal(d)
             PROVE  SameVerdict(d, e)
  BY DEF VerdictIsLocal
<1> DEFINE t == TestcaseOf(d)
           o == EffectOn(d.mode, t)
<1>1. /\ Deserves(t, d.mode, d.flags, d.errors, d.notices)
      /\ Deserves(t, d.mode, e.flags, e.errors, e.notices)
  BY DEF VerdictInv, Judged, Verdicts, Entries, SameCase
<1>2. /\ d.notices = o.reported /\ e.notices = o.reported
      /\ d.errors = Deviations(t, o.regs, o.mem, o.cycles, d.flags)
      /\ e.errors = Deviations(t, o.regs, o.mem, o.cycles, e.flags)
  BY <1>1 DEF Deserves, ReportedIllegal
<1> HIDE DEF t, o
<1> DEFINE selected(x, flags) == x.check \in {"CYCLECOUNT", "MEMORY"} => x.check \in flags
<1>3. Enabled(d, e) = Enabled(e, d)
  <2>1. /\ \A x : x \in Enabled(d, e) <=> x \in d.errors /\ selected(x, e.flags)
        /\ \A x : x \in Enabled(e, d) <=> x \in e.errors /\ selected(x, d.flags)
    BY DEF Enabled
  <2>2. \A x : x \in d.errors /\ selected(x, e.flags) => x \in e.errors /\ selected(x, d.flags)
    BY <1>2, FlagsSelect
  <2>3. \A x : x \in e.errors /\ selected(x, d.flags) => x \in d.errors /\ selected(x, e.flags)
    BY <1>2, FlagsSelect
  <2> HIDE DEF selected
  <2> QED
    BY <2>1, <2>2, <2>3
<1> QED
  BY <1>2, <1>3 DEF SameVerdict

(* The verdict on a well-formed test case that does not run into an illegal *)
(* opcode depends on the test case, the processor model and the checks that *)
(* are enabled, and on nothing that ran before it (execute_testcase).       *)
THEOREM VerdictsAreLocal == HarnessSpec => []VerdictIsLocal
<1>1. HarnessInit => HarnessInv /\ ReportInv /\ VerdictInv
  BY HarnessInitHolds, ReportInitHolds, VerdictInitHolds
<1>2. HarnessInv /\ ReportInv /\ VerdictInv /\ [HarnessNext]_harnessVars
          => (HarnessInv /\ ReportInv /\ VerdictInv)'
  BY HarnessStepHolds, ReportStepHolds, VerdictStepHolds
<1>3. VerdictInv => VerdictIsLocal
  BY VerdictInvSuffices
<1> QED
  BY <1>1, <1>2, <1>3, PTL DEF HarnessSpec
=============================================================================
