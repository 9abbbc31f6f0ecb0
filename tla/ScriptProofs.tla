---------------------------- MODULE ScriptProofs ----------------------------
(***************************************************************************)
(* For any number of jobs, processes and runs, a finished dashboard shows  *)
(* the run that made it, and is only begun when every test has succeeded.  *)
(***************************************************************************)
EXTENDS TestScripts, TLAPS

(* A result file holds this run's output once it is written; the page      *)
(* holds the tables of the files before the next.                          *)
ScriptType ==
    /\ next \in Int
    /\ status \in [Jobs -> {"waiting", "running", "opened", "written", "failed"}]
    /\ DOMAIN stdout = Jobs /\ DOMAIN files = Jobs

FilesHold ==
    \A j \in Jobs :
        /\ status[j] \in {"opened", "written"} => stdout[j] \in [Supported[j] -> Results]
        /\ status[j] = "written" => files[j] = stdout[j]

AllWritten == \A j \in Jobs : status[j] = "written"

TablesSoFar(n) == [j \in 1..n |-> Table(stdout[j])]

PageHolds ==
    /\ main \in {"dashboard", "done"} => AllWritten
    /\ main = "dashboard" =>
          next \in 1..JobCount+1 /\ page = [tables |-> TablesSoFar(next - 1), complete |-> FALSE]
    /\ main = "done" => page = [tables |-> TablesSoFar(JobCount), complete |-> TRUE]

ScriptInv == ScriptType /\ FilesHold /\ PageHolds

LEMMA InitHolds == ScriptInit => ScriptInv
  BY DEF ScriptInit, ScriptInv, ScriptType, FilesHold, PageHolds

LEMMA StartStep == ScriptInv /\ StartScript => ScriptInv'
  BY DEF ScriptInv, ScriptType, FilesHold, PageHolds, StartScript

LEMMA MakeDashboardStep == ScriptInv /\ MakeDashboard => ScriptInv'
<1> SUFFICES ASSUME ScriptInv, MakeDashboard
             PROVE  ScriptInv'
  OBVIOUS
<1>1. ScriptType' /\ FilesHold'
  BY DEF ScriptInv, ScriptType, FilesHold, MakeDashboard
<1>2. AllWritten' /\ main' = "dashboard" /\ next' \in 1..JobCount+1
  BY ScriptAssumption DEF MakeDashboard, AllWritten
<1>3. TablesSoFar(next - 1)' = Empty
  <2>1. 1..(next - 1)' = {}
    BY DEF MakeDashboard
  <2> QED
    BY <2>1 DEF TablesSoFar, Empty
<1>4. page' = [tables |-> TablesSoFar(next - 1)', complete |-> FALSE]
  BY <1>3 DEF MakeDashboard
<1> QED
  BY <1>1, <1>2, <1>4 DEF ScriptInv, PageHolds

(* While the pool works nothing is claimed of the page.                    *)
LEMMA PoolStep ==
    ScriptInv /\ (RaiseFailure \/ Take \/ TestProgramFails \/ OpenResultFile \/ WriteResultFile)
        => ScriptInv'
<1> SUFFICES ASSUME ScriptInv, RaiseFailure \/ Take \/ TestProgramFails \/ OpenResultFile \/ WriteResultFile
             PROVE  ScriptInv'
  OBVIOUS
<1>1. PageHolds'
  BY DEF PageHolds, RaiseFailure, Take, TestProgramFails, OpenResultFile, WriteResultFile
<1>2. CASE RaiseFailure
  BY <1>1, <1>2 DEF ScriptInv, ScriptType, FilesHold, RaiseFailure
<1>3. CASE Take
  <2>1. ScriptType'
    BY <1>3, SMT DEF ScriptInv, ScriptType, Take
  <2>2. FilesHold'
    BY <1>3, Zenon DEF ScriptInv, ScriptType, FilesHold, Take
  <2> QED
    BY <1>1, <2>1, <2>2 DEF ScriptInv
<1>4. CASE TestProgramFails
  BY <1>1, <1>4 DEF ScriptInv, ScriptType, FilesHold, TestProgramFails
<1>5. CASE OpenResultFile
  BY <1>1, <1>5 DEF ScriptInv, ScriptType, FilesHold, OpenResultFile
<1>6. CASE WriteResultFile
  BY <1>1, <1>6 DEF ScriptInv, ScriptType, FilesHold, WriteResultFile
<1> QED
  BY <1>2, <1>3, <1>4, <1>5, <1>6

(* The step that matters: the next table is that of a file of this run.    *)
LEMMA AddTableStep == ScriptInv /\ AddTable => ScriptInv'
<1> SUFFICES ASSUME ScriptInv, AddTable
             PROVE  ScriptInv'
  OBVIOUS
<1>1. ScriptType' /\ FilesHold'
  BY DEF ScriptInv, ScriptType, FilesHold, AddTable
<1>2. AllWritten /\ AllWritten' /\ main = "dashboard" /\ main' = "dashboard"
  BY DEF ScriptInv, PageHolds, AddTable, AllWritten
<1>3. /\ next \in Jobs /\ next' = next + 1 /\ UNCHANGED <<stdout, files>>
      /\ page' = [page EXCEPT !.tables = [j \in 1..next |-> IF j = next THEN Table(files[j])
                                                            ELSE page.tables[j]]]
      /\ page = [tables |-> TablesSoFar(next - 1), complete |-> FALSE]
  BY <1>2 DEF AddTable, ScriptInv, PageHolds
<1>4. files[next] = stdout[next]
  BY <1>2, <1>3 DEF ScriptInv, FilesHold, AllWritten
<1>5. JobCount \in Nat /\ next \in 1..JobCount
  BY <1>3, ScriptAssumption DEF Jobs
<1>6. \A j \in 1..next : j # next => j \in 1..(next - 1)
  BY <1>5
<1>7. [j \in 1..next |-> IF j = next THEN Table(files[j]) ELSE page.tables[j]] = TablesSoFar(next)
  BY <1>3, <1>4, <1>6 DEF TablesSoFar
<1>8. (next - 1)' = next /\ next' \in 1..JobCount+1
  BY <1>3, <1>5
<1>9. TablesSoFar(next - 1)' = TablesSoFar(next)
  BY <1>3, <1>8 DEF TablesSoFar
<1>10. page' = [tables |-> TablesSoFar(next - 1)', complete |-> FALSE]
  BY <1>3, <1>7, <1>9
<1> QED
  BY <1>1, <1>2, <1>8, <1>10 DEF ScriptInv, PageHolds

LEMMA FinishStep == ScriptInv /\ FinishDashboard => ScriptInv'
<1> SUFFICES ASSUME ScriptInv, FinishDashboard
             PROVE  ScriptInv'
  OBVIOUS
<1>1. ScriptType' /\ FilesHold'
  BY DEF ScriptInv, ScriptType, FilesHold, FinishDashboard
<1>2. AllWritten' /\ main' = "done"
  BY DEF ScriptInv, PageHolds, FinishDashboard, AllWritten
<1>3. next - 1 = JobCount
  BY ScriptAssumption DEF ScriptInv, PageHolds, FinishDashboard, Jobs
<1>4. page = [tables |-> TablesSoFar(JobCount), complete |-> FALSE]
  BY <1>3 DEF ScriptInv, PageHolds, FinishDashboard
<1>5. TablesSoFar(JobCount)' = TablesSoFar(JobCount)
  BY DEF FinishDashboard, TablesSoFar
<1>6. page' = [tables |-> TablesSoFar(JobCount)', complete |-> TRUE]
  BY <1>4, <1>5 DEF FinishDashboard
<1> QED
  BY <1>1, <1>2, <1>6 DEF ScriptInv, PageHolds

LEMMA StepHolds == ScriptInv /\ [ScriptNext]_scriptVars => ScriptInv'
<1>1. CASE ScriptInv /\ (CannotRender \/ Kill)
  BY <1>1 DEF ScriptInv, ScriptType, FilesHold, PageHolds, CannotRender, Kill
<1>2. CASE ScriptInv /\ UNCHANGED scriptVars
  BY <1>2 DEF ScriptInv, ScriptType, FilesHold, PageHolds, AllWritten, TablesSoFar, scriptVars
<1> QED
  BY <1>1, <1>2, StartStep, MakeDashboardStep, PoolStep, AddTableStep, FinishStep DEF ScriptNext, ScriptStep

(* A table calls illegal the opcodes without a summary, and shows green     *)
(* those whose summary counts no errors (render_results_as_table).          *)
LEMMA CellsOfTable ==
    ASSUME NEW results, NEW opcode \in Opcode
    PROVE  LET cell == Table(results).cells[opcode]
           IN  /\ cell = "illegal" <=> opcode \notin DOMAIN results
               /\ cell = "lightgreen" <=>
                     opcode \in DOMAIN results /\ results[opcode].errors = 0
  BY SMT DEF Table, Colour

(* A finished dashboard shows what was reported in the run that made it,    *)
(* whatever files earlier runs left (make_testresult_dashboard).            *)
THEOREM DashboardIsCurrent == ScriptSpec => []DashboardShowsThisRun
<1>1. ScriptInv => DashboardShowsThisRun
  <2> SUFFICES ASSUME ScriptInv, main = "done"
               PROVE  /\ page.complete
                      /\ \A j \in Jobs :
                            /\ stdout[j] \in [Supported[j] -> Results]
                            /\ page.tables[j] = Table(stdout[j])
    BY CellsOfTable DEF DashboardShowsThisRun
  <2>1. page = [tables |-> TablesSoFar(JobCount), complete |-> TRUE] /\ AllWritten
    BY DEF ScriptInv, PageHolds
  <2> QED
    BY <2>1 DEF ScriptInv, FilesHold, AllWritten, TablesSoFar, Jobs
<1> QED
  BY <1>1, InitHolds, StepHolds, PTL DEF ScriptSpec

(* No page is touched before every test of the run has succeeded (main).    *)
THEOREM FailureKeepsPage == ScriptSpec => PageWaitsForTests
<1>1. ScriptInv /\ [ScriptNext]_scriptVars => [page' # page => AllWritten]_scriptVars
  BY DEF ScriptNext, ScriptStep, StartScript, Kill, MakeDashboard, RaiseFailure, Take, TestProgramFails, OpenResultFile,
         WriteResultFile, AddTable, CannotRender, FinishDashboard, ScriptInv, PageHolds, AllWritten, scriptVars
<1> QED
  BY <1>1, InitHolds, StepHolds, PTL DEF ScriptSpec, PageWaitsForTests, AllWritten
=============================================================================
