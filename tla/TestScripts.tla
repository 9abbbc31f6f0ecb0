---------------------------- MODULE TestScripts -----------------------------
(***************************************************************************)
(* The scripts around the test program (test_opcodes.py and                *)
(* make_testresult_dashboard.py): a pool of processes runs the test suite  *)
(* for every processor, each leaves the output in a file of its own, and   *)
(* when all have ended a dashboard is made from the files.  The script may *)
(* be killed at any time and started again: files survive that.            *)
(***************************************************************************)
EXTENDS Integers, FiniteSets, FiniteSetsExt

CONSTANTS
    JobCount,     \* how many pairs of a processor and a test suite are tested: jobs 1, 2, ...
    Supported,    \* job -> the opcodes that are tested
    Opcode,       \* all opcodes
    Results,      \* what the summary of a test file may say: records [errors, tests]
    Processes,    \* how many processes the pool has
    None,         \* no file, no output
    MaxStarts     \* bound: how often the script is started

Jobs == 1..JobCount

(* What the scripts look at in a result file: summaries of some opcodes.   *)
Outputs == UNION {[S -> Results] : S \in SUBSET Opcode}
Empty   == [opcode \in {} |-> 0]

ASSUME ScriptAssumption ==
    /\ JobCount \in Nat /\ Processes \in Nat \ {0} /\ MaxStarts \in Nat
    /\ Supported \in [Jobs -> SUBSET Opcode]
    /\ None \notin Outputs
    /\ \A r \in Results : r.tests \in Nat /\ r.errors \in 0..r.tests

VARIABLES
    main,      \* "idle", "pool", "dashboard", "done" or "failed"
    next,      \* the first job no process has taken; the next table of the dashboard
    status,    \* job -> "waiting", "running", "opened", "written" or "failed"
    stdout,    \* job -> what the test program wrote in this run
    files,     \* job -> its result file
    page,      \* test_summary.html: [tables, complete]
    starts     \* how often the script was started

scriptVars == <<main, next, status, stdout, files, page, starts>>

ScriptInit ==
    /\ main = "idle"
    /\ next = 1
    /\ status = [j \in Jobs |-> "waiting"]
    /\ stdout = [j \in Jobs |-> None]
    /\ files = [j \in Jobs |-> None]
    /\ page = None
    /\ starts = 0

-----------------------------------------------------------------------------
(* main *)

StartScript ==
    /\ main \in {"idle", "done", "failed"}
    /\ starts < MaxStarts
    /\ main' = "pool"
    /\ next' = 1
    /\ status' = [j \in Jobs |-> "waiting"]
    /\ stdout' = [j \in Jobs |-> None]
    /\ starts' = starts + 1
    /\ UNCHANGED <<files, page>>

Ended == \A j \in Jobs : status[j] \in {"written", "failed"}

MakeDashboard_Fault ==
    /\ main = "pool"
    /\ Ended
    /\ main' = "dashboard"
    /\ next' = 1
    /\ page' = [tables |-> Empty, complete |-> FALSE]
    /\ UNCHANGED <<status, stdout, files, starts>>

MakeDashboard_Early ==
    /\ main = "pool"
    /\ \A j \in Jobs : status[j] \in {"opened", "written"}
    /\ main' = "dashboard"
    /\ next' = 1
    /\ page' = [tables |-> Empty, complete |-> FALSE]
    /\ UNCHANGED <<status, stdout, files, starts>>

(* starmap returns when every job has ended; it raises what one of them    *)
(* raised.  Opening the page empties it.                                   *)
MakeDashboard ==
    /\ main = "pool"
    /\ Ended
    /\ \A j \in Jobs : status[j] = "written"
    /\ main' = "dashboard"
    /\ next' = 1
    /\ page' = [tables |-> Empty, complete |-> FALSE]
    /\ UNCHANGED <<status, stdout, files, starts>>

RaiseFailure ==
    /\ main = "pool"
    /\ Ended
    /\ \E j \in Jobs : status[j] = "failed"
    /\ main' = "failed"
    /\ UNCHANGED <<next, status, stdout, files, page, starts>>

-----------------------------------------------------------------------------
(* test_sim65_supported_opcodes *)

Busy == {j \in Jobs : status[j] \in {"running", "opened"}}

Take ==
    /\ main = "pool"
    /\ next \in Jobs
    /\ Cardinality(Busy) < Processes
    /\ status' = [status EXCEPT ![next] = "running"]
    /\ next' = next + 1
    /\ UNCHANGED <<main, stdout, files, page, starts>>

(* The test program summarises every file it was given, in order, or it    *)
(* ends with an error and the assertion fails.                             *)
TestProgramFails ==
    /\ main = "pool"
    /\ \E j \in Jobs : status[j] = "running" /\ status' = [status EXCEPT ![j] = "failed"]
    /\ UNCHANGED <<main, next, stdout, files, page, starts>>

OpenResultFile_Fault ==
    /\ main = "pool"
    /\ \E j \in Jobs :
          /\ status[j] = "running"
          /\ status' = [status EXCEPT ![j] = IF files[j] = None THEN "opened" ELSE "written"]
          /\ \E output \in [Supported[j] -> Results] : stdout' = [stdout EXCEPT ![j] = output]
          /\ files' = [files EXCEPT ![j] = IF @ = None THEN Empty ELSE @]
    /\ UNCHANGED <<main, next, page, starts>>

OpenResultFile ==
    /\ main = "pool"
    /\ \E j \in Jobs :
          /\ status[j] = "running"
          /\ status' = [status EXCEPT ![j] = "opened"]
          /\ \E output \in [Supported[j] -> Results] : stdout' = [stdout EXCEPT ![j] = output]
          /\ files' = [files EXCEPT ![j] = Empty]
    /\ UNCHANGED <<main, next, page, starts>>

WriteResultFile ==
    /\ main = "pool"
    /\ \E j \in Jobs :
          /\ status[j] = "opened"
          /\ status' = [status EXCEPT ![j] = "written"]
          /\ files' = [files EXCEPT ![j] = stdout[j]]
    /\ UNCHANGED <<main, next, stdout, page, starts>>

-----------------------------------------------------------------------------
(* make_testresult_dashboard *)

Total(results, field) == MapThenSumSet(LAMBDA opcode : results[opcode][field], DOMAIN results)

(* Of errors per hundred tests.                                            *)
Colour(r) ==
    IF r.errors = 0 THEN "lightgreen"
    ELSE IF 100 * r.errors < r.tests THEN "yellow"
    ELSE IF r.errors < r.tests THEN "orange"
    ELSE "orangered"

Table(results) ==
    [cells  |-> [opcode \in Opcode |->
                    IF opcode \in DOMAIN results THEN Colour(results[opcode]) ELSE "illegal"],
     errors |-> Total(results, "errors"),
     tests  |-> Total(results, "tests")]

Divides(results) ==
    /\ \A opcode \in DOMAIN results : results[opcode].tests # 0
    /\ Total(results, "tests") # 0

Renders(file) == file # None /\ Divides(file)

AddTable ==
    /\ main = "dashboard"
    /\ next \in Jobs
    /\ Renders(files[next])
    /\ page' = [page EXCEPT !.tables = [j \in 1..next |->
                                           IF j = next THEN Table(files[j]) ELSE page.tables[j]]]
    /\ next' = next + 1
    /\ UNCHANGED <<main, status, stdout, files, starts>>

(* A file that is missing, or a percentage of no test cases at all, raises *)
(* an exception; what was printed until then is the page.                  *)
CannotRender ==
    /\ main = "dashboard"
    /\ next \in Jobs
    /\ ~Renders(files[next])
    /\ main' = "failed"
    /\ UNCHANGED <<next, status, stdout, files, page, starts>>

FinishDashboard ==
    /\ main = "dashboard"
    /\ next \notin Jobs
    /\ page' = [page EXCEPT !.complete = TRUE]
    /\ main' = "done"
    /\ UNCHANGED <<next, status, stdout, files, starts>>

-----------------------------------------------------------------------------
(* Killed with its pool: only the files are left, as they are.             *)
Kill ==
    /\ main \in {"pool", "dashboard"}
    /\ main' = "idle"
    /\ UNCHANGED <<next, status, stdout, files, page, starts>>

ScriptStep ==
    \/ MakeDashboard \/ RaiseFailure
    \/ Take \/ TestProgramFails \/ OpenResultFile \/ WriteResultFile
    \/ AddTable \/ CannotRender \/ FinishDashboard

ScriptNext == StartScript \/ Kill \/ ScriptStep

(* Processes and the test program run until they end.                      *)
ScriptSpec == ScriptInit /\ [][ScriptNext]_scriptVars /\ WF_scriptVars(ScriptStep)

-----------------------------------------------------------------------------
(* A finished dashboard shows, for every job and opcode, what the test      *)
(* program reported in this run: nothing is left of files that an earlier,  *)
(* failed or killed run wrote, "illegal" are exactly the opcodes that are   *)
(* not tested, and green those without an error (make_testresult_dashboard  *)
(* reads files by name, whoever wrote them).                                *)
DashboardShowsThisRun ==
    main = "done" =>
        /\ page.complete
        /\ \A j \in Jobs :
              /\ page.tables[j] = Table(stdout[j])
              /\ \A opcode \in Opcode :
                    LET cell == page.tables[j].cells[opcode]
                    IN  /\ cell = "illegal" <=> opcode \notin Supported[j]
                        /\ cell = "lightgreen" <=>
                              opcode \in Supported[j] /\ stdout[j][opcode].errors = 0

(* The page of an earlier run is left alone until every test has succeeded  *)
(* (the exception of a job leaves main before the page is opened).          *)
PageWaitsForTests == [][page' # page => \A j \in Jobs : status[j] = "written"]_scriptVars

Reason ==
    \E j \in Jobs :
        \/ status[j] = "failed"
        \/ Supported[j] = {} \/ \E opcode \in Supported[j] : stdout[j][opcode].tests = 0

(* However the jobs end and in whatever order, the script ends: with fewer  *)
(* processes than jobs too, and when jobs fail.  It fails for a reason: the *)
(* test program did, or a suite or a file has no test cases.                *)
EndsForAReason ==
    main = "pool" ~> (main \in {"idle", "done"} \/ (main = "failed" /\ Reason))
=============================================================================
