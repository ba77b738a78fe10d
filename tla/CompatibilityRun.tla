-------------------------- MODULE CompatibilityRun --------------------------
(***************************************************************************)
(* The life of tools/crs-compatibility-report.py: run() and stop_process,  *)
(* in a sequence of runs that share one output directory.                  *)
(*                                                                         *)
(* A run starts Albedo and Envoy, has go-ftw write its results to a file   *)
(* of the output directory, reads them back, stops both processes, and     *)
(* writes its own JSON over that file and a report beside it.  Any step    *)
(* may raise, Ctrl+C may come between any two, a process may die or not    *)
(* want to, and the script may be killed.  What the results are worth is   *)
(* the subject of CompatibilityVerdict; here they are good or not.         *)
(***************************************************************************)
EXTENDS Naturals

CONSTANT MaxRuns    \* bound: the runs of the script

ASSUME MaxRunsAssumption == MaxRuns \in Nat \ {0}

Runs == 1..MaxRuns
Servers == {"albedo", "envoy"}

VARIABLES
    run,        \* the current run
    stage,      \* where it is, or how it ended
    ended,      \* how each run ended
    script,     \* the variables of run()
    server,     \* Albedo and Envoy of each run
    go_ftw,     \* go-ftw of each run
    outlived,   \* history: processes that outlived kill() and the wait for it
    unrecorded, \* history: processes created, and then Ctrl+C came before the assignment
    created,    \* temporary directories that exist
    raw,        \* go-ftw-results.json
    report      \* crs-compatibility-report.md

history == <<outlived, unrecorded>>
processes == <<server, go_ftw, history>>
outputs == <<raw, report>>

vars == <<run, stage, ended, script, processes, created, outputs>>

\* The run whose go-ftw listed the results, or 0 when there are none, and
\* whether the lists would qualify.
Results == [of : 0..MaxRuns, good : BOOLEAN]

NoResults == [of |-> 0, good |-> FALSE]

Statuses == {"none", "zero", "not zero"}

\* The file is go-ftw's ("results"), or the script's payload of a run ("written")
\* with the status of go-ftw, the results and whether errors are listed.
RawFiles ==
    [state : {"absent", "partial", "results", "written"}, of : 0..MaxRuns,
     results : Results, returncode : Statuses]

\* The Markdown has the status and the results; it does not tell the verdict.
Reports ==
    [state : {"absent", "partial", "written"}, of : 0..MaxRuns, results_of : 0..MaxRuns,
     returncode : Statuses]

NoRaw == [state |-> "absent", of |-> 0, results |-> NoResults, returncode |-> "none"]

NoReport == [state |-> "absent", of |-> 0, results_of |-> 0, returncode |-> "none"]

NewScript ==
    [recorded |-> {}, waiting |-> "no", error |-> FALSE, interrupted |-> FALSE,
     returncode |-> "not zero", results |-> NoResults]

TryStages ==
    {"corpus", "spawn_albedo", "record_albedo", "wait_for_http", "configure", "validate",
     "spawn_envoy", "record_envoy", "wait_for_envoy_admin", "spawn_go_ftw", "go_ftw", "read"}

StopStages == {"stop_envoy", "stop_albedo"}

LastStages == {"diagnostics", "judge", "open_raw", "write_raw", "open_report", "write_report", "return"}

Stages == {"preflight"} \cup TryStages \cup StopStages \cup {"cleanup"} \cup LastStages

\* The exit status; Ctrl+C, in the finally clause ("cut") or elsewhere; or the
\* script was killed, perhaps while its go-ftw ran ("orphaned").
Ends == {"0", "1", "2", "cut", "interrupted", "killed", "orphaned"}

Alive(r, p) == server[<<r, p>>] \in {"starting", "ready"}

Continue(next) == stage' = next /\ UNCHANGED <<run, ended>>

End(how) ==
    /\ stage' = how
    /\ ended' = [ended EXCEPT ![run] = how]
    /\ UNCHANGED run

-----------------------------------------------------------------------------
(* The steps of run() *)

\* Executables, output directory, 27 rule files, versions.
Preflight ==
    /\ stage = "preflight"
    /\ \/ /\ Continue("corpus")
          /\ created' = created \cup {run}
       \/ End("2") /\ UNCHANGED created
    /\ UNCHANGED <<script, processes, outputs>>

\* Steps that only read, or write into the temporary directory.
Proceed ==
    /\ \/ stage = "corpus" /\ Continue("spawn_albedo")
       \/ stage = "configure" /\ Continue("validate")
       \/ stage = "validate" /\ Continue("spawn_envoy")
    /\ UNCHANGED <<script, processes, created, outputs>>

\* Albedo runs when it is polled and answers 200.
wait_for_http ==
    /\ stage = "wait_for_http" /\ server[<<run, "albedo">>] = "ready"
    /\ Continue("configure")
    /\ UNCHANGED <<script, processes, created, outputs>>

\* So does Envoy, at the address in its file, which is in the new directory.
wait_for_envoy_admin ==
    /\ stage = "wait_for_envoy_admin" /\ server[<<run, "envoy">>] = "ready"
    /\ Continue("spawn_go_ftw")
    /\ UNCHANGED <<script, processes, created, outputs>>

\* A step of the try block raised.
Raise ==
    /\ stage \in TryStages \ {"record_albedo", "record_envoy"}
    /\ stage = "go_ftw" => go_ftw[run] # "running"
    /\ Continue("stop_envoy")
    /\ script' = [script EXCEPT !.error = TRUE]
    /\ UNCHANGED <<processes, created, outputs>>

Spawn ==
    /\ \/ stage = "spawn_albedo" /\ Continue("record_albedo")
          /\ server' = [server EXCEPT ![<<run, "albedo">>] = "starting"]
       \/ stage = "spawn_envoy" /\ Continue("record_envoy")
          /\ server' = [server EXCEPT ![<<run, "envoy">>] = "starting"]
    /\ UNCHANGED <<script, go_ftw, history, created, outputs>>

\* Popen's result is assigned.
Record ==
    /\ \/ stage = "record_albedo" /\ Continue("wait_for_http")
          /\ script' = [script EXCEPT !.recorded = @ \cup {"albedo"}]
       \/ stage = "record_envoy" /\ Continue("wait_for_envoy_admin")
          /\ script' = [script EXCEPT !.recorded = @ \cup {"envoy"}]
    /\ UNCHANGED <<processes, created, outputs>>

SpawnGoFtw ==
    /\ stage = "spawn_go_ftw"
    /\ Continue("go_ftw")
    /\ go_ftw' = [go_ftw EXCEPT ![run] = "running"]
    /\ UNCHANGED <<script, server, history, created, outputs>>

GoFtwReturns ==
    /\ stage = "go_ftw" /\ go_ftw[run] \in {"zero", "not zero"}
    /\ Continue("read")
    /\ script' = [script EXCEPT !.returncode = go_ftw[run]]
    /\ UNCHANGED <<processes, created, outputs>>

\* The file exists and is JSON, whoever wrote it.  In a payload of the script
\* the lists are one level down: the run finds none, which may or may not do.
ReadResults ==
    /\ stage = "read"
    /\ Continue("stop_envoy")
    /\ \/ raw.state = "results" /\ script' = [script EXCEPT !.results = raw.results]
       \/ raw.state = "written"
          /\ \E good \in BOOLEAN :
                script' = [script EXCEPT !.results = [of |-> 0, good |-> good]]
    /\ UNCHANGED <<processes, created, outputs>>

-----------------------------------------------------------------------------
(* The finally clause and stop_process *)

Stopping == IF stage = "stop_envoy" THEN "envoy" ELSE "albedo"

\* Fault: Albedo is stopped only after a run without an error.
NextStopAfterSuccess ==
    IF stage = "stop_envoy" /\ ~ script.error THEN "stop_albedo" ELSE "cleanup"

NextStop == IF stage = "stop_envoy" THEN "stop_albedo" ELSE "cleanup"

\* No process, or it has ended.
Stopped ==
    /\ stage \in StopStages
    /\ Stopping \notin script.recorded \/ ~ Alive(run, Stopping)
    /\ Continue(NextStop)
    /\ script' = [script EXCEPT !.waiting = "no"]
    /\ UNCHANGED <<processes, created, outputs>>

\* Fault: the wait after terminate() has no timeout.
SignalOnce ==
    /\ stage \in StopStages
    /\ Stopping \in script.recorded /\ Alive(run, Stopping)
    /\ script.waiting = "no"
    /\ script' = [script EXCEPT !.waiting = "terminated"]
    /\ UNCHANGED <<run, stage, ended, processes, created, outputs>>

\* terminate(), and kill() when the wait for it expires.
Signal ==
    /\ stage \in StopStages
    /\ Stopping \in script.recorded /\ Alive(run, Stopping)
    /\ \/ script.waiting = "no" /\ script' = [script EXCEPT !.waiting = "terminated"]
       \/ script.waiting = "terminated" /\ script' = [script EXCEPT !.waiting = "killed"]
    /\ UNCHANGED <<run, stage, ended, processes, created, outputs>>

\* The wait after kill() expires.  The rest of the clause is skipped, and with it
\* Albedo when it was Envoy that stayed; the exception ends the script with 2.
WaitExpires ==
    /\ stage \in StopStages
    /\ script.waiting = "killed" /\ Alive(run, Stopping)
    /\ End("2")
    /\ outlived' = outlived \cup {<<run, Stopping>>}
    /\ created' = created \ {run}
    /\ UNCHANGED <<script, server, go_ftw, unrecorded, outputs>>

\* Envoy's log cannot be read.
CleanupFails ==
    /\ stage = "cleanup"
    /\ End("2")
    /\ created' = created \ {run}
    /\ UNCHANGED <<script, processes, outputs>>

\* Ctrl+C in the finally clause: what is left of it is skipped.
InterruptStopping ==
    /\ stage \in StopStages \cup {"cleanup"}
    /\ End("cut")
    /\ created' = created \ {run}
    /\ UNCHANGED <<script, processes, outputs>>

Cleanup ==
    /\ stage = "cleanup"
    /\ created' = created \ {run}
    /\ IF script.interrupted THEN End("interrupted") ELSE Continue("diagnostics")
    /\ UNCHANGED <<script, processes, outputs>>

-----------------------------------------------------------------------------
(* After the temporary directory is gone *)

\* runner-diagnostics.log is written in any case, then run_error is raised.
WriteDiagnostics ==
    /\ stage = "diagnostics"
    /\ IF script.error THEN End("2") ELSE Continue("judge")
    /\ UNCHANGED <<script, processes, created, outputs>>

\* Rows, failure details and qualification failures.
Judge ==
    /\ stage = "judge"
    /\ Continue("open_raw")
    /\ UNCHANGED <<script, processes, created, outputs>>

RaiseLate ==
    /\ stage \in LastStages
    /\ End("2")
    /\ UNCHANGED <<script, processes, created, outputs>>

\* Fault: any result file qualifies as long as it lists good results.
QualifiesByResults == script.results.good

Qualifies == script.returncode = "zero" /\ script.results.good

Payload ==
    [state |-> "written", of |-> run, returncode |-> script.returncode,
     results |-> [of |-> script.results.of, good |-> Qualifies]]

Markdown ==
    [state |-> "written", of |-> run, results_of |-> script.results.of,
     returncode |-> script.returncode]

\* write_text opens the file, which truncates it, and fills it.
WriteRaw ==
    /\ \/ stage = "open_raw" /\ Continue("write_raw")
          /\ raw' = [NoRaw EXCEPT !.state = "partial", !.of = run]
       \/ stage = "write_raw" /\ Continue("open_report") /\ raw' = Payload
    /\ UNCHANGED <<script, processes, created, report>>

\* The report first, then the status of the script.
WriteReport ==
    /\ \/ stage = "open_report" /\ Continue("write_report")
          /\ report' = [NoReport EXCEPT !.state = "partial", !.of = run]
       \/ stage = "write_report" /\ Continue("return") /\ report' = Markdown
    /\ UNCHANGED <<script, processes, created, raw>>

Return ==
    /\ stage = "return"
    /\ End(IF Qualifies THEN "0" ELSE "1")
    /\ UNCHANGED <<script, processes, created, outputs>>

-----------------------------------------------------------------------------
(* Ctrl+C, the end of the script, and the next run *)

\* In the try block the finally clause runs first; go-ftw is killed.
Interrupt ==
    /\ \/ stage \in TryStages
          /\ Continue("stop_envoy")
          /\ script' = [script EXCEPT !.interrupted = TRUE]
          /\ go_ftw' = [go_ftw EXCEPT ![run] = IF @ = "running" THEN "not zero" ELSE @]
          /\ unrecorded' = unrecorded \cup
                ({run} \X {p \in Servers : server[<<run, p>>] # "none"} \ {run} \X script.recorded)
       \/ stage \in {"preflight"} \cup LastStages
          /\ End("interrupted")
          /\ UNCHANGED <<script, go_ftw, unrecorded>>
    /\ UNCHANGED <<server, outlived, created, outputs>>

Killed ==
    /\ stage \in Stages
    /\ End(IF go_ftw[run] = "running" THEN "orphaned" ELSE "killed")
    /\ UNCHANGED <<script, processes, created, outputs>>

NextRun ==
    /\ stage \in Ends /\ run < MaxRuns
    /\ run' = run + 1
    /\ stage' = "preflight"
    /\ script' = NewScript
    /\ UNCHANGED <<ended, processes, created, outputs>>

-----------------------------------------------------------------------------
(* The processes *)

ServerReady(r, p) ==
    /\ server[<<r, p>>] = "starting"
    /\ server' = [server EXCEPT ![<<r, p>>] = "ready"]
    /\ UNCHANGED <<run, stage, ended, script, go_ftw, history, created, outputs>>

ServerDies(r, p) ==
    /\ Alive(r, p)
    /\ server' = [server EXCEPT ![<<r, p>>] = "dead"]
    /\ UNCHANGED <<run, stage, ended, script, go_ftw, history, created, outputs>>

\* go-ftw exits.  It has written its results whole if it exits with zero;
\* otherwise it may have written a part of them, or nothing.
GoFtwExits(r) ==
    /\ go_ftw[r] = "running"
    /\ \E good \in BOOLEAN, state \in {"results", "partial"} :
        /\ raw' = [state |-> state, of |-> r, results |-> [of |-> r, good |-> good],
                    returncode |-> "none"]
        /\ \/ go_ftw' = [go_ftw EXCEPT ![r] = "not zero"]
           \/ state = "results" /\ go_ftw' = [go_ftw EXCEPT ![r] = "zero"]
    /\ UNCHANGED <<run, stage, ended, script, server, history, created, report>>

GoFtwAborts(r) ==
    /\ go_ftw[r] = "running"
    /\ go_ftw' = [go_ftw EXCEPT ![r] = "not zero"]
    /\ UNCHANGED <<run, stage, ended, script, server, history, created, outputs>>

-----------------------------------------------------------------------------

Init ==
    /\ run = 1
    /\ stage = "preflight"
    /\ ended = [r \in Runs |-> "no"]
    /\ script = NewScript
    /\ server = [rp \in Runs \X Servers |-> "none"]
    /\ go_ftw = [r \in Runs |-> "none"]
    /\ outlived = {}
    /\ unrecorded = {}
    /\ created = {}
    /\ raw = NoRaw
    /\ report = NoReport

Step ==
    \/ Preflight \/ Proceed \/ wait_for_http \/ wait_for_envoy_admin \/ Raise
    \/ Spawn \/ Record \/ SpawnGoFtw \/ GoFtwReturns \/ ReadResults \/ Stopped \/ Signal \/ Cleanup
    \/ WriteDiagnostics \/ Judge \/ RaiseLate \/ WriteRaw \/ WriteReport \/ Return

Next ==
    \/ Step \/ WaitExpires \/ CleanupFails \/ InterruptStopping
    \/ Interrupt \/ Killed \/ NextRun
    \/ \E r \in Runs : GoFtwExits(r) \/ GoFtwAborts(r)
    \/ \E r \in Runs, p \in Servers : ServerReady(r, p) \/ ServerDies(r, p)

Spec == Init /\ [][Next]_vars

\* The script runs, and its waits expire.  Nothing makes go-ftw end.
Fairness == WF_vars(Step) /\ WF_vars(WaitExpires)

FairSpec == Spec /\ Fairness

-----------------------------------------------------------------------------
(* Properties *)

TypeOK ==
    /\ run \in Runs
    /\ stage \in Stages \cup Ends
    /\ ended \in [Runs -> Ends \cup {"no"}]
    /\ script \in [recorded : SUBSET Servers, waiting : {"no", "terminated", "killed"},
                   error : BOOLEAN, interrupted : BOOLEAN,
                   returncode : {"zero", "not zero"}, results : Results]
    /\ \A p \in script.recorded : server[<<run, p>>] # "none"
    /\ server \in [Runs \X Servers -> {"none", "starting", "ready", "dead"}]
    /\ go_ftw \in [Runs -> {"none", "running", "zero", "not zero"}]
    /\ outlived \subseteq Runs \X Servers
    /\ unrecorded \subseteq Runs \X Servers
    /\ created \subseteq Runs
    /\ raw \in RawFiles
    /\ report \in Reports

\* A process nothing in the finally clause could stop: it outlived kill() and the
\* wait for it, it is the Albedo of an Envoy that did, or Ctrl+C came between
\* its creation and the assignment.
Escaped(r, p) ==
    \/ <<r, p>> \in outlived
    \/ p = "albedo" /\ <<r, "envoy">> \in outlived
    \/ <<r, p>> \in unrecorded

\* A run with a verdict has no process left.  A run that ended with 2 or by Ctrl+C
\* in the try block or after the finally clause, whichever step failed, has none but
\* those that escaped.  Of a run that Ctrl+C ended in the finally clause nothing is
\* said but that go-ftw is gone.  Only a killed run leaves its directory, and only
\* one that was killed while it waited for go-ftw leaves that.
NothingLeftBehind ==
    \A r \in Runs :
        /\ ended[r] \in {"0", "1"} => \A p \in Servers : ~ Alive(r, p)
        /\ ended[r] \in {"2", "interrupted"} => \A p \in Servers : Alive(r, p) => Escaped(r, p)
        /\ go_ftw[r] = "running" => ended[r] \in {"no", "orphaned"}
        /\ r \in created => ended[r] \in {"no", "killed", "orphaned"}

\* run() knows each process it has to stop, and stops it unless it escapes.
ProcessesAreStopped == TypeOK /\ NothingLeftBehind

NoneOrphaned == \A r \in Runs : ended[r] # "orphaned"

\* When a run exits with a verdict, the report is whole, its own, and tells the
\* status of its own go-ftw.  Unless a go-ftw of a killed run is about, which may
\* still write over it, so is the JSON, it tells of the same results, and it lists
\* errors exactly when the exit status is 1.
EvidenceAgrees ==
    stage \in {"0", "1"} =>
        /\ report.state = "written" /\ report.of = run /\ report.returncode = go_ftw[run]
        /\ NoneOrphaned =>
            /\ raw.state = "written" /\ raw.of = run
            /\ raw.returncode = report.returncode
            /\ raw.results.of = report.results_of
            /\ raw.results.good = (stage = "0")

\* Whatever files earlier runs have left, failed at whatever step: a run that exits
\* with 0 has the results of its own go-ftw, which exited with zero, and a report
\* of any other results says that go-ftw did not.  (There can be one: the file of
\* an earlier run is taken for a result of this one when go-ftw wrote none.)
\* A go-ftw of a killed run can put its results in between.
ZeroIsEarned ==
    stage \in {"0", "1"} =>
        /\ stage = "0" => go_ftw[run] = "zero"
        /\ NoneOrphaned /\ report.results_of # run =>
                stage = "1" /\ report.returncode = "not zero"

\* What a run leaves and how it exits tell the same, and foreign results never pass.
EvidenceIsHonest == EvidenceAgrees /\ ZeroIsEarned

\* Every run ends, unless its go-ftw does not.
RunEnds ==
    \/ stage \in Stages ~> stage \in Ends
    \/ <>[](stage = "go_ftw" /\ go_ftw[run] = "running")
=============================================================================
