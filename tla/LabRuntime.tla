----------------------------- MODULE LabRuntime -----------------------------
(***************************************************************************)
(* The life of the OWASP CRS lab (tools/owasp-crs-lab.py): main, and       *)
(* start, serve and stop of LabRuntime, in a sequence of runs of the tool. *)
(*                                                                         *)
(* The main thread starts an echo upstream served by a thread, writes the  *)
(* configuration, starts Envoy, finds Envoy's admin interface through the  *)
(* address file Envoy writes into the work directory, and binds the UI.    *)
(* Any step may raise, Ctrl+C may arrive between any two of them, Envoy    *)
(* may die at any time, and the process may be killed without stop().      *)
(*                                                                         *)
(* A run of the tool, the Envoy it starts and the temporary directory it   *)
(* creates share a number; 0 is the directory given by --work-directory,   *)
(* which later runs find as the earlier ones left it.                      *)
(***************************************************************************)
EXTENDS Naturals

CONSTANT MaxRuns  \* bound: the runs of the tool

ASSUME MaxRunsAssumption == MaxRuns \in Nat \ {0}

Runs == 1..MaxRuns
Given == 0
Directories == 0..MaxRuns

VARIABLES
    run,        \* the current run
    stage,      \* where its main thread is
    lab,        \* the members of LabRuntime
    ended,      \* how each run ended
    temporary,  \* runs without --work-directory
    created,    \* temporary directories that exist
    config,     \* the CRS configuration in each directory
    address,    \* the Envoy named by the address file of each directory
    envoy,      \* the Envoy process of each run
    recorded    \* runs whose self.envoy has been assigned

vars == <<run, stage, lab, ended, temporary, created, config, address, envoy, recorded>>

files == <<created, config, address>>

StartStages ==
    {"binary", "work_directory", "upstream", "thread", "crs_open", "crs_write", "crs_replace",
     "bootstrap", "validate", "log", "spawn", "record", "admin", "discover", "ui"}

StopStages ==
    {"stop_ui", "stop_envoy", "wait_terminated", "wait_killed", "close_log",
     "shutdown", "close_upstream", "join", "cleanup"}

NoLab ==
    [upstream |-> "none", loop |-> "none", shutdown_request |-> FALSE,
     draft |-> "absent", log |-> "none", ui |-> "none", admin |-> 0, target |-> 0]

\* Fault: the address file lies in one place for all runs.
DirectoryShared(r) == Given

Directory(r) == IF r \in temporary THEN r ELSE Given

Alive(r) == envoy[r] \in {"starting", "writing", "bound", "ready"}

Current(d) == /\ stage' = d
              /\ UNCHANGED <<run, ended, temporary>>

-----------------------------------------------------------------------------
(* start() *)

\* A step of start raised, which main answers with stop().
Raise ==
    /\ stage \in StartStages \ {"record"}
    /\ Current("stop_ui")
    /\ UNCHANGED <<lab, files, envoy, recorded>>

CheckBinary ==
    /\ stage = "binary"
    /\ Current("work_directory")
    /\ UNCHANGED <<lab, files, envoy, recorded>>

MakeWorkDirectory ==
    /\ stage = "work_directory"
    /\ Current("upstream")
    /\ created' = created \cup (temporary \cap {run})
    /\ UNCHANGED <<lab, config, address, envoy, recorded>>

BindUpstream ==
    /\ stage = "upstream"
    /\ Current("thread")
    /\ lab' = [lab EXCEPT !.upstream = "bound"]
    /\ UNCHANGED <<files, envoy, recorded>>

\* The thread object is assigned first; start() returns once the thread runs.
StartUpstreamThread ==
    /\ stage = "thread"
    /\ Current("crs_open")
    /\ lab' = [lab EXCEPT !.loop = "starting"]
    /\ UNCHANGED <<files, envoy, recorded>>

\* Fault: write_crs_config writes the configuration where it is read from.
WriteCrsConfigInPlace ==
    \/ /\ stage = "crs_open"
       /\ Current("crs_write")
       /\ config' = [config EXCEPT ![Directory(run)] = "partial"]
       /\ UNCHANGED <<lab, created, address, envoy, recorded>>
    \/ /\ stage = "crs_write"
       /\ Current("crs_replace")
       /\ config' = [config EXCEPT ![Directory(run)] = "whole"]
       /\ lab' = [lab EXCEPT !.draft = "whole"]
       /\ UNCHANGED <<created, address, envoy, recorded>>

\* write_crs_config creates a file of another name, which it fills ...
WriteCrsConfig ==
    /\ \/ stage = "crs_open" /\ Current("crs_write") /\ lab' = [lab EXCEPT !.draft = "partial"]
       \/ stage = "crs_write" /\ Current("crs_replace") /\ lab' = [lab EXCEPT !.draft = "whole"]
    /\ UNCHANGED <<files, envoy, recorded>>

\* ... and then renames over whatever an earlier run left.
ReplaceCrsConfig ==
    /\ stage = "crs_replace"
    /\ Current("bootstrap")
    /\ config' = [config EXCEPT ![Directory(run)] = lab.draft]
    /\ UNCHANGED <<lab, created, address, envoy, recorded>>

WriteBootstrap ==
    /\ stage = "bootstrap"
    /\ Current("validate")
    /\ UNCHANGED <<lab, files, envoy, recorded>>

\* Envoy accepted the configuration.
Validate ==
    /\ stage = "validate"
    /\ Current("log")
    /\ UNCHANGED <<lab, files, envoy, recorded>>

OpenLog ==
    /\ stage = "log"
    /\ Current("spawn")
    /\ lab' = [lab EXCEPT !.log = "open"]
    /\ UNCHANGED <<files, envoy, recorded>>

\* Popen has created the process ...
Spawn ==
    /\ stage = "spawn"
    /\ Current("record")
    /\ envoy' = [envoy EXCEPT ![run] = "starting"]
    /\ UNCHANGED <<lab, files, recorded>>

\* ... and its result is assigned to self.envoy.
Record ==
    /\ stage = "record"
    /\ Current("admin")
    /\ recorded' = recorded \cup {run}
    /\ UNCHANGED <<lab, files, envoy>>

\* _wait_for_admin: Envoy still runs when it is polled, and /ready at the
\* address in the file is answered with 200.
AdminReady ==
    /\ stage = "admin"
    /\ Alive(run)
    /\ LET a == address[Directory(run)] IN
        /\ a # 0 /\ envoy[a] = "ready"
        /\ lab' = [lab EXCEPT !.admin = a]
    /\ Current("discover")
    /\ UNCHANGED <<files, envoy, recorded>>

\* _discover_listener_port: the listener of the Envoy that answers.
DiscoverListenerPort ==
    /\ stage = "discover" /\ Alive(lab.admin)
    /\ lab' = [lab EXCEPT !.target = lab.admin]
    /\ Current("ui")
    /\ UNCHANGED <<files, envoy, recorded>>

BindUi ==
    /\ stage = "ui"
    /\ Current("serve")
    /\ lab' = [lab EXCEPT !.ui = "open"]
    /\ UNCHANGED <<files, envoy, recorded>>

-----------------------------------------------------------------------------
(* stop() *)

\* Ctrl+C in start or serve.
Interrupt ==
    /\ stage \in StartStages \cup {"serve"}
    /\ Current("stop_ui")
    /\ UNCHANGED <<lab, files, envoy, recorded>>

\* What the interpreter and the kernel do when the process is gone.
Exit(how) ==
    /\ ended' = [ended EXCEPT ![run] = how]
    /\ stage' = how
    /\ lab' = NoLab
    /\ UNCHANGED <<run, temporary, config, address, envoy, recorded>>

\* A second Ctrl+C, or Envoy outlives SIGKILL for five seconds: stop is cut
\* short.  TemporaryDirectory still removes its directory at exit.
CutShort ==
    /\ stage \in StopStages
    /\ Exit("cut")
    /\ created' = created \ {run}

CloseUi ==
    /\ stage = "stop_ui"
    /\ Current("stop_envoy")
    /\ lab' = [lab EXCEPT !.ui = IF @ = "open" THEN "closed" ELSE @]
    /\ UNCHANGED <<files, envoy, recorded>>

\* Fault: only a lab that got as far as serving has an Envoy to stop.
StopEnvoyIfServing ==
    /\ stage = "stop_envoy"
    /\ Current(IF run \in recorded /\ Alive(run) /\ lab.ui = "closed"
               THEN "wait_terminated" ELSE "close_log")
    /\ UNCHANGED <<lab, files, envoy, recorded>>

\* terminate(), if there is an Envoy and it runs.
StopEnvoy ==
    /\ stage = "stop_envoy"
    /\ Current(IF run \in recorded /\ Alive(run) THEN "wait_terminated" ELSE "close_log")
    /\ UNCHANGED <<lab, files, envoy, recorded>>

EnvoyStopped ==
    /\ stage \in {"wait_terminated", "wait_killed"} /\ ~ Alive(run)
    /\ Current("close_log")
    /\ UNCHANGED <<lab, files, envoy, recorded>>

\* Fault: wait() has no timeout.
WaitForever == FALSE

\* wait(timeout=10) expires: kill().
KillEnvoy ==
    /\ stage = "wait_terminated" /\ Alive(run)
    /\ Current("wait_killed")
    /\ UNCHANGED <<lab, files, envoy, recorded>>

\* Fault: the log stays open.
CloseLogNot ==
    /\ stage = "close_log"
    /\ Current(IF lab.upstream = "none" THEN "join" ELSE "shutdown")
    /\ lab' = [lab EXCEPT !.shutdown_request = lab.upstream # "none"]
    /\ UNCHANGED <<files, envoy, recorded>>

CloseLog ==
    /\ stage = "close_log"
    /\ Current(IF lab.upstream = "none" THEN "join" ELSE "shutdown")
    /\ lab' = [lab EXCEPT !.log = IF @ = "open" THEN "closed" ELSE @,
                          !.shutdown_request = lab.upstream # "none"]
    /\ UNCHANGED <<files, envoy, recorded>>

\* shutdown() waits for the serve_forever loop, which may never have started.
ShutdownReturns ==
    /\ stage = "shutdown" /\ lab.loop = "ended"
    /\ Current("close_upstream")
    /\ UNCHANGED <<lab, files, envoy, recorded>>

CloseUpstream ==
    /\ stage = "close_upstream"
    /\ Current("join")
    /\ lab' = [lab EXCEPT !.upstream = "closed"]
    /\ UNCHANGED <<files, envoy, recorded>>

\* Joining returns: the loop has ended, or no thread was made.
Join ==
    /\ stage = "join"
    /\ Current("cleanup")
    /\ UNCHANGED <<lab, files, envoy, recorded>>

\* Fault: the temporary directory is kept.
CleanupNot ==
    /\ stage = "cleanup"
    /\ Exit("stopped")
    /\ UNCHANGED created

Cleanup ==
    /\ stage = "cleanup"
    /\ Exit("stopped")
    /\ created' = created \ {run}

\* The process is killed, or ends by a signal Python does not handle.
Killed ==
    /\ stage \in StartStages \cup StopStages \cup {"serve"}
    /\ Exit("killed")
    /\ UNCHANGED created

\* The tool is started again, in either mode.
NextRun ==
    /\ stage \in {"stopped", "cut", "killed"} /\ run < MaxRuns
    /\ run' = run + 1
    /\ stage' = "binary"
    /\ temporary' \in {temporary, temporary \cup {run + 1}}
    /\ UNCHANGED <<lab, ended, files, envoy, recorded>>

-----------------------------------------------------------------------------
(* The thread of the upstream *)

\* serve_forever finds a shutdown that was requested before it began.
ServeForever ==
    /\ lab.loop = "starting"
    /\ lab' = [lab EXCEPT !.loop = IF lab.shutdown_request THEN "ended" ELSE "serving"]
    /\ UNCHANGED <<run, stage, ended, temporary, files, envoy, recorded>>

ServeForeverEnds ==
    /\ lab.loop = "serving" /\ lab.shutdown_request
    /\ lab' = [lab EXCEPT !.loop = "ended"]
    /\ UNCHANGED <<run, stage, ended, temporary, files, envoy, recorded>>

-----------------------------------------------------------------------------
(* Envoy *)

\* The address file is truncated, then holds the address of the admin
\* interface, which answers /ready with 200 only later.
EnvoyStarts(r) ==
    /\ \/ /\ envoy[r] = "starting"
          /\ envoy' = [envoy EXCEPT ![r] = "writing"]
          /\ address' = [address EXCEPT ![Directory(r)] = 0]
       \/ /\ envoy[r] = "writing"
          /\ envoy' = [envoy EXCEPT ![r] = "bound"]
          /\ address' = [address EXCEPT ![Directory(r)] = r]
       \/ /\ envoy[r] = "bound"
          /\ envoy' = [envoy EXCEPT ![r] = "ready"]
          /\ UNCHANGED address
    /\ UNCHANGED <<run, stage, lab, ended, temporary, created, config, recorded>>

\* Of its own, or from a signal.
EnvoyDies(r) ==
    /\ Alive(r)
    /\ envoy' = [envoy EXCEPT ![r] = "dead"]
    /\ UNCHANGED <<run, stage, lab, ended, temporary, files, recorded>>

-----------------------------------------------------------------------------

Init ==
    /\ run = 1
    /\ stage = "binary"
    /\ lab = NoLab
    /\ ended = [r \in Runs |-> "no"]
    /\ temporary \in {{}, {1}}
    /\ created = {}
    /\ config = [d \in Directories |-> "absent"]
    /\ address = [d \in Directories |-> 0]
    /\ envoy = [r \in Runs |-> "none"]
    /\ recorded = {}

StartNext ==
    \/ CheckBinary \/ MakeWorkDirectory \/ BindUpstream \/ StartUpstreamThread
    \/ WriteCrsConfig \/ ReplaceCrsConfig \/ WriteBootstrap \/ Validate \/ OpenLog
    \/ Spawn \/ Record \/ AdminReady \/ DiscoverListenerPort \/ BindUi
    \/ Raise

StopNext ==
    \/ CloseUi \/ StopEnvoy \/ EnvoyStopped \/ KillEnvoy \/ CloseLog
    \/ ShutdownReturns \/ CloseUpstream \/ Join \/ Cleanup

Next ==
    \/ StartNext \/ StopNext
    \/ Interrupt \/ CutShort \/ Killed \/ NextRun
    \/ ServeForever \/ ServeForeverEnds
    \/ \E r \in Runs : EnvoyStarts(r) \/ EnvoyDies(r)

Spec == Init /\ [][Next]_vars

\* The main thread and the upstream's thread run; a killed Envoy dies, or the
\* wait for it expires.
Fairness ==
    /\ WF_vars(StartNext) /\ WF_vars(StopNext)
    /\ WF_vars(ServeForever) /\ WF_vars(ServeForeverEnds)
    /\ WF_vars(stage = "wait_killed" /\ (CutShort \/ EnvoyDies(run)))

FairSpec == Spec /\ Fairness

-----------------------------------------------------------------------------
(* Properties *)

TypeOK ==
    /\ run \in Runs
    /\ stage \in StartStages \cup StopStages \cup {"serve", "stopped", "cut", "killed"}
    /\ lab \in [upstream : {"none", "bound", "closed"},
                loop : {"none", "starting", "serving", "ended"},
                shutdown_request : BOOLEAN, draft : {"absent", "partial", "whole"},
                log : {"none", "open", "closed"}, ui : {"none", "open", "closed"},
                admin : 0..MaxRuns, target : 0..MaxRuns]
    /\ ended \in [Runs -> {"no", "stopped", "cut", "killed"}]
    /\ temporary \subseteq Runs
    /\ created \subseteq temporary
    /\ config \in [Directories -> {"absent", "partial", "whole"}]
    /\ address \in [Directories -> 0..MaxRuns]
    /\ envoy \in [Runs -> {"none", "starting", "writing", "bound", "ready", "dead"}]
    /\ recorded \subseteq Runs

\* A run that may have left its Envoy behind: stop() did not run to its end,
\* or Ctrl+C fell between the creation of the process and its assignment.
MayOrphan(r) == ended[r] \in {"cut", "killed"} \/ r \notin recorded

\* Whatever step of start failed, and whenever Ctrl+C came, a run whose stop()
\* ends has stopped the Envoy it recorded and removed its directory: no Envoy
\* outlives its run and no directory does, but for those of MayOrphan.
NothingLeftBehind ==
    \A r \in Runs : ended[r] # "no" =>
        /\ Alive(r) => MayOrphan(r)
        /\ r \in created => ended[r] = "killed"

\* By the time the temporary directory is removed nothing of the lab uses it:
\* the UI, the log and the upstream are closed and the upstream's loop is over.
ClosedBeforeCleanup ==
    stage = "cleanup" =>
        /\ lab.ui # "open" /\ lab.log # "open"
        /\ lab.upstream # "bound" /\ lab.loop \in {"none", "ended"}
        /\ run \in recorded => ~ Alive(run)

\* stop() releases what start() has acquired in an order in which nothing that
\* is left still uses it.
StopsInOrder == TypeOK /\ ClosedBeforeCleanup

\* A directory never holds a part of a configuration, wherever a run that wrote
\* it was cut off; and an Envoy that runs, also one left behind by an earlier
\* run, finds a whole one there while a later run writes it again.
ConfigIsWhole ==
    /\ \A d \in Directories : config[d] # "partial"
    /\ \A r \in Runs : Alive(r) => config[Directory(r)] = "whole"

\* The listener the web API sends to is that of the run's own Envoy, or of an
\* Envoy left behind in the given directory by a run that did not end well.
TargetsOwnOrOrphan ==
    lab.target # 0 =>
        \/ lab.target = run
        \/ run \notin temporary /\ lab.target \notin temporary /\ MayOrphan(lab.target)

\* A run comes to serve or to its end, and stop() to its end: unless stop waits
\* for the loop of an upstream that was bound and never served.
RunSettles ==
    stage \in StartStages \cup StopStages
        ~> \/ stage \in {"serve", "stopped", "cut", "killed"}
           \/ stage = "shutdown" /\ lab.loop = "none"
=============================================================================
