------------------------- MODULE LabRuntime_proofs -------------------------
(***************************************************************************)
(* The OWASP CRS lab releases what it acquired, in order, and leaves       *)
(* nothing behind; a run is served by the directory it works in, whatever  *)
(* the runs before it left there: for any number of runs of the tool.      *)
(***************************************************************************)
EXTENDS LabRuntime, TLAPS

-----------------------------------------------------------------------------
(* The invariant.  The properties speak of a run that has ended, of the    *)
(* last stage of stop() and of the listener that start() has found; the    *)
(* invariant says of every stage what they rest on.                        *)

Ends == {"stopped", "cut", "killed"}
Live == StartStages \cup StopStages \cup {"serve"}

\* The current run has ended exactly if its stage says how, all before it
\* have, and nothing has been done yet for a run to come.
EndsKnown ==
    /\ ended[run] = IF stage \in Ends THEN stage ELSE "no"
    /\ \A r \in Runs : r < run => ended[r] # "no"
    /\ \A r \in Runs : r > run =>
        /\ ended[r] = "no" /\ envoy[r] = "none"
        /\ r \notin created \cup recorded \cup temporary

RunsOK == EndsKnown /\ NothingLeftBehind

Closed == {"shutdown", "close_upstream", "join", "cleanup"}

\* What stop() has released by each of its stages, and what it may rely on: a
\* loop is begun only for an upstream that is bound.
Releases ==
    /\ stage \in Ends => lab = NoLab
    /\ stage = "thread" => lab.upstream = "bound"
    /\ lab.upstream = "none" => lab.loop = "none"
    /\ stage \in StopStages \ {"stop_ui"} => lab.ui # "open"
    /\ stage \in {"close_log"} \cup Closed => (run \in recorded => ~ Alive(run))
    /\ stage \in Closed => lab.log # "open"
    /\ stage = "close_upstream" => lab.loop = "ended"
    /\ stage \in {"join", "cleanup"} =>
        lab.upstream # "bound" /\ lab.loop \in {"none", "ended"}

\* An Envoy the current run may find in its directory.
OwnOrOrphan(a) ==
    \/ a = run
    \/ run \notin temporary /\ a \notin temporary /\ MayOrphan(a)

\* The address file of a directory names an Envoy that was started there.
AddressesOwned ==
    \A d \in Directories : address[d] # 0 =>
        Directory(address[d]) = d /\ envoy[address[d]] # "none"

DirectoriesOK ==
    /\ AddressesOwned
    /\ lab.admin # 0 => OwnOrOrphan(lab.admin)
    /\ lab.target # 0 => OwnOrOrphan(lab.target)

Configured == {"bootstrap", "validate", "log", "spawn"}

\* What replaces a configuration is whole; a directory holds a whole one from
\* then on, which every Envoy that was started there has found.
ConfigOK ==
    /\ stage = "crs_replace" => lab.draft = "whole"
    /\ stage \in Configured => config[Directory(run)] = "whole"
    /\ \A d \in Directories : config[d] # "partial"
    /\ \A r \in Runs : envoy[r] # "none" => config[Directory(r)] = "whole"

Inv == TypeOK /\ RunsOK /\ Releases /\ DirectoriesOK /\ ConfigOK

-----------------------------------------------------------------------------
(* Runs and directories *)

\* Runs and directories are numbered; none of the runs is the given directory.
LEMMA Numbers ==
    /\ Runs \subseteq Nat /\ Runs \subseteq Directories /\ Directories \subseteq Nat
    /\ Given \in Directories /\ Given \notin Runs
    /\ 1 \in Runs
BY MaxRunsAssumption DEF Runs, Directories, Given

\* A live stage is no end.
LEMMA LiveIsNoEnd == Live \cap Ends = {}
BY DEF Live, Ends, StartStages, StopStages

\* A run works in a directory.
LEMMA DirectoryOfRun ==
    ASSUME NEW r \in Runs
    PROVE  Directory(r) \in Directories
BY Numbers DEF Directory

-----------------------------------------------------------------------------
(* What the steps of the main thread do to the runs *)

\* A step of a run that goes on may create its Envoy and its directory.
LEMMA RunGoesOn ==
    ASSUME TypeOK, RunsOK, stage \in Live, stage' \in Live,
           UNCHANGED <<run, ended, temporary>>,
           \A r \in Runs : r # run => envoy'[r] = envoy[r],
           created' \in {created, created \cup (temporary \cap {run})},
           recorded' \in {recorded, recorded \cup {run}}
    PROVE  RunsOK'
<1>1. ended[run] = "no" /\ stage' \notin Ends /\ run \in Runs
    BY LiveIsNoEnd DEF RunsOK, EndsKnown, TypeOK
<1>2. EndsKnown'
    BY <1>1, Numbers DEF RunsOK, EndsKnown
<1>3. NothingLeftBehind'
    <2> SUFFICES ASSUME NEW r \in Runs, ended'[r] # "no"
                 PROVE  /\ Alive(r)' => MayOrphan(r)'
                        /\ r \in created' => ended'[r] = "killed"
        BY DEF NothingLeftBehind
    <2>1. r # run /\ envoy'[r] = envoy[r] /\ ended'[r] = ended[r]
        BY <1>1
    <2>2. (r \in recorded' <=> r \in recorded) /\ (r \in created' <=> r \in created)
        BY <2>1
    <2>3. /\ Alive(r) => MayOrphan(r)
          /\ r \in created => ended[r] = "killed"
        BY <2>1 DEF RunsOK, NothingLeftBehind
    <2>4. QED
        BY <2>1, <2>2, <2>3 DEF Alive, MayOrphan
<1>4. QED
    BY <1>2, <1>3 DEF RunsOK

\* An end of the run removes its directory, unless the process is killed, and
\* leaves an Envoy only where stop() did not run to its end.
LEMMA RunEnds ==
    ASSUME TypeOK, RunsOK, stage \in Live, Exit(stage'), stage' \in Ends,
           created' = IF stage' = "killed" THEN created ELSE created \ {run},
           stage' = "stopped" => (run \in recorded => ~ Alive(run))
    PROVE  RunsOK'
<1>1. /\ UNCHANGED <<run, envoy, recorded, temporary>> /\ run \in Runs
      /\ ended' = [ended EXCEPT ![run] = stage']
    BY DEF Exit, TypeOK
<1>2. /\ ended'[run] = stage' /\ stage' # "no"
      /\ \A r \in Runs : r # run => ended'[r] = ended[r]
    BY <1>1 DEF TypeOK, Ends
<1>3. EndsKnown'
    BY <1>1, <1>2, Numbers DEF RunsOK, EndsKnown
<1>4. NothingLeftBehind'
    <2> SUFFICES ASSUME NEW r \in Runs, ended'[r] # "no"
                 PROVE  /\ Alive(r)' => MayOrphan(r)'
                        /\ r \in created' => ended'[r] = "killed"
        BY DEF NothingLeftBehind
    <2>1. CASE r = run
        BY <1>1, <1>2, <2>1 DEF Alive, MayOrphan, Ends
    <2>2. CASE r # run
        <3>1. /\ Alive(r) => MayOrphan(r)
              /\ r \in created => ended[r] = "killed"
            BY <1>2, <2>2 DEF RunsOK, NothingLeftBehind
        <3>2. r \in created' => r \in created
            BY <2>2
        <3>3. QED
            BY <1>1, <1>2, <2>2, <3>1, <3>2 DEF Alive, MayOrphan
    <2>3. QED
        BY <2>1, <2>2
<1>5. QED
    BY <1>3, <1>4 DEF RunsOK

\* The next run finds nothing of its own.
LEMMA RunBegins ==
    ASSUME TypeOK, RunsOK, NextRun
    PROVE  RunsOK'
<1>1. /\ run' = run + 1 /\ stage' = "binary" /\ run' \in Runs /\ run \in Runs
      /\ UNCHANGED <<ended, created, envoy, recorded>>
      /\ temporary' \in {temporary, temporary \cup {run + 1}}
    BY Numbers, MaxRunsAssumption DEF NextRun, files, TypeOK, Runs
<1>2. ended[run] # "no" /\ stage' \notin Ends
    BY <1>1 DEF NextRun, RunsOK, EndsKnown, Ends
<1>3. run' > run /\ \A r \in Runs : r < run' => r < run \/ r = run
    BY <1>1, Numbers
<1>4. \A r \in Runs : r > run' => r > run /\ (r \in temporary' <=> r \in temporary)
    BY <1>1, Numbers
<1>5. EndsKnown'
    BY <1>1, <1>2, <1>3, <1>4 DEF RunsOK, EndsKnown
<1>6. NothingLeftBehind'
    BY <1>1 DEF RunsOK, NothingLeftBehind, Alive, MayOrphan
<1>7. QED
    BY <1>5, <1>6 DEF RunsOK

\* Envoy starts on or dies.
LEMMA EnvoyMoves ==
    ASSUME TypeOK, RunsOK, NEW r \in Runs, EnvoyStarts(r) \/ EnvoyDies(r)
    PROVE  /\ UNCHANGED <<run, stage, lab, ended, temporary, created, config, recorded>>
           /\ envoy' \in [Runs -> {"none", "starting", "writing", "bound", "ready", "dead"}]
           /\ \A q \in Runs : Alive(q)' => Alive(q)
           /\ \A q \in Runs : envoy'[q] = "none" <=> envoy[q] = "none"
           /\ \/ address' = address
              \/ address' = [address EXCEPT ![Directory(r)] = 0]
              \/ address' = [address EXCEPT ![Directory(r)] = r]
           /\ envoy[r] # "none"
<1>1. CASE EnvoyStarts(r)
    BY <1>1 DEF EnvoyStarts, Alive, TypeOK
<1>2. CASE EnvoyDies(r)
    BY <1>2 DEF EnvoyDies, Alive, TypeOK, files
<1>3. QED
    BY <1>1, <1>2

-----------------------------------------------------------------------------
(* The steps of the main thread, by what they change *)

\* A step that only goes on to another stage.
Passes ==
    /\ stage \in Live /\ stage' \in Live
    /\ UNCHANGED <<run, ended, temporary, lab, files, envoy, recorded>>

\* The steps of start() that leave nothing to release.
LEMMA StartPasses ==
    ASSUME CheckBinary \/ WriteBootstrap \/ Validate
    PROVE  Passes /\ stage' \in StartStages \ {"thread"}
BY DEF Passes, CheckBinary, WriteBootstrap, Validate, Current, Live, StartStages

\* Whatever start() has come to, stop() begins with its first stage.
LEMMA StopBegins ==
    ASSUME Raise \/ Interrupt
    PROVE  Passes /\ stage' = "stop_ui"
BY DEF Passes, Raise, Interrupt, Current, Live, StartStages, StopStages

\* The steps of stop() that only wait or signal.
LEMMA StopPasses ==
    ASSUME StopEnvoy \/ EnvoyStopped \/ KillEnvoy \/ ShutdownReturns \/ Join
    PROVE  /\ Passes
           /\ stage' \in {"wait_terminated", "wait_killed", "close_log", "close_upstream", "cleanup"}
           /\ stage \in StopStages \ {"stop_ui"}
           /\ stage' = "close_log" => (run \in recorded => ~ Alive(run))
           /\ stage' = "close_upstream" => stage = "shutdown" /\ lab.loop = "ended"
           /\ stage' = "cleanup" => stage = "join"
BY DEF Passes, StopEnvoy, EnvoyStopped, KillEnvoy, ShutdownReturns, Join, Current, Live, StopStages

-----------------------------------------------------------------------------
(* Types *)

\* The types but for the stage.
Typed ==
    /\ run \in Runs
    /\ lab \in [upstream : {"none", "bound", "closed"},
                loop : {"none", "starting", "serving", "ended"},
                shutdown_request : BOOLEAN, draft : {"absent", "partial", "whole"},
                log : {"none", "open", "closed"}, ui : {"none", "open", "closed"},
                admin : 0..MaxRuns, target : 0..MaxRuns]
    /\ ended \in [Runs -> {"no", "stopped", "cut", "killed"}]
    /\ temporary \subseteq Runs
    /\ created \subseteq temporary
    /\ config \in [Directories -> {"absent", "partial", "whole"}]
    /\ address \in [Directories -> 0..MaxRuns]
    /\ envoy \in [Runs -> {"none", "starting", "writing", "bound", "ready", "dead"}]
    /\ recorded \subseteq Runs

\* The types are those and a stage.
LEMMA TypesSplit == TypeOK <=> Typed /\ stage \in Live \cup Ends
BY DEF TypeOK, Typed, Live, Ends

\* A step that keeps those and comes to a stage keeps the types.
LEMMA TypesHold ==
    ASSUME Typed', stage' \in Live \cup Ends
    PROVE  TypeOK'
BY DEF TypeOK, Typed, Live, Ends

\* Initially everything has its type.
LEMMA TypesInitially == Init => TypeOK
<1> SUFFICES ASSUME Init PROVE TypeOK
    OBVIOUS
<1>1. 1 \in Runs /\ 0 \in 0..MaxRuns
    BY Numbers, MaxRunsAssumption
<1>2. temporary \subseteq Runs
    BY <1>1 DEF Init
<1>3. QED
    BY <1>1, <1>2 DEF Init, TypeOK, NoLab, StartStages

\* A lab that has exited has nothing.
LEMMA NoLabTyped ==
    ASSUME Typed
    PROVE  NoLab \in [upstream : {"none", "bound", "closed"},
                loop : {"none", "starting", "serving", "ended"},
                shutdown_request : BOOLEAN, draft : {"absent", "partial", "whole"},
                log : {"none", "open", "closed"}, ui : {"none", "open", "closed"},
                admin : 0..MaxRuns, target : 0..MaxRuns]
BY MaxRunsAssumption DEF NoLab

\* start() keeps the types.
LEMMA StartTyped ==
    ASSUME Typed, StartNext
    PROVE  Typed' /\ stage \in Live /\ stage' \in Live
<1> USE DEF Current, files, Live, StartStages, StopStages
<1>1. CASE CheckBinary \/ WriteBootstrap \/ Validate \/ Raise
    BY <1>1, StartPasses, StopBegins DEF Passes, Typed
<1>2. CASE MakeWorkDirectory
    BY <1>2 DEF MakeWorkDirectory, Typed
<1>3. CASE BindUpstream
    BY <1>3 DEF BindUpstream, Typed
<1>4. CASE StartUpstreamThread
    BY <1>4 DEF StartUpstreamThread, Typed
<1>5. CASE ReplaceCrsConfig
    BY <1>5 DEF ReplaceCrsConfig, Typed
<1>6. CASE OpenLog
    BY <1>6 DEF OpenLog, Typed
<1>7. CASE Spawn
    BY <1>7 DEF Spawn, Typed
<1>8. CASE Record
    BY <1>8 DEF Record, Typed
<1>9. CASE AdminReady
    <2>1. address[Directory(run)] \in 0..MaxRuns
        BY DirectoryOfRun DEF Typed
    <2>2. QED
        BY <1>9, <2>1 DEF AdminReady, Typed
<1>10. CASE DiscoverListenerPort
    BY <1>10 DEF DiscoverListenerPort, Typed
<1>11. CASE BindUi
    BY <1>11 DEF BindUi, Typed
<1>12. CASE WriteCrsConfig
    BY <1>12 DEF WriteCrsConfig, Typed
<1>13. QED
    BY <1>1, <1>2, <1>3, <1>4, <1>5, <1>6, <1>7, <1>8, <1>9, <1>10, <1>11, <1>12 DEF StartNext

\* stop() keeps the types.
LEMMA StopTyped ==
    ASSUME Typed, StopNext \/ CutShort \/ Killed \/ Interrupt
    PROVE  Typed' /\ stage \in Live /\ stage' \in Live \cup Ends
<1> USE DEF Current, files, Live, Ends, StartStages, StopStages
<1>1. CASE StopEnvoy \/ EnvoyStopped \/ KillEnvoy \/ ShutdownReturns \/ Join \/ Interrupt
    BY <1>1, StopPasses, StopBegins DEF Passes, Typed
<1>2. CASE CloseUi
    BY <1>2 DEF CloseUi, Typed
<1>3. CASE CloseLog
    BY <1>3 DEF CloseLog, Typed
<1>4. CASE CloseUpstream
    BY <1>4 DEF CloseUpstream, Typed
<1>5. CASE Cleanup
    BY <1>5, NoLabTyped DEF Cleanup, Exit, Typed
<1>6. CASE CutShort
    BY <1>6, NoLabTyped DEF CutShort, Exit, Typed
<1>7. CASE Killed
    BY <1>7, NoLabTyped DEF Killed, Exit, Typed
<1>8. QED
    BY <1>1, <1>2, <1>3, <1>4, <1>5, <1>6, <1>7 DEF StopNext

\* So do the next run, the upstream's thread and Envoy.
LEMMA OthersTyped ==
    ASSUME TypeOK, RunsOK,
           NextRun \/ ServeForever \/ ServeForeverEnds
               \/ \E r \in Runs : EnvoyStarts(r) \/ EnvoyDies(r)
    PROVE  TypeOK'
<1>1. CASE NextRun
    BY <1>1, MaxRunsAssumption DEF NextRun, files, TypeOK, Runs, StartStages
<1>2. CASE ServeForever
    BY <1>2 DEF ServeForever, files, TypeOK
<1>3. CASE ServeForeverEnds
    BY <1>3 DEF ServeForeverEnds, files, TypeOK
<1>4. ASSUME NEW r \in Runs, EnvoyStarts(r) \/ EnvoyDies(r)
      PROVE  TypeOK'
    <2>1. r \in 0..MaxRuns /\ 0 \in 0..MaxRuns /\ Directory(r) \in Directories
        BY DirectoryOfRun, MaxRunsAssumption DEF Runs
    <2>2. address' \in [Directories -> 0..MaxRuns]
        BY <1>4, <2>1, EnvoyMoves DEF TypeOK
    <2>3. QED
        BY <1>4, <2>2, EnvoyMoves DEF TypeOK
<1>5. QED
    BY <1>1, <1>2, <1>3, <1>4

-----------------------------------------------------------------------------
(* Runs *)

\* Initially no run has done anything.
LEMMA RunsInitially == Init => RunsOK
<1> SUFFICES ASSUME Init PROVE RunsOK
    OBVIOUS
<1>1. /\ run = 1 /\ run \in Runs /\ stage \notin Ends /\ \A r \in Runs : r \in Nat
      /\ \A r \in Runs : ended[r] = "no" /\ envoy[r] = "none"
    BY Numbers DEF Init, Ends
<1>2. \A r \in Runs : r > run => r \notin temporary
    BY <1>1 DEF Init
<1>3. \A r \in Runs : ~ (r < run)
    BY <1>1, MaxRunsAssumption DEF Runs
<1>4. EndsKnown
    BY <1>1, <1>2, <1>3 DEF Init, EndsKnown
<1>5. NothingLeftBehind
    BY <1>1 DEF NothingLeftBehind
<1>6. QED
    BY <1>4, <1>5 DEF RunsOK

\* A step that only goes on.
LEMMA PassesRuns ==
    ASSUME TypeOK, RunsOK, Passes
    PROVE  RunsOK'
BY RunGoesOn DEF Passes, files

\* start() may fail, be interrupted or go on.
LEMMA StartRuns ==
    ASSUME TypeOK, RunsOK, StartNext
    PROVE  RunsOK'
<1>1. stage \in Live /\ stage' \in Live
    BY StartTyped, TypesSplit
<1>2. CASE CheckBinary \/ WriteBootstrap \/ Validate \/ Raise
    BY <1>2, StartPasses, StopBegins, PassesRuns
<1>3. CASE MakeWorkDirectory
    BY <1>1, <1>3, RunGoesOn DEF MakeWorkDirectory, Current
<1>4. CASE BindUpstream \/ StartUpstreamThread \/ WriteCrsConfig \/ ReplaceCrsConfig
           \/ OpenLog \/ AdminReady \/ DiscoverListenerPort \/ BindUi
    <2>1. UNCHANGED <<run, ended, temporary, created, envoy, recorded>>
        BY <1>4 DEF BindUpstream, StartUpstreamThread, WriteCrsConfig, ReplaceCrsConfig,
                    OpenLog, AdminReady, DiscoverListenerPort, BindUi, Current, files
    <2>2. QED
        BY <1>1, <2>1, RunGoesOn
<1>5. CASE Spawn
    <2>1. /\ UNCHANGED <<run, ended, temporary, created, recorded>>
          /\ \A r \in Runs : r # run => envoy'[r] = envoy[r]
        BY <1>5 DEF Spawn, Current, files, TypeOK
    <2>2. QED
        BY <1>1, <2>1, RunGoesOn
<1>6. CASE Record
    BY <1>1, <1>6, RunGoesOn DEF Record, Current, files
<1>7. QED
    BY <1>2, <1>3, <1>4, <1>5, <1>6 DEF StartNext

\* stop() runs to its end or is cut short.
LEMMA StopRuns ==
    ASSUME TypeOK, RunsOK, Releases, StopNext \/ CutShort \/ Killed \/ Interrupt
    PROVE  RunsOK'
<1>1. stage \in Live
    BY StopTyped, TypesSplit
<1>2. CASE StopEnvoy \/ EnvoyStopped \/ KillEnvoy \/ ShutdownReturns \/ Join \/ Interrupt
    BY <1>2, StopPasses, StopBegins, PassesRuns
<1>3. CASE CloseUi \/ CloseLog \/ CloseUpstream
    <2>1. /\ UNCHANGED <<run, ended, temporary, created, envoy, recorded>>
          /\ stage' \in Live
        BY <1>3 DEF CloseUi, CloseLog, CloseUpstream, Current, files, Live, StopStages
    <2>2. QED
        BY <1>1, <2>1, RunGoesOn
<1>4. CASE Cleanup
    <2>1. /\ stage' = "stopped" /\ created' = created \ {run} /\ Exit(stage')
          /\ stage = "cleanup"
        BY <1>4 DEF Cleanup, Exit
    <2>2. run \in recorded => ~ Alive(run)
        BY <2>1 DEF Releases, Closed
    <2>3. QED
        BY <1>1, <2>1, <2>2, RunEnds, Zenon DEF Ends
<1>5. CASE CutShort
    <2>1. stage' = "cut" /\ created' = created \ {run} /\ Exit(stage')
        BY <1>5 DEF CutShort, Exit
    <2>2. QED
        BY <1>1, <2>1, RunEnds, Zenon DEF Ends
<1>6. CASE Killed
    <2>1. stage' = "killed" /\ created' = created /\ Exit(stage')
        BY <1>6 DEF Killed, Exit
    <2>2. QED
        BY <1>1, <2>1, RunEnds, Zenon DEF Ends
<1>7. QED
    BY <1>2, <1>3, <1>4, <1>5, <1>6 DEF StopNext

\* The upstream's thread and Envoy.
LEMMA OthersRuns ==
    ASSUME TypeOK, RunsOK,
           ServeForever \/ ServeForeverEnds \/ \E r \in Runs : EnvoyStarts(r) \/ EnvoyDies(r)
    PROVE  RunsOK'
<1>1. ASSUME UNCHANGED <<run, stage, ended, temporary, created, recorded>>,
             \A q \in Runs : Alive(q)' => Alive(q),
             \A q \in Runs : envoy'[q] = "none" <=> envoy[q] = "none"
      PROVE  RunsOK'
    <2>1. EndsKnown'
        BY <1>1 DEF RunsOK, EndsKnown
    <2>2. NothingLeftBehind'
        BY <1>1 DEF RunsOK, NothingLeftBehind, MayOrphan
    <2>3. QED
        BY <2>1, <2>2 DEF RunsOK
<1>2. CASE ServeForever \/ ServeForeverEnds
    <2>1. UNCHANGED <<run, stage, ended, temporary, created, envoy, recorded>>
        BY <1>2 DEF ServeForever, ServeForeverEnds, files
    <2>2. QED
        BY <1>1, <2>1 DEF Alive
<1>3. CASE \E r \in Runs : EnvoyStarts(r) \/ EnvoyDies(r)
    BY <1>1, <1>3, EnvoyMoves
<1>4. QED
    BY <1>2, <1>3

-----------------------------------------------------------------------------
(* What stop() has released *)

\* Initially there is nothing to release.
LEMMA ReleasesInitially == Init => Releases
BY DEF Init, Releases, NoLab, Ends, Closed, StopStages

\* start() acquires: the loop of the upstream only when that is bound.
LEMMA StartReleases ==
    ASSUME TypeOK, Releases, StartNext
    PROVE  Releases'
<1> USE DEF Current, Live, Ends, Closed, StartStages, StopStages
<1>1. CASE CheckBinary \/ WriteBootstrap \/ Validate \/ Raise
    <2>1. UNCHANGED lab /\ stage' \in {"stop_ui"} \cup (StartStages \ {"thread"})
        BY <1>1, StartPasses, StopBegins DEF Passes
    <2>2. QED
        BY <2>1 DEF Releases
<1>2. CASE MakeWorkDirectory
    BY <1>2 DEF MakeWorkDirectory, Releases
<1>3. CASE BindUpstream
    BY <1>3 DEF BindUpstream, Releases, TypeOK
<1>4. CASE StartUpstreamThread
    BY <1>4 DEF StartUpstreamThread, Releases, TypeOK
<1>5. CASE ReplaceCrsConfig
    BY <1>5 DEF ReplaceCrsConfig, Releases
<1>6. CASE OpenLog
    BY <1>6 DEF OpenLog, Releases, TypeOK
<1>7. CASE Spawn
    BY <1>7 DEF Spawn, Releases
<1>8. CASE Record
    BY <1>8 DEF Record, Releases
<1>9. CASE AdminReady
    BY <1>9 DEF AdminReady, Releases, TypeOK
<1>10. CASE DiscoverListenerPort
    BY <1>10 DEF DiscoverListenerPort, Releases, TypeOK
<1>11. CASE BindUi
    BY <1>11 DEF BindUi, Releases, TypeOK
<1>12. CASE WriteCrsConfig
    BY <1>12 DEF WriteCrsConfig, Releases, TypeOK
<1>13. QED
    BY <1>1, <1>2, <1>3, <1>4, <1>5, <1>6, <1>7, <1>8, <1>9, <1>10, <1>11, <1>12 DEF StartNext

\* stop() releases one thing after the other.
LEMMA StopReleases ==
    ASSUME TypeOK, Releases, StopNext \/ CutShort \/ Killed \/ Interrupt
    PROVE  Releases'
<1> USE DEF Live, Ends, Closed, StopStages
<1>1. CASE StopEnvoy \/ EnvoyStopped \/ KillEnvoy \/ ShutdownReturns \/ Join
    <2>1. /\ UNCHANGED <<run, lab, envoy, recorded>>
          /\ stage' \in {"wait_terminated", "wait_killed", "close_log", "close_upstream", "cleanup"}
          /\ stage \in StopStages \ {"stop_ui"}
          /\ stage' = "close_log" => (run \in recorded => ~ Alive(run))
          /\ stage' = "close_upstream" => stage = "shutdown" /\ lab.loop = "ended"
          /\ stage' = "cleanup" => stage = "join"
        BY <1>1, StopPasses DEF Passes
    <2>2. QED
        BY <2>1 DEF Releases, Alive
<1>2. CASE Interrupt
    <2>1. UNCHANGED lab /\ stage' = "stop_ui"
        BY <1>2, StopBegins DEF Passes
    <2>2. QED
        BY <2>1 DEF Releases
<1>3. CASE CloseUi
    BY <1>3 DEF CloseUi, Current, Releases, TypeOK
<1>4. CASE CloseLog
    BY <1>4 DEF CloseLog, Current, Releases, TypeOK, Alive
<1>5. CASE CloseUpstream
    BY <1>5 DEF CloseUpstream, Current, Releases, TypeOK, Alive
<1>6. CASE Cleanup \/ CutShort \/ Killed
    <2>1. lab' = NoLab /\ stage' \in Ends
        BY <1>6 DEF Cleanup, CutShort, Killed, Exit
    <2>2. QED
        BY <2>1 DEF Releases, NoLab
<1>7. QED
    BY <1>1, <1>2, <1>3, <1>4, <1>5, <1>6 DEF StopNext

\* A loop that ends stays ended; an Envoy that is dead stays dead.
LEMMA OthersRelease ==
    ASSUME TypeOK, Releases,
           NextRun \/ ServeForever \/ ServeForeverEnds
               \/ \E r \in Runs : EnvoyStarts(r) \/ EnvoyDies(r),
           RunsOK
    PROVE  Releases'
<1>1. CASE NextRun
    BY <1>1 DEF NextRun, Releases, Ends, Closed, StopStages, NoLab
<1>2. CASE ServeForever
    BY <1>2 DEF ServeForever, files, Releases, TypeOK, Ends, Closed, NoLab, Alive
<1>3. CASE ServeForeverEnds
    BY <1>3 DEF ServeForeverEnds, files, Releases, TypeOK, Ends, Closed, NoLab, Alive
<1>4. CASE \E r \in Runs : EnvoyStarts(r) \/ EnvoyDies(r)
    <2>1. UNCHANGED <<run, stage, lab, recorded>> /\ (Alive(run)' => Alive(run))
        BY <1>4, EnvoyMoves DEF TypeOK
    <2>2. QED
        BY <2>1 DEF Releases
<1>5. QED
    BY <1>1, <1>2, <1>3, <1>4

-----------------------------------------------------------------------------
(* What is found in the directories *)

\* Initially every directory is empty.
LEMMA DirectoriesInitially == Init => DirectoriesOK
BY DEF Init, NoLab, DirectoriesOK, AddressesOwned

\* An Envoy a run may find stays one, as long as the run goes on.
LEMMA OrphanStays ==
    ASSUME TypeOK, RunsOK, stage \in Live, UNCHANGED <<run, ended, temporary>>,
           recorded' \in {recorded, recorded \cup {run}}, NEW a, OwnOrOrphan(a)
    PROVE  OwnOrOrphan(a)'
BY DEF OwnOrOrphan, MayOrphan

\* A step that goes on and finds nothing in the directories.
LEMMA FindsNothing ==
    ASSUME TypeOK, RunsOK, DirectoriesOK, stage \in Live,
           UNCHANGED <<run, ended, temporary, address>>,
           recorded' \in {recorded, recorded \cup {run}},
           \A r \in Runs : envoy[r] # "none" => envoy'[r] # "none",
           lab'.admin = lab.admin \/ lab'.admin = 0,
           lab'.target = lab.target \/ lab'.target = 0
    PROVE  DirectoriesOK'
<1>1. AddressesOwned'
    <2>1. \A d \in Directories : address[d] # 0 => address[d] \in Runs
        BY MaxRunsAssumption DEF TypeOK, Directories, Runs
    <2>2. QED
        BY <2>1 DEF DirectoriesOK, AddressesOwned, Directory
<1>2. \A a : OwnOrOrphan(a) => OwnOrOrphan(a)'
    BY OrphanStays
<1>3. QED
    BY <1>1, <1>2 DEF DirectoriesOK

\* An address that is found names an Envoy the run may find.
LEMMA FoundIsOwnOrOrphan ==
    ASSUME TypeOK, RunsOK, DirectoriesOK, stage \in Live, NEW a,
           a = address[Directory(run)], a # 0, Alive(a)
    PROVE  OwnOrOrphan(a)
<1>1. /\ run \in Runs /\ a \in Runs /\ Directory(a) = Directory(run)
      /\ envoy[a] # "none"
    <2>1. Directory(run) \in Directories
        BY DirectoryOfRun DEF TypeOK
    <2>2. a \in 0..MaxRuns
        BY <2>1 DEF TypeOK
    <2>3. QED
        BY <2>1, <2>2, MaxRunsAssumption DEF TypeOK, DirectoriesOK, AddressesOwned, Runs
<1>2. a \in temporary \/ run \in temporary => a = run
    BY <1>1, Numbers DEF Directory
<1>3. a # run => ended[a] # "no"
    <2>1. ~ (a > run)
        BY <1>1 DEF RunsOK, EndsKnown
    <2>2. QED
        BY <1>1, <2>1, Numbers DEF RunsOK, EndsKnown
<1>4. a # run => MayOrphan(a)
    BY <1>1, <1>3 DEF RunsOK, NothingLeftBehind
<1>5. QED
    BY <1>2, <1>4 DEF OwnOrOrphan

\* start() finds the admin interface in its directory, and through it the
\* listener.
LEMMA StartFinds ==
    ASSUME TypeOK, RunsOK, DirectoriesOK, StartNext
    PROVE  DirectoriesOK'
<1>1. stage \in Live /\ \A r \in Runs : envoy[r] # "none" => envoy'[r] # "none"
    <2>1. stage \in Live
        BY StartTyped, TypesSplit
    <2>2. envoy' = envoy \/ envoy' = [envoy EXCEPT ![run] = "starting"]
        BY DEF StartNext, CheckBinary, MakeWorkDirectory, BindUpstream, StartUpstreamThread,
               WriteCrsConfig, ReplaceCrsConfig, WriteBootstrap, Validate, OpenLog, Spawn,
               Record, AdminReady, DiscoverListenerPort, BindUi, Raise
    <2>3. QED
        BY <2>1, <2>2 DEF TypeOK
<1>2. CASE CheckBinary \/ WriteBootstrap \/ Validate \/ Raise
    <2>1. Passes
        BY <1>2, StartPasses, StopBegins
    <2>2. QED
        BY <1>1, <2>1, FindsNothing DEF Passes, files
<1>3. CASE MakeWorkDirectory \/ BindUpstream \/ StartUpstreamThread \/ WriteCrsConfig
           \/ ReplaceCrsConfig \/ OpenLog \/ Spawn \/ Record \/ BindUi
    <2>1. /\ UNCHANGED <<run, ended, temporary, address>>
          /\ recorded' \in {recorded, recorded \cup {run}}
          /\ lab'.admin = lab.admin /\ lab'.target = lab.target
        BY <1>3 DEF MakeWorkDirectory, BindUpstream, StartUpstreamThread, WriteCrsConfig,
                    ReplaceCrsConfig, OpenLog, Spawn, Record, BindUi, Current, files, TypeOK
    <2>2. QED
        BY <1>1, <2>1, FindsNothing
<1>4. CASE AdminReady
    <2>1. PICK a : /\ a = address[Directory(run)] /\ a # 0 /\ Alive(a)
                   /\ lab' = [lab EXCEPT !.admin = a]
        BY <1>4 DEF AdminReady, Alive
    <2>2. OwnOrOrphan(a)
        BY <1>1, <2>1, FoundIsOwnOrOrphan
    <2>3. /\ lab'.admin = a /\ lab'.target = lab.target
          /\ UNCHANGED <<run, ended, temporary, config, address, envoy, recorded>>
        BY <1>4, <2>1 DEF AdminReady, Current, files, TypeOK
    <2>4. OwnOrOrphan(lab.target) => OwnOrOrphan(lab.target)'
        BY <2>3 DEF OwnOrOrphan, MayOrphan
    <2>5. OwnOrOrphan(lab.admin)'
        BY <2>2, <2>3 DEF OwnOrOrphan, MayOrphan
    <2>6. AddressesOwned'
        BY <2>3 DEF DirectoriesOK, AddressesOwned, Directory
    <2>7. QED
        BY <2>3, <2>4, <2>5, <2>6 DEF DirectoriesOK
<1>5. CASE DiscoverListenerPort
    <2>1. /\ lab'.admin = lab.admin /\ lab'.target = lab.admin
          /\ UNCHANGED <<run, ended, temporary, config, address, envoy, recorded>>
        BY <1>5 DEF DiscoverListenerPort, Current, files, TypeOK
    <2>2. lab.admin # 0 => OwnOrOrphan(lab.admin)'
        BY <2>1 DEF DirectoriesOK, OwnOrOrphan, MayOrphan
    <2>3. AddressesOwned'
        BY <2>1 DEF DirectoriesOK, AddressesOwned, Directory
    <2>4. QED
        BY <2>1, <2>2, <2>3 DEF DirectoriesOK
<1>6. QED
    BY <1>2, <1>3, <1>4, <1>5 DEF StartNext

\* stop() finds nothing, and at its end has forgotten what start() found.
LEMMA StopFinds ==
    ASSUME TypeOK, RunsOK, DirectoriesOK, StopNext \/ CutShort \/ Killed \/ Interrupt
    PROVE  DirectoriesOK'
<1>1. stage \in Live
    BY StopTyped, TypesSplit
<1>2. CASE StopEnvoy \/ EnvoyStopped \/ KillEnvoy \/ ShutdownReturns \/ Join \/ Interrupt
    <2>1. Passes
        BY <1>2, StopPasses, StopBegins
    <2>2. QED
        BY <1>1, <2>1, FindsNothing DEF Passes, files
<1>3. CASE CloseUi \/ CloseLog \/ CloseUpstream
    <2>1. /\ UNCHANGED <<run, ended, temporary, config, address, envoy, recorded>>
          /\ lab'.admin = lab.admin /\ lab'.target = lab.target
        BY <1>3 DEF CloseUi, CloseLog, CloseUpstream, Current, files, TypeOK
    <2>2. QED
        BY <1>1, <2>1, FindsNothing
<1>4. CASE Cleanup \/ CutShort \/ Killed
    <2>1. /\ UNCHANGED <<run, temporary, config, address, envoy>>
          /\ lab'.admin = 0 /\ lab'.target = 0
        BY <1>4 DEF Cleanup, CutShort, Killed, Exit, NoLab
    <2>2. QED
        BY <2>1 DEF DirectoriesOK, AddressesOwned, Directory
<1>5. QED
    BY <1>2, <1>3, <1>4 DEF StopNext

\* The next run finds an address file only of an Envoy that was started in the
\* directory it now works in.
LEMMA NextRunFinds ==
    ASSUME TypeOK, RunsOK, Releases, DirectoriesOK, NextRun
    PROVE  DirectoriesOK'
<1>1. /\ UNCHANGED <<config, address, envoy>> /\ lab' = NoLab
      /\ \A r \in Runs : r # run + 1 => (r \in temporary' <=> r \in temporary)
    BY DEF NextRun, files, Releases, Ends
<1>2. run + 1 \in Runs => envoy[run + 1] = "none"
    BY Numbers DEF RunsOK, EndsKnown, TypeOK
<1>3. AddressesOwned'
    <2>1. \A d \in Directories : address[d] # 0 =>
            address[d] \in Runs /\ address[d] # run + 1
        <3>1. \A d \in Directories : address[d] # 0 => address[d] \in Runs
            BY MaxRunsAssumption DEF TypeOK, Directories, Runs
        <3>2. \A d \in Directories : address[d] # 0 => envoy[address[d]] # "none"
            BY DEF DirectoriesOK, AddressesOwned
        <3>3. QED
            BY <1>2, <3>1, <3>2
    <2>2. QED
        BY <1>1, <2>1 DEF DirectoriesOK, AddressesOwned, Directory
<1>4. QED
    BY <1>1, <1>3 DEF DirectoriesOK, NoLab

\* An Envoy writes its own address into the file of its own directory.
LEMMA OthersFind ==
    ASSUME TypeOK, RunsOK, DirectoriesOK,
           ServeForever \/ ServeForeverEnds \/ \E r \in Runs : EnvoyStarts(r) \/ EnvoyDies(r)
    PROVE  DirectoriesOK'
<1>1. CASE ServeForever \/ ServeForeverEnds
    <2>1. /\ UNCHANGED <<run, ended, temporary, config, address, envoy, recorded>>
          /\ lab'.admin = lab.admin /\ lab'.target = lab.target
        BY <1>1 DEF ServeForever, ServeForeverEnds, files, TypeOK
    <2>2. QED
        BY <2>1 DEF DirectoriesOK, AddressesOwned, Directory, OwnOrOrphan,
                    MayOrphan
<1>2. ASSUME NEW r \in Runs, EnvoyStarts(r) \/ EnvoyDies(r)
      PROVE  DirectoriesOK'
    <2>1. /\ UNCHANGED <<run, lab, ended, temporary, config, recorded>>
          /\ \A q \in Runs : envoy'[q] = "none" <=> envoy[q] = "none"
          /\ \/ address' = address
             \/ address' = [address EXCEPT ![Directory(r)] = 0]
             \/ address' = [address EXCEPT ![Directory(r)] = r]
          /\ envoy[r] # "none"
        BY <1>2, EnvoyMoves
    <2>2. AddressesOwned'
        <3>1. \A d \in Directories : address[d] # 0 => address[d] \in Runs
            BY MaxRunsAssumption DEF TypeOK, Directories, Runs
        <3>2. \A d \in Directories :
                address'[d] = address[d] \/ address'[d] = 0 \/ (address'[d] = r /\ d = Directory(r))
            BY <2>1 DEF TypeOK
        <3>3. \A q \in Runs : Directory(q)' = Directory(q)
            BY <2>1 DEF Directory
        <3>4. QED
            BY <2>1, <3>1, <3>2, <3>3 DEF DirectoriesOK, AddressesOwned
    <2>3. QED
        BY <2>1, <2>2 DEF DirectoriesOK, OwnOrOrphan, MayOrphan
<1>3. QED
    BY <1>1, <1>2

-----------------------------------------------------------------------------
(* The configuration *)

\* Initially there is none.
LEMMA ConfigInitially == Init => ConfigOK
BY DEF Init, ConfigOK, Configured

\* A step that leaves the configuration and the Envoys alone, and comes neither
\* to where it is replaced nor, from before, to where it is used.
LEMMA ConfigKept ==
    ASSUME TypeOK, ConfigOK, stage' # "crs_replace", stage' \in Configured => stage \in Configured,
           UNCHANGED <<run, temporary, config, envoy>>
    PROVE  ConfigOK'
BY DEF ConfigOK, Directory

\* start() replaces the configuration by a whole one before Envoy is started.
LEMMA StartConfigures ==
    ASSUME TypeOK, ConfigOK, StartNext
    PROVE  ConfigOK'
<1> USE DEF Current, files
<1>1. CASE WriteCrsConfig
    BY <1>1 DEF WriteCrsConfig, ConfigOK, Configured, Directory, TypeOK
<1>2. CASE ReplaceCrsConfig
    <2>1. /\ stage' = "bootstrap" /\ UNCHANGED <<run, temporary, envoy>>
          /\ config' = [config EXCEPT ![Directory(run)] = "whole"]
        BY <1>2 DEF ReplaceCrsConfig, ConfigOK
    <2>2. \A r \in Runs : Directory(r)' = Directory(r) /\ Directory(r) \in Directories
        BY <2>1, DirectoryOfRun DEF Directory
    <2>3. run \in Runs /\ config \in [Directories -> {"absent", "partial", "whole"}]
        BY DEF TypeOK
    <2>4. \A d \in Directories : config'[d] = "whole" \/ config'[d] = config[d]
        BY <2>1, <2>3
    <2>5. config'[Directory(run)] = "whole"
        BY <2>1, <2>2, <2>3
    <2>6. QED
        BY <2>1, <2>2, <2>3, <2>4, <2>5 DEF ConfigOK
<1>3. CASE Spawn
    <2>1. /\ stage' = "record" /\ UNCHANGED <<run, temporary, config>>
          /\ \A r \in Runs : r # run => envoy'[r] = envoy[r]
          /\ config[Directory(run)] = "whole"
        BY <1>3 DEF Spawn, ConfigOK, Configured, TypeOK
    <2>2. QED
        BY <2>1 DEF ConfigOK, Configured, Directory
<1>4. CASE \/ CheckBinary \/ MakeWorkDirectory \/ BindUpstream \/ StartUpstreamThread
           \/ WriteBootstrap \/ Validate \/ OpenLog \/ Record \/ AdminReady
           \/ DiscoverListenerPort \/ BindUi \/ Raise
    <2>1. /\ stage' # "crs_replace" /\ (stage' \in Configured => stage \in Configured)
          /\ UNCHANGED <<run, temporary, config, envoy>>
        BY <1>4 DEF CheckBinary, MakeWorkDirectory, BindUpstream, StartUpstreamThread,
                    WriteBootstrap, Validate, OpenLog, Record, AdminReady,
                    DiscoverListenerPort, BindUi, Raise, Configured
    <2>2. QED
        BY <2>1, ConfigKept
<1>5. QED
    BY <1>1, <1>2, <1>3, <1>4 DEF StartNext

\* stop() leaves the configuration as it is.
LEMMA StopKeepsConfig ==
    ASSUME TypeOK, ConfigOK, StopNext \/ CutShort \/ Killed \/ Interrupt
    PROVE  ConfigOK'
<1>1. stage' \notin Configured \cup {"crs_replace"} /\ UNCHANGED <<run, temporary, config, envoy>>
    BY DEF StopNext, CloseUi, StopEnvoy, EnvoyStopped, KillEnvoy, CloseLog, ShutdownReturns,
           CloseUpstream, Join, Cleanup, CutShort, Killed, Interrupt, Exit, Current, files,
           Configured
<1>2. QED
    BY <1>1, ConfigKept

\* So do the next run, the upstream's thread and Envoy.
LEMMA OthersKeepConfig ==
    ASSUME TypeOK, RunsOK, ConfigOK,
           NextRun \/ ServeForever \/ ServeForeverEnds
               \/ \E r \in Runs : EnvoyStarts(r) \/ EnvoyDies(r)
    PROVE  ConfigOK'
<1>1. CASE NextRun
    <2>1. /\ stage' = "binary" /\ UNCHANGED <<config, envoy>>
          /\ \A r \in Runs : r # run + 1 => (r \in temporary' <=> r \in temporary)
        BY <1>1 DEF NextRun, files
    <2>2. run + 1 \in Runs => envoy[run + 1] = "none"
        BY Numbers DEF RunsOK, EndsKnown, TypeOK
    <2>3. QED
        BY <2>1, <2>2 DEF ConfigOK, Configured, Directory
<1>2. CASE ServeForever \/ ServeForeverEnds
    <2>1. /\ UNCHANGED <<run, stage, temporary, config, envoy>>
          /\ lab'.draft = lab.draft
        BY <1>2 DEF ServeForever, ServeForeverEnds, files, TypeOK
    <2>2. QED
        BY <2>1 DEF ConfigOK, Directory
<1>3. CASE \E r \in Runs : EnvoyStarts(r) \/ EnvoyDies(r)
    <2>1. /\ UNCHANGED <<run, stage, lab, temporary, config>>
          /\ \A q \in Runs : envoy'[q] = "none" <=> envoy[q] = "none"
        BY <1>3, EnvoyMoves
    <2>2. QED
        BY <2>1 DEF ConfigOK, Directory
<1>4. QED
    BY <1>1, <1>2, <1>3

-----------------------------------------------------------------------------
(* The theorems *)

\* The invariant holds initially.
LEMMA InvInitially == Init => Inv
BY TypesInitially, RunsInitially, ReleasesInitially, DirectoriesInitially,
   ConfigInitially DEF Inv

\* Every step keeps the invariant.
LEMMA InvInductive == Inv /\ [Next]_vars => Inv'
<1> SUFFICES ASSUME Inv, [Next]_vars PROVE Inv'
    OBVIOUS
<1>1. CASE StartNext
    BY <1>1, TypesSplit, StartTyped, StartRuns, StartReleases, StartFinds,
       StartConfigures, TypesHold
    DEF Inv
<1>2. CASE StopNext \/ CutShort \/ Killed \/ Interrupt
    BY <1>2, TypesSplit, StopTyped, StopRuns, StopReleases, StopFinds,
       StopKeepsConfig, TypesHold
    DEF Inv
<1>3. CASE NextRun
    BY <1>3, OthersTyped, RunBegins, OthersRelease, NextRunFinds, OthersKeepConfig
    DEF Inv
<1>4. CASE ServeForever \/ ServeForeverEnds \/ \E r \in Runs : EnvoyStarts(r) \/ EnvoyDies(r)
    BY <1>4, OthersTyped, OthersRuns, OthersRelease, OthersFind, OthersKeepConfig
    DEF Inv
<1>5. CASE UNCHANGED vars
    BY <1>5
    DEF vars, Inv, TypeOK, RunsOK, EndsKnown, NothingLeftBehind, Alive, MayOrphan, Releases,
        DirectoriesOK, AddressesOwned, Directory, OwnOrOrphan, ConfigOK
<1>6. QED
    BY <1>1, <1>2, <1>3, <1>4, <1>5 DEF Next

\* The invariant always holds.
LEMMA Invariance == Spec => []Inv
BY InvInitially, InvInductive, PTL DEF Spec

\* By the time the work directory is removed the UI, the log and the upstream
\* are closed, the upstream's loop is over and the recorded Envoy is dead,
\* however far start() had come when stop() began.
THEOREM InOrder == Spec => []StopsInOrder
<1>1. Inv => StopsInOrder
    BY DEF Inv, StopsInOrder, ClosedBeforeCleanup, Releases, Closed, StopStages
<1>2. QED
    BY <1>1, Invariance, PTL

\* Whatever step of start() failed, and whenever Ctrl+C came, a run whose
\* stop() ends leaves behind no Envoy it has recorded and no directory.
THEOREM NothingStays == Spec => []NothingLeftBehind
<1>1. Inv => NothingLeftBehind
    BY DEF Inv, RunsOK
<1>2. QED
    BY <1>1, Invariance, PTL

\* The listener a run sends to is that of its own Envoy, or of one that a run
\* cut off has left in the given directory.
THEOREM TargetsOwn == Spec => []TargetsOwnOrOrphan
<1>1. Inv => TargetsOwnOrOrphan
    BY DEF Inv, DirectoriesOK, OwnOrOrphan, TargetsOwnOrOrphan
<1>2. QED
    BY <1>1, Invariance, PTL

\* Wherever the runs before were cut off, no directory holds a part of a
\* configuration, and every Envoy that runs finds a whole one.
THEOREM ConfigStaysWhole == Spec => []ConfigIsWhole
<1>1. Inv => ConfigIsWhole
    BY DEF Inv, ConfigOK, ConfigIsWhole, Alive
<1>2. QED
    BY <1>1, Invariance, PTL
=============================================================================
