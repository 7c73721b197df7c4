----------------------------- MODULE ProcessLab -----------------------------
(***************************************************************************)
(* The developers' process lab: the launcher that starts the local stack   *)
(* and configures Prefect (launcher.py, configuration.py), and the flows   *)
(* that are run from the command line (cli.py), by the worker from the     *)
(* work queues, or by the automations after a failure (flows.py).  Runs    *)
(* share named slots and the directory of artifacts.  Prefect itself is    *)
(* external: it creates what it is asked to, hands out slots within their  *)
(* limits and gives a dead run's slot back.                                *)
(***************************************************************************)
EXTENDS Naturals, Sequences, FiniteSets

CONSTANTS
    Runs,         \* flow runs
    CliFlows,     \* flows started from the command line
    Deployed,     \* deployments in use
    MaxSecond,    \* bound: seconds of the clock
    MaxQueued     \* bound: runs of a deployment waiting in its queue

VARIABLES
    lab,          \* the stack: [phase, done, worker]
    queued,       \* runs of each deployment waiting for the worker
    flowRuns,     \* each flow run
    dirs,         \* artifact directories of crawls: second -> [latest, first]
    second        \* time.time(), in whole seconds

labVars == <<lab, queued, flowRuns, dirs, second>>

\* What configure_workspace makes, in its order; limits name the step they bound.
Setup == <<"browse", "crawl", "compile", "build", "read",
           "queues", "deployments", "automations">>
Made(what) == \E i \in 1..lab.done : Setup[i] = what
SlotLimit(step) == IF step = "read" THEN 4 ELSE 1
Slotted == {"browse", "crawl", "compile", "build", "read"}

Contracts == <<"read", "read">>
Crawls == <<"crawl", "snapshot", "crawl", "compare">>
StepsOf ==
    [f \in {"api-contracts", "browser-lifecycle", "member-experience",
            "scraper-economy", "evidence-compilation", "resume-build", "end-to-end"} |->
       CASE f = "api-contracts" -> Contracts
         [] f = "browser-lifecycle" -> <<"browse">>
         [] f = "member-experience" -> <<"read", "gate">>
         [] f = "scraper-economy" -> Crawls
         [] f = "evidence-compilation" -> <<"compile">>
         [] f = "resume-build" -> <<"build">>
         [] f = "end-to-end" ->
              Crawls \o <<"compile">> \o Contracts \o <<"browse", "build">>]
Diagnostic == "api-contracts"
LabAssumption ==
    /\ Runs \in SUBSET Nat /\ IsFiniteSet(Runs)
    /\ CliFlows \subseteq DOMAIN StepsOf /\ Deployed \subseteq DOMAIN StepsOf
    /\ MaxSecond \in Nat /\ MaxQueued \in Nat
QueueOf(d) == CASE d \in {"member-experience", "browser-lifecycle"} -> "interactive"
                [] d = Diagnostic -> "diagnostics"
                [] OTHER -> "pipeline"
\* Mutant: the pipeline queue has no limit of its own.
QueueUnlimited == 2
QueueLimit == 1
PoolLimit == 2

NoCrawl == <<>>
Unused == [flow |-> "none", by |-> "none", state |-> "unused", steps |-> <<>>,
           slot |-> FALSE, dir |-> 0, crawls |-> 0, compared |-> <<>>,
           compiled |-> <<>>, unlimited |-> FALSE]
Active == {r \in Runs : flowRuns[r].state = "running"}
Worked == {r \in Active : flowRuns[r].by = "worker"}
Using(step) == {r \in Active : flowRuns[r].slot /\ Head(flowRuns[r].steps) = step}
Unstarted == {r \in Runs : flowRuns[r].state = "unused"}
Waiting == {run \in Deployed \X (1..MaxQueued) : run[2] <= queued[run[1]]}
\* Bound: no more runs wait than may still be started.
Room(d) == queued[d] < MaxQueued /\ Cardinality(Waiting) < Cardinality(Unstarted)
Begin(r, flow, by) ==
    /\ r \in Unstarted /\ \A o \in Unstarted : r <= o
    /\ flowRuns' = [flowRuns EXCEPT ![r] = [Unused EXCEPT
         !.flow = flow, !.by = by, !.state = "running", !.steps = StepsOf[flow],
         !.dir = second]]

-----------------------------------------------------------------------------
\* run_local_stack starts a worker in the end, run_demo_stack none; both wait for
\* the servers to be ready before they configure.
StartStack ==
    /\ lab.phase = "down"
    /\ \E worker \in BOOLEAN : lab' = [lab EXCEPT !.phase = "configuring", !.worker = worker]
    /\ UNCHANGED <<queued, flowRuns, dirs, second>>

\* Each step creates what is not there or sets it again: a second configuration
\* repeats the first up to where that came, which changes nothing.
Configure ==
    /\ lab.phase = "configuring" /\ lab.done < Len(Setup)
    /\ lab' = [lab EXCEPT !.done = @ + 1]
    /\ UNCHANGED <<queued, flowRuns, dirs, second>>

\* The launcher's own run of the member experience only reads and passes gates: it
\* is over, whatever its outcome, before the worker is started.
Open ==
    /\ lab.phase = "configuring" /\ lab.done = Len(Setup)
    /\ lab' = [lab EXCEPT !.phase = "up"]
    /\ UNCHANGED <<queued, flowRuns, dirs, second>>

\* Ctrl-C, SIGTERM, a configuration step that fails or a server not ready in
\* time: the stack's processes are terminated, and runs lose their server.
StopStack ==
    /\ lab.phase # "down"
    /\ lab' = [lab EXCEPT !.phase = "down"]
    /\ flowRuns' = [r \in Runs |->
         IF r \in Active
         THEN [flowRuns[r] EXCEPT !.state = "crashed", !.steps = <<>>,
                                    !.slot = FALSE, !.crawls = 0]
         ELSE flowRuns[r]]
    /\ UNCHANGED <<queued, dirs, second>>

-----------------------------------------------------------------------------
CliRun ==
    /\ lab.phase # "down"
    /\ \E r \in Runs, f \in CliFlows : Begin(r, f, "cli")
    /\ UNCHANGED <<lab, queued, dirs, second>>

ScheduleRun(d) ==
    /\ lab.phase # "down" /\ Made("deployments") /\ Room(d)
    /\ queued' = [queued EXCEPT ![d] = @ + 1]
    /\ UNCHANGED <<lab, flowRuns, dirs, second>>

\* The worker's pool, the deployment's queue and the deployment itself are limited.
Take(r, d) ==
    /\ lab.phase = "up" /\ lab.worker /\ queued[d] > 0
    /\ Cardinality(Worked) < PoolLimit
    /\ Cardinality({o \in Worked : QueueOf(flowRuns[o].flow) = QueueOf(d)}) < QueueLimit
    /\ \A o \in Worked : flowRuns[o].flow # d
    /\ Begin(r, d, "worker")
    /\ queued' = [queued EXCEPT ![d] = @ - 1]
    /\ UNCHANGED <<lab, dirs, second>>

-----------------------------------------------------------------------------
\* A run that fails gives its slot back; a deployment's run other than the
\* diagnostic one is diagnosed, once the automations are made.
FailRun(r, unlimited) ==
    LET run == flowRuns[r]
        diagnosed == run.by = "worker" /\ run.flow # Diagnostic /\ Made("automations")
    IN /\ flowRuns' = [flowRuns EXCEPT ![r] = [@ EXCEPT
            !.state = "failed", !.steps = <<>>, !.slot = FALSE, !.crawls = 0,
            !.unlimited = unlimited]]
       /\ queued' = IF diagnosed /\ Room(Diagnostic)
                    THEN [queued EXCEPT ![Diagnostic] = @ + 1] ELSE queued
       /\ UNCHANGED <<lab, dirs, second>>

\* concurrency(..., strict=True): a limit that does not exist is an error.
AcquireSlot(r) ==
    /\ r \in Active /\ ~flowRuns[r].slot /\ Head(flowRuns[r].steps) \in Slotted
    /\ LET step == Head(flowRuns[r].steps) IN
       IF ~Made(step) THEN FailRun(r, TRUE)
       ELSE /\ Cardinality(Using(step)) < SlotLimit(step)
            /\ flowRuns' = [flowRuns EXCEPT ![r].slot = TRUE]
            /\ UNCHANGED <<lab, queued, dirs, second>>

\* int(time.time()) names the directory; every crawl rewrites latest-run.json in
\* it, and the first one is kept under another name before the second.
After(r) ==
    LET run == flowRuns[r]
        dir == dirs[run.dir]
        step == Head(run.steps)
        crawl == <<r, run.crawls + 1>>
    IN /\ dirs' = CASE step = "crawl" -> [dirs EXCEPT ![run.dir].latest = crawl]
                    [] step = "snapshot" -> [dirs EXCEPT ![run.dir].first = dir.latest]
                    [] OTHER -> dirs
       /\ flowRuns' = [flowRuns EXCEPT ![r] = [run EXCEPT
            !.steps = Tail(run.steps), !.slot = FALSE,
            !.state = IF Len(run.steps) = 1 THEN "completed" ELSE run.state,
            !.crawls = IF step = "crawl" THEN run.crawls + 1 ELSE run.crawls,
            !.compared = IF step = "compare" THEN <<dir.first, dir.latest>> ELSE run.compared,
            !.compiled = IF step = "compile" /\ run.flow = "end-to-end"
                         THEN dir.latest ELSE run.compiled]]
       /\ UNCHANGED <<lab, queued, second>>

\* A check that fails is a result and not an error, and a gate performs nothing.
WorkStep(r) ==
    /\ r \in Active
    /\ Head(flowRuns[r].steps) \in Slotted => flowRuns[r].slot
    /\ \/ After(r)
       \/ Head(flowRuns[r].steps) \notin {"read", "gate"} /\ FailRun(r, FALSE)

TickSecond ==
    /\ second < MaxSecond /\ second' = second + 1
    /\ UNCHANGED <<lab, queued, flowRuns, dirs>>

\* Prefect remembers an earlier configuration.
Init ==
    /\ \E done \in {0, Len(Setup)} :
         lab = [phase |-> "down", done |-> done, worker |-> FALSE]
    /\ queued = [d \in Deployed |-> 0]
    /\ flowRuns = [r \in Runs |-> Unused]
    /\ dirs = [s \in 0..MaxSecond |-> [latest |-> NoCrawl, first |-> NoCrawl]]
    /\ second = 0

Next ==
    \/ StartStack \/ Configure \/ Open \/ StopStack
    \/ CliRun \/ TickSecond
    \/ \E d \in Deployed : ScheduleRun(d)
    \/ \E r \in Runs, d \in Deployed : Take(r, d)
    \/ \E r \in Runs : AcquireSlot(r) \/ WorkStep(r)

-----------------------------------------------------------------------------
\* Type invariant.
TypeOK ==
    /\ lab \in [phase : {"down", "configuring", "up"}, done : 0..Len(Setup), worker : BOOLEAN]
    /\ queued \in [Deployed -> 0..MaxQueued]
    /\ second \in 0..MaxSecond
    /\ \A r \in Runs : flowRuns[r].dir \in 0..second /\ flowRuns[r].crawls \in 0..2

Mixed(r) == \E o \in Runs \ {r} : /\ flowRuns[o].state # "unused"
                                  /\ flowRuns[o].dir = flowRuns[r].dir
                                  /\ "cli" \in {flowRuns[o].by, flowRuns[r].by}
\* What a run concludes is about its own crawls: the comparison is of its first
\* with its second, and evidence is compiled from its last, unless a run that
\* somebody started by hand in the same second wrote in its directory; and the
\* worker's runs find every limit configured.
ConclusionsAreOwn ==
    \A r \in Runs :
      /\ \/ Mixed(r)
         \/ /\ flowRuns[r].compared \in {<<>>, <<<<r, 1>>, <<r, 2>>>>}
            /\ flowRuns[r].compiled \in {<<>>, <<r, 2>>}
      /\ flowRuns[r].by = "worker" => ~flowRuns[r].unlimited
=============================================================================
