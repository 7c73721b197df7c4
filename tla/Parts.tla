------------------------------- MODULE Parts -------------------------------
(***************************************************************************)
(* Parts of the system that share no state with each other and have proofs,*)
(* side by side: each behaviour is one of the part in focus.               *)
(***************************************************************************)
EXTENDS Naturals

VARIABLE focus

CONSTANTS Listings, Sites, Searches, GoalBands, Attempted, AppliedPage,
          ScanNames, MaxCandidates, MaxPages, UnknownLimit
VARIABLES scan, sent, sentLater
Scan == INSTANCE CandidateScan WITH Names <- ScanNames
ASSUME ScanConstants == Scan!CandidateScanAssumption
scanVars == <<scan, sent, sentLater>>

CONSTANTS Handlers, Texts, FitResumes, Tracks, Campaigns, FitContents
VARIABLES opp, campaign, demand, fit, prep, call
Fit == INSTANCE MarketFit WITH Resumes <- FitResumes, Contents <- FitContents
ASSUME FitConstants == Fit!MarketFitAssumption
fitVars == <<opp, campaign, demand, fit, prep, call>>

CONSTANTS Refreshers, Applications, Stages, GhostAfter, MaxDay, MaxEvents, MaxOpps
VARIABLES day, opps, events, refresh
Funnel == INSTANCE InterviewFunnel
ASSUME FunnelConstants == Funnel!FunnelAssumption
funnelVars == <<day, opps, events, refresh>>

CONSTANTS Workers, Questions, Pages, Preferable, Artifact
VARIABLES bank, prefs, work, requests
Bank == INSTANCE QuestionBank
ASSUME BankConstants == Bank!BankAssumption
bankVars == <<bank, prefs, work, requests>>

CONSTANTS Runs, Targets, ExecLayouts, ExecPlans
VARIABLES rules, ledger, history, exec, sends
Executor == INSTANCE PlanExecutor WITH Layouts <- ExecLayouts, Plans <- ExecPlans
ASSUME ExecutorConstants == Executor!PlanExecutorAssumption
execVars == <<rules, ledger, history, exec, sends>>

CONSTANTS LabRuns, CliFlows, Deployed, MaxSecond, MaxQueued
VARIABLES lab, queued, flowRuns, dirs, second
Lab == INSTANCE ProcessLab WITH Runs <- LabRuns
ASSUME LabConstants == Lab!LabAssumption
labVars == <<lab, queued, flowRuns, dirs, second>>

CONSTANTS Vendors, Accounts, EnvAccount, JarAccount, SocialFeed
VARIABLES saved, signIn, leaving, cached, collect, signedIn
Social == INSTANCE SocialScrape WITH Feed <- SocialFeed
ASSUME SocialConstants == Social!SocialAssumption
socialVars == <<saved, signIn, leaving, cached, collect, signedIn>>

CONSTANTS Site, Seed, Forbidden, Elsewhere, RuleSets, MaxDepth, CrawlLimit, MaxCrawls
VARIABLES known, crawl, learnedOn
Crawl == INSTANCE AgenticCrawl
           WITH Pages <- Site, Rules <- RuleSets, MaxPages <- CrawlLimit
ASSUME CrawlConstants == Crawl!CrawlAssumption
crawlVars == <<known, crawl, learnedOn>>

CONSTANTS Repos, BuildPosts, TagsOf, Skills, Aliases, Slug, Formats,
          MaxRetries, MaxBuilds
VARIABLES build, files, profile
Build == INSTANCE IndustryBuild WITH Posts <- BuildPosts
ASSUME BuildConstants == Build!BuildAssumption
buildVars == <<build, files, profile>>

CONSTANTS Asks, Postings, Providers, Feeds, Imports, Modes
VARIABLES snapshots, asks
Market == INSTANCE JobMarket
ASSUME MarketConstants == Market!MarketAssumption
marketVars == <<snapshots, asks>>

CONSTANTS Threads, AnswerValues, Resumes, Preferred, MaxRevisions, MaxGoals
VARIABLES sound, answers, identity, revision, routes, goals, started, lock,
          threads
Onboard == INSTANCE Onboarding WITH Values <- AnswerValues
ASSUME OnboardingConstants == Onboard!OnboardingAssumption
onboardVars == <<sound, answers, identity, revision, routes, goals, started, lock, threads>>

CONSTANTS Inputs, Environments, Evidence  \* and Threads
VARIABLES file, temp, environment, callers, told
AI == INSTANCE LocalAI
ASSUME AIConstants == AI!AIAssumption
aiVars == <<file, temp, environment, callers, told>>

partsVars == <<focus, scanVars, fitVars, funnelVars, bankVars, execVars,
              labVars, socialVars, crawlVars, buildVars, marketVars,
              onboardVars, aiVars>>
\* The parts out of focus stay as they are, and have no state.
Foreground(part) ==
    /\ focus = part /\ UNCHANGED focus
    /\ IF part = "scan" THEN TRUE ELSE UNCHANGED scanVars
    /\ IF part = "fit" THEN TRUE ELSE UNCHANGED fitVars
    /\ IF part = "funnel" THEN TRUE ELSE UNCHANGED funnelVars
    /\ IF part = "bank" THEN TRUE ELSE UNCHANGED bankVars
    /\ IF part = "exec" THEN TRUE ELSE UNCHANGED execVars
    /\ IF part = "lab" THEN TRUE ELSE UNCHANGED labVars
    /\ IF part = "social" THEN TRUE ELSE UNCHANGED socialVars
    /\ IF part = "crawl" THEN TRUE ELSE UNCHANGED crawlVars
    /\ IF part = "build" THEN TRUE ELSE UNCHANGED buildVars
    /\ IF part = "market" THEN TRUE ELSE UNCHANGED marketVars
    /\ IF part = "onboard" THEN TRUE ELSE UNCHANGED onboardVars
    /\ IF part = "ai" THEN TRUE ELSE UNCHANGED aiVars
Out == 0
PartsInit ==
    /\ focus \in {"scan", "fit", "funnel", "bank", "exec", "lab",
                  "social", "crawl", "build", "market", "onboard", "ai"}
    /\ IF focus = "scan" THEN Scan!Init ELSE scan = Out /\ sent = Out /\
          sentLater = Out
    /\ IF focus = "fit" THEN Fit!Init ELSE opp = Out /\ campaign = Out /\
          demand = Out /\ fit = Out /\ prep = Out /\ call = Out
    /\ IF focus = "funnel" THEN Funnel!Init ELSE day = Out /\ opps = Out /\
          events = Out /\ refresh = Out
    /\ IF focus = "bank" THEN Bank!Init ELSE bank = Out /\ prefs = Out /\
          work = Out /\ requests = Out
    /\ IF focus = "exec" THEN Executor!Init ELSE rules = Out /\
          ledger = Out /\ history = Out /\ exec = Out /\ sends = Out
    /\ IF focus = "lab" THEN Lab!Init ELSE lab = Out /\ queued = Out /\
          flowRuns = Out /\ dirs = Out /\ second = Out
    /\ IF focus = "social" THEN Social!Init ELSE saved = Out /\
          signIn = Out /\ leaving = Out /\ cached = Out /\ collect = Out /\
          signedIn = Out
    /\ IF focus = "crawl" THEN Crawl!Init ELSE known = Out /\ crawl = Out /\
          learnedOn = Out
    /\ IF focus = "build" THEN Build!Init ELSE build = Out /\ files = Out /\
          profile = Out
    /\ IF focus = "market" THEN Market!Init ELSE snapshots = Out /\ asks = Out
    /\ IF focus = "onboard" THEN Onboard!Init ELSE sound = Out /\
          answers = Out /\ identity = Out /\ revision = Out /\ routes = Out /\
          goals = Out /\ started = Out /\ lock = Out /\ threads = Out
    /\ IF focus = "ai" THEN AI!Init ELSE file = Out /\ temp = Out /\
          environment = Out /\ callers = Out /\ told = Out
PartsNext ==
    \/ Foreground("scan") /\ Scan!Next
    \/ Foreground("fit") /\ Fit!Next
    \/ Foreground("funnel") /\ Funnel!Next
    \/ Foreground("bank") /\ Bank!Next
    \/ Foreground("exec") /\ Executor!Next
    \/ Foreground("lab") /\ Lab!Next
    \/ Foreground("social") /\ Social!Next
    \/ Foreground("crawl") /\ Crawl!Next
    \/ Foreground("build") /\ Build!Next
    \/ Foreground("market") /\ Market!Next
    \/ Foreground("onboard") /\ Onboard!Next
    \/ Foreground("ai") /\ AI!Next
PartsSpec == PartsInit /\ [][PartsNext]_partsVars

\* Properties are those of the part in focus.
PartsTypeOK ==
    /\ focus = "scan" => Scan!TypeOK
    /\ focus = "fit" => Fit!TypeOK
    /\ focus = "funnel" => Funnel!TypeOK
    /\ focus = "bank" => Bank!TypeOK
    /\ focus = "exec" => Executor!TypeOK
    /\ focus = "lab" => Lab!TypeOK
    /\ focus = "social" => Social!TypeOK
    /\ focus = "crawl" => Crawl!TypeOK
    /\ focus = "build" => Build!TypeOK
    /\ focus = "market" => Market!TypeOK
    /\ focus = "onboard" => Onboard!TypeOK
    /\ focus = "ai" => AI!TypeOK
\* A cycle is given nothing twice, nothing it attempted or that was sent when its card was
\* looked at, and no more of a band than the goal has room for (collect_indeed_candidates.py).
SelectionIsSafe == focus = "scan" => Scan!SelectionIsSafe
\* Fit and preparation on record were derived from the sources on record, unless one
\* changed while they were (market_fit/store.py).
JudgementsAreFresh == focus = "fit" => Fit!JudgementsAreFresh
\* Only an application that was silent too long is called ghosted, and none that was
\* answered is shown or counted as one (market_fit/store.py, assessment.py).
GhostedOnSilence == focus = "funnel" => Funnel!GhostedOnSilence
\* Private answers are not kept, and questions of judgement are answered by what a human
\* stated, however answers are copied between pages (smart_apply_questions.py).
AnswersStayInBounds == focus = "bank" => Bank!AnswersStayInBounds
\* An application is sent once at most by the executions that keep a history, and what
\* is recorded as submitted was sent (PlanExecutor._submit_or_stop).
SentOnce == focus = "exec" => Executor!SentOnce
\* What a run of the process lab concludes is about its own crawls, unless it was started
\* by hand, or another was, in the second that names its directory (flows.py:351-422).
ConclusionsAreOwn == focus = "lab" => Lab!ConclusionsAreOwn
\* In whatever order the vendors of a collection end, nothing is in it twice and no post is
\* lost but to one of its id or text, and a session on file is of somebody who signed in
\* after the last disconnect was over (aggregator.py:124-142, web/auth.py).
CollectionIsWhole == focus = "social" => Social!CollectionIsWhole
\* A crawl ends only when no page waits, visits none twice and each to success or failure,
\* and knows no rules that no page has borne out (crawler.py:155-220).
CrawlIsWhole == focus = "crawl" => Crawl!CrawlIsWhole
\* A build that ends has put each tagged repository once in the resume of each of its
\* industries and in no other, in every format (industry.py:194-249, pipeline.py).
EveryProjectIsShown == focus = "build" => Build!EveryProjectIsShown
\* Made-up postings are never said to be live or cached, nor real ones made up, and none
\* is shown twice (job_market/service.py).
LabelIsHonest == focus = "market" => Market!LabelIsHonest
\* A revision of the preferences whose automatic start is recorded started no other goal,
\* and there is no revision without a whole identity (onboarding.py:244-345).
OneGoalPerRevision == focus = "onboard" => Onboard!OneGoalPerRevision
\* A key is only sent to the provider it was given for (llm/local_config.py).
KeyStaysWithProvider == focus = "ai" => AI!KeyStaysWithProvider
=============================================================================
