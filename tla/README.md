# Verification of the job finder and what surrounds it

TLA+ modules, TLC configurations and TLAPS proofs for this repository. The parts
whose mistakes cannot be taken back come first: the *job finder*, which applies
to jobs on a person's behalf, unattended, in several processes that share two
SQLite databases and a few JSON files, the *human gates* at which it stops, and
the *external event workflow*, which sends mail to the university's office. Around
them stand parts that share no state with each other: what finds vacancies and
answers their questions, what judges them, what collects a person's evidence and
builds resumes from it, and what sets the system up.

All source paths are relative to `src/`; `JA` stands for
`legacy/python/resume_builder/job_application`. "README.md:n" in a comment of a
module is `JA/README.md`.

## 1. Inventory

### The job finder (modelled)

| component | state | operations | talks to |
|---|---|---|---|
| Application goal ledger, `JA/goal_store.py` | goal rows (target, quota per salary band, counters `reserved` and `confirmed`, status), one item row per goal and task (state, band, review flags) | `create`, `set_status`, `observe`, `reserve`, `confirm`, `release`, `approve_human_review` | shared by the control center, the runner and the adapter, each with its own connection; every operation is one `BEGIN IMMEDIATE` transaction |
| Submission history, `JA/submission_history.py` | application rows (state, applied, updated, source), job postings | `reserve_submission`, `mark_submitted`, `mark_submission_unknown`, `mark_failed`, `record_existing_submission` (several transactions), `confirm_with_provider`, title reconciliation | workers, control center, watcher, Applied-page sync |
| Final submit flow, `JA/indeed_smart_apply_runner.py` | the reservation a worker holds | reserve, re-evaluate the gate, click, record the outcome | submission history, the site |
| Event watcher, `tools/job_finder/indeed_event_watcher*.mjs` | its own connection to the history | `recordConfirmed` on a post-apply page | submission history |
| Goal runner, `tools/job_finder/run_application_goal.py` | one process per goal: known and attempted tasks, the cycle's candidates, `process.json`, `attempted-task-ids.json` | boot, collect or replay, run the adapter, judge, leave | ledger, adapter, control center (SIGTERM) |
| Site adapter, `tools/job_finder/run_indeed_unattended.py` | jobs to do, active workers, submissions left | take a job, observe its evidence, record its outcome, end | ledger, history |
| Control center, `web/job_finder_supervisor.py`, handlers in `web/app.py` | `_PROCESSES` (lost in a restart), the handlers' local variables | start, resume, cancel, confirm, release, approve, retry, clear a gate | ledger, runner processes, `process.json` |
| Salary bands, `JA/salary_policy.py` | none | classification, quota | ledger, adapter |

How they interact. The control center launches a runner per goal in a session of
its own. The runner performs one cycle: it replays queued items or collects new
candidates, runs the adapter as a child, and leaves the goal waiting for humans
or for candidates. The adapter's pool of workers drives the browser; a worker
that reaches final Submit asks the submission history for a reservation, clicks,
and records what it saw; the adapter's main thread records each outcome in the
goal ledger and takes, spends or returns a *token* (one unit of the goal's
target). Meanwhile the operator confirms, releases, approves, retries and cancels
from a web page, and the watcher records post-apply pages on its own. Nothing
but the databases' transactions and one in-process lock orders any of it.

What is hard about it: every decision is made on rows read in an earlier
transaction; any process may be killed between two transactions; the same role
is seen under different titles; the click has no acknowledgement that can be
trusted; and the control center forgets its processes when it restarts.

What makes it correct, component by component:

* ledger: tokens held and spent never exceed the target; the counters are those
  of the items; `target_reached` means reached; a spent token stays spent;
* history and final submit: two clicks for one role are a duplicate window
  apart whatever interleaves or crashes; a click that happened is never
  recorded as one that did not;
* runner and control center: one runner per goal, none after a cancellation or
  a reached target, every cycle ends.

### The external event workflow (modelled)

A package has a row (status, revision), votes of departments, a mail row (mode,
delivery status, idempotency key) and a proof row, all in the hosted database.
`supabase/migrations/0010_*.sql` has a function per operation, each a transaction:
`submit_external_event`, `transition_external_event` (interest, department vote,
manual delivery, SADO's answer), `claim_`, `finish_` and
`fail_external_event_delivery`. `eventAction`
(`domains/server/organization/run-operation.ts`) calls claim, then the mail adapter
of `send-message.ts`, then finish, or fail if anything in between throws; officers
do so at the same time from several pages and servers.

What is hard about it: the claim outlives the process that made it; Gmail gives
no answer that can be waited for; the three calls of one delivery may go
unanswered and run later, in another order; and all claims of a package carry the
same key, so that the database cannot tell whose call it is serving.

What makes it correct: one sender at a time, no submission without evidence, no
mail before unanimity, no recorded delivery undone.

### The human gates (modelled)

An attempt at an application stops at a gate (a captcha, a sign-in, an uploaded
resume, a questionnaire, an unknown layout) and queues it in a JSON file
(`JA/access_verification.py`); the worker leaves. The operator reopens,
approves, rechecks, releases or retries the entry from the control center
(`web/job_finder_control.py`), which changes the queue, then the ledger, then the
runner. Worker, handlers and the owner at the browser interleave between any two
accesses. Correct means: no gate opens without a person or the site, answers are
approved for the pass that uses them, and an attempt ends.

### The other parts (modelled, checked side by side)

| component | state | hard about it | correct when |
|---|---|---|---|
| Candidate scan, `tools/job_finder/collect_indeed_candidates.py` | inventory of cards, quotas, what was sent | cards seen again on other pages with less evidence; others submit meanwhile | each role is offered once, within the quotas |
| Market fit, `JA/market_fit` | opportunity, campaign, demands, assessment, preparation | a model answers between a read and a write | what is on record was derived from what is on record |
| Interview funnel, `JA/market_fit/store.py` | opportunities, events | two refreshes, a late answer | silence, and nothing else, is ghosting |
| Question bank, `JA/intelligence`, `JA/persistence/questionnaire_store.py` | stored answers, preferences, requests of the bridge | answers copied from page to page by three processes | an answer stays within the bounds of who may give it |
| Plan executor, `JA/executor.py`, `JA/dynamic_layout_runtime.py` | learned rules, ledger, history | the click fails after it took effect; the ledger is rewritten whole | an application is sent once |
| Process lab, `development/process-lab` | slots, queues, flow runs, artifact directories | a directory is named by the second | a run concludes about its own crawls |
| Social sources and sign-in, `sources/social`, `commands/auth_cmd.py` | session files, cache, a collection | vendors end in any order; disconnect during a sign-in | a collection is whole; a session is somebody's who signed in |
| Crawler, `extraction/crawler*.py` | queue, visited, learned layouts | budget, failures, the model's choices | every picked page is visited |
| Resumes by industry, `orchestration`, `interpretation`, `classification` | tags, plans, files | tags in any order, merged names, retries, a build that dies | every tagged repository is shown once in each of its industries |
| Job market, `job_market`, `web/job_market_api.py` | snapshots of providers | refreshes overlap and fail | made-up postings are labelled so |
| Onboarding, `web/onboarding.py`, `JA/persistence/application_profile_store.py` | answers, identity, preferences, routes, recorded auto-starts | every table access is its own transaction; restarts | a recorded revision of the preferences starts no second goal |
| Model configuration, `llm/local_config.py`, `web/local_ai_api.py` | the configuration and its one temporary file | two saves share the file; one has it open when another renames it | a key is only sent to the provider it was given for |

### Planned, not yet modelled

| component | why it is worth it |
|---|---|
| Evidence claims and points, `supabase/migrations/0010`, `0011`, `0002` | review, appeal and the point events they insert exactly once |
| Heap and leaderboards (`legacy/python/org_ops/points/heap.py`), resource governor, salary allocation | pure algorithms, to be checked against a reference |

### Not modelled, and why

* Parsing and wording, wherever they occur: the reading of pages, the matching of
  labels, the text and layout of documents, the answers of a model. They are inputs.
* `JA/state_machine.py` is a static table with one guard; a model would restate it.
* Organisation delegation: one actor builds a tree in memory.
* Dashboard views, portal and client applications: they read, or call the
  services above.
* Membership, hosted identity, privacy, feedback: single-row updates under row
  policies of a hosted database. The local OAuth profiles of `web/auth.py` are one
  JSON file with a read and a write per request.

`PROJECT.json` lists every component with its status and every hazard with the
line where it bites.

## 2. Modules

```
GoalTokens            tokens without counters or rows: what a goal promises
  ^ implemented by
ApplicationGoals      goal_store.py          <- ApplicationGoalsProofs (TLAPS)
  ^ INSTANCE
GoalRunner            run_application_goal.py, run_indeed_unattended.py
  ^ EXTENDS
JobFinder             job_finder_supervisor.py, app.py
                        <- JobFinderProofs <- SharedLedgerProofs (TLAPS)

SubmissionHistory     submission_history.py, watcher's SubmissionStore
  ^ EXTENDS
FinalSubmit           who runs its transactions, and when  <- FinalSubmitProofs (TLAPS)

ExternalEvents        migration 0010, run-operation.ts  <- ExternalEventsProofs (TLAPS)

VerificationQueue     access_verification.py
  ^ EXTENDS
HumanGates            run_indeed_unattended.py, job_finder_control.py
                        <- HumanGatesProofs (TLAPS)

Parts instantiates, each over variables of its own:
  CandidateScan  MarketFit  InterviewFunnel  QuestionBank  PlanExecutor
  ProcessLab  JobMarket                                   <- PartsProofs (TLAPS)
  Onboarding  LocalAI  SocialScrape  AgenticCrawl  IndustryBuild
                                                          <- SetUpProofs (TLAPS)
```

**GoalTokens** is the abstract specification: each task of a goal has no token,
holds one or has spent one; a token may be taken only while the goal has one
left, a spent one never comes back. It has no counters.

**ApplicationGoals** has one action per method of `ApplicationGoalStore`, each a
whole transaction. `goal[g]` and `item[g][t]` are the two tables' rows. Detail
texts, salary figures, job levels and timestamps are abstracted; the columns that
guards read (`counts_toward_target`, the review flags) are kept. `Confirm` has the
CHECK of the table: a transaction the CHECK would abort is not enabled.

**GoalRunner** follows `supervise` and `run` statement by statement as far as they
touch shared state: `proc[p].pc` is the place between two transactions, file
accesses or signals. What a worker does in the browser is one of six outcomes;
`at_review` stands for a handoff whose wording mentions review, final submit or a
submit permission, `evidence_gap` for "salary review required" and
"employment-type review required", `gate` for any other handoff.
`_record_goal_outcome` is two steps (`Record`, `RecordToken`) as it is two
transactions; the read of the item that precedes them is part of the first. A
worker's `_observe_job_evidence` happens when its job is taken.

**JobFinder** adds the handlers. A handler is a sequence of named steps
(`Program`), each a critical section of `_LOCK`, a ledger transaction, a file
access or a signal. `tracked` is `_PROCESSES`, `metadata` is `process.json`. Runner
slots are reused once no table or thread names them, as process ids are.
Out of the model: the error of `launch_goal` when an artifact is missing, the
auto-start's gating, and the history call of `confirm_item`, which is a recorder
of `FinalSubmit`.

**SubmissionHistory** defines the tables of one company and the transactions as
action fragments, **FinalSubmit** the processes that run them: workers, recorders
(the manual confirmation, the post-apply reconciliation, the Applied-page sync),
the watcher, a provider, each of which may crash between two transactions. Time
counts days. `trace` is a history variable: when an attempt was reserved and
clicked, and whether its row was renamed since. Company rows, title aliases, the
audit table and the backfill of old databases are left out.

**ExternalEvents** has an action per database function and per step of
`eventAction` around a delivery. One package is enough: no function reads another's
rows. Payload and revision never change once submitted (no function updates
them), so the draft, its hash and the key are the same in every claim and are left
out; that a key has been set at all is the guard of `FinishDelivery`.
`approved_by`, `approved_at`, `sent_at` and the provider's message id are written and
never read by these functions, and are left out. `late` holds the calls whose caller has
stopped waiting: each may run at any later time or never. `gmail` and `manual` are
history variables. Also left out: interests, and the local demonstration store,
whose SQLite functions differ (its redraft makes the mail `pending` again).

**VerificationQueue** has an operator per method of the queue, a read, a change and a
write under the queue's lock; **HumanGates** the worker, the handlers and the owner
around it, each step one access to the queue, the ledger or the browser. A check of
a page and the click that follows at once are one step. Grants are records of
history: whose they are and whether they were spent. One application is enough, as
no entry names two.

**The parts.** Each module takes one request, thread or process per member of a
set, and a step is a transaction, a file access or the answer of somebody external.
Where the code uses a file rewritten whole, reading and writing it are two steps.
`CandidateScan` keeps the order of cards, since the scan's memory depends on it;
`MarketFit` marks what was saved after its source had changed (`late`), which the
code does not prevent; `QuestionBank` tells an answer by where it came from first;
`PlanExecutor` has what an employer received apart from what is on record;
`ProcessLab` has Prefect's limits as external; `SocialScrape` has the session's two
files apart and looks at a collection post by post; `AgenticCrawl` lets the model pick
anything, in any order, and any page fail; `IndustryBuild` lets tags come in every order
and plans with them one at a time, and where an order is of no consequence (of the names
left when doubles are removed, of the plans) it takes one (`Listed`), about which nothing
is claimed; `JobMarket` lets a provider answer,
answer nothing or fail; `Onboarding` reads state() in the pieces in which it reads
the tables, and its goals are live or not; `LocalAI` follows an open file through a
rename, and lets a shorter text written over a longer one leave a tail. In
`Parts` a behaviour is one of the part in focus; a part out of focus has
no state. The constants are those of the parts, some under another name where two parts
use the same one.

The **MC** modules define the constants' values. `Faulty variants` in a module are
plausible mistakes in the definitions after them; no action uses them, and each
property of a passing run fails when one of them takes the place of the definition
it varies (`mutants` in `PROJECT.json`).

## 3. Runs

| run | checks | instance |
|---|---|---|
| ContendedGoal | ledger: types, counters, target, status, permanence, implements `GoalTokens` | 2 tasks, 1 goal, 1 band, (target, quota) in (1,1), (2,1), (2,2) |
| OneOperator | `OneRunner`, `CancelledIsQuiet` (action property), implements `ApplicationGoals` (`LedgerContract`) | 2 goals, 3 process slots, 1 task, one handler thread |
| CyclesEnd | `RunnersEnd` (liveness) | 1 goal, 2 tasks of one role, 2 slots, gates cleared and items confirmed meanwhile |
| ServerRestarts | `ReachedStopsRunner` (liveness) | 1 goal, 1 task, 2 slots, restarts anywhere |
| OneRole | `ClicksAreSpaced`, `ClickNeverForgotten` | 2 workers, 1 recorder, watcher, provider, 2 rows, days 0..5, window 3 |
| RenamedRole | `ClicksAreSpaced` | 1 worker, 1 recorder, 2 titles, a job id that may be missing, 2 postings |
| EventDelivery | `SingleSender`, `SubmittedIsDelivered`, `UnanimousBeforeMail`, `DeliveredStaysDelivered` | 3 officers of 3 departments, 2 of them required, servers of both mail modes |
| GatesHold | `NoGateOpensItself`, `AnswersApprovedEachTime`, `AttemptEnds` (liveness) | two forms, 2 tabs, 2 passes, 2 requests and 2 moves of the owner, a check and a crash |
| Parts | one property of each of the twelve parts, see below | in `MCParts` |

Parts checks `SelectionIsSafe` (8 cards on two pages, three searches, quotas),
`JudgementsAreFresh` (2 requests), `GhostedOnSilence` (2 refreshes, 2 events),
`AnswersStayInBounds` (5 questions on two pages, one of them private),
`SentOnce` (executions of the same and of other applications),
`ConclusionsAreOwn` (2 runs of three deployments or by hand, two seconds),
`CollectionIsWhole` (2 vendors with equal posts), `CrawlIsWhole` (7 pages, depth 2,
budget 4, two crawls), `EveryProjectIsShown` (3 repositories, a post, aliases that
merge two names, 2 builds), `LabelIsHonest` (2 requests, 2 providers and an import),
`OneGoalPerRevision` (2 threads, 2 revisions, 3 goals, 2 resumes) and
`KeyStaysWithProvider` (2 threads, 5 inputs, an environment).

Bounds, and why they are enough.

* *Tokens.* Contention needs two tasks and one token. With target 2 and quota 1
  the band is full before the goal, with quota 2 the goal and band fill together.
  Goals never share rows, so one is enough; the theorems cover any number.
* *Runners.* Twins need a runner and a launch; a third slot lets one be dying
  while another is launched, and a second goal lets `create` cancel the first.
* *Time.* Window 3 and days 0 to 5 let an attempt expire, be repeated, and be
  answered late. A worker may stall one day before its click (`MaxStall`) and a
  report may date back a day (`MaxReportLag`): the spacing promised is the window
  less these two. Without a bound on them no spacing follows from the code,
  since a reservation ages while its worker sleeps.
* *Rows.* Two application rows suffice for two clicks on one role; `MaxApps` and
  `MaxPostings` only stop the run from going on.
* `RenamedRole` has one day, so that the spacing is simply "never twice";
  title reconciliation does not depend on the distance of days.

* *Events.* Two officers contend for a claim and a third may hold what is left of an
  earlier one; two required departments distinguish the first vote from the last,
  and the third officer's vote must not count. An officer has at most one unanswered
  finish per mode outstanding (`call \notin late`), which keeps the run finite;
  retries are unbounded.

* *Gates.* Two passes let an attempt come back to a gate, two requests and two moves
  let the operator and the owner contradict each other; `MaxUpsets` bounds how many
  of these happen in one behaviour.
* *Parts.* Two requests of a kind make every interleaving of reads and writes; a third
  would repeat them. The inputs hold the cases that the code tells apart: equal and
  differing cards, names that merge, a provider that needs a key and one that does
  not. `MaxRevisions`, `MaxGoals`, `MaxBuilds`, `MaxCrawls`, `MaxSecond`, `MaxQueued`,
  `MaxEvents` and the like only stop a run.

`CHECK_DEADLOCK FALSE` is set where the system may stop: users owe no request, a
goal may be finished, and the bounds on rows and days end a run.

Fairness (`FairSpec` of `JobFinder`). Each runner process and each handler thread
is weakly fair as a whole: the operating system schedules it, `subprocess.run`
and the workers return, and a handler waits for nothing but `_LOCK`, which is never
held across a wait. Nothing is assumed of users, restarts, or of which outcome or
which branch a step takes. The liveness properties rest on nothing else:
`RunnersEnd` on every step of a cycle making progress, `ReachedStopsRunner` on the
runner's own end, since the handler that would stop it may die with the server.
`FairSpec` of `HumanGates` has the worker's steps weakly fair and nothing else: no
person, handler or site has to do anything for `AttemptEnds`, since a worker waits for
nobody: it queues the gate and leaves, and its loop over pages is bounded.

### Where code and documentation disagree

Three runs end in a counterexample, each to a sentence of the repository.

* **ConfirmedThenFailed** (`JA/README.md:76`). A worker has reserved; the watcher
  or the operator records the confirmed submission on the same row; the worker's
  second look at the gate finds a blocker and `mark_failed` overwrites
  `submitted`. The role is then free to be applied to again at once.
* **LostReplay** (`JA/README.md:113`). A gate is cleared while the runner is past
  reading its items: the runner counts as running, none is launched, and the
  item stays queued until another request.
* **ContinueApproved** (`job_finder_control.py:251`). "uploaded resume preview
  requires human approval" contains "review", so the item is held as a reservation;
  the approval of Continue replays only items in `human_handoff`, and nothing happens.

Three more were found with the same models and are not runs of their own.

* `job_finder_supervisor.py:99`: the runner's last status write is unconditional; a
  confirmation that reaches the target between its read and its write is turned back
  into `waiting_for_...`.
* `job_finder_control.html:93`: a cleared gate re-observes the item without its band;
  the default band replaces "unknown" and the confirmed item counts towards the quota.
* `docs/ORG-OPERATIONS.md:207`: a department's second vote sets the status from the
  number of votes alone, and a package already submitted is back in `email_review`.

Others met while reading the code, in no run:

* `scrape_all` (`commands/scrape_cmd.py:125`) reads `scrape_config.vendors`, which
  `ScrapeConfig` does not have; the CLI's logout keeps `storage_state.json`.
* `build-industries --web` says its pages are included in the AI extraction; the
  pipeline (370-403) passes them only to a classifier without a model.
* Two industries of one slug overwrite each other's directory (`industry.py:441`);
  `EveryProjectIsShown` excepts them. Directories of earlier builds stay.
* The aggregator's cache is named by the vendor alone (`aggregator.py:156`), and
  empty and failed fetches are cached; the last answer in an unattended FilePrompt
  may be one left from an earlier prompt (`sources/social/auth.py:175-199`).
* The second request for one `/build` directory removes the first's while that one
  awaits its uploads (`web/app.py:915-975`).
* `auto-start` finds no active goal, a person starts one, and `start_goal` then ends it
  as the previous one (`app.py:319`, `job_finder_supervisor.py:78-80`). A crash between
  creating and marking a goal lets the revision start another, which is why
  `OneGoalPerRevision` speaks of recorded goals. An answer corrected while another
  request clears the answers is lost although its request succeeded.
* A save of the model configuration that ends in an error because another renamed the
  temporary file may still be the one that takes effect (`local_config.py:152-154`).

Two more were found while proving, where a lemma did not hold:

* A new goal cancels every open one (`goal_store.py:141-151`), but the supervisor stops
  the runner of the newest open goal only (`job_finder_supervisor.py:72-75`). An older
  goal that a release has made active again keeps its runner after it is cancelled.
  `CancelledIsQuiet` excepts the goals a newer one supersedes.
* The owner approves a questionnaire "for this exact application, tab, and question
  set" (`access_verification.py:493`), and the handler looks at the tab of the entry
  (`job_finder_control.py:1137-1223`). If a worker re-queues the same questions from
  another tab before the grant, the approval is granted there
  (`access_verification.py:394-424`). `NoGateOpensItself` therefore speaks of a gate and
  its questions, not of a tab.

Further behaviours the models show and the passing runs, by their constants or
properties, do not exclude. With two handler threads, or after a restart of the
control center, `OneRunner` does not hold; the proof of `LaunchesAreExclusive` names
the only way there: the table of processes has dropped a runner that is alive, in the
restart or because a thread forgets the process another has just started. An item whose listing lacks salary
evidence takes a token, since "review" is a word of its detail
(`run_indeed_unattended.py:165`). A claim whose server dies stays `sending`, after
which nobody can deliver the package's mail. And a message that Gmail accepted
without answering is sent again by the next `approve_email`: the key is in its
Message-ID only, and what `docs/DATA-MODEL.md:844` says of keys and receipts holds of
recorded receipts (`DeliveredStaysDelivered`).

## 4. Proofs

`ApplicationGoalsProofs` proves, for any number of goals, tasks, bands and plans,
from `GoalsAssumption` alone (finitely many tasks, positive targets, and band
names that differ from the two reserved ones; nothing about the quotas):

* `TypeCorrect`, `CountersCorrect`, `TargetRespected`, `TargetReachedCorrect`: the
  four invariants of the run ContendedGoal;
* `ConfirmationNeverUndone`: the action property of that run;
* `ImplementsTokenContract`: the refinement of `GoalTokens`.

The argument. None of the code's guards counts items: they read counters. What
makes the counters true is that each transaction changes one item and the
counters of its goal by the same amount. The inductive invariant says so:
`TypeOK` and, for every goal, `GoalAgrees(g)`: the number of tasks that hold (that
have spent) a token is the counter's value, the two stay within the target, and a
goal that reads `target_reached` has confirmed it. `TokensWithinTarget` alone is not
inductive: it counts items, while the guards read counters, and `Confirm` of an
item that held a token takes from a counter clamped at 0, which only agreement
shows to be positive. Lemmas state how the cardinality of "tasks in state s" changes
when one task's row changes; one step per action uses them.

`FinalSubmitProofs` proves, for any number of workers, recorders, titles, jobs,
rows and days, from `HistoryAssumption` and `SubmitAssumption` (natural bounds,
a window of at least a day, and markers that are not values):

* `ClicksSpaced`: final clicks under one title are `Window - MaxStall -
  MaxReportLag` days apart;
* `ClicksRemembered`: no attempt that was clicked is on record as failed;
* `HistoryTyped`: the types.

The argument. `ClicksAreSpaced` speaks of clicks, but what the code spaces is
reservations, and a reservation made in time may be clicked late. The inductive
invariant therefore spaces *pending* attempts, clicked or still to be clicked
(`ReservationsSpaced`), and says why the history can be trusted about them
(`RowAgrees`): while an attempt is pending its row is neither failed nor retitled,
and its dates are no earlier than the reservation, less the lag of a report. That
a row is never failed under another worker needs `OneOwner`; that a report is no
older than the row it lands on needs `RecorderAgrees`; that a click is no later
than the stall needs `WorkerAgrees`. Most steps reserve nothing, click nothing and
take no time (`Calm`): lemmas about calm steps leave each of their proofs only the
one row they mark.

`ExternalEventsProofs` proves, for any officers, departments and modes, from
`EventsAssumption` (required departments are departments, officers have one):
`OneSender`, `SubmissionEvidenced`, `MailAfterUnanimity`, `DeliveryPermanent` and the
types `EventsTyped`.

The argument. Nothing in a claim says whose it is, so that `SingleSender` holds is a
matter of counting what may still end the claim. The inductive invariant says
(`ClaimGuarded`) that a mail is `sending` or delivered as long as somebody holds it
*or a fail call is outstanding*, that both are never the case, and that there is at
most one such call: when it runs, the row becomes claimable with no holder and
no call left. `ReceiptHeld` and `MailAgrees` carry Gmail's receipt from the sender,
through a call that may be late, to the row; that a late finish of one mode cannot
overwrite a delivery of the other is the mode check of the database function.

`JobFinderProofs` proves, for any number of goals, tasks, runner processes and
handler threads, from `RunnerAssumption` and `RequestsAssumption` (natural bounds, and
markers that are not values):

* `TypesHold`: the types, through every restart;
* `OneRunnerPerGoal` and `CancelledStaysQuiet`: the two properties of the run
  OneOperator, from `OneAtATime`: one request is handled at a time and the control
  center is not restarted. Those are the run's constants too, and without them both
  properties fail (section 3);
* `LaunchesAreExclusive`: with any number of requests at a time and any restarts,
  `OneRunner` holds of every behaviour in which no step drops a live runner from the
  table (`Dropped`). This is what the lock of `launch_goal` guarantees on its own.

The argument. A handler looks for a runner, signals it, waits, forgets it and writes
the cancellation in steps of its own, on what it saw in the first. The inductive
invariant `Agreement` says what those steps may rely on: every live runner is the one
the table names for its goal, a `process.json` that names a live process is its goal's
(`TablesAgree`), and, for each place in a handler's list of steps, what was read is
still so (`StillSo`): the process about to be killed is the goal's, the goal about to
be cancelled has no runner, the goal about to get one is not cancelled. That a list of
steps can only be at such a place in one of the forms the requests give it is part of
the types (`Typed`). Steps of runners are *calm*: they cancel no goal and a process
only ever leaves its goal by dying, so that one lemma covers them all. For
`LaunchesAreExclusive` the invariant is `Tabled`, the first half of `TablesAgree`.

`SharedLedgerProofs` composes that with the proofs of the ledger: `LedgerIsShared`
shows that each step of `JobFinder`, by whichever process or thread, is a step of
`ApplicationGoals` or leaves its tables alone (`LedgerContract`, the refinement that
OneOperator checks), and `GoalsSafeWhenShared` that counters, target and
`target_reached` are therefore right in the composed system. No assumption is added.
The invariant (`SharedInv`) carries the types, the ledger's own invariant, and that
runners and handlers only name tasks and goals the ledger knows.

`HumanGatesProofs` proves, for any form, tabs, requests, moves of the owner, checks and
crashes, from `QueueAssumption` and `GatesAssumption` (forms are sequences of modules,
bounds are natural): `GatesTyped`, `GatesAreApproved` (`NoGateOpensItself`) and
`ApprovalsAreUsedUp` (`AnswersApprovedEachTime`).

The argument. A gate is passed on a permission that the worker read from the queue a
while ago, that a handler put there a while before that, for an owner who looked at
a page since changed. `IInv` has three parts: `Typed`; `Vetted`, which follows a
permission back from the worker and from the queue's grant to an approval the owner
gave for that gate and those questions; and `Counted`, which says where an approval
that has been used can still stand: while the click that used it is still to be
consumed (`Owed`), once for each crash in between, or at an item that has ended
(`Over`) and is never taken up again. The last case is why the worker's end has to be
part of the invariant: an attempt that fails after the click leaves its grant behind.

`PartsProofs` proves of all twelve parts, for every value of their constants, the
property each has in the run Parts: `SelectionsAreSafe`, `JudgementsStayFresh`,
`GhostsWereSilent`, `AnswersAreBounded`, `SentAtMostOnce`, `ConclusionsStayOwn`,
`CollectionsAreWhole`, `CrawlsAreWhole`, `ProjectsAreShown`, `LabelsAreHonest`,
`OneStartPerRevision`, `KeysStay`, and their types, `PartsTypesHold`. It assumes
`ScanConstants` (a site's pages are lists of cards and link to its own pages, a goal
has no room of its own for unknown salaries), `FitConstants` (an opportunity may lack a
text, a resume or a track, which is "none"), `FunnelConstants` (the bounds are natural,
no application is a marker), `BankConstants` (how a question is treated, and whether it
is private, goes by its label, as in the code), `ExecutorConstants` (plans are sequences
of the kinds of step there are), `LabConstants` (runs are numbered and finitely many,
what is deployed or started by hand is a flow), `SocialAssumption` (what a vendor yields is
a sequence of posts, a jar holds an account or none, no vendor is the marker for none),
`CrawlAssumption` (the seed is a page of its own domain, a page links to finitely many, the
budget is at least one page), `BuildAssumption` (sources and industries are finitely many, no
repository is a post, an answer lists industries and names skills), `MarketConstants` (there is a provider,
and none has the name that marks made-up postings), `OnboardingConstants` (no thread or answer is a marker,
the bounds are natural, resumes are a sequence) and `AIConstants` (a user names their own
provider's key, and the configuration of the environment is validated as it is read),
all of which TLC evaluates in that run. Theorems are about `PartsSpec`, the specification
that the run checks: one part is in focus, and the steps are that part's. Of five parts,
those which set up what a goal starts from, the lemmas are in `SetUpProofs`, which also
holds the facts about sequences that they share.

The argument. Each part reads in one step and writes in a later one, so that each
invariant says what a read is still worth:

* *Candidate selection* (`ScanInv`). The two memories, of names and of keys, follow the
  scan over pages and searches; whatever is selected is in both (`Taken`), so that a
  card compared with the memories was compared with the selection. What was sent since
  a card was looked at is in `sentLater`.
* *Funnel* (`FunnelInv`). Events are only added, so that what the rule saw when it
  called an application ghosted (`WasSilent`) is told by the events before that one: a
  refresh's read is still right when it writes unless an event came in, and then the
  ghosting is late. That the stage shown is not the ghost's takes the
  last event of a set, which exists (`GreatestOne`, from the well-foundedness of `<`).
* *Question bank* (`BankInv`). What may not be kept gets into the bank through what a
  worker planned or was told, in another step; so the invariant says of those, too,
  where an answer of a human question comes from (`Stated`), and that the bank has one
  document per fingerprint, since the answer of the last is the one reused.
* *Onboarding* (`SetUpInv`, in `SetUpProofs`). `OneGoalPerRevision` compares a recorded goal with later
  ones, but the record is written after the goal, in another table. The auto-start's
  lock makes that safe while the server lives: the thread that holds it (`Holding`) has
  created the last goal its revision started, and what it read of the records still
  holds. A restart loses the lock and the thread together. That a revision has a whole
  identity and every resume routed needs that a request on its way from one route to
  the next has those before behind it (`Answering`), and that no other request unsets
  them: a whole identity stays whole, and a routed resume routed.
* *Market fit* (`FitInv`). What a request has read is of its type and was verified when
  the code checked it (`HasRead`); what it saves is marked late unless its sources are
  those on record now. Every write deletes what depends on it, so that what is not late
  agrees with its sources.
* *Plan executor* (`ExecInv`). Two executions of one application never hold a
  reservation at once (`OneReservation`); one that holds it finds it on record and the
  application unsent, or sent without a history (`Under`). The ledger needs less: it may lose what
  others wrote, but every copy of it, on disk or in an execution's hands, says
  "submitted" only of what was sent.
* *Process lab* (`LabInv`). The directory a run reads is named by a second and may be
  anybody's; what makes it the run's own is the place the run has reached: after each of
  its steps the directory holds what those behind it wrote (`Found`), and is left alone
  by runs of the worker, which has one of a queue at a time (`WorkerAlone`). A worker's
  run finds its limits because a stack that is up has been configured to the end
  (`Configured`), and stopping it stops them.
* *Job market* (`MarketInv`). The label of an answer is made from the set of kinds that a
  request collects on its way, the postings from what the providers gave it: that the
  two say the same is the invariant of the loop over providers (`Gathered`).
* *Model configuration* (`AIInv`, in `SetUpProofs`). What reaches the file or a
  request comes through the temporary file that all saves share and through the threads.
  Both files are sound (`SoundFile`: what loads is sound, a torn or empty text loads as
  nothing), and so is every thread under way (`CallerSound`). A merge keeps this
  because the key it preserves is the one of a sound configuration of the same provider.

* *Social sources* (`SocialInv`, in `SetUpProofs`). The code tells what it has seen by two
  sets, of ids and of texts, and the property is about the posts it keeps. The
  invariant says that the sets are those of the posts kept (`Told`), neither more, or a
  post would be dropped without its like having been kept, nor less, or one would be
  kept twice; and that what was looked at so far is kept or has its like (`Looked`).
  Of sessions it says that what is on file was saved since the last disconnect, except
  for the storage state of the vendor whose disconnect is between its two files.
* *Crawl* (`CrawlInv`, in `SetUpProofs`). No page picked is lost because what was visited and
  what waits fit in the budget together (`Fits`): a page is queued only into what room is
  left, and popping moves it from one to the other. What was visited was extracted or has
  failed, but for the page at hand (`AtHand`), which is none when a page is popped. A layout's
  rules were valid on a page they were learned on (`RulesKept`), in this crawl or an
  earlier one.
* *Resumes* (`BuildInv`, in `SetUpProofs`). Tags come in any order and each source once
  (`TagsApart`), or is given up on. While they are planned the projects of an industry are those of
  the tags looked at so far (`ProjectsUpTo`), each once as a tag names no industry twice after
  the merge: without that a project would be shown twice. While resumes are rendered, what was
  rendered stands in its file (`Rendered`) unless another industry of the plan has that
  directory; names that differ in case or punctuation do, and then the later one is left.

Only model-checked: liveness, that is `RunnersEnd`, `ReachedStopsRunner` and `AttemptEnds`, as
the prover has no `ENABLED`. Every invariant and action property of every passing run has a
theorem. The violations are TLC's, as they are counterexamples.

## 5. Plan

1. *(done)* the ledger, its token contract and proofs; the history and the final
   submit; the runner and the control center.
2. *(done)* the verification queue and the human gates.
3. *(done)* the external event workflow and its proofs.
4. *(done)* the parts around the job finder, with onboarding and model configuration.
5. Evidence claims with an exactly-once abstract specification of their points; pure
   algorithms against references: heap, salary allocation, worker limits.
6. *(done)* proofs: the runners and the control center, its refinement of the ledger,
   the human gates, and all the parts in `Parts`.
