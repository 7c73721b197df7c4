---------------------------- MODULE PlanExecutor ----------------------------
(***************************************************************************)
(* Plans a model learned for an unknown layout (dynamic_layout_runtime.py, *)
(* website_planner.py) and the executor that replays plans in a browser    *)
(* (executor.py) with its permission policy, its JSON ledger of            *)
(* applications and the submission history.  Executions are processes that *)
(* share the three; each may die between two steps.                        *)
(***************************************************************************)
EXTENDS Naturals, Sequences, FiniteSets

CONSTANTS
    Runs,       \* executions
    Targets,    \* runs' applications: function from Runs to application ids
    Layouts,    \* rendered layouts: [shape, extras]; see Raw and Safe
    Plans       \* what may be planned: sequences of step kinds

VARIABLES
    rules,      \* the cache: sanitized layout -> steps of the accepted plan
    ledger,     \* the ledger file: application -> state
    history,    \* the submission history, of each application within its window
    exec,       \* exec[r]: one execution
    sends       \* history: what the employer received of each application

execVars == <<rules, ledger, history, exec, sends>>

Apps == {Targets[r] : r \in Runs}
Kinds == UNION {{p[i] : i \in DOMAIN p} : p \in Plans}
PlanExecutorAssumption == Plans \subseteq Seq(Kinds)
Idle == [pc |-> "idle", steps |-> <<>>, learned |-> "none", approved |-> FALSE,
         writes |-> FALSE, recorded |-> TRUE, file |-> [a \in {} |-> "none"],
         write |-> "none", outcome |-> "none"]

\* What is captured is sanitized: frames, scripts and hidden pictures are gone,
\* whose selectors the executor's fingerprint of the page still has.
Safe(l) == [l EXCEPT !.extras = FALSE]
Raw(l) == l

Become(r, rec) == exec' = [exec EXCEPT ![r] = rec]
Ends(r, outcome) == Become(r, [Idle EXCEPT !.pc = "done", !.outcome = outcome])
At(r, pc) == exec[r].pc = pc

-----------------------------------------------------------------------------
\* capture_unknown_application_layout: a plan in the cache is used as it is; a
\* new one must be confident and name controls the page has to be put there.
Capture(r) ==
    /\ At(r, "idle")
    /\ \E l \in Layouts, steps \in Plans, accepted \in BOOLEAN :
         LET known == Safe(l) \in DOMAIN rules
             use == IF known THEN rules[Safe(l)] ELSE steps
         IN IF known \/ accepted
            THEN /\ rules' = [k \in DOMAIN rules \cup {Safe(l)} |->
                                IF k = Safe(l) THEN use ELSE rules[k]]
                 /\ Become(r, [Idle EXCEPT !.pc = "planned", !.steps = use,
                                           !.learned = Safe(l)])
            ELSE rules' = rules /\ Ends(r, "planning_failed")
    /\ UNCHANGED <<ledger, history, sends>>

\* execute begins: the page is one the plan was learned for, the ledger does not
\* say the application was submitted, and nothing is missing.  recorded: the
\* execution keeps a submission history, as it does by default.
Start(r) ==
    /\ At(r, "planned")
    /\ \E l \in Layouts, approved, writes, recorded, missing \in BOOLEAN :
         IF Raw(l) # exec[r].learned THEN Ends(r, "human_handoff")
         ELSE IF ledger[Targets[r]] = "submitted" THEN Ends(r, "already_submitted")
         ELSE IF missing THEN Ends(r, "human_handoff")
         ELSE Become(r, [exec[r] EXCEPT !.pc = "step", !.approved = approved,
                                        !.writes = writes, !.recorded = recorded])
    /\ UNCHANGED <<rules, ledger, history, sends>>

\* A step that reads or writes needs its permission; one that fails three times
\* fails the execution.  A learned click is not looked at for what it clicks: on
\* a submit control it sends the application.
Replay(r) ==
    /\ At(r, "step") /\ exec[r].steps # <<>> /\ Head(exec[r].steps) # "final_submit"
    /\ LET kind == Head(exec[r].steps)
           sent == kind = "click_submit"
       IN IF kind = "sensitive_write" /\ ~exec[r].writes
          THEN Ends(r, "human_handoff") /\ UNCHANGED sends
          ELSE \E ok \in BOOLEAN :
                 /\ IF ok THEN Become(r, [exec[r] EXCEPT !.steps = Tail(@)])
                    ELSE Ends(r, "failed")
                 /\ sends' = IF sent
                             THEN [sends EXCEPT ![Targets[r]].ungated = TRUE]
                             ELSE sends
    /\ UNCHANGED <<rules, ledger, history>>

\* The end of the plan: what must be visible is, or the execution failed.
Validate(r) ==
    /\ At(r, "step") /\ exec[r].steps = <<>>
    /\ \E valid \in BOOLEAN : Ends(r, IF valid THEN "draft_ready" ELSE "failed")
    /\ UNCHANGED <<rules, ledger, history, sends>>

\* Mutant: a send that failed leaves the history free for another try.
FreedByFailure == "none"

\* mark_submission_unknown after a click that failed.
AfterFailedClick == "unknown"

\* _submit_or_stop: approval, the gate, and a reservation of the history.
Submit(r) ==
    LET a == Targets[r]
        blocked == exec[r].recorded /\ history[a] # "none"
    IN /\ At(r, "step") /\ exec[r].steps # <<>> /\ Head(exec[r].steps) = "final_submit"
       /\ \E valid, gateOpen, named \in BOOLEAN :
            LET stop == CASE ~valid -> "failed"
                          [] ~exec[r].approved -> "draft_ready"
                          [] ~gateOpen -> "human_handoff"
                          [] exec[r].recorded /\ ~named -> "human_handoff"
                          [] blocked -> "already_submitted"
                          [] OTHER -> "none"
            IN IF stop # "none" THEN Ends(r, stop) /\ UNCHANGED history
               ELSE /\ history' = IF exec[r].recorded
                                  THEN [history EXCEPT ![a] = "attempting"] ELSE history
                    /\ Become(r, [exec[r] EXCEPT !.pc = "load", !.write = "submitting"])
       /\ UNCHANGED <<rules, ledger, sends>>

\* ApplicationLedger.set reads the whole file and later writes it back.
LoadLedger(r) ==
    /\ At(r, "load")
    /\ Become(r, [exec[r] EXCEPT !.pc = "save", !.file = ledger])
    /\ UNCHANGED <<rules, ledger, history, sends>>
SaveLedger(r) ==
    /\ At(r, "save")
    /\ ledger' = [exec[r].file EXCEPT ![Targets[r]] = exec[r].write]
    /\ Become(r, [exec[r] EXCEPT !.file = Idle.file,
                     !.pc = IF exec[r].write = "submitting" THEN "click" ELSE "mark"])
    /\ UNCHANGED <<rules, history, sends>>

\* The click; one that raises may have reached the employer.
Click(r) ==
    LET a == Targets[r]
    IN /\ At(r, "click")
       /\ \E reached, raised \in BOOLEAN :
            /\ reached \/ raised
            /\ sends' = IF reached THEN [sends EXCEPT ![a].times = @ + 1,
                                           ![a].bare = @ \/ ~exec[r].recorded] ELSE sends
            /\ IF raised
               THEN /\ history' = IF exec[r].recorded
                                  THEN [history EXCEPT ![a] = AfterFailedClick]
                                  ELSE history
                    /\ Ends(r, "failed")
               ELSE /\ Become(r, [exec[r] EXCEPT !.pc = "confirm"])
                    /\ UNCHANGED history
       /\ UNCHANGED <<rules, ledger>>

\* Proof of the submission is observed, or none is (or none was configured).
Confirm(r) ==
    /\ At(r, "confirm")
    /\ \E state \in {"submitted", "submission_unknown"} :
         Become(r, [exec[r] EXCEPT !.pc = "load", !.write = state])
    /\ UNCHANGED <<rules, ledger, history, sends>>
Mark(r) ==
    /\ At(r, "mark")
    /\ history' = IF ~exec[r].recorded THEN history
                  ELSE [history EXCEPT ![Targets[r]] =
                          IF exec[r].write = "submitted" THEN "submitted" ELSE "unknown"]
    /\ Ends(r, exec[r].write)
    /\ UNCHANGED <<rules, ledger, sends>>

\* The process dies.
Dies(r) ==
    /\ exec[r].pc \notin {"idle", "done"}
    /\ Ends(r, "dead")
    /\ UNCHANGED <<rules, ledger, history, sends>>

Init == /\ rules = [l \in {} |-> <<>>]
        /\ ledger = [a \in Apps |-> "none"] /\ history = [a \in Apps |-> "none"]
        /\ exec = [r \in Runs |-> Idle]
        /\ sends = [a \in Apps |-> [times |-> 0, bare |-> FALSE, ungated |-> FALSE]]
Next == \E r \in Runs :
          \/ Capture(r) \/ Start(r) \/ Replay(r) \/ Validate(r) \/ Submit(r)
          \/ LoadLedger(r) \/ SaveLedger(r) \/ Click(r) \/ Confirm(r) \/ Mark(r) \/ Dies(r)
Spec == Init /\ [][Next]_execVars

-----------------------------------------------------------------------------
TypeOK ==
    /\ DOMAIN rules \subseteq {Safe(l) : l \in Layouts}
    /\ \A a \in Apps :
         /\ ledger[a] \in {"none", "submitting", "submitted", "submission_unknown"}
         /\ history[a] \in {"none", "attempting", "unknown", "submitted"}
    /\ \A r \in Runs : exec[r].pc \in {"idle", "planned", "step", "load", "save",
                                       "click", "confirm", "mark", "done"}

\* "Execute an accepted plan while preserving the final human approval gate":
\* whatever dies, fails or is tried again, and although the ledger may lose what
\* another execution wrote, executions that keep a history send an application
\* once; none is sent without a reservation, and what is recorded as submitted
\* was sent.
SentOnce ==
    \A a \in Apps :
      /\ sends[a].times > 1 => sends[a].bare
      /\ sends[a].times > 0 /\ ~sends[a].bare => history[a] # "none"
      /\ history[a] = "submitted" \/ ledger[a] = "submitted" => sends[a].times > 0
=============================================================================
