----------------------------- MODULE MarketFit -----------------------------
(***************************************************************************)
(* The market-fit workspace of one opportunity (market_fit/store.py and    *)
(* web/market_fit_control.py): the demands drafted from its description    *)
(* and verified by a human, the fit assessed and the interview prepared    *)
(* from them.  What is derived is deleted whenever something it was        *)
(* derived from is written.  The web server handles requests in threads:   *)
(* each read and each write is a transaction of its own, and a language    *)
(* model may answer between them.                                          *)
(***************************************************************************)
EXTENDS Naturals

CONSTANTS
    Handlers,               \* requests handled at the same time
    Texts, Resumes, Tracks, \* values of the opportunity's fields; each has "none"
    Campaigns,              \* settings a campaign may be saved with
    Contents                \* demands a language model or a human may state

VARIABLES
    opp,        \* the opportunity: description, resume_file, track
    campaign,   \* the campaign, or "none" before it is first asked for
    demand, fit, prep,      \* what is derived, and from what; late in a row is
                            \* history: its source had changed when it was saved
    call        \* call[h]: the request and what it has read so far

MarketFitAssumption == "none" \in Texts \cap Resumes \cap Tracks

vars == <<opp, campaign, demand, fit, prep, call>>
derived == <<demand, fit, prep>>

None == [on |-> FALSE]
Quiet == [op |-> "none", opp |-> None, demand |-> None, campaign |-> "none",
          prep |-> None]

\* What each was, or would now be, derived from.
FitSources(o, d, c) == [resume |-> o.resume, track |-> o.track,
                        demand |-> d.content, campaign |-> c]
PrepSources(o, d) == [resume |-> o.resume, demand |-> d.content]

Becomes(h, op) == call' = [call EXCEPT ![h].op = op]
Finished(h) == call' = [call EXCEPT ![h] = Quiet]

-----------------------------------------------------------------------------
\* Every request but a saved campaign begins with a read of the opportunity.
Begin(h) ==
    /\ call[h].op = "none"
    /\ \E op \in {"describe", "choose", "classify", "draft", "approve", "assess",
                  "prepare"} :
         call' = [call EXCEPT ![h] = [Quiet EXCEPT !.op = op, !.opp = opp]]
    /\ UNCHANGED <<opp, campaign, derived>>

\* Mutant: a new track leaves the assessment.
DependsOnText == {"describe", "choose"}

\* update_opportunity: only what differs from what was read is written; then
\* what depends on it is deleted.
Dependents == {"describe", "choose", "classify"}
Changed(o, op) ==
    {[o EXCEPT !.text = x] : x \in IF op = "describe" THEN Texts ELSE {}}
    \cup {[o EXCEPT !.resume = x] : x \in IF op = "choose" THEN Resumes ELSE {}}
    \cup {[o EXCEPT !.track = x] : x \in IF op = "classify" THEN Tracks ELSE {}}
Update(h) ==
    LET op == call[h].op
    IN /\ op \in {"describe", "choose", "classify"}
       /\ \E o \in Changed(opp, op) :
            /\ \/ op = "describe" /\ o.text # call[h].opp.text
               \/ op = "choose" /\ o.resume # call[h].opp.resume
               \/ op = "classify" /\ o.track # call[h].opp.track
            /\ opp' = o
       /\ demand' = IF op = "describe" THEN None ELSE demand
       /\ fit' = IF op \in Dependents THEN None ELSE fit
       /\ prep' = IF op \in Dependents THEN None ELSE prep
       /\ Finished(h)
       /\ UNCHANGED campaign

\* save_campaign deletes every assessment.
SaveCampaign ==
    /\ \E c \in Campaigns : campaign' = c
    /\ fit' = None
    /\ UNCHANGED <<opp, demand, prep, call>>

\* _save_demand
SaveDemand(text, content, verified) ==
    /\ demand' = [on |-> TRUE, content |-> content, verified |-> verified,
                  text |-> text, late |-> text # opp.text]
    /\ fit' = None /\ prep' = None
\* The model has drafted demands from the description it was given ...
Draft(h) ==
    /\ call[h].op = "draft" /\ call[h].opp.text # "none"
    /\ \E x \in Contents : SaveDemand(call[h].opp.text, x, FALSE)
    /\ Finished(h)
    /\ UNCHANGED <<opp, campaign>>
\* ... and a human states the ones that hold.
ApproveDemands(h) ==
    /\ call[h].op = "approve"
    /\ \E x \in Contents : SaveDemand(opp.text, x, TRUE)
    /\ Finished(h)
    /\ UNCHANGED <<opp, campaign>>

\* assess_opportunity and prepare_interview read the demands next, and a resume
\* must be chosen.  Only a preparation asks here whether they are verified.
ReadDemand(h) ==
    /\ call[h].op \in {"assess", "prepare"}
    /\ demand.on /\ call[h].opp.resume # "none"
    /\ call[h].op = "prepare" => demand.verified
    /\ call' = [call EXCEPT ![h].demand = demand,
                  ![h].op = IF @ = "assess" THEN "campaign" ELSE "generate"]
    /\ UNCHANGED <<opp, campaign, derived>>
\* A campaign that is read for the first time is saved with its defaults, which
\* deletes every assessment; that the demands are verified is asked after.
ReadCampaign(h) ==
    /\ call[h].op = "campaign"
    /\ \E c \in Campaigns :
         /\ campaign # "none" => c = campaign
         /\ campaign' = c
         /\ fit' = IF campaign = "none" THEN None ELSE fit
         /\ call' = [call EXCEPT ![h].op = "save", ![h].campaign = c]
    /\ UNCHANGED <<opp, demand, prep>>
SaveAssessment(h) ==
    LET c == call[h]
        of == FitSources(c.opp, c.demand, c.campaign)
    IN /\ c.op = "save" /\ c.demand.verified
       /\ fit' = [on |-> TRUE, of |-> of,
                  late |-> ~demand.on \/ c.demand # demand
                             \/ of # FitSources(opp, c.demand, campaign)]
       /\ Finished(h)
       /\ UNCHANGED <<opp, campaign, demand, prep>>
SavePrep(h) ==
    LET of == PrepSources(call[h].opp, call[h].demand)
    IN /\ call[h].op = "generate"
       /\ prep' = [on |-> TRUE, of |-> of, approved |-> FALSE,
                   late |-> ~demand.on \/ call[h].demand # demand
                              \/ of # PrepSources(opp, call[h].demand)]
       /\ Finished(h)
       /\ UNCHANGED <<opp, campaign, demand, fit>>

\* approve_prep reads the plan and writes it back.
ReadPrep(h) ==
    /\ call[h].op = "none" /\ prep.on
    /\ call' = [call EXCEPT ![h] = [Quiet EXCEPT !.op = "approve_prep", !.prep = prep]]
    /\ UNCHANGED <<opp, campaign, derived>>
ApprovePrep(h) ==
    /\ call[h].op = "approve_prep"
    /\ prep' = [call[h].prep EXCEPT !.approved = TRUE,
                                    !.late = @ \/ prep # call[h].prep]
    /\ Finished(h)
    /\ UNCHANGED <<opp, campaign, demand, fit>>

\* No change, no demands, no resume, or the model does not answer.
Refused(h) ==
    /\ call[h].op \notin {"none", "approve_prep", "approve"}
    /\ call[h].op = "save" => ~call[h].demand.verified
    /\ Finished(h)
    /\ UNCHANGED <<opp, campaign, derived>>

Step(h) == \/ Begin(h) \/ Update(h) \/ Draft(h) \/ ApproveDemands(h)
           \/ ReadDemand(h) \/ ReadCampaign(h) \/ SaveAssessment(h) \/ SavePrep(h)
           \/ ReadPrep(h) \/ ApprovePrep(h) \/ Refused(h)
Init == /\ opp = [on |-> TRUE, text |-> "none", resume |-> "none", track |-> "none"]
        /\ campaign = "none"
        /\ demand = None /\ fit = None /\ prep = None
        /\ call = [h \in Handlers |-> Quiet]
Next == SaveCampaign \/ \E h \in Handlers : Step(h)
Spec == Init /\ [][Next]_vars

-----------------------------------------------------------------------------
TypeOK ==
    /\ opp.text \in Texts /\ opp.resume \in Resumes /\ opp.track \in Tracks
    /\ campaign \in Campaigns \cup {"none"}
    /\ demand.on => demand.content \in Contents /\ demand.verified \in BOOLEAN
    /\ prep.on => prep.approved \in BOOLEAN

\* "Approve the demand profile before fit is assessed" and the deletions of
\* update_opportunity, _save_demand and save_campaign: unless a source changed
\* while the request was under way, what is on record was derived from what is
\* on record now, and from demands a human has verified.
JudgementsAreFresh ==
    /\ demand.on /\ ~demand.late => demand.text = opp.text
    /\ fit.on /\ ~fit.late => /\ demand.on /\ demand.verified
                              /\ fit.of = FitSources(opp, demand, campaign)
    /\ prep.on /\ ~prep.late => /\ demand.on /\ demand.verified
                                /\ prep.of = PrepSources(opp, demand)
=============================================================================
