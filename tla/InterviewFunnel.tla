--------------------------- MODULE InterviewFunnel ---------------------------
(***************************************************************************)
(* What became of each application (market_fit/store.py): opportunities    *)
(* imported from the submission history or recorded by hand, the events of *)
(* their funnel, and the rule that calls silence ghosting.  Imports and    *)
(* refreshes are requests of a threaded server, one transaction at a time. *)
(***************************************************************************)
EXTENDS Naturals, Sequences, FiniteSets

CONSTANTS
    Refreshers,     \* refreshes under way at the same time
    Applications,   \* confirmed rows of the submission history
    Stages,         \* stages a human may record
    GhostAfter,     \* ghost_after_days
    MaxDay, MaxEvents, MaxOpps

VARIABLES
    day,        \* the date
    opps,       \* sequence of opportunities, in the order they were created
    events,     \* sequence of [opp, stage, at, rule, late], by id; late is history
    refresh     \* refresh[r]: what a refresh has read so far

funnelVars == <<day, opps, events, refresh>>

FunnelAssumption ==
    /\ GhostAfter \in Nat /\ MaxDay \in Nat /\ MaxEvents \in Nat /\ MaxOpps \in Nat
    /\ "none" \notin Applications

Rest == [pc |-> "idle", today |-> 0, todo |-> 0, seen |-> 0]
Answers == {"recruiter_response", "hr_interview", "offer"}
Ended == {"rejected", "withdrawn"}

Of(o, upTo) == {i \in DOMAIN events : i <= upTo /\ events[i].opp = o}
StagesOf(o, upTo) == {events[i].stage : i \in Of(o, upTo)}
Recorded(o) == StagesOf(o, Len(events))
Event(o, stage, at, rule, late) ==
    Append(events, [opp |-> o, stage |-> stage, at |-> at, rule |-> rule,
                    late |-> late])

-----------------------------------------------------------------------------
\* create_opportunity: a row of the history has one opportunity at most; an
\* application that was sent starts the funnel.
Create(source, sent) ==
    /\ Len(opps) < MaxOpps
    /\ source = "none" \/ \A i \in DOMAIN opps : opps[i].source # source
    /\ opps' = Append(opps, [source |-> source])
    /\ events' = IF sent THEN Event(Len(opps) + 1, "applied", day, FALSE, FALSE)
                 ELSE events
    /\ UNCHANGED <<day, refresh>>
SyncConfirmed == \E a \in Applications : Create(a, TRUE)
RecordOpportunity == \E sent \in BOOLEAN : Create("none", sent)

\* A human records what happened, today or looking back.
AddEvent ==
    /\ Len(events) < MaxEvents
    /\ \E o \in DOMAIN opps, stage \in Stages, at \in {0, day} :
         events' = Event(o, stage, at, FALSE, FALSE)
    /\ UNCHANGED <<day, opps, refresh>>

\* apply_ghosting: the date and the list of opportunities are read first,
StartRefresh(r) ==
    /\ refresh[r].pc = "idle" /\ opps # <<>>
    /\ refresh' = [refresh EXCEPT ![r] =
         [pc |-> "read", todo |-> Len(opps), seen |-> 0, today |-> day]]
    /\ UNCHANGED <<day, opps, events>>
\* then, for one opportunity after the other, its events ...
ReadEvents(r) ==
    /\ refresh[r].pc = "read"
    /\ refresh' = [refresh EXCEPT ![r].pc = "judge", ![r].seen = Len(events)]
    /\ UNCHANGED <<day, opps, events>>

\* Mutant: an application that was ghosted is ghosted again.
SilentAgain(stages) ==
    "applied" \in stages /\ stages \cap (Ended \cup {"recruiter_response"}) = {}

\* Only the recruiter's response counts as an answer here: an interview that was
\* recorded without one does not.
Silent(stages) ==
    "applied" \in stages
    /\ stages \cap (Ended \cup {"recruiter_response", "ghosted"}) = {}
Overdue(o, upTo, today) ==
    \E i \in Of(o, upTo) : events[i].stage = "applied"
                            /\ events[i].at + GhostAfter <= today
\* ... which may have changed when the event is added.
Judge(r) ==
    LET o == refresh[r].todo
        was == StagesOf(o, refresh[r].seen)
        next == IF o = 1 THEN Rest
                ELSE [refresh[r] EXCEPT !.pc = "read", !.todo = @ - 1]
    IN /\ refresh[r].pc = "judge"
       /\ refresh' = [refresh EXCEPT ![r] = next]
       /\ events' = IF Silent(was) /\ Overdue(o, refresh[r].seen, refresh[r].today)
                    THEN Event(o, "ghosted", day, TRUE, was # Recorded(o))
                    ELSE events
       /\ UNCHANGED <<day, opps>>

DayPasses == day < MaxDay /\ day' = day + 1 /\ UNCHANGED <<opps, events, refresh>>

Init == day = 0 /\ opps = <<>> /\ events = <<>> /\ refresh = [r \in Refreshers |-> Rest]
Next == \/ SyncConfirmed \/ RecordOpportunity \/ AddEvent \/ DayPasses
        \/ \E r \in Refreshers : StartRefresh(r) \/ ReadEvents(r) \/ Judge(r)

-----------------------------------------------------------------------------
\* What is shown (_opportunity): the last event by date, unless the recruiter
\* answered; then how far it went, or the end that came after the answer.
Before(i, j) == events[i].at < events[j].at \/ (events[i].at = events[j].at /\ i <= j)
Last(S) == CHOOSE i \in S : \A j \in S : Before(j, i)
First(S) == CHOOSE i \in S : \A j \in S : Before(i, j)
CurrentStage(o) ==
    LET mine == Of(o, Len(events))
        answers == {i \in mine : events[i].stage = "recruiter_response"}
        ends == {i \in mine : events[i].stage \in Ended
                                /\ events[i].at >= events[First(answers)].at}
    IN IF mine = {} THEN "none"
       ELSE IF answers = {} THEN events[Last(mine)].stage
       ELSE IF ends # {} THEN events[Last(ends)].stage
       ELSE IF "offer" \in Recorded(o) THEN "offer"
       ELSE IF "hr_interview" \in Recorded(o) THEN "hr_interview"
       ELSE "recruiter_response"

\* _conversion_metrics of two stages: an end without the second is a failure,
\* anything else is pending.
Reached(o, stage) ==
    IF stage = "recruiter_response" THEN Recorded(o) \cap Answers # {}
    ELSE stage \in Recorded(o)
Conversion(from, to) ==
    LET source == {o \in DOMAIN opps : Reached(o, from)}
        successes == {o \in source : Reached(o, to)}
        failures == {o \in source \ successes :
                       Recorded(o) \cap (Ended \cup {"ghosted"}) # {}}
    IN [successes |-> Cardinality(successes),
        resolved |-> Cardinality(successes \cup failures),
        pending |-> Cardinality(source \ (successes \cup failures))]

TypeOK ==
    /\ day \in 0..MaxDay
    /\ \A i \in DOMAIN events : events[i].opp \in DOMAIN opps
    /\ \A r \in Refreshers : refresh[r].pc \in {"idle", "read", "judge"}
                             /\ refresh[r].todo <= Len(opps)

\* "No response becomes ghosted" and "a late response supersedes ghosting": one
\* opportunity for each row of the history, and only an application that was
\* silent too long is called ghosted, once, unless its events changed between
\* the refresh's read and its write; one that was answered is never shown or
\* counted as a failure to answer.
GhostedOnSilence ==
    /\ \A i, j \in DOMAIN opps :
         i # j /\ opps[i].source # "none" => opps[i].source # opps[j].source
    /\ \A i \in DOMAIN events : events[i].rule /\ ~events[i].late =>
         LET earlier == StagesOf(events[i].opp, i - 1)
         IN /\ earlier \cap (Ended \cup {"recruiter_response", "ghosted"}) = {}
            /\ \E j \in Of(events[i].opp, i - 1) :
                 events[j].stage = "applied" /\ events[j].at + GhostAfter <= events[i].at
    /\ \A o \in DOMAIN opps :
         "recruiter_response" \in Recorded(o) => CurrentStage(o) # "ghosted"
    /\ LET c == Conversion("applied", "recruiter_response")
       IN c.resolved - c.successes
            <= Cardinality({o \in DOMAIN opps : Recorded(o) \cap Answers = {}})
=============================================================================
