---------------------------- MODULE QuestionBank ----------------------------
(***************************************************************************)
(* The reusable answers to employers' questions: what a worker plans for a *)
(* page (smart_apply_questions.py, deterministic_questions.py) from what   *)
(* earlier pages stored (questionnaire_store.py), and who else stores:     *)
(* the owner, and the development bridge.  An answer is told by where it   *)
(* came from first.  A worker may ask a language model between its read of *)
(* the bank and its write, and the worker, the server and the bridge are   *)
(* processes of their own.                                                 *)
(***************************************************************************)
EXTENDS Naturals, Sequences, FiniteSets

CONSTANTS
    Workers,
    Questions,  \* id to [label, kind, private, required]; kind: human, fact, open
    Pages,      \* sequence of pages: the ids of their questions
    Preferable, \* questions an explicit preference may speak to
    Artifact    \* approved artifact: page to answered labels

VARIABLES
    bank,       \* documents [fp, items], in the order of their last update
    prefs,      \* ids an explicit application preference speaks to
    work,       \* work[w]: the page a worker plans and what it read
    requests    \* sets of questions the development bridge is asked

bankVars == <<bank, prefs, work, requests>>

\* What a question may get, and whether its answer may be kept, goes by its label.
BankAssumption ==
    /\ \A q \in DOMAIN Questions : Questions[q].kind \in {"human", "fact", "open"}
    /\ \A p, q \in DOMAIN Questions : Questions[p].label = Questions[q].label =>
         Questions[p].kind = Questions[q].kind /\ Questions[p].private = Questions[q].private
    /\ Pages \in Seq(SUBSET DOMAIN Questions)

Free == [pc |-> "free", page |-> 0, plan |-> {},
         saved |-> [q \in {} |-> "none"]]
Human(q) == Questions[q].kind = "human"
Private(q) == Questions[q].private
Sources == {"human", "preference", "fact", "ai", "bridge", "artifact"}

\* question_set_fingerprint: what the page asks; the ids are not part of it.
Fingerprint(ids) ==
    [l \in {Questions[q].label : q \in ids} |->
       Cardinality({q \in ids : Questions[q].label = l})]

\* Mutant: the document is inserted, not replaced.
StoredAgain(ids, items) ==
    Append(bank, [fp |-> Fingerprint(ids), items |-> items])

\* save_observed_page: one document for each fingerprint, replaced as a whole.
Stored(ids, items) ==
    LET fp == Fingerprint(ids)
        old == {i \in DOMAIN bank : bank[i].fp = fp}
        at == CHOOSE i \in old : TRUE
    IN Append(IF old = {} THEN bank
              ELSE [i \in 1..Len(bank) - 1 |-> bank[IF i < at THEN i ELSE i + 1]],
              [fp |-> fp, items |-> items])

\* reusable_answers: the last document that speaks to the question wins, by its
\* id, or by its label if that is on the page once and the id is not on it.
SpeaksTo(item, q, ids) ==
    \/ item.id = q
    \/ /\ item.id \notin ids
       /\ Questions[item.id].label = Questions[q].label
       /\ \A p \in ids \ {q} : Questions[p].label # Questions[q].label
Spoken(q, ids) == {i \in DOMAIN bank : \E item \in bank[i].items : SpeaksTo(item, q, ids)}
Latest(q, ids) == CHOOSE i \in Spoken(q, ids) : \A j \in Spoken(q, ids) : j <= i
Reusable(ids) ==
    [q \in {p \in ids : Spoken(p, ids) # {}} |->
       (CHOOSE item \in bank[Latest(q, ids)].items : SpeaksTo(item, q, ids)).by]

-----------------------------------------------------------------------------
\* The bank and the preferences are read; an approved artifact of exactly this
\* page adds what the bank does not answer (the bank is looked up by id first).
ReadBank(w) ==
    /\ work[w].pc = "free"
    /\ \E p \in DOMAIN Pages :
         LET reusable == Reusable(Pages[p])
             approved == {q \in Pages[p] \ DOMAIN reusable :
                            Questions[q].label \in Artifact[p]}
         IN work' = [work EXCEPT ![w] =
              [pc |-> "read", page |-> p, plan |-> {},
               saved |-> [q \in DOMAIN reusable \cup approved |->
                            IF q \in approved THEN "artifact" ELSE reusable[q]]]]
    /\ UNCHANGED <<bank, prefs, requests>>

\* What a question without a usable saved answer may get.  A preference that
\* speaks to it, by its key or cited by the model; then a fact of the resume;
\* only an open question may be answered from career evidence.
Resolved(q) ==
    IF q \in prefs THEN {"preference"}
    ELSE CASE Questions[q].kind = "human" -> {"none"}
           [] Questions[q].kind = "fact"  -> {"fact", "none"}
           [] Questions[q].kind = "open"  -> {"ai", "none"}

\* build_adaptive_indeed_question_plan: saved answers first, unless an option
\* the page shows excludes them.
Plans(w) ==
    LET saved == work[w].saved
        Values(q) == Resolved(q) \cup IF q \in DOMAIN saved THEN {saved[q]} ELSE {}
        ids == Pages[work[w].page]
    IN {plan \in [ids -> UNION {Values(q) : q \in ids}] :
          \A q \in DOMAIN plan : plan[q] \in Values(q)}
Items(plan, ids) == {[id |-> q, label |-> Questions[q].label, by |-> plan[q]] :
                       q \in {p \in ids : plan[p] # "none"}}

\* Mutant: whatever was planned may be reused.
EverythingPlanned(ids) == ids

\* is_reusable_question_label
ReusableOf(ids) == {q \in ids : ~Private(q)}

\* The plan is stored, and the bridge is asked what is left open.
SavePlan(w) ==
    LET ids == Pages[work[w].page]
    IN /\ work[w].pc = "read"
       /\ \E plan \in Plans(w) :
            LET left == {q \in ids : Questions[q].required /\ plan[q] = "none"}
            IN /\ bank' = Stored(ids, Items(plan, ReusableOf(ids)))
               /\ requests' = IF left = {} THEN requests ELSE requests \cup {left}
               /\ work' = [work EXCEPT ![w].pc = "saved",
                                           ![w].plan = Items(plan, ids)]
       /\ UNCHANGED prefs
Done(w) == /\ work[w].pc # "free"
           /\ work' = [work EXCEPT ![w] = Free]
           /\ UNCHANGED <<bank, prefs, requests>>

\* approve_question_answers: every required question of the live page has an
\* answer; those that may be reused are stored.
ApproveAnswers ==
    /\ \E p \in DOMAIN Pages : \E answered \in SUBSET Pages[p] :
         /\ \A q \in Pages[p] : Questions[q].required => q \in answered
         /\ bank' = Stored(Pages[p],
                      Items([q \in answered |-> "human"], ReusableOf(answered)))
    /\ UNCHANGED <<prefs, work, requests>>

\* accept: each question asked is answered from its evidence, and all is stored
\* under the fingerprint of the questions that were asked.
AcceptResponse ==
    /\ \E asked \in requests :
         bank' = Stored(asked, Items([q \in asked |-> "bridge"], asked))
    /\ UNCHANGED <<prefs, work, requests>>

\* set_profile_value
SetPreference ==
    /\ \E q \in Preferable \ prefs : prefs' = prefs \cup {q}
    /\ UNCHANGED <<bank, work, requests>>

Init == /\ bank = <<>> /\ prefs = {} /\ requests = {}
        /\ work = [w \in Workers |-> Free]
Next == \/ ApproveAnswers \/ AcceptResponse \/ SetPreference
        \/ \E w \in Workers : ReadBank(w) \/ SavePlan(w) \/ Done(w)

-----------------------------------------------------------------------------
TypeOK ==
    /\ \A i \in DOMAIN bank : \A item \in bank[i].items :
         item.id \in DOMAIN Questions /\ item.by \in Sources
    /\ \A i, j \in DOMAIN bank : bank[i].fp = bank[j].fp => i = j
    /\ prefs \subseteq Preferable
    /\ \A w \in Workers : work[w].page \in 0..Len(Pages)

\* "Session-only ... values are never added to the reusable bank" and "missing
\* private facts, salary, ... stop for human input": what is stored of a private
\* question was put there by the bridge; a question of judgement is answered, in
\* the bank and on a page, by what a human stated, however often an answer was
\* copied from page to page by label or id.
AnswersStayInBounds ==
    /\ \A i \in DOMAIN bank : \A item \in bank[i].items :
         Private(item.id) => item.by = "bridge"
    /\ \A item \in (UNION {bank[i].items : i \in DOMAIN bank})
                   \cup (UNION {work[w].plan : w \in Workers}) :
         Human(item.id) => item.by \notin {"ai", "fact"}
=============================================================================
