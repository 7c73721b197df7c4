----------------------------- MODULE PartsProofs -----------------------------
(***************************************************************************)
(* Proofs about the parts of Parts, for every value of their constants:    *)
(* each has an inductive invariant, and holds it when it is in focus.      *)
(***************************************************************************)
EXTENDS SetUpProofs, WellFoundedInduction

-----------------------------------------------------------------------------
\* Greatest and least numbers, without an induction of our own.
LEMMA LeastOfNat ==
    ASSUME NEW S, S \subseteq Nat, S # {}
    PROVE \E m \in S : \A n \in S : m <= n
<1> DEFINE R == {pair \in Nat \X Nat : pair[1] < pair[2]}
<1>1. IsWellFoundedOn(R, Nat)
  BY NatLessThanWellFounded DEF OpToRel
<1>2. PICK m \in S : \A n \in S : ~(<<n, m>> \in R)
  <2> HIDE DEF R
  <2> QED  BY <1>1, WFMin
<1>3. \A n \in S : ~(n < m)
  BY <1>2
<1> QED  BY <1>3

LEMMA GreatestOne ==
    ASSUME NEW k \in Nat, NEW S, S \subseteq 0..k, S # {}
    PROVE \E m \in S : \A n \in S : n <= m
<1>1. \A n \in S : n \in Int /\ n <= k /\ k - n \in Nat
  OBVIOUS
<1>2. PICK T : T = {k - n : n \in S}
  OBVIOUS
<1>3. T \subseteq Nat /\ T # {}
  BY <1>1, <1>2
<1>4. PICK t \in T : \A u \in T : t <= u
  BY <1>3, LeastOfNat
<1>5. PICK m \in S : t = k - m
  BY <1>2, <1>4
<1>6. ASSUME NEW n \in S PROVE n <= m
  <2>1. k - n \in T
    BY <1>2
  <2>2. k - m <= k - n
    BY <1>4, <1>5, <2>1
  <2> QED  BY <1>1, <2>2
<1> QED  BY <1>6

-----------------------------------------------------------------------------
\* Questions and their answers.  What a human must answer has no other answer in the
\* bank, in what a worker has read of it, or on a page.

BankItem == {[id |-> q, label |-> Questions[q].label, by |-> source] :
               q \in DOMAIN Questions, source \in Bank!Sources}
BankDoc == [fp : {Bank!Fingerprint(ids) : ids \in SUBSET DOMAIN Questions},
            items : SUBSET BankItem]
WorkRow == [pc : {"free", "read", "saved"}, page : 0..Len(Pages), plan : SUBSET BankItem,
            saved : UNION {[ids -> Bank!Sources] : ids \in SUBSET DOMAIN Questions}]

Stated(q, source) == Bank!Human(q) => source \notin {"ai", "fact"}
MayKeep(item) == Stated(item.id, item.by) /\ (Bank!Private(item.id) => item.by = "bridge")
BankKept ==
    /\ bank \in Seq(BankDoc)
    /\ \A i \in DOMAIN bank : \A item \in bank[i].items : MayKeep(item)
    /\ \A i, j \in DOMAIN bank : bank[i].fp = bank[j].fp => i = j
Worked(row) ==
    /\ row.pc = "read" => row.page \in DOMAIN Pages
    /\ \A item \in row.plan : Stated(item.id, item.by)
    /\ \A q \in DOMAIN row.saved : Stated(q, row.saved[q])
WorkKept == work \in [Workers -> WorkRow] /\ \A w \in Workers : Worked(work[w])
BankInv == /\ BankKept /\ WorkKept
           /\ prefs \subseteq Preferable /\ requests \subseteq SUBSET DOMAIN Questions

LEMMA WithoutOne ==
    ASSUME NEW S, NEW s \in Seq(S), NEW k \in DOMAIN s
    PROVE LET t == [i \in 1..Len(s) - 1 |-> s[IF i < k THEN i ELSE i + 1]]
          IN t \in Seq(S) /\ Len(t) = Len(s) - 1
<1>1. k \in 1..Len(s) /\ Len(s) \in Nat /\ Len(s) - 1 \in Nat /\ \A i \in 1..Len(s) : s[i] \in S
  OBVIOUS
<1>2. \A i \in 1..Len(s) - 1 : (IF i < k THEN i ELSE i + 1) \in 1..Len(s)
  BY <1>1
<1> QED  BY <1>1, <1>2

LEMMA FreeTyped == Bank!Free \in WorkRow /\ Worked(Bank!Free)
<1>1. Bank!Free.saved \in [{} -> Bank!Sources] /\ DOMAIN Bank!Free.saved = {}
  BY DEF Bank!Free
<1>2. Len(Pages) \in Nat => Bank!Free.page \in 0..Len(Pages)
  BY DEF Bank!Free
<1> QED  BY <1>1, <1>2, BankConstants DEF Bank!Free, WorkRow, Worked, Bank!BankAssumption

LEMMA BankInit == ASSUME Bank!BankAssumption, Bank!Init PROVE BankInv
  BY FreeTyped DEF Bank!Init, BankInv, BankKept, WorkKept

\* A document of a page, or of some of its questions, replaces the one before it.
LEMMA StoreKeeps ==
    ASSUME BankKept, NEW ids \in SUBSET DOMAIN Questions, NEW items \in SUBSET BankItem,
           \A item \in items : MayKeep(item), bank' = Bank!Stored(ids, items)
    PROVE BankKept'
<1> DEFINE fp == Bank!Fingerprint(ids)
           old == {i \in DOMAIN bank : bank[i].fp = fp}
           at == CHOOSE i \in old : TRUE
           rest == IF old = {} THEN bank ELSE [i \in 1..Len(bank) - 1 |-> bank[IF i < at THEN i ELSE i + 1]]
<1>0. [fp |-> fp, items |-> items] \in BankDoc
  BY DEF BankDoc
<1>1. PICK doc \in BankDoc : doc = [fp |-> fp, items |-> items] /\ doc.fp = fp /\ doc.items = items
  BY <1>0
<1>2. bank' = Append(rest, doc)
  BY <1>1 DEF Bank!Stored
<1>3. /\ rest \in Seq(BankDoc)
      /\ \A i \in DOMAIN rest : \E k \in DOMAIN bank : rest[i] = bank[k] /\ bank[k].fp # fp
      /\ \A i, j \in DOMAIN rest : rest[i].fp = rest[j].fp => i = j
  <2>1. bank \in Seq(BankDoc) /\ \A i, j \in DOMAIN bank : bank[i].fp = bank[j].fp => i = j
    BY DEF BankKept
  <2>2. CASE old = {}
    <3>1. \A i \in DOMAIN bank : bank[i].fp # fp
      BY <2>2
    <3>2. rest = bank
      BY <2>2
    <3> QED  BY <2>1, <3>1, <3>2
  <2>3. CASE old # {}
    <3>1. at \in DOMAIN bank /\ bank[at].fp = fp
      BY <2>3
    <3>2. rest = [i \in 1..Len(bank) - 1 |-> bank[IF i < at THEN i ELSE i + 1]]
      BY <2>3
    <3> HIDE DEF at, rest, fp
    <3>3. /\ rest \in Seq(BankDoc) /\ Len(rest) = Len(bank) - 1
          /\ \A i \in DOMAIN rest : rest[i] = bank[IF i < at THEN i ELSE i + 1]
      BY <2>1, <3>1, <3>2, WithoutOne, Zenon
    <3>4. /\ DOMAIN rest = 1..Len(bank) - 1 /\ DOMAIN bank = 1..Len(bank) /\ Len(bank) \in Nat
          /\ at \in Int
      BY <2>1, <3>1, <3>3
    <3>5. \A i \in DOMAIN rest : /\ (IF i < at THEN i ELSE i + 1) \in DOMAIN bank
                                 /\ (IF i < at THEN i ELSE i + 1) # at
      BY <3>4
    <3>6. ASSUME NEW i \in DOMAIN rest, NEW j \in DOMAIN rest, rest[i].fp = rest[j].fp PROVE i = j
      <4>1. (IF i < at THEN i ELSE i + 1) = (IF j < at THEN j ELSE j + 1)
        BY <2>1, <3>3, <3>5, <3>6
      <4> QED  BY <3>4, <4>1
    <3>7. \A i \in DOMAIN rest : \E k \in DOMAIN bank : rest[i] = bank[k] /\ bank[k].fp # fp
      BY <2>1, <3>1, <3>3, <3>5
    <3> QED  BY <3>3, <3>6, <3>7
  <2> QED  BY <2>2, <2>3
<1> HIDE DEF rest, fp, old, at
<1>4. /\ bank' \in Seq(BankDoc) /\ DOMAIN bank' = 1..Len(rest) + 1 /\ bank'[Len(rest) + 1] = doc
      /\ DOMAIN rest = 1..Len(rest) /\ Len(rest) \in Nat /\ \A i \in DOMAIN rest : bank'[i] = rest[i]
  BY <1>1, <1>2, <1>3
<1>5. \A i \in DOMAIN bank' : i = Len(rest) + 1 \/ i \in DOMAIN rest
  BY <1>4
<1>6. \A i \in DOMAIN rest : bank'[i].fp # fp
  BY <1>3, <1>4
<1>7. \A i, j \in DOMAIN bank' : bank'[i].fp = bank'[j].fp => i = j
  BY <1>1, <1>3, <1>4, <1>5, <1>6
<1>8. \A i \in DOMAIN bank' : \A item \in bank'[i].items : MayKeep(item)
  BY <1>1, <1>3, <1>4, <1>5 DEF BankKept
<1> QED  BY <1>4, <1>7, <1>8 DEF BankKept, MayKeep, Stated

LEMMA DocTyped ==
    ASSUME BankKept
    PROVE /\ Len(bank) \in Nat /\ DOMAIN bank = 1..Len(bank)
          /\ \A i \in DOMAIN bank : bank[i].items \subseteq BankItem
<1>1. bank \in Seq(BankDoc) /\ \A i \in DOMAIN bank : bank[i] \in BankDoc
  BY DEF BankKept
<1>2. \A doc \in BankDoc : doc.items \subseteq BankItem
  BY DEF BankDoc
<1> QED  BY <1>1, <1>2

LEMMA ItemsTyped ==
    ASSUME NEW ids \in SUBSET DOMAIN Questions, NEW asked,
           NEW plan \in [asked -> Bank!Sources \cup {"none"}], ids \subseteq asked
    PROVE /\ Bank!Items(plan, ids) \in SUBSET BankItem
          /\ \A item \in Bank!Items(plan, ids) :
               item.id \in ids /\ item.by = plan[item.id] /\ item.by \in Bank!Sources
  BY DEF Bank!Items, BankItem

\* What the last document that speaks to a question says of it.
LEMMA ReusableStated ==
    ASSUME Bank!BankAssumption, BankKept, NEW ids \in SUBSET DOMAIN Questions
    PROVE /\ DOMAIN Bank!Reusable(ids) \subseteq ids
          /\ \A q \in DOMAIN Bank!Reusable(ids) :
               Bank!Reusable(ids)[q] \in Bank!Sources /\ Stated(q, Bank!Reusable(ids)[q])
<1>1. DOMAIN Bank!Reusable(ids) = {p \in ids : Bank!Spoken(p, ids) # {}}
  BY DEF Bank!Reusable
<1>2. ASSUME NEW q \in ids, Bank!Spoken(q, ids) # {}
      PROVE Bank!Reusable(ids)[q] \in Bank!Sources /\ Stated(q, Bank!Reusable(ids)[q])
  <2> DEFINE spoken == Bank!Spoken(q, ids)
  <2>1. /\ Len(bank) \in Nat /\ DOMAIN bank = 1..Len(bank)
        /\ \A i \in DOMAIN bank : bank[i].items \subseteq BankItem
    BY DocTyped
  <2>2. spoken \subseteq 0..Len(bank) /\ spoken # {}
    BY <1>2, <2>1 DEF Bank!Spoken
  <2>3. \E m \in spoken : \A n \in spoken : n <= m
    BY <2>1, <2>2, GreatestOne
  <2>4. PICK last \in spoken : last = Bank!Latest(q, ids)
    BY <2>3 DEF Bank!Latest
  <2>5. last \in DOMAIN bank /\ \E item \in bank[last].items : Bank!SpeaksTo(item, q, ids)
    BY <2>4 DEF Bank!Spoken
  <2>6. PICK item \in bank[last].items :
           /\ Bank!SpeaksTo(item, q, ids)
           /\ item = CHOOSE it \in bank[last].items : Bank!SpeaksTo(it, q, ids)
    BY <2>5
  <2>7. Bank!Reusable(ids)[q] = item.by
    BY <1>2, <2>4, <2>6 DEF Bank!Reusable
  <2>8. item \in BankItem /\ item.id \in DOMAIN Questions /\ item.by \in Bank!Sources
    BY <2>1, <2>5, <2>6 DEF BankItem
  <2>9. Bank!Human(q) => Bank!Human(item.id)
    BY <2>6, <2>8 DEF Bank!SpeaksTo, Bank!Human, Bank!BankAssumption
  <2>10. Stated(item.id, item.by)
    BY <2>5, <2>6 DEF BankKept, MayKeep
  <2> QED  BY <2>7, <2>8, <2>9, <2>10 DEF Stated
<1> QED  BY <1>1, <1>2

LEMMA WorkMoves ==
    ASSUME WorkKept, NEW w \in Workers, NEW row \in WorkRow, Worked(row),
           work' = [work EXCEPT ![w] = row]
    PROVE WorkKept'
  BY DEF WorkKept, Worked, Stated

LEMMA ReadStep ==
    ASSUME Bank!BankAssumption, BankInv, NEW w \in Workers, Bank!ReadBank(w)
    PROVE BankInv'
<1>1. PICK p \in DOMAIN Pages :
         LET reusable == Bank!Reusable(Pages[p])
             approved == {q \in Pages[p] \ DOMAIN reusable : Questions[q].label \in Artifact[p]}
         IN work' = [work EXCEPT ![w] =
              [pc |-> "read", page |-> p, plan |-> {},
               saved |-> [q \in DOMAIN reusable \cup approved |->
                            IF q \in approved THEN "artifact" ELSE reusable[q]]]]
  BY DEF Bank!ReadBank
<1> DEFINE reusable == Bank!Reusable(Pages[p])
           approved == {q \in Pages[p] \ DOMAIN reusable : Questions[q].label \in Artifact[p]}
           kept == [q \in DOMAIN reusable \cup approved |->
                      IF q \in approved THEN "artifact" ELSE reusable[q]]
           row == [pc |-> "read", page |-> p, plan |-> {}, saved |-> kept]
<1>2. Pages[p] \in SUBSET DOMAIN Questions /\ p \in 0..Len(Pages)
  BY DEF Bank!BankAssumption
<1>3. /\ DOMAIN reusable \subseteq Pages[p]
      /\ \A q \in DOMAIN reusable : reusable[q] \in Bank!Sources /\ Stated(q, reusable[q])
  BY <1>2, ReusableStated DEF BankInv
<1>4. work' = [work EXCEPT ![w] = row]
  BY <1>1
<1> HIDE DEF reusable
<1>5. /\ DOMAIN kept \in SUBSET DOMAIN Questions /\ kept \in [DOMAIN kept -> Bank!Sources]
      /\ \A q \in DOMAIN kept : Stated(q, kept[q])
  BY <1>2, <1>3 DEF Bank!Sources, Stated
<1> HIDE DEF kept
<1>6. row \in WorkRow /\ Worked(row)
  BY <1>2, <1>5 DEF WorkRow, Worked
<1>7. WorkKept'
  BY <1>4, <1>6, WorkMoves DEF BankInv
<1>8. UNCHANGED <<bank, prefs, requests>>
  BY DEF Bank!ReadBank
<1> QED  BY <1>7, <1>8 DEF BankInv, BankKept, MayKeep, Stated

LEMMA SaveStep ==
    ASSUME Bank!BankAssumption, BankInv, NEW w \in Workers, Bank!SavePlan(w)
    PROVE BankInv'
<1>0. PICK asked : asked = Pages[work[w].page]
  OBVIOUS
<1>1. PICK plan \in Bank!Plans(w) :
         LET left == {q \in asked : Questions[q].required /\ plan[q] = "none"}
         IN /\ bank' = Bank!Stored(asked, Bank!Items(plan, Bank!ReusableOf(asked)))
            /\ requests' = IF left = {} THEN requests ELSE requests \cup {left}
            /\ work' = [work EXCEPT ![w].pc = "saved", ![w].plan = Bank!Items(plan, asked)]
  BY <1>0 DEF Bank!SavePlan
<1>2. PICK row \in WorkRow : row = work[w] /\ Worked(row)
  BY DEF BankInv, WorkKept
<1>3. row.pc = "read" /\ asked \in SUBSET DOMAIN Questions
  <2>1. row.pc = "read"
    BY <1>2 DEF Bank!SavePlan
  <2> QED  BY <1>0, <1>2, <2>1 DEF Worked, Bank!BankAssumption
<1>4. /\ \A q \in DOMAIN row.saved : row.saved[q] \in Bank!Sources /\ Stated(q, row.saved[q])
  BY <1>2 DEF WorkRow, Worked
<1>5. /\ plan \in [asked -> Bank!Sources \cup {"none"}]
      /\ \A q \in asked : Stated(q, plan[q])
  <2>1. /\ DOMAIN plan = asked
        /\ plan = [q \in DOMAIN plan |-> plan[q]]
        /\ \A q \in asked : plan[q] \in Bank!Resolved(q) \cup
                               IF q \in DOMAIN row.saved THEN {row.saved[q]} ELSE {}
    BY <1>0, <1>2 DEF Bank!Plans
  <2>2. ASSUME NEW q \in asked
        PROVE plan[q] \in Bank!Sources \cup {"none"} /\ Stated(q, plan[q])
    <3>1. CASE q \in DOMAIN row.saved /\ plan[q] = row.saved[q]
      BY <1>4, <3>1
    <3>2. CASE plan[q] \in Bank!Resolved(q)
      <4>1. Questions[q].kind \in {"human", "fact", "open"}
        BY <1>3 DEF Bank!BankAssumption
      <4> QED  BY <3>2, <4>1 DEF Bank!Resolved, Bank!Sources, Stated, Bank!Human
    <3> QED  BY <2>1, <3>1, <3>2
  <2> QED  BY <2>1, <2>2
<1>6. Bank!ReusableOf(asked) \subseteq asked /\ \A q \in Bank!ReusableOf(asked) : ~Bank!Private(q)
  BY DEF Bank!ReusableOf
<1>7. BankKept'
  <2>1. /\ Bank!Items(plan, Bank!ReusableOf(asked)) \in SUBSET BankItem
        /\ \A item \in Bank!Items(plan, Bank!ReusableOf(asked)) :
             item.id \in Bank!ReusableOf(asked) /\ item.by = plan[item.id]
    BY <1>3, <1>5, <1>6, ItemsTyped
  <2>2. \A item \in Bank!Items(plan, Bank!ReusableOf(asked)) : MayKeep(item)
    BY <1>5, <1>6, <2>1 DEF MayKeep
  <2>3. bank' = Bank!Stored(asked, Bank!Items(plan, Bank!ReusableOf(asked)))
    BY <1>1
  <2> QED  BY <1>3, <2>1, <2>2, <2>3, StoreKeeps DEF BankInv
<1>8. WorkKept'
  <2>1. PICK items \in SUBSET BankItem :
           items = Bank!Items(plan, asked) /\ \A item \in items : Stated(item.id, item.by)
    BY <1>3, <1>5, ItemsTyped
  <2>2. PICK next : next = [row EXCEPT !.pc = "saved", !.plan = items]
    OBVIOUS
  <2>3. next \in WorkRow /\ Worked(next)
    BY <1>2, <2>1, <2>2 DEF WorkRow, Worked
  <2>4. work' = [work EXCEPT ![w].pc = "saved", ![w].plan = items]
    BY <1>1, <2>1
  <2>5. work' = [work EXCEPT ![w] = next]
    BY <1>2, <2>2, <2>4 DEF BankInv, WorkKept
  <2> QED  BY <2>3, <2>5, WorkMoves DEF BankInv
<1>9. requests' \subseteq SUBSET DOMAIN Questions /\ prefs' = prefs
  BY <1>1, <1>3 DEF BankInv, Bank!SavePlan
<1> QED  BY <1>7, <1>8, <1>9 DEF BankInv

LEMMA DoneStep ==
    ASSUME Bank!BankAssumption, BankInv, NEW w \in Workers, Bank!Done(w)
    PROVE BankInv'
<1>1. WorkKept' /\ UNCHANGED <<bank, prefs, requests>>
  BY FreeTyped, WorkMoves DEF BankInv, Bank!Done
<1> QED  BY <1>1 DEF BankInv, BankKept, MayKeep, Stated

LEMMA OthersStore ==
    ASSUME Bank!BankAssumption, BankInv, Bank!ApproveAnswers \/ Bank!AcceptResponse
    PROVE BankInv'
<1>1. \E ids \in SUBSET DOMAIN Questions, items \in SUBSET BankItem :
         (\A item \in items : MayKeep(item)) /\ bank' = Bank!Stored(ids, items)
  <2>1. CASE Bank!ApproveAnswers
    <3>1. PICK p \in DOMAIN Pages : \E given \in SUBSET Pages[p] :
             bank' = Bank!Stored(Pages[p], Bank!Items([q \in given |-> "human"], Bank!ReusableOf(given)))
      BY <2>1 DEF Bank!ApproveAnswers
    <3>2. PICK given \in SUBSET Pages[p] :
             bank' = Bank!Stored(Pages[p], Bank!Items([q \in given |-> "human"], Bank!ReusableOf(given)))
      BY <3>1
    <3>3. Pages[p] \in SUBSET DOMAIN Questions
      BY DEF Bank!BankAssumption
    <3>4. PICK plan \in [given -> Bank!Sources \cup {"none"}] : plan = [q \in given |-> "human"]
      BY DEF Bank!Sources
    <3>5. /\ Bank!ReusableOf(given) \subseteq given
          /\ \A q \in Bank!ReusableOf(given) : ~Bank!Private(q) /\ plan[q] = "human"
      BY <3>4 DEF Bank!ReusableOf
    <3>6. PICK items \in SUBSET BankItem :
             /\ items = Bank!Items(plan, Bank!ReusableOf(given))
             /\ \A item \in items : item.id \in Bank!ReusableOf(given) /\ item.by = plan[item.id]
      BY <3>3, <3>5, ItemsTyped
    <3>7. \A item \in items : MayKeep(item)
      BY <3>5, <3>6 DEF MayKeep, Stated
    <3> QED  BY <3>2, <3>3, <3>4, <3>6, <3>7
  <2>2. CASE Bank!AcceptResponse
    <3>1. PICK asked \in requests : bank' = Bank!Stored(asked, Bank!Items([q \in asked |-> "bridge"], asked))
      BY <2>2 DEF Bank!AcceptResponse
    <3>2. asked \in SUBSET DOMAIN Questions
      BY DEF BankInv
    <3>3. PICK plan \in [asked -> Bank!Sources \cup {"none"}] : plan = [q \in asked |-> "bridge"]
      BY DEF Bank!Sources
    <3>4. PICK items \in SUBSET BankItem :
             items = Bank!Items(plan, asked) /\ \A item \in items : item.by = plan[item.id] /\ item.id \in asked
      BY <3>2, ItemsTyped
    <3>5. \A item \in items : MayKeep(item)
      BY <3>3, <3>4 DEF MayKeep, Stated
    <3> QED  BY <3>1, <3>2, <3>3, <3>4, <3>5
  <2> QED  BY <2>1, <2>2
<1>2. UNCHANGED <<prefs, work, requests>>
  BY DEF Bank!ApproveAnswers, Bank!AcceptResponse
<1>3. BankKept'
  BY <1>1, StoreKeeps DEF BankInv
<1> QED  BY <1>2, <1>3 DEF BankInv, WorkKept, Worked, Stated

LEMMA BankKeeps ==
    ASSUME Bank!BankAssumption, BankInv, [Bank!Next]_(Bank!bankVars)
    PROVE BankInv'
<1>1. CASE UNCHANGED Bank!bankVars
  BY <1>1 DEF Bank!bankVars, BankInv, BankKept, WorkKept, Worked, MayKeep, Stated
<1>2. CASE Bank!SetPreference
  BY <1>2 DEF Bank!SetPreference, BankInv, BankKept, WorkKept, Worked, MayKeep, Stated
<1> QED  BY <1>1, <1>2, ReadStep, SaveStep, DoneStep, OthersStore DEF Bank!Next

LEMMA BankShows == ASSUME BankInv PROVE Bank!AnswersStayInBounds /\ Bank!TypeOK
<1>1. \A i \in DOMAIN bank : bank[i].items \subseteq BankItem
  BY DocTyped DEF BankInv
<1>2. Bank!TypeOK
  BY <1>1 DEF BankInv, BankKept, WorkKept, BankItem, WorkRow, Bank!TypeOK
<1>3. \A i \in DOMAIN bank : \A item \in bank[i].items : MayKeep(item)
  BY DEF BankInv, BankKept
<1>4. \A w \in Workers : \A item \in work[w].plan : Stated(item.id, item.by)
  BY DEF BankInv, WorkKept, Worked
<1>5. Bank!AnswersStayInBounds
  <2>1. ASSUME NEW item \in (UNION {bank[i].items : i \in DOMAIN bank})
                         \cup (UNION {work[w].plan : w \in Workers})
        PROVE Stated(item.id, item.by)
    <3>1. CASE item \in UNION {bank[i].items : i \in DOMAIN bank}
      <4>1. PICK i \in DOMAIN bank : item \in bank[i].items
        BY <3>1
      <4> QED  BY <1>3, <4>1 DEF MayKeep
    <3>2. CASE item \in UNION {work[w].plan : w \in Workers}
      <4>1. PICK w \in Workers : item \in work[w].plan
        BY <3>2
      <4> QED  BY <1>4, <4>1
    <3> QED  BY <2>1, <3>1, <3>2
  <2>2. \A i \in DOMAIN bank : \A item \in bank[i].items : Bank!Private(item.id) => item.by = "bridge"
    BY <1>3 DEF MayKeep
  <2> QED  BY <2>1, <2>2 DEF Stated, Bank!AnswersStayInBounds
<1> QED  BY <1>2, <1>5

-----------------------------------------------------------------------------
\* The funnel.  Events are only added: what the rule saw when it called an application
\* ghosted is what the events before it say, unless it was late.

OppRow == [source : Applications \cup {"none"}]
FunnelEvent == [opp : Nat, stage : Stages \cup {"applied", "ghosted"}, at : 0..MaxDay,
                rule : BOOLEAN, late : BOOLEAN]
RefreshRow == [pc : {"idle", "read", "judge"}, today : Nat, todo : Nat, seen : Nat]
Closing == Funnel!Ended \cup {"recruiter_response", "ghosted"}

OppsKept ==
    /\ opps \in Seq(OppRow)
    /\ \A i, j \in DOMAIN opps : i # j /\ opps[i].source # "none" => opps[i].source # opps[j].source
\* The application of an event was silent too long in the events up to the n-th.
WasSilent(event, n) ==
    /\ Funnel!StagesOf(event.opp, n) \cap Closing = {}
    /\ \E j \in Funnel!Of(event.opp, n) :
         events[j].stage = "applied" /\ events[j].at + GhostAfter <= event.at
EventsKept ==
    /\ events \in Seq(FunnelEvent)
    /\ \A i \in DOMAIN events : events[i].rule /\ ~events[i].late => WasSilent(events[i], i - 1)
EventsOwned == \A i \in DOMAIN events : events[i].opp \in DOMAIN opps
RefreshKept ==
    /\ refresh \in [Refreshers -> RefreshRow]
    /\ \A r \in Refreshers :
         /\ refresh[r].today <= day /\ refresh[r].todo <= Len(opps) /\ refresh[r].seen <= Len(events)
         /\ refresh[r].pc # "idle" => refresh[r].todo >= 1
FunnelInv == day \in 0..MaxDay /\ OppsKept /\ EventsKept /\ EventsOwned /\ RefreshKept

LEMMA FunnelInit == ASSUME Funnel!FunnelAssumption, Funnel!Init PROVE FunnelInv
<1>1. opps = <<>> /\ events = <<>> /\ day = 0 /\ refresh = [r \in Refreshers |-> Funnel!Rest]
  BY DEF Funnel!Init
<1>2. Funnel!Rest \in RefreshRow
  BY DEF Funnel!Rest, RefreshRow
<1>3. RefreshKept
  BY <1>1, <1>2 DEF RefreshKept, Funnel!Rest
<1> QED  BY <1>1, <1>3 DEF FunnelInv, OppsKept, EventsKept, EventsOwned, Funnel!FunnelAssumption

LEMMA EventAdded ==
    ASSUME EventsKept, NEW e \in FunnelEvent, events' = Append(events, e),
           e.rule /\ ~e.late => WasSilent(e, Len(events))
    PROVE EventsKept' /\ Len(events') = Len(events) + 1
<1>1. /\ events \in Seq(FunnelEvent) /\ Len(events) \in Nat /\ DOMAIN events = 1..Len(events)
      /\ events' \in Seq(FunnelEvent) /\ DOMAIN events' = 1..Len(events) + 1
      /\ Len(events') = Len(events) + 1 /\ events'[Len(events) + 1] = e
      /\ \A i \in 1..Len(events) : events'[i] = events[i]
  BY DEF EventsKept
<1>2. \A n \in 0..Len(events) : \A o : /\ Funnel!Of(o, n)' = Funnel!Of(o, n)
                                       /\ \A j \in Funnel!Of(o, n) : events'[j] = events[j]
  BY <1>1 DEF Funnel!Of
<1>3. \A n \in 0..Len(events) : \A o : Funnel!StagesOf(o, n)' = Funnel!StagesOf(o, n)
  <2> TAKE n \in 0..Len(events)
  <2> TAKE o
  <2>1. /\ Funnel!Of(o, n)' = Funnel!Of(o, n)
        /\ \A j \in Funnel!Of(o, n) : events'[j] = events[j]
    BY <1>2
  <2>2. \A j \in Funnel!Of(o, n) : events'[j].stage = events[j].stage
    BY <2>1
  <2> QED  BY <2>1, <2>2 DEF Funnel!StagesOf
<1>4. ASSUME NEW i \in DOMAIN events', events'[i].rule, ~events'[i].late
      PROVE WasSilent(events[i], i - 1)'
  <2>1. i - 1 \in 0..Len(events)
    BY <1>1
  <2>2. WasSilent(events'[i], i - 1)
    <3>1. CASE i \in 1..Len(events)
      BY <1>1, <1>4, <3>1 DEF EventsKept
    <3>2. CASE i = Len(events) + 1
      BY <1>1, <1>4, <3>2
    <3> QED  BY <1>1, <3>1, <3>2
  <2> QED  BY <1>2, <1>3, <2>1, <2>2 DEF WasSilent
<1> QED  BY <1>1, <1>4 DEF EventsKept

\* The refreshes under way see what they saw when more is recorded, or later.
LEMMA RefreshStays ==
    ASSUME RefreshKept, refresh' = refresh, day \in Nat, day' \in Nat, day <= day',
           Len(opps) \in Nat, Len(opps') \in Nat, Len(opps) <= Len(opps'),
           Len(events) \in Nat, Len(events') \in Nat, Len(events) <= Len(events')
    PROVE RefreshKept'
<1>1. \A r \in Refreshers : /\ refresh[r].today \in Nat /\ refresh[r].todo \in Nat /\ refresh[r].seen \in Nat
  BY DEF RefreshKept, RefreshRow
<1> QED  BY <1>1 DEF RefreshKept

LEMMA FunnelLengths ==
    ASSUME Funnel!FunnelAssumption, FunnelInv
    PROVE /\ day \in Nat /\ day \in 0..MaxDay /\ Len(opps) \in Nat /\ Len(events) \in Nat
          /\ DOMAIN opps = 1..Len(opps) /\ DOMAIN events = 1..Len(events)
  BY DEF FunnelInv, OppsKept, EventsKept, Funnel!FunnelAssumption

LEMMA CreateStep ==
    ASSUME Funnel!FunnelAssumption, FunnelInv, NEW source \in Applications \cup {"none"},
           NEW wasSent \in BOOLEAN, Funnel!Create(source, wasSent)
    PROVE FunnelInv'
<1>0. [source |-> source] \in OppRow
  BY DEF OppRow
<1>1. PICK row \in OppRow : row = [source |-> source] /\ row.source = source
  BY <1>0
<1>2. /\ opps \in Seq(OppRow) /\ opps' = Append(opps, row)
      /\ source = "none" \/ \A i \in DOMAIN opps : opps[i].source # source
      /\ UNCHANGED <<day, refresh>>
  BY <1>1 DEF FunnelInv, OppsKept, Funnel!Create
<1>3. /\ opps' \in Seq(OppRow) /\ Len(opps') = Len(opps) + 1 /\ DOMAIN opps' = 1..Len(opps) + 1
      /\ opps'[Len(opps) + 1] = row /\ \A i \in 1..Len(opps) : opps'[i] = opps[i]
  BY <1>2
<1>4. OppsKept'
  <2>1. \A i \in 1..Len(opps) + 1 : i = Len(opps) + 1 \/ i \in 1..Len(opps)
    BY FunnelLengths
  <2>2. \A i, j \in 1..Len(opps) : i # j /\ opps[i].source # "none" => opps[i].source # opps[j].source
    BY FunnelLengths DEF FunnelInv, OppsKept
  <2>3. source = "none" \/ \A i \in 1..Len(opps) : opps[i].source # source
    BY <1>2, FunnelLengths
  <2>4. \A i, j \in DOMAIN opps' : i # j /\ opps'[i].source # "none" => opps'[i].source # opps'[j].source
    BY <1>1, <1>3, <2>1, <2>2, <2>3
  <2> QED  BY <1>3, <2>4 DEF OppsKept
<1>5. /\ EventsKept' /\ Len(events') \in Nat /\ Len(events) <= Len(events')
      /\ \A i \in DOMAIN events' : events'[i].opp = Len(opps) + 1 \/ (i \in DOMAIN events /\ events'[i] = events[i])
  <2>1. CASE wasSent
    <3>1. PICK e \in FunnelEvent : /\ e = [opp |-> Len(opps) + 1, stage |-> "applied", at |-> day,
                                           rule |-> FALSE, late |-> FALSE]
                                   /\ e.opp = Len(opps) + 1 /\ ~e.rule
      <4>1. [opp |-> Len(opps) + 1, stage |-> "applied", at |-> day, rule |-> FALSE, late |-> FALSE]
              \in FunnelEvent
        BY FunnelLengths DEF FunnelEvent
      <4> QED  BY <4>1
    <3>2. events' = Append(events, e)
      BY <2>1, <3>1 DEF Funnel!Create, Funnel!Event
    <3>3. EventsKept' /\ Len(events') = Len(events) + 1
      BY <3>1, <3>2, EventAdded DEF FunnelInv
    <3>4. \A i \in DOMAIN events' : events'[i] = e \/ (i \in DOMAIN events /\ events'[i] = events[i])
      BY <3>2 DEF FunnelInv, EventsKept
    <3> QED  BY <3>1, <3>3, <3>4, FunnelLengths
  <2>2. CASE ~wasSent
    <3>1. events' = events
      BY <2>2 DEF Funnel!Create
    <3> QED  BY <3>1, FunnelLengths DEF FunnelInv, EventsKept, WasSilent, Funnel!Of, Funnel!StagesOf
  <2> QED  BY <2>1, <2>2
<1>6. EventsOwned'
  BY <1>3, <1>5, FunnelLengths DEF FunnelInv, EventsOwned
<1>7. RefreshKept'
  BY <1>2, <1>3, <1>5, FunnelLengths, RefreshStays DEF FunnelInv
<1> QED  BY <1>2, <1>4, <1>5, <1>6, <1>7 DEF FunnelInv

\* An event of an application on record.
LEMMA EventStep ==
    ASSUME Funnel!FunnelAssumption, FunnelInv, UNCHANGED <<day, opps>>,
           NEW e \in FunnelEvent, events' = Append(events, e), e.opp \in DOMAIN opps,
           e.rule /\ ~e.late => WasSilent(e, Len(events))
    PROVE OppsKept' /\ EventsKept' /\ EventsOwned' /\ day' \in 0..MaxDay
          /\ Len(events') = Len(events) + 1
<1>1. EventsKept' /\ Len(events') = Len(events) + 1
  BY EventAdded DEF FunnelInv
<1>2. \A i \in DOMAIN events' : events'[i] = e \/ (i \in DOMAIN events /\ events'[i] = events[i])
  BY DEF FunnelInv, EventsKept
<1>3. EventsOwned'
  BY <1>2 DEF FunnelInv, EventsOwned
<1> QED  BY <1>1, <1>3 DEF FunnelInv, OppsKept

LEMMA AddStep ==
    ASSUME Funnel!FunnelAssumption, FunnelInv, Funnel!AddEvent
    PROVE FunnelInv'
<1>1. PICK o \in DOMAIN opps, stage \in Stages, at \in {0, day} :
         events' = Funnel!Event(o, stage, at, FALSE, FALSE)
  BY DEF Funnel!AddEvent
<1>2. PICK e \in FunnelEvent : /\ e = [opp |-> o, stage |-> stage, at |-> at, rule |-> FALSE, late |-> FALSE]
                               /\ e.opp = o /\ ~e.rule
  <2>1. [opp |-> o, stage |-> stage, at |-> at, rule |-> FALSE, late |-> FALSE] \in FunnelEvent
    <3>1. o \in Nat /\ at \in 0..MaxDay
      BY FunnelLengths DEF Funnel!FunnelAssumption
    <3> QED  BY <3>1 DEF FunnelEvent
  <2> QED  BY <2>1
<1>3. events' = Append(events, e) /\ UNCHANGED <<day, opps, refresh>>
  BY <1>1, <1>2 DEF Funnel!Event, Funnel!AddEvent
<1>4. OppsKept' /\ EventsKept' /\ EventsOwned' /\ day' \in 0..MaxDay /\ Len(events') = Len(events) + 1
  BY <1>2, <1>3, EventStep
<1>5. RefreshKept'
  BY <1>3, <1>4, FunnelLengths, RefreshStays DEF FunnelInv
<1> QED  BY <1>4, <1>5 DEF FunnelInv

LEMMA RefreshMoves ==
    ASSUME RefreshKept, NEW r \in Refreshers, NEW row \in RefreshRow, refresh' = [refresh EXCEPT ![r] = row],
           day' = day, opps' = opps, Len(events) \in Nat, Len(events') \in Nat, Len(events) <= Len(events'),
           row.today <= day, row.todo <= Len(opps), row.seen <= Len(events), row.pc # "idle" => row.todo >= 1
    PROVE RefreshKept'
<1>1. \A u \in Refreshers : refresh[u].seen \in Nat /\ row.seen \in Nat
  BY DEF RefreshKept, RefreshRow
<1>2. \A u \in Refreshers : refresh'[u] = IF u = r THEN row ELSE refresh[u]
  BY DEF RefreshKept
<1>3. refresh' \in [Refreshers -> RefreshRow]
  BY DEF RefreshKept
<1> QED  BY <1>1, <1>2, <1>3 DEF RefreshKept

LEMMA LookSteps ==
    ASSUME Funnel!FunnelAssumption, FunnelInv, NEW r \in Refreshers,
           Funnel!StartRefresh(r) \/ Funnel!ReadEvents(r)
    PROVE FunnelInv'
<1>0. UNCHANGED <<day, opps, events>> /\ refresh[r] \in RefreshRow
  BY DEF Funnel!StartRefresh, Funnel!ReadEvents, FunnelInv, RefreshKept
<1>1. \E row \in RefreshRow :
         /\ refresh' = [refresh EXCEPT ![r] = row] /\ row.today <= day /\ row.todo <= Len(opps)
         /\ row.seen <= Len(events) /\ row.todo >= 1
  <2>1. CASE Funnel!StartRefresh(r)
    <3>1. Len(opps) >= 1 /\ Len(opps) \in Nat /\ Len(events) \in Nat /\ day \in Nat
      BY <2>1, FunnelLengths DEF Funnel!StartRefresh, FunnelInv, OppsKept
    <3>2. PICK row \in RefreshRow : row = [pc |-> "read", todo |-> Len(opps), seen |-> 0, today |-> day]
      BY <3>1 DEF RefreshRow
    <3>3. refresh' = [refresh EXCEPT ![r] = row]
      BY <2>1, <3>2 DEF Funnel!StartRefresh
    <3>4. row.today <= day /\ row.todo <= Len(opps) /\ row.seen <= Len(events) /\ row.todo >= 1
      BY <3>1, <3>2
    <3> QED  BY <3>3, <3>4, Zenon
  <2>2. CASE Funnel!ReadEvents(r)
    <3>1. refresh[r].pc = "read" /\ refresh' = [refresh EXCEPT ![r].pc = "judge", ![r].seen = Len(events)]
      BY <2>2 DEF Funnel!ReadEvents
    <3>2. refresh[r].today <= day /\ refresh[r].todo <= Len(opps) /\ refresh[r].todo >= 1
      BY <3>1 DEF FunnelInv, RefreshKept
    <3>3. PICK was \in RefreshRow : was = refresh[r]
      BY <1>0
    <3>4. PICK row : row = [was EXCEPT !.pc = "judge", !.seen = Len(events)]
      OBVIOUS
    <3>5. row \in RefreshRow /\ row.today = was.today /\ row.todo = was.todo /\ row.seen = Len(events)
      BY <3>4, FunnelLengths DEF RefreshRow
    <3>6. refresh' = [refresh EXCEPT ![r] = row]
      BY <3>1, <3>3, <3>4 DEF FunnelInv, RefreshKept
    <3>7. row.today <= day /\ row.todo <= Len(opps) /\ row.seen <= Len(events) /\ row.todo >= 1
      BY <3>2, <3>3, <3>5, FunnelLengths
    <3> QED  BY <3>5, <3>6, <3>7, Zenon
  <2> QED  BY <2>1, <2>2
<1>2. RefreshKept'
  <2>1. PICK row \in RefreshRow :
           /\ refresh' = [refresh EXCEPT ![r] = row] /\ row.today <= day /\ row.todo <= Len(opps)
           /\ row.seen <= Len(events) /\ row.todo >= 1
    BY <1>1
  <2>2. RefreshKept /\ Len(events) \in Nat /\ Len(events') \in Nat /\ Len(events) <= Len(events')
    BY <1>0, FunnelLengths DEF FunnelInv
  <2> QED  BY <1>0, <2>1, <2>2, RefreshMoves
<1> QED
  BY <1>0, <1>2 DEF FunnelInv, OppsKept, EventsKept, EventsOwned, WasSilent, Funnel!Of, Funnel!StagesOf

LEMMA JudgeStep ==
    ASSUME Funnel!FunnelAssumption, FunnelInv, NEW r \in Refreshers, Funnel!Judge(r)
    PROVE FunnelInv'
<1> DEFINE was == Funnel!StagesOf(refresh[r].todo, refresh[r].seen)
<1>1. PICK row \in RefreshRow : row = refresh[r]
  BY DEF FunnelInv, RefreshKept
<1>2. /\ row.pc = "judge" /\ row.today <= day /\ row.todo <= Len(opps) /\ row.seen <= Len(events)
      /\ row.todo >= 1 /\ row.todo \in Nat /\ row.seen \in Nat /\ row.today \in Nat
  BY <1>1 DEF Funnel!Judge, FunnelInv, RefreshKept, RefreshRow
<1>3. UNCHANGED <<day, opps>>
  BY DEF Funnel!Judge
<1>4. /\ OppsKept' /\ EventsKept' /\ EventsOwned' /\ day' \in 0..MaxDay
      /\ Len(events') \in Nat /\ Len(events) <= Len(events')
  <2>1. CASE Funnel!Silent(was) /\ Funnel!Overdue(row.todo, row.seen, row.today)
    <3>1. PICK late \in BOOLEAN : late = (was # Funnel!Recorded(row.todo))
      OBVIOUS
    <3>2. [opp |-> row.todo, stage |-> "ghosted", at |-> day, rule |-> TRUE, late |-> late] \in FunnelEvent
      BY <1>2, FunnelLengths DEF FunnelEvent
    <3>3. PICK e \in FunnelEvent : /\ e = [opp |-> row.todo, stage |-> "ghosted", at |-> day,
                                           rule |-> TRUE, late |-> late]
                                   /\ e.opp = row.todo /\ e.at = day /\ e.late = late
      BY <3>2
    <3>4. events' = Append(events, e)
      BY <1>1, <2>1, <3>1, <3>3 DEF Funnel!Judge, Funnel!Event
    <3>5. ASSUME ~e.late PROVE WasSilent(e, Len(events))
      <4>1. Funnel!StagesOf(row.todo, Len(events)) = was
        BY <3>1, <3>3, <3>5 DEF Funnel!Recorded
      <4>2. was \cap Closing = {}
        BY <2>1 DEF Funnel!Silent, Closing
      <4>3. PICK j \in Funnel!Of(row.todo, row.seen) :
               events[j].stage = "applied" /\ events[j].at + GhostAfter <= row.today
        BY <2>1 DEF Funnel!Overdue
      <4>4. j \in DOMAIN events /\ j <= Len(events) /\ events[j].opp = row.todo
        BY <1>2, <4>3, FunnelLengths DEF Funnel!Of
      <4>6. PICK earlier \in FunnelEvent : earlier = events[j]
        BY <4>4 DEF FunnelInv, EventsKept
      <4>7. events[j].at \in Nat
        BY <4>6 DEF FunnelEvent
      <4>5. j \in Funnel!Of(row.todo, Len(events)) /\ events[j].at + GhostAfter <= day
        BY <1>2, <4>3, <4>4, <4>7, FunnelLengths DEF Funnel!Of, Funnel!FunnelAssumption
      <4> QED  BY <3>3, <4>1, <4>2, <4>3, <4>5 DEF WasSilent
    <3>6. e.opp \in DOMAIN opps
      BY <1>2, <3>3, FunnelLengths
    <3> QED  BY <1>3, <3>4, <3>5, <3>6, EventStep, FunnelLengths
  <2>2. CASE ~(Funnel!Silent(was) /\ Funnel!Overdue(row.todo, row.seen, row.today))
    <3>1. events' = events
      BY <1>1, <2>2 DEF Funnel!Judge
    <3>2. OppsKept' /\ EventsOwned'
      BY <1>3, <3>1 DEF FunnelInv, OppsKept, EventsOwned
    <3>3. EventsKept'
      BY <1>3, <3>1 DEF FunnelInv, EventsKept, WasSilent, Funnel!Of, Funnel!StagesOf
    <3> QED  BY <1>3, <3>1, <3>2, <3>3, FunnelLengths
  <2> QED  BY <2>1, <2>2
<1>5. RefreshKept'
  <2>1. PICK next : next = IF row.todo = 1 THEN Funnel!Rest
                           ELSE [row EXCEPT !.pc = "read", !.todo = row.todo - 1]
    OBVIOUS
  <2>2. refresh' = [refresh EXCEPT ![r] = next]
    BY <1>1, <2>1 DEF Funnel!Judge
  <2>3. /\ next \in RefreshRow /\ next.today <= day /\ next.todo <= Len(opps)
        /\ next.seen <= Len(events) /\ (next.pc # "idle" => next.todo >= 1)
    <3>1. CASE row.todo = 1
      BY <2>1, <3>1, FunnelLengths DEF Funnel!Rest, RefreshRow
    <3>2. CASE row.todo # 1
      <4>1. next = [row EXCEPT !.pc = "read", !.todo = row.todo - 1]
        BY <2>1, <3>2
      <4>2. row.todo - 1 \in Nat /\ row.todo - 1 >= 1 /\ row.todo - 1 <= Len(opps)
        BY <1>2, <3>2, FunnelLengths
      <4>3. next \in RefreshRow /\ next.today = row.today /\ next.seen = row.seen /\ next.todo = row.todo - 1
        BY <4>1, <4>2 DEF RefreshRow
      <4> QED  BY <1>2, <4>2, <4>3
    <3> QED  BY <3>1, <3>2
  <2>4. RefreshKept /\ Len(events) \in Nat
    BY FunnelLengths DEF FunnelInv
  <2> QED  BY <1>3, <1>4, <2>2, <2>3, <2>4, RefreshMoves
<1> QED  BY <1>4, <1>5 DEF FunnelInv

LEMMA DayStep ==
    ASSUME Funnel!FunnelAssumption, FunnelInv, Funnel!DayPasses
    PROVE FunnelInv'
<1>1. day' = day + 1 /\ day < MaxDay /\ UNCHANGED <<opps, events, refresh>> /\ MaxDay \in Nat
  BY DEF Funnel!DayPasses, Funnel!FunnelAssumption
<1>2. RefreshKept' /\ day' \in 0..MaxDay
  BY <1>1, FunnelLengths, RefreshStays DEF FunnelInv
<1> QED
  BY <1>1, <1>2 DEF FunnelInv, OppsKept, EventsKept, EventsOwned, WasSilent, Funnel!Of, Funnel!StagesOf

LEMMA FunnelKept ==
    ASSUME Funnel!FunnelAssumption, FunnelInv, [Funnel!Next]_(Funnel!funnelVars)
    PROVE FunnelInv'
<1>1. CASE UNCHANGED Funnel!funnelVars
  BY <1>1 DEF Funnel!funnelVars, FunnelInv, OppsKept, EventsKept, EventsOwned, RefreshKept, WasSilent,
              Funnel!Of, Funnel!StagesOf
<1>2. CASE Funnel!SyncConfirmed \/ Funnel!RecordOpportunity
  BY <1>2, CreateStep DEF Funnel!SyncConfirmed, Funnel!RecordOpportunity
<1> QED  BY <1>1, <1>2, AddStep, DayStep, LookSteps, JudgeStep DEF Funnel!Next

\* The last of some events, by date and then by id.
LEMMA LastIsOne ==
    ASSUME Funnel!FunnelAssumption, FunnelInv, NEW S \in SUBSET DOMAIN events, S # {}
    PROVE Funnel!Last(S) \in S
<1>1. /\ \A i \in DOMAIN events : events[i].at \in 0..MaxDay
      /\ DOMAIN events = 1..Len(events) /\ Len(events) \in Nat
  <2>1. ASSUME NEW i \in DOMAIN events PROVE events[i].at \in 0..MaxDay
    <3>1. PICK event \in FunnelEvent : event = events[i]
      BY <2>1 DEF FunnelInv, EventsKept
    <3> QED  BY <3>1 DEF FunnelEvent
  <2> QED  BY <2>1, FunnelLengths
<1>2. MaxDay \in Nat
  BY DEF Funnel!FunnelAssumption
<1> DEFINE dates == {events[i].at : i \in S}
<1>3. PICK date \in dates : \A other \in dates : other <= date
  <2>1. dates \subseteq 0..MaxDay /\ dates # {}
    BY <1>1
  <2> HIDE DEF dates
  <2> QED  BY <1>2, <2>1, GreatestOne
<1>4. PICK last \in {i \in S : events[i].at = date} :
         \A i \in {k \in S : events[k].at = date} : i <= last
  <2> DEFINE latest == {i \in S : events[i].at = date}
  <2>1. latest \subseteq 0..Len(events) /\ latest # {}
    BY <1>1, <1>3
  <2> HIDE DEF latest
  <2>2. \E m \in latest : \A n \in latest : n <= m
    BY <1>1, <2>1, GreatestOne
  <2> QED  BY <2>2 DEF latest
<1>5. ASSUME NEW j \in S PROVE Funnel!Before(j, last)
  <2>1. events[j].at \in dates /\ events[j].at \in Int /\ date \in Int /\ events[last].at = date
    BY <1>1, <1>3, <1>4
  <2>2. events[j].at <= date
    BY <1>3, <2>1
  <2>3. events[j].at = date => j <= last
    BY <1>4
  <2> QED  BY <2>1, <2>2, <2>3 DEF Funnel!Before
<1>6. \E i \in S : \A j \in S : Funnel!Before(j, i)
  BY <1>4, <1>5
<1> QED  BY <1>6 DEF Funnel!Last

LEMMA FunnelShows ==
    ASSUME Funnel!FunnelAssumption, FunnelInv
    PROVE Funnel!GhostedOnSilence /\ Funnel!TypeOK
<1>1. Funnel!TypeOK
  BY DEF FunnelInv, OppsKept, EventsOwned, RefreshKept, RefreshRow, Funnel!TypeOK
<1>2. \A i, j \in DOMAIN opps :
         i # j /\ opps[i].source # "none" => opps[i].source # opps[j].source
  BY DEF FunnelInv, OppsKept
<1>3. ASSUME NEW i \in DOMAIN events, events[i].rule, ~events[i].late
      PROVE LET earlier == Funnel!StagesOf(events[i].opp, i - 1)
            IN /\ earlier \cap (Funnel!Ended \cup {"recruiter_response", "ghosted"}) = {}
               /\ \E j \in Funnel!Of(events[i].opp, i - 1) :
                    events[j].stage = "applied" /\ events[j].at + GhostAfter <= events[i].at
  BY <1>3 DEF FunnelInv, EventsKept, WasSilent, Closing
<1>4. ASSUME NEW o \in DOMAIN opps, "recruiter_response" \in Funnel!Recorded(o)
      PROVE Funnel!CurrentStage(o) # "ghosted"
  <2> DEFINE mine == Funnel!Of(o, Len(events))
             replies == {i \in mine : events[i].stage = "recruiter_response"}
             ends == {i \in mine : events[i].stage \in Funnel!Ended
                                     /\ events[i].at >= events[Funnel!First(replies)].at}
  <2>1. mine # {} /\ replies # {} /\ mine \subseteq DOMAIN events
    BY <1>4 DEF Funnel!Recorded, Funnel!StagesOf, Funnel!Of
  <2>2. ends # {} => events[Funnel!Last(ends)].stage # "ghosted"
    <3>1. SUFFICES ASSUME ends # {} PROVE events[Funnel!Last(ends)].stage \in Funnel!Ended
      BY DEF Funnel!Ended
    <3>2. ends \in SUBSET DOMAIN events /\ \A i \in ends : events[i].stage \in Funnel!Ended
      BY <2>1
    <3> HIDE DEF ends
    <3>3. Funnel!Last(ends) \in ends
      BY <3>1, <3>2, LastIsOne
    <3> QED  BY <3>2, <3>3
  <2>3. Funnel!CurrentStage(o) =
          IF ends # {} THEN events[Funnel!Last(ends)].stage
          ELSE IF "offer" \in Funnel!Recorded(o) THEN "offer"
          ELSE IF "hr_interview" \in Funnel!Recorded(o) THEN "hr_interview"
          ELSE "recruiter_response"
    BY <2>1 DEF Funnel!CurrentStage
  <2> HIDE DEF ends
  <2> QED  BY <2>2, <2>3
<1>5. LET c == Funnel!Conversion("applied", "recruiter_response")
      IN c.resolved - c.successes
           <= Funnel!Cardinality({o \in DOMAIN opps : Funnel!Recorded(o) \cap Funnel!Answers = {}})
  <2> DEFINE source == {o \in DOMAIN opps : Funnel!Reached(o, "applied")}
             successes == {o \in source : Funnel!Reached(o, "recruiter_response")}
             failures == {o \in source \ successes :
                            Funnel!Recorded(o) \cap (Funnel!Ended \cup {"ghosted"}) # {}}
             unanswered == {o \in DOMAIN opps : Funnel!Recorded(o) \cap Funnel!Answers = {}}
  <2>1. \A S : Funnel!Cardinality(S) = Cardinality(S)
    BY DEF Funnel!Cardinality, Cardinality
  <2>2. IsFiniteSet(DOMAIN opps)
    BY FunnelLengths, FS_Interval
  <2>3. successes \subseteq DOMAIN opps /\ unanswered \subseteq DOMAIN opps
    OBVIOUS
  <2>4. failures \subseteq unanswered
    BY DEF Funnel!Reached
  <2>5. successes \cap failures = {}
    OBVIOUS
  <2>6. LET c == Funnel!Conversion("applied", "recruiter_response")
        IN c.successes = Cardinality(successes) /\ c.resolved = Cardinality(successes \cup failures)
    BY <2>1 DEF Funnel!Conversion
  <2> HIDE DEF successes, failures, unanswered
  <2>7. IsFiniteSet(successes) /\ IsFiniteSet(unanswered) /\ IsFiniteSet(failures)
    BY <2>2, <2>3, <2>4, FS_Subset
  <2>8. Cardinality(failures) <= Cardinality(unanswered)
    BY <2>4, <2>7, FS_Subset
  <2>9. Cardinality(successes \cup failures) = Cardinality(successes) + Cardinality(failures)
    <3>1. Cardinality(successes \cup failures)
            = Cardinality(successes) + Cardinality(failures) - Cardinality(successes \cap failures)
      BY <2>7, FS_Union
    <3>2. Cardinality(successes \cap failures) = 0
      BY <2>5, FS_EmptySet
    <3>3. Cardinality(failures) \in Nat /\ Cardinality(successes) \in Nat
      BY <2>7, FS_CardinalityType
    <3> QED  BY <3>1, <3>2, <3>3
  <2>10. Cardinality(failures) \in Nat /\ Cardinality(successes) \in Nat /\ Cardinality(unanswered) \in Nat
    BY <2>7, FS_CardinalityType
  <2> QED  BY <2>1, <2>6, <2>8, <2>9, <2>10 DEF unanswered
<1>6. Funnel!GhostedOnSilence
  BY <1>2, <1>3, <1>4, <1>5 DEF Funnel!GhostedOnSilence
<1> QED  BY <1>1, <1>6

-----------------------------------------------------------------------------
\* Selecting candidates.  Whatever the pages show and whoever submits meanwhile, a
\* card is only taken after it was compared with everything the selection is made of.

SitePage == [cards : Seq(Listings), next : Nat, gated : BOOLEAN]
Verdicts == {"filtered", "attempted", "duplicate", "already_applied", "band_full", "eligible"}
ScanRow ==
    [pc : {"idle", "page", "cards", "collect", "done"}, page : Nat, visited : SUBSET Nat,
     cards : Seq(Listings), finds : Seq(Seq(Listings)), site : Sites \cup {<<>>},
     room : GoalBands \cup {<<>>}, selected : Seq(Listings),
     items : Seq([card : Listings, verdict : Verdicts]),
     names : SUBSET {card.name : card \in Listings},
     keys : SUBSET {card.key : card \in Listings}, country : Nat,
     report : {"none", "ready", "exhausted", "source_missing", "human_required", "error"}]

ScanTyped ==
    /\ scan \in ScanRow /\ IsFiniteSet(scan.visited)
    /\ scan.pc \in {"page", "cards"} => scan.page \in 0..Len(scan.site)
    /\ sent \subseteq ScanNames \cup AppliedPage /\ sentLater \subseteq sent

Tally(s, band) == Cardinality({i \in DOMAIN s : s[i].band = band})
\* The scan remembers what it takes, and has taken what it may.
Taken(s, names, keys) ==
    /\ Len(s) <= MaxCandidates
    /\ \A i \in DOMAIN s : s[i].name \in names /\ s[i].key \in keys \ Attempted
    /\ \A i, j \in DOMAIN s : i # j => s[i].name # s[j].name /\ s[i].key # s[j].key
RoomKept(s, room) ==
    /\ Tally(s, "unknown") <= UnknownLimit
    /\ \A b \in DOMAIN room : Tally(s, b) <= room[b]
UnsentAtFirst(s) == \A i \in DOMAIN s : s[i].name \in sent => s[i].name \in sentLater
Chosen == /\ Taken(scan.selected, scan.names, scan.keys)
          /\ RoomKept(scan.selected, scan.room) /\ UnsentAtFirst(scan.selected)
ScanInv == ScanTyped /\ Chosen

LEMMA CountIsTally == ASSUME NEW b PROVE Scan!Count(b) = Tally(scan.selected, b)
  BY DEF Scan!Count, Tally, Scan!Cardinality, Cardinality

LEMMA TallyAppends ==
    ASSUME NEW s \in Seq(Listings), NEW card \in Listings, NEW b
    PROVE /\ Tally(s, b) \in Nat
          /\ Tally(Append(s, card), b) =
               IF card.band = b THEN Tally(s, b) + 1 ELSE Tally(s, b)
<1> DEFINE In(z) == {i \in DOMAIN z : z[i].band = b}
<1>1. IsFiniteSet(1..Len(s))
  BY FS_Interval
<1>2. In(s) \subseteq 1..Len(s) /\ IsFiniteSet(In(s))
  BY <1>1, FS_Subset
<1>3. Len(s) + 1 \notin In(s)
  BY <1>2
<1>4. In(Append(s, card)) = IF card.band = b THEN In(s) \cup {Len(s) + 1} ELSE In(s)
  OBVIOUS
<1>5. Tally(s, b) = Cardinality(In(s)) /\ Tally(Append(s, card), b) = Cardinality(In(Append(s, card)))
  BY DEF Tally
<1> HIDE DEF In
<1>6. Cardinality(In(s) \cup {Len(s) + 1}) = Cardinality(In(s)) + 1 /\ Cardinality(In(s)) \in Nat
  BY <1>2, <1>3, FS_AddElement, FS_CardinalityType
<1> QED  BY <1>4, <1>5, <1>6

LEMMA NothingTaken ==
    ASSUME Scan!CandidateScanAssumption, NEW room \in GoalBands \cup {<<>>},
           NEW names, NEW keys
    PROVE Taken(<<>>, names, keys) /\ RoomKept(<<>>, room) /\ UnsentAtFirst(<<>>) /\ UnsentAtFirst(<<>>)'
<1>1. \A b : Tally(<<>>, b) = 0
  <2>1. \A b : {i \in DOMAIN <<>> : <<>>[i].band = b} = {}
    OBVIOUS
  <2> QED  BY <2>1, FS_EmptySet DEF Tally
<1>2. \A b \in DOMAIN room : room[b] \in Nat
  BY DEF Scan!CandidateScanAssumption
<1> QED  BY <1>1, <1>2 DEF Taken, RoomKept, UnsentAtFirst, Scan!CandidateScanAssumption

\* An eligible card, appended.
LEMMA TakeKeeps ==
    ASSUME Scan!CandidateScanAssumption, ScanInv, NEW card \in Listings,
           Scan!Verdict(card) = "eligible", Len(scan.selected) < MaxCandidates
    PROVE /\ Taken(Append(scan.selected, card), scan.names \cup {card.name}, scan.keys \cup {card.key})
          /\ RoomKept(Append(scan.selected, card), scan.room)
          /\ UnsentAtFirst(Append(scan.selected, card))
<1> DEFINE s == scan.selected
           t == Append(s, card)
<1>1. s \in Seq(Listings) /\ scan.room \in GoalBands \cup {<<>>}
  BY DEF ScanInv, ScanTyped, ScanRow
<1>2. /\ card.key \notin Attempted /\ card.name \notin sent
      /\ card.name \notin scan.names /\ card.key \notin scan.keys /\ ~Scan!BandFull(card.band)
  BY Zenon DEF Scan!Verdict, Scan!Repeated
<1>3. /\ t \in Seq(Listings) /\ Len(t) = Len(s) + 1 /\ DOMAIN s = 1..Len(s)
      /\ DOMAIN t = 1..Len(s) + 1 /\ t[Len(s) + 1] = card /\ \A i \in DOMAIN s : t[i] = s[i]
  BY <1>1
<1>4. \A i \in DOMAIN t : i = Len(s) + 1 \/ i \in DOMAIN s
  BY <1>3
<1>5. Taken(s, scan.names, scan.keys) /\ RoomKept(s, scan.room) /\ UnsentAtFirst(s)
  BY DEF ScanInv, Chosen
<1> HIDE DEF t
<1>6. Taken(t, scan.names \cup {card.name}, scan.keys \cup {card.key})
  <2>1. Len(t) <= MaxCandidates
    BY <1>1, <1>3 DEF Scan!CandidateScanAssumption
  <2>2. \A i \in DOMAIN t : /\ t[i].name \in scan.names \cup {card.name}
                            /\ t[i].key \in (scan.keys \cup {card.key}) \ Attempted
    BY <1>2, <1>3, <1>4, <1>5 DEF Taken
  <2>3. ASSUME NEW i \in DOMAIN t, NEW j \in DOMAIN t, i # j
        PROVE t[i].name # t[j].name /\ t[i].key # t[j].key
    BY <1>2, <1>3, <1>4, <1>5, <2>3 DEF Taken
  <2> QED  BY <2>1, <2>2, <2>3 DEF Taken
<1>7. RoomKept(t, scan.room)
  <2>1. card.band = "unknown" => ~(Tally(s, "unknown") >= UnknownLimit)
    BY <1>2, CountIsTally DEF Scan!BandFull
  <2>2. card.band \in DOMAIN scan.room => ~(Tally(s, card.band) >= scan.room[card.band])
    <3>1. card.band \in DOMAIN scan.room => card.band # "unknown"
      BY <1>1 DEF Scan!CandidateScanAssumption
    <3> QED  BY <1>2, <3>1, CountIsTally DEF Scan!BandFull
  <2>3. \A b \in DOMAIN scan.room : scan.room[b] \in Nat
    BY <1>1 DEF Scan!CandidateScanAssumption
  <2>4. UnknownLimit \in Nat
    BY DEF Scan!CandidateScanAssumption
  <2>5. \A b : Tally(s, b) \in Nat /\ Tally(t, b) = IF card.band = b THEN Tally(s, b) + 1 ELSE Tally(s, b)
    BY <1>1, TallyAppends DEF t
  <2> QED  BY <1>5, <2>1, <2>2, <2>3, <2>4, <2>5 DEF RoomKept
<1>8. UnsentAtFirst(t)
  BY <1>2, <1>3, <1>4, <1>5 DEF UnsentAtFirst
<1> QED  BY <1>6, <1>7, <1>8 DEF t

\* A step that takes nothing.
LEMMA NothingMore ==
    ASSUME ScanInv, scan'.selected = scan.selected, scan'.room = scan.room,
           scan.names \subseteq scan'.names, scan.keys \subseteq scan'.keys,
           UNCHANGED <<sent, sentLater>>
    PROVE Chosen'
  BY DEF ScanInv, Chosen, Taken, RoomKept, UnsentAtFirst, Tally

LEMMA IdleScan ==
    ASSUME Scan!CandidateScanAssumption
    PROVE Scan!Idle \in ScanRow /\ IsFiniteSet(Scan!Idle.visited) /\ Scan!Idle.pc = "idle"
<1>1. IsFiniteSet({})
  BY FS_EmptySet
<1> QED  BY <1>1 DEF Scan!Idle, ScanRow, Scan!NoPage

LEMMA ScanInit == ASSUME Scan!CandidateScanAssumption, Scan!Init PROVE ScanInv
<1>1. scan = Scan!Idle /\ sent = {} /\ sentLater = {}
  BY DEF Scan!Init
<1>2. scan.selected = <<>> /\ scan.room = <<>> /\ scan.names = {} /\ scan.keys = {}
  BY <1>1 DEF Scan!Idle
<1> QED  BY <1>1, <1>2, IdleScan, NothingTaken DEF ScanInv, ScanTyped, Chosen

LEMMA StartSteps ==
    ASSUME Scan!CandidateScanAssumption, ScanInv,
           Scan!StartScan \/ Scan!SourceMissing \/ Scan!StartCollect
    PROVE ScanInv'
<1>0. Scan!Idle \in ScanRow /\ IsFiniteSet(Scan!Idle.visited)
  BY IdleScan
<1>1. /\ sent \subseteq ScanNames \cup AppliedPage /\ sentLater \subseteq sent
  BY DEF ScanInv, ScanTyped
<1>2. ASSUME scan' \in ScanRow, scan'.visited = Scan!Idle.visited, scan'.selected = <<>>,
             scan'.pc \in {"page", "cards"} => scan'.page \in 0..Len(scan'.site),
             scan'.names = {}, scan'.keys = {}, scan'.room \in GoalBands \cup {<<>>},
             sent' \subseteq ScanNames \cup AppliedPage, sentLater' \subseteq sent'
      PROVE ScanInv'
  <2>1. \A i \in DOMAIN scan'.selected : FALSE
    BY <1>2
  <2> QED  BY <1>0, <1>2, <2>1, NothingTaken DEF ScanInv, ScanTyped, Chosen, UnsentAtFirst
<1>3. CASE Scan!StartScan
  <2>1. PICK site \in Sites, room \in GoalBands, applied \in {{}, AppliedPage} :
           /\ scan' = [Scan!Idle EXCEPT !.pc = "page", !.page = 1, !.site = site, !.room = room]
           /\ sent' = sent \cup applied
    BY <1>3 DEF Scan!StartScan
  <2>2. Len(site) \in Nat /\ Len(site) >= 1
    BY DEF Scan!CandidateScanAssumption
  <2>3. /\ scan' \in ScanRow /\ scan'.visited = Scan!Idle.visited /\ scan'.selected = <<>>
        /\ scan'.page = 1 /\ scan'.site = site
        /\ scan'.names = {} /\ scan'.keys = {} /\ scan'.room = room
    BY <1>0, <2>1 DEF Scan!Idle, ScanRow
  <2>4. sentLater' = sentLater
    BY <1>3 DEF Scan!StartScan
  <2> QED  BY <1>1, <1>2, <2>1, <2>2, <2>3, <2>4
<1>4. CASE Scan!SourceMissing
  <2>1. /\ scan' = [Scan!Idle EXCEPT !.pc = "done", !.report = "source_missing"]
        /\ UNCHANGED <<sent, sentLater>>
    BY <1>4 DEF Scan!SourceMissing
  <2>2. /\ scan' \in ScanRow /\ scan'.visited = Scan!Idle.visited /\ scan'.selected = <<>>
        /\ scan'.pc = "done" /\ scan'.names = {} /\ scan'.keys = {} /\ scan'.room = <<>>
    BY <1>0, <2>1 DEF Scan!Idle, ScanRow
  <2> QED  BY <1>1, <1>2, <2>1, <2>2
<1>5. CASE Scan!StartCollect
  <2>1. PICK finds \in Searches, room \in GoalBands :
           scan' = [Scan!Idle EXCEPT !.pc = "collect", !.finds = finds, !.room = room]
    BY <1>5 DEF Scan!StartCollect
  <2>2. finds \in Seq(Seq(Listings))
    BY DEF Scan!CandidateScanAssumption
  <2>3. /\ scan' \in ScanRow /\ scan'.visited = Scan!Idle.visited /\ scan'.selected = <<>>
        /\ scan'.pc = "collect" /\ scan'.names = {} /\ scan'.keys = {} /\ scan'.room = room
    BY <1>0, <2>1, <2>2 DEF Scan!Idle, ScanRow
  <2>4. UNCHANGED <<sent, sentLater>>
    BY <1>5 DEF Scan!StartCollect
  <2> QED  BY <1>1, <1>2, <2>3, <2>4
<1> QED  BY <1>3, <1>4, <1>5

LEMMA PageStep ==
    ASSUME Scan!CandidateScanAssumption, ScanInv, Scan!ScanPage
    PROVE ScanInv'
<1>1. PICK site \in Sites \cup {<<>>} : site = scan.site
  BY DEF ScanInv, ScanTyped, ScanRow
<1>2. scan \in ScanRow /\ IsFiniteSet(scan.visited) /\ UNCHANGED <<sent, sentLater>>
  BY DEF ScanInv, ScanTyped, Scan!ScanPage
<1>3. ASSUME scan' \in ScanRow, IsFiniteSet(scan'.visited),
             scan'.pc \in {"page", "cards"} => scan'.page \in 0..Len(scan'.site),
             scan'.selected = scan.selected, scan'.room = scan.room,
             scan'.names = scan.names, scan'.keys = scan.keys
      PROVE ScanInv'
  BY <1>2, <1>3, NothingMore DEF ScanInv, ScanTyped
<1>4. \/ \E report \in {"exhausted", "ready", "human_required"} :
           scan' = [scan EXCEPT !.pc = "done", !.report = report]
      \/ /\ scan.page \notin scan.visited \cup {Scan!NoPage}
         /\ scan' = [scan EXCEPT !.pc = "cards", !.visited = @ \cup {scan.page},
                                 !.cards = site[scan.page].cards, !.page = site[scan.page].next]
  BY <1>1, Zenon DEF Scan!ScanPage
<1>5. CASE \E report \in {"exhausted", "ready", "human_required"} :
             scan' = [scan EXCEPT !.pc = "done", !.report = report]
  BY <1>2, <1>3, <1>5 DEF ScanRow
<1>6. CASE /\ scan.page \notin scan.visited \cup {Scan!NoPage}
           /\ scan' = [scan EXCEPT !.pc = "cards", !.visited = @ \cup {scan.page},
                                   !.cards = site[scan.page].cards, !.page = site[scan.page].next]
  <2>1. scan.pc = "page"
    BY DEF Scan!ScanPage
  <2>2. scan.page \in 1..Len(site) /\ scan.page \in Nat
    BY <1>1, <1>6, <2>1 DEF ScanInv, ScanTyped, Scan!NoPage, ScanRow
  <2>3. PICK page \in SitePage : page = site[scan.page]
    <3>1. site \in Sites
      BY <2>2
    <3>2. Sites \subseteq Seq(SitePage)
      BY DEF Scan!CandidateScanAssumption, SitePage
    <3> QED  BY <2>2, <3>1, <3>2
  <2>4. IsFiniteSet(scan.visited \cup {scan.page})
    BY <1>2, FS_AddElement
  <2>5. site[scan.page].next \in 0..Len(site)
    BY <1>1, <2>2, <2>3 DEF Scan!CandidateScanAssumption, SitePage
  <2>6. PICK cards \in Seq(Listings), next \in Nat :
           /\ next \in 0..Len(site) /\ cards = site[scan.page].cards /\ next = site[scan.page].next
    BY <2>3, <2>5 DEF SitePage
  <2>7. scan' = [scan EXCEPT !.pc = "cards", !.visited = scan.visited \cup {scan.page},
                             !.cards = cards, !.page = next]
    BY <1>6, <2>6
  <2>8. scan' \in ScanRow
    BY <1>2, <2>2, <2>7 DEF ScanRow
  <2>9. /\ scan'.visited = scan.visited \cup {scan.page} /\ scan'.page = next
        /\ scan'.site = site /\ scan'.selected = scan.selected /\ scan'.room = scan.room
        /\ scan'.names = scan.names /\ scan'.keys = scan.keys
    BY <1>1, <1>2, <2>7 DEF ScanRow
  <2> QED  BY <1>3, <2>4, <2>6, <2>8, <2>9
<1> QED  BY <1>4, <1>5, <1>6

LEMMA VerdictTyped == ASSUME NEW card \in Listings PROVE Scan!Verdict(card) \in Verdicts
  BY Zenon DEF Scan!Verdict, Verdicts

LEMMA ScanFields ==
    ASSUME scan \in ScanRow
    PROVE /\ <<>> \in Seq(Listings) /\ scan.cards \in Seq(Listings) /\ scan.finds \in Seq(Seq(Listings))
          /\ scan.selected \in Seq(Listings) /\ scan.country \in Nat
          /\ scan.items \in Seq([card : Listings, verdict : Verdicts])
          /\ scan.names \in SUBSET {card.name : card \in Listings}
          /\ scan.keys \in SUBSET {card.key : card \in Listings}
  BY DEF ScanRow

LEMMA CardStep ==
    ASSUME Scan!CandidateScanAssumption, ScanInv, Scan!ScanCard
    PROVE ScanInv'
<1>1. scan \in ScanRow /\ scan.pc = "cards" /\ scan.page \in 0..Len(scan.site)
  BY DEF ScanInv, ScanTyped, Scan!ScanCard
<1>2. UNCHANGED <<sent, sentLater>>
  BY DEF Scan!ScanCard
<1>3. ASSUME scan' \in ScanRow, scan'.visited = scan.visited, scan'.page = scan.page,
             scan'.site = scan.site, Chosen'
      PROVE ScanInv'
  BY <1>1, <1>2, <1>3 DEF ScanInv, ScanTyped
<1>4. CASE scan' = [scan EXCEPT !.pc = "page", !.cards = <<>>]
  <2>0. PICK none \in Seq(Listings) : none = <<>>
    BY <1>1, ScanFields, Zenon
  <2>1. /\ scan' \in ScanRow /\ scan'.visited = scan.visited /\ scan'.page = scan.page
        /\ scan'.site = scan.site /\ scan'.selected = scan.selected /\ scan'.room = scan.room
        /\ scan'.names = scan.names /\ scan'.keys = scan.keys
    <3>1. scan' = [scan EXCEPT !.pc = "page", !.cards = none]
      BY <1>4, <2>0
    <3> QED  BY <1>1, <3>1 DEF ScanRow
  <2> QED  BY <1>2, <1>3, <2>1, NothingMore
<1>5. CASE ~(scan.cards = <<>> \/ Len(scan.selected) >= MaxCandidates)
  <2>1. PICK card \in Listings, rest \in Seq(Listings) : card = Head(scan.cards) /\ rest = Tail(scan.cards)
    <3>1. scan.cards \in Seq(Listings) /\ scan.cards # <<>>
      BY <1>1, <1>5, ScanFields
    <3>2. Head(scan.cards) \in Listings /\ Tail(scan.cards) \in Seq(Listings)
      BY <3>1
    <3> QED  BY <3>2, Zenon
  <2>2. PICK verdict \in Verdicts : verdict = Scan!Verdict(card)
    BY VerdictTyped
  <2>3. verdict = "eligible" => Scan!Candidate(card)
    BY <2>2, Zenon DEF Scan!Verdict
  <2>4. PICK items \in Seq([card : Listings, verdict : Verdicts]) :
           items = Append(scan.items, [card |-> card, verdict |-> verdict])
    <3>1. PICK item \in [card : Listings, verdict : Verdicts] : item = [card |-> card, verdict |-> verdict]
      OBVIOUS
    <3>2. Append(scan.items, item) \in Seq([card : Listings, verdict : Verdicts])
      BY <1>1, ScanFields, SequenceSteps
    <3> QED  BY <3>1, <3>2, Zenon
  <2>5. PICK names \in SUBSET {c.name : c \in Listings} :
           names = IF Scan!Candidate(card) THEN scan.names \cup {card.name} ELSE scan.names
    BY <1>1, ScanFields
  <2>6. PICK keys \in SUBSET {c.key : c \in Listings} :
           keys = IF Scan!Candidate(card) THEN scan.keys \cup {card.key} ELSE scan.keys
    BY <1>1, ScanFields
  <2>7. PICK selected \in Seq(Listings) :
           selected = IF verdict = "eligible" THEN Append(scan.selected, card) ELSE scan.selected
    <3>1. scan.selected \in Seq(Listings) /\ Append(scan.selected, card) \in Seq(Listings)
      BY <1>1, ScanFields, SequenceSteps
    <3> QED  BY <3>1, Zenon
  <2>8. scan' = [scan EXCEPT !.cards = rest, !.items = items, !.names = names, !.keys = keys,
                             !.selected = selected]
    BY <1>5, <2>1, <2>2, <2>4, <2>5, <2>6, <2>7, Zenon DEF Scan!ScanCard
  <2>9. /\ scan' \in ScanRow /\ scan'.visited = scan.visited /\ scan'.page = scan.page
        /\ scan'.site = scan.site /\ scan'.selected = selected /\ scan'.room = scan.room
        /\ scan'.names = names /\ scan'.keys = keys
    BY <1>1, <2>8 DEF ScanRow
  <2>10. Chosen'
    <3>1. CASE verdict = "eligible"
      <4>1. Len(scan.selected) < MaxCandidates
        BY <1>1, <1>5 DEF ScanRow, Scan!CandidateScanAssumption
      <4>2. /\ selected = Append(scan.selected, card) /\ names = scan.names \cup {card.name}
            /\ keys = scan.keys \cup {card.key}
        BY <2>3, <2>5, <2>6, <2>7, <3>1
      <4>3. Taken(selected, names, keys) /\ RoomKept(selected, scan.room) /\ UnsentAtFirst(selected)
        BY <2>2, <3>1, <4>1, <4>2, TakeKeeps
      <4> QED  BY <1>2, <2>9, <4>3 DEF Chosen, UnsentAtFirst
    <3>2. CASE verdict # "eligible"
      BY <1>2, <2>5, <2>6, <2>7, <2>9, <3>2, NothingMore
    <3> QED  BY <3>1, <3>2
  <2> QED  BY <1>3, <2>9, <2>10
<1> QED  BY <1>4, <1>5 DEF Scan!ScanCard

LEMMA CollectStep ==
    ASSUME Scan!CandidateScanAssumption, ScanInv, Scan!Collect
    PROVE ScanInv'
<1>1. scan \in ScanRow /\ scan.pc = "collect" /\ IsFiniteSet(scan.visited)
  BY DEF ScanInv, ScanTyped, Scan!Collect
<1>2. UNCHANGED <<sent, sentLater>>
  BY DEF Scan!Collect
<1> DEFINE at == Scan!Cardinality(scan.visited) + 1
<1>3. at \in Nat /\ at >= 1
  <2>1. Scan!Cardinality(scan.visited) = Cardinality(scan.visited)
    BY DEF Scan!Cardinality, Cardinality
  <2>2. Cardinality(scan.visited) \in Nat
    BY <1>1, FS_CardinalityType
  <2> QED  BY <2>1, <2>2
<1>4. ASSUME scan' \in ScanRow, IsFiniteSet(scan'.visited), scan'.pc \in {"collect", "done"}, Chosen'
      PROVE ScanInv'
  BY <1>2, <1>4 DEF ScanInv, ScanTyped
<1>5. CASE \E report \in {"ready", "error"} : scan' = [scan EXCEPT !.pc = "done", !.report = report]
  <2>1. /\ scan' \in ScanRow /\ scan'.visited = scan.visited /\ scan'.pc = "done"
        /\ scan'.selected = scan.selected /\ scan'.room = scan.room
        /\ scan'.names = scan.names /\ scan'.keys = scan.keys
    BY <1>1, <1>5, ZenonT(40) DEF ScanRow
  <2> QED  BY <1>1, <1>2, <1>4, <2>1, NothingMore
<1>6. CASE scan' = [scan EXCEPT !.visited = @ \cup {at}, !.country = 0]
  <2>1. /\ scan' \in ScanRow /\ scan'.visited = scan.visited \cup {at} /\ scan'.pc = "collect"
        /\ scan'.selected = scan.selected /\ scan'.room = scan.room
        /\ scan'.names = scan.names /\ scan'.keys = scan.keys
    <3>1. PICK source \in Nat : source = at
      BY <1>3, Zenon
    <3>2. scan' = [scan EXCEPT !.visited = scan.visited \cup {source}, !.country = 0]
      BY <1>6, <3>1
    <3> HIDE DEF at
    <3> QED  BY <1>1, <3>1, <3>2 DEF ScanRow
  <2>2. IsFiniteSet(scan'.visited)
    BY <1>1, <2>1, FS_AddElement
  <2> QED  BY <1>2, <1>4, <2>1, <2>2, NothingMore
<1>7. CASE /\ ~(Len(scan.selected) >= MaxCandidates \/ at > Len(scan.finds))
           /\ scan.finds[at] # <<>>
           /\ LET card == Head(scan.finds[at])
                  rest == [scan EXCEPT !.finds[at] = Tail(@)]
              IN scan' = IF Scan!Verdict(card) # "eligible" THEN rest
                         ELSE [rest EXCEPT !.selected = Append(@, card),
                                 !.names = @ \cup {card.name}, !.keys = @ \cup {card.key},
                                 !.country = @ + 1]
  <2>1. at \in DOMAIN scan.finds /\ Len(scan.selected) < MaxCandidates
    BY <1>1, <1>3, <1>7 DEF ScanRow, Scan!CandidateScanAssumption
  <2>2. PICK found \in Seq(Listings) : found = scan.finds[at] /\ found # <<>>
    BY <1>1, <1>7, <2>1 DEF ScanRow
  <2>3. PICK card \in Listings : card = Head(found)
    BY <2>2
  <2>4. PICK finds \in Seq(Seq(Listings)) : finds = [scan.finds EXCEPT ![at] = Tail(found)]
    <3>1. Tail(found) \in Seq(Listings)
      BY <2>2
    <3>2. [scan.finds EXCEPT ![at] = Tail(found)] \in Seq(Seq(Listings))
      BY <1>1, <2>1, <3>1, ScanFields, SequenceSteps
    <3> QED  BY <3>2, Zenon
  <2>5. PICK rest \in ScanRow : rest = [scan EXCEPT !.finds = finds]
    BY <1>1 DEF ScanRow
  <2>6. scan' = IF Scan!Verdict(card) # "eligible" THEN rest
                ELSE [rest EXCEPT !.selected = Append(@, card), !.names = @ \cup {card.name},
                                  !.keys = @ \cup {card.key}, !.country = @ + 1]
    BY <1>7, <2>2, <2>3, <2>4, <2>5
  <2>7. /\ rest.visited = scan.visited /\ rest.pc = "collect" /\ rest.selected = scan.selected
        /\ rest.room = scan.room /\ rest.names = scan.names /\ rest.keys = scan.keys
    BY <1>1, <2>5 DEF ScanRow
  <2>8. CASE Scan!Verdict(card) # "eligible"
    BY <1>1, <1>2, <1>4, <2>6, <2>7, <2>8, NothingMore
  <2>9. CASE Scan!Verdict(card) = "eligible"
    <3>0. PICK selected \in Seq(Listings), names \in SUBSET {c.name : c \in Listings},
               keys \in SUBSET {c.key : c \in Listings}, country \in Nat :
             /\ selected = Append(scan.selected, card) /\ names = scan.names \cup {card.name}
             /\ keys = scan.keys \cup {card.key} /\ country = rest.country + 1
      <4>1. rest.country \in Nat
        BY DEF ScanRow
      <4>2. /\ Append(scan.selected, card) \in Seq(Listings)
            /\ scan.names \cup {card.name} \in SUBSET {c.name : c \in Listings}
            /\ scan.keys \cup {card.key} \in SUBSET {c.key : c \in Listings}
            /\ rest.country + 1 \in Nat
        BY <1>1, <4>1, ScanFields, SequenceSteps
      <4> QED  BY <4>2, Zenon
    <3>1. scan' = [rest EXCEPT !.selected = selected, !.names = names, !.keys = keys, !.country = country]
      BY <2>6, <2>7, <2>9, <3>0, Zenon
    <3>2. /\ scan' \in ScanRow /\ scan'.visited = scan.visited /\ scan'.pc = "collect"
          /\ scan'.selected = Append(scan.selected, card) /\ scan'.room = scan.room
          /\ scan'.names = scan.names \cup {card.name} /\ scan'.keys = scan.keys \cup {card.key}
      BY <2>7, <3>0, <3>1 DEF ScanRow
    <3>3. Chosen'
      <4>1. /\ Taken(scan'.selected, scan'.names, scan'.keys) /\ RoomKept(scan'.selected, scan'.room)
            /\ UnsentAtFirst(scan'.selected)
        BY <2>1, <2>9, <3>2, TakeKeeps
      <4> QED  BY <1>2, <4>1 DEF Chosen, UnsentAtFirst
    <3> QED  BY <1>1, <1>4, <3>2, <3>3
  <2> QED  BY <2>8, <2>9
<1> QED  BY <1>5, <1>6, <1>7, Zenon DEF Scan!Collect

LEMMA FailStep ==
    ASSUME Scan!CandidateScanAssumption, ScanInv, Scan!CollectFails
    PROVE ScanInv'
<1>1. /\ scan \in ScanRow /\ IsFiniteSet(scan.visited) /\ UNCHANGED <<sent, sentLater>>
      /\ scan' = [scan EXCEPT !.pc = "done", !.report = "error", !.selected = <<>>]
  BY DEF ScanInv, ScanTyped, Scan!CollectFails
<1>2. /\ scan' \in ScanRow /\ scan'.visited = scan.visited /\ scan'.pc = "done"
      /\ scan'.selected = <<>> /\ scan'.room = scan.room
  <2>1. PICK none \in Seq(Listings) : none = <<>>
    BY <1>1, ScanFields, Zenon
  <2>2. scan' = [scan EXCEPT !.pc = "done", !.report = "error", !.selected = none]
    BY <1>1, <2>1
  <2> QED  BY <1>1, <2>1, <2>2, ZenonT(40) DEF ScanRow
<1>3. Chosen'
  <2>1. scan'.room \in GoalBands \cup {<<>>}
    BY <1>2 DEF ScanRow
  <2> QED  BY <1>2, <2>1, NothingTaken DEF Chosen, UnsentAtFirst
<1> QED  BY <1>1, <1>2, <1>3 DEF ScanInv, ScanTyped

LEMMA ElsewhereStep == ASSUME ScanInv, Scan!SubmittedElsewhere PROVE ScanInv'
<1>1. PICK n \in ScanNames \ sent :
         /\ sent' = sent \cup {n}
         /\ sentLater' = IF \E i \in DOMAIN scan.selected : scan.selected[i].name = n
                         THEN sentLater \cup {n} ELSE sentLater
  BY DEF Scan!SubmittedElsewhere
<1>2. scan' = scan
  BY DEF Scan!SubmittedElsewhere
<1>3. ScanTyped'
  BY <1>1, <1>2 DEF ScanInv, ScanTyped
<1>4. UnsentAtFirst(scan.selected)'
  BY <1>1, <1>2 DEF ScanInv, Chosen, UnsentAtFirst
<1>5. Taken(scan.selected, scan.names, scan.keys)' /\ RoomKept(scan.selected, scan.room)'
  BY <1>2 DEF ScanInv, Chosen, Taken, RoomKept, Tally
<1> QED  BY <1>3, <1>4, <1>5 DEF ScanInv, Chosen

LEMMA ScanKept ==
    ASSUME Scan!CandidateScanAssumption, ScanInv, [Scan!Next]_(Scan!vars)
    PROVE ScanInv'
<1>1. CASE UNCHANGED Scan!vars
  BY <1>1 DEF Scan!vars, ScanInv, ScanTyped, Chosen, Taken, RoomKept, UnsentAtFirst, Tally
<1> QED
  BY <1>1, StartSteps, PageStep, CardStep, CollectStep, FailStep, ElsewhereStep
     DEF Scan!Next, Scan!ScanStep

LEMMA ScanShows ==
    ASSUME ScanInv PROVE Scan!SelectionIsSafe /\ Scan!TypeOK
<1>1. Scan!TypeOK
  BY DEF ScanInv, ScanTyped, ScanRow, Scan!TypeOK
<1>2. \A b : Scan!Count(b) = Tally(scan.selected, b)
  BY CountIsTally
<1>3. Scan!SelectionIsSafe
  BY <1>2 DEF ScanInv, Chosen, Taken, RoomKept, UnsentAtFirst, Scan!SelectionIsSafe
<1> QED  BY <1>1, <1>3

-----------------------------------------------------------------------------
\* Market fit.  What is written deletes what was derived from it; a request that was
\* under way meanwhile saves what is then marked late.

Opp == [on : {TRUE}, text : Texts, resume : FitResumes, track : Tracks]
CampaignName == Campaigns \cup {"none"}
Demand == [on : {TRUE}, content : FitContents, verified : BOOLEAN, text : Texts, late : BOOLEAN]
FitSource == [resume : FitResumes, track : Tracks, demand : FitContents, campaign : CampaignName]
PrepSource == [resume : FitResumes, demand : FitContents]
FitRow == [on : {TRUE}, of : FitSource, late : BOOLEAN]
PrepRow == [on : {TRUE}, of : PrepSource, approved : BOOLEAN, late : BOOLEAN]
Op == {"none", "describe", "choose", "classify", "draft", "approve", "assess", "prepare",
       "campaign", "save", "generate", "approve_prep"}
Call == [op : Op, opp : {Fit!None} \cup Opp, demand : {Fit!None} \cup Demand,
         campaign : CampaignName, prep : {Fit!None} \cup PrepRow]

FitTyped ==
    /\ opp \in Opp /\ campaign \in CampaignName
    /\ demand \in {Fit!None} \cup Demand
    /\ fit \in {Fit!None} \cup FitRow /\ prep \in {Fit!None} \cup PrepRow
    /\ call \in [Handlers -> Call]

\* What a request has read so far is there.
HasRead(c) ==
    /\ c.op \in {"draft", "assess", "prepare", "describe", "choose", "classify"} => c.opp \in Opp
    /\ c.op \in {"campaign", "save", "generate"} => c.opp \in Opp /\ c.demand \in Demand
    /\ c.op = "generate" => c.demand.verified
    /\ c.op = "approve_prep" => c.prep \in PrepRow

FitInv == /\ FitTyped /\ Fit!JudgementsAreFresh
          /\ \A h \in Handlers : HasRead(call[h])

LEMMA NoneIsOff == Fit!None.on = FALSE /\ Fit!None \notin Opp \cup Demand \cup FitRow \cup PrepRow
  BY DEF Fit!None, Opp, Demand, FitRow, PrepRow

LEMMA QuietTyped == Fit!Quiet \in Call /\ HasRead(Fit!Quiet)
  BY DEF Fit!Quiet, Call, Op, CampaignName, HasRead

\* A request goes on, or ends; nothing else is left to show of it.
LEMMA CallBecomes ==
    ASSUME FitInv, NEW h \in Handlers, NEW c \in Call, HasRead(c), call' = [call EXCEPT ![h] = c]
    PROVE call' \in [Handlers -> Call] /\ \A i \in Handlers : HasRead(call'[i])
  BY DEF FitInv, FitTyped

LEMMA Reads ==
    ASSUME FitInv, NEW h \in Handlers,
           Fit!Begin(h) \/ Fit!ReadDemand(h) \/ Fit!ReadPrep(h) \/ Fit!Refused(h)
    PROVE FitInv'
<1>1. /\ call[h] \in Call /\ HasRead(call[h]) /\ opp \in Opp
      /\ demand \in {Fit!None} \cup Demand /\ prep \in {Fit!None} \cup PrepRow
  BY DEF FitInv, FitTyped
<1>2. UNCHANGED <<opp, campaign, demand, fit, prep>>
  BY DEF Fit!Begin, Fit!ReadDemand, Fit!ReadPrep, Fit!Refused, Fit!derived
<1>3. PICK c : c \in Call /\ HasRead(c) /\ call' = [call EXCEPT ![h] = c]
  <2>1. CASE Fit!Begin(h)
    <3>1. PICK op \in {"describe", "choose", "classify", "draft", "approve", "assess", "prepare"} :
             call' = [call EXCEPT ![h] = [Fit!Quiet EXCEPT !.op = op, !.opp = opp]]
      BY <2>1 DEF Fit!Begin
    <3>2. PICK c : c = [Fit!Quiet EXCEPT !.op = op, !.opp = opp]
      OBVIOUS
    <3>3. c.op = op /\ c.opp = opp /\ c \in Call
      BY <1>1, <3>2, QuietTyped DEF Call, Op
    <3>4. HasRead(c)
      BY <1>1, <3>3 DEF HasRead
    <3> QED  BY <3>1, <3>2, <3>3, <3>4
  <2>2. CASE Fit!ReadDemand(h)
    <3>1. demand \in Demand /\ (call[h].op = "prepare" => demand.verified)
      BY <1>1, <2>2, NoneIsOff DEF Fit!ReadDemand
    <3>2. PICK op : op = IF call[h].op = "assess" THEN "campaign" ELSE "generate"
      OBVIOUS
    <3>3. PICK c : c = [call[h] EXCEPT !.demand = demand, !.op = op]
      OBVIOUS
    <3>4. c \in Call /\ c.op = op /\ c.demand = demand /\ c.opp = call[h].opp
      BY <1>1, <3>1, <3>2, <3>3 DEF Call, Op
    <3>5. call[h].op \in {"assess", "prepare"} /\ call[h].opp \in Opp
      BY <1>1, <2>2 DEF Fit!ReadDemand, HasRead
    <3>6. HasRead(c)
      BY <3>1, <3>2, <3>4, <3>5 DEF HasRead
    <3>7. call' = [call EXCEPT ![h].demand = demand, ![h].op = op]
      BY <2>2, <3>2, Zenon DEF Fit!ReadDemand
    <3>8. call' = [call EXCEPT ![h] = c]
      BY <3>3, <3>7, Zenon
    <3> QED  BY <3>4, <3>6, <3>8
  <2>3. CASE Fit!ReadPrep(h)
    <3>1. prep \in PrepRow
      BY <1>1, <2>3, NoneIsOff DEF Fit!ReadPrep
    <3>2. PICK c : c = [Fit!Quiet EXCEPT !.op = "approve_prep", !.prep = prep]
      OBVIOUS
    <3>3. c.op = "approve_prep" /\ c.prep = prep /\ c \in Call
      BY <3>1, <3>2, QuietTyped DEF Call, Op
    <3>4. HasRead(c)
      BY <3>1, <3>3 DEF HasRead
    <3> QED  BY <2>3, <3>2, <3>3, <3>4 DEF Fit!ReadPrep
  <2>4. CASE Fit!Refused(h)
    BY <2>4, QuietTyped DEF Fit!Refused, Fit!Finished
  <2> QED  BY <2>1, <2>2, <2>3, <2>4
<1>4. call' \in [Handlers -> Call] /\ \A i \in Handlers : HasRead(call'[i])
  BY <1>3, CallBecomes
<1> QED  BY <1>2, <1>4 DEF FitInv, FitTyped, Fit!JudgementsAreFresh, Fit!FitSources,
            Fit!PrepSources

\* update_opportunity: what changes is what its dependents are deleted for.
LEMMA UpdateStep ==
    ASSUME FitInv, NEW h \in Handlers, Fit!Update(h)
    PROVE FitInv'
<1>1. /\ opp \in Opp /\ demand \in {Fit!None} \cup Demand /\ prep \in {Fit!None} \cup PrepRow
      /\ fit \in {Fit!None} \cup FitRow /\ campaign \in CampaignName
      /\ Fit!JudgementsAreFresh
  BY DEF FitInv, FitTyped
<1>2. PICK op : op = call[h].op
  OBVIOUS
<1>3. /\ op \in {"describe", "choose", "classify"} /\ opp' \in Fit!Changed(opp, op)
      /\ demand' = IF op = "describe" THEN Fit!None ELSE demand
      /\ fit' = Fit!None /\ prep' = Fit!None /\ campaign' = campaign /\ Fit!Finished(h)
  BY <1>2 DEF Fit!Update, Fit!Dependents
<1>4. opp' \in Opp /\ (op # "describe" => opp'.text = opp.text)
  <2>1. CASE op = "describe"
    <3>1. PICK x \in Texts : opp' = [opp EXCEPT !.text = x]
      BY <1>3, <2>1 DEF Fit!Changed
    <3> QED  BY <1>1, <2>1, <3>1 DEF Opp
  <2>2. CASE op = "choose"
    <3>1. PICK x \in FitResumes : opp' = [opp EXCEPT !.resume = x]
      BY <1>3, <2>2 DEF Fit!Changed
    <3> QED  BY <1>1, <3>1 DEF Opp
  <2>3. CASE op = "classify"
    <3>1. PICK x \in Tracks : opp' = [opp EXCEPT !.track = x]
      BY <1>3, <2>3 DEF Fit!Changed
    <3> QED  BY <1>1, <3>1 DEF Opp
  <2> QED  BY <1>3, <2>1, <2>2, <2>3
<1>5. Fit!JudgementsAreFresh'
  BY <1>1, <1>3, <1>4, NoneIsOff DEF Fit!JudgementsAreFresh
<1>6. call' \in [Handlers -> Call] /\ \A i \in Handlers : HasRead(call'[i])
  BY <1>3, CallBecomes, QuietTyped DEF Fit!Finished
<1> QED  BY <1>1, <1>3, <1>4, <1>5, <1>6 DEF FitInv, FitTyped

\* Demands drafted from a description that has changed since are late.
LEMMA DemandSteps ==
    ASSUME FitInv, NEW h \in Handlers, Fit!Draft(h) \/ Fit!ApproveDemands(h)
    PROVE FitInv'
<1>1. call[h] \in Call /\ HasRead(call[h]) /\ opp \in Opp /\ campaign \in CampaignName
  BY DEF FitInv, FitTyped
<1>2. PICK text \in Texts, x \in FitContents, verified \in BOOLEAN : Fit!SaveDemand(text, x, verified)
  <2>1. CASE Fit!Draft(h)
    <3>1. call[h].opp.text \in Texts
      BY <1>1, <2>1 DEF Fit!Draft, HasRead, Opp
    <3> QED  BY <2>1, <3>1 DEF Fit!Draft
  <2>2. CASE Fit!ApproveDemands(h)
    BY <1>1, <2>2 DEF Fit!ApproveDemands, Opp
  <2> QED  BY <2>1, <2>2
<1>3. UNCHANGED <<opp, campaign>> /\ Fit!Finished(h)
  BY DEF Fit!Draft, Fit!ApproveDemands
<1>4. /\ demand' \in Demand /\ fit' = Fit!None /\ prep' = Fit!None
      /\ demand'.text = text /\ (~demand'.late => text = opp.text)
  BY <1>2 DEF Fit!SaveDemand, Demand
<1>5. Fit!JudgementsAreFresh'
  BY <1>3, <1>4, NoneIsOff DEF Fit!JudgementsAreFresh
<1>6. call' \in [Handlers -> Call] /\ \A i \in Handlers : HasRead(call'[i])
  BY <1>3, CallBecomes, QuietTyped DEF Fit!Finished
<1> QED  BY <1>1, <1>3, <1>4, <1>5, <1>6 DEF FitInv, FitTyped

LEMMA CampaignSteps ==
    ASSUME FitInv, Fit!SaveCampaign \/ \E h \in Handlers : Fit!ReadCampaign(h)
    PROVE FitInv'
<1>1. /\ opp \in Opp /\ demand \in {Fit!None} \cup Demand /\ prep \in {Fit!None} \cup PrepRow
      /\ fit \in {Fit!None} \cup FitRow /\ campaign \in CampaignName
      /\ Fit!JudgementsAreFresh
  BY DEF FitInv, FitTyped
<1>2. UNCHANGED <<opp, demand, prep>>
  BY DEF Fit!SaveCampaign, Fit!ReadCampaign
<1>3. /\ campaign' \in CampaignName
      /\ fit' = Fit!None \/ (fit' = fit /\ campaign' = campaign)
  BY <1>1 DEF Fit!SaveCampaign, Fit!ReadCampaign, CampaignName
<1>4. Fit!JudgementsAreFresh'
  BY <1>1, <1>2, <1>3, NoneIsOff DEF Fit!JudgementsAreFresh, Fit!FitSources, Fit!PrepSources
<1>5. call' \in [Handlers -> Call] /\ \A i \in Handlers : HasRead(call'[i])
  <2>1. CASE Fit!SaveCampaign
    BY <2>1 DEF Fit!SaveCampaign, FitInv, FitTyped
  <2>2. ASSUME NEW h \in Handlers, Fit!ReadCampaign(h)
        PROVE call' \in [Handlers -> Call] /\ \A i \in Handlers : HasRead(call'[i])
    <3>1. PICK name \in Campaigns :
             /\ call[h].op = "campaign"
             /\ call' = [call EXCEPT ![h].op = "save", ![h].campaign = name]
      BY <2>2 DEF Fit!ReadCampaign
    <3>2. call[h] \in Call /\ HasRead(call[h])
      BY DEF FitInv, FitTyped
    <3>3. PICK c : c = [call[h] EXCEPT !.op = "save", !.campaign = name]
      OBVIOUS
    <3>4. c \in Call /\ c.op = "save" /\ c.opp = call[h].opp /\ c.demand = call[h].demand
      BY <3>2, <3>3 DEF Call, Op, CampaignName
    <3>5. HasRead(c)
      BY <3>1, <3>2, <3>4 DEF HasRead
    <3>6. call' = [call EXCEPT ![h] = c]
      BY <3>1, <3>3, Zenon
    <3> QED  BY <3>4, <3>5, <3>6, CallBecomes
  <2> QED  BY <2>1, <2>2
<1> QED  BY <1>1, <1>2, <1>3, <1>4, <1>5 DEF FitInv, FitTyped

\* What was assessed or prepared from sources that are on record no more is late.
LEMMA SaveSteps ==
    ASSUME FitInv, NEW h \in Handlers, Fit!SaveAssessment(h) \/ Fit!SavePrep(h) \/ Fit!ApprovePrep(h)
    PROVE FitInv'
<1>1. /\ call[h] \in Call /\ HasRead(call[h])
      /\ opp \in Opp /\ demand \in {Fit!None} \cup Demand /\ prep \in {Fit!None} \cup PrepRow
      /\ fit \in {Fit!None} \cup FitRow /\ campaign \in CampaignName
      /\ Fit!JudgementsAreFresh
  BY DEF FitInv, FitTyped
<1>2. UNCHANGED <<opp, campaign, demand>> /\ Fit!Finished(h)
  BY DEF Fit!SaveAssessment, Fit!SavePrep, Fit!ApprovePrep
<1>3. call' \in [Handlers -> Call] /\ \A i \in Handlers : HasRead(call'[i])
  BY <1>2, CallBecomes, QuietTyped DEF Fit!Finished
<1>4. PICK c : c = call[h]
  OBVIOUS
<1>5. CASE Fit!SaveAssessment(h)
  <2>1. PICK of : of = Fit!FitSources(c.opp, c.demand, c.campaign)
    OBVIOUS
  <2>2. /\ c.demand.verified /\ prep' = prep
        /\ fit' = [on |-> TRUE, of |-> of,
                   late |-> ~demand.on \/ c.demand # demand
                              \/ of # Fit!FitSources(opp, c.demand, campaign)]
    BY <1>4, <1>5, <2>1, Zenon DEF Fit!SaveAssessment
  <2>3. c.opp \in Opp /\ c.demand \in Demand /\ c.campaign \in CampaignName
    BY <1>1, <1>4, <1>5 DEF Fit!SaveAssessment, HasRead, Call
  <2>4. of \in FitSource
    BY <2>1, <2>3 DEF Fit!FitSources, FitSource, Opp, Demand
  <2>5. /\ fit' \in FitRow /\ fit'.of = of
        /\ ~fit'.late => demand.on /\ c.demand = demand /\ of = Fit!FitSources(opp, demand, campaign)
    BY <2>2, <2>4 DEF FitRow
  <2>6. Fit!JudgementsAreFresh'
    BY <1>1, <1>2, <2>2, <2>5 DEF Fit!JudgementsAreFresh, Fit!FitSources, Fit!PrepSources
  <2> QED  BY <1>1, <1>2, <1>3, <2>2, <2>5, <2>6 DEF FitInv, FitTyped
<1>6. CASE Fit!SavePrep(h)
  <2>1. PICK of : of = Fit!PrepSources(c.opp, c.demand)
    OBVIOUS
  <2>2. /\ fit' = fit
        /\ prep' = [on |-> TRUE, of |-> of, approved |-> FALSE,
                    late |-> ~demand.on \/ c.demand # demand
                               \/ of # Fit!PrepSources(opp, c.demand)]
    BY <1>4, <1>6, <2>1, Zenon DEF Fit!SavePrep
  <2>3. c.opp \in Opp /\ c.demand \in Demand /\ c.demand.verified
    BY <1>1, <1>4, <1>6 DEF Fit!SavePrep, HasRead
  <2>4. of \in PrepSource
    BY <2>1, <2>3 DEF Fit!PrepSources, PrepSource, Opp, Demand
  <2>5. /\ prep' \in PrepRow /\ prep'.of = of
        /\ ~prep'.late => demand.on /\ c.demand = demand /\ of = Fit!PrepSources(opp, demand)
    BY <2>2, <2>4 DEF PrepRow
  <2>6. Fit!JudgementsAreFresh'
    BY <1>1, <1>2, <2>2, <2>3, <2>5 DEF Fit!JudgementsAreFresh, Fit!FitSources, Fit!PrepSources
  <2> QED  BY <1>1, <1>2, <1>3, <2>2, <2>5, <2>6 DEF FitInv, FitTyped
<1>7. CASE Fit!ApprovePrep(h)
  <2>1. PICK old, late : old = c.prep /\ late = (old.late \/ prep # old)
    OBVIOUS
  <2>2. old \in PrepRow
    BY <1>1, <1>4, <1>7, <2>1 DEF Fit!ApprovePrep, HasRead
  <2>3. fit' = fit /\ prep' = [old EXCEPT !.approved = TRUE, !.late = late]
    BY <1>4, <1>7, <2>1, Zenon DEF Fit!ApprovePrep
  <2>4. old.late \in BOOLEAN
    BY <2>2 DEF PrepRow
  <2>5. late \in BOOLEAN /\ (~late => prep = old /\ ~old.late)
    BY <2>1, <2>4
  <2>6. prep' \in PrepRow /\ prep'.of = old.of /\ prep'.late = late
    BY <2>2, <2>3, <2>5 DEF PrepRow
  <2>7. old.on = TRUE
    BY <2>2 DEF PrepRow
  <2>8. Fit!JudgementsAreFresh'
    BY <1>1, <1>2, <2>3, <2>5, <2>6, <2>7 DEF Fit!JudgementsAreFresh, Fit!FitSources, Fit!PrepSources
  <2> QED  BY <1>1, <1>2, <1>3, <2>3, <2>6, <2>8 DEF FitInv, FitTyped
<1> QED  BY <1>5, <1>6, <1>7

LEMMA FitTypes == ASSUME FitInv PROVE Fit!TypeOK
  BY NoneIsOff DEF FitInv, FitTyped, Fit!TypeOK, Opp, CampaignName, Demand, PrepRow

LEMMA FitInit == ASSUME Fit!MarketFitAssumption, Fit!Init PROVE FitInv
<1>1. /\ demand = Fit!None /\ fit = Fit!None /\ prep = Fit!None
      /\ opp \in Opp /\ campaign \in CampaignName
  BY DEF Fit!Init, Opp, CampaignName, Fit!MarketFitAssumption
<1>2. call \in [Handlers -> Call] /\ \A h \in Handlers : HasRead(call[h])
  BY QuietTyped DEF Fit!Init
<1>3. Fit!JudgementsAreFresh
  BY <1>1, NoneIsOff DEF Fit!JudgementsAreFresh
<1> QED  BY <1>1, <1>2, <1>3 DEF FitInv, FitTyped

LEMMA FitKept ==
    ASSUME Fit!MarketFitAssumption, FitInv, [Fit!Next]_(Fit!vars) PROVE FitInv'
<1>1. ASSUME NEW h \in Handlers, Fit!Step(h) PROVE FitInv'
  BY <1>1, Reads, UpdateStep, DemandSteps, CampaignSteps, SaveSteps DEF Fit!Step
<1>2. CASE UNCHANGED Fit!vars
  BY <1>2 DEF Fit!vars, FitInv, FitTyped, Fit!JudgementsAreFresh, Fit!FitSources,
              Fit!PrepSources
<1> QED  BY <1>1, <1>2, CampaignSteps DEF Fit!Next

-----------------------------------------------------------------------------
\* Plan executor.  The submission history is reserved before the click and never
\* forgets an application, whoever dies; the ledger file may.

NoFile == [a \in {} |-> "none"]
LedgerState == {"none", "submitting", "submitted", "submission_unknown"}
HistoryState == {"none", "attempting", "unknown", "submitted"}
Ledger == [Executor!Apps -> LedgerState]
ExecPc == {"idle", "planned", "step", "load", "save", "click", "confirm", "mark", "done"}
Outcome == {"none", "planning_failed", "human_handoff", "already_submitted", "failed",
            "draft_ready", "submitted", "submission_unknown", "dead"}
ExecRow ==
    [pc : ExecPc, steps : Seq(Executor!Kinds),
     learned : {"none"} \cup {Executor!Safe(l) : l \in ExecLayouts},
     approved : BOOLEAN, writes : BOOLEAN, recorded : BOOLEAN,
     file : {NoFile} \cup Ledger, write : LedgerState, outcome : Outcome]
SendRow == [times : Nat, bare : BOOLEAN, ungated : BOOLEAN]

\* Only accepted plans of sanitized layouts are cached.
RulesTyped ==
    /\ DOMAIN rules \subseteq {Executor!Safe(l) : l \in ExecLayouts}
    /\ \A k \in DOMAIN rules : rules[k] \in Seq(Executor!Kinds)

ExecTyped ==
    /\ RulesTyped
    /\ ledger \in Ledger /\ history \in [Executor!Apps -> HistoryState]
    /\ exec \in [Runs -> ExecRow] /\ sends \in [Executor!Apps -> SendRow]

\* Before and after the click.
Reserved(row) == row.recorded /\ (row.pc = "click" \/ (row.pc \in {"load", "save"} /\ row.write = "submitting"))
Clicked(row) == row.pc \in {"confirm", "mark"} \/ (row.pc \in {"load", "save"} /\ row.write # "submitting")

\* What an execution of application a may rely on.
Under(a, row) ==
    /\ row.pc \in {"load", "save", "mark"} => row.write # "none"
    /\ row.pc = "mark" => row.write # "submitting"
    /\ row.pc = "save" => row.file \in Ledger
                          /\ \A b \in Executor!Apps : row.file[b] = "submitted" => sends[b].times > 0
    /\ Reserved(row) => history[a] # "none" /\ (sends[a].times = 0 \/ sends[a].bare)
    /\ Clicked(row) => sends[a].times > 0

\* Two executions never hold a reservation of one application.
OneReservation ==
    \A r, s \in Runs :
        Targets[r] = Targets[s] /\ Reserved(exec[r]) /\ Reserved(exec[s]) => r = s

ExecInv ==
    /\ ExecTyped /\ Executor!SentOnce /\ OneReservation
    /\ \A r \in Runs : Under(Targets[r], exec[r])

LEMMA TargetIsApp == ASSUME NEW r \in Runs PROVE Targets[r] \in Executor!Apps
  BY DEF Executor!Apps

LEMMA ExecParts ==
    ASSUME ExecInv, NEW r \in Runs
    PROVE /\ exec[r] \in ExecRow /\ Under(Targets[r], exec[r]) /\ Targets[r] \in Executor!Apps
          /\ sends[Targets[r]] \in SendRow /\ history[Targets[r]] \in HistoryState
          /\ ledger \in Ledger /\ history \in [Executor!Apps -> HistoryState]
          /\ sends \in [Executor!Apps -> SendRow] /\ Executor!SentOnce
          /\ RulesTyped
  BY TargetIsApp DEF ExecInv, ExecTyped

\* What the others rely on: sends are not taken back, a reservation does not go, and an
\* application somebody else has reserved is sent without a history at most.
SendsKept ==
    \A a \in Executor!Apps :
        /\ sends[a].times > 0 => sends'[a].times > 0
        /\ sends[a].bare => sends'[a].bare
        /\ history[a] # "none" => history'[a] # "none"
SendsAreBare(r) ==
    LET a == Targets[r] IN
    \/ Reserved(exec[r])
    \/ sends'[a].times = sends[a].times
    \/ sends'[a].bare

\* What is left to show of a step of r to row.
LEMMA ExecMoves ==
    ASSUME ExecInv, NEW r \in Runs, NEW row \in ExecRow, exec' = [exec EXCEPT ![r] = row],
           RulesTyped',
           ledger' \in Ledger, history' \in [Executor!Apps -> HistoryState],
           sends' \in [Executor!Apps -> SendRow], Executor!SentOnce', SendsKept,
           \A a \in Executor!Apps : a # Targets[r] => sends'[a].times = sends[a].times,
           SendsAreBare(r), Under(Targets[r], row)',
           Reserved(row) => Reserved(exec[r]) \/ history[Targets[r]] = "none"
    PROVE ExecInv'
<1>1. ExecTyped' /\ exec'[r] = row /\ \A s \in Runs \ {r} : exec'[s] = exec[s]
  BY DEF ExecInv, ExecTyped
<1>2. OneReservation'
  <2> SUFFICES ASSUME NEW s \in Runs, s # r, Targets[s] = Targets[r], Reserved(exec[s]),
                      Reserved(row)
               PROVE FALSE
    <3>1. ASSUME NEW p \in Runs, NEW q \in Runs, p # q, Targets[p] = Targets[q],
                 Reserved(exec'[p]), Reserved(exec'[q])
          PROVE FALSE
      <4>1. CASE p = r
        BY <1>1, <3>1, <4>1
      <4>2. CASE q = r
        BY <1>1, <3>1, <4>2
      <4>3. CASE p # r /\ q # r
        BY <1>1, <3>1, <4>3 DEF ExecInv, OneReservation
      <4> QED  BY <4>1, <4>2, <4>3
    <3>2. \A x : Reserved(x)' <=> Reserved(x)
      BY DEF Reserved
    <3> QED  BY <3>1 DEF OneReservation, Reserved
  <2>1. history[Targets[r]] # "none"
    BY ExecParts DEF Under
  <2>2. Reserved(exec[r])
    BY <2>1
  <2> QED  BY <2>2 DEF ExecInv, OneReservation
<1>3. ASSUME NEW s \in Runs PROVE Under(Targets[s], exec[s])'
  <2>1. CASE s = r
    <3>1. exec'[s] = row
      BY <1>1, <2>1
    <3> QED  BY <2>1, <3>1 DEF Under, Reserved, Clicked
  <2>2. CASE s # r
    <3>1. PICK a, x : a = Targets[s] /\ x = exec[s]
      OBVIOUS
    <3>2. /\ x \in ExecRow /\ Under(a, x) /\ a \in Executor!Apps
          /\ sends[a] \in SendRow /\ sends'[a] \in SendRow
      BY <3>1, ExecParts
    <3>3. ASSUME Reserved(x) PROVE sends'[a].times = 0 \/ sends'[a].bare
      <4>1. a = Targets[r] => ~Reserved(exec[r])
        BY <2>2, <3>1, <3>3 DEF ExecInv, OneReservation
      <4>2. sends'[a].times = sends[a].times \/ sends'[a].bare
        BY <3>2, <4>1 DEF SendsAreBare
      <4> QED  BY <3>2, <3>3, <4>2 DEF Under, SendsKept
    <3>4. Under(a, x)'
      BY <3>2, <3>3 DEF Under, SendsKept, Reserved, Clicked
    <3>5. exec'[s] = x
      BY <1>1, <2>2, <3>1
    <3> QED  BY <3>1, <3>4, <3>5 DEF Under, Reserved, Clicked
  <2> QED  BY <2>1, <2>2
<1> QED  BY <1>1, <1>2, <1>3 DEF ExecInv

\* A step of r to row that sends nothing and leaves ledger and history.
LEMMA ExecGoesOn ==
    ASSUME ExecInv, NEW r \in Runs, NEW row \in ExecRow, exec' = [exec EXCEPT ![r] = row],
           RulesTyped',
           UNCHANGED <<ledger, history, sends>>, Under(Targets[r], row),
           Reserved(row) => Reserved(exec[r])
    PROVE ExecInv'
<1>1. SendsKept /\ SendsAreBare(r) /\ Executor!SentOnce'
  BY ExecParts DEF SendsKept, SendsAreBare, Executor!SentOnce, Executor!Apps
<1>2. Under(Targets[r], row)'
  BY DEF Under, Reserved, Clicked
<1>3. ledger' \in Ledger /\ history' \in [Executor!Apps -> HistoryState]
      /\ sends' \in [Executor!Apps -> SendRow]
  BY DEF ExecInv, ExecTyped
<1> QED  BY <1>1, <1>2, <1>3, ExecMoves

LEMMA EndsAt ==
    ASSUME NEW r \in Runs, NEW outcome \in Outcome, Executor!Ends(r, outcome)
    PROVE \E row \in ExecRow : row.pc = "done" /\ exec' = [exec EXCEPT ![r] = row]
<1>1. Executor!Idle \in ExecRow
  BY DEF Executor!Idle, ExecRow, ExecPc, LedgerState, Outcome, NoFile
<1>2. PICK row : row = [Executor!Idle EXCEPT !.pc = "done", !.outcome = outcome]
  OBVIOUS
<1>3. row \in ExecRow /\ row.pc = "done"
  BY <1>1, <1>2 DEF ExecRow, ExecPc
<1> QED  BY <1>2, <1>3 DEF Executor!Ends, Executor!Become

LEMMA DoneUnder ==
    ASSUME NEW a, NEW row, row.pc = "done" PROVE Under(a, row) /\ ~Reserved(row)
  BY DEF Under, Reserved, Clicked

LEMMA EndsQuietly ==
    ASSUME ExecInv, NEW r \in Runs, NEW outcome \in Outcome, Executor!Ends(r, outcome),
           UNCHANGED <<rules, ledger, history, sends>>
    PROVE ExecInv'
<1>1. PICK row \in ExecRow : row.pc = "done" /\ exec' = [exec EXCEPT ![r] = row]
  BY EndsAt
<1>2. RulesTyped'
  BY DEF ExecInv, ExecTyped, RulesTyped
<1> QED  BY <1>1, <1>2, DoneUnder, ExecGoesOn

LEMMA CaptureStep ==
    ASSUME Executor!PlanExecutorAssumption, ExecInv, NEW r \in Runs, Executor!Capture(r)
    PROVE ExecInv'
<1>1. PICK l \in ExecLayouts, steps \in ExecPlans, accepted \in BOOLEAN :
         LET learnt == Executor!Safe(l) \in DOMAIN rules
             use == IF learnt THEN rules[Executor!Safe(l)] ELSE steps
         IN IF learnt \/ accepted
            THEN /\ rules' = [k \in DOMAIN rules \cup {Executor!Safe(l)} |->
                                IF k = Executor!Safe(l) THEN use ELSE rules[k]]
                 /\ Executor!Become(r, [Executor!Idle EXCEPT !.pc = "planned", !.steps = use,
                                           !.learned = Executor!Safe(l)])
            ELSE rules' = rules /\ Executor!Ends(r, "planning_failed")
  BY DEF Executor!Capture
<1>2. PICK key, use : /\ key = Executor!Safe(l)
                      /\ use = IF key \in DOMAIN rules THEN rules[key] ELSE steps
  OBVIOUS
<1>3. UNCHANGED <<ledger, history, sends>>
  BY DEF Executor!Capture
<1>4. use \in Seq(Executor!Kinds) /\ RulesTyped
  BY <1>2 DEF ExecInv, ExecTyped, RulesTyped, Executor!PlanExecutorAssumption
<1>5. CASE key \in DOMAIN rules \/ accepted
  <2>1. /\ rules' = [k \in DOMAIN rules \cup {key} |-> IF k = key THEN use ELSE rules[k]]
        /\ Executor!Become(r, [Executor!Idle EXCEPT !.pc = "planned", !.steps = use,
                                                    !.learned = key])
    BY <1>1, <1>2, <1>5, Zenon
  <2>2. PICK row : row = [Executor!Idle EXCEPT !.pc = "planned", !.steps = use, !.learned = key]
    OBVIOUS
  <2>3. row \in ExecRow /\ row.pc = "planned"
    BY <1>2, <1>4, <2>2 DEF Executor!Idle, ExecRow, ExecPc, LedgerState, Outcome, NoFile
  <2>4. RulesTyped'
    BY <1>2, <1>4, <2>1 DEF RulesTyped
  <2>5. Under(Targets[r], row) /\ ~Reserved(row)
    BY <2>3 DEF Under, Reserved, Clicked
  <2>6. exec' = [exec EXCEPT ![r] = row]
    BY <2>1, <2>2 DEF Executor!Become
  <2> QED  BY <1>3, <2>3, <2>4, <2>5, <2>6, ExecGoesOn
<1>6. CASE ~(key \in DOMAIN rules \/ accepted)
  <2>1. rules' = rules /\ Executor!Ends(r, "planning_failed")
    BY <1>1, <1>2, <1>6, Zenon
  <2>2. "planning_failed" \in Outcome
    BY DEF Outcome
  <2> QED  BY <1>3, <2>1, <2>2, EndsQuietly
<1> QED  BY <1>5, <1>6

LEMMA QuietSteps ==
    ASSUME ExecInv, NEW r \in Runs,
           Executor!Start(r) \/ Executor!Validate(r) \/ Executor!LoadLedger(r)
           \/ Executor!Confirm(r) \/ Executor!Dies(r)
    PROVE ExecInv'
<1>1. UNCHANGED <<rules, ledger, history, sends>>
  BY DEF Executor!Start, Executor!Validate, Executor!LoadLedger, Executor!Confirm, Executor!Dies
<1>2. /\ exec[r] \in ExecRow /\ Under(Targets[r], exec[r]) /\ ledger \in Ledger
      /\ RulesTyped'
      /\ Executor!SentOnce
  BY <1>1, ExecParts DEF RulesTyped
<1>3. {"human_handoff", "already_submitted", "failed", "draft_ready", "dead"} \subseteq Outcome
  BY DEF Outcome
<1>4. ASSUME NEW row \in ExecRow, exec' = [exec EXCEPT ![r] = row], Under(Targets[r], row),
             Reserved(row) => Reserved(exec[r])
      PROVE ExecInv'
  BY <1>1, <1>2, <1>4, ExecGoesOn
<1>5. ASSUME NEW outcome \in {"human_handoff", "already_submitted", "failed", "draft_ready", "dead"},
             Executor!Ends(r, outcome)
      PROVE ExecInv'
  BY <1>1, <1>3, <1>5, EndsQuietly
<1>6. CASE Executor!Start(r)
  <2>1. ASSUME NEW approved \in BOOLEAN, NEW writes \in BOOLEAN, NEW recorded \in BOOLEAN,
               Executor!Become(r, [exec[r] EXCEPT !.pc = "step", !.approved = approved,
                                                  !.writes = writes, !.recorded = recorded])
        PROVE ExecInv'
    <3>1. PICK row : row = [exec[r] EXCEPT !.pc = "step", !.approved = approved,
                                           !.writes = writes, !.recorded = recorded]
      OBVIOUS
    <3>2. row \in ExecRow /\ row.pc = "step"
      BY <1>2, <3>1 DEF ExecRow, ExecPc
    <3>3. Under(Targets[r], row) /\ ~Reserved(row)
      BY <3>2 DEF Under, Reserved, Clicked
    <3> QED  BY <1>4, <2>1, <3>1, <3>2, <3>3 DEF Executor!Become
  <2> QED  BY <1>5, <1>6, <2>1 DEF Executor!Start
<1>7. CASE Executor!Validate(r)
  BY <1>5, <1>7 DEF Executor!Validate
<1>8. CASE Executor!LoadLedger(r)
  <2>1. PICK row : row = [exec[r] EXCEPT !.pc = "save", !.file = ledger]
    OBVIOUS
  <2>2. /\ row \in ExecRow /\ row.pc = "save" /\ row.file = ledger /\ row.write = exec[r].write
        /\ row.recorded = exec[r].recorded
    BY <1>2, <2>1 DEF ExecRow, ExecPc
  <2>3. exec[r].pc = "load"
    BY <1>8 DEF Executor!LoadLedger, Executor!At
  <2>4. \A b \in Executor!Apps : row.file[b] = "submitted" => sends[b].times > 0
    BY <1>2, <2>2 DEF Executor!SentOnce
  <2>5. Under(Targets[r], row) /\ (Reserved(row) => Reserved(exec[r]))
    BY <1>2, <2>2, <2>3, <2>4 DEF Under, Reserved, Clicked
  <2> QED  BY <1>4, <1>8, <2>1, <2>2, <2>5 DEF Executor!LoadLedger, Executor!Become
<1>9. CASE Executor!Confirm(r)
  <2>1. PICK state \in {"submitted", "submission_unknown"} :
           Executor!Become(r, [exec[r] EXCEPT !.pc = "load", !.write = state])
    BY <1>9 DEF Executor!Confirm
  <2>2. PICK row : row = [exec[r] EXCEPT !.pc = "load", !.write = state]
    OBVIOUS
  <2>3. row \in ExecRow /\ row.pc = "load" /\ row.write = state
    BY <1>2, <2>2 DEF ExecRow, ExecPc, LedgerState
  <2>4. exec[r].pc = "confirm"
    BY <1>9 DEF Executor!Confirm, Executor!At
  <2>5. Under(Targets[r], row) /\ ~Reserved(row)
    BY <1>2, <2>3, <2>4 DEF Under, Reserved, Clicked
  <2> QED  BY <1>4, <2>1, <2>2, <2>3, <2>5 DEF Executor!Become
<1>10. CASE Executor!Dies(r)
  BY <1>5, <1>10 DEF Executor!Dies
<1> QED  BY <1>6, <1>7, <1>8, <1>9, <1>10

LEMMA ReplayStep ==
    ASSUME ExecInv, NEW r \in Runs, Executor!Replay(r) PROVE ExecInv'
<1>0. /\ exec[r] \in ExecRow /\ sends \in [Executor!Apps -> SendRow] /\ Targets[r] \in Executor!Apps
      /\ ledger \in Ledger /\ history \in [Executor!Apps -> HistoryState]
      /\ RulesTyped
      /\ Executor!SentOnce
  BY ExecParts
<1>1. UNCHANGED <<rules, ledger, history>> /\ exec[r].pc = "step" /\ exec[r].steps # <<>>
  BY DEF Executor!Replay, Executor!At
<1>2. PICK a : a = Targets[r]
  OBVIOUS
<1>3. sends' = sends \/ sends' = [sends EXCEPT ![a].ungated = TRUE]
  BY <1>2, Zenon DEF Executor!Replay
<1>4. PICK sending : sending = [sends[a] EXCEPT !.ungated = TRUE]
  OBVIOUS
<1>5. sending \in SendRow /\ sending.times = sends[a].times /\ sending.bare = sends[a].bare
  BY <1>0, <1>2, <1>4 DEF SendRow
<1>6. sends' = sends \/ sends' = [sends EXCEPT ![a] = sending]
  BY <1>3, <1>4
<1>7. /\ sends' \in [Executor!Apps -> SendRow]
      /\ \A b \in Executor!Apps : sends'[b].times = sends[b].times /\ sends'[b].bare = sends[b].bare
  BY <1>0, <1>2, <1>5, <1>6
<1>8. SendsKept /\ SendsAreBare(r)
  BY <1>0, <1>1, <1>7 DEF SendsKept, SendsAreBare
<1>9. Executor!SentOnce'
  BY <1>0, <1>1, <1>7 DEF Executor!SentOnce
<1>10. PICK row \in ExecRow : /\ row.pc \in {"done", "step"}
                              /\ exec' = [exec EXCEPT ![r] = row]
  <2>1. {"human_handoff", "failed"} \subseteq Outcome
    BY DEF Outcome
  <2>2. ASSUME Executor!Become(r, [exec[r] EXCEPT !.steps = Tail(@)])
        PROVE \E row \in ExecRow : row.pc \in {"done", "step"} /\ exec' = [exec EXCEPT ![r] = row]
    <3>1. PICK steps : steps = Tail(exec[r].steps)
      OBVIOUS
    <3>2. exec[r].steps \in Seq(Executor!Kinds)
      BY <1>0 DEF ExecRow
    <3>3. steps \in Seq(Executor!Kinds)
      BY <1>1, <3>1, <3>2
    <3>4. PICK row : row = [exec[r] EXCEPT !.steps = steps]
      OBVIOUS
    <3>5. row \in ExecRow /\ row.pc = "step"
      BY <1>0, <1>1, <3>3, <3>4 DEF ExecRow
    <3>6. exec' = [exec EXCEPT ![r] = row]
      BY <2>2, <3>1, <3>4, Zenon DEF Executor!Become
    <3> QED  BY <3>5, <3>6
  <2>3. ASSUME NEW outcome \in {"human_handoff", "failed"}, Executor!Ends(r, outcome)
        PROVE \E row \in ExecRow : row.pc \in {"done", "step"} /\ exec' = [exec EXCEPT ![r] = row]
    BY <2>1, <2>3, EndsAt
  <2> QED  BY <2>2, <2>3 DEF Executor!Replay
<1>11. Under(Targets[r], row)' /\ ~Reserved(row)
  BY <1>10 DEF Under, Reserved, Clicked
<1>12. ledger' \in Ledger /\ history' \in [Executor!Apps -> HistoryState]
  BY <1>0, <1>1
<1>13. RulesTyped'
  BY <1>0, <1>1 DEF RulesTyped
<1> QED  BY <1>7, <1>8, <1>9, <1>10, <1>11, <1>12, <1>13, ExecMoves

\* A reservation is only made of an application without a history.
LEMMA SubmitStep ==
    ASSUME ExecInv, NEW r \in Runs, Executor!Submit(r) PROVE ExecInv'
<1>0. /\ exec[r] \in ExecRow /\ sends \in [Executor!Apps -> SendRow] /\ Targets[r] \in Executor!Apps
      /\ ledger \in Ledger /\ history \in [Executor!Apps -> HistoryState]
      /\ RulesTyped
      /\ Executor!SentOnce
  BY ExecParts
<1>1. UNCHANGED <<rules, ledger, sends>>
  BY DEF Executor!Submit
<1>2. PICK a : a = Targets[r]
  OBVIOUS
<1>3. ASSUME NEW outcome \in {"failed", "draft_ready", "human_handoff", "already_submitted"},
             Executor!Ends(r, outcome), UNCHANGED history
      PROVE ExecInv'
  <2>1. outcome \in Outcome
    BY DEF Outcome
  <2> QED  BY <1>1, <1>3, <2>1, EndsQuietly
<1>4. ASSUME exec[r].recorded => history[a] = "none",
             history' = IF exec[r].recorded THEN [history EXCEPT ![a] = "attempting"] ELSE history,
             Executor!Become(r, [exec[r] EXCEPT !.pc = "load", !.write = "submitting"])
      PROVE ExecInv'
  <2>1. PICK row : row = [exec[r] EXCEPT !.pc = "load", !.write = "submitting"]
    OBVIOUS
  <2>2. /\ row \in ExecRow /\ row.pc = "load" /\ row.write = "submitting"
        /\ row.recorded = exec[r].recorded
    BY <1>0, <2>1 DEF ExecRow, ExecPc, LedgerState
  <2>3. history' \in [Executor!Apps -> HistoryState]
    BY <1>0, <1>2, <1>4 DEF HistoryState
  <2>4. SendsKept /\ SendsAreBare(r)
    BY <1>0, <1>1, <1>2, <1>4 DEF SendsKept, SendsAreBare
  <2>5. Executor!SentOnce'
    BY <1>0, <1>1, <1>2, <1>4 DEF Executor!SentOnce
  <2>6. row.recorded => history'[a] = "attempting" /\ (sends[a].times = 0 \/ sends[a].bare)
    BY <1>0, <1>2, <1>4, <2>2 DEF Executor!SentOnce, SendRow
  <2>7. Under(Targets[r], row)'
    BY <1>1, <1>2, <2>2, <2>6 DEF Under, Reserved, Clicked
  <2>8. Reserved(row) => history[Targets[r]] = "none"
    BY <1>2, <1>4, <2>2 DEF Reserved
  <2>9. ledger' \in Ledger /\ sends' \in [Executor!Apps -> SendRow]
        /\ RulesTyped'
    BY <1>0, <1>1 DEF RulesTyped
  <2>10. exec' = [exec EXCEPT ![r] = row]
    BY <1>4, <2>1 DEF Executor!Become
  <2> QED  BY <1>1, <2>2, <2>3, <2>4, <2>5, <2>7, <2>8, <2>9, <2>10, ExecMoves
<1>5. PICK valid \in BOOLEAN, gateOpen \in BOOLEAN, named \in BOOLEAN :
            LET blocked == exec[r].recorded /\ history[a] # "none"
                stop == CASE ~valid -> "failed"
                          [] ~exec[r].approved -> "draft_ready"
                          [] ~gateOpen -> "human_handoff"
                          [] exec[r].recorded /\ ~named -> "human_handoff"
                          [] blocked -> "already_submitted"
                          [] OTHER -> "none"
            IN IF stop # "none" THEN Executor!Ends(r, stop) /\ UNCHANGED history
               ELSE /\ history' = IF exec[r].recorded
                                  THEN [history EXCEPT ![a] = "attempting"] ELSE history
                    /\ Executor!Become(r, [exec[r] EXCEPT !.pc = "load", !.write = "submitting"])
  BY <1>2 DEF Executor!Submit
<1>6. PICK stop : stop = CASE ~valid -> "failed"
                           [] ~exec[r].approved -> "draft_ready"
                           [] ~gateOpen -> "human_handoff"
                           [] exec[r].recorded /\ ~named -> "human_handoff"
                           [] exec[r].recorded /\ history[a] # "none" -> "already_submitted"
                           [] OTHER -> "none"
  OBVIOUS
<1>7. /\ stop \in {"failed", "draft_ready", "human_handoff", "already_submitted", "none"}
      /\ stop = "none" => ~(exec[r].recorded /\ history[a] # "none")
  BY <1>6
<1>8. IF stop # "none" THEN Executor!Ends(r, stop) /\ UNCHANGED history
      ELSE /\ history' = IF exec[r].recorded
                         THEN [history EXCEPT ![a] = "attempting"] ELSE history
           /\ Executor!Become(r, [exec[r] EXCEPT !.pc = "load", !.write = "submitting"])
  BY <1>5, <1>6
<1> QED  BY <1>3, <1>4, <1>7, <1>8

\* The ledger file may lose what another wrote, never say more than was sent.
LEMMA SaveLedgerStep ==
    ASSUME ExecInv, NEW r \in Runs, Executor!SaveLedger(r) PROVE ExecInv'
<1>0. /\ exec[r] \in ExecRow /\ sends \in [Executor!Apps -> SendRow] /\ Targets[r] \in Executor!Apps
      /\ ledger \in Ledger /\ history \in [Executor!Apps -> HistoryState]
      /\ RulesTyped
      /\ Executor!SentOnce /\ Under(Targets[r], exec[r])
  BY ExecParts
<1>1. UNCHANGED <<rules, history, sends>> /\ exec[r].pc = "save"
  BY DEF Executor!SaveLedger, Executor!At
<1>2. PICK a, kept, write : a = Targets[r] /\ kept = exec[r].file /\ write = exec[r].write
  OBVIOUS
<1>3. /\ kept \in Ledger /\ write \in LedgerState \ {"none"}
      /\ \A b \in Executor!Apps : kept[b] = "submitted" => sends[b].times > 0
      /\ write # "submitting" => sends[a].times > 0
      /\ Executor!Apps = DOMAIN kept
  BY <1>0, <1>1, <1>2 DEF Under, ExecRow, Clicked, Ledger
<1>4. ledger' = [kept EXCEPT ![a] = write]
  BY <1>2 DEF Executor!SaveLedger
<1>5. ledger' \in Ledger /\ \A b \in Executor!Apps : ledger'[b] = "submitted" => sends[b].times > 0
  BY <1>3, <1>4 DEF Ledger
<1>6. Executor!SentOnce'
  BY <1>0, <1>1, <1>5 DEF Executor!SentOnce
<1>7. PICK pc : pc = IF write = "submitting" THEN "click" ELSE "mark"
  OBVIOUS
<1>8. PICK row : row = [exec[r] EXCEPT !.file = NoFile, !.pc = pc]
  OBVIOUS
<1>9. /\ row \in ExecRow /\ row.pc = pc /\ row.write = write /\ row.recorded = exec[r].recorded
  BY <1>0, <1>2, <1>7, <1>8 DEF ExecRow, ExecPc
<1>10. exec' = [exec EXCEPT ![r] = row]
  <2>1. Executor!Idle.file = NoFile
    BY DEF Executor!Idle, NoFile
  <2> QED  BY <1>2, <1>7, <1>8, <2>1, Zenon DEF Executor!SaveLedger, Executor!Become
<1>11. Under(Targets[r], row)'
  BY <1>0, <1>1, <1>2, <1>3, <1>7, <1>9 DEF Under, Reserved, Clicked
<1>12. Reserved(row) => Reserved(exec[r])
  BY <1>1, <1>2, <1>7, <1>9 DEF Reserved
<1>13. SendsKept /\ SendsAreBare(r)
  BY <1>0, <1>1 DEF SendsKept, SendsAreBare
<1> QED  BY <1>0, <1>1, <1>5, <1>6, <1>9, <1>10, <1>11, <1>12, <1>13, ExecMoves DEF RulesTyped

LEMMA MarkStep ==
    ASSUME ExecInv, NEW r \in Runs, Executor!Mark(r) PROVE ExecInv'
<1>0. /\ exec[r] \in ExecRow /\ sends \in [Executor!Apps -> SendRow] /\ Targets[r] \in Executor!Apps
      /\ ledger \in Ledger /\ history \in [Executor!Apps -> HistoryState]
      /\ RulesTyped
      /\ Executor!SentOnce /\ Under(Targets[r], exec[r])
  BY ExecParts
<1>1. UNCHANGED <<rules, ledger, sends>> /\ exec[r].pc = "mark" /\ Executor!Ends(r, exec[r].write)
  BY DEF Executor!Mark, Executor!At
<1>2. PICK a, mark : /\ a = Targets[r]
                     /\ mark = IF exec[r].write = "submitted" THEN "submitted" ELSE "unknown"
  OBVIOUS
<1>3. history' = history \/ history' = [history EXCEPT ![a] = mark]
  BY <1>2 DEF Executor!Mark
<1>4. sends[a].times > 0 /\ exec[r].write \in Outcome
  BY <1>0, <1>1, <1>2 DEF Under, Clicked, ExecRow, LedgerState, Outcome
<1>5. /\ history' \in [Executor!Apps -> HistoryState]
      /\ \A b \in Executor!Apps : history[b] # "none" => history'[b] # "none"
      /\ \A b \in Executor!Apps : history'[b] = history[b] \/ b = a
  BY <1>0, <1>2, <1>3 DEF HistoryState
<1>6. SendsKept /\ SendsAreBare(r)
  BY <1>0, <1>1, <1>5 DEF SendsKept, SendsAreBare
<1>7. Executor!SentOnce'
  BY <1>0, <1>1, <1>4, <1>5 DEF Executor!SentOnce
<1>8. PICK row \in ExecRow : row.pc = "done" /\ exec' = [exec EXCEPT ![r] = row]
  BY <1>1, <1>4, EndsAt
<1>9. Under(Targets[r], row)' /\ ~Reserved(row)
  BY <1>8 DEF Under, Reserved, Clicked
<1> QED  BY <1>0, <1>1, <1>5, <1>6, <1>7, <1>8, <1>9, ExecMoves DEF RulesTyped

\* The click: whoever clicks under a reservation is the first.
LEMMA ClickStep ==
    ASSUME ExecInv, NEW r \in Runs, Executor!Click(r) PROVE ExecInv'
<1>0. /\ exec[r] \in ExecRow /\ sends \in [Executor!Apps -> SendRow] /\ Targets[r] \in Executor!Apps
      /\ ledger \in Ledger /\ history \in [Executor!Apps -> HistoryState]
      /\ RulesTyped
      /\ Executor!SentOnce /\ Under(Targets[r], exec[r])
  BY ExecParts
<1>1. PICK reached \in BOOLEAN, raised \in BOOLEAN :
            /\ reached \/ raised
            /\ sends' = IF reached
                        THEN [sends EXCEPT ![Targets[r]].times = @ + 1,
                                           ![Targets[r]].bare = @ \/ ~exec[r].recorded]
                        ELSE sends
            /\ IF raised
               THEN /\ history' = IF exec[r].recorded
                                  THEN [history EXCEPT ![Targets[r]] = Executor!AfterFailedClick]
                                  ELSE history
                    /\ Executor!Ends(r, "failed")
               ELSE /\ Executor!Become(r, [exec[r] EXCEPT !.pc = "confirm"])
                    /\ UNCHANGED history
  BY Zenon DEF Executor!Click
<1>2. UNCHANGED <<rules, ledger>> /\ exec[r].pc = "click"
  BY DEF Executor!Click, Executor!At
<1>3. PICK a, times, bare : /\ a = Targets[r] /\ times = sends[a].times + 1
                            /\ bare = (sends[a].bare \/ ~exec[r].recorded)
  OBVIOUS
<1>a. sends[a] \in SendRow /\ sends[a].times \in Nat /\ sends[a].bare \in BOOLEAN
      /\ exec[r].recorded \in BOOLEAN
  BY <1>0, <1>3 DEF SendRow, ExecRow
<1>4. bare \in BOOLEAN /\ times \in Nat /\ times > 0
  BY <1>3, <1>a
<1>5. PICK sending : sending = [sends[a] EXCEPT !.times = times, !.bare = bare]
  OBVIOUS
<1>6. sending \in SendRow /\ sending.times = times /\ sending.bare = bare
  BY <1>4, <1>5, <1>a DEF SendRow
<1>7. IF reached THEN sends' = [sends EXCEPT ![a] = sending] ELSE sends' = sends
  <2>1. reached => sends' = [sends EXCEPT ![a].times = times, ![a].bare = bare]
    BY <1>1, <1>3, Zenon
  <2> QED  BY <1>1, <1>5, <2>1, Zenon
<1>8. /\ sends' \in [Executor!Apps -> SendRow]
      /\ \A b \in Executor!Apps : b # a => sends'[b] = sends[b]
      /\ reached => sends'[a] = sending
      /\ ~reached => sends'[a] = sends[a]
  BY <1>0, <1>3, <1>6, <1>7
<1>9. /\ history' \in [Executor!Apps -> HistoryState]
      /\ \A b \in Executor!Apps : b # a => history'[b] = history[b]
      /\ history'[a] \in {history[a], "unknown"}
  BY <1>0, <1>1, <1>3 DEF HistoryState, Executor!AfterFailedClick
<1>10. exec[r].recorded => history[a] # "none" /\ (sends[a].times = 0 \/ sends[a].bare)
  BY <1>0, <1>2, <1>3 DEF Under, Reserved
<1>11. SendsKept
  BY <1>3, <1>4, <1>6, <1>8, <1>9 DEF SendsKept
<1>12. SendsAreBare(r)
  <2>1. CASE exec[r].recorded
    BY <1>2, <2>1 DEF SendsAreBare, Reserved
  <2>2. CASE ~exec[r].recorded
    <3>1. sends'[a].times = sends[a].times \/ sends'[a].bare
      BY <1>3, <1>6, <1>8, <2>2
    <3> QED  BY <1>3, <3>1 DEF SendsAreBare
  <2> QED  BY <2>1, <2>2
<1>13. Executor!SentOnce'
  <2> SUFFICES ASSUME NEW b \in Executor!Apps
               PROVE /\ sends'[b].times > 1 => sends'[b].bare
                     /\ sends'[b].times > 0 /\ ~sends'[b].bare => history'[b] # "none"
                     /\ history'[b] = "submitted" \/ ledger'[b] = "submitted" => sends'[b].times > 0
    BY DEF Executor!SentOnce
  <2>1. /\ sends[b].times > 1 => sends[b].bare
        /\ sends[b].times > 0 /\ ~sends[b].bare => history[b] # "none"
        /\ history[b] = "submitted" \/ ledger[b] = "submitted" => sends[b].times > 0
    BY <1>0 DEF Executor!SentOnce
  <2>2. CASE b # a
    BY <1>2, <1>8, <1>9, <2>1, <2>2
  <2>3. CASE b = a /\ ~reached
    BY <1>2, <1>8, <1>9, <2>1, <2>3
  <2>4. CASE b = a /\ reached
    <3>1. sends'[b].times = times /\ sends'[b].bare = bare
      BY <1>6, <1>8, <2>4
    <3>2. times > 1 => bare
      <4>1. times > 1 => sends[a].times # 0
        BY <1>3, <1>a
      <4> QED  BY <1>3, <1>10, <4>1
    <3>3. ~bare => history'[a] # "none"
      BY <1>3, <1>9, <1>10
    <3> QED  BY <1>4, <2>4, <3>1, <3>2, <3>3
  <2> QED  BY <2>2, <2>3, <2>4
<1>14. PICK row \in ExecRow : /\ exec' = [exec EXCEPT ![r] = row] /\ ~Reserved(row)
                              /\ Under(Targets[r], row)'
  <2>1. CASE raised
    <3>1. "failed" \in Outcome
      BY DEF Outcome
    <3>2. PICK row \in ExecRow : row.pc = "done" /\ exec' = [exec EXCEPT ![r] = row]
      BY <1>1, <2>1, <3>1, EndsAt
    <3>3. Under(Targets[r], row)' /\ ~Reserved(row)
      BY <3>2 DEF Under, Reserved, Clicked
    <3> QED  BY <3>2, <3>3
  <2>2. CASE ~raised
    <3>1. PICK row : row = [exec[r] EXCEPT !.pc = "confirm"]
      OBVIOUS
    <3>2. row \in ExecRow /\ row.pc = "confirm"
      BY <1>0, <3>1 DEF ExecRow, ExecPc
    <3>3. sends'[a].times > 0
      BY <1>1, <1>4, <1>6, <1>8, <2>2
    <3>4. Under(Targets[r], row)' /\ ~Reserved(row)
      BY <1>3, <3>2, <3>3 DEF Under, Reserved, Clicked
    <3> QED  BY <1>1, <2>2, <3>1, <3>2, <3>4 DEF Executor!Become
  <2> QED  BY <2>1, <2>2
<1>15. \A b \in Executor!Apps : b # Targets[r] => sends'[b].times = sends[b].times
  BY <1>3, <1>8
<1> QED  BY <1>0, <1>2, <1>8, <1>9, <1>11, <1>12, <1>13, <1>14, <1>15, ExecMoves DEF RulesTyped

LEMMA ExecTypes == ASSUME ExecInv PROVE Executor!TypeOK
  BY DEF ExecInv, ExecTyped, RulesTyped, Executor!TypeOK, Ledger, LedgerState, HistoryState,
         ExecRow, ExecPc

LEMMA ExecInit == ASSUME Executor!PlanExecutorAssumption, Executor!Init PROVE ExecInv
<1>1. Executor!Idle \in ExecRow /\ Executor!Idle.pc = "idle"
  BY DEF Executor!Idle, ExecRow, ExecPc, LedgerState, Outcome, NoFile
<1>2. ExecTyped /\ \A r \in Runs : exec[r].pc = "idle"
  <2>1. rules = [l \in {} |-> <<>>] => RulesTyped
    BY DEF RulesTyped
  <2> QED  BY <1>1, <2>1 DEF Executor!Init, ExecTyped, Ledger, LedgerState, HistoryState, SendRow
<1>3. \A r \in Runs : Under(Targets[r], exec[r]) /\ ~Reserved(exec[r])
  BY <1>2 DEF Under, Reserved, Clicked
<1>4. Executor!SentOnce
  BY DEF Executor!Init, Executor!SentOnce
<1> QED  BY <1>2, <1>3, <1>4 DEF ExecInv, OneReservation

LEMMA ExecKept ==
    ASSUME Executor!PlanExecutorAssumption, ExecInv, [Executor!Next]_(Executor!execVars)
    PROVE ExecInv'
<1>1. ASSUME NEW r \in Runs,
             \/ Executor!Capture(r) \/ Executor!Start(r) \/ Executor!Replay(r)
             \/ Executor!Validate(r) \/ Executor!Submit(r) \/ Executor!LoadLedger(r)
             \/ Executor!SaveLedger(r) \/ Executor!Click(r) \/ Executor!Confirm(r)
             \/ Executor!Mark(r) \/ Executor!Dies(r)
      PROVE ExecInv'
  BY <1>1, CaptureStep, QuietSteps, ReplayStep, SubmitStep, SaveLedgerStep, ClickStep, MarkStep
<1>2. CASE UNCHANGED Executor!execVars
  BY <1>2 DEF Executor!execVars, ExecInv, ExecTyped, RulesTyped, OneReservation, Under,
              Reserved, Clicked, Executor!SentOnce
<1> QED  BY <1>1, <1>2 DEF Executor!Next

-----------------------------------------------------------------------------
\* The process lab.  At each place in its steps a run has written what the directory of
\* its second holds, unless another run is mixed in; the worker has one run of a queue.

LabFlows == DOMAIN Lab!StepsOf
LabSteps == {"browse", "crawl", "compile", "build", "read", "gate", "snapshot", "compare"}
Crawling == {"scraper-economy", "end-to-end"}
CrawlOf == (LabRuns \X (1..2)) \cup {Lab!NoCrawl}
Crawled == [latest : CrawlOf, first : CrawlOf]
FlowRow ==
    [flow : LabFlows \cup {"none"}, by : {"none", "cli", "worker"},
     state : {"unused", "running", "failed", "crashed", "completed"}, steps : Seq(LabSteps),
     slot : BOOLEAN, dir : 0..MaxSecond, crawls : 0..2,
     compared : (CrawlOf \X CrawlOf) \cup {<<>>}, compiled : CrawlOf, unlimited : BOOLEAN]

LabTyped ==
    /\ lab \in [phase : {"down", "configuring", "up"}, done : 0..Len(Lab!Setup), worker : BOOLEAN]
    /\ queued \in [Deployed -> 0..MaxQueued]
    /\ flowRuns \in [LabRuns -> FlowRow]
    /\ dirs \in [0..MaxSecond -> Crawled]
    /\ second \in 0..MaxSecond

\* How far a run that is under way has come.
Done(row) == Len(Lab!StepsOf[row.flow]) - Len(row.steps)
CrawlsBy(flow, done) == IF flow \notin Crawling \/ done = 0 THEN 0
                        ELSE IF done < 3 THEN 1 ELSE 2
Placed(row) ==
    row.state = "running" =>
      /\ row.flow \in LabFlows /\ row.by \in {"cli", "worker"}
      /\ Len(row.steps) \in 1..Len(Lab!StepsOf[row.flow])
      /\ \A i \in 1..Len(row.steps) : row.steps[i] = Lab!StepsOf[row.flow][Done(row) + i]
      /\ row.crawls = CrawlsBy(row.flow, Done(row))
\* What the directory holds of a run under way.
Found(r, row, dir) ==
    row.state = "running" /\ row.flow \in Crawling =>
      /\ Done(row) >= 1 => dir.latest = <<r, row.crawls>>
      /\ Done(row) >= 2 => dir.first = <<r, 1>>
Concluded(r, row) == /\ row.compared \in {<<>>, <<<<r, 1>>, <<r, 2>>>>}
                     /\ row.compiled \in {<<>>, <<r, 2>>}
RunKept(r) ==
    /\ Placed(flowRuns[r])
    /\ flowRuns[r].state # "unused" => flowRuns[r].by \in {"cli", "worker"}
                                       /\ flowRuns[r].dir <= second
    /\ flowRuns[r].state = "unused" => flowRuns[r] = Lab!Unused
    /\ ~Lab!Mixed(r) => Found(r, flowRuns[r], dirs[flowRuns[r].dir])
                        /\ Concluded(r, flowRuns[r])
    /\ flowRuns[r].by = "worker" => ~flowRuns[r].unlimited
WorkerAlone ==
    \A o, r \in Lab!Worked :
      Lab!QueueOf(flowRuns[o].flow) = Lab!QueueOf(flowRuns[r].flow) => o = r
Configured == lab.phase = "up" \/ Lab!Worked # {} => lab.done = Len(Lab!Setup)
LabInv == LabTyped /\ (\A r \in LabRuns : RunKept(r)) /\ WorkerAlone /\ Configured

LEMMA FlowSteps ==
    /\ LabFlows = {"api-contracts", "browser-lifecycle", "member-experience", "scraper-economy",
                   "evidence-compilation", "resume-build", "end-to-end"}
    /\ Lab!StepsOf["api-contracts"] = <<"read", "read">>
    /\ Lab!StepsOf["browser-lifecycle"] = <<"browse">>
    /\ Lab!StepsOf["member-experience"] = <<"read", "gate">>
    /\ Lab!StepsOf["scraper-economy"] = <<"crawl", "snapshot", "crawl", "compare">>
    /\ Lab!StepsOf["evidence-compilation"] = <<"compile">>
    /\ Lab!StepsOf["resume-build"] = <<"build">>
  BY DEF LabFlows, Lab!StepsOf, Lab!Contracts, Lab!Crawls

LEMMA EndToEnd ==
    LET s == Lab!StepsOf["end-to-end"]
    IN /\ s \in Seq(LabSteps) /\ Len(s) = 9
       /\ s[1] = "crawl" /\ s[2] = "snapshot" /\ s[3] = "crawl" /\ s[4] = "compare"
       /\ s[5] = "compile" /\ s[6] = "read" /\ s[7] = "read" /\ s[8] = "browse" /\ s[9] = "build"
<1> DEFINE c == <<"crawl", "snapshot", "crawl", "compare">>
           d == <<"compile">>
           e == <<"read", "read">>
           g == <<"browse", "build">>
<1>1. /\ c \in Seq(LabSteps) /\ Len(c) = 4
      /\ c[1] = "crawl" /\ c[2] = "snapshot" /\ c[3] = "crawl" /\ c[4] = "compare"
  BY DEF LabSteps
<1>2. /\ d \in Seq(LabSteps) /\ Len(d) = 1 /\ d[1] = "compile"
      /\ e \in Seq(LabSteps) /\ Len(e) = 2 /\ e[1] = "read" /\ e[2] = "read"
      /\ g \in Seq(LabSteps) /\ Len(g) = 2 /\ g[1] = "browse" /\ g[2] = "build"
  BY DEF LabSteps
<1>3. Lab!StepsOf["end-to-end"] = ((c \o d) \o e) \o g
  BY DEF Lab!StepsOf, Lab!Contracts, Lab!Crawls
<1> HIDE DEF c, d, e, g
<1>4. PICK cd : cd = c \o d
  OBVIOUS
<1>5. /\ cd \in Seq(LabSteps) /\ Len(cd) = 5
      /\ cd[1] = c[1] /\ cd[2] = c[2] /\ cd[3] = c[3] /\ cd[4] = c[4] /\ cd[5] = d[1]
  <2>1. /\ cd \in Seq(LabSteps) /\ Len(cd) = Len(c) + Len(d)
        /\ \A i \in 1..Len(c) : cd[i] = c[i]
        /\ \A i \in 1..Len(d) : cd[Len(c) + i] = d[i]
    <3>1. c \in Seq(LabSteps) /\ d \in Seq(LabSteps)
      BY <1>1, <1>2
    <3>2. /\ c \o d \in Seq(LabSteps) /\ Len(c \o d) = Len(c) + Len(d)
          /\ \A i \in 1..Len(c) : (c \o d)[i] = c[i]
          /\ \A i \in 1..Len(d) : (c \o d)[Len(c) + i] = d[i]
      BY <3>1, Concatenated
    <3> QED  BY <1>4, <3>2
  <2>2. 1 \in 1..1
    OBVIOUS
  <2>3. cd[4 + 1] = d[1]
    BY <1>1, <1>2, <2>1, <2>2
  <2> QED  BY <1>1, <1>2, <2>1, <2>3
<1>6. PICK cde : cde = cd \o e
  OBVIOUS
<1>7. /\ cde \in Seq(LabSteps) /\ Len(cde) = 7
      /\ \A i \in 1..5 : cde[i] = cd[i]
      /\ cde[6] = e[1] /\ cde[7] = e[2]
  <2>1. /\ cde \in Seq(LabSteps) /\ Len(cde) = Len(cd) + Len(e)
        /\ \A i \in 1..Len(cd) : cde[i] = cd[i]
        /\ \A i \in 1..Len(e) : cde[Len(cd) + i] = e[i]
    <3>1. cd \in Seq(LabSteps) /\ e \in Seq(LabSteps)
      BY <1>2, <1>5
    <3>2. /\ cd \o e \in Seq(LabSteps) /\ Len(cd \o e) = Len(cd) + Len(e)
          /\ \A i \in 1..Len(cd) : (cd \o e)[i] = cd[i]
          /\ \A i \in 1..Len(e) : (cd \o e)[Len(cd) + i] = e[i]
      BY <3>1, Concatenated
    <3> QED  BY <1>6, <3>2
  <2>2. 1 \in 1..2 /\ 2 \in 1..2
    OBVIOUS
  <2>3. cde[5 + 1] = e[1] /\ cde[5 + 2] = e[2]
    BY <1>2, <1>5, <2>1, <2>2
  <2> QED  BY <1>2, <1>5, <2>1, <2>3
<1>8. PICK all : all = cde \o g
  OBVIOUS
<1>9. /\ all \in Seq(LabSteps) /\ Len(all) = 9
      /\ \A i \in 1..7 : all[i] = cde[i]
      /\ all[8] = g[1] /\ all[9] = g[2]
  <2>1. /\ all \in Seq(LabSteps) /\ Len(all) = Len(cde) + Len(g)
        /\ \A i \in 1..Len(cde) : all[i] = cde[i]
        /\ \A i \in 1..Len(g) : all[Len(cde) + i] = g[i]
    <3>1. cde \in Seq(LabSteps) /\ g \in Seq(LabSteps)
      BY <1>2, <1>7
    <3>2. /\ cde \o g \in Seq(LabSteps) /\ Len(cde \o g) = Len(cde) + Len(g)
          /\ \A i \in 1..Len(cde) : (cde \o g)[i] = cde[i]
          /\ \A i \in 1..Len(g) : (cde \o g)[Len(cde) + i] = g[i]
      BY <3>1, Concatenated
    <3> QED  BY <1>8, <3>2
  <2>2. 1 \in 1..2 /\ 2 \in 1..2
    OBVIOUS
  <2>3. all[7 + 1] = g[1] /\ all[7 + 2] = g[2]
    BY <1>2, <1>7, <2>1, <2>2
  <2> QED  BY <1>2, <1>7, <2>1, <2>3
<1>10. Lab!StepsOf["end-to-end"] = all
  BY <1>3, <1>4, <1>6, <1>8
<1> QED  BY <1>1, <1>2, <1>5, <1>7, <1>9, <1>10

\* What is needed of them.
LEMMA StepFacts ==
    ASSUME NEW f \in LabFlows
    PROVE /\ Lab!StepsOf[f] \in Seq(LabSteps) /\ Len(Lab!StepsOf[f]) \in 1..9
          /\ f \in Crawling =>
               /\ Len(Lab!StepsOf[f]) >= 4
               /\ Lab!StepsOf[f][1] = "crawl" /\ Lab!StepsOf[f][2] = "snapshot"
               /\ Lab!StepsOf[f][3] = "crawl" /\ Lab!StepsOf[f][4] = "compare"
               /\ \A i \in 5..Len(Lab!StepsOf[f]) :
                    Lab!StepsOf[f][i] \notin {"crawl", "snapshot", "compare"}
          /\ f \notin Crawling =>
               \A i \in 1..Len(Lab!StepsOf[f]) :
                 Lab!StepsOf[f][i] \notin {"crawl", "snapshot", "compare"}
          /\ f = "end-to-end" => Lab!StepsOf[f][5] = "compile"
                                 /\ \A i \in 1..Len(Lab!StepsOf[f]) :
                                      Lab!StepsOf[f][i] = "compile" => i = 5
<1>1. CASE f \in {"api-contracts", "member-experience"}
  <2>1. PICK s : s = Lab!StepsOf[f]
    OBVIOUS
  <2>2. s \in Seq(LabSteps) /\ Len(s) = 2 /\ s[1] = "read" /\ s[2] \in {"read", "gate"}
    <3>1. s = <<"read", "read">> \/ s = <<"read", "gate">>
      BY <1>1, <2>1, FlowSteps
    <3>2. CASE s = <<"read", "read">>
      BY <3>2 DEF LabSteps
    <3>3. CASE s = <<"read", "gate">>
      BY <3>3 DEF LabSteps
    <3> QED  BY <3>1, <3>2, <3>3
  <2>3. \A i \in 1..2 : s[i] \notin {"crawl", "snapshot", "compare"}
    BY <2>2
  <2> QED  BY <1>1, <2>1, <2>2, <2>3 DEF Crawling
<1>2. CASE f \in {"browser-lifecycle", "evidence-compilation", "resume-build"}
  <2>1. PICK s : s = Lab!StepsOf[f]
    OBVIOUS
  <2>2. s \in Seq(LabSteps) /\ Len(s) = 1 /\ s[1] \in {"browse", "compile", "build"}
    <3>1. s = <<"browse">> \/ s = <<"compile">> \/ s = <<"build">>
      BY <1>2, <2>1, FlowSteps
    <3>2. CASE s = <<"browse">>
      BY <3>2 DEF LabSteps
    <3>3. CASE s = <<"compile">>
      BY <3>3 DEF LabSteps
    <3>4. CASE s = <<"build">>
      BY <3>4 DEF LabSteps
    <3> QED  BY <3>1, <3>2, <3>3, <3>4
  <2>3. \A i \in 1..1 : s[i] \notin {"crawl", "snapshot", "compare"}
    BY <2>2
  <2> QED  BY <1>2, <2>1, <2>2, <2>3 DEF Crawling
<1>3. CASE f = "scraper-economy"
  <2>1. PICK s : s = Lab!StepsOf[f]
    OBVIOUS
  <2>2. /\ s \in Seq(LabSteps) /\ Len(s) = 4
        /\ s[1] = "crawl" /\ s[2] = "snapshot" /\ s[3] = "crawl" /\ s[4] = "compare"
    BY <1>3, <2>1, FlowSteps DEF LabSteps
  <2> QED  BY <1>3, <2>1, <2>2 DEF Crawling
<1>4. CASE f = "end-to-end"
  <2>1. PICK s : s = Lab!StepsOf[f]
    OBVIOUS
  <2>2. /\ s \in Seq(LabSteps) /\ Len(s) = 9
        /\ s[1] = "crawl" /\ s[2] = "snapshot" /\ s[3] = "crawl" /\ s[4] = "compare"
        /\ s[5] = "compile" /\ s[6] = "read" /\ s[7] = "read" /\ s[8] = "browse" /\ s[9] = "build"
    BY <1>4, <2>1, EndToEnd
  <2>3. \A i \in 1..9 : i \in {1, 2, 3, 4, 5, 6, 7, 8, 9}
    OBVIOUS
  <2>4. \A i \in 1..9 : s[i] = "compile" => i = 5
    BY <2>2, <2>3
  <2>5. \A i \in 5..9 : s[i] \notin {"crawl", "snapshot", "compare"}
    <3>1. \A i \in 5..9 : i \in {5, 6, 7, 8, 9}
      OBVIOUS
    <3> QED  BY <2>2, <3>1
  <2> QED  BY <1>4, <2>1, <2>2, <2>4, <2>5 DEF Crawling
<1> QED  BY <1>1, <1>2, <1>3, <1>4, FlowSteps

LEMMA FlowFields ==
    ASSUME NEW row \in FlowRow
    PROVE /\ row.flow \in LabFlows \cup {"none"} /\ row.by \in {"none", "cli", "worker"}
          /\ row.state \in {"unused", "running", "failed", "crashed", "completed"}
          /\ row.steps \in Seq(LabSteps) /\ row.slot \in BOOLEAN /\ row.dir \in 0..MaxSecond
          /\ row.crawls \in 0..2 /\ row.compared \in (CrawlOf \X CrawlOf) \cup {<<>>}
          /\ row.compiled \in CrawlOf /\ row.unlimited \in BOOLEAN
  BY DEF FlowRow

LEMMA LabInit == ASSUME Lab!LabAssumption, Lab!Init PROVE LabInv
<1>1. /\ flowRuns = [r \in LabRuns |-> Lab!Unused] /\ queued = [d \in Deployed |-> 0] /\ second = 0
      /\ dirs = [s \in 0..MaxSecond |-> [latest |-> Lab!NoCrawl, first |-> Lab!NoCrawl]]
      /\ \E done \in {0, Len(Lab!Setup)} : lab = [phase |-> "down", done |-> done, worker |-> FALSE]
  BY DEF Lab!Init
<1>2. MaxSecond \in Nat /\ MaxQueued \in Nat /\ Len(Lab!Setup) \in Nat
  BY DEF Lab!LabAssumption, Lab!Setup
<1>3. Lab!Unused \in FlowRow
  <2>1. <<>> \in Seq(LabSteps) /\ 0 \in 0..MaxSecond /\ <<>> \in CrawlOf
    BY <1>2 DEF CrawlOf, Lab!NoCrawl
  <2> QED  BY <2>1 DEF Lab!Unused, FlowRow
<1>4. /\ Lab!Unused.state = "unused" /\ Lab!Unused.by = "none" /\ Lab!Unused.compared = <<>>
      /\ Lab!Unused.compiled = <<>> /\ ~Lab!Unused.unlimited
  BY DEF Lab!Unused
<1>5. flowRuns \in [LabRuns -> FlowRow] /\ \A r \in LabRuns : flowRuns[r] = Lab!Unused
  BY <1>1, <1>3
<1>6. Lab!Worked = {}
  BY <1>4, <1>5 DEF Lab!Worked, Lab!Active
<1>7. \A r \in LabRuns : RunKept(r)
  BY <1>4, <1>5 DEF RunKept, Placed, Found, Concluded
<1>8. dirs \in [0..MaxSecond -> Crawled]
  <2>1. [latest |-> Lab!NoCrawl, first |-> Lab!NoCrawl] \in Crawled
    BY DEF Crawled, CrawlOf
  <2> QED  BY <1>1, <2>1
<1>9. lab \in [phase : {"down", "configuring", "up"}, done : 0..Len(Lab!Setup), worker : BOOLEAN]
      /\ lab.phase = "down"
  BY <1>1, <1>2
<1>10. LabTyped
  BY <1>1, <1>2, <1>5, <1>8, <1>9 DEF LabTyped
<1> QED  BY <1>6, <1>7, <1>9, <1>10 DEF LabInv, WorkerAlone, Configured

\* Where a run is: which step it is at, and what is left after it.
LEMMA NextPlace ==
    ASSUME NEW row \in FlowRow, row.state = "running", Placed(row)
    PROVE /\ row.flow \in LabFlows /\ Done(row) \in Nat /\ Len(row.steps) \in Nat \ {0}
          /\ Done(row) + Len(row.steps) = Len(Lab!StepsOf[row.flow])
          /\ Head(row.steps) = Lab!StepsOf[row.flow][Done(row) + 1]
          /\ Done(row) + 1 \in 1..Len(Lab!StepsOf[row.flow])
          /\ Tail(row.steps) \in Seq(LabSteps) /\ Len(Tail(row.steps)) = Len(row.steps) - 1
          /\ \A i \in 1..Len(row.steps) - 1 :
               Tail(row.steps)[i] = Lab!StepsOf[row.flow][Done(row) + 1 + i]
<1>1. row.steps \in Seq(LabSteps) /\ Len(row.steps) \in Nat
  BY FlowFields
<1>2. PICK full \in Seq(LabSteps) : full = Lab!StepsOf[row.flow] /\ Len(full) \in 1..9
  BY StepFacts DEF Placed
<1>3. /\ row.flow \in LabFlows /\ Len(row.steps) \in 1..Len(full)
      /\ Done(row) = Len(full) - Len(row.steps)
      /\ \A i \in 1..Len(row.steps) : row.steps[i] = full[Done(row) + i]
  BY <1>2 DEF Placed, Done
<1>4. /\ Done(row) \in Nat /\ Len(row.steps) \in Nat \ {0} /\ Done(row) + Len(row.steps) = Len(full)
      /\ Done(row) + 1 \in 1..Len(full)
  <2>1. PICK n \in Nat : n = Len(row.steps)
    BY <1>1
  <2>2. PICK m \in Nat : m = Len(full)
    OBVIOUS
  <2>3. n \in 1..m /\ Done(row) = m - n
    BY <1>3, <2>1, <2>2
  <2>4. Done(row) \in Nat /\ n # 0 /\ Done(row) + n = m /\ Done(row) + 1 \in 1..m
    BY <2>3
  <2> QED  BY <2>1, <2>2, <2>4
<1>5. Head(row.steps) = full[Done(row) + 1]
  <2>1. Head(row.steps) = row.steps[1] /\ 1 \in 1..Len(row.steps)
    BY <1>1, <1>4
  <2> QED  BY <1>3, <2>1
<1>6. /\ Tail(row.steps) \in Seq(LabSteps) /\ Len(Tail(row.steps)) = Len(row.steps) - 1
      /\ \A i \in 1..Len(row.steps) - 1 : Tail(row.steps)[i] = row.steps[i + 1]
  BY <1>1, <1>4
<1>7. ASSUME NEW i \in 1..Len(row.steps) - 1
      PROVE Tail(row.steps)[i] = full[Done(row) + 1 + i]
  <2>1. i + 1 \in 1..Len(row.steps) /\ Done(row) + (i + 1) = Done(row) + 1 + i
    BY <1>4
  <2> QED  BY <1>3, <1>6, <2>1
<1> QED  BY <1>2, <1>3, <1>4, <1>5, <1>6, <1>7

LEMMA StepAt ==
    ASSUME NEW row \in FlowRow, row.state = "running", Placed(row)
    PROVE /\ row.flow \notin Crawling => Head(row.steps) \notin {"crawl", "snapshot", "compare"}
          /\ row.flow \in Crawling =>
               /\ Head(row.steps) = "crawl" <=> Done(row) \in {0, 2}
               /\ Head(row.steps) = "snapshot" <=> Done(row) = 1
               /\ Head(row.steps) = "compare" <=> Done(row) = 3
          /\ row.flow = "end-to-end" /\ Head(row.steps) = "compile" => Done(row) = 4
<1>1. PICK f \in LabFlows : f = row.flow
  BY NextPlace
<1>2. PICK k \in Nat : k = Done(row) /\ k + 1 \in 1..Len(Lab!StepsOf[f])
                       /\ Head(row.steps) = Lab!StepsOf[f][k + 1]
  BY <1>1, NextPlace
<1>3. PICK full \in Seq(LabSteps) : full = Lab!StepsOf[f]
  BY StepFacts
<1>4. CASE f \notin Crawling
  BY <1>1, <1>2, <1>4, StepFacts DEF Crawling
<1>5. CASE f \in Crawling
  <2>1. /\ full[1] = "crawl" /\ full[2] = "snapshot" /\ full[3] = "crawl" /\ full[4] = "compare"
        /\ \A i \in 5..Len(full) : full[i] \notin {"crawl", "snapshot", "compare"}
        /\ f = "end-to-end" => \A i \in 1..Len(full) : full[i] = "compile" => i = 5
    BY <1>3, <1>5, StepFacts
  <2>2. k = 0 \/ k = 1 \/ k = 2 \/ k = 3 \/ k + 1 \in 5..Len(full)
    BY <1>2, <1>3
  <2>3. Head(row.steps) = full[k + 1] /\ k + 1 \in 1..Len(full)
    BY <1>2, <1>3
  <2>4. /\ full[k + 1] = "crawl" <=> k \in {0, 2}
        /\ full[k + 1] = "snapshot" <=> k = 1
        /\ full[k + 1] = "compare" <=> k = 3
    <3>1. CASE k = 0
      BY <2>1, <3>1
    <3>2. CASE k = 1
      BY <2>1, <3>2
    <3>3. CASE k = 2
      BY <2>1, <3>3
    <3>4. CASE k = 3
      BY <2>1, <3>4
    <3>5. CASE k + 1 \in 5..Len(full)
      BY <2>1, <3>5
    <3> QED  BY <2>2, <3>1, <3>2, <3>3, <3>4, <3>5
  <2>5. f = "end-to-end" /\ full[k + 1] = "compile" => k = 4
    BY <2>1, <2>3
  <2> QED  BY <1>1, <1>2, <1>5, <2>3, <2>4, <2>5
<1> QED  BY <1>4, <1>5

\* What a step of a run under way leaves: its flow, its kind, its directory.
Same(r) == /\ flowRuns'[r].flow = flowRuns[r].flow /\ flowRuns'[r].by = flowRuns[r].by
           /\ flowRuns'[r].dir = flowRuns[r].dir
           /\ flowRuns'[r].state = "unused" <=> flowRuns[r].state = "unused"

LEMMA MixedAsBefore ==
    ASSUME \A r \in LabRuns : Same(r), NEW r \in LabRuns
    PROVE Lab!Mixed(r)' <=> Lab!Mixed(r)
  BY DEF Same, Lab!Mixed

LEMMA RunGoes ==
    ASSUME LabInv, NEW r \in LabRuns, NEW row \in FlowRow, flowRuns[r].state = "running",
           flowRuns' = [flowRuns EXCEPT ![r] = row],
           row.flow = flowRuns[r].flow, row.by = flowRuns[r].by, row.dir = flowRuns[r].dir,
           row.state # "unused", Placed(row), row.by = "worker" => ~row.unlimited,
           UNCHANGED <<lab, second>>, queued' \in [Deployed -> 0..MaxQueued],
           dirs' \in [0..MaxSecond -> Crawled],
           \A o \in LabRuns \ {r} :
             flowRuns[o].state = "running" /\ flowRuns[o].flow \in Crawling /\ ~Lab!Mixed(o) =>
               dirs'[flowRuns[o].dir] = dirs[flowRuns[o].dir],
           ~Lab!Mixed(r) => Found(r, row, dirs'[row.dir]) /\ Concluded(r, row)
    PROVE LabInv'
<1>1. /\ flowRuns' \in [LabRuns -> FlowRow] /\ flowRuns'[r] = row
      /\ \A o \in LabRuns \ {r} : flowRuns'[o] = flowRuns[o]
  BY DEF LabInv, LabTyped
<1>2. \A o \in LabRuns : Same(o)
  BY <1>1 DEF Same
<1>3. ASSUME NEW o \in LabRuns PROVE RunKept(o)'
  <2>1. RunKept(o) /\ (Lab!Mixed(o)' <=> Lab!Mixed(o))
    BY <1>2, MixedAsBefore DEF LabInv
  <2>2. CASE o = r
    <3>1. row.by \in {"cli", "worker"} /\ row.dir <= second
      BY <2>1, <2>2 DEF RunKept
    <3> QED  BY <1>1, <2>1, <2>2, <3>1 DEF RunKept
  <2>3. CASE o # r
    <3>1. flowRuns'[o] = flowRuns[o] /\ o \in LabRuns \ {r}
      BY <1>1, <2>3
    <3>2. ~Lab!Mixed(o) => Found(o, flowRuns[o], dirs'[flowRuns[o].dir])
      BY <2>1, <3>1 DEF RunKept, Found
    <3> QED  BY <2>1, <3>1, <3>2 DEF RunKept
  <2> QED  BY <2>2, <2>3
<1>4. Lab!Worked' \subseteq Lab!Worked
  BY <1>1 DEF Lab!Worked, Lab!Active
<1>5. WorkerAlone'
  <2>1. \A o \in LabRuns : flowRuns'[o].flow = flowRuns[o].flow
    BY <1>2 DEF Same
  <2>2. Lab!Worked \subseteq LabRuns
    BY DEF Lab!Worked, Lab!Active
  <2>3. ASSUME NEW o \in Lab!Worked', NEW p \in Lab!Worked',
               Lab!QueueOf(flowRuns'[o].flow) = Lab!QueueOf(flowRuns'[p].flow)
        PROVE o = p
    <3>1. Lab!QueueOf(flowRuns[o].flow) = Lab!QueueOf(flowRuns[p].flow)
      BY <1>4, <2>1, <2>2, <2>3
    <3> QED  BY <1>4, <3>1 DEF LabInv, WorkerAlone
  <2>4. \A f : Lab!QueueOf(f)' = Lab!QueueOf(f)
    BY DEF Lab!QueueOf
  <2> QED  BY <2>3, <2>4 DEF WorkerAlone
<1>6. Configured'
  BY <1>4 DEF LabInv, Configured
<1>7. LabTyped'
  BY <1>1 DEF LabInv, LabTyped
<1> QED  BY <1>3, <1>5, <1>6, <1>7 DEF LabInv

\* Steps that touch no run and no directory.
LEMMA LabStays ==
    ASSUME LabInv, UNCHANGED <<flowRuns, dirs>>, queued' \in [Deployed -> 0..MaxQueued],
           second' \in 0..MaxSecond, second <= second', second \in Nat,
           lab' \in [phase : {"down", "configuring", "up"}, done : 0..Len(Lab!Setup), worker : BOOLEAN],
           lab.done = Len(Lab!Setup) => lab'.done = Len(Lab!Setup),
           lab'.phase = "up" => lab'.done = Len(Lab!Setup)
    PROVE LabInv'
<1>1. Lab!Worked' = Lab!Worked /\ \A r : Lab!Mixed(r)' = Lab!Mixed(r)
  BY DEF Lab!Worked, Lab!Active, Lab!Mixed
<1>2. ASSUME NEW r \in LabRuns PROVE RunKept(r)'
  <2>1. RunKept(r)
    BY DEF LabInv
  <2>2. flowRuns[r].state # "unused" => flowRuns[r].dir <= second'
    <3>1. PICK row \in FlowRow : row = flowRuns[r]
      BY DEF LabInv, LabTyped
    <3>2. row.dir \in Nat /\ second' \in Nat
      BY FlowFields
    <3> QED  BY <2>1, <3>1, <3>2 DEF RunKept
  <2> QED  BY <1>1, <2>1, <2>2 DEF RunKept
<1>3. WorkerAlone'
  <2>1. \A f : Lab!QueueOf(f)' = Lab!QueueOf(f)
    BY DEF Lab!QueueOf
  <2> QED  BY <1>1, <2>1 DEF LabInv, WorkerAlone
<1>4. Configured' /\ LabTyped'
  BY <1>1 DEF LabInv, LabTyped, Configured
<1> QED  BY <1>2, <1>3, <1>4 DEF LabInv

LabState == [phase : {"down", "configuring", "up"}, done : 0..Len(Lab!Setup), worker : BOOLEAN]

LEMMA LabFacts ==
    ASSUME LabInv
    PROVE /\ MaxSecond \in Nat /\ MaxQueued \in Nat /\ Len(Lab!Setup) \in Nat
          /\ lab \in LabState /\ queued \in [Deployed -> 0..MaxQueued]
          /\ second \in 0..MaxSecond /\ second \in Nat
          /\ flowRuns \in [LabRuns -> FlowRow] /\ dirs \in [0..MaxSecond -> Crawled]
<1>1. MaxSecond \in Nat /\ MaxQueued \in Nat /\ Len(Lab!Setup) \in Nat
  BY LabConstants DEF Lab!LabAssumption, Lab!Setup
<1> QED  BY <1>1 DEF LabInv, LabTyped, LabState

LEMMA StackSteps ==
    ASSUME LabInv, Lab!StartStack \/ Lab!Configure \/ Lab!Open
    PROVE LabInv'
<1>1. PICK now \in LabState : now = lab
  BY LabFacts
<1>2. UNCHANGED <<queued, flowRuns, dirs, second>>
  BY DEF Lab!StartStack, Lab!Configure, Lab!Open
<1>3. Configured /\ (now.phase = "up" => now.done = Len(Lab!Setup))
  BY <1>1 DEF LabInv, Configured
<1>4. /\ lab' \in LabState
      /\ now.done = Len(Lab!Setup) => lab'.done = Len(Lab!Setup)
      /\ lab'.phase = "up" => lab'.done = Len(Lab!Setup)
  <2>1. CASE Lab!StartStack
    <3>1. PICK worker \in BOOLEAN : lab' = [now EXCEPT !.phase = "configuring", !.worker = worker]
      BY <1>1, <2>1 DEF Lab!StartStack
    <3> QED  BY <3>1 DEF LabState
  <2>2. CASE Lab!Configure
    <3>1. /\ now.phase = "configuring" /\ now.done < Len(Lab!Setup) /\ now.done \in 0..Len(Lab!Setup)
          /\ lab' = [now EXCEPT !.done = now.done + 1]
      BY <1>1, <2>2 DEF Lab!Configure, LabState
    <3>2. now.done + 1 \in 0..Len(Lab!Setup) /\ now.done # Len(Lab!Setup)
      BY <3>1, LabFacts
    <3> QED  BY <3>1, <3>2 DEF LabState
  <2>3. CASE Lab!Open
    <3>1. now.done = Len(Lab!Setup) /\ lab' = [now EXCEPT !.phase = "up"]
      BY <1>1, <2>3 DEF Lab!Open
    <3> QED  BY <3>1 DEF LabState
  <2> QED  BY <2>1, <2>2, <2>3
<1>5. second <= second /\ second' = second
  BY <1>2, LabFacts
<1> QED  BY <1>1, <1>2, <1>4, <1>5, LabFacts, LabStays DEF LabState

LEMMA ScheduleStep == ASSUME LabInv, NEW d \in Deployed, Lab!ScheduleRun(d) PROVE LabInv'
<1>1. /\ queued[d] < MaxQueued /\ queued' = [queued EXCEPT ![d] = queued[d] + 1]
      /\ UNCHANGED <<lab, flowRuns, dirs, second>>
  BY DEF Lab!ScheduleRun, Lab!Room
<1>2. queued[d] + 1 \in 0..MaxQueued
  BY <1>1, LabFacts
<1>3. queued' \in [Deployed -> 0..MaxQueued]
  BY <1>1, <1>2, LabFacts
<1>4. lab.phase = "up" => lab.done = Len(Lab!Setup)
  BY DEF LabInv, Configured
<1>5. second <= second
  BY LabFacts
<1> QED  BY <1>1, <1>3, <1>4, <1>5, LabFacts, LabStays DEF LabState

LEMMA TickStep == ASSUME LabInv, Lab!TickSecond PROVE LabInv'
<1>1. /\ second < MaxSecond /\ second' = second + 1 /\ UNCHANGED <<lab, queued, flowRuns, dirs>>
  BY DEF Lab!TickSecond
<1>2. second' \in 0..MaxSecond /\ second <= second'
  BY <1>1, LabFacts
<1>3. lab.phase = "up" => lab.done = Len(Lab!Setup)
  BY DEF LabInv, Configured
<1> QED  BY <1>1, <1>2, <1>3, LabFacts, LabStays DEF LabState

\* A run that begins may be mixed in with others, and they with it.
LEMMA RunBegins ==
    ASSUME LabInv, NEW r \in LabRuns, NEW flow \in LabFlows, NEW by \in {"cli", "worker"},
           Lab!Begin(r, flow, by), UNCHANGED <<lab, dirs, second>>,
           queued' \in [Deployed -> 0..MaxQueued],
           by = "worker" => /\ lab.done = Len(Lab!Setup)
                            /\ \A o \in Lab!Worked :
                                 Lab!QueueOf(flowRuns[o].flow) # Lab!QueueOf(flow)
    PROVE LabInv'
<1>1. flowRuns[r].state = "unused"
  BY DEF Lab!Begin, Lab!Unstarted
<1>2. PICK row : row = [Lab!Unused EXCEPT !.flow = flow, !.by = by, !.state = "running",
                          !.steps = Lab!StepsOf[flow], !.dir = second]
  OBVIOUS
<1>3. /\ row = [flow |-> flow, by |-> by, state |-> "running", steps |-> Lab!StepsOf[flow],
                slot |-> FALSE, dir |-> second, crawls |-> 0, compared |-> <<>>,
                compiled |-> <<>>, unlimited |-> FALSE]
  BY <1>2 DEF Lab!Unused
<1>4. row \in FlowRow
  <2>1. Lab!StepsOf[flow] \in Seq(LabSteps) /\ <<>> \in CrawlOf
    BY StepFacts DEF CrawlOf, Lab!NoCrawl
  <2> QED  BY <1>3, <2>1, LabFacts DEF FlowRow
<1>5. /\ row.flow = flow /\ row.by = by /\ row.state = "running" /\ row.steps = Lab!StepsOf[flow]
      /\ row.dir = second /\ row.crawls = 0 /\ row.compared = <<>> /\ row.compiled = <<>>
      /\ ~row.unlimited
  BY <1>3
<1>6. /\ flowRuns' \in [LabRuns -> FlowRow] /\ flowRuns'[r] = row
      /\ \A o \in LabRuns \ {r} : flowRuns'[o] = flowRuns[o]
  BY <1>2, <1>4, LabFacts DEF Lab!Begin
<1>7. Done(row) = 0 /\ Len(Lab!StepsOf[flow]) \in 1..Len(Lab!StepsOf[flow])
  <2>1. PICK n \in 1..9 : n = Len(Lab!StepsOf[flow])
    BY StepFacts
  <2>2. Done(row) = Len(Lab!StepsOf[flow]) - Len(Lab!StepsOf[flow])
    BY <1>5 DEF Done
  <2>3. n - n = 0 /\ n \in 1..n
    OBVIOUS
  <2> QED  BY <2>1, <2>2, <2>3
<1>8. Placed(row) /\ Concluded(r, row) /\ \A dir : Found(r, row, dir)
  <2>1. \A i \in 1..Len(row.steps) : row.steps[i] = Lab!StepsOf[row.flow][Done(row) + i]
    BY <1>5, <1>7, StepFacts
  <2>2. row.crawls = CrawlsBy(row.flow, Done(row))
    BY <1>5, <1>7 DEF CrawlsBy
  <2>3. Placed(row)
    BY <1>5, <1>7, <2>1, <2>2 DEF Placed
  <2>4. \A dir : Found(r, row, dir)
    BY <1>7 DEF Found
  <2> QED  BY <1>5, <2>3, <2>4 DEF Concluded
<1>9. ASSUME NEW o \in LabRuns PROVE RunKept(o)'
  <2>1. CASE o = r
    <3>1. row.dir <= second'
      BY <1>5, LabFacts
    <3> QED  BY <1>5, <1>6, <1>8, <2>1, <3>1 DEF RunKept
  <2>2. CASE o # r
    <3>1. RunKept(o) /\ flowRuns'[o] = flowRuns[o]
      BY <1>6, <2>2 DEF LabInv
    <3>2. Lab!Mixed(o) => Lab!Mixed(o)'
      BY <1>1, <1>6, <3>1 DEF Lab!Mixed
    <3> QED  BY <3>1, <3>2 DEF RunKept
  <2> QED  BY <2>1, <2>2
<1>10. Lab!Worked' \subseteq Lab!Worked \cup (IF by = "worker" THEN {r} ELSE {})
  BY <1>5, <1>6 DEF Lab!Worked, Lab!Active
<1>11. WorkerAlone'
  <2>1. \A f : Lab!QueueOf(f)' = Lab!QueueOf(f)
    BY DEF Lab!QueueOf
  <2>2. ASSUME NEW o \in Lab!Worked', NEW p \in Lab!Worked',
               Lab!QueueOf(flowRuns'[o].flow) = Lab!QueueOf(flowRuns'[p].flow)
        PROVE o = p
    <3>1. \A w \in Lab!Worked : w \in LabRuns \ {r} /\ flowRuns'[w] = flowRuns[w]
      BY <1>1, <1>6 DEF Lab!Worked, Lab!Active
    <3>2. CASE o = r \/ p = r
      BY <1>5, <1>6, <1>10, <2>2, <3>1, <3>2
    <3>3. CASE o # r /\ p # r
      BY <1>10, <2>2, <3>1, <3>3 DEF LabInv, WorkerAlone
    <3> QED  BY <3>2, <3>3
  <2> QED  BY <2>1, <2>2 DEF WorkerAlone
<1>12. Configured'
  BY <1>10 DEF LabInv, Configured
<1>13. LabTyped'
  BY <1>6 DEF LabInv, LabTyped
<1> QED  BY <1>9, <1>11, <1>12, <1>13 DEF LabInv

LEMMA CliStep == ASSUME LabInv, Lab!CliRun PROVE LabInv'
<1>1. PICK r \in LabRuns, flow \in CliFlows : Lab!Begin(r, flow, "cli")
  BY DEF Lab!CliRun
<1>2. flow \in LabFlows /\ UNCHANGED <<lab, queued, dirs, second>>
  BY LabConstants DEF Lab!LabAssumption, LabFlows, Lab!CliRun
<1>3. queued' \in [Deployed -> 0..MaxQueued]
  BY <1>2, LabFacts
<1> QED  BY <1>1, <1>2, <1>3, RunBegins

LEMMA TakeStep ==
    ASSUME LabInv, NEW r \in LabRuns, NEW d \in Deployed, Lab!Take(r, d)
    PROVE LabInv'
<1>1. /\ lab.phase = "up" /\ queued[d] > 0 /\ Lab!Begin(r, d, "worker")
      /\ queued' = [queued EXCEPT ![d] = queued[d] - 1] /\ UNCHANGED <<lab, dirs, second>>
  BY DEF Lab!Take
<1>2. d \in LabFlows /\ IsFiniteSet(LabRuns)
  BY LabConstants DEF Lab!LabAssumption, LabFlows, Lab!IsFiniteSet, IsFiniteSet
<1>3. queued[d] - 1 \in 0..MaxQueued
  BY <1>1, LabFacts
<1>4. queued' \in [Deployed -> 0..MaxQueued]
  BY <1>1, <1>3, LabFacts
<1> DEFINE others == {o \in Lab!Worked : Lab!QueueOf(flowRuns[o].flow) = Lab!QueueOf(d)}
<1>5. others = {}
  <2>1. others \subseteq LabRuns
    BY DEF Lab!Worked, Lab!Active
  <2>2. Cardinality(others) < 1
    BY DEF Lab!Take, Lab!QueueLimit, Lab!Cardinality, Cardinality
  <2> HIDE DEF others
  <2>3. IsFiniteSet(others)
    BY <1>2, <2>1, FS_Subset
  <2>4. Cardinality(others) \in Nat
    BY <2>3, FS_CardinalityType
  <2>5. Cardinality(others) = 0
    BY <2>2, <2>4
  <2> QED  BY <2>3, <2>5, FS_EmptySet
<1>6. lab.done = Len(Lab!Setup)
  BY <1>1 DEF LabInv, Configured
<1>7. \A o \in Lab!Worked : Lab!QueueOf(flowRuns[o].flow) # Lab!QueueOf(d)
  BY <1>5
<1> QED  BY <1>1, <1>2, <1>4, <1>6, <1>7, RunBegins

\* A run that fails concludes nothing more; a worker's never lacked a limit.
LEMMA FailsStep ==
    ASSUME LabInv, NEW r \in LabRuns, flowRuns[r].state = "running", NEW unlimited \in BOOLEAN,
           flowRuns[r].by = "worker" => ~unlimited, Lab!FailRun(r, unlimited)
    PROVE LabInv'
<1>1. PICK old \in FlowRow : old = flowRuns[r] /\ RunKept(r) /\ old.state = "running"
  BY LabFacts DEF LabInv
<1>2. PICK row : row = [old EXCEPT !.state = "failed", !.steps = <<>>, !.slot = FALSE,
                          !.crawls = 0, !.unlimited = unlimited]
  OBVIOUS
<1>3. row \in FlowRow
  <2>1. <<>> \in Seq(LabSteps)
    OBVIOUS
  <2>2. 0 \in 0..2
    OBVIOUS
  <2> QED  BY <1>2, <2>1, <2>2, Zenon DEF FlowRow
<1>4. /\ row.flow = old.flow /\ row.by = old.by /\ row.dir = old.dir /\ row.state = "failed"
      /\ row.compared = old.compared /\ row.compiled = old.compiled /\ row.unlimited = unlimited
  BY <1>2 DEF FlowRow
<1>5. /\ flowRuns' = [flowRuns EXCEPT ![r] = row] /\ UNCHANGED <<lab, dirs, second>>
      /\ queued' = queued \/ (Lab!Room(Lab!Diagnostic) /\ Lab!Diagnostic \in Deployed /\
           queued' = [queued EXCEPT ![Lab!Diagnostic] = queued[Lab!Diagnostic] + 1])
         \/ (Lab!Diagnostic \notin Deployed /\
           queued' = [queued EXCEPT ![Lab!Diagnostic] = queued[Lab!Diagnostic] + 1])
  BY <1>1, <1>2 DEF Lab!FailRun
<1>6. queued' \in [Deployed -> 0..MaxQueued]
  <2>1. CASE queued' = queued
    BY <2>1, LabFacts
  <2>2. CASE Lab!Diagnostic \in Deployed /\ Lab!Room(Lab!Diagnostic)
             /\ queued' = [queued EXCEPT ![Lab!Diagnostic] = queued[Lab!Diagnostic] + 1]
    <3>1. queued[Lab!Diagnostic] + 1 \in 0..MaxQueued
      BY <2>2, LabFacts DEF Lab!Room
    <3> QED  BY <2>2, <3>1, LabFacts
  <2>3. CASE Lab!Diagnostic \notin Deployed
             /\ queued' = [queued EXCEPT ![Lab!Diagnostic] = queued[Lab!Diagnostic] + 1]
    BY <2>3, LabFacts
  <2> QED  BY <1>5, <2>1, <2>2, <2>3
<1>7. Placed(row) /\ (\A dir : Found(r, row, dir)) /\ (Concluded(r, old) => Concluded(r, row))
  BY <1>4 DEF Placed, Found, Concluded
<1>8. ~Lab!Mixed(r) => Concluded(r, row)
  BY <1>1, <1>7 DEF RunKept
<1>9. dirs' \in [0..MaxSecond -> Crawled] /\ dirs' = dirs
  BY <1>5, LabFacts
<1> QED  BY <1>1, <1>3, <1>4, <1>5, <1>6, <1>7, <1>8, <1>9, RunGoes

LEMMA AllMade ==
    ASSUME lab.done = Len(Lab!Setup), NEW step \in Lab!Slotted
    PROVE Lab!Made(step)
<1>1. Len(Lab!Setup) = 8 /\ \A i \in 1..5 : i \in 1..8
  BY DEF Lab!Setup
<1>2. /\ Lab!Setup[1] = "browse" /\ Lab!Setup[2] = "crawl" /\ Lab!Setup[3] = "compile"
      /\ Lab!Setup[4] = "build" /\ Lab!Setup[5] = "read"
  BY DEF Lab!Setup
<1>3. \E i \in 1..5 : Lab!Setup[i] = step
  BY <1>2 DEF Lab!Slotted
<1> QED  BY <1>1, <1>3 DEF Lab!Made

LEMMA AcquireStep == ASSUME LabInv, NEW r \in LabRuns, Lab!AcquireSlot(r) PROVE LabInv'
<1>1. PICK old \in FlowRow : old = flowRuns[r] /\ RunKept(r) /\ old.state = "running"
  BY LabFacts DEF LabInv, Lab!AcquireSlot, Lab!Active
<1>2. Head(old.steps) \in Lab!Slotted
  BY <1>1 DEF Lab!AcquireSlot
<1>3. CASE ~Lab!Made(Head(old.steps))
  <2>1. Lab!FailRun(r, TRUE)
    BY <1>1, <1>3 DEF Lab!AcquireSlot
  <2>2. old.by # "worker"
    <3>1. SUFFICES ASSUME old.by = "worker" PROVE FALSE
      OBVIOUS
    <3>2. lab.done = Len(Lab!Setup)
      BY <1>1, <3>1 DEF LabInv, Configured, Lab!Worked, Lab!Active
    <3> QED  BY <1>2, <1>3, <3>2, AllMade
  <2> QED  BY <1>1, <2>1, <2>2, FailsStep
<1>4. CASE Lab!Made(Head(old.steps))
  <2>1. PICK row : row = [old EXCEPT !.slot = TRUE]
    OBVIOUS
  <2>2. flowRuns' = [flowRuns EXCEPT ![r] = row] /\ UNCHANGED <<lab, queued, dirs, second>>
    BY <1>1, <1>4, <2>1 DEF Lab!AcquireSlot
  <2>3. /\ row \in FlowRow /\ row.flow = old.flow /\ row.by = old.by /\ row.dir = old.dir
        /\ row.state = old.state /\ row.steps = old.steps /\ row.crawls = old.crawls
        /\ row.compared = old.compared /\ row.compiled = old.compiled
        /\ row.unlimited = old.unlimited
    BY <2>1 DEF FlowRow
  <2>4. Done(row) = Done(old)
    BY <2>3 DEF Done
  <2>5. Placed(row) /\ (\A dir : Found(r, old, dir) => Found(r, row, dir))
        /\ (Concluded(r, old) => Concluded(r, row))
    BY <1>1, <2>3, <2>4 DEF RunKept, Placed, Found, Concluded
  <2>6. dirs' = dirs /\ dirs' \in [0..MaxSecond -> Crawled] /\ queued' \in [Deployed -> 0..MaxQueued]
    BY <2>2, LabFacts
  <2>7. row.by = "worker" => ~row.unlimited
    BY <1>1, <2>3 DEF RunKept
  <2>8. ~Lab!Mixed(r) => Found(r, row, dirs'[row.dir]) /\ Concluded(r, row)
    BY <1>1, <2>3, <2>5, <2>6 DEF RunKept
  <2> QED  BY <1>1, <2>2, <2>3, <2>5, <2>6, <2>7, <2>8, RunGoes
<1> QED  BY <1>3, <1>4

LEMMA PipelineQueue == ASSUME NEW f \in Crawling PROVE Lab!QueueOf(f) = "pipeline"
  BY DEF Crawling, Lab!QueueOf, Lab!Diagnostic

\* Runs that crawl into the same directory are mixed, or are one run.
LEMMA CrawlsApart ==
    ASSUME LabInv, NEW r \in LabRuns, NEW o \in LabRuns \ {r},
           flowRuns[r].state = "running", flowRuns[o].state = "running",
           flowRuns[r].flow \in Crawling, flowRuns[o].flow \in Crawling,
           flowRuns[o].dir = flowRuns[r].dir
    PROVE Lab!Mixed(o)
<1>1. SUFFICES ASSUME "cli" \notin {flowRuns[r].by, flowRuns[o].by} PROVE FALSE
  BY DEF Lab!Mixed
<1>2. flowRuns[r].by = "worker" /\ flowRuns[o].by = "worker"
  BY <1>1 DEF LabInv, RunKept, Placed
<1>3. r \in Lab!Worked /\ o \in Lab!Worked
  BY <1>2 DEF Lab!Worked, Lab!Active
<1> QED  BY <1>3, PipelineQueue DEF LabInv, WorkerAlone

LEMMA CrawlsCounted ==
    ASSUME NEW old \in FlowRow, old.state = "running", Placed(old)
    PROVE /\ Head(old.steps) = "crawl" => old.crawls + 1 \in 1..2
                                          /\ old.crawls + 1 = CrawlsBy(old.flow, Done(old) + 1)
          /\ Head(old.steps) # "crawl" => old.crawls = CrawlsBy(old.flow, Done(old) + 1)
<1>1. PICK k \in Nat : k = Done(old)
  BY NextPlace
<1>2. old.crawls = CrawlsBy(old.flow, k)
  BY <1>1 DEF Placed
<1>3. CASE old.flow \notin Crawling
  BY <1>1, <1>2, <1>3, StepAt DEF CrawlsBy
<1>4. CASE old.flow \in Crawling
  <2>1. Head(old.steps) = "crawl" <=> k \in {0, 2}
    BY <1>1, <1>4, StepAt
  <2>2. k = 0 \/ k = 1 \/ k = 2 \/ k >= 3
    BY <1>1
  <2>3. /\ k = 0 => CrawlsBy(old.flow, k) = 0 /\ CrawlsBy(old.flow, k + 1) = 1
        /\ k = 1 => CrawlsBy(old.flow, k) = 1 /\ CrawlsBy(old.flow, k + 1) = 1
        /\ k = 2 => CrawlsBy(old.flow, k) = 1 /\ CrawlsBy(old.flow, k + 1) = 2
        /\ k >= 3 => CrawlsBy(old.flow, k) = 2 /\ CrawlsBy(old.flow, k + 1) = 2
    BY <1>1, <1>4 DEF CrawlsBy
  <2> QED  BY <1>1, <1>2, <2>1, <2>2, <2>3
<1> QED  BY <1>3, <1>4

LEMMA OneLess ==
    ASSUME NEW n \in Nat, NEW m \in Nat, n >= 1
    PROVE (m + n) - (n - 1) = m + 1 /\ (n # 1 => n - 1 \in 1..(m + n))
<1>1. (m + n) - (n - 1) = m + 1
  OBVIOUS
<1>2. ASSUME n # 1 PROVE n - 1 \in 1..(m + n)
  BY <1>2
<1> QED  BY <1>1, <1>2

LEMMA AfterStep ==
    ASSUME LabInv, NEW r \in LabRuns, flowRuns[r].state = "running", Lab!After(r)
    PROVE LabInv'
<1>1. PICK old \in FlowRow : old = flowRuns[r] /\ RunKept(r) /\ old.state = "running"
  BY LabFacts DEF LabInv
<1>2. Placed(old) /\ old.dir \in 0..MaxSecond /\ old.crawls \in 0..2
  BY <1>1, FlowFields DEF RunKept
<1>3. PICK dir \in Crawled : dir = dirs[old.dir] /\ dir.latest \in CrawlOf /\ dir.first \in CrawlOf
  BY <1>2, LabFacts DEF Crawled
<1>4. PICK step : step = Head(old.steps)
  OBVIOUS
<1>5. PICK crawls \in 0..2 :
        /\ crawls = (IF step = "crawl" THEN old.crawls + 1 ELSE old.crawls)
        /\ crawls = CrawlsBy(old.flow, Done(old) + 1)
        /\ step = "crawl" => <<r, crawls>> \in CrawlOf
  <2>1. CASE step = "crawl"
    <3>1. old.crawls + 1 \in 1..2 /\ old.crawls + 1 = CrawlsBy(old.flow, Done(old) + 1)
      BY <1>1, <1>2, <1>4, <2>1, CrawlsCounted
    <3>2. <<r, old.crawls + 1>> \in CrawlOf
      BY <3>1 DEF CrawlOf
    <3>3. old.crawls + 1 \in 0..2
      BY <3>1
    <3> QED  BY <2>1, <3>1, <3>2, <3>3
  <2>2. CASE step # "crawl"
    BY <1>1, <1>2, <1>4, <2>2, CrawlsCounted
  <2> QED  BY <2>1, <2>2
<1>6. PICK left \in Crawled :
        /\ left = CASE step = "crawl" -> [dir EXCEPT !.latest = <<r, crawls>>]
                    [] step = "snapshot" -> [dir EXCEPT !.first = dir.latest]
                    [] OTHER -> dir
        /\ left.latest = (IF step = "crawl" THEN <<r, crawls>> ELSE dir.latest)
        /\ left.first = (IF step = "snapshot" THEN dir.latest ELSE dir.first)
  <2>1. CASE step = "crawl"
    <3>1. [dir EXCEPT !.latest = <<r, crawls>>] \in Crawled
      BY <1>3, <1>5, <2>1 DEF Crawled
    <3> QED  BY <1>3, <2>1, <3>1 DEF Crawled
  <2>2. CASE step = "snapshot"
    <3>1. [dir EXCEPT !.first = dir.latest] \in Crawled
      BY <1>3 DEF Crawled
    <3> QED  BY <1>3, <2>2, <3>1 DEF Crawled
  <2>3. CASE step \notin {"crawl", "snapshot"}
    BY <1>3, <2>3
  <2> QED  BY <2>1, <2>2, <2>3
<1>7. /\ dirs' \in [0..MaxSecond -> Crawled] /\ dirs'[old.dir] = left
      /\ \A s \in 0..MaxSecond : s # old.dir \/ step \notin {"crawl", "snapshot"} => dirs'[s] = dirs[s]
  <2>1. dirs' = CASE step = "crawl" -> [dirs EXCEPT ![old.dir] = [dir EXCEPT !.latest = <<r, crawls>>]]
                  [] step = "snapshot" -> [dirs EXCEPT ![old.dir] = [dir EXCEPT !.first = dir.latest]]
                  [] OTHER -> dirs
    BY <1>1, <1>3, <1>4, <1>5 DEF Lab!After
  <2>2. CASE step = "crawl"
    <3>1. dirs' = [dirs EXCEPT ![old.dir] = left]
      BY <1>6, <2>1, <2>2
    <3> QED  BY <1>2, <2>2, <3>1, LabFacts
  <2>3. CASE step = "snapshot"
    <3>1. dirs' = [dirs EXCEPT ![old.dir] = left]
      BY <1>6, <2>1, <2>3
    <3> QED  BY <1>2, <2>3, <3>1, LabFacts
  <2>4. CASE step \notin {"crawl", "snapshot"}
    <3>1. dirs' = dirs /\ left = dir
      BY <1>6, <2>1, <2>4
    <3> QED  BY <1>3, <2>4, <3>1, LabFacts
  <2> QED  BY <2>2, <2>3, <2>4
<1>8. PICK compared \in (CrawlOf \X CrawlOf) \cup {<<>>} :
        compared = IF step = "compare" THEN <<dir.first, dir.latest>> ELSE old.compared
  BY <1>3, FlowFields
<1>9. PICK compiled \in CrawlOf :
        compiled = IF step = "compile" /\ old.flow = "end-to-end" THEN dir.latest ELSE old.compiled
  BY <1>3, FlowFields
<1>10. PICK state \in {"running", "completed"} :
         state = IF Len(old.steps) = 1 THEN "completed" ELSE "running"
  OBVIOUS
<1>11. PICK row : row = [old EXCEPT !.steps = Tail(old.steps), !.slot = FALSE, !.state = state,
                           !.crawls = crawls, !.compared = compared, !.compiled = compiled]
  OBVIOUS
<1>12. row \in FlowRow
  <2>1. Tail(old.steps) \in Seq(LabSteps)
    BY <1>1, <1>2, NextPlace
  <2> QED  BY <1>1, <1>11, <2>1, ZenonT(40) DEF FlowRow
<1>13. /\ row.flow = old.flow /\ row.by = old.by /\ row.dir = old.dir /\ row.state = state
       /\ row.steps = Tail(old.steps) /\ row.crawls = crawls /\ row.compared = compared
       /\ row.compiled = compiled /\ row.unlimited = old.unlimited
  BY <1>11 DEF FlowRow
<1>14. flowRuns' = [flowRuns EXCEPT ![r] = row] /\ UNCHANGED <<lab, queued, second>>
  <2>1. /\ flowRuns' = [flowRuns EXCEPT ![r] = [old EXCEPT
              !.steps = Tail(old.steps), !.slot = FALSE,
              !.state = IF Len(old.steps) = 1 THEN "completed" ELSE old.state,
              !.crawls = IF step = "crawl" THEN old.crawls + 1 ELSE old.crawls,
              !.compared = IF step = "compare" THEN <<dir.first, dir.latest>> ELSE old.compared,
              !.compiled = IF step = "compile" /\ old.flow = "end-to-end" THEN dir.latest
                           ELSE old.compiled]]
        /\ UNCHANGED <<lab, queued, second>>
    BY <1>1, <1>3, <1>4 DEF Lab!After
  <2> QED  BY <1>1, <1>5, <1>8, <1>9, <1>10, <1>11, <2>1
<1>15. state = "running" => Done(row) = Done(old) + 1 /\ Len(row.steps) \in 1..Len(Lab!StepsOf[old.flow])
  <2>1. /\ Len(Tail(old.steps)) = Len(old.steps) - 1 /\ Len(old.steps) \in Nat \ {0}
        /\ Done(old) + Len(old.steps) = Len(Lab!StepsOf[old.flow]) /\ Done(old) \in Nat
    BY <1>1, <1>2, NextPlace
  <2>2. Done(row) = Len(Lab!StepsOf[old.flow]) - Len(Tail(old.steps))
    BY <1>13 DEF Done
  <2>3. PICK n \in Nat, m \in Nat : n = Len(old.steps) /\ m = Done(old) /\ n >= 1
    BY <2>1
  <2>4. Done(row) = (m + n) - (n - 1) /\ Len(row.steps) = n - 1 /\ Len(Lab!StepsOf[old.flow]) = m + n
    BY <1>13, <2>1, <2>2, <2>3
  <2>5. (m + n) - (n - 1) = m + 1 /\ (n # 1 => n - 1 \in 1..(m + n))
    BY <2>3, OneLess
  <2>6. state = "running" => n # 1
    BY <1>10, <2>3
  <2> QED  BY <2>3, <2>4, <2>5, <2>6
<1>16. Placed(row)
  <2>1. SUFFICES ASSUME state = "running" PROVE Placed(row)
    BY <1>10, <1>13 DEF Placed
  <2>2. row.flow \in LabFlows /\ row.by \in {"cli", "worker"}
    BY <1>1, <1>2, <1>13 DEF Placed
  <2>3. \A i \in 1..Len(row.steps) : row.steps[i] = Lab!StepsOf[row.flow][Done(row) + i]
    <3>1. \A i \in 1..Len(old.steps) - 1 :
            Tail(old.steps)[i] = Lab!StepsOf[old.flow][Done(old) + 1 + i]
          /\ Len(Tail(old.steps)) = Len(old.steps) - 1
      BY <1>1, <1>2, NextPlace
    <3> QED  BY <1>13, <1>15, <2>1, <3>1
  <2> QED  BY <1>5, <1>13, <1>15, <2>1, <2>2, <2>3 DEF Placed
<1>17. ASSUME ~Lab!Mixed(r) PROVE Found(r, row, left) /\ Concluded(r, row)
  <2>1. Found(r, old, dir) /\ Concluded(r, old)
    BY <1>1, <1>3, <1>17 DEF RunKept
  <2>2. PICK k \in Nat : k = Done(old)
    BY <1>1, <1>2, NextPlace
  <2>3. /\ old.flow \in Crawling => /\ k >= 1 => dir.latest = <<r, old.crawls>>
                                    /\ k >= 2 => dir.first = <<r, 1>>
        /\ old.crawls = CrawlsBy(old.flow, k) /\ crawls = CrawlsBy(old.flow, k + 1)
    BY <1>1, <1>2, <1>5, <2>1, <2>2 DEF Found, Placed
  <2>4. /\ old.flow \notin Crawling => step \notin {"crawl", "snapshot", "compare"}
        /\ old.flow \in Crawling => /\ step = "crawl" <=> k \in {0, 2}
                                    /\ step = "snapshot" <=> k = 1
                                    /\ step = "compare" <=> k = 3
        /\ old.flow = "end-to-end" /\ step = "compile" => k = 4
    BY <1>1, <1>2, <1>4, <2>2, StepAt
  <2>5. Found(r, row, left)
    <3>1. SUFFICES ASSUME state = "running", old.flow \in Crawling
                   PROVE left.latest = <<r, crawls>> /\ (k + 1 >= 2 => left.first = <<r, 1>>)
      BY <1>13, <1>15, <2>2 DEF Found
    <3>2. CASE step = "crawl"
      <4>1. left.latest = <<r, crawls>> /\ left.first = dir.first
        BY <1>6, <3>2
      <4>2. k + 1 >= 2 => k >= 2
        BY <2>4, <3>1, <3>2
      <4> QED  BY <2>3, <3>1, <4>1, <4>2
    <3>3. CASE step = "snapshot"
      <4>1. k = 1 /\ k >= 1 /\ ~(k >= 3)
        BY <2>4, <3>1, <3>3
      <4>2. crawls = 1 /\ old.crawls = 1
        BY <2>3, <3>1, <4>1 DEF CrawlsBy
      <4>3. left.latest = dir.latest /\ left.first = dir.latest
        BY <1>6, <3>3
      <4> QED  BY <2>3, <3>1, <4>1, <4>2, <4>3
    <3>4. CASE step \notin {"crawl", "snapshot"}
      <4>1. left.latest = dir.latest /\ left.first = dir.first /\ crawls = old.crawls
        BY <1>5, <1>6, <3>4
      <4>2. k >= 2
        BY <2>4, <3>1, <3>4
      <4>3. k >= 1
        BY <4>2
      <4> QED  BY <2>3, <3>1, <4>1, <4>2, <4>3
    <3> QED  BY <3>2, <3>3, <3>4
  <2>6. compared \in {<<>>, <<<<r, 1>>, <<r, 2>>>>}
    <3>1. CASE step = "compare"
      <4>1. old.flow \in Crawling /\ k = 3
        BY <2>4, <3>1
      <4>2. old.crawls = 2
        BY <2>3, <4>1 DEF CrawlsBy
      <4>3. dir.latest = <<r, 2>> /\ dir.first = <<r, 1>>
        BY <2>3, <4>1, <4>2
      <4> QED  BY <1>8, <3>1, <4>3
    <3>2. CASE step # "compare"
      BY <1>8, <2>1, <3>2 DEF Concluded
    <3> QED  BY <3>1, <3>2
  <2>7. compiled \in {<<>>, <<r, 2>>}
    <3>1. CASE step = "compile" /\ old.flow = "end-to-end"
      <4>1. old.flow \in Crawling /\ k = 4
        BY <2>4, <3>1 DEF Crawling
      <4>2. old.crawls = 2
        BY <2>3, <4>1 DEF CrawlsBy
      <4>3. dir.latest = <<r, 2>>
        BY <2>3, <4>1, <4>2
      <4> QED  BY <1>9, <3>1, <4>3
    <3>2. CASE ~(step = "compile" /\ old.flow = "end-to-end")
      BY <1>9, <2>1, <3>2 DEF Concluded
    <3> QED  BY <3>1, <3>2
  <2> QED  BY <1>13, <2>5, <2>6, <2>7 DEF Concluded
<1>18. ASSUME NEW o \in LabRuns \ {r}, flowRuns[o].state = "running",
              flowRuns[o].flow \in Crawling, ~Lab!Mixed(o)
       PROVE dirs'[flowRuns[o].dir] = dirs[flowRuns[o].dir]
  <2>1. flowRuns[o].dir \in 0..MaxSecond
    BY LabFacts, FlowFields
  <2>2. CASE step \in {"crawl", "snapshot"}
    <3>1. old.flow \in Crawling
      BY <1>1, <1>2, <1>4, <2>2, StepAt
    <3>2. flowRuns[o].dir # old.dir
      BY <1>1, <1>18, <3>1, CrawlsApart
    <3> QED  BY <1>7, <2>1, <3>2
  <2>3. CASE step \notin {"crawl", "snapshot"}
    BY <1>7, <2>1, <2>3
  <2> QED  BY <2>2, <2>3
<1>19. queued' \in [Deployed -> 0..MaxQueued]
  BY <1>14, LabFacts
<1>20. row.by = "worker" => ~row.unlimited
  BY <1>1, <1>13 DEF RunKept
<1>21. row.state # "unused"
  BY <1>10, <1>13
<1>22. ~Lab!Mixed(r) => Found(r, row, dirs'[row.dir]) /\ Concluded(r, row)
  BY <1>7, <1>13, <1>17
<1> QED  BY <1>1, <1>7, <1>12, <1>13, <1>14, <1>16, <1>18, <1>19, <1>20, <1>21, <1>22, RunGoes

LEMMA LabWorkStep == ASSUME LabInv, NEW r \in LabRuns, Lab!WorkStep(r) PROVE LabInv'
<1>1. flowRuns[r].state = "running"
  BY DEF Lab!WorkStep, Lab!Active
<1>2. CASE Lab!After(r)
  BY <1>1, <1>2, AfterStep
<1>3. CASE Lab!FailRun(r, FALSE)
  BY <1>1, <1>3, FailsStep
<1> QED  BY <1>2, <1>3 DEF Lab!WorkStep

\* The runs that lose their server conclude nothing more, and none of them works on.
LEMMA StopStackStep == ASSUME LabInv, Lab!StopStack PROVE LabInv'
<1>1. PICK now \in LabState : now = lab
  BY LabFacts
<1>2. lab' = [now EXCEPT !.phase = "down"] /\ UNCHANGED <<queued, dirs, second>>
  BY <1>1 DEF Lab!StopStack
<1>3. lab' \in LabState /\ lab'.phase = "down"
  BY <1>2 DEF LabState
<1>4. ASSUME NEW r \in LabRuns
      PROVE /\ flowRuns'[r] \in FlowRow /\ Same(r) /\ flowRuns'[r].state # "running"
            /\ flowRuns[r].state = "unused" => flowRuns'[r] = flowRuns[r]
            /\ flowRuns'[r].compared = flowRuns[r].compared
            /\ flowRuns'[r].compiled = flowRuns[r].compiled
            /\ flowRuns'[r].unlimited = flowRuns[r].unlimited
  <2>1. PICK old \in FlowRow : old = flowRuns[r]
    BY LabFacts
  <2>2. CASE old.state = "running"
    <3>1. PICK row : row = [old EXCEPT !.state = "crashed", !.steps = <<>>, !.slot = FALSE,
                              !.crawls = 0]
      OBVIOUS
    <3>2. flowRuns'[r] = row
      BY <2>1, <2>2, <3>1 DEF Lab!StopStack, Lab!Active
    <3>3. row \in FlowRow
      <4>1. <<>> \in Seq(LabSteps)
        OBVIOUS
      <4>2. 0 \in 0..2
        OBVIOUS
      <4> QED  BY <3>1, <4>1, <4>2, Zenon DEF FlowRow
    <3>4. /\ row.flow = old.flow /\ row.by = old.by /\ row.dir = old.dir /\ row.state = "crashed"
          /\ row.compared = old.compared /\ row.compiled = old.compiled
          /\ row.unlimited = old.unlimited
      BY <3>1 DEF FlowRow
    <3> QED  BY <2>1, <2>2, <3>2, <3>3, <3>4 DEF Same
  <2>3. CASE old.state # "running"
    <3>1. flowRuns'[r] = old
      BY <2>1, <2>3 DEF Lab!StopStack, Lab!Active
    <3> QED  BY <2>1, <2>3, <3>1 DEF Same
  <2> QED  BY <2>2, <2>3
<1>5. flowRuns' \in [LabRuns -> FlowRow]
  <2>1. flowRuns' = [r \in LabRuns |-> flowRuns'[r]]
    BY DEF Lab!StopStack
  <2> QED  BY <1>4, <2>1
<1>6. ASSUME NEW r \in LabRuns PROVE RunKept(r)'
  <2>1. RunKept(r) /\ (Lab!Mixed(r)' <=> Lab!Mixed(r))
    BY <1>4, MixedAsBefore DEF LabInv
  <2>2. Placed(flowRuns'[r]) /\ \A dir : Found(r, flowRuns'[r], dir)
    BY <1>4 DEF Placed, Found
  <2>3. Concluded(r, flowRuns[r]) => Concluded(r, flowRuns'[r])
    BY <1>4 DEF Concluded
  <2>4. flowRuns'[r].by = "worker" => ~flowRuns'[r].unlimited
    BY <1>4, <2>1 DEF RunKept, Same
  <2>5. /\ flowRuns'[r].state # "unused" => flowRuns'[r].by \in {"cli", "worker"}
                                            /\ flowRuns'[r].dir <= second'
        /\ flowRuns'[r].state = "unused" => flowRuns'[r] = Lab!Unused
    BY <1>2, <1>4, <2>1 DEF RunKept, Same
  <2> QED  BY <2>1, <2>2, <2>3, <2>4, <2>5 DEF RunKept
<1>7. Lab!Worked' = {}
  BY <1>4 DEF Lab!Worked, Lab!Active
<1>8. WorkerAlone' /\ Configured'
  BY <1>3, <1>7 DEF WorkerAlone, Configured
<1>9. LabTyped'
  BY <1>2, <1>3, <1>5, LabFacts DEF LabTyped, LabState
<1> QED  BY <1>6, <1>8, <1>9 DEF LabInv

LEMMA LabKept == ASSUME LabInv, [Lab!Next]_(Lab!labVars) PROVE LabInv'
<1>1. CASE UNCHANGED Lab!labVars
  <2>1. UNCHANGED <<lab, queued, flowRuns, dirs, second>>
    BY <1>1 DEF Lab!labVars
  <2>2. second <= second /\ (lab.phase = "up" => lab.done = Len(Lab!Setup))
    BY LabFacts DEF LabInv, Configured
  <2> QED  BY <2>1, <2>2, LabFacts, LabStays DEF LabState
<1>2. CASE Lab!StartStack \/ Lab!Configure \/ Lab!Open
  BY <1>2, StackSteps
<1>3. CASE Lab!StopStack
  BY <1>3, StopStackStep
<1>4. CASE Lab!CliRun
  BY <1>4, CliStep
<1>5. CASE Lab!TickSecond
  BY <1>5, TickStep
<1>6. CASE \E d \in Deployed : Lab!ScheduleRun(d)
  BY <1>6, ScheduleStep
<1>7. CASE \E r \in LabRuns, d \in Deployed : Lab!Take(r, d)
  BY <1>7, TakeStep
<1>8. CASE \E r \in LabRuns : Lab!AcquireSlot(r) \/ Lab!WorkStep(r)
  BY <1>8, AcquireStep, LabWorkStep
<1> QED  BY <1>1, <1>2, <1>3, <1>4, <1>5, <1>6, <1>7, <1>8 DEF Lab!Next

LEMMA LabShows == ASSUME LabInv PROVE Lab!TypeOK /\ Lab!ConclusionsAreOwn
<1>1. ASSUME NEW r \in LabRuns PROVE flowRuns[r].dir \in 0..second /\ flowRuns[r].crawls \in 0..2
  <2>1. PICK row \in FlowRow : row = flowRuns[r] /\ RunKept(r)
    BY LabFacts DEF LabInv
  <2>2. row.dir \in 0..MaxSecond /\ row.crawls \in 0..2
    BY FlowFields
  <2>3. CASE row.state = "unused"
    <3>1. row.dir = 0
      BY <2>1, <2>3 DEF RunKept, Lab!Unused
    <3> QED  BY <2>1, <2>2, <3>1, LabFacts
  <2>4. CASE row.state # "unused"
    <3>1. row.dir <= second
      BY <2>1, <2>4 DEF RunKept
    <3> QED  BY <2>1, <2>2, <3>1, LabFacts
  <2> QED  BY <2>3, <2>4
<1>2. Lab!TypeOK
  BY <1>1, LabFacts DEF Lab!TypeOK, LabState
<1>3. Lab!ConclusionsAreOwn
  BY DEF LabInv, RunKept, Concluded, Lab!ConclusionsAreOwn
<1> QED  BY <1>2, <1>3

-----------------------------------------------------------------------------
\* The job market.  What a request shows and what it says of it grow together: something
\* of a provider or an import comes with its kind, and a refresh without a warning has
\* heard every provider it has asked.

Offer == [source : Market!Sources \cup {"synthetic_demo"},
          id : {p.id : p \in Postings} \cup {"demo:0", "demo:1"},
          mode : {p.mode : p \in Postings} \cup {"remote", "onsite"}]
RealOffer == {offer \in Offer : offer.source # "synthetic_demo"}
Kinds == {"live", "cached", "synthetic_demo"}
AskRow == [pc : {"idle", "load", "fetch", "fall back", "answered"}, refresh : BOOLEAN,
           mode : Modes \cup {"any"}, next : 1..Len(Providers) + 1, cached : Seq(Postings),
           postings : Seq(RealOffer), shown : SUBSET Offer, kinds : SUBSET Kinds,
           warned : SUBSET Market!Sources]
Asking(ask) == ask.pc \in {"load", "fetch", "fall back"}

SnapshotsKept == snapshots \in [Market!Sources -> Seq(Postings)]
\* While it asks.
Gathered(ask) ==
    /\ ask.kinds \subseteq {"live", "cached"}
    /\ ask.postings = <<>> <=> ask.kinds = {}
    /\ ask.pc \in {"fetch", "fall back"} => ask.next \in DOMAIN Providers
    /\ ask.refresh /\ ask.warned = {} => ask.pc # "fall back" /\ (ask.next > 1 => "live" \in ask.kinds)
    /\ ask.pc = "fetch" => ask.refresh
\* Once it has answered.
AnsweredHonestly(ask) ==
    /\ \/ /\ "synthetic_demo" \notin ask.kinds /\ ask.kinds # {}
          /\ \A offer \in ask.shown : offer.source # "synthetic_demo"
       \/ /\ ask.kinds = {"synthetic_demo"}
          /\ \A offer \in ask.shown : offer.source = "synthetic_demo"
    /\ IsFiniteSet(ask.shown)
    /\ \A p, q \in ask.shown : p.id = q.id => p = q
    /\ ask.refresh /\ ask.warned = {} => "live" \in ask.kinds
AskKept(ask) == (Asking(ask) => Gathered(ask)) /\ (ask.pc = "answered" => AnsweredHonestly(ask))
MarketInv == /\ SnapshotsKept /\ asks \in [Asks -> AskRow]
             /\ \A a \in Asks : AskKept(asks[a])

LEMMA MarketLengths ==
    /\ Providers \in Seq(Market!Sources) /\ Len(Providers) \in Nat /\ Len(Providers) >= 1
    /\ DOMAIN Providers = 1..Len(Providers) /\ "synthetic_demo" \notin Market!Sources
    /\ \A i \in DOMAIN Providers : Providers[i] \in Market!Sources
  BY MarketConstants DEF Market!MarketAssumption

LEMMA NextProvider == ASSUME NEW i \in DOMAIN Providers PROVE i + 1 \in 1..Len(Providers) + 1
  BY MarketLengths

LEMMA NoAskKept == Market!NoAsk \in AskRow /\ AskKept(Market!NoAsk)
<1>1. 1 \in 1..Len(Providers) + 1
  BY MarketLengths
<1>2. <<>> \in Seq(Postings) /\ <<>> \in Seq(RealOffer)
  OBVIOUS
<1>3. Market!NoAsk \in AskRow
  BY <1>1, <1>2 DEF Market!NoAsk, AskRow
<1>4. Market!NoAsk.pc = "idle"
  BY DEF Market!NoAsk
<1> QED  BY <1>3, <1>4 DEF AskKept, Asking

LEMMA MarketInit == ASSUME Market!Init PROVE MarketInv
  BY NoAskKept DEF Market!Init, MarketInv, SnapshotsKept

\* A request goes on as ask.
LEMMA AskGoes ==
    ASSUME MarketInv, SnapshotsKept', NEW a \in Asks, NEW ask \in AskRow, AskKept(ask),
           asks' = [asks EXCEPT ![a] = ask]
    PROVE MarketInv'
<1>1. asks' \in [Asks -> AskRow]
  BY DEF MarketInv
<1>2. \A b \in Asks : asks'[b] = IF b = a THEN ask ELSE asks[b]
  BY DEF MarketInv
<1>3. \A b \in Asks : AskKept(asks'[b])
  BY <1>2 DEF MarketInv
<1> QED  BY <1>1, <1>3 DEF MarketInv

LEMMA PostingFields ==
    ASSUME NEW s \in Seq(Postings)
    PROVE /\ Len(s) \in Nat /\ DOMAIN s = 1..Len(s)
          /\ \A i \in DOMAIN s : s[i].id \in {p.id : p \in Postings} /\ s[i].mode \in {p.mode : p \in Postings}
<1>1. \A i \in DOMAIN s : s[i] \in Postings
  OBVIOUS
<1> QED  BY <1>1

LEMMA FromReal ==
    ASSUME NEW source \in Market!Sources, NEW s \in Seq(Postings)
    PROVE /\ Market!From(source, s) \in Seq(RealOffer)
          /\ Market!From(source, s) = <<>> <=> s = <<>>
<1> DEFINE t == Market!From(source, s)
<1>1. DOMAIN t = 1..Len(s) /\ Len(s) \in Nat
  BY PostingFields DEF Market!From
<1>2. ASSUME NEW i \in 1..Len(s) PROVE t[i] \in RealOffer
  <2>1. t[i] = [source |-> source, id |-> s[i].id, mode |-> s[i].mode]
    BY PostingFields DEF Market!From
  <2>2. [source |-> source, id |-> s[i].id, mode |-> s[i].mode] \in Offer
    BY PostingFields DEF Offer
  <2>3. t[i] \in Offer /\ t[i].source = source
    BY <2>1, <2>2
  <2> QED  BY <2>3, MarketLengths DEF RealOffer
<1>3. t = [i \in 1..Len(s) |-> t[i]]
  BY PostingFields DEF Market!From
<1>4. t \in Seq(RealOffer) /\ Len(t) = Len(s)
  <2> HIDE DEF t
  <2> QED  BY <1>1, <1>2, <1>3
<1>5. t = <<>> <=> s = <<>>
  <2> HIDE DEF t
  <2> QED  BY <1>1, <1>4
<1> QED  BY <1>4, <1>5

LEMMA OffersJoin ==
    ASSUME NEW s \in Seq(RealOffer), NEW t \in Seq(RealOffer), t # <<>>
    PROVE s \o t \in Seq(RealOffer) /\ s \o t # <<>>
<1>1. Len(s \o t) = Len(s) + Len(t) /\ Len(t) # 0 /\ Len(s) \in Nat /\ Len(t) \in Nat
  OBVIOUS
<1> QED  BY <1>1

LEMMA AskFields ==
    ASSUME NEW ask \in AskRow
    PROVE /\ ask.pc \in {"idle", "load", "fetch", "fall back", "answered"} /\ ask.refresh \in BOOLEAN
          /\ ask.next \in 1..Len(Providers) + 1 /\ ask.cached \in Seq(Postings)
          /\ ask.postings \in Seq(RealOffer) /\ ask.kinds \in SUBSET Kinds
          /\ ask.warned \in SUBSET Market!Sources
  BY DEF AskRow

LEMMA ImportIsKept == ASSUME MarketInv, Market!ImportSnapshot PROVE MarketInv'
<1>1. PICK dataset \in Imports : snapshots' = [snapshots EXCEPT !["import"] = dataset]
  BY DEF Market!ImportSnapshot
<1>2. dataset \in Seq(Postings)
  BY MarketConstants DEF Market!MarketAssumption
<1>3. SnapshotsKept' /\ asks' = asks
  BY <1>1, <1>2 DEF MarketInv, SnapshotsKept, Market!ImportSnapshot
<1> QED  BY <1>3 DEF MarketInv

LEMMA AskStarts == ASSUME MarketInv, NEW a \in Asks, Market!StartAsk(a) PROVE MarketInv'
<1> DEFINE imported == Market!From("import", snapshots["import"])
<1>1. PICK refresh0 \in BOOLEAN, mode \in Modes :
        asks' = [asks EXCEPT ![a] = [Market!NoAsk EXCEPT !.pc = "load", !.refresh = refresh0,
                   !.mode = mode, !.postings = imported,
                   !.kinds = IF imported # <<>> THEN {"cached"} ELSE {}]]
  BY DEF Market!StartAsk, Market!Became
<1>2. imported \in Seq(RealOffer)
  BY FromReal DEF MarketInv, SnapshotsKept, Market!Sources
<1> HIDE DEF imported
<1>3. PICK kinds \in SUBSET Kinds : kinds = IF imported # <<>> THEN {"cached"} ELSE {}
  BY DEF Kinds
<1>4. PICK start : start = [Market!NoAsk EXCEPT !.pc = "load", !.refresh = refresh0, !.mode = mode,
                              !.postings = imported, !.kinds = kinds]
  OBVIOUS
<1>5. start \in AskRow
  BY <1>2, <1>3, <1>4, NoAskKept DEF AskRow
<1>6. /\ start.pc = "load" /\ start.postings = imported /\ start.kinds = kinds /\ start.next = 1
  BY <1>4, NoAskKept DEF AskRow, Market!NoAsk
<1>7. AskKept(start)
  BY <1>3, <1>6 DEF AskKept, Asking, Gathered
<1>8. asks' = [asks EXCEPT ![a] = start]
  BY <1>1, <1>3, <1>4
<1>9. SnapshotsKept'
  BY DEF Market!StartAsk, MarketInv, SnapshotsKept
<1> QED  BY <1>5, <1>7, <1>8, <1>9, AskGoes

LEMMA AskLoads == ASSUME MarketInv, NEW a \in Asks, Market!LoadSnapshot(a) PROVE MarketInv'
<1>1. PICK ask \in AskRow : ask = asks[a] /\ AskKept(ask)
  BY DEF MarketInv
<1>0. /\ asks[a].pc = "load" /\ asks[a].next <= Len(Providers)
      /\ asks' = [asks EXCEPT ![a] = [asks[a] EXCEPT !.cached = snapshots[Providers[asks[a].next]],
                                     !.pc = IF asks[a].refresh THEN "fetch" ELSE "fall back"]]
      /\ UNCHANGED snapshots
  BY DEF Market!LoadSnapshot, Market!Became, Market!Provider
<1>2. /\ ask.pc = "load" /\ ask.next <= Len(Providers) /\ ask.next \in DOMAIN Providers
      /\ Gathered(ask)
  <2>1. ask.pc = "load" /\ Gathered(ask)
    BY <1>0, <1>1 DEF AskKept, Asking
  <2>2. ask.next \in 1..Len(Providers) + 1 /\ ask.next <= Len(Providers)
    BY <1>0, <1>1, AskFields
  <2> QED  BY <2>1, <2>2, MarketLengths
<1>3. snapshots[Providers[ask.next]] \in Seq(Postings)
  BY <1>2, MarketLengths DEF MarketInv, SnapshotsKept
<1>4. PICK cached0 \in Seq(Postings) : cached0 = snapshots[Providers[ask.next]]
  BY <1>3
<1>5. PICK on : on = [ask EXCEPT !.cached = cached0, !.pc = IF ask.refresh THEN "fetch" ELSE "fall back"]
  OBVIOUS
<1>6. on \in AskRow
  BY <1>4, <1>5, AskFields DEF AskRow
<1>7. /\ on.pc = (IF ask.refresh THEN "fetch" ELSE "fall back") /\ on.postings = ask.postings
      /\ on.kinds = ask.kinds /\ on.next = ask.next /\ on.refresh = ask.refresh
      /\ on.warned = ask.warned
  BY <1>5 DEF AskRow
<1>8. AskKept(on)
  BY <1>2, <1>7, AskFields DEF AskKept, Asking, Gathered
<1>9. asks' = [asks EXCEPT ![a] = on] /\ SnapshotsKept'
  BY <1>0, <1>1, <1>4, <1>5 DEF MarketInv, SnapshotsKept
<1> QED  BY <1>6, <1>8, <1>9, AskGoes

LEMMA AskFetches == ASSUME MarketInv, NEW a \in Asks, Market!Fetch(a) PROVE MarketInv'
<1>1. PICK ask \in AskRow : ask = asks[a] /\ AskKept(ask)
  BY DEF MarketInv
<1>2. ask.pc = "fetch" /\ Gathered(ask) /\ ask.next \in DOMAIN Providers
  BY <1>1 DEF Market!Fetch, AskKept, Asking, Gathered
<1>3. PICK source \in Market!Sources : source = Providers[ask.next]
  BY <1>2, MarketLengths
<1>4. PICK feed \in Feeds[source] :
         /\ feed # <<>>
         /\ snapshots' = [snapshots EXCEPT ![source] = feed]
         /\ asks' = [asks EXCEPT ![a] = [ask EXCEPT !.pc = "load", !.next = @ + 1, !.cached = <<>>,
              !.postings = @ \o Market!From(source, feed), !.kinds = @ \cup {"live"}]]
  BY <1>1, <1>3 DEF Market!Fetch, Market!Compatible, Market!Became, Market!Provider
<1>5. feed \in Seq(Postings)
  BY <1>2, <1>3, MarketConstants DEF Market!MarketAssumption
<1>6. PICK offers \in Seq(RealOffer) : offers = Market!From(source, feed) /\ offers # <<>>
  BY <1>4, <1>5, FromReal
<1>7. PICK all \in Seq(RealOffer) : all = ask.postings \o offers /\ all # <<>>
  BY <1>6, AskFields, OffersJoin
<1>8. PICK on : on = [ask EXCEPT !.pc = "load", !.next = ask.next + 1, !.cached = <<>>,
                        !.postings = all, !.kinds = ask.kinds \cup {"live"}]
  OBVIOUS
<1>9. /\ ask.next + 1 \in 1..Len(Providers) + 1 /\ ask.kinds \cup {"live"} \in SUBSET Kinds
      /\ <<>> \in Seq(Postings)
  <2>1. ask.kinds \cup {"live"} \in SUBSET Kinds
    BY AskFields DEF Kinds
  <2> QED  BY <1>2, <2>1, NextProvider
<1>10. on \in AskRow
  BY <1>7, <1>8, <1>9 DEF AskRow
<1>11. /\ on.pc = "load" /\ on.postings = all /\ on.kinds = ask.kinds \cup {"live"}
       /\ on.refresh = ask.refresh /\ on.warned = ask.warned
  BY <1>8 DEF AskRow
<1>12. AskKept(on)
  BY <1>2, <1>7, <1>11 DEF AskKept, Asking, Gathered
<1>13. asks' = [asks EXCEPT ![a] = on]
  BY <1>4, <1>6, <1>7, <1>8
<1>14. SnapshotsKept'
  BY <1>4, <1>5 DEF MarketInv, SnapshotsKept
<1> QED  BY <1>10, <1>12, <1>13, <1>14, AskGoes

LEMMA AskFails == ASSUME MarketInv, NEW a \in Asks, Market!FetchFails(a) PROVE MarketInv'
<1>1. PICK ask \in AskRow : ask = asks[a] /\ AskKept(ask)
  BY DEF MarketInv
<1>2. ask.pc = "fetch" /\ Gathered(ask) /\ ask.next \in DOMAIN Providers
  BY <1>1 DEF Market!FetchFails, AskKept, Asking, Gathered
<1>3. PICK source \in Market!Sources : source = Providers[ask.next]
  BY <1>2, MarketLengths
<1>4. PICK on : on = [ask EXCEPT !.pc = "fall back", !.warned = ask.warned \cup {source}]
  OBVIOUS
<1>5. on \in AskRow
  BY <1>4, AskFields DEF AskRow
<1>6. /\ on.pc = "fall back" /\ on.postings = ask.postings /\ on.kinds = ask.kinds
      /\ on.next = ask.next /\ on.warned # {}
  BY <1>4 DEF AskRow
<1>7. AskKept(on)
  BY <1>2, <1>6 DEF AskKept, Asking, Gathered
<1>8. asks' = [asks EXCEPT ![a] = on] /\ SnapshotsKept'
  BY <1>1, <1>3, <1>4
     DEF Market!FetchFails, Market!Became, Market!Provider, MarketInv, SnapshotsKept
<1> QED  BY <1>5, <1>7, <1>8, AskGoes

LEMMA AskFallsBack == ASSUME MarketInv, NEW a \in Asks, Market!FallBack(a) PROVE MarketInv'
<1>1. PICK ask \in AskRow : ask = asks[a] /\ AskKept(ask)
  BY DEF MarketInv
<1>2. ask.pc = "fall back" /\ Gathered(ask) /\ ask.next \in DOMAIN Providers
  BY <1>1 DEF Market!FallBack, AskKept, Asking, Gathered
<1>3. PICK source \in Market!Sources : source = Providers[ask.next]
  BY <1>2, MarketLengths
<1>4. PICK next \in 1..Len(Providers) + 1 : next = ask.next + 1
  BY <1>2, NextProvider
<1>0. <<>> \in Seq(Postings)
  OBVIOUS
<1>5. SnapshotsKept'
  BY DEF Market!FallBack, MarketInv, SnapshotsKept
<1>6. CASE ask.cached # <<>>
  <2>1. PICK offers \in Seq(RealOffer) : offers = Market!From(source, ask.cached) /\ offers # <<>>
    <3>1. ask.cached \in Seq(Postings)
      BY AskFields
    <3> QED  BY <1>6, <3>1, FromReal
  <2>2. PICK all \in Seq(RealOffer) : all = ask.postings \o offers /\ all # <<>>
    BY <2>1, AskFields, OffersJoin
  <2>3. PICK on : on = [ask EXCEPT !.pc = "load", !.next = next, !.cached = <<>>,
                          !.postings = all, !.kinds = ask.kinds \cup {"cached"}]
    OBVIOUS
  <2>4. ask.kinds \cup {"cached"} \in SUBSET Kinds
    BY AskFields DEF Kinds
  <2>5. on \in AskRow
    BY <1>0, <1>4, <2>2, <2>3, <2>4 DEF AskRow
  <2>6. /\ on.pc = "load" /\ on.postings = all /\ on.kinds = ask.kinds \cup {"cached"}
        /\ on.refresh = ask.refresh /\ on.warned = ask.warned
    BY <2>3 DEF AskRow
  <2>7. AskKept(on)
    BY <1>2, <2>2, <2>6 DEF AskKept, Asking, Gathered
  <2>8. asks' = [asks EXCEPT ![a] = on]
    BY <1>1, <1>3, <1>4, <1>6, <2>1, <2>2, <2>3 DEF Market!FallBack, Market!Became, Market!Provider
  <2> QED  BY <1>5, <2>5, <2>7, <2>8, AskGoes
<1>7. CASE ask.cached = <<>>
  <2>1. PICK on : on = [ask EXCEPT !.pc = "load", !.next = next, !.cached = <<>>,
                          !.warned = ask.warned \cup {source}]
    OBVIOUS
  <2>2. on \in AskRow
    BY <1>0, <1>4, <2>1, AskFields DEF AskRow
  <2>3. /\ on.pc = "load" /\ on.postings = ask.postings /\ on.kinds = ask.kinds /\ on.warned # {}
    BY <2>1 DEF AskRow
  <2>4. AskKept(on)
    BY <1>2, <2>3 DEF AskKept, Asking, Gathered
  <2>5. asks' = [asks EXCEPT ![a] = on]
    BY <1>1, <1>3, <1>4, <1>7, <2>1 DEF Market!FallBack, Market!Became, Market!Provider
  <2> QED  BY <1>5, <2>2, <2>4, <2>5, AskGoes
<1> QED  BY <1>6, <1>7

\* Of each id the first: a finite set, with ids of their own.
LEMMA FirstOfEach ==
    ASSUME NEW S, NEW s \in Seq(S)
    PROVE /\ IsFiniteSet(Market!Deduplicate(s)) /\ Market!Deduplicate(s) \subseteq S
          /\ \A p, q \in Market!Deduplicate(s) : p.id = q.id => p = q
<1> DEFINE firsts == {k \in DOMAIN s : \A j \in 1..k - 1 : s[j].id # s[k].id}
<1>1. DOMAIN s = 1..Len(s) /\ Len(s) \in Nat /\ \A i \in DOMAIN s : s[i] \in S
  OBVIOUS
<1>2. IsFiniteSet(firsts)
  <2>1. firsts \subseteq 1..Len(s) /\ IsFiniteSet(1..Len(s))
    BY <1>1, FS_Interval
  <2> QED  BY <2>1, FS_Subset
<1>3. \A i, j \in firsts : s[i].id = s[j].id => i = j
  <2>1. ASSUME NEW i \in firsts, NEW j \in firsts, s[i].id = s[j].id PROVE ~(i < j)
    <3>1. i \in 1..Len(s) /\ j \in 1..Len(s)
      BY <1>1
    <3>2. i < j => i \in 1..j - 1
      BY <1>1, <3>1
    <3>3. \A k \in 1..j - 1 : s[k].id # s[j].id
      OBVIOUS
    <3> QED  BY <2>1, <3>2, <3>3
  <2>2. \A i, j \in firsts : i \in Int /\ j \in Int
    BY <1>1
  <2> HIDE DEF firsts
  <2> QED  BY <2>1, <2>2
<1>4. Market!Deduplicate(s) = {s[i] : i \in firsts}
  BY DEF Market!Deduplicate
<1> HIDE DEF firsts
<1>5. IsFiniteSet({s[i] : i \in firsts})
  <2>1. IsFiniteSet(firsts) /\ [i \in firsts |-> s[i]] \in Surjection(firsts, {s[i] : i \in firsts})
    BY <1>2 DEF Surjection
  <2> QED  BY <2>1, FS_Surjection
<1>6. {s[i] : i \in firsts} \subseteq S
  BY <1>1, <1>4 DEF Market!Deduplicate
<1> QED  BY <1>3, <1>4, <1>5, <1>6

DemoOffer == {offer \in Offer : offer.source = "synthetic_demo"}

LEMMA DemoMadeUp == Market!Demo \in Seq(DemoOffer)
<1> DEFINE made == <<[id |-> "demo:0", mode |-> "remote"], [id |-> "demo:1", mode |-> "onsite"]>>
<1>1. Len(made) = 2 /\ DOMAIN made = 1..2 /\ made[1].id = "demo:0" /\ made[2].id = "demo:1"
      /\ made[1].mode = "remote" /\ made[2].mode = "onsite"
  OBVIOUS
<1>2. Market!Demo = [i \in 1..2 |-> [source |-> "synthetic_demo", id |-> made[i].id, mode |-> made[i].mode]]
  BY <1>1 DEF Market!Demo, Market!From
<1>3. \A i \in 1..2 : made[i].id \in {"demo:0", "demo:1"} /\ made[i].mode \in {"remote", "onsite"}
  BY <1>1
<1> HIDE DEF made
<1>4. ASSUME NEW i \in 1..2
      PROVE [source |-> "synthetic_demo", id |-> made[i].id, mode |-> made[i].mode] \in DemoOffer
  <2>1. [source |-> "synthetic_demo", id |-> made[i].id, mode |-> made[i].mode] \in Offer
    BY <1>3 DEF Offer
  <2> QED  BY <2>1 DEF DemoOffer
<1> QED  BY <1>2, <1>4

LEMMA AskAnswers == ASSUME MarketInv, NEW a \in Asks, Market!Answer(a) PROVE MarketInv'
<1>1. PICK ask \in AskRow : ask = asks[a] /\ AskKept(ask)
  BY DEF MarketInv
<1>2. ask.pc = "load" /\ Gathered(ask) /\ ask.next > Len(Providers)
  BY <1>1 DEF Market!Answer, AskKept, Asking
<1>3. PICK none \in BOOLEAN : none = (ask.postings = <<>>)
  OBVIOUS
<1>4. PICK offers \in Seq(Offer) :
        /\ offers = IF none THEN Market!Demo ELSE ask.postings
        /\ offers \in Seq(IF none THEN DemoOffer ELSE RealOffer)
  <2>1. DemoOffer \subseteq Offer /\ RealOffer \subseteq Offer
    BY DEF DemoOffer, RealOffer
  <2>2. Market!Demo \in Seq(DemoOffer) /\ ask.postings \in Seq(RealOffer)
    BY DemoMadeUp, AskFields
  <2>3. Market!Demo \in Seq(Offer) /\ ask.postings \in Seq(Offer)
    BY <2>1, <2>2
  <2> QED  BY <2>2, <2>3
<1>5. PICK all : /\ all = Market!Deduplicate(offers) /\ IsFiniteSet(all) /\ all \subseteq Offer
                 /\ all \subseteq (IF none THEN DemoOffer ELSE RealOffer)
                 /\ \A p, q \in all : p.id = q.id => p = q
  BY <1>4, FirstOfEach
<1>6. PICK shown \in SUBSET Offer : /\ shown = {p \in all : ask.mode \in {"any", p.mode}}
                                   /\ shown \subseteq all /\ IsFiniteSet(shown)
  <2>1. {p \in all : ask.mode \in {"any", p.mode}} \subseteq all
    OBVIOUS
  <2> QED  BY <1>5, <2>1, FS_Subset
<1>7. PICK kinds \in SUBSET Kinds :
        kinds = IF none THEN ask.kinds \cup {"synthetic_demo"} ELSE ask.kinds
  BY AskFields DEF Kinds
<1>8. PICK on : on = [ask EXCEPT !.pc = "answered", !.kinds = kinds, !.postings = <<>>, !.shown = shown]
  OBVIOUS
<1>9. on \in AskRow
  <2>1. <<>> \in Seq(RealOffer)
    OBVIOUS
  <2> QED  BY <1>6, <1>7, <1>8, <2>1 DEF AskRow
<1>10. /\ on.pc = "answered" /\ on.kinds = kinds /\ on.shown = shown
       /\ on.refresh = ask.refresh /\ on.warned = ask.warned
  BY <1>8 DEF AskRow
<1>11. AskKept(on)
  <2>1. \/ /\ "synthetic_demo" \notin kinds /\ kinds # {}
           /\ \A offer \in shown : offer.source # "synthetic_demo"
        \/ /\ kinds = {"synthetic_demo"}
           /\ \A offer \in shown : offer.source = "synthetic_demo"
    <3>1. CASE none
      <4>1. kinds = {"synthetic_demo"}
        BY <1>2, <1>3, <1>7, <3>1 DEF Gathered
      <4>2. \A offer \in shown : offer.source = "synthetic_demo"
        BY <1>5, <1>6, <3>1 DEF DemoOffer
      <4> QED  BY <4>1, <4>2
    <3>2. CASE ~none
      <4>1. "synthetic_demo" \notin kinds /\ kinds # {}
        BY <1>2, <1>3, <1>7, <3>2 DEF Gathered
      <4>2. \A offer \in shown : offer.source # "synthetic_demo"
        BY <1>5, <1>6, <3>2 DEF RealOffer
      <4> QED  BY <4>1, <4>2
    <3> QED  BY <3>1, <3>2
  <2>2. ask.refresh /\ ask.warned = {} => "live" \in kinds
    <3>1. ask.next > 1
      <4>0. ask.next \in 1..Len(Providers) + 1
        BY AskFields
      <4>1. ask.next \in Int
        BY <4>0
      <4> QED  BY <1>2, <4>1, MarketLengths
    <3> QED  BY <1>2, <1>7, <3>1 DEF Gathered
  <2>3. \A p, q \in shown : p.id = q.id => p = q
    BY <1>5, <1>6
  <2> QED  BY <1>6, <1>10, <2>1, <2>2, <2>3 DEF AskKept, Asking, AnsweredHonestly
<1>12. asks' = [asks EXCEPT ![a] = on] /\ UNCHANGED snapshots
  <2>1. /\ UNCHANGED snapshots
        /\ asks' = [asks EXCEPT ![a] = [ask EXCEPT !.pc = "answered",
             !.kinds = IF ask.postings = <<>> THEN ask.kinds \cup {"synthetic_demo"} ELSE ask.kinds,
             !.postings = <<>>,
             !.shown = {p \in Market!Deduplicate(IF ask.postings = <<>> THEN Market!Demo
                                                 ELSE ask.postings) :
                          ask.mode \in {"any", p.mode}}]]
    BY <1>1 DEF Market!Answer, Market!Became
  <2>2. offers = IF ask.postings = <<>> THEN Market!Demo ELSE ask.postings
    BY <1>3, <1>4
  <2>3. kinds = IF ask.postings = <<>> THEN ask.kinds \cup {"synthetic_demo"} ELSE ask.kinds
    BY <1>3, <1>7
  <2> QED  BY <1>5, <1>6, <1>8, <2>1, <2>2, <2>3
<1>13. SnapshotsKept'
  BY <1>12 DEF MarketInv, SnapshotsKept
<1> QED  BY <1>9, <1>11, <1>12, <1>13, AskGoes

LEMMA MarketKept == ASSUME MarketInv, [Market!Next]_(Market!marketVars) PROVE MarketInv'
<1>1. CASE UNCHANGED Market!marketVars
  BY <1>1 DEF Market!marketVars, MarketInv, SnapshotsKept
<1> QED
  BY <1>1, ImportIsKept, AskStarts, AskLoads, AskFetches, AskFails, AskFallsBack, AskAnswers
     DEF Market!Next

LEMMA MarketShows == ASSUME MarketInv PROVE Market!LabelIsHonest /\ Market!TypeOK
<1>1. Market!TypeOK
  BY DEF MarketInv, SnapshotsKept, AskRow, Kinds, Market!TypeOK
<1>2. ASSUME NEW a \in Asks, asks[a].pc = "answered"
      PROVE LET shown == asks[a].shown
                sources == {p.source : p \in shown}
            IN /\ "synthetic_demo" \in sources <=> Market!SnapshotKind(a) = "synthetic_demo" /\ shown # {}
               /\ Market!SnapshotKind(a) # "synthetic_demo" => "synthetic_demo" \notin sources
               /\ Market!Cardinality({p.id : p \in shown}) = Market!Cardinality(shown)
               /\ asks[a].refresh /\ asks[a].warned = {} => Market!SnapshotKind(a) = "live"
  <2>1. PICK ask \in AskRow : ask = asks[a] /\ AnsweredHonestly(ask)
    BY <1>2 DEF MarketInv, AskKept
  <2>2. ask.kinds \subseteq Kinds
    BY AskFields
  <2>3. Market!SnapshotKind(a) = "synthetic_demo" <=> ask.kinds \subseteq {"synthetic_demo"}
    BY <2>1, <2>2 DEF Market!SnapshotKind, Kinds
  <2>4. "synthetic_demo" \in {p.source : p \in ask.shown}
          <=> Market!SnapshotKind(a) = "synthetic_demo" /\ ask.shown # {}
    BY <2>1, <2>2, <2>3 DEF AnsweredHonestly, Kinds
  <2>5. Cardinality({p.id : p \in ask.shown}) = Cardinality(ask.shown)
    <3>1. PICK f : f = [p \in ask.shown |-> p.id]
      OBVIOUS
    <3>2. f \in Bijection(ask.shown, {p.id : p \in ask.shown})
      <4>1. \A p, q \in ask.shown : f[p] = f[q] => p = q
        BY <2>1, <3>1 DEF AnsweredHonestly
      <4>2. f \in [ask.shown -> {p.id : p \in ask.shown}]
        BY <3>1
      <4>3. \A i \in {p.id : p \in ask.shown} : \E p \in ask.shown : f[p] = i
        BY <3>1
      <4> QED  BY <4>1, <4>2, <4>3 DEF Bijection, Injection, Surjection, IsInjective
    <3> QED  BY <2>1, <3>2, FS_Bijection DEF AnsweredHonestly, ExistsBijection
  <2>6. \A S : Market!Cardinality(S) = Cardinality(S)
    BY DEF Market!Cardinality, Cardinality
  <2>7. ask.refresh /\ ask.warned = {} => Market!SnapshotKind(a) = "live"
    BY <2>1 DEF AnsweredHonestly, Market!SnapshotKind
  <2> QED  BY <2>1, <2>4, <2>5, <2>6, <2>7
<1> QED  BY <1>1, <1>2 DEF Market!LabelIsHonest

-----------------------------------------------------------------------------
\* The parts together.  The part in focus keeps its invariant; there is nothing to say
\* of the others.

PartsInv ==
    /\ focus = "scan" => ScanInv
    /\ focus = "fit" => FitInv
    /\ focus = "funnel" => FunnelInv
    /\ focus = "bank" => BankInv
    /\ focus = "exec" => ExecInv
    /\ focus = "lab" => LabInv
    /\ focus = "social" => SocialInv
    /\ focus = "crawl" => CrawlInv
    /\ focus = "build" => BuildInv
    /\ focus = "market" => MarketInv
    /\ focus = "onboard" => SetUpInv
    /\ focus = "ai" => AIInv

LEMMA PartsStart == ASSUME PartsInit PROVE PartsInv
<1>1. ASSUME focus = "scan" PROVE ScanInv
  BY <1>1, ScanInit, ScanConstants DEF PartsInit
<1>2. ASSUME focus = "fit" PROVE FitInv
  BY <1>2, FitInit, FitConstants DEF PartsInit
<1>3. ASSUME focus = "funnel" PROVE FunnelInv
  BY <1>3, FunnelInit, FunnelConstants DEF PartsInit
<1>4. ASSUME focus = "bank" PROVE BankInv
  BY <1>4, BankInit, BankConstants DEF PartsInit
<1>5. ASSUME focus = "exec" PROVE ExecInv
  BY <1>5, ExecInit, ExecutorConstants DEF PartsInit
<1>6. ASSUME focus = "onboard" PROVE SetUpInv
  BY <1>6, SetUpInit, OnboardingConstants DEF PartsInit
<1>7. ASSUME focus = "ai" PROVE AIInv
  BY <1>7, AIInit, AIConstants DEF PartsInit
<1>8. ASSUME focus = "lab" PROVE LabInv
  BY <1>8, LabInit, LabConstants DEF PartsInit
<1>9. ASSUME focus = "market" PROVE MarketInv
  BY <1>9, MarketInit DEF PartsInit
<1>10. ASSUME focus = "social" PROVE SocialInv
  BY <1>10, SocialInit, SocialConstants DEF PartsInit
<1>11. ASSUME focus = "crawl" PROVE CrawlInv
  BY <1>11, CrawlInit, CrawlConstants DEF PartsInit
<1>12. ASSUME focus = "build" PROVE BuildInv
  BY <1>12, BuildInit, BuildConstants DEF PartsInit
<1> QED  BY <1>1, <1>2, <1>3, <1>4, <1>5, <1>6, <1>7, <1>8, <1>9, <1>10, <1>11, <1>12
            DEF PartsInv

LEMMA PartsStay == ASSUME PartsInv, UNCHANGED partsVars PROVE PartsInv'
<1>1. UNCHANGED focus /\ UNCHANGED scanVars /\ UNCHANGED fitVars /\ UNCHANGED funnelVars
  BY DEF partsVars
<1>2. /\ UNCHANGED bankVars /\ UNCHANGED execVars /\ UNCHANGED onboardVars /\ UNCHANGED aiVars
      /\ UNCHANGED labVars /\ UNCHANGED marketVars /\ UNCHANGED socialVars
      /\ UNCHANGED crawlVars /\ UNCHANGED buildVars
  BY DEF partsVars
<1>3. focus = "scan" => ScanInv'
  <2>1. UNCHANGED Scan!vars
    BY <1>1 DEF scanVars, Scan!vars
  <2> QED  BY <1>1, <2>1, ScanKept, ScanConstants DEF PartsInv
<1>4. focus = "fit" => FitInv'
  <2>1. UNCHANGED Fit!vars
    BY <1>1 DEF fitVars, Fit!vars
  <2> QED  BY <1>1, <2>1, FitKept, FitConstants DEF PartsInv
<1>5. focus = "funnel" => FunnelInv'
  <2>1. UNCHANGED Funnel!funnelVars
    BY <1>1 DEF funnelVars, Funnel!funnelVars
  <2> QED  BY <1>1, <2>1, FunnelKept, FunnelConstants DEF PartsInv
<1>6. focus = "bank" => BankInv'
  <2>1. UNCHANGED Bank!bankVars
    BY <1>2 DEF bankVars, Bank!bankVars
  <2> QED  BY <1>1, <2>1, BankKeeps, BankConstants DEF PartsInv
<1>7. focus = "exec" => ExecInv'
  <2>1. UNCHANGED Executor!execVars
    BY <1>2 DEF execVars, Executor!execVars
  <2> QED  BY <1>1, <2>1, ExecKept, ExecutorConstants DEF PartsInv
<1>8. focus = "onboard" => SetUpInv'
  <2>1. UNCHANGED Onboard!onboardVars
    BY <1>2 DEF onboardVars, Onboard!onboardVars
  <2> QED  BY <1>1, <2>1, SetUpKept, OnboardingConstants DEF PartsInv
<1>9. focus = "ai" => AIInv'
  <2>1. UNCHANGED AI!aiVars
    BY <1>2 DEF aiVars, AI!aiVars
  <2> QED  BY <1>1, <2>1, AIKept, AIConstants DEF PartsInv
<1>10. focus = "lab" => LabInv'
  <2>1. UNCHANGED Lab!labVars
    BY <1>2 DEF labVars, Lab!labVars
  <2> QED  BY <1>1, <2>1, LabKept DEF PartsInv
<1>11. focus = "market" => MarketInv'
  <2>1. UNCHANGED Market!marketVars
    BY <1>2 DEF marketVars, Market!marketVars
  <2> QED  BY <1>1, <2>1, MarketKept DEF PartsInv
<1>12. focus = "social" => SocialInv'
  <2>1. UNCHANGED Social!socialVars
    BY <1>2 DEF socialVars, Social!socialVars
  <2> QED  BY <1>1, <2>1, SocialKept, SocialConstants DEF PartsInv
<1>13. focus = "crawl" => CrawlInv'
  <2>1. UNCHANGED Crawl!crawlVars
    BY <1>2 DEF crawlVars, Crawl!crawlVars
  <2> QED  BY <1>1, <2>1, CrawlKeeps, CrawlConstants DEF PartsInv
<1>14. focus = "build" => BuildInv'
  <2>1. UNCHANGED Build!buildVars
    BY <1>2 DEF buildVars, Build!buildVars
  <2> QED  BY <1>1, <2>1, BuildKeeps, BuildConstants DEF PartsInv
<1> QED  BY <1>1, <1>3, <1>4, <1>5, <1>6, <1>7, <1>8, <1>9, <1>10, <1>11, <1>12, <1>13, <1>14
            DEF PartsInv

LEMMA PartsMove == ASSUME PartsInv, PartsNext PROVE PartsInv'
<1>1. CASE Foreground("scan") /\ Scan!Next
  <2>1. focus = "scan" /\ focus' = "scan"
    BY <1>1 DEF Foreground
  <2>2. ScanInv'
    BY <1>1, <2>1, ScanKept, ScanConstants DEF PartsInv
  <2> QED  BY <2>1, <2>2 DEF PartsInv
<1>2. CASE Foreground("fit") /\ Fit!Next
  <2>1. focus = "fit" /\ focus' = "fit"
    BY <1>2 DEF Foreground
  <2>2. FitInv'
    BY <1>2, <2>1, FitKept, FitConstants DEF PartsInv
  <2> QED  BY <2>1, <2>2 DEF PartsInv
<1>3. CASE Foreground("funnel") /\ Funnel!Next
  <2>1. focus = "funnel" /\ focus' = "funnel"
    BY <1>3 DEF Foreground
  <2>2. FunnelInv'
    BY <1>3, <2>1, FunnelKept, FunnelConstants DEF PartsInv
  <2> QED  BY <2>1, <2>2 DEF PartsInv
<1>4. CASE Foreground("bank") /\ Bank!Next
  <2>1. focus = "bank" /\ focus' = "bank"
    BY <1>4 DEF Foreground
  <2>2. BankInv'
    BY <1>4, <2>1, BankKeeps, BankConstants DEF PartsInv
  <2> QED  BY <2>1, <2>2 DEF PartsInv
<1>5. CASE Foreground("exec") /\ Executor!Next
  <2>1. focus = "exec" /\ focus' = "exec"
    BY <1>5 DEF Foreground
  <2>2. ExecInv'
    BY <1>5, <2>1, ExecKept, ExecutorConstants DEF PartsInv
  <2> QED  BY <2>1, <2>2 DEF PartsInv
<1>6. CASE Foreground("onboard") /\ Onboard!Next
  <2>1. focus = "onboard" /\ focus' = "onboard"
    BY <1>6 DEF Foreground
  <2>2. SetUpInv'
    BY <1>6, <2>1, SetUpKept, OnboardingConstants DEF PartsInv
  <2> QED  BY <2>1, <2>2 DEF PartsInv
<1>7. CASE Foreground("ai") /\ AI!Next
  <2>1. focus = "ai" /\ focus' = "ai"
    BY <1>7 DEF Foreground
  <2>2. AIInv'
    BY <1>7, <2>1, AIKept, AIConstants DEF PartsInv
  <2> QED  BY <2>1, <2>2 DEF PartsInv
<1>8. CASE Foreground("lab") /\ Lab!Next
  <2>1. focus = "lab" /\ focus' = "lab"
    BY <1>8 DEF Foreground
  <2>2. LabInv'
    BY <1>8, <2>1, LabKept DEF PartsInv
  <2> QED  BY <2>1, <2>2 DEF PartsInv
<1>9. CASE Foreground("market") /\ Market!Next
  <2>1. focus = "market" /\ focus' = "market"
    BY <1>9 DEF Foreground
  <2>2. MarketInv'
    BY <1>9, <2>1, MarketKept DEF PartsInv
  <2> QED  BY <2>1, <2>2 DEF PartsInv
<1>10. CASE Foreground("social") /\ Social!Next
  <2>1. focus = "social" /\ focus' = "social"
    BY <1>10 DEF Foreground
  <2>2. SocialInv'
    BY <1>10, <2>1, SocialKept, SocialConstants DEF PartsInv
  <2> QED  BY <2>1, <2>2 DEF PartsInv
<1>11. CASE Foreground("crawl") /\ Crawl!Next
  <2>1. focus = "crawl" /\ focus' = "crawl"
    BY <1>11 DEF Foreground
  <2>2. CrawlInv'
    BY <1>11, <2>1, CrawlKeeps, CrawlConstants DEF PartsInv
  <2> QED  BY <2>1, <2>2 DEF PartsInv
<1>12. CASE Foreground("build") /\ Build!Next
  <2>1. focus = "build" /\ focus' = "build"
    BY <1>12 DEF Foreground
  <2>2. BuildInv'
    BY <1>12, <2>1, BuildKeeps, BuildConstants DEF PartsInv
  <2> QED  BY <2>1, <2>2 DEF PartsInv
<1> QED  BY <1>1, <1>2, <1>3, <1>4, <1>5, <1>6, <1>7, <1>8, <1>9, <1>10, <1>11, <1>12
            DEF PartsNext

\* Whatever part is in focus keeps its invariant: what a request, an execution or a
\* thread has read still holds, or is marked late, when it writes.
THEOREM PartsAreOrdered == PartsSpec => []PartsInv
<1>1. PartsInv /\ [PartsNext]_partsVars => PartsInv'
  BY PartsStay, PartsMove
<1> QED  BY <1>1, PartsStart, PTL DEF PartsSpec

\* A revision of the preferences whose goal is recorded as its automatic start starts
\* no other, and a revision only exists for a whole identity, with every resume routed
\* and one default at most: for any number of requests, resumes and revisions
\* (auto_start_job_finder_if_ready, save_preferences, submit_identity_correction).
THEOREM OneStartPerRevision == PartsSpec => []OneGoalPerRevision
<1>1. PartsInv => OneGoalPerRevision
  BY SetUpShows DEF PartsInv, OneGoalPerRevision
<1> QED  BY <1>1, PartsAreOrdered, PTL

\* Unless a source changed while a request was under way, what is on record was derived
\* from what is on record now, and from demands a human has verified: for any number
\* of requests at the same time (market_fit/store.py, web/market_fit_control.py).
THEOREM JudgementsStayFresh == PartsSpec => []JudgementsAreFresh
<1>1. PartsInv => JudgementsAreFresh
  BY DEF PartsInv, FitInv, JudgementsAreFresh
<1> QED  BY <1>1, PartsAreOrdered, PTL

\* Whatever dies, fails or is tried again, an application is sent at most once by the
\* executions that keep a history, never without a reservation, and what is recorded
\* as submitted was sent: for any number of executions of any applications
\* (PlanExecutor._submit_or_stop, ApplicationLedger.set).
THEOREM SentAtMostOnce == PartsSpec => []SentOnce
<1>1. PartsInv => SentOnce
  BY DEF PartsInv, ExecInv, SentOnce
<1> QED  BY <1>1, PartsAreOrdered, PTL

\* However saves, calls and restarts interleave, a key is only sent to the provider it
\* was given for, and only whole validated configurations are used
\* (llm/local_config.py, LiteLLMProvider.complete).
THEOREM KeysStay == PartsSpec => []KeyStaysWithProvider
<1>1. PartsInv => KeyStaysWithProvider
  BY AIShows, AIConstants DEF PartsInv, KeyStaysWithProvider
<1> QED  BY <1>1, PartsAreOrdered, PTL

\* Whatever the pages show, however often a search is broken off and tried again, and
\* whoever applies meanwhile, a cycle is given no job twice, none it attempted or that
\* was sent when its card was looked at, and no more of a salary band than the goal has
\* room for: for any listings, sites and goals (collect_indeed_candidates.py).
THEOREM SelectionsAreSafe == PartsSpec => []SelectionIsSafe
<1>1. PartsInv => SelectionIsSafe
  BY ScanShows, ScanConstants DEF PartsInv, SelectionIsSafe
<1> QED  BY <1>1, PartsAreOrdered, PTL

\* However many refreshes, syncs and answers interleave, what the rule called ghosted was
\* silent too long in the events before, unless one came in between; who answered is
\* not shown as a ghost, and no more count as failed than went unanswered: for any
\* number of refreshes, applications and events (market_fit/store.py, assessment.py).
THEOREM GhostsWereSilent == PartsSpec => []GhostedOnSilence
<1>1. PartsInv => GhostedOnSilence
  BY FunnelShows, FunnelConstants DEF PartsInv, GhostedOnSilence
<1> QED  BY <1>1, PartsAreOrdered, PTL

\* However pages are planned, answered, saved and begun again by any number of workers,
\* a private answer is not kept, and no question for a human is answered by the model
\* or from the profile: for any questions and pages (smart_apply_questions.py).
THEOREM AnswersAreBounded == PartsSpec => []AnswersStayInBounds
<1>1. PartsInv => AnswersStayInBounds
  BY BankShows, BankConstants DEF PartsInv, AnswersStayInBounds
<1> QED  BY <1>1, PartsAreOrdered, PTL

\* However runs of the process lab are started, limited, failed or cut off, what one
\* concludes is about its own crawls unless a run started by hand shares the second that
\* names its directory, and the worker's runs find every limit: for any number of runs,
\* flows and deployments (process_lab/flows.py, launcher.py, configuration.py).
THEOREM ConclusionsStayOwn == PartsSpec => []ConclusionsAreOwn
<1>1. PartsInv => ConclusionsAreOwn
  BY LabShows DEF PartsInv, ConclusionsAreOwn
<1> QED  BY <1>1, PartsAreOrdered, PTL

\* Whatever the providers answer, fail to or have cached, made-up postings are said to be
\* made up and real ones are not, a refresh that warns of nothing is said to be live, and
\* none is shown twice: for any providers, postings and requests (job_market/service.py).
THEOREM LabelsAreHonest == PartsSpec => []LabelIsHonest
<1>1. PartsInv => LabelIsHonest
  BY MarketShows DEF PartsInv, LabelIsHonest
<1> QED  BY <1>1, PartsAreOrdered, PTL

\* In whatever order the vendors of a collection answer, fail and end, what was looked at
\* is in it once, or a post of its id or text is; a session on file is of somebody who
\* signed in since the last disconnect was over: for any vendors, accounts and feeds
\* (sources/social/aggregator.py, web/auth.py).
THEOREM CollectionsAreWhole == PartsSpec => []CollectionIsWhole
<1>1. PartsInv => CollectionIsWhole
  BY SocialShows DEF PartsInv, CollectionIsWhole
<1> QED  BY <1>1, PartsAreOrdered, PTL

\* However pages link, redirect, fail or bear out the rules learned, a crawl visits none
\* twice and none that is forbidden or elsewhere, brings each to success or failure, ends
\* only when none waits, and knows no rules no page has borne out: for any site
\* (crawling/crawler.py).
THEOREM CrawlsAreWhole == PartsSpec => []CrawlIsWhole
<1>1. PartsInv => CrawlIsWhole
  BY CrawlShows DEF PartsInv, CrawlIsWhole
<1> QED  BY <1>1, PartsAreOrdered, PTL

\* In whatever order tags come, fail and are merged, a build that ends has put every tagged
\* repository once in the resume of each of its industries and in no other, and each resume
\* stands in all formats unless another industry has its directory: for any repositories,
\* posts, answers of the model and formats (classification/industry.py, pipeline.py).
THEOREM ProjectsAreShown == PartsSpec => []EveryProjectIsShown
<1>1. PartsInv => EveryProjectIsShown
  BY BuildShows, BuildConstants DEF PartsInv, EveryProjectIsShown
<1> QED  BY <1>1, PartsAreOrdered, PTL

\* What is on record, the threads, requests and executions keep their types.
THEOREM PartsTypesHold == PartsSpec => []PartsTypeOK
<1>1. PartsInv => PartsTypeOK
  BY ScanShows, ScanConstants, FitTypes, FunnelShows, FunnelConstants, BankShows, BankConstants,
     ExecTypes, LabShows, MarketShows, SetUpShows, AIShows, AIConstants, SocialShows,
     CrawlShows, BuildShows, BuildConstants
  DEF PartsInv, PartsTypeOK
<1> QED  BY <1>1, PartsAreOrdered, PTL
=============================================================================
