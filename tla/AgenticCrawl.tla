---------------------------- MODULE AgenticCrawl ----------------------------
(***************************************************************************)
(* The crawler that learns a site's layouts (extraction/crawler.py,        *)
(* crawler_dom.py, crawler_store.py): breadth first from a seed, it keeps  *)
(* to one domain and to robots.txt, asks the model for rules of a layout   *)
(* it does not know, checks them on the page before it stores them, and    *)
(* lets the model pick which links to follow within a budget of pages.     *)
(* The layouts are files that the next crawl starts from.  The site and    *)
(* the model are external: a page may not load, and the model may answer   *)
(* anything or nothing.                                                    *)
(***************************************************************************)
EXTENDS Naturals, Sequences, FiniteSets, Functions

CONSTANTS
    Pages,        \* url -> [layout, links, text, readable] of the site's pages
    Seed,         \* the url a crawl starts from
    Forbidden,    \* urls that robots.txt forbids
    Elsewhere,    \* urls of other domains, or of actions like logging out
    Rules,        \* rule sets the model may answer: [extract, follow] booleans
    MaxDepth, MaxPages,
    MaxCrawls     \* bound: crawls

VARIABLES
    known,        \* learned layouts on disk: layout -> rules or "none"
    crawl,        \* the crawl that runs
    learnedOn     \* history: layout -> urls on which its rules were checked

crawlVars == <<known, crawl, learnedOn>>

Urls == DOMAIN Pages
Layouts == {Pages[u].layout : u \in Urls}
Unlearned == [extract |-> FALSE, follow |-> FALSE]
Safe(u) == u \in Urls /\ u \notin Elsewhere

\* The seed is a page of its own domain (crawl, commands/crawl_cmd.py:21).
CrawlAssumption ==
    /\ Safe(Seed) /\ MaxPages \in Nat \ {0}
    /\ MaxDepth \in Nat /\ MaxCrawls \in Nat
    /\ \A u \in Urls : /\ IsFiniteSet(Pages[u].links)
                       /\ Pages[u].text \in BOOLEAN /\ Pages[u].readable \in BOOLEAN
    /\ Rules \subseteq [extract : BOOLEAN, follow : BOOLEAN]

Item(u, d) == [url |-> u, depth |-> d]
NewCrawl(n) ==
    [pc |-> "pop", count |-> n, queue |-> <<Item(Seed, 0)>>, queued |-> {Seed},
     visited |-> <<>>, skipped |-> {}, failed |-> {}, extracted |-> <<>>,
     item |-> Item(Seed, 0), links |-> {}, asked |-> 0]

-----------------------------------------------------------------------------
\* apply_tag_rules: links of the page's own domain, other than to itself.
Candidates(u, rules) ==
    IF rules.follow THEN {l \in Pages[u].links : Safe(l) /\ l # u} ELSE {}

\* _validate: there must be text, and on the seed something to follow.
Valid(u, rules) ==
    /\ rules.extract /\ Pages[u].text
    /\ u = Seed => Candidates(u, rules) # {}

Fail(c) == [c EXCEPT !.pc = "pop", !.failed = @ \cup {c.item.url}]
Extract(c, method, links) ==
    [c EXCEPT !.pc = "select", !.links = links,
              !.extracted = Append(@, [url |-> c.item.url, method |-> method])]

\* _select_links: of the permitted candidates, at most as many as there is room for.
\* Mutant: what waits in the queue is not counted.
RemainingPages(c) == MaxPages - Len(c.visited)
Remaining(c) ==
    LET taken == Len(c.visited) + Len(c.queue)
    IN IF taken >= MaxPages THEN 0 ELSE MaxPages - taken
QueueLimit == 4 * MaxPages

\* What is new of it, in the order of the answer and while the queue has room.
Orders(urls) ==
    {s \in UNION {[1..n -> urls] : n \in 0..Cardinality(urls)} : IsInjective(s)}
Enterings(c, chosen) ==
    LET fresh == chosen \ (c.queued \cup Range(c.visited))
        size(s) == Cardinality(c.queued) + Len(s)
    IN {s \in Orders(fresh) : \/ Range(s) = fresh /\ size(s) <= QueueLimit
                              \/ size(s) = QueueLimit}
Enqueue(c, chosen, s) ==
    [c EXCEPT !.pc = "pop", !.links = {}, !.queued = @ \cup Range(s),
              !.skipped = @ \cup (chosen \ Range(s)),
              !.queue = @ \o [i \in DOMAIN s |-> Item(s[i], c.item.depth + 1)]]

-----------------------------------------------------------------------------
\* The next page, if there is one and the limit is not reached.
Pop ==
    /\ crawl.pc = "pop" /\ crawl.queue # <<>> /\ Len(crawl.visited) < MaxPages
    /\ LET item == Head(crawl.queue)
           rest == [crawl EXCEPT !.queue = Tail(@)]
       IN crawl' =
            IF item.url \in Range(crawl.visited) THEN rest
            ELSE IF item.depth > MaxDepth \/ item.url \in Forbidden
                 THEN [rest EXCEPT !.skipped = @ \cup {item.url}]
            ELSE [rest EXCEPT !.pc = "fetch", !.item = item, !.asked = 0,
                              !.visited = Append(@, item.url)]
    /\ UNCHANGED <<known, learnedOn>>

\* The page does not load or is empty.
FetchFails ==
    /\ crawl.pc = "fetch" /\ crawl' = Fail(crawl)
    /\ UNCHANGED <<known, learnedOn>>

\* Rules known for the page's layout are used if they are valid on this page.
UseKnown ==
    /\ crawl.pc = "fetch"
    /\ LET u == crawl.item.url
           rules == known[Pages[u].layout]
       IN crawl' = IF rules # Unlearned /\ Valid(u, rules)
                   THEN Extract(crawl, "known", Candidates(u, rules))
                   ELSE [crawl EXCEPT !.pc = "ask"]
    /\ UNCHANGED <<known, learnedOn>>

\* Asked twice at most; an answer that is not valid here is not stored.
Learn ==
    /\ crawl.pc = "ask" /\ crawl.asked < 2
    /\ LET u == crawl.item.url IN
       \E rules \in Rules \cup {Unlearned} :
         IF rules # Unlearned /\ Valid(u, rules)
         THEN /\ known' = [known EXCEPT ![Pages[u].layout] = rules]
              /\ learnedOn' = [learnedOn EXCEPT ![Pages[u].layout] = @ \cup {u}]
              /\ crawl' = Extract(crawl, "learned", Candidates(u, rules))
         ELSE /\ crawl' = [crawl EXCEPT !.asked = @ + 1]
              /\ UNCHANGED <<known, learnedOn>>

\* Without rules the page's plain text is taken, and no link is followed.
ReadPlainly ==
    /\ crawl.pc = "ask" /\ crawl.asked = 2
    /\ crawl' = IF Pages[crawl.item.url].readable THEN Extract(crawl, "readable", {})
                ELSE Fail(crawl)
    /\ UNCHANGED <<known, learnedOn>>

\* The model's choice, or nothing when it fails.
SelectLinks ==
    /\ crawl.pc = "select"
    /\ \E chosen \in SUBSET crawl.links :
         /\ Cardinality(chosen) <= IF crawl.item.depth < MaxDepth THEN Remaining(crawl) ELSE 0
         /\ \E s \in Enterings(crawl, chosen) : crawl' = Enqueue(crawl, chosen, s)
    /\ UNCHANGED <<known, learnedOn>>

EndCrawl ==
    /\ crawl.pc = "pop" /\ (crawl.queue = <<>> \/ Len(crawl.visited) >= MaxPages)
    /\ crawl' = [crawl EXCEPT !.pc = "ended"]
    /\ UNCHANGED <<known, learnedOn>>

\* Another process, with the same files.
NextCrawl ==
    /\ crawl.pc = "ended" /\ crawl.count < MaxCrawls
    /\ crawl' = NewCrawl(crawl.count + 1)
    /\ UNCHANGED <<known, learnedOn>>

Init ==
    /\ known = [l \in Layouts |-> Unlearned]
    /\ crawl = NewCrawl(1)
    /\ learnedOn = [l \in Layouts |-> {}]

Next == \/ Pop \/ FetchFails \/ UseKnown \/ Learn \/ ReadPlainly \/ SelectLinks
        \/ EndCrawl \/ NextCrawl

-----------------------------------------------------------------------------
\* Type invariant.
TypeOK ==
    /\ known \in [Layouts -> Rules \cup {Unlearned}]
    /\ crawl.pc \in {"pop", "fetch", "ask", "select", "ended"}
    /\ crawl.queued \subseteq Urls /\ crawl.skipped \subseteq Urls
    /\ crawl.asked \in 0..2

\* No page that the model picked is lost: the budget leaves room for all of them, so
\* that a crawl ends only when none waits; a page is visited once,
\* and either failed or was extracted; and rules stand for pages they were checked
\* on.
CrawlIsWhole ==
    /\ crawl.pc = "ended" => crawl.queue = <<>>
    /\ IsInjective(crawl.visited)
    /\ Range(crawl.visited) \cap (Forbidden \cup Elsewhere) = {}
    /\ crawl.pc \in {"pop", "ended"} =>
         LET extracted == {e.url : e \in Range(crawl.extracted)} IN
         /\ extracted \cap crawl.failed = {}
         /\ extracted \cup crawl.failed = Range(crawl.visited)
    /\ \A l \in Layouts :
         known[l] # Unlearned => \E u \in learnedOn[l] : Valid(u, known[l])
=============================================================================
