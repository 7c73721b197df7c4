------------------------------ MODULE MCParts ------------------------------
(***************************************************************************)
(* The parts of the system that share no state with each other, checked    *)
(* side by side: the values of their constants.                            *)
(***************************************************************************)
EXTENDS Parts, Integers, Sequences, FiniteSets

Card(name, key, band) ==
    [name |-> name, key |-> key, band |-> band, blockedTitle |-> FALSE,
     level |-> "junior", profile |-> TRUE]
Cards == << Card("a", "k1", "mid"), Card("b", "k2", "unknown"),
            Card("a", "k3", "mid"), Card("c", "k2", "mid"), Card("d", "k4", "high"),
            Card("e", "k5", "unknown"),
            [Card("f", "k6", "mid") EXCEPT !.level = "senior"],
            Card("g", "k7", "mid") >>
Page(cards, next, gated) == [cards |-> cards, next |-> next, gated |-> gated]
Pick(s) == [i \in DOMAIN s |-> Cards[s[i]]]
ScanSites ==
    {<<Page(Pick(s), 2, FALSE), Page(Pick(t), n, g)>> :
        s \in {<<1, 2, 3>>, <<4, 1>>, <<7, 8, 5>>},
        t \in {<<5, 6, 2>>, <<3, 4, 8>>}, n \in {0, 1}, g \in BOOLEAN}
ScanSearches == {<<Pick(<<1>>), Pick(<<3, 4, 2>>), Pick(<<8, 5, 6>>)>>,
                 <<<<>>, Pick(<<2, 6, 1, 4>>), Pick(<<8, 3>>)>>}
ScanListings == {Cards[i] : i \in DOMAIN Cards}
ScanBands == {<<>>, [mid |-> 1], [mid |-> 2, high |-> 1]}
Ask(label, kind, private, required) ==
    [label |-> label, kind |-> kind, private |-> private, required |-> required]
Asked == << Ask("language", "open", FALSE, FALSE), Ask("salary", "human", TRUE, TRUE),
            Ask("relocate", "human", FALSE, FALSE), Ask("language", "open", FALSE, FALSE),
            Ask("language", "open", FALSE, FALSE) >>
AskedPages == << {1, 2, 3}, {4, 5} >>
ApprovedLabels == << {"salary"}, {} >>
ExecTargets == <<"a", "a">>
LayoutsSeen == {[shape |-> "s", extras |-> e] : e \in BOOLEAN}
PlansTried == {<<"sensitive_write", "final_submit">>, <<"click_submit">>}
Post(id, text) == [id |-> id, text |-> text]
SocialFeeds == [facebook |-> {<<Post(1, "x"), Post(1, "y"), Post(2, "")>>},
                linkedin |-> {<<Post(1, "x"), Post(2, "")>>}]
SocialJars == [facebook |-> "none", linkedin |-> "me"]
NoVariables == [v \in {"facebook", "linkedin"} |-> "none"]
Web(layout, links, text) ==
    [layout |-> layout, links |-> links, text |-> text, readable |-> ~text]
WebSite == [s |-> Web("home", {"a", "b", "x", "s"}, TRUE),
            a |-> Web("post", {"b", "c", "r", "s"}, TRUE),
            b |-> Web("post", {"c", "out"}, FALSE),
            c |-> Web("home", {"a", "r"}, TRUE),
            r |-> Web("post", {}, TRUE),
            x |-> Web("post", {}, TRUE),
            out |-> Web("home", {}, TRUE)]
CrawlRules == {[extract |-> TRUE, follow |-> f] : f \in BOOLEAN}
Fields == {"ai", "ai/ml", "ai ml", "web"}
Answer(industries, skills) == [industries |-> industries, skills |-> skills]
Repositories == [r1 |-> [archived |-> FALSE, topics |-> <<"ai ml", "web">>],
                 r2 |-> [archived |-> FALSE, topics |-> <<"web">>],
                 r3 |-> [archived |-> TRUE, topics |-> <<"ai">>]]
TextIndustries == [p1 |-> {"ai", "ai ml"}]
Answers == [r1 |-> {Answer(<<"ai/ml", "ai">>, {"py"})},
            r2 |-> {Answer(<<"web", "ai ml">>, {"js"}), Answer(<<>>, {"py"})},
            p1 |-> {Answer(<<"ai/ml">>, {"js"}), Answer(<<>>, {"py"})}]
Merging == {[i \in Fields |-> IF i = "ai/ml" THEN "ai" ELSE i]}
Directories == [i \in Fields |-> IF i \in {"ai/ml", "ai ml"} THEN "ai-ml" ELSE i]
ResumeFormats == <<"md", "pdf">>
Vacancy(id, mode) == [id |-> id, mode |-> mode]
Vacancies == {Vacancy(id, mode) : id \in {"1", "2", "3"}, mode \in {"remote", "onsite"}}
BothProviders == <<"adzuna", "remotive">>
MarketFeeds == [adzuna |-> {<<Vacancy("1", "onsite")>>, <<>>},
                remotive |-> {<<Vacancy("2", "remote"), Vacancy("3", "remote")>>, <<>>}]
MarketImports == {<<Vacancy("1", "remote"), Vacancy("1", "onsite")>>, <<>>}
OnboardResumes == <<"qa", "systems">>
Setting(provider, key, url) ==
    [state |-> "whole", provider |-> provider, key |-> key, url |-> url]
AIInputs == {Setting("google", "google", FALSE), Setting("google", "none", FALSE),
             Setting("openai", "none", FALSE), Setting("ollama", "none", TRUE),
             Setting("ollama", "ollama", FALSE)}
AIEnvironments == {[Setting("none", "none", FALSE) EXCEPT !.state = "none"],
                   Setting("openai-compatible", "openai-compatible", TRUE)}
=============================================================================
