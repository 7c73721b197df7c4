---------------------------- MODULE IndustryBuild ----------------------------
(***************************************************************************)
(* One resume for each industry that the person's repositories show        *)
(* (orchestration/pipeline.py, run_industry_auto): repositories and posts  *)
(* are tagged by the model in a pool of threads with retries               *)
(* (interpretation/), names are merged by one more question to it, the     *)
(* profile is saved, industries with a project are planned                 *)
(* (classification/industry.py), and every plan is rendered in every       *)
(* format in a directory of its own.  Without a model the repositories'    *)
(* topics are the tags.  A build may die anywhere, and the next one writes *)
(* in the same directories.                                                *)
(***************************************************************************)
EXTENDS Naturals, Sequences, FiniteSets, Functions

CONSTANTS
    Repos,        \* repository -> [archived, topics]
    Posts,        \* post -> industries its text names
    TagsOf,       \* source -> answers of the model: [industries, skills]
    Skills,       \* skills the model may name
    Aliases,      \* maps of industries to industries that the model may answer
    Slug,         \* industry -> the directory of its resume
    Formats,      \* formats, in the order they are rendered
    MaxRetries,
    MaxBuilds     \* bound: builds

VARIABLES build, files, profile

buildVars == <<build, files, profile>>

Industries == DOMAIN Slug
Sources == {r \in DOMAIN Repos : ~Repos[r].archived} \cup DOMAIN Posts
NoBuild == [pc |-> "idle", count |-> 0, tries |-> [s \in Sources |-> 0],
            failed |-> {}, tagged |-> <<>>, looked |-> 0,
            projects |-> [i \in Industries |-> <<>>],
            skills |-> [i \in Industries |-> {}],
            posts |-> [i \in Industries |-> <<>>],
            plans |-> <<>>, plan |-> 1, format |-> 1]
NoFile == [by |-> 0, industry |-> "none", projects |-> <<>>, posts |-> <<>>]
Tagged == {t.source : t \in Range(build.tagged)}
Tag(s, industries, skills) == [source |-> s, industries |-> industries, skills |-> skills]

\* Sources and industries are finitely many, and an answer names only those there are.
BuildAssumption ==
    /\ IsFiniteSet(Industries) /\ IsFiniteSet(Sources)
    /\ DOMAIN Repos \cap DOMAIN Posts = {}
    /\ \A r \in DOMAIN Repos : /\ Repos[r].topics \in Seq(Industries)
                               /\ Repos[r].archived \in BOOLEAN
    /\ \A p \in DOMAIN Posts : Posts[p] \subseteq Industries
    /\ \A s \in Sources : TagsOf[s] \subseteq [industries : Seq(Industries),
                                               skills : SUBSET Skills]
    /\ Aliases \subseteq [Industries -> Industries]
    /\ Formats \in Seq(Range(Formats))
    /\ MaxRetries \in Nat /\ MaxBuilds \in Nat

\* A set in some order, each member once.
Listed(S) == CHOOSE s \in [1..Cardinality(S) -> S] : IsInjective(s) /\ Range(s) = S
Same == [i \in Industries |-> i]

\* Mutant: industries that the merging makes equal are kept both.
MergedTwice(industries, alias) == [k \in DOMAIN industries |-> alias[industries[k]]]
\* GlobalNormalizer: every name is replaced, and each is kept once.
Merged(industries, alias) == Listed({alias[i] : i \in Range(industries)})

-----------------------------------------------------------------------------
StartBuild ==
    /\ build.pc \in {"idle", "ended", "dead"} /\ build.count < MaxBuilds
    /\ \E model \in BOOLEAN :
         build' = [NoBuild EXCEPT !.count = build.count + 1,
                                  !.pc = IF model THEN "tag" ELSE "static"]
    /\ UNCHANGED <<files, profile>>

Waiting(s) == build.pc = "tag" /\ s \in Sources \ (Tagged \cup build.failed)
TagSource(s) ==
    /\ Waiting(s)
    /\ \E t \in TagsOf[s] :
         build' = [build EXCEPT !.tagged = Append(@, Tag(s, t.industries, t.skills))]
    /\ UNCHANGED <<files, profile>>

\* Tried again at once; a source that fails too often is reported and left out.
TagFails(s) ==
    /\ Waiting(s)
    /\ build' = IF build.tries[s] < MaxRetries
                THEN [build EXCEPT !.tries[s] = @ + 1]
                ELSE [build EXCEPT !.failed = @ \cup {s}]
    /\ UNCHANGED <<files, profile>>

\* The profile has the industries of all and the skills of the repositories.
Profile(tags) ==
    [industries |-> UNION {Range(t.industries) : t \in Range(tags)},
     skills |-> UNION {t.skills : t \in {t \in Range(tags) : t.source \in DOMAIN Repos}}]
Classify(tags) ==
    /\ profile' = Profile(tags)
    /\ build' = [build EXCEPT !.pc = "projects", !.tagged = tags]
    /\ UNCHANGED files

\* With an answer that fails no name is replaced.
Normalize ==
    /\ build.pc = "tag" /\ \A s \in Sources : ~Waiting(s)
    /\ \E alias \in Aliases \cup {Same} :
         Classify([k \in DOMAIN build.tagged |->
                     [build.tagged[k] EXCEPT
                        !.industries = Merged(build.tagged[k].industries, alias)]])

\* Topics are the industries of a repository, and words of its text those of a post
\* among them.
TagStatically ==
    /\ build.pc = "static"
    /\ LET repos == Listed(Sources \cap DOMAIN Repos)
           named == UNION {Range(Repos[r].topics) : r \in Sources \cap DOMAIN Repos}
           posts == Listed(DOMAIN Posts)
       IN Classify([k \in DOMAIN repos |->
                      Tag(repos[k], Merged(Repos[repos[k]].topics, Same),
                          Range(Repos[repos[k]].topics))]
                   \o [k \in DOMAIN posts |->
                         Tag(posts[k], Listed(Posts[posts[k]] \cap named), {})])

-----------------------------------------------------------------------------
\* plan_industry_resumes: a project for every industry a repository is tagged with, in
\* the order the tags came; posts join by industry or by a skill of its projects.
WithProject(t, i) ==
    LET copies == Cardinality({k \in DOMAIN t.industries : t.industries[k] = i})
    IN build.projects[i] \o [k \in 1..copies |-> t.source]
Joins(t, i) ==
    /\ build.projects[i] # <<>>
    /\ i \in Range(t.industries) \/ t.skills \cap build.skills[i] # {}

Planned(of) == /\ build.pc = of /\ build.looked < Len(build.tagged)
               /\ UNCHANGED <<files, profile>>
PlanProject ==
    /\ Planned("projects")
    /\ LET t == build.tagged[build.looked + 1] IN
       build' = IF t.source \notin DOMAIN Repos
                THEN [build EXCEPT !.looked = @ + 1]
                ELSE [build EXCEPT
                        !.looked = @ + 1,
                        !.projects = [i \in Industries |-> WithProject(t, i)],
                        !.skills = [i \in Industries |->
                                      IF i \in Range(t.industries)
                                      THEN build.skills[i] \cup t.skills
                                      ELSE build.skills[i]]]
PlanPost ==
    /\ Planned("posts")
    /\ LET t == build.tagged[build.looked + 1] IN
       build' = IF t.source \notin DOMAIN Posts
                THEN [build EXCEPT !.looked = @ + 1]
                ELSE [build EXCEPT
                        !.looked = @ + 1,
                        !.posts = [i \in Industries |->
                                     IF Joins(t, i) THEN Append(build.posts[i], t.source)
                                     ELSE build.posts[i]]]
\* All are looked at: first for projects, then for posts.
PlanNext ==
    /\ build.pc \in {"projects", "posts"} /\ build.looked = Len(build.tagged)
    /\ build' = IF build.pc = "projects"
                THEN [build EXCEPT !.pc = "posts", !.looked = 0]
                ELSE [build EXCEPT
                        !.pc = "render",
                        !.plans = Listed({i \in Industries : build.projects[i] # <<>>})]
    /\ UNCHANGED <<files, profile>>

-----------------------------------------------------------------------------
Resume(i) == [by |-> build.count, industry |-> i, projects |-> build.projects[i],
              posts |-> build.posts[i]]
\* _render_all writes over what an earlier build left.
Render ==
    /\ build.pc = "render"
    /\ build.plan <= Len(build.plans) /\ build.format <= Len(Formats)
    /\ LET i == build.plans[build.plan]
       IN files' = [files EXCEPT ![Slug[i]][Formats[build.format]] = Resume(i)]
    /\ build' = [build EXCEPT !.format = @ + 1]
    /\ UNCHANGED profile
NextPlan ==
    /\ build.pc = "render"
    /\ build.plan <= Len(build.plans) /\ build.format > Len(Formats)
    /\ build' = [build EXCEPT !.plan = @ + 1, !.format = 1]
    /\ UNCHANGED <<files, profile>>

EndBuild ==
    /\ build.pc = "render" /\ build.plan > Len(build.plans)
    /\ build' = [build EXCEPT !.pc = "ended"]
    /\ UNCHANGED <<files, profile>>

\* A renderer raises, or the process is killed.
BuildDies ==
    /\ build.pc \in {"tag", "static", "projects", "posts", "render"}
    /\ build' = [NoBuild EXCEPT !.pc = "dead", !.count = build.count]
    /\ UNCHANGED <<files, profile>>

Init ==
    /\ build = NoBuild
    /\ files = [d \in {Slug[i] : i \in Industries} |-> [f \in Range(Formats) |-> NoFile]]
    /\ profile = [industries |-> {}, skills |-> {}]

Next ==
    \/ StartBuild \/ Normalize \/ TagStatically \/ PlanProject \/ PlanPost \/ PlanNext
    \/ Render \/ NextPlan \/ EndBuild \/ BuildDies
    \/ \E s \in Sources : TagSource(s) \/ TagFails(s)

-----------------------------------------------------------------------------
\* Type invariant.
TypeOK ==
    /\ build.pc \in {"idle", "tag", "static", "projects", "posts", "render", "ended",
                     "dead"}
    /\ build.count \in 0..MaxBuilds /\ build.failed \subseteq Sources
    /\ build.looked \in 0..Len(build.tagged)
    /\ build.plan \in 1..(Len(build.plans) + 1)
    /\ build.format \in 1..(Len(Formats) + 1)
    /\ profile.industries \subseteq Industries

\* Whatever order the tags come in and whatever names are merged, a build that ends
\* has put every tagged repository once in the resume of each of its industries and
\* in no other; each resume stands in all formats alone in its directory, unless two
\* industries have one directory; and what was not tagged has been given up on.
EveryProjectIsShown ==
    build.pc = "ended" =>
      /\ \A k \in DOMAIN build.plans :
           LET i == build.plans[k] IN
           /\ IsInjective(build.projects[i]) /\ IsInjective(build.posts[i])
           /\ i \in profile.industries
           /\ \/ \E o \in DOMAIN build.plans \ {k} : Slug[build.plans[o]] = Slug[i]
              \/ \A f \in Range(Formats) : files[Slug[i]][f] = Resume(i)
      /\ \A t \in Range(build.tagged) : t.source \in DOMAIN Repos =>
           {i \in Range(build.plans) : t.source \in Range(build.projects[i])}
             = Range(t.industries)
      /\ Tagged \cap build.failed = {}
      /\ Tagged \cup build.failed = Sources
=============================================================================
