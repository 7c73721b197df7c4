---------------------------- MODULE SocialScrape ----------------------------
(***************************************************************************)
(* Signing in to social vendors and collecting the person's own posts:     *)
(* the session files of auth.py, the sign-in window of browser_login.py    *)
(* and the other ways of commands/auth_cmd.py, disconnecting (web/auth.py, *)
(* logout), the vendors' fetches (vendors/, headless_browser.py) and the   *)
(* aggregator with its cache (aggregator.py).  The sign-in of the web runs *)
(* in a thread of its own, the vendors of a collection in a pool.  What is *)
(* in a browser's cookie jar and on a vendor's pages is external.          *)
(***************************************************************************)
EXTENDS Naturals, Sequences, FiniteSets, Functions

CONSTANTS
    Vendors,      \* names of vendors; "facebook" is scraped in a browser
    Accounts,     \* accounts somebody may be signed in with
    EnvAccount,   \* vendor -> account of its cookie variable, or "none"
    JarAccount,   \* vendor -> account of the installed browsers' cookie jars
    Feed          \* vendor -> sequences of posts [id, text] a fetch may yield

VARIABLES
    saved,        \* session files: vendor -> [cookies, storage] accounts or "none"
    signIn,       \* a sign-in: [pc, vendor, account]
    leaving,      \* a disconnect between its two files: vendor or "none"
    cached,       \* the aggregator's cache: vendor -> [state, posts]
    collect,      \* a collection: pc of each vendor, got in order of completion, and
                  \* the posts kept of those looked at
    signedIn      \* history: vendor -> accounts saved since the last disconnect

socialVars == <<saved, signIn, leaving, cached, collect, signedIn>>

\* Sequences of posts, and accounts of the vendors' own; "none" stands for no vendor.
SocialAssumption ==
    /\ "none" \notin Vendors
    /\ \A v \in Vendors : \A feed \in Feed[v] : feed \in Seq(Range(feed))
    /\ JarAccount \in [Vendors -> Accounts \cup {"none"}]

NoText == ""
Idle == [pc |-> "idle", vendor |-> "none", account |-> "none"]
Posts(v, feed) ==
    [i \in DOMAIN feed |-> [vendor |-> v, id |-> feed[i].id, text |-> feed[i].text]]
NoCache == [state |-> "none", posts |-> <<>>]

-----------------------------------------------------------------------------
\* Signing in.  A window waits for the vendor's session cookie and then yields
\* cookies and storage state; a password, pasted cookies, a pasted command or the
\* jar yield cookies only.
OpenSignIn(v, a, how) ==
    /\ signIn.pc = "idle"
    /\ signIn' = [pc |-> how, vendor |-> v, account |-> a]
    /\ UNCHANGED <<saved, leaving, cached, collect, signedIn>>

\* A vendor that is told a password may ask for a code, which the person types in or
\* leaves until the prompt times out; the vendor's answer has the session's cookies.
AskCode ==
    /\ signIn.pc = "password"
    /\ signIn' = [signIn EXCEPT !.pc = "code"]
    /\ UNCHANGED <<saved, leaving, cached, collect, signedIn>>

LetIn ==
    /\ signIn.pc \in {"password", "code"}
    /\ signIn' = [signIn EXCEPT !.pc = "cookiesOnly"]
    /\ UNCHANGED <<saved, leaving, cached, collect, signedIn>>

\* Timed out, refused or failed: nothing is saved.
SignInFails ==
    /\ signIn.pc \in {"window", "password", "code"} /\ signIn' = Idle
    /\ UNCHANGED <<saved, leaving, cached, collect, signedIn>>

\* A file that cannot be written is logged and stays as it is.
Save(v, kind, a) ==
    \/ /\ saved' = [saved EXCEPT ![v][kind] = a]
       /\ signedIn' = [signedIn EXCEPT ![v] = @ \cup {a}]
    \/ UNCHANGED <<saved, signedIn>>

SaveCookies ==
    /\ signIn.pc \in {"window", "cookiesOnly"}
    /\ Save(signIn.vendor, "cookies", signIn.account)
    /\ signIn' = IF signIn.pc = "window" THEN [signIn EXCEPT !.pc = "storage"] ELSE Idle
    /\ UNCHANGED <<leaving, cached, collect>>

SaveStorage ==
    /\ signIn.pc = "storage"
    /\ Save(signIn.vendor, "storage", signIn.account)
    /\ signIn' = Idle
    /\ UNCHANGED <<leaving, cached, collect>>

-----------------------------------------------------------------------------
\* clear_social_session of the web: the cookies' file, then the storage state's.
Disconnect(v) ==
    /\ leaving = "none"
    /\ saved' = [saved EXCEPT ![v].cookies = "none"]
    /\ signedIn' = [signedIn EXCEPT ![v] = {}]
    /\ leaving' = v
    /\ UNCHANGED <<signIn, cached, collect>>

DisconnectStorage ==
    /\ leaving # "none"
    /\ saved' = [saved EXCEPT ![leaving].storage = "none"]
    /\ leaving' = "none"
    /\ UNCHANGED <<signIn, cached, collect, signedIn>>

\* logout of the command line clears the cookies alone.
Logout(v) ==
    /\ saved' = [saved EXCEPT ![v].cookies = "none"]
    /\ UNCHANGED <<signIn, leaving, cached, collect, signedIn>>

-----------------------------------------------------------------------------
NotStarted == [pc |-> [v \in Vendors |-> "idle"], session |-> [v \in Vendors |-> FALSE],
               got |-> <<>>, looked |-> 0, posts |-> <<>>, ids |-> {}, texts |-> {}]
Finish(v, posts) ==
    collect' = [collect EXCEPT !.pc[v] = "done", !.session[v] = FALSE,
                        !.got = @ \o posts]

Gathered == \A v \in Vendors : collect.pc[v] \in {"idle", "done"}
StartCollect ==
    /\ Gathered /\ collect.looked = Len(collect.got)
    /\ \E enabled \in SUBSET Vendors :
         collect' = [NotStarted EXCEPT
                       !.pc = [v \in Vendors |-> IF v \in enabled THEN "cache" ELSE "idle"]]
    /\ UNCHANGED <<saved, signIn, leaving, cached, signedIn>>

\* A fresh file of the cache is the vendor's answer.
ReadCache(v) ==
    /\ collect.pc[v] = "cache"
    /\ IF cached[v].state = "fresh" THEN Finish(v, Posts(v, cached[v].posts))
       ELSE collect' = [collect EXCEPT !.pc[v] = "make"]
    /\ UNCHANGED <<saved, signIn, leaving, cached, signedIn>>

\* resolve_session_cookies: the variable, the saved file, or else the jar, which is
\* then saved.  Facebook's vendor also looks for the storage state.  A vendor that
\* cannot be made has failed, and the others go on.
MakeVendor(v) ==
    /\ collect.pc[v] = "make"
    /\ \E jar \in BOOLEAN :
         LET fromJar == /\ EnvAccount[v] = "none" /\ saved[v].cookies = "none"
                        /\ jar /\ JarAccount[v] # "none"
             cookies == IF EnvAccount[v] # "none" THEN EnvAccount[v]
                        ELSE IF fromJar THEN JarAccount[v] ELSE saved[v].cookies
             storage == IF v = "facebook" THEN saved[v].storage ELSE "none"
         IN /\ IF fromJar THEN Save(v, "cookies", JarAccount[v])
               ELSE UNCHANGED <<saved, signedIn>>
            /\ collect' = [collect EXCEPT !.pc[v] = "fetch",
                             !.session[v] = {cookies, storage} # {"none"}]
    /\ UNCHANGED <<signIn, leaving, cached>>

MakeFails(v) ==
    /\ collect.pc[v] = "make"
    /\ Finish(v, <<>>)
    /\ UNCHANGED <<saved, signIn, leaving, cached, signedIn>>

\* What was fetched, nothing included, is cached.
Fetched(v, feed) ==
    /\ cached' = [cached EXCEPT ![v] = [state |-> "fresh", posts |-> feed]]
    /\ Finish(v, Posts(v, feed))
    /\ UNCHANGED <<saved, signIn, leaving, signedIn>>

\* Facebook's feed is scrolled through in the browser with the storage state, and
\* asked for with the cookies where that yields nothing; without either it is empty.
FetchRendered(v) ==
    /\ collect.pc[v] = "fetch" /\ v = "facebook"
    /\ \E feed \in Feed[v] \cup {<<>>} :
         /\ ~collect.session[v] => feed = <<>>
         /\ Fetched(v, feed)

\* The other vendors are asked with whatever cookies there are; a failure is an
\* empty answer.
FetchAnswered(v) ==
    /\ collect.pc[v] = "fetch" /\ v # "facebook"
    /\ \E feed \in Feed[v] \cup {<<>>} : Fetched(v, feed)

Expire(v) ==
    /\ cached[v].state = "fresh" /\ cached' = [cached EXCEPT ![v] = NoCache]
    /\ UNCHANGED <<saved, signIn, leaving, collect, signedIn>>

\* Mutant: a post's id is taken as seen before its text is looked at.
SeenBeforeText(c, p) ==
    LET key == <<p.vendor, p.id>>
        said == {p.text} \ {NoText}
    IN IF key \in c.ids THEN c
       ELSE IF said \cap c.texts # {} THEN [c EXCEPT !.ids = @ \cup {key}]
       ELSE [c EXCEPT !.ids = @ \cup {key}, !.texts = @ \cup said,
                      !.posts = Append(@, p)]

\* _dedupe_posts: by vendor and id, then by text.
Keep(c, p) ==
    LET key == <<p.vendor, p.id>>
        said == {p.text} \ {NoText}
    IN IF key \in c.ids \/ said \cap c.texts # {} THEN c
       ELSE [c EXCEPT !.ids = @ \cup {key}, !.texts = @ \cup said,
                      !.posts = Append(@, p)]
\* When every vendor has answered, post by post.
DedupePost ==
    /\ Gathered /\ collect.looked < Len(collect.got)
    /\ LET at == collect.looked + 1
       IN collect' = [Keep(collect, collect.got[at]) EXCEPT !.looked = at]
    /\ UNCHANGED <<saved, signIn, leaving, cached, signedIn>>

Init ==
    /\ saved = [v \in Vendors |-> [cookies |-> "none", storage |-> "none"]]
    /\ signIn = Idle /\ leaving = "none"
    /\ cached = [v \in Vendors |-> NoCache]
    /\ collect = NotStarted
    /\ signedIn = [v \in Vendors |-> {}]

Next ==
    \/ AskCode \/ LetIn \/ SignInFails \/ SaveCookies \/ SaveStorage \/ DisconnectStorage
    \/ StartCollect \/ DedupePost
    \/ \E v \in Vendors :
         \/ \E a \in Accounts, how \in {"window", "password", "cookiesOnly"} :
              OpenSignIn(v, a, how)
         \/ Disconnect(v) \/ Logout(v) \/ Expire(v)
         \/ ReadCache(v) \/ MakeVendor(v) \/ MakeFails(v)
         \/ FetchRendered(v) \/ FetchAnswered(v)

-----------------------------------------------------------------------------
\* Type invariant.
TypeOK ==
    /\ saved \in [Vendors -> [cookies : Accounts \cup {"none"},
                              storage : Accounts \cup {"none"}]]
    /\ signIn.pc \in 
         {"idle", "window", "password", "code", "cookiesOnly", "storage"}
    /\ leaving \in Vendors \cup {"none"}
    /\ collect.pc \in [Vendors -> {"idle", "cache", "make", "fetch", "done"}]
    /\ collect.looked \in 0..Len(collect.got)

\* Whatever order the vendors of a collection end in, no post and no text is in
\* the result twice, and no post looked at is lost but to one of its id or text; and what a session's files hold
\* is of somebody who signed in after the last disconnect was over.
CollectionIsWhole ==
    /\ \A i, j \in DOMAIN collect.posts : i # j =>
         LET p == collect.posts[i]
             q == collect.posts[j]
         IN /\ <<p.vendor, p.id>> # <<q.vendor, q.id>>
            /\ p.text = q.text => p.text = NoText
    /\ \A i \in 1..collect.looked : \E q \in Range(collect.posts) :
         LET p == collect.got[i]
         IN \/ q.vendor = p.vendor /\ q.id = p.id
            \/ p.text # NoText /\ q.text = p.text
    /\ \A v \in Vendors : leaving # v =>
         {saved[v].cookies, saved[v].storage} \subseteq signedIn[v] \cup {"none"}
=============================================================================
