------------------------------- MODULE LocalAI -------------------------------
(***************************************************************************)
(* The user's own model configuration (llm/local_config.py) and the calls  *)
(* made with it (web/local_ai_api.py, litellm_provider.py).  A save reads  *)
(* the stored configuration, merges it with its input, writes it to one    *)
(* temporary file all saves share and renames that file; saves and calls   *)
(* run in threads.  A thread that has the temporary file open keeps it     *)
(* open when another renames it.  The model itself is external.            *)
(***************************************************************************)
EXTENDS Naturals, FiniteSets

CONSTANTS
    Threads,       \* threads of the web server
    Inputs,        \* configurations a user may save [provider, key, url]
    Environments,  \* configurations the environment may give, NoConfig included
    Evidence       \* evidence ids a plan is asked for with

VARIABLES
    file,          \* content of the configuration file
    temp,          \* content of the shared temporary file
    environment,   \* the configuration from the environment
    callers,       \* what each thread does
    told           \* what a provider was sent, and what was cited in plans shown

aiVars == <<file, temp, environment, callers, told>>

\* A key is named by the provider it was given for.
Config(provider, key, url) ==
    [state |-> "whole", provider |-> provider, key |-> key, url |-> url]
Unreadable(state) == [state |-> state, provider |-> "none", key |-> "none", url |-> FALSE]
NoConfig == Unreadable("none")
Load(content) == IF content.state = "whole" THEN content ELSE NoConfig

KeyRequired == {"google", "anthropic", "openai", "openrouter", "azure"}
UrlRequired == {"openai-compatible", "ollama", "azure"}
Valid(c) == /\ c.provider \in KeyRequired => c.key # "none"
            /\ c.provider \in UrlRequired => c.url

\* Mutant: any key already stored is preserved.
PreservesAny(input, existing) == input.key = "none" /\ existing.key # "none"
\* An omitted key preserves the stored one of the same provider.
Preserves(input, existing) ==
    /\ input.key = "none" /\ existing.key # "none"
    /\ existing.provider = input.provider
Merged(input, existing) ==
    Config(input.provider, IF Preserves(input, existing) THEN existing.key ELSE input.key,
           input.url)
\* The stored configuration, else the one of the environment.
Effective == IF Load(file).state = "whole" THEN Load(file) ELSE environment

\* Of the constants: users name their own provider's key, and the environment's
\* configuration, if there is one, is whole and validated as it is read.
AIAssumption ==
    /\ \A i \in Inputs : i.url \in BOOLEAN /\ i.key \in {"none", i.provider}
    /\ NoConfig \in Environments
    /\ \A e \in Environments \ {NoConfig} :
         /\ e = Config(e.provider, e.key, e.url) /\ e.url \in BOOLEAN
         /\ e.key \in {"none", e.provider} /\ Valid(e)

Idle == [pc |-> "idle", config |-> NoConfig, handle |-> "none"]
Rest(t) == callers' = [callers EXCEPT ![t] = Idle]
-----------------------------------------------------------------------------
\* Merged with what is stored now, and refused when it misses what the provider needs.
BeginSave(t) ==
    /\ callers[t].pc = "idle"
    /\ \E input \in Inputs :
         LET config == Merged(input, Load(file)) IN
         /\ Valid(config)
         /\ callers' = [callers EXCEPT ![t] = [Idle EXCEPT !.pc = "open", !.config = config]]
    /\ UNCHANGED <<file, temp, environment, told>>

\* Opening creates the temporary file or empties the one there is.
OpenTemp(t) ==
    /\ callers[t].pc = "open"
    /\ temp' = Unreadable("empty")
    /\ callers' = [callers EXCEPT ![t].pc = "write", ![t].handle = "temp"]
    /\ UNCHANGED <<file, environment, told>>

\* Written where the open file is by now; over another's text, a tail of it may stay.
Contents(t, old) ==
    IF old.state = "empty" THEN {callers[t].config}
    ELSE {callers[t].config, Unreadable("torn")}
Write(t) ==
    /\ callers[t].pc = "write"
    /\ CASE callers[t].handle = "temp" -> temp' \in Contents(t, temp) /\ UNCHANGED file
         [] callers[t].handle = "file" -> file' \in Contents(t, file) /\ UNCHANGED temp
         [] callers[t].handle = "gone" -> UNCHANGED <<file, temp>>
    /\ callers' = [callers EXCEPT ![t].pc = "replace", ![t].handle = "none"]
    /\ UNCHANGED <<environment, told>>

\* A file that was open under the old name is open under the new one.
Renamed(handle) == CASE handle = "temp" -> "file" [] handle = "file" -> "gone"
                     [] OTHER -> handle
\* The save fails when another one has renamed the file already.
Replace(t) ==
    /\ callers[t].pc = "replace"
    /\ IF temp.state = "none" THEN Rest(t) /\ UNCHANGED <<file, temp>>
       ELSE /\ file' = temp /\ temp' = NoConfig
            /\ callers' = [c \in Threads |->
                 IF c = t THEN Idle
                 ELSE [callers[c] EXCEPT !.handle = Renamed(@)]]
    /\ UNCHANGED <<environment, told>>
-----------------------------------------------------------------------------
\* Without a configuration the call is refused.
BeginCall(t) ==
    /\ callers[t].pc = "idle" /\ Effective.state = "whole"
    /\ callers' = [callers EXCEPT ![t] = [Idle EXCEPT !.pc = "ask", !.config = Effective]]
    /\ UNCHANGED <<file, temp, environment, told>>

\* The provider gets the request with the key; a plan that cites evidence it was not
\* given, or that is no plan, is not shown.
Ask(t) ==
    LET config == callers[t].config IN
    /\ callers[t].pc = "ask"
    /\ \E cited \in SUBSET (Evidence \cup {"unknown"}) :
         told' = [told EXCEPT !.requests = @ \cup {config},
                              !.cited = IF cited \subseteq Evidence THEN @ \cup cited ELSE @]
    /\ Rest(t)
    /\ UNCHANGED <<file, temp, environment>>

\* A restart ends what the threads do and reads the environment again.
Restart ==
    /\ environment' \in Environments
    /\ callers' = [t \in Threads |-> Idle]
    /\ UNCHANGED <<file, temp, told>>

Init ==
    /\ file = NoConfig /\ temp = NoConfig /\ environment = NoConfig
    /\ callers = [t \in Threads |-> Idle]
    /\ told = [requests |-> {}, cited |-> {}]

Next ==
    \/ \E t \in Threads : \/ BeginSave(t) \/ OpenTemp(t) \/ Write(t) \/ Replace(t)
                          \/ BeginCall(t) \/ Ask(t)
    \/ Restart
Spec == Init /\ [][Next]_aiVars

-----------------------------------------------------------------------------
\* Type invariant.
TypeOK ==
    /\ {file.state, temp.state} \subseteq {"none", "empty", "torn", "whole"}
    /\ environment \in Environments
    /\ \A t \in Threads :
         /\ callers[t].pc \in {"idle", "open", "write", "replace", "ask"}
         /\ callers[t].handle \in {"none", "temp", "file", "gone"}

\* However saves and calls overlap, and wherever one stops: a key is only sent to the
\* provider it was given for, each request is made with a configuration that was
\* validated whole, never with a piece of one, and what two saves leave in the file is
\* one of theirs or nothing that loads.
KeyStaysWithProvider ==
    /\ \A c \in told.requests \cup {Load(file)} : c.key \in {"none", c.provider} /\ Valid(c)
    /\ told.cited \subseteq Evidence
=============================================================================
