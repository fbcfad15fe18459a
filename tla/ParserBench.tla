----------------------------- MODULE ParserBench -----------------------------
(***************************************************************************)
(* The tab on which parsers are edited (ParsersTab of SocBlitzEngine.tsx): *)
(* a list of parsers from the query ['engine-parsers'], the one selected,  *)
(* and the text in the editor, which was copied from the list when it was  *)
(* selected.  Save stores the text under the name written in it; Delete    *)
(* removes the selected parser; Generate puts a new text into the editor   *)
(* when its answer comes.  One admin edits; what others save meanwhile is  *)
(* left out.                                                               *)
(***************************************************************************)
EXTENDS Naturals, QueryCache

CONSTANTS
    Names, Texts,         \* what a parser may be called, and contain
    NoParser, NewParser,  \* null and NEW_KEY: nothing selected, an unsaved one
    Builtin,              \* name -> text of the built-in parsers
    MaxJobs               \* bound of the model: requests sent

ASSUME ParserBenchAssumption ==
    /\ Names # {} /\ Texts # {}
    /\ NoParser \notin Names /\ NewParser \notin Names /\ NoParser # NewParser
    /\ DOMAIN Builtin \subseteq Names
    /\ \A n \in DOMAIN Builtin : Builtin[n] \in Texts
    /\ MaxJobs \in Nat

VARIABLES
    selected,    \* the parser selected
    draft,       \* the text in the editor, with the name written in it
    engine,      \* cache entry of the list: name -> its yaml and source
    custom,      \* the custom parsers stored: name -> text
    jobs,        \* requests on their way
    jobsSent,        \* counter that bounds the model
    touched,     \* history: the text is not the one selected or saved
    sound,       \* history: it was selected or saved while nothing was under way
    unheard      \* history: a change was stored and its answer lost, or found the
                 \* first fetch of the list on its way, which it does not repeat

benchVars == <<selected, draft, engine, custom, jobs, jobsSent, touched, sound, unheard>>
editor == <<selected, draft, touched, sound>>

Drafts == [name: Names, text: Texts]
Jobs == [op: {"save", "delete", "generate"}, draft: Drafts, alone: BOOLEAN,
         phase: {"sent", "done"}]
BenchPending(op) == \E j \in jobs : j.op = op
Customs == UNION {[S -> Texts] : S \in SUBSET Names}
Parsers == UNION {[S -> [yaml: Texts, source: {"builtin", "custom"}]] : S \in SUBSET Names}

\* What the engine lists: a custom parser takes the place of a built-in one.
Listing(c) ==
    [n \in DOMAIN c \union DOMAIN Builtin |->
        IF n \in DOMAIN c THEN [yaml |-> c[n], source |-> "custom"]
        ELSE [yaml |-> Builtin[n], source |-> "builtin"]]

\* Nothing is under way that will change the list, which is up to date.
Quiet == Settled(engine) /\ jobs = {} /\ ~unheard

NEW_PARSER_TEMPLATE == [name |-> CHOOSE n \in Names : TRUE, text |-> CHOOSE t \in Texts : TRUE]

-----------------------------------------------------------------------------
\* The editor is not shown yet.
BenchInit ==
    /\ selected = NoParser /\ draft = NEW_PARSER_TEMPLATE
    /\ engine = Send(NoEntry(<<>>))
    /\ custom = <<>>
    /\ jobs = {} /\ jobsSent = 0
    /\ touched = FALSE /\ sound = FALSE /\ unheard = FALSE

Shown(n, list, isSound) ==
    /\ selected' = n
    /\ draft' = [name |-> n, text |-> list[n].yaml]
    /\ touched' = FALSE /\ sound' = isSound

\* The effect: with nothing selected, the first of the list is.
FirstSelected(list, isSound) ==
    IF DOMAIN list = {} THEN UNCHANGED editor
    ELSE \E n \in DOMAIN list : Shown(n, list, isSound)

pick(n) ==
    /\ n \in DOMAIN engine.data
    /\ Shown(n, engine.data, Quiet)
    /\ UNCHANGED <<engine, custom, jobs, jobsSent, unheard>>

Edit(d) ==
    /\ selected # NoParser /\ d # draft
    /\ draft' = d /\ touched' = TRUE
    /\ UNCHANGED <<selected, engine, custom, jobs, jobsSent, sound, unheard>>

\* startNew and the answer of generate: a text that is not stored yet.
Unsaved(d) ==
    /\ selected' = NewParser /\ draft' = d
    /\ touched' = TRUE /\ sound' = FALSE

startNew ==
    /\ Unsaved(NEW_PARSER_TEMPLATE) /\ UNCHANGED <<engine, custom, jobs, jobsSent, unheard>>

BenchRequest(op, d) ==
    /\ jobsSent < MaxJobs /\ jobsSent' = jobsSent + 1
    /\ ~BenchPending(op)
    /\ jobs' = {[j EXCEPT !.alone = FALSE] : j \in jobs}
               \union {[op |-> op, draft |-> d, alone |-> jobs = {}, phase |-> "sent"]}
    /\ UNCHANGED <<editor, engine, custom, unheard>>

SaveParser == selected # NoParser /\ BenchRequest("save", draft)

DeleteParser ==
    /\ selected \in DOMAIN engine.data
    /\ engine.data[selected].source = "custom"
    /\ BenchRequest("delete", [name |-> selected, text |-> draft.text])

generate == selected # NoParser /\ BenchRequest("generate", draft)

-----------------------------------------------------------------------------
BenchHandle(j) ==
    /\ j.phase = "sent"
    /\ custom' =
         CASE j.op = "save" ->
                [n \in DOMAIN custom \union {j.draft.name} |->
                    IF n = j.draft.name THEN j.draft.text ELSE custom[n]]
           [] j.op = "delete" ->
                [n \in DOMAIN custom \ {j.draft.name} |-> custom[n]]
           [] OTHER -> custom
    /\ jobs' = (jobs \ {j}) \union {[j EXCEPT !.phase = "done"]}
    /\ UNCHANGED <<editor, engine, jobsSent, unheard>>

\* onSuccess.  Neither looks at what is selected by now.
ParserSaveAnswered(j) ==
    /\ j.op = "save"
    /\ selected' = j.draft.name
    /\ touched' = (draft # j.draft)
    /\ sound' = (j.alone /\ ~unheard)
    /\ UNCHANGED draft

\* The effect runs on the list as it is cached: the deleted parser is in it still.
DeleteAnswered(j) ==
    /\ j.op = "delete"
    /\ IF DOMAIN engine.data = {} THEN selected' = NoParser /\ UNCHANGED <<draft, touched, sound>>
       ELSE FirstSelected(engine.data, FALSE)

Generated(j) ==
    /\ j.op = "generate"
    /\ \E d \in Drafts : Unsaved(d)

\* Mutant: the list is not read again.
InvalidatesNothing(op) == {}

\* The lists an answered request makes the page read again.
BenchInvalidates(op) == IF op = "generate" THEN {} ELSE {"engine-parsers"}

BenchAnswered(j) ==
    /\ j.phase = "done" /\ jobs' = jobs \ {j}
    /\ ParserSaveAnswered(j) \/ DeleteAnswered(j) \/ Generated(j)
    /\ engine' = IF "engine-parsers" \in BenchInvalidates(j.op) THEN Invalidated(engine, TRUE)
                 ELSE engine
    /\ unheard' = \/ unheard
                  \/ "engine-parsers" \in BenchInvalidates(j.op) /\ Joins(engine, TRUE)
    /\ UNCHANGED <<custom, jobsSent>>

\* A message at most: the request was refused, or its answer is lost.
JobFails(j) ==
    /\ jobs' = jobs \ {j}
    /\ unheard' = (unheard \/ j.phase = "done")
    /\ UNCHANGED <<editor, engine, custom, jobsSent>>

-----------------------------------------------------------------------------
ParsersRead ==
    /\ engine.fetch = "sent"
    /\ engine' = BackendReads(engine, Listing(custom))
    /\ UNCHANGED <<editor, custom, jobs, jobsSent, unheard>>

ParsersReceived ==
    /\ engine.fetch = "read"
    /\ engine' = Received(engine)
    /\ IF selected = NoParser
       THEN FirstSelected(engine.read, jobs = {} /\ ~unheard)
       ELSE UNCHANGED editor
    /\ UNCHANGED <<custom, jobs, jobsSent, unheard>>

ParsersFail ==
    /\ engine.fetch = "sent"
    /\ engine' = GivenUp(engine)
    /\ UNCHANGED <<editor, custom, jobs, jobsSent, unheard>>

BenchNext ==
    \/ \E n \in Names : pick(n)
    \/ \E d \in Drafts : Edit(d)
    \/ startNew \/ SaveParser \/ DeleteParser \/ generate
    \/ \E j \in jobs : BenchHandle(j) \/ BenchAnswered(j) \/ JobFails(j)
    \/ ParsersRead \/ ParsersReceived \/ ParsersFail

BenchSpec == BenchInit /\ [][BenchNext]_benchVars

-----------------------------------------------------------------------------
BenchTypeOK ==
    /\ selected \in Names \union {NoParser, NewParser}
    /\ draft \in Drafts
    /\ engine \in Entries(Parsers)
    /\ custom \in Customs
    /\ jobs \subseteq Jobs /\ jobsSent \in 0 .. MaxJobs
    /\ touched \in BOOLEAN /\ sound \in BOOLEAN /\ unheard \in BOOLEAN

\* Once the tab is quiet, the editor shows the stored text of the parser that is
\* selected, unless the user has changed it.  Left out is what other admins save,
\* of which the tab hears at its next fetch, and a parser selected while
\* a request was under way: picked from a list about to be replaced, or by the
\* page itself after a deletion, it keeps the old text, and Save stores that.
EditorMatchesStore ==
    Quiet /\ sound /\ ~touched /\ selected \in DOMAIN Listing(custom)
        => draft.text = Listing(custom)[selected].yaml
=============================================================================
