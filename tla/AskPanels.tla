------------------------------ MODULE AskPanels ------------------------------
(***************************************************************************)
(* The panels that ask the backend something and show the answer: the      *)
(* tabs of the engine's workbench (SocBlitzEngine.tsx), the lookup of      *)
(* indicators (ThreatIntel.tsx), the search for leaks (DarkWeb.tsx) and    *)
(* the prompt for widgets (CustomDashboard.tsx).  Questions are numbered   *)
(* in the order they are asked; the inputs may be edited at any time.      *)
(***************************************************************************)
EXTENDS Naturals

CONSTANT MaxAsked   \* bound of the model: questions asked

ASSUME AskAssumption == MaxAsked \in Nat

\* guarded: a question that is not answered yet keeps the next one from being
\* asked; clears: asking takes the old answer away; latest: only the answer to
\* the latest question counts; switches: a type can be chosen, which takes the
\* answer away too.
TestTab      == [guarded |-> TRUE, clears |-> FALSE, latest |-> FALSE, switches |-> FALSE]
RuleGenTab   == [guarded |-> TRUE, clears |-> FALSE, latest |-> FALSE, switches |-> FALSE]
NormalizeTab == [guarded |-> TRUE, clears |-> FALSE, latest |-> FALSE, switches |-> FALSE]
YaraLTab     == [guarded |-> TRUE, clears |-> FALSE, latest |-> FALSE, switches |-> FALSE]
IocLookup    == [guarded |-> TRUE, clears |-> TRUE, latest |-> FALSE, switches |-> TRUE]
LeakSearch   == [guarded |-> TRUE, clears |-> TRUE, latest |-> FALSE, switches |-> TRUE]
\* Enter and the suggestions ask whether or not an answer is awaited.
WidgetPrompt == [guarded |-> FALSE, clears |-> TRUE, latest |-> TRUE, switches |-> FALSE]
Panels == {TestTab, RuleGenTab, NormalizeTab, YaraLTab, IocLookup, LeakSearch, WidgetPrompt}

VARIABLES
    panel,       \* the panel this behaviour uses
    asking,      \* questions on their way: <<number, mount>>
    mount,       \* how often the panel was opened
    awaiting,     \* the busy flag of the panel
    result,      \* the answer kept: the number of its question, 0 for none
    asked,       \* the number of the latest question since the panel was opened
    questions,   \* counter that bounds the model
    refused      \* history: the latest question got no answer

askVars == <<panel, asking, mount, awaiting, result, asked, questions, refused>>

AskInit ==
    /\ panel \in Panels
    /\ asking = {} /\ mount = 0 /\ awaiting = FALSE
    /\ result = 0 /\ asked = 0 /\ questions = 0 /\ refused = FALSE

\* Mutant: the button stays enabled while an answer is awaited.
AlwaysOffered == TRUE

Offered == panel.guarded => ~awaiting

Ask ==
    /\ Offered /\ questions < MaxAsked
    /\ questions' = questions + 1 /\ asked' = questions + 1
    /\ asking' = asking \union {<<questions + 1, mount>>}
    /\ awaiting' = TRUE /\ refused' = FALSE
    /\ result' = IF panel.clears THEN 0 ELSE result
    /\ UNCHANGED <<panel, mount>>

\* The panel takes note of a reply if it has not been closed since.
Noticed(q) == q[2] = mount /\ (panel.latest => q[1] = asked)

Answer(q) ==
    /\ asking' = asking \ {q}
    /\ IF Noticed(q) THEN result' = q[1] /\ awaiting' = FALSE
       ELSE UNCHANGED <<result, awaiting>>
    /\ UNCHANGED <<panel, mount, asked, questions, refused>>

\* An error is a message; what was shown is shown still.
Fail(q) ==
    /\ asking' = asking \ {q}
    /\ IF Noticed(q) THEN refused' = TRUE /\ awaiting' = FALSE
       ELSE UNCHANGED <<refused, awaiting>>
    /\ UNCHANGED <<panel, mount, result, asked, questions>>

\* Another type is chosen; an answer that is awaited comes all the same.
Switch ==
    /\ panel.switches /\ result # 0 /\ result' = 0
    /\ UNCHANGED <<panel, asking, mount, awaiting, asked, questions, refused>>

\* The tab or page is left and opened again.
Reopen ==
    /\ asked # 0
    /\ mount' = mount + 1
    /\ awaiting' = FALSE /\ result' = 0 /\ asked' = 0 /\ refused' = FALSE
    /\ UNCHANGED <<panel, asking, questions>>

AskNext ==
    \/ Ask \/ Switch \/ Reopen
    \/ \E q \in asking : Answer(q) \/ Fail(q)

AskSpec == AskInit /\ [][AskNext]_askVars

-----------------------------------------------------------------------------
AskTypeOK ==
    /\ panel \in Panels
    /\ asking \subseteq (1 .. MaxAsked) \X (0 .. MaxAsked)
    /\ mount \in 0 .. MaxAsked /\ awaiting \in BOOLEAN /\ refused \in BOOLEAN
    /\ result \in 0 .. MaxAsked /\ asked \in 0 .. MaxAsked /\ questions \in 0 .. MaxAsked

\* Answers come in any order, and those of a panel closed meanwhile come too;
\* the answer shown by a panel that is not waiting is that of the question asked
\* last since it was opened, and it is not waiting for nothing.  The workbench
\* keeps showing the former answer when a question fails.
ShownAnswersLast ==
    /\ ~awaiting /\ (panel.clears \/ ~refused) => result \in {0, asked}
    /\ awaiting => <<asked, mount>> \in asking
=============================================================================
