------------------------------- MODULE Frontend -------------------------------
(***************************************************************************)
(* The browser app.  App.tsx shows one page at a time, and the pages       *)
(* modelled in different modules share no key of the query cache that they *)
(* depend on, so no step of one influences another.  A behaviour therefore *)
(* stays within one part of the app, chosen at the start; the other parts  *)
(* are as they are when the app is loaded.                                 *)
(***************************************************************************)
EXTENDS CaseWorkspace, DashboardBuilder, WorkflowEditor, ParserBench, AskPanels,
        SignIn, MfaEnrolment, Desks

VARIABLE part   \* the part of the app this behaviour is about

AppParts == {"cases", "dashboard", "workflow", "bench", "ask", "signIn", "mfa", "desks"}

appVars == <<part, caseVars, dashVars, flowVars, benchVars, askVars, signInVars,
             mfaVars, deskVars>>

-----------------------------------------------------------------------------
\* What a part starts with is a choice only where it is used.
NoChoice ==
    /\ part # "cases" => watched = CHOOSE l \in Watchable : TRUE
    /\ part # "cases" \/ watched # "cases" => role = CHOOSE r \in Roles : TRUE
    /\ part # "ask" => panel = TestTab
    /\ part # "mfa" => made = 0
    /\ part # "desks" => desk = Dashboard /\ list = CHOOSE l \in Layout : TRUE

Init ==
    /\ part \in AppParts
    /\ CaseInit /\ DashInit /\ FlowInit /\ BenchInit
    /\ AskInit /\ SignInInit /\ MfaInit /\ DeskInit
    /\ NoChoice

Only(p) ==
    /\ part = p /\ UNCHANGED part
    /\ IF p = "cases" THEN TRUE ELSE UNCHANGED caseVars
    /\ IF p = "dashboard" THEN TRUE ELSE UNCHANGED dashVars
    /\ IF p = "workflow" THEN TRUE ELSE UNCHANGED flowVars
    /\ IF p = "bench" THEN TRUE ELSE UNCHANGED benchVars
    /\ IF p = "ask" THEN TRUE ELSE UNCHANGED askVars
    /\ IF p = "signIn" THEN TRUE ELSE UNCHANGED signInVars
    /\ IF p = "mfa" THEN TRUE ELSE UNCHANGED mfaVars
    /\ IF p = "desks" THEN TRUE ELSE UNCHANGED deskVars

Next ==
    \/ Only("cases") /\ CaseNext
    \/ Only("dashboard") /\ DashNext
    \/ Only("workflow") /\ FlowNext
    \/ Only("bench") /\ BenchNext
    \/ Only("ask") /\ AskNext
    \/ Only("signIn") /\ SignInNext
    \/ Only("mfa") /\ MfaNext
    \/ Only("desks") /\ DeskNext

Spec == Init /\ [][Next]_appVars

-----------------------------------------------------------------------------
\* The types of every part.
TypeOK ==
    /\ part \in AppParts
    /\ CaseTypeOK /\ DashTypeOK /\ FlowTypeOK /\ BenchTypeOK
    /\ AskTypeOK /\ SignInTypeOK /\ MfaTypeOK /\ DeskTypeOK
=============================================================================
