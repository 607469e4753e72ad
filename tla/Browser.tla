------------------------------- MODULE Browser -------------------------------
(***************************************************************************)
(* The web application in the browser.  Its parts meet in the local storage  *)
(* and in the answers of the API: the tabs that share a session              *)
(* (SessionRules), an operator's visit to a company (Impersonation), a user  *)
(* at a page (Console).  A behaviour is about one of them, the scene.        *)
(***************************************************************************)
EXTENDS SessionRules, Impersonation

VARIABLES
    scene,
    role, claims, shown, page, status, seen, call

pageVars == <<role, claims, shown, page, status, seen, call>>

browserVars == <<scene, vars, rule, impersonationVars, pageVars>>

C == INSTANCE Console

\* What only another scene would change has one initial value.
BrowserInit ==
    /\ scene \in {"tabs", "visit", "page"}
    /\ RuledInit /\ SwapInit /\ C!ConsoleInit
    /\ scene # "tabs" => rule = "none"
    /\ scene # "page" => role = "ADMIN"

TabsScene ==
    /\ scene = "tabs"
    /\ RuledNext
    /\ UNCHANGED <<scene, impersonationVars, pageVars>>

VisitScene ==
    /\ scene = "visit"
    /\ SwapNext
    /\ UNCHANGED <<scene, vars, rule, pageVars>>

PageScene ==
    /\ scene = "page"
    /\ C!ConsoleNext
    /\ UNCHANGED <<scene, vars, rule, impersonationVars>>

BrowserSpec == BrowserInit /\ [][TabsScene \/ VisitScene \/ PageScene]_browserVars

-----------------------------------------------------------------------------

BrowserTypeOK == TypeOK /\ ImpersonationTypeOK /\ C!ConsoleTypeOK

\* The properties of a page, stated and explained in Console.
OfferedIsAccepted == C!OfferedIsAccepted
OneWritePerClick == C!OneWritePerClick
=============================================================================
