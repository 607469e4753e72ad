---------------------------- MODULE SessionRules ----------------------------
(***************************************************************************)
(* When rotation gives one-time tokens.  The code finds a refresh token      *)
(* active in one statement and revokes it four statements later, so what it  *)
(* promises depends on what the browser and the server meet; a behaviour     *)
(* keeps one rule from its beginning to its end.                             *)
(***************************************************************************)
EXTENDS Sessions

VARIABLE rule

\* "none": whatever the code, its failures and the network allow.
\* "turns": the server does not fail within a refresh, the tabs of a browser take
\* turns to refresh, it does not log in while one does, and no browser of the user
\* refreshes while the user logs out.
\* "calm": the same, no answer is lost, and the user logs out of the last browser.
Rules == {"none", "turns", "calm"}

Undisturbed(b) == \A w \in Tabs : w[1] = b => tab[w] = Idle

\* The steps without failures of the server or losses.
CalmNext ==
    \/ \E w \in Tabs : RefreshStep(w)
    \/ \E b \in Browsers : Undisturbed(b) /\ Login(b)
    \/ \E b \in Browsers : (\A c \in Browsers : Undisturbed(c)) /\ Logout(b)
    \/ UpdateUser
    \/ \E t \in Tokens : Expire(t)

TakeTurns ==
    \A v, w \in Tabs :
        (v # w /\ v[1] = w[1]) => tab[v] = Idle \/ tab[w] = Idle

\* Who logs out is logged in nowhere else.
LastBrowser ==
    \A b \in Browsers : Logout(b) => \A c \in Browsers \ {b} : store[c] = None

RuledInit == Init /\ rule \in Rules

RuledNext ==
    /\ \/ rule = "none" /\ Next
       \/ rule = "turns" /\ (CalmNext \/ \E w \in Tabs : LoseAnswer(w)) /\ TakeTurns'
       \/ rule = "calm" /\ CalmNext /\ LastBrowser /\ TakeTurns'
    /\ UNCHANGED rule

RuledSpec == RuledInit /\ [][RuledNext]_<<vars, rule>>

\* Nothing fails and nothing is lost, but tabs refresh when they want to.
TwoTabsSpec == Init /\ rule = "none" /\ [][CalmNext /\ UNCHANGED rule]_<<vars, rule>>

-----------------------------------------------------------------------------
\* Where tabs take turns and a user logs out of the last browser, no browser ever
\* holds a token that the server would refuse as reused, so a refresh never throws
\* the user out.
StoreIsLive ==
    rule = "calm" =>
        \A b \in Browsers :
            (store[b] # None /\ Undisturbed(b)) => ~token[store[b]].revoked

\* USE-CASES.md, AUTH-08: "Logout revokes all refresh tokens (refresh afterwards
\* is 401)".  No token that goes back to a login before the logout is active,
\* in any browser, when the logout meets no refresh in flight.
LogoutIsFinal ==
    rule # "none" => \A t \in Tokens : Active(t) => token[t].login \notin ended

\* The tokens that go back to one login.
Chained(login) == {t \in Tokens : token[t].exists /\ token[t].login = login}

\* The token of a login that is good: the one that a refresh in flight has
\* issued, once it has, and otherwise the one that is active.
Good(login) ==
    LET live == {t \in Chained(login) : Active(t)}
        new == live \cap {tab[w].new : w \in Tabs}
    IN  IF live = {} THEN None
        ELSE CHOOSE t \in IF new = {} THEN live ELSE new : TRUE

\* Where tabs do not take turns nothing is claimed, and no chain begins.
Chain == INSTANCE OneTimeToken WITH
    Logins <- Tokens,
    good <- [l \in Tokens |-> IF rule = "none" THEN None ELSE Good(l)],
    spent <- [l \in Tokens |-> IF rule = "none" THEN {} ELSE Chained(l) \ {Good(l)}]

\* Tabs that take turns, whether or not answers arrive: the rows that go back to
\* one login are a chain of one-time tokens.
ImplementsOneTimeToken == Chain!Spec
=============================================================================
