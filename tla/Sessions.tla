------------------------------ MODULE Sessions ------------------------------
(***************************************************************************)
(* The sessions of one user: AuthService with its refresh tokens, and the    *)
(* browsers that keep them.                                                  *)
(*                                                                         *)
(* A browser keeps one refresh token in its local storage, which all its     *)
(* tabs share.  A tab whose request was answered 401 exchanges the token for *)
(* a new one; within a tab there is one such refresh at a time.  On the      *)
(* server a refresh is a row of statements: find the token active, read the  *)
(* user, insert the new token, look it up, revoke the old one.               *)
(***************************************************************************)
CONSTANTS
    Browsers,   \* where the user is logged in, the impersonating one included
    Tabs,       \* the tabs that are open, pairs of a browser and an id
    Tokens,     \* bound: ids of refresh token rows
    None

ASSUME SessionsAssumption ==
    /\ None \notin Tokens
    /\ \A w \in Tabs : w[1] \in Browsers

VARIABLES
    active,     \* whether the status of the user is ACTIVE
    token,      \* token[t]: the row
    store,      \* store[b]: the refresh token in the local storage of b
    tab,        \* tab[w]: the refresh in flight from tab w
    ended       \* logins that were logged out: the tokens they began with

vars == <<active, token, store, tab, ended>>

\* parent is the token a refresh was given, login the token its chain of
\* refreshes began with: neither is a column, both say what happened.
TokenRow == [exists : BOOLEAN, revoked : BOOLEAN, expired : BOOLEAN,
             replacedBy : Tokens \cup {None}, parent : Tokens \cup {None},
             login : Tokens \cup {None}]

NoToken == [exists |-> FALSE, revoked |-> FALSE, expired |-> FALSE,
            replacedBy |-> None, parent |-> None, login |-> None]

Steps == {"idle", "find", "reuse", "user", "issue", "lookup", "revoke",
          "granted", "denied"}

\* The steps that run on the server.
Serving == Steps \ {"idle", "granted", "denied"}

Call == [step : Steps, given : Tokens \cup {None}, new : Tokens \cup {None},
         stored : Tokens \cup {None}]

Idle == [step |-> "idle", given |-> None, new |-> None, stored |-> None]

Init ==
    /\ active = TRUE
    /\ token = [t \in Tokens |-> NoToken]
    /\ store = [b \in Browsers |-> None]
    /\ tab = [w \in Tabs |-> Idle]
    /\ ended = {}

Active(t) == token[t].exists /\ ~token[t].revoked /\ ~token[t].expired

Step(w, from, to) ==
    /\ tab[w].step = from
    /\ tab' = [tab EXCEPT ![w].step = to]

RevokeAllForUser ==
    token' = [t \in Tokens |->
                [token[t] EXCEPT !.revoked = token[t].revoked \/ token[t].exists]]

-----------------------------------------------------------------------------
\* AuthService.refresh

\* performRefresh of the browser, and the statements on the server.
Refresh(w) ==
    /\ tab[w] = Idle
    /\ store[w[1]] # None
    /\ tab' = [tab EXCEPT ![w] = [Idle EXCEPT !.step = "find", !.given = store[w[1]]]]
    /\ UNCHANGED <<active, token, store, ended>>

\* A token past its expiry fails its verification; one that is not in the table
\* as active is taken for reused.
FindStored(w) ==
    LET t == tab[w].given
    IN  /\ Step(w, "find", CASE token[t].expired -> "denied"
                             [] Active(t) -> "user"
                             [] OTHER -> "reuse")
        /\ UNCHANGED <<active, token, store, ended>>

RevokeReused(w) ==
    /\ Step(w, "reuse", "denied")
    /\ RevokeAllForUser
    /\ UNCHANGED <<active, store, ended>>

ReadUser(w) ==
    /\ Step(w, "user", IF active THEN "issue" ELSE "denied")
    /\ UNCHANGED <<active, token, store, ended>>

IssueTokens(w) ==
    /\ tab[w].step = "issue"
    /\ \E t \in Tokens :
        /\ ~token[t].exists
        /\ token' = [token EXCEPT ![t] =
                [NoToken EXCEPT !.exists = TRUE, !.parent = tab[w].given,
                                !.login = token[tab[w].given].login]]
        /\ tab' = [tab EXCEPT ![w].step = "lookup", ![w].new = t]
    /\ UNCHANGED <<active, store, ended>>

\* Mutant: whether the new row is active is kept, and not its id.
LookupActive(w) ==
    /\ tab[w].step = "lookup"
    /\ tab' = [tab EXCEPT ![w].step = "revoke", ![w].stored = Active(tab[w].new)]
    /\ UNCHANGED <<active, token, store, ended>>

\* The new row is looked up among the active ones, and may be revoked by now.
LookupNew(w) ==
    /\ tab[w].step = "lookup"
    /\ tab' = [tab EXCEPT ![w].step = "revoke",
                          ![w].stored = IF Active(tab[w].new) THEN tab[w].new ELSE None]
    /\ UNCHANGED <<active, token, store, ended>>

\* Mutant: the old token is linked to the new one and stays active.
LinkOld(w) ==
    /\ Step(w, "revoke", "granted")
    /\ token' = [token EXCEPT ![tab[w].given].replacedBy = tab[w].stored]
    /\ UNCHANGED <<active, store, ended>>

RevokeOld(w) ==
    /\ Step(w, "revoke", "granted")
    /\ token' = [token EXCEPT ![tab[w].given].revoked = TRUE,
                              ![tab[w].given].replacedBy = tab[w].stored]
    /\ UNCHANGED <<active, store, ended>>

\* Mutant: the tab that refreshed goes on with the token it had.
SetAccessToken(w) ==
    /\ tab[w].step = "granted"
    /\ tab' = [tab EXCEPT ![w] = Idle]
    /\ UNCHANGED <<active, token, store, ended>>

\* The browser stores the pair it was answered, or clears the session.
SetTokens(w) ==
    /\ tab[w].step = "granted"
    /\ store' = [store EXCEPT ![w[1]] = tab[w].new]
    /\ tab' = [tab EXCEPT ![w] = Idle]
    /\ UNCHANGED <<active, token, ended>>

ClearSession(w) ==
    /\ tab[w].step = "denied"
    /\ store' = [store EXCEPT ![w[1]] = None]
    /\ tab' = [tab EXCEPT ![w] = Idle]
    /\ UNCHANGED <<active, token, ended>>

\* The server fails between two statements: the tab is answered an error, or
\* nothing.
Fail(w) ==
    /\ tab[w].step \in Serving
    /\ tab' \in {[tab EXCEPT ![w] = Idle], [tab EXCEPT ![w].step = "denied"]}
    /\ UNCHANGED <<active, token, store, ended>>

\* The answer does not arrive, or the page was closed.
LoseAnswer(w) ==
    /\ tab[w].step \in {"granted", "denied"}
    /\ tab' = [tab EXCEPT ![w] = Idle]
    /\ UNCHANGED <<active, token, store, ended>>

-----------------------------------------------------------------------------
\* AuthService.login, and issueTokensForImpersonation in another browser.
Login(b) ==
    /\ active
    /\ store[b] = None
    /\ \E t \in Tokens :
        /\ ~token[t].exists
        /\ token' = [token EXCEPT ![t] = [NoToken EXCEPT !.exists = TRUE, !.login = t]]
        /\ store' = [store EXCEPT ![b] = t]
    /\ UNCHANGED <<active, tab, ended>>

\* Mutant: only the token of this browser is revoked.
LogoutHere(b) ==
    /\ store[b] # None
    /\ token' = [token EXCEPT ![store[b]].revoked = TRUE]
    /\ store' = [store EXCEPT ![b] = None]
    /\ ended' = {token[t].login : t \in {u \in Tokens : token[u].exists}}
    /\ UNCHANGED <<active, tab>>

\* AuthService.logout, after which the browser clears its session.
Logout(b) ==
    /\ store[b] # None
    /\ RevokeAllForUser
    /\ store' = [store EXCEPT ![b] = None]
    /\ ended' = {token[t].login : t \in {u \in Tokens : token[u].exists}}
    /\ UNCHANGED <<active, tab>>

\* UsersService.updateUser
UpdateUser ==
    /\ active' = ~active
    /\ UNCHANGED <<token, store, tab, ended>>

\* All tokens live equally long: they expire in the order they were issued.
Expire(t) ==
    /\ token[t].exists
    /\ ~token[t].expired
    /\ token[t].parent # None => token[token[t].parent].expired
    /\ token' = [token EXCEPT ![t].expired = TRUE]
    /\ UNCHANGED <<active, store, tab, ended>>

-----------------------------------------------------------------------------

RefreshStep(w) ==
    \/ Refresh(w)
    \/ FindStored(w)
    \/ RevokeReused(w)
    \/ ReadUser(w)
    \/ IssueTokens(w)
    \/ LookupNew(w)
    \/ RevokeOld(w)
    \/ SetTokens(w)
    \/ ClearSession(w)

SessionStep ==
    \/ \E b \in Browsers : Login(b) \/ Logout(b)
    \/ UpdateUser
    \/ \E t \in Tokens : Expire(t)

Next ==
    \/ SessionStep
    \/ \E w \in Tabs : RefreshStep(w) \/ Fail(w) \/ LoseAnswer(w)

Spec == Init /\ [][Next]_vars

-----------------------------------------------------------------------------
\* Every row, browser and call holds a value of its type.
TypeOK ==
    /\ active \in BOOLEAN
    /\ token \in [Tokens -> TokenRow]
    /\ store \in [Browsers -> Tokens \cup {None}]
    /\ tab \in [Tabs -> Call]
    /\ ended \subseteq Tokens

\* However refreshes race, fail or are lost, a token that names its replacement
\* is revoked, and the replacement was issued in exchange for it.
ReplacedByItsChild ==
    \A t \in Tokens : token[t].replacedBy # None =>
        /\ token[t].revoked
        /\ token[token[t].replacedBy].parent = t

\* lib/api.ts: "so the refresh token only rotates once".  A token is exchanged
\* for one other.
RotatesOnce ==
    \A t, u \in Tokens :
        (token[t].parent # None /\ token[t].parent = token[u].parent) => t = u
=============================================================================
