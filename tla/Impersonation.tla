---------------------------- MODULE Impersonation ----------------------------
(***************************************************************************)
(* An operator of the platform enters a company as its administrator and     *)
(* returns (lib/impersonation.ts): the session in the local storage is       *)
(* swapped for another one and back, while requests that were sent with the  *)
(* one before are still on their way.  Of those the refresh of the token     *)
(* matters, which every poll of an operator starts: the routes it polls need *)
(* a company, and answer 401 without one; and the logout, which ends the     *)
(* session of the browser when it is answered, whichever that is by then.    *)
(***************************************************************************)
EXTENDS Naturals, Sequences

CONSTANTS
    Companies,      \* the companies that can be entered
    MaxTokens       \* bound: refresh tokens that are issued

VARIABLES
    held,       \* the session in the local storage: a token, and the stored tenant
    saved,      \* the ORIGINAL_* keys
    context,    \* the key of the impersonation: a company or Nobody
    user,       \* AuthContext has a user: the layout is shown
    banner,     \* the company that the banner shows, read when the layout is mounted
    issued,     \* the owner of every refresh token, in the order of issue
    valid,      \* the tokens that are neither revoked nor rotated
    refresh,    \* the refresh that is in flight
    entering,   \* the answer of "Login as company" that is on its way
    leaving,    \* the logout that is in flight: the user of its token, or Served
    profile,    \* a /me of a page is in flight
    signing,    \* the token of a login that waits for its profile, or 0
    disturbed   \* see Disturbed

storageVars == <<held, saved, context>>
serverVars == <<issued, valid>>
flightVars == <<refresh, entering, leaving, profile, signing>>

impersonationVars == <<storageVars, user, banner, serverVars, flightVars, disturbed>>

Nobody == "nobody"
Operator == "operator"

NoLogout == Nobody
Served == "served"

ASSUME CompaniesAssumption == Companies \cap {Nobody, Operator, Served} = {}

Owners == Companies \cup {Operator}

\* A token is its number; 0 is none.
Session(token, tenant) == [token |-> token, tenant |-> tenant]

OwnerOf(token) == IF token = 0 THEN Nobody ELSE issued[token]

NoRefresh == [token |-> 0, answer |-> "none", new |-> 0]
NoEntry == [company |-> Nobody, token |-> 0]

Issues(owner) ==
    /\ Len(issued) < MaxTokens
    /\ issued' = Append(issued, owner)

SwapInit ==
    /\ held = Session(1, Nobody)
    /\ saved = Session(0, Nobody)
    /\ context = Nobody /\ banner = Nobody
    /\ user = TRUE
    /\ issued = <<Operator>> /\ valid = {1}
    /\ refresh = NoRefresh /\ entering = NoEntry /\ leaving = NoLogout
    /\ profile = FALSE /\ signing = 0
    /\ disturbed = FALSE

\* What breaks a visit or a session: it is replaced while a refresh or a logout of
\* it is in flight, cleared inside a visit or before one that is asked for, or the
\* answer of its refresh is lost.
Disturbed(broken) == disturbed' = (disturbed \/ broken)

Refreshing == refresh # NoRefresh
Entering == entering # NoEntry
Leaving == leaving # NoLogout

\* A request has been answered 401.
StartRefresh ==
    /\ refresh = NoRefresh /\ held.token # 0
    /\ refresh' = [token |-> held.token, answer |-> "waiting", new |-> 0]
    /\ UNCHANGED <<storageVars, user, banner, serverVars, entering, leaving, profile, signing, disturbed>>

\* A token that is not valid any more ends every session of its user.
ServeRefresh ==
    /\ refresh.answer = "waiting"
    /\ IF refresh.token \in valid
       THEN /\ Issues(OwnerOf(refresh.token))
            /\ valid' = (valid \ {refresh.token}) \cup {Len(issued')}
            /\ refresh' = [token |-> refresh.token, answer |-> "tokens", new |-> Len(issued')]
       ELSE /\ valid' = {t \in valid : OwnerOf(t) # OwnerOf(refresh.token)}
            /\ refresh' = [token |-> refresh.token, answer |-> "refused", new |-> 0]
            /\ UNCHANGED issued
    /\ UNCHANGED <<storageVars, user, banner, entering, leaving, profile, signing, disturbed>>

\* session.clear() and setUser(null), which a company's keys and what is saved
\* survive.
SignOut ==
    /\ held' = Session(0, Nobody)
    /\ user' = FALSE /\ banner' = Nobody
    /\ UNCHANGED <<saved, context, serverVars>>

\* session.setTokens without a tenant: what the storage holds by now is not looked
\* at.  A logout that was answered 401 too is sent again with the new token.
TakeTokens ==
    /\ refresh.answer = "tokens"
    /\ held' = Session(refresh.new, held.tenant)
    /\ refresh' = NoRefresh
    /\ \/ leaving' = leaving
       \/ leaving \in Owners /\ leaving' = OwnerOf(refresh.new)
    /\ UNCHANGED <<saved, context, user, banner, serverVars, entering, profile, signing, disturbed>>

\* A login that waits for its profile fails, and leaves nothing in the storage.
RefreshRefused ==
    /\ refresh.answer = "refused"
    /\ SignOut
    /\ refresh' = NoRefresh
    /\ signing' \in {signing, 0}
    /\ Disturbed(context # Nobody \/ Entering)
    /\ UNCHANGED <<entering, leaving, profile>>

\* The operator's page of a company asks for a session of its administrator; one
\* such request is in flight at a time, as its button is disabled.
LoginAsCompany(c) ==
    /\ entering = NoEntry /\ user /\ OwnerOf(held.token) = Operator
    /\ Issues(c)
    /\ valid' = valid \cup {Len(issued')}
    /\ entering' = [company |-> c, token |-> Len(issued')]
    /\ UNCHANGED <<storageVars, user, banner, refresh, leaving, profile, signing, disturbed>>

\* Mutant: the swap comes before the backup.
EnterImpersonationLate ==
    /\ entering # NoEntry
    /\ held' = Session(entering.token, entering.company)
    /\ saved' = held'
    /\ context' = entering.company
    /\ entering' = NoEntry
    /\ Disturbed(Refreshing \/ Leaving)
    /\ UNCHANGED <<user, banner, serverVars, refresh, leaving, profile, signing>>

\* The network loses the answer of a refresh, which the server may have rotated by
\* then, or of "Login as company".
LoseReply ==
    /\ \/ /\ Refreshing
          /\ refresh' = NoRefresh /\ entering' = entering
          /\ Disturbed(TRUE)
       \/ /\ Entering
          /\ entering' = NoEntry
          /\ UNCHANGED <<refresh, disturbed>>
    /\ UNCHANGED <<storageVars, user, banner, serverVars, leaving, profile, signing>>

\* Whoever is signed in by now, or nobody.  What is not there is not saved, and
\* leaves what was saved before.  The router replaces the page below the layout:
\* the banner is not read again.
EnterImpersonation ==
    /\ entering # NoEntry
    /\ saved' = Session(IF held.token # 0 THEN held.token ELSE saved.token,
                        IF held.tenant # Nobody THEN held.tenant ELSE saved.tenant)
    /\ held' = Session(entering.token, entering.company)
    /\ context' = entering.company
    /\ entering' = NoEntry
    /\ Disturbed(Refreshing \/ Leaving)
    /\ UNCHANGED <<user, banner, serverVars, refresh, leaving, profile, signing>>

\* setTokens leaves the stored tenant where the operator had none.
ExitImpersonation ==
    /\ banner # Nobody /\ saved.token # 0
    /\ held' = Session(saved.token, IF saved.tenant # Nobody THEN saved.tenant ELSE held.tenant)
    /\ saved' = Session(0, Nobody)
    /\ context' = Nobody
    /\ Disturbed(Refreshing)
    /\ UNCHANGED <<user, banner, serverVars, flightVars>>

\* The browser reloads: the requests in flight are gone, the banner is read, and
\* the profile is asked for; the one that is stored shows the layout meanwhile.
Reload ==
    /\ user' = (held.token # 0)
    /\ banner' = IF held.token = 0 THEN Nobody ELSE context
    /\ refresh' = NoRefresh /\ entering' = NoEntry /\ leaving' = NoLogout
    /\ profile' = (held.token # 0) /\ signing' = 0
    /\ Disturbed(Refreshing \/ Leaving)
    /\ UNCHANGED <<storageVars, serverVars>>

\* The settings ask for the profile.
AskProfile ==
    /\ user /\ held.token # 0 /\ ~profile
    /\ profile' = TRUE
    /\ UNCHANGED <<storageVars, user, banner, serverVars, refresh, entering, leaving, signing, disturbed>>

\* Whoever has signed out meanwhile is shown as signed in again.
ShowProfile ==
    /\ profile
    /\ profile' = FALSE
    /\ user' = TRUE
    /\ banner' = IF user THEN banner ELSE context
    /\ UNCHANGED <<storageVars, serverVars, refresh, entering, leaving, signing, disturbed>>

\* /me fails, and whatever session is stored by now is cleared.
LoseProfile ==
    /\ profile
    /\ SignOut
    /\ profile' = FALSE
    /\ Disturbed(context # Nobody \/ Entering)
    /\ UNCHANGED <<refresh, entering, leaving, signing>>

\* A request without a token is answered 401, and there is nothing to refresh.
FindNoSession ==
    /\ user /\ held.token = 0
    /\ SignOut
    /\ UNCHANGED <<flightVars, disturbed>>

\* The user logs out, from the bar of every page and whatever is in flight.
OperatorLogout ==
    /\ user /\ held.token # 0 /\ leaving = NoLogout
    /\ leaving' = OwnerOf(held.token)
    /\ UNCHANGED <<storageVars, user, banner, serverVars, refresh, entering, profile, signing, disturbed>>

\* AuthService.logout; the answer is on its way.
ServeLogout ==
    /\ leaving \in Owners
    /\ valid' = {t \in valid : OwnerOf(t) # leaving}
    /\ leaving' = Served
    /\ UNCHANGED <<storageVars, user, banner, issued, refresh, entering, profile, signing, disturbed>>

\* The `finally' of logout, served or not.
FinishLogout ==
    /\ Leaving
    /\ SignOut
    /\ leaving' = NoLogout
    /\ Disturbed(context # Nobody \/ Refreshing \/ Entering)
    /\ UNCHANGED <<refresh, entering, profile, signing>>

\* login stores the tokens, whatever is in the storage; an operator has no tenant,
\* so that one stored before stays.
OperatorLogin ==
    /\ ~user /\ signing = 0
    /\ Issues(Operator)
    /\ valid' = valid \cup {Len(issued')}
    /\ held' = Session(Len(issued'), held.tenant)
    /\ signing' = Len(issued')
    /\ UNCHANGED <<saved, context, user, banner, refresh, entering, leaving, profile, disturbed>>

\* finalizeSession stores them again, and the layout is mounted.
ReceiveProfile ==
    /\ signing # 0
    /\ held' = Session(signing, held.tenant)
    /\ user' = TRUE /\ banner' = context
    /\ signing' = 0
    /\ Disturbed(held.token # signing)
    /\ UNCHANGED <<saved, context, serverVars, refresh, entering, leaving, profile>>

\* /me fails: the tokens stay, and nobody is signed in.
MissProfile ==
    /\ signing # 0
    /\ signing' = 0
    /\ UNCHANGED <<storageVars, user, banner, serverVars, refresh, entering, leaving, profile, disturbed>>

SwapNext ==
    \/ StartRefresh \/ ServeRefresh \/ TakeTokens \/ RefreshRefused
    \/ \E c \in Companies : LoginAsCompany(c)
    \/ LoseReply \/ EnterImpersonation \/ ExitImpersonation
    \/ Reload \/ AskProfile \/ ShowProfile \/ LoseProfile \/ FindNoSession
    \/ OperatorLogout \/ ServeLogout \/ FinishLogout
    \/ OperatorLogin \/ ReceiveProfile \/ MissProfile

SwapSpec == SwapInit /\ [][SwapNext]_impersonationVars

-----------------------------------------------------------------------------

ImpersonationTypeOK ==
    /\ held.token \in 0..Len(issued) /\ held.tenant \in Companies \cup {Nobody}
    /\ saved.token \in 0..Len(issued)
    /\ context \in Companies \cup {Nobody} /\ banner \in Companies \cup {Nobody}
    /\ user \in BOOLEAN /\ profile \in BOOLEAN
    /\ leaving \in Owners \cup {NoLogout, Served} /\ signing \in 0..Len(issued)
    /\ issued \in Seq(Owners) /\ valid \subseteq 1..Len(issued)

\* The comment of impersonation.ts:28-30: the session of the operator is kept and
\* comes back.  Until a swap or a reload meets a refresh or a logout in flight, a
\* login or a logout meets a refresh, a session is cleared inside a visit or while
\* one is awaited, or the answer of a refresh is lost (Disturbed says it of each
\* step), the browser is the administrator of the company that the context names,
\* with a backup of the operator's session, or the operator; and the tokens it
\* holds, the backup's included, are those the server accepts, while no logout is
\* in flight.
SwapIsWhole ==
    ~disturbed =>
        /\ context # Nobody =>
            /\ OwnerOf(held.token) = context /\ held.tenant = context
            /\ OwnerOf(saved.token) = Operator /\ saved.token \in valid
        /\ context = Nobody => OwnerOf(held.token) \in {Operator, Nobody} /\ saved.token = 0
        /\ (held.token # 0 /\ ~Refreshing /\ ~Leaving) => held.token \in valid
=============================================================================
