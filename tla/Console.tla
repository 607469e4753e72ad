------------------------------- MODULE Console -------------------------------
(***************************************************************************)
(* A user at a page of the web application, and the API behind it.  The page *)
(* offers what the role it knows and the status it shows allow (Screens);    *)
(* the API admits a request by the claims of its token and by its form       *)
(* (Routes), and the service refuses it by the status of the object.  In     *)
(* between the token expires, the user's role is changed, and others change  *)
(* the object.                                                               *)
(***************************************************************************)
EXTENDS Routes, Screens

VARIABLES
    role,       \* the user's role in the database
    claims,     \* what the access token in the local storage says
    shown,      \* the role that AuthContext shows, "none" when nobody is signed in
    page,       \* the page that is open
    status,     \* the status of the object the page is about, in the database
    seen,       \* the status the page shows
    call        \* the request a click has made

consoleVars == <<role, claims, shown, page, status, seen, call>>

Home == "none"

NoCall == [phase |-> "none"]

\* The company of every user but the operators, who have none.
Company == "company"

ClaimsOf(r) == [role |-> r, tenant |-> IF r = "SUPER_ADMIN" THEN "none" ELSE Company]

\* session.getTenantId(): what the login stored.
Header == claims.tenant

-----------------------------------------------------------------------------
\* What the services do with the status of an object

Move(kind, request, from, to) == [kind |-> kind, request |-> request, from |-> from, to |-> to]

\* A request that leaves the status as it is.
Stays == {}

ContractMoves ==
    {Move("contract", contractsApi.complete, {"ACTIVE"}, {"COMPLETED"}),
     Move("contract", contractsApi.cancel, {"ACTIVE", "OVERDUE", "CANCELLED"}, {"CANCELLED"}),
     Move("contract", contractsApi.sign, {"ACTIVE", "OVERDUE", "COMPLETED"}, Stays)}

ReservationMoves ==
    {Move("reservation", reservationsApi.convertToContract, {"PENDING", "CONFIRMED", "OVERDUE"},
          {"CONVERTED"}),
     Move("reservation", reservationsApi.cancel, {"PENDING", "CONFIRMED", "OVERDUE", "CANCELLED"},
          {"CANCELLED"})}

\* consume leaves a deposit that is not used up as it was.
DepositMoves ==
    LET held == {"HELD", "PARTIAL_REFUND"} IN
    {Move("deposit", depositsApi.collect, {"NONE"}, {"HELD"}),
     Move("deposit", depositsApi.refundFull, held, {"REFUNDED"}),
     Move("deposit", depositsApi.refundPartial, held, {"PARTIAL_REFUND", "REFUNDED"}),
     Move("deposit", depositsApi.consume, held, {"CONSUMED"} \cup held)}

AlertMoves ==
    {Move("alert", alertsApi.acknowledge, {"OPEN"}, {"ACKNOWLEDGED"}),
     Move("alert", alertsApi.resolve, {"OPEN", "ACKNOWLEDGED", "RESOLVED"}, {"RESOLVED"})}

TenantMoves ==
    LET there == {"TRIAL", "ACTIVE", "SUSPENDED", "EXPIRED", "CANCELLED"}
        notCancelled == there \ {"CANCELLED"} IN
    {Move("tenant", platformApi.activate, there \ {"ACTIVE"}, {"ACTIVE"}),
     Move("tenant", platformApi.suspend, {"TRIAL", "ACTIVE"}, {"SUSPENDED"}),
     Move("tenant", platformApi.cancel, notCancelled, {"CANCELLED"}),
     Move("tenant", platformApi.impersonate, notCancelled, Stays),
     Move("tenant", platformApi.extendTrial, {"TRIAL"}, Stays),
     Move("tenant", platformApi.extendSubscription, notCancelled, {"TRIAL", "ACTIVE"}),
     Move("tenant", platformApi.updateTenant, there, Stays),
     Move("tenant", platformApi.softDelete, there, {"GONE"})}

UserMoves ==
    LET there == {"ACTIVE", "SUSPENDED", "INVITED"} IN
    {Move("user", usersApi.update, there, there),
     Move("user", usersApi.resetPassword, there, Stays),
     Move("user", usersApi.delete, there, {"GONE"})}

ArchiveMoves ==
    {Move("vehicle", vehiclesApi.update, {"LIVE"}, Stays),
     Move("vehicle", vehiclesApi.delete, {"LIVE"}, {"GONE"}),
     Move("client", clientsApi.update, {"LIVE"}, Stays),
     Move("client", clientsApi.delete, {"LIVE"}, {"GONE"})}

Moves ==
    UNION {ContractMoves, ReservationMoves, DepositMoves, AlertMoves, TenantMoves, UserMoves,
           ArchiveMoves}

Scheduler == Request("CRON", "sweep", "none")

\* What the sweeps of the scheduler do.
Sweeps ==
    {Move("contract", Scheduler, {"ACTIVE"}, {"OVERDUE"}),
     Move("reservation", Scheduler, {"PENDING", "CONFIRMED"}, {"OVERDUE"}),
     Move("tenant", Scheduler, {"TRIAL", "ACTIVE"}, {"EXPIRED"})}

\* The statuses an object of a kind can be found in; "LIVE" is a page's own.
StatusesOf(kind) ==
    IF kind = "none" THEN {"LIVE"} ELSE UNION {m.from : m \in {n \in Moves : n.kind = kind}}

Refuses(request) == \E m \in Moves : m.request = request /\ status \notin m.from

StatusAfter(request) ==
    {s \in {status} \cup UNION {m.to : m \in {n \in Moves : n.request = request}} :
        \A m \in Moves : m.request = request => s \in m.to \/ m.to = Stays}

-----------------------------------------------------------------------------
\* One request

RouteOf(request) ==
    CHOOSE r \in AppModule : r.verb = request.verb /\ r.path = request.path

\* What a form can send: everything filled in, or only what it insists on.
Bodies(fields) ==
    {Body(fields.sent \cup fields.omitted \cup fields.blank, {}), Body(fields.sent, fields.blank)}

Admitted(request, body) == Admission(RouteOf(request), claims, Header, body)

\* The page that opens has its loads answered, or shows an error.
Loads(p) == \A l \in Pages[p].loads : \A b \in Bodies(l.fields) : Admitted(l.request, b) = "pass"

ConsoleInit ==
    /\ role \in Roles
    /\ claims = ClaimsOf(role)
    /\ shown = role
    /\ page = Home
    /\ status = "LIVE" /\ seen = "nothing"
    /\ call = NoCall

Open(p) ==
    /\ page = Home
    /\ shown \in Pages[p].gate
    /\ page' = p
    /\ status' \in StatusesOf(Pages[p].kind)
    /\ seen' = IF Loads(p) THEN status' ELSE "nothing"
    /\ UNCHANGED <<role, claims, shown, call>>

\* Back to the dashboard: what is not on the screen is not followed.
Leave ==
    /\ page # Home /\ call = NoCall
    /\ page' = Home
    /\ status' = "LIVE" /\ seen' = "nothing"
    /\ UNCHANGED <<role, claims, shown, call>>

Offered(a) == shown \in a.to /\ seen \in a.when

\* The request is sent with the token of the moment.
Click(a, body) ==
    /\ page # Home /\ call = NoCall
    /\ Offered(a)
    /\ call' = [phase |-> "sent", request |-> a.request, body |-> body, busy |-> a.busy,
                claims |-> claims, tries |-> 1, again |-> FALSE, made |-> 0, answer |-> "none"]
    /\ UNCHANGED <<role, claims, shown, page, status, seen>>

\* A second click on a control that is not disabled.
ClickAgain ==
    /\ call.phase = "sent" /\ call.tries = 1 /\ call.made = 0
    /\ ~call.busy /\ ~call.again
    /\ call' = [call EXCEPT !.again = TRUE]
    /\ UNCHANGED <<role, claims, shown, page, status, seen>>

Answered(answer, n) ==
    call' = [call EXCEPT !.phase = "answered", !.answer = answer, !.made = @ + n]

\* The token has expired; a retry has a token that is new.
Expired ==
    /\ call.phase = "sent" /\ call.tries = 1 /\ call.claims # NoClaims
    /\ RouteOf(call.request).tenancy # "public"
    /\ Answered("401", 0)
    /\ UNCHANGED <<role, claims, shown, page, status, seen>>

\* The guards and the pipe, the service, and the answer, which may be lost.
Serve ==
    /\ call.phase = "sent"
    /\ LET gate == Admission(RouteOf(call.request), call.claims, call.claims.tenant, call.body)
       IN \/ gate # "pass" /\ Answered(gate, 0) /\ UNCHANGED status
          \/ gate = "pass" /\ Refuses(call.request) /\ Answered("409", 0) /\ UNCHANGED status
          \/ /\ gate = "pass" /\ ~Refuses(call.request)
             /\ status' \in StatusAfter(call.request)
             /\ \E answer \in {"ok", "lost"} : Answered(answer, 1)
    /\ UNCHANGED <<role, claims, shown, page, seen>>

\* Mutant: whatever failed is sent once more.
AnyFailure == call.phase = "answered" /\ call.answer # "ok" /\ call.tries = 1

\* apiFetch asks for a new token when it is answered 401, and only once.
Unauthorized ==
    /\ call.phase = "answered" /\ call.answer = "401"
    /\ call.request.by = "fetch" /\ call.tries = 1

\* The new token has the role of the database.
Retry ==
    /\ Unauthorized
    /\ claims # NoClaims
    /\ claims' = ClaimsOf(role)
    /\ call' = [call EXCEPT !.phase = "sent", !.answer = "none", !.tries = 2,
                            !.claims = ClaimsOf(role)]
    /\ UNCHANGED <<role, shown, page, status, seen>>

\* The refresh is refused: onUnauthorized clears the session and the page.
GiveUp ==
    /\ Unauthorized
    /\ claims' = NoClaims /\ shown' = "none"
    /\ page' = Home
    /\ status' = "LIVE" /\ seen' = "nothing"
    /\ call' = NoCall
    /\ UNCHANGED role

\* The answer of the first of two clicks, the second is served then.
ReceiveFirst ==
    /\ call.phase = "answered" /\ ~Unauthorized /\ call.again
    /\ call' = [call EXCEPT !.phase = "sent", !.answer = "none", !.again = FALSE]
    /\ UNCHANGED <<role, claims, shown, page, status, seen>>

\* AuthContext.login and register: the tokens that the answer brings, and then
\* /auth/me.  Whoever registers is the administrator of a new company.
SignIn ==
    /\ call.phase = "answered" /\ call.answer = "ok"
    /\ call.request \in {authApi.login, authApi.register}
    /\ role' = IF call.request = authApi.register THEN "ADMIN" ELSE role
    /\ claims' = ClaimsOf(role') /\ shown' = role'
    /\ page' = Home
    /\ status' = "LIVE" /\ seen' = "nothing"
    /\ call' = NoCall

\* AuthContext.logout, from the top of every page: whatever the API answers.
SignOut ==
    /\ shown # "none" /\ call = NoCall
    /\ claims' = NoClaims /\ shown' = "none"
    /\ page' = Home
    /\ status' = "LIVE" /\ seen' = "nothing"
    /\ UNCHANGED <<role, call>>

\* The page shows the message of a failure.  After a success it loads again, or
\* makes way for a list if the object is gone.
Receive ==
    /\ call.phase = "answered" /\ ~Unauthorized /\ ~call.again
    /\ call.answer = "ok" => call.request \notin {authApi.login, authApi.register}
    /\ call' = NoCall
    /\ IF call.answer = "ok" /\ status = "GONE"
       THEN page' = Home /\ status' = "LIVE" /\ seen' = "nothing"
       ELSE /\ seen' = IF call.answer = "ok" /\ seen # "nothing" THEN status ELSE seen
            /\ UNCHANGED <<page, status>>
    /\ UNCHANGED <<role, claims, shown>>

\* Others, and the scheduler, change the object.
Elsewhere ==
    /\ page # Home
    /\ \E m \in Moves \cup Sweeps :
        /\ m.kind = Pages[page].kind /\ status \in m.from
        /\ status' \in m.to \ {status}
    /\ UNCHANGED <<role, claims, shown, page, seen, call>>

\* An administrator of the company changes the user's role.  Once is enough: the
\* user's token and page have the role of the login until then.
ChangeRole ==
    /\ role # "SUPER_ADMIN" /\ shown = role /\ claims = ClaimsOf(role)
    /\ role' \in Staff \ {role}
    /\ UNCHANGED <<claims, shown, page, status, seen, call>>

\* refreshUser and the reload of the browser ask /auth/me, which reads the database.
RefreshUser ==
    /\ claims # NoClaims /\ call = NoCall /\ shown # role
    /\ shown' = role
    /\ UNCHANGED <<role, claims, page, status, seen, call>>

ConsoleNext ==
    \/ \E p \in DOMAIN Pages : Open(p)
    \/ Leave
    \/ page # Home /\ \E a \in Pages[page].acts : \E b \in Bodies(a.fields) : Click(a, b)
    \/ ClickAgain \/ Expired \/ Serve \/ Retry \/ GiveUp
    \/ ReceiveFirst \/ Receive \/ SignIn \/ SignOut
    \/ Elsewhere
    \/ ChangeRole \/ RefreshUser

ConsoleTypeOK ==
    /\ role \in Roles /\ shown \in Roles \cup {"none"}
    /\ claims \in {NoClaims} \cup {ClaimsOf(r) : r \in Roles}
    /\ page \in DOMAIN Pages \cup {Home}
    /\ status \in Whatever \cup {"GONE"} /\ seen \in Whatever
    /\ call # NoCall => call.tries \in 1..2 /\ call.made \in 0..2 /\ page # Home

-----------------------------------------------------------------------------
\* Where a page offers what the API refuses

\* The page has not heard of a change: of the object, or of the user's role.
Stale == seen # status \/ shown # call.claims.role

\* Agency pages in the hands of an operator of the platform, who has no company.
Homeless == call.claims.role = "SUPER_ADMIN" /\ RouteOf(call.request).tenancy = "tenant"

\* Buttons and forms that are shown to every role.
ForEveryRole ==
    {contractsApi.sign, contractsApi.create, reservationsApi.create, vehiclesApi.create,
     clientsApi.create, invoicesApi.create, creditsApi.create, maintenanceApi.createRecord,
     maintenanceApi.createSchedule, inspectionsApi.create, stripeApi.checkout}

\* What a user meets at a page: the reasons the code leaves for a refusal.
Explained(answer) ==
    \/ Stale
    \/ Homeless
    \/ answer = "403" /\ call.request \in ForEveryRole
    \/ answer = "400" /\ page \in {"DemoSection", "CompanySettings", "LoginPage", "RegisterPage"}
    \/ answer = "401" /\ call.tries = 1
    \/ answer = "409" /\ call.request = contractsApi.complete /\ status = "OVERDUE"

\* Pages that load what the role, or the lack of a company, does not allow.
Unreadable(p) ==
    \/ shown = "SUPER_ADMIN" /\ \E l \in Pages[p].loads : RouteOf(l.request).tenancy = "tenant"
    \/ p \in {"TeamPage", "CreditsPage", "CreditDetailPage", "PlatformTenantsPage",
              "PlatformTenantDetailPage"}

\* A click that a page offers, or a page that opens, is refused only for the
\* reasons above.
OfferedIsAccepted ==
    [][/\ (call.phase = "sent" /\ call'.phase = "answered" /\ call'.answer \notin {"ok", "lost"})
            => Explained(call'.answer)
       /\ (page = Home /\ page' # Home) => Loads(page') \/ Unreadable(page')]_consoleVars

\* Requests that do the same thing twice when they are served twice.
OneShot ==
    {usersApi.create, vehiclesApi.create, clientsApi.create, reservationsApi.create,
     contractsApi.create, invoicesApi.create, paymentsApi.create, creditsApi.create,
     maintenanceApi.createRecord, maintenanceApi.createSchedule, inspectionsApi.create,
     depositsApi.collect, depositsApi.refundPartial, depositsApi.consume,
     billingApi.recordPayment, platformApi.extendTrial, platformApi.extendSubscription,
     reservationsApi.convertToContract}

\* What one click starts is done once, whatever becomes of tokens and answers.
OneWritePerClick == call # NoCall /\ call.request \in OneShot => call.made <= 1
=============================================================================
