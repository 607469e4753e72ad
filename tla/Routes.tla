------------------------------- MODULE Routes -------------------------------
(***************************************************************************)
(* The routes of the API, one definition per controller, and the guards that *)
(* every request passes: the middleware that finds a tenant, JwtAuthGuard,   *)
(* TenantGuard and RolesGuard, then the tenant a handler asks for, then the  *)
(* ValidationPipe of module Forms.                                           *)
(*                                                                         *)
(* A parameter of a path is written :id, whatever its name in the code.      *)
(***************************************************************************)
EXTENDS Forms, Sequences

Roles == {"SUPER_ADMIN", "ADMIN", "MANAGER", "EMPLOYEE", "ACCOUNTANT"}

\* The roles that @Roles(...) names.
Admin == {"ADMIN"}
Managers == {"ADMIN", "MANAGER"}
Desk == {"ADMIN", "MANAGER", "EMPLOYEE"}
Finance == {"ADMIN", "MANAGER", "ACCOUNTANT"}
Books == {"ADMIN", "ACCOUNTANT"}
Staff == {"ADMIN", "MANAGER", "EMPLOYEE", "ACCOUNTANT"}

\* A handler without @Roles(...).
Anyone == Roles

\* A handler that reads single parameters of the query, or a body without a
\* class: nothing is checked.
Unchecked == Form({}, {}, {"unchecked"})

\* tenancy: "tenant" where the handler asks for @CurrentTenant(), "bound" where
\* only the TenantGuard asks, "free" with @AllowNoTenant(), "public" with
\* @Public(), "own" for the two handlers that look at the user's own tenant.
Route(verb, path, roles, form, tenancy) ==
    [verb |-> verb, path |-> path, roles |-> roles, form |-> form, tenancy |-> tenancy]

Tenant(verb, path, roles, form) == Route(verb, path, roles, form, "tenant")

Platform(verb, path, form) == Route(verb, path, {"SUPER_ADMIN"}, form, "free")

Public(verb, path, form) == Route(verb, path, Anyone, form, "public")

Session(verb, path, form) == Route(verb, path, Anyone, form, "free")

-----------------------------------------------------------------------------
\* Who uses the program

AuthController ==
    {Public("POST", "auth/register", RegisterDto),
     Public("POST", "auth/login", LoginDto),
     Public("POST", "auth/refresh", RefreshTokenDto),
     Route("POST", "auth/logout", Anyone, NoForm, "bound"),
     Session("GET", "auth/me", NoForm),
     Session("PATCH", "auth/me", UpdateProfileDto),
     Session("POST", "auth/change-password", ChangePasswordDto)}

UsersController ==
    {Tenant("GET", "users", Admin, NoForm),
     Tenant("POST", "users", Admin, CreateUserDto),
     Tenant("PATCH", "users/:id", Admin, UpdateUserDto),
     Tenant("DELETE", "users/:id", Admin, NoForm),
     Tenant("POST", "users/:id/restore", Admin, NoForm),
     Tenant("POST", "users/:id/reset-password", Admin, NoForm)}

TenantsController ==
    {Route("GET", "tenants/me", Anyone, NoForm, "own"),
     Route("PATCH", "tenants/me", Admin, UpdateTenantSelfDto, "own")}

\* The webhook asks for the signature of Stripe and has no form.
StripeController ==
    {Tenant("POST", "billing/stripe/checkout", Admin, CreateCheckoutDto),
     Tenant("POST", "billing/stripe/portal", Admin, NoForm),
     Public("POST", "billing/stripe/webhook", Unchecked)}

-----------------------------------------------------------------------------
\* The fleet

VehiclesController ==
    {Tenant("GET", "vehicles", Anyone, ListVehiclesDto),
     Tenant("GET", "vehicles/calendar", Anyone, CalendarQueryDto),
     Tenant("GET", "vehicles/export", Anyone, Unchecked),
     Tenant("GET", "vehicles/:id", Anyone, NoForm),
     Tenant("POST", "vehicles", Managers, CreateVehicleDto),
     Tenant("PATCH", "vehicles/:id", Managers, UpdateVehicleDto),
     Tenant("DELETE", "vehicles/:id", Admin, NoForm)}

VehicleCreditsController ==
    {Tenant("GET", "vehicle-credits", Books, ListCreditsDto),
     Tenant("GET", "vehicle-credits/:id", Books, NoForm),
     Tenant("GET", "vehicle-credits/:id/schedule", Books, NoForm),
     Tenant("POST", "vehicle-credits", Books, CreateCreditDto),
     Tenant("POST", "vehicle-credits/:id/payments/:id", Books, RecordCreditPaymentDto)}

MaintenanceController ==
    {Tenant("GET", "maintenance/records", Anyone, ListMaintenanceRecordsDto),
     Tenant("GET", "maintenance/records/:id", Anyone, NoForm),
     Tenant("POST", "maintenance/records", Managers, CreateMaintenanceRecordDto),
     Tenant("GET", "maintenance/vehicles/:id/cost", Anyone, NoForm),
     Tenant("GET", "maintenance/schedules", Anyone, Unchecked),
     Tenant("POST", "maintenance/schedules", Managers, CreateMaintenanceScheduleDto),
     Tenant("DELETE", "maintenance/schedules/:id", Managers, NoForm)}

InspectionsController ==
    {Tenant("GET", "inspections", Anyone, ListInspectionsDto),
     Tenant("GET", "inspections/:id", Anyone, NoForm),
     Tenant("GET", "inspections/contracts/:id/all", Anyone, NoForm),
     Tenant("POST", "inspections", Desk, CreateInspectionDto),
     Tenant("PATCH", "inspections/:id", Desk, UpdateInspectionDto)}

AlertsController ==
    {Tenant("GET", "alerts", Anyone, Unchecked),
     Tenant("GET", "alerts/summary", Anyone, NoForm),
     Tenant("POST", "alerts/:id/acknowledge", Managers, NoForm),
     Tenant("POST", "alerts/:id/resolve", Managers, NoForm),
     Tenant("POST", "alerts/resync", Managers, NoForm)}

-----------------------------------------------------------------------------
\* The rental and its money

ClientsController ==
    {Tenant("GET", "clients", Anyone, ListClientsDto),
     Tenant("GET", "clients/export", Anyone, Unchecked),
     Tenant("GET", "clients/:id", Anyone, NoForm),
     Tenant("POST", "clients", Desk, CreateClientDto),
     Tenant("PATCH", "clients/:id", Desk, UpdateClientDto),
     Tenant("DELETE", "clients/:id", Managers, NoForm)}

\* The sweep is for every tenant, and asks for none.
ReservationsController ==
    {Tenant("GET", "reservations", Anyone, ListReservationsDto),
     Tenant("GET", "reservations/:id", Anyone, NoForm),
     Tenant("POST", "reservations", Desk, CreateReservationDto),
     Tenant("PATCH", "reservations/:id", Desk, UpdateReservationDto),
     Tenant("PATCH", "reservations/:id/payment-status", Staff, UpdateReservationPaymentStatusDto),
     Tenant("POST", "reservations/:id/cancel", Managers, NoForm),
     Tenant("POST", "reservations/:id/convert-to-contract", Desk,
            ConvertReservationToContractDto),
     Route("POST", "reservations/overdue/sweep", Managers, NoForm, "bound")}

ContractsController ==
    {Tenant("GET", "contracts", Anyone, ListContractsDto),
     Tenant("GET", "contracts/export", Anyone, Unchecked),
     Tenant("GET", "contracts/:id", Anyone, NoForm),
     Tenant("POST", "contracts", Desk, CreateContractDto),
     Tenant("POST", "contracts/:id/complete", Desk, CompleteContractDto),
     Tenant("POST", "contracts/:id/cancel", Managers, NoForm),
     Tenant("POST", "contracts/:id/sign", Desk, SignContractDto),
     Tenant("GET", "contracts/:id/pdf", Anyone, NoForm)}

DepositsController ==
    {Tenant("GET", "deposits", Anyone, Unchecked),
     Tenant("GET", "deposits/:id", Anyone, NoForm),
     Tenant("GET", "deposits/contracts/:id", Anyone, NoForm),
     Tenant("POST", "deposits", Staff, CollectDepositDto),
     Tenant("POST", "deposits/:id/refund-full", Finance, NoForm),
     Tenant("POST", "deposits/:id/refund-partial", Finance, SettleDepositDto),
     Tenant("POST", "deposits/:id/consume", Finance, SettleDepositDto)}

InvoicesController ==
    {Tenant("GET", "invoices", Anyone, ListInvoicesDto),
     Tenant("GET", "invoices/export", Anyone, Unchecked),
     Tenant("GET", "invoices/:id", Anyone, NoForm),
     Tenant("POST", "invoices", Finance, CreateInvoiceDto)}

PaymentsController ==
    {Tenant("GET", "payments", Anyone, ListPaymentsDto),
     Tenant("GET", "payments/:id", Anyone, NoForm),
     Tenant("POST", "payments", Staff, CreatePaymentDto)}

-----------------------------------------------------------------------------
\* What every page shows, and what is kept beside the tables

AnalyticsController ==
    {Tenant("GET", "analytics/" \o s, Anyone, Unchecked) :
        s \in {"dashboard", "revenue", "reservations/series", "fleet/performance", "clients/top"}}
    \cup
    {Tenant("GET", "analytics/exports/" \o s, Finance, NoForm) :
        s \in {"contracts.csv", "invoices.csv", "payments.csv"}}

DashboardController == {Tenant("GET", "dashboard/badges", Anyone, NoForm)}

NotificationsController ==
    {Tenant("GET", "notifications", Anyone, Unchecked),
     Tenant("GET", "notifications/summary", Anyone, NoForm),
     Tenant("POST", "notifications/:id/read", Anyone, NoForm),
     Tenant("POST", "notifications/read-all", Anyone, NoForm)}

UploadsController == {Tenant("POST", "uploads", Anyone, Unchecked)}

ArchiveController ==
    {Tenant("GET", "archive/:entity", Managers, NoForm),
     Tenant("DELETE", "archive/:entity/:id", Managers, NoForm),
     Tenant("POST", "archive/:entity/:id/restore", Managers, NoForm)}

HealthController == {Public("GET", "health", NoForm), Public("GET", "health/live", NoForm)}

-----------------------------------------------------------------------------
\* The operator of the platform

\* The body of an offer's new status has no class.
LeadsController ==
    {Public("POST", "leads/demo", CreateDemoRequestDto),
     Public("POST", "leads/contact", CreateDemoRequestDto),
     Platform("GET", "leads", Unchecked),
     Platform("GET", "leads/stats", NoForm),
     Platform("PATCH", "leads/:id/status", Unchecked)}

PlatformController ==
    {Platform("GET", "platform/metrics", NoForm),
     Platform("GET", "platform/tenants", ListTenantsDto),
     Platform("GET", "platform/tenants/:id", NoForm),
     Platform("PATCH", "platform/tenants/:id", UpdateTenantPlatformDto),
     Platform("POST", "platform/tenants/:id/suspend", SuspendTenantDto),
     Platform("POST", "platform/tenants/:id/activate", NoForm),
     Platform("POST", "platform/tenants/:id/cancel", SuspendTenantDto),
     Platform("POST", "platform/tenants/:id/extend-trial", ExtendTrialDto),
     Platform("POST", "platform/tenants/:id/extend-subscription", ExtendSubscriptionDto),
     Platform("DELETE", "platform/tenants/:id", NoForm),
     Platform("POST", "platform/tenants/:id/impersonate", NoForm),
     Platform("POST", "platform/sweep-expiries", NoForm),
     Platform("GET", "platform/audit-logs", Unchecked)}

BillingController ==
    {Platform("GET", "platform/billing/" \o s, Unchecked) :
        s \in {"plans", "summary", "payments", "payments/:id", "invoices", "invoices/:id/pdf",
               "receipts", "receipts/:id/pdf"}}
    \cup {Platform("POST", "platform/billing/pay/:id", RecordSubscriptionPaymentDto)}

MailController ==
    {Platform("POST", "platform/system/email/test", TestEmailDto),
     Platform("GET", "platform/system/email/logs", Unchecked),
     Platform("GET", "platform/system/email/stats", NoForm)}

BackupController ==
    {Platform("GET", "platform/system/backups" \o s, Unchecked) : s \in {"", "/summary", "/log"}}
    \cup
    {Platform("POST", "platform/system/backups/" \o s, NoForm) :
        s \in {"run", "run/:id", "restore/database/:id", "restore/files/:id"}}

AppModule ==
    UNION {AuthController, UsersController, TenantsController, StripeController,
           VehiclesController, VehicleCreditsController, MaintenanceController,
           InspectionsController, AlertsController, ClientsController,
           ReservationsController, ContractsController, DepositsController,
           InvoicesController, PaymentsController, AnalyticsController, DashboardController,
           NotificationsController, UploadsController, ArchiveController, HealthController,
           LeadsController, PlatformController, BillingController, MailController,
           BackupController}

-----------------------------------------------------------------------------
\* The guards.  claims is what the access token of a request says, with the role
\* "none" when there is no valid one; no tenant is "none".

NoClaims == [role |-> "none", tenant |-> "none"]

\* The subdomain, the last resort of the middleware, is left out: the web
\* application calls its own host, which forwards to the API.
ContextTenant(claims, header) == IF claims.tenant # "none" THEN claims.tenant ELSE header

JwtAuthGuard(route, claims) == route.tenancy = "public" \/ claims # NoClaims

TenantGuard(route, claims, header) ==
    \/ route.tenancy = "public"
    \/ claims.role = "SUPER_ADMIN"
    \/ claims.tenant = "none" /\ route.tenancy = "free"
    \/ claims.tenant # "none" /\ ContextTenant(claims, header) \in {"none", claims.tenant}

RolesGuard(route, claims) ==
    \/ route.tenancy = "public"
    \/ claims.role \in route.roles \cup {"SUPER_ADMIN"}

\* Where a request is served: @CurrentTenant(), and the tenant of the user in
\* the two handlers that look at it.
TenantOf(route, claims, header) ==
    IF route.tenancy = "own" THEN claims.tenant ELSE ContextTenant(claims, header)

\* What a request is answered before its handler runs.
Admission(route, claims, header, body) ==
    CASE ~JwtAuthGuard(route, claims) -> "401"
      [] ~TenantGuard(route, claims, header) -> "403"
      [] ~RolesGuard(route, claims) -> "403"
      [] route.tenancy = "tenant" /\ TenantOf(route, claims, header) = "none" -> "401"
      [] ~(route.form = Unchecked \/ Fits(route.form, body)) -> "400"
      [] route.tenancy = "own" /\ claims.tenant = "none" ->
            IF route.verb = "GET" THEN "404" ELSE "403"
      [] OTHER -> "pass"
=============================================================================
