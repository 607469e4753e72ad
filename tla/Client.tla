------------------------------- MODULE Client -------------------------------
(***************************************************************************)
(* The API client of the web application (lib/resources.ts): one record per  *)
(* object of functions, one field per function, and what the function asks   *)
(* the API for.  A parameter of a path is written :id, as in module Routes.  *)
(* The functions without a caller are part of the objects.                   *)
(***************************************************************************)
EXTENDS Naturals

\* by: "fetch" is apiFetch, which refreshes the session when it is answered
\* 401; "plain" are uploadFile and downloadFile, which do not; "login" is
\* apiFetch with skipAuth.
Request(verb, path, by) == [verb |-> verb, path |-> path, by |-> by]

Get(path) == Request("GET", path, "fetch")
Post(path) == Request("POST", path, "fetch")
Patch(path) == Request("PATCH", path, "fetch")
Delete(path) == Request("DELETE", path, "fetch")

\* uploadFile and downloadFile
Upload == Request("POST", "uploads", "plain")
Download(path) == Request("GET", path, "plain")

authApi ==
    [login |-> Request("POST", "auth/login", "login"),
     register |-> Post("auth/register"),
     logout |-> Post("auth/logout"),
     me |-> Get("auth/me"),
     updateMe |-> Patch("auth/me"),
     changePassword |-> Post("auth/change-password")]

usersApi ==
    [list |-> Get("users"),
     create |-> Post("users"),
     update |-> Patch("users/:id"),
     delete |-> Delete("users/:id"),
     restore |-> Post("users/:id/restore"),
     resetPassword |-> Post("users/:id/reset-password")]

billingApi ==
    [plans |-> Get("platform/billing/plans"),
     summary |-> Get("platform/billing/summary"),
     payments |-> Get("platform/billing/payments"),
     tenantPayments |-> Get("platform/billing/payments/:id"),
     recordPayment |-> Post("platform/billing/pay/:id"),
     invoices |-> Get("platform/billing/invoices"),
     invoicePdf |-> Download("platform/billing/invoices/:id/pdf"),
     receipts |-> Get("platform/billing/receipts"),
     receiptPdf |-> Download("platform/billing/receipts/:id/pdf")]

archiveApi ==
    [listDeleted |-> Get("archive/:entity"),
     softDelete |-> Delete("archive/:entity/:id"),
     restore |-> Post("archive/:entity/:id/restore")]

systemApi ==
    [backupSummary |-> Get("platform/system/backups/summary"),
     backupList |-> Get("platform/system/backups"),
     backupLog |-> Get("platform/system/backups/log"),
     runFullBackup |-> Post("platform/system/backups/run"),
     runCategoryBackup |-> Post("platform/system/backups/run/:id"),
     restoreDatabase |-> Post("platform/system/backups/restore/database/:id"),
     emailStats |-> Get("platform/system/email/stats"),
     emailLogs |-> Get("platform/system/email/logs"),
     sendTestEmail |-> Post("platform/system/email/test")]

tenantSelfApi == [get |-> Get("tenants/me"), update |-> Patch("tenants/me")]

vehiclesApi ==
    [list |-> Get("vehicles"),
     get |-> Get("vehicles/:id"),
     create |-> Post("vehicles"),
     update |-> Patch("vehicles/:id"),
     delete |-> Delete("vehicles/:id")]

clientsApi ==
    [list |-> Get("clients"),
     get |-> Get("clients/:id"),
     create |-> Post("clients"),
     update |-> Patch("clients/:id"),
     delete |-> Delete("clients/:id")]

reservationsApi ==
    [list |-> Get("reservations"),
     get |-> Get("reservations/:id"),
     create |-> Post("reservations"),
     cancel |-> Post("reservations/:id/cancel"),
     updatePaymentStatus |-> Patch("reservations/:id/payment-status"),
     convertToContract |-> Post("reservations/:id/convert-to-contract"),
     sweepOverdue |-> Post("reservations/overdue/sweep")]

contractsApi ==
    [list |-> Get("contracts"),
     get |-> Get("contracts/:id"),
     create |-> Post("contracts"),
     complete |-> Post("contracts/:id/complete"),
     cancel |-> Post("contracts/:id/cancel"),
     sign |-> Post("contracts/:id/sign"),
     pdf |-> Download("contracts/:id/pdf")]

stripeApi ==
    [checkout |-> Post("billing/stripe/checkout"),
     portal |-> Post("billing/stripe/portal")]

paymentsApi ==
    [list |-> Get("payments"), get |-> Get("payments/:id"), create |-> Post("payments")]

invoicesApi ==
    [list |-> Get("invoices"), get |-> Get("invoices/:id"), create |-> Post("invoices")]

creditsApi ==
    [list |-> Get("vehicle-credits"),
     get |-> Get("vehicle-credits/:id"),
     schedule |-> Get("vehicle-credits/:id/schedule"),
     create |-> Post("vehicle-credits"),
     recordPayment |-> Post("vehicle-credits/:id/payments/:id")]

maintenanceApi ==
    [listRecords |-> Get("maintenance/records"),
     getRecord |-> Get("maintenance/records/:id"),
     createRecord |-> Post("maintenance/records"),
     listSchedules |-> Get("maintenance/schedules"),
     createSchedule |-> Post("maintenance/schedules"),
     cancelSchedule |-> Delete("maintenance/schedules/:id"),
     vehicleCost |-> Get("maintenance/vehicles/:id/cost")]

alertsApi ==
    [list |-> Get("alerts"),
     summary |-> Get("alerts/summary"),
     acknowledge |-> Post("alerts/:id/acknowledge"),
     resolve |-> Post("alerts/:id/resolve"),
     resync |-> Post("alerts/resync")]

notificationsApi ==
    [list |-> Get("notifications"),
     summary |-> Get("notifications/summary"),
     markRead |-> Post("notifications/:id/read"),
     markAllRead |-> Post("notifications/read-all")]

analyticsApi ==
    [dashboard |-> Get("analytics/dashboard"),
     revenue |-> Get("analytics/revenue"),
     fleetPerformance |-> Get("analytics/fleet/performance"),
     topClients |-> Get("analytics/clients/top"),
     reservationsSeries |-> Get("analytics/reservations/series"),
     exportContracts |-> Download("analytics/exports/contracts.csv"),
     exportInvoices |-> Download("analytics/exports/invoices.csv"),
     exportPayments |-> Download("analytics/exports/payments.csv")]

platformApi ==
    [metrics |-> Get("platform/metrics"),
     createTenant |-> authApi.register,
     listTenants |-> Get("platform/tenants"),
     getTenant |-> Get("platform/tenants/:id"),
     updateTenant |-> Patch("platform/tenants/:id"),
     suspend |-> Post("platform/tenants/:id/suspend"),
     activate |-> Post("platform/tenants/:id/activate"),
     cancel |-> Post("platform/tenants/:id/cancel"),
     extendTrial |-> Post("platform/tenants/:id/extend-trial"),
     extendSubscription |-> Post("platform/tenants/:id/extend-subscription"),
     softDelete |-> Delete("platform/tenants/:id"),
     sweepExpiries |-> Post("platform/sweep-expiries"),
     impersonate |-> Post("platform/tenants/:id/impersonate"),
     auditLogs |-> Get("platform/audit-logs")]

dashboardApi == [badges |-> Get("dashboard/badges")]

calendarApi == [list |-> Get("vehicles/calendar")]

inspectionsApi ==
    [list |-> Get("inspections"),
     get |-> Get("inspections/:id"),
     forContract |-> Get("inspections/contracts/:id/all"),
     create |-> Post("inspections"),
     update |-> Patch("inspections/:id")]

depositsApi ==
    [list |-> Get("deposits"),
     get |-> Get("deposits/:id"),
     forContract |-> Get("deposits/contracts/:id"),
     collect |-> Post("deposits"),
     refundFull |-> Post("deposits/:id/refund-full"),
     refundPartial |-> Post("deposits/:id/refund-partial"),
     consume |-> Post("deposits/:id/consume")]
=============================================================================
