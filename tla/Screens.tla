------------------------------- MODULE Screens -------------------------------
(***************************************************************************)
(* The pages of the web application: what each one asks the API for when it  *)
(* opens, what it lets the user do next, to whom it offers that and for      *)
(* which status of the object it shows.  Layout, texts and the client's own  *)
(* filters are left out.                                                     *)
(***************************************************************************)
EXTENDS Client, FiniteSets

\* What a form sends: the fields that always hold a value, the optional ones
\* that are left out when they are empty (x || undefined), and the optional ones
\* that are sent as they are, the empty text included.
Fields(sent, omitted, blank) == [sent |-> sent, omitted |-> omitted, blank |-> blank]

Nothing == Fields({}, {}, {})

\* Whatever status the page shows, "nothing" included: it has not loaded it.
Whatever ==
    {"nothing", "LIVE", "ACTIVE", "COMPLETED", "CANCELLED", "PENDING", "CONFIRMED", "OVERDUE",
     "CONVERTED", "NONE", "HELD", "PARTIAL_REFUND", "REFUNDED", "CONSUMED", "OPEN", "ACKNOWLEDGED",
     "RESOLVED", "TRIAL", "SUSPENDED", "EXPIRED", "INVITED"}

Shown == Whatever \ {"nothing"}

Everyone == {"SUPER_ADMIN", "ADMIN", "MANAGER", "EMPLOYEE", "ACCOUNTANT"}

\* Whoever is not signed in, too.
Visitors == Everyone \cup {"none"}

\* hasRole lets a SUPER_ADMIN through whatever roles it is given.
Has(roles) == roles \cup {"SUPER_ADMIN"}

canManage == Has({"ADMIN", "MANAGER", "EMPLOYEE"})
canCancel == Has({"ADMIN", "MANAGER"})
canSettle == Has({"ADMIN", "MANAGER", "ACCOUNTANT"})
isAdmin == Has({"ADMIN"})
Operator == {"SUPER_ADMIN"}

Load(request, fields) == [request |-> request, fields |-> fields]

\* busy: the button is disabled until the answer is there.
Button(request, fields, to, when) ==
    [request |-> request, fields |-> fields, to |-> to, when |-> when, busy |-> TRUE]

\* The form of a page that creates something: offered to every role.
Submit(request, fields) == Button(request, fields, Everyone, Whatever)

\* A control that stays enabled while its request runs.
Control(request, fields, to, when) == [Button(request, fields, to, when) EXCEPT !.busy = FALSE]

\* What is shown is one object of a kind; gate is who the page lets in.
Page(kind, gate, loads, acts) == [kind |-> kind, gate |-> gate, loads |-> loads, acts |-> acts]

\* A list that is searched and sorted by the server.
ListPage(request, acts) ==
    Page("none", Everyone,
         {Load(request, Fields({"pageSize", "sortBy", "sortDir"}, {"search"}, {}))}, acts)

\* ExportButtons, whose failure shows nothing.
ExportButtons(path) == Button(Download(path), Nothing, Everyone, Shown)

-----------------------------------------------------------------------------
\* Contracts, with the deposit and the inspections on the same page

ContractsPage == ListPage(contractsApi.list, {ExportButtons("contracts/export")})

\* The picture of the signature is uploaded before it is registered.
SignatureModal ==
    {Button(Upload, Nothing, Everyone, Shown \ {"CANCELLED"}),
     Button(contractsApi.sign, Fields({"signatureUrl"}, {}, {}), Everyone, Shown \ {"CANCELLED"})}

ContractDetailPage ==
    LET isOpen == Shown \ {"COMPLETED", "CANCELLED"} IN
    Page("contract", Everyone,
         {Load(contractsApi.get, Nothing), Load(depositsApi.forContract, Nothing),
          Load(inspectionsApi.forContract, Nothing), Load(clientsApi.get, Nothing),
          Load(vehiclesApi.get, Nothing)},
         SignatureModal \cup
         {Button(contractsApi.pdf, Nothing, Everyone, Shown),
          Button(contractsApi.complete, Fields({"kmEnd"}, {"extraCharges"}, {}), canManage, isOpen),
          Button(contractsApi.cancel, Nothing, canCancel, isOpen)})

\* The dialogs of the deposit of the contract.
DepositCard ==
    LET isHeld == {"HELD", "PARTIAL_REFUND"} IN
    Page("deposit", Everyone, {Load(depositsApi.forContract, Nothing)},
         {Button(depositsApi.collect, Fields({"contractId", "amount", "method"}, {}, {}),
                 canSettle, {"NONE"}),
          Button(depositsApi.refundFull, Nothing, canSettle, isHeld),
          Button(depositsApi.refundPartial, Fields({"amount"}, {}, {}), canSettle, isHeld),
          Button(depositsApi.consume, Fields({"amount"}, {}, {}), canSettle, isHeld)})

NewContractPage ==
    Page("none", Everyone,
         {Load(vehiclesApi.list, Fields({"pageSize", "status"}, {}, {})),
          Load(clientsApi.list, Fields({"pageSize"}, {}, {}))},
         {Submit(contractsApi.create,
                 Fields({"vehicleId", "clientId", "startDate", "endDate", "kmStart"},
                        {"kmAllowance", "dailyRate", "depositAmount", "depositMethod",
                         "depositReference", "discountAmount", "pickupLocation",
                         "returnLocation", "additionalDriver", "additionalDriverLicense",
                         "notes"}, {}))})

-----------------------------------------------------------------------------
\* Reservations

ReservationsPage == ListPage(reservationsApi.list, {})

ReservationDetailPage ==
    LET isOpen == Shown \ {"CANCELLED", "CONVERTED", "COMPLETED"} IN
    Page("reservation", Everyone,
         {Load(reservationsApi.get, Nothing), Load(clientsApi.get, Nothing),
          Load(vehiclesApi.get, Nothing)},
         {Button(reservationsApi.updatePaymentStatus, Fields({"paymentStatus"}, {}, {}),
                 canManage, Shown),
          Button(reservationsApi.convertToContract,
                 Fields({"kmStart"}, {"depositAmount", "depositMethod"}, {}), canManage, isOpen),
          Button(reservationsApi.cancel, Nothing, canCancel, isOpen)})

NewReservationPage ==
    Page("none", Everyone,
         {Load(vehiclesApi.list, Fields({"pageSize", "status"}, {}, {})),
          Load(clientsApi.list, Fields({"pageSize"}, {}, {}))},
         {Submit(reservationsApi.create,
                 Fields({"vehicleId", "clientId", "startDate", "endDate"},
                        {"pickupLocation", "returnLocation", "dailyRate", "source",
                         "paymentStatus", "notes"}, {}))})

CalendarPage ==
    Page("none", Everyone,
         {Load(vehiclesApi.list, Fields({"pageSize"}, {}, {})),
          Load(calendarApi.list, Fields({"from", "to"}, {"vehicleId"}, {}))}, {})

-----------------------------------------------------------------------------
\* Vehicles and clients

VehiclesPage == ListPage(vehiclesApi.list, {ExportButtons("vehicles/export")})

vehicleFields ==
    Fields({"registration", "brand", "model", "year", "dailyRate", "transmission", "fuel"},
           {"color", "category", "seats", "currentKm", "weeklyRate", "monthlyRate",
            "insuranceExpiry", "technicalVisitExpiry", "photos", "notes"}, {})

\* ImageUploader sends each picture when it is picked.
ImageUploader == Button(Upload, Nothing, Everyone, Shown)

\* The form sends back every field as it was read, the status and the mileage
\* included.
EditVehiclePage ==
    Page("vehicle", Everyone, {Load(vehiclesApi.get, Nothing)},
         {Button(vehiclesApi.update,
                 Fields(vehicleFields.sent \cup {"status", "photos"},
                        (vehicleFields.omitted \ {"photos"}) \cup {"vignetteExpiry"}, {}),
                 Has({"ADMIN", "MANAGER"}), Shown),
          Button(vehiclesApi.delete, Nothing, isAdmin, Shown),
          ImageUploader})

NewVehiclePage ==
    Page("none", Everyone, {},
         {Submit(vehiclesApi.create, vehicleFields), [ImageUploader EXCEPT !.when = Whatever]})

ClientsPage == ListPage(clientsApi.list, {ExportButtons("clients/export")})

clientFields ==
    Fields({"fullName", "idNumber", "type", "segment"},
           {"companyName", "idType", "licenseNumber", "licenseExpiry", "phone", "email",
            "addressLine1", "city", "country", "notes"}, {})

EditClientPage ==
    Page("client", Everyone, {Load(clientsApi.get, Nothing)},
         {Button(clientsApi.update, clientFields, canManage, Shown),
          Control(clientsApi.update, Fields({"blacklisted"}, {"blacklistReason"}, {}),
                  canCancel, Shown),
          Button(clientsApi.delete, Nothing, canCancel, Shown)})

NewClientPage == Page("none", Everyone, {}, {Submit(clientsApi.create, clientFields)})

-----------------------------------------------------------------------------
\* Invoices, payments, credits

InvoicesPage == ListPage(invoicesApi.list, {ExportButtons("invoices/export")})

NewInvoicePage ==
    Page("none", Everyone,
         {Load(clientsApi.list, Fields({"pageSize"}, {}, {})),
          Load(contractsApi.list, Fields({"pageSize"}, {}, {}))},
         {Submit(invoicesApi.create,
                 Fields({"clientId", "lineItems", "taxRate"}, {"contractId", "dueDate", "notes"},
                        {}))})

PaymentsPage == ListPage(paymentsApi.list, {})

NewPaymentPage ==
    Page("none", Everyone,
         {Load(clientsApi.list, Fields({"pageSize"}, {}, {})),
          Load(contractsApi.list, Fields({"pageSize", "status"}, {}, {})),
          Load(invoicesApi.list, Fields({"pageSize"}, {}, {}))},
         {Submit(paymentsApi.create,
                 Fields({"clientId", "amount", "method"},
                        {"contractId", "invoiceId", "reference", "paidAt", "notes"}, {}))})

CreditsPage ==
    Page("none", Everyone,
         {Load(creditsApi.list, Fields({"pageSize", "sortBy", "sortDir"}, {}, {}))}, {})

CreditDetailPage ==
    Page("none", Everyone,
         {Load(creditsApi.get, Nothing), Load(creditsApi.schedule, Nothing)}, {})

NewCreditPage ==
    Page("none", Everyone, {Load(vehiclesApi.list, Fields({"pageSize"}, {}, {}))},
         {Submit(creditsApi.create,
                 Fields({"vehicleId", "bankName", "principal", "downPayment", "interestRate",
                         "termMonths", "startDate", "creditType"},
                        {"accountNumber", "residualValue", "notes"}, {}))})

-----------------------------------------------------------------------------
\* Maintenance, inspections, alerts

MaintenancePage ==
    Page("none", Everyone,
         {Load(maintenanceApi.listRecords, Fields({"pageSize"}, {}, {})),
          Load(maintenanceApi.listSchedules, Nothing)}, {})

NewMaintenancePage ==
    Page("none", Everyone, {Load(vehiclesApi.list, Fields({"pageSize"}, {}, {}))},
         {Submit(maintenanceApi.createRecord,
                 Fields({"vehicleId", "type", "title"},
                        {"description", "performedAt", "km", "cost", "garage", "reference",
                         "notes"}, {})),
          Submit(maintenanceApi.createSchedule,
                 Fields({"vehicleId", "type", "title", "isCritical"},
                        {"description", "dueDate", "dueKm", "notes"}, {}))})

InspectionsPage ==
    Page("none", Everyone,
         {Load(inspectionsApi.list, Fields({"pageSize", "sortBy", "sortDir"}, {}, {}))}, {})

InspectionDetailPage == Page("none", Everyone, {Load(inspectionsApi.get, Nothing)}, {})

NewInspectionPage ==
    Page("none", Everyone, {Load(contractsApi.list, Fields({"pageSize"}, {}, {}))},
         {Submit(inspectionsApi.create,
                 Fields({"contractId", "type", "km"},
                        {"fuelLevel", "condition", "damages", "photos", "agentName",
                         "signatureUrl", "notes"}, {})),
          [ImageUploader EXCEPT !.when = Whatever]})

\* One flag disables the two buttons of the alert that is being treated.
AlertsPage ==
    Page("alert", Everyone, {Load(alertsApi.list, Nothing), Load(alertsApi.summary, Nothing)},
         {Button(alertsApi.acknowledge, Nothing, canCancel, {"OPEN"}),
          Button(alertsApi.resolve, Nothing, canCancel, Shown \ {"RESOLVED"}),
          Button(alertsApi.resync, Nothing, canCancel, Shown)})

-----------------------------------------------------------------------------
\* Figures

DashboardPage ==
    Page("none", Everyone,
         {Load(analyticsApi.dashboard, Nothing), Load(alertsApi.list, Nothing),
          Load(analyticsApi.revenue, Nothing), Load(analyticsApi.reservationsSeries, Nothing),
          Load(analyticsApi.fleetPerformance, Nothing),
          Load(vehiclesApi.list, Fields({"pageSize"}, {}, {}))}, {})

ReportsPage ==
    Page("none", Everyone,
         {Load(analyticsApi.revenue, Nothing), Load(analyticsApi.fleetPerformance, Nothing),
          Load(analyticsApi.topClients, Nothing)},
         {Button(r, Nothing, canSettle, Shown) :
            r \in {analyticsApi.exportContracts, analyticsApi.exportInvoices,
                   analyticsApi.exportPayments}})

-----------------------------------------------------------------------------
\* The account, the company and its team

\* The page of a team can be opened by every role; one row of it is another user.
TeamPage ==
    Page("user", Everyone, {Load(usersApi.list, Nothing)},
         {Button(usersApi.create, Fields({"email", "firstName", "lastName", "role"}, {}, {}),
                 isAdmin, Whatever),
          Control(usersApi.update, Fields({"role"}, {}, {}), isAdmin, Shown),
          Control(usersApi.update, Fields({"status"}, {}, {}), isAdmin, Shown),
          Control(usersApi.resetPassword, Nothing, isAdmin, Shown),
          Button(usersApi.delete, Nothing, isAdmin, Shown)})

SettingsPage ==
    Page("none", Everyone, {},
         {Button(authApi.updateMe, Fields({"firstName", "lastName"}, {}, {}), Everyone, Shown),
          Button(authApi.changePassword, Fields({"currentPassword", "newPassword"}, {}, {}),
                 Everyone, Shown)})

\* The form sends the texts as they are.  The logo it sends is the link that the
\* upload returned, a value of another kind than the DTO asks for.
CompanySettings ==
    LET texts == {"phone", "billingEmail", "address", "city", "website", "taxId", "ice", "rc",
                  "patente", "cnss", "bankName", "bankRib"}
    IN Page("none", Everyone, {},
            {Button(Upload, Nothing, {"ADMIN"}, Shown),
             Button(tenantSelfApi.update, Fields({}, {"name"}, texts), {"ADMIN"}, Shown),
             Button(tenantSelfApi.update, Fields({"logoUrl (link)"}, {"name"}, texts),
                    {"ADMIN"}, Shown),
             Button(tenantSelfApi.update, Fields({}, {}, {"logoUrl"}), {"ADMIN"}, Shown)})

\* A SUPER_ADMIN has no company.  The profile never holds a Stripe customer, so
\* that the button of the portal is never there.
BillingSettings ==
    Page("none", Everyone, {},
         {Button(stripeApi.checkout, Fields({"plan", "period"}, {}, {}),
                 Everyone \ Operator, Shown)})

\* The two forms of the public page.
DemoSection ==
    Page("none", Visitors, {},
         {Button(Request("POST", "leads/demo", "plain"),
                 Fields({"fullName", "email"}, {},
                        {"phone", "companyName", "preferredDate", "message"}),
                 Visitors, Whatever)})

ContactSection ==
    Page("none", Visitors, {},
         {Button(Request("POST", "leads/contact", "plain"),
                 Fields({"fullName", "email"}, {}, {"message"}), Visitors, Whatever)})

\* RedirectIfAuthenticated.  The two forms switch the validation of the browser
\* off (noValidate): what they need is sent when it is empty, too.
SignedOut == {"none"}

LoginPage ==
    Page("none", SignedOut, {},
         {Button(authApi.login, Fields({}, {}, {"email", "password"}), SignedOut, Whatever)})

\* The slug is made of the name of the company, or is "company".
RegisterPage ==
    Page("none", SignedOut, {},
         {Button(authApi.register,
                 Fields({"companySlug"}, {},
                        {"companyName", "firstName", "lastName", "email", "password"}),
                 SignedOut, Whatever)})

-----------------------------------------------------------------------------
\* The platform

PlatformDashboardPage ==
    Page("none", Operator, {Load(platformApi.metrics, Nothing)},
         {Button(platformApi.sweepExpiries, Nothing, Operator, Shown)})

PlatformTenantsPage ==
    Page("none", Everyone,
         {Load(platformApi.listTenants, Fields({"pageSize"}, {"status", "plan", "q"}, {}))}, {})

PlatformAuditPage == Page("none", Operator, {Load(platformApi.auditLogs, Nothing)}, {})

PlatformBillingPage ==
    Page("none", Operator,
         {Load(platformApi.listTenants, Fields({"pageSize"}, {}, {}))} \cup
         {Load(r, Nothing) : r \in {billingApi.plans, billingApi.summary, billingApi.payments,
                                    billingApi.invoices, billingApi.receipts}},
         {Button(billingApi.recordPayment,
                 Fields({"plan", "period", "amount", "method"}, {"reference"}, {}),
                 Operator, Shown),
          Control(billingApi.invoicePdf, Nothing, Operator, Shown),
          Control(billingApi.receiptPdf, Nothing, Operator, Shown)})

SystemBackupsPage ==
    Page("none", Operator,
         {Load(r, Nothing) : r \in {systemApi.backupSummary, systemApi.backupList,
                                    systemApi.backupLog}},
         {Button(r, Nothing, Operator, Shown) :
            r \in {systemApi.runFullBackup, systemApi.runCategoryBackup,
                   systemApi.restoreDatabase}})

\* What changes the status of a company.
tenantActions ==
    LET isOpen == Shown \ {"CANCELLED"} IN
    {Button(platformApi.activate, Nothing, Everyone, Shown \ {"ACTIVE"}),
     Button(platformApi.suspend, Fields({}, {"reason"}, {}), Everyone, {"ACTIVE", "TRIAL"}),
     Button(platformApi.cancel, Fields({}, {"reason"}, {}), Everyone, isOpen),
     Button(platformApi.impersonate, Nothing, Everyone, isOpen),
     Button(platformApi.extendTrial, Fields({"days"}, {}, {}), Everyone, {"TRIAL"}),
     Button(platformApi.extendSubscription, Fields({"days"}, {}, {}), Everyone,
            {"ACTIVE", "EXPIRED", "SUSPENDED"}),
     Button(platformApi.extendSubscription, Fields({"newEndDate"}, {}, {}), Everyone,
            {"ACTIVE", "EXPIRED", "SUSPENDED"}),
     Button(platformApi.softDelete, Nothing, Everyone, Shown)}

\* No role is asked for: whoever opens it has what it loads refused.
PlatformTenantDetailPage ==
    Page("tenant", Everyone, {Load(platformApi.getTenant, Nothing)},
         tenantActions \cup
         {Button(platformApi.updateTenant,
                 Fields({}, {"plan", "billingEmail", "subscriptionEnd", "logoUrl"},
                        {"phone", "address", "city", "website", "ice", "rc", "taxId", "patente",
                         "cnss", "bankName", "bankRib"}), Everyone, Shown),
          Button(platformApi.updateTenant, Fields({}, {}, {"logoUrl"}), Everyone, Shown)})

-----------------------------------------------------------------------------
\* What stands around every page of a signed-in user

NotificationsBell ==
    Page("none", Everyone,
         {Load(notificationsApi.list, Nothing), Load(notificationsApi.summary, Nothing)},
         {Control(notificationsApi.markRead, Nothing, Everyone, Shown),
          Button(notificationsApi.markAllRead, Nothing, Everyone, Shown)})

BadgesProvider == Page("none", Everyone, {Load(dashboardApi.badges, Nothing)}, {})

Pages ==
    [ContractsPage |-> ContractsPage, ContractDetailPage |-> ContractDetailPage,
     DepositCard |-> DepositCard, NewContractPage |-> NewContractPage,
     ReservationsPage |-> ReservationsPage,
     ReservationDetailPage |-> ReservationDetailPage,
     NewReservationPage |-> NewReservationPage, CalendarPage |-> CalendarPage,
     VehiclesPage |-> VehiclesPage, EditVehiclePage |-> EditVehiclePage,
     NewVehiclePage |-> NewVehiclePage, ClientsPage |-> ClientsPage,
     EditClientPage |-> EditClientPage, NewClientPage |-> NewClientPage,
     InvoicesPage |-> InvoicesPage, NewInvoicePage |-> NewInvoicePage,
     PaymentsPage |-> PaymentsPage, NewPaymentPage |-> NewPaymentPage,
     CreditsPage |-> CreditsPage, CreditDetailPage |-> CreditDetailPage,
     NewCreditPage |-> NewCreditPage, MaintenancePage |-> MaintenancePage,
     NewMaintenancePage |-> NewMaintenancePage, InspectionsPage |-> InspectionsPage,
     InspectionDetailPage |-> InspectionDetailPage,
     NewInspectionPage |-> NewInspectionPage, AlertsPage |-> AlertsPage,
     DashboardPage |-> DashboardPage, ReportsPage |-> ReportsPage, TeamPage |-> TeamPage,
     SettingsPage |-> SettingsPage, CompanySettings |-> CompanySettings,
     BillingSettings |-> BillingSettings, LoginPage |-> LoginPage,
     RegisterPage |-> RegisterPage, DemoSection |-> DemoSection,
     ContactSection |-> ContactSection, PlatformDashboardPage |-> PlatformDashboardPage,
     PlatformTenantsPage |-> PlatformTenantsPage, PlatformAuditPage |-> PlatformAuditPage,
     PlatformBillingPage |-> PlatformBillingPage, SystemBackupsPage |-> SystemBackupsPage,
     PlatformTenantDetailPage |-> PlatformTenantDetailPage,
     NotificationsBell |-> NotificationsBell, BadgesProvider |-> BadgesProvider]
=============================================================================
