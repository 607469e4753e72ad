------------------------------- MODULE Forms -------------------------------
(***************************************************************************)
(* What the API accepts as the body or the query of a request: the DTO       *)
(* classes that the global ValidationPipe checks.  It runs with whitelist    *)
(* and forbidNonWhitelisted, so that a field the DTO does not name answers   *)
(* 400, like a required field that is missing.  Of the validators on the     *)
(* value of a field only one matters here: whether it lets the empty text    *)
(* pass, which is what an input holds that the user leaves alone.  The       *)
(* length and the range of a value are left out.                             *)
(***************************************************************************)
EXTENDS FiniteSets

\* required: must be there; picky: optional, refuse the empty text (dates,
\* e-mails, enums, numbers, ids); loose: optional, plain text.
Form(required, picky, loose) ==
    [required |-> required, picky |-> picky, loose |-> loose]

\* A body: the fields that hold a value, and those that hold the empty text.
Body(filled, blank) == [filled |-> filled, blank |-> blank]

NoForm == Form({}, {}, {})

\* The ValidationPipe.  No required field of this API may be empty but for a few
\* texts without a minimal length, which the pages require themselves.
Fits(form, body) ==
    /\ form.required \subseteq body.filled
    /\ body.filled \cup body.blank \subseteq form.required \cup form.picky \cup form.loose
    /\ body.blank \subseteq form.loose

\* PartialType makes every field optional; the picky ones stay picky.
Partial(form) == Form({}, form.required \cup form.picky, form.loose)

\* extends
Extended(form, more) ==
    Form(form.required \cup more.required, form.picky \cup more.picky, form.loose \cup more.loose)

Without(form, fields) ==
    Form(form.required \ fields, form.picky \ fields, form.loose \ fields)

-----------------------------------------------------------------------------
\* auth, users, tenants

LoginDto == Form({"email", "password"}, {"tenantId"}, {})

RegisterDto == Form({"companyName", "companySlug", "firstName", "lastName", "email", "password"}, {}, {})

RefreshTokenDto == Form({"refreshToken"}, {}, {})

UpdateProfileDto == Form({}, {"firstName", "lastName"}, {})

ChangePasswordDto == Form({"currentPassword", "newPassword"}, {}, {})

CreateUserDto == Form({"email", "firstName", "lastName", "role"}, {"password"}, {})

UpdateUserDto == Form({}, {"firstName", "lastName", "role", "status"}, {})

\* The pattern of logoUrl lets the empty text pass.
UpdateTenantSelfDto ==
    Form({}, {"billingEmail"},
         {"name", "phone", "address", "city", "website", "taxId", "ice", "rc", "patente", "cnss",
          "bankName", "bankRib", "logoUrl"})

-----------------------------------------------------------------------------
\* vehicles, clients

PaginationDto == Form({}, {"page", "pageSize", "sortDir"}, {"sortBy", "search"})

ListVehiclesDto == Extended(PaginationDto, Form({}, {"status"}, {}))

CalendarQueryDto == Form({"from", "to"}, {"vehicleId", "status"}, {})

CreateVehicleDto ==
    Form({"registration", "brand", "model", "year", "dailyRate"},
         {"transmission", "fuel", "seats", "currentKm", "purchaseDate", "purchasePrice",
          "weeklyRate", "monthlyRate", "insuranceExpiry", "technicalVisitExpiry",
          "vignetteExpiry", "photos"},
         {"color", "category", "vin", "notes"})

\* Mutant: the status of a vehicle is not named.
UpdateVehicleDtoNarrow == Partial(CreateVehicleDto)

UpdateVehicleDto == Extended(Partial(CreateVehicleDto), Form({}, {"status"}, {}))

CreateClientDto ==
    Form({"fullName", "idNumber"},
         {"type", "licenseExpiry", "dateOfBirth", "email", "segment"},
         {"companyName", "idType", "licenseNumber", "nationality", "phone", "addressLine1",
          "addressLine2", "city", "country", "notes"})

UpdateClientDto ==
    Extended(Partial(CreateClientDto), Form({}, {"blacklisted", "rating"}, {"blacklistReason"}))

ListClientsDto == Extended(PaginationDto, Form({}, {"type", "segment", "blacklisted"}, {}))

-----------------------------------------------------------------------------
\* reservations, contracts, deposits

CreateReservationDto ==
    Form({"vehicleId", "clientId", "startDate", "endDate"},
         {"dailyRate", "source", "paymentStatus"},
         {"pickupLocation", "returnLocation", "notes"})

UpdateReservationDto == Extended(Partial(CreateReservationDto), Form({}, {"status"}, {}))

UpdateReservationPaymentStatusDto == Form({"paymentStatus"}, {}, {})

ListReservationsDto ==
    Extended(PaginationDto, Form({}, {"status", "vehicleId", "clientId", "fromDate", "toDate"}, {}))

ConvertReservationToContractDto ==
    Form({"kmStart"}, {"depositAmount", "depositMethod"}, {"depositReference"})

CreateContractDto ==
    Form({"vehicleId", "clientId", "startDate", "endDate", "kmStart"},
         {"reservationId", "kmAllowance", "dailyRate", "depositAmount", "depositMethod",
          "discountAmount"},
         {"depositReference", "pickupLocation", "returnLocation", "additionalDriver",
          "additionalDriverLicense", "notes"})

CompleteContractDto == Form({"kmEnd"}, {"actualReturnDate", "extraCharges"}, {"notes"})

SignContractDto == Form({"signatureUrl"}, {}, {})

ListContractsDto == Extended(PaginationDto, Form({}, {"status", "vehicleId", "clientId"}, {}))

CollectDepositDto == Form({"contractId", "amount", "method"}, {}, {"reference", "notes"})

SettleDepositDto == Form({}, {"amount"}, {"notes"})

-----------------------------------------------------------------------------
\* invoices, payments, credits

InvoiceLineItemDto == Form({"description", "quantity", "unitPrice", "total"}, {}, {})

CreateInvoiceDto ==
    Form({"clientId", "lineItems"}, {"contractId", "issueDate", "dueDate", "taxRate"}, {"notes"})

ListInvoicesDto == Extended(PaginationDto, Form({}, {"status", "clientId", "contractId"}, {}))

CreatePaymentDto ==
    Form({"clientId", "amount"}, {"contractId", "invoiceId", "method", "paidAt"},
         {"reference", "notes"})

ListPaymentsDto ==
    Extended(PaginationDto, Form({}, {"status", "method", "contractId", "clientId", "invoiceId"}, {}))

CreateCreditDto ==
    Form({"vehicleId", "bankName", "principal", "interestRate", "termMonths", "startDate"},
         {"creditType", "downPayment", "residualValue"}, {"accountNumber", "notes"})

RecordCreditPaymentDto == Form({"paidAmount"}, {"paidAt"}, {"reference", "notes"})

ListCreditsDto == Extended(PaginationDto, Form({}, {"status", "creditType", "vehicleId"}, {}))

-----------------------------------------------------------------------------
\* maintenance, inspections

CreateMaintenanceRecordDto ==
    Form({"vehicleId", "type", "title"}, {"performedAt", "km", "cost"},
         {"description", "garage", "reference", "notes"})

CreateMaintenanceScheduleDto ==
    Form({"vehicleId", "type", "title"}, {"dueDate", "dueKm", "isCritical"}, {"description", "notes"})

ListMaintenanceRecordsDto == Extended(PaginationDto, Form({}, {"vehicleId", "type"}, {}))

CreateInspectionDto ==
    Form({"contractId", "type", "km"},
         {"performedAt", "fuelLevel", "condition", "photos", "status"},
         {"damages", "agentName", "signatureUrl", "notes"})

UpdateInspectionDto == Partial(Without(CreateInspectionDto, {"contractId", "type"}))

ListInspectionsDto == Extended(PaginationDto, Form({}, {"contractId", "vehicleId", "type"}, {}))

-----------------------------------------------------------------------------
\* platform, billing, leads

ListTenantsDto == Extended(PaginationDto, Form({}, {"status", "plan"}, {"q"}))

UpdateTenantPlatformDto ==
    Form({}, {"plan", "billingEmail", "subscriptionEnd"},
         {"name", "phone", "address", "city", "website", "logoUrl", "taxId", "ice", "rc",
          "patente", "cnss", "bankName", "bankRib"})

ExtendTrialDto == Form({"days"}, {}, {})

ExtendSubscriptionDto == Form({}, {"days", "newEndDate"}, {})

SuspendTenantDto == Form({}, {}, {"reason"})

RecordSubscriptionPaymentDto ==
    Form({"plan", "period", "amount", "method"}, {"startDate"}, {"reference", "notes"})

CreateCheckoutDto == Form({"plan", "period"}, {}, {})

CreateDemoRequestDto ==
    Form({"fullName", "email"}, {"preferredDate"}, {"phone", "companyName", "message"})

TestEmailDto == Form({"to"}, {}, {})
=============================================================================
