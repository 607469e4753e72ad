---------------------------- MODULE Subscription ----------------------------
(***************************************************************************)
(* The subscription of a tenant: its status and the day it ends.  Platform   *)
(* operators, the manual recording of payments, Stripe's webhook and the     *)
(* daily sweep all write the one row.                                        *)
(*                                                                         *)
(* A handler reads the row, computes the columns it will write from what it  *)
(* read, and updates the row by its id in a later statement.  The webhook    *)
(* first inserts the id of the event, which is unique, so that an event      *)
(* Stripe delivers again is skipped; Stripe delivers until it is answered.   *)
(***************************************************************************)
EXTENDS Naturals

CONSTANTS
    Tenants,      \* ids of tenant rows
    Events,       \* ids of Stripe events
    Requests,     \* requests that can be in flight together
    Periods,      \* the lengths of what is paid for, in days
    Trial, Year,  \* the length of a trial, and of an activation without a payment
    Horizon,      \* bound: the last day of a behaviour
    MaxEnd,       \* bound: no request asks for a later day than this
    MaxPayments,  \* bound: the manual payments of a tenant
    None

TenantStatus == {"TRIAL", "ACTIVE", "SUSPENDED", "CANCELLED", "EXPIRED"}

ASSUME SubscriptionAssumption ==
    /\ {Trial, Year, Horizon, MaxEnd, MaxPayments} \subseteq Nat
    /\ Periods \subseteq Nat \ {0}
    /\ None \notin Tenants \cup Events \cup Nat \cup TenantStatus \cup BOOLEAN

VARIABLES
    now,        \* the day
    tenant,     \* tenant[t]: the row
    payments,   \* payments[t]: how many subscription payment rows t has
    sent,       \* sent[e]: what Stripe's event e says, "unsent" before it exists
    pending,    \* events Stripe delivers, again if need be: no 200 arrived
    recorded,   \* the rows of stripe_events
    processed,  \* events whose effect was written to a tenant
    extended,   \* extended[t]: how often a payment was written to the row of t
    req         \* req[q]: the request in flight, or Idle

vars == <<now, tenant, payments, sent, pending, recorded, processed, extended, req>>
stripe == <<sent, pending, recorded, processed>>

Days == 0..Horizon
Date == Nat \cup {None}

Max2(a, b) == IF a > b THEN a ELSE b

TenantRow == [status : TenantStatus, trialEnd : Nat, end : Date, deleted : BOOLEAN]

\* The columns an update writes.
Data == [status : TenantStatus \cup {None}, trialEnd : Date, end : Date,
         deleted : BOOLEAN \cup {None}]

NoData == [status |-> None, trialEnd |-> None, end |-> None, deleted |-> None]

EventRow == [kind : {"unsent", "paid", "ended"}, tenant : Tenants \cup {None},
             period : Periods \cup {None}]

Unsent == [kind |-> "unsent", tenant |-> None, period |-> None]

Ops == {"none", "operator", "extend", "payment", "paymentFrom", "webhook"}

Request == [op : Ops, step : {"idle", "mark", "read", "compute", "insert", "write"},
            tenant : Tenants \cup {None}, event : Events \cup {None}, end : Date,
            data : Data]

Idle == [op |-> "none", step |-> "idle", tenant |-> None, event |-> None,
         end |-> None, data |-> NoData]

\* AuthService.register begins a trial.
Init ==
    /\ now = 0
    /\ tenant = [t \in Tenants |-> [status |-> "TRIAL", trialEnd |-> Trial,
                                    end |-> None, deleted |-> FALSE]]
    /\ payments = [t \in Tenants |-> 0]
    /\ sent = [e \in Events |-> Unsent]
    /\ pending = {}
    /\ recorded = {}
    /\ processed = {}
    /\ extended = [t \in Tenants |-> 0]
    /\ req = [q \in Requests |-> Idle]

Tick ==
    /\ now < Horizon
    /\ now' = now + 1
    /\ UNCHANGED <<tenant, payments, stripe, extended, req>>

\* Mutant: counted from today, whatever is left.
ExtensionFromToday(end, n) == now + n

\* n more days on an end that was read: from that day, or from today if it has
\* passed or was never set.
Extension(end, n) == (IF end = None THEN now ELSE Max2(end, now)) + n

-----------------------------------------------------------------------------
\* PlatformService.  An operation has read a row that is not deleted and computed
\* the columns it will write.
Operate(q, t, op, step, data) ==
    /\ req[q] = Idle
    /\ ~tenant[t].deleted
    /\ req' = [req EXCEPT ![q] = [Idle EXCEPT !.op = op, !.step = step,
                                              !.tenant = t, !.data = data]]
    /\ UNCHANGED <<now, tenant, payments, stripe, extended>>

Allowed == [TRIAL     |-> {"ACTIVE", "SUSPENDED", "CANCELLED"},
            ACTIVE    |-> {"SUSPENDED", "CANCELLED"},
            SUSPENDED |-> {"ACTIVE", "CANCELLED"},
            EXPIRED   |-> {"ACTIVE", "CANCELLED"},
            CANCELLED |-> {"ACTIVE"}]

\* Mutant: an activation sets no end.
TransitionOnly(q, t, to) ==
    /\ to \in Allowed[tenant[t].status]
    /\ Operate(q, t, "operator", "write", [NoData EXCEPT !.status = to])

\* suspend, activate and cancel.  An activation sets an end if there is none; one
\* that has passed stays.
Transition(q, t, to) ==
    /\ to \in Allowed[tenant[t].status]
    /\ Operate(q, t, "operator", "write",
            IF to = "ACTIVE" /\ tenant[t].end = None
            THEN [NoData EXCEPT !.status = to, !.end = now + Year]
            ELSE [NoData EXCEPT !.status = to])

ExtendTrial(q, t, n) ==
    /\ tenant[t].status = "TRIAL"
    /\ Operate(q, t, "operator", "write",
            [NoData EXCEPT !.trialEnd = Extension(tenant[t].trialEnd, n)])

Reopened(status) == IF status \in {"EXPIRED", "SUSPENDED"} THEN "ACTIVE" ELSE None

\* extendSubscription, by a number of days or to a day given.
ExtendSubscription(q, t, n) ==
    /\ tenant[t].status # "CANCELLED"
    /\ Operate(q, t, "extend", "write",
            [NoData EXCEPT !.end = Extension(tenant[t].end, n),
                           !.status = Reopened(tenant[t].status)])

ExtendSubscriptionTo(q, t, d) ==
    /\ tenant[t].status # "CANCELLED"
    /\ d > now
    /\ Operate(q, t, "operator", "write",
            [NoData EXCEPT !.end = d, !.status = Reopened(tenant[t].status)])

\* PATCH /platform/tenants/:id with a date.
Update(q, t, d) == Operate(q, t, "operator", "write", [NoData EXCEPT !.end = d])

SoftDelete(q, t) ==
    Operate(q, t, "operator", "write", [NoData EXCEPT !.deleted = TRUE,
                                                      !.status = "CANCELLED"])

\* BillingService.recordPayment, from the end that was read or from a day given.
RecordPayment(q, t, n) ==
    Operate(q, t, "payment", "insert",
        [NoData EXCEPT !.status = "ACTIVE", !.end = Extension(tenant[t].end, n)])

RecordPaymentFrom(q, t, d, n) ==
    Operate(q, t, "paymentFrom", "insert",
        [NoData EXCEPT !.status = "ACTIVE", !.end = d + n])

InsertPayment(q) ==
    /\ req[q].step = "insert"
    /\ payments' = [payments EXCEPT ![req[q].tenant] = payments[req[q].tenant] + 1]
    /\ req' = [req EXCEPT ![q].step = "write"]
    /\ UNCHANGED <<now, tenant, stripe, extended>>

-----------------------------------------------------------------------------
\* Stripe and its webhook

\* A customer pays a period of a subscription, or a subscription ends.
Send(e, t, kind, n) ==
    /\ sent[e] = Unsent
    /\ sent' = [sent EXCEPT ![e] = [kind |-> kind, tenant |-> t, period |-> n]]
    /\ pending' = pending \cup {e}
    /\ UNCHANGED <<now, tenant, payments, recorded, processed, extended, req>>

\* A first or a further delivery, also while an earlier one is still served.
Webhook(q, e) ==
    /\ req[q] = Idle
    /\ e \in pending
    /\ req' = [req EXCEPT ![q] = [Idle EXCEPT !.op = "webhook", !.step = "mark",
                                              !.event = e, !.tenant = sent[e].tenant]]
    /\ UNCHANGED <<now, tenant, payments, stripe, extended>>

\* The answer 200 arrives, or is lost and the event is delivered again.
Answer(e) == pending' \in {pending, pending \ {e}}

\* Mutant: an upsert, which an event recorded before passes as well.
MarkEventAgain(q) ==
    /\ req[q].step = "mark"
    /\ recorded' = recorded \cup {req[q].event}
    /\ req' = [req EXCEPT ![q].step = "read"]
    /\ UNCHANGED <<now, tenant, payments, sent, pending, processed, extended>>

\* Mutant: the event is looked up, and its row is never inserted.
MarkNothing(q) ==
    /\ req[q].step = "mark"
    /\ IF req[q].event \in recorded
       THEN /\ Answer(req[q].event)
            /\ req' = [req EXCEPT ![q] = Idle]
       ELSE /\ UNCHANGED pending
            /\ req' = [req EXCEPT ![q].step = "read"]
    /\ UNCHANGED <<now, tenant, payments, sent, recorded, processed, extended>>

\* The insert of the event's id succeeds for the first delivery only; the others
\* are answered at once.
MarkEventProcessed(q) ==
    /\ req[q].step = "mark"
    /\ recorded' = recorded \cup {req[q].event}
    /\ IF req[q].event \in recorded
       THEN /\ Answer(req[q].event)
            /\ req' = [req EXCEPT ![q] = Idle]
       ELSE /\ UNCHANGED pending
            /\ req' = [req EXCEPT ![q].step = "read"]
    /\ UNCHANGED <<now, tenant, payments, sent, processed, extended>>

\* Mutant: a tenant that is CANCELLED is answered and left as it is.
ReadLiveTenant(q) ==
    LET row == tenant[req[q].tenant]
    IN  /\ req[q].step = "read"
        /\ req' = [req EXCEPT ![q] =
                CASE row.status = "CANCELLED" -> Idle
                  [] sent[req[q].event].kind = "paid" ->
                        [req[q] EXCEPT !.step = "compute", !.end = row.end]
                  [] OTHER ->
                        [req[q] EXCEPT !.step = "write", !.data.status = "SUSPENDED"]]
        /\ UNCHANGED <<now, tenant, payments, stripe, extended>>

\* The tenant of the customer, deleted or not.
ReadTenant(q) ==
    LET row == tenant[req[q].tenant]
    IN  /\ req[q].step = "read"
        /\ req' = [req EXCEPT ![q] =
                IF sent[req[q].event].kind = "paid"
                THEN [req[q] EXCEPT !.step = "compute", !.end = row.end]
                ELSE [req[q] EXCEPT !.step = "write", !.data.status = "SUSPENDED"]]
        /\ UNCHANGED <<now, tenant, payments, stripe, extended>>

\* Stripe has answered what the subscription is for.
ApplyInvoicePaid(q) ==
    /\ req[q].step = "compute"
    /\ req' = [req EXCEPT ![q] = [req[q] EXCEPT
                !.step = "write",
                !.data.status = "ACTIVE",
                !.data.end = Extension(req[q].end, sent[req[q].event].period)]]
    /\ UNCHANGED <<now, tenant, payments, stripe, extended>>

-----------------------------------------------------------------------------
\* What every handler ends with, and what can come between.

\* An update leaves the columns it does not name.
Given(new, old) == IF new = None THEN old ELSE new

Updated(row, data) ==
    [status |-> Given(data.status, row.status),
     trialEnd |-> Given(data.trialEnd, row.trialEnd),
     end |-> Given(data.end, row.end),
     deleted |-> Given(data.deleted, row.deleted)]

\* Is a payment what q writes?
Pays(q) == \/ req[q].op \in {"payment", "paymentFrom"}
           \/ req[q].op = "webhook" /\ sent[req[q].event].kind = "paid"

WriteTenant(q) ==
    LET t == req[q].tenant
    IN  /\ req[q].step = "write"
        /\ tenant' = [tenant EXCEPT ![t] = Updated(tenant[t], req[q].data)]
        /\ extended' = IF Pays(q) THEN [extended EXCEPT ![t] = extended[t] + 1]
                                  ELSE extended
        /\ IF req[q].op = "webhook"
           THEN processed' = processed \cup {req[q].event} /\ Answer(req[q].event)
           ELSE UNCHANGED <<processed, pending>>
        /\ req' = [req EXCEPT ![q] = Idle]
        /\ UNCHANGED <<now, payments, sent, recorded>>

\* A statement or the call to Stripe fails, or the server restarts.
Fail(q) ==
    /\ req[q] # Idle
    /\ req' = [req EXCEPT ![q] = Idle]
    /\ UNCHANGED <<now, tenant, payments, stripe, extended>>

Lapsed(row) ==
    /\ ~row.deleted
    /\ \/ row.status = "TRIAL" /\ row.trialEnd < now
       \/ row.status = "ACTIVE" /\ row.end # None /\ row.end < now

\* The daily sweep, and POST /platform/sweep-expiries: one statement.
SweepExpiries ==
    /\ tenant' = [t \in Tenants |-> IF Lapsed(tenant[t])
                                    THEN [tenant[t] EXCEPT !.status = "EXPIRED"]
                                    ELSE tenant[t]]
    /\ UNCHANGED <<now, payments, stripe, extended, req>>

-----------------------------------------------------------------------------

WithinBounds(q) ==
    /\ req'[q].data.end # None => req'[q].data.end <= MaxEnd
    /\ req'[q].data.trialEnd # None => req'[q].data.trialEnd <= MaxEnd

PlatformStep(q, t) ==
    /\ \/ \E to \in TenantStatus : Transition(q, t, to)
       \/ \E n \in Periods :
            \/ ExtendTrial(q, t, n)
            \/ ExtendSubscription(q, t, n)
       \/ \E d \in 0..MaxEnd : ExtendSubscriptionTo(q, t, d) \/ Update(q, t, d)
       \/ SoftDelete(q, t)
    /\ WithinBounds(q)

BillingStep(q, t) ==
    /\ payments[t] < MaxPayments
    /\ \E n \in Periods :
        RecordPayment(q, t, n) \/ \E d \in Days : RecordPaymentFrom(q, t, d, n)
    /\ WithinBounds(q)

StripeStep ==
    \E e \in Events, t \in Tenants, n \in Periods : Send(e, t, "paid", n)
                                                  \/ Send(e, t, "ended", n)

Work ==
    \/ Tick
    \/ SweepExpiries
    \/ StripeStep
    \/ \E q \in Requests :
        \/ \E t \in Tenants : PlatformStep(q, t) \/ BillingStep(q, t)
        \/ InsertPayment(q)
        \/ \E e \in Events : Webhook(q, e)
        \/ MarkEventProcessed(q)
        \/ ReadTenant(q)
        \/ ApplyInvoicePaid(q)
        \/ WriteTenant(q)

Next == Work \/ \E q \in Requests : Fail(q)

Spec == Init /\ [][Next]_vars

-----------------------------------------------------------------------------
\* Every column, table and request holds a value of its type.
TypeOK ==
    /\ now \in Days
    /\ tenant \in [Tenants -> TenantRow]
    /\ payments \in [Tenants -> Nat]
    /\ sent \in [Events -> EventRow]
    /\ pending \subseteq Events
    /\ recorded \subseteq Events
    /\ processed \subseteq recorded
    /\ extended \in [Tenants -> Nat]
    /\ req \in [Requests -> Request]
=============================================================================
