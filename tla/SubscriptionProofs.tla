------------------------- MODULE SubscriptionProofs -------------------------
(***************************************************************************)
(* The subscription of a tenant, whatever tenants, events and requests there *)
(* are: no payment extends it twice, an ACTIVE tenant has an end, and what   *)
(* requests that follow one another write is added to what was left.         *)
(***************************************************************************)
EXTENDS SubscriptionRules, FiniteSetTheorems, TLAPS

Left(end) == IF end = None THEN 0 ELSE end

\* What an operator or a manual payment is about to write to tenant t.
Planned(t, op, step, data) ==
    /\ data \in Data
    /\ \/ op \in {"operator", "extend"} /\ step = "write"
       \/ op \in {"payment", "paymentFrom"} /\ step = "insert"
    /\ data.status = "ACTIVE" => data.end # None \/ tenant[t].end # None
    /\ op \in {"extend", "payment"} =>
        data.end \in Nat /\ \E n \in Periods : data.end >= Left(tenant[t].end) + n

\* What a request in flight is, and what it will make of its tenant.
ReqReady ==
    \A q \in Requests :
        /\ req[q].step = "idle" => req[q] = Idle
        /\ req[q].step # "idle" => req[q].tenant \in Tenants
        /\ req[q].step \in {"mark", "read", "compute"} => req[q].op = "webhook"
        /\ req[q].step = "insert" => req[q].op \in {"payment", "paymentFrom"}
        /\ req[q].op = "webhook" => /\ req[q].event \in Events
                                    /\ sent[req[q].event].kind # "unsent"
                                    /\ sent[req[q].event].tenant = req[q].tenant
                                    /\ req[q].step # "mark" => req[q].event \in recorded
        /\ req[q].op # "webhook" /\ req[q].data.status = "ACTIVE" /\ req[q].step # "idle" =>
                req[q].data.end # None \/ tenant[req[q].tenant].end # None
        /\ req[q].op = "webhook" /\ req[q].data.status = "ACTIVE" => req[q].data.end # None

\* Stripe delivers and the server records only what was sent.
EventsReady ==
    \A e \in Events :
        /\ sent[e].kind # "unsent" => sent[e].tenant \in Tenants /\ sent[e].period \in Periods
        /\ e \in pending \cup recorded => sent[e].kind # "unsent"

SubInv == TypeOK /\ ReqReady /\ EventsReady /\ ActiveHasEnd

-----------------------------------------------------------------------------

LEMMA NoneIsNone == /\ None \notin Nat /\ None # "ACTIVE"
                    /\ \A n \in Periods : n \in Nat /\ n > 0
BY SubscriptionAssumption DEF TenantStatus

LEMMA IdleType == Idle \in Request /\ Idle.step = "idle" /\ Idle.op = "none" /\ NoData \in Data
BY DEF Idle, NoData, Request, Data, Ops, Date

LEMMA InitInv == Init => SubInv
<1> SUFFICES ASSUME Init PROVE SubInv
  OBVIOUS
<1> USE DEF Init
<1>1. req \in [Requests -> Request]
  BY IdleType
<1>2. Unsent \in EventRow
  BY DEF Unsent, EventRow
<1>3. TypeOK
  BY <1>1, <1>2, SubscriptionAssumption DEF TypeOK, TenantRow, TenantStatus, Days, Date
<1>4. ReqReady
  BY IdleType DEF ReqReady
<1>5. EventsReady /\ ActiveHasEnd
  BY DEF EventsReady, Unsent, ActiveHasEnd
<1> QED
  BY <1>3, <1>4, <1>5 DEF SubInv

LEMMA ExtensionAdds ==
    ASSUME TypeOK, NEW end \in Date, NEW n \in Periods
    PROVE  Extension(end, n) \in Nat /\ Extension(end, n) >= Left(end) + n
BY SubscriptionAssumption DEF TypeOK, Date, Extension, Left, Max2, Days

\* What operators and manual payments begin.
LEMMA StepsArePlanned ==
    ASSUME TypeOK, NEW q \in Requests, NEW t \in Tenants, PlatformStep(q, t) \/ BillingStep(q, t)
    PROVE  \E op, step, data : Operate(q, t, op, step, data) /\ Planned(t, op, step, data)
<1> DEFINE Goal == \E op, step, data : Operate(q, t, op, step, data) /\ Planned(t, op, step, data)
<1>0. /\ now \in Nat /\ tenant[t].end \in Date /\ tenant[t].trialEnd \in Date
      /\ tenant[t].status \in TenantStatus /\ Year \in Nat /\ NoData \in Data
      /\ \A n \in Periods : n \in Nat
  BY SubscriptionAssumption, IdleType DEF TypeOK, TenantRow, Days, Date
<1>1. ASSUME NEW to \in TenantStatus, Transition(q, t, to)
      PROVE  Goal
  <2> DEFINE data == IF to = "ACTIVE" /\ tenant[t].end = None
                     THEN [NoData EXCEPT !.status = to, !.end = now + Year]
                     ELSE [NoData EXCEPT !.status = to]
  <2>1. Operate(q, t, "operator", "write", data)
    BY <1>1 DEF Transition
  <2>2. [NoData EXCEPT !.status = to] \in Data
    BY <1>0 DEF Data
  <2>6. \A d \in Nat : [NoData EXCEPT !.status = to, !.end = d] \in Data
    BY <1>0 DEF Data, Date
  <2>3. data.status = "ACTIVE" => data.end # None \/ tenant[t].end # None
    BY <1>0, SubscriptionAssumption DEF NoData
  <2>4. data \in Data
    <3>1. now + Year \in Nat
      BY <1>0
    <3> QED
      BY <2>2, <2>6, <3>1
  <2> HIDE DEF data
  <2>5. Planned(t, "operator", "write", data)
    BY <2>3, <2>4 DEF Planned
  <2> QED
    BY <2>1, <2>5
<1>2. ASSUME NEW n \in Periods, ExtendTrial(q, t, n)
      PROVE  Goal
  <2> DEFINE data == [NoData EXCEPT !.trialEnd = Extension(tenant[t].trialEnd, n)]
  <2>1. Extension(tenant[t].trialEnd, n) \in Nat
    BY <1>0, ExtensionAdds
  <2>2. \A d \in Nat : [NoData EXCEPT !.trialEnd = d] \in Data
    BY <1>0 DEF Data, Date
  <2>5. data \in Data
    BY <2>1, <2>2
  <2>3. data.status = None
    BY DEF NoData
  <2> HIDE DEF data
  <2>4. Planned(t, "operator", "write", data)
    BY <2>3, <2>5, NoneIsNone DEF Planned
  <2> QED
    BY <1>2, <2>4 DEF ExtendTrial, data
<1>3. ASSUME NEW n \in Periods, ExtendSubscription(q, t, n)
      PROVE  Goal
  <2> DEFINE data == [NoData EXCEPT !.end = Extension(tenant[t].end, n),
                                    !.status = Reopened(tenant[t].status)]
  <2>1. data \in Data /\ data.end = Extension(tenant[t].end, n)
    BY <1>0, ExtensionAdds DEF Data, Date, NoData, Reopened, TenantStatus
  <2> HIDE DEF data
  <2>2. Planned(t, "extend", "write", data)
    BY <1>0, <2>1, ExtensionAdds, SubscriptionAssumption DEF Planned
  <2> QED
    BY <1>3, <2>2 DEF ExtendSubscription, data
<1>4. ASSUME NEW d \in 0..MaxEnd, ExtendSubscriptionTo(q, t, d) \/ Update(q, t, d)
      PROVE  Goal
  <2> DEFINE first == [NoData EXCEPT !.end = d, !.status = Reopened(tenant[t].status)]
             second == [NoData EXCEPT !.end = d]
  <2>1. d \in Nat
    BY SubscriptionAssumption
  <2>2. /\ first \in Data /\ first.end = d
        /\ second \in Data /\ second.end = d
    BY <1>0, <2>1 DEF Data, Date, NoData, Reopened, TenantStatus
  <2> HIDE DEF first, second
  <2>3. Planned(t, "operator", "write", first) /\ Planned(t, "operator", "write", second)
    BY <2>1, <2>2, SubscriptionAssumption DEF Planned
  <2> QED
    BY <1>4, <2>3 DEF ExtendSubscriptionTo, Update, first, second
<1>5. CASE SoftDelete(q, t)
  <2> DEFINE data == [NoData EXCEPT !.deleted = TRUE, !.status = "CANCELLED"]
  <2>1. data \in Data
    BY <1>0 DEF Data, TenantStatus
  <2>2. data.status = "CANCELLED"
    BY DEF NoData
  <2> HIDE DEF data
  <2>3. Planned(t, "operator", "write", data)
    BY <2>1, <2>2 DEF Planned
  <2> QED
    BY <1>5, <2>3 DEF SoftDelete, data
<1>6. ASSUME NEW n \in Periods, RecordPayment(q, t, n)
      PROVE  Goal
  <2> DEFINE data == [NoData EXCEPT !.status = "ACTIVE", !.end = Extension(tenant[t].end, n)]
  <2>1. data \in Data /\ data.end = Extension(tenant[t].end, n)
    BY <1>0, ExtensionAdds DEF Data, Date, NoData, TenantStatus
  <2> HIDE DEF data
  <2>2. Planned(t, "payment", "insert", data)
    BY <1>0, <2>1, ExtensionAdds, SubscriptionAssumption DEF Planned
  <2> QED
    BY <1>6, <2>2 DEF RecordPayment, data
<1>7. ASSUME NEW d \in Days, NEW n \in Periods, RecordPaymentFrom(q, t, d, n)
      PROVE  Goal
  <2> DEFINE data == [NoData EXCEPT !.status = "ACTIVE", !.end = d + n]
  <2>1. d + n \in Nat
    BY <1>0, SubscriptionAssumption DEF Days
  <2>2. data \in Data /\ data.end = d + n
    BY <1>0, <2>1 DEF Data, Date, NoData, TenantStatus
  <2> HIDE DEF data
  <2>3. Planned(t, "paymentFrom", "insert", data)
    BY <2>1, <2>2, SubscriptionAssumption DEF Planned
  <2> QED
    BY <1>7, <2>3 DEF RecordPaymentFrom, data
<1> QED
  BY <1>1, <1>2, <1>3, <1>4, <1>5, <1>6, <1>7 DEF PlatformStep, BillingStep

LEMMA OperateInv ==
    ASSUME SubInv, NEW q \in Requests, NEW t \in Tenants, NEW op, NEW step, NEW data,
           Operate(q, t, op, step, data), Planned(t, op, step, data)
    PROVE  SubInv'
<1> DEFINE new == [Idle EXCEPT !.op = op, !.step = step, !.tenant = t, !.data = data]
<1>1. /\ now' = now /\ tenant' = tenant /\ payments' = payments /\ sent' = sent /\ pending' = pending
      /\ recorded' = recorded /\ processed' = processed /\ extended' = extended
      /\ req' = [req EXCEPT ![q] = new]
  BY DEF Operate, stripe
<1>2. new \in Request
  <2>1. op \in Ops /\ step \in {"insert", "write"} /\ data \in Data
    BY DEF Planned, Ops
  <2> QED
    BY <2>1, IdleType DEF Request
<1>3. new.op = op /\ new.step = step /\ new.tenant = t /\ new.data = data
  BY DEF Idle
<1> HIDE DEF new
<1>4. TypeOK'
  BY <1>1, <1>2 DEF SubInv, TypeOK
<1>5. ReqReady'
  <2> SUFFICES ASSUME NEW p \in Requests PROVE ReqReady!(p)'
    BY DEF ReqReady
  <2>1. CASE p = q
    <3>1. req'[p] = new
      BY <1>1, <2>1 DEF SubInv, TypeOK
    <3> QED
      BY <1>1, <1>3, <3>1 DEF Planned
  <2>2. CASE p # q
    <3>1. req'[p] = req[p]
      BY <1>1, <2>2 DEF SubInv, TypeOK
    <3> QED
      BY <1>1, <3>1 DEF SubInv, ReqReady
  <2> QED
    BY <2>1, <2>2
<1> QED
  BY <1>1, <1>4, <1>5 DEF SubInv, EventsReady, ActiveHasEnd

\* A step of one request that writes no tenant.
LEMMA RequestInv ==
    ASSUME SubInv, NEW q \in Requests,
           \/ InsertPayment(q) \/ \E e \in Events : Webhook(q, e)
           \/ MarkEventProcessed(q) \/ ReadTenant(q) \/ ApplyInvoicePaid(q) \/ Fail(q)
    PROVE  SubInv'
<1> USE NoneIsNone, IdleType
<1>0. /\ q \in DOMAIN req /\ req[q] \in Request /\ ReqReady!(q)
  BY DEF SubInv, TypeOK, ReqReady
<1>1. /\ now' = now /\ tenant' = tenant /\ sent' = sent /\ pending' \subseteq pending
      /\ recorded \subseteq recorded' /\ processed' = processed /\ extended' = extended
      /\ req' = [req EXCEPT ![q] = req'[q]]
  BY <1>0 DEF InsertPayment, Webhook, MarkEventProcessed, ReadTenant, ApplyInvoicePaid, Fail, stripe,
              Answer, SubInv, TypeOK
<1>2. payments' \in [Tenants -> Nat]
  <2>1. CASE InsertPayment(q)
    <3>1. req[q].tenant \in Tenants /\ payments[req[q].tenant] + 1 \in Nat
      BY <1>0, <2>1 DEF InsertPayment, SubInv, TypeOK
    <3> QED
      BY <2>1, <3>1 DEF InsertPayment, SubInv, TypeOK
  <2>2. CASE ~InsertPayment(q)
    BY <2>2 DEF Webhook, MarkEventProcessed, ReadTenant, ApplyInvoicePaid, Fail, SubInv, TypeOK
  <2> QED
    BY <2>1, <2>2
<1>3. /\ recorded' \subseteq Events
      /\ \A e \in recorded' : sent[e].kind # "unsent"
  BY <1>0 DEF InsertPayment, Webhook, MarkEventProcessed, ReadTenant, ApplyInvoicePaid, Fail, stripe,
              SubInv, TypeOK, EventsReady
<1>4. req'[q] \in Request /\ ReqReady!(q)'
  <2>1. CASE req'[q] = Idle
    BY <2>1 DEF Idle, NoData
  <2>2. CASE InsertPayment(q)
    BY <1>0, <1>1, <2>2 DEF InsertPayment, Request
  <2>3. ASSUME NEW e \in Events, Webhook(q, e)
        PROVE  req'[q] \in Request /\ ReqReady!(q)'
    <3>1. sent[e].kind # "unsent" /\ sent[e].tenant \in Tenants
      BY <2>3 DEF Webhook, SubInv, EventsReady
    <3>2. req'[q] = [Idle EXCEPT !.op = "webhook", !.step = "mark", !.event = e, !.tenant = sent[e].tenant]
      BY <1>0, <2>3 DEF Webhook
    <3>3. req'[q] \in Request
      BY <3>1, <3>2 DEF Request, Ops
    <3> QED
      BY <1>1, <3>1, <3>2, <3>3 DEF Idle, NoData
  <2>4. CASE MarkEventProcessed(q) /\ req'[q] # Idle
    <3>1. req'[q] = [req[q] EXCEPT !.step = "read"] /\ req[q].event \in recorded' /\ req[q].step = "mark"
      BY <1>0, <2>4 DEF MarkEventProcessed
    <3> QED
      BY <1>0, <1>1, <3>1 DEF Request
  <2>5. CASE ReadTenant(q)
    <3>1. req[q].step = "read" /\ req[q].tenant \in Tenants
      BY <1>0, <2>5 DEF ReadTenant
    <3>2. tenant[req[q].tenant].end \in Date
      BY <3>1 DEF SubInv, TypeOK, TenantRow
    <3>3. \/ req'[q] = [req[q] EXCEPT !.step = "compute", !.end = tenant[req[q].tenant].end]
          \/ req'[q] = [req[q] EXCEPT !.step = "write", !.data = [req[q].data EXCEPT !.status = "SUSPENDED"]]
      BY <1>0, <2>5 DEF ReadTenant
    <3>4. CASE req'[q] = [req[q] EXCEPT !.step = "compute", !.end = tenant[req[q].tenant].end]
      <4>1. req'[q] \in Request
        BY <1>0, <3>2, <3>4 DEF Request
      <4> QED
        BY <1>0, <1>1, <3>1, <3>4, <4>1 DEF Request
    <3>5. ASSUME NEW data, data = [req[q].data EXCEPT !.status = "SUSPENDED"],
                 req'[q] = [req[q] EXCEPT !.step = "write", !.data = data]
          PROVE  req'[q] \in Request /\ ReqReady!(q)'
      <4>1. data \in Data /\ data.status = "SUSPENDED"
        BY <1>0, <3>5 DEF Request, Data, TenantStatus
      <4>2. req'[q] \in Request
        BY <1>0, <3>5, <4>1 DEF Request
      <4> QED
        BY <1>0, <1>1, <3>1, <3>5, <4>1, <4>2 DEF Request
    <3> QED
      BY <3>3, <3>4, <3>5
  <2>6. CASE ApplyInvoicePaid(q)
    <3> DEFINE end == Extension(req[q].end, sent[req[q].event].period)
    <3>1. /\ req[q].step = "compute" /\ req[q].end \in Date /\ sent[req[q].event].period \in Periods
      BY <1>0, <2>6 DEF ApplyInvoicePaid, SubInv, EventsReady, Request
    <3>2. end \in Nat
      BY <3>1, ExtensionAdds DEF SubInv
    <3> DEFINE data == [req[q].data EXCEPT !.status = "ACTIVE", !.end = end]
    <3>3. req'[q] = [req[q] EXCEPT !.step = "write", !.data = data]
      BY <1>0, <2>6 DEF ApplyInvoicePaid
    <3> HIDE DEF end
    <3>4. data \in Data /\ data.end = end
      BY <1>0, <3>2 DEF Request, Data, TenantStatus, Date
    <3> HIDE DEF data
    <3>5. req'[q] \in Request
      BY <1>0, <3>3, <3>4 DEF Request
    <3> QED
      BY <1>0, <1>1, <3>1, <3>2, <3>3, <3>4, <3>5 DEF Request
  <2>7. CASE Fail(q)
    BY <1>0, <2>1, <2>7 DEF Fail
  <2> QED
    BY <2>1, <2>2, <2>3, <2>4, <2>5, <2>6, <2>7
<1>5. TypeOK'
  BY <1>1, <1>2, <1>3, <1>4 DEF SubInv, TypeOK
<1>6. ReqReady'
  <2> SUFFICES ASSUME NEW p \in Requests PROVE ReqReady!(p)'
    BY DEF ReqReady
  <2>1. CASE p = q
    BY <1>4, <2>1
  <2>2. CASE p # q
    <3>1. req'[p] = req[p]
      BY <1>1, <2>2 DEF SubInv, TypeOK
    <3> QED
      BY <1>1, <3>1 DEF SubInv, ReqReady
  <2> QED
    BY <2>1, <2>2
<1>7. EventsReady'
  BY <1>1, <1>3 DEF SubInv, EventsReady
<1>8. ActiveHasEnd'
  BY <1>1 DEF SubInv, ActiveHasEnd
<1> QED
  BY <1>5, <1>6, <1>7, <1>8 DEF SubInv

\* An update writes columns that keep an ACTIVE tenant's end.
LEMMA WriteTenantInv ==
    ASSUME SubInv, NEW q \in Requests, WriteTenant(q)
    PROVE  /\ SubInv'
           /\ \A t \in Tenants : tenant[t].end # None => tenant'[t].end # None
<1> USE NoneIsNone
<1> DEFINE t == req[q].tenant
           data == req[q].data
           row == Updated(tenant[t], data)
<1>0. /\ q \in DOMAIN req /\ req[q] \in Request /\ t \in Tenants /\ req[q].step = "write"
      /\ ReqReady!(q) /\ data \in Data /\ tenant[t] \in TenantRow
  BY DEF SubInv, TypeOK, ReqReady, WriteTenant, Request
<1>1. /\ now' = now /\ sent' = sent /\ pending' \subseteq pending /\ payments' = payments
      /\ recorded' = recorded /\ processed' \subseteq recorded
      /\ req' = [req EXCEPT ![q] = Idle]
      /\ tenant' = [tenant EXCEPT ![t] = row]
  BY <1>0 DEF WriteTenant, Answer, SubInv, TypeOK
<1>2. extended' \in [Tenants -> Nat]
  BY <1>0 DEF WriteTenant, SubInv, TypeOK
<1>3. /\ row.status = Given(data.status, tenant[t].status) /\ row.end = Given(data.end, tenant[t].end)
      /\ row \in TenantRow
  <2>1. /\ data.status \in TenantStatus \cup {None} /\ data.trialEnd \in Date /\ data.end \in Date
        /\ data.deleted \in BOOLEAN \cup {None}
        /\ tenant[t].status \in TenantStatus /\ tenant[t].trialEnd \in Nat /\ tenant[t].end \in Date
        /\ tenant[t].deleted \in BOOLEAN
    BY <1>0 DEF Data, TenantRow
  <2>2. /\ Given(data.status, tenant[t].status) \in TenantStatus
        /\ Given(data.trialEnd, tenant[t].trialEnd) \in Nat
        /\ Given(data.end, tenant[t].end) \in Date
    BY <2>1 DEF Given, Date
  <2>3. Given(data.deleted, tenant[t].deleted) \in BOOLEAN
    BY <2>1 DEF Given
  <2> QED
    BY <2>2, <2>3 DEF Updated, TenantRow
<1> HIDE DEF row
<1>4. /\ row.end = None => tenant[t].end = None
      /\ row.status = "ACTIVE" => row.end # None
  BY <1>0, <1>3 DEF Given, SubInv, ActiveHasEnd
<1>5. /\ tenant' \in [Tenants -> TenantRow] /\ tenant'[t] = row
      /\ \A u \in Tenants \ {t} : tenant'[u] = tenant[u]
      /\ req' \in [Requests -> Request] /\ req'[q] = Idle
      /\ \A p \in Requests \ {q} : req'[p] = req[p]
  BY <1>0, <1>1, <1>3, IdleType DEF SubInv, TypeOK
<1>6. \A u \in Tenants : tenant[u].end # None => tenant'[u].end # None
  BY <1>4, <1>5
<1>7. TypeOK'
  BY <1>1, <1>2, <1>5 DEF SubInv, TypeOK
<1>8. ReqReady'
  <2> SUFFICES ASSUME NEW p \in Requests PROVE ReqReady!(p)'
    BY DEF ReqReady
  <2>1. CASE p = q
    BY <1>5, <2>1 DEF Idle, NoData
  <2>2. CASE p # q
    BY <1>1, <1>5, <1>6, <2>2 DEF SubInv, ReqReady
  <2> QED
    BY <2>1, <2>2
<1>9. EventsReady' /\ ActiveHasEnd'
  BY <1>1, <1>4, <1>5 DEF SubInv, EventsReady, ActiveHasEnd
<1> QED
  BY <1>6, <1>7, <1>8, <1>9 DEF SubInv

LEMMA NextInv == SubInv /\ [Next]_vars => SubInv'
<1> SUFFICES ASSUME SubInv, [Next]_vars PROVE SubInv'
  OBVIOUS
<1> USE DEF SubInv, TypeOK, ReqReady, EventsReady, ActiveHasEnd, stripe
<1>1. CASE Tick
  BY <1>1, SubscriptionAssumption DEF Tick, Days
<1>2. CASE SweepExpiries
  <2>1. \A t \in Tenants :
            /\ tenant'[t] \in TenantRow /\ tenant'[t].end = tenant[t].end
            /\ tenant'[t].status = "ACTIVE" => tenant[t].status = "ACTIVE"
    BY <1>2 DEF SweepExpiries, TenantRow, TenantStatus
  <2>2. tenant' \in [Tenants -> TenantRow]
    BY <1>2, <2>1 DEF SweepExpiries
  <2> QED
    BY <1>2, <2>1, <2>2 DEF SweepExpiries
<1>3. ASSUME NEW e \in Events, NEW t \in Tenants, NEW n \in Periods,
             Send(e, t, "paid", n) \/ Send(e, t, "ended", n)
      PROVE  SubInv'
  <2>1. PICK row \in EventRow : /\ sent' = [sent EXCEPT ![e] = row]
                                /\ row.kind # "unsent" /\ row.tenant \in Tenants /\ row.period \in Periods
    <3>1. /\ [kind |-> "paid", tenant |-> t, period |-> n] \in EventRow
          /\ [kind |-> "ended", tenant |-> t, period |-> n] \in EventRow
      BY DEF EventRow
    <3> QED
      BY <1>3, <3>1 DEF Send
  <2>2. sent[e].kind = "unsent"
    BY <1>3 DEF Send, Unsent
  <2> QED
    BY <1>3, <2>1, <2>2 DEF Send
<1>4. ASSUME NEW q \in Requests, NEW t \in Tenants, PlatformStep(q, t) \/ BillingStep(q, t)
      PROVE  SubInv'
  <2> HIDE DEF ReqReady, EventsReady, ActiveHasEnd
  <2>1. PICK op, step, data : Operate(q, t, op, step, data) /\ Planned(t, op, step, data)
    BY <1>4, StepsArePlanned
  <2> HIDE DEF SubInv
  <2> QED
    BY <2>1, OperateInv
<1> HIDE DEF SubInv
<1>5. ASSUME NEW q \in Requests,
             \/ InsertPayment(q) \/ \E e \in Events : Webhook(q, e)
             \/ MarkEventProcessed(q) \/ ReadTenant(q) \/ ApplyInvoicePaid(q) \/ Fail(q)
      PROVE  SubInv'
  BY <1>5, RequestInv
<1>6. ASSUME NEW q \in Requests, WriteTenant(q)
      PROVE  SubInv'
  BY <1>6, WriteTenantInv
<1>7. CASE UNCHANGED vars
  BY <1>7 DEF vars, SubInv
<1> QED
  BY <1>1, <1>2, <1>3, <1>4, <1>5, <1>6, <1>7 DEF Next, Work, StripeStep

-----------------------------------------------------------------------------
\* How often a tenant is extended

\* Requests that have recorded a payment to tenant t and not yet written it.
Owed(t) ==
    {q \in Requests : req[q].tenant = t /\ req[q].step \in {"read", "compute", "write"} /\ Pays(q)}

\* No payment is written that is not recorded; none is lost where requests that
\* have recorded one do not fail.
Balanced ==
    \A t \in Tenants :
        /\ extended[t] + Cardinality(Owed(t)) <= payments[t] + Cardinality(PaidEvents(t))
        /\ rule = "serial" =>
            extended[t] + Cardinality(Owed(t)) = payments[t] + Cardinality(PaidEvents(t))

LEMMA OwedFinite ==
    ASSUME TypeOK, NEW t \in Tenants
    PROVE  /\ IsFiniteSet(Owed(t)) /\ IsFiniteSet(PaidEvents(t))
           /\ Cardinality(Owed(t)) \in Nat /\ Cardinality(PaidEvents(t)) \in Nat
<1>1. Owed(t) \subseteq Requests /\ PaidEvents(t) \subseteq Events
  BY DEF Owed, PaidEvents, TypeOK
<1> QED
  BY <1>1, FiniteAssumption, FS_Subset, FS_CardinalityType

\* One more, or one fewer.
LEMMA CountOne ==
    ASSUME NEW S, NEW T, NEW x, IsFiniteSet(S), x \notin S, T = S \cup {x}
    PROVE  Cardinality(T) = Cardinality(S) + 1 /\ Cardinality(S) \in Nat
BY FS_AddElement, FS_CardinalityType

\* A step that neither records nor writes a payment.
LEMMA BalancedStays ==
    ASSUME SubInv, Balanced, rule' = rule,
           \A t \in Tenants : /\ Owed(t)' = Owed(t) /\ PaidEvents(t)' = PaidEvents(t)
                              /\ extended'[t] = extended[t] /\ payments'[t] = payments[t]
    PROVE  Balanced'
BY DEF Balanced

\* As many are recorded as are to be written, or as are written.
LEMMA BalancedShifts ==
    ASSUME SubInv, SubInv', Balanced, rule' = rule, NEW t \in Tenants, NEW k \in Nat,
           \A u \in Tenants \ {t} : /\ Owed(u)' = Owed(u) /\ PaidEvents(u)' = PaidEvents(u)
                                    /\ extended'[u] = extended[u] /\ payments'[u] = payments[u],
           extended'[t] + Cardinality(Owed(t)') = extended[t] + Cardinality(Owed(t)) + k,
           payments'[t] + Cardinality(PaidEvents(t)') = payments[t] + Cardinality(PaidEvents(t)) + k
    PROVE  Balanced'
<1>1. /\ extended[t] + Cardinality(Owed(t)) \in Nat
      /\ payments[t] + Cardinality(PaidEvents(t)) \in Nat
  BY OwedFinite DEF SubInv, TypeOK
<1>2. ASSUME NEW u \in Tenants
      PROVE  /\ extended'[u] + Cardinality(Owed(u)') <= payments'[u] + Cardinality(PaidEvents(u)')
             /\ rule = "serial" =>
                extended'[u] + Cardinality(Owed(u)') = payments'[u] + Cardinality(PaidEvents(u)')
  <2>1. CASE u = t
    BY <1>1, <2>1 DEF Balanced
  <2>2. CASE u # t
    BY <2>2 DEF Balanced
  <2> QED
    BY <2>1, <2>2
<1> QED
  BY <1>2 DEF Balanced

\* A step of request q brings it among those that owe, or takes it from there.
LEMMA OwedBySteps ==
    ASSUME SubInv, NEW q \in Requests, req' = [req EXCEPT ![q] = req'[q]], sent' = sent,
           NEW t \in Tenants
    PROVE  /\ (q \in Owed(t)' <=> q \in Owed(t)) => Owed(t)' = Owed(t)
           /\ q \in Owed(t)' /\ q \notin Owed(t) => Owed(t)' = Owed(t) \cup {q}
           /\ q \notin Owed(t)' /\ q \in Owed(t) => Owed(t) = Owed(t)' \cup {q}
<1>1. ASSUME NEW p \in Requests \ {q}
      PROVE  p \in Owed(t)' <=> p \in Owed(t)
  <2>1. req'[p] = req[p]
    BY DEF SubInv, TypeOK
  <2> QED
    BY <2>1 DEF Owed, Pays
<1>2. Owed(t) \subseteq Requests /\ Owed(t)' \subseteq Requests
  BY DEF Owed
<1> QED
  BY <1>1, <1>2

LEMMA OperateBalanced ==
    ASSUME SubInv, Balanced, rule' = rule, NEW q \in Requests, NEW t \in Tenants,
           NEW op, NEW step, NEW data, Operate(q, t, op, step, data), Planned(t, op, step, data)
    PROVE  Balanced'
<1>1. /\ req[q].step = "idle" /\ req'[q].step = step /\ req'[q].op = op
      /\ req' = [req EXCEPT ![q] = req'[q]] /\ sent' = sent /\ recorded' = recorded
      /\ extended' = extended /\ payments' = payments
  BY DEF Operate, stripe, Idle, SubInv, TypeOK
<1>2. \A u \in Tenants : q \notin Owed(u) /\ q \notin Owed(u)'
  BY <1>1 DEF Owed, Pays, Planned
<1>3. \A u \in Tenants : Owed(u)' = Owed(u)
  BY <1>1, <1>2, OwedBySteps
<1>4. \A u \in Tenants : PaidEvents(u)' = PaidEvents(u)
  BY <1>1 DEF PaidEvents
<1> QED
  BY <1>1, <1>3, <1>4, BalancedStays

LEMMA RequestBalanced ==
    ASSUME SubInv, SubInv', Balanced, rule' = rule, NEW q \in Requests,
           \/ InsertPayment(q) \/ \E e \in Events : Webhook(q, e)
           \/ MarkEventProcessed(q) \/ ReadTenant(q) \/ ApplyInvoicePaid(q)
    PROVE  Balanced'
<1>0. /\ q \in DOMAIN req /\ req[q] \in Request /\ ReqReady!(q) /\ ReqReady!(q)'
      /\ req' = [req EXCEPT ![q] = req'[q]] /\ sent' = sent /\ extended' = extended
  BY DEF SubInv, TypeOK, ReqReady, InsertPayment, Webhook, MarkEventProcessed, ReadTenant,
         ApplyInvoicePaid, stripe
<1>1. CASE InsertPayment(q)
  <2> DEFINE t == req[q].tenant
  <2>1. /\ req[q].step = "insert" /\ t \in Tenants /\ req[q].op \in {"payment", "paymentFrom"}
        /\ req'[q].step = "write" /\ req'[q].tenant = t /\ req'[q].op = req[q].op
        /\ recorded' = recorded
        /\ payments' = [payments EXCEPT ![t] = payments[t] + 1]
    BY <1>0, <1>1 DEF InsertPayment, Request, stripe
  <2>2. /\ q \notin Owed(t) /\ Owed(t)' = Owed(t) \cup {q}
        /\ \A u \in Tenants \ {t} : Owed(u)' = Owed(u)
    <3>1. /\ q \notin Owed(t) /\ q \in Owed(t)'
          /\ \A u \in Tenants \ {t} : q \notin Owed(u) /\ q \notin Owed(u)'
      BY <2>1 DEF Owed, Pays
    <3> QED
      BY <1>0, <2>1, <3>1, OwedBySteps
  <2>3. \A u \in Tenants : PaidEvents(u)' = PaidEvents(u)
    BY <1>0, <2>1 DEF PaidEvents
  <2>4. Cardinality(Owed(t)') = Cardinality(Owed(t)) + 1
    BY <2>1, <2>2, OwedFinite, CountOne DEF SubInv
  <2>5. \A u \in Tenants : /\ extended[u] \in Nat /\ payments[u] \in Nat
                           /\ Cardinality(Owed(u)) \in Nat /\ Cardinality(PaidEvents(u)) \in Nat
    BY OwedFinite DEF SubInv, TypeOK
  <2>6. payments'[t] = payments[t] + 1 /\ \A u \in Tenants \ {t} : payments'[u] = payments[u]
    BY <2>1 DEF SubInv, TypeOK
  <2>7. /\ extended'[t] + Cardinality(Owed(t)') = extended[t] + Cardinality(Owed(t)) + 1
        /\ payments'[t] + Cardinality(PaidEvents(t)') = payments[t] + Cardinality(PaidEvents(t)) + 1
    BY <1>0, <2>1, <2>3, <2>4, <2>5, <2>6
  <2>8. \A u \in Tenants \ {t} : /\ Owed(u)' = Owed(u) /\ PaidEvents(u)' = PaidEvents(u)
                                  /\ extended'[u] = extended[u] /\ payments'[u] = payments[u]
    BY <1>0, <2>2, <2>3, <2>6
  <2> QED
    BY <2>1, <2>7, <2>8, BalancedShifts
<1>2. CASE MarkEventProcessed(q) /\ req[q].event \notin recorded /\ sent[req[q].event].kind = "paid"
  <2> DEFINE t == req[q].tenant
             e == req[q].event
  <2>1. /\ req[q].step = "mark" /\ t \in Tenants /\ req[q].op = "webhook" /\ sent[e].tenant = t
        /\ req'[q].step = "read" /\ req'[q].tenant = t /\ req'[q].op = "webhook" /\ req'[q].event = e
        /\ recorded' = recorded \cup {e} /\ payments' = payments
    BY <1>0, <1>2 DEF MarkEventProcessed, Request
  <2>2. /\ q \notin Owed(t) /\ Owed(t)' = Owed(t) \cup {q}
        /\ \A u \in Tenants \ {t} : Owed(u)' = Owed(u)
    <3>1. /\ q \notin Owed(t) /\ q \in Owed(t)'
          /\ \A u \in Tenants \ {t} : q \notin Owed(u) /\ q \notin Owed(u)'
      BY <1>0, <1>2, <2>1 DEF Owed, Pays
    <3> QED
      BY <1>0, <2>1, <3>1, OwedBySteps
  <2>3. /\ e \notin PaidEvents(t) /\ PaidEvents(t)' = PaidEvents(t) \cup {e}
        /\ \A u \in Tenants \ {t} : PaidEvents(u)' = PaidEvents(u)
    BY <1>0, <1>2, <2>1 DEF PaidEvents
  <2>4. /\ Cardinality(Owed(t)') = Cardinality(Owed(t)) + 1
        /\ Cardinality(PaidEvents(t)') = Cardinality(PaidEvents(t)) + 1
    BY <2>1, <2>2, <2>3, OwedFinite, CountOne DEF SubInv
  <2>5. \A u \in Tenants : /\ extended[u] \in Nat /\ payments[u] \in Nat
                           /\ Cardinality(Owed(u)) \in Nat /\ Cardinality(PaidEvents(u)) \in Nat
    BY OwedFinite DEF SubInv, TypeOK
  <2>6. /\ extended'[t] + Cardinality(Owed(t)') = extended[t] + Cardinality(Owed(t)) + 1
        /\ payments'[t] + Cardinality(PaidEvents(t)') = payments[t] + Cardinality(PaidEvents(t)) + 1
    BY <1>0, <2>1, <2>4, <2>5
  <2>7. \A u \in Tenants \ {t} : /\ Owed(u)' = Owed(u) /\ PaidEvents(u)' = PaidEvents(u)
                                  /\ extended'[u] = extended[u] /\ payments'[u] = payments[u]
    BY <1>0, <2>1, <2>2, <2>3
  <2> QED
    BY <2>1, <2>6, <2>7, BalancedShifts
<1>3. CASE /\ ~InsertPayment(q)
           /\ MarkEventProcessed(q) => req[q].event \in recorded \/ sent[req[q].event].kind # "paid"
  <2>1. payments' = payments
    BY <1>3 DEF Webhook, MarkEventProcessed, ReadTenant, ApplyInvoicePaid
  <2>2. \A u \in Tenants : PaidEvents(u)' = PaidEvents(u)
    BY <1>0, <1>3 DEF Webhook, MarkEventProcessed, ReadTenant, ApplyInvoicePaid, stripe, PaidEvents
  <2>3. \A u \in Tenants : q \in Owed(u)' <=> q \in Owed(u)
    <3>1. CASE \E e \in Events : Webhook(q, e)
      <4>0. PICK e \in Events : Webhook(q, e)
        BY <3>1
      <4>1. req[q].step = "idle" /\ req'[q].step = "mark"
        BY <1>0, <4>0, IdleType DEF Webhook, Request
      <4> QED
        BY <4>1 DEF Owed
    <3>2. CASE MarkEventProcessed(q)
      <4>1. req[q].step = "mark" /\ req[q].op = "webhook"
        BY <1>0, <3>2 DEF MarkEventProcessed
      <4>2. \/ req'[q] = Idle
            \/ /\ req'[q].op = "webhook" /\ req'[q].event = req[q].event
               /\ sent[req[q].event].kind # "paid"
        BY <1>0, <1>3, <3>2, <4>1 DEF MarkEventProcessed, Request
      <4> QED
        BY <1>0, <4>1, <4>2 DEF Owed, Pays, Idle
    <3>3. CASE ReadTenant(q) \/ ApplyInvoicePaid(q)
      <4>1. /\ req[q].step \in {"read", "compute"} /\ req'[q].step \in {"compute", "write"}
            /\ req'[q].op = req[q].op /\ req'[q].event = req[q].event /\ req'[q].tenant = req[q].tenant
        <5>1. CASE ReadTenant(q)
          BY <1>0, <5>1 DEF ReadTenant, Request
        <5>2. CASE ApplyInvoicePaid(q)
          BY <1>0, <5>2 DEF ApplyInvoicePaid, Request
        <5> QED
          BY <3>3, <5>1, <5>2
      <4> QED
        BY <1>0, <4>1 DEF Owed, Pays
    <3> QED
      BY <1>3, <3>1, <3>2, <3>3
  <2>4. \A u \in Tenants : Owed(u)' = Owed(u)
    BY <1>0, <2>3, OwedBySteps
  <2> QED
    BY <1>0, <2>1, <2>2, <2>4, BalancedStays
<1> QED
  BY <1>1, <1>2, <1>3 DEF InsertPayment, MarkEventProcessed

LEMMA WriteTenantBalanced ==
    ASSUME SubInv, SubInv', Balanced, rule' = rule, NEW q \in Requests, WriteTenant(q)
    PROVE  Balanced'
<1>t. PICK t \in Tenants : t = req[q].tenant
  BY DEF SubInv, ReqReady, WriteTenant
<1>0. /\ q \in DOMAIN req /\ req[q].step = "write" /\ req[q].tenant = t
      /\ req' = [req EXCEPT ![q] = req'[q]] /\ req'[q].step = "idle" /\ sent' = sent
      /\ recorded' = recorded /\ payments' = payments
      /\ extended' = IF Pays(q) THEN [extended EXCEPT ![t] = extended[t] + 1] ELSE extended
  BY <1>t, IdleType DEF SubInv, TypeOK, WriteTenant
<1>1. \A u \in Tenants : PaidEvents(u)' = PaidEvents(u)
  BY <1>0 DEF PaidEvents
<1>2. /\ \A u \in Tenants : q \notin Owed(u)'
      /\ \A u \in Tenants \ {t} : q \notin Owed(u)
      /\ q \in Owed(t) <=> Pays(q)
  BY <1>0 DEF Owed
<1>3. CASE Pays(q)
  <2>1. /\ Owed(t) = Owed(t)' \cup {q} /\ q \notin Owed(t)'
        /\ \A u \in Tenants \ {t} : Owed(u)' = Owed(u)
    <3>1. q \in Owed(t) /\ q \notin Owed(t)'
      BY <1>0, <1>2, <1>3
    <3>2. Owed(t) = Owed(t)' \cup {q}
      BY <1>0, <3>1, OwedBySteps
    <3>3. ASSUME NEW u \in Tenants \ {t} PROVE Owed(u)' = Owed(u)
      BY <1>0, <1>2, OwedBySteps
    <3> QED
      BY <3>1, <3>2, <3>3
  <2>2. IsFiniteSet(Owed(t)')
    BY <1>0, <2>1, OwedFinite, FS_Subset DEF SubInv
  <2>3. Cardinality(Owed(t)) = Cardinality(Owed(t)') + 1 /\ Cardinality(Owed(t)') \in Nat
    BY <2>1, <2>2, CountOne
  <2>4. /\ extended[t] \in Nat /\ extended'[t] = extended[t] + 1
        /\ \A u \in Tenants \ {t} : extended'[u] = extended[u]
    BY <1>0, <1>3 DEF SubInv, TypeOK
  <2>5. payments[t] \in Nat /\ Cardinality(PaidEvents(t)) \in Nat
    BY <1>0, OwedFinite DEF SubInv, TypeOK
  <2>6. /\ extended'[t] + Cardinality(Owed(t)') = extended[t] + Cardinality(Owed(t)) + 0
        /\ payments'[t] + Cardinality(PaidEvents(t)') = payments[t] + Cardinality(PaidEvents(t)) + 0
    <3>1. payments'[t] = payments[t] /\ PaidEvents(t)' = PaidEvents(t)
      BY <1>0, <1>1
    <3>2. extended'[t] + Cardinality(Owed(t)') = extended[t] + Cardinality(Owed(t)) + 0
      BY <2>3, <2>4
    <3>3. payments'[t] + Cardinality(PaidEvents(t)') = payments[t] + Cardinality(PaidEvents(t)) + 0
      BY <2>5, <3>1
    <3> QED
      BY <3>2, <3>3
  <2>7. \A u \in Tenants \ {t} : /\ Owed(u)' = Owed(u) /\ PaidEvents(u)' = PaidEvents(u)
                                  /\ extended'[u] = extended[u] /\ payments'[u] = payments[u]
    BY <1>0, <1>1, <2>1, <2>4
  <2> QED
    BY <1>0, <2>6, <2>7, BalancedShifts
<1>4. CASE ~Pays(q)
  <2>1. \A u \in Tenants : Owed(u)' = Owed(u)
    BY <1>0, <1>2, <1>4, OwedBySteps
  <2> QED
    BY <1>0, <1>1, <1>4, <2>1, BalancedStays
<1> QED
  BY <1>3, <1>4

\* A request that fails owes no more; under the rule it has recorded nothing.
LEMMA FailBalanced ==
    ASSUME SubInv, SubInv', Balanced, rule' = rule, NEW q \in Requests, Fail(q),
           rule = "serial" => ~Committed(q)
    PROVE  Balanced'
<1>0. /\ q \in DOMAIN req /\ req' = [req EXCEPT ![q] = req'[q]] /\ req'[q].step = "idle"
      /\ sent' = sent /\ recorded' = recorded /\ payments' = payments /\ extended' = extended
  BY IdleType DEF Fail, stripe, SubInv, TypeOK
<1>1. \A u \in Tenants : PaidEvents(u)' = PaidEvents(u)
  BY <1>0 DEF PaidEvents
<1>2. ASSUME NEW u \in Tenants
      PROVE  /\ Cardinality(Owed(u)') <= Cardinality(Owed(u))
             /\ rule = "serial" => Owed(u)' = Owed(u)
             /\ Cardinality(Owed(u)') \in Nat
  <2>1. q \notin Owed(u)'
    BY <1>0 DEF Owed
  <2>2. CASE q \in Owed(u)
    <3>1. Owed(u) = Owed(u)' \cup {q}
      BY <1>0, <2>1, <2>2, OwedBySteps
    <3>2. IsFiniteSet(Owed(u)')
      BY <3>1, OwedFinite, FS_Subset DEF SubInv
    <3>3. Cardinality(Owed(u)) = Cardinality(Owed(u)') + 1 /\ Cardinality(Owed(u)') \in Nat
      BY <2>1, <3>1, <3>2, CountOne
    <3>4. rule # "serial"
      BY <2>2 DEF Owed, Committed
    <3> QED
      BY <3>3, <3>4
  <2>3. CASE q \notin Owed(u)
    <3>1. Owed(u)' = Owed(u)
      BY <1>0, <2>1, <2>3, OwedBySteps
    <3> QED
      BY <3>1, OwedFinite DEF SubInv
  <2> QED
    BY <2>2, <2>3
<1>3. \A u \in Tenants : /\ extended[u] \in Nat /\ payments[u] \in Nat
                         /\ Cardinality(Owed(u)) \in Nat /\ Cardinality(PaidEvents(u)) \in Nat
  BY OwedFinite DEF SubInv, TypeOK
<1> QED
  BY <1>0, <1>1, <1>2, <1>3 DEF Balanced

LEMMA BalancedNext ==
    ASSUME SubInv, SubInv', Balanced, [RuledNext]_<<vars, rule>>
    PROVE  Balanced'
<1>0. rule' = rule
  BY DEF RuledNext
<1>1. CASE UNCHANGED <<vars, rule>>
  <2>1. \A t \in Tenants : Owed(t)' = Owed(t) /\ PaidEvents(t)' = PaidEvents(t)
    BY <1>1 DEF vars, Owed, Pays, PaidEvents
  <2> QED
    BY <1>1, <2>1, BalancedStays DEF vars
<1>2. CASE Tick \/ SweepExpiries
  <2>1. \A t \in Tenants : Owed(t)' = Owed(t) /\ PaidEvents(t)' = PaidEvents(t)
    BY <1>2 DEF Tick, SweepExpiries, stripe, Owed, Pays, PaidEvents
  <2> QED
    BY <1>0, <1>2, <2>1, BalancedStays DEF Tick, SweepExpiries
<1>3. ASSUME NEW e \in Events, NEW u \in Tenants, NEW n \in Periods,
             Send(e, u, "paid", n) \/ Send(e, u, "ended", n)
      PROVE  Balanced'
  <2>1. /\ sent[e].kind = "unsent" /\ e \notin recorded /\ req' = req /\ recorded' = recorded
        /\ payments' = payments /\ extended' = extended
        /\ \A f \in Events \ {e} : sent'[f] = sent[f]
    BY <1>3 DEF Send, Unsent, SubInv, TypeOK, EventsReady
  <2>2. \A q \in Requests : Pays(q)' <=> Pays(q)
    BY <2>1 DEF Pays, SubInv, ReqReady
  <2>3. \A t \in Tenants : Owed(t)' = Owed(t) /\ PaidEvents(t)' = PaidEvents(t)
    BY <2>1, <2>2 DEF Owed, PaidEvents, SubInv, TypeOK
  <2> QED
    BY <1>0, <2>1, <2>3, BalancedStays
<1>4. ASSUME NEW q \in Requests, NEW t \in Tenants, PlatformStep(q, t) \/ BillingStep(q, t)
      PROVE  Balanced'
  <2>1. PICK op, step, data : Operate(q, t, op, step, data) /\ Planned(t, op, step, data)
    BY <1>4, StepsArePlanned DEF SubInv
  <2> QED
    BY <1>0, <2>1, OperateBalanced
<1>5. ASSUME NEW q \in Requests,
             \/ InsertPayment(q) \/ \E e \in Events : Webhook(q, e)
             \/ MarkEventProcessed(q) \/ ReadTenant(q) \/ ApplyInvoicePaid(q)
      PROVE  Balanced'
  BY <1>0, <1>5, RequestBalanced
<1>6. ASSUME NEW q \in Requests, WriteTenant(q)
      PROVE  Balanced'
  BY <1>0, <1>6, WriteTenantBalanced
<1>7. ASSUME NEW q \in Requests, Fail(q), rule = "serial" => ~Committed(q)
      PROVE  Balanced'
  BY <1>0, <1>7, FailBalanced
<1>8. CASE Work
  BY <1>2, <1>3, <1>4, <1>5, <1>6, <1>8 DEF Work, StripeStep
<1> QED
  BY <1>1, <1>7, <1>8 DEF RuledNext, Next

-----------------------------------------------------------------------------
\* What requests that follow one another rest on

\* What is in flight still counts on from the end its tenant has.
RestsOn(q) ==
    /\ req[q].step \in {"insert", "write"} /\ Extends(q) =>
        \E n \in Periods : req[q].data.end >= Left(tenant[req[q].tenant].end) + n
    /\ req[q].step = "compute" => req[q].end = tenant[req[q].tenant].end
    /\ req[q].step \in {"mark", "read", "compute"} => req[q].data.end = None

SerialInv == rule = "serial" => OneWriter /\ \A q \in Requests : RestsOn(q)

\* A request another one does not disturb.
LEMMA RestsUndisturbed ==
    ASSUME NEW p \in Requests, RestsOn(p), req'[p] = req[p],
           Committed(p) => tenant'[req[p].tenant].end = tenant[req[p].tenant].end
    PROVE  RestsOn(p)'
BY DEF RestsOn, Extends, Committed

LEMMA OperateRests ==
    ASSUME SubInv, NEW q \in Requests, NEW t \in Tenants, NEW op, NEW step, NEW data,
           Operate(q, t, op, step, data), Planned(t, op, step, data)
    PROVE  RestsOn(q)' /\ tenant' = tenant /\ req' = [req EXCEPT ![q] = req'[q]]
<1>1. /\ req'[q].op = op /\ req'[q].step = step /\ req'[q].tenant = t /\ req'[q].data = data
      /\ tenant' = tenant /\ req' = [req EXCEPT ![q] = req'[q]]
  BY DEF Operate, Idle, SubInv, TypeOK
<1> QED
  BY <1>1 DEF Planned, RestsOn, Extends

LEMMA RequestRests ==
    ASSUME SubInv, NEW q \in Requests, RestsOn(q),
           \/ InsertPayment(q) \/ \E e \in Events : Webhook(q, e)
           \/ MarkEventProcessed(q) \/ ReadTenant(q) \/ ApplyInvoicePaid(q) \/ Fail(q)
    PROVE  RestsOn(q)' /\ tenant' = tenant /\ req' = [req EXCEPT ![q] = req'[q]]
<1>0. q \in DOMAIN req /\ req[q] \in Request
  BY DEF SubInv, TypeOK
<1>1. tenant' = tenant /\ req' = [req EXCEPT ![q] = req'[q]]
  BY <1>0 DEF InsertPayment, Webhook, MarkEventProcessed, ReadTenant, ApplyInvoicePaid, Fail
<1>2. CASE InsertPayment(q)
  <2>1. /\ req[q].step = "insert" /\ req'[q].step = "write" /\ req'[q].op = req[q].op
        /\ req'[q].data = req[q].data /\ req'[q].tenant = req[q].tenant
    BY <1>0, <1>2 DEF InsertPayment, Request
  <2> QED
    BY <1>1, <2>1 DEF RestsOn, Extends
<1>3. CASE \E e \in Events : Webhook(q, e)
  <2>1. req'[q].step = "mark" /\ req'[q].data = Idle.data
    BY <1>0, <1>3, IdleType DEF Webhook, Request
  <2>2. Idle.data.end = None
    BY DEF Idle, NoData
  <2> QED
    BY <1>1, <2>1, <2>2 DEF RestsOn
<1>4. CASE MarkEventProcessed(q)
  <2>1. /\ req[q].step = "mark"
        /\ \/ req'[q].step = "idle"
           \/ req'[q].step = "read" /\ req'[q].data = req[q].data
    BY <1>0, <1>4, IdleType DEF MarkEventProcessed, Request
  <2> QED
    BY <1>1, <2>1 DEF RestsOn
<1>5. CASE ReadTenant(q)
  <2>1. CASE sent[req[q].event].kind = "paid"
    <3>1. /\ req[q].step = "read" /\ req'[q].step = "compute" /\ req'[q].data = req[q].data
          /\ req'[q].end = tenant[req[q].tenant].end /\ req'[q].tenant = req[q].tenant
      BY <1>0, <1>5, <2>1 DEF ReadTenant, Request
    <3> QED
      BY <1>1, <3>1 DEF RestsOn
  <2>2. CASE sent[req[q].event].kind # "paid"
    <3>1. /\ req[q].step = "read" /\ req'[q].step = "write"
          /\ req'[q].data.end = req[q].data.end
      BY <1>0, <1>5, <2>2 DEF ReadTenant, Request, Data
    <3> QED
      BY <1>1, <3>1 DEF RestsOn, Extends
  <2> QED
    BY <2>1, <2>2
<1>6. CASE ApplyInvoicePaid(q)
  <2> DEFINE n == sent[req[q].event].period
  <2>1. n \in Periods /\ req[q].end \in Date
    BY <1>0, <1>6 DEF SubInv, ReqReady, EventsReady, ApplyInvoicePaid, Request
  <2>2. Extension(req[q].end, n) >= Left(req[q].end) + n
    BY <2>1, ExtensionAdds DEF SubInv
  <2>3. /\ req[q].step = "compute" /\ req'[q].step = "write" /\ req'[q].tenant = req[q].tenant
        /\ req'[q].data.end = Extension(req[q].end, n)
    BY <1>0, <1>6 DEF ApplyInvoicePaid, Request, Data
  <2>4. req[q].end = tenant[req[q].tenant].end
    BY <2>3 DEF RestsOn
  <2>5. req'[q].data.end >= Left(tenant'[req'[q].tenant].end) + n
    BY <1>1, <2>2, <2>3, <2>4
  <2> QED
    BY <1>1, <2>1, <2>3, <2>5 DEF RestsOn, Extends
<1>7. CASE Fail(q)
  <2>1. req'[q].step = "idle"
    BY <1>0, <1>7, IdleType DEF Fail
  <2> QED
    BY <1>1, <2>1 DEF RestsOn
<1> QED
  BY <1>1, <1>2, <1>3, <1>4, <1>5, <1>6, <1>7

LEMMA SerialNext ==
    ASSUME SubInv, SubInv', SerialInv, [RuledNext]_<<vars, rule>>
    PROVE  SerialInv'
<1>0. CASE UNCHANGED <<vars, rule>>
  BY <1>0 DEF SerialInv, OneWriter, RestsOn, Committed, Extends, vars
<1> SUFFICES ASSUME RuledNext, rule' = "serial" PROVE \A p \in Requests : RestsOn(p)'
  <2>1. ASSUME RuledNext, rule' = "serial" PROVE OneWriter'
    BY <2>1 DEF RuledNext
  <2> QED
    BY <1>0, <2>1 DEF SerialInv
<1>1. OneWriter /\ \A p \in Requests : RestsOn(p)
  BY DEF RuledNext, SerialInv
<1>2. CASE Tick \/ SweepExpiries \/ StripeStep
  <2>1. req' = req
    BY <1>2 DEF Tick, SweepExpiries, StripeStep, Send
  <2>2. \A t \in Tenants : tenant'[t].end = tenant[t].end
    BY <1>2 DEF Tick, SweepExpiries, StripeStep, Send, SubInv, TypeOK, TenantRow
  <2>3. \A p \in Requests : Committed(p) => req[p].tenant \in Tenants
    BY DEF Committed, SubInv, ReqReady
  <2> QED
    BY <1>1, <2>1, <2>2, <2>3, RestsUndisturbed
<1>3. ASSUME NEW q \in Requests, tenant' = tenant, req' = [req EXCEPT ![q] = req'[q]],
             RestsOn(q)'
      PROVE  \A p \in Requests : RestsOn(p)'
  <2>1. \A p \in Requests \ {q} : req'[p] = req[p]
    BY <1>3 DEF SubInv, TypeOK
  <2> QED
    BY <1>1, <1>3, <2>1, RestsUndisturbed
<1>4. ASSUME NEW q \in Requests, NEW t \in Tenants, PlatformStep(q, t) \/ BillingStep(q, t)
      PROVE  \A p \in Requests : RestsOn(p)'
  <2>1. PICK op, step, data : Operate(q, t, op, step, data) /\ Planned(t, op, step, data)
    BY <1>4, StepsArePlanned DEF SubInv
  <2>2. RestsOn(q)' /\ tenant' = tenant /\ req' = [req EXCEPT ![q] = req'[q]]
    BY <2>1, OperateRests
  <2> QED
    BY <1>3, <2>2
<1>5. ASSUME NEW q \in Requests,
             \/ InsertPayment(q) \/ \E e \in Events : Webhook(q, e)
             \/ MarkEventProcessed(q) \/ ReadTenant(q) \/ ApplyInvoicePaid(q) \/ Fail(q)
      PROVE  \A p \in Requests : RestsOn(p)'
  <2>1. RestsOn(q)' /\ tenant' = tenant /\ req' = [req EXCEPT ![q] = req'[q]]
    BY <1>1, <1>5, RequestRests
  <2> QED
    BY <1>3, <2>1
<1>6. ASSUME NEW q \in Requests, WriteTenant(q), NEW p \in Requests
      PROVE  RestsOn(p)'
  <2>1. CASE p = q
    <3>1. req'[p].step = "idle"
      BY <1>6, <2>1, IdleType DEF WriteTenant, SubInv, TypeOK
    <3> QED
      BY <3>1 DEF RestsOn
  <2>2. CASE p # q
    <3>1. req'[p] = req[p]
      BY <1>6, <2>2 DEF WriteTenant, SubInv, TypeOK
    <3>2. Committed(p) => req[p].tenant # req[q].tenant /\ req[p].tenant \in Tenants
      BY <1>1, <1>6, <2>2 DEF OneWriter, Committed, WriteTenant, SubInv, ReqReady
    <3>3. Committed(p) => tenant'[req[p].tenant] = tenant[req[p].tenant]
      BY <1>6, <3>2 DEF WriteTenant, SubInv, TypeOK
    <3> QED
      BY <1>1, <3>1, <3>3, RestsUndisturbed
  <2> QED
    BY <2>1, <2>2
<1> QED
  BY <1>2, <1>4, <1>5, <1>6 DEF RuledNext, Work, Next

-----------------------------------------------------------------------------

LEMMA RuledSub == ASSUME SubInv, [RuledNext]_<<vars, rule>> PROVE SubInv'
<1>1. [Next]_vars
  BY DEF RuledNext, Next, vars
<1> QED
  BY <1>1, NextInv

LEMMA RuledBegins == RuledInit => SubInv /\ Balanced /\ SerialInv
<1> SUFFICES ASSUME RuledInit PROVE SubInv /\ Balanced /\ SerialInv
  OBVIOUS
<1>1. SubInv
  BY InitInv DEF RuledInit
<1>2. \A q \in Requests : req[q].step = "idle"
  BY IdleType DEF RuledInit, Init
<1>3. SerialInv
  BY <1>2 DEF SerialInv, OneWriter, Committed, RestsOn
<1>4. \A t \in Tenants : Owed(t) = {} /\ PaidEvents(t) = {} /\ extended[t] = 0 /\ payments[t] = 0
  BY <1>2 DEF Owed, PaidEvents, RuledInit, Init
<1>5. Balanced
  <2>1. ASSUME NEW t \in Tenants
        PROVE  /\ extended[t] + Cardinality(Owed(t)) <= payments[t] + Cardinality(PaidEvents(t))
               /\ extended[t] + Cardinality(Owed(t)) = payments[t] + Cardinality(PaidEvents(t))
    <3>1. Cardinality(Owed(t)) = 0 /\ Cardinality(PaidEvents(t)) = 0
      BY <1>4, FS_EmptySet
    <3>2. extended[t] = 0 /\ payments[t] = 0
      BY <1>4
    <3> QED
      BY <3>1, <3>2
  <2> QED
    BY <2>1 DEF Balanced
<1> QED
  BY <1>1, <1>3, <1>5

\* Every row, event and request holds a value of its type, whichever of the
\* handlers of PlatformService, BillingService and StripeService wrote it.
THEOREM SubscriptionTyped == RuledSpec => []TypeOK
<1>1. SubInv => TypeOK
  BY DEF SubInv
<1> QED
  BY <1>1, RuledBegins, RuledSub, PTL DEF RuledSpec

\* Whatever transitions, trials, payments and deletions interleave, a tenant that
\* is ACTIVE has an end, which the sweep finds.
THEOREM ActiveAlwaysEnds == RuledSpec => []ActiveHasEnd
<1>1. SubInv => ActiveHasEnd
  BY DEF SubInv
<1> QED
  BY <1>1, RuledBegins, RuledSub, PTL DEF RuledSpec

\* However often Stripe delivers an event, and whatever fails, no tenant is extended
\* more often than payments of it were recorded.
THEOREM NotExtendedTwice == RuledSpec => []NeverExtendedTwice
<1>1. SubInv /\ Balanced => NeverExtendedTwice
  <2> SUFFICES ASSUME SubInv, Balanced, NEW t \in Tenants
               PROVE  extended[t] <= payments[t] + Cardinality(PaidEvents(t))
    BY DEF NeverExtendedTwice
  <2>1. /\ extended[t] \in Nat /\ payments[t] \in Nat
        /\ Cardinality(Owed(t)) \in Nat /\ Cardinality(PaidEvents(t)) \in Nat
    BY OwedFinite DEF SubInv, TypeOK
  <2> QED
    BY <2>1 DEF Balanced
<1>2. SubInv /\ Balanced /\ [RuledNext]_<<vars, rule>> => (SubInv /\ Balanced)'
  BY RuledSub, BalancedNext
<1> QED
  BY <1>1, <1>2, RuledBegins, PTL DEF RuledSpec

\* Requests about one tenant that follow one another write every payment that was
\* recorded, by hand or by the webhook.
THEOREM EveryPaymentCounted == RuledSpec => []EveryPaymentExtends
<1>1. SubInv /\ Balanced => EveryPaymentExtends
  <2> SUFFICES ASSUME SubInv, Balanced, rule = "serial", NEW t \in Tenants,
                      \A q \in Requests : req[q].tenant # t \/ ~Committed(q)
               PROVE  extended[t] = payments[t] + Cardinality(PaidEvents(t))
    BY DEF EveryPaymentExtends
  <2>1. Owed(t) = {}
    BY DEF Owed, Committed
  <2>2. Cardinality(Owed(t)) = 0
    BY <2>1, FS_EmptySet
  <2>3. extended[t] + Cardinality(Owed(t)) = payments[t] + Cardinality(PaidEvents(t))
    BY DEF Balanced
  <2>4. extended[t] \in Nat
    BY DEF SubInv, TypeOK
  <2>5. extended[t] + Cardinality(Owed(t)) = extended[t]
    BY <2>2, <2>4
  <2> QED
    BY <2>3, <2>5
<1>2. SubInv /\ Balanced /\ [RuledNext]_<<vars, rule>> => (SubInv /\ Balanced)'
  BY RuledSub, BalancedNext
<1> QED
  BY <1>1, <1>2, RuledBegins, PTL DEF RuledSpec

\* Requests about one tenant that follow one another add what is paid or granted to
\* what is left: none rests on an end that another has moved since it was read.
THEOREM AddsToLeft == RuledSpec => AddsToWhatIsLeft
<1> DEFINE Adds ==
        rule = "serial" =>
            \A q \in Requests :
                LET old == tenant[req[q].tenant].end
                    new == tenant'[req[q].tenant].end
                IN  (WriteTenant(q) /\ Extends(q)) =>
                        \E n \in Periods : new >= (IF old = None THEN 0 ELSE old) + n
<1>1. SubInv /\ SerialInv => Adds
  <2> SUFFICES ASSUME SubInv, SerialInv, rule = "serial", NEW q \in Requests,
                      WriteTenant(q), Extends(q)
               PROVE  \E n \in Periods : tenant'[req[q].tenant].end
                                            >= Left(tenant[req[q].tenant].end) + n
    BY DEF Left
  <2>1. PICK n \in Periods : req[q].data.end >= Left(tenant[req[q].tenant].end) + n
    BY DEF SerialInv, RestsOn, WriteTenant
  <2>2. req[q].tenant \in Tenants /\ req[q].data.end # None
    BY DEF SubInv, ReqReady, WriteTenant, Extends
  <2>3. tenant'[req[q].tenant].end = req[q].data.end
    BY <2>2 DEF WriteTenant, Updated, Given, SubInv, TypeOK
  <2> QED
    BY <2>1, <2>3
<1>2. SubInv /\ SerialInv /\ [RuledNext]_<<vars, rule>> => (SubInv /\ SerialInv)'
  BY RuledSub, SerialNext
<1>3. RuledSpec => [](SubInv /\ SerialInv)
  BY <1>2, RuledBegins, PTL DEF RuledSpec
<1>4. RuledSpec => [][Adds]_<<vars, rule>>
  BY <1>1, <1>3, PTL
<1> QED
  BY <1>4 DEF AddsToWhatIsLeft
=============================================================================
