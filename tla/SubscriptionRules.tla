------------------------- MODULE SubscriptionRules -------------------------
(***************************************************************************)
(* What the subscription of a tenant promises: what holds however requests,  *)
(* deliveries and failures interleave, and what holds if they do not get in  *)
(* each other's way.  The code has no rule; a behaviour keeps one from its   *)
(* beginning to its end.                                                     *)
(***************************************************************************)
EXTENDS Subscription, FiniteSets

ASSUME FiniteAssumption == IsFiniteSet(Requests) /\ IsFiniteSet(Events)

VARIABLE rule

\* "none": what the code allows.  "serial": requests that are about to write one
\* tenant follow one another, and none of them fails between two writes.
Rules == {"none", "serial"}

\* Has request q begun to rest on what it read or wrote?
Committed(q) == req[q].step \notin {"idle", "mark"}

OneWriter ==
    \A p, q \in Requests :
        (p # q /\ Committed(p) /\ Committed(q)) => req[p].tenant # req[q].tenant

RuledInit == Init /\ rule \in Rules

RuledNext ==
    /\ \/ rule = "none" /\ Next
       \/ /\ rule = "serial"
          /\ Work \/ \E q \in Requests : ~Committed(q) /\ Fail(q)
          /\ OneWriter'
    /\ UNCHANGED rule

RuledSpec == RuledInit /\ [][RuledNext]_<<vars, rule>>

-----------------------------------------------------------------------------
\* Does q write an end that counts on from the one it read?
Extends(q) == req[q].op \in {"extend", "payment", "webhook"} /\ req[q].data.end # None

\* The events of t that say a period was paid and that the server has recorded.
PaidEvents(t) == {e \in recorded : sent[e].kind = "paid" /\ sent[e].tenant = t}

\* However often Stripe delivers an event, and while earlier deliveries are
\* still served, a payment extends a subscription at most once.
NeverExtendedTwice ==
    \A t \in Tenants : extended[t] <= payments[t] + Cardinality(PaidEvents(t))

\* Requests that do not get in each other's way write every payment, manual or
\* through Stripe, to the tenant exactly once.
EveryPaymentExtends ==
    rule = "serial" =>
        \A t \in Tenants :
            (\A q \in Requests : req[q].tenant # t \/ ~Committed(q)) =>
                extended[t] = payments[t] + Cardinality(PaidEvents(t))

\* schema.prisma: "The presence of a row means this event was already processed".
RecordedIsProcessed ==
    \A e \in recorded :
        e \in processed \/ \E q \in Requests : req[q].event = e /\ Committed(q)

\* However requests interleave, an ACTIVE tenant has an end, so that the sweep
\* finds it one day: no order of trial, payment, suspension, cancellation and
\* activation gives it a subscription without one.
ActiveHasEnd ==
    \A t \in Tenants : tenant[t].status = "ACTIVE" => tenant[t].end # None

\* What is paid or granted is added to what is left: a tenant never pays for
\* days it had already.
AddsToWhatIsLeft ==
    [][rule = "serial" =>
        \A q \in Requests :
            LET old == tenant[req[q].tenant].end
                new == tenant'[req[q].tenant].end
            IN  (WriteTenant(q) /\ Extends(q)) =>
                    \E n \in Periods : new >= (IF old = None THEN 0 ELSE old) + n]_<<vars, rule>>
=============================================================================
