------------------------------ MODULE Registry ------------------------------
(***************************************************************************)
(* What a tenant registers: users by e-mail, vehicles by registration,       *)
(* clients by identity number; and tenants themselves by slug.  A creation   *)
(* asks for the plan's limit, looks for the same key, and inserts: statements *)
(* of different services.  Deletion only stamps deletedAt, so a deleted row  *)
(* keeps its key in the unique index.  A second kind of creation draws a     *)
(* number for the new row, see Numbering.                                    *)
(***************************************************************************)
EXTENDS Numbering

CONSTANTS
    Keys,
    Clerks,        \* requests that can be in flight together
    Plans,
    Quota,         \* Quota[plan][kind]: maxUsers, maxVehicles, or Unlimited
    Unlimited,
    MaxNumber      \* bound: the greatest number that is drawn

VARIABLES
    kind,      \* what is registered; kinds share no row, so there is one
    plan,      \* of the tenant
    row,       \* row[key]
    used,      \* the numbers that are taken, of deleted rows too
    clerk,     \* the request in flight, or Idle
    answer     \* the status of the last answer to a creation

registryVars == <<kind, plan, row, used, clerk, answer>>

Kinds == {"user", "vehicle", "client", "tenant"}

\* step: what comes next; quota: the limit as read; number: the one to insert.
Request == [step : {"idle", "plan", "count", "unique", "insert", "store"},
            key : Keys, quota : Nat \cup {Unlimited}, number : Nat]

Idle == [step |-> "idle", key |-> CHOOSE k \in Keys : TRUE, quota |-> Unlimited, number |-> 0]

Live == {k \in Keys : row[k] = "LIVE"}

RegistryInit ==
    /\ kind \in Kinds
    /\ plan \in Plans
    /\ row = [k \in Keys |-> "ABSENT"]
    /\ used = {}
    /\ clerk = [q \in Clerks |-> Idle]
    /\ answer = 201

Reply(q, status) ==
    /\ clerk' = [clerk EXCEPT ![q] = Idle]
    /\ answer' = status

Step(q, from) == clerk[q].step = from

Goto(q, to) ==
    /\ clerk' = [clerk EXCEPT ![q].step = to]
    /\ UNCHANGED answer

-----------------------------------------------------------------------------
\* createForTenant, VehiclesService.create, ClientsService.create, register

\* Clients and tenants have no limit.
Create(q, key) ==
    /\ clerk[q] = Idle
    /\ clerk' = [clerk EXCEPT ![q] = [Idle EXCEPT !.key = key,
            !.step = IF kind \in {"user", "vehicle"} THEN "plan" ELSE "unique"]]
    /\ UNCHANGED <<kind, plan, row, used, answer>>

\* enforce
ReadPlan(q) ==
    /\ Step(q, "plan")
    /\ LET quota == Quota[plan][kind]
       IN  clerk' = [clerk EXCEPT ![q].quota = quota,
                                  ![q].step = IF quota = Unlimited THEN "unique" ELSE "count"]
    /\ UNCHANGED <<kind, plan, row, used, answer>>

\* Mutant: one more than the limit is let in.
CountLate(q) ==
    /\ Step(q, "count")
    /\ IF Cardinality(Live) > clerk[q].quota THEN Reply(q, 403) ELSE Goto(q, "unique")
    /\ UNCHANGED <<kind, plan, row, used>>

CountRows(q) ==
    /\ Step(q, "count")
    /\ IF Cardinality(Live) >= clerk[q].quota THEN Reply(q, 403) ELSE Goto(q, "unique")
    /\ UNCHANGED <<kind, plan, row, used>>

\* findByEmail and findBySlug see deleted rows, the other two do not.
Found(key) == IF kind \in {"user", "tenant"} THEN row[key] # "ABSENT" ELSE row[key] = "LIVE"

FindSame(q) ==
    /\ Step(q, "unique")
    /\ IF Found(clerk[q].key) THEN Reply(q, 409) ELSE Goto(q, "insert")
    /\ UNCHANGED <<kind, plan, row, used>>

\* A row with the key, deleted or not, fails the insert; only register turns
\* that into an answer of its own.
InsertRow(q) ==
    /\ Step(q, "insert")
    /\ IF row[clerk[q].key] = "ABSENT"
       THEN Reply(q, 201) /\ row' = [row EXCEPT ![clerk[q].key] = "LIVE"]
       ELSE Reply(q, IF kind = "tenant" THEN 409 ELSE 500) /\ UNCHANGED row
    /\ UNCHANGED <<kind, plan, used>>

-----------------------------------------------------------------------------
\* Other writes

Delete(key) ==
    /\ row[key] = "LIVE"
    /\ row' = [row EXCEPT ![key] = "DELETED"]
    /\ UNCHANGED <<kind, plan, used, clerk, answer>>

\* No limit is asked for, and a tenant is not restored.
Restore(key) ==
    /\ kind # "tenant"
    /\ row[key] = "DELETED"
    /\ row' = [row EXCEPT ![key] = "LIVE"]
    /\ UNCHANGED <<kind, plan, used, clerk, answer>>

\* PATCH of a registration; one that is taken fails.
Reregister(from, to) ==
    /\ kind = "vehicle"
    /\ row[from] = "LIVE"
    /\ row[to] = "ABSENT"
    /\ row' = [row EXCEPT ![from] = "ABSENT", ![to] = "LIVE"]
    /\ UNCHANGED <<kind, plan, used, clerk, answer>>

ChangePlan(to) ==
    /\ to # plan
    /\ plan' = to
    /\ UNCHANGED <<kind, row, used, clerk, answer>>

-----------------------------------------------------------------------------
\* generateCode, generateNumber and the like

DrawNumber(q) ==
    /\ clerk[q] = Idle
    /\ NextNumber(used) <= MaxNumber
    /\ clerk' = [clerk EXCEPT ![q] = [Idle EXCEPT !.step = "store", !.number = NextNumber(used)]]
    /\ UNCHANGED <<kind, plan, row, used, answer>>

StoreNumbered(q) ==
    /\ Step(q, "store")
    /\ Reply(q, IF clerk[q].number \in used THEN 500 ELSE 201)
    /\ used' = used \cup {clerk[q].number}
    /\ UNCHANGED <<kind, plan, row>>

-----------------------------------------------------------------------------

RegistryNext ==
    \/ \E q \in Clerks :
        \/ \E key \in Keys : Create(q, key)
        \/ ReadPlan(q)
        \/ CountRows(q)
        \/ FindSame(q)
        \/ InsertRow(q)
        \/ DrawNumber(q)
        \/ StoreNumbered(q)
    \/ \E key \in Keys : Delete(key) \/ Restore(key)
    \/ \E from, to \in Keys : Reregister(from, to)
    \/ \E to \in Plans : ChangePlan(to)

RegistryTypeOK ==
    /\ kind \in Kinds
    /\ plan \in Plans
    /\ row \in [Keys -> {"ABSENT", "LIVE", "DELETED"}]
    /\ used \subseteq 1..MaxNumber
    /\ clerk \in [Clerks -> Request]
    /\ answer \in {201, 403, 409, 500}
=============================================================================
