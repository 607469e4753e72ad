------------------------------- MODULE Office -------------------------------
(***************************************************************************)
(* The back office: the fleet and its alerts, the credits behind it, what a  *)
(* tenant registers, and the backups.  These components share no row, so a   *)
(* behaviour is about one of them, the scene; the rule of use under which    *)
(* its properties hold goes with the scene.                                  *)
(***************************************************************************)
EXTENDS Fleet, FiniteSetsExt

CONSTANTS
    Payers, Financed, Rates, Terms, Sums, Ahead, LastDay,                   \* Credits
    Keys, Clerks, Plans, Quota, Unlimited, MaxNumber, Base, Width,          \* Registry
    Nights, Retention                                                       \* Backup

\* Amounts are whole cents, a credit finances some and has an installment, a rate
\* is a fraction, a limit a number of rows, and the numbers of rows have digits.
ASSUME OfficeAssumption ==
    /\ Financed \subseteq Nat \ {0} /\ Sums \subseteq Nat /\ Terms \subseteq Nat \ {0}
    /\ Rates \subseteq Nat \X (Nat \ {0})
    /\ Ahead \in Nat /\ LastDay \in Nat
    /\ Keys # {} /\ Plans # {} /\ IsFiniteSet(Clerks) /\ Clerks # {}
    /\ Unlimited \notin Nat
    /\ Quota \in [Plans -> [{"user", "vehicle"} -> Nat \cup {Unlimited}]]
    /\ MaxNumber \in Nat /\ Base \in Nat \ {0, 1} /\ Width \in Nat
    /\ Nights # {} /\ Retention \in Nat

VARIABLES
    scene,
    date, credit, installment, dunning, cashed, call,
    kind, plan, row, used, clerk, answer,
    archive, phase, backup, pruned, database

creditVars == <<date, credit, installment, dunning, cashed, call>>
registryVars == <<kind, plan, row, used, clerk, answer>>
backupVars == <<archive, phase, backup, pruned, database>>

vars == <<scene, fleetVars, creditVars, registryVars, backupVars>>

C == INSTANCE Credits
R == INSTANCE Registry
B == INSTANCE Backup

-----------------------------------------------------------------------------
\* Rules of use

\* Resyncs do not overlap, are not cut short, and nobody resolves an alert
\* meanwhile; the odometer has one writer at a time.
FleetRule ==
    /\ \A p, q \in Mechanics : p # q =>
        /\ ~(Syncing(p)' /\ Syncing(q)')
        /\ ~({job'[p].step, job'[q].step} \subseteq {"record", "patch", "return"})
    /\ \A q \in Mechanics : Syncing(q) =>
        /\ open' = open \/ job' # job
        /\ job'[q] = Rest => job[q].step = "schedules" /\ job[q].agenda = <<>>

\* One request at a time, and none is cut short.
CreditRule ==
    /\ Cardinality({q \in Payers : call'[q] # C!Hung}) <= 1
    /\ \A q \in Payers : ~C!HangUp(q)

\* Deleted rows stay deleted and the plan stays the same.
RegistryRule ==
    /\ plan' = plan
    /\ \A key \in Keys : row[key] = "DELETED" => row'[key] # "LIVE"

\* A number is stored before the next one is drawn.
NumbersRule == Cardinality({q \in Clerks : clerk'[q] # R!Idle}) <= 1

-----------------------------------------------------------------------------

\* What only another scene would change has one initial value.
OfficeInit ==
    /\ scene \in {"fleet", "credit", "credit races", "registry", "restorations", "numbers", "backup"}
    /\ FleetInit /\ C!CreditInit /\ R!RegistryInit /\ B!BackupInit
    /\ scene = "fleet" \/ vehicle.expiry = [d \in Documents |-> None]
    /\ scene # "registry" => kind = "vehicle" /\ plan = CHOOSE p \in Plans : TRUE
    /\ scene = "backup" \/ backup.night = CHOOSE n \in Nights : TRUE

FleetScene ==
    /\ scene = "fleet"
    /\ FleetNext
    /\ FleetRule
    /\ UNCHANGED <<scene, creditVars, registryVars, backupVars>>

CreditScene ==
    /\ scene \in {"credit", "credit races"}
    /\ C!CreditNext
    /\ IF scene = "credit" THEN CreditRule ELSE date' = date
    /\ UNCHANGED <<scene, fleetVars, registryVars, backupVars>>

RegistryScene ==
    /\ scene \in {"registry", "restorations"}
    /\ R!RegistryNext
    /\ used' = used
    /\ scene = "registry" => RegistryRule
    /\ UNCHANGED <<scene, fleetVars, creditVars, backupVars>>

NumbersScene ==
    /\ scene = "numbers"
    /\ R!RegistryNext
    /\ row' = row
    /\ NumbersRule
    /\ UNCHANGED <<scene, fleetVars, creditVars, backupVars>>

BackupScene ==
    /\ scene = "backup"
    /\ B!BackupNext
    /\ UNCHANGED <<scene, fleetVars, creditVars, registryVars>>

OfficeNext ==
    \/ FleetScene
    \/ CreditScene
    \/ RegistryScene
    \/ NumbersScene
    \/ BackupScene

OfficeSpec == OfficeInit /\ [][OfficeNext]_vars

-----------------------------------------------------------------------------
\* Properties

\* Each variable holds a row, a count or a request of its kind.
TypeOK ==
    /\ FleetTypeOK
    /\ C!CreditTypeOK
    /\ R!RegistryTypeOK
    /\ B!BackupTypeOK

\* What an alert of a schedule should say.
ScheduleTold(s, km, day) ==
    IF OverdueBy(s, km, day) THEN open[Late(s)] = 1
    ELSE IF Soon(s, day) THEN open[Due(s)] = 1
    ELSE open[Late(s)] = 0 /\ open[Due(s)] = 0

\* When a resync has gone through its list, the alerts say of the documents and
\* of the listed schedules what the rows it read say: each is raised once, or
\* not at all (syncVehicleAlerts, upsertAlert, resolveMatching).
AlertsTellTruth ==
    \A q \in Mechanics : job[q].step = "schedules" /\ job[q].agenda = <<>> =>
        /\ \A d \in Documents : job[q].seen.expiry[d] # None =>
            open[OfDocument(d)] = IF job[q].seen.expiry[d] - Window <= job[q].day THEN 1 ELSE 0
        /\ \A s \in job[q].listed : ScheduleTold(s, job[q].seen.km, job[q].day)

\* Whatever makes a booking answer 409 has an open alert, if nothing has changed
\* since the resync read it: getBookingBlockers and syncVehicleAlerts judge
\* alike although they share no code.
RefusalIsExplained ==
    \A q \in Mechanics :
        /\ job[q].step = "schedules" /\ job[q].agenda = <<>>
        /\ job[q].seen = vehicle /\ job[q].day = today
        => \A t \in Blockers : open[t] > 0 \/ \E s \in Schedules \ job[q].listed : t = Late(s)

\* The odometer goes back only by a request whose reading is written whatever the
\* row has, a PATCH of the vehicle or the completion of a contract: a maintenance
\* record that nobody overtakes raises it or leaves it alone.
OdometerKept ==
    [][ vehicle'.km < vehicle.km => \E q \in Mechanics : job[q].step \in {"patch", "return"} ]_vars

\* What the installments of S repay of what is financed.
Repaid(S) == FoldSet(LAMBDA i, sum : installment[i].portion + sum, 0, S)

\* A credit never owes less than its unpaid installments repay, however payments
\* race; if they do not, it owes exactly that, counts what was paid, and is
\* PAID_OFF when nothing is left (recordPayment).  A credit of a few cents for each
\* installment, whose last one gives back what rounding took too much, is left out.
BalanceTellsInstallments ==
    credit.status # "ABSENT" /\ installment[Len(installment)].portion >= 0 =>
        /\ credit.balance >= Repaid(C!Unpaid)
        /\ scene = "credit" =>
            /\ credit.balance = Repaid(C!Unpaid)
            /\ credit.paid = cashed
            /\ (credit.status = "PAID_OFF") <=> (credit.balance = 0)

\* The installments repay exactly what is financed, only the last can take a
\* negative part of it, and the interest never grows, however the payments were
\* rounded (buildAmortizationSchedule).
ScheduleAmortizes ==
    credit.status # "ABSENT" =>
        /\ credit.financed = Repaid(DOMAIN installment)
        /\ \A i \in DOMAIN installment : i < Len(installment) => installment[i].portion >= 0
        /\ \A i, j \in DOMAIN installment : i < j => installment[i].interest >= installment[j].interest

\* However creations race, a tenant has at most one row too many for each further
\* request in flight, as long as nothing is restored and the plan stays (enforce).
OvershootBounded ==
    scene = "registry" /\ kind \in {"user", "vehicle"} /\ Quota[plan][kind] # Unlimited =>
        Cardinality(R!Live) < Quota[plan][kind] + Cardinality(Clerks)

\* Until the numbers outgrow their digits, a number that is drawn is not taken
\* (generateCode and its like).
NumbersAreFresh ==
    scene = "numbers" /\ (\A n \in used : Len(R!Digits(n)) <= Width) =>
        \A q \in Clerks : clerk[q].step = "store" => clerk[q].number \notin used

\* No file is missing before the day its retention ends, and after a full backup
\* none of an earlier day is left, whichever part failed and whenever the process
\* was killed (prune).
RetentionHolds ==
    \A c \in B!Categories, n \in Nights :
        archive[c][n] # B!NoArchive =>
            /\ ~archive[c][n].stored => archive[c][n].age >= Retention
            /\ pruned /\ archive[c][n].stored => archive[c][n].age <= Retention

\* A schedule repays what is financed, and the credit adds its payments up.
CreditAddsUp == BalanceTellsInstallments /\ ScheduleAmortizes
=============================================================================
