---------------------------- MODULE Amortization ----------------------------
(***************************************************************************)
(* buildAmortizationSchedule: a financed amount repaid in equal payments.    *)
(* Amounts are whole cents and the monthly rate is the fraction num / den;   *)
(* the code computes in doubles and rounds to cents where this rounds.       *)
(***************************************************************************)
EXTENDS Integers, Sequences

Power(base, n) ==
    LET power[i \in 0..n] == IF i = 0 THEN 1 ELSE base * power[i - 1]
    IN  power[n]

\* Math.round: to the nearest, halves upwards.
Rounded(num, den) == (2 * num + den) \div (2 * den)

\* P / n, or P * r / (1 - (1 + r)^-n), rounded to cents.
MonthlyPayment(principal, num, den, n) ==
    IF num = 0 THEN Rounded(principal, n)
    ELSE Rounded(principal * num * Power(num + den, n),
                 den * (Power(num + den, n) - Power(den, n)))

Installment(portion, interest, balance) ==
    [portion |-> portion, interest |-> interest, balance |-> balance - portion]

\* Mutant: the last installment is like the others.
ScheduleWithResidue(principal, num, den, n) ==
    LET row[i \in 0..n] ==
            IF i = 0 THEN Installment(0, 0, principal)
            ELSE LET left == row[i - 1].balance
                     interest == Rounded(left * num, den)
                 IN  Installment(MonthlyPayment(principal, num, den, n) - interest, interest, left)
    IN  [i \in 1..n |-> row[i]]

\* One row per installment; the last one repays all that is left.
AmortizationSchedule(principal, num, den, n) ==
    LET row[i \in 0..n] ==
            IF i = 0 THEN Installment(0, 0, principal)
            ELSE LET left == row[i - 1].balance
                     interest == Rounded(left * num, den)
                     portion == IF i = n THEN left
                                ELSE MonthlyPayment(principal, num, den, n) - interest
                 IN  Installment(portion, interest, left)
    IN  [i \in 1..n |-> row[i]]
=============================================================================
