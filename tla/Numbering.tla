----------------------------- MODULE Numbering -----------------------------
(***************************************************************************)
(* The numbers of reservations, contracts, invoices, payments, deposits and  *)
(* receipts: a prefix and a counter padded with zeros to Width digits.  The  *)
(* next one is one more than the last, and the last is the greatest *text*.  *)
(***************************************************************************)
EXTENDS Integers, Sequences, SequencesExt, FiniteSets

CONSTANTS Base, Width    \* ten and four in the code

\* The digits of n, without zeros in front.
Digits(n) ==
    LET digits[m \in 0..n] == IF m < Base THEN <<m>> ELSE Append(digits[m \div Base], m % Base)
    IN  digits[n]

\* padStart: a number of more digits is not cut.
Padded(n) ==
    LET digits == Digits(n)
    IN  IF Len(digits) >= Width THEN digits
        ELSE [i \in 1..(Width - Len(digits)) |-> 0] \o digits

\* The order of texts, in which a prefix comes first.
TextBefore(s, t) ==
    \/ IsStrictPrefix(s, t)
    \/ \E i \in (DOMAIN s) \cap (DOMAIN t) :
        s[i] < t[i] /\ \A j \in 1..(i - 1) : s[j] = t[j]

\* Mutant: the number of rows is taken for the greatest number.
NextByCount(used) == Cardinality(used)

\* Mutant: the rows would be put in ascending order.
NextAfterFirst(used) ==
    IF used = {} THEN 1
    ELSE 1 + CHOOSE n \in used : \A m \in used \ {n} : TextBefore(Padded(n), Padded(m))

\* orderBy desc, take the first, add one.
NextNumber(used) ==
    IF used = {} THEN 1
    ELSE 1 + CHOOSE n \in used : \A m \in used \ {n} : TextBefore(Padded(m), Padded(n))
=============================================================================
