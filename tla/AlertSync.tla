----------------------------- MODULE AlertSync -----------------------------
(***************************************************************************)
(* The statements with which AlertsService brings the alerts of a target up  *)
(* to date.  A resync decides what to do on rows it has read and then        *)
(* performs one statement after the other: its agenda.  open[t] counts the   *)
(* alerts of target t that are not RESOLVED; acknowledging one leaves it     *)
(* among them.                                                               *)
(***************************************************************************)
EXTENDS Integers, Sequences

\* raise: find an alert that is not resolved, and update it if there is one;
\* create: insert one; resolve: resolve all there are.
Statement(Targets) == [do : {"raise", "create", "resolve"}, target : Targets]

Raise(t) == [do |-> "raise", target |-> t]
Settle(t) == [do |-> "resolve", target |-> t]

\* Mutant: the insert is made whether or not there is an alert.
AgendaAfterInsertAlways(open, agenda) ==
    IF Head(agenda).do = "raise"
    THEN <<[Head(agenda) EXCEPT !.do = "create"]>> \o Tail(agenda)
    ELSE Tail(agenda)

\* What remains to do after the first statement of the agenda.
AgendaAfter(open, agenda) ==
    IF Head(agenda).do = "raise" /\ open[Head(agenda).target] = 0
    THEN <<[Head(agenda) EXCEPT !.do = "create"]>> \o Tail(agenda)
    ELSE Tail(agenda)

\* Mutant: only alerts that are OPEN would be resolved, and there is an
\* acknowledged one.
OpenAfterOnlyOpen(open, agenda) ==
    LET op == Head(agenda)
    IN  [open EXCEPT ![op.target] = IF op.do = "create" THEN @ + 1 ELSE @]

\* The alerts after that statement.
OpenAfter(open, agenda) ==
    LET op == Head(agenda)
    IN  [open EXCEPT ![op.target] = IF op.do = "create" THEN @ + 1
                                    ELSE IF op.do = "resolve" THEN 0 ELSE @]
=============================================================================
