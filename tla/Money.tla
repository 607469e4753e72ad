-------------------------------- MODULE Money --------------------------------
(***************************************************************************)
(* The money of the clients: the deposits of their contracts and the         *)
(* invoices they pay.  The two share no row, so a behaviour is about one of  *)
(* them, the desk it is at.                                                  *)
(***************************************************************************)
EXTENDS DepositRules, InvoicingRules

VARIABLE desk

depositVars == <<vars, rule>>
invoiceVars == <<invoicingVars, order>>
moneyVars == <<desk, depositVars, invoiceVars>>

MoneyInit ==
    /\ desk \in {"deposits", "invoices"}
    /\ RuledInit /\ RuledInvoicingInit
    /\ desk # "deposits" => rule = "none"
    /\ desk # "invoices" => order = "none"

MoneyNext ==
    /\ \/ desk = "deposits" /\ RuledNext /\ UNCHANGED invoiceVars
       \/ desk = "invoices" /\ RuledInvoicingNext /\ UNCHANGED depositVars
    /\ UNCHANGED desk

MoneySpec == MoneyInit /\ [][MoneyNext]_moneyVars

-----------------------------------------------------------------------------
\* Every row and every request holds a value of its type, at both desks.
MoneyTypeOK == TypeOK /\ InvoicingTypeOK
=============================================================================
