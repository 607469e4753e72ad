---------------------------- MODULE MCInvoicing ----------------------------
(***************************************************************************)
(* Small instances of InvoicingRules.  Callers are interchangeable.         *)
(***************************************************************************)
EXTENDS InvoicingRules, TLC

Symmetry == Permutations(Invoices) \cup Permutations(Callers)
=============================================================================
