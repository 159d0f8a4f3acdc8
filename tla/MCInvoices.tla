------------------------------ MODULE MCInvoices ------------------------------
(* Instances of Invoices for TLC. *)
EXTENDS Invoices, TLC

CONSTANTS i1, i2, e1, e2, s1, s2

\* No action or property tells invoices, entries or handlers apart.
Interchangeable ==
  Permutations(InvoiceIds) \cup Permutations(Billables) \cup Permutations(Sessions)
=============================================================================
