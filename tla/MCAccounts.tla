----------------------------- MODULE MCAccounts -----------------------------
(***************************************************************************)
(* Instances of Accounts for TLC.                                          *)
(***************************************************************************)
EXTENDS Accounts, TLC

CONSTANTS root, acme, n0, n1, n2

Account(n, role) ==
  [number |-> n, role |-> role, status |-> "ACTIVE", company |-> "old", language |-> "old"]

\* A super administrator and a company.
TwoAccounts == root :> Account(n0, "SUPER_ADMIN") @@ acme :> Account(n1, "COMPANY")

\* One column, the status both ways, and both halves at once.
Bodies ==
  {"language" :> "y", "status" :> "SUSPENDED", "status" :> "ACTIVE",
   "company" :> "x" @@ "status" :> "SUSPENDED"}

Interchangeable == Permutations(Requests)
=============================================================================
