------------------------------- MODULE MCBooks ------------------------------
(***************************************************************************)
(* Instances of Books for TLC: two tenants with an account of the same     *)
(* name, and a third that was never provisioned and owns nothing.          *)
(***************************************************************************)
EXTENDS Books, TLC

CONSTANTS t1, t2, t3, k1, k2

Symmetry == Permutations(Request)

Transfer(t, f, to, n, k) ==
  [op |-> "transfer", tenant |-> t, from |-> f, to |-> to, amount |-> n, key |-> k]

MCMaxInt == 7
MCInitKind ==
  [row \in Row |-> CASE row[2] = 1 /\ row[1] # t3 -> "wallet" [] row[2] = 2 /\ row[1] = t1 -> "system"
                     [] OTHER -> "absent"]
MCInitBalance ==
  [row \in Row |-> CASE row = <<t1, 1>> -> 1 [] row = <<t1, 2>> -> -1 [] OTHER -> 0]
MCAlterDelta == {-2, 1}

\* A deposit and a withdrawal, an account opened under the scan's eyes, and one
\* that is open already.
BooksCommands ==
  {Transfer(t1, 2, 1, 1, k1), Transfer(t1, 1, 2, 1, k2), Transfer(t2, 2, 1, 1, k2),
   [op |-> "open", tenant |-> t2, id |-> 2, kind |-> "system"],
   [op |-> "open", tenant |-> t1, id |-> 1, kind |-> "wallet"]}
=============================================================================
