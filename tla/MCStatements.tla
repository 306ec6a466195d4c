---------------------------- MODULE MCStatements ----------------------------
(***************************************************************************)
(* An instance of Statements for TLC: two tenants that both have a wallet  *)
(* named 1.                                                                *)
(***************************************************************************)
EXTENDS Statements, TLC

CONSTANTS t1, t2, k1, k2

Symmetry == Permutations(Request)

Transfer(t, f, to, n, k) ==
  [op |-> "transfer", tenant |-> t, from |-> f, to |-> to, amount |-> n, key |-> k]

MCMaxInt == 3
MCInitKind ==
  [row \in Row |-> CASE row[2] = 1 -> "wallet" [] row[2] = 2 -> "system" [] row[2] = 3 -> "absent"]
MCInitBalance == [row \in Row |-> 0]

\* A deposit, a withdrawal, a transfer of the wallet to itself, and another
\* tenant's deposit.
StatementCommands ==
  {Transfer(t1, 2, 1, 2, k1), Transfer(t1, 1, 2, 1, k2), Transfer(t1, 1, 1, 1, k2),
   Transfer(t2, 2, 1, 3, k1)}

\* The wallets named 1, asked for by a tenant, by the operator over all tenants
\* or one, and by a tenant that names the other; and an account nobody opened.
Entries(who, named, id) == [op |-> "entries", who |-> who, named |-> named, account |-> id]
StatementCalls ==
  {[op |-> "balance", who |-> t1, named |-> NoTenant, account |-> 1],
   Entries(t1, NoTenant, 1), Entries(t1, t2, 1), Entries(Operator, NoTenant, 1),
   Entries(Operator, t2, 3)}
=============================================================================
