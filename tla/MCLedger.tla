------------------------------ MODULE MCLedger ------------------------------
(***************************************************************************)
(* Instances of Ledger for TLC.  One tenant's books hold two wallets, the  *)
(* second one at the top of the int64 range, and a system account at its   *)
(* bottom; the second tenant opens its accounts while the model runs.      *)
(***************************************************************************)
EXTENDS Ledger, TLC

CONSTANTS t1, t2, k1, k2

Transfer(t, f, to, n, k) ==
  [op |-> "transfer", tenant |-> t, from |-> f, to |-> to, amount |-> n, key |-> k]
Open(t, id, knd) == [op |-> "open", tenant |-> t, id |-> id, kind |-> knd]

Symmetry == Permutations(Request)

MCMaxInt == 3
MCInitKind ==
  [row \in Row |->
     IF row[1] = t2 THEN "absent" ELSE IF row[2] = 3 THEN "system" ELSE "wallet"]
MCInitBalance ==
  [row \in Row |->
     IF row[1] = t2 THEN 0
     ELSE CASE row[2] = 1 -> 1 [] row[2] = 2 -> 3 [] row[2] = 3 -> -4]

\* Opposite directions between two accounts, a system account on either side,
\* a transfer to itself, equal and different bodies under one key, with and
\* without an account in common, a wallet that cannot cover both keys, and no
\* amount.  A second tenant shares account names, a key and a body, and opens
\* its accounts, one of them twice, while transfers name them.
RequestCommands ==
  {Transfer(t1, 1, 2, 1, k1), Transfer(t1, 1, 2, 1, k2), Transfer(t1, 2, 1, 1, k1),
   Transfer(t1, 2, 1, 2, k2), Transfer(t1, 2, 3, 2, k1), Transfer(t1, 3, 1, 1, k1),
   Transfer(t1, 1, 1, 1, k1), Transfer(t1, 1, 3, 0, k2), Transfer(t2, 1, 2, 1, k1),
   Open(t2, 1, "system"), Open(t2, 1, "wallet"), Open(t2, 2, "wallet")}

\* The commands of the liveness runs: one key submitted twice, and another
\* transfer over the same accounts.
HotAccountCommands ==
  {Transfer(t1, 2, 1, 1, k1), Transfer(t1, 1, 2, 1, k2), Open(t2, 1, "wallet")}
=============================================================================
