---------------------------- MODULE MCMigration ----------------------------
(***************************************************************************)
(* Two runs against one database, the second with a new password and maybe *)
(* as another user, and one run against another database.                  *)
(***************************************************************************)
EXTENDS Migration

CONSTANTS d1, d2, u1, u2, r1, r2, r3, s1, p1, p2, p3

MCTarget == [x \in Process |-> IF x = r3 THEN d2 ELSE d1]
\* The second run's user is the first one's, or the other database's.
MCUsers == {[r \in Run |-> CASE r = r1 -> u1 [] r = r2 -> u [] r = r3 -> u2] : u \in User}
MCPassword == [x \in Process |-> CASE x = r1 -> p1 [] x = r3 -> p3 [] OTHER -> p2]

\* Every user has every right, or lacks one.
MCRights == {[u \in User |-> Right]} \cup
            {[u \in User |-> Right \ {p}] : p \in Right}
=============================================================================
