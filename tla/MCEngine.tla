------------------------------ MODULE MCEngine ------------------------------
(* Instances of Engine for TLC. *)
EXTENDS Engine, TLC

\* Two tables.
TwoTables == {"users", "items"}
TwoTablesStorage == [n \in TwoTables |-> n]

\* One table and its alias.
TwoNames == {"users", "app_users"}
TwoStorage == [n \in TwoNames |-> "app_users"]

OneName == {"users"}
OneStorage == [n \in OneName |-> n]

WorkerSymmetry == Permutations(Workers)

\* Every name a table of its own: tables are then interchangeable too.
OwnStorage == [n \in Names |-> n]
Symmetry == Permutations(Workers) \cup Permutations(Names)
=============================================================================
