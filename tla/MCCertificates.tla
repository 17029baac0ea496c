--------------------------- MODULE MCCertificates ---------------------------
(***************************************************************************)
(* Certificates on small sets, with every shape of context a provider      *)
(* gives: absent, not registered, and registered with or without the       *)
(* deposit and the balance.                                                *)
(***************************************************************************)
EXTENDS Certificates

CONSTANTS a1, p1, d1, c1

Says(present, registered, payed, balance, delegated) ==
  [present |-> present, registered |-> registered, payed |-> payed, balance |-> balance, delegated |-> delegated]
Absent == Says(FALSE, FALSE, None, None, FALSE)
Unregistered == Says(TRUE, FALSE, None, None, FALSE)

\* A network whose epochs have been of 432000 slots from slot 0 on, and preview, whose epochs are of 86400.
SomeMoments == {<<432000, 1>>, <<172800, 2>>}

SomeAccounts == {Absent, Unregistered} \cup {Says(TRUE, TRUE, k, b, v) : k \in {None, KeyDeposit}, b \in {None, 0, 1}, v \in BOOLEAN}
SomePools == {Absent, Says(TRUE, TRUE, None, None, FALSE)}
SomeDReps == {Absent} \cup {Says(TRUE, TRUE, k, None, FALSE) : k \in {None, DRepDeposit}}
=============================================================================
