----------------------------- MODULE SeedTables -----------------------------
(***************************************************************************)
(* The tables of the seeds, restricted to one role, admin, two of the      *)
(* permissions, one that an admin has and one that he has not, and to what *)
(* members may change in comments.  What the operations of Access tell     *)
(* apart is there: the seeds know one resource, action and scope under two *)
(* keys, and the two tables of an organization's grants differ.            *)
(***************************************************************************)


\* Key, and the unique columns of it.
SYSTEM_PERMISSIONS ==
  << [key |-> "user:create", triple |-> "user create ALL"],
     [key |-> "system:update", triple |-> "system update ALL"] >>

SYSTEM_ROLES ==
  << [key |-> "admin", keys |-> {"user:create"}] >>

\* The key of a permission is built from its columns here.
GLOBAL_PERMISSIONS ==
  << [key |-> "user:create:ALL", triple |-> "user create ALL"] >>

GLOBAL_ROLES ==
  << [key |-> "admin", keys |-> << "user:create:ALL" >>] >>

ORGANIZATION_ROLE_PERMISSIONS ==
  << <<"member", "comment:update">>, <<"member", "comment:delete">> >>

ROLE_PERMISSIONS == {<<"member", "comment:update">>}
=============================================================================
