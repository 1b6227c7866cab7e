--------------------------- MODULE MCRoleProfiles ---------------------------
(* An instance of RoleProfiles: calls of two servers in a project that is a *)
(* git repository, two roles, and an upgrade from one version to the next.  *)
EXTENDS RoleProfiles, TLC

Symmetry == Permutations(Servers)
=============================================================================
