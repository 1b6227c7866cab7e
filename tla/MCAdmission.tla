---------------------------- MODULE MCAdmission ----------------------------
(* An instance of Admission: two workflows of one project and one of       *)
(* another.                                                                *)
EXTENDS Admission, TLC

CONSTANTS w1, w2, w3, p1, p2

MCWorkflows == {w1, w2, w3}
MCProjects == {p1, p2}
MCProjectOf == [w \in MCWorkflows |-> IF w = w3 THEN p2 ELSE p1]

Symmetry == Permutations({w1, w2})
=============================================================================
