--------------------------- MODULE MCRoleSessions ---------------------------
(* An instance of RoleSessions: two servers of one project, and            *)
(* plans of up to three tasks.                                             *)
EXTENDS RoleSessions, TLC

CONSTANTS w1, w2, a1, s1, s2, p1

MCWorkflows == {w1, w2}
MCProjectOf == [s \in {s1, s2} |-> p1]

Inside == [rooted |-> FALSE, segments |-> <<"name", "name">>]
Scopes == {Inside, [rooted |-> TRUE, segments |-> <<"name">>],
           [rooted |-> FALSE, segments |-> <<"name", "..", "..">>]}

Task(id, dependencies, requirements, scope) ==
  [id |-> id, dependencies |-> dependencies, requirements |-> requirements, scopes |-> <<scope>>]

Plan(requirements, tasks) == [texts |-> TRUE, requirements |-> requirements, tasks |-> tasks]

Few(S) == {<< >>} \cup {<<x>> : x \in S}

Pairs == {Plan(<<"r", "q">>, <<Task("a", d, q, x), Task("b", e, <<"q">>, Inside)>>) :
            d \in Few({"a", "b"}), e \in Few({"a", "b", "c"}), q \in {<<"q">>, <<"r">>, <<"r", "q">>},
            x \in Scopes}

Triples == {Plan(<<"r">>, <<Task("a", d, <<"r">>, Inside), Task("b", e, <<"r">>, Inside),
                            Task("c", f, <<"r">>, Inside)>>) :
              d \in Few({"b", "c"}) \cup {<<"b", "c">>}, e \in Few({"a", "c"}), f \in Few({"a", "b"})}

MCPlans == Pairs \cup Triples

Symmetry == Permutations(MCWorkflows) \cup Permutations({s1, s2})
=============================================================================
