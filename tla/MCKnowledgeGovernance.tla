------------------------- MODULE MCKnowledgeGovernance -------------------------
(***************************************************************************)
(* A repository with two services.  A repository change places the first   *)
(* service and its owner; a document, just at the confidence threshold,    *)
(* has the second depend on the first and claims the same owner, so that   *)
(* this edge rests on two pieces of evidence; a decision record claims the *)
(* reverse dependency and another owner, which conflicts with both.        *)
(***************************************************************************)
EXTENDS KnowledgeGovernance

SourceKinds == <<"repository-change", "documentation", "adr">>

BelongsTo == Edge("belongs_to", "s1", "repo")
Owns(o) == Edge("owns", o, "s1")
DependsOn(s, t) == Edge("depends_on", s, t)

EdgesInOrder == <<Owns("o1"), Owns("o2"), BelongsTo, DependsOn("s1", "s2"), DependsOn("s2", "s1")>>

ClaimsOfSources ==
    <<{BelongsTo, Owns("o1")}, {DependsOn("s2", "s1"), Owns("o1")}, {DependsOn("s1", "s2"), Owns("o2")}>>

AclChoices == {{"g1"}, {"g2"}}
PrincipalIdentities == {"g1", "alice"}
RequestChoices == {{"s1"}}
Lifetimes == {15}
Steps == {10, 50 * DayInMinutes}

Symmetry == Permutations(Docs) \union Permutations(People)
=============================================================================
