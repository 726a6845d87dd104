-------------------------- MODULE MCPRPublication --------------------------
(***************************************************************************)
(* Two workers, two events of one head.                           *)
(***************************************************************************)
EXTENDS PRPublication

MCTier == [s \in Services |-> 1]
MCDependsOn == {}
MCEvents == {[head |-> "h1", corr |-> "c1"], [head |-> "h1", corr |-> "c2"]}

\* An infrastructure change without tests.
MCChanges ==
    {[paths |-> {{"iac"}}, files |-> 3, services |-> Services, failed |-> 0,
      context |-> "none", scope |-> 0, readable |-> 0, findings |-> 0]}

MCConfig == [mode |-> "enforce", owners |-> Owners,
             enforcement |-> [rule |-> "iac", threshold |-> 40,
                              approved_by |-> CHOOSE o \in Owners : TRUE,
                              approved_on |-> 0, expires_on |-> 9, waivers |-> {}]]

MCArtifact ==
    {NewArtifact(e, Conclusion(c), t) : e \in Events, c \in Changes, t \in 0..Horizon}
=============================================================================
