---------------------------- MODULE MC_PodTriage ----------------------------
(***************************************************************************)
(* Instantiates PodTriage for TLC. One manifest m1 with two deploys u1     *)
(* and u2; pods p1 and p2 come from u1's template (two replicas), p3 from  *)
(* u2's, and pf from a foreign controller whose pods the manifest's extra  *)
(* pod selector matches. Each cfg picks the pods it needs.                 *)
(***************************************************************************)
EXTENDS PodTriage

CONSTANTS m1, p1, p2, p3, pf, u1, u2, fu

MCOwner      == [p \in Pods |-> CASE p \in {p1, p2} -> u1
                                  [] p = p3 -> u2
                                  [] p = pf -> fu]
MCDeployOf   == [u \in DeployUIDs |-> m1]
\* Only the foreign pod carries the labels of the extra selector.
MCSelectorOf == [p \in Pods |-> IF p = pf THEN m1 ELSE NoManifest]

====
