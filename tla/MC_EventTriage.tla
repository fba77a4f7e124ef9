--------------------------- MODULE MC_EventTriage ---------------------------
(***************************************************************************)
(* Instantiates EventTriage for TLC.  Manifests m1 and m2 deploy into the  *)
(* same namespace n1 (so a teardown waits for both to go), with deploy     *)
(* roots u1 and u2.  Event e1 is a Warning about pod o1 of u1; e2 is an    *)
(* image "Pulled" Normal event about u2 itself; e3 is a Normal             *)
(* "Scheduled" event about o1, created before Tilt started, which both    *)
(* filters of the watch loop drop.                                         *)
(***************************************************************************)
EXTENDS EventTriage

CONSTANTS m1, m2, n1, u1, u2, o1, e1, e2, e3

MCNsOf      == [m \in Manifests |-> n1]
MCDeployOf  == [u \in DeployUIDs |-> IF u = u1 THEN m1 ELSE m2]
MCEventNs   == [e \in Events |-> n1]
MCChain     == [e \in Events |-> IF e = e2 THEN <<u2>> ELSE <<o1, u1>>]
MCEventType == [e \in Events |-> IF e = e1 THEN "Warning" ELSE "Normal"]
MCReason    == [e \in Events |-> CASE e = e1 -> "BackOff"
                                   [] e = e2 -> "Pulled"
                                   [] e = e3 -> "Scheduled"]

====
