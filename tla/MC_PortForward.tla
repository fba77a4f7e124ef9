--------------------------- MODULE MC_PortForward ----------------------------
(***************************************************************************)
(* Instantiates PortForward for TLC.  The manifest forwards local 8080     *)
(* with the container port left unset, and local 9000 to container 9000.   *)
(* A pod reports no ports yet, port 80, or ports 80 and 8080, so the       *)
(* resolved forwards of one pod can change under a running entry.  The     *)
(* backoff runs 1, 2, 4 with a cap of 4, standing for 50ms doubling up to  *)
(* 15s.                                                                    *)
(***************************************************************************)
EXTENDS PortForward

CONSTANTS p1, p2

MCForwards  == <<[local |-> 8080, container |-> 0], [local |-> 9000, container |-> 9000]>>
MCPortLists == {<<>>, <<80>>, <<80, 8080>>}

====
