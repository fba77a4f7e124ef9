--------------------------- MODULE MC_PodLogStream ---------------------------
(***************************************************************************)
(* Instantiates PodLogStream for TLC: the seconds, health-check period and *)
(* reconnect gap are scaled down so that a stall, a reconnect and a        *)
(* restart fit in a few ticks; each cfg picks the faults it allows.        *)
(***************************************************************************)
EXTENDS PodLogStream

====
