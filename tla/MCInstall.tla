----------------------------- MODULE MCInstall -----------------------------
(* An installation for TLC: configs on both sides of the game module and   *)
(* the marker, as the order of their names puts them.                      *)
EXTENDS InstallProps

CONSTANTS pool, dll, marker, base, notices

MCPlan == <<pool, dll, marker, base, notices>>
=============================================================================
