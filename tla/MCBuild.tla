------------------------------ MODULE MCBuild ------------------------------
(***************************************************************************)
(* Two archives, two assembly files and two invocations for TLC: one that  *)
(* may end anywhere, and one that starts from what it has left.            *)
(***************************************************************************)
EXTENDS Build

MCImageFiles == <<"kernel", "limine.conf">>

=============================================================================
