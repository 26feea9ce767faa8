------------------------------ MODULE MCHostSetup ------------------------------
(* A small instance of the host set-up, for TLC.                               *)
EXTENDS HostSetup

Directories == <<"machine", "portable">>
=============================================================================
