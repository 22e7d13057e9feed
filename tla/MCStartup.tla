------------------------------ MODULE MCStartup ------------------------------
(***************************************************************************)
(* Instance of Startup for TLC.                                            *)
(***************************************************************************)
EXTENDS StartupInv

TaskProcesses == {"web", "worker"}
=============================================================================
