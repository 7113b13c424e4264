-------------------------- MODULE MCProcessManager --------------------------
(* Small instances of ProcessManager for TLC. *)
EXTENDS ProcessManager
=============================================================================
