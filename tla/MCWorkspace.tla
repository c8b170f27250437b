----------------------------- MODULE MCWorkspace -----------------------------
(* Workspace with two invocations; a second inode is there for a lock file *)
(* that is created again.                                                   *)
EXTENDS Workspace
=============================================================================
