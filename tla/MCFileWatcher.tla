---------------------------- MODULE MCFileWatcher ----------------------------
(* The bounds are in the configurations. *)
EXTENDS FileWatcher
=============================================================================
