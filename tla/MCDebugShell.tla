---------------------------- MODULE MCDebugShell ----------------------------
(* The model of DebugShell as the runs check it; its constants come from the cfg. *)
EXTENDS DebugShell
====
