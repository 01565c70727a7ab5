---------------------------- MODULE MCExport ----------------------------
(* The model of Export as the runs check it; its constants come from the cfg. *)
EXTENDS Export
====
