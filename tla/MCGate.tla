------------------------------- MODULE MCGate -------------------------------
(* The gate for TLC: each .cfg picks the platform, whether the HotSpot     *)
(* sources are present, and the exception class of mx.abort.               *)
EXTENDS Gate

\* platform.system() values the code distinguishes (303).
MCWindows == "Windows"
MCLinux == "Linux"
\* mx.abort raises SystemExit (mx.py: "raise SystemExit(codeOrMessage)").
MCSystemExit == "SystemExit"
=============================================================================
