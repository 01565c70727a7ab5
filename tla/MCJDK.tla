-------------------------------- MODULE MCJDK --------------------------------
(* Instances of JDK for TLC.                                               *)
EXTENDS JDK

\* A complete host JDK.
MCHostAll == DirNames
\* A host JDK without its man pages, as some JRE-only or slimmed installs.
MCHostNoMan == DirNames \ {"man"}
MCVariants == {"fastdebug"}
=============================================================================
