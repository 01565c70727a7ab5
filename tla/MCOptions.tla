------------------------------ MODULE MCOptions ------------------------------
(* Instances of Options for TLC.                                           *)
EXTENDS Options

\* Java 6, 7 and 8 as "1.x.0", and a version string of the later "9" form.
MCVersions == {<<1, 6, 0>>, <<1, 7, 0>>, <<1, 8, 0>>, <<9>>}
=============================================================================
