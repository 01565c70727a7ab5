------------------------------- MODULE MCDaCapo -------------------------------
(* Two known benchmarks, one unknown name, one sanity level; VM and harness *)
(* options, counts of one and two digits, and an empty argument.           *)
EXTENDS DaCapo

MCBenchmarks == {<<"f">>, <<"h">>}
MCLevels == {<<"F">>}
\* At level F only f has warm-up iterations.
MCWarmup == [b \in MCBenchmarks |-> [l \in MCLevels |-> IF b = <<"f">> THEN 2 ELSE 0]]
MCTokens == {<<"f">>, <<"h">>, <<"z">>, <<"F">>, <<"2">>, <<"1", "0">>,
             <<"-", "X">>, <<"@", "n">>}
MCTokensEmpty == MCTokens \cup {<<>>}
====
