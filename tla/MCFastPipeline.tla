---------------------------- MODULE MCFastPipeline ----------------------------
(***************************************************************************)
(* Two files whose facts name each other's symbols and a proxy.  Either    *)
(* can lose its symbol, change its body with the facts in it, or keep it   *)
(* and gain another or lose the proxy, whose name stays a proxy's.         *)
(***************************************************************************)
EXTENDS FastPipeline

CONSTANTS a, b, m, n, p, body1, body2

NoFacts == [k \in Kind |-> {}]
Of(symbols, facts) == [symbols |-> symbols, facts |-> facts]

MCFile == {a, b}
MCName == {m, n, p}
MCBody == {body1, body2}

Caller == Of({<<m, body1>>},
             [NoFacts EXCEPT !["attr"] = {<<m, <<b, n>>>>, <<m, <<b, p>>>>},
                             !["type"] = {<<m, <<b, n>>>>}])
Grown == Of(Caller.symbols \cup {<<n, body2>>}, Caller.facts)
Edited == Of({<<m, body2>>, <<n, body1>>},
             [NoFacts EXCEPT !["alias"] = {<<m, <<b, n>>>>}])
Callee == Of({<<n, body1>>},
             [NoFacts EXCEPT !["proxy"] = {<<p, <<a, m>>>>}])
Emptied == Of({<<m, body1>>}, NoFacts)

MCContents == [f \in MCFile |-> IF f = a THEN {Caller, Grown, Edited}
                                         ELSE {Callee, Emptied}]
MCInitial == [f \in MCFile |-> IF f = a THEN Caller ELSE Callee]

ASSUME ProxiesStayProxies
=============================================================================
