--------------------------- MODULE MCPoolWriters ---------------------------
(***************************************************************************)
(* Two proxies: one that works, and one that may fail its check, be found   *)
(* dead by a scan, or hide its egress.                                      *)
(***************************************************************************)
EXTENDS PoolWriters

MCProxies == {"a", "b"}
MCAddress == [p \in MCProxies |-> IF p = "b" THEN "B" ELSE "A"]
MCWorks   == [p \in MCProxies |-> IF p = "b" THEN BOOLEAN ELSE {TRUE}]
MCEgress  == [p \in MCProxies |-> IF p = "b" THEN {"", "ipB"} ELSE {"ipA"}]
MCMortal  == {"B"}
MCOptions == {[wrap |-> FALSE, rotate |-> TRUE]}
MCTexts   == <<{<<"b", "a">>}, {<<"a">>, <<"b">>}>>
=============================================================================
