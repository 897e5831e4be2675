---------------------------- MODULE MCPoolClaims ----------------------------
(***************************************************************************)
(* The pool's writers over the two protocols of one server and a proxy that *)
(* may fail, against what the comments say of them.                         *)
(***************************************************************************)
EXTENDS PoolWriters

MCProxies == {"a5", "a4", "b"}
MCAddress == [p \in MCProxies |-> IF p = "b" THEN "B" ELSE "A"]
MCWorks   == [p \in MCProxies |-> IF p = "b" THEN BOOLEAN ELSE {TRUE}]
MCEgress  == [p \in MCProxies |-> IF p = "b" THEN {"ipB"} ELSE {"ipA"}]
MCMortal  == {"B"}
MCOptions == {[wrap |-> TRUE, rotate |-> TRUE]}
MCTexts   == <<{<<"b", "a5", "a4">>}, {<<"a5", "b">>}>>
=============================================================================
