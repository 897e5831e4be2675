--------------------------- MODULE MCCommandClaims ---------------------------
(***************************************************************************)
(* The command line against what its manual says: three targets, without     *)
(* -wrap, over three proxies the first of which may be found dead.            *)
(***************************************************************************)
EXTENDS CommandLine

MCKind    == [p \in {"a", "b", "c"} |-> [proto |-> "socks5", user |-> FALSE]]
MCAddress == [p \in {"a", "b", "c"} |-> p]
MCFiles   == [f \in {"pool"} |-> {<<"c", "b", "a">>}]
MCList    == <<>>
MCReplies == {<<5, 0>>}
MCGrants  == {<<5, 0, 0, 1, 9>>}

MCNmapFlags == {"--script", "-oX", "-sV"}
MCArgLists  == {<<"-proxlist", "pool", "-no-wrap", "x", "x", "x">>}

MCPortLists == {<<1>>}
MCSpecs     == {<<<<2>>>>}

-----------------------------------------------------------------------------
\* "Multiple -ip flags or positional args scan multiple targets, each consuming the
\* next proxy from the pool" (docs/rofk.1:47-48): a target is left out only when
\* each proxy of the pool was consumed (flat.go:223-250, 452-462).
EachConsumesNext ==
    cpc = "summary" /\ IsFlat /\ ~interrupted /\ targets # <<>> =>
        ToSet(valid) \subseteq ToSet(used)
=============================================================================
