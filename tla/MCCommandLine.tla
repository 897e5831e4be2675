--------------------------- MODULE MCCommandLine ---------------------------
(***************************************************************************)
(* Every command on a small instance: command lines of the flat mode as a    *)
(* user writes them and all short ones, files with up to three proxies, one   *)
(* relayed connection, three jobs of a connect scan, two proxies to validate. *)
(***************************************************************************)
EXTENDS CommandLine

MCMethods  == {<<5, 0>>, <<5, 1>>, <<5, 2>>, <<5, 255>>, <<72, 84>>}
MCConnects == {<<5, 0, 0, 1, 9>>, <<5, 0, 0, 3, 9, 9>>, <<5, 0, 0, 8, 9>>, <<5, 5, 0, 1, 9>>}
MCCodes    == {90, 91}

MCWords == {"-proxlist", "-ip", "-p", "-oX", "-sV", "x", "--ports", "-no-wrap"}

MCProxies == {"a", "b", "c", "d"}
MCKind    == [p \in MCProxies |-> [proto |-> IF p \in {"b", "d"} THEN "socks4" ELSE "socks5",
                                   user  |-> p = "a"]]
MCAddress == [p \in MCProxies |-> IF p = "c" THEN "C" ELSE "AB"]
MCFiles   == [f \in MCWords \cup {"pool", "pool of one", "pool of three"} |->
                 CASE f = "pool"          -> {<<>>, <<"a">>, <<"b">>, <<"c">>}
                   [] f = "pool of one"   -> {<<"b">>}
                   [] f = "pool of three" -> {<<"b", "c", "a">>}
                   [] OTHER               -> {<<>>, <<"d", "b">>}]
MCList    == <<MCKind["a"], MCKind["b"]>>

MCNmapFlags == {"-sV", "-oX", "--script"}

Flat(tool, pool, more) == <<"-proxlist", pool, "-tool", tool, "-out", "x", "x", "x", "x">> \o more
MCArgLists == UNION {[1 .. n -> MCWords] : n \in 0 .. 3}
              \cup {<<w, "", v>> : w, v \in MCWords} \cup {<<w, "">> : w \in MCWords}
              \cup {Flat("nmap", "x", <<>>), Flat("nmap", "pool of one", <<"-no-wrap">>),
                    Flat("builtin", "pool of three", <<"-no-wrap">>),
                    Flat("builtin", "pool of three", <<"-no-rotate">>)}

MCPortLists == UNION {[1 .. n -> 1 .. MaxPort] : n \in 1 .. 3}
MCSpecs == UNION {[1 .. n -> {<<>>, <<0, 6>>, <<1, 6>>, <<2>>, <<3, 4>>, <<4, 5>>, <<5, 3>>}]
                  : n \in 1 .. 2}
=============================================================================
