----------------------------- MODULE MCHostsTab -----------------------------
(***************************************************************************)
(* The Hosts tab on a small instance: two hosts with two ports, reports that  *)
(* repeat, extend and mix them, a pool with two known countries and one with   *)
(* a single one.                                                               *)
(***************************************************************************)
EXTENDS HostsTab

MCKeys == {<<22, "tcp">>, <<80, "tcp">>}
Finding(h, port, service, proxies) ==
    [host |-> h, key |-> <<port, "tcp">>, service |-> service, proxies |-> proxies]
MCFindings == {<<>>,
               <<Finding("h2", 80, 0, <<"p">>), Finding("h1", 22, 0, <<"p", "">>)>>,
               <<Finding("h1", 80, 1, <<"q">>), Finding("", 22, 0, <<"p">>),
                 Finding("h1", 22, 2, <<"q", "p">>)>>}

MCCountry == [p \in {"a", "b", "c", "d"} |->
                 CASE p = "c" -> "BR" [] p = "d" -> "" [] OTHER -> "AT"]
MCAnswers   == <<{"EOF", "connection refused"}, {"conn"}>>
MCCountries == <<"??", "AT", "BR">>
MCPools   == {<<"a", "d">>, <<"c", "a", "b">>}
=============================================================================
