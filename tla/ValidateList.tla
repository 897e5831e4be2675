---------------------------- MODULE ValidateList ----------------------------
(***************************************************************************)
(* "rofk validate" (cli/cli.go): every proxy of the list is checked by a    *)
(* goroutine of its own, at most Threads at a time, with proxy.Validate (a   *)
(* SocksExchange read once, over the link of that name) and, if it works,    *)
(* proxy.FetchEgressIP; those that work are written to the output file.      *)
(***************************************************************************)
EXTENDS SocksExchange, FiniteSets, FiniteSetsExt

CONSTANTS List,      \* the proxies parsed from the input: a sequence
          Threads,   \* -t
          IPs        \* public addresses that an echo service may see

ASSUME ListAssumption ==
    /\ List \in Seq([proto : {"socks5", "socks4"}, user : BOOLEAN])
    /\ 1 .. Len(List) \subseteq Links
    /\ Threads \in Nat \ {0} /\ "" \notin IPs

VARIABLES
    lpc,                \* the loop of runValidate
    taken,              \* how many proxies it has started
    check,              \* the goroutine of a proxy
    tries,              \* how many echo services it has tried
    egress,             \* EgressIP of a proxy
    nvalid, nfailed,    \* the counters
    lines,              \* the output file, and validProxies
    summary             \* what printEgressSummary has printed

lvars == <<lpc, taken, check, tries, egress, nvalid, nfailed, lines, summary>>

Numbers  == 1 .. Len(List)
Services == 3      \* portquiz.net, api.ipify.org, checkip.amazonaws.com

ListInit ==
    /\ lpc = "off" /\ taken = 0
    /\ check = [i \in Numbers |-> "none"] /\ tries = [i \in Numbers |-> 0]
    /\ egress = [i \in Numbers |-> ""]
    /\ nvalid = 0 /\ nfailed = 0 /\ lines = <<>>
    /\ summary = [unknown |-> 0, unique |-> 0, shared |-> {}]

Checking == {i \in Numbers : check[i] \notin {"none", "done"}}

Becoming(i, c) == check' = [check EXCEPT ![i] = c]

\* sem <- struct{}{} and the goroutine of the next proxy, which dials it.
StartCheck ==
    /\ lpc = "loop" /\ taken < Len(List)
    /\ Cardinality(Checking) < Threads
    /\ taken' = taken + 1
    /\ Becoming(taken + 1, "handshake")
    /\ Begin(taken + 1, List[taken + 1])
    /\ UNCHANGED <<lpc, tries, egress, nvalid, nfailed, lines, summary>>

\* Its handshake goes on.
Handshake(i) ==
    /\ check[i] = "handshake" /\ ClientStep(i)
    /\ UNCHANGED lvars

ProxyActs(i) ==
    /\ check[i] = "handshake" /\ ServerStep(i)
    /\ UNCHANGED lvars

\* Validate returns, and closes its connection; a failure is counted.
Validated(i) ==
    /\ check[i] = "handshake" /\ xpc[i] \in {"ok", "failed"}
    /\ IF xpc[i] = "ok" THEN Becoming(i, "egress") /\ UNCHANGED nfailed
       ELSE Becoming(i, "done") /\ nfailed' = nfailed + 1
    /\ Close(i)
    /\ UNCHANGED <<lpc, taken, tries, egress, nvalid, lines, summary>>

\* FetchEgressIP asks the services in turn for the first public address; a
\* service may be out of reach or answer with none.
AskEcho(i) ==
    /\ check[i] = "egress" /\ tries[i] < Services
    /\ tries' = [tries EXCEPT ![i] = @ + 1]
    /\ \/ \E ip \in IPs : egress' = [egress EXCEPT ![i] = ip] /\ Becoming(i, "counting")
       \/ UNCHANGED <<egress, check>>
    /\ UNCHANGED <<lpc, taken, nvalid, nfailed, lines, summary, xvars>>

EchoesFail(i) ==
    /\ check[i] = "egress" /\ tries[i] = Services
    /\ Becoming(i, "counting")
    /\ UNCHANGED <<lpc, taken, tries, egress, nvalid, nfailed, lines, summary, xvars>>

CountValid(i) ==
    /\ check[i] = "counting"
    /\ nvalid' = nvalid + 1
    /\ Becoming(i, "writing")
    /\ UNCHANGED <<lpc, taken, tries, egress, nfailed, lines, summary, xvars>>

\* Under the lock.
WriteLine(i) ==
    /\ check[i] = "writing"
    /\ lines' = Append(lines, i)
    /\ Becoming(i, "done")
    /\ UNCHANGED <<lpc, taken, tries, egress, nvalid, nfailed, summary, xvars>>

Having(ip) == {i \in ToSet(lines) : egress[i] = ip}

EgressSummary ==
    LET known == {egress[i] : i \in ToSet(lines)} \ {""}
    IN  [unknown |-> Cardinality(Having("")),
         unique  |-> Cardinality(known),
         shared  |-> {<<ip, Cardinality(Having(ip))>> :
                        ip \in {k \in known : Cardinality(Having(k)) > 1}}]

\* The summary is printed when all are started.
ListEnds_NoWait ==
    /\ lpc = "loop" /\ taken = Len(List)
    /\ summary' = EgressSummary
    /\ lpc' = "done"
    /\ UNCHANGED <<taken, check, tries, egress, nvalid, nfailed, lines, xvars>>

\* wg.Wait() and the summary.
ListEnds ==
    /\ lpc = "loop" /\ taken = Len(List) /\ Checking = {}
    /\ summary' = EgressSummary
    /\ lpc' = "done"
    /\ UNCHANGED <<taken, check, tries, egress, nvalid, nfailed, lines, xvars>>

ListStep ==
    \/ StartCheck \/ ListEnds
    \/ \E i \in Numbers : \/ Handshake(i) \/ Validated(i) \/ AskEcho(i) \/ EchoesFail(i)
                          \/ CountValid(i) \/ WriteLine(i)

\* When the summary is printed every proxy is either written, once, or counted
\* as failed, and the summary accounts for every line: a proxy is unverified,
\* alone at its egress, or in a group (cli.go:117-183).
ListAddsUp ==
    lpc = "done" =>
        /\ IsInjective(lines) /\ nvalid = Len(lines) /\ nvalid + nfailed = Len(List)
        /\ Len(lines) = summary.unknown
                        + (summary.unique - Cardinality(summary.shared))
                        + FoldSet(LAMBDA g, n : g[2] + n, 0, summary.shared)
=============================================================================
