--------------------------- MODULE MCRotateClaims ---------------------------
(***************************************************************************)
(* Pools for the claims the rotate-scan does not keep: one open host:port   *)
(* and four proxies, the first and the last of which are one server.        *)
(***************************************************************************)
EXTENDS RotateScan

MCPoolSize  == 4
MCTotalJobs == 1
MCOpenJobs  == {0}
MCAddress   == [s \in 0 .. 3 |-> s % 3]

\* Only the first server works, and only now and then through its second entry.
OneServerAnswers == [s \in 0 .. 3 |-> [j \in {0} |->
    CASE s = 0 -> {Connected}
      [] s = 3 -> {Connected, "EOF"}
      [] OTHER -> {"EOF"}]]

\* Slot 0 works; the other proxies are given by name and cannot be reached.
NamedAnswers == [s \in 0 .. 3 |-> [j \in {0} |->
    IF s = 0 THEN {Connected} ELSE DialFailures \ {"dial tcp <address>"}]]
=============================================================================
