---------------------------- MODULE MCRotateJobs ----------------------------
(***************************************************************************)
(* The rotate-scan with several jobs at once: three host:ports over three   *)
(* proxies, two of which are one server, two jobs and two dials at a time.  *)
(***************************************************************************)
EXTENDS RotateScan

MCPoolSize  == 3
MCTotalJobs == 3
MCAddress   == [s \in 0 .. 2 |-> IF s = 2 THEN 1 ELSE s]
MCQuorums   == {2}
MCOpenJobs  == {0}

\* Slot 0 reaches the open port, is given up for good at job 1 and refused at
\* job 2.  Slots 1 and 2 are one server: it breaks off at job 0, is found dead
\* by both its slots at job 1 (and then the pool may be empty for job 2), and at
\* job 2 it may connect or be found dead once more.
MCAnswers ==
    [s \in 0 .. 2 |-> [j \in 0 .. 2 |->
        CASE s = 0 /\ j = 0 -> {Connected}
          [] s = 0 /\ j = 1 -> {"no acceptable auth method"}
          [] s = 0 /\ j = 2 -> {"connection refused"}
          [] s > 0 /\ j = 0 -> {"EOF"}
          [] s = 1 /\ j = 1 -> {"dial tcp <address>"}
          [] s = 1 /\ j = 2 -> {Connected, "dial tcp <address>"}
          [] s = 2 /\ j = 1 -> {"not a SOCKS5 server"}
          [] OTHER          -> {Connected}]]
=============================================================================
