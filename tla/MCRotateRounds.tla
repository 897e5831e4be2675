--------------------------- MODULE MCRotateRounds ---------------------------
(***************************************************************************)
(* The rotate-scan's rounds: two host:ports, one after the other, over a    *)
(* pool of seven, so that a job may need a second round of dials.             *)
(***************************************************************************)
EXTENDS RotateScan

MCPoolSize  == 7
MCTotalJobs == 2
MCAddress   == [s \in 0 .. 6 |-> s]
MCQuorums   == {0, 2}
MCOpenJobs  == {0}

\* Slot 1 lies: it may connect to the closed port of job 1 too.  Slots 4 to 6
\* reach the open port, slot 2 may be dead, slots 0 and 3 reach nothing.
MCAnswers ==
    [s \in 0 .. 6 |-> [j \in 0 .. 1 |->
        CASE s = 1      -> IF j = 0 THEN {Connected} ELSE {Connected, "EOF"}
          [] s = 2      -> {"dial tcp <address>", "EOF"}
          [] s \in {0, 3} -> {"EOF"}
          [] s = 4      -> IF j = 0 THEN {Connected} ELSE {"no CONNECT response", "host unreachable"}
          [] OTHER      -> IF j = 0 THEN {Connected} ELSE {"no CONNECT response"}]]
=============================================================================
