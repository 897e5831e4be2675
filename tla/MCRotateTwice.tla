---------------------------- MODULE MCRotateTwice ----------------------------
(* Two host:ports over four proxies, each dial with one answer. *)
EXTENDS RotateTwice

MCPoolSize  == 4
MCTotalJobs == 2
MCOpenJobs  == {0, 1}
MCAddress   == [s \in 0 .. 3 |-> s]

\* Slot 1 is dead; at job 0 slots 0 and 2 connect and slot 3 is refused.
MCAnswers == [s \in 0 .. 3 |-> [j \in 0 .. 1 |->
    CASE s = 1           -> {"dial tcp <address>"}
      [] s = 3 /\ j = 0  -> {"connection refused"}
      [] OTHER           -> {Connected}]]
=============================================================================
