--------------------------- MODULE QuorumVerdict ---------------------------
(***************************************************************************)
(* The verdict on one host:port (scanner/quorum.go).                        *)
(***************************************************************************)
EXTENDS Integers

Verdicts == {"unreachable", "open", "refuted", "unconfirmed"}

\* A faulty variant, for testing the properties: open votes before refusals.
DecideQuorum_OpenFirst(confirmations, quorum, wasRefuted) ==
    CASE confirmations >= quorum                           -> "open"
      [] confirmations < quorum /\ wasRefuted              -> "refuted"
      [] confirmations \in 1 .. (quorum - 1) /\ ~wasRefuted -> "unconfirmed"
      [] OTHER                                             -> "unreachable"

\* confirmations: proxies that connected; quorum: how many must agree;
\* wasRefuted: some proxy answered with a target-side failure.
DecideQuorum(confirmations, quorum, wasRefuted) ==
    CASE wasRefuted                                         -> "refuted"
      [] ~wasRefuted /\ confirmations >= quorum             -> "open"
      [] ~wasRefuted /\ confirmations \in 1 .. (quorum - 1) -> "unconfirmed"
      [] OTHER                                              -> "unreachable"
=============================================================================
