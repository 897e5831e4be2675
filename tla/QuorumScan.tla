----------------------------- MODULE QuorumScan -----------------------------
(***************************************************************************)
(* What the rotate-scan promises, whatever the order in which proxies are   *)
(* dialled, fail, rest, or the scan is stopped: votes of proxies that have  *)
(* not voted before are counted while the quorum is open, a refusal ends    *)
(* the counting, and the verdict is given once, from the votes counted.     *)
(* The comments of scanner/quorum.go and of RotateScan state it in prose.   *)
(***************************************************************************)
EXTENDS Integers, FiniteSets, QuorumVerdict

CONSTANTS Jobs,        \* the host:ports
          Quorums,     \* the quorums a scan may ask for
          MaySupport,  \* MaySupport[j]: the voters that may find j open
          MayRefute    \* MayRefute[j]: the voters that may be refused at j

VARIABLES quorum, supporters, refuted, verdict

qvars == <<quorum, supporters, refuted, verdict>>

Init ==
    /\ quorum \in Quorums
    /\ supporters = [j \in Jobs |-> {}]
    /\ refuted = [j \in Jobs |-> FALSE]
    /\ verdict = [j \in Jobs |-> "zero"]

\* A batch of votes: some voters found j open, some were refused.
Count(j, yes, no) ==
    /\ verdict[j] = "zero"
    /\ ~refuted[j]
    /\ Cardinality(supporters[j]) < quorum
    /\ yes \cap supporters[j] = {}
    /\ supporters' = [supporters EXCEPT ![j] = @ \cup yes]
    /\ refuted' = [refuted EXCEPT ![j] = no # {}]
    /\ UNCHANGED <<quorum, verdict>>

Decide(j) ==
    /\ verdict[j] = "zero"
    /\ verdict' = [verdict EXCEPT ![j] =
                      DecideQuorum(Cardinality(supporters[j]), quorum, refuted[j])]
    /\ UNCHANGED <<quorum, supporters, refuted>>

Next == \E j \in Jobs :
           \/ \E yes \in SUBSET MaySupport[j], no \in SUBSET MayRefute[j] :
                 Count(j, yes, no)
           \/ Decide(j)

Spec == Init /\ [][Next]_qvars
=============================================================================
