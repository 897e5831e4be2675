----------------------------- MODULE RotateTwice -----------------------------
(***************************************************************************)
(* The same rotate-scan run twice: the second call has the pool, the        *)
(* configuration and the answers of the first, and another schedule.        *)
(***************************************************************************)
EXTENDS RotateScan

VARIABLE earlier   \* the outcomes of the first call, all "zero" during it

Unset == [j \in Jobs |-> "zero"]

InitTwice == Init /\ earlier = Unset

\* The first call has returned, not stopped, and the second begins.
Again ==
    /\ pc = "returned" /\ ~cancelled /\ earlier = Unset
    /\ earlier' = outcomes
    /\ UNCHANGED <<input, cancelled>>
    /\ pc' = "loop" /\ next' = 0
    /\ jpc' = [j \in Jobs |-> "unstarted"]
    /\ confirmations' = [j \in Jobs |-> 0] /\ proxyErrors' = [j \in Jobs |-> 0]
    /\ refuted' = [j \in Jobs |-> FALSE]   /\ refutedBy' = [j \in Jobs |-> NoSlot]
    /\ openBy' = [j \in Jobs |-> {}]       /\ consumed' = [j \in Jobs |-> 0]
    /\ batch' = [j \in Jobs |-> {}]        /\ throttled' = [j \in Jobs |-> {}]
    /\ candidate' = [j \in Jobs |-> NoSlot]
    /\ dial' = [x \in Jobs \X Slots |-> "idle"]
    /\ vote' = [x \in Jobs \X Slots |-> 0]
    /\ failedSet' = {} /\ UNCHANGED lastUse
    /\ outcomes' = Unset
    /\ done' = 0 /\ ticket' = [j \in Jobs |-> 0]
    /\ deadCalls' = {} /\ doneCalls' = {}

NextTwice == Again \/ (Next /\ UNCHANGED earlier)

SpecTwice == InitTwice /\ [][NextTwice]_<<vars, earlier>>

\* "deterministic given a deterministic DialFunc" (rotate.go:77): when every dial
\* has one answer, two calls that are not stopped give the same verdicts.
Deterministic ==
    /\ \A s \in Slots, j \in Jobs : Cardinality(Answers[s][j]) = 1
    /\ ~throttle /\ ~cancelled /\ pc = "returned" /\ earlier # Unset
    => outcomes = earlier
=============================================================================
