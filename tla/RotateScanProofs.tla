-------------------------- MODULE RotateScanProofs --------------------------
(***************************************************************************)
(* Theorems about RotateScan for every pool, every set of answers and      *)
(* every configuration: its verdicts and the refinement of QuorumScan,     *)
(* then what the scan reports to its caller, what is left of it when it    *)
(* has returned, what a port may cost, and that it finds the open ports.   *)
(* The invariants of the second half say of a job what Bookkeeping leaves  *)
(* out, and are inductive together with it.                                *)
(***************************************************************************)
EXTENDS RotateScan, FiniteSetTheorems, WellFoundedInduction, TLAPS

-----------------------------------------------------------------------------
(* Facts about the helpers *)

\* The i-th proxy of a job's walk is a slot of the pool.
LEMMA SlotInPool ==
    ASSUME NEW j \in Jobs, NEW i \in 0 .. (PoolSize - 1)
    PROVE  Slot(j, i) \in Slots
<1>1. j % PoolSize \in 0 .. (PoolSize - 1)
  BY SizeAssumption DEF Jobs
<1> QED
  BY <1>1, SizeAssumption DEF Slot, Slots

\* A walk meets every slot at most once.
LEMMA SlotOnce ==
    ASSUME NEW j \in Jobs, NEW i \in 0 .. (PoolSize - 1), NEW k \in 0 .. (PoolSize - 1),
           Slot(j, i) = Slot(j, k)
    PROVE  i = k
<1>1. j % PoolSize \in 0 .. (PoolSize - 1)
  BY SizeAssumption DEF Jobs
<1> QED
  BY <1>1, SizeAssumption DEF Slot

\* Any set of slots is finite and has at most PoolSize elements.
LEMMA SlotSets ==
    ASSUME NEW S \in SUBSET Slots
    PROVE  IsFiniteSet(S) /\ Cardinality(S) \in Nat
<1>1. IsFiniteSet(Slots)
  BY FS_Interval, SizeAssumption DEF Slots
<1>2. IsFiniteSet(S)
  BY <1>1, FS_Subset
<1> QED
  BY <1>2, FS_CardinalityType

\* The clamp puts every quorum in range.
LEMMA ClampInRange ==
    ASSUME NEW n \in Int PROVE ClampQuorum(n) \in 1 .. PoolSize
BY SizeAssumption DEF ClampQuorum

LEMMA DecideIsVerdict ==
    ASSUME NEW c \in Nat, NEW q \in Nat, NEW r \in BOOLEAN
    PROVE  DecideQuorum(c, q, r) \in Verdicts
BY DEF DecideQuorum, Verdicts

-----------------------------------------------------------------------------
(* Type correctness *)

\* What TypeOK needs to be inductive: the dispatcher only starts a job that
\* exists, and a job only asks the throttle about a proxy it has consumed.  The
\* jobs are started in order.
Control ==
    /\ pc = "acquire" => next < TotalJobs
    /\ \A j \in Jobs : jpc[j] = "ready" => candidate[j] \in Slots
    /\ \A j \in Jobs : jpc[j] = "unstarted" <=> j >= next

TypeInv == TypeOK /\ Control

LEMMA TypeInit == Init => TypeInv
<1> SUFFICES ASSUME Init PROVE TypeInv
  OBVIOUS
<1>1. quorum \in 1 .. PoolSize
  BY ClampInRange, ConfigAssumption DEF Init
<1>2. lastUse \subseteq Addresses
  BY UsedAssumption DEF Init
<1>3. next \in 0 .. TotalJobs /\ consumed \in [Jobs -> 0 .. PoolSize]
  BY SizeAssumption DEF Init
<1>4. jpc \in [Jobs -> JobStates] /\ dial \in [Jobs \X Slots -> DialStates]
  BY DEF Init, JobStates, DialStates
<1>5. vote \in [Jobs \X Slots -> {-1, 0, 1}]
  BY DEF Init
<1>6. /\ throttle \in BOOLEAN /\ cancelled \in BOOLEAN
      /\ pc \in {"loop", "acquire", "drain", "returned"} /\ pc # "acquire"
  BY DEF Init
<1>7. /\ confirmations \in [Jobs -> Nat] /\ proxyErrors \in [Jobs -> Nat]
      /\ ticket \in [Jobs -> Nat] /\ done \in Nat
      /\ refuted \in [Jobs -> BOOLEAN]
  BY DEF Init
<1>8. /\ refutedBy \in [Jobs -> Slots \cup {NoSlot}]
      /\ candidate \in [Jobs -> Slots \cup {NoSlot}]
      /\ openBy \in [Jobs -> SUBSET Slots] /\ batch \in [Jobs -> SUBSET Slots]
      /\ throttled \in [Jobs -> SUBSET Slots]
      /\ outcomes \in [Jobs -> Verdicts \cup {"zero"}]
  BY DEF Init
<1>9. failedSet \subseteq Addresses /\ deadCalls \subseteq Jobs \X Slots /\ doneCalls \subseteq Nat
  BY DEF Init
<1>10. Control
  BY <1>6, SizeAssumption DEF Init, Control, Jobs
<1> QED
  BY <1>1, <1>2, <1>3, <1>4, <1>5, <1>6, <1>7, <1>8, <1>9, <1>10 DEF TypeInv, TypeOK

LEMMA TypeNext == TypeInv /\ [Next]_vars => TypeInv'
<1> SUFFICES ASSUME TypeInv, [Next]_vars PROVE TypeInv'
  OBVIOUS
<1> USE DEF TypeInv, TypeOK, Control
<1>1. CASE UNCHANGED vars
  BY <1>1 DEF vars, input, ctl, locals, fill, dials, shared, report
<1>2. CASE Dispatch
  <2>1. CASE CheckStop
    BY <2>1, SizeAssumption DEF CheckStop, input, locals, fill, dials, shared, report
  <2>2. CASE StartJob
    <3>1. next' \in 0 .. TotalJobs /\ pc' = "loop"
      BY <2>2, SizeAssumption DEF StartJob
    <3>2. jpc' \in [Jobs -> JobStates]
      BY <2>2 DEF StartJob, JobStates
    <3>3. \A j \in Jobs : jpc'[j] = "ready" => candidate'[j] \in Slots
      BY <2>2 DEF StartJob, fill
    <3>4. \A j \in Jobs : jpc'[j] = "unstarted" <=> j >= next'
      BY <2>2 DEF StartJob, Jobs
    <3> QED
      BY <2>2, <3>1, <3>2, <3>3, <3>4 DEF StartJob, input, locals, fill, dials, shared, report
  <2>3. CASE Return
    BY <2>3 DEF Return, input, locals, fill, dials, shared, report
  <2> QED
    BY <1>2, <2>1, <2>2, <2>3 DEF Dispatch
<1>3. ASSUME NEW j \in Jobs, JobStep(j) PROVE TypeInv'
  <2> USE DEF JobStates, input, ctl, locals, fill, dials, shared, report
  <2>s. ASSUME Settle(j), jpc[j] # "unstarted" PROVE TypeInv'
    <3>1. confirmations[j] \in Nat /\ quorum \in Nat /\ refuted[j] \in BOOLEAN
      BY SizeAssumption
    <3>2. outcomes' \in [Jobs -> Verdicts \cup {"zero"}]
      BY <2>s, <3>1, DecideIsVerdict DEF Settle
    <3>3. /\ jpc' \in [Jobs -> JobStates]
          /\ \A k \in Jobs : /\ jpc'[k] = "ready" => jpc[k] = "ready"
                             /\ jpc'[k] = "unstarted" <=> jpc[k] = "unstarted"
      BY <2>s DEF Settle
    <3> QED
      BY <2>s, <3>2, <3>3 DEF Settle
  <2>1. CASE BeginRound(j)
    BY <2>1 DEF BeginRound
  <2>2. CASE LeaveLoop(j)
    BY <2>2, <2>s DEF LeaveLoop
  <2>3. CASE Pick(j)
    <3>1. consumed[j] \in 0 .. (PoolSize - 1) /\ Slot(j, consumed[j]) \in Slots
      BY <2>3, SlotInPool, SizeAssumption DEF Pick, Filling
    <3>2. consumed' \in [Jobs -> 0 .. PoolSize]
      BY <2>3, <3>1, SizeAssumption DEF Pick
    <3>3. jpc' \in [Jobs -> JobStates] /\ candidate' \in [Jobs -> Slots \cup {NoSlot}]
      BY <2>3, <3>1 DEF Pick
    <3>4. batch' \in [Jobs -> SUBSET Slots]
      BY <2>3, <3>1 DEF Pick
    <3>5. \A k \in Jobs : /\ jpc'[k] = "ready" => candidate'[k] \in Slots
                          /\ jpc'[k] = "unstarted" <=> jpc[k] = "unstarted"
      BY <2>3, <3>1 DEF Pick
    <3> QED
      BY <2>3, <3>2, <3>3, <3>4, <3>5 DEF Pick
  <2>4. CASE UseReady(j)
    BY <2>4 DEF UseReady, Addresses
  <2>5. CASE SetAside(j)
    BY <2>5 DEF SetAside
  <2>6. CASE Launch(j)
    BY <2>6 DEF Launch, TopUp, DialStates
  <2>7. CASE NoCandidate(j)
    BY <2>7, <2>s DEF NoCandidate
  <2>8. CASE Interrupt(j)
    BY <2>8, <2>s DEF Interrupt, BatchDone
  <2>9. CASE Tally(j)
    <3>1. \A v \in {-1, 0, 1} : Voted(j, v) \in SUBSET Slots /\ Cardinality(Voted(j, v)) \in Nat
      BY SlotSets DEF Voted
    <3>2. confirmations' \in [Jobs -> Nat] /\ proxyErrors' \in [Jobs -> Nat]
      BY <2>9, <3>1 DEF Tally
    <3>3. refuted' \in [Jobs -> BOOLEAN] /\ openBy' \in [Jobs -> SUBSET Slots]
      BY <2>9, <3>1 DEF Tally
    <3>4. refutedBy' \in [Jobs -> Slots \cup {NoSlot}]
      BY <2>9, <3>1 DEF Tally
    <3>5. /\ jpc' \in [Jobs -> JobStates]
          /\ \A k \in Jobs : /\ jpc'[k] = "ready" => jpc[k] = "ready"
                             /\ jpc'[k] = "unstarted" <=> jpc[k] = "unstarted"
      BY <2>9 DEF Tally, BatchDone
    <3> QED
      BY <2>9, <3>2, <3>3, <3>4, <3>5 DEF Tally
  <2>10. CASE ReportDone(j)
    BY <2>10 DEF ReportDone
  <2> QED
    BY <1>3, <2>1, <2>2, <2>3, <2>4, <2>5, <2>6, <2>7, <2>8, <2>9, <2>10 DEF JobStep
<1>4. ASSUME NEW j \in Jobs, NEW s \in Slots, DialStep(j, s) PROVE TypeInv'
  <2> USE DEF DialStates, input, ctl, locals, fill, dials, shared, report
  <2>1. CASE AcquireDial(j, s)
    BY <2>1 DEF AcquireDial
  <2>2. CASE DropResult(j, s)
    BY <2>2 DEF DropResult
  <2>3. CASE DialFails(j, s)
    BY <2>3 DEF DialFails, Addresses
  <2>4. CASE DialRefused(j, s)
    BY <2>4 DEF DialRefused
  <2>5. CASE DialConnects(j, s)
    BY <2>5 DEF DialConnects
  <2>6. CASE ReportDead(j, s)
    BY <2>6 DEF ReportDead
  <2>7. CASE Identify(j, s)
    BY <2>7 DEF Identify
  <2> QED
    BY <1>4, <2>1, <2>2, <2>3, <2>4, <2>5, <2>6, <2>7 DEF DialStep
<1>5. CASE Cancel
  BY <1>5 DEF Cancel, input, locals, fill, dials, shared, report
<1> QED
  BY <1>1, <1>2, <1>3, <1>4, <1>5 DEF Next, Returned

\* Every variable keeps its type, for every pool and configuration.
THEOREM TypeCorrect == Spec => []TypeOK
<1>1. TypeInv => TypeOK
  BY DEF TypeInv
<1> QED
  BY TypeInit, TypeNext, <1>1, PTL DEF Spec

-----------------------------------------------------------------------------
(* The bookkeeping is inductive *)

BookInv(j) == WalkInv(j) /\ VoteInv(j) /\ TallyInv(j)

\* What a job has consumed is of the pool.
LEMMA SeenInPool ==
    ASSUME TypeOK, NEW j \in Jobs PROVE Seen(j) \subseteq Slots
BY SlotInPool, SizeAssumption DEF TypeOK, Seen

\* A step that leaves everything of job k alone.
Same(k) ==
    /\ jpc'[k] = jpc[k] /\ confirmations'[k] = confirmations[k]
    /\ refuted'[k] = refuted[k] /\ refutedBy'[k] = refutedBy[k] /\ openBy'[k] = openBy[k]
    /\ consumed'[k] = consumed[k] /\ batch'[k] = batch[k] /\ throttled'[k] = throttled[k]
    /\ candidate'[k] = candidate[k] /\ outcomes'[k] = outcomes[k] /\ quorum' = quorum
    /\ \A s \in Slots : dial'[<<k, s>>] = dial[<<k, s>>] /\ vote'[<<k, s>>] = vote[<<k, s>>]

\* ... keeps what holds of job k.
LEMMA SameKeeps ==
    ASSUME TypeOK, NEW k \in Jobs, Same(k), BookInv(k) PROVE BookInv(k)'
<1>1. Seen(k)' = Seen(k)
  BY DEF Same, Seen
<1>2. WalkInv(k)'
  <2>1. candidate[k] \in Seen(k) => dial'[<<k, candidate[k]>>] = dial[<<k, candidate[k]>>]
    BY SeenInPool DEF Same
  <2>2. \A s \in batch[k] \cup throttled[k] : dial'[<<k, s>>] = dial[<<k, s>>]
    BY DEF Same, TypeOK
  <2> QED
    BY <1>1, <2>1, <2>2 DEF Same, BookInv, WalkInv
<1>3. VoteInv(k)'
  BY DEF Same, BookInv, VoteInv
<1>4. TallyInv(k)'
  BY DEF Same, BookInv, TallyInv
<1> QED
  BY <1>2, <1>3, <1>4 DEF BookInv

\* A job's own step leaves the other jobs alone.
LEMMA OtherJobs ==
    ASSUME TypeOK, NEW j \in Jobs, NEW k \in Jobs, k # j, JobStep(j) PROVE Same(k)
<1> USE DEF TypeOK, Same, input, ctl, locals, fill, dials, shared, report
<1>s. ASSUME Settle(j) PROVE Same(k)
  BY <1>s DEF Settle
<1>1. CASE BeginRound(j)
  BY <1>1 DEF BeginRound
<1>2. CASE LeaveLoop(j)
  BY <1>2, <1>s DEF LeaveLoop
<1>3. CASE Pick(j)
  BY <1>3 DEF Pick
<1>4. CASE UseReady(j)
  BY <1>4 DEF UseReady
<1>5. CASE SetAside(j)
  BY <1>5 DEF SetAside
<1>6. CASE Launch(j)
  BY <1>6 DEF Launch
<1>7. CASE NoCandidate(j)
  BY <1>7, <1>s DEF NoCandidate
<1>8. CASE Interrupt(j)
  BY <1>8, <1>s DEF Interrupt
<1>9. CASE Tally(j)
  BY <1>9 DEF Tally
<1>10. CASE ReportDone(j)
  BY <1>10 DEF ReportDone
<1> QED
  BY <1>1, <1>2, <1>3, <1>4, <1>5, <1>6, <1>7, <1>8, <1>9, <1>10 DEF JobStep

\* So does a step of one of its dials.
LEMMA OtherDials ==
    ASSUME TypeOK, NEW j \in Jobs, NEW s \in Slots, NEW k \in Jobs, k # j, DialStep(j, s)
    PROVE  Same(k)
<1> USE DEF TypeOK, Same, input, ctl, locals, fill, dials, shared, report
<1>1. CASE AcquireDial(j, s)
  BY <1>1 DEF AcquireDial
<1>2. CASE DropResult(j, s)
  BY <1>2 DEF DropResult
<1>3. CASE DialFails(j, s)
  BY <1>3 DEF DialFails
<1>4. CASE DialRefused(j, s)
  BY <1>4 DEF DialRefused
<1>5. CASE DialConnects(j, s)
  BY <1>5 DEF DialConnects
<1>6. CASE ReportDead(j, s)
  BY <1>6 DEF ReportDead
<1>7. CASE Identify(j, s)
  BY <1>7 DEF Identify
<1> QED
  BY <1>1, <1>2, <1>3, <1>4, <1>5, <1>6, <1>7 DEF DialStep

LEMMA BookInit == Init => Bookkeeping
<1> SUFFICES ASSUME Init, NEW j \in Jobs PROVE BookInv(j)
  BY DEF Bookkeeping, BookInv
<1>1. WalkInv(j)
  BY DEF Init, WalkInv
<1>2. VoteInv(j)
  BY DEF Init, VoteInv
<1>3. TallyInv(j)
  BY FS_EmptySet DEF Init, TallyInv
<1> QED
  BY <1>1, <1>2, <1>3 DEF BookInv

LEMMA SettleKeeps ==
    ASSUME TypeInv, NEW j \in Jobs, BookInv(j), Settle(j),
           jpc[j] \in {"head", "fill", "wait"}, jpc[j] = "head" => ~MoreNeeded(j) \/ cancelled,
           \A s \in Slots : dial[<<j, s>>] \in {"idle", "done"}
    PROVE  BookInv(j)'
<1> USE DEF TypeInv, TypeOK, BookInv, Settle, input, ctl, locals, fill, dials, shared
<1>1. jpc'[j] = "report" /\ outcomes'[j] = DecideQuorum(confirmations[j], quorum, refuted[j])
  OBVIOUS
<1>2. WalkInv(j)'
  BY <1>1 DEF WalkInv, Seen
<1>3. VoteInv(j)'
  BY <1>1 DEF VoteInv
<1>4. TallyInv(j)'
  <2>1. outcomes'[j] # "zero"
    <3>1. confirmations[j] \in Nat /\ quorum \in Nat /\ refuted[j] \in BOOLEAN
      BY SizeAssumption
    <3> QED
      BY <1>1, <3>1, DecideIsVerdict DEF Verdicts
  <2>2. \A s \in Slots : vote[<<j, s>>] = -1 => refuted[j] \/ confirmations[j] < quorum
    BY DEF VoteInv, TallyInv
  <2> QED
    BY <1>1, <2>1, <2>2 DEF TallyInv
<1> QED
  BY <1>2, <1>3, <1>4

LEMMA JobKeeps ==
    ASSUME TypeInv, NEW j \in Jobs, BookInv(j), JobStep(j)
    PROVE  BookInv(j)'
<1> USE DEF TypeInv, TypeOK, BookInv, input, ctl, locals, fill, dials, shared, report
<1>a. jpc[j] \in {"head", "fill"} => \A s \in Slots : dial[<<j, s>>] \in {"idle", "done"}
  BY DEF WalkInv, DialStates
<1>1. CASE BeginRound(j)
  <2>1. WalkInv(j)'
    BY <1>1 DEF BeginRound, WalkInv, Seen
  <2>2. VoteInv(j)'
    BY <1>1 DEF BeginRound, VoteInv
  <2>3. TallyInv(j)'
    BY <1>1 DEF BeginRound, TallyInv, MoreNeeded
  <2> QED
    BY <2>1, <2>2, <2>3
<1>2. CASE LeaveLoop(j)
  BY <1>2, <1>a, SettleKeeps DEF LeaveLoop
<1>3. CASE Pick(j)
  <2> DEFINE s == Slot(j, consumed[j])
  <2>1. consumed[j] \in 0 .. (PoolSize - 1) /\ consumed'[j] = consumed[j] + 1
    BY <1>3, SizeAssumption DEF Pick, Filling
  <2>2. s \in Slots /\ s \notin Seen(j)
    BY <2>1, SlotInPool, SlotOnce, SizeAssumption DEF Seen
  <2>3. Seen(j) \subseteq Seen(j)' /\ s \in Seen(j)'
    BY <2>1, <1>3, SizeAssumption DEF Seen, Pick, Slot
  <2>4. /\ jpc[j] = "fill" /\ jpc'[j] \in {"fill", "ready"}
        /\ batch'[j] \in {batch[j], batch[j] \cup {s}}
        /\ jpc'[j] = "ready" => candidate'[j] = s /\ batch'[j] = batch[j]
    BY <1>3 DEF Pick
  <2>5. dial[<<j, s>>] = "idle"
    BY <2>2 DEF WalkInv
  <2>6. WalkInv(j)'
    BY <1>3, <2>2, <2>3, <2>4, <2>5 DEF Pick, WalkInv
  <2>7. VoteInv(j)' /\ TallyInv(j)'
    BY <1>3, <2>4 DEF Pick, VoteInv, TallyInv
  <2> QED
    BY <2>6, <2>7
<1>4. CASE UseReady(j)
  <2>1. WalkInv(j)'
    <3>1. /\ batch'[j] = batch[j] \cup {candidate[j]} /\ throttled' = throttled
          /\ jpc[j] = "ready" /\ jpc'[j] = "fill" /\ dial' = dial /\ openBy' = openBy
      BY <1>4 DEF UseReady
    <3>2. Seen(j)' = Seen(j)
      BY <1>4 DEF UseReady, Seen
    <3> QED
      BY <3>1, <3>2 DEF WalkInv
  <2>2. VoteInv(j)' /\ TallyInv(j)'
    BY <1>4 DEF UseReady, VoteInv, TallyInv
  <2> QED
    BY <2>1, <2>2
<1>5. CASE SetAside(j)
  <2>1. WalkInv(j)'
    BY SMTT(30), <1>5 DEF SetAside, WalkInv, Seen
  <2>2. VoteInv(j)' /\ TallyInv(j)'
    BY <1>5 DEF SetAside, VoteInv, TallyInv
  <2> QED
    BY <2>1, <2>2
<1>6. CASE Launch(j)
  <2> DEFINE full == batch[j] \cup TopUp(j)
  <2>1. /\ jpc[j] = "fill" /\ jpc'[j] = "wait" /\ batch'[j] = full
        /\ throttled'[j] = throttled[j] \ full /\ full \subseteq batch[j] \cup throttled[j]
    BY <1>6 DEF Launch, TopUp
  <2>2. \A s \in Slots : dial'[<<j, s>>] = IF s \in full THEN "queued" ELSE dial[<<j, s>>]
    BY <1>6 DEF Launch
  <2>3. WalkInv(j)'
    <3>1. Seen(j)' = Seen(j)
      BY <1>6 DEF Launch, Seen
    <3> QED
      BY <1>6, <1>a, <2>1, <2>2, <3>1 DEF Launch, WalkInv
  <2>4. VoteInv(j)' /\ TallyInv(j)'
    BY <1>6, <2>1, <2>2 DEF Launch, VoteInv, TallyInv
  <2> QED
    BY <2>3, <2>4
<1>7. CASE NoCandidate(j)
  BY <1>7, <1>a, SettleKeeps DEF NoCandidate
<1>8. CASE Interrupt(j)
  <2>1. \A s \in Slots : dial[<<j, s>>] \in {"idle", "done"}
    BY <1>8 DEF Interrupt, BatchDone, WalkInv
  <2> QED
    BY <1>8, <2>1, SettleKeeps DEF Interrupt, BatchDone
<1>9. CASE Tally(j)
  <2>1. /\ jpc[j] = "wait" /\ jpc'[j] = "head"
        /\ \A s \in batch[j] : dial[<<j, s>>] = "done"
        /\ openBy'[j] = openBy[j] \cup Voted(j, 1)
        /\ confirmations'[j] = confirmations[j] + Cardinality(Voted(j, 1))
        /\ refuted'[j] = (refuted[j] \/ Voted(j, -1) # {})
        /\ IF Voted(j, -1) = {} THEN refutedBy'[j] = refutedBy[j] ELSE refutedBy'[j] \in Voted(j, -1)
    BY <1>9 DEF Tally, BatchDone
  <2>2. WalkInv(j)'
    BY <1>9, <2>1 DEF Tally, WalkInv, Seen, Voted
  <2>3. VoteInv(j)'
    BY <1>9, <2>1 DEF Tally, VoteInv, Voted
  <2>4. Cardinality(openBy[j] \cup Voted(j, 1)) = Cardinality(openBy[j]) + Cardinality(Voted(j, 1))
    <3>1. openBy[j] \cap Voted(j, 1) = {}
      BY <2>1 DEF WalkInv, Voted
    <3>2. /\ IsFiniteSet(openBy[j]) /\ IsFiniteSet(Voted(j, 1))
          /\ Cardinality(openBy[j]) \in Nat /\ Cardinality(Voted(j, 1)) \in Nat
      BY SlotSets DEF Voted
    <3>3. /\ Cardinality(openBy[j] \cap Voted(j, 1)) = 0
          /\ Cardinality(openBy[j] \cup Voted(j, 1)) =
                Cardinality(openBy[j]) + Cardinality(Voted(j, 1))
                - Cardinality(openBy[j] \cap Voted(j, 1))
      BY <3>1, <3>2, FS_Union, FS_EmptySet, Zenon
    <3> QED
      BY <3>2, <3>3
  <2>5. TallyInv(j)'
    BY <1>9, <2>1, <2>4 DEF Tally, TallyInv, Voted
  <2> QED
    BY <2>2, <2>3, <2>5
<1>10. CASE ReportDone(j)
  <2>1. WalkInv(j)'
    BY <1>10 DEF ReportDone, WalkInv, Seen
  <2>2. VoteInv(j)' /\ TallyInv(j)'
    BY <1>10 DEF ReportDone, VoteInv, TallyInv
  <2> QED
    BY <2>1, <2>2
<1> QED
  BY <1>1, <1>2, <1>3, <1>4, <1>5, <1>6, <1>7, <1>8, <1>9, <1>10 DEF JobStep

LEMMA DialKeeps ==
    ASSUME TypeInv, NEW j \in Jobs, NEW s \in Slots, BookInv(j), DialStep(j, s)
    PROVE  BookInv(j)'
<1> USE DEF TypeInv, TypeOK, BookInv, input, ctl, locals, fill, dials, shared, report
<1>1. /\ dial[<<j, s>>] \notin {"idle", "done"} /\ dial'[<<j, s>>] # "idle"
      /\ \A r \in Slots : r # s => /\ dial'[<<j, r>>] = dial[<<j, r>>]
                                  /\ vote'[<<j, r>>] = vote[<<j, r>>]
      /\ jpc' = jpc /\ consumed' = consumed /\ batch' = batch /\ throttled' = throttled
      /\ candidate' = candidate /\ quorum' = quorum /\ outcomes' = outcomes
      /\ confirmations' = confirmations /\ refuted' = refuted /\ refutedBy' = refutedBy
      /\ openBy' = openBy
  <2>1. CASE AcquireDial(j, s)
    BY <2>1 DEF AcquireDial
  <2>2. CASE DropResult(j, s)
    BY <2>2 DEF DropResult
  <2>3. CASE DialFails(j, s)
    BY <2>3 DEF DialFails
  <2>4. CASE DialRefused(j, s)
    BY <2>4 DEF DialRefused
  <2>5. CASE DialConnects(j, s)
    BY <2>5 DEF DialConnects
  <2>6. CASE ReportDead(j, s)
    BY <2>6 DEF ReportDead
  <2>7. CASE Identify(j, s)
    BY <2>7 DEF Identify
  <2> QED
    BY <2>1, <2>2, <2>3, <2>4, <2>5, <2>6, <2>7 DEF DialStep
<1>2. jpc[j] = "wait" /\ s \in batch[j] /\ s \in Seen(j) /\ s \notin openBy[j] /\ ~refuted[j]
  BY <1>1 DEF WalkInv, TallyInv
<1>3. WalkInv(j)'
  <2>1. Seen(j)' = Seen(j)
    BY <1>1 DEF Seen
  <2> QED
    BY <1>1, <1>2, <2>1 DEF WalkInv
<1>4. /\ vote'[<<j, s>>] = 1 \/ dial'[<<j, s>>] = "identifying" => s \in MaySupport[j]
      /\ vote'[<<j, s>>] = -1 => s \in MayRefute[j]
  <2>1. CASE AcquireDial(j, s)
    BY <2>1 DEF AcquireDial, VoteInv
  <2>2. CASE DropResult(j, s)
    BY <2>2 DEF DropResult, VoteInv
  <2>3. CASE DialFails(j, s)
    BY <2>3 DEF DialFails, VoteInv
  <2>4. CASE DialRefused(j, s)
    <3>1. PICK err \in Returns(j, s) \cap ErrorKinds : ~cancelled /\ ~IsProxyError(err)
      BY <2>4 DEF DialRefused
    <3>2. s \in MayRefute[j]
      BY <3>1 DEF Returns, MayRefute
    <3> QED
      BY <2>4, <3>2 DEF DialRefused, VoteInv
  <2>5. CASE DialConnects(j, s)
    <3>1. s \in MaySupport[j]
      BY <2>5 DEF DialConnects, Returns, MaySupport
    <3> QED
      BY <2>5, <3>1 DEF DialConnects, VoteInv
  <2>6. CASE ReportDead(j, s)
    BY <2>6 DEF ReportDead, VoteInv
  <2>7. CASE Identify(j, s)
    BY <2>7 DEF Identify, VoteInv
  <2> QED
    BY <2>1, <2>2, <2>3, <2>4, <2>5, <2>6, <2>7 DEF DialStep
<1>5. VoteInv(j)'
  BY <1>1, <1>2, <1>4 DEF VoteInv
<1>6. TallyInv(j)'
  BY <1>1, <1>2 DEF TallyInv
<1> QED
  BY <1>3, <1>5, <1>6

LEMMA BookNext == TypeInv /\ Bookkeeping /\ [Next]_vars => Bookkeeping'
<1> SUFFICES ASSUME TypeInv, Bookkeeping, [Next]_vars, NEW k \in Jobs PROVE BookInv(k)'
  BY DEF Bookkeeping, BookInv
<1>1. BookInv(k) /\ TypeOK
  BY DEF Bookkeeping, BookInv, TypeInv
<1>2. ASSUME Same(k) PROVE BookInv(k)'
  BY <1>1, <1>2, SameKeeps
<1>3. CASE UNCHANGED vars
  BY <1>2, <1>3 DEF Same, vars, input, ctl, locals, fill, dials, shared, report
<1>4. CASE CheckStop \/ Return \/ Cancel
  BY <1>2, <1>4 DEF CheckStop, Return, Cancel, Same, input, locals, fill, dials, shared, report
<1>5. CASE StartJob
  <2>1. CASE k # next
    BY <1>1, <1>2, <1>5, <2>1 DEF StartJob, Same, TypeOK, input, locals, fill, dials, shared, report
  <2>2. CASE k = next
    <3>1. jpc[k] = "unstarted" /\ jpc'[k] = "head"
      BY <1>1, <1>5, <2>2 DEF StartJob, TypeInv, Control, Jobs, TypeOK
    <3>2. WalkInv(k)'
      BY <1>1, <1>5, <3>1 DEF StartJob, BookInv, WalkInv, Seen, locals, fill, dials
    <3>3. VoteInv(k)' /\ TallyInv(k)'
      BY <1>1, <1>5, <3>1 DEF StartJob, BookInv, VoteInv, TallyInv, input, locals, fill, dials, report
    <3> QED
      BY <3>2, <3>3 DEF BookInv
  <2> QED
    BY <2>1, <2>2
<1>6. ASSUME NEW j \in Jobs, JobStep(j) PROVE BookInv(k)'
  BY <1>1, <1>2, <1>6, OtherJobs, JobKeeps
<1>7. ASSUME NEW j \in Jobs, NEW s \in Slots, DialStep(j, s) PROVE BookInv(k)'
  BY <1>1, <1>2, <1>7, OtherDials, DialKeeps
<1> QED
  BY <1>3, <1>4, <1>5, <1>6, <1>7 DEF Next, Dispatch, Returned

THEOREM BookkeepingHolds == Spec => [](TypeInv /\ Bookkeeping)
<1>1. Init => TypeInv /\ Bookkeeping
  BY TypeInit, BookInit
<1>2. TypeInv /\ Bookkeeping /\ [Next]_vars => (TypeInv /\ Bookkeeping)'
  BY TypeNext, BookNext
<1> QED
  BY <1>1, <1>2, PTL DEF Spec

-----------------------------------------------------------------------------
(* What follows from it *)

\* Fewer liars than the quorum never open a closed port, whatever the pool, the
\* answers, the configuration and the schedule.
THEOREM ClosedPortsStayClosed == Spec => []NoFalseOpen
<1>1. TypeInv /\ Bookkeeping => NoFalseOpen
  <2> SUFFICES ASSUME TypeInv, Bookkeeping, NEW j \in Jobs \ OpenJobs, outcomes[j] = "open"
               PROVE  Cardinality(Liars) >= quorum
    BY DEF NoFalseOpen
  <2>1. quorum \in Nat /\ confirmations[j] \in Nat /\ refuted[j] \in BOOLEAN /\ openBy[j] \subseteq Slots
    BY SizeAssumption DEF TypeInv, TypeOK
  <2>2. confirmations[j] >= quorum
    BY <2>1 DEF Bookkeeping, TallyInv, DecideQuorum
  <2>3. openBy[j] \subseteq Liars
    BY <2>1 DEF Bookkeeping, VoteInv, MaySupport, Liars
  <2>4. IsFiniteSet(Liars) /\ Cardinality(Liars) \in Nat
    BY SlotSets DEF Liars
  <2>5. Cardinality(openBy[j]) <= Cardinality(Liars)
    BY <2>3, <2>4, FS_Subset
  <2>6. confirmations[j] = Cardinality(openBy[j])
    BY DEF Bookkeeping, TallyInv
  <2> QED
    BY <2>1, <2>2, <2>4, <2>5, <2>6
<1> QED
  BY <1>1, BookkeepingHolds, PTL

\* A verdict of open was refused by nobody that was asked, and a verdict of
\* refuted names a proxy that the target's side did refuse.
THEOREM RefusalsOverride == Spec => []RefusalIsReal
<1>1. TypeInv /\ Bookkeeping => RefusalIsReal
  <2> SUFFICES ASSUME TypeInv, Bookkeeping, NEW j \in Jobs
               PROVE  /\ outcomes[j] = "open" => \A s \in Slots : vote[<<j, s>>] # -1
                      /\ outcomes[j] = "refuted" => /\ refutedBy[j] \in MayRefute[j]
                                                    /\ vote[<<j, refutedBy[j]>>] = -1
    BY DEF RefusalIsReal
  <2>1. quorum \in Nat /\ confirmations[j] \in Nat /\ refuted[j] \in BOOLEAN
    BY SizeAssumption DEF TypeInv, TypeOK
  <2>2. outcomes[j] = "open" => ~refuted[j] /\ confirmations[j] >= quorum
    BY <2>1 DEF Bookkeeping, TallyInv, DecideQuorum
  <2>3. outcomes[j] = "refuted" => refuted[j]
    BY <2>1 DEF Bookkeeping, TallyInv, DecideQuorum
  <2>4. outcomes[j] = "open" => \A s \in Slots : vote[<<j, s>>] # -1
    <3>1. outcomes[j] # "zero" =>
             \A s \in Slots : vote[<<j, s>>] = -1 => refuted[j] \/ confirmations[j] < quorum
      BY DEF Bookkeeping, TallyInv
    <3> QED
      BY <2>1, <2>2, <3>1
  <2>5. refuted[j] => refutedBy[j] \in MayRefute[j] /\ vote[<<j, refutedBy[j]>>] = -1
    BY DEF Bookkeeping, TallyInv, VoteInv
  <2> QED
    BY <2>3, <2>4, <2>5
<1> QED
  BY <1>1, BookkeepingHolds, PTL

\* No proxy is asked twice for one port.
THEOREM AskedOnce == Spec => NoRedial
<1>1. TypeInv /\ Bookkeeping /\ [Next]_vars =>
         [\A j \in Jobs, s \in Slots : dial[<<j, s>>] = "done" => dial'[<<j, s>>] = "done"]_vars
  <2> SUFFICES ASSUME TypeInv, Bookkeeping, [Next]_vars, NEW k \in Jobs, NEW r \in Slots,
                      dial[<<k, r>>] = "done"
               PROVE  dial'[<<k, r>>] = "done" \/ UNCHANGED vars
    OBVIOUS
  <2> USE DEF TypeInv, TypeOK, dials
  <2>1. CASE UNCHANGED vars
    BY <2>1
  <2>2. CASE Dispatch \/ Cancel
    BY <2>2 DEF Dispatch, CheckStop, StartJob, Return, Cancel
  <2>3. ASSUME NEW j \in Jobs, JobStep(j) PROVE dial'[<<k, r>>] = "done"
    <3>1. CASE Launch(j)
      <4>1. r \notin batch[k] \cup TopUp(k) \/ j # k
        BY <3>1 DEF Launch, TopUp, Bookkeeping, WalkInv
      <4> QED
        BY <3>1, <4>1 DEF Launch
    <3>2. CASE ~Launch(j)
      BY <2>3, <3>2 DEF JobStep, BeginRound, LeaveLoop, Settle, Pick, UseReady, SetAside,
                        NoCandidate, Interrupt, Tally, ReportDone
    <3> QED
      BY <3>1, <3>2
  <2>4. ASSUME NEW j \in Jobs, NEW s \in Slots, DialStep(j, s) PROVE dial'[<<k, r>>] = "done"
    BY <2>4 DEF DialStep, AcquireDial, DropResult, DialFails, DialRefused, DialConnects,
                ReportDead, Identify
  <2> QED
    BY <2>1, <2>2, <2>3, <2>4 DEF Next, Returned
<1> QED
  BY <1>1, BookkeepingHolds, PTL DEF Spec, NoRedial

-----------------------------------------------------------------------------
(* The scan implements QuorumScan *)

LEMMA PromiseInit == Init => Promise!Init
BY ClampInRange, ConfigAssumption DEF Init, Promise!Init

LEMMA PromiseSettle ==
    ASSUME TypeInv, NEW j \in Jobs, BookInv(j), Settle(j), outcomes[j] = "zero"
    PROVE  Promise!Decide(j)
<1>1. Promise!Cardinality(openBy[j]) = Cardinality(openBy[j])
  BY DEF Promise!Cardinality, Cardinality
<1> QED
  BY <1>1 DEF Settle, BookInv, TallyInv, Promise!Decide, Promise!DecideQuorum, DecideQuorum, input, locals

LEMMA PromiseTally ==
    ASSUME TypeInv, NEW j \in Jobs, BookInv(j), Tally(j)
    PROVE  Promise!Count(j, Voted(j, 1), Voted(j, -1))
<1> USE DEF TypeInv, TypeOK
<1>1. jpc[j] = "wait"
  BY DEF Tally, BatchDone
<1>2. outcomes[j] = "zero" /\ ~refuted[j] /\ Cardinality(openBy[j]) < quorum
  BY <1>1 DEF BookInv, TallyInv
<1>3. Voted(j, 1) \cap openBy[j] = {}
  BY <1>1 DEF BookInv, WalkInv, Voted
<1>4. openBy' = [openBy EXCEPT ![j] = @ \cup Voted(j, 1)] /\ outcomes' = outcomes /\ quorum' = quorum
  BY DEF Tally, input, report
<1>5. refuted' = [refuted EXCEPT ![j] = Voted(j, -1) # {}]
  BY <1>2 DEF Tally
<1>6. Promise!Cardinality(openBy[j]) = Cardinality(openBy[j])
  BY DEF Promise!Cardinality, Cardinality
<1> QED
  BY <1>2, <1>3, <1>4, <1>5, <1>6 DEF Promise!Count

\* Every step of the scan is a step of its promise, or changes nothing there.
LEMMA PromiseNext ==
    TypeInv /\ Bookkeeping /\ [Next]_vars => [Promise!Next]_(Promise!qvars)
<1> SUFFICES ASSUME TypeInv, Bookkeeping, [Next]_vars
             PROVE  Promise!Next \/ UNCHANGED <<quorum, openBy, refuted, outcomes>>
  BY DEF Promise!qvars
<1>1. CASE UNCHANGED vars
  BY <1>1 DEF vars, input, locals, report
<1>2. CASE Dispatch \/ Cancel
  BY <1>2 DEF Dispatch, CheckStop, StartJob, Return, Cancel, input, locals, report
<1>3. ASSUME NEW j \in Jobs, JobStep(j)
      PROVE  Promise!Next \/ UNCHANGED <<quorum, openBy, refuted, outcomes>>
  <2>1. BookInv(j)
    BY DEF Bookkeeping, BookInv
  <2>2. ASSUME Settle(j), jpc[j] \in {"head", "fill", "wait"} PROVE Promise!Next
    <3>1. outcomes[j] = "zero"
      BY <2>1, <2>2 DEF BookInv, TallyInv
    <3> QED
      BY <2>1, <2>2, <3>1, PromiseSettle DEF Promise!Next
  <2>3. CASE Tally(j)
    <3>1. Voted(j, 1) \in SUBSET MaySupport[j] /\ Voted(j, -1) \in SUBSET MayRefute[j]
      BY <2>1 DEF Voted, BookInv, VoteInv, TypeInv, TypeOK
    <3> QED
      BY <2>1, <2>3, <3>1, PromiseTally DEF Promise!Next
  <2>4. CASE LeaveLoop(j) \/ NoCandidate(j) \/ Interrupt(j)
    BY <2>2, <2>4 DEF LeaveLoop, NoCandidate, Interrupt, BatchDone
  <2>5. CASE BeginRound(j) \/ Pick(j) \/ UseReady(j) \/ SetAside(j) \/ Launch(j) \/ ReportDone(j)
    BY <2>5 DEF BeginRound, Pick, UseReady, SetAside, Launch, ReportDone, input, locals, report
  <2> QED
    BY <1>3, <2>3, <2>4, <2>5 DEF JobStep
<1>4. ASSUME NEW j \in Jobs, NEW s \in Slots, DialStep(j, s)
      PROVE  UNCHANGED <<quorum, openBy, refuted, outcomes>>
  BY <1>4 DEF DialStep, AcquireDial, DropResult, DialFails, DialRefused, DialConnects,
              ReportDead, Identify, input, locals, report
<1> QED
  BY <1>1, <1>2, <1>3, <1>4 DEF Next, Returned

\* The rotate-scan implements QuorumScan.
THEOREM ScanKeepsPromise == Spec => KeepsPromise
BY PromiseInit, PromiseNext, BookkeepingHolds, PTL DEF Spec, KeepsPromise, Promise!Spec

-----------------------------------------------------------------------------
(* Who is blamed for a dead proxy *)

\* The dials that marked an address dead: they have reported it or will.
Blamed == deadCalls \cup {x \in Jobs \X Slots : dial[x] = "reporting"}

\* The failed set is what those dials put there, one dial for each address.
BlameInv ==
    /\ \A x, y \in Blamed : Address[x[2]] = Address[y[2]] => x = y
    /\ \A x \in Blamed : x[2] \in MayDie
    /\ failedSet = {Address[x[2]] : x \in Blamed}

LEMMA BlameInit == Init => BlameInv
<1> SUFFICES ASSUME Init PROVE BlameInv
  OBVIOUS
<1>1. Blamed = {} /\ failedSet = {}
  BY DEF Init, Blamed
<1> QED
  BY <1>1 DEF BlameInv

\* No step but a dial's own changes what that dial is blamed for.
LEMMA BlameKept ==
    ASSUME BlameInv, failedSet' = failedSet, Blamed' = Blamed PROVE BlameInv'
BY DEF BlameInv

\* A dial that fails is blamed when it is the first to find its proxy dead.
LEMMA DialBlames ==
    ASSUME TypeInv, BlameInv, NEW j \in Jobs, NEW s \in Slots, DialFails(j, s)
    PROVE  BlameInv'
<1> USE DEF TypeInv, TypeOK
<1>1. PICK err \in Returns(j, s) \cap ErrorKinds :
            /\ dial[<<j, s>>] = "dialing" /\ ~cancelled
            /\ failedSet' = failedSet \cup (IF IsProxyDead(err) THEN {Address[s]} ELSE {})
            /\ dial' = [dial EXCEPT ![<<j, s>>] = IF NewlyDead(s, err) THEN "reporting" ELSE "done"]
            /\ deadCalls' = deadCalls
  BY DEF DialFails, report
<1>2. <<j, s>> \in Jobs \X Slots
  OBVIOUS
<1>3. CASE NewlyDead(s, err)
  <2>1. IsProxyDead(err) /\ Address[s] \notin failedSet
    BY <1>3 DEF NewlyDead
  <2>2. s \in MayDie
    BY <1>1, <2>1 DEF Returns, MayDie
  <2>3. Blamed' = Blamed \cup {<<j, s>>}
    BY <1>1, <1>2, <1>3 DEF Blamed
  <2>4. failedSet' = failedSet \cup {Address[s]}
    BY <1>1, <2>1
  <2>5. \A x \in Blamed : Address[x[2]] # Address[s]
    BY <2>1 DEF BlameInv
  <2> HIDE DEF TypeInv, TypeOK
  <2>6. \A x, y \in Blamed' : Address[x[2]] = Address[y[2]] => x = y
    BY <2>3, <2>5 DEF BlameInv
  <2>7. \A x \in Blamed' : x[2] \in MayDie
    BY <2>2, <2>3 DEF BlameInv
  <2>8. failedSet' = {Address[x[2]] : x \in Blamed'}
    <3>1. failedSet = {Address[x[2]] : x \in Blamed}
      BY DEF BlameInv
    <3>2. {Address[x[2]] : x \in {<<j, s>>}} = {Address[s]}
      OBVIOUS
    <3> HIDE DEF Blamed
    <3> QED
      BY <2>3, <2>4, <3>1, <3>2
  <2> QED
    BY <2>6, <2>7, <2>8 DEF BlameInv, MayDie
<1>4. CASE ~NewlyDead(s, err)
  <2>1. failedSet' = failedSet
    BY <1>1, <1>4 DEF NewlyDead
  <2>2. Blamed' = Blamed
    BY <1>1, <1>2, <1>4 DEF Blamed
  <2> QED
    BY <2>1, <2>2, BlameKept
<1> QED
  BY <1>3, <1>4

LEMMA BlameNext == TypeInv /\ Bookkeeping /\ BlameInv /\ [Next]_vars => BlameInv'
<1> SUFFICES ASSUME TypeInv, Bookkeeping, BlameInv, [Next]_vars PROVE BlameInv'
  OBVIOUS
<1> USE DEF TypeInv, TypeOK
<1>1. ASSUME dial' = dial, deadCalls' = deadCalls, failedSet' = failedSet PROVE BlameInv'
  <2>1. Blamed' = Blamed
    BY <1>1 DEF Blamed
  <2> QED
    BY <1>1, <2>1, BlameKept
<1>2. CASE UNCHANGED vars
  BY <1>1, <1>2 DEF vars, dials, shared, report
<1>3. CASE Dispatch \/ Cancel
  BY <1>1, <1>3 DEF Dispatch, CheckStop, StartJob, Return, Cancel, dials, shared, report
<1>4. ASSUME NEW j \in Jobs, JobStep(j) PROVE BlameInv'
  <2>1. CASE Launch(j)
    <3>1. \A s \in batch[j] \cup TopUp(j) : dial[<<j, s>>] = "idle"
      BY <2>1 DEF Launch, TopUp, Bookkeeping, WalkInv
    <3>2. deadCalls' = deadCalls /\ failedSet' = failedSet
      BY <2>1 DEF Launch, shared, report
    <3>3. \A x \in Jobs \X Slots : dial'[x] = "reporting" <=> dial[x] = "reporting"
      BY <2>1, <3>1 DEF Launch
    <3>4. Blamed' = Blamed
      BY <3>2, <3>3 DEF Blamed
    <3> QED
      BY <3>2, <3>4, BlameKept
  <2>2. CASE ~Launch(j)
    <3>1. dial' = dial /\ deadCalls' = deadCalls /\ failedSet' = failedSet
      BY <1>4, <2>2 DEF JobStep, BeginRound, LeaveLoop, Settle, Pick, UseReady, SetAside,
                        NoCandidate, Interrupt, Tally, ReportDone, dials, shared, report
    <3> QED
      BY <3>1, <1>1
  <2> QED
    BY <2>1, <2>2
<1>5. ASSUME NEW j \in Jobs, NEW s \in Slots, DialStep(j, s) PROVE BlameInv'
  <2> USE DEF dials, shared, report
  <2>1. <<j, s>> \in Jobs \X Slots
    OBVIOUS
  <2>2. ASSUME NEW to \in DialStates \ {"reporting"}, dial[<<j, s>>] # "reporting",
               dial' = [dial EXCEPT ![<<j, s>>] = to],
               deadCalls' = deadCalls, failedSet' = failedSet
        PROVE  BlameInv'
    <3>1. Blamed' = Blamed
      BY <2>1, <2>2 DEF Blamed
    <3> QED
      BY <2>2, <3>1, BlameKept
  <2>3. CASE AcquireDial(j, s)
    BY <2>2, <2>3 DEF AcquireDial, DialStates
  <2>4. CASE DropResult(j, s)
    BY <2>2, <2>4 DEF DropResult, DialStates
  <2>5. CASE DialFails(j, s)
    BY <2>5, DialBlames
  <2>6. CASE DialRefused(j, s)
    BY <2>2, <2>6 DEF DialRefused, DialStates
  <2>7. CASE DialConnects(j, s)
    BY <2>2, <2>7 DEF DialConnects, DialStates
  <2>8. CASE ReportDead(j, s)
    <3>1. failedSet' = failedSet
      BY <2>8 DEF ReportDead
    <3>2. Blamed' = Blamed
      BY <2>1, <2>8 DEF ReportDead, Blamed
    <3> QED
      BY <3>1, <3>2, BlameKept
  <2>9. CASE Identify(j, s)
    BY <2>2, <2>9 DEF Identify, DialStates
  <2> QED
    BY <1>5, <2>3, <2>4, <2>5, <2>6, <2>7, <2>8, <2>9 DEF DialStep
<1> QED
  BY <1>2, <1>3, <1>4, <1>5 DEF Next, Returned

-----------------------------------------------------------------------------
(* Jobs that have their verdict, and their progress numbers *)

Settled  == {j \in Jobs : jpc[j] \in {"report", "finished"}}
Finished == {j \in Jobs : jpc[j] = "finished"}

\* The counter counts the settled jobs, which between them have drawn every
\* number up to it; the finished ones have passed theirs on.
CountInv ==
    /\ done = Cardinality(Settled)
    /\ {ticket[j] : j \in Settled} = 1 .. done
    /\ doneCalls = {ticket[j] : j \in Finished}

\* The dispatcher stops early only for a stopped scan, and returns when no job
\* is left running.
DrainInv ==
    /\ pc \in {"drain", "returned"} => cancelled \/ next = TotalJobs
    /\ pc = "returned" => Running = {}

LEMMA JobSets ==
    ASSUME NEW S \in SUBSET Jobs PROVE IsFiniteSet(S) /\ Cardinality(S) \in Nat
<1>1. IsFiniteSet(Jobs)
  BY FS_Interval, SizeAssumption DEF Jobs
<1>2. IsFiniteSet(S)
  BY <1>1, FS_Subset
<1> QED
  BY <1>2, FS_CardinalityType

LEMMA CountInit == Init => CountInv /\ DrainInv
<1> SUFFICES ASSUME Init PROVE CountInv /\ DrainInv
  OBVIOUS
<1>1. Settled = {} /\ Finished = {}
  BY DEF Init, Settled, Finished
<1>2. CountInv
  BY <1>1, FS_EmptySet DEF Init, CountInv
<1>3. DrainInv
  BY DEF Init, DrainInv
<1> QED
  BY <1>2, <1>3

\* A step that settles no job and finishes none keeps the count.
LEMMA CountKept ==
    ASSUME CountInv, done' = done, ticket' = ticket, doneCalls' = doneCalls,
           Settled' = Settled, Finished' = Finished
    PROVE  CountInv'
BY DEF CountInv

\* A job that settles draws the next number.
LEMMA SettleCounts ==
    ASSUME TypeInv, CountInv, NEW j \in Jobs, Settle(j), jpc[j] \notin {"report", "finished"}
    PROVE  CountInv'
<1> USE DEF TypeInv, TypeOK
<1>1. /\ done' = done + 1 /\ doneCalls' = doneCalls
      /\ ticket' = [ticket EXCEPT ![j] = done + 1]
      /\ jpc' = [jpc EXCEPT ![j] = "report"]
  BY DEF Settle
<1>2. j \notin Settled /\ Settled' = Settled \cup {j} /\ Finished' = Finished
  BY <1>1 DEF Settled, Finished
<1>3. Settled \subseteq Jobs /\ Finished \subseteq Settled
  BY DEF Settled, Finished
<1>4. Cardinality(Settled \cup {j}) = Cardinality(Settled) + 1
  BY <1>2, <1>3, JobSets, FS_AddElement
<1>5. \A k \in Settled : ticket'[k] = ticket[k]
  BY <1>1, <1>2, <1>3
<1>6. ticket'[j] = done + 1
  BY <1>1
<1>7. {ticket'[k] : k \in Settled'} = {ticket[k] : k \in Settled} \cup {done + 1}
  BY <1>2, <1>5, <1>6
<1>8. done \in Nat /\ 1 .. (done + 1) = (1 .. done) \cup {done + 1}
  OBVIOUS
<1>9. {ticket'[k] : k \in Finished} = {ticket[k] : k \in Finished}
  BY <1>3, <1>5
<1> HIDE DEF TypeInv, TypeOK
<1> QED
  BY <1>1, <1>2, <1>4, <1>7, <1>8, <1>9 DEF CountInv

LEMMA CountNext == TypeInv /\ CountInv /\ [Next]_vars => CountInv'
<1> SUFFICES ASSUME TypeInv, CountInv, [Next]_vars PROVE CountInv'
  OBVIOUS
<1> USE DEF TypeInv, TypeOK
<1>1. ASSUME jpc' = jpc, UNCHANGED <<done, ticket, doneCalls>> PROVE CountInv'
  <2>1. Settled' = Settled /\ Finished' = Finished
    BY <1>1 DEF Settled, Finished
  <2> QED
    BY <1>1, <2>1, CountKept
<1>2. CASE UNCHANGED vars
  BY <1>1, <1>2 DEF vars, report
<1>3. CASE CheckStop \/ Return \/ Cancel
  BY <1>1, <1>3 DEF CheckStop, Return, Cancel, report
<1>4. ASSUME NEW j \in Jobs, NEW to \in JobStates \ {"report", "finished"},
             jpc[j] \notin {"report", "finished"}, jpc' = [jpc EXCEPT ![j] = to],
             UNCHANGED <<done, ticket, doneCalls>>
      PROVE  CountInv'
  <2>1. Settled' = Settled /\ Finished' = Finished
    BY <1>4 DEF Settled, Finished
  <2> QED
    BY <1>4, <2>1, CountKept
<1>5. CASE StartJob
  <2>1. next \in Jobs /\ jpc[next] = "unstarted"
    BY <1>5, SizeAssumption DEF StartJob, Control, Jobs
  <2> QED
    BY <1>4, <1>5, <2>1 DEF StartJob, report, JobStates
<1>6. ASSUME NEW j \in Jobs, JobStep(j) PROVE CountInv'
  <2> USE DEF report, JobStates
  <2>1. CASE BeginRound(j)
    BY <1>4, <2>1 DEF BeginRound
  <2>2. CASE LeaveLoop(j)
    BY <2>2, SettleCounts DEF LeaveLoop
  <2>3. CASE Pick(j)
    BY <1>4, <2>3 DEF Pick
  <2>4. CASE UseReady(j)
    BY <1>4, <2>4 DEF UseReady
  <2>5. CASE SetAside(j)
    BY <1>4, <2>5 DEF SetAside
  <2>6. CASE Launch(j)
    BY <1>4, <2>6 DEF Launch
  <2>7. CASE NoCandidate(j)
    BY <2>7, SettleCounts DEF NoCandidate
  <2>8. CASE Interrupt(j)
    BY <2>8, SettleCounts DEF Interrupt, BatchDone
  <2>9. CASE Tally(j)
    BY <1>4, <2>9 DEF Tally, BatchDone
  <2>10. CASE ReportDone(j)
    <3>1. /\ jpc[j] = "report" /\ jpc' = [jpc EXCEPT ![j] = "finished"]
          /\ UNCHANGED <<done, ticket>> /\ doneCalls' = doneCalls \cup {ticket[j]}
      BY <2>10 DEF ReportDone
    <3>2. Settled' = Settled /\ Finished' = Finished \cup {j}
      BY <3>1 DEF Settled, Finished
    <3> HIDE DEF TypeInv, TypeOK
    <3> QED
      BY <3>1, <3>2 DEF CountInv
  <2> QED
    BY <1>6, <2>1, <2>2, <2>3, <2>4, <2>5, <2>6, <2>7, <2>8, <2>9, <2>10 DEF JobStep
<1>7. ASSUME NEW j \in Jobs, NEW s \in Slots, DialStep(j, s) PROVE CountInv'
  BY <1>1, <1>7 DEF DialStep, AcquireDial, DropResult, DialFails, DialRefused, DialConnects,
                    ReportDead, Identify, report
<1> QED
  BY <1>2, <1>3, <1>5, <1>6, <1>7 DEF Next, Dispatch, Returned

LEMMA DrainNext == TypeInv /\ DrainInv /\ [Next]_vars => DrainInv'
<1> SUFFICES ASSUME TypeInv, DrainInv, [Next]_vars PROVE DrainInv'
  OBVIOUS
<1> USE DEF TypeInv, TypeOK, DrainInv
<1>1. ASSUME UNCHANGED <<pc, next, cancelled, jpc>> PROVE DrainInv'
  BY <1>1 DEF Running
<1>2. CASE UNCHANGED vars
  BY <1>1, <1>2 DEF vars, ctl
<1>3. CASE Dispatch
  BY <1>3 DEF Dispatch, CheckStop, StartJob, Return, Running
<1>4. ASSUME NEW j \in Jobs, JobStep(j) PROVE DrainInv'
  <2>1. jpc[j] \in JobStates \ {"unstarted", "finished"}
    BY <1>4 DEF JobStates, JobStep, BeginRound, LeaveLoop, Pick, UseReady, SetAside,
                Launch, NoCandidate, Interrupt, Tally, ReportDone, BatchDone
  <2>2. UNCHANGED <<pc, next, cancelled>>
    BY <1>4 DEF JobStep, BeginRound, LeaveLoop, Settle, Pick, UseReady, SetAside,
                Launch, NoCandidate, Interrupt, Tally, ReportDone, ctl
  <2>3. pc # "returned"
    BY <2>1 DEF Running
  <2> QED
    BY <2>2, <2>3
<1>5. ASSUME NEW j \in Jobs, NEW s \in Slots, DialStep(j, s) PROVE DrainInv'
  BY <1>1, <1>5 DEF DialStep, AcquireDial, DropResult, DialFails, DialRefused, DialConnects,
                    ReportDead, Identify, ctl
<1>6. CASE Cancel
  BY <1>6 DEF Cancel, Running
<1> QED
  BY <1>2, <1>3, <1>4, <1>5, <1>6 DEF Next, Returned

\* The promises to the caller rest on this invariant.
ReportInv == TypeInv /\ Bookkeeping /\ BlameInv /\ CountInv /\ DrainInv

LEMMA ReportHolds == Spec => []ReportInv
<1>1. Init => ReportInv
  BY TypeInit, BookInit, BlameInit, CountInit DEF ReportInv
<1>2. ReportInv /\ [Next]_vars => ReportInv'
  BY TypeNext, BookNext, BlameNext, CountNext, DrainNext DEF ReportInv
<1> QED
  BY <1>1, <1>2, PTL DEF Spec

\* When the scan has returned no dial is in the middle of anything.
LEMMA NothingRuns ==
    ASSUME TypeInv, Bookkeeping, DrainInv, pc = "returned", NEW j \in Jobs
    PROVE  /\ jpc[j] \in {"unstarted", "finished"}
           /\ \A s \in Slots : dial[<<j, s>>] \in {"idle", "done"}
<1>1. jpc[j] \in {"unstarted", "finished"}
  BY DEF DrainInv, Running
<1> QED
  BY <1>1 DEF Bookkeeping, WalkInv, TypeInv, TypeOK, DialStates

\* OnProxyDead fires once for each address in the failed set and for no other,
\* whatever jobs find a proxy dead at the same time (rotate.go:131-141, 248-252).
THEOREM DeathsReportedOnce == Spec => []DeadReportedOnce
<1>1. ReportInv => DeadReportedOnce
  <2> SUFFICES ASSUME ReportInv PROVE DeadReportedOnce
    OBVIOUS
  <2>1. deadCalls \subseteq Blamed
    BY DEF Blamed
  <2>2. pc = "returned" => Blamed = deadCalls
    BY NothingRuns DEF ReportInv, Blamed
  <2> QED
    BY <2>1, <2>2 DEF ReportInv, BlameInv, DeadReportedOnce
<1> QED
  BY <1>1, ReportHolds, PTL

\* RotateScan returns when nothing of it is left running: every job it started
\* has its verdict and its own progress number, and only a stopped scan leaves
\* jobs unstarted (rotate.go:103-129, 295-320).
THEOREM ReturnIsQuiet == Spec => []QuietAfterReturn
<1>1. ReportInv => QuietAfterReturn
  <2> SUFFICES ASSUME ReportInv, pc = "returned"
               PROVE  /\ \A j \in Jobs, s \in Slots : dial[<<j, s>>] \in {"idle", "done"}
                      /\ \A j \in Jobs : outcomes[j] # "zero" <=> j < next
                      /\ doneCalls = 1 .. next
                      /\ ~cancelled => next = TotalJobs
    BY DEF QuietAfterReturn
  <2>1. \A j \in Jobs : jpc[j] \in {"unstarted", "finished"}
    BY NothingRuns DEF ReportInv
  <2>2. \A j \in Jobs, s \in Slots : dial[<<j, s>>] \in {"idle", "done"}
    BY NothingRuns DEF ReportInv
  <2>3. next \in 0 .. TotalJobs /\ \A j \in Jobs : jpc[j] = "unstarted" <=> j >= next
    BY DEF ReportInv, TypeInv, TypeOK, Control
  <2>4. \A j \in Jobs : outcomes[j] # "zero" <=> j < next
    <3>1. \A j \in Jobs : outcomes[j] = "zero" <=> jpc[j] \notin {"report", "finished"}
      BY DEF ReportInv, Bookkeeping, TallyInv
    <3> QED
      BY <2>1, <2>3, <3>1 DEF Jobs
  <2>5. Settled = 0 .. (next - 1) /\ Finished = Settled
    BY <2>1, <2>3, SizeAssumption DEF Settled, Finished, Jobs
  <2>6. done = next
    BY <2>3, <2>5, FS_Interval DEF ReportInv, CountInv
  <2>7. doneCalls = 1 .. next
    BY <2>5, <2>6 DEF ReportInv, CountInv
  <2>8. ~cancelled => next = TotalJobs
    BY DEF ReportInv, DrainInv
  <2> QED
    BY <2>2, <2>4, <2>7, <2>8
<1> QED
  BY <1>1, ReportHolds, PTL

-----------------------------------------------------------------------------
(* The walk of a job, counted *)

LEMMA RetriesInRange == maxProxyRetries \in 1 .. PoolSize
BY SizeAssumption, ConfigAssumption DEF maxProxyRetries

\* Position is the inverse of Slot.
LEMMA PositionOfSlot ==
    ASSUME NEW j \in Jobs
    PROVE  /\ \A i \in 0 .. (PoolSize - 1) : Position(j, Slot(j, i)) = i
           /\ \A s \in Slots : /\ Position(j, s) \in 0 .. (PoolSize - 1)
                               /\ Slot(j, Position(j, s)) = s
<1>1. j % PoolSize \in 0 .. (PoolSize - 1)
  BY SizeAssumption DEF Jobs
<1> QED
  BY <1>1, SizeAssumption DEF Slot, Position, Slots

LEMMA SlotsCounted == IsFiniteSet(Slots) /\ Cardinality(Slots) = PoolSize
<1>1. PoolSize - 1 \in Int /\ ~(0 > PoolSize - 1)
  BY SizeAssumption
<1>2. /\ IsFiniteSet(0 .. (PoolSize - 1))
      /\ Cardinality(0 .. (PoolSize - 1)) =
            IF 0 > PoolSize - 1 THEN 0 ELSE PoolSize - 1 - 0 + 1
  BY <1>1, FS_Interval
<1> QED
  BY <1>1, <1>2, SizeAssumption DEF Slots

\* A job has seen as many slots as it has consumed, at most.
LEMMA SeenCounted ==
    ASSUME TypeOK, NEW j \in Jobs
    PROVE  Cardinality(Seen(j)) <= consumed[j]
<1> DEFINE at == [s \in Seen(j) |-> Position(j, s)]
           T  == 0 .. (consumed[j] - 1)
<1>1. consumed[j] \in 0 .. PoolSize
  BY DEF TypeOK
<1>2. \A i \in T : Position(j, Slot(j, i)) = i
  BY <1>1, PositionOfSlot, SizeAssumption
<1>3. \A s \in Seen(j) : Position(j, s) \in T
  BY <1>2 DEF Seen
<1>4. \A s \in Seen(j) : Slot(j, Position(j, s)) = s
  BY SeenInPool, PositionOfSlot
<1>5. at \in Injection(Seen(j), T)
  BY <1>3, <1>4 DEF Injection, IsInjective
<1>6. IsFiniteSet(T) /\ Cardinality(T) = consumed[j]
  <2>1. consumed[j] - 1 \in Int
    BY <1>1
  <2>2. /\ IsFiniteSet(0 .. (consumed[j] - 1))
        /\ Cardinality(0 .. (consumed[j] - 1)) =
              IF 0 > consumed[j] - 1 THEN 0 ELSE consumed[j] - 1 - 0 + 1
    BY <2>1, FS_Interval
  <2> QED
    BY <1>1, <2>2
<1> HIDE DEF at, T
<1>7. Cardinality(Seen(j)) <= Cardinality(T)
  BY <1>5, <1>6, FS_Injection, Zenon
<1> QED
  BY <1>6, <1>7

\* When the pool is consumed the job has seen every slot.
LEMMA SeenAll ==
    ASSUME TypeOK, NEW j \in Jobs, consumed[j] >= PoolSize
    PROVE  Slots \subseteq Seen(j)
<1> SUFFICES ASSUME NEW s \in Slots PROVE s \in Seen(j)
  OBVIOUS
<1>1. consumed[j] = PoolSize
  <2>1. consumed[j] \in 0 .. PoolSize
    BY DEF TypeOK
  <2> QED
    BY <2>1, SizeAssumption
<1>2. Position(j, s) \in 0 .. (PoolSize - 1) /\ Slot(j, Position(j, s)) = s
  BY PositionOfSlot
<1> QED
  BY <1>1, <1>2 DEF Seen

\* The set-aside proxies that top up a batch fit into it.
LEMMA TopUpFits ==
    ASSUME TypeOK, NEW j \in Jobs, Cardinality(batch[j]) <= BatchSize(j)
    PROVE  Cardinality(batch[j] \cup TopUp(j)) <= BatchSize(j)
<1> DEFINE room == BatchSize(j) - Cardinality(batch[j])
           T    == TopUp(j)
<1>1. /\ batch[j] \in SUBSET Slots /\ throttled[j] \in SUBSET Slots
      /\ T \in SUBSET Slots /\ T \subseteq throttled[j]
      /\ confirmations[j] \in Nat /\ quorum \in 1 .. PoolSize
  BY DEF TypeOK, TopUp
<1>2. /\ IsFiniteSet(batch[j]) /\ Cardinality(batch[j]) \in Nat
      /\ IsFiniteSet(T) /\ Cardinality(T) \in Nat
  BY <1>1, SlotSets
<1>3. BatchSize(j) \in Int /\ room \in Nat
  BY <1>1, <1>2, SizeAssumption DEF BatchSize
<1>4. \A s \in T : Cardinality({t \in throttled[j] : Position(j, t) < Position(j, s)}) < room
  BY DEF TopUp
<1> HIDE DEF T, room
<1>5. Cardinality(T) <= room
  <2> SUFFICES ASSUME Cardinality(T) > room PROVE FALSE
    BY <1>2, <1>3
  <2>1. T # {}
    BY <1>3, FS_EmptySet
  <2> DEFINE ahead == {PoolSize - Position(j, t) : t \in T}
  <2>2. ahead \subseteq Nat /\ ahead # {}
    BY <1>1, <2>1, PositionOfSlot, SizeAssumption
  <2>3. PICK x \in ahead : \A y \in ahead : ~(y < x)
    <3> HIDE DEF ahead
    <3>1. \E x \in ahead : \A y \in ahead : ~(<<y, x>> \in OpToRel(<, Nat))
      BY <2>2, NatLessThanWellFounded, WFMin
    <3> QED
      BY <2>2, <3>1 DEF OpToRel
  <2>4. PICK s \in T : x = PoolSize - Position(j, s)
    OBVIOUS
  <2>5. \A t \in T : ~(PoolSize - Position(j, t) < PoolSize - Position(j, s))
    BY <2>3, <2>4
  <2> DEFINE earlier == {t \in throttled[j] : Position(j, t) < Position(j, s)}
  <2>6. T \ {s} \subseteq earlier
    <3> SUFFICES ASSUME NEW t \in T, t # s PROVE Position(j, t) < Position(j, s)
      BY <1>1
    <3>1. s \in Slots /\ t \in Slots
      BY <1>1
    <3>2. Position(j, t) \in Int /\ Position(j, s) \in Int /\ Position(j, t) # Position(j, s)
      BY <3>1, PositionOfSlot
    <3> QED
      BY <2>5, <3>2, SizeAssumption
  <2>7. IsFiniteSet(earlier) /\ Cardinality(earlier) \in Nat /\ Cardinality(earlier) < room
    <3>1. earlier \in SUBSET Slots
      BY <1>1
    <3> QED
      BY <1>4, <3>1, SlotSets
  <2> HIDE DEF earlier
  <2>8. Cardinality(T \ {s}) <= Cardinality(earlier)
    BY <2>6, <2>7, FS_Subset
  <2>9. Cardinality(T \ {s}) = Cardinality(T) - 1
    BY <1>2, FS_RemoveElement
  <2> QED
    BY <1>2, <1>3, <2>7, <2>8, <2>9
<1>6. /\ IsFiniteSet(batch[j] \cap T) /\ Cardinality(batch[j] \cap T) \in Nat
      /\ Cardinality(batch[j] \cup T) =
            Cardinality(batch[j]) + Cardinality(T) - Cardinality(batch[j] \cap T)
  BY <1>2, FS_Union, FS_Intersection, FS_CardinalityType
<1> QED
  BY <1>2, <1>3, <1>5, <1>6 DEF T, room

-----------------------------------------------------------------------------
(* What a port may cost *)

InFlight(j) == IF jpc[j] = "wait" THEN batch[j] ELSE {}

\* The slots job j has asked and, unless it was stopped, tallied.
Counted(j) == {s \in Slots : dial[<<j, s>>] # "idle"} \ InFlight(j)

\* Each confirmation and each proxy error is a slot of its own; a round begins
\* below the cap and its batch is no larger than what is still missing and two.
BudgetInv(j) ==
    /\ confirmations[j] + proxyErrors[j] <= Cardinality(Counted(j))
    /\ confirmations[j] + proxyErrors[j] <= maxProxyRetries + quorum + 1
    /\ jpc[j] \in {"fill", "ready", "wait"} =>
          /\ proxyErrors[j] < maxProxyRetries
          /\ Cardinality(batch[j]) <= BatchSize(j)
    /\ jpc[j] = "ready" => Cardinality(batch[j]) < BatchSize(j)

Budgets == \A j \in Jobs : BudgetInv(j)

LEMMA CountedInPool ==
    ASSUME TypeInv, NEW j \in Jobs, BookInv(j)
    PROVE  /\ Counted(j) \in SUBSET Slots /\ Counted(j) \subseteq Seen(j)
           /\ IsFiniteSet(Counted(j)) /\ Cardinality(Counted(j)) \in Nat
           /\ Cardinality(Counted(j)) <= Cardinality(Seen(j))
           /\ Cardinality(Seen(j)) \in Nat
<1>1. Counted(j) \in SUBSET Slots /\ Counted(j) \subseteq Seen(j)
  BY DEF Counted, BookInv, WalkInv
<1>2. Seen(j) \in SUBSET Slots
  BY SeenInPool DEF TypeInv
<1>3. IsFiniteSet(Seen(j)) /\ Cardinality(Seen(j)) \in Nat
  BY <1>2, SlotSets
<1>4. IsFiniteSet(Counted(j)) /\ Cardinality(Counted(j)) \in Nat
  BY <1>1, SlotSets
<1> QED
  BY <1>1, <1>3, <1>4, FS_Subset

\* Only the end of a round adds to what is counted, and it adds the batch.
LEMMA CountedByJob ==
    ASSUME TypeInv, NEW j \in Jobs, BookInv(j), JobStep(j)
    PROVE  /\ Tally(j) \/ Interrupt(j) => /\ Counted(j)' = Counted(j) \cup batch[j]
                                          /\ Counted(j) \cap batch[j] = {}
           /\ ~(Tally(j) \/ Interrupt(j)) => Counted(j)' = Counted(j)
<1> USE DEF TypeInv, TypeOK, dials
<1>1. CASE Tally(j) \/ Interrupt(j)
  <2>1. /\ jpc[j] = "wait" /\ jpc'[j] \in {"head", "report"} /\ dial' = dial
        /\ \A s \in batch[j] : dial[<<j, s>>] = "done"
    BY <1>1 DEF Tally, Interrupt, Settle, BatchDone
  <2> QED
    BY <1>1, <2>1 DEF Counted, InFlight
<1>2. CASE Launch(j)
  <2>1. jpc[j] = "fill" /\ jpc'[j] = "wait" /\ batch'[j] = batch[j] \cup TopUp(j)
    BY <1>2 DEF Launch
  <2>2. \A s \in Slots : dial'[<<j, s>>] = IF s \in batch'[j] THEN "queued" ELSE dial[<<j, s>>]
    BY <1>2, <2>1 DEF Launch
  <2>3. \A s \in batch'[j] : dial[<<j, s>>] = "idle"
    BY <2>1 DEF TopUp, BookInv, WalkInv
  <2>4. Counted(j)' = Counted(j)
    BY <2>1, <2>2, <2>3 DEF Counted, InFlight
  <2> QED
    BY <2>1, <2>4 DEF Tally, Interrupt, BatchDone
<1>3. CASE ~(Tally(j) \/ Interrupt(j) \/ Launch(j))
  <2>1. dial' = dial /\ jpc[j] # "wait" /\ jpc'[j] # "wait"
    <3>1. CASE BeginRound(j)
      BY <3>1 DEF BeginRound
    <3>2. CASE LeaveLoop(j) \/ NoCandidate(j)
      BY <3>2 DEF LeaveLoop, NoCandidate, Settle
    <3>3. CASE Pick(j)
      BY <3>3 DEF Pick
    <3>4. CASE UseReady(j) \/ SetAside(j)
      BY <3>4 DEF UseReady, SetAside
    <3>5. CASE ReportDone(j)
      BY <3>5 DEF ReportDone
    <3> QED
      BY <1>3, <3>1, <3>2, <3>3, <3>4, <3>5 DEF JobStep
  <2> QED
    BY <1>3, <2>1 DEF Counted, InFlight
<1> QED
  BY <1>1, <1>2, <1>3

\* What a step that is none of job k's leaves to the count.
Untouched(k) == Same(k) /\ proxyErrors'[k] = proxyErrors[k]

LEMMA CountedElsewhere ==
    ASSUME NEW k \in Jobs, Untouched(k)
    PROVE  Counted(k)' = Counted(k)
BY DEF Untouched, Same, Counted, InFlight

LEMMA OthersUntouched ==
    ASSUME TypeOK, NEW j \in Jobs, NEW k \in Jobs, k # j,
           JobStep(j) \/ \E s \in Slots : DialStep(j, s)
    PROVE  Untouched(k)
<1>1. CASE JobStep(j)
  <2>1. proxyErrors'[k] = proxyErrors[k]
    BY <1>1 DEF TypeOK, JobStep, BeginRound, LeaveLoop, Settle, Pick, UseReady, SetAside, Launch,
                NoCandidate, Interrupt, Tally, ReportDone, locals
  <2> QED
    BY <1>1, <2>1, OtherJobs DEF Untouched
<1>2. ASSUME NEW s \in Slots, DialStep(j, s) PROVE Untouched(k)
  <2>1. proxyErrors' = proxyErrors
    BY <1>2 DEF DialStep, AcquireDial, DropResult, DialFails, DialRefused, DialConnects,
                ReportDead, Identify, locals
  <2> QED
    BY <1>2, <2>1, OtherDials DEF Untouched
<1> QED
  BY <1>1, <1>2

\* A dial of the job's own changes nothing it has counted.
LEMMA CountedByDial ==
    ASSUME TypeInv, NEW j \in Jobs, NEW s \in Slots, DialStep(j, s)
    PROVE  /\ Counted(j)' = Counted(j)
           /\ UNCHANGED <<quorum, jpc, confirmations, proxyErrors, openBy, consumed,
                          batch, throttled, outcomes>>
<1> USE DEF TypeInv, TypeOK, input, locals, fill, report
<1>1. /\ dial[<<j, s>>] # "idle" /\ dial'[<<j, s>>] # "idle"
      /\ \A r \in Slots : r # s => dial'[<<j, r>>] = dial[<<j, r>>]
      /\ UNCHANGED <<quorum, jpc, confirmations, proxyErrors, openBy, consumed,
                     batch, throttled, outcomes>>
  <2>1. CASE AcquireDial(j, s)
    BY <2>1 DEF AcquireDial
  <2>2. CASE DropResult(j, s)
    BY <2>2 DEF DropResult
  <2>3. CASE DialFails(j, s)
    BY <2>3 DEF DialFails
  <2>4. CASE DialRefused(j, s)
    BY <2>4 DEF DialRefused
  <2>5. CASE DialConnects(j, s)
    BY <2>5 DEF DialConnects
  <2>6. CASE ReportDead(j, s)
    BY <2>6 DEF ReportDead
  <2>7. CASE Identify(j, s)
    BY <2>7 DEF Identify
  <2> QED
    BY <2>1, <2>2, <2>3, <2>4, <2>5, <2>6, <2>7 DEF DialStep
<1>2. \A r \in Slots : dial'[<<j, r>>] = "idle" <=> dial[<<j, r>>] = "idle"
  BY <1>1
<1> QED
  BY <1>1, <1>2 DEF Counted, InFlight

\* One proxy more makes a batch larger by one, at most.
LEMMA OneMore ==
    ASSUME NEW S \in SUBSET Slots, NEW s
    PROVE  /\ Cardinality(S) \in Nat /\ Cardinality(S \cup {s}) \in Nat
           /\ Cardinality(S \cup {s}) <= Cardinality(S) + 1
<1>1. IsFiniteSet(S) /\ Cardinality(S) \in Nat
  BY SlotSets
<1>2. Cardinality(S \cup {s}) = IF s \in S THEN Cardinality(S) ELSE Cardinality(S) + 1
  BY <1>1, FS_AddElement
<1> QED
  BY <1>1, <1>2

LEMMA BudgetInit == Init => Budgets
<1> SUFFICES ASSUME Init, NEW j \in Jobs PROVE BudgetInv(j)
  BY DEF Budgets
<1>1. Counted(j) = {} /\ jpc[j] = "unstarted" /\ confirmations[j] = 0 /\ proxyErrors[j] = 0
  BY DEF Init, Counted
<1>2. maxProxyRetries \in Nat /\ quorum \in Nat
  BY RetriesInRange, TypeInit, SizeAssumption DEF TypeInv, TypeOK
<1> HIDE DEF maxProxyRetries
<1> QED
  BY <1>1, <1>2, FS_EmptySet DEF BudgetInv

LEMMA BudgetKept ==
    ASSUME NEW k \in Jobs, BudgetInv(k), Untouched(k)
    PROVE  BudgetInv(k)'
<1>1. Counted(k)' = Counted(k)
  BY CountedElsewhere
<1> QED
  BY <1>1 DEF BudgetInv, BatchSize, Untouched, Same

LEMMA BudgetByJob ==
    ASSUME TypeInv, NEW j \in Jobs, BookInv(j), BudgetInv(j), JobStep(j)
    PROVE  BudgetInv(j)'
<1> DEFINE spent == confirmations[j] + proxyErrors[j]
<1>1. /\ quorum \in Nat /\ quorum' = quorum /\ maxProxyRetries \in Nat
      /\ confirmations[j] \in Nat /\ proxyErrors[j] \in Nat
  BY RetriesInRange, SizeAssumption
     DEF TypeInv, TypeOK, JobStep, BeginRound, LeaveLoop, Settle, Pick, UseReady, SetAside,
         Launch, NoCandidate, Interrupt, Tally, ReportDone, input
<1>2. batch[j] \in SUBSET Slots /\ IsFiniteSet(batch[j]) /\ Cardinality(batch[j]) \in Nat
  BY SlotSets DEF TypeInv, TypeOK
<1>3. IsFiniteSet(Counted(j)) /\ Cardinality(Counted(j)) \in Nat
  BY CountedInPool
<1> USE DEF TypeInv, TypeOK, locals, fill
<1>4. ASSUME Counted(j)' = Counted(j), UNCHANGED <<confirmations, proxyErrors>>,
             jpc'[j] \in {"fill", "ready", "wait"} =>
                /\ proxyErrors[j] < maxProxyRetries
                /\ Cardinality(batch'[j]) <= BatchSize(j),
             jpc'[j] = "ready" => Cardinality(batch'[j]) < BatchSize(j)
      PROVE  BudgetInv(j)'
  BY <1>1, <1>4 DEF BudgetInv, BatchSize
<1>5. CASE BeginRound(j)
  <2>1. /\ proxyErrors[j] < maxProxyRetries /\ confirmations[j] < quorum
        /\ batch'[j] = {} /\ jpc'[j] = "fill" /\ UNCHANGED <<confirmations, proxyErrors>>
    BY <1>5 DEF BeginRound, MoreNeeded
  <2>2. Cardinality(batch'[j]) <= BatchSize(j)
    BY <1>1, <2>1, FS_EmptySet DEF BatchSize
  <2>3. Counted(j)' = Counted(j)
    BY <1>5, CountedByJob DEF BeginRound, Tally, Interrupt, BatchDone
  <2> QED
    BY <1>4, <2>1, <2>2, <2>3
<1>6. CASE LeaveLoop(j) \/ NoCandidate(j) \/ ReportDone(j)
  <2>1. /\ jpc[j] # "wait" /\ jpc'[j] \in {"report", "finished"}
        /\ UNCHANGED <<confirmations, proxyErrors>>
    BY <1>6 DEF LeaveLoop, NoCandidate, ReportDone, Settle
  <2>2. Counted(j)' = Counted(j)
    BY <1>6, <2>1, CountedByJob DEF Tally, Interrupt, BatchDone
  <2> QED
    BY <1>4, <2>1, <2>2
<1>7. CASE Interrupt(j)
  <2>1. jpc'[j] = "report" /\ UNCHANGED <<confirmations, proxyErrors>>
    BY <1>7 DEF Interrupt, Settle
  <2>2. Counted(j)' = Counted(j) \cup batch[j]
    BY <1>7, CountedByJob
  <2>3. IsFiniteSet(Counted(j) \cup batch[j]) /\ Cardinality(Counted(j) \cup batch[j]) \in Nat
    BY SlotSets, CountedInPool
  <2>4. Cardinality(Counted(j)) <= Cardinality(Counted(j) \cup batch[j])
    BY <2>3, FS_Subset
  <2> QED
    BY <1>1, <1>3, <2>1, <2>2, <2>3, <2>4 DEF BudgetInv
<1>8. CASE Pick(j)
  <2>1. /\ jpc[j] = "fill" /\ jpc'[j] \in {"fill", "ready"}
        /\ Cardinality(batch[j]) < BatchSize(j) /\ UNCHANGED <<confirmations, proxyErrors>>
        /\ batch'[j] \in {batch[j], batch[j] \cup {Slot(j, consumed[j])}}
        /\ jpc'[j] = "ready" => batch'[j] = batch[j]
    BY <1>8 DEF Pick, Filling
  <2>2. Counted(j)' = Counted(j)
    BY <1>8, <2>1, CountedByJob DEF Tally, Interrupt, BatchDone
  <2>3. Cardinality(batch'[j]) \in Nat /\ Cardinality(batch'[j]) <= Cardinality(batch[j]) + 1
    <3>1. CASE batch'[j] = batch[j]
      BY <1>2, <3>1
    <3>2. CASE batch'[j] = batch[j] \cup {Slot(j, consumed[j])}
      BY <1>2, <3>2, OneMore
    <3> QED
      BY <2>1, <3>1, <3>2
  <2>4. Cardinality(batch'[j]) <= BatchSize(j)
    <3>1. BatchSize(j) \in Int
      BY <1>1 DEF BatchSize
    <3> QED
      BY <1>2, <2>1, <2>3, <3>1
  <2> QED
    BY <1>4, <2>1, <2>2, <2>4 DEF BudgetInv
<1>9. CASE UseReady(j)
  <2>1. /\ jpc[j] = "ready" /\ jpc'[j] = "fill" /\ batch'[j] = batch[j] \cup {candidate[j]}
        /\ UNCHANGED <<confirmations, proxyErrors>>
    BY <1>9 DEF UseReady
  <2>2. Counted(j)' = Counted(j)
    BY <1>9, <2>1, CountedByJob DEF Tally, Interrupt, BatchDone
  <2>3. BatchSize(j) \in Int /\ Cardinality(batch[j]) < BatchSize(j)
    BY <1>1, <2>1 DEF BudgetInv, BatchSize
  <2>4. Cardinality(batch'[j]) <= BatchSize(j)
    <3>1. /\ Cardinality(batch[j] \cup {candidate[j]}) \in Nat
          /\ Cardinality(batch[j] \cup {candidate[j]}) <= Cardinality(batch[j]) + 1
      BY <1>2, OneMore
    <3> QED
      BY <1>2, <2>1, <2>3, <3>1
  <2> QED
    BY <1>4, <2>1, <2>2, <2>4 DEF BudgetInv
<1>10. CASE SetAside(j)
  <2>1. /\ jpc[j] = "ready" /\ jpc'[j] = "fill" /\ batch'[j] = batch[j]
        /\ UNCHANGED <<confirmations, proxyErrors>>
    BY <1>10 DEF SetAside
  <2>2. Counted(j)' = Counted(j)
    BY <1>10, <2>1, CountedByJob DEF Tally, Interrupt, BatchDone
  <2> QED
    BY <1>4, <2>1, <2>2 DEF BudgetInv
<1>11. CASE Launch(j)
  <2>1. /\ jpc[j] = "fill" /\ jpc'[j] = "wait" /\ batch'[j] = batch[j] \cup TopUp(j)
        /\ UNCHANGED <<confirmations, proxyErrors>>
    BY <1>11 DEF Launch
  <2>2. Counted(j)' = Counted(j)
    BY <1>11, <2>1, CountedByJob DEF Tally, Interrupt, BatchDone
  <2>3. Cardinality(batch'[j]) <= BatchSize(j)
    BY <2>1, TopUpFits DEF BudgetInv
  <2> QED
    BY <1>4, <2>1, <2>2, <2>3 DEF BudgetInv
<1>12. CASE Tally(j)
  <2>1. /\ jpc[j] = "wait" /\ jpc'[j] = "head"
        /\ confirmations'[j] = confirmations[j] + Cardinality(Voted(j, 1))
        /\ proxyErrors'[j] = proxyErrors[j] + Cardinality(Voted(j, 0))
    BY <1>12 DEF Tally, BatchDone
  <2>2. Counted(j)' = Counted(j) \cup batch[j] /\ Counted(j) \cap batch[j] = {}
    BY <1>12, CountedByJob
  <2>3. Cardinality(Counted(j)') = Cardinality(Counted(j)) + Cardinality(batch[j])
    <3>1. Cardinality(Counted(j) \cap batch[j]) = 0
      BY <2>2, FS_EmptySet
    <3>2. Cardinality(Counted(j) \cup batch[j]) =
             Cardinality(Counted(j)) + Cardinality(batch[j])
             - Cardinality(Counted(j) \cap batch[j])
      BY <1>2, <1>3, FS_Union, Zenon
    <3> QED
      BY <1>2, <1>3, <2>2, <3>1, <3>2
  <2>4. /\ Cardinality(Voted(j, 1)) \in Nat /\ Cardinality(Voted(j, 0)) \in Nat
        /\ Cardinality(Voted(j, 1)) + Cardinality(Voted(j, 0)) <= Cardinality(batch[j])
    <3>1. /\ Voted(j, 1) \cup Voted(j, 0) \in SUBSET batch[j]
          /\ Voted(j, 1) \in SUBSET Slots /\ Voted(j, 0) \in SUBSET Slots
          /\ Voted(j, 1) \cap Voted(j, 0) = {}
      BY <1>2 DEF Voted
    <3>2. /\ IsFiniteSet(Voted(j, 1)) /\ Cardinality(Voted(j, 1)) \in Nat
          /\ IsFiniteSet(Voted(j, 0)) /\ Cardinality(Voted(j, 0)) \in Nat
      BY <3>1, SlotSets
    <3>3. Cardinality(Voted(j, 1) \cap Voted(j, 0)) = 0
      BY <3>1, FS_EmptySet
    <3>4. Cardinality(Voted(j, 1) \cup Voted(j, 0)) =
             Cardinality(Voted(j, 1)) + Cardinality(Voted(j, 0))
             - Cardinality(Voted(j, 1) \cap Voted(j, 0))
      BY <3>2, FS_Union, Zenon
    <3>5. Cardinality(Voted(j, 1) \cup Voted(j, 0)) <= Cardinality(batch[j])
      BY <1>2, <3>1, FS_Subset
    <3> QED
      BY <1>2, <3>2, <3>3, <3>4, <3>5
  <2>5. proxyErrors[j] < maxProxyRetries /\ Cardinality(batch[j]) <= quorum - confirmations[j] + 2
    BY <2>1 DEF BudgetInv, BatchSize
  <2>6. spent <= Cardinality(Counted(j))
    BY DEF BudgetInv
  <2>7. confirmations'[j] + proxyErrors'[j] <= Cardinality(Counted(j)')
    BY <1>1, <1>2, <1>3, <2>1, <2>3, <2>4, <2>6
  <2>8. confirmations'[j] + proxyErrors'[j] <= maxProxyRetries + quorum + 1
    BY <1>1, <1>2, <2>1, <2>4, <2>5
  <2> QED
    BY <1>1, <2>1, <2>7, <2>8 DEF BudgetInv
<1> QED
  BY <1>5, <1>6, <1>7, <1>8, <1>9, <1>10, <1>11, <1>12 DEF JobStep

LEMMA BudgetNext == TypeInv /\ Bookkeeping /\ Budgets /\ [Next]_vars => Budgets'
<1> SUFFICES ASSUME TypeInv, Bookkeeping, Budgets, [Next]_vars, NEW k \in Jobs
             PROVE  BudgetInv(k)'
  BY DEF Budgets
<1>1. TypeOK /\ BookInv(k) /\ BudgetInv(k)
  BY DEF TypeInv, Bookkeeping, BookInv, Budgets
<1>2. ASSUME Untouched(k) PROVE BudgetInv(k)'
  BY <1>1, <1>2, BudgetKept
<1>3. CASE UNCHANGED vars
  BY <1>2, <1>3 DEF Untouched, Same, vars, input, ctl, locals, fill, dials, shared, report
<1>4. CASE CheckStop \/ Return \/ Cancel
  BY <1>2, <1>4 DEF CheckStop, Return, Cancel, Untouched, Same,
                    input, locals, fill, dials, shared, report
<1>5. CASE StartJob
  <2>1. jpc'[k] \in {jpc[k], "head"} /\ (jpc'[k] # jpc[k] => jpc[k] = "unstarted")
    <3>1. next \in Jobs /\ jpc[next] = "unstarted"
      BY <1>5, SizeAssumption DEF StartJob, TypeInv, TypeOK, Control, Jobs
    <3>2. jpc \in [Jobs -> JobStates]
      BY DEF TypeInv, TypeOK
    <3> QED
      BY <1>5, <3>1, <3>2 DEF StartJob
  <2>2. UNCHANGED <<input, locals, fill, dials>>
    BY <1>5 DEF StartJob
  <2>3. Counted(k)' = Counted(k)
    BY <2>1, <2>2 DEF Counted, InFlight, dials, fill
  <2> QED
    BY <1>1, <2>1, <2>2, <2>3 DEF BudgetInv, BatchSize, input, locals, fill
<1>6. ASSUME NEW j \in Jobs, JobStep(j) PROVE BudgetInv(k)'
  BY <1>1, <1>2, <1>6, OthersUntouched, BudgetByJob
<1>7. ASSUME NEW j \in Jobs, NEW s \in Slots, DialStep(j, s) PROVE BudgetInv(k)'
  <2>1. CASE j # k
    BY <1>1, <1>2, <1>7, <2>1, OthersUntouched
  <2>2. CASE j = k
    BY <1>1, <1>7, <2>2, CountedByDial DEF BudgetInv, BatchSize
  <2> QED
    BY <2>1, <2>2
<1> QED
  BY <1>3, <1>4, <1>5, <1>6, <1>7 DEF Next, Dispatch, Returned

\* The tallied votes of a job stay within its retry cap and one batch, and are
\* of as many proxies as it has consumed (rotate.go:182, 186-194, 267-281).
THEOREM RetriesAreBounded == Spec => []RetryBudget
<1>1. TypeInv /\ Bookkeeping /\ Budgets => RetryBudget
  <2> SUFFICES ASSUME TypeInv, Bookkeeping, NEW j \in Jobs, BudgetInv(j)
               PROVE  /\ confirmations[j] + proxyErrors[j] <= maxProxyRetries + quorum + 1
                      /\ confirmations[j] + proxyErrors[j] <= consumed[j]
    BY DEF RetryBudget, Budgets
  <2>1. /\ Cardinality(Counted(j)) \in Nat /\ Cardinality(Seen(j)) \in Nat
        /\ Cardinality(Counted(j)) <= Cardinality(Seen(j))
    BY CountedInPool DEF Bookkeeping, BookInv
  <2>2. Cardinality(Seen(j)) <= consumed[j]
    BY SeenCounted DEF TypeInv
  <2>3. consumed[j] \in Int /\ confirmations[j] \in Int /\ proxyErrors[j] \in Int
    BY SizeAssumption DEF TypeInv, TypeOK
  <2> QED
    BY <2>1, <2>2, <2>3 DEF BudgetInv
<1> QED
  BY <1>1, BudgetInit, BudgetNext, BookkeepingHolds, PTL DEF Spec

-----------------------------------------------------------------------------
(* The scan finds the open ports *)

\* As long as the scan is not stopped and proxies need no rest, no sure proxy is
\* lost between the rounds: it has confirmed the port or is about to be asked,
\* it is never a proxy error, and what it answered was a vote for the port.
SureInv(j) ==
    ~throttle /\ ~cancelled =>
       /\ throttled[j] = {} /\ jpc[j] # "ready"
       /\ Sure(j) \cap Seen(j) \subseteq
             openBy[j] \cup (IF jpc[j] \in {"fill", "wait"} THEN batch[j] ELSE {})
       /\ \A s \in Sure(j) : dial[<<j, s>>] = "done" => vote[<<j, s>>] = 1
       /\ proxyErrors[j] <= Cardinality(Counted(j) \ Sure(j))

\* Enough sure proxies reach the port, and too few others to use up its retries.
Reachable(j) ==
    /\ MayRefute[j] = {}
    /\ Cardinality(Sure(j)) >= quorum
    /\ PoolSize - Cardinality(Sure(j)) < maxProxyRetries

FoundInv(j) ==
    /\ SureInv(j)
    /\ ~throttle /\ ~cancelled /\ Reachable(j) => outcomes[j] \in {"zero", "open"}

AllFound == \A j \in Jobs : FoundInv(j)

\* A sure proxy is at no address that is given up.
LEMMA SureAlive ==
    ASSUME BlameInv, NEW j \in Jobs, NEW s \in Sure(j)
    PROVE  s \in Slots /\ s \notin MayDie /\ Address[s] \notin failedSet
<1>1. s \in Slots /\ Address[s] \notin {Address[t] : t \in MayDie}
  BY DEF Sure
<1>2. \A a \in failedSet : a \in {Address[t] : t \in MayDie}
  BY DEF BlameInv
<1> QED
  BY <1>1, <1>2

LEMMA SureInPool ==
    ASSUME NEW j \in Jobs
    PROVE  Sure(j) \in SUBSET Slots /\ IsFiniteSet(Sure(j)) /\ Cardinality(Sure(j)) \in Nat
<1>1. Sure(j) \in SUBSET Slots
  BY DEF Sure
<1> QED
  BY <1>1, SlotSets

LEMMA FoundInit == Init => AllFound
<1> SUFFICES ASSUME Init, NEW j \in Jobs PROVE FoundInv(j)
  BY DEF AllFound
<1>1. Seen(j) = {}
  BY DEF Init, Seen
<1>2. IsFiniteSet(Counted(j) \ Sure(j)) /\ Cardinality(Counted(j) \ Sure(j)) \in Nat
  <2>1. Counted(j) \ Sure(j) \in SUBSET Slots
    BY DEF Counted
  <2> QED
    BY <2>1, SlotSets
<1>3. /\ throttled[j] = {} /\ jpc[j] = "unstarted" /\ proxyErrors[j] = 0
      /\ outcomes[j] = "zero" /\ \A s \in Sure(j) : dial[<<j, s>>] = "idle"
  BY SureInPool DEF Init
<1> QED
  BY <1>1, <1>2, <1>3 DEF FoundInv, SureInv

LEMMA FoundKept ==
    ASSUME NEW k \in Jobs, FoundInv(k), Untouched(k), throttle' = throttle,
           ~cancelled' => ~cancelled
    PROVE  FoundInv(k)'
<1>1. Counted(k)' = Counted(k)
  BY CountedElsewhere
<1>2. Seen(k)' = Seen(k)
  BY DEF Seen, Untouched, Same
<1>3. \A s \in Sure(k) : dial'[<<k, s>>] = dial[<<k, s>>] /\ vote'[<<k, s>>] = vote[<<k, s>>]
  BY DEF Sure, Untouched, Same
<1>4. Reachable(k)' <=> Reachable(k)
  BY DEF Reachable, Untouched, Same
<1>5. SureInv(k)'
  BY <1>1, <1>2, <1>3 DEF FoundInv, SureInv, Untouched, Same
<1> QED
  BY <1>4, <1>5 DEF FoundInv, Untouched, Same

\* A port that enough sure proxies reach is decided open.
LEMMA SettleFinds ==
    ASSUME TypeInv, NEW j \in Jobs, BookInv(j), SureInv(j), Reachable(j), Settle(j),
           ~throttle, ~cancelled,
           \/ jpc[j] = "head" /\ ~MoreNeeded(j)
           \/ jpc[j] = "fill" /\ ~Filling(j) /\ batch[j] = {}
    PROVE  outcomes'[j] = "open"
<1>1. /\ quorum \in Nat /\ quorum >= 1 /\ confirmations[j] \in Nat /\ proxyErrors[j] \in Nat
      /\ refuted[j] \in BOOLEAN /\ consumed[j] \in 0 .. PoolSize
      /\ openBy[j] \in SUBSET Slots
  BY SizeAssumption DEF TypeInv, TypeOK
<1>2. ~refuted[j]
  BY DEF BookInv, TallyInv, VoteInv, Reachable
<1>3. proxyErrors[j] < maxProxyRetries
  <2>1. IsFiniteSet(Slots) /\ Cardinality(Slots) = PoolSize
    BY SlotsCounted
  <2>2. Slots \cap Sure(j) = Sure(j)
    BY SureInPool
  <2>3. /\ IsFiniteSet(Slots \ Sure(j))
        /\ Cardinality(Slots \ Sure(j)) = Cardinality(Slots) - Cardinality(Slots \cap Sure(j))
    BY <2>1, FS_Difference
  <2>4. Counted(j) \ Sure(j) \in SUBSET (Slots \ Sure(j))
    BY DEF Counted
  <2>5. Cardinality(Counted(j) \ Sure(j)) <= Cardinality(Slots \ Sure(j))
    BY <2>3, <2>4, FS_Subset
  <2>6. Cardinality(Counted(j) \ Sure(j)) \in Nat
    <3>1. Counted(j) \ Sure(j) \in SUBSET Slots
      BY DEF Counted
    <3> QED
      BY <3>1, SlotSets
  <2>7. Cardinality(Slots \ Sure(j)) = PoolSize - Cardinality(Sure(j))
    BY <2>1, <2>2, <2>3
  <2>8. proxyErrors[j] <= PoolSize - Cardinality(Sure(j))
    BY <1>1, <2>5, <2>6, <2>7, SureInPool, SizeAssumption DEF SureInv
  <2>9. PoolSize - Cardinality(Sure(j)) < maxProxyRetries /\ maxProxyRetries \in Int
    BY RetriesInRange DEF Reachable
  <2> HIDE DEF maxProxyRetries
  <2> QED
    BY <1>1, <2>8, <2>9, SureInPool, SizeAssumption
<1>4. consumed[j] >= PoolSize => confirmations[j] >= quorum
  <2> SUFFICES ASSUME consumed[j] >= PoolSize PROVE confirmations[j] >= quorum
    OBVIOUS
  <2>1. Slots \subseteq Seen(j)
    BY SeenAll DEF TypeInv
  <2>2. Sure(j) \subseteq openBy[j]
    BY <2>1, SureInPool DEF SureInv
  <2>3. IsFiniteSet(openBy[j]) /\ Cardinality(openBy[j]) \in Nat
    BY <1>1, SlotSets
  <2>4. Cardinality(Sure(j)) <= Cardinality(openBy[j])
    BY <2>2, <2>3, FS_Subset
  <2>5. confirmations[j] = Cardinality(openBy[j])
    BY DEF BookInv, TallyInv
  <2> QED
    BY <1>1, <2>3, <2>4, <2>5, SureInPool DEF Reachable
<1>5. confirmations[j] >= quorum
  <2>1. CASE jpc[j] = "head" /\ ~MoreNeeded(j)
    <3>1. confirmations[j] >= quorum \/ consumed[j] >= PoolSize
      BY <1>1, <1>2, <1>3, <2>1, SizeAssumption DEF MoreNeeded
    <3> QED
      BY <1>4, <3>1
  <2>2. CASE jpc[j] = "fill" /\ ~Filling(j) /\ batch[j] = {}
    <3>1. confirmations[j] < quorum
      BY <2>2 DEF BookInv, TallyInv
    <3>2. Cardinality(batch[j]) < BatchSize(j)
      BY <1>1, <2>2, <3>1, FS_EmptySet DEF BatchSize
    <3>3. consumed[j] >= PoolSize
      BY <1>1, <2>2, <3>2, SizeAssumption DEF Filling
    <3> QED
      BY <1>4, <3>3
  <2> QED
    BY <2>1, <2>2
<1>6. outcomes'[j] = DecideQuorum(confirmations[j], quorum, refuted[j])
  BY DEF Settle, TypeInv, TypeOK
<1> QED
  BY <1>1, <1>2, <1>5, <1>6 DEF DecideQuorum

LEMMA FoundByJob ==
    ASSUME TypeInv, NEW j \in Jobs, BookInv(j), BlameInv, FoundInv(j), JobStep(j)
    PROVE  FoundInv(j)'
<1>1. throttle' = throttle /\ cancelled' = cancelled /\ quorum' = quorum
  BY DEF JobStep, BeginRound, LeaveLoop, Settle, Pick, UseReady, SetAside,
         Launch, NoCandidate, Interrupt, Tally, ReportDone, input, ctl
<1> SUFFICES ASSUME ~throttle, ~cancelled PROVE FoundInv(j)'
  BY <1>1 DEF FoundInv, SureInv
<1>2. SureInv(j) /\ throttled[j] = {} /\ jpc[j] # "ready" /\ (Reachable(j)' <=> Reachable(j))
  BY <1>1 DEF FoundInv, SureInv, Reachable
<1>3. proxyErrors[j] <= Cardinality(Counted(j) \ Sure(j))
  BY DEF FoundInv, SureInv
<1> USE DEF TypeInv, TypeOK, locals, fill, dials, report
<1>4. \A s \in Sure(j) : dial[<<j, s>>] = "done" => vote[<<j, s>>] = 1
  BY DEF FoundInv, SureInv
<1>5. CASE BeginRound(j)
  <2>1. /\ jpc[j] = "head" /\ jpc'[j] = "fill" /\ batch'[j] = {} /\ throttled'[j] = {}
        /\ UNCHANGED <<openBy, proxyErrors, outcomes, dial, vote, consumed>>
    BY <1>5 DEF BeginRound
  <2>2. Counted(j)' = Counted(j)
    BY <1>5, <2>1, CountedByJob DEF Tally, Interrupt, BatchDone
  <2>3. Seen(j)' = Seen(j)
    BY <2>1 DEF Seen
  <2>4. SureInv(j)'
    BY <1>1, <1>2, <2>1, <2>2, <2>3 DEF SureInv
  <2> QED
    BY <1>2, <2>1, <2>4 DEF FoundInv
<1>6. CASE LeaveLoop(j) \/ NoCandidate(j)
  <2>1. /\ jpc[j] \in {"head", "fill"} /\ jpc'[j] = "report" /\ Settle(j)
        /\ UNCHANGED <<openBy, proxyErrors, dial, vote, consumed, batch, throttled>>
        /\ \/ jpc[j] = "head" /\ ~MoreNeeded(j)
           \/ jpc[j] = "fill" /\ ~Filling(j) /\ batch[j] = {}
    BY <1>6 DEF LeaveLoop, NoCandidate, Settle
  <2>2. Counted(j)' = Counted(j)
    BY <1>6, <2>1, CountedByJob DEF Tally, Interrupt, BatchDone
  <2>3. Seen(j)' = Seen(j)
    BY <2>1 DEF Seen
  <2>4. SureInv(j)'
    BY <1>1, <1>2, <2>1, <2>2, <2>3 DEF SureInv
  <2>5. Reachable(j) => outcomes'[j] = "open"
    BY <1>2, <2>1, SettleFinds
  <2> QED
    BY <1>2, <2>4, <2>5 DEF FoundInv
<1>7. CASE Pick(j)
  <2> DEFINE s == Slot(j, consumed[j])
  <2>1. /\ jpc[j] = "fill" /\ jpc'[j] = "fill" /\ throttled'[j] = {}
        /\ consumed[j] \in 0 .. (PoolSize - 1) /\ consumed'[j] = consumed[j] + 1
        /\ batch'[j] = IF Address[s] \in failedSet THEN batch[j] ELSE batch[j] \cup {s}
        /\ UNCHANGED <<openBy, proxyErrors, outcomes, dial, vote>>
    BY <1>2, <1>7, SizeAssumption DEF Pick, Filling
  <2>2. Counted(j)' = Counted(j)
    BY <1>7, <2>1, CountedByJob DEF Tally, Interrupt, BatchDone
  <2>3. Seen(j)' \subseteq Seen(j) \cup {s}
    <3> SUFFICES ASSUME NEW i \in 0 .. (consumed'[j] - 1)
                 PROVE  Slot(j, i) \in Seen(j) \cup {s}
      BY DEF Seen
    <3>1. i = consumed[j] \/ i \in 0 .. (consumed[j] - 1)
      <4>1. consumed[j] \in Nat /\ i \in 0 .. (consumed[j] + 1 - 1)
        BY <2>1
      <4> HIDE DEF TypeInv, TypeOK
      <4> QED
        BY <4>1
    <3> QED
      BY <3>1 DEF Seen
  <2>4. s \in Sure(j) => s \in batch'[j]
    BY <2>1, SureAlive
  <2>5. Sure(j) \cap Seen(j) \subseteq openBy[j] \cup batch[j]
    BY <1>2, <2>1 DEF SureInv
  <2> HIDE DEF s
  <2>6. Sure(j) \cap Seen(j)' \subseteq openBy'[j] \cup batch'[j]
    BY <2>1, <2>3, <2>4, <2>5
  <2>7. SureInv(j)'
    BY <1>1, <1>2, <1>3, <1>4, <2>1, <2>2, <2>6 DEF SureInv
  <2> QED
    BY <1>2, <2>1, <2>7 DEF FoundInv
<1>8. CASE UseReady(j) \/ SetAside(j)
  BY <1>2, <1>8 DEF UseReady, SetAside
<1>9. CASE Launch(j)
  <2>1. /\ jpc[j] = "fill" /\ jpc'[j] = "wait" /\ batch'[j] = batch[j] \cup TopUp(j)
        /\ throttled'[j] = {} /\ UNCHANGED <<openBy, proxyErrors, outcomes, vote, consumed>>
    BY <1>2, <1>9 DEF Launch, TopUp
  <2>2. \A s \in Slots : dial'[<<j, s>>] = "done" => dial[<<j, s>>] = "done"
    BY <1>9 DEF Launch
  <2>3. Counted(j)' = Counted(j)
    BY <1>9, <2>1, CountedByJob DEF Tally, Interrupt, BatchDone
  <2>4. Seen(j)' = Seen(j)
    BY <2>1 DEF Seen
  <2>5. SureInv(j)'
    BY <1>1, <1>2, <1>3, <1>4, <2>1, <2>2, <2>3, <2>4, SureInPool DEF SureInv
  <2> QED
    BY <1>2, <2>1, <2>5 DEF FoundInv
<1>10. CASE Interrupt(j)
  BY <1>10 DEF Interrupt
<1>11. CASE Tally(j)
  <2>1. /\ jpc[j] = "wait" /\ jpc'[j] = "head" /\ throttled'[j] = {}
        /\ \A s \in batch[j] : dial[<<j, s>>] = "done"
        /\ openBy'[j] = openBy[j] \cup Voted(j, 1)
        /\ proxyErrors'[j] = proxyErrors[j] + Cardinality(Voted(j, 0))
        /\ UNCHANGED <<outcomes, dial, vote, consumed>>
    BY <1>2, <1>11 DEF Tally, BatchDone
  <2>2. \A s \in Sure(j) \cap batch[j] : vote[<<j, s>>] = 1
    BY <1>4, <2>1
  <2>3. Seen(j)' = Seen(j)
    BY <2>1 DEF Seen
  <2>4. Sure(j) \cap Seen(j)' \subseteq openBy'[j]
    BY <1>2, <2>1, <2>2, <2>3 DEF SureInv, Voted
  <2>5. Counted(j)' = Counted(j) \cup batch[j] /\ Counted(j) \cap batch[j] = {}
    BY <1>11, CountedByJob
  <2> DEFINE A == Counted(j) \ Sure(j)
             B == Voted(j, 0)
             C == Counted(j)' \ Sure(j)
  <2>6. A \cup B \in SUBSET C /\ A \cap B = {} /\ C \in SUBSET Slots
    BY <2>2, <2>5 DEF Voted, Counted
  <2>7. A \in SUBSET Slots /\ B \in SUBSET Slots
    BY <2>6
  <2> HIDE DEF A, B, C
  <2>8. /\ IsFiniteSet(A) /\ IsFiniteSet(B) /\ IsFiniteSet(C)
        /\ Cardinality(A) \in Nat /\ Cardinality(B) \in Nat /\ Cardinality(C) \in Nat
    BY <2>6, <2>7, SlotSets
  <2>9. Cardinality(A \cap B) = 0
    BY <2>6, FS_EmptySet
  <2>10. Cardinality(A \cup B) = Cardinality(A) + Cardinality(B) - Cardinality(A \cap B)
    BY <2>8, FS_Union, Zenon
  <2>11. Cardinality(A \cup B) <= Cardinality(C)
    BY <2>6, <2>8, FS_Subset
  <2>12. proxyErrors'[j] <= Cardinality(Counted(j)' \ Sure(j))
    <3>1. proxyErrors[j] \in Nat /\ proxyErrors[j] <= Cardinality(A)
      BY <1>3 DEF A
    <3>2. proxyErrors'[j] <= Cardinality(C)
      BY <2>1, <2>8, <2>9, <2>10, <2>11, <3>1 DEF B
    <3> QED
      BY <3>2 DEF C
  <2>13. SureInv(j)'
    BY <1>1, <1>4, <2>1, <2>4, <2>12 DEF SureInv
  <2> QED
    BY <1>2, <2>1, <2>13 DEF FoundInv
<1>12. CASE ReportDone(j)
  <2>1. /\ jpc[j] = "report" /\ jpc'[j] = "finished"
        /\ UNCHANGED <<openBy, proxyErrors, outcomes, dial, vote, consumed, throttled>>
    BY <1>12 DEF ReportDone
  <2>2. Counted(j)' = Counted(j)
    BY <1>12, <2>1, CountedByJob DEF Tally, Interrupt, BatchDone
  <2>3. Seen(j)' = Seen(j)
    BY <2>1 DEF Seen
  <2>4. SureInv(j)'
    BY <1>1, <1>2, <2>1, <2>2, <2>3 DEF SureInv
  <2> QED
    BY <1>2, <2>1, <2>4 DEF FoundInv
<1> QED
  BY <1>5, <1>6, <1>7, <1>8, <1>9, <1>10, <1>11, <1>12 DEF JobStep

\* A sure proxy's dial ends with a vote for the port.
LEMMA FoundByDial ==
    ASSUME TypeInv, NEW j \in Jobs, NEW s \in Slots, BookInv(j), BlameInv, FoundInv(j),
           DialStep(j, s)
    PROVE  FoundInv(j)'
<1>1. throttle' = throttle /\ cancelled' = cancelled
  BY DEF DialStep, AcquireDial, DropResult, DialFails, DialRefused, DialConnects,
         ReportDead, Identify, input, ctl
<1> SUFFICES ASSUME ~throttle, ~cancelled PROVE FoundInv(j)'
  BY <1>1 DEF FoundInv, SureInv
<1>2. /\ Counted(j)' = Counted(j)
      /\ UNCHANGED <<quorum, jpc, confirmations, proxyErrors, openBy, consumed,
                     batch, throttled, outcomes>>
  BY CountedByDial
<1>3. Seen(j)' = Seen(j)
  BY <1>2 DEF Seen
<1>4. \A r \in Sure(j) : dial[<<j, r>>] = "done" => vote[<<j, r>>] = 1
  BY DEF FoundInv, SureInv
<1>5. \A r \in Sure(j) : dial'[<<j, r>>] = "done" => vote'[<<j, r>>] = 1
  <2> USE DEF TypeInv, TypeOK
  <2>0. Sure(j) \in SUBSET Slots
    BY SureInPool
  <2>1. CASE AcquireDial(j, s)
    BY <1>4, <2>0, <2>1 DEF AcquireDial
  <2>2. CASE DropResult(j, s)
    BY <2>2 DEF DropResult
  <2>3. CASE DialFails(j, s)
    <3>1. s \notin Sure(j)
      BY <2>3 DEF DialFails, Returns, Sure, ErrorKinds, Connected, DialFailures, NotASocksServer,
                  HandshakeTimeout, Canceled, AuthFailures, BrokenExchanges, SocksReplies,
                  LocalFailures
    <3>2. \A r \in Slots : r # s => dial'[<<j, r>>] = dial[<<j, r>>] /\ vote' = vote
      BY <2>3 DEF DialFails
    <3> QED
      BY <1>4, <2>0, <3>1, <3>2
  <2>4. CASE DialRefused(j, s)
    <3>1. s \notin Sure(j)
      BY <2>4 DEF DialRefused, Returns, Sure, ErrorKinds, Connected, DialFailures, NotASocksServer,
                  HandshakeTimeout, Canceled, AuthFailures, BrokenExchanges, SocksReplies,
                  LocalFailures
    <3>2. \A r \in Slots : r # s => /\ dial'[<<j, r>>] = dial[<<j, r>>]
                                    /\ vote'[<<j, r>>] = vote[<<j, r>>]
      BY <2>4 DEF DialRefused
    <3> QED
      BY <1>4, <2>0, <3>1, <3>2
  <2>5. CASE DialConnects(j, s)
    BY <1>4, <2>0, <2>5 DEF DialConnects
  <2>6. CASE ReportDead(j, s)
    <3>1. <<j, s>> \in Blamed
      BY <2>6 DEF ReportDead, Blamed
    <3>2. s \in MayDie
      BY <3>1 DEF BlameInv
    <3>3. s \notin Sure(j)
      BY <3>2, SureAlive
    <3>4. \A r \in Slots : r # s => dial'[<<j, r>>] = dial[<<j, r>>] /\ vote' = vote
      BY <2>6 DEF ReportDead
    <3> QED
      BY <1>4, <2>0, <3>3, <3>4
  <2>7. CASE Identify(j, s)
    BY <1>4, <2>0, <2>7 DEF Identify
  <2> QED
    BY <2>1, <2>2, <2>3, <2>4, <2>5, <2>6, <2>7 DEF DialStep
<1>6. SureInv(j)'
  BY <1>1, <1>2, <1>3, <1>5 DEF FoundInv, SureInv
<1>7. Reachable(j)' <=> Reachable(j)
  BY <1>2 DEF Reachable
<1> QED
  BY <1>2, <1>6, <1>7 DEF FoundInv

LEMMA FoundNext == TypeInv /\ Bookkeeping /\ BlameInv /\ AllFound /\ [Next]_vars => AllFound'
<1> SUFFICES ASSUME TypeInv, Bookkeeping, BlameInv, AllFound, [Next]_vars, NEW k \in Jobs
             PROVE  FoundInv(k)'
  BY DEF AllFound
<1>1. TypeOK /\ BookInv(k) /\ FoundInv(k)
  BY DEF TypeInv, Bookkeeping, BookInv, AllFound
<1>2. ASSUME Untouched(k), throttle' = throttle, ~cancelled' => ~cancelled PROVE FoundInv(k)'
  BY <1>1, <1>2, FoundKept
<1>3. CASE UNCHANGED vars
  BY <1>2, <1>3 DEF Untouched, Same, vars, input, ctl, locals, fill, dials, shared, report
<1>4. CASE CheckStop \/ Return \/ Cancel
  BY <1>2, <1>4 DEF CheckStop, Return, Cancel, Untouched, Same,
                    input, locals, fill, dials, shared, report
<1>5. CASE StartJob
  <2>1. /\ jpc'[k] \in {jpc[k], "head"} /\ (jpc'[k] # jpc[k] => jpc[k] = "unstarted")
    <3>1. next \in Jobs /\ jpc[next] = "unstarted"
      BY <1>5, SizeAssumption DEF StartJob, TypeInv, TypeOK, Control, Jobs
    <3>2. jpc \in [Jobs -> JobStates]
      BY <1>1 DEF TypeOK
    <3> QED
      BY <1>5, <3>1, <3>2 DEF StartJob
  <2>2. UNCHANGED <<input, locals, fill, dials, cancelled, outcomes>>
    BY <1>5 DEF StartJob, report
  <2>3. Counted(k)' = Counted(k) /\ Seen(k)' = Seen(k)
    BY <2>1, <2>2 DEF Counted, InFlight, Seen, dials, fill
  <2>4. Reachable(k)' <=> Reachable(k)
    BY <2>2 DEF Reachable, input
  <2>5. SureInv(k)'
    BY <1>1, <2>1, <2>2, <2>3 DEF FoundInv, SureInv, input, locals, fill, dials
  <2> QED
    BY <1>1, <2>2, <2>4, <2>5 DEF FoundInv, input
<1>6. ASSUME NEW j \in Jobs, JobStep(j) PROVE FoundInv(k)'
  <2>1. throttle' = throttle /\ cancelled' = cancelled
    BY <1>6 DEF JobStep, BeginRound, LeaveLoop, Settle, Pick, UseReady, SetAside,
                Launch, NoCandidate, Interrupt, Tally, ReportDone, input, ctl
  <2> QED
    BY <1>1, <1>2, <1>6, <2>1, OthersUntouched, FoundByJob
<1>7. ASSUME NEW j \in Jobs, NEW s \in Slots, DialStep(j, s) PROVE FoundInv(k)'
  <2>1. throttle' = throttle /\ cancelled' = cancelled
    BY <1>7 DEF DialStep, AcquireDial, DropResult, DialFails, DialRefused, DialConnects,
                ReportDead, Identify, input, ctl
  <2> QED
    BY <1>1, <1>2, <1>7, <2>1, OthersUntouched, FoundByDial
<1> QED
  BY <1>3, <1>4, <1>5, <1>6, <1>7 DEF Next, Dispatch, Returned

\* A scan that is not stopped and rests no proxy finds every port open that
\* enough sure proxies reach: a round loses no candidate, and the retry cap does
\* not cut the walk short of them (rotate.go:182-194, 216-226, 267-291).
THEOREM OpenPortsAreFound == Spec => []FindsOpen
<1>1. AllFound => FindsOpen
  BY DEF AllFound, FoundInv, Reachable, FindsOpen
<1> QED
  BY <1>1, FoundInit, FoundNext, BlameInit, BlameNext, BookkeepingHolds, PTL DEF Spec
=============================================================================
