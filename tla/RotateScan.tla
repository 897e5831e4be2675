----------------------------- MODULE RotateScan -----------------------------
(***************************************************************************)
(* The quorum rotate-scan (scanner/rotate.go): one verdict per host:port,   *)
(* reached by letting several SOCKS proxies vote.                           *)
(*                                                                         *)
(* A dispatcher goroutine starts one goroutine per job (a host:port), at    *)
(* most dialConc at a time.  A job walks the pool once, from its own start  *)
(* index, in rounds: it fills a batch of proxies, dials through all of them *)
(* at once (again at most dialConc dials over all jobs), waits for the      *)
(* whole batch and tallies the votes.  Jobs share the set of proxies found  *)
(* dead and, with burn protection on, the time each proxy was last used.    *)
(* The scan may be stopped at any moment.                                   *)
(*                                                                         *)
(* A definition named X_Y is a faulty variant of X: the properties are       *)
(* tested by checking that they fail with X_Y in the place of X.            *)
(*                                                                         *)
(* A proxy is a slot of the pool, a number in 0 .. PoolSize-1.  Two slots   *)
(* may have one address: the same host:port listed as socks4 and socks5, or *)
(* validated twice.                                                        *)
(***************************************************************************)
EXTENDS Integers, FiniteSets, ProxyErrors, QuorumVerdict

CONSTANTS
    PoolSize,            \* len(pool)
    TotalJobs,           \* len(hosts) * len(cfg.Ports)
    Address,             \* Address[s]: the host:port of the proxy in slot s
    Answers,             \* Answers[s][j]: what a dial through s for job j may return
    CfgQuorums,          \* the values of cfg.Quorum considered
    CfgMaxProxyRetries,  \* cfg.MaxProxyRetries
    CfgDialConcurrency,  \* cfg.DialConcurrency
    UsedEarlier,         \* addresses an earlier scan with the same throttle used
    OpenJobs             \* the host:ports that are in truth open

Slots     == 0 .. (PoolSize - 1)
Jobs      == 0 .. (TotalJobs - 1)
Addresses == {Address[s] : s \in Slots}
Connected == "connected"

\* An empty pool or an empty port list returns at once (rotate.go:80-82).
ASSUME SizeAssumption == PoolSize \in Nat \ {0} /\ TotalJobs \in Nat \ {0}
ASSUME AnswersAssumption ==
    Answers \in [Slots -> [Jobs -> SUBSET (ErrorKinds \cup {Connected})]]
ASSUME ConfigAssumption ==
    CfgQuorums \subseteq Int /\ CfgMaxProxyRetries \in Int /\ CfgDialConcurrency \in Int
ASSUME UsedAssumption == UsedEarlier \subseteq Addresses

\* No upper and no lower clamp.
ClampQuorum_Not(n) == n

\* The clamps at the head of RotateScan.
ClampQuorum(n) == CASE n < 1        -> 1
                    [] n > PoolSize -> PoolSize
                    [] OTHER        -> n

maxProxyRetries == CASE CfgMaxProxyRetries \in 1 .. PoolSize            -> CfgMaxProxyRetries
                     [] CfgMaxProxyRetries \in Nat \ (0 .. PoolSize)    -> PoolSize
                     [] OTHER -> IF PoolSize < 10 THEN PoolSize ELSE 10

dialConc == IF CfgDialConcurrency < 1 THEN 1 ELSE CfgDialConcurrency

\* pool[(startIdx + i) % poolSize], with startIdx = job index % poolSize.
Slot(j, i) == LET k == (j % PoolSize) + i
              IN  IF k < PoolSize THEN k ELSE k - PoolSize

VARIABLES
    quorum,         \* the clamped quorum of this call
    throttle,       \* whether burn protection is on (a non-nil throttle)
    cancelled,      \* ctx.Err() # nil
    pc,             \* the dispatcher: loop, acquire, drain, returned
    next,           \* idx, the next job to start
    \* per job: where its goroutine is and the locals of scanPort
    jpc, confirmations, proxyErrors, refuted, refutedBy, openBy,
    consumed, batch, throttled, candidate,
    \* per job and slot: the dial goroutine of the job's batch
    dial,           \* idle, queued, dialing, reporting, identifying, done
    vote,           \* results[bi].vote; the zero value is a proxy error
    \* shared by all jobs
    failedSet,      \* addresses found dead
    lastUse,        \* addresses with a use on record in the throttle
    outcomes,       \* outcomes[i].Verdict, or "zero" while unassigned
    done,           \* the atomic counter of finished jobs
    ticket,         \* ticket[j]: the value of done that job j got, 0 before
    deadCalls,      \* the calls of hooks.OnProxyDead: <<job, slot>>
    doneCalls       \* the values hooks.OnPortDone was called with

ctl    == <<pc, next, cancelled>>
locals == <<confirmations, proxyErrors, refuted, refutedBy, openBy>>
fill   == <<consumed, batch, throttled, candidate>>
dials  == <<dial, vote>>
shared == <<failedSet, lastUse>>
report == <<outcomes, done, ticket, deadCalls, doneCalls>>
input  == <<quorum, throttle>>
vars   == <<input, ctl, jpc, locals, fill, dials, shared, report>>

JobStates  == {"unstarted", "head", "fill", "ready", "launch", "wait",
               "report", "finished"}
DialStates == {"idle", "queued", "dialing", "reporting", "identifying", "done"}
NoSlot     == -1

Init ==
    /\ quorum \in {ClampQuorum(n) : n \in CfgQuorums}
    /\ throttle \in BOOLEAN
    /\ cancelled = FALSE
    /\ pc = "loop"
    /\ next = 0
    /\ jpc           = [j \in Jobs |-> "unstarted"]
    /\ confirmations = [j \in Jobs |-> 0]
    /\ proxyErrors   = [j \in Jobs |-> 0]
    /\ refuted       = [j \in Jobs |-> FALSE]
    /\ refutedBy     = [j \in Jobs |-> NoSlot]
    /\ openBy        = [j \in Jobs |-> {}]
    /\ consumed      = [j \in Jobs |-> 0]
    /\ batch         = [j \in Jobs |-> {}]
    /\ throttled     = [j \in Jobs |-> {}]
    /\ candidate     = [j \in Jobs |-> NoSlot]
    /\ dial          = [x \in Jobs \X Slots |-> "idle"]
    /\ vote          = [x \in Jobs \X Slots |-> 0]
    /\ failedSet = {}
    \* The throttle outlives a call: RunScan passes one to every target's scan.
    /\ lastUse = IF throttle THEN UsedEarlier ELSE {}
    /\ outcomes = [j \in Jobs |-> "zero"]
    /\ done = 0
    /\ ticket = [j \in Jobs |-> 0]
    /\ deadCalls = {}
    /\ doneCalls = {}

-----------------------------------------------------------------------------
(* The dispatcher *)

\* The place in jobSem is not given back.
Running_Forever == {j \in Jobs : jpc[j] # "unstarted"}

\* Jobs whose goroutine holds a place in jobSem.
Running == {j \in Jobs : jpc[j] \notin {"unstarted", "finished"}}

\* ctx.Err() at the head of the dispatch loop; the loop also ends after the last job.
CheckStop ==
    /\ pc = "loop"
    /\ pc' = IF cancelled \/ next = TotalJobs THEN "drain" ELSE "acquire"
    /\ UNCHANGED <<input, next, cancelled, jpc, locals, fill, dials, shared, report>>

\* jobSem <- struct{}{}, then the job's goroutine is started.
StartJob ==
    /\ pc = "acquire"
    /\ Cardinality(Running) < dialConc
    /\ jpc' = [jpc EXCEPT ![next] = "head"]
    /\ next' = next + 1
    /\ pc' = "loop"
    /\ UNCHANGED <<input, cancelled, locals, fill, dials, shared, report>>

\* No wg.Wait().
Return_AtOnce ==
    /\ pc = "drain"
    /\ pc' = "returned"
    /\ UNCHANGED <<input, next, cancelled, jpc, locals, fill, dials, shared, report>>

\* wg.Wait(), then outcomes is returned.
Return ==
    /\ pc = "drain"
    /\ Running = {}
    /\ pc' = "returned"
    /\ UNCHANGED <<input, next, cancelled, jpc, locals, fill, dials, shared, report>>

-----------------------------------------------------------------------------
(* scanPort: one round *)

\* No cap on proxy errors.
MoreNeeded_Uncapped(j) ==
    confirmations[j] < quorum /\ ~refuted[j] /\ consumed[j] < PoolSize

\* A single batch, and no further round when it does not settle the port.
MoreNeeded_OneRound(j) ==
    /\ confirmations[j] < quorum /\ ~refuted[j] /\ proxyErrors[j] < maxProxyRetries
    /\ consumed[j] = 0

\* The loop condition of scanPort.
MoreNeeded(j) ==
    /\ confirmations[j] < quorum
    /\ ~refuted[j]
    /\ proxyErrors[j] < maxProxyRetries
    /\ consumed[j] < PoolSize

BatchSize(j) == quorum - confirmations[j] + 2

\* Still filling: len(batch) < batchN && consumed < poolSize.
Filling(j) == Cardinality(batch[j]) < BatchSize(j) /\ consumed[j] < PoolSize

\* Every round walks the pool from the start index again.
BeginRound_Again(j) ==
    /\ jpc[j] = "head"
    /\ MoreNeeded(j) /\ ~cancelled
    /\ jpc' = [jpc EXCEPT ![j] = "fill"]
    /\ consumed' = [consumed EXCEPT ![j] = 0]
    /\ batch' = [batch EXCEPT ![j] = {}]
    /\ throttled' = [throttled EXCEPT ![j] = {}]
    /\ UNCHANGED <<input, ctl, locals, candidate, dials, shared, report>>

BeginRound(j) ==
    /\ jpc[j] = "head"
    /\ MoreNeeded(j) /\ ~cancelled
    /\ jpc' = [jpc EXCEPT ![j] = "fill"]
    /\ batch' = [batch EXCEPT ![j] = {}]
    /\ throttled' = [throttled EXCEPT ![j] = {}]
    /\ UNCHANGED <<input, ctl, locals, consumed, candidate, dials, shared, report>>

\* scanPort returns its outcome; outcomes[i] = oc, hooks.OnOutcome, and then
\* done.Add(1), whose value hooks.OnPortDone will be called with.
Settle(j) ==
    /\ outcomes' = [outcomes EXCEPT ![j] =
                       DecideQuorum(confirmations[j], quorum, refuted[j])]
    /\ done' = done + 1
    /\ ticket' = [ticket EXCEPT ![j] = done + 1]
    /\ jpc' = [jpc EXCEPT ![j] = "report"]
    /\ UNCHANGED <<input, ctl, locals, fill, dials, shared, deadCalls, doneCalls>>

LeaveLoop(j) ==
    /\ jpc[j] = "head"
    /\ ~MoreNeeded(j) \/ cancelled
    /\ Settle(j)

\* The next proxy in probe order is consumed; isFailed(p) skips it.  Without
\* burn protection throttle.Ready is always true.
Pick(j) ==
    LET s    == Slot(j, consumed[j])
        dead == Address[s] \in failedSet
    IN
    /\ jpc[j] = "fill"
    /\ Filling(j)
    /\ consumed' = [consumed EXCEPT ![j] = @ + 1]
    /\ jpc' = [jpc EXCEPT ![j] = IF throttle /\ ~dead THEN "ready" ELSE "fill"]
    /\ candidate' = [candidate EXCEPT ![j] = IF throttle /\ ~dead THEN s ELSE NoSlot]
    /\ batch' = [batch EXCEPT ![j] = IF throttle \/ dead THEN @ ELSE @ \cup {s}]
    /\ UNCHANGED <<input, ctl, locals, throttled, dials, shared, report>>

\* throttle.Ready is true, which records the use: the address was never used or
\* its interval has elapsed, and time may have passed since any use.
UseReady(j) ==
    LET s == candidate[j] IN
    /\ jpc[j] = "ready"
    /\ batch' = [batch EXCEPT ![j] = @ \cup {s}]
    /\ lastUse' = lastUse \cup {Address[s]}
    /\ jpc' = [jpc EXCEPT ![j] = "fill"]
    /\ candidate' = [candidate EXCEPT ![j] = NoSlot]
    /\ UNCHANGED <<input, ctl, locals, consumed, throttled, dials, failedSet, report>>

\* throttle.Ready is false, for a proxy used less than the interval ago.
SetAside(j) ==
    LET s == candidate[j] IN
    /\ jpc[j] = "ready"
    /\ Address[s] \in lastUse
    /\ throttled' = [throttled EXCEPT ![j] = @ \cup {s}]
    /\ jpc' = [jpc EXCEPT ![j] = "fill"]
    /\ candidate' = [candidate EXCEPT ![j] = NoSlot]
    /\ UNCHANGED <<input, ctl, locals, consumed, batch, dials, shared, report>>

\* How far slot s is from the job's start index.
Position(j, s) == IF s >= j % PoolSize THEN s - (j % PoolSize)
                  ELSE s + PoolSize - (j % PoolSize)

\* The set-aside proxies that fill up the batch, earliest first.
TopUp(j) ==
    {s \in throttled[j] :
        Cardinality({t \in throttled[j] : Position(j, t) < Position(j, s)})
            < BatchSize(j) - Cardinality(batch[j])}

\* The batch is full or the pool consumed: top up and start the dial goroutines.
Launch(j) ==
    LET full == batch[j] \cup TopUp(j) IN
    /\ jpc[j] = "fill"
    /\ ~Filling(j)
    /\ full # {}
    /\ batch' = [batch EXCEPT ![j] = full]
    /\ throttled' = [throttled EXCEPT ![j] = @ \ full]
    /\ dial' = [x \in Jobs \X Slots |->
                   IF x[1] = j /\ x[2] \in full THEN "queued" ELSE dial[x]]
    /\ jpc' = [jpc EXCEPT ![j] = "wait"]
    /\ UNCHANGED <<input, ctl, locals, consumed, candidate, vote, shared, report>>

\* Every proxy left was dead: leave the loop.
NoCandidate(j) ==
    /\ jpc[j] = "fill"
    /\ ~Filling(j)
    /\ batch[j] \cup TopUp(j) = {}
    /\ Settle(j)

-----------------------------------------------------------------------------
(* One dial goroutine of a batch *)

\* Dials that hold a place in dialSem.
Dialing == {x \in Jobs \X Slots : dial[x] \in {"dialing", "reporting", "identifying"}}

\* dialSem <- struct{}{}; a stopped scan returns the place without dialling.
AcquireDial(j, s) ==
    /\ dial[<<j, s>>] = "queued"
    /\ Cardinality(Dialing) < dialConc
    /\ dial' = [dial EXCEPT ![<<j, s>>] = IF cancelled THEN "done" ELSE "dialing"]
    /\ UNCHANGED <<input, ctl, jpc, locals, fill, vote, shared, report>>

\* The dial returns after the scan was stopped: whatever it returns is dropped
\* (a connection is closed) and the result keeps its zero value.
DropResult(j, s) ==
    /\ dial[<<j, s>>] = "dialing"
    /\ cancelled
    /\ dial' = [dial EXCEPT ![<<j, s>>] = "done"]
    /\ UNCHANGED <<input, ctl, jpc, locals, fill, vote, shared, report>>

\* What the dial may return: once the scan is stopped, also ctx.Err().
Returns(j, s) == Answers[s][j] \cup (IF cancelled THEN {Canceled} ELSE {})

\* Whoever finds a proxy dead reports it.
NewlyDead_Always(s, err) == IsProxyDead(err)

\* What markFailed finds under its lock.
NewlyDead(s, err) == IsProxyDead(err) /\ Address[s] \notin failedSet

\* A proxy-side error: vote 0; the proxy is marked failed if it is dead, and
\* the first one to mark its address reports it.
DialFails(j, s) ==
    \E err \in Returns(j, s) \cap ErrorKinds :
        /\ dial[<<j, s>>] = "dialing"
        /\ ~cancelled
        /\ IsProxyError(err)
        /\ failedSet' = failedSet \cup (IF IsProxyDead(err) THEN {Address[s]} ELSE {})
        /\ dial' = [dial EXCEPT ![<<j, s>>] = IF NewlyDead(s, err) THEN "reporting" ELSE "done"]
        /\ UNCHANGED <<input, ctl, jpc, locals, fill, vote, lastUse, report>>

\* Any other error is the target's: a vote against.
DialRefused(j, s) ==
    \E err \in Returns(j, s) \cap ErrorKinds :
        /\ dial[<<j, s>>] = "dialing"
        /\ ~cancelled
        /\ ~IsProxyError(err)
        /\ vote' = [vote EXCEPT ![<<j, s>>] = -1]
        /\ dial' = [dial EXCEPT ![<<j, s>>] = "done"]
        /\ UNCHANGED <<input, ctl, jpc, locals, fill, shared, report>>

DialConnects(j, s) ==
    /\ dial[<<j, s>>] = "dialing"
    /\ ~cancelled
    /\ Connected \in Returns(j, s)
    /\ dial' = [dial EXCEPT ![<<j, s>>] = "identifying"]
    /\ UNCHANGED <<input, ctl, jpc, locals, fill, vote, shared, report>>

\* hooks.OnProxyDead, outside the lock.
ReportDead(j, s) ==
    /\ dial[<<j, s>>] = "reporting"
    /\ deadCalls' = deadCalls \cup {<<j, s>>}
    /\ dial' = [dial EXCEPT ![<<j, s>>] = "done"]
    /\ UNCHANGED <<input, ctl, jpc, locals, fill, vote, shared,
                   outcomes, done, ticket, doneCalls>>

\* IdentifyService and conn.Close; the stop signal is not looked at again.
Identify(j, s) ==
    /\ dial[<<j, s>>] = "identifying"
    /\ vote' = [vote EXCEPT ![<<j, s>>] = 1]
    /\ dial' = [dial EXCEPT ![<<j, s>>] = "done"]
    /\ UNCHANGED <<input, ctl, jpc, locals, fill, shared, report>>

-----------------------------------------------------------------------------
(* scanPort: the tally; the job's end *)

\* The results of earlier rounds are counted again.
Voted_Ever(j, v) == {s \in Slots : dial[<<j, s>>] = "done" /\ vote[<<j, s>>] = v}

Voted(j, v) == {s \in batch[j] : vote[<<j, s>>] = v}

\* bwg.Wait()
BatchDone(j) == jpc[j] = "wait" /\ \A s \in batch[j] : dial[<<j, s>>] = "done"

\* A stopped scan leaves the loop without counting the batch.
Interrupt(j) ==
    /\ BatchDone(j)
    /\ cancelled
    /\ Settle(j)

\* The switch over results.  The batch's order only decides which refusal is
\* named: results follow the batch, and the last one overwrites refutedBy.
Tally(j) ==
    /\ BatchDone(j)
    /\ ~cancelled
    /\ confirmations' = [confirmations EXCEPT ![j] = @ + Cardinality(Voted(j, 1))]
    /\ openBy' = [openBy EXCEPT ![j] = @ \cup Voted(j, 1)]
    /\ proxyErrors' = [proxyErrors EXCEPT ![j] = @ + Cardinality(Voted(j, 0))]
    /\ refuted' = [refuted EXCEPT ![j] = @ \/ Voted(j, -1) # {}]
    /\ refutedBy' \in {[refutedBy EXCEPT ![j] = s] :
                          s \in IF Voted(j, -1) = {} THEN {refutedBy[j]} ELSE Voted(j, -1)}
    /\ jpc' = [jpc EXCEPT ![j] = "head"]
    /\ UNCHANGED <<input, ctl, fill, dials, shared, report>>

\* hooks.OnPortDone, then the place in jobSem is given back.
ReportDone(j) ==
    /\ jpc[j] = "report"
    /\ doneCalls' = doneCalls \cup {ticket[j]}
    /\ jpc' = [jpc EXCEPT ![j] = "finished"]
    /\ UNCHANGED <<input, ctl, locals, fill, dials, shared, outcomes, done, ticket, deadCalls>>

-----------------------------------------------------------------------------
(* The environment *)

\* The user stops the scan.
Cancel ==
    /\ pc # "returned"
    /\ ~cancelled
    /\ cancelled' = TRUE
    /\ UNCHANGED <<input, pc, next, jpc, locals, fill, dials, shared, report>>

\* RotateScan has returned: nothing is left to run.
Returned == pc = "returned" /\ UNCHANGED vars

JobStep(j) ==
    \/ BeginRound(j) \/ LeaveLoop(j) \/ Pick(j) \/ UseReady(j) \/ SetAside(j)
    \/ Launch(j) \/ NoCandidate(j) \/ Interrupt(j) \/ Tally(j) \/ ReportDone(j)

DialStep(j, s) ==
    \/ AcquireDial(j, s) \/ DropResult(j, s) \/ DialFails(j, s) \/ DialRefused(j, s)
    \/ DialConnects(j, s) \/ ReportDead(j, s) \/ Identify(j, s)

Dispatch == CheckStop \/ StartJob \/ Return

Next ==
    \/ Dispatch
    \/ \E j \in Jobs : JobStep(j)
    \/ \E j \in Jobs, s \in Slots : DialStep(j, s)
    \/ Cancel
    \/ Returned

\* Every goroutine that can run runs, and a dial ends by its timeout at the
\* latest.  Nothing makes the user stop the scan.
Fairness ==
    /\ WF_vars(Dispatch)
    /\ \A j \in Jobs : WF_vars(JobStep(j))
    /\ \A j \in Jobs, s \in Slots : WF_vars(DialStep(j, s))

Spec == Init /\ [][Next]_vars /\ Fairness
-----------------------------------------------------------------------------
(* What the scan is judged against *)

\* The slots that may, for job j, find the port open and be refused by the target.
MaySupport == [j \in Jobs |-> {s \in Slots : Connected \in Answers[s][j]}]
MayRefute  == [j \in Jobs |->
    {s \in Slots : \E err \in Answers[s][j] \cap ErrorKinds : ~IsProxyError(err)}]

\* The slots that may be condemned.
MayDie == {s \in Slots : \E j \in Jobs : \E err \in Answers[s][j] \cap ErrorKinds :
                            IsProxyDead(err)}

\* Proxies that claim a connection to some port that is in truth closed.
Liars == {s \in Slots : \E j \in Jobs \ OpenJobs : Connected \in Answers[s][j]}

\* Proxies that always get through to j, at an address nobody gives up on.
Sure(j) == {s \in Slots : Answers[s][j] = {Connected}
                          /\ Address[s] \notin {Address[t] : t \in MayDie}}

-----------------------------------------------------------------------------
(* Properties *)

TypeOK ==
    /\ quorum \in 1 .. PoolSize /\ throttle \in BOOLEAN /\ cancelled \in BOOLEAN
    /\ pc \in {"loop", "acquire", "drain", "returned"}
    /\ next \in 0 .. TotalJobs
    /\ jpc \in [Jobs -> JobStates]
    /\ confirmations \in [Jobs -> Nat] /\ proxyErrors \in [Jobs -> Nat]
    /\ refuted \in [Jobs -> BOOLEAN]
    /\ refutedBy \in [Jobs -> Slots \cup {NoSlot}]
    /\ openBy \in [Jobs -> SUBSET Slots]
    /\ consumed \in [Jobs -> 0 .. PoolSize]
    /\ batch \in [Jobs -> SUBSET Slots] /\ throttled \in [Jobs -> SUBSET Slots]
    /\ candidate \in [Jobs -> Slots \cup {NoSlot}]
    /\ dial \in [Jobs \X Slots -> DialStates]
    /\ vote \in [Jobs \X Slots -> {-1, 0, 1}]
    /\ failedSet \subseteq Addresses /\ lastUse \subseteq Addresses
    /\ outcomes \in [Jobs -> Verdicts \cup {"zero"}]
    /\ done \in Nat /\ ticket \in [Jobs -> Nat]
    /\ deadCalls \subseteq Jobs \X Slots /\ doneCalls \subseteq Nat

\* Fewer liars than the quorum cannot open a closed port, however the dials of
\* all jobs interleave: no proxy is ever counted twice for one port.
NoFalseOpen ==
    \A j \in Jobs \ OpenJobs : outcomes[j] = "open" => Cardinality(Liars) >= quorum

\* "This overrides any open votes" (quorum.go:17): an open port was refused by
\* no proxy that was asked, and a refuted one was refused by the proxy it names,
\* whose failure was the target's and not the stop of the scan.
RefusalIsReal ==
    \A j \in Jobs :
        /\ outcomes[j] = "open" => \A s \in Slots : vote[<<j, s>>] # -1
        /\ outcomes[j] = "refuted" =>
              /\ refutedBy[j] \in MayRefute[j]
              /\ vote[<<j, refutedBy[j]>>] = -1

\* A scan that is not stopped finds a port open whenever enough proxies get
\* through to it, none is refused, and the others are too few to exhaust the
\* retries: no candidate is lost between the rounds.  (Without burn protection.)
FindsOpen ==
    \A j \in Jobs :
        /\ ~throttle /\ ~cancelled
        /\ MayRefute[j] = {}
        /\ Cardinality(Sure(j)) >= quorum
        /\ PoolSize - Cardinality(Sure(j)) < maxProxyRetries
        => outcomes[j] \in {"zero", "open"}

\* "OnProxyDead fires once" (rotate.go:51): at most once for an address, whatever
\* jobs find it dead at the same time, and by the return once for every address
\* in the failed set, so that the caller's pruning agrees with the scan's.
DeadReportedOnce ==
    /\ \A x, y \in deadCalls : Address[x[2]] = Address[y[2]] => x = y
    /\ \A x \in deadCalls : x[2] \in MayDie
    /\ pc = "returned" => failedSet = {Address[x[2]] : x \in deadCalls}

\* Once RotateScan has returned nothing of it runs on: no dial holds a
\* connection, every job that started has its verdict and has reported its own
\* progress number, and without a stop that is every job.
QuietAfterReturn ==
    pc = "returned" =>
        /\ \A j \in Jobs, s \in Slots : dial[<<j, s>>] \in {"idle", "done"}
        /\ \A j \in Jobs : outcomes[j] # "zero" <=> j < next
        /\ doneCalls = 1 .. next
        /\ ~cancelled => next = TotalJobs

\* The retry cap is looked at between rounds only, so a job may run over it, but
\* by less than one batch; what connected earlier counts against that batch.
RetryBudget ==
    \A j \in Jobs :
        /\ confirmations[j] + proxyErrors[j] <= maxProxyRetries + quorum + 1
        /\ confirmations[j] + proxyErrors[j] <= consumed[j]

\* A proxy is asked at most once per port: a finished dial is never started again.
NoRedial ==
    [][\A j \in Jobs, s \in Slots : dial[<<j, s>>] = "done" => dial'[<<j, s>>] = "done"]_vars

\* The scan ends, stopped or not: the two semaphores, held by jobs that wait for
\* dials, never block each other.
Terminates == <>(pc = "returned")

-----------------------------------------------------------------------------
(* The bookkeeping behind the verdicts: inductive together with TypeOK *)

\* The slots job j has consumed: the first consumed[j] of its walk.
Seen(j) == {Slot(j, i) : i \in 0 .. (consumed[j] - 1)}

\* A job's walk: what it holds it has consumed, a proxy being placed in this
\* round's batch was not in an earlier one, and only batches are dialled.
WalkInv(j) ==
    /\ openBy[j] \cup batch[j] \cup throttled[j] \subseteq Seen(j)
    /\ jpc[j] = "ready" =>
          /\ candidate[j] \in Seen(j) \ (openBy[j] \cup batch[j] \cup throttled[j])
          /\ dial[<<j, candidate[j]>>] = "idle"
    /\ jpc[j] \in {"fill", "ready"} =>
          /\ (batch[j] \cup throttled[j]) \cap openBy[j] = {}
          /\ \A s \in batch[j] \cup throttled[j] : dial[<<j, s>>] = "idle"
    /\ jpc[j] = "wait" => batch[j] \cap openBy[j] = {}
    /\ \A s \in Slots : dial[<<j, s>>] # "idle" =>
          /\ s \in Seen(j)
          /\ dial[<<j, s>>] # "done" => jpc[j] = "wait" /\ s \in batch[j]

\* A vote is what the proxy may have answered, and a refusal that is not
\* tallied yet is one of the batch in flight, or dropped by the stop.
VoteInv(j) ==
    \A s \in Slots :
        /\ vote[<<j, s>>] = 1 \/ dial[<<j, s>>] = "identifying" => s \in MaySupport[j]
        /\ vote[<<j, s>>] = -1 => /\ s \in MayRefute[j]
                                  /\ \/ refuted[j]
                                     \/ s \in batch[j] /\ jpc[j] \in {"wait", "report", "finished"}
        /\ s \in openBy[j] => vote[<<j, s>>] = 1

\* The tally: every confirmation is a slot of its own, a round only runs while
\* it can still matter, and a verdict is the decision on the final tally.
TallyInv(j) ==
    /\ confirmations[j] = Cardinality(openBy[j])
    /\ jpc[j] \in {"fill", "ready", "wait"} => confirmations[j] < quorum /\ ~refuted[j]
    /\ refuted[j] => refutedBy[j] \in Slots /\ vote[<<j, refutedBy[j]>>] = -1
    /\ outcomes[j] = "zero" <=> jpc[j] \notin {"report", "finished"}
    /\ outcomes[j] # "zero" =>
          /\ outcomes[j] = DecideQuorum(confirmations[j], quorum, refuted[j])
          /\ \A s \in Slots : vote[<<j, s>>] = -1 => refuted[j] \/ confirmations[j] < quorum

Bookkeeping == \A j \in Jobs : WalkInv(j) /\ VoteInv(j) /\ TallyInv(j)

-----------------------------------------------------------------------------
(* What the comments say and the scan does not keep *)

\* "use rested ones anyway rather than report a false "unreachable"" (rotate.go:
\* 210-212): burn protection does not cost a port the proxies that reach it.
NoFalseUnreachable ==
    \A j \in Jobs :
        /\ ~cancelled
        /\ Cardinality(Sure(j)) >= quorum
        /\ PoolSize - Cardinality(Sure(j)) < maxProxyRetries
        => outcomes[j] # "unreachable"

\* "at least `quorum` distinct proxies agreed the port is open" (quorum.go:12-13):
\* an open port is vouched for by that many servers.
DistinctServersAgree ==
    \A j \in Jobs :
        outcomes[j] = "open" => Cardinality({Address[s] : s \in openBy[j]}) >= quorum

\* "a proxy got an authoritative "connection refused" from the target"
\* (quorum.go:15-16): a refuted port was answered for by some proxy.
RefutedByTarget ==
    \A j \in Jobs :
        outcomes[j] = "refuted" => \E s \in Slots : Answers[s][j] \cap SocksReplies # {}

-----------------------------------------------------------------------------
(* The abstract specification *)

\* Every step of the scan is a step of its promise or changes nothing there.
Promise == INSTANCE QuorumScan WITH
               Quorums <- 1 .. PoolSize, supporters <- openBy, verdict <- outcomes

KeepsPromise == Promise!Spec
=============================================================================
