---------------------------- MODULE ConnectScan ----------------------------
(***************************************************************************)
(* The connect scan of "rofk scan" (scanner.Scan, and runBuiltin of          *)
(* cli/cli.go): one goroutine starts a worker for each host and port, with   *)
(* at most Concurrency of them; each worker starts a dial of its own and      *)
(* waits for it, for the timeout and for the interrupt; the main goroutine    *)
(* prints what they send through a channel.                                  *)
(***************************************************************************)
EXTENDS Integers, Sequences, FiniteSets, SequencesExt

CONSTANTS Jobs,         \* the hosts and ports, numbered in their order
          Concurrency,  \* opts.Concurrency
          ResultsRoom   \* bound: the capacity of results (256 in the code)

ASSUME ScanAssumption ==
    /\ IsFiniteSet(Jobs) /\ Jobs = 1 .. Cardinality(Jobs)
    /\ {Concurrency, ResultsRoom} \subseteq Nat \ {0}

VARIABLES
    spc,       \* the goroutine that runs Scan and then closes results
    next,      \* the job its loop has come to
    wpc,       \* the worker of a job
    connCh,    \* the dial of a job: "" before its answer is in connCh
    results,   \* the channel of open ports
    counted,   \* scanned: how many jobs were counted
    printed    \* what the main goroutine has printed

svars == <<spc, next, wpc, connCh, results, counted, printed>>

ScanInit ==
    /\ spc = "off" /\ next = 1
    /\ wpc = [j \in Jobs |-> "none"] /\ connCh = [j \in Jobs |-> ""]
    /\ results = <<>> /\ counted = 0 /\ printed = <<>>

Busy == {j \in Jobs : wpc[j] \notin {"none", "done"}}

\* The goroutine starts.
ScanStarts == /\ spc = "off" /\ spc' = "loop"
              /\ UNCHANGED <<next, wpc, connCh, results, counted, printed>>

\* The interrupt is looked at before each job.
ScanLoop(interrupted) ==
    /\ spc = "loop"
    /\ spc' = CASE next \notin Jobs                -> "wait"
                [] next \in Jobs /\ interrupted    -> "cancelled"
                [] next \in Jobs /\ ~interrupted   -> "acquire"
    /\ UNCHANGED <<next, wpc, connCh, results, counted, printed>>

\* sem <- struct{}{}: no interrupt is looked at here.
StartJob ==
    /\ spc = "acquire" /\ Cardinality(Busy) < Concurrency
    /\ wpc' = [wpc EXCEPT ![next] = "dialing"]
    /\ next' = next + 1
    /\ spc' = "loop"
    /\ UNCHANGED <<connCh, results, counted, printed>>

\* The dial returns, whether or not its worker still waits.
DialReturns(j) ==
    /\ wpc[j] # "none" /\ connCh[j] = ""
    /\ \E answer \in {"conn", "nil"} : connCh' = [connCh EXCEPT ![j] = answer]
    /\ UNCHANGED <<spc, next, wpc, results, counted, printed>>

\* The worker takes the answer and reads a banner from an open port,
TakeConn(j) ==
    /\ wpc[j] = "dialing" /\ connCh[j] \in {"conn", "nil"}
    /\ wpc' = [wpc EXCEPT ![j] = IF connCh[j] = "conn" THEN "sending" ELSE "counting"]
    /\ connCh' = [connCh EXCEPT ![j] = IF @ = "conn" THEN "used" ELSE @]
    /\ UNCHANGED <<spc, next, results, counted, printed>>

\* or gives up: by the timeout, or at the interrupt.
GiveUp(j) ==
    /\ wpc[j] = "dialing"
    /\ wpc' = [wpc EXCEPT ![j] = "counting"]
    /\ UNCHANGED <<spc, next, connCh, results, counted, printed>>

\* A result that finds no room is dropped.
SendResult_Drops(j, interrupted) ==
    /\ wpc[j] = "sending"
    /\ results' = IF Len(results) < ResultsRoom THEN Append(results, j) ELSE results
    /\ wpc' = [wpc EXCEPT ![j] = "counting"]
    /\ UNCHANGED <<spc, next, connCh, counted, printed>>

\* results <- Result{...}, or the interrupt.
SendResult(j, interrupted) ==
    /\ wpc[j] = "sending"
    /\ \/ Len(results) < ResultsRoom /\ results' = Append(results, j)
       \/ interrupted /\ UNCHANGED results
    /\ wpc' = [wpc EXCEPT ![j] = "counting"]
    /\ UNCHANGED <<spc, next, connCh, counted, printed>>

Count(j) ==
    /\ wpc[j] = "counting"
    /\ counted' = counted + 1
    /\ wpc' = [wpc EXCEPT ![j] = "done"]
    /\ UNCHANGED <<spc, next, connCh, results, printed>>

\* The interrupted scan returns without waiting for its workers.
ScanReturns_AtOnce ==
    /\ spc = "cancelled" \/ (spc = "wait" /\ Busy = {})
    /\ spc' = "closed"
    /\ UNCHANGED <<next, wpc, connCh, results, counted, printed>>

\* wg.Wait(), interrupted or not; then results is closed.
ScanReturns ==
    /\ spc \in {"wait", "cancelled"} /\ Busy = {}
    /\ spc' = "closed"
    /\ UNCHANGED <<next, wpc, connCh, results, counted, printed>>

\* for r := range results
PrintResult ==
    /\ results # <<>>
    /\ printed' = Append(printed, Head(results))
    /\ results' = Tail(results)
    /\ UNCHANGED <<spc, next, wpc, connCh, counted>>

PrintEnds == spc = "closed" /\ results = <<>>

ScanStep(interrupted) ==
    \/ ScanLoop(interrupted) \/ StartJob \/ ScanReturns \/ PrintResult
    \/ \E j \in Jobs : \/ DialReturns(j) \/ TakeConn(j) \/ GiveUp(j)
                       \/ SendResult(j, interrupted) \/ Count(j)

\* results is only closed when no worker is left that could still send: a send
\* on a closed channel would end the program (scanner.go:180, cli.go:254).
NoSendAfterClose == spc = "closed" => Busy = {}

\* A scan that was not interrupted counts every job, and prints each port whose
\* connection a worker took, once (scanner.go:168-189, cli.go:261-266).
ScanIsWhole(interrupted) ==
    spc = "closed" /\ ~interrupted =>
        /\ counted = Cardinality(Jobs)
        /\ IsInjective(printed \o results)
        /\ ToSet(printed \o results) = {j \in Jobs : connCh[j] = "used"}
=============================================================================
