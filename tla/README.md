# Route Fork: TLA+ models, model checking and proofs

Route Fork (`rofk`) keeps a pool of SOCKS4/5 proxies, validates them, and scans
host:ports through them. A port's verdict is a vote: several proxies must reach
the port, one target-side refusal overrides them. This directory models the parts
of the program whose correctness depends on concurrency, order and shared state,
checks them with TLC on small instances, and proves all of the safety properties with
TLAPS, for every pool, command line, set of findings and configuration.

## 1. Inventory

| Component | Source | State | Operations | Hard behaviour | What makes it correct |
|---|---|---|---|---|---|
| Rotate-scan | `scanner/rotate.go`, `throttle.go` | outcomes, `failedSet`, last use of each proxy, per job: tally, position in the pool, batch | dispatch jobs, fill a batch, dial, tally, report, stop | jobs and dials in parallel under two semaphores, a shared dead-set, a stop at any point | no false open, refusals override, no proxy asked twice, a dead proxy reported once, nothing runs after the return, it ends |
| Quorum verdict | `scanner/quorum.go` | – | `DecideQuorum` | – | refusal before quorum |
| SOCKS dial, classification | `proxy/validate.go` | – | handshakes, `IsProxyError`, `IsProxyDead`, `Validate`, `FetchEgressIP` | errors are classified by their text; replies arrive in pieces | a proxy's failure is never the target's; a grant is a grant |
| Cancellable dial | `scanner/dial.go` | one goroutine per dial | `DialThroughProxyCtx` | the dial outlives the caller that gave up | the late connection is closed once |
| Scan over targets | `scanner/run.go` | – | `RunScan`, `scanTarget` | the pool is read again for each target | a target sees the pool as pruned |
| Proxy pool | `pool/pool.go` | valid, failed, index | add, clear, replace, rotate | callers read and replace in two calls | nothing invented, doubled or lost |
| GUI pool life cycle | `gui/app.go` | `valRunning`, timers, dialogs | validate, stop, clean up, add, clear, retry, revalidate | UI thread, workers, timers and scan write one pool | a stopped run is quiet; losses have a cause |
| GUI scan session | `gui/app.go`, `scansession.go`, `exec.go` | `scanRunning`, target list, findings | start, stop, prune, deal hosts out to nmaps | runs beside all of the above | prunes only what is dead; every host in one chunk |
| Hosts tab | `gui/app.go` | `hostsSlice`, `hostsMap`, `portIdx`, selections, `portView`, `showingGeo`, `geoRunning` | report findings, select, sort, clear, refresh, check geo-block | a scan's goroutine writes, the main thread draws, functions are posted between them | store, selection and pane agree |
| CLI flat mode | `cli/flat.go` | pool, rotation index, results | arguments, target loop, nmap with retry, built-in scan, prune, report | pruning resets the index; an interrupt anywhere | every target in its turn, a dead proxy never again, a whole report, an end |
| CLI commands, output | `cli/cli.go`, `output.go`, `config.go` | counters, lists, config file | validate, scan | parallel validation; a channel between two goroutines | each proxy and port once |
| Relay | `relay/relay.go` | one goroutine per client, two copiers each | SOCKS4a server, upstream CONNECT, splice | either side may stop, close or leave a write waiting at any byte | nmap is told of success only through a tunnel, sees only the target's bytes, and handlers end |
| Region check | `scanner/region.go` | votes | `ProbeRegion`, `DecideRegionBlock` | parallel dials, a timeout | blocked only when others connect; time is no refusal |
| Ports and targets | `scanner/scanner.go` | – | `ParsePorts`, `CompressPorts`, `MergePortSpecs`, `ExpandTarget`, `Scan` | bounds; a result sent as the channel is closed | compress is an inverse of parse; no send after close |
| Service identification | `scanner/probe.go`, `services.go` | – | banner, HTTP and TLS probes | – | – |
| Geo lookup | `geo/geo.go` | sorted table | binary search | interval ends | the right interval or none |
| Entry point | `main.go` | – | argument dispatch | – | – |

How they interact. The GUI and the flat CLI call `RunScan` for one target at a
time with a function that reads the pool. `RunScan` calls `RotateScan`, which
calls back: `OnProxyDead` (collected by the caller, who prunes the pool after the
scan), `OnOutcome` and `OnPortDone` (shown to the user). `RotateScan` dials by
`DialThroughProxyCtx`, which runs `DialThroughProxy` in a goroutine. In the GUI
the validation's workers, the revalidation timers, the UI thread's buttons and
dialogs and the scan's pruning all write the same `Pool`. A scan reports its
findings to the Hosts tab under `hostsMu` and posts a refresh to the main thread.
The flat CLI with nmap starts a relay per target; nmap connects to it, and the
relay dials the target through the proxy whose turn it is.

## 2. Modules

| Module | What it is |
|---|---|
| `ProxyErrors` | the failures a dial may report and the two classifiers. Each failure is a name that stands for the error texts of one kind; the classifiers are the sets their substring tests accept |
| `QuorumVerdict` | `DecideQuorum` |
| `QuorumScan` | abstract specification: a port's votes come only from proxies that have not voted on it before, a refusal ends the counting, and the verdict is given once, from the votes counted |
| `RotateScan` | the rotate-scan in full, its properties, its inductive invariant `Bookkeeping`, and the refinement mapping to `QuorumScan` |
| `RotateScanProofs` | theorems and proofs about `RotateScan`: its verdicts and the refinement; its reports, its cost and its return |
| `RotateTwice` | two copies of `RotateScan` over the same answers, one run after the other, to compare their outcomes |
| `ProxyPool` | rotation and replacement of the pool's slices |
| `PoolWriters` | everything in the GUI that writes the pool |
| `SocksExchange` | the client side of the SOCKS handshake, in both forms of the code (one `Read` per reply; `io.ReadFull`), over a byte stream that arrives in any pieces, with the proxy at the other end |
| `Relay` | the SOCKS4 relay: listener, handlers, upstream exchange, splice in both directions; extends `SocksExchange` and `ProxyPool` |
| `ConnectScan` | `scanner.Scan` and the loop of `runBuiltin` that prints its results |
| `ValidateList` | `rofk validate`: workers, egress lookup, counters, summary; extends `SocksExchange` |
| `FlatArgs` | `parseFlatArgs` as a recursive function over the words, and a second definition of it word by word |
| `PortSpecs` | `ParsePorts`, `CompressPorts` with its sort, `MergePortSpecs`, `mergeCommonPorts`, `ExpandTarget`, as functions over numbered places, with their reference properties |
| `CommandLine` | one run of the program from the command line: composes the five above with the target loop, nmap, the built-in scan, the interrupt and the report; what it does with its words, ports and networks is stated where it starts |
| `DialCtx` | `DialThroughProxyCtx` and the goroutines it starts |
| `RegionCheck` | `ProbeRegion`, `Status`, `DecideRegionBlock`; extends `DialCtx` |
| `HostsTab` | the store of findings, the widgets' state and the main thread's functions; extends `RegionCheck` and `NmapChunks` |
| `NmapChunks` | how hosts are dealt out to the proxies of a parallel nmap scan |
| `ProxyPoolProofs` | lemmas about lists: the operators of `ProxyPool`, injective sequences, functions defined step by step |
| `PoolWritersProofs` | theorems and proofs about `PoolWriters` |
| `CommandLineProofs` | theorems and proofs about `CommandLine`: the handshake and the splice, the target loop and the report, the connect scan and validate |
| `ArgumentsProofs` | theorems and proofs about its arguments: the words of a command line, networks, lists of ports |
| `RepliesProofs` | theorems and proofs about what the replies say and what nmap receives, and about the types |
| `HostsStoreProofs` | lemmas about the store of findings: sorting, a merged and a new entry, a report |
| `HostsTabProofs` | theorems and proofs about `HostsTab`, the geo-block check and the chunks |
| `MC*` | constants for TLC: the small instances, and the inputs over which the pure operators are checked; the `MC*Claims` modules also state what a document or comment says and the code does not keep |

### RotateScan and the code

| Model | Code (`scanner/rotate.go`) |
|---|---|
| `pc`, `next` | the dispatch loop 142-168: `CheckStop`, `StartJob` (jobSem), `Return` (`wg.Wait`) |
| `jpc[j]` | where job j's goroutine is: head of the loop, filling (`Pick`), at `throttle.Ready` (`UseReady`, `SetAside`), waiting for its batch, reporting, finished |
| `confirmations`, `proxyErrors`, `refuted`, `refutedBy`, `consumed`, `batch`, `throttled` | the locals of `scanPort`; `openBy` is `OpenProxies` |
| `dial[<<j, s>>]`, `vote[<<j, s>>]` | the dial goroutine of slot s in job j's batch, and its `results[bi].vote` |
| `failedSet`, `lastUse` | `failedSet`; the map in `ProxyThrottle` (time is abstracted: a use on record may or may not have expired) |
| `deadCalls`, `doneCalls`, `ticket` | the calls of `OnProxyDead` and `OnPortDone`, and the value of `done.Add(1)` a job will report |
| `cancelled` | `ctx.Err() != nil`; `Cancel` is the user |

Steps that no other goroutine can tell apart are one action: a dial's return with
its classification and `markFailed` (one critical section), the assignment of
`outcomes[i]` with `OnOutcome` and `done.Add(1)`. Separate are the pick of a
proxy and its dial, the two semaphores, the mark and the call of `OnProxyDead`
(outside the lock), and `done.Add` and `OnPortDone`. The batch is a set: the
order of its results only decides which refusal is named, so `Tally` chooses
among the refusers; this includes every choice of the code. An empty pool or port
list returns at once in the code and is excluded by `SizeAssumption`. The service
name and banner of a confirmation are left out.

### PoolWriters and the code

| Model | Code (`gui/app.go`) |
|---|---|
| `valid`, `failed`, `index` | `Pool`; each method is one step, because it locks |
| entries `<<proxy, parse>>` | `*proxy.Proxy`: each parse makes new objects |
| `vpc`, `vinput`, `vstopped`, `work` | the validation goroutine 459-515, `valCancel`, its workers; `vpc = "off"` is `!valRunning` |
| `cleanups` | the dialogs of 605-650 with what their closures keep; a dialog may stay open while anything else happens |
| `ui`, `hand`, `existing` | a handler of several pool calls in progress (`AddDirect` 393-434, `Retry Failed` 680-699); the UI thread runs one handler at a time |
| `revalDone`, `rpc`, `unchecked`, `rkept` | `startAutoReval`, `stopAutoReval`, `revalidatePool` 119-195 |
| `spc`, `scanned`, `dead`, `survivors` | the scan goroutine 1127-1440 with `runBuiltin` 1213-1291; what `RotateScan` reports dead is any set of mortal addresses of the pool it was given |
| `admitted`, `excused` | history variables of the property `LossNeedsOverlap`, not in the code |

The display rows (`validRows`, `failedRows`), the status texts and
latencies are left out; "fastest" is any member of its group.

### CommandLine and the code

| Model | Code |
|---|---|
| `cpc` | where the main goroutine is: `RunFlatMode` (`flat.go` 163-264), `runScan` (`cli.go` 187-237) or `runValidate` (80-146) |
| `fa`, `targets`, `px`, `valid`, `index` | the parsed arguments, the targets to come, `px`, the pool |
| `interrupted`, `Interrupt` | `ctx.Err() != nil`; the goroutine that waits for one signal |
| `attempt`, `running`, `found` | `flatRunNmap` / `runNmap`: first run or retry, the nmap process, the open ports it printed |
| `snapshot`, `dead` | `flatRunBuiltin`: what `RunScan` reads, and the map that `ProxyDead` fills |
| `all`, `output` | `allResults` (each entry stands for one result of target number n), the output file |
| `used`, `lost`, `seen` | history: proxies of the targets so far, addresses found dead, everything reported |
| `listening`, `owner`, `hpc`, `late`, `copying` | `Relay.ln`, `Relay.px`, where each `handle` is, whether the client's deadline passed during the dial, the two `io.Copy` goroutines |
| `said`, `down`, `inbox`, `writing` | the data of a tunnel: what the target sent, what nmap got, what nmap sent that was not read, whether `io.Copy(upstream, client)` is in its `Write` |
| `peer`, `refused` | nmap's end is open; history: something nmap sent met a connection that was closed behind it |
| `xpc`, `srv`, `stream`, `gone`, `left`, `why` | the handshake on a connection to a proxy: the client, the proxy, the bytes under way, the end of the connection, the rest of the bound address, the error text |
| `spc`, `next`, `wpc`, `connCh`, `results` | `Scan`: its loop, each worker, each dial's channel, the channel to the printer |
| `lpc`, `check`, `tries`, `egress`, `lines` | `runValidate`: the loop, each worker, the echo services tried, `EgressIP`, the lines written |

One goroutine's work up to the next point where another could notice is one
action. A reply is the sequence of its bytes with runs of bytes nobody looks at
shortened to one (an address of four bytes and its port is one byte, a SOCKS4
reply three of eight); a read returns any part of what has arrived. Which hosts
nmap connects to, what a proxy answers and what a target sends are nondeterministic;
what a rotating scan does is in `RotateScan`, and here it returns findings and any
set of mortal addresses. `-h` among the words of the flat mode prints the usage and
ends; it is not one of the model's words. `rofk scan` takes the same two branches as the flat mode with one
target and no file.

### HostsTab and the code

| Model | Code (`gui/app.go`) |
|---|---|
| `hostsMap`, `hostsSlice` | `state.hostsMap`, `hostsSlice` with each `HostRecord`'s `Ports` and `portIdx` |
| `entries` | every `*PortEntry` ever made: a pointer is a place in the sequence, so an entry that was cleared still exists while a selection holds it |
| `pushing`, `posted` | `pushFindings` has left `hostsMu` and will call `hostsRefresh`; the queue of `fyne.Do` |
| `selHost`, `selPort`, `sortMode`, `portView`, `pane`, `showingGeo` | the variables of `buildHostsTab` and what the detail pane shows |
| `geoRunning`, `checking` | the flag, and host and port of the check under way |
| `jobs`, `from`, `worker`, `votes` | the jobs of `ProbeRegion` (all checks', one after another), its goroutines, its votes |
| `dialer`, `ch`, `got`, `closer`, `expired` | `DialThroughProxyCtx` (`dial.go`): the goroutine that dials, its channel, what the call returned, the goroutine left behind, the context |
| `open`, `said`, `found` | history: connections made less closed, the result a call received, what was reported since the list was cleared |

Service, version and banner of an entry follow one rule (the first one known is
kept); `service` stands for all three.

## 3. Runs

| Run | Instance | Shows |
|---|---|---|
| `rotate_jobs` | 3 jobs, 3 slots, 2 of them one address, 2 jobs and 2 dials at a time, stop at any moment, with and without burn protection | `RefusalIsReal`, `DeadReportedOnce`, `QuietAfterReturn`, `Terminates` |
| `rotate_rounds` | 2 jobs, 7 slots, quorum 1 and 2, retry cap 4 | `TypeOK`, `NoFalseOpen`, `FindsOpen`, `RetryBudget`, `NoRedial`, and `KeepsPromise`: the scan implements `QuorumScan` |
| `pool_writers` | 2 proxies (one may fail, die or hide its egress), 2 parses, one worker at a time, a timer, a scan of 2 targets, at most 4 things started | `TypeOK`, `PoolIsSound`, `QuietWhenOff`, `LossNeedsOverlap`, `SettlesDown` |
| `command_line` | every command; arguments: all lists of up to 3 of 8 words, lines with an empty word, and four long ones; files of 0 to 3 proxies; one relayed connection, one byte of data from the target, and one of nmap's waiting at a time; 3 jobs and 2 workers of a connect scan with room for 1 result; 2 proxies to validate by 2 workers; all lists of up to 3 ports below 7, pairs of specifications of up to 2 of 7 parts, addresses of 3 bits | `TypeOK`, `ArgsAreKept`, `OkIsGranted`, `RefusalIsServers`, `CleanTunnel`, `LastWords`, `NoSendAfterClose`, `ConnectScanIsWhole`, `ListAddsUp`, `RoundRobin`, `AllTargetsTaken`, `DeadStayOut`, `ReportIsWhole`, `SpecsRoundTrip`, `TargetsExpand`, `InterruptEnds`, `HandlersEnd` |
| `hosts_tab` | 2 hosts, 2 ports, 3 reports, checks or clearings in all, a check of 2 dials, one at a time; chunks for up to 9 hosts and 6 proxies | `TypeOK`, `OneOwner`, `VotesAreEvidence`, `StoreIsFindings`, `SelectionIsStored`, `PaneIsCurrent`, `ChunksPartition`, `ChecksSettle` |
| `resting_proxy_lost`, `one_server_twice`, `named_proxy_down`, `scan_twice`, `prune_loses_new`, `retry_stops` | small instances | one statement each of a comment that the code does not keep (section 6) |
| `prune_skips_proxy` | three targets, no `-wrap`, a pool of three of which the first may be found dead | one statement of the manual page that the code does not keep (section 6) |

Why the bounds are enough for what is asked. In `rotate_jobs` three jobs over two
places make a job start while another is in its batch and a third has ended; two
slots of one address make the race for `markFailed` happen inside a job and
between jobs; the answers are chosen so that a job finds the pool exhausted, a job
gets a refusal beside a full quorum, and a proxy is condemned by two jobs at once.
In `rotate_rounds` a first batch with quorum 2 takes four of seven slots, so a job
needs a second, shorter round; slot 1 lies about the closed port, which makes
`NoFalseOpen` bite with quorum 2; the pool is larger than the retry cap, which
makes the overrun of `RetryBudget` possible. In `pool_writers` `MaxActs = 4`
allows each pair and most triples of concurrent writers; with one place in
`sem` and two inputs the validation has to wait for its own worker.

In `command_line` the four long command lines have more targets than the pool has
proxies, so that rotation wraps or the pool is exhausted, and use a pool of
three of which one address is mortal, so that pruning happens between targets; a
second target starts while a handler of the first target's relay still runs. One
connection and one byte of data each way are enough for the properties of the relay, which
speak of one connection: handlers share nothing. One byte of the target's may be under way while
one of nmap's is written to a proxy that has closed, which is how the first can be lost; after
each byte that is written nmap may send another. The proxy's answers contain each
branch of the code: no SOCKS server, no method, credentials wanted, a bound address of
a known length, a longer one and an unknown type, a refusal. Three jobs with two
places and room for one result make the loop wait, a worker wait to send, and an
interrupt meet both. `MaxParsedPorts = 9` with six ports lets a list reach the limit.
In `hosts_tab` the reports repeat a port with further proxies, mix two hosts in one
report and hold a finding without a host; the pool of two known countries lets a
check reach one verdict of each kind, and a pool with one known country none;
with one place and two jobs the second job's turn may come after the time is over.

Fairness. Weak fairness of the dispatcher, of each job, of each dial, of the
validation, its workers, the timers' work, the handlers and the scan: these are
goroutines, the Go scheduler runs every one that can run, and a dial or check
ends at the latest by its connection deadline. Acquiring a semaphore needs no strong
fairness: a place that is given back is taken by one of the waiters, of which
there are finitely many, and none asks again. The user's actions (`Cancel`, the
buttons) and the timer's tick have no fairness. In `command_line` the main goroutine,
each handler with its copiers (but for their writes), the connect scan and the validation are weakly fair;
of nmap only its end after an interrupt is (`exec.CommandContext` kills it), and
nothing makes a proxy answer, nmap end by itself or the user interrupt. A handler
that waits for a proxy ends by the deadline the code sets (`Expire`, `ReadFails`). A spliced
connection has no deadline, so `HandlersEnd` asks nothing of it until nmap closes. Nor has a write
to it: the deadlines are cleared (`relay.go:121-122`), so when the proxy stops reading, the copier to
the proxy waits in its `Write` and does not see nmap close, and the other one waits for the
target. `WriteUp` and `CopyDown`, which end with the other side's help, hence have no fairness, and
what `HandlersEnd` says of a closed connection has as premise that no write waits for ever; without
it TLC finds the handler that stays. In
`hosts_tab` each call's goroutines and the goroutine of a check are weakly fair: a
dial ends by its own time limit. `pool_writers`, its claims and
`hosts_tab` run with deadlock checking off, because the GUI may rest when no button is
pressed, and `command_line` and its claims because a command ends;
`SettlesDown` says that it rests only when everything under way has ended.

Each property is paired with a mutant (`PROJECT.json`): a definition `X_Y` is a
faulty form of `X`, as a plausible slip in the code would make it, and the
property fails when it takes the place of `X`.

## 4. Proofs

### The rotate-scan

`RotateScanProofs` proves, for every pool, address map, answer
table, number of jobs, quorum, retry cap and concurrency (assumptions:
`SizeAssumption`, `AnswersAssumption`, `ConfigAssumption`, `UsedAssumption`):

| Theorem | Statement |
|---|---|
| `TypeCorrect` | `Spec => []TypeOK` |
| `BookkeepingHolds` | `Spec => []Bookkeeping`, the inductive invariant |
| `ClosedPortsStayClosed` | `Spec => []NoFalseOpen` |
| `RefusalsOverride` | `Spec => []RefusalIsReal` |
| `AskedOnce` | `Spec => NoRedial` |
| `ScanKeepsPromise` | `Spec => KeepsPromise` |
| `DeathsReportedOnce` | `Spec => []DeadReportedOnce` |
| `ReturnIsQuiet` | `Spec => []QuietAfterReturn` |
| `RetriesAreBounded` | `Spec => []RetryBudget` |
| `OpenPortsAreFound` | `Spec => []FindsOpen` |

The argument. `NoFalseOpen` is not inductive: the number `confirmations` alone
does not say that the votes came from different slots. `WalkInv` says that what a
job holds it has consumed, and that the slot it picks next, `Slot(j, consumed[j])`, was
never in a batch, because the walk from the start index meets each slot once.
`TallyInv` then keeps `confirmations = Cardinality(openBy)`: the slots that a
tally adds are new. `VoteInv` says that a vote is one of the answers its slot may
give, so the supporters of a closed port are all liars. An open verdict with
`confirmations >= quorum` hence needs that many liars. For `RefusalIsReal`,
`VoteInv` follows a refusal from the vote to the tally: it is counted in
`refuted`, or its batch is in flight (when the quorum is not reached), or the stop
dropped it (then the quorum was not reached either, and never will be). The
refinement maps `openBy` to the supporters and `outcomes` to the verdicts: `Tally`
adds supporters, `Settle` gives a verdict, everything else stutters.

The last four theorems add to `Bookkeeping` what it does not say. `BlameInv`: the
failed set is exactly what the blamed dials put there, those that have called
`OnProxyDead` or are about to, one dial for each address; so a second dial that finds
the address in the set cannot be blamed for it too. `CountInv` and `DrainInv`: the
settled jobs have drawn, between them, each progress number up to `done` (an argument
about cardinalities: a settling job draws `done + 1`, which nobody has), the
dispatcher leaves its loop early only for a stop, and it returns when no job is
running. `BudgetInv`: each confirmation and each proxy error is a slot of its own
that was asked and tallied, a round starts only below the cap, and its batch is no
larger than `BatchSize`; the votes of the last round hence overrun the cap by less
than one batch. `SureInv`: while nobody stops the scan and no proxy rests, a slot that
surely reaches the port is in `openBy` or in the batch as soon as it was consumed, and
is never a proxy error; so a job that gives up has met either the whole pool, which
contains a quorum of such slots, or more failing slots than there are. The proof needs
`BlameInv` as well: a sure slot is not skipped because its address is never in the
failed set.

### The pool

`PoolWritersProofs` proves, for every set of proxies, texts that can be parsed, number
of timers, targets and validations (assumptions: `BoundsAssumption`, `OptionsAssumption`,
`ProxyAssumption`; a parse returns each of its entries once):

| Theorem | Statement |
|---|---|
| `WritersTyped` | `Spec => []TypeOK` |
| `RunsAreQuiet` | `Spec => []QuietWhenOff` |
| `PoolStaysSound` | `Spec => []PoolIsSound` |
| `LossTakesOverlap` | `Spec => []LossNeedsOverlap` |

The argument. The writers replace the pool by lists they computed from an earlier
reading, so `PoolIsSound` is only inductive together with the same statement about each
copy under way: `CopiesAreSound` says it of the survivors of the scan, of what every open
cleanup dialog keeps, and of what each revalidation has kept and has still to check.
That a worker's result is new to the pool needs the life of an entry: `WaitingAreFresh`
(what waits for a worker or is being added by hand has had no worker and is in no list,
and no entry waits twice), `ListsFollowWork` (a member of the pool was never rejected, a
member of the failed list was), `EgressFollowsWork` (an egress address is known of what a
worker found working, and is one the proxy may have). `HeldAreKept` is the strengthening of
`LossNeedsOverlap`: an entry it speaks of is in the pool and in every list the pool may
be replaced with; it is stable because an addition while a list is under way goes
to `excused`, because a sure proxy is not dropped by a check, and because the cleanup
keeps the only member of an egress group.

### The command line

`CommandLineProofs`, `ArgumentsProofs` and `RepliesProofs` prove, for every command line
and pool, every set of replies and connections, any number of targets, jobs, workers
and proxies to validate, all lists and specifications of ports, and addresses of any length:

| Theorem | Statement |
|---|---|
| `HandshakeIsGranted` | `Spec => []OkIsGranted` |
| `TunnelIsDrained` | `Spec => []LastWords` |
| `ChannelClosedLast` | `Spec => []NoSendAfterClose` |
| `TargetsGetTheirTurn` | `Spec => []AllTargetsTaken` |
| `ProxiesInTurn` | `Spec => []RoundRobin` |
| `DeadServeNoMore` | `Spec => []DeadStayOut` |
| `ReportKeepsAll` | `Spec => []ReportIsWhole` |
| `ScanPrintsAll` | `Spec => []ConnectScanIsWhole` |
| `RefusalsAreServers` | `Spec => []RefusalIsServers` |
| `TunnelsAreClean` | `Spec => []CleanTunnel` |
| `SummaryAddsUp` | `Spec => []ListAddsUp` |
| `ArgumentsAreKept` | `Spec => []ArgsAreKept` |
| `TargetsAreExpanded` | `Spec => []TargetsExpand` |
| `PortsAreKept` | `Spec => []SpecsRoundTrip` |
| `CommandIsTyped` | `Spec => []TypeOK` |

Assumptions: `CommandAssumption` (a pool file holds known proxies, a command line is
a list of words that names a file that exists), `FlagsAssumption` (rofk's flags are none
of nmap's, the empty word is no flag), `ListAssumption`, `RelayAssumption`,
`ScanAssumption` (the list of jobs is finite; at least one worker and room for one result),
`SpecsAssumption` (a list of ports is not empty and no longer than what one specification may
name, and that is enough for each port once), `RepliesAssumption` and
`BoundAssumption` (replies follow the protocol: two bytes for a method, at least four for
an answer to CONNECT, whose bound address is as long as its type says or of a type
that the code does not know). Nothing is assumed about how TCP cuts the replies or when a
connection breaks.

The handshake and the splice. That a handshake succeeds only behind an open tunnel does
not follow from where the client is, because bytes of an earlier reply may still be under
way. `Granted` says, for each place of the client, what the proxy may have sent and how
much of it is unread: a method or authentication reply of two bytes of which one was not
read leaves at most one byte in front of the answer to CONNECT, so that the second byte
the client then looks at is the code itself or the 5 the answer starts with, which is no
zero. `RelayTypes` and `SpliceInv` tie the handler to its copiers: a handler that is done
has lost a copier, and when it has lost one while nmap has not closed, the tunnel is `Over`: the
stream is empty and the connection at its end (`Quiet`), or something nmap sent was refused. The
second part cannot be left out: `io.Copy(upstream, client)` also ends with the error of a write to a
proxy that has closed, the handler then closes nmap's connection, and what the target had sent
before is lost; the reset that such a write causes may also end the other copier's read early.
`LinkInv` is the conjunction; it holds initially (`Start`), and a
lemma per action shows that a step on one link keeps it for that link and touches no other
(`OneLink`).

The replies. `Exact` refines `Granted` for a client that has had each reply whole:
nothing is left in front of an answer to CONNECT, and behind a grant come the rest of the
bound address and then only the target's bytes. The relay reads every reply whole
(`io.ReadFull`), so for it the premise always holds; the scanner's single `Read` is
where `RefusalIsServers` has its exception. `CleanTunnel` follows through `DownInv`: a
handler grants only after a handshake without an ignored error, at which point the
stream holds nothing but the target's data.

The run. `RunInv` has the types of the main goroutine's variables and what belongs to each
of its places (nmap runs only while it is waited for, its findings wait for its end).
`SeenInv` puts what was reported together from what is in `allResults` and what nmap has
found so far. `LossInv` says of each place between a scan and its pruning where the addresses
found dead still are. `TurnInv` says that the index moves on only behind a target, and `PassInv` that each
proxy of the pool in front of the index (`Passed`) has been a target's, but for the first one after a
pruning: `SetValid` sets the index to 0, where a proxy stands that may have had no target, and `Advance`
moves past it. So when `Next` finds the index behind the pool, at most that one proxy was left
out, and only if some proxy was found dead. `IndexInv` says where
the rotation index points: modulo the length of the pool it is the number of targets taken,
without `-wrap` the number itself, and nmap scans never prune, so the length does not change.

The connect scan. `OrderInv`: jobs start in their order, and the counter is the number of
workers that are done. `SentInv`: what was printed or is in the channel are, each once, jobs
whose connection a worker took from its own channel, and without the interrupt these are
all of them but the ones about to be sent.

The list of validate. `ListInv`: the goroutines started are the first `taken` of the list,
`alive` and `dead` count the proxies whose check has passed the counter, and the file holds each of
these proxies once. At the end no goroutine is left, so the two counters add up to the list.
That the groups of the summary add up to `dead` is a fold over the set of error texts; the
proof finds the least number of groups at which a partial sum would differ from the
failed proxies of these groups, and shows that there is none.

The words. `ParseFlatArgs` is a recursive function over the places of a line, and so is
`Values`, which says which words belong to the flag in front of them. `ParseUnfolds` and
`ValuesAre` show that the functions exist, by building their course (`IsParse`) one
word at a time. `Kept` is then an invariant of the pass: after i words the targets
list, in increasing order and each once, the places of targets that the first i words
decide, a value being decided with its flag (`Past`), and so do the words for
nmap. `WordKeeps` has a case for each kind of word and of the word behind it. It holds for
empty words too, which is why the model checks such lines.

The networks. `NetSize` doubles for each bit that is free, so it is positive, and at least two when a
bit is free. Host i of a network is `q * size + i - 1`; two networks have the same q and are
the same list, or each has a block of numbers of its own (`NetsApart`). The remainder by the
size says which place an address has in its network, hence that only the first and the
last are dropped (`Remainder`, `NetTargets`).

The ports. `Sorted` puts in place k the number with fewer than k places below it and at
least k up to it. That there is one is shown with the least number up to which at least k
places lie (`PlaceIsTaken`). There is only one (`PlacedOnce`), so the list is in order
(`SortedInOrder`), and the places of a number lie one behind another, as many as it had
before (`SortedAsOften`). `CompressPorts` and `ParsePorts` are recursive functions;
`CompressIs` and `ParsePortsIs` show that they have their course. After i numbers are
written, the parts so far parse to these i numbers, and the last part is a run that ends with number i
(`SpelledReads`): a number that follows makes the run longer by one (`RunJoins`), any other
begins a part (`ReadsMore`). No step is refused, because a list
is no longer than `MaxParsedPorts`. A merge lists a set of ports once each, which
fits because `MaxPort <= MaxParsedPorts`, and is then an instance of the round trip
(`CompressedSet`): it is read as exactly that set, each port once, because a list onto a set of its own length
repeats none. The set may be empty (`NothingMerged`): a specification that `ParsePorts` refuses
contributes nothing, which the theorem says and section 6 names the consequence of. A full
specification covers every port there is (`FullIs`).

The types. `TypesInv` adds what no other invariant needed (the error texts, the numbers of
connections, the variables that are only set once); the rest of `TypeOK` is
in `LinkInv`, `RunInv`, `ScanInv` and `ListInv`.

### The Hosts tab

`HostsTabProofs` proves, on `HostsStoreProofs`, for all hosts, ports, findings, pools
and answers, and any number of calls:

| Theorem | Statement |
|---|---|
| `TabIsSound` | `Spec => []TabInv`, the inductive invariant of store, selection and pane |
| `StoreKeepsFindings` | `Spec => []StoreIsFindings` |
| `SelectionStaysStored` | `Spec => []SelectionIsStored` |
| `PaneStaysCurrent` | `Spec => []PaneIsCurrent` |
| `CheckIsSound` | `Spec => []CheckInv`, the inductive invariant of the check |
| `ConnectionsHaveOneOwner` | `Spec => []OneOwner` |
| `VotesComeFromAnswers` | `Spec => []VotesAreEvidence` |
| `TabIsTyped` | `Spec => []TypeOK` |
| `ChunksDealAll` | `Spec => []ChunksPartition` |

Assumptions: `DialAssumption`, `RegionAssumption` (at least one proxy of a country, one
place for a dial), `HostsAssumption` (finitely many hosts and ports; a finding has a host or none, a
port and its proxies).

The store. `Sound` says how map, rows, port indices and entries hang together: an index
leads to the row or entry it names, a row has each of its ports once, and an entry
belongs to one row. `Tells` says what a store tells: exactly what it was told before and what
the findings say. One finding keeps `Sound` and tells itself, case by case (no host,
known host and port, known host and new port, new host); a report is the course of its findings,
and a report under `hostsMu` is one step. The sort of a row's ports is a `CHOOSE` of a list in
order; that one exists is shown by insertion (`Insertion`), for each sort mode, and that is
all the proofs use of it.

Selection and pane. `SelectionIsStored` is inductive with the statement that the list shown is
of the selected host (`SelectedIn`), also after a report has moved on and before the list
follows. `PaneIsCurrent` speaks of the moments when no report is on its way; `Quiet` names
them, and `PaneInv` says in addition that a geo-block report in the pane is never taken for
a port, because every function that shows a port resets `showingGeo`.

The check. `CallInv` says, for each call, that a result is in the channel only when
the dial has ended, that a connection is open exactly when the channel or the worker
holds it, that a worker which is back holds what its call received, or the stop, that
a vote is backed by it, and that a job under way belongs to the check that runs. The
last conjunct, on numbers beyond the jobs started, is what a new check needs when it takes
its numbers. `Shape` adds the types and that, when no check runs, every job belongs to a
check that has ended. `TypeOK` bounds the calls at work by the places of the semaphore
(`RoomInv`), and rows and ports by hosts and keys, because the maps to them are injective.

The chunks. `FlattenSeq` of the community modules is a recursive function; it is determined by
its course (`OneJoin`), and the pieces joined so far are the hosts up to the end of
the last piece. The last pieces may be short or empty; the pieces launched are those that start
within the list.

### What is only model-checked

Liveness: `Terminates`, `SettlesDown`, `InterruptEnds`, `HandlersEnd` and `ChecksSettle` are
beyond the prover. Every invariant of a passing run, `NoRedial` and `KeepsPromise` are
theorems.

The library's induction theorems have operator parameters, which the provers cannot
instantiate. Where a recursive function or a fold matters to a safety property, the
induction is done at first order: `Least` (a set of naturals that is not empty has a
least member), `UpTo` and `Course` (a function defined step by step exists), in
`ProxyPoolProofs`. For the same reason the operators on words and ports are recursive functions and
not `RECURSIVE` operators, and the sort is stated by counting: TLC's own `SortSeq`
has no definition a proof could use.

## 5. Not modelled

In a splice, nmap ends its connection as a whole. A half-close (it sends no more, but still
reads) looks to `io.Copy(upstream, client)` like a close, so the handler would end and cut off what
the target still sends; `LastWords` does not speak of it. What nmap sends before the relay's grant waits
in the kernel, as what it sends behind it does, and is not in the model.

Service identification, output formats, the embedded tables and all layout are data
without control that a model would reduce to nothing. Geo lookup is one call of
the standard library's binary search in a static table; `RegionCheck` takes its answer
as a constant, with the unknown country. The configuration file holds one key that is
written as a whole; the command line only sets the path of nmap (`nmapPath`). `Entry point`
only chooses the command. What nmap itself and the GUI's external tools do is external;
their ends and their output lines are in the model where the code reacts to them. The
connect scan's own SOCKS4 dialer and the library's SOCKS5 dialer are a dial that
returns a connection or none. A network with a prefix of length 0 (its expansion does not
end) and semaphores without a place (`-conc 0`, `-t 0`) are outside the assumptions.

## 6. Where comments and code part

| Run | Statement | Code |
|---|---|---|
| `resting_proxy_lost` | rested proxies are used "rather than report a false unreachable" (`rotate.go:210-212`) | proxies set aside in a round whose batch fills up with others are dropped |
| `one_server_twice` | "at least `quorum` distinct proxies agreed" (`quorum.go:12`) | votes are counted per pool entry, and one host:port may be two |
| `named_proxy_down` | "Couldn't reach the proxy at all" (`validate.go:277`) | the text test fails for proxies given by name, and the port is refuted |
| `scan_twice` | "deterministic given a deterministic DialFunc" (`rotate.go:76-77`) | the dead-set depends on the schedule |
| `prune_loses_new` | "prunes … once (race-free)" (`app.go:1212`) | the pool is read and replaced in two calls |
| `retry_stops` | "kick off validation" (`app.go:697`) | during a validation the button means Stop |
| `prune_skips_proxy` | several targets, "each consuming the next proxy from the pool" (`rofk.1:48`) | after `SetValid` (`flat.go:460`) the first proxy left is passed over, and without `-wrap` the last target is dropped |

Three more differences are in the model and have no run of their own; the properties
named here are stated so that they do not claim the opposite:

| Statement | Code | Model |
|---|---|---|
| "fastest per duplicate group" (`app.go:617`) | remembered by host:port (`app.go:621`), so the entries of one address stay beside each other | `cleanups` |
| "Any flag not listed above is forwarded to nmap unchanged" (`README.md:131`, `rofk.1:103`) | the value of a flag that is not in `nmapValueFlags` (`flat.go:44-62`), such as the address of `--dns-servers`, is taken as a target (`flat.go:151`) | `IsTarget`; `ArgsAreKept` speaks of the flags on the list |
| the retry's list: "original port 9999 should be kept" (`cli_test.go:91`) | a specification that nmap takes and `ParsePorts` refuses (`0-1024`, `U:53`) is dropped by the merge (`scanner.go:237`), so the retry scans only the common ports | `MergePortSpecs`; `SpecsRoundTrip` says that it adds nothing |

## 7. What is left

1. The parallel nmap processes of the GUI (`app.go` 1326-1384) as processes: chunks
   with their relays, the progress bar and the stop.
2. The flat mode's built-in scan with `RotateScan` in place of "some findings, some
   addresses".
3. Configuration written while it is read (`config.go`).
