---------------------------- MODULE PoolWriters ----------------------------
(***************************************************************************)
(* The GUI's writers of the one proxy pool (gui/app.go).                    *)
(*                                                                         *)
(* The UI thread runs one handler at a time: buttons and the answers to     *)
(* dialogs.  Beside it run the validation started by "Validate All" with    *)
(* its workers, the revalidation timers, and a scan over a queue of         *)
(* targets that prunes the proxies it found dead.  The pool's lock covers a *)
(* single method; the cleanup, the revalidation and the pruning read the    *)
(* pool in one step and replace it in a later one.                           *)
(*                                                                         *)
(* A definition named X_Y is a faulty variant of X, for testing the          *)
(* properties.  The display lists beside the pool are left out.             *)
(***************************************************************************)
EXTENDS Integers, Sequences, FiniteSets, SequencesExt, ProxyPool

CONSTANTS
    Proxies,      \* proxies as written: host, port and protocol
    Address,      \* Address[p]: host:port, without the protocol
    Works,        \* Works[p]: what Validate may find, a set of BOOLEANs
    Egress,       \* Egress[p]: what FetchEgressIP may find, "" on failure
    Mortal,       \* the addresses a scan may find dead
    Texts,        \* Texts[n]: what the input box may hold when it is parsed for
                  \* the n-th time, as sequences of proxies
    Threads,      \* the number of concurrent checks, st.threads
    Queue,        \* the length of the scan's target list
    Options,      \* the settings of a scan: wrap and rotate
    MaxParses,    \* bounds: how often the input is parsed,
    MaxTimers,    \* how many revalidation timers are started,
    MaxActs       \* and how often, in all, the user or a timer starts anything

Parses  == 1 .. MaxParses
Entries == Proxies \X Parses      \* the proxies of one parse are new objects
Addr(e) == Address[e[1]]
Addresses == {Address[p] : p \in Proxies}

ASSUME BoundsAssumption ==
    /\ Threads \in Nat \ {0}
    /\ {Queue, MaxParses, MaxTimers, MaxActs} \subseteq Nat
ASSUME OptionsAssumption == Options \subseteq [wrap : BOOLEAN, rotate : BOOLEAN]
ASSUME ProxyAssumption ==
    /\ Works \in [Proxies -> SUBSET BOOLEAN] /\ Mortal \subseteq Addresses
    /\ \A n \in Parses : \A t \in Texts[n] : t \in Seq(Proxies) \ {<<>>} /\ IsInjective(t)

VARIABLES
    valid, failed, index,     \* the pool's fields
    admitted, excused,        \* history: the entries ever added, and those that were
                              \* added between a writer's read and its write, or cleared
    egressIP,                 \* EgressIP of an entry
    parses,                   \* how often the input was parsed
    \* the validation: valRunning is vpc # "off"
    vpc, vinput, vstopped,
    work,                     \* the worker of an entry
    cleanups,                 \* what the open cleanup dialogs would keep
    \* the UI handler in progress and its locals
    ui, hand, existing,
    \* the revalidation: the timer in revalDone, and each timer's goroutine
    revalDone, rpc, unchecked, rkept,
    \* the scan: scanRunning is spc # "off"
    spc, sstopped, targets, options, scanned, dead, survivors,
    acts                      \* how much was started

pool  == <<valid, failed, index, admitted, excused>>
valv  == <<vpc, vinput, vstopped, work, egressIP, cleanups>>
uiv   == <<ui, hand, existing>>
revv  == <<revalDone, rpc, unchecked, rkept>>
scanv == <<spc, sstopped, targets, options, scanned, dead, survivors>>
vars  == <<pool, valv, uiv, revv, scanv, parses, acts>>

Timers  == 1 .. MaxTimers
NoTimer == 0

Init ==
    /\ valid = <<>> /\ failed = <<>> /\ index = 0
    /\ admitted = {} /\ excused = {}
    /\ egressIP = [e \in Entries |-> ""]
    /\ parses = 0 /\ acts = 0
    /\ vpc = "off" /\ vinput = <<>> /\ vstopped = FALSE
    /\ work = [e \in Entries |-> "none"]
    /\ cleanups = {}
    /\ ui = "idle" /\ hand = <<>> /\ existing = {}
    /\ revalDone = NoTimer
    /\ rpc = [g \in Timers |-> "none"]
    /\ unchecked = [g \in Timers |-> {}]
    /\ rkept = [g \in Timers |-> <<>>]
    /\ spc = "off" /\ sstopped = FALSE /\ targets = 0
    /\ options \in Options
    /\ scanned = <<>> /\ dead = {} /\ survivors = <<>>

-----------------------------------------------------------------------------
(* Validate All *)

\* Something new is started.
Act == acts < MaxActs /\ acts' = acts + 1

\* The entries of the previous parse are used again.
Parsed_Again(text) == [i \in 1 .. Len(text) |-> <<text[i], parses>>]

\* The input is parsed anew: a sequence of new entries.
Parsed(text) == [i \in 1 .. Len(text) |-> <<text[i], parses + 1>>]

\* A failing worker keeps its place.
Running_Leak == {e \in Entries : work[e] \in {"checking", "works", "broken", "rejected"}}

\* Workers that hold a place in sem.
Running == {e \in Entries : work[e] \in {"checking", "works", "broken"}}

\* The button starts a run over the text in the box, or stops the run.
TapValidate(texts) ==
    IF vpc # "off"
    THEN vstopped' = TRUE /\ UNCHANGED <<vpc, vinput, parses>>
    ELSE /\ parses < MaxParses
         /\ parses' = parses + 1
         /\ \E text \in texts : vinput' = Parsed(text)
         /\ vstopped' = FALSE
         /\ vpc' = "loop"

ValidateAll ==
    /\ ui = "idle"
    /\ IF vpc = "off" THEN Act ELSE ~vstopped /\ UNCHANGED acts
    /\ TapValidate(IF parses < MaxParses THEN Texts[parses + 1] ELSE {})
    /\ UNCHANGED <<pool, work, egressIP, cleanups, uiv, revv, scanv>>

\* The stop is looked at before each proxy.
NextInput ==
    /\ vpc = "loop"
    /\ vpc' = CASE vstopped        -> "stopping"
                [] vinput = <<>>   -> "wait"
                [] OTHER           -> "acquire"
    /\ UNCHANGED <<pool, vinput, vstopped, work, egressIP, cleanups,
                   uiv, revv, scanv, parses, acts>>

\* sem <- struct{}{} and the worker is started.
StartWorker ==
    /\ vpc = "acquire"
    /\ Cardinality(Running) < Threads
    /\ work' = [work EXCEPT ![Head(vinput)] = "checking"]
    /\ vinput' = Tail(vinput)
    /\ vpc' = "loop"
    /\ UNCHANGED <<pool, vstopped, egressIP, cleanups, uiv, revv, scanv, parses, acts>>

\* A worker runs proxy.Validate and, if it works, FetchEgressIP.
Check(e) ==
    /\ work[e] = "checking"
    /\ \E ok \in Works[e[1]] :
          IF ok THEN /\ work' = [work EXCEPT ![e] = "works"]
                     /\ \E ip \in Egress[e[1]] : egressIP' = [egressIP EXCEPT ![e] = ip]
          ELSE work' = [work EXCEPT ![e] = "broken"] /\ UNCHANGED egressIP
    /\ UNCHANGED <<pool, vpc, vinput, vstopped, cleanups, uiv, revv, scanv, parses, acts>>

\* A writer has read the pool and will replace it.
Overwriting == cleanups # {} \/ spc = "write" \/ \E g \in Timers : rpc[g] = "checking"

Admit(es) == /\ admitted' = admitted \cup es
             /\ excused' = IF Overwriting THEN excused \cup es ELSE excused

AddValid(e) ==
    /\ work[e] = "works"
    /\ valid' = Append(valid, e)
    /\ Admit({e})
    /\ work' = [work EXCEPT ![e] = "added"]
    /\ UNCHANGED <<failed, index, vpc, vinput, vstopped, egressIP, cleanups,
                   uiv, revv, scanv, parses, acts>>

AddFailed(e) ==
    /\ work[e] = "broken"
    /\ failed' = Append(failed, e)
    /\ work' = [work EXCEPT ![e] = "rejected"]
    /\ UNCHANGED <<valid, index, admitted, excused, vpc, vinput, vstopped, egressIP,
                   cleanups,
                   uiv, revv, scanv, parses, acts>>

\* The stopped run does not wait for its workers.
EndStopped_AtOnce ==
    /\ vpc = "stopping"
    /\ vpc' = "off"
    /\ vinput' = <<>>
    /\ UNCHANGED <<pool, vstopped, work, egressIP, cleanups,
                   uiv, revv, scanv, parses, acts>>

\* wg.Wait() of a stopped run.
EndStopped ==
    /\ vpc = "stopping"
    /\ Running = {}
    /\ vpc' = "off"
    /\ vinput' = <<>>
    /\ UNCHANGED <<pool, vstopped, work, egressIP, cleanups,
                   uiv, revv, scanv, parses, acts>>

-----------------------------------------------------------------------------
(* The egress deduplication at the end of a run *)

ByEgress(ip) == {e \in ToSet(valid) : egressIP[e] = ip}
Shared == {ip \in {egressIP[e] : e \in ToSet(valid)} \ {""} : Cardinality(ByEgress(ip)) > 1}

\* What the cleanup keeps: a fastest entry of each group, and by its address;
\* the latencies are anything.
KeepFastest ==
    {{e \in ToSet(valid) : /\ egressIP[e] # ""
                           /\ egressIP[e] \in Shared =>
                                 Addr(e) \in {Addr(fastest[ip]) : ip \in Shared}} :
        fastest \in {f \in [Shared -> ToSet(valid)] :
                        \A ip \in Shared : egressIP[f[ip]] = ip}}

\* wg.Wait(); the pool is read and, if there is something to remove, a dialog
\* is opened that keeps what was read.
Deduplicate ==
    /\ vpc = "wait"
    /\ Running = {}
    /\ IF Shared = {} /\ \A e \in ToSet(valid) : egressIP[e] # ""
       THEN UNCHANGED cleanups
       ELSE \E kept \in KeepFastest :
                cleanups' = cleanups \cup {Keep(valid, kept)}
    /\ vpc' = "off"
    /\ UNCHANGED <<pool, vinput, vstopped, work, egressIP, uiv, revv, scanv, parses, acts>>

\* "Remove Bad Proxies" in a cleanup dialog.
Cleanup(kept) ==
    /\ ui = "idle"
    /\ kept \in cleanups
    /\ valid' = kept
    /\ index' = 0
    /\ cleanups' = cleanups \ {kept}
    /\ UNCHANGED <<failed, admitted, excused, vpc, vinput, vstopped, work, egressIP,
                   uiv, revv, scanv,
                   parses, acts>>

\* "Keep All".
KeepAll(kept) ==
    /\ ui = "idle"
    /\ kept \in cleanups
    /\ cleanups' = cleanups \ {kept}
    /\ UNCHANGED <<pool, vpc, vinput, vstopped, work, egressIP, uiv, revv, scanv,
                   parses, acts>>

-----------------------------------------------------------------------------
(* The other buttons of the Proxies tab *)

\* "Add to Pool (skip validation)", confirmed: the addresses are read first.
AddDirect ==
    /\ ui = "idle"
    /\ Act
    /\ parses < MaxParses
    /\ \E text \in Texts[parses + 1] : hand' = Parsed(text)
    /\ parses' = parses + 1
    /\ existing' = {Addr(e) : e \in ToSet(valid)}
    /\ ui' = "adding"
    /\ UNCHANGED <<pool, valv, revv, scanv>>

AddByHand ==
    /\ ui = "adding"
    /\ hand # <<>>
    /\ IF Addr(Head(hand)) \in existing
       THEN UNCHANGED <<valid, admitted, excused>>
       ELSE valid' = Append(valid, Head(hand)) /\ Admit({Head(hand)})
    /\ hand' = Tail(hand)
    /\ UNCHANGED <<failed, index, ui, existing, valv, revv, scanv, parses, acts>>

AddDirectEnds ==
    /\ ui = "adding"
    /\ hand = <<>>
    /\ ui' = "idle"
    /\ existing' = {}
    /\ UNCHANGED <<pool, hand, valv, revv, scanv, parses, acts>>

ClearValid ==
    /\ ui = "idle"
    /\ Act
    /\ valid' = <<>>
    /\ excused' = excused \cup ToSet(valid)
    /\ index' = 0
    /\ UNCHANGED <<failed, admitted, valv, uiv, revv, scanv, parses>>

ClearFailed ==
    /\ ui = "idle"
    /\ Act
    /\ failed' = <<>>
    /\ UNCHANGED <<valid, index, admitted, excused, valv, uiv, revv, scanv, parses>>

\* "Retry Failed" reads the failed list into the input box,
RetryFailed ==
    /\ ui = "idle"
    /\ failed # <<>>
    /\ Act
    /\ parses < MaxParses
    /\ hand' = failed
    /\ ui' = "retrying"
    /\ UNCHANGED <<pool, existing, valv, revv, scanv, parses>>

\* clears it,
RetryClears ==
    /\ ui = "retrying"
    /\ failed' = <<>>
    /\ ui' = "tapping"
    /\ UNCHANGED <<valid, index, admitted, excused, hand, existing, valv, revv, scanv,
                   parses, acts>>

\* The text of the failed proxies, each proxy once.
FirstOnly(s) ==
    LET upTo[i \in 0 .. Len(s)] ==
            IF i = 0 THEN <<>>
            ELSE LET seen == upTo[i - 1]
                 IN  IF Contains(seen, s[i]) THEN seen ELSE Append(seen, s[i])
    IN  upTo[Len(s)]

\* and calls the handler of "Validate All".
RetryTaps ==
    /\ ui = "tapping"
    /\ TapValidate({FirstOnly([i \in 1 .. Len(hand) |-> hand[i][1]])})
    /\ ui' = "idle"
    /\ hand' = <<>>
    /\ UNCHANGED <<pool, existing, work, egressIP, cleanups, revv, scanv, acts>>

-----------------------------------------------------------------------------
(* Background revalidation *)

\* Save in the Settings tab, with revalidation on: a timer that runs is
\* stopped and a new one started.
StartAutoReval ==
    /\ ui = "idle"
    /\ \E g \in Timers :
          /\ Act
          /\ rpc[g] = "none" /\ \A h \in 1 .. (g - 1) : rpc[h] # "none"
          /\ rpc' = [rpc EXCEPT ![g] = "waiting"]
          /\ revalDone' = g
    /\ UNCHANGED <<pool, valv, uiv, unchecked, rkept, scanv, parses>>

StopAutoReval ==
    /\ ui = "idle"
    /\ revalDone # NoTimer
    /\ revalDone' = NoTimer
    /\ UNCHANGED <<pool, valv, uiv, rpc, unchecked, rkept, scanv,
                   parses, acts>>

\* The timer's goroutine finds its channel closed.
TimerEnds(g) ==
    /\ rpc[g] = "waiting"
    /\ revalDone # g
    /\ rpc' = [rpc EXCEPT ![g] = "ended"]
    /\ UNCHANGED <<pool, valv, uiv, revalDone, unchecked, rkept, scanv,
                   parses, acts>>

\* The timer fires: the pool is read.  (A closed channel and a tick at the same
\* time are chosen from at random.)
Tick(g) ==
    /\ rpc[g] = "waiting"
    /\ Act
    /\ unchecked' = [unchecked EXCEPT ![g] = ToSet(valid)]
    /\ rpc' = [rpc EXCEPT ![g] = IF valid = <<>> THEN "waiting" ELSE "checking"]
    /\ UNCHANGED <<pool, valv, uiv, revalDone, rkept, scanv, parses>>

\* One check ends, in any order; a proxy that works is kept.
Recheck(g, e) ==
    /\ rpc[g] = "checking"
    /\ e \in unchecked[g]
    /\ unchecked' = [unchecked EXCEPT ![g] = @ \ {e}]
    /\ \E ok \in Works[e[1]] :
          rkept' = [rkept EXCEPT ![g] = IF ok THEN Append(@, e) ELSE @]
    /\ UNCHANGED <<pool, valv, uiv, revalDone, rpc, scanv, parses, acts>>

\* wg.Wait(), then SetValid(kept).
Revalidated(g) ==
    /\ rpc[g] = "checking"
    /\ unchecked[g] = {}
    /\ valid' = rkept[g]
    /\ index' = 0
    /\ rpc' = [rpc EXCEPT ![g] = "waiting"]
    /\ rkept' = [rkept EXCEPT ![g] = <<>>]
    /\ UNCHANGED <<failed, admitted, excused, valv, uiv, revalDone, unchecked, scanv,
                   parses, acts>>

-----------------------------------------------------------------------------
(* The scan: GUI's Start Scan; cli/flat.go's loop is the same *)

StartScan ==
    /\ ui = "idle"
    /\ spc = "off"
    /\ valid # <<>>
    /\ Act
    /\ targets' = Queue
    /\ options' \in Options
    /\ sstopped' = FALSE
    /\ spc' = "target"
    /\ UNCHANGED <<pool, valv, uiv, revv, scanned, dead, survivors, parses>>

StopScan ==
    /\ ui = "idle"
    /\ spc # "off"
    /\ ~sstopped
    /\ sstopped' = TRUE
    /\ UNCHANGED <<pool, valv, uiv, revv, spc, targets, options, scanned, dead, survivors,
                   parses, acts>>

\* Stopped, or every target done.
EndScan ==
    /\ spc = "target"
    /\ sstopped \/ targets = 0
    /\ spc' = "off"
    /\ UNCHANGED <<pool, valv, uiv, revv, sstopped, targets, options, scanned, dead,
                   survivors,
                   parses, acts>>

\* pool.Next: the scan also ends when it returns nil.
NextTarget ==
    /\ spc = "target"
    /\ ~sstopped /\ targets > 0
    /\ targets' = targets - 1
    /\ index' = NextIndex(valid, index, options.wrap)
    /\ spc' = IF NextProxy(valid, index, options.wrap) = NoProxy THEN "off" ELSE "scan"
    /\ UNCHANGED <<valid, failed, admitted, excused, valv, uiv, revv, sstopped,
                   options, scanned, dead, survivors,
                   parses, acts>>

\* RunScan reads the pool, unless the scan was stopped.
ReadPool ==
    /\ spc = "scan"
    /\ scanned' = IF sstopped THEN <<>> ELSE valid
    /\ spc' = "dialing"
    /\ UNCHANGED <<pool, valv, uiv, revv, sstopped, targets, options, dead, survivors,
                   parses, acts>>

\* RunScan returns; OnProxyDead has collected the addresses found dead.
ScanReturns ==
    /\ spc = "dialing"
    /\ \E found \in SUBSET (Mortal \cap {Addr(e) : e \in ToSet(scanned)}) :
          /\ dead' = found
          /\ spc' = IF found = {} THEN "advance" ELSE "prune"
          /\ scanned' = IF found = {} THEN <<>> ELSE scanned
    /\ UNCHANGED <<pool, valv, uiv, revv, sstopped, targets, options, survivors,
                   parses, acts>>

\* The pool is read again and the entries at dead addresses left out,
ReadSurvivors ==
    /\ spc = "prune"
    /\ survivors' = Keep(valid, {e \in ToSet(valid) : Addr(e) \notin dead})
    /\ spc' = "write"
    /\ UNCHANGED <<pool, valv, uiv, revv, sstopped, targets, options, scanned, dead,
                   parses, acts>>

\* The survivors are those of the pool the scan began with.
Prune_Scanned ==
    /\ spc = "write"
    /\ valid' = Keep(scanned, {e \in ToSet(scanned) : Addr(e) \notin dead})
    /\ index' = 0
    /\ spc' = "advance"
    /\ scanned' = <<>> /\ dead' = {} /\ survivors' = <<>>
    /\ UNCHANGED <<failed, admitted, excused, valv, uiv, revv, sstopped, targets, options,
                   parses, acts>>

\* The survivors are added to the pool.
Prune_Append ==
    /\ spc = "write"
    /\ valid' = valid \o survivors
    /\ index' = 0
    /\ spc' = "advance"
    /\ scanned' = <<>> /\ dead' = {} /\ survivors' = <<>>
    /\ UNCHANGED <<failed, admitted, excused, valv, uiv, revv, sstopped, targets, options,
                   parses, acts>>

\* and the pool is replaced by the rest.
Prune ==
    /\ spc = "write"
    /\ valid' = survivors
    /\ index' = 0
    /\ spc' = "advance"
    /\ scanned' = <<>> /\ dead' = {} /\ survivors' = <<>>
    /\ UNCHANGED <<failed, admitted, excused, valv, uiv, revv, sstopped, targets, options,
                   parses, acts>>

\* pool.Advance, with rotation on.
Advance ==
    /\ spc = "advance"
    /\ index' = IF options.rotate THEN index + 1 ELSE index
    /\ spc' = "target"
    /\ UNCHANGED <<valid, failed, admitted, excused, valv, uiv, revv, sstopped,
                   targets, options, scanned, dead,
                   survivors, parses, acts>>

-----------------------------------------------------------------------------
Validation == NextInput \/ StartWorker \/ EndStopped \/ Deduplicate
Worker(e)  == Check(e) \/ AddValid(e) \/ AddFailed(e)
Handler    == AddByHand \/ AddDirectEnds \/ RetryClears \/ RetryTaps
Timer(g)   == TimerEnds(g) \/ Revalidated(g) \/ \E e \in Entries : Recheck(g, e)
Scan       == \/ EndScan \/ NextTarget \/ ReadPool \/ ScanReturns \/ ReadSurvivors
              \/ Prune \/ Advance
User       == \/ ValidateAll \/ AddDirect \/ ClearValid \/ ClearFailed \/ RetryFailed
              \/ StartAutoReval \/ StopAutoReval \/ StartScan \/ StopScan
              \/ \E kept \in cleanups : Cleanup(kept) \/ KeepAll(kept)

Next == \/ User \/ Handler \/ Validation \/ Scan
        \/ \E e \in Entries : Worker(e)
        \/ \E g \in Timers : Timer(g) \/ Tick(g)

\* Goroutines and handlers under way go on, and every check ends by its timeout.
\* Nothing makes the user press a button.
Fairness == /\ WF_vars(Validation) /\ WF_vars(Handler) /\ WF_vars(Scan)
            /\ \A e \in Entries : WF_vars(Worker(e))
            /\ \A g \in Timers : WF_vars(Timer(g))

Spec == Init /\ [][Next]_vars /\ Fairness
-----------------------------------------------------------------------------
(* Properties *)

TypeOK ==
    /\ valid \in Seq(Entries) /\ failed \in Seq(Entries) /\ index \in Nat
    /\ admitted \subseteq Entries /\ excused \subseteq admitted
    /\ parses \in 0 .. MaxParses /\ acts \in 0 .. MaxActs
    /\ vpc \in {"off", "loop", "acquire", "wait", "stopping"}
    /\ vinput \in Seq(Entries) /\ vstopped \in BOOLEAN
    /\ work \in [Entries -> {"none", "checking", "works", "broken", "added", "rejected"}]
    /\ cleanups \subseteq Seq(Entries)
    /\ ui \in {"idle", "adding", "retrying", "tapping"}
    /\ hand \in Seq(Entries) /\ existing \subseteq Addresses
    /\ revalDone \in Timers \cup {NoTimer}
    /\ rpc \in [Timers -> {"none", "waiting", "checking", "ended"}]
    /\ rkept \in [Timers -> Seq(Entries)]
    /\ unchecked \in [Timers -> SUBSET Entries]
    /\ spc \in {"off", "target", "scan", "dialing", "prune", "write", "advance"}
    /\ sstopped \in BOOLEAN /\ targets \in 0 .. Queue /\ options \in Options
    /\ scanned \in Seq(Entries) /\ survivors \in Seq(Entries)
    /\ dead \subseteq Mortal

\* However the writers overwrite each other, the pool holds no entry twice (one
\* proxy would vote twice in a quorum), none that failed its validation, and
\* none that was never added.
PoolIsSound ==
    /\ IsInjective(valid) /\ IsInjective(failed)
    /\ ToSet(valid) \subseteq admitted
    /\ \A e \in ToSet(valid) : work[e] \in {"none", "added"}
    /\ \A e \in ToSet(failed) : work[e] = "rejected"

\* When the button reads "Validate All" again no worker of the run is left that
\* could still change the lists, stopped or not.
QuietWhenOff == vpc = "off" => Running = {}

\* Proxies that always work, at an address no scan finds dead, whose egress is
\* known and shared with no other proxy.
Sure == {p \in Proxies : /\ Works[p] = {TRUE} /\ Address[p] \notin Mortal
                         /\ \A q \in Proxies \ {p} : Egress[p] \cap Egress[q] = {}
                         /\ "" \notin Egress[p]}

\* A working proxy only leaves the pool when the user clears it, or when it was
\* added while another writer was between reading and replacing the pool: a scan
\* as such, however long, loses nothing that is added while it runs.  (Entries of
\* one proxy from two parses are duplicates of each other.)
LossNeedsOverlap ==
    \A e \in admitted \ excused :
        e[1] \in Sure /\ (\A f \in admitted : f[1] = e[1] => f = e)
        /\ work[e] # "none" => e \in ToSet(valid)

\* Whatever runs comes to an end: validation, scan and handlers.
SettlesDown == []<>(vpc = "off" /\ ui = "idle" /\ spc = "off")

-----------------------------------------------------------------------------
(* What the comments say and the code does not keep *)

\* "prunes proxy-side-dead proxies once (race-free)" (app.go:1212): the pruning
\* takes out nothing but the proxies found dead.
PruneTakesOnlyDead ==
    [][spc = "write" /\ spc' = "advance" =>
          \A e \in ToSet(valid) : Addr(e) \notin dead => e \in ToSet(valid')]_vars

\* "kick off validation" (app.go:697): retrying the failed proxies starts a run.
RetryKicksOff ==
    [][ui = "tapping" /\ ui' = "idle" => vpc' # "off" /\ ~vstopped']_vars
=============================================================================
