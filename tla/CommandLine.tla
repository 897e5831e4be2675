----------------------------- MODULE CommandLine -----------------------------
(***************************************************************************)
(* The command line of rofk (cli/flat.go, cli/cli.go): the flat mode, which  *)
(* takes its targets one after the other through nmap behind a relay or the   *)
(* built-in scanner, and the commands "scan" and "validate".  One run of the  *)
(* program is one command; an interrupt may come at any time.                *)
(*                                                                         *)
(* What a rotating scan does inside is RotateScan; here it returns some       *)
(* findings and the addresses it found dead.                                *)
(***************************************************************************)
EXTENDS Relay, ConnectScan, ValidateList, FlatArgs, PortSpecs

CONSTANTS
    Commands,      \* the commands: "flat", "scan nmap", "scan builtin", "validate"
    ArgLists,      \* the arguments of the flat mode
    PoolFiles,     \* PoolFiles[f]: what the file f may hold: sequences of proxies
    Address,       \* Address[p]: host:port of a proxy
    Mortal,        \* the addresses that a scan may find dead
    NmapInstalled, \* FindNmap: a set of BOOLEANs
    MaxLines       \* bound: how many open ports nmap reports in all

ASSUME CommandAssumption ==
    /\ Commands \subseteq {"flat", "scan nmap", "scan builtin", "validate"}
    /\ NmapInstalled \subseteq BOOLEAN /\ MaxLines \in Nat
    /\ NoProxy \notin DOMAIN Kind
    /\ \A f \in DOMAIN PoolFiles : PoolFiles[f] \subseteq Seq(DOMAIN Kind)
    /\ "pool" \in DOMAIN PoolFiles
    /\ ArgLists \subseteq Seq(STRING)
    /\ \A line \in ArgLists : ParseFlatArgs(line).proxList \in DOMAIN PoolFiles \cup {""}

VARIABLES
    cmd, args, fa,           \* the command line, and what parseFlatArgs made of it
    cpc,                     \* where the main goroutine is
    interrupted,             \* ctx is cancelled
    nmapPath,                \* nmap_path in the configuration file
    valid, index, loaded,    \* the pool, and what the file held
    targets, px,             \* the targets to come; the proxy for this one
    attempt, running, found, \* nmap: its run, whether it runs, the lines it printed
    snapshot, dead,          \* the built-in scan: the pool it reads, what is found dead
    all, output,             \* the results of all targets; what the file holds
    used, lost, seen         \* history: the proxies of the targets so far, the addresses
                             \* found dead, and all that nmap or a scan reported

pvars == <<valid, index, loaded>>
nvars == <<attempt, running, found>>
bvars == <<snapshot, dead>>
mvars == <<targets, px, all, output, used, lost, seen>>
fvars == <<cmd, args, fa, cpc, interrupted, nmapPath, pvars, nvars, bvars, mvars>>
parts == <<xvars, rvars, svars, lvars>>
vars  == <<fvars, parts>>

Unwritten == <<0>>   \* the number of no target
IsFlat == cmd = "flat"
WithNmap == cmd = "scan nmap" \/ (IsFlat /\ fa.tool = "nmap")

Init ==
    /\ cmd \in Commands
    /\ args \in IF cmd = "flat" THEN ArgLists ELSE {<<>>}
    /\ fa = Defaults /\ cpc = "start" /\ interrupted = FALSE /\ nmapPath = ""
    /\ valid = <<>> /\ index = 0 /\ loaded = <<>>
    /\ targets = <<>> /\ px = NoProxy
    /\ attempt = 0 /\ running = FALSE /\ found = <<>>
    /\ snapshot = <<>> /\ dead = {}
    /\ all = <<>> /\ output = Unwritten /\ used = <<>> /\ lost = {} /\ seen = <<>>
    /\ ExchangeInit /\ (reader = "once") = (cmd = "validate")
    /\ RelayInit /\ ScanInit /\ ListInit

Goes(where) == cpc' = where

-----------------------------------------------------------------------------
(* The start of a command *)

\* The file is read into the pool; without a proxy the program ends.
LoadPool(name, where) ==
    \E file \in PoolFiles[name] :
        /\ valid' = file /\ loaded' = file
        /\ Goes(IF file = <<>> THEN "exited" ELSE where)

\* The flat mode: arguments that are missing, or nmap, end the program; a path
\* of nmap is saved.
StartFlat ==
    /\ cpc = "start" /\ IsFlat
    /\ LET parsed == ParseFlatArgs(args)
       IN  /\ fa' = [parsed EXCEPT !.nmapExtra = <<>>]
           /\ IF parsed.proxList = "" \/ parsed.targets = <<>>
              THEN Goes("exited") /\ UNCHANGED <<valid, loaded, targets, nmapPath>>
              ELSE /\ targets' = parsed.targets
                   /\ nmapPath' = IF parsed.nmapPath # "" THEN parsed.nmapPath ELSE nmapPath
                   /\ \E installed \in NmapInstalled :
                         IF parsed.tool = "nmap" /\ ~installed
                         THEN Goes("exited") /\ UNCHANGED <<valid, loaded>>
                         ELSE LoadPool(parsed.proxList, "loop")
    /\ args' = <<>>
    /\ UNCHANGED <<cmd, interrupted, index, px, nvars, bvars, all, output, used, lost, seen, parts>>

\* "scan": one target, with rotation and wrapping on.
StartScan ==
    /\ cpc = "start" /\ cmd \in {"scan nmap", "scan builtin"}
    /\ targets' = <<"target">>
    /\ LoadPool("pool", "loop")
    /\ UNCHANGED <<cmd, args, fa, interrupted, nmapPath, index, px, nvars, bvars,
                   all, output, used, lost, seen, parts>>

\* "validate": without a proxy in its input, or a file to write to, it ends.
StartValidate ==
    /\ cpc = "start" /\ cmd = "validate"
    /\ \/ Goes("exited") /\ UNCHANGED lpc
       \/ Goes("validating") /\ lpc' = "loop"
    /\ UNCHANGED <<cmd, args, fa, interrupted, nmapPath, pvars, nvars, bvars, mvars,
                   xvars, rvars, svars, taken, check, tries, egress, nvalid, nfailed,
                   lines, summary>>

\* The signal handler takes one interrupt and cancels the context.
Interrupt ==
    /\ cpc \notin {"start", "exited"} /\ cmd # "validate" /\ ~interrupted
    /\ interrupted' = TRUE
    /\ UNCHANGED <<cmd, args, fa, cpc, nmapPath, pvars, nvars, bvars, mvars, parts>>

-----------------------------------------------------------------------------
(* The loop over the targets *)

\* Interrupted, all targets done, or no proxy left: the loop ends.
NextTarget ==
    /\ cpc = "loop"
    /\ IF targets = <<>> \/ (interrupted /\ IsFlat)
       THEN Goes("summary") /\ UNCHANGED <<index, px, targets, used>>
       ELSE LET p == NextProxy(valid, index, fa.wrap)
            IN  /\ index' = NextIndex(valid, index, fa.wrap)
                /\ px' = p
                /\ IF p = NoProxy THEN Goes("summary") /\ UNCHANGED <<targets, used>>
                   ELSE /\ targets' = Tail(targets)
                        /\ used' = Append(used, p)
                        /\ Goes(IF WithNmap THEN "relay" ELSE "builtin")
    /\ UNCHANGED <<cmd, args, fa, interrupted, nmapPath, valid, loaded, nvars, bvars,
                   all, output, lost, seen, parts>>

\* The index is moved on before a target as well as after it.
Advance_Twice ==
    /\ cpc = "advance"
    /\ index' = IF fa.rotate THEN index + 2 ELSE index
    /\ Goes("loop")
    /\ UNCHANGED <<cmd, args, fa, interrupted, nmapPath, valid, loaded, nvars, bvars, mvars,
                   parts>>

Advance ==
    /\ cpc = "advance"
    /\ index' = IF fa.rotate THEN index + 1 ELSE index
    /\ Goes("loop")
    /\ UNCHANGED <<cmd, args, fa, interrupted, nmapPath, valid, loaded, nvars, bvars, mvars,
                   parts>>

\* The results of a target are kept.
Keeps(more) == all' = all \o more

-----------------------------------------------------------------------------
(* nmap behind a relay *)

StartRelay ==
    /\ cpc = "relay"
    /\ \/ RelayStarts(px) /\ Goes("exec") /\ attempt' = 1
       \/ UNCHANGED <<rvars, xvars, attempt>> /\ Goes("advance")   \* no listener
    /\ UNCHANGED <<cmd, args, fa, interrupted, nmapPath, pvars, running, found, bvars,
                   mvars, svars, lvars>>

\* exec.CommandContext: after the interrupt nothing is started.
ExecNmap ==
    /\ cpc = "exec"
    /\ \/ ~interrupted /\ running' = TRUE
       \/ UNCHANGED running
    /\ Goes("wait")
    /\ UNCHANGED <<cmd, args, fa, interrupted, nmapPath, pvars, attempt, found, bvars, mvars,
                   parts>>

\* nmap reports an open port.
NmapFinds ==
    /\ running /\ Len(seen) < MaxLines
    /\ found' = Append(found, Len(used)) /\ seen' = Append(seen, Len(used))
    /\ UNCHANGED <<cmd, args, fa, cpc, interrupted, nmapPath, pvars, attempt, running, bvars,
                   targets, px, all, output, used, lost, parts>>

\* The interrupt does not reach nmap.
NmapEnds_NotKilled ==
    /\ running /\ ~interrupted
    /\ running' = FALSE
    /\ peer' = [c \in RelayLinks |-> FALSE]
    /\ UNCHANGED <<cmd, args, fa, cpc, interrupted, nmapPath, pvars, attempt, found, bvars,
                   mvars, xvars, listening, owner, hpc, late, dvars, copying,
                   svars, lvars>>

\* It ends by itself, or is killed at the interrupt; its connections are closed.
NmapEnds ==
    /\ running
    /\ running' = FALSE
    /\ peer' = [c \in RelayLinks |-> FALSE]
    /\ UNCHANGED <<cmd, args, fa, cpc, interrupted, nmapPath, pvars, attempt, found, bvars,
                   mvars, xvars, listening, owner, hpc, late, dvars, copying,
                   svars, lvars>>

\* Retried until something is found.
NmapDone_Again ==
    /\ cpc = "wait" /\ ~running
    /\ IF found = <<>>
       THEN /\ attempt' = attempt + 1 /\ Goes("exec")
            /\ UNCHANGED <<found, all, rvars, xvars>>
       ELSE /\ attempt' = 0 /\ found' = <<>>
            /\ Keeps(found)
            /\ RelayStops /\ Goes("advance")
    /\ UNCHANGED <<cmd, args, fa, interrupted, nmapPath, pvars, running, bvars,
                   targets, px, output, used, lost, seen, svars, lvars>>

\* One retry when nothing was found, interrupted or not; then the relay is
\* stopped.
NmapDone ==
    /\ cpc = "wait" /\ ~running
    /\ IF found = <<>> /\ attempt = 1
       THEN /\ attempt' = 2 /\ Goes("exec")
            /\ UNCHANGED <<found, all, rvars, xvars>>
       ELSE /\ attempt' = 0 /\ found' = <<>>
            /\ Keeps(found)
            /\ RelayStops /\ Goes("advance")
    /\ UNCHANGED <<cmd, args, fa, interrupted, nmapPath, pvars, running, bvars,
                   targets, px, output, used, lost, seen, svars, lvars>>

-----------------------------------------------------------------------------
(* The built-in scans *)

\* RunScan reads the pool, unless it is interrupted; "scan" starts its Scan.
StartBuiltin ==
    /\ cpc = "builtin"
    /\ IF IsFlat
       THEN /\ snapshot' = IF interrupted THEN <<>> ELSE valid
            /\ Goes("scanning")
            /\ UNCHANGED svars
       ELSE ScanStarts /\ Goes("printing") /\ UNCHANGED snapshot
    /\ UNCHANGED <<cmd, args, fa, interrupted, nmapPath, pvars, nvars, dead, mvars,
                   xvars, rvars, lvars>>

\* It returns: findings, and the addresses that OnProxyDead collected.
BuiltinReturns ==
    /\ cpc = "scanning"
    /\ \E gone2 \in SUBSET (Mortal \cap {Address[p] : p \in ToSet(snapshot)}) :
          /\ dead' = gone2
          /\ Goes(IF gone2 = {} THEN "advance" ELSE "prune")
    /\ \/ snapshot # <<>> /\ Keeps(<<Len(used)>>) /\ seen' = Append(seen, Len(used))
       \/ UNCHANGED <<all, seen>>
    /\ snapshot' = <<>>
    /\ UNCHANGED <<cmd, args, fa, interrupted, nmapPath, pvars, nvars, targets, px, output,
                   used, lost, parts>>

\* The pool is not written back.
Prune_Nothing ==
    /\ cpc = "prune"
    /\ index' = 0
    /\ lost' = lost \cup dead /\ dead' = {}
    /\ Goes("advance")
    /\ UNCHANGED <<cmd, args, fa, interrupted, nmapPath, valid, loaded, nvars, snapshot,
                   targets, px, all, output, used, seen, parts>>

\* The rotation is not started again over the shorter pool.
Prune_KeepsIndex ==
    /\ cpc = "prune"
    /\ valid' = Keep(valid, {p \in ToSet(valid) : Address[p] \notin dead})
    /\ lost' = lost \cup dead /\ dead' = {}
    /\ Goes("advance")
    /\ UNCHANGED <<cmd, args, fa, interrupted, nmapPath, index, loaded, nvars, snapshot,
                   targets, px, all, output, used, seen, parts>>

\* The proxies at those addresses leave the pool; SetValid starts the rotation
\* again.
Prune ==
    /\ cpc = "prune"
    /\ valid' = Keep(valid, {p \in ToSet(valid) : Address[p] \notin dead})
    /\ index' = 0
    /\ lost' = lost \cup dead /\ dead' = {}
    /\ Goes("advance")
    /\ UNCHANGED <<cmd, args, fa, interrupted, nmapPath, loaded, nvars, snapshot,
                   targets, px, all, output, used, seen, parts>>

\* The connect scan of "scan" has closed its channel and all is printed.
ConnectScanEnds ==
    /\ cpc = "printing" /\ PrintEnds
    /\ Goes("advance")
    /\ UNCHANGED <<cmd, args, fa, interrupted, nmapPath, pvars, nvars, bvars, mvars, parts>>

-----------------------------------------------------------------------------
(* The end *)

\* An interrupted run does not write its file.
Summary_WhenWhole ==
    /\ cpc = "summary"
    /\ output' = IF IsFlat /\ fa.outFile # "" /\ ~interrupted THEN all ELSE output
    /\ Goes("exited")
    /\ UNCHANGED <<cmd, args, fa, interrupted, nmapPath, pvars, nvars, bvars,
                   targets, px, all, used, lost, seen, parts>>

\* The output file of the flat mode; it may fail to be created.
Summary ==
    /\ cpc = "summary"
    /\ \/ output' = IF IsFlat /\ fa.outFile # "" THEN all ELSE output
       \/ fa.outFile = "no such directory" /\ UNCHANGED output
    /\ Goes("exited")
    /\ UNCHANGED <<cmd, args, fa, interrupted, nmapPath, pvars, nvars, bvars,
                   targets, px, all, used, lost, seen, parts>>

ValidateEnds ==
    /\ cpc = "validating" /\ lpc = "done"
    /\ Goes("exited")
    /\ UNCHANGED <<cmd, args, fa, interrupted, nmapPath, pvars, nvars, bvars, mvars, parts>>

-----------------------------------------------------------------------------
Alive == cpc # "exited"

RelayOf(c)  == Alive /\ Handler(c) /\ UNCHANGED <<fvars, svars, lvars>>
Outside(c)  == Alive /\ Elsewhere(c) /\ UNCHANGED <<fvars, svars, lvars>>
Connects(c) == running /\ NmapConnects(c) /\ UNCHANGED <<fvars, svars, lvars>>
ScanGoes    == cpc = "printing" /\ ScanStep(interrupted) /\ UNCHANGED <<fvars, xvars, rvars, lvars>>
ListGoes    == cpc = "validating" /\ ListStep /\ UNCHANGED <<fvars, rvars, svars>>
ProxyGoes(i) == cpc = "validating" /\ ProxyActs(i) /\ UNCHANGED <<fvars, rvars, svars>>

Main == \/ StartFlat \/ StartScan \/ StartValidate
        \/ NextTarget \/ Advance \/ StartRelay \/ ExecNmap \/ NmapDone
        \/ StartBuiltin \/ BuiltinReturns \/ Prune \/ ConnectScanEnds
        \/ Summary \/ ValidateEnds

Next == \/ Main \/ Interrupt \/ NmapFinds \/ NmapEnds \/ ScanGoes \/ ListGoes
        \/ \E c \in RelayLinks : RelayOf(c) \/ Outside(c) \/ Connects(c)
        \/ \E i \in Numbers : ProxyGoes(i)

\* The program's own goroutines go on, and every dial, read and handshake ends by
\* its timeout; an interrupted nmap is killed.  Nothing makes nmap end by itself,
\* a proxy answer, or the user interrupt.
Fairness == /\ WF_vars(Main) /\ WF_vars(NmapEnds /\ interrupted)
            /\ WF_vars(ScanGoes) /\ WF_vars(ListGoes)
            /\ \A c \in RelayLinks : WF_vars(RelayOf(c))

Spec == Init /\ [][Next]_vars /\ Fairness
-----------------------------------------------------------------------------
(* Properties *)

TypeOK ==
    /\ cpc \in {"start", "loop", "relay", "exec", "wait", "builtin", "scanning", "prune",
               "printing", "validating", "advance", "summary", "exited"}
    /\ valid \in Seq(DOMAIN Kind) /\ index \in Nat /\ px \in DOMAIN Kind \cup {NoProxy}
    /\ attempt \in 0 .. 2 /\ running \in BOOLEAN /\ interrupted \in BOOLEAN
    /\ listening \in DOMAIN Kind \cup {NoProxy}
    /\ \A l \in Links : /\ stream[l] \in Seq(Nat) /\ left[l] \in 0 .. 3
                        /\ why[l] \in ErrorKinds \cup {NoError, "unknown address type"}
    /\ \A c \in RelayLinks : /\ said[c] \in 0 .. MaxData /\ inbox[c] \in 0 .. MaxData
                             /\ copying[c] \subseteq Copiers
                             /\ writing[c] \in BOOLEAN /\ refused[c] \in BOOLEAN
    /\ counted \in 0 .. Cardinality(Jobs) /\ nvalid + nfailed <= Len(List)

\* What the program does with its arguments: each word is taken for what its place
\* makes it, by rofk's list of the flags that have a value (flat.go:44-160).
ArgsAreKept == cpc = "start" /\ IsFlat => ParseKeepsWords(args)

\* What it does with its ports: a list that is compressed parses to the same
\* ports (scanner.go:199-226 against 47-76), and a merge names the ports of both
\* specifications, as far as ParsePorts reads them: of one it refuses, the retry
\* with the common ports keeps nothing (scanner.go:229-248, cli.go:306).
SpecsRoundTrip ==
    cpc = "start" /\ cmd = "scan nmap" =>
        /\ \A ports \in PortLists : RoundTrip(ports)
        /\ \A a, b \in Specs : MergeKeeps(a, b)

\* And with a network for a target (scanner.go:81-102).
TargetsExpand ==
    cpc = "start" /\ cmd = "scan nmap" => \A ones \in 1 .. Bits : TargetsAreDisjoint(ones)

\* With rotation, target number i of an nmap scan goes through proxy number i of
\* the file, counted round and round; without -wrap the loop ends after the last
\* (flat.go:223-250, pool.go Next and Advance).
RoundRobin ==
    WithNmap /\ loaded # <<>> =>
        /\ fa.rotate => \A i \in 1 .. Len(used) :
                            used[i] = loaded[((i - 1) % Len(loaded)) + 1]
        /\ ~fa.rotate => \A i \in 1 .. Len(used) : used[i] = loaded[1]
        /\ fa.rotate /\ ~fa.wrap => Len(used) <= Len(loaded)

\* Every target gets its turn, unless the program is interrupted or the pool is
\* used up: all are dead or, without -wrap, each proxy of the pool has been a
\* target's.  A pruning moves the rotation: SetValid starts it again and Advance
\* moves it past the first proxy that is left, so this one, and no other, may have
\* had no target (flat.go:223-250, 452-462; pool.go SetValid and Advance).  This
\* is less than what the manual page promises (EachConsumesNext in MCCommandClaims).
AllTargetsTaken ==
    cpc = "summary" /\ ~interrupted =>
        \/ targets = <<>> \/ valid = <<>>
        \/ /\ ~fa.wrap /\ fa.rotate
           /\ \A i \in 1 .. Len(valid) :
                  valid[i] \in ToSet(used) \/ (i = 1 /\ lost # {})

\* A proxy that a built-in scan found dead serves no later target of the run: its
\* address is out of the pool, whatever the index does (flat.go:452-462).
DeadStayOut ==
    \A p \in ToSet(snapshot) \cup (IF cpc = "loop" THEN ToSet(valid) ELSE {}) :
        Address[p] \notin lost

\* The output file holds all that was reported for any target, interrupted or not
\* (flat.go:252-264).
ReportIsWhole ==
    cpc = "exited" /\ IsFlat /\ loaded # <<>> /\ fa.outFile \notin {"", "no such directory"}
        => output = seen

\* ScanIsWhole of the connect scan, with the interrupt that stops it.
ConnectScanIsWhole == ScanIsWhole(interrupted)

\* The first interrupt ends the program, however nmap and the proxies behave.
InterruptEnds == interrupted ~> cpc = "exited"

\* As long as the program runs, every handler of a relay gets past the handshake,
\* and once nmap has closed its end the handler and both copiers end: nothing is
\* left behind for the next targets (relay.go:67-128).  A splice has no deadline, so
\* the second half needs a proxy that never leaves a write waiting for ever: else
\* the copier that writes does not see nmap close, and the other waits for the
\* target (relay.go:120-127).
HandlersEnd ==
    \A c \in RelayLinks :
        /\ hpc[c] \notin {Idle, "splice", "closed", "done"}
               ~> hpc[c] \in {"splice", "closed", "done"} \/ ~Alive
        /\ ([]<>~writing[c]) =>
               (hpc[c] # Idle /\ ~peer[c]
                    ~> (hpc[c] \in {"closed", "done"} /\ copying[c] = {}) \/ ~Alive)
=============================================================================
