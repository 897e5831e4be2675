------------------------- MODULE PoolWritersProofs -------------------------
(***************************************************************************)
(* What holds of the GUI's pool writers for any proxies, any texts, any     *)
(* number of checks, timers and targets, and any order of the threads.      *)
(*                                                                         *)
(* The lists are sound because every list a writer holds is: the argument   *)
(* is one invariant over the pool and over every copy of it that is under   *)
(* way, in a dialog, a timer or a scan.                                      *)
(***************************************************************************)
EXTENDS PoolWriters, ProxyPoolProofs, FiniteSetTheorems

-----------------------------------------------------------------------------
(* The invariant *)

\* A proxy is waiting when a worker is about to be started.
Acquiring == vpc = "acquire" => vinput # <<>>

\* An entry nobody has touched: it has had no worker and is in no pool.
Fresh(e) == work[e] = "none" /\ e \notin admitted

\* The entries that wait for a worker, and the ones that are being added by hand,
\* are fresh, of a past parse, and no entry waits twice.
WaitingAreFresh ==
    /\ \A e \in Entries : e[2] > parses => Fresh(e)
    /\ IsInjective(vinput)
    /\ \A e \in ToSet(vinput) : Fresh(e) /\ e[2] <= parses
    /\ ui = "adding" =>
          /\ IsInjective(hand) /\ ToSet(hand) \cap ToSet(vinput) = {}
          /\ \A e \in ToSet(hand) : Fresh(e) /\ e[2] <= parses

\* A worker's verdict and the lists agree.
ListsFollowWork ==
    /\ \A e \in admitted : work[e] \in {"none", "added"}
    /\ IsInjective(failed)
    /\ \A e \in ToSet(failed) : work[e] = "rejected"

\* A list that may become the pool.
Sound(s) == IsInjective(s) /\ ToSet(s) \subseteq admitted

\* The pool is sound, and so is every list that a writer may replace it with.
CopiesAreSound ==
    /\ Sound(valid) /\ Sound(survivors)
    /\ \A kept \in cleanups : Sound(kept)
    /\ \A g \in Timers :
          /\ Sound(rkept[g]) /\ unchecked[g] \subseteq admitted
          /\ unchecked[g] \cap ToSet(rkept[g]) = {}
          /\ rpc[g] # "checking" => rkept[g] = <<>>

\* An egress IP is known of the entries that a worker found working.
EgressFollowsWork ==
    /\ egressIP = [e \in Entries |-> egressIP[e]]
    /\ \A e \in Entries : IF work[e] \in {"works", "added"} THEN egressIP[e] \in Egress[e[1]]
                          ELSE egressIP[e] = ""

\* An entry LossNeedsOverlap is about.
Held(e) == /\ e \in admitted \ excused /\ e[1] \in Sure
           /\ \A f \in admitted : f[1] = e[1] => f = e
           /\ work[e] # "none"

\* An entry in the pool and in every list the pool may be replaced with.
Everywhere(e) ==
    /\ e \in ToSet(valid)
    /\ \A kept \in cleanups : e \in ToSet(kept)
    /\ spc = "write" => e \in ToSet(survivors)
    /\ \A g \in Timers : rpc[g] = "checking" => e \in unchecked[g] \cup ToSet(rkept[g])

HeldAreKept == \A e \in Entries : Held(e) => Everywhere(e)

Inv == /\ TypeOK /\ Acquiring /\ QuietWhenOff /\ WaitingAreFresh /\ ListsFollowWork
       /\ CopiesAreSound /\ EgressFollowsWork /\ HeldAreKept

-----------------------------------------------------------------------------
(* The operators *)

\* f[i] is what is left of the first i members.
IsFirsts(f, s) ==
    /\ f[0] = <<>>
    /\ \A i \in 1 .. Len(s) :
          f[i] = IF Contains(f[i - 1], s[i]) THEN f[i - 1] ELSE Append(f[i - 1], s[i])

\* The function in the definition of FirstOnly is the one it describes.
LEMMA FirstOnlyUnfolds ==
    ASSUME NEW S, NEW s \in Seq(S)
    PROVE  \E f \in [0 .. Len(s) -> Seq(S)] : IsFirsts(f, s) /\ FirstOnly(s) = f[Len(s)]
<1> DEFINE on(before, i) == IF Contains(before, s[i]) THEN before ELSE Append(before, s[i])
           Def(g) == [i \in 0 .. Len(s) |-> IF i = 0 THEN <<>> ELSE on(g[i - 1], i)]
           upTo == CHOOSE g : g = Def(g)
           step == [p \in Seq(S) \X (1 .. Len(s)) |-> on(p[1], p[2])]
<1>1. Len(s) \in Nat /\ \A i \in 1 .. Len(s) : s[i] \in S
  OBVIOUS
<1>2. step \in [Seq(S) \X (1 .. Len(s)) -> Seq(S)]
  <2>1. \A q \in Seq(S) : \A i \in 1 .. Len(s) : on(q, i) \in Seq(S)
    BY <1>1
  <2> HIDE DEF on
  <2> QED
    BY <2>1
<1>3. <<>> \in Seq(S)
  OBVIOUS
<1> HIDE DEF on
<1>4. PICK f \in [0 .. Len(s) -> Seq(S)] :
              f[0] = <<>> /\ \A i \in 1 .. Len(s) : f[i] = step[<<f[i - 1], i>>]
  <2> DEFINE A == Seq(S) start == <<>> n == Len(s)
  <2>1. start \in A /\ n \in Nat /\ step \in [A \X (1 .. n) -> A]
    BY <1>1, <1>2, <1>3
  <2> HIDE DEF A, start, n, step
  <2>2. \E f \in [0 .. n -> A] : IsCourse(f, start, n, step)
    BY <2>1, Course
  <2> QED
    BY <2>2 DEF A, start, n, IsCourse
<1>5. ASSUME NEW i \in 1 .. Len(s)
      PROVE  f[i] = on(f[i - 1], i)
  <2>1. f[i - 1] \in Seq(S)
    BY <1>1
  <2>2. step[<<f[i - 1], i>>] = on(f[i - 1], i)
    BY <2>1
  <2> QED
    BY <1>4, <2>2
<1>6. f = Def(f)
  <2>1. ASSUME NEW i \in 0 .. Len(s)
        PROVE  f[i] = Def(f)[i]
    <3>1. CASE i = 0
      BY <3>1, <1>4
    <3>2. CASE i # 0
      <4>1. i \in 1 .. Len(s)
        BY <3>2, <1>1
      <4> QED
        BY <4>1, <3>2, <1>5
    <3> QED
      BY <3>1, <3>2
  <2> QED
    BY <2>1
<1>7. upTo = Def(upTo)
  BY <1>6
<1>8. FirstOnly(s) = upTo[Len(s)]
  BY DEF FirstOnly, on
<1> HIDE DEF upTo
<1>9. upTo[0] = <<>> /\ \A i \in 1 .. Len(s) : upTo[i] = on(upTo[i - 1], i)
  BY SMTT(30), <1>1, <1>7
<1> DEFINE Good == {i \in 0 .. Len(s) : upTo[i] = f[i]}
<1>10. 0 \in Good
  BY <1>1, <1>4, <1>9
<1>11. ASSUME NEW i \in 1 .. Len(s), i - 1 \in Good
       PROVE  i \in Good
  BY <1>1, <1>5, <1>9, <1>11
<1> HIDE DEF Good
<1>12. 0 .. Len(s) \subseteq Good
  BY <1>1, <1>10, <1>11, UpTo
<1>13. upTo[Len(s)] = f[Len(s)]
  BY <1>1, <1>12 DEF Good
<1> QED
  BY <1>4, <1>5, <1>8, <1>13 DEF IsFirsts, on

\* The text of the failed proxies names each of them once.
LEMMA FirstOnlyOnce ==
    ASSUME NEW S, NEW s \in Seq(S)
    PROVE  FirstOnly(s) \in Seq(S) /\ IsInjective(FirstOnly(s))
<1>1. PICK f \in [0 .. Len(s) -> Seq(S)] : IsFirsts(f, s) /\ FirstOnly(s) = f[Len(s)]
  BY FirstOnlyUnfolds
<1>2. Len(s) \in Nat /\ \A i \in 1 .. Len(s) : s[i] \in S
  OBVIOUS
<1> DEFINE Good == {i \in 0 .. Len(s) : IsInjective(f[i])}
<1>3. 0 \in Good
  BY <1>1, <1>2 DEF IsFirsts, IsInjective
<1>4. ASSUME NEW i \in 1 .. Len(s), i - 1 \in Good
      PROVE  i \in Good
  <2>1. f[i - 1] \in Seq(S) /\ s[i] \in S
    BY <1>2
  <2>2. CASE Contains(f[i - 1], s[i])
    BY <1>1, <1>4, <2>2 DEF IsFirsts
  <2>3. CASE ~Contains(f[i - 1], s[i])
    <3>1. f[i] = Append(f[i - 1], s[i])
      BY <1>1, <2>3 DEF IsFirsts
    <3>2. s[i] \notin ToSet(f[i - 1])
      <4> DEFINE q == f[i - 1]
      <4>1. DOMAIN q = 1 .. Len(q)
        BY <2>1
      <4> HIDE DEF q
      <4>2. ~Contains(q, s[i]) => s[i] \notin ToSet(q)
        BY <4>1 DEF Contains, ToSet
      <4> QED
        BY <2>3, <4>2 DEF q
    <3> QED
      BY <1>4, <2>1, <3>1, <3>2, AppendAdds
  <2> QED
    BY <2>2, <2>3
<1> HIDE DEF Good
<1>5. Len(s) \in Good
  <2>1. 0 .. Len(s) \subseteq Good
    BY <1>2, <1>3, <1>4, UpTo
  <2> QED
    BY <1>2, <2>1
<1> QED
  BY <1>1, <1>2, <1>5 DEF Good

\* What a handler may find in the input box.
Inputs == {t \in Seq(Proxies) : IsInjective(t)}

\* A parse makes new entries, one for each line of its text.
LEMMA ParsedIsNew ==
    ASSUME parses \in Nat, parses < MaxParses, NEW text \in Inputs
    PROVE  /\ Parsed(text) \in Seq(Entries) /\ IsInjective(Parsed(text))
           /\ \A e \in ToSet(Parsed(text)) : e \in Entries /\ e[2] = parses + 1
<1>1. text \in Seq(Proxies) /\ IsInjective(text)
  BY DEF Inputs
<1>2. parses + 1 \in Parses
  BY BoundsAssumption DEF Parses
<1>3. /\ Len(text) \in Nat /\ DOMAIN text = 1 .. Len(text)
      /\ \A i \in 1 .. Len(text) : text[i] \in Proxies
  BY <1>1
<1> DEFINE s == Parsed(text)
<1>4. /\ s = [i \in 1 .. Len(text) |-> s[i]]
      /\ \A i \in 1 .. Len(text) : s[i] = <<text[i], parses + 1>> /\ s[i] \in Entries
  BY <1>2, <1>3 DEF Parsed, Entries
<1>5. DOMAIN s = 1 .. Len(text)
  BY DEF Parsed
<1> HIDE DEF s
<1>6. s \in Seq(Entries)
  BY <1>3, <1>4, <1>5
<1>7. IsInjective(s)
  BY <1>1, <1>3, <1>4, <1>5 DEF IsInjective
<1>8. \A e \in ToSet(s) : e \in Entries /\ e[2] = parses + 1
  BY <1>4, <1>5 DEF ToSet
<1> QED
  BY <1>6, <1>7, <1>8 DEF s

\* The texts of the constants are inputs, and so is that of the failed proxies.
LEMMA TextsAreInputs ==
    ASSUME parses \in Nat, parses < MaxParses
    PROVE  Texts[parses + 1] \subseteq Inputs
  BY ProxyAssumption, BoundsAssumption DEF Inputs, Parses

LEMMA RetryTextIsInput ==
    ASSUME NEW s \in Seq(Entries)
    PROVE  FirstOnly([i \in 1 .. Len(s) |-> s[i][1]]) \in Inputs
<1>1. [i \in 1 .. Len(s) |-> s[i][1]] \in Seq(Proxies)
  <2>1. Len(s) \in Nat /\ \A i \in 1 .. Len(s) : s[i][1] \in Proxies
    BY DEF Entries
  <2> QED
    BY <2>1
<1> QED
  BY <1>1, FirstOnlyOnce DEF Inputs

\* The handler of "Validate All", pressed or called by "Retry Failed", stops the
\* run or starts one over new entries.
Stops  == vpc # "off" /\ vstopped' = TRUE /\ UNCHANGED <<vpc, vinput, parses>>
Starts == /\ vpc = "off" /\ vpc' = "loop" /\ vstopped' = FALSE
          /\ parses < MaxParses /\ parses' = parses + 1
          /\ vinput' \in Seq(Entries) /\ IsInjective(vinput')
          /\ \A e \in ToSet(vinput') : e \in Entries /\ e[2] = parses'

LEMMA TapStopsOrStarts ==
    ASSUME TypeOK, ValidateAll \/ RetryTaps
    PROVE  Stops \/ Starts
<1>1. parses \in Nat /\ hand \in Seq(Entries)
  BY DEF TypeOK
<1>2. PICK texts : TapValidate(texts) /\ (parses < MaxParses => texts \subseteq Inputs)
  <2>1. CASE ValidateAll
    <3>1. TapValidate(IF parses < MaxParses THEN Texts[parses + 1] ELSE {})
      BY <2>1 DEF ValidateAll
    <3> QED
      BY <1>1, <3>1, TextsAreInputs
  <2>2. CASE RetryTaps
    <3>1. TapValidate({FirstOnly([i \in 1 .. Len(hand) |-> hand[i][1]])})
      BY <2>2 DEF RetryTaps
    <3> QED
      BY <1>1, <3>1, RetryTextIsInput
  <2> QED
    BY <2>1, <2>2
<1>3. CASE vpc # "off"
  BY <1>2, <1>3 DEF TapValidate, Stops
<1>4. CASE vpc = "off"
  <2>1. /\ parses < MaxParses /\ parses' = parses + 1
        /\ vstopped' = FALSE /\ vpc' = "loop"
        /\ \E text \in texts : vinput' = Parsed(text)
    BY <1>2, <1>4 DEF TapValidate
  <2>2. PICK text \in Inputs : vinput' = Parsed(text)
    BY <1>2, <2>1
  <2> QED
    BY <1>1, <1>4, <2>1, <2>2, ParsedIsNew DEF Starts
<1> QED
  BY <1>3, <1>4

\* The deduplication opens at most one dialog, that keeps some of the pool.
LEMMA DeduplicateKeeps ==
    ASSUME Deduplicate
    PROVE  \/ UNCHANGED cleanups
           \/ \E kept \in KeepFastest : cleanups' = cleanups \cup {Keep(valid, kept)}
  BY DEF Deduplicate

-----------------------------------------------------------------------------
(* The run over the input: its workers are done when it is off *)

LEMMA AcquiringStep ==
    ASSUME TypeOK, Acquiring, [Next]_vars
    PROVE  Acquiring'
<1>1. CASE ValidateAll
  BY <1>1, TapStopsOrStarts DEF Acquiring, Stops, Starts
<1>2. CASE RetryTaps
  BY <1>2, TapStopsOrStarts DEF Acquiring, Stops, Starts
<1>3. CASE Validation
  BY <1>3 DEF Acquiring, Validation, NextInput, StartWorker, EndStopped, Deduplicate
<1>4. CASE ~(ValidateAll \/ RetryTaps \/ Validation)
  <2>1. UNCHANGED <<vpc, vinput>>
    BY <1>4 DEF Next, vars, User, Handler, Worker, Timer, Scan, valv, AddDirect,
       ClearValid, ClearFailed, RetryFailed, StartAutoReval, StopAutoReval, StartScan,
       StopScan, Cleanup, KeepAll, AddByHand, AddDirectEnds, RetryClears, EndScan,
       NextTarget, ReadPool, ScanReturns, ReadSurvivors, Prune, Advance, Check,
       AddValid, AddFailed, TimerEnds, Tick, Recheck, Revalidated
  <2> QED
    BY <2>1 DEF Acquiring
<1> QED
  BY <1>1, <1>2, <1>3, <1>4

LEMMA QuietStep ==
    ASSUME TypeOK, QuietWhenOff, [Next]_vars
    PROVE  QuietWhenOff'
<1>1. CASE ValidateAll \/ RetryTaps
  <2>1. vpc' # "off"
    BY <1>1, TapStopsOrStarts DEF Stops, Starts
  <2> QED
    BY <2>1 DEF QuietWhenOff
<1>2. CASE NextInput \/ StartWorker
  BY <1>2 DEF QuietWhenOff, NextInput, StartWorker
<1>3. CASE EndStopped \/ Deduplicate
  BY <1>3 DEF QuietWhenOff, EndStopped, Deduplicate, Running
<1>4. ASSUME NEW e \in Entries, Worker(e)
      PROVE  QuietWhenOff'
  <2>1. e \in Running /\ UNCHANGED vpc
    BY <1>4 DEF Worker, Check, AddValid, AddFailed, Running
  <2> QED
    BY <2>1 DEF QuietWhenOff
<1>5. CASE ~(ValidateAll \/ RetryTaps \/ Validation \/ \E e \in Entries : Worker(e))
  <2>1. UNCHANGED <<vpc, work>>
    BY <1>5 DEF Next, vars, User, Handler, Timer, Scan, valv, AddDirect,
       ClearValid, ClearFailed, RetryFailed, StartAutoReval, StopAutoReval, StartScan,
       StopScan, Cleanup, KeepAll, AddByHand, AddDirectEnds, RetryClears, EndScan,
       NextTarget, ReadPool, ScanReturns, ReadSurvivors, Prune, Advance,
       TimerEnds, Tick, Recheck, Revalidated
  <2> QED
    BY <2>1 DEF QuietWhenOff, Running
<1> QED
  BY <1>1, <1>2, <1>3, <1>4, <1>5 DEF Validation

-----------------------------------------------------------------------------
(* Types *)

PoolTypes ==
    /\ valid \in Seq(Entries) /\ failed \in Seq(Entries) /\ index \in Nat
    /\ admitted \subseteq Entries /\ excused \subseteq admitted
RunTypes ==
    /\ vpc \in {"off", "loop", "acquire", "wait", "stopping"}
    /\ vinput \in Seq(Entries) /\ vstopped \in BOOLEAN
    /\ work \in [Entries -> {"none", "checking", "works", "broken", "added", "rejected"}]
    /\ cleanups \subseteq Seq(Entries)
HandlerTypes ==
    /\ ui \in {"idle", "adding", "retrying", "tapping"}
    /\ hand \in Seq(Entries) /\ existing \subseteq Addresses
TimerTypes ==
    /\ revalDone \in Timers \cup {NoTimer}
    /\ rpc \in [Timers -> {"none", "waiting", "checking", "ended"}]
    /\ rkept \in [Timers -> Seq(Entries)]
    /\ unchecked \in [Timers -> SUBSET Entries]
ScanTypes ==
    /\ spc \in {"off", "target", "scan", "dialing", "prune", "write", "advance"}
    /\ sstopped \in BOOLEAN /\ targets \in 0 .. Queue /\ options \in Options
    /\ scanned \in Seq(Entries) /\ survivors \in Seq(Entries)
    /\ dead \subseteq Mortal
Counted == parses \in 0 .. MaxParses /\ acts \in 0 .. MaxActs

LEMMA TypeParts ==
    /\ TypeOK <=> /\ PoolTypes /\ RunTypes /\ HandlerTypes /\ TimerTypes /\ ScanTypes
                  /\ Counted
    /\ TypeOK' <=> /\ PoolTypes' /\ RunTypes' /\ HandlerTypes' /\ TimerTypes' /\ ScanTypes'
                   /\ Counted'
BY DEF TypeOK, PoolTypes, RunTypes, HandlerTypes, TimerTypes, ScanTypes, Counted

\* What an action leaves alone keeps its types.
LEMMA PartsAreKept ==
    ASSUME TypeOK
    PROVE  /\ UNCHANGED <<valid, failed, index, admitted, excused>> => PoolTypes'
           /\ UNCHANGED <<vpc, vinput, vstopped, work, cleanups>> => RunTypes'
           /\ UNCHANGED <<ui, hand, existing>> => HandlerTypes'
           /\ UNCHANGED <<revalDone, rpc, unchecked, rkept>> => TimerTypes'
           /\ UNCHANGED <<spc, sstopped, targets, options, scanned, dead, survivors>>
                  => ScanTypes'
           /\ UNCHANGED <<parses, acts>> => Counted'
BY TypeParts DEF PoolTypes, RunTypes, HandlerTypes, TimerTypes, ScanTypes, Counted

LEMMA ActTypes == ASSUME TypeOK, Act PROVE acts' \in 0 .. MaxActs
<1>1. MaxActs \in Nat
  BY BoundsAssumption
<1> QED
  BY <1>1 DEF TypeOK, Act

LEMMA StopsOrStartsTypes ==
    ASSUME TypeOK, ValidateAll \/ RetryTaps, UNCHANGED <<work, cleanups>>
    PROVE  RunTypes' /\ parses' \in 0 .. MaxParses
<1>1. RunTypes /\ Counted /\ MaxParses \in Nat
  BY TypeParts, BoundsAssumption
<1>2. CASE Stops
  BY <1>1, <1>2 DEF Stops, RunTypes, Counted
<1>3. CASE Starts
  <2>1. /\ parses < MaxParses /\ parses' = parses + 1
        /\ vinput' \in Seq(Entries) /\ vstopped' = FALSE /\ vpc' = "loop"
    BY <1>3 DEF Starts
  <2>2. parses' \in 0 .. MaxParses
    BY <1>1, <2>1 DEF Counted
  <2> QED
    BY <1>1, <2>1, <2>2 DEF RunTypes
<1> QED
  BY <1>2, <1>3, TapStopsOrStarts

LEMMA UserTypes ==
    ASSUME TypeOK, CopiesAreSound, User
    PROVE  TypeOK'
<1>1. /\ PoolTypes /\ RunTypes /\ HandlerTypes /\ TimerTypes /\ ScanTypes /\ Counted
  BY TypeParts
<1> USE DEF pool, valv, uiv, revv, scanv
<1>2. CASE ValidateAll
  <2>1. UNCHANGED <<pool, uiv, revv, scanv>> /\ UNCHANGED <<work, cleanups>>
    BY <1>2 DEF ValidateAll
  <2>2. acts' \in 0 .. MaxActs
    <3>1. Act \/ UNCHANGED acts
      BY <1>2 DEF ValidateAll
    <3> QED
      BY <1>1, <3>1, ActTypes DEF Counted
  <2>3. RunTypes' /\ parses' \in 0 .. MaxParses
    BY <1>2, <2>1, StopsOrStartsTypes
  <2> QED
    BY <2>1, <2>2, <2>3, TypeParts, PartsAreKept DEF Counted
<1>3. CASE AddDirect
  <2>1. /\ parses < MaxParses /\ parses' = parses + 1
        /\ \E text \in Texts[parses + 1] : hand' = Parsed(text)
    BY <1>3 DEF AddDirect
  <2>2. parses \in Nat /\ MaxParses \in Nat
    BY <1>1, BoundsAssumption DEF Counted
  <2>3. hand' \in Seq(Entries)
    BY <2>1, <2>2, TextsAreInputs, ParsedIsNew
  <2>4. \A e \in ToSet(valid) : Addr(e) \in Addresses
    BY <1>1 DEF PoolTypes, CopiesAreSound, Sound, Addr, Addresses, Entries
  <2>5. HandlerTypes'
    BY <1>3, <2>3, <2>4 DEF AddDirect, HandlerTypes
  <2>6. Counted'
    BY <1>3, <2>1, <2>2, ActTypes DEF AddDirect, Counted
  <2> QED
    BY <1>3, <2>5, <2>6, TypeParts, PartsAreKept DEF AddDirect
<1>4. CASE ClearValid
  <2>1. PoolTypes'
    BY <1>1, <1>4 DEF ClearValid, PoolTypes, CopiesAreSound, Sound
  <2> QED
    BY <1>1, <1>4, <2>1, ActTypes, TypeParts, PartsAreKept DEF ClearValid, Counted
<1>5. CASE ClearFailed
  <2>1. PoolTypes'
    BY <1>1, <1>5 DEF ClearFailed, PoolTypes
  <2> QED
    BY <1>1, <1>5, <2>1, ActTypes, TypeParts, PartsAreKept DEF ClearFailed, Counted
<1>6. CASE RetryFailed
  <2>1. HandlerTypes'
    BY <1>1, <1>6 DEF RetryFailed, PoolTypes, HandlerTypes
  <2> QED
    BY <1>1, <1>6, <2>1, ActTypes, TypeParts, PartsAreKept DEF RetryFailed, Counted
<1>7. CASE StartAutoReval
  <2>1. TimerTypes' /\ Act
    BY <1>1, <1>7 DEF StartAutoReval, TimerTypes
  <2> QED
    BY <1>1, <1>7, <2>1, ActTypes, TypeParts, PartsAreKept DEF StartAutoReval, Counted
<1>8. CASE StopAutoReval
  <2>1. TimerTypes'
    BY <1>1, <1>8 DEF StopAutoReval, TimerTypes
  <2> QED
    BY <1>8, <2>1, TypeParts, PartsAreKept DEF StopAutoReval
<1>9. CASE StartScan
  <2>1. Queue \in 0 .. Queue
    BY BoundsAssumption
  <2>2. ScanTypes'
    BY <1>1, <1>9, <2>1 DEF StartScan, ScanTypes
  <2> QED
    BY <1>1, <1>9, <2>2, ActTypes, TypeParts, PartsAreKept DEF StartScan, Counted
<1>10. CASE StopScan
  <2>1. ScanTypes'
    BY <1>1, <1>10 DEF StopScan, ScanTypes
  <2> QED
    BY <1>10, <2>1, TypeParts, PartsAreKept DEF StopScan
<1>11. ASSUME NEW kept \in cleanups, Cleanup(kept)
       PROVE  TypeOK'
  <2>1. PoolTypes' /\ RunTypes'
    BY <1>1, <1>11 DEF Cleanup, PoolTypes, RunTypes
  <2> QED
    BY <1>11, <2>1, TypeParts, PartsAreKept DEF Cleanup
<1>12. ASSUME NEW kept \in cleanups, KeepAll(kept)
       PROVE  TypeOK'
  <2>1. RunTypes'
    BY <1>1, <1>12 DEF KeepAll, RunTypes
  <2> QED
    BY <1>12, <2>1, TypeParts, PartsAreKept DEF KeepAll
<1> QED
  BY <1>2, <1>3, <1>4, <1>5, <1>6, <1>7, <1>8, <1>9, <1>10, <1>11, <1>12 DEF User

LEMMA HandlerStepTypes ==
    ASSUME TypeOK, Handler
    PROVE  TypeOK'
<1>1. /\ PoolTypes /\ RunTypes /\ HandlerTypes /\ TimerTypes /\ ScanTypes /\ Counted
  BY TypeParts
<1> USE DEF pool, valv, uiv, revv, scanv
<1>2. CASE AddByHand
  <2>1. /\ Head(hand) \in Entries /\ Tail(hand) \in Seq(Entries)
        /\ Append(valid, Head(hand)) \in Seq(Entries)
    BY <1>1, <1>2 DEF AddByHand, HandlerTypes, PoolTypes
  <2>2. PoolTypes' /\ HandlerTypes'
    BY <1>1, <1>2, <2>1 DEF AddByHand, Admit, PoolTypes, HandlerTypes
  <2> QED
    BY <1>2, <2>2, TypeParts, PartsAreKept DEF AddByHand
<1>3. CASE AddDirectEnds
  <2>1. HandlerTypes'
    BY <1>1, <1>3 DEF AddDirectEnds, HandlerTypes
  <2> QED
    BY <1>3, <2>1, TypeParts, PartsAreKept DEF AddDirectEnds
<1>4. CASE RetryClears
  <2>1. PoolTypes' /\ HandlerTypes'
    BY <1>1, <1>4 DEF RetryClears, PoolTypes, HandlerTypes
  <2> QED
    BY <1>4, <2>1, TypeParts, PartsAreKept DEF RetryClears
<1>5. CASE RetryTaps
  <2>1. RunTypes' /\ parses' \in 0 .. MaxParses
    BY <1>5, StopsOrStartsTypes DEF RetryTaps
  <2>2. HandlerTypes'
    BY <1>1, <1>5 DEF RetryTaps, HandlerTypes
  <2>3. Counted'
    BY <1>1, <1>5, <2>1 DEF RetryTaps, Counted
  <2> QED
    BY <1>5, <2>1, <2>2, <2>3, TypeParts, PartsAreKept DEF RetryTaps
<1> QED
  BY <1>2, <1>3, <1>4, <1>5 DEF Handler

LEMMA ValidationTypes ==
    ASSUME TypeOK, Acquiring, Validation \/ \E e \in Entries : Worker(e)
    PROVE  TypeOK'
<1>1. /\ PoolTypes /\ RunTypes /\ HandlerTypes /\ TimerTypes /\ ScanTypes /\ Counted
  BY TypeParts
<1> USE DEF pool, valv, uiv, revv, scanv
<1>2. CASE NextInput \/ EndStopped
  <2>1. ASSUME NextInput PROVE RunTypes'
    <3>1. vpc' \in {"stopping", "wait", "acquire"}
      BY <2>1 DEF NextInput
    <3> QED
      BY <1>1, <2>1, <3>1 DEF NextInput, RunTypes
  <2>2. ASSUME EndStopped PROVE RunTypes'
    BY <1>1, <2>2 DEF EndStopped, RunTypes
  <2>3. RunTypes'
    BY <1>2, <2>1, <2>2
  <2> QED
    BY <1>2, <2>3, TypeParts, PartsAreKept DEF NextInput, EndStopped
<1>3. CASE StartWorker
  <2>1. Head(vinput) \in Entries /\ Tail(vinput) \in Seq(Entries)
    BY <1>1, <1>3 DEF StartWorker, Acquiring, RunTypes
  <2>2. RunTypes'
    BY <1>1, <1>3, <2>1 DEF StartWorker, RunTypes
  <2> QED
    BY <1>3, <2>2, TypeParts, PartsAreKept DEF StartWorker
<1>4. CASE Deduplicate
  <2>1. valid \in Seq(Entries)
    BY <1>1 DEF PoolTypes
  <2>2. \A kept : Keep(valid, kept) \in Seq(Entries)
    BY <2>1, KeepFilters
  <2>3. cleanups' \subseteq Seq(Entries)
    BY <1>1, <1>4, <2>2, DeduplicateKeeps DEF RunTypes
  <2>4. UNCHANGED <<pool, vinput, vstopped, work, uiv, revv, scanv, parses, acts>> /\ vpc' = "off"
    BY <1>4 DEF Deduplicate
  <2>5. RunTypes'
    BY <1>1, <2>3, <2>4 DEF RunTypes
  <2> QED
    BY <2>4, <2>5, TypeParts, PartsAreKept
<1>5. ASSUME NEW e \in Entries, Check(e)
      PROVE  TypeOK'
  <2>1. RunTypes'
    BY <1>1, <1>5 DEF Check, RunTypes
  <2> QED
    BY <1>5, <2>1, TypeParts, PartsAreKept DEF Check
<1>6. ASSUME NEW e \in Entries, AddValid(e)
      PROVE  TypeOK'
  <2>1. Append(valid, e) \in Seq(Entries)
    BY <1>1 DEF PoolTypes
  <2>2. PoolTypes'
    BY <1>1, <1>6, <2>1 DEF AddValid, Admit, PoolTypes
  <2>3. RunTypes'
    BY <1>1, <1>6 DEF AddValid, RunTypes
  <2> QED
    BY <1>6, <2>2, <2>3, TypeParts, PartsAreKept DEF AddValid
<1>7. ASSUME NEW e \in Entries, AddFailed(e)
      PROVE  TypeOK'
  <2>1. Append(failed, e) \in Seq(Entries)
    BY <1>1 DEF PoolTypes
  <2>2. PoolTypes'
    BY <1>1, <1>7, <2>1 DEF AddFailed, PoolTypes
  <2>3. RunTypes'
    BY <1>1, <1>7 DEF AddFailed, RunTypes
  <2> QED
    BY <1>7, <2>2, <2>3, TypeParts, PartsAreKept DEF AddFailed
<1> QED
  BY <1>2, <1>3, <1>4, <1>5, <1>6, <1>7 DEF Validation, Worker

LEMMA TimerStepTypes ==
    ASSUME TypeOK, CopiesAreSound, NEW g \in Timers, Timer(g) \/ Tick(g)
    PROVE  TypeOK'
<1>1. /\ PoolTypes /\ RunTypes /\ HandlerTypes /\ TimerTypes /\ ScanTypes /\ Counted
  BY TypeParts
<1> USE DEF pool, valv, uiv, revv, scanv
<1>2. CASE TimerEnds(g)
  <2>1. TimerTypes'
    BY <1>1, <1>2 DEF TimerEnds, TimerTypes
  <2> QED
    BY <1>2, <2>1, TypeParts, PartsAreKept DEF TimerEnds
<1>3. CASE Tick(g)
  <2>1. ToSet(valid) \subseteq Entries
    BY <1>1 DEF CopiesAreSound, Sound, PoolTypes
  <2>2. TimerTypes'
    BY <1>1, <1>3, <2>1 DEF Tick, TimerTypes
  <2> QED
    BY <1>1, <1>3, <2>2, ActTypes, TypeParts, PartsAreKept DEF Tick, Counted
<1>4. ASSUME NEW e \in Entries, Recheck(g, e)
      PROVE  TypeOK'
  <2>1. Append(rkept[g], e) \in Seq(Entries)
    BY <1>1 DEF TimerTypes
  <2>2. TimerTypes'
    BY <1>1, <1>4, <2>1 DEF Recheck, TimerTypes
  <2> QED
    BY <1>4, <2>2, TypeParts, PartsAreKept DEF Recheck
<1>5. CASE Revalidated(g)
  <2>1. rkept[g] \in Seq(Entries) /\ <<>> \in Seq(Entries)
    BY <1>1 DEF TimerTypes
  <2>2. PoolTypes'
    BY <1>1, <1>5, <2>1 DEF Revalidated, PoolTypes
  <2>3. TimerTypes'
    BY <1>1, <1>5, <2>1 DEF Revalidated, TimerTypes
  <2> QED
    BY <1>5, <2>2, <2>3, TypeParts, PartsAreKept DEF Revalidated
<1> QED
  BY <1>2, <1>3, <1>4, <1>5 DEF Timer

LEMMA ScanStepTypes ==
    ASSUME TypeOK, Scan
    PROVE  TypeOK'
<1>1. /\ PoolTypes /\ RunTypes /\ HandlerTypes /\ TimerTypes /\ ScanTypes /\ Counted
  BY TypeParts
<1> USE DEF pool, valv, uiv, revv, scanv
<1>2. CASE EndScan \/ ReadPool \/ ScanReturns
  <2>a. ASSUME EndScan PROVE ScanTypes'
    BY <1>1, <2>a DEF EndScan, ScanTypes
  <2>b. ASSUME ReadPool PROVE ScanTypes'
    BY <1>1, <2>b DEF ReadPool, ScanTypes, PoolTypes
  <2>c. ASSUME ScanReturns PROVE ScanTypes'
    <3>1. PICK found \in SUBSET (Mortal \cap {Addr(e) : e \in ToSet(scanned)}) :
             /\ dead' = found
             /\ spc' = IF found = {} THEN "advance" ELSE "prune"
             /\ scanned' = IF found = {} THEN <<>> ELSE scanned
      BY <2>c DEF ScanReturns
    <3>2. dead' \subseteq Mortal /\ spc' \in {"advance", "prune"} /\ scanned' \in {<<>>, scanned}
      BY <3>1
    <3> QED
      BY <1>1, <2>c, <3>2 DEF ScanReturns, ScanTypes
  <2>1. ScanTypes'
    BY <1>2, <2>a, <2>b, <2>c
  <2> QED
    BY <1>2, <2>1, TypeParts, PartsAreKept DEF EndScan, ReadPool, ScanReturns
<1>3. CASE NextTarget
  <2>1. PoolTypes'
    BY <1>1, <1>3 DEF NextTarget, NextIndex, PoolTypes
  <2>2. Queue \in Nat
    BY BoundsAssumption
  <2>3. targets' \in 0 .. Queue /\ spc' \in {"off", "scan"}
    BY <1>1, <1>3, <2>2 DEF NextTarget, ScanTypes
  <2>4. ScanTypes'
    BY <1>1, <1>3, <2>3 DEF NextTarget, ScanTypes
  <2> QED
    BY <1>3, <2>1, <2>4, TypeParts, PartsAreKept DEF NextTarget
<1>4. CASE ReadSurvivors
  <2>1. valid \in Seq(Entries)
    BY <1>1 DEF PoolTypes
  <2>2. \A kept : Keep(valid, kept) \in Seq(Entries)
    BY <2>1, KeepFilters
  <2>3. ScanTypes'
    BY <1>1, <1>4, <2>2 DEF ReadSurvivors, ScanTypes
  <2> QED
    BY <1>4, <2>3, TypeParts, PartsAreKept DEF ReadSurvivors
<1>5. CASE Prune
  <2>1. PoolTypes' /\ ScanTypes'
    BY <1>1, <1>5 DEF Prune, PoolTypes, ScanTypes
  <2> QED
    BY <1>5, <2>1, TypeParts, PartsAreKept DEF Prune
<1>6. CASE Advance
  <2>1. PoolTypes' /\ ScanTypes'
    BY <1>1, <1>6 DEF Advance, PoolTypes, ScanTypes
  <2> QED
    BY <1>6, <2>1, TypeParts, PartsAreKept DEF Advance
<1> QED
  BY <1>2, <1>3, <1>4, <1>5, <1>6 DEF Scan

LEMMA TypeStep ==
    ASSUME TypeOK, Acquiring, CopiesAreSound, [Next]_vars
    PROVE  TypeOK'
<1>1. CASE UNCHANGED vars
  BY <1>1, TypeParts, PartsAreKept DEF vars, pool, valv, uiv, revv, scanv
<1> QED
  BY <1>1, UserTypes, HandlerStepTypes, ValidationTypes, TimerStepTypes, ScanStepTypes DEF Next

-----------------------------------------------------------------------------
(* Entries are fresh until a worker or the user takes them *)

LEMMA FreshStep ==
    ASSUME TypeOK, Acquiring, WaitingAreFresh, [Next]_vars
    PROVE  WaitingAreFresh'
<1>1. /\ work \in [Entries -> {"none", "checking", "works", "broken", "added", "rejected"}]
      /\ vinput \in Seq(Entries) /\ hand \in Seq(Entries) /\ parses \in Nat
      /\ admitted \subseteq Entries
  BY DEF TypeOK
<1>2. ASSUME Starts, UNCHANGED <<work, admitted>>, ui' = "idle"
      PROVE  WaitingAreFresh'
  <2>1. parses' = parses + 1 /\ \A e \in Entries : e[2] \in Nat
    BY <1>2 DEF Starts, Entries, Parses
  <2>2. \A e \in Entries : e[2] > parses' => Fresh(e)'
    BY <1>1, <1>2, <2>1 DEF WaitingAreFresh, Fresh
  <2>3. \A e \in ToSet(vinput') : e \in Entries /\ e[2] = parses'
    BY <1>2 DEF Starts
  <2>4. \A e \in ToSet(vinput') : Fresh(e)' /\ e[2] <= parses'
    BY <1>1, <1>2, <2>1, <2>3 DEF WaitingAreFresh, Fresh
  <2> QED
    BY <1>2, <2>2, <2>4 DEF WaitingAreFresh, Starts
<1>3. CASE ValidateAll
  <2>1. UNCHANGED <<work, admitted, ui, hand>> /\ ui = "idle"
    BY <1>3 DEF ValidateAll, pool, uiv
  <2>2. CASE Stops
    BY <2>1, <2>2 DEF Stops, WaitingAreFresh, Fresh
  <2> QED
    BY <1>2, <1>3, <2>1, <2>2, TapStopsOrStarts
<1>4. CASE RetryTaps
  <2>1. UNCHANGED <<work, admitted>> /\ ui' = "idle"
    BY <1>4 DEF RetryTaps, pool
  <2>2. CASE Stops
    BY <2>1, <2>2 DEF Stops, WaitingAreFresh, Fresh
  <2> QED
    BY <1>2, <1>4, <2>1, <2>2, TapStopsOrStarts
<1>5. CASE StartWorker
  <2>1. vinput # <<>> /\ vinput' = Tail(vinput) /\ UNCHANGED <<admitted, parses, ui, hand>>
    BY <1>5 DEF StartWorker, Acquiring, pool, uiv
  <2>2. /\ Head(vinput) \in ToSet(vinput) /\ ToSet(vinput') \subseteq ToSet(vinput)
        /\ IsInjective(vinput') /\ Head(vinput) \notin ToSet(vinput')
    BY <1>1, <2>1, TailLeaves DEF WaitingAreFresh
  <2>3. \A e \in Entries : e # Head(vinput) => work'[e] = work[e]
    BY <1>1, <1>5 DEF StartWorker
  <2>4. ToSet(vinput) \subseteq Entries /\ ToSet(hand) \subseteq Entries
    BY <1>1 DEF ToSet
  <2>5. \A e \in Entries : e # Head(vinput) /\ Fresh(e) => Fresh(e)'
    BY <2>1, <2>3 DEF Fresh
  <2>6. Head(vinput)[2] <= parses /\ Head(vinput)[2] \in Nat
    BY <2>2, <2>4 DEF WaitingAreFresh, Entries, Parses
  <2>7. \A e \in Entries : e[2] > parses' => Fresh(e)'
    BY <1>1, <2>1, <2>5, <2>6 DEF WaitingAreFresh
  <2>8. \A e \in ToSet(vinput') : Fresh(e)' /\ e[2] <= parses'
    BY <2>1, <2>2, <2>4, <2>5 DEF WaitingAreFresh
  <2>9. ui' = "adding" =>
            /\ IsInjective(hand') /\ ToSet(hand') \cap ToSet(vinput') = {}
            /\ \A e \in ToSet(hand') : Fresh(e)' /\ e[2] <= parses'
    BY <2>1, <2>2, <2>4, <2>5 DEF WaitingAreFresh
  <2> QED
    BY <2>2, <2>7, <2>8, <2>9 DEF WaitingAreFresh
<1>6. ASSUME NEW e \in Entries, Worker(e)
      PROVE  WaitingAreFresh'
  <2>1. work[e] # "none" /\ UNCHANGED <<vinput, parses, ui, hand>>
    BY <1>6 DEF Worker, Check, AddValid, AddFailed, uiv
  <2>2. \A f \in Entries : f # e => work'[f] = work[f] /\ (f \in admitted' <=> f \in admitted)
    BY <1>1, <1>6 DEF Worker, Check, AddValid, AddFailed, Admit, pool
  <2>3. \A f \in Entries : Fresh(f) => Fresh(f)'
    BY <2>1, <2>2 DEF Fresh
  <2>4. ToSet(vinput) \subseteq Entries /\ ToSet(hand) \subseteq Entries
    BY <1>1 DEF ToSet
  <2> QED
    BY <2>1, <2>3, <2>4 DEF WaitingAreFresh
<1>7. CASE EndStopped
  <2>1. vinput' = <<>> /\ UNCHANGED <<work, admitted, parses, ui, hand>>
    BY <1>7 DEF EndStopped, pool, uiv
  <2>2. ToSet(vinput') = {} /\ IsInjective(vinput')
    BY <2>1, EmptyList
  <2> QED
    BY <2>1, <2>2 DEF WaitingAreFresh, Fresh
<1>8. CASE AddDirect
  <2>1. /\ parses < MaxParses /\ parses' = parses + 1 /\ UNCHANGED <<work, admitted, vinput>>
        /\ \E text \in Texts[parses + 1] : hand' = Parsed(text)
    BY <1>8 DEF AddDirect, pool, valv
  <2>2. IsInjective(hand') /\ \A e \in ToSet(hand') : e \in Entries /\ e[2] = parses'
    BY <1>1, <2>1, TextsAreInputs, ParsedIsNew
  <2>3. \A e \in Entries : e[2] \in Nat
    BY DEF Entries, Parses
  <2>4. ToSet(vinput) \subseteq Entries
    BY <1>1 DEF ToSet
  <2>5. \A e \in Entries : Fresh(e) => Fresh(e)'
    BY <2>1 DEF Fresh
  <2>6. /\ \A e \in Entries : e[2] > parses' => Fresh(e)'
        /\ \A e \in ToSet(vinput) : Fresh(e)' /\ e[2] <= parses
    BY <1>1, <2>1, <2>3, <2>4, <2>5 DEF WaitingAreFresh
  <2>7. \A e \in ToSet(hand') : Fresh(e)' /\ e[2] <= parses' /\ e \notin ToSet(vinput)
    BY <1>1, <2>1, <2>2, <2>3, <2>5, <2>6 DEF WaitingAreFresh
  <2>8. \A e \in ToSet(vinput') : Fresh(e)' /\ e[2] <= parses'
    BY <1>1, <2>1, <2>3, <2>4, <2>6
  <2> QED
    BY <2>1, <2>2, <2>6, <2>7, <2>8 DEF WaitingAreFresh
<1>9. CASE AddByHand
  <2>1. /\ ui = "adding" /\ ui' = "adding" /\ hand # <<>> /\ hand' = Tail(hand)
        /\ admitted' \subseteq admitted \cup {Head(hand)} /\ UNCHANGED <<work, parses, vinput>>
    BY <1>9 DEF AddByHand, Admit, valv
  <2>2. /\ Head(hand) \in ToSet(hand) /\ ToSet(hand') \subseteq ToSet(hand)
        /\ IsInjective(hand') /\ Head(hand) \notin ToSet(hand')
    BY <1>1, <2>1, TailLeaves DEF WaitingAreFresh
  <2>3. ToSet(vinput) \subseteq Entries /\ ToSet(hand) \subseteq Entries
    BY <1>1 DEF ToSet
  <2>4. \A e \in Entries : e # Head(hand) /\ Fresh(e) => Fresh(e)'
    BY <2>1 DEF Fresh
  <2>5. Head(hand)[2] <= parses /\ Head(hand)[2] \in Nat /\ Head(hand) \notin ToSet(vinput)
    BY <2>1, <2>2, <2>3 DEF WaitingAreFresh, Entries, Parses
  <2>6. \A e \in Entries : e[2] > parses' => Fresh(e)'
    BY <1>1, <2>1, <2>4, <2>5 DEF WaitingAreFresh
  <2>7. \A e \in ToSet(vinput') : Fresh(e)' /\ e[2] <= parses'
    BY <2>1, <2>3, <2>4, <2>5 DEF WaitingAreFresh
  <2>8. \A e \in ToSet(hand') : Fresh(e)' /\ e[2] <= parses'
    BY <2>1, <2>2, <2>3, <2>4 DEF WaitingAreFresh
  <2> QED
    BY <2>1, <2>2, <2>6, <2>7, <2>8 DEF WaitingAreFresh
<1>10. CASE AddDirectEnds \/ RetryFailed \/ RetryClears
  <2>1. ui' # "adding" /\ UNCHANGED <<work, admitted, parses, vinput>>
    BY <1>10 DEF AddDirectEnds, RetryFailed, RetryClears, pool, valv
  <2> QED
    BY <2>1 DEF WaitingAreFresh, Fresh
<1>11. CASE \/ NextInput \/ Deduplicate \/ ClearValid \/ ClearFailed \/ StartAutoReval
            \/ StopAutoReval \/ StartScan \/ StopScan \/ Scan \/ UNCHANGED vars
            \/ \E kept \in cleanups : Cleanup(kept) \/ KeepAll(kept)
            \/ \E g \in Timers : Timer(g) \/ Tick(g)
  <2>1. UNCHANGED <<work, admitted, parses, vinput, ui, hand>>
    BY <1>11 DEF NextInput, Deduplicate, ClearValid, ClearFailed, StartAutoReval,
       StopAutoReval, StartScan, StopScan, Scan, EndScan, NextTarget, ReadPool,
       ScanReturns, ReadSurvivors, Prune, Advance, Cleanup, KeepAll, Timer, TimerEnds,
       Revalidated, Recheck, Tick, vars, pool, valv, uiv
  <2> QED
    BY <2>1 DEF WaitingAreFresh, Fresh
<1> QED
  BY <1>3, <1>4, <1>5, <1>6, <1>7, <1>8, <1>9, <1>10, <1>11
     DEF Next, User, Handler, Validation

LEMMA ListsStep ==
    ASSUME TypeOK, Acquiring, WaitingAreFresh, ListsFollowWork, [Next]_vars
    PROVE  ListsFollowWork'
<1>1. /\ work \in [Entries -> {"none", "checking", "works", "broken", "added", "rejected"}]
      /\ vinput \in Seq(Entries) /\ hand \in Seq(Entries) /\ failed \in Seq(Entries)
      /\ admitted \subseteq Entries
  BY DEF TypeOK
<1>2. ToSet(failed) \subseteq Entries
  BY <1>1 DEF ToSet
<1>3. CASE StartWorker
  <2>1. Head(vinput) \in ToSet(vinput)
    BY <1>1, <1>3, TailLeaves DEF StartWorker, Acquiring
  <2>2. Fresh(Head(vinput)) /\ UNCHANGED <<admitted, failed>>
    BY <1>3, <2>1 DEF WaitingAreFresh, StartWorker, pool
  <2>3. \A e \in Entries : e # Head(vinput) => work'[e] = work[e]
    BY <1>1, <1>3 DEF StartWorker
  <2> QED
    BY <1>1, <1>2, <2>2, <2>3 DEF ListsFollowWork, Fresh
<1>4. ASSUME NEW e \in Entries, Check(e) \/ AddValid(e)
      PROVE  ListsFollowWork'
  <2>1. /\ UNCHANGED failed /\ \A f \in Entries : f # e => work'[f] = work[f]
        /\ work[e] \in {"checking", "works"}
        /\ work'[e] = "added" \/ e \notin admitted'
        /\ admitted' \subseteq admitted \cup {e}
    BY <1>1, <1>4 DEF Check, AddValid, Admit, ListsFollowWork, pool
  <2> QED
    BY <1>1, <1>2, <2>1 DEF ListsFollowWork
<1>5. ASSUME NEW e \in Entries, AddFailed(e)
      PROVE  ListsFollowWork'
  <2>1. /\ UNCHANGED admitted /\ \A f \in Entries : f # e => work'[f] = work[f]
        /\ work[e] = "broken" /\ work'[e] = "rejected" /\ failed' = Append(failed, e)
    BY <1>1, <1>5 DEF AddFailed
  <2>2. ToSet(failed') = ToSet(failed) \cup {e} /\ IsInjective(failed')
    BY <1>1, <2>1, AppendAdds DEF ListsFollowWork
  <2> QED
    BY <1>1, <1>2, <2>1, <2>2 DEF ListsFollowWork
<1>6. CASE AddByHand
  <2>1. Head(hand) \in ToSet(hand) /\ ui = "adding"
    BY <1>1, <1>6, TailLeaves DEF AddByHand
  <2>2. /\ work[Head(hand)] = "none" /\ UNCHANGED <<work, failed>>
        /\ admitted' \subseteq admitted \cup {Head(hand)}
    BY <1>6, <2>1 DEF WaitingAreFresh, Fresh, AddByHand, Admit, valv
  <2> QED
    BY <2>2 DEF ListsFollowWork
<1>7. CASE ClearFailed \/ RetryClears
  <2>1. failed' = <<>> /\ UNCHANGED <<work, admitted>>
    BY <1>7 DEF ClearFailed, RetryClears, valv
  <2> QED
    BY <2>1, EmptyList DEF ListsFollowWork
<1>8. CASE \/ ValidateAll \/ RetryTaps \/ NextInput \/ EndStopped \/ Deduplicate \/ ClearValid
           \/ AddDirect \/ AddDirectEnds \/ RetryFailed \/ StartAutoReval \/ StopAutoReval
           \/ StartScan \/ StopScan \/ Scan \/ UNCHANGED vars
           \/ \E kept \in cleanups : Cleanup(kept) \/ KeepAll(kept)
           \/ \E g \in Timers : Timer(g) \/ Tick(g)
  <2>1. UNCHANGED <<work, admitted, failed>>
    BY <1>8 DEF ValidateAll, RetryTaps, NextInput, EndStopped, Deduplicate, ClearValid,
       AddDirect, AddDirectEnds, RetryFailed, StartAutoReval,
       StopAutoReval, StartScan, StopScan, Scan, EndScan, NextTarget, ReadPool,
       ScanReturns, ReadSurvivors, Prune, Advance, Cleanup, KeepAll, Timer, TimerEnds,
       Revalidated, Recheck, Tick, vars, pool, valv
  <2> QED
    BY <2>1 DEF ListsFollowWork
<1> QED
  BY <1>3, <1>4, <1>5, <1>6, <1>7, <1>8 DEF Next, User, Handler, Validation, Worker

-----------------------------------------------------------------------------
(* The pool and its copies *)

\* What is kept of a sound list is sound, and a longer history keeps it so.
LEMMA KeptIsSound ==
    ASSUME NEW s \in Seq(Entries), Sound(s), NEW kept
    PROVE  Sound(Keep(s, kept))
  BY KeepFilters DEF Sound

LEMMA CopiesStep ==
    ASSUME TypeOK, Acquiring, WaitingAreFresh, ListsFollowWork, CopiesAreSound, [Next]_vars
    PROVE  CopiesAreSound'
<1>1. /\ valid \in Seq(Entries) /\ hand \in Seq(Entries) /\ cleanups \subseteq Seq(Entries)
      /\ admitted \subseteq Entries /\ rkept \in [Timers -> Seq(Entries)]
      /\ unchecked \in [Timers -> SUBSET Entries]
      /\ rpc \in [Timers -> {"none", "waiting", "checking", "ended"}]
  BY DEF TypeOK
<1>2. Sound(<<>>)
  BY EmptyList DEF Sound
\* An entry is added to the pool.
<1>3. ASSUME NEW e \in Entries, e \notin ToSet(valid), valid' = Append(valid, e),
             admitted' = admitted \cup {e},
             UNCHANGED <<survivors, cleanups, rpc, unchecked, rkept>>
      PROVE  CopiesAreSound'
  <2>1. ToSet(valid') = ToSet(valid) \cup {e} /\ IsInjective(valid')
    BY <1>1, <1>3, AppendAdds DEF CopiesAreSound, Sound
  <2> QED
    BY <1>3, <2>1 DEF CopiesAreSound, Sound
<1>4. ASSUME NEW e \in Entries, AddValid(e)
      PROVE  CopiesAreSound'
  <2>1. e \notin admitted
    BY <1>4 DEF AddValid, ListsFollowWork
  <2>2. e \notin ToSet(valid)
    BY <2>1 DEF CopiesAreSound, Sound
  <2> QED
    BY <1>3, <1>4, <2>2 DEF AddValid, Admit, revv, scanv
<1>5. CASE AddByHand
  <2>1. CASE UNCHANGED <<valid, admitted>>
    BY <1>5, <2>1 DEF AddByHand, valv, revv, scanv, CopiesAreSound, Sound
  <2>2. CASE valid' = Append(valid, Head(hand)) /\ Admit({Head(hand)})
    <3>1. Head(hand) \in ToSet(hand) /\ Head(hand) \in Entries /\ ui = "adding"
      BY <1>1, <1>5, TailLeaves DEF AddByHand
    <3>2. Head(hand) \notin ToSet(valid)
      BY <3>1 DEF WaitingAreFresh, Fresh, CopiesAreSound, Sound
    <3> QED
      BY <1>3, <1>5, <2>2, <3>1, <3>2 DEF AddByHand, Admit, valv, revv, scanv
  <2> QED
    BY <1>5, <2>1, <2>2 DEF AddByHand
<1>6. CASE Deduplicate
  <2>1. UNCHANGED <<valid, admitted, survivors, rpc, unchecked, rkept>>
    BY <1>6 DEF Deduplicate, pool, revv, scanv
  <2>2. \A kept : Sound(Keep(valid, kept))
    BY <1>1, KeptIsSound DEF CopiesAreSound
  <2>3. \A kept \in cleanups' : Sound(kept)
    BY <1>6, <2>2, DeduplicateKeeps DEF CopiesAreSound
  <2> QED
    BY <2>1, <2>3 DEF CopiesAreSound, Sound
<1>7. ASSUME NEW kept \in cleanups, Cleanup(kept) \/ KeepAll(kept)
      PROVE  CopiesAreSound'
  <2>1. /\ UNCHANGED <<admitted, survivors, rpc, unchecked, rkept>>
        /\ valid' \in {valid, kept} /\ cleanups' \subseteq cleanups
    BY <1>7 DEF Cleanup, KeepAll, pool, revv, scanv
  <2> QED
    BY <2>1 DEF CopiesAreSound, Sound
<1>8. CASE ClearValid
  <2>1. valid' = <<>> /\ UNCHANGED <<admitted, survivors, cleanups, rpc, unchecked, rkept>>
    BY <1>8 DEF ClearValid, valv, revv, scanv
  <2> QED
    BY <1>2, <2>1 DEF CopiesAreSound, Sound
<1>9. CASE StartAutoReval
  <2>1. /\ UNCHANGED <<valid, admitted, survivors, cleanups, unchecked, rkept>>
        /\ \A g \in Timers : rpc'[g] # "checking" => rpc[g] # "checking"
    BY <1>1, <1>9 DEF StartAutoReval, pool, valv, scanv
  <2> QED
    BY <2>1 DEF CopiesAreSound, Sound
<1>10. ASSUME NEW g \in Timers, TimerEnds(g) \/ Tick(g)
       PROVE  CopiesAreSound'
  <2>1. /\ UNCHANGED <<valid, admitted, survivors, cleanups, rkept>> /\ rpc[g] = "waiting"
        /\ \A h \in Timers \ {g} : rpc'[h] = rpc[h] /\ unchecked'[h] = unchecked[h]
        /\ unchecked'[g] \in {unchecked[g], ToSet(valid)}
    BY <1>1, <1>10 DEF TimerEnds, Tick, pool, valv, scanv
  <2>2. rkept[g] = <<>>
    BY <2>1 DEF CopiesAreSound
  <2>3. unchecked'[g] \subseteq admitted /\ ToSet(rkept[g]) = {}
    BY <2>1, <2>2, EmptyList DEF CopiesAreSound, Sound
  <2>4. ASSUME NEW h \in Timers
        PROVE  /\ Sound(rkept[h])' /\ unchecked'[h] \subseteq admitted'
               /\ unchecked'[h] \cap ToSet(rkept'[h]) = {}
               /\ rpc'[h] # "checking" => rkept'[h] = <<>>
    BY <2>1, <2>2, <2>3 DEF CopiesAreSound, Sound
  <2> QED
    BY <2>1, <2>4 DEF CopiesAreSound, Sound
<1>11. ASSUME NEW g \in Timers, NEW e \in Entries, Recheck(g, e)
       PROVE  CopiesAreSound'
  <2>1. /\ UNCHANGED <<valid, admitted, survivors, cleanups, rpc>> /\ rpc[g] = "checking"
        /\ e \in unchecked[g] /\ unchecked'[g] = unchecked[g] \ {e}
        /\ rkept'[g] \in {rkept[g], Append(rkept[g], e)}
        /\ \A h \in Timers \ {g} : rkept'[h] = rkept[h] /\ unchecked'[h] = unchecked[h]
    BY <1>1, <1>11 DEF Recheck, pool, valv, scanv
  <2>2. e \in admitted /\ e \notin ToSet(rkept[g])
    BY <2>1 DEF CopiesAreSound
  <2>3. ToSet(rkept'[g]) \subseteq ToSet(rkept[g]) \cup {e} /\ IsInjective(rkept'[g])
    <3>1. rkept[g] \in Seq(Entries) /\ IsInjective(rkept[g])
      BY <1>1 DEF CopiesAreSound, Sound
    <3>2. /\ ToSet(Append(rkept[g], e)) = ToSet(rkept[g]) \cup {e}
          /\ IsInjective(Append(rkept[g], e))
      BY <2>2, <3>1, AppendAdds
    <3> QED
      BY <2>1, <3>1, <3>2
  <2>4. ASSUME NEW h \in Timers
        PROVE  /\ Sound(rkept[h])' /\ unchecked'[h] \subseteq admitted'
               /\ unchecked'[h] \cap ToSet(rkept'[h]) = {}
               /\ rpc'[h] # "checking" => rkept'[h] = <<>>
    <3>1. CASE h = g
      BY <2>1, <2>2, <2>3, <3>1 DEF CopiesAreSound, Sound
    <3>2. CASE h # g
      BY <2>1, <3>2 DEF CopiesAreSound, Sound
    <3> QED
      BY <3>1, <3>2
  <2> QED
    BY <2>1, <2>4 DEF CopiesAreSound, Sound
<1>12. ASSUME NEW g \in Timers, Revalidated(g)
       PROVE  CopiesAreSound'
  <2>1. /\ UNCHANGED <<admitted, survivors, cleanups, unchecked>> /\ valid' = rkept[g]
        /\ rkept'[g] = <<>> /\ unchecked[g] = {}
        /\ \A h \in Timers \ {g} : rkept'[h] = rkept[h] /\ rpc'[h] = rpc[h]
    BY <1>1, <1>12 DEF Revalidated, valv, scanv
  <2>2. ASSUME NEW h \in Timers
        PROVE  /\ Sound(rkept[h])' /\ unchecked'[h] \subseteq admitted'
               /\ unchecked'[h] \cap ToSet(rkept'[h]) = {}
               /\ rpc'[h] # "checking" => rkept'[h] = <<>>
    BY <1>2, <2>1 DEF CopiesAreSound, Sound
  <2> QED
    BY <2>1, <2>2 DEF CopiesAreSound, Sound
<1>13. CASE ReadSurvivors
  <2>1. /\ UNCHANGED <<valid, admitted, cleanups, rpc, unchecked, rkept>>
        /\ \E kept : survivors' = Keep(valid, kept)
    BY <1>13 DEF ReadSurvivors, pool, valv, revv
  <2>2. Sound(survivors')
    BY <1>1, <2>1, KeptIsSound DEF CopiesAreSound
  <2> QED
    BY <2>1, <2>2 DEF CopiesAreSound, Sound
<1>14. CASE Prune
  <2>1. /\ valid' = survivors /\ survivors' = <<>>
        /\ UNCHANGED <<admitted, cleanups, rpc, unchecked, rkept>>
    BY <1>14 DEF Prune, valv, revv
  <2> QED
    BY <1>2, <2>1 DEF CopiesAreSound, Sound
<1>15. CASE \/ ValidateAll \/ RetryTaps \/ NextInput \/ StartWorker \/ EndStopped
            \/ AddDirect \/ AddDirectEnds \/ ClearFailed \/ RetryFailed \/ RetryClears
            \/ StopAutoReval \/ StartScan \/ StopScan \/ EndScan \/ NextTarget \/ ReadPool
            \/ ScanReturns \/ Advance \/ UNCHANGED vars
            \/ \E e \in Entries : Check(e) \/ AddFailed(e)
  <2>1. UNCHANGED <<valid, admitted, survivors, cleanups, rpc, unchecked, rkept>>
    BY <1>15 DEF ValidateAll, RetryTaps, NextInput, StartWorker, EndStopped, AddDirect,
       AddDirectEnds, ClearFailed, RetryFailed, RetryClears, StopAutoReval, StartScan,
       StopScan, EndScan, NextTarget, ReadPool, ScanReturns, Advance, Check, AddFailed,
       vars, pool, valv, revv, scanv
  <2> QED
    BY <2>1 DEF CopiesAreSound, Sound
<1> QED
  BY <1>4, <1>5, <1>6, <1>7, <1>8, <1>9, <1>10, <1>11, <1>12, <1>13, <1>14, <1>15
     DEF Next, User, Handler, Validation, Scan, Worker, Timer

-----------------------------------------------------------------------------
(* The egress IPs *)

LEMMA EgressStep ==
    ASSUME TypeOK, Acquiring, WaitingAreFresh, EgressFollowsWork, [Next]_vars
    PROVE  EgressFollowsWork'
<1>1. /\ work \in [Entries -> {"none", "checking", "works", "broken", "added", "rejected"}]
      /\ vinput \in Seq(Entries)
  BY DEF TypeOK
<1>2. CASE StartWorker
  <2>1. Head(vinput) \in ToSet(vinput)
    BY <1>1, <1>2, TailLeaves DEF StartWorker, Acquiring
  <2>2. work[Head(vinput)] = "none" /\ UNCHANGED egressIP
    BY <1>2, <2>1 DEF WaitingAreFresh, Fresh, StartWorker
  <2>3. \A e \in Entries : IF e = Head(vinput) THEN work'[e] = "checking"
                           ELSE work'[e] = work[e]
    BY <1>1, <1>2 DEF StartWorker
  <2> QED
    BY <2>2, <2>3 DEF EgressFollowsWork
<1>3. ASSUME NEW e \in Entries, Check(e)
      PROVE  EgressFollowsWork'
  <2>1. PICK ok \in Works[e[1]] :
           IF ok THEN /\ work' = [work EXCEPT ![e] = "works"]
                      /\ \E ip \in Egress[e[1]] : egressIP' = [egressIP EXCEPT ![e] = ip]
           ELSE work' = [work EXCEPT ![e] = "broken"] /\ UNCHANGED egressIP
    BY <1>3 DEF Check
  <2>2. work[e] = "checking"
    BY <1>3 DEF Check
  <2>3. CASE ok
    <3>1. PICK ip \in Egress[e[1]] : egressIP' = [egressIP EXCEPT ![e] = ip]
      BY <2>1, <2>3
    <3>2. egressIP' = [f \in Entries |-> IF f = e THEN ip ELSE egressIP[f]]
      BY <3>1 DEF EgressFollowsWork
    <3>3. work' = [f \in Entries |-> IF f = e THEN "works" ELSE work[f]]
      BY <1>1, <2>1, <2>3
    <3> QED
      BY <3>2, <3>3 DEF EgressFollowsWork
  <2>4. CASE ~ok
    BY <1>1, <2>1, <2>2, <2>4 DEF EgressFollowsWork
  <2> QED
    BY <2>3, <2>4
<1>4. ASSUME NEW e \in Entries, AddValid(e) \/ AddFailed(e)
      PROVE  EgressFollowsWork'
  <2>1. /\ UNCHANGED egressIP
        /\ work[e] \in {"works", "added"} <=> work'[e] \in {"works", "added"}
        /\ \A f \in Entries : f # e => work'[f] = work[f]
    BY <1>1, <1>4 DEF AddValid, AddFailed
  <2> QED
    BY <2>1 DEF EgressFollowsWork
<1>5. CASE \/ ValidateAll \/ RetryTaps \/ NextInput \/ EndStopped \/ Deduplicate \/ ClearValid
           \/ AddDirect \/ AddByHand \/ AddDirectEnds \/ ClearFailed \/ RetryFailed
           \/ RetryClears \/ StartAutoReval \/ StopAutoReval
           \/ StartScan \/ StopScan \/ Scan \/ UNCHANGED vars
           \/ \E kept \in cleanups : Cleanup(kept) \/ KeepAll(kept)
           \/ \E g \in Timers : Timer(g) \/ Tick(g)
  <2>1. UNCHANGED <<work, egressIP>>
    BY <1>5 DEF ValidateAll, RetryTaps, NextInput, EndStopped, Deduplicate, ClearValid,
       AddDirect, AddByHand, AddDirectEnds, ClearFailed, RetryFailed, RetryClears,
       StartAutoReval, StopAutoReval, StartScan, StopScan, Scan, EndScan, NextTarget,
       ReadPool, ScanReturns, ReadSurvivors, Prune, Advance, Cleanup, KeepAll, Timer,
       TimerEnds, Revalidated, Recheck, Tick, vars, valv
  <2> QED
    BY <2>1 DEF EgressFollowsWork
<1> QED
  BY <1>2, <1>3, <1>4, <1>5 DEF Next, User, Handler, Validation, Worker

\* No other proxy in the pool has the egress IP of an entry that is held, so the
\* deduplication keeps it.
LEMMA DeduplicateKeepsHeld ==
    ASSUME TypeOK, ListsFollowWork, CopiesAreSound, EgressFollowsWork, HeldAreKept,
           NEW e \in Entries, Held(e), NEW kept \in KeepFastest
    PROVE  e \in ToSet(Keep(valid, kept))
<1>1. e \in ToSet(valid) /\ e \in admitted /\ work[e] = "added"
  BY DEF HeldAreKept, Everywhere, Held, ListsFollowWork
<1>2. egressIP[e] \in Egress[e[1]] /\ egressIP[e] # ""
  BY <1>1 DEF EgressFollowsWork, Held, Sure
<1>3. ASSUME NEW f \in ToSet(valid), egressIP[f] = egressIP[e]
      PROVE  f = e
  <2>1. f \in admitted /\ f \in Entries
    BY DEF CopiesAreSound, Sound, TypeOK
  <2>2. egressIP[f] \in Egress[f[1]] /\ f[1] \in Proxies
    BY <1>2, <1>3, <2>1 DEF EgressFollowsWork, Entries
  <2>3. f[1] = e[1]
    BY <1>2, <1>3, <2>2 DEF Held, Sure
  <2> QED
    BY <2>1, <2>3 DEF Held
<1>4. egressIP[e] \notin Shared
  <2>1. ByEgress(egressIP[e]) = {e}
    BY <1>1, <1>3 DEF ByEgress
  <2>2. Cardinality(ByEgress(egressIP[e])) = 1
    BY <2>1, FS_Singleton
  <2>3. ~(Cardinality(ByEgress(egressIP[e])) > 1)
    BY <2>2
  <2> QED
    BY <2>3 DEF Shared
<1>5. e \in kept
  BY <1>1, <1>2, <1>4 DEF KeepFastest
<1>6. valid \in Seq(Entries)
  BY DEF TypeOK
<1> QED
  BY <1>1, <1>5, <1>6, KeepFilters

-----------------------------------------------------------------------------
(* Nothing that works is lost without an overlap *)

\* An entry is held as long as it was before, or a worker has just added it while
\* nobody was replacing the pool.
LEMMA HeldBefore ==
    ASSUME TypeOK, Acquiring, WaitingAreFresh, ListsFollowWork, [Next]_vars,
           NEW e \in Entries, Held(e)'
    PROVE  Held(e) \/ (AddValid(e) /\ ~Overwriting)
<1>1. /\ work \in [Entries -> {"none", "checking", "works", "broken", "added", "rejected"}]
      /\ vinput \in Seq(Entries) /\ hand \in Seq(Entries)
  BY DEF TypeOK
<1>2. e \in admitted' /\ e \notin excused' /\ e[1] \in Sure /\ work'[e] # "none"
      /\ \A f \in admitted' : f[1] = e[1] => f = e
  BY DEF Held
<1>3. CASE StartWorker
  <2>1. Head(vinput) \in ToSet(vinput)
    BY <1>1, <1>3, TailLeaves DEF StartWorker, Acquiring
  <2>2. Head(vinput) \notin admitted /\ UNCHANGED <<admitted, excused>>
    BY <1>3, <2>1 DEF WaitingAreFresh, Fresh, StartWorker, pool
  <2>3. work'[e] = work[e]
    BY <1>1, <1>2, <1>3, <2>2 DEF StartWorker
  <2> QED
    BY <1>2, <2>2, <2>3 DEF Held
<1>4. ASSUME NEW f \in Entries, Worker(f)
      PROVE  Held(e) \/ (AddValid(e) /\ ~Overwriting)
  <2>1. CASE Check(f) \/ AddFailed(f)
    <3>1. UNCHANGED <<admitted, excused>> /\ work[f] # "none" /\ work'[e] \in {work[e], work'[f]}
      BY <1>1, <2>1 DEF Check, AddFailed, pool
    <3>2. work[e] # "none"
      BY <1>1, <1>2, <2>1, <3>1 DEF Check, AddFailed
    <3> QED
      BY <1>2, <3>1, <3>2 DEF Held
  <2>2. CASE AddValid(f)
    <3>1. CASE f = e
      BY <1>2, <2>2, <3>1 DEF AddValid, Admit
    <3>2. CASE f # e
      <4>1. work'[e] = work[e] /\ e \in admitted /\ e \notin excused /\ admitted \subseteq admitted'
        BY <1>1, <1>2, <2>2, <3>2 DEF AddValid, Admit
      <4> QED
        BY <1>2, <4>1 DEF Held
    <3> QED
      BY <3>1, <3>2
  <2> QED
    BY <1>4, <2>1, <2>2 DEF Worker
<1>5. CASE AddByHand
  <2>1. Head(hand) \in ToSet(hand) /\ ui = "adding" /\ UNCHANGED work
    BY <1>1, <1>5, TailLeaves DEF AddByHand, valv
  <2>2. work[Head(hand)] = "none"
    BY <2>1 DEF WaitingAreFresh, Fresh
  <2>3. admitted \subseteq admitted' /\ excused \subseteq excused'
        /\ admitted' \subseteq admitted \cup {Head(hand)}
    BY <1>5 DEF AddByHand, Admit
  <2> QED
    BY <1>2, <2>1, <2>2, <2>3 DEF Held
<1>6. CASE ClearValid
  <2>1. UNCHANGED <<work, admitted>> /\ excused \subseteq excused'
    BY <1>6 DEF ClearValid, valv
  <2> QED
    BY <1>2, <2>1 DEF Held
<1>7. CASE \/ ValidateAll \/ RetryTaps \/ NextInput \/ EndStopped \/ Deduplicate
           \/ AddDirect \/ AddDirectEnds \/ ClearFailed \/ RetryFailed
           \/ RetryClears \/ StartAutoReval \/ StopAutoReval
           \/ StartScan \/ StopScan \/ Scan \/ UNCHANGED vars
           \/ \E kept \in cleanups : Cleanup(kept) \/ KeepAll(kept)
           \/ \E g \in Timers : Timer(g) \/ Tick(g)
  <2>1. UNCHANGED <<work, admitted, excused>>
    BY <1>7 DEF ValidateAll, RetryTaps, NextInput, EndStopped, Deduplicate,
       AddDirect, AddDirectEnds, ClearFailed, RetryFailed, RetryClears,
       StartAutoReval, StopAutoReval, StartScan, StopScan, Scan, EndScan, NextTarget,
       ReadPool, ScanReturns, ReadSurvivors, Prune, Advance, Cleanup, KeepAll, Timer,
       TimerEnds, Revalidated, Recheck, Tick, vars, valv, pool
  <2> QED
    BY <1>2, <2>1 DEF Held
<1> QED
  BY <1>3, <1>4, <1>5, <1>6, <1>7 DEF Next, User, Handler, Validation

LEMMA HeldStep ==
    ASSUME TypeOK, Acquiring, WaitingAreFresh, ListsFollowWork, CopiesAreSound,
           EgressFollowsWork, HeldAreKept, [Next]_vars
    PROVE  HeldAreKept'
<1> SUFFICES ASSUME NEW e \in Entries, Held(e)' PROVE Everywhere(e)'
  BY DEF HeldAreKept
<1>1. /\ valid \in Seq(Entries) /\ hand \in Seq(Entries) /\ cleanups \subseteq Seq(Entries)
      /\ survivors \in Seq(Entries) /\ rkept \in [Timers -> Seq(Entries)]
      /\ unchecked \in [Timers -> SUBSET Entries]
      /\ rpc \in [Timers -> {"none", "waiting", "checking", "ended"}]
      /\ Works \in [Proxies -> SUBSET BOOLEAN] /\ dead \subseteq Mortal
  BY ProxyAssumption DEF TypeOK
<1>2. CASE AddValid(e) /\ ~Overwriting
  <2>1. ToSet(valid') = ToSet(valid) \cup {e}
    BY <1>1, <1>2, AppendAdds DEF AddValid
  <2>2. cleanups = {} /\ spc # "write" /\ \A g \in Timers : rpc[g] # "checking"
    BY <1>2 DEF Overwriting
  <2>3. UNCHANGED <<cleanups, spc, rpc>>
    BY <1>2 DEF AddValid, revv, scanv
  <2> QED
    BY <2>1, <2>2, <2>3 DEF Everywhere
<1> SUFFICES ASSUME Held(e) PROVE Everywhere(e)'
  BY <1>2, HeldBefore
<1>3. Everywhere(e)
  BY DEF HeldAreKept
\* The pool grows.
<1>4. ASSUME NEW f \in Entries, valid' \in {valid, Append(valid, f)},
             UNCHANGED <<survivors, cleanups, spc, rpc, unchecked, rkept>>
      PROVE  Everywhere(e)'
  <2>1. ToSet(Append(valid, f)) = ToSet(valid) \cup {f}
    BY <1>1, <1>4, AppendAdds
  <2>2. ToSet(valid) \subseteq ToSet(valid')
    BY <1>4, <2>1
  <2> QED
    BY <1>3, <1>4, <2>2 DEF Everywhere
<1>5. ASSUME NEW f \in Entries, AddValid(f)
      PROVE  Everywhere(e)'
  BY <1>4, <1>5 DEF AddValid, revv, scanv
<1>6. CASE AddByHand
  <2>1. Head(hand) \in Entries
    BY <1>1, <1>6 DEF AddByHand
  <2> QED
    BY <1>4, <1>6, <2>1 DEF AddByHand, valv, revv, scanv
<1>7. CASE Deduplicate
  <2>1. UNCHANGED <<valid, survivors, spc, rpc, unchecked, rkept>>
    BY <1>7 DEF Deduplicate, pool, revv, scanv
  <2>2. \A kept \in KeepFastest : e \in ToSet(Keep(valid, kept))
    BY DeduplicateKeepsHeld
  <2>3. \A kept \in cleanups' : e \in ToSet(kept)
    BY <1>3, <1>7, <2>2, DeduplicateKeeps DEF Everywhere
  <2> QED
    BY <1>3, <2>1, <2>3 DEF Everywhere
<1>8. ASSUME NEW kept \in cleanups, Cleanup(kept) \/ KeepAll(kept)
      PROVE  Everywhere(e)'
  <2>1. /\ UNCHANGED <<survivors, spc, rpc, unchecked, rkept>>
        /\ valid' \in {valid, kept} /\ cleanups' \subseteq cleanups
    BY <1>8 DEF Cleanup, KeepAll, pool, revv, scanv
  <2> QED
    BY <1>3, <2>1 DEF Everywhere
<1>9. CASE ClearValid
  <2>1. e \in excused'
    BY <1>3, <1>9 DEF ClearValid, Everywhere
  <2> QED
    BY <2>1 DEF Held
<1>10. CASE StartAutoReval
  <2>1. /\ UNCHANGED <<valid, survivors, cleanups, spc, unchecked, rkept>>
        /\ \A g \in Timers : rpc'[g] = "checking" => rpc[g] = "checking"
    BY <1>1, <1>10 DEF StartAutoReval, pool, valv, scanv
  <2> QED
    BY <1>3, <2>1 DEF Everywhere
<1>11. ASSUME NEW g \in Timers, TimerEnds(g) \/ Tick(g)
       PROVE  Everywhere(e)'
  <2>1. /\ UNCHANGED <<valid, survivors, cleanups, spc, rkept>>
        /\ rpc'[g] = "checking" => unchecked'[g] = ToSet(valid)
        /\ \A h \in Timers \ {g} : rpc'[h] = rpc[h] /\ unchecked'[h] = unchecked[h]
    BY <1>1, <1>11 DEF TimerEnds, Tick, pool, valv, scanv
  <2>2. ASSUME NEW h \in Timers, rpc'[h] = "checking"
        PROVE  e \in unchecked'[h] \cup ToSet(rkept'[h])
    BY <1>3, <2>1, <2>2 DEF Everywhere
  <2> QED
    BY <1>3, <2>1, <2>2 DEF Everywhere
<1>12. ASSUME NEW g \in Timers, NEW f \in Entries, Recheck(g, f)
       PROVE  Everywhere(e)'
  <2>1. PICK ok \in Works[f[1]] :
           rkept' = [rkept EXCEPT ![g] = IF ok THEN Append(@, f) ELSE @]
    BY <1>12 DEF Recheck
  <2>2. /\ UNCHANGED <<valid, survivors, cleanups, spc, rpc>> /\ rpc[g] = "checking"
        /\ unchecked'[g] = unchecked[g] \ {f}
        /\ rkept'[g] = IF ok THEN Append(rkept[g], f) ELSE rkept[g]
        /\ \A h \in Timers \ {g} : rkept'[h] = rkept[h] /\ unchecked'[h] = unchecked[h]
    BY <1>1, <1>12, <2>1 DEF Recheck, pool, valv, scanv
  <2>3. rkept[g] \in Seq(Entries)
    BY <1>1
  <2>4. ToSet(Append(rkept[g], f)) = ToSet(rkept[g]) \cup {f}
    BY <1>12, <2>3, AppendAdds
  <2>5. e = f => ok
    <3>1. Works[e[1]] = {TRUE}
      BY DEF Held, Sure
    <3>2. e = f => ok = TRUE
      BY <3>1
    <3> QED
      BY <3>2
  <2>6. e \in unchecked'[g] \cup ToSet(rkept'[g])
    BY <1>3, <2>2, <2>4, <2>5 DEF Everywhere
  <2>7. ASSUME NEW h \in Timers, rpc'[h] = "checking"
        PROVE  e \in unchecked'[h] \cup ToSet(rkept'[h])
    BY <1>3, <2>2, <2>6, <2>7 DEF Everywhere
  <2> QED
    BY <1>3, <2>2, <2>7 DEF Everywhere
<1>13. ASSUME NEW g \in Timers, Revalidated(g)
       PROVE  Everywhere(e)'
  <2>1. /\ UNCHANGED <<survivors, cleanups, spc, unchecked>> /\ valid' = rkept[g]
        /\ unchecked[g] = {} /\ rpc[g] = "checking" /\ rpc'[g] = "waiting"
        /\ \A h \in Timers \ {g} : rkept'[h] = rkept[h] /\ rpc'[h] = rpc[h]
    BY <1>1, <1>13 DEF Revalidated, valv, scanv
  <2>2. e \in ToSet(valid')
    BY <1>3, <2>1 DEF Everywhere
  <2>3. ASSUME NEW h \in Timers, rpc'[h] = "checking"
        PROVE  e \in unchecked'[h] \cup ToSet(rkept'[h])
    BY <1>3, <2>1, <2>3 DEF Everywhere
  <2> QED
    BY <1>3, <2>1, <2>2, <2>3 DEF Everywhere
<1>14. CASE ReadSurvivors
  <2>1. /\ UNCHANGED <<valid, cleanups, rpc, unchecked, rkept>>
        /\ survivors' = Keep(valid, {f \in ToSet(valid) : Addr(f) \notin dead})
    BY <1>14 DEF ReadSurvivors, pool, valv, revv
  <2>2. Addr(e) \notin dead
    BY <1>1 DEF Held, Sure, Addr
  <2>3. e \in ToSet(survivors')
    BY <1>1, <1>3, <2>1, <2>2, KeepFilters DEF Everywhere
  <2> QED
    BY <1>3, <2>1, <2>3 DEF Everywhere
<1>15. CASE Prune
  <2>1. /\ spc = "write" /\ spc' = "advance" /\ valid' = survivors
        /\ UNCHANGED <<cleanups, rpc, unchecked, rkept>>
    BY <1>15 DEF Prune, valv, revv
  <2> QED
    BY <1>3, <2>1 DEF Everywhere
<1>16. CASE \/ StartScan \/ StopScan \/ EndScan \/ NextTarget \/ ReadPool \/ ScanReturns
            \/ Advance
  <2>1. /\ UNCHANGED <<valid, cleanups, rpc, unchecked, rkept>>
        /\ spc' = "write" => spc = "write" /\ UNCHANGED survivors
    BY <1>16 DEF StartScan, StopScan, EndScan, NextTarget, ReadPool, ScanReturns, Advance,
       pool, valv, revv
  <2> QED
    BY <1>3, <2>1 DEF Everywhere
<1>17. CASE \/ ValidateAll \/ RetryTaps \/ NextInput \/ StartWorker \/ EndStopped
            \/ AddDirect \/ AddDirectEnds \/ ClearFailed \/ RetryFailed \/ RetryClears
            \/ StopAutoReval \/ UNCHANGED vars
            \/ \E f \in Entries : Check(f) \/ AddFailed(f)
  <2>1. UNCHANGED <<valid, survivors, cleanups, spc, rpc, unchecked, rkept>>
    BY <1>17 DEF ValidateAll, RetryTaps, NextInput, StartWorker, EndStopped, AddDirect,
       AddDirectEnds, ClearFailed, RetryFailed, RetryClears, StopAutoReval, Check,
       AddFailed, vars, pool, valv, revv, scanv
  <2> QED
    BY <1>3, <2>1 DEF Everywhere
<1> QED
  BY <1>5, <1>6, <1>7, <1>8, <1>9, <1>10, <1>11, <1>12, <1>13, <1>14, <1>15, <1>16, <1>17
     DEF Next, User, Handler, Validation, Scan, Worker, Timer

-----------------------------------------------------------------------------
(* The theorems *)

LEMMA InitInv == Init => Inv
<1> SUFFICES ASSUME Init PROVE Inv
  OBVIOUS
<1>0. <<>> \in Seq(Entries) /\ 0 \in 0 .. MaxParses /\ 0 \in 0 .. MaxActs /\ 0 \in 0 .. Queue
  <2>1. MaxParses \in Nat /\ MaxActs \in Nat /\ Queue \in Nat
    BY BoundsAssumption
  <2> QED
    BY <2>1
<1> USE DEF Init
<1>1. TypeOK
  BY <1>0 DEF TypeOK
<1>2. ToSet(<<>>) = {} /\ IsInjective(<<>>)
  BY EmptyList
<1>3. Acquiring /\ QuietWhenOff
  BY DEF Acquiring, QuietWhenOff, Running
<1>4. WaitingAreFresh /\ ListsFollowWork
  BY <1>2 DEF WaitingAreFresh, ListsFollowWork, Fresh
<1>5. CopiesAreSound
  BY <1>2 DEF CopiesAreSound, Sound
<1>6. EgressFollowsWork /\ HeldAreKept
  BY DEF EgressFollowsWork, HeldAreKept, Held
<1> QED
  BY <1>1, <1>3, <1>4, <1>5, <1>6 DEF Inv

LEMMA NextInv == Inv /\ [Next]_vars => Inv'
  BY TypeStep, AcquiringStep, QuietStep, FreshStep, ListsStep, CopiesStep, EgressStep, HeldStep
     DEF Inv

LEMMA Invariance == Spec => []Inv
  BY InitInv, NextInv, PTL DEF Spec

\* The state of the pool's writers has its types (app.go, pool.go).
THEOREM WritersTyped == Spec => []TypeOK
<1>1. Inv => TypeOK
  BY DEF Inv
<1> QED
  BY <1>1, Invariance, PTL

\* A run of "Validate All" that is off, stopped or ended, has no worker left that
\* could still change the lists: its wg.Wait() comes first (app.go:513-607).
THEOREM RunsAreQuiet == Spec => []QuietWhenOff
<1>1. Inv => QuietWhenOff
  BY DEF Inv
<1> QED
  BY <1>1, Invariance, PTL

\* However many timers, dialogs and scans replace the pool with what they read
\* before (SetValid, pool.go), and however the buttons and the workers add to it:
\* the pool holds no entry twice, none that failed its check and none nobody added.
THEOREM PoolStaysSound == Spec => []PoolIsSound
<1>1. Inv => PoolIsSound
  BY DEF Inv, CopiesAreSound, Sound, ListsFollowWork, PoolIsSound
<1> QED
  BY <1>1, Invariance, PTL

\* A working proxy that the user did not clear is missing from the pool only if it
\* was added between a writer's read and its write: the scan's pruning, the
\* revalidation and the cleanup lose nothing else.
THEOREM LossTakesOverlap == Spec => []LossNeedsOverlap
<1>1. Inv => LossNeedsOverlap
  BY DEF Inv, HeldAreKept, Held, Everywhere, LossNeedsOverlap, TypeOK
<1> QED
  BY <1>1, Invariance, PTL
=============================================================================
