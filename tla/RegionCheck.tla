---------------------------- MODULE RegionCheck ----------------------------
(***************************************************************************)
(* ProbeRegion and DecideRegionBlock (scanner/region.go): up to PerCountry   *)
(* proxies of each country dial one host:port, DialConc at a time, and the   *)
(* votes are tallied per country.  A check takes the next free call numbers, *)
(* one for each of its jobs; what an earlier check left behind goes on.       *)
(***************************************************************************)
EXTENDS DialCtx, FiniteSets, Sequences, SequencesExt

CONSTANTS Countries,     \* the country codes, in sorted order
          Country,       \* Country[p] is the country of a proxy, "" if unknown
          PerCountry, DialConc

ASSUME RegionAssumption == PerCountry \in Nat \ {0} /\ DialConc \in Nat \ {0}

VARIABLES
    jobs,       \* the jobs of all checks: country and proxy
    from,       \* how many of them belong to checks that have ended
    worker,     \* the goroutine of a job
    votes       \* its vote: 1 open, -1 refused, 0 neither

rvars == <<jobs, from, worker, votes>>

RegionInit ==
    /\ DialInit
    /\ jobs = <<>> /\ from = 0
    /\ worker = [c \in Calls |-> "none"]
    /\ votes = [c \in Calls |-> 0]

\* A country that is not known is listed as "??".
CountryOf(p) == IF Country[p] = "" THEN "??" ELSE Country[p]

\* The jobs for a pool: the first PerCountry proxies of each country, country
\* by country.
JobsOf(pool) ==
    LET Code(i)  == CountryOf(pool[i])
        Rank(i)  == CHOOSE r \in DOMAIN Countries : Countries[r] = Code(i)
        Taken    == {i \in DOMAIN pool :
                        Cardinality({j \in 1 .. i - 1 : Code(j) = Code(i)}) < PerCountry}
        order    == SetToSortSeq(Taken, LAMBDA i, j :
                        Rank(i) < Rank(j) \/ (Rank(i) = Rank(j) /\ i < j))
    IN  [n \in 1 .. Cardinality(Taken) |->
            [country |-> Code(order[n]), proxy |-> pool[order[n]]]]

\* All goroutines are started, with a context that has just been made.
StartProbe(new) ==
    LET queued == Len(jobs) + 1 .. Len(jobs \o new)
    IN  /\ jobs' = jobs \o new
        /\ worker' = [c \in Calls |-> IF c \in queued THEN "queued" ELSE worker[c]]
        /\ expired' = FALSE
        /\ UNCHANGED <<from, votes, dialer, ch, got, closer, open, said>>

Current == from + 1 .. Len(jobs)
Working == {c \in Calls : worker[c] \in {"dialing", "back"}}

Becomes(c, state) == worker' = [worker EXCEPT ![c] = state]

\* A version that gives its place back before it dials.
EnterSem_NoLimit(c) ==
    /\ worker[c] = "queued"
    /\ IF expired THEN Becomes(c, "done") /\ UNCHANGED dvars
       ELSE Becomes(c, "dialing") /\ StartDial(c)
    /\ UNCHANGED <<jobs, from, votes>>

\* A place in sem; a job whose turn comes too late votes for nothing.
EnterSem(c) ==
    /\ worker[c] = "queued" /\ Cardinality(Working) < DialConc
    /\ IF expired THEN Becomes(c, "done") /\ UNCHANGED dvars
       ELSE Becomes(c, "dialing") /\ StartDial(c)
    /\ UNCHANGED <<jobs, from, votes>>

DialReturns(c) ==
    /\ worker[c] = "dialing"
    /\ TakeResult(c) \/ GiveUp(c)
    /\ Becomes(c, "back")
    /\ UNCHANGED <<jobs, from, votes>>

\* The vote of a result; an error of the proxy itself is none.
VoteOf(result) ==
    IF result = Connected THEN 1 ELSE IF IsProxyError(result) THEN 0 ELSE -1

\* The worker is done with what its dial returned, after so many Closes.
Finish(c, vote, times) ==
    /\ votes' = [votes EXCEPT ![c] = vote]
    /\ open' = [open EXCEPT ![c] = @ - times * Conns(got[c])]
    /\ got' = [got EXCEPT ![c] = Nothing]
    /\ Becomes(c, "done")
    /\ UNCHANGED <<jobs, from, expired, dialer, ch, closer, said>>

\* A version that looks only at the error.
Judge_NoRecheck(c) ==
    /\ worker[c] = "back"
    /\ Finish(c, VoteOf(got[c]), 1)

\* A version that goes on after closing the connection of a late job.
Judge_FallsThrough(c) ==
    /\ worker[c] = "back"
    /\ Finish(c, VoteOf(got[c]), IF expired THEN 2 ELSE 1)

\* The context is asked again before the result counts; the connection is
\* closed in any case, and the place in sem given back.
Judge(c) ==
    /\ worker[c] = "back"
    /\ Finish(c, IF expired THEN 0 ELSE VoteOf(got[c]), 1)

\* The check's time is over.
Expire ==
    /\ ~expired /\ \E c \in Current : worker[c] # "done"
    /\ expired' = TRUE
    /\ UNCHANGED <<rvars, dialer, ch, got, closer, open, said>>

Left(c) == (DialEnds(c) \/ LateResult(c)) /\ UNCHANGED rvars

ProbeStep(c) == EnterSem(c) \/ DialReturns(c) \/ Judge(c) \/ Left(c)

ProbesDone == \A c \in Current : worker[c] = "done"

\* ProbeRegion's caller returns: the context is cancelled and the votes are
\* forgotten.
EndProbe ==
    /\ expired' = TRUE
    /\ votes' = [c \in Calls |-> 0] /\ said' = [c \in Calls |-> Nothing]
    /\ from' = Len(jobs)
    /\ UNCHANGED <<jobs, worker, dialer, ch, got, closer, open>>

\* The tallies, and what is concluded from them.
Votes(country, v) == {c \in Current : jobs[c].country = country /\ votes[c] = v}
Probe(country) == [Open    |-> Cardinality(Votes(country, 1)),
                   Refused |-> Cardinality(Votes(country, -1)),
                   Errored |-> Cardinality(Votes(country, 0))]
Status(p) ==
    IF p.Open > 0 THEN "open" ELSE IF p.Refused > 0 THEN "blocked" ELSE "inconclusive"

DecideRegionBlock(tally) ==
    LET blockedIn == {c \in DOMAIN tally : Status(tally[c]) = "blocked"}
        openIn    == {c \in DOMAIN tally : Status(tally[c]) = "open"}
    IN  IF openIn # {} /\ blockedIn # {} THEN "blocked somewhere"
        ELSE IF openIn # {} THEN "open everywhere" ELSE "inconclusive"

Tally == [country \in {jobs[c].country : c \in Current} |-> Probe(country)]

-----------------------------------------------------------------------------
Holders(c) == Conns(ch[c]) + (IF worker[c] = "back" THEN Conns(got[c]) ELSE 0)

\* A connection that a dial has made is in the hands of exactly one goroutine
\* until it is closed, once, whoever gave up first: the result in the channel
\* goes to the caller or to the goroutine that waits for late ones.
OneOwner == \A c \in Calls : open[c] = Holders(c)

TargetRefused(result) == result \in ErrorKinds \ {Canceled} /\ ~IsProxyError(result)

\* A vote is what the dial of that proxy said in time: time that ran out is
\* never a refusal, and a port is called blocked only if it was reached from
\* one country and refused to a proxy of another.
VotesAreEvidence ==
    /\ \A c \in Calls :
           /\ votes[c] = 1  => said[c] = Connected
           /\ votes[c] = -1 => TargetRefused(said[c])
    /\ DecideRegionBlock(Tally) = "blocked somewhere" =>
           \E c, d \in Current :
               said[c] = Connected /\ TargetRefused(said[d]) /\ jobs[c].country # jobs[d].country
    /\ ~expired => \A c \in Current : worker[c] = "done" => votes[c] = VoteOf(said[c])
=============================================================================
