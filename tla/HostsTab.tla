------------------------------ MODULE HostsTab ------------------------------
(***************************************************************************)
(* The Hosts tab (gui/app.go): the store of what the scans have found,     *)
(* which a scan's goroutine writes under hostsMu, and the widgets, which   *)
(* only the main thread touches.  Other goroutines post functions to that  *)
(* thread (fyne.Do), which runs them one at a time and in order.  The geo- *)
(* block button starts a RegionCheck.                                      *)
(***************************************************************************)
EXTENDS RegionCheck, NmapChunks, Functions

CONSTANTS Hosts,        \* addresses that a scan may report
          Keys,         \* port and protocol: <<port, proto>>
          Findings,     \* what a scan reports of a target: sequences of findings
          Pools,        \* valid pools at the time of a geo-block check
          SortModes,    \* choices of the sort selector
          MaxEvents,    \* bound of the model: reports, checks and clearings
          MaxHosts,     \* how many hosts are dealt out to how many proxies
          MaxProxies

ASSUME HostsAssumption ==
    /\ IsFiniteSet(Hosts) /\ "" \notin Hosts
    /\ IsFiniteSet(Keys) /\ Keys \subseteq Nat \X STRING
    /\ Findings \subseteq Seq([host : Hosts \cup {""}, key : Keys, service : Nat,
                              proxies : Seq(STRING)])
    /\ "Port up" \in SortModes /\ Pools \subseteq Seq(DOMAIN Country)

VARIABLES
    hostsMap,       \* place of a host in hostsSlice, 0 if none
    hostsSlice,     \* the hosts: address, ports (pointers to entries), portIdx
    entries,        \* every PortEntry ever made; a pointer is a place in it
    found,          \* what was reported since the list was cleared
    pushing,        \* the scan has left hostsMu and not yet posted the refresh
    posted,         \* functions that wait for the main thread
    selHost,        \* the selected host's place in hostsSlice, 0 if none
    selPort,        \* selPortEntry, 0 for nil
    sortMode,       \* sortSelect.Selected
    portView,       \* the list of ports shown
    pane,           \* the detail pane
    showingGeo,     \* it shows a report
    geoRunning,     \* a check runs
    checking,       \* host and port of that check
    events          \* reports made, checks started and clearings

store  == <<hostsMap, hostsSlice, entries>>
feed   == <<found, pushing>>
select == <<selHost, selPort, sortMode, portView>>
detail == <<pane, showingGeo>>
geo    == <<geoRunning, checking>>
vars   == <<store, feed, posted, select, detail, geo, events, dvars, rvars>>

NoEntry == 0
Blank   == [shows |-> "none", what |-> <<>>]

Init ==
    /\ RegionInit
    /\ hostsMap = [h \in Hosts |-> 0] /\ hostsSlice = <<>> /\ entries = <<>>
    /\ found = {} /\ pushing = FALSE
    /\ posted = <<>>
    /\ selHost = 0 /\ selPort = NoEntry /\ sortMode = "Port up" /\ portView = <<>>
    /\ pane = Blank /\ showingGeo = FALSE
    /\ geoRunning = FALSE /\ checking = <<>> /\ events = 0

Event == events < MaxEvents /\ events' = events + 1

-----------------------------------------------------------------------------
(* The store *)

dedupeAppend(base, add) ==
    LET upTo[i \in 0 .. Len(add)] ==
            IF i = 0 THEN base
            ELSE IF add[i] = "" \/ Contains(upTo[i - 1], add[i]) THEN upTo[i - 1]
            ELSE Append(upTo[i - 1], add[i])
    IN  upTo[Len(add)]

\* A finding of a port that is known: its proxies are added, and a service
\* that was not known before (names of services are numbers in their order, 0
\* for none).
MergeEntry(e, f) ==
    [e EXCEPT !.proxies = dedupeAppend(@, f.proxies),
              !.service = IF @ = 0 THEN f.service ELSE @]

\* A host that was not known gets a row of its own.
WithHost(s, h) ==
    IF s.map[h] # 0 THEN s
    ELSE [s EXCEPT !.map[h] = Len(s.slice) + 1,
                   !.slice = Append(@, [ip |-> h, ports |-> <<>>, portIdx |-> [k \in Keys |-> 0]])]

\* So does a port of the host, at the entry e.
WithPort(row, k, e) == [row EXCEPT !.ports = Append(@, e), !.portIdx[k] = Len(row.ports) + 1]

\* A version that keeps the places of the ports in one index for all hosts.
AddFinding_OneIndex(old, f) ==
    IF f.host = "" THEN old
    ELSE LET s  == WithHost(old, f.host)
             hi == s.map[f.host]
             pi == IF s.slice[1].portIdx[f.key] <= Len(s.slice[hi].ports)
                   THEN s.slice[1].portIdx[f.key] ELSE 0
         IN  IF pi # 0
             THEN [s EXCEPT !.entries[s.slice[hi].ports[pi]] = MergeEntry(@, f)]
             ELSE [s EXCEPT
                   !.entries = Append(@, [key |-> f.key, service |-> f.service,
                                          proxies |-> dedupeAppend(<<>>, f.proxies)]),
                   !.slice[hi].ports = Append(@, Len(s.entries) + 1),
                   !.slice[1].portIdx[f.key] = Len(s.slice[hi].ports) + 1]

\* One finding; those without a host are passed over.
AddFinding(old, f) ==
    IF f.host = "" THEN old
    ELSE LET s  == WithHost(old, f.host)
             hi == s.map[f.host]
             pi == s.slice[hi].portIdx[f.key]
         IN  IF pi # 0
             THEN [s EXCEPT !.entries[s.slice[hi].ports[pi]] = MergeEntry(@, f)]
             ELSE [s EXCEPT
                   !.entries = Append(@, [key |-> f.key, service |-> f.service,
                                          proxies |-> dedupeAppend(<<>>, f.proxies)]),
                   !.slice[hi] = WithPort(@, f.key, Len(s.entries) + 1)]

\* One finding after the other.
AddFindings(old, fs) ==
    LET upTo[i \in 0 .. Len(fs)] == IF i = 0 THEN old ELSE AddFinding(upTo[i - 1], fs[i])
    IN  upTo[Len(fs)]

\* What a finding says, for comparison with the store.
Facts(f) == IF f.host = "" THEN {} ELSE {<<f.host, f.key, p>> : p \in Range(f.proxies) \ {""}}

\* pushFindings writes all findings in one critical section.
PushFindings ==
    /\ ~pushing /\ Event
    /\ \E fs \in Findings :
           /\ fs # <<>>
           /\ LET s == AddFindings([map |-> hostsMap, slice |-> hostsSlice, entries |-> entries], fs)
              IN  hostsMap' = s.map /\ hostsSlice' = s.slice /\ entries' = s.entries
           /\ found' = found \cup UNION {Facts(fs[i]) : i \in DOMAIN fs}
    /\ pushing' = TRUE
    /\ UNCHANGED <<posted, select, detail, geo, dvars, rvars>>

\* Then it posts hostsRefresh.
PostRefresh ==
    /\ pushing
    /\ pushing' = FALSE
    /\ posted' = Append(posted, [do |-> "refresh", what |-> <<>>])
    /\ UNCHANGED <<store, found, select, detail, geo, events, dvars, rvars>>

-----------------------------------------------------------------------------
(* The main thread *)

\* What sortPortView goes by, in the entries es.
SortKey(es, mode, e) ==
    LET port == es[e].key[1]
    IN  CASE mode = "Port down"    -> <<-port, 0>>
          [] mode = "Service"      -> <<es[e].service, port>>
          [] mode = "Most proxies" -> <<-Len(es[e].proxies), port>>
          [] OTHER                 -> <<port, 0>>

\* The sort is stable, and a host's ports are listed in the order they were made.
Before(es, mode, e, d) ==
    LET a == SortKey(es, mode, e)
        b == SortKey(es, mode, d)
    IN  \/ a[1] < b[1]
        \/ a[1] = b[1] /\ a[2] < b[2]
        \/ a = b /\ e < d

SortPorts(ports, es, mode) ==
    CHOOSE v \in [DOMAIN ports -> ToSet(ports)] :
        /\ ToSet(v) = ToSet(ports)
        /\ \A i, j \in DOMAIN v : i < j => Before(es, mode, v[i], v[j])

Ports(host) == IF host \in DOMAIN hostsSlice THEN hostsSlice[host].ports ELSE <<>>

PortView(host, mode) == SortPorts(Ports(host), entries, mode)

\* renderProxies
RenderProxies(e) ==
    /\ showingGeo' = FALSE
    /\ pane' = IF e = NoEntry THEN Blank ELSE [shows |-> "port", what |-> <<e, entries[e]>>]

\* A version that leaves the port of the host before selected.
SelectHost_KeepsPort(h) ==
    /\ h \in DOMAIN hostsSlice
    /\ selHost' = h
    /\ portView' = PortView(h, sortMode)
    /\ RenderProxies(NoEntry)
    /\ UNCHANGED <<store, feed, posted, selPort, sortMode, geo, events, dvars, rvars>>

SelectHost(h) ==
    /\ h \in DOMAIN hostsSlice
    /\ selHost' = h /\ selPort' = NoEntry
    /\ portView' = PortView(h, sortMode)
    /\ RenderProxies(NoEntry)
    /\ UNCHANGED <<store, feed, posted, sortMode, geo, events, dvars, rvars>>

SelectPort(row) ==
    /\ row \in DOMAIN portView
    /\ selPort' = portView[row]
    /\ RenderProxies(portView[row])
    /\ UNCHANGED <<store, feed, posted, selHost, sortMode, portView, geo, events, dvars, rvars>>

SelectSort(mode) ==
    /\ sortMode' = mode /\ selPort' = NoEntry
    /\ portView' = PortView(selHost, mode)
    /\ RenderProxies(NoEntry)
    /\ UNCHANGED <<store, feed, posted, selHost, geo, events, dvars, rvars>>

ClearAll ==
    /\ Event
    /\ hostsMap' = [h \in Hosts |-> 0] /\ hostsSlice' = <<>> /\ found' = {}
    /\ selHost' = 0 /\ selPort' = NoEntry /\ portView' = <<>>
    /\ RenderProxies(NoEntry)
    /\ UNCHANGED <<entries, pushing, posted, sortMode, geo, dvars, rvars>>

Note == pane' = [shows |-> "note", what |-> <<>>] /\ UNCHANGED showingGeo

KnownCountries(pool) == {Country[p] : p \in Range(pool)} \ {""}

\* The button of the geo-block check.
TapGeo ==
    /\ UNCHANGED <<store, feed, posted, select>>
    /\ \/ /\ selHost = 0 \/ selPort = NoEntry
          /\ Note /\ UNCHANGED <<geo, events, dvars, rvars>>
       \/ /\ selHost # 0 /\ selPort # NoEntry /\ ~geoRunning
          /\ \E pool \in Pools :
                IF Cardinality(KnownCountries(pool)) < 2
                THEN UNCHANGED <<geo, events, dvars, rvars>>
                ELSE /\ Event /\ Len(jobs) + Len(JobsOf(pool)) <= NumCalls
                     /\ geoRunning' = TRUE
                     /\ checking' = <<hostsSlice[selHost].ip, entries[selPort].key[1]>>
                     /\ StartProbe(JobsOf(pool))
          /\ Note

\* The check's goroutine posts its report, and then ends.
PostReport ==
    /\ geoRunning /\ checking # <<>> /\ ProbesDone
    /\ posted' = Append(posted, [do |-> "report",
                                 what |-> <<checking, DecideRegionBlock(Tally)>>])
    /\ checking' = <<>>
    /\ UNCHANGED <<store, feed, select, detail, geoRunning, events, dvars, rvars>>

GeoEnds ==
    /\ geoRunning /\ checking = <<>>
    /\ geoRunning' = FALSE
    /\ EndProbe
    /\ UNCHANGED <<store, feed, posted, select, detail, checking, events>>

\* A version that leaves the pane to the next selection.
Refresh_ListsOnly ==
    /\ portView' = PortView(selHost, sortMode)
    /\ UNCHANGED <<detail, selHost, selPort, sortMode>>

\* hostsRefresh: the lists, and the pane unless it shows a report.
Refresh ==
    /\ portView' = PortView(selHost, sortMode)
    /\ IF showingGeo THEN UNCHANGED detail ELSE RenderProxies(selPort)
    /\ UNCHANGED <<selHost, selPort, sortMode>>

ShowReport(what) ==
    /\ pane' = [shows |-> "geo", what |-> what] /\ showingGeo' = TRUE
    /\ UNCHANGED select

\* The main thread runs the first function that was posted.
RunPosted ==
    /\ posted # <<>> /\ posted' = Tail(posted)
    /\ IF Head(posted).do = "refresh" THEN Refresh ELSE ShowReport(Head(posted).what)
    /\ UNCHANGED <<store, feed, geo, events, dvars, rvars>>

-----------------------------------------------------------------------------
Tab == <<store, feed, posted, select, detail, geo, events>>

Probing(c) == ProbeStep(c) /\ UNCHANGED Tab
TimeOver   == Expire /\ UNCHANGED Tab

User ==
    \/ \E h \in DOMAIN hostsSlice : SelectHost(h)
    \/ \E row \in DOMAIN portView : SelectPort(row)
    \/ \E mode \in SortModes : SelectSort(mode)
    \/ ClearAll
    \/ TapGeo

Next ==
    \/ PushFindings \/ PostRefresh
    \/ User
    \/ RunPosted
    \/ PostReport \/ GeoEnds
    \/ TimeOver
    \/ \E c \in Calls : Probing(c)

\* Dials end within their time limit and the goroutines of a check go on;
\* nobody has to tap a button, and no scan has to report anything.
Fairness ==
    /\ WF_vars(PostReport \/ GeoEnds)
    /\ \A c \in Calls : WF_vars(Probing(c))

Spec == Init /\ [][Next]_vars /\ Fairness

-----------------------------------------------------------------------------
TypeOK ==
    /\ hostsMap \in [Hosts -> 0 .. Cardinality(Hosts)]
    /\ \A i \in DOMAIN hostsSlice :
           /\ hostsSlice[i].ip \in Hosts
           /\ hostsSlice[i].portIdx \in [Keys -> 0 .. Cardinality(Keys)]
           /\ \A j \in DOMAIN hostsSlice[i].ports : hostsSlice[i].ports[j] \in DOMAIN entries
    /\ selHost \in 0 .. Len(hostsSlice) /\ selPort \in 0 .. Len(entries)
    /\ sortMode \in SortModes /\ showingGeo \in BOOLEAN /\ geoRunning \in BOOLEAN
    /\ pane.shows \in {"none", "note", "port", "geo"}
    /\ votes \in [Calls -> {-1, 0, 1}]
    /\ got \in [Calls -> Results \cup {Nothing, Canceled}]
    /\ Cardinality(Working) <= DialConc
    /\ Len(jobs) <= NumCalls

\* The store says what was reported since it was cleared, neither more nor
\* less: a host has one row and a port of it one entry, however often and in
\* whatever order rescans report them, and the indices lead to them.
StoreIsFindings ==
    /\ \A h \in Hosts, i \in DOMAIN hostsSlice :
           hostsMap[h] = i <=> hostsSlice[i].ip = h
    /\ \A i \in DOMAIN hostsSlice : \A k \in Keys : \A j \in DOMAIN hostsSlice[i].ports :
           hostsSlice[i].portIdx[k] = j <=> entries[hostsSlice[i].ports[j]].key = k
    /\ found = UNION {UNION {{<<hostsSlice[i].ip, entries[e].key, p>> : p \in Range(entries[e].proxies)}
                             : e \in Range(hostsSlice[i].ports)} : i \in DOMAIN hostsSlice}
    /\ \A e \in DOMAIN entries : IsInjective(entries[e].proxies)

\* The selected port belongs to the selected host and is in the list shown,
\* through sorting, live refreshes and clearing: what a geo-block check dials
\* is a pair that a scan has found.
SelectionIsStored ==
    selPort # NoEntry =>
        /\ selHost \in DOMAIN hostsSlice
        /\ selPort \in Range(hostsSlice[selHost].ports)
        /\ selPort \in Range(portView)

\* When no report of a scan is on its way to the main thread, the list shows
\* the selected host's ports as they are, and a port in the pane is the
\* selected one with all its proxies.
PaneIsCurrent ==
    ~pushing /\ (\A i \in DOMAIN posted : posted[i].do # "refresh") =>
        /\ portView = PortView(selHost, sortMode)
        /\ pane.shows = "port" => selPort # NoEntry /\ pane.what = <<selPort, entries[selPort]>>

\* A scan that reports here has dealt its hosts out to its proxies without
\* leaving one out, and its progress bar can reach its end (runNmapCIDR).
ChunksPartition ==
    events = 0 =>
        \A hosts \in 1 .. MaxHosts, proxies \in 1 .. MaxProxies : DealsAll(hosts, proxies)

\* A check ends and gives the button back, and every connection that one of
\* its dials has made is closed, also one made after the check has ended.
ChecksSettle ==
    /\ geoRunning ~> ~geoRunning
    /\ \A c \in Calls : open[c] = 1 ~> open[c] = 0
=============================================================================
