-------------------------- MODULE HostsTabProofs --------------------------
(***************************************************************************)
(* Theorems about the Hosts tab, for all hosts, ports and findings, and    *)
(* for every number of calls, pool and answer of the proxies: the store    *)
(* says what was found, the selection, the list and the pane agree with    *)
(* it, and in the geo-block check no connection is lost or closed twice    *)
(* and no vote is invented.                                                *)
(***************************************************************************)
EXTENDS HostsStoreProofs, SequenceTheorems

-----------------------------------------------------------------------------
(* The invariant of the store, and a report *)

\* The store of the tab.
Contents == [map |-> hostsMap, slice |-> hostsSlice, entries |-> entries]

\* It is sound, and says what was found.
StoreInv ==
    /\ Sound(Contents)
    /\ found \subseteq Hosts \X Keys \X Text
    /\ \A h \in Hosts, k \in Keys : \A p : <<h, k, p>> \in found <=> Tells(Contents, h, k, p)

LEMMA ContentsFields ==
    /\ Contents.map = hostsMap /\ Contents.slice = hostsSlice /\ Contents.entries = entries
BY DEF Contents

\* A store without hosts says nothing.
LEMMA EmptySound ==
    ASSUME NEW es \in Seq(Entry), \A e \in 1 .. Len(es) : IsInjective(es[e].proxies),
           NEW s, s = [map |-> [h \in Hosts |-> 0], slice |-> <<>>, entries |-> es]
    PROVE  Sound(s) /\ \A h \in Hosts, k \in Keys : \A p : ~Tells(s, h, k, p)
<1>1. s.map = [h \in Hosts |-> 0] /\ s.slice = <<>> /\ s.entries = es /\ Len(s.slice) = 0
  OBVIOUS
<1>2. s.map \in [Hosts -> Nat] /\ s.slice \in Seq(HostRow)
  BY <1>1
<1>3. s \in Store
  BY <1>1, <1>2 DEF Store
<1>4. 1 .. 0 = {} /\ 0 \in 0 .. 0
  OBVIOUS
<1>5. Sound(s)
  BY <1>1, <1>3, <1>4 DEF Sound
<1>6. \A h \in Hosts, k \in Keys : ~Has(s, h, k)
  BY <1>1 DEF Has
<1> QED
  BY <1>5, <1>6 DEF Tells

LEMMA MembersOf == ASSUME NEW S, NEW q \in Seq(S) PROVE ToSet(q) \subseteq S
BY DEF ToSet

LEMMA FactsAreAdds ==
    ASSUME NEW f \in Finding
    PROVE  /\ Facts(f) \subseteq Hosts \X Keys \X Text
           /\ \A h \in Hosts, k \in Keys : \A p : <<h, k, p>> \in Facts(f) <=> Adds(f, h, k, p)
<1>1. f.host \in Hosts \cup {""} /\ f.key \in Keys /\ f.proxies \in Seq(Text) /\ "" \notin Hosts
  BY HostsAssumption DEF Finding
<1>2. Facts(f) = IF f.host = "" THEN {} ELSE {<<f.host, f.key, p>> : p \in Named(f)}
  BY DEF Facts, Named, NonEmpty
<1>3. Named(f) \subseteq Text
  <2>1. Range(f.proxies) = ToSet(f.proxies)
    BY RangeIsToSet
  <2>2. ToSet(f.proxies) \subseteq Text
    BY <1>1, MembersOf
  <2> QED
    BY <2>1, <2>2 DEF Named, NonEmpty
<1> DEFINE names == Named(f)
<1>4. Facts(f) = IF f.host = "" THEN {} ELSE {<<f.host, f.key, p>> : p \in names}
  BY <1>2
<1>5. \A h, k, p : Adds(f, h, k, p) <=> h = f.host /\ k = f.key /\ p \in names
  BY DEF Adds
<1>6. names \subseteq Text
  BY <1>3
<1> HIDE DEF names
<1>7. CASE f.host = ""
  BY <1>1, <1>4, <1>5, <1>7
<1>8. CASE f.host # ""
  <2>1. f.host \in Hosts /\ Facts(f) = {<<f.host, f.key, p>> : p \in names}
    BY <1>1, <1>4, <1>8
  <2>2. Facts(f) \subseteq Hosts \X Keys \X Text
    <3> DEFINE g == f.host l == f.key
    <3>1. g \in Hosts /\ l \in Keys /\ Facts(f) = {<<g, l, p>> : p \in names}
      BY <1>1, <2>1
    <3> HIDE DEF g, l
    <3>2. ASSUME NEW p \in names PROVE <<g, l, p>> \in Hosts \X Keys \X Text
      BY <1>6, <3>1
    <3> QED
      BY <3>1, <3>2
  <2>3. ASSUME NEW h \in Hosts, NEW k \in Keys, NEW p
        PROVE  <<h, k, p>> \in Facts(f) <=> Adds(f, h, k, p)
    BY ONLY <1>5, <2>1
  <2> QED
    BY <2>2, <2>3
<1> QED
  BY <1>7, <1>8

LEMMA FindingsAre == Findings \subseteq Seq(Finding)
BY HostsAssumption DEF Finding, Text

LEMMA PushKeepsStore ==
    ASSUME StoreInv, PushFindings
    PROVE  StoreInv' /\ Keeps(Contents, Contents')
<1>1. PICK fs \in Findings :
        /\ LET s == AddFindings(Contents, fs)
           IN  hostsMap' = s.map /\ hostsSlice' = s.slice /\ entries' = s.entries
        /\ found' = found \cup UNION {Facts(fs[i]) : i \in DOMAIN fs}
  BY DEF PushFindings, Contents
<1>2. fs \in Seq(Finding)
  BY FindingsAre
<1> DEFINE s == Contents t == AddFindings(s, fs)
<1>3. hostsMap' = t.map /\ hostsSlice' = t.slice /\ entries' = t.entries
  BY <1>1
<1>4. Sound(s)
  BY DEF StoreInv
<1>5. Sound(t) /\ Keeps(s, t) /\ SaysAll(s, t, fs, Len(fs))
  BY <1>2, <1>4, AddAllSound
<1>6. Contents' = t
  <2>1. t \in Store
    BY <1>5 DEF Sound
  <2> HIDE DEF t
  <2>2. t = [map |-> t.map, slice |-> t.slice, entries |-> t.entries]
    BY <2>1, StoreFields
  <2> QED
    BY <1>3, <2>2 DEF Contents
<1> HIDE DEF t
<1>7. Len(fs) \in Nat /\ DOMAIN fs = 1 .. Len(fs) /\ \A i \in 1 .. Len(fs) : fs[i] \in Finding
  BY <1>2
<1>8. found' \subseteq Hosts \X Keys \X Text
  <2>1. \A i \in 1 .. Len(fs) : Facts(fs[i]) \subseteq Hosts \X Keys \X Text
    BY <1>7, FactsAreAdds
  <2> DEFINE triples == Hosts \X Keys \X Text
  <2>2. found \subseteq triples /\ \A i \in 1 .. Len(fs) : Facts(fs[i]) \subseteq triples
    BY <2>1 DEF StoreInv
  <2> HIDE DEF triples
  <2>3. found' \subseteq triples
    BY <1>1, <1>7, <2>2
  <2> QED
    BY <2>3 DEF triples
<1>9. ASSUME NEW h \in Hosts, NEW k \in Keys, NEW p
      PROVE  <<h, k, p>> \in found' <=> Tells(t, h, k, p)
  <2>1. <<h, k, p>> \in found <=> Tells(s, h, k, p)
    BY DEF StoreInv
  <2>2. \A i \in 1 .. Len(fs) : <<h, k, p>> \in Facts(fs[i]) <=> Adds(fs[i], h, k, p)
    BY <1>7, FactsAreAdds
  <2>3. Tells(t, h, k, p) <=> Tells(s, h, k, p) \/ \E i \in 1 .. Len(fs) : Adds(fs[i], h, k, p)
    BY <1>5 DEF SaysAll
  <2> DEFINE x == <<h, k, p>>
  <2>4. x \in found' <=> x \in found \/ \E i \in 1 .. Len(fs) : x \in Facts(fs[i])
    <3> HIDE DEF x
    <3> QED
      BY <1>1, <1>7
  <2> QED
    BY <2>1, <2>2, <2>3, <2>4
<1>10. Sound(Contents)' /\ (\A h \in Hosts, k \in Keys : \A p : <<h, k, p>> \in found <=> Tells(Contents, h, k, p))'
  BY <1>5, <1>6, <1>9
<1> QED
  BY <1>5, <1>6, <1>8, <1>10 DEF StoreInv

-----------------------------------------------------------------------------
(* The invariant of the selection and of the pane *)

\* The ports of a row, and none for what is no row.
PortsIn(s, h) == IF h \in DOMAIN s.slice THEN s.slice[h].ports ELSE <<>>

\* What is selected is in the list, and the list is of the selected host.
SelectedIn(s, h, port, mode, view) ==
    /\ h \in 0 .. Len(s.slice) /\ mode \in SortModes
    /\ view \in Seq(1 .. Len(s.entries)) /\ ToSet(view) \subseteq ToSet(PortsIn(s, h))
    /\ port # NoEntry => port \in ToSet(PortsIn(s, h)) /\ port \in ToSet(view)

SelectInv == SelectedIn(Contents, selHost, selPort, sortMode, portView)

\* The list and the pane show what the store has.
CurrentIn(s, h, port, mode, view, shown) ==
    /\ view = SortPorts(PortsIn(s, h), s.entries, mode)
    /\ shown.shows = "port" => port # NoEntry /\ shown.what = <<port, s.entries[port]>>

\* So it is when no report of a scan is on its way to the main thread, and a
\* report of a check that is in the pane is no port.
Quiet == ~pushing /\ \A i \in DOMAIN posted : posted[i].do # "refresh"

PaneInv ==
    /\ Quiet => CurrentIn(Contents, selHost, selPort, sortMode, portView, pane)
    /\ showingGeo => pane.shows # "port"
    /\ pane.shows \in {"none", "note", "port", "geo"} /\ showingGeo \in BOOLEAN
    /\ \E S : posted \in Seq(S)

TabInv == StoreInv /\ SelectInv /\ PaneInv

LEMMA PortsInRow ==
    ASSUME NEW s, Sound(s), NEW h
    PROVE  PortsIn(s, h) \in Seq(1 .. Len(s.entries)) /\ IsInjective(PortsIn(s, h))
<1>0. s.slice \in Seq(HostRow) /\ Len(s.slice) \in Nat /\ DOMAIN s.slice = 1 .. Len(s.slice)
      /\ Len(s.entries) \in Nat
  BY StoreFields DEF Sound
<1>1. CASE h \in DOMAIN s.slice
  <2> DEFINE r == s.slice[h] ports == r.ports
  <2>1. r \in HostRow /\ HostOk(r, s.entries)
    BY <1>0, <1>1 DEF Sound
  <2>2. ports \in Seq(Nat) /\ Len(ports) \in Nat /\ DOMAIN ports = 1 .. Len(ports)
    BY <2>1, RowFields
  <2>3. \A j \in 1 .. Len(ports) : ports[j] \in 1 .. Len(s.entries) /\ r.portIdx[s.entries[ports[j]].key] = j
    BY ZenonT(30), <2>1 DEF HostOk
  <2>4. PortsIn(s, h) = ports
    BY <1>1 DEF PortsIn
  <2> HIDE DEF ports, r
  <2>5. ports \in Seq(1 .. Len(s.entries))
    BY ONLY <2>2, <2>3
  <2>6. IsInjective(ports)
    BY ONLY <2>2, <2>3 DEF IsInjective
  <2> QED
    BY <2>4, <2>5, <2>6
<1>2. CASE h \notin DOMAIN s.slice
  <2>1. PortsIn(s, h) = <<>>
    BY <1>2 DEF PortsIn
  <2> QED
    BY <2>1, EmptyList
<1> QED
  BY <1>1, <1>2

\* The list of a host has its ports.
LEMMA ListOfHost ==
    ASSUME NEW s, Sound(s), NEW h, NEW mode, NEW view, view = SortPorts(PortsIn(s, h), s.entries, mode)
    PROVE  view \in Seq(1 .. Len(s.entries)) /\ ToSet(view) = ToSet(PortsIn(s, h))
<1>1. s.entries \in Seq(Entry)
  BY StoreFields DEF Sound
<1> QED
  BY <1>1, PortsInRow, SortPortsKeeps

LEMMA NoMember ==
    ASSUME NEW S, NEW q \in Seq(S), ToSet(q) = {}
    PROVE  q = <<>>
<1>1. Len(q) \in Nat /\ DOMAIN q = 1 .. Len(q)
  OBVIOUS
<1>2. Len(q) = 0
  <2>1. ASSUME Len(q) # 0 PROVE FALSE
    <3>1. 1 \in DOMAIN q
      BY <1>1, <2>1
    <3> QED
      BY <3>1 DEF ToSet
  <2> QED
    BY <2>1
<1> QED
  BY <1>2

LEMMA NoList ==
    ASSUME NEW s, Sound(s), NEW mode
    PROVE  SortPorts(<<>>, s.entries, mode) = <<>>
<1> DEFINE none == <<>> view == SortPorts(none, s.entries, mode)
<1>1. s.entries \in Seq(Entry) /\ Len(s.entries) \in Nat
  BY StoreFields DEF Sound
<1>2. none \in Seq(1 .. Len(s.entries)) /\ IsInjective(none)
  BY EmptyList
<1> HIDE DEF none
<1>3. view \in Seq(1 .. Len(s.entries)) /\ ToSet(view) = ToSet(none)
  BY <1>1, <1>2, SortPortsKeeps
<1>4. ToSet(none) = {}
  BY EmptyList DEF none
<1> HIDE DEF view
<1>5. view = <<>>
  BY <1>3, <1>4, NoMember
<1> QED
  BY <1>5 DEF view, none

\* What the tab lists is listed from its store.
LEMMA PortsOfTab ==
    /\ \A h : Ports(h) = PortsIn(Contents, h)
    /\ \A h, mode : PortView(h, mode) = SortPorts(PortsIn(Contents, h), Contents.entries, mode)
    /\ Contents.map = hostsMap /\ Contents.slice = hostsSlice /\ Contents.entries = entries
BY DEF Contents, Ports, PortView, PortsIn

\* Rows that get more ports keep those they have.
LEMMA PortsGrow ==
    ASSUME NEW s, Sound(s), NEW t, Sound(t), Keeps(s, t), NEW h
    PROVE  ToSet(PortsIn(s, h)) \subseteq ToSet(PortsIn(t, h))
<1>1. /\ Len(s.slice) \in Nat /\ DOMAIN s.slice = 1 .. Len(s.slice)
      /\ Len(t.slice) \in Nat /\ DOMAIN t.slice = 1 .. Len(t.slice)
  BY StoreFields DEF Sound
<1>2. CASE h \in DOMAIN s.slice
  <2>1. h \in DOMAIN t.slice /\ ToSet(s.slice[h].ports) \subseteq ToSet(t.slice[h].ports)
    BY <1>1, <1>2 DEF Keeps
  <2> QED
    BY <1>2, <2>1 DEF PortsIn
<1>3. CASE h \notin DOMAIN s.slice
  <2>1. ToSet(PortsIn(s, h)) = {}
    BY <1>3, EmptyList DEF PortsIn
  <2> QED
    BY <2>1
<1> QED
  BY <1>2, <1>3

-----------------------------------------------------------------------------
(* Each step of the tab keeps it *)

\* The store is left alone.
LEMMA StoreStays == ASSUME UNCHANGED store PROVE Contents' = Contents
BY DEF store, Contents

LEMMA StoreInvStays == ASSUME StoreInv, UNCHANGED <<store, found>> PROVE StoreInv'
BY StoreStays DEF StoreInv

LEMMA InitKeepsTab == ASSUME Init PROVE TabInv
<1>1. /\ hostsMap = [h \in Hosts |-> 0] /\ hostsSlice = <<>> /\ entries = <<>> /\ found = {}
      /\ posted = <<>> /\ selHost = 0 /\ selPort = NoEntry /\ sortMode = "Port up"
      /\ portView = <<>> /\ pane = Blank /\ showingGeo = FALSE
  BY Zenon DEF Init
<1> DEFINE es == <<>> s == Contents
<1>2. es \in Seq(Entry) /\ Len(es) = 0 /\ 1 .. 0 = {} /\ \A n : <<>> \in Seq(1 .. n)
  OBVIOUS
<1>3. s = [map |-> [h \in Hosts |-> 0], slice |-> <<>>, entries |-> es]
  BY <1>1 DEF Contents
<1> HIDE DEF es, s
<1>4. \A e \in 1 .. Len(es) : IsInjective(es[e].proxies)
  BY <1>2
<1>5. Sound(s) /\ \A h \in Hosts, k \in Keys : \A p : ~Tells(s, h, k, p)
  BY <1>2, <1>3, <1>4, EmptySound
<1>6. StoreInv
  BY <1>1, <1>5 DEF StoreInv, s
<1>7. PortsIn(s, 0) = <<>> /\ 0 \in 0 .. Len(s.slice)
  <2>1. s.slice = <<>> /\ Len(s.slice) = 0 /\ DOMAIN s.slice = {}
    BY <1>3
  <2> QED
    BY <2>1 DEF PortsIn
<1>8. SelectInv
  <2>1. SelectedIn(s, 0, NoEntry, "Port up", <<>>)
    BY <1>2, <1>7, EmptyList, HostsAssumption DEF SelectedIn
  <2> QED
    BY <1>1, <2>1 DEF SelectInv, s
<1>9. SortPorts(PortsIn(s, 0), s.entries, "Port up") = <<>>
  BY <1>5, <1>7, NoList
<1>10. CurrentIn(s, 0, NoEntry, "Port up", <<>>, Blank)
  <2>1. Blank.shows = "none"
    BY DEF Blank
  <2> QED
    BY <1>9, <2>1 DEF CurrentIn
<1>11. PaneInv
  <2>0. <<>> \in Seq({})
    OBVIOUS
  <2>1. Blank.shows = "none" /\ posted \in Seq({})
    <3>1. Blank.shows = "none"
      BY DEF Blank
    <3> QED
      BY <1>1, <2>0, <3>1
  <2>2. CurrentIn(Contents, selHost, selPort, sortMode, portView, pane)
    BY <1>1, <1>10 DEF s
  <2>3. \E S : posted \in Seq(S)
    BY <2>1
  <2> QED
    BY <1>1, <1>10, <2>1, <2>2, <2>3 DEF PaneInv
<1> QED
  BY <1>6, <1>8, <1>11 DEF TabInv

LEMMA SeqWider == ASSUME NEW S, NEW T, S \subseteq T, NEW q \in Seq(S) PROVE q \in Seq(T)
OBVIOUS

\* A store that has grown has what was selected.
LEMMA SelectedGrows ==
    ASSUME NEW s, Sound(s), NEW t, Sound(t), Keeps(s, t),
           NEW h, NEW port, NEW mode, NEW view, SelectedIn(s, h, port, mode, view)
    PROVE  SelectedIn(t, h, port, mode, view)
<1>1. /\ Len(s.slice) \in Nat /\ Len(t.slice) \in Nat /\ Len(s.entries) \in Nat /\ Len(t.entries) \in Nat
  BY StoreFields DEF Sound
<1>2. Len(t.slice) >= Len(s.slice) /\ Len(t.entries) >= Len(s.entries)
  BY DEF Keeps
<1>3. ToSet(PortsIn(s, h)) \subseteq ToSet(PortsIn(t, h))
  BY PortsGrow
<1>4. h \in 0 .. Len(t.slice)
  BY <1>1, <1>2 DEF SelectedIn
<1>5. view \in Seq(1 .. Len(t.entries))
  <2>1. 1 .. Len(s.entries) \subseteq 1 .. Len(t.entries)
    BY <1>1, <1>2
  <2>2. view \in Seq(1 .. Len(s.entries))
    BY DEF SelectedIn
  <2> QED
    BY <2>1, <2>2, SeqWider
<1> QED
  BY <1>3, <1>4, <1>5 DEF SelectedIn

LEMMA PushKeepsTab == ASSUME TabInv, PushFindings PROVE TabInv'
<1>1. StoreInv' /\ Keeps(Contents, Contents') /\ StoreInv
  BY PushKeepsStore DEF TabInv
<1>2. Sound(Contents) /\ Sound(Contents')
  BY <1>1 DEF StoreInv
<1>3. pushing' = TRUE /\ UNCHANGED <<posted, select, detail>>
  BY DEF PushFindings
<1>4. SelectInv'
  <2>1. SelectedIn(Contents, selHost, selPort, sortMode, portView)
    BY DEF TabInv, SelectInv
  <2>2. SelectedIn(Contents', selHost, selPort, sortMode, portView)
    BY <1>1, <1>2, <2>1, SelectedGrows
  <2> QED
    BY <1>3, <2>2 DEF SelectInv, select
<1>5. PaneInv'
  BY <1>3 DEF TabInv, PaneInv, Quiet, detail
<1> QED
  BY <1>1, <1>4, <1>5 DEF TabInv

\* What a selection needs: the list of a host, and nothing selected in it.
LEMMA ListIsCurrent ==
    ASSUME NEW s, Sound(s), NEW h \in 0 .. Len(s.slice), NEW mode \in SortModes,
           NEW view, view = SortPorts(PortsIn(s, h), s.entries, mode), NEW shown, shown.shows # "port"
    PROVE  SelectedIn(s, h, NoEntry, mode, view) /\ CurrentIn(s, h, NoEntry, mode, view, shown)
<1>1. view \in Seq(1 .. Len(s.entries)) /\ ToSet(view) = ToSet(PortsIn(s, h))
  BY ListOfHost
<1> QED
  BY <1>1 DEF SelectedIn, CurrentIn

LEMMA BlankShows == Blank.shows = "none"
BY DEF Blank

LEMMA SelectHostKeeps == ASSUME TabInv, NEW h \in DOMAIN hostsSlice, SelectHost(h) PROVE TabInv'
<1> DEFINE s == Contents
<1>0. /\ UNCHANGED <<store, found, pushing, posted, sortMode>> /\ selHost' = h /\ selPort' = NoEntry
      /\ portView' = PortView(h, sortMode) /\ showingGeo' = FALSE /\ pane' = Blank
  BY DEF SelectHost, RenderProxies, feed
<1>1. StoreInv' /\ Contents' = s /\ Sound(s)
  BY <1>0, StoreStays, StoreInvStays DEF TabInv, StoreInv
<1>2. s.slice = hostsSlice /\ portView' = SortPorts(PortsIn(s, h), s.entries, sortMode)
  BY <1>0, PortsOfTab
<1> HIDE DEF s
<1>3. h \in 0 .. Len(s.slice) /\ sortMode \in SortModes
  <2>1. s.slice \in Seq(HostRow)
    BY <1>1, StoreFields DEF Sound
  <2>2. h \in 1 .. Len(s.slice)
    BY <1>2, <2>1
  <2> QED
    BY <2>2 DEF TabInv, SelectInv, SelectedIn
<1>4. /\ SelectedIn(s, h, NoEntry, sortMode, portView')
      /\ CurrentIn(s, h, NoEntry, sortMode, portView', Blank)
  BY <1>1, <1>2, <1>3, BlankShows, ListIsCurrent
<1>5. SelectInv'
  BY <1>0, <1>1, <1>4 DEF SelectInv
<1>6. PaneInv'
  BY <1>0, <1>1, <1>4, BlankShows DEF TabInv, PaneInv
<1> QED
  BY <1>1, <1>5, <1>6 DEF TabInv

LEMMA SelectSortKeeps == ASSUME TabInv, NEW mode \in SortModes, SelectSort(mode) PROVE TabInv'
<1> DEFINE s == Contents
<1>0. /\ UNCHANGED <<store, found, pushing, posted, selHost>> /\ sortMode' = mode /\ selPort' = NoEntry
      /\ portView' = PortView(selHost, mode) /\ showingGeo' = FALSE /\ pane' = Blank
  BY DEF SelectSort, RenderProxies, feed
<1>1. StoreInv' /\ Contents' = s /\ Sound(s)
  BY <1>0, StoreStays, StoreInvStays DEF TabInv, StoreInv
<1>2. s.slice = hostsSlice /\ portView' = SortPorts(PortsIn(s, selHost), s.entries, mode)
  BY <1>0, PortsOfTab
<1>3. selHost \in 0 .. Len(s.slice)
  BY DEF TabInv, SelectInv, SelectedIn
<1> HIDE DEF s
<1>4. /\ SelectedIn(s, selHost, NoEntry, mode, portView')
      /\ CurrentIn(s, selHost, NoEntry, mode, portView', Blank)
  BY <1>1, <1>2, <1>3, BlankShows, ListIsCurrent
<1>5. SelectInv'
  BY <1>0, <1>1, <1>4 DEF SelectInv
<1>6. PaneInv'
  BY <1>0, <1>1, <1>4, BlankShows DEF TabInv, PaneInv
<1> QED
  BY <1>1, <1>5, <1>6 DEF TabInv

LEMMA SelectPortKeeps == ASSUME TabInv, NEW row \in DOMAIN portView, SelectPort(row) PROVE TabInv'
<1> DEFINE s == Contents e == portView[row]
<1>0. /\ UNCHANGED <<store, found, pushing, posted, selHost, sortMode, portView>>
      /\ selPort' = e /\ showingGeo' = FALSE
      /\ pane' = IF e = NoEntry THEN Blank ELSE [shows |-> "port", what |-> <<e, entries[e]>>]
  BY DEF SelectPort, RenderProxies, feed
<1>1. StoreInv' /\ Contents' = s /\ Sound(s) /\ entries = s.entries
  BY <1>0, StoreStays, StoreInvStays, PortsOfTab DEF TabInv, StoreInv
<1>2. SelectedIn(s, selHost, selPort, sortMode, portView)
  BY DEF TabInv, SelectInv
<1>3. Quiet => CurrentIn(s, selHost, selPort, sortMode, portView, pane)
  BY DEF TabInv, PaneInv
<1> HIDE DEF s
<1>4. e \in 1 .. Len(s.entries) /\ e \in ToSet(portView) /\ e # NoEntry
  <2>1. portView \in Seq(1 .. Len(s.entries))
    BY <1>2 DEF SelectedIn
  <2>2. Len(s.entries) \in Nat
    BY <1>1, StoreFields DEF Sound
  <2> QED
    BY <2>1, <2>2 DEF ToSet, NoEntry
<1> HIDE DEF e
<1> DEFINE shown == [shows |-> "port", what |-> <<e, s.entries[e]>>]
<1>5. pane' = shown /\ shown.shows = "port" /\ shown.what = <<e, s.entries[e]>>
  BY <1>0, <1>1, <1>4
<1> HIDE DEF shown
<1>6. SelectedIn(s, selHost, e, sortMode, portView)
  BY <1>2, <1>4 DEF SelectedIn
<1>7. Quiet => CurrentIn(s, selHost, e, sortMode, portView, shown)
  BY <1>3, <1>4, <1>5 DEF CurrentIn
<1>8. SelectInv'
  BY <1>0, <1>1, <1>6 DEF SelectInv
<1>9. PaneInv'
  <2>1. Quiet' <=> Quiet
    BY <1>0 DEF Quiet
  <2> QED
    BY <1>0, <1>1, <1>5, <1>7, <2>1 DEF TabInv, PaneInv
<1> QED
  BY <1>1, <1>8, <1>9 DEF TabInv

LEMMA ClearKeeps == ASSUME TabInv, ClearAll PROVE TabInv'
<1> DEFINE t == Contents'
<1>0. /\ hostsMap' = [h \in Hosts |-> 0] /\ hostsSlice' = <<>> /\ found' = {} /\ entries' = entries
      /\ selHost' = 0 /\ selPort' = NoEntry /\ portView' = <<>> /\ showingGeo' = FALSE /\ pane' = Blank
      /\ UNCHANGED <<pushing, posted, sortMode>>
  BY DEF ClearAll, RenderProxies
<1>1. entries \in Seq(Entry) /\ \A e \in 1 .. Len(entries) : IsInjective(entries[e].proxies)
  <2>1. Sound(Contents)
    BY DEF TabInv, StoreInv
  <2> QED
    BY <2>1, StoreFields, PortsOfTab DEF Sound
<1>2. t = [map |-> [h \in Hosts |-> 0], slice |-> <<>>, entries |-> entries]
  BY <1>0 DEF Contents
<1> HIDE DEF t
<1>3. Sound(t) /\ \A h \in Hosts, k \in Keys : \A p : ~Tells(t, h, k, p)
  BY <1>1, <1>2, EmptySound
<1>4. StoreInv'
  BY <1>0, <1>3 DEF StoreInv, t
<1>5. PortsIn(t, 0) = <<>> /\ 0 \in 0 .. Len(t.slice)
  <2>1. t.slice = <<>> /\ Len(t.slice) = 0 /\ DOMAIN t.slice = {}
    BY <1>2
  <2> QED
    BY <2>1 DEF PortsIn
<1>6. sortMode \in SortModes
  BY DEF TabInv, SelectInv, SelectedIn
<1>7. SortPorts(PortsIn(t, 0), t.entries, sortMode) = <<>>
  BY <1>3, <1>5, NoList
<1>8. /\ SelectedIn(t, 0, NoEntry, sortMode, <<>>)
      /\ CurrentIn(t, 0, NoEntry, sortMode, <<>>, Blank)
  BY <1>3, <1>5, <1>6, <1>7, BlankShows, ListIsCurrent
<1>9. SelectInv'
  BY <1>0, <1>8 DEF SelectInv, t
<1>10. PaneInv'
  BY <1>0, <1>8, BlankShows DEF TabInv, PaneInv, t
<1> QED
  BY <1>4, <1>9, <1>10 DEF TabInv

\* A note in the pane is no port.
LEMMA TapKeepsTab == ASSUME TabInv, TapGeo PROVE TabInv'
<1>0. UNCHANGED <<store, feed, posted, select>>
  BY DEF TapGeo
<1>1. UNCHANGED showingGeo /\ (pane' = pane \/ pane' = [shows |-> "note", what |-> <<>>])
  BY DEF TapGeo, Note
<1>2. StoreInv' /\ Contents' = Contents
  BY <1>0, StoreStays, StoreInvStays DEF TabInv, feed
<1>3. SelectInv'
  BY <1>0, <1>2 DEF TabInv, SelectInv, select
<1>4. pane' = pane \/ pane'.shows = "note"
  BY <1>1
<1>5. PaneInv'
  BY <1>0, <1>1, <1>2, <1>4 DEF TabInv, PaneInv, Quiet, CurrentIn, select, feed
<1> QED
  BY <1>2, <1>3, <1>5 DEF TabInv

\* What is appended to the functions that wait.
LEMMA PostedGrows ==
    ASSUME NEW S, NEW q \in Seq(S), NEW x, NEW u, u = Append(q, x)
    PROVE  /\ \E T : u \in Seq(T)
           /\ \A i \in DOMAIN q : i \in DOMAIN u /\ u[i] = q[i]
           /\ Len(q) + 1 \in DOMAIN u /\ u[Len(q) + 1] = x
<1> DEFINE T == S \cup {x}
<1>1. q \in Seq(T) /\ x \in T
  <2>1. S \subseteq T
    OBVIOUS
  <2> QED
    BY <2>1, SeqWider
<1> HIDE DEF T
<1>2. /\ u \in Seq(T) /\ Len(u) = Len(q) + 1 /\ Len(q) \in Nat /\ u[Len(q) + 1] = x
      /\ \A j \in 1 .. Len(q) : u[j] = q[j]
  BY <1>1, SeqAppend
<1>3. DOMAIN q = 1 .. Len(q) /\ DOMAIN u = 1 .. Len(u)
  BY <1>1, <1>2
<1> QED
  BY <1>2, <1>3

LEMMA PostRefreshKeeps == ASSUME TabInv, PostRefresh PROVE TabInv'
<1> DEFINE x == [do |-> "refresh", what |-> <<>>]
<1>0. /\ UNCHANGED <<store, found, select, detail>> /\ posted' = Append(posted, x)
  BY DEF PostRefresh
<1>1. PICK S : posted \in Seq(S)
  BY DEF TabInv, PaneInv
<1>2. x.do = "refresh"
  OBVIOUS
<1> HIDE DEF x
<1>3. ~Quiet' /\ \E T : posted' \in Seq(T)
  BY <1>0, <1>1, <1>2, PostedGrows DEF Quiet
<1>4. StoreInv' /\ Contents' = Contents
  BY <1>0, StoreStays, StoreInvStays DEF TabInv
<1>5. SelectInv'
  BY <1>0, <1>4 DEF TabInv, SelectInv, select
<1>6. PaneInv'
  BY <1>0, <1>3 DEF TabInv, PaneInv, detail
<1> QED
  BY <1>4, <1>5, <1>6 DEF TabInv

LEMMA PostReportKeeps == ASSUME TabInv, PostReport PROVE TabInv'
<1> DEFINE x == [do |-> "report", what |-> <<checking, DecideRegionBlock(Tally)>>]
<1>0. UNCHANGED <<store, found, pushing, select, detail>> /\ posted' = Append(posted, x)
  BY DEF PostReport, feed
<1>1. PICK S : posted \in Seq(S)
  BY DEF TabInv, PaneInv
<1> HIDE DEF x
<1>2. /\ \E T : posted' \in Seq(T)
      /\ \A i \in DOMAIN posted : i \in DOMAIN posted' /\ posted'[i] = posted[i]
  BY <1>0, <1>1, PostedGrows
<1>3. Quiet' => Quiet
  BY <1>0, <1>2 DEF Quiet
<1>4. StoreInv' /\ Contents' = Contents
  BY <1>0, StoreStays, StoreInvStays DEF TabInv
<1>5. SelectInv'
  BY <1>0, <1>4 DEF TabInv, SelectInv, select
<1>6. PaneInv'
  BY <1>0, <1>2, <1>3, <1>4 DEF TabInv, PaneInv, detail, select
<1> QED
  BY <1>4, <1>5, <1>6 DEF TabInv

LEMMA PostedShrinks ==
    ASSUME NEW S, NEW q \in Seq(S), q # <<>>
    PROVE  /\ Tail(q) \in Seq(S) /\ Head(q) = q[1] /\ 1 \in DOMAIN q
           /\ \A i \in DOMAIN q : i = 1 \/ (i - 1 \in DOMAIN Tail(q) /\ Tail(q)[i - 1] = q[i])
OBVIOUS

\* The list is made anew, and so is the pane unless it shows a report.
LEMMA RefreshKeeps == ASSUME TabInv, RunPosted, Refresh PROVE TabInv'
<1> DEFINE s == Contents
           shown == IF selPort = NoEntry THEN Blank ELSE [shows |-> "port", what |-> <<selPort, entries[selPort]>>]
<1>0. UNCHANGED <<store, found, pushing>> /\ posted # <<>> /\ posted' = Tail(posted)
  BY DEF RunPosted, feed
<1>1. /\ portView' = PortView(selHost, sortMode) /\ UNCHANGED <<selHost, selPort, sortMode>>
      /\ \/ showingGeo /\ UNCHANGED detail
         \/ showingGeo' = FALSE /\ pane' = shown
  BY DEF Refresh, RenderProxies
<1>2. \E S : posted' \in Seq(S)
  BY <1>0, PostedShrinks DEF TabInv, PaneInv
<1>3. StoreInv' /\ Contents' = s /\ Sound(s) /\ s.entries = entries
  BY <1>0, StoreStays, StoreInvStays, PortsOfTab DEF TabInv, StoreInv
<1>4. portView' = SortPorts(PortsIn(s, selHost), s.entries, sortMode)
  BY <1>1, PortsOfTab
<1>5. SelectedIn(s, selHost, selPort, sortMode, portView)
  BY DEF TabInv, SelectInv
<1>6. shown.shows = "port" => selPort # NoEntry /\ shown.what = <<selPort, entries[selPort]>>
  <2>1. CASE selPort = NoEntry
    BY <2>1, BlankShows
  <2>2. CASE selPort # NoEntry
    BY <2>2
  <2> QED
    BY <2>1, <2>2
<1>7. shown.shows \in {"none", "port"}
  <2>1. CASE selPort = NoEntry
    BY <2>1, BlankShows
  <2>2. CASE selPort # NoEntry
    BY <2>2
  <2> QED
    BY <2>1, <2>2
<1> HIDE DEF s, shown
<1>8. portView' \in Seq(1 .. Len(s.entries)) /\ ToSet(portView') = ToSet(PortsIn(s, selHost))
  BY <1>3, <1>4, ListOfHost
<1>9. SelectedIn(s, selHost, selPort, sortMode, portView')
  BY <1>5, <1>8 DEF SelectedIn
<1>10. CurrentIn(s, selHost, selPort, sortMode, portView', shown)
  BY <1>3, <1>4, <1>6 DEF CurrentIn
<1>11. showingGeo => CurrentIn(s, selHost, selPort, sortMode, portView', pane)
  BY <1>4 DEF TabInv, PaneInv, CurrentIn
<1>12. SelectInv'
  BY <1>1, <1>3, <1>9 DEF SelectInv
<1>13. PaneInv'
  <2>1. CASE showingGeo /\ UNCHANGED detail
    BY <1>1, <1>2, <1>3, <1>11, <2>1 DEF TabInv, PaneInv, detail
  <2>2. CASE showingGeo' = FALSE /\ pane' = shown
    BY <1>1, <1>2, <1>3, <1>7, <1>10, <2>2 DEF PaneInv
  <2> QED
    BY <1>1, <2>1, <2>2
<1> QED
  BY <1>3, <1>12, <1>13 DEF TabInv

LEMMA ReportKeeps ==
    ASSUME TabInv, RunPosted, Head(posted).do # "refresh" PROVE TabInv'
<1> DEFINE shown == [shows |-> "geo", what |-> Head(posted).what]
<1>0. UNCHANGED <<store, found, pushing>> /\ posted # <<>> /\ posted' = Tail(posted)
      /\ pane' = shown /\ showingGeo' = TRUE /\ UNCHANGED select
  BY DEF RunPosted, ShowReport, feed
<1>1. PICK S : posted \in Seq(S)
  BY DEF TabInv, PaneInv
<1>2. shown.shows = "geo"
  OBVIOUS
<1> HIDE DEF shown
<1>3. /\ \E T : posted' \in Seq(T)
      /\ Head(posted) = posted[1]
      /\ \A i \in DOMAIN posted : i = 1 \/ (i - 1 \in DOMAIN posted' /\ posted'[i - 1] = posted[i])
  BY <1>0, <1>1, PostedShrinks
<1>4. Quiet' => Quiet
  BY <1>0, <1>3 DEF Quiet
<1>5. StoreInv' /\ Contents' = Contents
  BY <1>0, StoreStays, StoreInvStays DEF TabInv
<1>6. SelectInv'
  BY <1>0, <1>5 DEF TabInv, SelectInv, select
<1>7. PaneInv'
  BY <1>0, <1>2, <1>3, <1>4, <1>5 DEF TabInv, PaneInv, CurrentIn, select
<1> QED
  BY <1>5, <1>6, <1>7 DEF TabInv

\* Steps that touch neither the store nor the widgets.
LEMMA OthersKeep ==
    ASSUME TabInv, UNCHANGED <<store, feed, posted, select, detail>> PROVE TabInv'
<1>1. StoreInv' /\ Contents' = Contents
  BY StoreStays, StoreInvStays DEF TabInv, feed
<1> QED
  BY <1>1 DEF TabInv, SelectInv, PaneInv, Quiet, select, detail, feed

LEMMA TabStepKeeps == TabInv /\ [Next]_vars => TabInv'
<1> SUFFICES ASSUME TabInv, [Next]_vars PROVE TabInv'
  OBVIOUS
<1>1. CASE PushFindings \/ PostRefresh
  BY <1>1, PushKeepsTab, PostRefreshKeeps
<1>2. CASE User
  BY <1>2, SelectHostKeeps, SelectPortKeeps, SelectSortKeeps, ClearKeeps, TapKeepsTab DEF User
<1>3. CASE RunPosted
  <2>1. CASE Head(posted).do = "refresh"
    BY <1>3, <2>1, RefreshKeeps DEF RunPosted
  <2> QED
    BY <1>3, <2>1, ReportKeeps
<1>4. CASE PostReport
  BY <1>4, PostReportKeeps
<1>5. CASE GeoEnds
  BY <1>5, OthersKeep DEF GeoEnds
<1>6. CASE TimeOver
  BY <1>6, OthersKeep DEF TimeOver, Tab
<1>7. ASSUME NEW c \in Calls, Probing(c) PROVE TabInv'
  BY <1>7, OthersKeep DEF Probing, Tab
<1>8. CASE UNCHANGED vars
  BY <1>8, OthersKeep DEF vars
<1> QED
  BY <1>1, <1>2, <1>3, <1>4, <1>5, <1>6, <1>7, <1>8 DEF Next

\* The store, the selection and the pane agree in every state of the tab.
THEOREM TabIsSound == Spec => []TabInv
<1>1. Init => TabInv
  BY InitKeepsTab
<1> QED
  BY <1>1, TabStepKeeps, PTL DEF Spec

-----------------------------------------------------------------------------
(* The invariant of the geo-block check *)

\* A job that has been started and is not done.
Busy(c) == worker[c] \in {"queued", "dialing", "back"}

\* What is always true of one call: a result is in the channel only when the
\* dial has ended, a job that has not dialled has no dial, and a job of a check
\* that is over is done.
CallInv(c) ==
    /\ dialer[c] # "ended" => ch[c] = Nothing
    /\ worker[c] \in {"none", "queued"} => dialer[c] = "none"
    /\ open[c] = Holders(c)
    /\ worker[c] = "back" =>
           (got[c] \in Results /\ said[c] = got[c]) \/ (got[c] = Canceled /\ expired)
    /\ votes[c] = 1 => said[c] = Connected
    /\ votes[c] = -1 => TargetRefused(said[c])
    /\ votes[c] # 0 => worker[c] = "done"
    /\ worker[c] = "done" /\ ~expired /\ c \in Current => votes[c] = VoteOf(said[c])
    /\ Busy(c) => geoRunning /\ checking # <<>> /\ c \in Current
    /\ c > Len(jobs) => worker[c] = "none"

\* The types of the check's variables, and which calls are its own.
Shape ==
    /\ ch \in [Calls -> Results \cup {Nothing}]
    /\ got \in [Calls -> Results \cup {Nothing, Canceled}]
    /\ said \in [Calls -> Results \cup {Nothing}]
    /\ dialer \in [Calls -> {"none", "dialing", "ended"}]
    /\ closer \in [Calls -> {"none", "waiting"}]
    /\ worker \in [Calls -> {"none", "queued", "dialing", "back", "done"}]
    /\ votes \in [Calls -> {-1, 0, 1}]
    /\ open \in [Calls -> Int]
    /\ \E S : jobs \in Seq(S)
    /\ Len(jobs) <= NumCalls
    /\ from \in 0 .. Len(jobs)
    /\ ~geoRunning => from = Len(jobs)

CheckInv == Shape /\ \A c \in Calls : CallInv(c)

-----------------------------------------------------------------------------
(* What it rests on *)

\* The jobs of a pool are a sequence.
LEMMA JobsAreSequence ==
    ASSUME NEW pool \in Pools PROVE \E S : JobsOf(pool) \in Seq(S)
<1> DEFINE Code(i) == CountryOf(pool[i])
           Rank(i) == CHOOSE r \in DOMAIN Countries : Countries[r] = Code(i)
           Taken   == {i \in DOMAIN pool :
                          Cardinality({j \in 1 .. i - 1 : Code(j) = Code(i)}) < PerCountry}
           order   == SetToSortSeq(Taken, LAMBDA i, j :
                          Rank(i) < Rank(j) \/ (Rank(i) = Rank(j) /\ i < j))
           job(n)  == [country |-> Code(order[n]), proxy |-> pool[order[n]]]
           n       == Cardinality(Taken)
<1>1. JobsOf(pool) = [i \in 1 .. n |-> job(i)]
  BY DEF JobsOf
<1>2. n \in Nat
  <2>1. pool \in Seq(DOMAIN Country)
    BY HostsAssumption
  <2>2. IsFiniteSet(1 .. Len(pool)) /\ DOMAIN pool = 1 .. Len(pool)
    BY <2>1, FS_Interval
  <2>3. Taken \in SUBSET (1 .. Len(pool))
    BY <2>2
  <2>4. IsFiniteSet(Taken)
    BY <2>2, <2>3, FS_Subset
  <2> QED
    BY <2>4, FS_CardinalityType
<1> HIDE DEF job, n
<1>3. [i \in 1 .. n |-> job(i)] \in Seq({job(i) : i \in 1 .. n})
  BY <1>2
<1> QED
  BY <1>1, <1>3

\* A vote for a result that the caller received names what the proxy said.
LEMMA VoteIsAnswer ==
    ASSUME NEW result \in Results
    PROVE  /\ VoteOf(result) \in {-1, 0, 1}
           /\ VoteOf(result) = 1 => result = Connected
           /\ VoteOf(result) = -1 => TargetRefused(result)
BY DEF VoteOf, Results, TargetRefused

LEMMA CancelIsNoResult == Canceled # Connected /\ Nothing # Connected /\ Canceled # Nothing
BY DEF Canceled, Connected, Nothing

\* The numbers of the calls and what they may answer.
LEMMA CallFacts == Calls \subseteq Nat \ {0} /\ Answers \in [Calls -> SUBSET Results]
BY DialAssumption DEF Calls

-----------------------------------------------------------------------------
(* Each step of the check keeps it *)

LEMMA InitKeeps == ASSUME Init PROVE CheckInv
<1>1. jobs = <<>> /\ from = 0 /\ Len(jobs) = 0 /\ jobs \in Seq({})
  <2>1. Len(<<>>) = 0 /\ <<>> \in Seq({})
    OBVIOUS
  <2>2. jobs = <<>> /\ from = 0
    BY Zenon DEF Init, RegionInit
  <2> QED
    BY <2>1, <2>2
<1>2. Shape
  <2>1. /\ ch \in [Calls -> Results \cup {Nothing}]
        /\ got \in [Calls -> Results \cup {Nothing, Canceled}]
        /\ said \in [Calls -> Results \cup {Nothing}]
        /\ dialer \in [Calls -> {"none", "dialing", "ended"}]
        /\ closer \in [Calls -> {"none", "waiting"}]
    BY DEF Init, RegionInit, DialInit
  <2>2. worker \in [Calls -> {"none", "queued", "dialing", "back", "done"}]
    BY DEF Init, RegionInit
  <2>3. votes \in [Calls -> {-1, 0, 1}] /\ open \in [Calls -> Int]
    <3>1. votes = [c \in Calls |-> 0] /\ open = [c \in Calls |-> 0]
      BY DEF Init, RegionInit, DialInit
    <3> QED
      BY <3>1
  <2>4. /\ \E S : jobs \in Seq(S)
        /\ Len(jobs) <= NumCalls
        /\ from \in 0 .. Len(jobs)
        /\ ~geoRunning => from = Len(jobs)
    BY <1>1, DialAssumption
  <2> QED
    BY <2>1, <2>2, <2>3, <2>4 DEF Shape
<1>3. ASSUME NEW c \in Calls PROVE CallInv(c)
  <2>1. /\ dialer[c] = "none" /\ ch[c] = Nothing /\ worker[c] = "none"
        /\ votes[c] = 0 /\ open[c] = 0
    BY DEF Init, RegionInit, DialInit
  <2> QED
    BY <2>1, CancelIsNoResult DEF CallInv, Busy, Holders, Conns
<1> QED
  BY <1>2, <1>3 DEF CheckInv

LEMMA EnterKeeps ==
    ASSUME CheckInv, NEW c \in Calls, EnterSem(c), UNCHANGED Tab
    PROVE  CheckInv'
<1> USE DEF Tab, geo
<1>1. Shape'
  BY DEF CheckInv, Shape, EnterSem, Becomes, StartDial, dvars
<1>2. ASSUME NEW d \in Calls PROVE CallInv(d)'
  BY CallFacts
  DEF CheckInv, Shape, CallInv, EnterSem, Becomes, StartDial, dvars, Busy, Holders, Conns,
      Current
<1> QED
  BY <1>1, <1>2 DEF CheckInv

LEMMA ReturnKeeps ==
    ASSUME CheckInv, NEW c \in Calls, DialReturns(c), UNCHANGED Tab
    PROVE  CheckInv'
<1> USE DEF Tab, geo
<1>1. CASE TakeResult(c)
  <2>1. Shape'
    BY <1>1 DEF CheckInv, Shape, DialReturns, TakeResult, Becomes
  <2>2. ASSUME NEW d \in Calls PROVE CallInv(d)'
    BY <1>1, CallFacts, CancelIsNoResult
    DEF CheckInv, Shape, CallInv, DialReturns, TakeResult, Becomes, Busy, Holders, Conns,
        Current
  <2> QED
    BY <2>1, <2>2 DEF CheckInv
<1>2. CASE GiveUp(c)
  <2>1. Shape'
    BY <1>2 DEF CheckInv, Shape, DialReturns, GiveUp, Becomes
  <2>2. ASSUME NEW d \in Calls PROVE CallInv(d)'
    BY <1>2, CallFacts, CancelIsNoResult
    DEF CheckInv, Shape, CallInv, DialReturns, GiveUp, Becomes, Busy, Holders, Conns,
        Current
  <2> QED
    BY <2>1, <2>2 DEF CheckInv
<1> QED
  BY <1>1, <1>2 DEF DialReturns

LEMMA JudgeKeeps ==
    ASSUME CheckInv, NEW c \in Calls, Judge(c), UNCHANGED Tab
    PROVE  CheckInv'
<1> USE DEF Tab, geo
<1> DEFINE vote == IF expired THEN 0 ELSE VoteOf(got[c])
<1>1. /\ worker[c] = "back" /\ worker' = [worker EXCEPT ![c] = "done"]
      /\ votes' = [votes EXCEPT ![c] = vote]
      /\ open' = [open EXCEPT ![c] = @ - Conns(got[c])]
      /\ got' = [got EXCEPT ![c] = Nothing]
      /\ UNCHANGED <<jobs, from, expired, dialer, ch, closer, said>>
  <2>1. 1 * Conns(got[c]) = Conns(got[c])
    BY DEF Conns
  <2> QED
    BY <2>1 DEF Judge, Finish, Becomes
<1>2. /\ vote \in {-1, 0, 1}
      /\ vote = 1 => said[c] = Connected
      /\ vote = -1 => TargetRefused(said[c])
      /\ ~expired => vote = VoteOf(said[c])
  BY <1>1, VoteIsAnswer DEF CheckInv, CallInv
<1> HIDE DEF vote
<1>3. Shape'
  BY <1>1, <1>2 DEF CheckInv, Shape, Conns
<1>4. CallInv(c)'
  BY <1>1, <1>2, CancelIsNoResult
  DEF CheckInv, Shape, CallInv, Busy, Holders, Conns, Current, TargetRefused, VoteOf
<1>5. ASSUME NEW d \in Calls, d # c PROVE CallInv(d)'
  BY <1>1, <1>5 DEF CheckInv, Shape, CallInv, Busy, Holders, Conns, Current
<1> QED
  BY <1>3, <1>4, <1>5 DEF CheckInv

LEMMA LeftKeeps ==
    ASSUME CheckInv, NEW c \in Calls, Left(c), UNCHANGED Tab
    PROVE  CheckInv'
<1> USE DEF Tab, geo, rvars
<1>1. CASE DialEnds(c)
  <2>1. PICK r \in Answers[c] :
            /\ ch' = [ch EXCEPT ![c] = r]
            /\ open' = [open EXCEPT ![c] = @ + Conns(r)]
    BY <1>1 DEF DialEnds
  <2>2. r \in Results
    BY CallFacts
  <2>3. Shape'
    BY <1>1, <2>1, <2>2 DEF CheckInv, Shape, DialEnds, Left, Conns
  <2>4. ASSUME NEW d \in Calls PROVE CallInv(d)'
    BY <1>1, <2>1, <2>2, CancelIsNoResult
    DEF CheckInv, Shape, CallInv, DialEnds, Left, Busy, Holders, Conns, Current
  <2> QED
    BY <2>3, <2>4 DEF CheckInv
<1>2. CASE LateResult(c)
  <2>1. Shape'
    BY <1>2 DEF CheckInv, Shape, LateResult, Left, Conns
  <2>2. ASSUME NEW d \in Calls PROVE CallInv(d)'
    BY <1>2, CancelIsNoResult
    DEF CheckInv, Shape, CallInv, LateResult, Left, Busy, Holders, Conns, Current
  <2> QED
    BY <2>1, <2>2 DEF CheckInv
<1> QED
  BY <1>1, <1>2 DEF Left

LEMMA ExpireKeeps == ASSUME CheckInv, TimeOver PROVE CheckInv'
<1> USE DEF Tab, geo, rvars
<1>1. Shape'
  BY DEF CheckInv, Shape, TimeOver, Expire
<1>2. ASSUME NEW d \in Calls PROVE CallInv(d)'
  BY DEF CheckInv, Shape, CallInv, TimeOver, Expire, Busy, Holders, Conns, Current
<1> QED
  BY <1>1, <1>2 DEF CheckInv
LEMMA StartKeeps ==
    ASSUME CheckInv, NEW pool \in Pools, StartProbe(JobsOf(pool)),
           Len(jobs) + Len(JobsOf(pool)) <= NumCalls,
           ~geoRunning, geoRunning', checking' # <<>>
    PROVE  CheckInv'
<1> DEFINE new    == JobsOf(pool)
           queued == Len(jobs) + 1 .. Len(jobs \o new)
<1>0. Len(jobs) + Len(new) <= NumCalls
  OBVIOUS
<1>1. /\ jobs' = jobs \o new
      /\ worker' = [c \in Calls |-> IF c \in queued THEN "queued" ELSE worker[c]]
      /\ UNCHANGED <<from, votes, dialer, ch, got, closer, open, said>>
  BY DEF StartProbe
<1>2. PICK S, T : jobs \in Seq(S) /\ new \in Seq(T)
  BY JobsAreSequence DEF CheckInv, Shape
<1> HIDE DEF new
<1>3. /\ jobs \o new \in Seq(S \cup T)
      /\ Len(jobs) \in Nat /\ Len(new) \in Nat
      /\ Len(jobs \o new) = Len(jobs) + Len(new)
  <2>1. jobs \in Seq(S \cup T) /\ new \in Seq(S \cup T)
    BY <1>2
  <2> QED
    BY <2>1
<1>4. from = Len(jobs) /\ Current' = queued
  BY <1>1 DEF CheckInv, Shape, Current
<1>5. Shape'
  BY <1>0, <1>1, <1>3, <1>4 DEF CheckInv, Shape
<1>6. ASSUME NEW d \in Calls PROVE CallInv(d)'
  <2>1. worker[d] \in {"none", "done"}
    BY DEF CheckInv, Shape, CallInv, Busy
  <2>2. CASE d \in queued
    <3>1. worker[d] = "none" /\ worker'[d] = "queued"
      BY <1>1, <1>3, <2>2, CallFacts DEF CheckInv, CallInv
    <3> QED
      BY <1>1, <1>3, <1>4, <2>2, <3>1
      DEF CheckInv, Shape, CallInv, Busy, Holders, Conns, TargetRefused
  <2>3. CASE d \notin queued
    <3>1. worker'[d] = worker[d]
      BY <1>1, <2>3
    <3>2. d > Len(jobs') => d > Len(jobs)
      BY <1>1, <1>3, CallFacts
    <3> QED
      BY <1>1, <1>4, <2>1, <2>3, <3>1, <3>2
      DEF CheckInv, Shape, CallInv, Busy, Holders, Conns, TargetRefused
  <2> QED
    BY <2>2, <2>3
<1> QED
  BY <1>5, <1>6 DEF CheckInv

LEMMA TapKeeps == ASSUME CheckInv, TapGeo PROVE CheckInv'
<1>1. CASE UNCHANGED <<geo, dvars, rvars>>
  BY <1>1 DEF CheckInv, Shape, CallInv, Busy, Holders, Current, geo, dvars, rvars
<1>2. CASE \E pool \in Pools : /\ ~geoRunning /\ geoRunning' = TRUE
                               /\ checking' = <<hostsSlice[selHost].ip, entries[selPort].key[1]>>
                               /\ Len(jobs) + Len(JobsOf(pool)) <= NumCalls
                               /\ StartProbe(JobsOf(pool))
  <2>1. checking' # <<>>
    BY <1>2
  <2> QED
    BY <1>2, <2>1, StartKeeps
<1> QED
  BY <1>1, <1>2 DEF TapGeo

LEMMA PostKeeps == ASSUME CheckInv, PostReport PROVE CheckInv'
<1>1. Shape'
  BY DEF CheckInv, Shape, PostReport, dvars, rvars
<1>2. ASSUME NEW d \in Calls PROVE CallInv(d)'
  <2>1. ~Busy(d)
    BY DEF CheckInv, CallInv, PostReport, ProbesDone, Busy
  <2> QED
    BY <2>1 DEF CheckInv, CallInv, PostReport, dvars, rvars, Busy, Holders, Current
<1> QED
  BY <1>1, <1>2 DEF CheckInv

LEMMA EndKeeps == ASSUME CheckInv, GeoEnds PROVE CheckInv'
<1>1. Shape'
  BY DEF CheckInv, Shape, GeoEnds, EndProbe
<1>2. ASSUME NEW d \in Calls PROVE CallInv(d)'
  BY DEF CheckInv, Shape, CallInv, GeoEnds, EndProbe, Busy, Holders, Conns
<1> QED
  BY <1>1, <1>2 DEF CheckInv

-----------------------------------------------------------------------------
(* The theorems of the check *)

LEMMA StepKeeps == CheckInv /\ [Next]_vars => CheckInv'
<1> SUFFICES ASSUME CheckInv, [Next]_vars PROVE CheckInv'
  OBVIOUS
<1>1. CASE UNCHANGED <<geo, dvars, rvars>>
  BY <1>1 DEF CheckInv, Shape, CallInv, Busy, Holders, Current, geo, dvars, rvars
<1>2. CASE PushFindings \/ PostRefresh
  BY <1>1, <1>2 DEF PushFindings, PostRefresh
<1>3. CASE User
  <2>1. CASE ~TapGeo
    BY <1>1, <1>3, <2>1 DEF User, SelectHost, SelectPort, SelectSort, ClearAll
  <2> QED
    BY <2>1, TapKeeps
<1>4. CASE RunPosted
  BY <1>1, <1>4 DEF RunPosted
<1>5. CASE PostReport \/ GeoEnds \/ TimeOver
  BY <1>5, PostKeeps, EndKeeps, ExpireKeeps
<1>6. ASSUME NEW c \in Calls, Probing(c) PROVE CheckInv'
  BY <1>6, EnterKeeps, ReturnKeeps, JudgeKeeps, LeftKeeps DEF Probing, ProbeStep
<1>7. CASE UNCHANGED vars
  BY <1>1, <1>7 DEF vars
<1> QED
  BY <1>2, <1>3, <1>4, <1>5, <1>6, <1>7 DEF Next

\* The invariant of the check holds in every state of the Hosts tab.
THEOREM CheckIsSound == Spec => []CheckInv
<1>1. Init => CheckInv
  BY InitKeeps
<1> QED
  BY <1>1, StepKeeps, PTL DEF Spec

\* A connection made by a dial is held by one goroutine until it is closed,
\* once: the select of DialThroughProxyCtx hands the result either to the
\* worker or to the goroutine that closes late connections.
THEOREM ConnectionsHaveOneOwner == Spec => []OneOwner
<1>1. CheckInv => OneOwner
  BY DEF CheckInv, CallInv, OneOwner
<1> QED
  BY <1>1, CheckIsSound, PTL

\* A country with an open or blocked status has a job that voted so.
LEMMA StatusNeedsVote ==
    ASSUME CheckInv, NEW country, NEW v \in {-1, 1},
           Cardinality(Votes(country, v)) > 0
    PROVE  \E c \in Current : jobs[c].country = country /\ votes[c] = v
<1>1. PICK S : jobs \in Seq(S)
  BY DEF CheckInv, Shape
<1>2. IsFiniteSet(Current)
  BY <1>1, FS_Interval DEF CheckInv, Shape, Current
<1>3. Votes(country, v) # {}
  BY FS_EmptySet
<1> QED
  BY <1>3 DEF Votes

\* Votes of ProbeRegion are answers that the proxies gave in time: an expired
\* context is never a refusal, and "blocked somewhere" has a country that
\* reached the port and another that was refused.
THEOREM VotesComeFromAnswers == Spec => []VotesAreEvidence
<1>1. ASSUME CheckInv PROVE VotesAreEvidence
  <2>0. Current \subseteq Calls
    <3>1. PICK S : jobs \in Seq(S)
      BY <1>1 DEF CheckInv, Shape
    <3> QED
      BY <1>1, <3>1, DialAssumption DEF CheckInv, Shape, Current, Calls
  <2>1. \A c \in Calls : /\ votes[c] = 1  => said[c] = Connected
                         /\ votes[c] = -1 => TargetRefused(said[c])
    BY <1>1 DEF CheckInv, CallInv
  <2>2. ASSUME DecideRegionBlock(Tally) = "blocked somewhere"
        PROVE  \E c, d \in Current : /\ said[c] = Connected
                                     /\ TargetRefused(said[d])
                                     /\ jobs[c].country # jobs[d].country
    <3> DEFINE countries == {jobs[c].country : c \in Current}
               openIn    == {k \in DOMAIN Tally : Status(Tally[k]) = "open"}
               blockedIn == {k \in DOMAIN Tally : Status(Tally[k]) = "blocked"}
    <3>1. openIn # {} /\ blockedIn # {}
      BY <2>2 DEF DecideRegionBlock
    <3>2. PICK a \in openIn, b \in blockedIn : TRUE
      BY <3>1
    <3>3. /\ a # b
          /\ Tally[a] = Probe(a) /\ Tally[b] = Probe(b)
          /\ Status(Probe(a)) = "open" /\ Status(Probe(b)) = "blocked"
      BY <3>2 DEF Tally
    <3>4. Cardinality(Votes(a, 1)) > 0 /\ Cardinality(Votes(b, -1)) > 0
      BY <3>3 DEF Status, Probe
    <3>5. PICK c \in Current : jobs[c].country = a /\ votes[c] = 1
      BY <1>1, <3>4, StatusNeedsVote
    <3>6. PICK d \in Current : jobs[d].country = b /\ votes[d] = -1
      BY <1>1, <3>4, StatusNeedsVote
    <3> QED
      BY <2>0, <2>1, <3>3, <3>5, <3>6
  <2>3. ~expired => \A c \in Current : worker[c] = "done" => votes[c] = VoteOf(said[c])
    BY <1>1, <2>0 DEF CheckInv, CallInv
  <2> QED
    BY <2>1, <2>2, <2>3 DEF VotesAreEvidence
<1> QED
  BY <1>1, CheckIsSound, PTL

-----------------------------------------------------------------------------
(* The theorems of the tab *)

\* The store says what was reported since it was cleared, neither more nor
\* less, each host in one row and each port in one entry.
THEOREM StoreKeepsFindings == Spec => []StoreIsFindings
<1>1. ASSUME TabInv PROVE StoreIsFindings
  <2> DEFINE s == Contents
  <2>0. /\ Sound(s) /\ found \subseteq Hosts \X Keys \X Text
        /\ \A h \in Hosts, k \in Keys : \A p : <<h, k, p>> \in found <=> Tells(s, h, k, p)
        /\ s.map = hostsMap /\ s.slice = hostsSlice /\ s.entries = entries
    BY <1>1, PortsOfTab DEF TabInv, StoreInv
  <2> HIDE DEF s
  <2>1. /\ DOMAIN s.slice = 1 .. Len(s.slice) /\ Len(s.slice) \in Nat
        /\ DOMAIN s.entries = 1 .. Len(s.entries) /\ s.entries \in Seq(Entry)
        /\ \A i \in 1 .. Len(s.slice) : s.slice[i] \in HostRow
    BY <2>0, StoreFields DEF Sound
  <2>2. ASSUME NEW h \in Hosts, NEW i \in DOMAIN s.slice
        PROVE  s.map[h] = i <=> s.slice[i].ip = h
    <3>1. i \in 1 .. Len(s.slice) /\ i # 0
      BY <2>1
    <3>2. s.map[s.slice[i].ip] = i
      BY <2>0, <3>1 DEF Sound
    <3>3. s.map[h] # 0 => s.slice[s.map[h]].ip = h
      BY <2>0 DEF Sound
    <3> QED
      BY <3>1, <3>2, <3>3
  <2>3. ASSUME NEW i \in DOMAIN s.slice, NEW k \in Keys, NEW j \in DOMAIN s.slice[i].ports
        PROVE  s.slice[i].portIdx[k] = j <=> s.entries[s.slice[i].ports[j]].key = k
    <3> DEFINE r == s.slice[i]
    <3>1. r \in HostRow /\ HostOk(r, s.entries)
      BY <2>0, <2>1 DEF Sound
    <3> HIDE DEF r
    <3>2. j \in 1 .. Len(r.ports) /\ j # 0
      <4>1. r.ports \in Seq(Nat)
        BY <3>1, RowFields
      <4> QED
        BY <4>1 DEF r
    <3>3. r.portIdx[s.entries[r.ports[j]].key] = j
      BY <3>1, <3>2 DEF HostOk
    <3>4. r.portIdx[k] # 0 => s.entries[r.ports[r.portIdx[k]]].key = k
      BY <3>1 DEF HostOk
    <3>5. r.portIdx[k] = j <=> s.entries[r.ports[j]].key = k
      BY <3>2, <3>3, <3>4
    <3> QED
      BY <3>5 DEF r
  <2> DEFINE told(i, e) == {<<s.slice[i].ip, s.entries[e].key, p>> : p \in Range(s.entries[e].proxies)}
             row(i) == UNION {told(i, e) : e \in Range(s.slice[i].ports)}
             all == UNION {row(i) : i \in DOMAIN s.slice}
  <2>4. ASSUME NEW h \in Hosts, NEW k \in Keys, NEW p, Tells(s, h, k, p)
        PROVE  <<h, k, p>> \in all
    <3> DEFINE i == s.map[h] e == EntryOf(s, h, k)
    <3>1. Has(s, h, k) /\ p \in Range(s.entries[e].proxies)
      BY <2>4 DEF Tells
    <3>2. /\ i \in 1 .. Len(s.slice) /\ s.slice[i].portIdx[k] \in 1 .. Len(s.slice[i].ports)
          /\ s.entries[e].key = k /\ s.slice[i] \in HostRow
      BY <2>0, <3>1, EntryIsThere
    <3>3. s.slice[i].ip = h
      BY <2>0, <3>1 DEF Has, Sound
    <3>4. e = s.slice[i].ports[s.slice[i].portIdx[k]]
      BY DEF EntryOf
    <3>5. s.slice[i].ports \in Seq(Nat)
      BY <3>2, RowFields
    <3> HIDE DEF e, i
    <3>6. e \in Range(s.slice[i].ports)
      BY SMTT(30), <3>2, <3>4, <3>5 DEF Range
    <3>7. <<h, k, p>> \in told(i, e)
      BY <3>1, <3>2, <3>3
    <3> HIDE DEF told
    <3>8. <<h, k, p>> \in row(i) /\ i \in DOMAIN s.slice
      BY <2>1, <3>2, <3>6, <3>7
    <3> HIDE DEF row
    <3> QED
      BY <3>8
  <2>5. ASSUME NEW i \in DOMAIN s.slice, NEW e \in Range(s.slice[i].ports),
               NEW p \in Range(s.entries[e].proxies)
        PROVE  <<s.slice[i].ip, s.entries[e].key, p>> \in found
    <3> DEFINE r == s.slice[i] h == r.ip k == s.entries[e].key
    <3>1. r \in HostRow /\ HostOk(r, s.entries) /\ s.map[r.ip] = i /\ i # 0
      BY <2>0, <2>1 DEF Sound
    <3>2. r.ports \in Seq(Nat) /\ r.ip \in Hosts
      BY <3>1, RowFields
    <3>3. PICK j \in 1 .. Len(r.ports) : r.ports[j] = e
      <4>1. r.ports \in Seq(Nat) /\ e \in Range(r.ports)
        BY <3>2
      <4> HIDE DEF r
      <4> QED
        BY <4>1 DEF Range
    <3>4. e \in 1 .. Len(s.entries) /\ r.portIdx[k] = j
      <4>1. r.ports[j] \in 1 .. Len(s.entries) /\ r.portIdx[s.entries[r.ports[j]].key] = j
        <5> HIDE DEF r
        <5> QED
          BY <3>1, <3>3, EntryLeads
      <4> QED
        BY <4>1, <3>3
    <3>5. k \in Keys /\ j # 0
      <4>1. s.entries[e] \in Entry
        BY <2>1, <3>4
      <4> QED
        BY <4>1 DEF Entry
    <3>6. Has(s, h, k)
      BY <3>1, <3>4, <3>5 DEF Has
    <3>7. EntryOf(s, h, k) = e
      BY <3>1, <3>3, <3>4 DEF EntryOf
    <3>8. Tells(s, h, k, p)
      BY <3>6, <3>7 DEF Tells
    <3> QED
      BY <2>0, <3>2, <3>5, <3>8
  <2>6. found \subseteq all
    <3> HIDE DEF all
    <3>1. ASSUME NEW x \in found PROVE x \in all
      <4>1. x \in Hosts \X Keys \X Text
        BY <2>0
      <4>2. x[1] \in Hosts /\ x[2] \in Keys /\ x = <<x[1], x[2], x[3]>>
        BY <4>1
      <4>3. Tells(s, x[1], x[2], x[3])
        BY <2>0, <4>2
      <4>4. <<x[1], x[2], x[3]>> \in all
        BY <2>4, <4>2, <4>3
      <4> QED
        BY <4>2, <4>4
    <3> QED
      BY <3>1
  <2>7. all \subseteq found
    <3>1. ASSUME NEW i \in DOMAIN s.slice, NEW e \in Range(s.slice[i].ports)
          PROVE  told(i, e) \subseteq found
      BY <2>5
    <3> HIDE DEF told
    <3> QED
      BY <3>1
  <2>8. \A e \in DOMAIN s.entries : IsInjective(s.entries[e].proxies)
    BY <2>0, <2>1 DEF Sound
  <2>9. found = all
    <3> HIDE DEF all
    <3> QED
      BY <2>6, <2>7
  <2> QED
    BY <2>0, <2>2, <2>3, <2>8, <2>9 DEF StoreIsFindings
<1> QED
  BY <1>1, TabIsSound, PTL

\* The selected port belongs to the selected host and is in the list shown.
THEOREM SelectionStaysStored == Spec => []SelectionIsStored
<1>1. ASSUME TabInv PROVE SelectionIsStored
  <2> DEFINE s == Contents
  <2>1. SelectedIn(s, selHost, selPort, sortMode, portView) /\ s.slice = hostsSlice
    BY <1>1, PortsOfTab DEF TabInv, SelectInv
  <2> HIDE DEF s
  <2>2. CASE selPort # NoEntry
    <3>1. selPort \in ToSet(PortsIn(s, selHost)) /\ selPort \in ToSet(portView)
      BY <2>1, <2>2 DEF SelectedIn
    <3>2. selHost \in DOMAIN s.slice /\ PortsIn(s, selHost) = s.slice[selHost].ports
      BY <3>1, EmptyList DEF PortsIn
    <3> QED
      BY <2>1, <3>1, <3>2, RangeIsToSet DEF SelectionIsStored
  <2> QED
    BY <2>2 DEF SelectionIsStored
<1> QED
  BY <1>1, TabIsSound, PTL

\* When no report of a scan is on its way, the list and the pane show the
\* selected host and port as they are in the store.
THEOREM PaneStaysCurrent == Spec => []PaneIsCurrent
<1>1. ASSUME TabInv PROVE PaneIsCurrent
  <2>1. Quiet => CurrentIn(Contents, selHost, selPort, sortMode, portView, pane)
    BY <1>1 DEF TabInv, PaneInv
  <2> QED
    BY <2>1, PortsOfTab DEF PaneIsCurrent, Quiet, CurrentIn
<1> QED
  BY <1>1, TabIsSound, PTL

\* No more calls dial at a time than sem has places.
RoomInv == Cardinality(Working) <= DialConc /\ geoRunning \in BOOLEAN

LEMMA WorkingIsFinite == IsFiniteSet(Working) /\ IsFiniteSet(Working')
<1>1. IsFiniteSet(Calls)
  BY DialAssumption, FS_Interval DEF Calls
<1>2. Working \in SUBSET Calls /\ Working' \in SUBSET Calls
  BY DEF Working
<1> QED
  BY <1>1, <1>2, FS_Subset

LEMMA RoomStays ==
    ASSUME RoomInv, Working' \subseteq Working, geoRunning' \in BOOLEAN
    PROVE  RoomInv'
<1>1. Cardinality(Working') <= Cardinality(Working) /\ Cardinality(Working') \in Nat
      /\ Cardinality(Working) \in Nat
  <2> DEFINE a == Working b == Working'
  <2>1. IsFiniteSet(a) /\ IsFiniteSet(b) /\ b \in SUBSET a
    BY WorkingIsFinite
  <2> HIDE DEF a, b
  <2>2. Cardinality(b) <= Cardinality(a) /\ Cardinality(b) \in Nat /\ Cardinality(a) \in Nat
    BY <2>1, FS_Subset, FS_CardinalityType
  <2> QED
    BY <2>2 DEF a, b
<1> QED
  BY <1>1, RegionAssumption DEF RoomInv

LEMMA EnterKeepsRoom ==
    ASSUME CheckInv, RoomInv, NEW c \in Calls, EnterSem(c), UNCHANGED Tab
    PROVE  RoomInv'
<1>0. geoRunning' \in BOOLEAN
  BY DEF RoomInv, Tab, geo
<1>1. worker \in [Calls -> {"none", "queued", "dialing", "back", "done"}]
  BY DEF CheckInv, Shape
<1>2. CASE expired
  <2>1. Working' \subseteq Working
    BY <1>1, <1>2 DEF EnterSem, Becomes, Working
  <2> QED
    BY <1>0, <2>1, RoomStays
<1>3. CASE ~expired
  <2> DEFINE a == Working b == Working'
  <2>1. b \subseteq a \cup {c} /\ Cardinality(a) < DialConc /\ IsFiniteSet(a) /\ IsFiniteSet(b)
    BY <1>1, <1>3, WorkingIsFinite DEF EnterSem, Becomes, Working
  <2> HIDE DEF a, b
  <2>2. /\ IsFiniteSet(a \cup {c}) /\ Cardinality(a) \in Nat /\ Cardinality(b) \in Nat
        /\ Cardinality(a \cup {c}) = IF c \in a THEN Cardinality(a) ELSE Cardinality(a) + 1
    BY <2>1, FS_AddElement, FS_CardinalityType
  <2>3. Cardinality(b) <= Cardinality(a \cup {c})
    BY <2>1, <2>2, FS_Subset
  <2>4. Cardinality(b) <= DialConc
    BY <2>1, <2>2, <2>3, RegionAssumption
  <2> QED
    BY <1>0, <2>4 DEF RoomInv, b
<1> QED
  BY <1>2, <1>3

LEMMA RoomStepKeeps == CheckInv /\ RoomInv /\ [Next]_vars => RoomInv'
<1> SUFFICES ASSUME CheckInv, RoomInv, [Next]_vars PROVE RoomInv'
  OBVIOUS
<1>0. worker \in [Calls -> {"none", "queued", "dialing", "back", "done"}] /\ geoRunning \in BOOLEAN
  BY DEF CheckInv, Shape, RoomInv
<1>1. CASE UNCHANGED <<geo, rvars>>
  <2>1. Working' = Working /\ geoRunning' = geoRunning
    BY <1>1 DEF Working, geo, rvars
  <2> QED
    BY <1>0, <2>1, RoomStays
<1>2. CASE PushFindings \/ PostRefresh
  BY <1>1, <1>2 DEF PushFindings, PostRefresh
<1>3. CASE User
  <2>1. CASE ~TapGeo
    BY <1>1, <1>3, <2>1 DEF User, SelectHost, SelectPort, SelectSort, ClearAll
  <2>2. ASSUME NEW pool \in Pools, StartProbe(JobsOf(pool)), geoRunning' = TRUE PROVE RoomInv'
    <3>1. Working' \subseteq Working
      BY <1>0, <2>2 DEF StartProbe, Working
    <3> QED
      BY <2>2, <3>1, RoomStays
  <2>3. CASE TapGeo
    BY <1>1, <2>2, <2>3 DEF TapGeo
  <2> QED
    BY <2>1, <2>3
<1>4. CASE RunPosted
  BY <1>1, <1>4 DEF RunPosted
<1>5. CASE PostReport \/ GeoEnds
  <2>1. Working' = Working /\ geoRunning' \in BOOLEAN
    BY <1>0, <1>5 DEF PostReport, GeoEnds, EndProbe, Working, rvars
  <2> QED
    BY <2>1, RoomStays
<1>6. CASE TimeOver
  BY <1>1, <1>6 DEF TimeOver, Expire, Tab
<1>7. ASSUME NEW c \in Calls, Probing(c) PROVE RoomInv'
  <2>1. CASE EnterSem(c)
    BY <1>7, <2>1, EnterKeepsRoom DEF Probing
  <2>2. CASE DialReturns(c) \/ Judge(c) \/ Left(c)
    <3>1. Working' \subseteq Working
      BY <1>0, <2>2 DEF DialReturns, Judge, Finish, Left, Becomes, Working, rvars
    <3>2. geoRunning' = geoRunning
      BY <1>7 DEF Probing, Tab, geo
    <3> QED
      BY <1>0, <3>1, <3>2, RoomStays
  <2> QED
    BY <1>7, <2>1, <2>2 DEF Probing, ProbeStep
<1>8. CASE UNCHANGED vars
  BY <1>1, <1>8 DEF vars
<1> QED
  BY <1>2, <1>3, <1>4, <1>5, <1>6, <1>7, <1>8 DEF Next

LEMMA InitKeepsRoom == Init => RoomInv
<1> SUFFICES ASSUME Init PROVE RoomInv
  OBVIOUS
<1>1. Working = {} /\ geoRunning = FALSE
  BY DEF Init, RegionInit, Working
<1>2. Cardinality({}) = 0
  BY FS_EmptySet
<1>3. 0 <= DialConc
  BY RegionAssumption
<1>4. Cardinality(Working) = 0
  BY <1>1, <1>2
<1>5. Cardinality(Working) <= DialConc
  BY <1>3, <1>4
<1> QED
  BY <1>1, <1>5 DEF RoomInv

\* A host has no more rows and a row no more ports than there are.
LEMMA RowsAreFew ==
    ASSUME NEW s, Sound(s)
    PROVE  Len(s.slice) <= Cardinality(Hosts) /\ Cardinality(Hosts) \in Nat
<1>1. s.slice \in Seq(HostRow) /\ Len(s.slice) \in Nat
  BY StoreFields DEF Sound
<1> DEFINE n == Len(s.slice) f == [i \in 1 .. n |-> s.slice[i].ip]
<1>2. \A i \in 1 .. n : s.slice[i].ip \in Hosts /\ s.map[s.slice[i].ip] = i
  BY <1>1, RowFields DEF Sound
<1>3. f \in [1 .. n -> Hosts] /\ IsInjective(f)
  BY <1>2 DEF IsInjective
<1> HIDE DEF f
<1>4. f \in Injection(1 .. n, Hosts)
  BY <1>3 DEF Injection
<1>5. Cardinality(1 .. n) <= Cardinality(Hosts)
  BY <1>4, HostsAssumption, FS_Injection
<1>6. Cardinality(1 .. n) = n
  BY <1>1, FS_Interval
<1> QED
  BY <1>5, <1>6, HostsAssumption, FS_CardinalityType

LEMMA PortsAreFew ==
    ASSUME NEW es \in Seq(Entry), NEW r \in HostRow, HostOk(r, es)
    PROVE  Len(r.ports) <= Cardinality(Keys) /\ Cardinality(Keys) \in Nat
<1> DEFINE n == Len(r.ports) f == [j \in 1 .. n |-> es[r.ports[j]].key]
<1>1. n \in Nat
  BY RowFields
<1>2. ASSUME NEW j \in 1 .. n
      PROVE  es[r.ports[j]].key \in Keys /\ r.portIdx[es[r.ports[j]].key] = j
  <2>1. r.ports[j] \in 1 .. Len(es) /\ r.portIdx[es[r.ports[j]].key] = j
    BY DEF HostOk
  <2>2. es[r.ports[j]] \in Entry
    BY <2>1
  <2> QED
    BY <2>1, <2>2 DEF Entry
<1>3. f \in [1 .. n -> Keys] /\ IsInjective(f)
  BY SMTT(30), <1>2 DEF IsInjective
<1> HIDE DEF f
<1>4. f \in Injection(1 .. n, Keys)
  BY <1>3 DEF Injection
<1>5. Cardinality(1 .. n) <= Cardinality(Keys)
  BY <1>4, HostsAssumption, FS_Injection
<1>6. Cardinality(1 .. n) = n
  BY <1>1, FS_Interval
<1> QED
  BY <1>5, <1>6, HostsAssumption, FS_CardinalityType

\* The variables have their types: the indices lead to rows and entries that
\* are there, and no check has more dials at a time than its sem has places.
THEOREM TabIsTyped == Spec => []TypeOK
<1>1. ASSUME TabInv, CheckInv, RoomInv PROVE TypeOK
  <2> DEFINE s == Contents
  <2>0. /\ Sound(s) /\ s \in Store /\ s.map = hostsMap /\ s.slice = hostsSlice /\ s.entries = entries
        /\ SelectedIn(s, selHost, selPort, sortMode, portView)
    BY <1>1, PortsOfTab DEF TabInv, StoreInv, SelectInv, Sound
  <2> HIDE DEF s
  <2>1. /\ s.map \in [Hosts -> Nat] /\ s.slice \in Seq(HostRow) /\ s.entries \in Seq(Entry)
        /\ Len(s.slice) \in Nat /\ Len(s.entries) \in Nat
        /\ DOMAIN s.slice = 1 .. Len(s.slice) /\ DOMAIN s.entries = 1 .. Len(s.entries)
    BY <2>0, StoreFields
  <2>2. s.map \in [Hosts -> 0 .. Cardinality(Hosts)]
    <3>1. \A h \in Hosts : s.map[h] \in 0 .. Len(s.slice)
      BY <2>0 DEF Sound
    <3>2. Len(s.slice) <= Cardinality(Hosts) /\ Cardinality(Hosts) \in Nat
      BY <2>0, RowsAreFew
    <3>3. \A h \in Hosts : s.map[h] \in 0 .. Cardinality(Hosts)
      BY <2>1, <3>1, <3>2
    <3> QED
      BY <2>1, <3>3
  <2>3. ASSUME NEW i \in DOMAIN s.slice
        PROVE  /\ s.slice[i].ip \in Hosts
               /\ s.slice[i].portIdx \in [Keys -> 0 .. Cardinality(Keys)]
               /\ \A j \in DOMAIN s.slice[i].ports : s.slice[i].ports[j] \in DOMAIN s.entries
    <3> DEFINE r == s.slice[i]
    <3>1. r \in HostRow /\ HostOk(r, s.entries)
      BY <2>0, <2>1 DEF Sound
    <3> HIDE DEF r
    <3>2. /\ r.ip \in Hosts /\ r.ports \in Seq(Nat) /\ r.portIdx \in [Keys -> Nat]
          /\ Len(r.ports) \in Nat /\ DOMAIN r.ports = 1 .. Len(r.ports)
      BY <3>1, RowFields
    <3>3. Len(r.ports) <= Cardinality(Keys) /\ Cardinality(Keys) \in Nat
      BY <2>1, <3>1, PortsAreFew
    <3>4. \A k \in Keys : r.portIdx[k] \in 0 .. Len(r.ports)
      BY <3>1 DEF HostOk
    <3>5. \A k \in Keys : r.portIdx[k] \in 0 .. Cardinality(Keys)
      BY <3>2, <3>3, <3>4
    <3>6. r.portIdx \in [Keys -> 0 .. Cardinality(Keys)]
      BY <3>2, <3>5
    <3>7. \A j \in DOMAIN r.ports : r.ports[j] \in DOMAIN s.entries
      BY <2>1, <3>1, <3>2 DEF HostOk
    <3> QED
      BY <3>2, <3>6, <3>7 DEF r
  <2>4. selHost \in 0 .. Len(s.slice) /\ sortMode \in SortModes
    BY <2>0 DEF SelectedIn
  <2>5. selPort \in 0 .. Len(s.entries)
    <3>1. CASE selPort = NoEntry
      BY <2>1, <3>1 DEF NoEntry
    <3>2. CASE selPort # NoEntry
      <4>1. portView \in Seq(1 .. Len(s.entries)) /\ selPort \in ToSet(portView)
        BY <2>0, <3>2 DEF SelectedIn
      <4>2. selPort \in 1 .. Len(s.entries)
        BY <4>1, MembersOf
      <4> QED
        BY <2>1, <4>2
    <3> QED
      BY <3>1, <3>2
  <2>6. showingGeo \in BOOLEAN /\ pane.shows \in {"none", "note", "port", "geo"}
    BY <1>1 DEF TabInv, PaneInv
  <2>7. /\ votes \in [Calls -> {-1, 0, 1}]
        /\ got \in [Calls -> Results \cup {Nothing, Canceled}]
        /\ Len(jobs) <= NumCalls
    BY <1>1 DEF CheckInv, Shape
  <2>8. Cardinality(Working) <= DialConc /\ geoRunning \in BOOLEAN
    BY <1>1 DEF RoomInv
  <2> QED
    BY <2>0, <2>2, <2>3, <2>4, <2>5, <2>6, <2>7, <2>8 DEF TypeOK
<1>2. Spec => []RoomInv
  <2>1. Init => RoomInv
    BY InitKeepsRoom
  <2> QED
    BY <2>1, RoomStepKeeps, CheckIsSound, PTL DEF Spec
<1> QED
  BY <1>1, <1>2, TabIsSound, CheckIsSound, PTL

-----------------------------------------------------------------------------
(* The pieces of an nmap scan *)

\* The course of FlattenSeq: f[i] joins the first i of the n sequences.
JoinsUp(f, seqs, n) ==
    f = [i \in 1 .. n |-> IF i = 1 THEN seqs[i] ELSE f[i - 1] \o seqs[i]]

LEMMA OneJoin ==
    ASSUME NEW seqs, NEW n \in Nat \ {0}, NEW f, NEW g,
           JoinsUp(f, seqs, n), JoinsUp(g, seqs, n)
    PROVE  f[n] = g[n]
<1> DEFINE Good == {0} \cup {i \in 1 .. n : f[i] = g[i]}
<1>1. 0 \in Good
  OBVIOUS
<1>2. ASSUME NEW i \in 1 .. n, i - 1 \in Good
      PROVE  i \in Good
  <2>1. /\ f[i] = IF i = 1 THEN seqs[i] ELSE f[i - 1] \o seqs[i]
        /\ g[i] = IF i = 1 THEN seqs[i] ELSE g[i - 1] \o seqs[i]
    BY DEF JoinsUp
  <2>2. i # 1 => f[i - 1] = g[i - 1]
    BY <1>2
  <2> QED
    BY <2>1, <2>2
<1> HIDE DEF Good
<1>3. 0 .. n \subseteq Good
  BY <1>1, <1>2, UpTo
<1>4. n \in Good
  BY <1>3
<1> QED
  BY <1>4 DEF Good

LEMMA FlattenJoins ==
    ASSUME NEW seqs, NEW n \in Nat \ {0}, Len(seqs) = n, NEW f, JoinsUp(f, seqs, n)
    PROVE  FlattenSeq(seqs) = f[n]
<1> DEFINE g == CHOOSE h : JoinsUp(h, seqs, n)
<1>1. JoinsUp(g, seqs, n)
  OBVIOUS
<1>2. FlattenSeq(seqs) = g[n]
  BY DEF FlattenSeq, JoinsUp
<1> HIDE DEF g
<1> QED
  BY <1>1, <1>2, OneJoin

\* Where the i-th piece starts.
Start(i, size) == (i - 1) * size

LEMMA Starts ==
    ASSUME NEW i \in Nat \ {0}, NEW size \in Nat \ {0}
    PROVE  /\ Start(i, size) \in Nat /\ Start(1, size) = 0
           /\ Start(i + 1, size) = Start(i, size) + size
<1>1. i - 1 \in Nat /\ (i - 1) * size \in Nat /\ (1 - 1) * size = 0
  OBVIOUS
<1>2. ((i + 1) - 1) * size = (i - 1) * size + size
  OBVIOUS
<1> QED
  BY <1>1, <1>2 DEF Start

LEMMA LaterStarts ==
    ASSUME NEW i \in Nat \ {0}, NEW j \in Nat \ {0}, i <= j, NEW size \in Nat \ {0}
    PROVE  Start(i, size) <= Start(j, size)
<1> DEFINE a == i - 1
           d == j - i
<1>1. a \in Nat /\ d \in Nat /\ j - 1 = a + d
  OBVIOUS
<1> HIDE DEF a, d
<1>2. a * size \in Nat /\ d * size \in Nat /\ (a + d) * size = a * size + d * size
  BY <1>1
<1>3. Start(i, size) = a * size /\ Start(j, size) = (a + d) * size
  BY <1>1 DEF Start, a
<1> QED
  BY <1>2, <1>3

LEMMA SizeIsEnough ==
    ASSUME NEW hosts \in Nat \ {0}, NEW proxies \in Nat \ {0}
    PROVE  /\ ChunkSize(hosts, proxies) \in Nat \ {0}
           /\ hosts <= proxies * ChunkSize(hosts, proxies)
<1> DEFINE k == hosts + proxies - 1
           q == k \div proxies
           r == k % proxies
<1>1. k \in Nat
  OBVIOUS
<1>2. q \in Int /\ r \in 0 .. proxies - 1 /\ k = proxies * q + r
  BY <1>1
<1>3. ChunkSize(hosts, proxies) = q
  BY DEF ChunkSize
<1>4. hosts + proxies - 1 = proxies * q + r
  BY <1>2
<1> HIDE DEF k, q, r
<1>5. proxies * q \in Int /\ hosts <= proxies * q
  BY <1>2, <1>4
<1>6. q > 0
  <2> SUFFICES ASSUME ~(q > 0) PROVE FALSE
    OBVIOUS
  <2>1. - q \in Nat
    BY <1>2
  <2>2. proxies * (- q) \in Nat
    BY <2>1
  <2>3. proxies * q = - (proxies * (- q))
    BY <1>2
  <2> QED
    BY <2>2, <2>3, <1>5
<1> QED
  BY <1>2, <1>3, <1>5, <1>6

IsSize(hosts, proxies, size) == size \in Nat \ {0} /\ size = ChunkSize(hosts, proxies)

\* The place n, or the end of the hosts before it.
EndAt(hosts, n) == IF n > hosts THEN hosts ELSE n

UpFrom(n) == [j \in 1 .. n |-> j]

LEMMA PieceOf ==
    ASSUME NEW hosts \in Nat \ {0}, NEW proxies \in Nat \ {0}, NEW i \in 1 .. proxies,
           NEW size \in Nat \ {0}, IsSize(hosts, proxies, size)
    PROVE  Chunk(UpFrom(hosts), i - 1, proxies)
             = SubSeq(UpFrom(hosts), Start(i, size) + 1, EndAt(hosts, Start(i + 1, size)))
<1>1. Len(UpFrom(hosts)) = hosts
  BY DEF UpFrom
<1>2. Start(i + 1, size) = Start(i, size) + size
  <2>1. i \in Nat \ {0}
    OBVIOUS
  <2> QED
    BY <2>1, Starts
<1>3. Start(i, size) = (i - 1) * ChunkSize(hosts, proxies) /\ size = ChunkSize(hosts, proxies)
  BY DEF Start, IsSize
<1> QED
  BY <1>1, <1>2, <1>3 DEF Chunk, EndAt

LEMMA PieceAdds ==
    ASSUME NEW hosts \in Nat \ {0}, NEW a \in Nat, NEW b \in Nat, a <= b, b <= hosts
    PROVE  /\ UpFrom(a) \o SubSeq(UpFrom(hosts), a + 1, b) = UpFrom(b)
           /\ SubSeq(UpFrom(hosts), a + 1, b) # <<>> <=> a < b
<1>1. UpFrom(a) \in Seq(Nat) /\ Len(UpFrom(a)) = a
  BY DEF UpFrom
<1>2. UpFrom(hosts) \in Seq(Nat) /\ Len(UpFrom(hosts)) = hosts
  BY DEF UpFrom
<1> DEFINE piece == SubSeq(UpFrom(hosts), a + 1, b)
<1>3. /\ piece \in Seq(Nat) /\ Len(piece) = b - a
      /\ \A j \in 1 .. b - a : piece[j] = j + a
  <2>1. ASSUME NEW j \in a + 1 .. b PROVE UpFrom(hosts)[j] = j
    BY DEF UpFrom
  <2> QED
    BY <1>2, <2>1
<1> HIDE DEF piece
<1> DEFINE whole == UpFrom(a) \o piece
<1>4. whole \in Seq(Nat) /\ Len(whole) = b
  BY <1>1, <1>3
<1>4a. \A j \in 1 .. b : whole[j] = IF j <= a THEN UpFrom(a)[j] ELSE piece[j - a]
  BY <1>1, <1>3, ConcatProperties
<1> HIDE DEF whole
<1>5. ASSUME NEW j \in 1 .. b PROVE whole[j] = j
  <2>1. CASE j <= a
    <3>1. j \in 1 .. a /\ UpFrom(a)[j] = j
      BY <2>1 DEF UpFrom
    <3> QED
      BY <1>4a, <2>1, <3>1
  <2>2. CASE j > a
    <3>1. j - a \in 1 .. b - a /\ piece[j - a] = j
      BY <2>2, <1>3
    <3> QED
      BY <1>4a, <2>2, <3>1
  <2> QED
    BY <2>1, <2>2
<1>6. UpFrom(b) \in Seq(Nat) /\ Len(UpFrom(b)) = b /\ \A j \in 1 .. b : UpFrom(b)[j] = j
  BY DEF UpFrom
<1>7. whole = UpFrom(b)
  BY <1>4, <1>5, <1>6
<1>8. piece # <<>> <=> a < b
  BY <1>3
<1> QED
  BY <1>7, <1>8 DEF piece, whole

\* One after the other, the pieces are the hosts as they were.
LEMMA PiecesJoin ==
    ASSUME NEW hosts \in Nat \ {0}, NEW proxies \in Nat \ {0}
    PROVE  FlattenSeq([i \in 1 .. proxies |-> Chunk(UpFrom(hosts), i - 1, proxies)])
             = UpFrom(hosts)
<1> DEFINE size == ChunkSize(hosts, proxies)
           chunks == [i \in 1 .. proxies |-> Chunk(UpFrom(hosts), i - 1, proxies)]
           f == [i \in 1 .. proxies |-> UpFrom(EndAt(hosts, Start(i + 1, size)))]
<1>0. IsSize(hosts, proxies, size)
  BY SizeIsEnough DEF IsSize
<1>1. size \in Nat \ {0} /\ hosts <= proxies * size
  BY SizeIsEnough
<1>2. \A i \in 1 .. proxies : chunks[i] = Chunk(UpFrom(hosts), i - 1, proxies)
  OBVIOUS
<1>3. \A i \in 1 .. proxies : f[i] = UpFrom(EndAt(hosts, Start(i + 1, size)))
  OBVIOUS
<1>4. Len(chunks) = proxies
  OBVIOUS
<1> HIDE DEF chunks, size
<1>5. ASSUME NEW i \in 1 .. proxies
      PROVE  f[i] = IF i = 1 THEN chunks[i] ELSE f[i - 1] \o chunks[i]
  <2> DEFINE before == Start(i, size)
             end    == EndAt(hosts, Start(i + 1, size))
  <2>1. /\ chunks[i] = SubSeq(UpFrom(hosts), before + 1, end)
        /\ before \in Nat /\ Start(i + 1, size) = before + size
    <3>1. i \in Nat \ {0} /\ chunks[i] = Chunk(UpFrom(hosts), i - 1, proxies)
      BY <1>2
    <3>2. Chunk(UpFrom(hosts), i - 1, proxies)
            = SubSeq(UpFrom(hosts), Start(i, size) + 1, EndAt(hosts, Start(i + 1, size)))
      BY <3>1, <1>0, <1>1, PieceOf
    <3>3. Start(i, size) \in Nat /\ Start(i + 1, size) = Start(i, size) + size
      BY <3>1, <1>1, Starts
    <3> QED
      BY <3>1, <3>2, <3>3
  <2>2. end = IF before + size > hosts THEN hosts ELSE before + size
    BY <2>1 DEF EndAt
  <2>3. f[i] = UpFrom(end)
    BY <1>3
  <2>4. i = 1 => before = 0
    BY <1>1, Starts
  <2>5. i # 1 => i - 1 \in 1 .. proxies /\ (i - 1) + 1 = i
    OBVIOUS
  <2>6. i # 1 => f[i - 1] = UpFrom(IF before > hosts THEN hosts ELSE before)
    BY <1>3, <2>5 DEF EndAt
  <2> HIDE DEF before, f, end
  <2>7. CASE i = 1
    <3>1. 0 <= end /\ end <= hosts /\ end \in Nat
      BY <2>1, <2>2, <2>4, <2>7, <1>1
    <3>2. UpFrom(0) \o SubSeq(UpFrom(hosts), 0 + 1, end) = UpFrom(end)
      BY <3>1, PieceAdds
    <3>3. UpFrom(0) = <<>>
      BY DEF UpFrom
    <3>4. chunks[i] = SubSeq(UpFrom(hosts), 0 + 1, end)
      BY <2>1, <2>4, <2>7
    <3>5. SubSeq(UpFrom(hosts), 0 + 1, end) \in Seq(Nat)
      <4>1. 0 + 1 \in Int /\ end \in Int
        BY <3>1
      <4>2. \A j \in 0 + 1 .. end : UpFrom(hosts)[j] \in Nat
        BY <3>1 DEF UpFrom
      <4> QED
        BY <4>1, <4>2, SubSeqProperties
    <3>6. <<>> \o SubSeq(UpFrom(hosts), 0 + 1, end) = SubSeq(UpFrom(hosts), 0 + 1, end)
      BY <3>5
    <3> QED
      BY <3>2, <3>3, <3>4, <3>6, <2>3, <2>7
  <2>8. CASE i # 1 /\ before <= hosts
    <3>1. before <= end /\ end <= hosts /\ end \in Nat
      BY <2>1, <2>2, <2>8, <1>1
    <3>2. UpFrom(before) \o SubSeq(UpFrom(hosts), before + 1, end) = UpFrom(end)
      BY <3>1, <2>1, PieceAdds
    <3>3. f[i - 1] = UpFrom(before)
      BY <2>6, <2>8, <2>1
    <3> QED
      BY <3>2, <3>3, <2>1, <2>3, <2>8
  <2>9. CASE i # 1 /\ before > hosts
    <3>1. end = hosts
      BY <2>1, <2>2, <2>9, <1>1
    <3>2. UpFrom(hosts) \in Seq(Nat)
      BY DEF UpFrom
    <3>3. SubSeq(UpFrom(hosts), before + 1, hosts) = <<>>
      BY <3>2, <2>1, <2>9
    <3>4. f[i - 1] = UpFrom(hosts)
      BY <2>6, <2>9
    <3>5. UpFrom(hosts) \o <<>> = UpFrom(hosts)
      BY <3>2
    <3> QED
      BY <3>1, <3>3, <3>4, <3>5, <2>1, <2>3, <2>9
  <2> QED
    BY <2>1, <2>7, <2>8, <2>9
<1>6. JoinsUp(f, chunks, proxies)
  <2>1. f = [i \in 1 .. proxies |-> f[i]]
    OBVIOUS
  <2> HIDE DEF f
  <2> QED
    BY <2>1, <1>5 DEF JoinsUp
<1>7. f[proxies] = UpFrom(hosts)
  <2>1. Start(proxies + 1, size) = proxies * size
    BY <1>1 DEF Start
  <2>2. proxies * size \in Int
    BY <1>1
  <2>3. EndAt(hosts, Start(proxies + 1, size)) = hosts
    BY <2>1, <2>2, <1>1 DEF EndAt
  <2> QED
    BY <1>3, <2>3
<1> HIDE DEF f
<1>8. FlattenSeq(chunks) = f[proxies]
  BY <1>4, <1>6, FlattenJoins
<1> QED
  BY <1>7, <1>8 DEF chunks

\* The pieces launched are those that have a host.
LEMMA LaunchedHaveHosts ==
    ASSUME NEW hosts \in Nat \ {0}, NEW proxies \in Nat \ {0}, NEW i \in 1 .. proxies
    PROVE  Chunk(UpFrom(hosts), i - 1, proxies) # <<>> <=> i <= ChunksLaunched(hosts, proxies)
<1> DEFINE size == ChunkSize(hosts, proxies)
           Ends == {j \in 0 .. proxies - 1 : j * size >= hosts}
           before == Start(i, size)
<1>0. IsSize(hosts, proxies, size)
  BY SizeIsEnough DEF IsSize
<1>1. size \in Nat \ {0} /\ hosts <= proxies * size
  BY SizeIsEnough
<1>2. ChunksLaunched(hosts, proxies)
        = IF Ends = {} THEN proxies ELSE CHOOSE j \in Ends : \A l \in Ends : j <= l
  BY DEF ChunksLaunched
<1> HIDE DEF size
<1>1a. i \in Nat \ {0}
  OBVIOUS
<1>3. /\ Chunk(UpFrom(hosts), i - 1, proxies)
           = SubSeq(UpFrom(hosts), before + 1, EndAt(hosts, Start(i + 1, size)))
      /\ before \in Nat /\ Start(i + 1, size) = before + size
  <2> HIDE DEF Ends, before
  <2>1. Chunk(UpFrom(hosts), i - 1, proxies)
          = SubSeq(UpFrom(hosts), Start(i, size) + 1, EndAt(hosts, Start(i + 1, size)))
    BY <1>0, <1>1, PieceOf
  <2>2. Start(i, size) \in Nat /\ Start(i + 1, size) = Start(i, size) + size
    BY <1>1, <1>1a, Starts
  <2> QED
    BY <2>1, <2>2 DEF before
<1>4. \A j \in 0 .. proxies - 1 : j \in Ends <=> Start(j + 1, size) >= hosts
  <2> SUFFICES ASSUME NEW j \in 0 .. proxies - 1
               PROVE  Start(j + 1, size) = j * size
    OBVIOUS
  <2>1. (j + 1) - 1 = j
    OBVIOUS
  <2> QED
    BY <2>1 DEF Start
<1>5. Ends \subseteq 0 .. proxies - 1
  OBVIOUS
<1>6. EndAt(hosts, Start(i + 1, size)) = IF before + size > hosts THEN hosts ELSE before + size
  BY <1>3 DEF EndAt
<1>7. i - 1 \in Ends <=> before >= hosts
  <2>1. i - 1 \in 0 .. proxies - 1 /\ (i - 1) + 1 = i
    OBVIOUS
  <2> QED
    BY <1>4, <2>1
<1> HIDE DEF Ends, before
<1>8. Chunk(UpFrom(hosts), i - 1, proxies) # <<>> <=> before < hosts
  <2> DEFINE end == EndAt(hosts, Start(i + 1, size))
  <2>1. CASE before < hosts
    <3>1. before <= end /\ before < end /\ end <= hosts /\ end \in Nat
      BY <1>1, <1>3, <1>6, <2>1
    <3> HIDE DEF end
    <3>2. SubSeq(UpFrom(hosts), before + 1, end) # <<>>
      BY <1>3, <3>1, PieceAdds
    <3> QED
      BY <3>2, <1>3, <2>1 DEF end
  <2>2. CASE ~(before < hosts)
    <3>1. end = hosts
      BY <1>1, <1>3, <1>6, <2>2
    <3>2. UpFrom(hosts) \in Seq(Nat)
      BY DEF UpFrom
    <3>3. SubSeq(UpFrom(hosts), before + 1, hosts) = <<>>
      BY <3>2, <1>3, <2>2
    <3> QED
      BY <3>1, <3>3, <1>3, <2>2
  <2> QED
    BY <2>1, <2>2
<1>9. i <= ChunksLaunched(hosts, proxies) <=> i - 1 \notin Ends
  <2>1. CASE Ends = {}
    BY <1>2, <2>1
  <2>2. CASE Ends # {}
    <3> DEFINE least == CHOOSE j \in Ends : \A l \in Ends : j <= l
    <3>1. Ends \subseteq Nat
      BY <1>5
    <3>2. \E x \in Ends : \A y \in Ends : ~(y < x)
      BY <2>2, <3>1, Least
    <3>3. \E x \in Ends : \A y \in Ends : x <= y
      BY <3>1, <3>2
    <3>4. least \in Ends /\ \A y \in Ends : least <= y
      BY <3>3
    <3>5. ChunksLaunched(hosts, proxies) = least
      BY <1>2, <2>2
    <3> HIDE DEF least
    <3>6. least \in 0 .. proxies - 1 /\ Start(least + 1, size) >= hosts
      BY <3>4, <1>5, <1>4
    <3>7. CASE i <= least
      BY <3>4, <3>5, <3>6, <3>7
    <3>8. CASE least < i
      <4>1. least + 1 \in Nat \ {0} /\ least + 1 <= i /\ i \in Nat \ {0}
        BY <3>6, <3>8
      <4>2. Start(least + 1, size) <= Start(i, size) /\ Start(least + 1, size) \in Nat
        BY <4>1, <1>1, LaterStarts, Starts
      <4>3. before >= hosts
        BY <4>2, <3>6, <1>3 DEF before
      <4> QED
        BY <4>3, <1>7, <3>5, <3>8, <3>6
    <3> QED
      BY <3>7, <3>8, <3>6
  <2> QED
    BY <2>1, <2>2
<1> QED
  BY <1>3, <1>7, <1>8, <1>9

LEMMA DealtOut ==
    ASSUME NEW hosts \in Nat \ {0}, NEW proxies \in Nat \ {0}
    PROVE  DealsAll(hosts, proxies)
<1> DEFINE chunks == [i \in 1 .. proxies |-> Chunk(UpFrom(hosts), i - 1, proxies)]
<1>1. FlattenSeq(chunks) = UpFrom(hosts)
  BY PiecesJoin
<1>2. \A i \in 1 .. proxies : chunks[i] # <<>> <=> i <= ChunksLaunched(hosts, proxies)
  BY LaunchedHaveHosts
<1> QED
  BY <1>1, <1>2 DEF DealsAll, UpFrom

\* For any number of hosts and of proxies: the rotating nmap scan (runNmapCIDR)
\* gives every host to one proxy, in the order of the shuffle, and the progress
\* bar waits for as many pieces as have a host.
THEOREM ChunksDealAll == Spec => []ChunksPartition
<1>1. ChunksPartition
  BY DealtOut DEF ChunksPartition
<1> QED
  BY <1>1, PTL
=============================================================================
