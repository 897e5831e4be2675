------------------------- MODULE HostsStoreProofs -------------------------
(***************************************************************************)
(* The store of the Hosts tab, for all hosts, ports and findings: what     *)
(* AddFindings makes of a store is sound and says what the store said and  *)
(* what the findings say, neither more nor less, and the list of a host's  *)
(* ports has each of them once.                                            *)
(*                                                                         *)
(* One operator after the other: the sort of a host's ports, the proxies   *)
(* of an entry, the row of a host, an entry that is merged, an entry that  *)
(* is new, one finding, all findings of a report.                          *)
(***************************************************************************)
EXTENDS HostsTab, ProxyPoolProofs, FiniteSetTheorems

-----------------------------------------------------------------------------
(* What can be ordered can be listed in order *)

\* v lists the members of S in the order lt.
Lists(v, S, lt) ==
    /\ ToSet(v) = S
    /\ \A i, j \in DOMAIN v : i < j => <<v[i], v[j]>> \in lt

\* A list with one more member, put where it belongs.
LEMMA Insertion ==
    ASSUME NEW S, NEW lt, NEW m \in Nat, NEW v \in [1 .. m -> S], NEW x \in S,
           \A a, b \in S : a = b \/ <<a, b>> \in lt \/ <<b, a>> \in lt,
           \A a, b, c \in S : <<a, b>> \in lt /\ <<b, c>> \in lt => <<a, c>> \in lt,
           Lists(v, ToSet(v), lt), x \notin ToSet(v)
    PROVE  \E w \in [1 .. m + 1 -> S] : Lists(w, ToSet(v) \cup {x}, lt)
<1> DEFINE After == {i \in 1 .. m + 1 : i = m + 1 \/ <<x, v[i]>> \in lt}
<1>1. After \subseteq Nat /\ m + 1 \in After
  OBVIOUS
<1> HIDE DEF After
<1>2. PICK k \in After : \A i \in After : ~(i < k)
  BY <1>1, Least
<1>3. k \in 1 .. m + 1 /\ (k # m + 1 => <<x, v[k]>> \in lt)
  BY <1>2 DEF After
<1>4. ASSUME NEW i \in 1 .. k - 1 PROVE i \in 1 .. m /\ <<v[i], x>> \in lt
  <2>1. i \in 1 .. m /\ i < k
    BY <1>3
  <2>2. i \notin After
    BY <1>2, <2>1
  <2>3. <<x, v[i]>> \notin lt
    BY <2>1, <2>2 DEF After
  <2>4. v[i] \in S /\ v[i] \in ToSet(v)
    BY <2>1 DEF ToSet
  <2> QED
    BY <2>1, <2>3, <2>4
<1>5. ASSUME NEW i \in k .. m PROVE i \in 1 .. m /\ <<x, v[i]>> \in lt
  <2>1. i \in 1 .. m /\ k \in 1 .. m /\ k # m + 1
    BY <1>3
  <2>2. v[i] \in S /\ v[k] \in S
    BY <2>1
  <2>3. i = k \/ <<v[k], v[i]>> \in lt
    BY <2>1 DEF Lists
  <2> QED
    BY <1>3, <2>1, <2>2, <2>3
<1> DEFINE w == [i \in 1 .. m + 1 |-> IF i < k THEN v[i] ELSE IF i = k THEN x ELSE v[i - 1]]
<1>6. /\ w \in [1 .. m + 1 -> S]
      /\ \A i \in 1 .. k - 1 : w[i] = v[i]
      /\ w[k] = x
      /\ \A i \in k + 1 .. m + 1 : w[i] = v[i - 1]
  BY <1>3
<1> HIDE DEF w
<1>7. ToSet(w) = ToSet(v) \cup {x}
  <2>1. DOMAIN w = 1 .. m + 1 /\ DOMAIN v = 1 .. m
    BY <1>6
  <2>2. ASSUME NEW i \in 1 .. m + 1 PROVE w[i] \in ToSet(v) \cup {x}
    <3>1. CASE i < k
      <4>1. i \in 1 .. m /\ w[i] = v[i]
        BY <1>3, <1>6, <3>1
      <4> QED
        BY <2>1, <4>1 DEF ToSet
    <3>2. CASE i > k
      <4>1. i - 1 \in 1 .. m /\ w[i] = v[i - 1]
        BY <1>3, <1>6, <3>2
      <4> QED
        BY <2>1, <4>1 DEF ToSet
    <3> QED
      BY <1>3, <1>6, <3>1, <3>2
  <2>3. ASSUME NEW i \in 1 .. m PROVE v[i] \in ToSet(w)
    <3>1. CASE i < k
      <4>1. i \in 1 .. m + 1 /\ w[i] = v[i]
        BY <1>3, <1>6, <3>1
      <4> QED
        BY <2>1, <4>1 DEF ToSet
    <3>2. CASE i >= k
      <4>1. i + 1 \in 1 .. m + 1 /\ w[i + 1] = v[i + 1 - 1] /\ i + 1 - 1 = i
        BY <1>3, <1>6, <3>2
      <4> QED
        BY <2>1, <4>1 DEF ToSet
    <3> QED
      BY <1>3, <3>1, <3>2
  <2>4. x \in ToSet(w)
    BY <1>3, <1>6, <2>1 DEF ToSet
  <2> QED
    BY <2>1, <2>2, <2>3, <2>4 DEF ToSet
<1>8. ASSUME NEW i \in 1 .. m + 1, NEW j \in 1 .. m + 1, i < j
      PROVE  <<w[i], w[j]>> \in lt
  <2>0. \A a, b \in 1 .. m : a < b => <<v[a], v[b]>> \in lt
    BY DEF Lists
  <2>1. CASE j < k
    BY <1>3, <1>6, <1>8, <2>0, <2>1
  <2>2. CASE j = k
    BY <1>3, <1>4, <1>6, <1>8, <2>2
  <2>3. CASE j > k /\ i < k
    <3>1. j - 1 \in k .. m /\ i \in 1 .. k - 1 /\ w[i] = v[i] /\ w[j] = v[j - 1]
      BY <1>3, <1>6, <2>3
    <3>2. i \in 1 .. m /\ j - 1 \in 1 .. m /\ i < j - 1
      BY <1>3, <3>1
    <3> QED
      BY <2>0, <3>1, <3>2
  <2>4. CASE i = k
    BY <1>3, <1>5, <1>6, <1>8, <2>4
  <2>5. CASE i > k
    <3>1. i - 1 \in 1 .. m /\ j - 1 \in 1 .. m /\ i - 1 < j - 1 /\ w[i] = v[i - 1] /\ w[j] = v[j - 1]
      BY <1>3, <1>6, <1>8, <2>5
    <3> QED
      BY <2>0, <3>1
  <2> QED
    BY <1>3, <1>8, <2>1, <2>2, <2>3, <2>4, <2>5
<1>9. DOMAIN w = 1 .. m + 1
  BY <1>6
<1> QED
  BY <1>6, <1>7, <1>8, <1>9 DEF Lists

\* Whatever has a strict order can be listed in it.
LEMMA Sorting ==
    ASSUME NEW S, NEW lt, NEW s \in Seq(S), IsInjective(s),
           \A a, b \in S : a = b \/ <<a, b>> \in lt \/ <<b, a>> \in lt,
           \A a, b, c \in S : <<a, b>> \in lt /\ <<b, c>> \in lt => <<a, c>> \in lt
    PROVE  \E v \in [1 .. Len(s) -> S] : Lists(v, ToSet(s), lt)
<1> DEFINE first(m) == {s[i] : i \in 1 .. m}
           Listed(m) == \E v \in [1 .. m -> S] : Lists(v, first(m), lt)
           Good == {m \in 0 .. Len(s) : Listed(m)}
<1>1. Len(s) \in Nat /\ DOMAIN s = 1 .. Len(s) /\ \A i \in 1 .. Len(s) : s[i] \in S
  OBVIOUS
<1>2. 0 \in Good
  <2> DEFINE v == [i \in 1 .. 0 |-> s[i]]
  <2>1. v \in [1 .. 0 -> S] /\ DOMAIN v = {} /\ first(0) = {}
    OBVIOUS
  <2> HIDE DEF v
  <2>2. ToSet(v) = {}
    BY <2>1 DEF ToSet
  <2>3. Lists(v, first(0), lt)
    BY <2>1, <2>2 DEF Lists
  <2>4. Listed(0)
    BY <2>1, <2>3
  <2> HIDE DEF Listed
  <2> QED
    BY <1>1, <2>4
<1>3. ASSUME NEW i \in 1 .. Len(s), i - 1 \in Good PROVE i \in Good
  <2>1. PICK v \in [1 .. i - 1 -> S] : Lists(v, first(i - 1), lt)
    BY <1>3
  <2>2. first(i) = first(i - 1) \cup {s[i]} /\ s[i] \notin first(i - 1) /\ s[i] \in S
    BY <1>1 DEF IsInjective
  <2> HIDE DEF first
  <2>3. ToSet(v) = first(i - 1)
    BY <2>1 DEF Lists
  <2> DEFINE m == i - 1 x == s[i]
  <2>4. m \in Nat /\ v \in [1 .. m -> S] /\ x \in S /\ x \notin ToSet(v) /\ m + 1 = i
        /\ Lists(v, ToSet(v), lt)
    BY <1>1, <2>1, <2>2, <2>3
  <2> HIDE DEF m, x
  <2>5. \E w \in [1 .. m + 1 -> S] : Lists(w, ToSet(v) \cup {x}, lt)
    BY <2>4, Insertion
  <2>6. Listed(i)
    BY <2>2, <2>3, <2>4, <2>5 DEF x
  <2> HIDE DEF Listed
  <2> QED
    BY <1>1, <2>6
<1> HIDE DEF Good
<1>4. 0 .. Len(s) \subseteq Good
  BY <1>1, <1>2, <1>3, UpTo
<1>5. first(Len(s)) = ToSet(s)
  BY <1>1 DEF ToSet
<1>6. Len(s) \in Good
  BY <1>1, <1>4
<1>7. Listed(Len(s))
  <2> HIDE DEF Listed
  <2> QED
    BY <1>6 DEF Good
<1> HIDE DEF first
<1> QED
  BY <1>5, <1>7

-----------------------------------------------------------------------------
(* The list of ports *)

Text    == STRING
Entry   == [key : Keys, service : Nat, proxies : Seq(Text)]
HostRow == [ip : Hosts, ports : Seq(Nat), portIdx : [Keys -> Nat]]
Finding == [host : Hosts \cup {""}, key : Keys, service : Nat, proxies : Seq(Text)]
Store   == [map : [Hosts -> Nat], slice : Seq(HostRow), entries : Seq(Entry)]

LEMMA KeysArePairs == \A e \in Entry : e.key[1] \in Nat /\ e.service \in Nat /\ Len(e.proxies) \in Nat
<1> SUFFICES ASSUME NEW e \in Entry
             PROVE  e.key[1] \in Nat /\ e.service \in Nat /\ Len(e.proxies) \in Nat
  OBVIOUS
<1>1. e.key \in Keys /\ e.service \in Nat /\ e.proxies \in Seq(Text)
  BY DEF Entry
<1>2. e.key \in Nat \X STRING
  BY <1>1, HostsAssumption
<1> QED
  BY <1>1, <1>2

LEMMA SortKeysAre ==
    ASSUME NEW es \in Seq(Entry), NEW mode, NEW e \in 1 .. Len(es)
    PROVE  /\ SortKey(es, mode, e) = <<SortKey(es, mode, e)[1], SortKey(es, mode, e)[2]>>
           /\ SortKey(es, mode, e)[1] \in Int /\ SortKey(es, mode, e)[2] \in Int
<1>1. es[e] \in Entry
  OBVIOUS
<1> DEFINE x == es[e]
<1>2. x.key[1] \in Nat /\ x.service \in Nat /\ Len(x.proxies) \in Nat
  BY <1>1, KeysArePairs
<1>3. -x.key[1] \in Int /\ -Len(x.proxies) \in Int
  BY <1>2
<1> DEFINE port == x.key[1] minus == -x.key[1] serv == x.service count == -Len(x.proxies)
<1>4. SortKey(es, mode, e) \in {<<minus, 0>>, <<serv, port>>, <<count, port>>, <<port, 0>>}
  <2>1. CASE mode = "Port down"
    BY <2>1 DEF SortKey
  <2>2. CASE mode = "Service"
    BY <2>2 DEF SortKey
  <2>3. CASE mode = "Most proxies"
    BY <2>3 DEF SortKey
  <2>4. CASE mode \notin {"Port down", "Service", "Most proxies"}
    BY <2>4 DEF SortKey
  <2> QED
    BY <2>1, <2>2, <2>3, <2>4
<1>5. minus \in Int /\ serv \in Int /\ count \in Int /\ port \in Int
  BY <1>2, <1>3
<1> HIDE DEF minus, serv, count, port
<1> QED
  BY <1>4, <1>5

\* The order of the list is a strict one, for every choice of the selector.
LEMMA BeforeIsOrder ==
    ASSUME NEW es \in Seq(Entry), NEW mode
    PROVE  /\ \A a, b \in 1 .. Len(es) :
                 a = b \/ Before(es, mode, a, b) \/ Before(es, mode, b, a)
           /\ \A a, b, c \in 1 .. Len(es) :
                 Before(es, mode, a, b) /\ Before(es, mode, b, c) => Before(es, mode, a, c)
<1>1. Len(es) \in Nat
  OBVIOUS
<1> DEFINE K(e) == SortKey(es, mode, e)
<1>2. \A e \in 1 .. Len(es) : K(e) = <<K(e)[1], K(e)[2]>> /\ K(e)[1] \in Int /\ K(e)[2] \in Int
  BY SortKeysAre
<1>3. \A a, b : Before(es, mode, a, b) <=> \/ K(a)[1] < K(b)[1]
                                           \/ K(a)[1] = K(b)[1] /\ K(a)[2] < K(b)[2]
                                           \/ K(a) = K(b) /\ a < b
  BY DEF Before
<1> HIDE DEF K
<1>4. ASSUME NEW a \in 1 .. Len(es), NEW b \in 1 .. Len(es)
      PROVE  a = b \/ Before(es, mode, a, b) \/ Before(es, mode, b, a)
  <2>1. K(a)[1] = K(b)[1] /\ K(a)[2] = K(b)[2] => K(a) = K(b)
    BY <1>2
  <2> QED
    BY <1>1, <1>2, <1>3, <2>1
<1>5. ASSUME NEW a \in 1 .. Len(es), NEW b \in 1 .. Len(es), NEW c \in 1 .. Len(es),
             Before(es, mode, a, b), Before(es, mode, b, c)
      PROVE  Before(es, mode, a, c)
  BY <1>1, <1>2, <1>3, <1>5
<1> QED
  BY <1>4, <1>5

\* The list shown has the host's ports, each once.
LEMMA SortPortsKeeps ==
    ASSUME NEW es \in Seq(Entry), NEW mode, NEW ports \in Seq(1 .. Len(es)), IsInjective(ports)
    PROVE  /\ SortPorts(ports, es, mode) \in Seq(1 .. Len(es))
           /\ ToSet(SortPorts(ports, es, mode)) = ToSet(ports)
<1> DEFINE S  == 1 .. Len(es)
           lt == {p \in S \X S : Before(es, mode, p[1], p[2])}
           V  == [DOMAIN ports -> ToSet(ports)]
           Ok(v) == /\ ToSet(v) = ToSet(ports)
                    /\ \A i, j \in DOMAIN v : i < j => Before(es, mode, v[i], v[j])
<1>1. /\ \A a, b \in S : a = b \/ <<a, b>> \in lt \/ <<b, a>> \in lt
      /\ \A a, b, c \in S : <<a, b>> \in lt /\ <<b, c>> \in lt => <<a, c>> \in lt
  BY BeforeIsOrder
<1>2. \A a, b \in S : <<a, b>> \in lt => Before(es, mode, a, b)
  OBVIOUS
<1>3. ports \in Seq(S) /\ Len(ports) \in Nat /\ DOMAIN ports = 1 .. Len(ports)
  OBVIOUS
<1> HIDE DEF S, lt
<1>4. PICK v \in [1 .. Len(ports) -> S] : Lists(v, ToSet(ports), lt)
  BY <1>1, <1>3, Sorting
<1>5. v \in V /\ Ok(v)
  BY <1>2, <1>3, <1>4 DEF Lists, ToSet
<1> DEFINE u == SortPorts(ports, es, mode)
<1>6. u = CHOOSE w \in V : Ok(w)
  BY DEF SortPorts
<1> HIDE DEF Ok
<1>7. u \in V /\ Ok(u)
  BY <1>5, <1>6
<1> HIDE DEF u
<1>8. ToSet(ports) \subseteq S
  BY <1>3 DEF ToSet
<1>9. u \in [1 .. Len(ports) -> S]
  BY <1>3, <1>7, <1>8
<1> QED
  BY <1>3, <1>7, <1>9 DEF u, S, Ok

-----------------------------------------------------------------------------
(* The proxies of an entry *)

\* f[i] is what the first i members of add make of base.
IsDeduping(f, base, add) ==
    /\ f[0] = base
    /\ \A i \in 1 .. Len(add) :
          f[i] = IF add[i] = "" \/ Contains(f[i - 1], add[i]) THEN f[i - 1]
                 ELSE Append(f[i - 1], add[i])

\* The function in the definition of dedupeAppend is the one it describes.
LEMMA DedupeUnfolds ==
    ASSUME NEW S, NEW base \in Seq(S), NEW add \in Seq(S)
    PROVE  \E f \in [0 .. Len(add) -> Seq(S)] : IsDeduping(f, base, add) /\ dedupeAppend(base, add) = f[Len(add)]
<1> DEFINE on(before, i) == IF add[i] = "" \/ Contains(before, add[i]) THEN before
                                    ELSE Append(before, add[i])
           Def(g) == [i \in 0 .. Len(add) |-> IF i = 0 THEN base ELSE on(g[i - 1], i)]
           upTo == CHOOSE g : g = Def(g)
           step == [p \in Seq(S) \X (1 .. Len(add)) |-> on(p[1], p[2])]
<1>1. Len(add) \in Nat /\ \A i \in 1 .. Len(add) : add[i] \in S
  OBVIOUS
<1>2. step \in [Seq(S) \X (1 .. Len(add)) -> Seq(S)]
  <2>1. \A q \in Seq(S) : \A i \in 1 .. Len(add) : on(q, i) \in Seq(S)
    <3> SUFFICES ASSUME NEW q \in Seq(S), NEW i \in 1 .. Len(add) PROVE on(q, i) \in Seq(S)
      OBVIOUS
    <3>1. Append(q, add[i]) \in Seq(S)
      BY <1>1
    <3> QED
      BY <3>1
  <2> HIDE DEF on
  <2> QED
    BY <2>1
<1> HIDE DEF on
<1>3. base \in Seq(S)
  OBVIOUS
<1>4. PICK f \in [0 .. Len(add) -> Seq(S)] :
              f[0] = base /\ \A i \in 1 .. Len(add) : f[i] = step[<<f[i - 1], i>>]
  <2> DEFINE all == Seq(S) n == Len(add)
  <2>1. base \in all /\ n \in Nat /\ step \in [all \X (1 .. n) -> all]
    BY <1>1, <1>2, <1>3
  <2> HIDE DEF all, n, step
  <2>2. \E f \in [0 .. n -> all] : IsCourse(f, base, n, step)
    BY <2>1, Course
  <2> QED
    BY <2>2 DEF all, n, IsCourse
<1>5. ASSUME NEW i \in 1 .. Len(add)
      PROVE  f[i] = on(f[i - 1], i)
  <2>1. f[i - 1] \in Seq(S)
    BY <1>1
  <2>2. step[<<f[i - 1], i>>] = on(f[i - 1], i)
    BY <2>1
  <2> QED
    BY <1>4, <2>2
<1>6. f = Def(f)
  <2>1. ASSUME NEW i \in 0 .. Len(add)
        PROVE  f[i] = Def(f)[i]
    <3>1. CASE i = 0
      BY <3>1, <1>4
    <3>2. CASE i # 0
      <4>1. i \in 1 .. Len(add)
        BY <3>2, <1>1
      <4> QED
        BY <4>1, <3>2, <1>5
    <3> QED
      BY <3>1, <3>2
  <2> QED
    BY <2>1
<1>7. upTo = Def(upTo)
  BY <1>6
<1>8. dedupeAppend(base, add) = upTo[Len(add)]
  BY DEF on, dedupeAppend
<1> HIDE DEF upTo
<1>9. upTo[0] = base
  BY <1>1, <1>7
<1>10. ASSUME NEW i \in 1 .. Len(add)
       PROVE  upTo[i] = on(upTo[i - 1], i)
  BY <1>1, <1>7
<1> DEFINE Good == {i \in 0 .. Len(add) : upTo[i] = f[i]}
<1>11. 0 \in Good
  BY <1>1, <1>4, <1>9
<1>12. ASSUME NEW i \in 1 .. Len(add), i - 1 \in Good
       PROVE  i \in Good
  BY <1>1, <1>5, <1>10, <1>12
<1> HIDE DEF Good
<1>13. 0 .. Len(add) \subseteq Good
  BY <1>1, <1>11, <1>12, UpTo
<1>14. upTo[Len(add)] = f[Len(add)]
  BY <1>1, <1>13 DEF Good
<1> QED
  BY <1>4, <1>5, <1>8, <1>14 DEF on, IsDeduping

LEMMA RangeIsToSet == \A s : Range(s) = ToSet(s)
BY DEF Range, ToSet

\* The names in a list.
NonEmpty(s) == Range(s) \ {""}

\* Each proxy is named once, and a name that is empty not at all.
LEMMA DedupeAdds ==
    ASSUME NEW S, NEW base \in Seq(S), IsInjective(base), NEW add \in Seq(S)
    PROVE  /\ dedupeAppend(base, add) \in Seq(S) /\ IsInjective(dedupeAppend(base, add))
           /\ Range(dedupeAppend(base, add)) = Range(base) \cup NonEmpty(add)
<1>1. PICK f \in [0 .. Len(add) -> Seq(S)] :
              IsDeduping(f, base, add) /\ dedupeAppend(base, add) = f[Len(add)]
  BY DedupeUnfolds
<1>2. Len(add) \in Nat /\ DOMAIN add = 1 .. Len(add) /\ \A i \in 1 .. Len(add) : add[i] \in S
  OBVIOUS
<1> DEFINE First(i) == {add[j] : j \in 1 .. i}
           Named(i) == First(i) \ {""}
           Done(i) == ToSet(f[i]) = ToSet(base) \cup Named(i) /\ IsInjective(f[i])
           Good == {i \in 0 .. Len(add) : Done(i)}
<1>3. 0 \in Good
  <2>1. First(0) = {} /\ 0 \in 0 .. Len(add) /\ f[0] = base
    <3>1. First(0) = {}
      OBVIOUS
    <3>2. f[0] = base
      BY <1>1 DEF IsDeduping
    <3> HIDE DEF First
    <3> QED
      BY <1>2, <3>1, <3>2
  <2>2. Done(0)
    <3> HIDE DEF First
    <3> QED
      BY <2>1
  <2> HIDE DEF Done
  <2> QED
    BY <2>1, <2>2
<1>4. ASSUME NEW i \in 1 .. Len(add), i - 1 \in Good
      PROVE  i \in Good
  <2>1. f[i - 1] \in Seq(S) /\ add[i] \in S
    BY <1>2
  <2>2. First(i) = First(i - 1) \cup {add[i]}
    BY <1>2
  <2>3. Contains(f[i - 1], add[i]) <=> add[i] \in ToSet(f[i - 1])
    <3>1. DOMAIN f[i - 1] = 1 .. Len(f[i - 1])
      BY <2>1
    <3> QED
      BY <3>1 DEF Contains, ToSet
  <2>6. Done(i - 1)
    <3> HIDE DEF Done
    <3> QED
      BY <1>4
  <2> HIDE DEF First
  <2>4. ASSUME add[i] = "" \/ Contains(f[i - 1], add[i]) PROVE Done(i)
    <3>1. f[i] = f[i - 1]
      BY <1>1, <2>4 DEF IsDeduping
    <3> QED
      BY <2>2, <2>3, <2>4, <2>6, <3>1
  <2>5. ASSUME ~(add[i] = "" \/ Contains(f[i - 1], add[i])) PROVE Done(i)
    <3>1. f[i] = Append(f[i - 1], add[i])
      BY <1>1, <2>5 DEF IsDeduping
    <3>2. /\ ToSet(f[i]) = ToSet(f[i - 1]) \cup {add[i]}
          /\ IsInjective(f[i - 1]) /\ add[i] \notin ToSet(f[i - 1]) => IsInjective(f[i])
      BY <2>1, <3>1, AppendAdds
    <3> QED
      BY <2>2, <2>3, <2>5, <2>6, <3>2
  <2>7. Done(i)
    BY <2>4, <2>5
  <2> HIDE DEF Done
  <2> QED
    BY <2>7
<1> HIDE DEF Good
<1>5. 0 .. Len(add) \subseteq Good
  BY <1>2, <1>3, <1>4, UpTo
<1>6. Done(Len(add))
  <2>1. Len(add) \in Good
    BY <1>2, <1>5
  <2> HIDE DEF Done
  <2> QED
    BY <2>1 DEF Good
<1>7. ToSet(add) = First(Len(add))
  BY <1>2 DEF ToSet
<1> HIDE DEF First
<1> DEFINE whole == f[Len(add)]
<1>8. whole \in Seq(S) /\ dedupeAppend(base, add) = whole
  BY <1>1, <1>2
<1>9. Range(whole) = ToSet(whole) /\ Range(base) = ToSet(base) /\ Range(add) = ToSet(add)
  BY RangeIsToSet
<1> QED
  BY <1>6, <1>7, <1>8, <1>9 DEF NonEmpty

-----------------------------------------------------------------------------
(* The store, and a host that is new *)

\* The index of a host leads to its ports, each key to one, and back.
HostOk(r, es) ==
    /\ \A j \in 1 .. Len(r.ports) :
          r.ports[j] \in 1 .. Len(es) /\ r.portIdx[es[r.ports[j]].key] = j
    /\ \A k \in Keys : /\ r.portIdx[k] \in 0 .. Len(r.ports)
                       /\ r.portIdx[k] # 0 => es[r.ports[r.portIdx[k]]].key = k

LEMMA PortsLead ==
    ASSUME NEW r, NEW es, HostOk(r, es)
    PROVE  \A j \in 1 .. Len(r.ports) : r.ports[j] \in 1 .. Len(es)
BY DEF HostOk

\* So does the index of hosts, and no two hosts share a port's entry.
Sound(s) ==
    /\ s \in Store
    /\ \A h \in Hosts : /\ s.map[h] \in 0 .. Len(s.slice)
                        /\ s.map[h] # 0 => s.slice[s.map[h]].ip = h
    /\ \A i \in 1 .. Len(s.slice) : s.map[s.slice[i].ip] = i /\ HostOk(s.slice[i], s.entries)
    /\ \A i, j \in 1 .. Len(s.slice) : i # j =>
          \A a \in 1 .. Len(s.slice[i].ports), b \in 1 .. Len(s.slice[j].ports) :
             s.slice[i].ports[a] # s.slice[j].ports[b]
    /\ \A e \in 1 .. Len(s.entries) : IsInjective(s.entries[e].proxies)

\* What the store says of a host and a port.
Has(s, h, k)      == s.map[h] # 0 /\ s.slice[s.map[h]].portIdx[k] # 0
EntryOf(s, h, k)  == s.slice[s.map[h]].ports[s.slice[s.map[h]].portIdx[k]]
Tells(s, h, k, p) == Has(s, h, k) /\ p \in Range(s.entries[EntryOf(s, h, k)].proxies)

LEMMA StoreFields ==
    ASSUME NEW s \in Store
    PROVE  /\ s.map \in [Hosts -> Nat] /\ s.slice \in Seq(HostRow) /\ s.entries \in Seq(Entry)
           /\ s = [map |-> s.map, slice |-> s.slice, entries |-> s.entries]
           /\ Len(s.slice) \in Nat /\ Len(s.entries) \in Nat
BY DEF Store

\* Where the index of a row leads, and what an entry of a row is.
LEMMA IndexLeads ==
    ASSUME NEW r, NEW es, HostOk(r, es), NEW j \in Keys
    PROVE  /\ r.portIdx[j] \in 0 .. Len(r.ports)
           /\ r.portIdx[j] # 0 => es[r.ports[r.portIdx[j]]].key = j
BY Zenon DEF HostOk

LEMMA EntryLeads ==
    ASSUME NEW r, NEW es, HostOk(r, es), NEW j \in 1 .. Len(r.ports)
    PROVE  r.ports[j] \in 1 .. Len(es) /\ r.portIdx[es[r.ports[j]].key] = j
BY Zenon DEF HostOk

LEMMA RowFields ==
    ASSUME NEW r \in HostRow
    PROVE  /\ r.ip \in Hosts /\ r.ports \in Seq(Nat) /\ r.portIdx \in [Keys -> Nat]
           /\ r = [ip |-> r.ip, ports |-> r.ports, portIdx |-> r.portIdx]
           /\ Len(r.ports) \in Nat
BY DEF HostRow

\* A host that gets its row has nothing in it yet.
LEMMA WithHostSound ==
    ASSUME NEW s, Sound(s), NEW h \in Hosts
    PROVE  /\ Sound(WithHost(s, h)) /\ WithHost(s, h).map[h] # 0
           /\ WithHost(s, h).entries = s.entries
           /\ Len(WithHost(s, h).slice) >= Len(s.slice)
           /\ \A i \in 1 .. Len(s.slice) : WithHost(s, h).slice[i] = s.slice[i]
           /\ \A g \in Hosts, k \in Keys : \A p : Tells(WithHost(s, h), g, k, p) <=> Tells(s, g, k, p)
<1> DEFINE t == WithHost(s, h)
           n == Len(s.slice)
           row == [ip |-> h, ports |-> <<>>, portIdx |-> [k \in Keys |-> 0]]
<1>0. s \in Store /\ s.map \in [Hosts -> Nat] /\ s.slice \in Seq(HostRow) /\ s.entries \in Seq(Entry)
      /\ s = [map |-> s.map, slice |-> s.slice, entries |-> s.entries] /\ n \in Nat
  BY StoreFields DEF Sound
<1>1. CASE s.map[h] # 0
  <2>1. t = s
    BY <1>1 DEF WithHost
  <2> HIDE DEF t
  <2> QED
    BY <1>0, <1>1, <2>1 DEF t
<1>2. CASE s.map[h] = 0
  <2>1. t = [map |-> [s.map EXCEPT ![h] = n + 1], slice |-> Append(s.slice, row), entries |-> s.entries]
    <3> HIDE DEF row
    <3>1. t = [s EXCEPT !.map[h] = n + 1, !.slice = Append(@, row)]
      BY <1>2 DEF WithHost, row
    <3> HIDE DEF t
    <3> QED
      BY <1>0, <3>1
  <2> HIDE DEF t
  <2>2. row \in HostRow /\ row.ip = h /\ row.ports = <<>> /\ Len(row.ports) = 0
        /\ \A k \in Keys : row.portIdx[k] = 0
    BY DEF HostRow
  <2> HIDE DEF row
  <2>3. /\ t.map = [s.map EXCEPT ![h] = n + 1] /\ t.slice = Append(s.slice, row)
        /\ t.entries = s.entries
    BY <2>1
  <2>4. /\ t.slice \in Seq(HostRow) /\ Len(t.slice) = n + 1
        /\ \A i \in 1 .. n : t.slice[i] = s.slice[i]
        /\ t.slice[n + 1] = row
    BY <1>0, <2>2, <2>3
  <2>5. /\ t.map \in [Hosts -> Nat] /\ t.map[h] = n + 1
        /\ \A g \in Hosts : g # h => t.map[g] = s.map[g]
    BY <1>0, <2>3
  <2>6. t \in Store
    BY <1>0, <2>1, <2>3, <2>4, <2>5 DEF Store
  <2>7. ASSUME NEW g \in Hosts
        PROVE  t.map[g] \in 0 .. Len(t.slice) /\ (t.map[g] # 0 => t.slice[t.map[g]].ip = g)
    BY SMTT(30), <1>0, <2>2, <2>4, <2>5 DEF Sound
  <2>8. ASSUME NEW i \in 1 .. Len(t.slice)
        PROVE  t.map[t.slice[i].ip] = i /\ HostOk(t.slice[i], t.entries)
    <3>1. CASE i = n + 1
      <4>1. t.slice[i] = row /\ 1 .. 0 = {}
        BY <2>4, <3>1
      <4>2. HostOk(row, t.entries)
        BY <2>2 DEF HostOk
      <4> QED
        BY <2>2, <2>5, <3>1, <4>1, <4>2
    <3>2. CASE i \in 1 .. n
      <4>1. s.map[s.slice[i].ip] = i /\ HostOk(s.slice[i], s.entries) /\ s.slice[i].ip \in Hosts
        BY <1>0, <3>2, RowFields DEF Sound
      <4>2. s.slice[i].ip # h
        BY <1>2, <3>2, <4>1
      <4> QED
        BY <2>3, <2>4, <2>5, <3>2, <4>1, <4>2
    <3> QED
      BY <1>0, <2>4, <3>1, <3>2
  <2>9. ASSUME NEW i \in 1 .. Len(t.slice), NEW j \in 1 .. Len(t.slice), i # j,
               NEW a \in 1 .. Len(t.slice[i].ports), NEW b \in 1 .. Len(t.slice[j].ports)
        PROVE  t.slice[i].ports[a] # t.slice[j].ports[b]
    <3>1. i \in 1 .. n /\ j \in 1 .. n
      BY SMTT(30), <1>0, <2>2, <2>4, <2>9
    <3>2. t.slice[i] = s.slice[i] /\ t.slice[j] = s.slice[j]
      BY <2>4, <3>1
    <3> QED
      BY <2>9, <3>1, <3>2 DEF Sound
  <2>10. Sound(t)
    BY <2>3, <2>6, <2>7, <2>8, <2>9 DEF Sound
  <2>11. ASSUME NEW g \in Hosts, NEW k \in Keys, NEW p
         PROVE  Tells(t, g, k, p) <=> Tells(s, g, k, p)
    <3>1. CASE g = h
      <4>1. ~Has(s, h, k)
        BY <1>2 DEF Has
      <4>2. ~Has(t, h, k)
        BY <2>2, <2>4, <2>5 DEF Has
      <4> QED
        BY <3>1, <4>1, <4>2 DEF Tells
    <3>2. CASE g # h
      <4>1. t.map[g] = s.map[g] /\ s.map[g] \in 0 .. n
        BY <2>5, <3>2 DEF Sound
      <4>2. s.map[g] # 0 => t.slice[t.map[g]] = s.slice[s.map[g]]
        BY <1>0, <2>4, <4>1
      <4> QED
        BY Zenon, <2>3, <4>1, <4>2 DEF Tells, Has, EntryOf
    <3> QED
      BY <3>1, <3>2
  <2> QED
    BY <1>0, <2>3, <2>4, <2>5, <2>10, <2>11 DEF t
<1> QED
  BY <1>1, <1>2

-----------------------------------------------------------------------------
(* A port that is known *)

\* What a finding adds to what the store says.
Named(f)         == NonEmpty(f.proxies)
Adds(f, h, k, p) == h = f.host /\ k = f.key /\ p \in Named(f)

\* t says what s says, and of the port k of h also the proxies in names.
Says(s, t, h, k, names) ==
    \A g \in Hosts, l \in Keys : \A p :
       Tells(t, g, l, p) <=> Tells(s, g, l, p) \/ (g = h /\ l = k /\ p \in names)

\* Where the entry of a host's port is.
LEMMA EntryIsThere ==
    ASSUME NEW s, Sound(s), NEW h \in Hosts, NEW k \in Keys, Has(s, h, k)
    PROVE  /\ s.map[h] \in 1 .. Len(s.slice) /\ s.slice[s.map[h]] \in HostRow
           /\ s.slice[s.map[h]].portIdx[k] \in 1 .. Len(s.slice[s.map[h]].ports)
           /\ EntryOf(s, h, k) \in 1 .. Len(s.entries)
           /\ s.entries[EntryOf(s, h, k)] \in Entry /\ s.entries[EntryOf(s, h, k)].key = k
<1>0. s \in Store /\ s.slice \in Seq(HostRow) /\ s.entries \in Seq(Entry) /\ Len(s.slice) \in Nat
  BY StoreFields DEF Sound
<1> DEFINE i == s.map[h] r == s.slice[i]
<1>1. i \in 1 .. Len(s.slice)
  BY <1>0 DEF Sound, Has
<1>2. r \in HostRow /\ HostOk(r, s.entries)
  BY <1>0, <1>1 DEF Sound
<1>3. r.portIdx[k] \in 1 .. Len(r.ports)
  <2>1. r.portIdx[k] # 0 /\ r.portIdx[k] \in 0 .. Len(r.ports) /\ Len(r.ports) \in Nat
    BY Zenon, <1>2, RowFields DEF Has, HostOk
  <2> QED
    BY <2>1
<1> HIDE DEF r
<1>4. r.ports[r.portIdx[k]] \in 1 .. Len(s.entries) /\ s.entries[r.ports[r.portIdx[k]]].key = k
  BY <1>2, <1>3 DEF HostOk
<1> DEFINE e == r.ports[r.portIdx[k]]
<1>5. e \in 1 .. Len(s.entries) /\ s.entries[e].key = k
  BY <1>4
<1>6. EntryOf(s, h, k) = e
  BY DEF EntryOf, r
<1> HIDE DEF e
<1>7. s.entries[e] \in Entry
  BY <1>0, <1>5
<1>8. r = s.slice[s.map[h]]
  BY DEF r
<1> QED
  BY <1>1, <1>2, <1>3, <1>5, <1>6, <1>7, <1>8

\* Each port of each host has an entry of its own.
LEMMA EntriesDiffer ==
    ASSUME NEW s, Sound(s), NEW g \in Hosts, NEW h \in Hosts, NEW k \in Keys, NEW l \in Keys,
           Has(s, g, k), Has(s, h, l), EntryOf(s, g, k) = EntryOf(s, h, l)
    PROVE  g = h /\ k = l
<1>1. k = l
  BY EntryIsThere
<1>2. s.map[g] \in 1 .. Len(s.slice) /\ s.map[h] \in 1 .. Len(s.slice)
  BY EntryIsThere
<1>3. s.slice[s.map[g]].ip = g /\ s.slice[s.map[h]].ip = h
  BY DEF Sound, Has
<1>4. /\ s.slice[s.map[g]].portIdx[k] \in 1 .. Len(s.slice[s.map[g]].ports)
      /\ s.slice[s.map[h]].portIdx[l] \in 1 .. Len(s.slice[s.map[h]].ports)
  BY EntryIsThere
<1>5. s.slice[s.map[g]].ports[s.slice[s.map[g]].portIdx[k]]
         = s.slice[s.map[h]].ports[s.slice[s.map[h]].portIdx[l]]
  BY DEF EntryOf
<1>6. \A i, j \in 1 .. Len(s.slice) : i # j =>
         \A a \in 1 .. Len(s.slice[i].ports), b \in 1 .. Len(s.slice[j].ports) :
            s.slice[i].ports[a] # s.slice[j].ports[b]
  BY DEF Sound
<1>7. s.map[g] = s.map[h]
  BY ONLY ZenonT(30), <1>2, <1>4, <1>5, <1>6
<1> QED
  BY <1>1, <1>3, <1>7

LEMMA MergeIsEntry ==
    ASSUME NEW e \in Entry, IsInjective(e.proxies), NEW f \in Finding
    PROVE  /\ MergeEntry(e, f) \in Entry /\ MergeEntry(e, f).key = e.key
           /\ IsInjective(MergeEntry(e, f).proxies)
           /\ Range(MergeEntry(e, f).proxies) = Range(e.proxies) \cup Named(f)
<1>1. /\ e = [key |-> e.key, service |-> e.service, proxies |-> e.proxies]
      /\ e.key \in Keys /\ e.service \in Nat /\ e.proxies \in Seq(Text)
      /\ f.service \in Nat /\ f.proxies \in Seq(Text)
  BY DEF Entry, Finding
<1> DEFINE d == dedupeAppend(e.proxies, f.proxies)
<1>2. /\ d \in Seq(Text) /\ IsInjective(d)
      /\ Range(d) = Range(e.proxies) \cup Named(f)
  BY <1>1, DedupeAdds DEF Named
<1> DEFINE v == IF e.service = 0 THEN f.service ELSE e.service
<1>3. MergeEntry(e, f) = [e EXCEPT !.proxies = d, !.service = v]
  BY DEF MergeEntry
<1>4. v \in Nat
  BY <1>1
<1> HIDE DEF d, v
<1> DEFINE m == [e EXCEPT !.proxies = d, !.service = v]
<1>6. m \in Entry /\ m.key = e.key /\ m.proxies = d
  BY <1>2, <1>4 DEF Entry
<1> HIDE DEF m
<1>7. MergeEntry(e, f) = m
  BY <1>3 DEF m
<1> QED
  BY <1>2, <1>6, <1>7

LEMMA SeqChange ==
    ASSUME NEW S, NEW q \in Seq(S), NEW i \in 1 .. Len(q), NEW x \in S,
           NEW u, u = [q EXCEPT ![i] = x]
    PROVE  /\ u \in Seq(S) /\ Len(u) = Len(q) /\ u[i] = x
           /\ \A j \in 1 .. Len(q) : j # i => u[j] = q[j]
OBVIOUS

\* A finding of a port that is known.
LEMMA MergeSound ==
    ASSUME NEW s, Sound(s), NEW f \in Finding, NEW h \in Hosts, NEW k \in Keys,
           Has(s, h, k), NEW t, t = [s EXCEPT !.entries[EntryOf(s, h, k)] = MergeEntry(@, f)]
    PROVE  /\ Sound(t) /\ t.slice = s.slice /\ Len(t.entries) = Len(s.entries)
           /\ Says(s, t, h, k, Named(f))
<1> DEFINE e == EntryOf(s, h, k)
           m == MergeEntry(s.entries[e], f)
<1>0. s \in Store /\ s.map \in [Hosts -> Nat] /\ s.slice \in Seq(HostRow) /\ s.entries \in Seq(Entry)
      /\ s = [map |-> s.map, slice |-> s.slice, entries |-> s.entries] /\ Len(s.slice) \in Nat
      /\ Len(s.entries) \in Nat
  BY StoreFields DEF Sound
<1>1. e \in 1 .. Len(s.entries) /\ s.entries[e] \in Entry /\ IsInjective(s.entries[e].proxies)
  BY EntryIsThere DEF Sound
<1>2. /\ m \in Entry /\ m.key = s.entries[e].key /\ IsInjective(m.proxies)
      /\ Range(m.proxies) = Range(s.entries[e].proxies) \cup Named(f)
  BY <1>1, MergeIsEntry
<1>3. t = [map |-> s.map, slice |-> s.slice, entries |-> [s.entries EXCEPT ![e] = m]]
  <2> DEFINE x == MergeEntry(s.entries[e], f)
  <2>1. t = [s EXCEPT !.entries = [s.entries EXCEPT ![e] = x]]
    <3>1. t = [s EXCEPT !.entries[e] = x]
      OBVIOUS
    <3> HIDE DEF e, x
    <3>2. [s EXCEPT !.entries[e] = x] = [s EXCEPT !.entries = [s.entries EXCEPT ![e] = x]]
      OBVIOUS
    <3> QED
      BY ONLY <3>1, <3>2
  <2> HIDE DEF e, x
  <2>2. t = [map |-> s.map, slice |-> s.slice, entries |-> [s.entries EXCEPT ![e] = x]]
    BY <1>0, <2>1
  <2> QED
    BY <2>2 DEF x
<1> HIDE DEF m, e
<1>4. t.map = s.map /\ t.slice = s.slice /\ t.entries = [s.entries EXCEPT ![e] = m]
  BY ONLY <1>3
<1>5. /\ t.entries \in Seq(Entry) /\ Len(t.entries) = Len(s.entries) /\ t.entries[e] = m
      /\ \A d \in 1 .. Len(s.entries) : d # e => t.entries[d] = s.entries[d]
      /\ \A d \in 1 .. Len(s.entries) : t.entries[d].key = s.entries[d].key
  <2> DEFINE u == [s.entries EXCEPT ![e] = m]
  <2>1. /\ u \in Seq(Entry) /\ Len(u) = Len(s.entries) /\ u[e] = m
        /\ \A d \in 1 .. Len(s.entries) : d # e => u[d] = s.entries[d]
    <3> HIDE DEF u
    <3>1. u = [s.entries EXCEPT ![e] = m]
      BY DEF u
    <3> DEFINE q == s.entries
    <3>2. q \in Seq(Entry) /\ e \in 1 .. Len(q) /\ m \in Entry /\ u = [q EXCEPT ![e] = m]
      BY <1>0, <1>1, <1>2, <3>1
    <3> HIDE DEF q
    <3>3. /\ u \in Seq(Entry) /\ Len(u) = Len(q) /\ u[e] = m
          /\ \A d \in 1 .. Len(q) : d # e => u[d] = q[d]
      BY <3>2, SeqChange
    <3> QED
      BY <3>3 DEF q
  <2> HIDE DEF u
  <2>2. t.entries = u
    BY <1>4 DEF u
  <2> QED
    BY <1>2, <2>1, <2>2
<1>6. t \in Store
  BY <1>0, <1>3, <1>4, <1>5 DEF Store
<1>7. ASSUME NEW i \in 1 .. Len(s.slice) PROVE HostOk(t.slice[i], t.entries)
  <2>1. HostOk(s.slice[i], s.entries)
    BY DEF Sound
  <2>2. \A j \in Keys : s.slice[i].portIdx[j] \in 1 .. Len(s.slice[i].ports) \/ s.slice[i].portIdx[j] = 0
    <3>1. Len(s.slice[i].ports) \in Nat
      BY <1>0, RowFields
    <3>2. \A j \in Keys : s.slice[i].portIdx[j] \in 0 .. Len(s.slice[i].ports)
      BY <2>1, IndexLeads
    <3> QED
      BY <3>1, <3>2
  <2>3. \A j \in 1 .. Len(s.slice[i].ports) :
            /\ s.slice[i].ports[j] \in 1 .. Len(s.entries)
            /\ t.entries[s.slice[i].ports[j]].key = s.entries[s.slice[i].ports[j]].key
    BY ONLY ZenonT(30), <1>5, <2>1 DEF HostOk
  <2> DEFINE x == s.slice[i]
  <2>4. t.slice[i] = x
    BY <1>4
  <2>5. \A j \in 1 .. Len(x.ports) :
          x.ports[j] \in 1 .. Len(t.entries) /\ x.portIdx[t.entries[x.ports[j]].key] = j
    BY ONLY ZenonT(30), <1>5, <2>1, <2>3 DEF HostOk
  <2>6. ASSUME NEW j \in Keys
        PROVE  /\ x.portIdx[j] \in 0 .. Len(x.ports)
               /\ x.portIdx[j] # 0 => t.entries[x.ports[x.portIdx[j]]].key = j
    <3>1. x.portIdx[j] \in 0 .. Len(x.ports)
      BY <2>1, IndexLeads
    <3>2. x.portIdx[j] # 0 => s.entries[x.ports[x.portIdx[j]]].key = j
      BY <2>1, IndexLeads
    <3>3. x.portIdx[j] # 0 => t.entries[x.ports[x.portIdx[j]]].key = s.entries[x.ports[x.portIdx[j]]].key
      BY ZenonT(30), <2>2, <2>3
    <3> QED
      BY ONLY ZenonT(30), <3>1, <3>2, <3>3
  <2> HIDE DEF x
  <2> QED
    BY ONLY Zenon, <2>4, <2>5, <2>6 DEF HostOk
<1>8. \A d \in 1 .. Len(t.entries) : IsInjective(t.entries[d].proxies)
  BY <1>2, <1>5 DEF Sound
<1>9. Sound(t)
  <2>1. \A g \in Hosts : /\ t.map[g] \in 0 .. Len(t.slice)
                         /\ t.map[g] # 0 => t.slice[t.map[g]].ip = g
    BY <1>4 DEF Sound
  <2>2. \A i \in 1 .. Len(t.slice) : t.map[t.slice[i].ip] = i
    BY <1>4 DEF Sound
  <2>3. \A i, j \in 1 .. Len(t.slice) : i # j =>
          \A a \in 1 .. Len(t.slice[i].ports), b \in 1 .. Len(t.slice[j].ports) :
             t.slice[i].ports[a] # t.slice[j].ports[b]
    BY <1>4 DEF Sound
  <2>4. \A i \in 1 .. Len(t.slice) : HostOk(t.slice[i], t.entries)
    BY <1>4, <1>7
  <2> QED
    BY <1>6, <1>8, <2>1, <2>2, <2>3, <2>4 DEF Sound
<1>10. ASSUME NEW g \in Hosts, NEW l \in Keys, NEW p
       PROVE  Tells(t, g, l, p) <=> \/ Tells(s, g, l, p)
                                    \/ g = h /\ l = k /\ p \in Named(f)
  <2>1. Has(t, g, l) <=> Has(s, g, l)
    BY <1>4 DEF Has
  <2>2. EntryOf(t, g, l) = EntryOf(s, g, l)
    BY Zenon, <1>4 DEF EntryOf
  <2>3. CASE g = h /\ l = k
    BY <1>2, <1>5, <2>1, <2>2, <2>3 DEF Tells, e
  <2>4. CASE ~(g = h /\ l = k)
    <3>2. ASSUME Has(s, g, l) PROVE t.entries[EntryOf(s, g, l)] = s.entries[EntryOf(s, g, l)]
      <4>1. EntryOf(s, g, l) # e
        BY <2>4, <3>2, EntriesDiffer DEF e
      <4>2. EntryOf(s, g, l) \in 1 .. Len(s.entries)
        BY <3>2, EntryIsThere
      <4> QED
        BY <1>5, <4>1, <4>2
    <3> QED
      BY <2>1, <2>2, <2>4, <3>2 DEF Tells
  <2> QED
    BY <2>3, <2>4
<1> QED
  BY <1>4, <1>5, <1>9, <1>10 DEF Says

-----------------------------------------------------------------------------
(* A port that is new *)

LEMMA SeqAppend ==
    ASSUME NEW S, NEW q \in Seq(S), NEW x \in S, NEW u, u = Append(q, x)
    PROVE  /\ u \in Seq(S) /\ Len(u) = Len(q) + 1 /\ Len(q) \in Nat /\ u[Len(q) + 1] = x
           /\ \A j \in 1 .. Len(q) : u[j] = q[j]
OBVIOUS

\* The indices of a host's ports.
LEMMA IndexRange ==
    ASSUME NEW r \in HostRow, NEW es, HostOk(r, es), NEW k \in Keys
    PROVE  r.portIdx[k] = 0 \/ r.portIdx[k] \in 1 .. Len(r.ports)
<1>1. r.portIdx[k] \in 0 .. Len(r.ports) /\ Len(r.ports) \in Nat
  BY RowFields DEF HostOk
<1> QED
  BY <1>1

\* An entry more changes nothing for a host that does not get it.
LEMMA HostOkGrows ==
    ASSUME NEW r \in HostRow, NEW es \in Seq(Entry), HostOk(r, es), NEW new \in Entry,
           NEW fs, fs = Append(es, new)
    PROVE  HostOk(r, fs)
<1>1. /\ Len(fs) = Len(es) + 1 /\ Len(es) \in Nat
      /\ \A j \in 1 .. Len(es) : fs[j] = es[j]
  BY SeqAppend
<1>2. \A j \in 1 .. Len(r.ports) : r.ports[j] \in 1 .. Len(es) /\ r.ports[j] \in 1 .. Len(fs)
                                   /\ fs[r.ports[j]] = es[r.ports[j]]
  BY <1>1 DEF HostOk
<1>3. \A j \in 1 .. Len(r.ports) :
          r.ports[j] \in 1 .. Len(fs) /\ r.portIdx[fs[r.ports[j]].key] = j
  BY <1>2 DEF HostOk
<1>4. ASSUME NEW k \in Keys
      PROVE  /\ r.portIdx[k] \in 0 .. Len(r.ports)
             /\ r.portIdx[k] # 0 => fs[r.ports[r.portIdx[k]]].key = k
  <2>1. r.portIdx[k] \in 0 .. Len(r.ports)
    BY DEF HostOk
  <2>2. r.portIdx[k] # 0 => es[r.ports[r.portIdx[k]]].key = k
    BY DEF HostOk
  <2>3. r.portIdx[k] # 0 => fs[r.ports[r.portIdx[k]]] = es[r.ports[r.portIdx[k]]]
    BY <1>2, IndexRange
  <2> QED
    BY <2>1, <2>2, <2>3
<1> QED
  BY <1>3, <1>4 DEF HostOk

\* The row of a host that gets a port.
LEMMA RowGrows ==
    ASSUME NEW r \in HostRow, NEW es \in Seq(Entry), HostOk(r, es), NEW new \in Entry,
           NEW fs, fs = Append(es, new), NEW k \in Keys, new.key = k, r.portIdx[k] = 0,
           NEW row, row = [ip |-> r.ip, ports |-> Append(r.ports, Len(es) + 1),
                           portIdx |-> [r.portIdx EXCEPT ![k] = Len(r.ports) + 1]]
    PROVE  row \in HostRow /\ HostOk(row, fs)
<1> DEFINE n == Len(es) c == Len(r.ports)
<1>0. r.ip \in Hosts /\ r.ports \in Seq(Nat) /\ r.portIdx \in [Keys -> Nat] /\ c \in Nat
  BY RowFields
<1>1. /\ fs \in Seq(Entry) /\ Len(fs) = n + 1 /\ n \in Nat /\ fs[n + 1] = new
      /\ \A j \in 1 .. n : fs[j] = es[j]
  BY SeqAppend
<1>2. /\ row.ip = r.ip /\ row.ports = Append(r.ports, n + 1)
      /\ row.portIdx = [r.portIdx EXCEPT ![k] = c + 1]
  OBVIOUS
<1>3. /\ row.ports \in Seq(Nat) /\ Len(row.ports) = c + 1 /\ row.ports[c + 1] = n + 1
      /\ \A j \in 1 .. c : row.ports[j] = r.ports[j]
  <2>1. n + 1 \in Nat
    BY <1>1
  <2> DEFINE u == row.ports q == r.ports
  <2>2. u = Append(q, n + 1) /\ q \in Seq(Nat)
    BY <1>0, <1>2
  <2> HIDE DEF u, n
  <2> QED
    BY <2>1, <2>2, SeqAppend DEF u
<1>4. /\ row.portIdx \in [Keys -> Nat] /\ row.portIdx[k] = c + 1
      /\ \A l \in Keys : l # k => row.portIdx[l] = r.portIdx[l]
  BY <1>0, <1>2
<1> HIDE DEF c, n
<1>5. row \in HostRow
  BY <1>0, <1>2, <1>3, <1>4 DEF HostRow
<1>6. ASSUME NEW j \in 1 .. c + 1
      PROVE  row.ports[j] \in 1 .. n + 1 /\ row.portIdx[fs[row.ports[j]].key] = j
  <2>1. CASE j = c + 1
    BY <1>1, <1>3, <1>4, <2>1
  <2>2. CASE j # c + 1
    <3>1. j \in 1 .. c /\ j # 0
      BY <1>0, <2>2
    <3>2. row.ports[j] = r.ports[j] /\ r.ports[j] \in 1 .. n /\ r.portIdx[es[r.ports[j]].key] = j
      BY <1>3, <3>1 DEF HostOk, c, n
    <3>3. fs[r.ports[j]] = es[r.ports[j]] /\ es[r.ports[j]].key \in Keys
      <4>1. es[r.ports[j]] \in Entry
        BY <3>2 DEF n
      <4> QED
        BY <1>1, <3>2, <4>1 DEF Entry
    <3>4. es[r.ports[j]].key # k
      BY <3>1, <3>2
    <3> QED
      BY <1>1, <1>4, <3>2, <3>3, <3>4
  <2> QED
    BY <2>1, <2>2
<1>7. ASSUME NEW l \in Keys
      PROVE  /\ row.portIdx[l] \in 0 .. c + 1
             /\ row.portIdx[l] # 0 => fs[row.ports[row.portIdx[l]]].key = l
  <2>1. CASE l = k
    BY <1>0, <1>1, <1>3, <1>4, <2>1
  <2>2. CASE l # k
    <3>1. row.portIdx[l] = r.portIdx[l]
      BY <1>4, <2>2
    <3>2. r.portIdx[l] = 0 \/ r.portIdx[l] \in 1 .. c
      BY IndexRange DEF c
    <3>3. CASE r.portIdx[l] \in 1 .. c
      <4>1. row.ports[r.portIdx[l]] = r.ports[r.portIdx[l]]
        BY <1>3, <3>3
      <4>2. r.ports[r.portIdx[l]] \in 1 .. n
        BY <3>3 DEF HostOk, c, n
      <4>3. es[r.ports[r.portIdx[l]]].key = l
        <5>1. r.portIdx[l] # 0
          BY <1>0, <3>3
        <5> QED
          BY <5>1 DEF HostOk
      <4>4. fs[r.ports[r.portIdx[l]]] = es[r.ports[r.portIdx[l]]]
        BY <1>1, <4>2
      <4>5. row.portIdx[l] \in 0 .. c + 1
        BY <1>0, <3>1, <3>3
      <4> QED
        BY <3>1, <4>1, <4>3, <4>4, <4>5
    <3>4. CASE r.portIdx[l] = 0
      <4>1. 0 \in 0 .. c + 1
        BY <1>0
      <4> QED
        BY <3>1, <3>4, <4>1
    <3> QED
      BY <3>2, <3>3, <3>4
  <2> QED
    BY <2>1, <2>2
<1> QED
  BY Zenon, <1>1, <1>3, <1>5, <1>6, <1>7 DEF HostOk

\* t is s with one more entry, new, for the port k of the host in row hi.
Grown(s, t, hi, k, new) ==
    /\ t \in Store /\ t.map = s.map /\ Len(t.slice) = Len(s.slice)
    /\ \A i \in 1 .. Len(s.slice) : i # hi => t.slice[i] = s.slice[i]
    /\ Len(t.entries) = Len(s.entries) + 1 /\ t.entries = Append(s.entries, new)
    /\ t.entries[Len(s.entries) + 1] = new
    /\ \A d \in 1 .. Len(s.entries) : t.entries[d] = s.entries[d]
    /\ t.slice[hi].ip = s.slice[hi].ip
    /\ Len(t.slice[hi].ports) = Len(s.slice[hi].ports) + 1
    /\ t.slice[hi].ports[Len(s.slice[hi].ports) + 1] = Len(s.entries) + 1
    /\ \A j \in 1 .. Len(s.slice[hi].ports) : t.slice[hi].ports[j] = s.slice[hi].ports[j]
    /\ t.slice[hi].portIdx[k] = Len(s.slice[hi].ports) + 1
    /\ \A l \in Keys : l # k => t.slice[hi].portIdx[l] = s.slice[hi].portIdx[l]
    /\ HostOk(t.slice[hi], t.entries)

\* The row of a host that is known.
LEMMA RowOfHost ==
    ASSUME NEW s, Sound(s), NEW h \in Hosts, s.map[h] # 0
    PROVE  /\ s.map[h] \in 1 .. Len(s.slice) /\ s.slice[s.map[h]] \in HostRow
           /\ s.slice[s.map[h]].ip = h /\ HostOk(s.slice[s.map[h]], s.entries)
           /\ Len(s.slice[s.map[h]].ports) \in Nat
           /\ \A g \in Hosts : s.map[g] = s.map[h] => g = h
<1>1. s \in Store /\ s.slice \in Seq(HostRow) /\ Len(s.slice) \in Nat
  BY StoreFields DEF Sound
<1>2. s.map[h] \in 0 .. Len(s.slice) /\ s.slice[s.map[h]].ip = h
  BY DEF Sound
<1>3. s.map[h] \in 1 .. Len(s.slice)
  BY <1>1, <1>2
<1>4. s.slice[s.map[h]] \in HostRow /\ HostOk(s.slice[s.map[h]], s.entries)
  BY <1>1, <1>3 DEF Sound
<1>5. Len(s.slice[s.map[h]].ports) \in Nat
  BY <1>4, RowFields
<1>6. ASSUME NEW g \in Hosts, s.map[g] = s.map[h] PROVE g = h
  BY <1>2, <1>6 DEF Sound
<1> QED
  BY <1>2, <1>3, <1>4, <1>5, <1>6

LEMMA GrownSound ==
    ASSUME NEW s, Sound(s), NEW t, NEW h \in Hosts, s.map[h] # 0, NEW k \in Keys,
           NEW new \in Entry, IsInjective(new.proxies), Grown(s, t, s.map[h], k, new)
    PROVE  Sound(t)
<1> DEFINE hi == s.map[h]
           n  == Len(s.entries)
           c  == Len(s.slice[hi].ports)
<1>1. /\ s \in Store /\ s.slice \in Seq(HostRow) /\ s.entries \in Seq(Entry)
      /\ Len(s.slice) \in Nat /\ n \in Nat
  BY StoreFields DEF Sound
<1>2. /\ hi \in 1 .. Len(s.slice) /\ s.slice[hi].ip = h /\ c \in Nat
      /\ \A g \in Hosts : s.map[g] = hi => g = h
  BY RowOfHost
<1>3. Grown(s, t, hi, k, new)
  OBVIOUS
<1> HIDE DEF hi, n, c
<1>4. ASSUME NEW g \in Hosts
      PROVE  t.map[g] \in 0 .. Len(t.slice) /\ (t.map[g] # 0 => t.slice[t.map[g]].ip = g)
  <2>1. s.map[g] \in 0 .. Len(s.slice) /\ (s.map[g] # 0 => s.slice[s.map[g]].ip = g)
    BY DEF Sound
  <2>2. t.map[g] = s.map[g] /\ Len(t.slice) = Len(s.slice)
    BY Zenon, <1>3 DEF Grown
  <2>3. s.map[g] # 0 => t.slice[s.map[g]].ip = s.slice[s.map[g]].ip
    <3>1. CASE s.map[g] = hi
      BY Zenon, <1>3, <3>1 DEF Grown
    <3>2. CASE s.map[g] # hi /\ s.map[g] # 0
      <4>1. s.map[g] \in 1 .. Len(s.slice)
        BY <1>1, <2>1, <3>2
      <4> QED
        BY Zenon, <1>3, <3>2, <4>1 DEF Grown
    <3> QED
      BY <3>1, <3>2
  <2> QED
    BY <2>1, <2>2, <2>3
<1>5. ASSUME NEW i \in 1 .. Len(t.slice)
      PROVE  t.map[t.slice[i].ip] = i /\ HostOk(t.slice[i], t.entries)
  <2>1. i \in 1 .. Len(s.slice) /\ t.map = s.map
    BY Zenon, <1>3 DEF Grown
  <2>2. s.map[s.slice[i].ip] = i /\ HostOk(s.slice[i], s.entries) /\ s.slice[i] \in HostRow
    BY <1>1, <2>1 DEF Sound
  <2>3. CASE i = hi
    <3>1. t.slice[i].ip = s.slice[i].ip /\ HostOk(t.slice[i], t.entries)
      BY Zenon, <1>3, <2>3 DEF Grown
    <3> QED
      BY <2>1, <2>2, <3>1
  <2>4. CASE i # hi
    <3>1. t.slice[i] = s.slice[i] /\ t.entries = Append(s.entries, new)
      BY Zenon, <1>3, <2>1, <2>4 DEF Grown
    <3>2. HostOk(s.slice[i], t.entries)
      BY <1>1, <2>2, <3>1, HostOkGrows
    <3> QED
      BY <2>1, <2>2, <3>1, <3>2
  <2> QED
    BY <2>3, <2>4
<1>6. ASSUME NEW i \in 1 .. Len(t.slice), i # hi,
             NEW a \in 1 .. Len(t.slice[hi].ports), NEW b \in 1 .. Len(t.slice[i].ports)
      PROVE  t.slice[hi].ports[a] # t.slice[i].ports[b]
  <2>1. i \in 1 .. Len(s.slice) /\ t.slice[i] = s.slice[i]
    BY Zenon, <1>3, <1>6 DEF Grown
  <2>2. b \in 1 .. Len(s.slice[i].ports) /\ t.slice[i].ports[b] = s.slice[i].ports[b]
    BY <2>1
  <2>3. s.slice[i].ports[b] \in 1 .. n
    <3>1. HostOk(s.slice[i], s.entries)
      BY <2>1 DEF Sound
    <3> QED
      BY <2>2, <3>1, PortsLead DEF n
  <2>4. Len(t.slice[hi].ports) = c + 1 /\ t.slice[hi].ports[c + 1] = n + 1
    BY Zenon, <1>3 DEF Grown, c, n
  <2>5. CASE a = c + 1
    BY <1>1, <2>2, <2>3, <2>4, <2>5
  <2>6. CASE a # c + 1
    <3>1. a \in 1 .. c
      BY <1>2, <1>6, <2>4, <2>6
    <3>2. t.slice[hi].ports[a] = s.slice[hi].ports[a] /\ a \in 1 .. Len(s.slice[hi].ports)
      BY Zenon, <1>3, <3>1 DEF Grown, c
    <3>3. s.slice[hi].ports[a] # s.slice[i].ports[b]
      BY <1>2, <1>6, <2>1, <2>2, <3>2 DEF Sound
    <3> QED
      BY <2>2, <3>2, <3>3
  <2> QED
    BY <2>5, <2>6
<1>7. ASSUME NEW i \in 1 .. Len(t.slice), NEW j \in 1 .. Len(t.slice), i # j,
             NEW a \in 1 .. Len(t.slice[i].ports), NEW b \in 1 .. Len(t.slice[j].ports)
      PROVE  t.slice[i].ports[a] # t.slice[j].ports[b]
  <2>1. CASE i = hi
    BY <1>6, <1>7, <2>1
  <2>2. CASE j = hi
    BY <1>6, <1>7, <2>2
  <2>3. CASE i # hi /\ j # hi
    <3>1. i \in 1 .. Len(s.slice) /\ j \in 1 .. Len(s.slice)
      BY Zenon, <1>3 DEF Grown
    <3>2. t.slice[i] = s.slice[i] /\ t.slice[j] = s.slice[j]
      BY Zenon, <1>3, <2>3, <3>1 DEF Grown
    <3>3. a \in 1 .. Len(s.slice[i].ports) /\ b \in 1 .. Len(s.slice[j].ports)
      BY <3>2
    <3>4. s.slice[i].ports[a] # s.slice[j].ports[b]
      BY SMTT(30), <1>7, <3>1, <3>3 DEF Sound
    <3> QED
      BY <3>2, <3>4
  <2> QED
    BY <2>1, <2>2, <2>3
<1>8. ASSUME NEW e \in 1 .. Len(t.entries) PROVE IsInjective(t.entries[e].proxies)
  <2>1. Len(t.entries) = n + 1 /\ t.entries[n + 1] = new
        /\ \A d \in 1 .. n : t.entries[d] = s.entries[d]
    BY Zenon, <1>3 DEF Grown, n
  <2>2. CASE e = n + 1
    BY <2>1, <2>2
  <2>3. CASE e # n + 1
    <3>1. e \in 1 .. n
      BY <1>1, <2>1, <2>3
    <3>2. IsInjective(s.entries[e].proxies)
      BY <3>1 DEF Sound, n
    <3> QED
      BY <2>1, <3>1, <3>2
  <2> QED
    BY <2>2, <2>3
<1>9. t \in Store
  BY Zenon, <1>3 DEF Grown
<1> QED
  BY <1>4, <1>5, <1>7, <1>8, <1>9 DEF Sound

\* The first finding of a port says exactly what its proxies are.
LEMMA GrownTells ==
    ASSUME NEW s, Sound(s), NEW t, NEW h \in Hosts, s.map[h] # 0, NEW k \in Keys,
           s.slice[s.map[h]].portIdx[k] = 0, NEW new \in Entry,
           Grown(s, t, s.map[h], k, new)
    PROVE  Says(s, t, h, k, Range(new.proxies))
<1> SUFFICES ASSUME NEW g \in Hosts, NEW l \in Keys, NEW p
             PROVE  Tells(t, g, l, p) <=> \/ Tells(s, g, l, p)
                                          \/ g = h /\ l = k /\ p \in Range(new.proxies)
  BY DEF Says
<1>1. CASE g = h /\ l = k
  <2>1. ~Has(s, h, k)
    BY DEF Has
  <2> DEFINE c == Len(s.slice[s.map[h]].ports)
  <2>2. /\ t.map[h] = s.map[h] /\ t.slice[s.map[h]].portIdx[k] = c + 1 /\ c \in Nat
        /\ t.slice[s.map[h]].ports[c + 1] = Len(s.entries) + 1
        /\ t.entries[Len(s.entries) + 1] = new
    BY Zenon, RowOfHost DEF Grown
  <2> HIDE DEF c
  <2>3. t.map[h] # 0 /\ t.slice[t.map[h]].portIdx[k] = c + 1 /\ c + 1 # 0
    BY <2>2
  <2>4. Has(t, h, k) /\ EntryOf(t, h, k) = Len(s.entries) + 1
    BY <2>2, <2>3 DEF Has, EntryOf
  <2>5. Tells(t, h, k, p) <=> p \in Range(new.proxies)
    BY <2>2, <2>4 DEF Tells
  <2> QED
    BY <1>1, <2>1, <2>5 DEF Tells
<1>2. CASE ~(g = h /\ l = k)
  <2> DEFINE hi == s.map[h] i == s.map[g] a == s.slice[i].portIdx[l]
  <2>0. ~(g = h /\ l = k)
    BY <1>2
  <2>1. Grown(s, t, hi, k, new) /\ \A x \in Hosts : s.map[x] = hi => x = h
    BY RowOfHost
  <2>2. t.map[g] = i
    BY Zenon, <2>1 DEF Grown
  <2>3. i # 0 => i \in 1 .. Len(s.slice)
    BY RowOfHost
  <2> HIDE DEF hi
  <2>4. i # 0 => t.slice[i].portIdx[l] = a
    <3>1. CASE i = hi
      <4>1. l # k
        BY <2>0, <2>1, <3>1
      <4> QED
        BY Zenon, <2>1, <3>1, <4>1 DEF Grown
    <3>2. CASE i # hi /\ i # 0
      <4>1. t.slice[i] = s.slice[i]
        BY Zenon, <2>1, <2>3, <3>2 DEF Grown
      <4> QED
        BY <4>1
    <3> QED
      BY <3>1, <3>2
  <2>5. Has(t, g, l) <=> Has(s, g, l)
    BY <2>2, <2>4 DEF Has
  <2>6. ASSUME Has(s, g, l)
        PROVE  /\ EntryOf(t, g, l) = EntryOf(s, g, l)
               /\ t.entries[EntryOf(s, g, l)] = s.entries[EntryOf(s, g, l)]
    <3>1. i \in 1 .. Len(s.slice) /\ a \in 1 .. Len(s.slice[i].ports) /\ i # 0
          /\ EntryOf(s, g, l) \in 1 .. Len(s.entries)
      BY <2>6, EntryIsThere DEF Has
    <3>2. t.slice[i].ports[a] = s.slice[i].ports[a]
      <4>1. CASE i = hi
        BY Zenon, <2>1, <3>1, <4>1 DEF Grown
      <4>2. CASE i # hi
        <5>1. t.slice[i] = s.slice[i]
          BY Zenon, <2>1, <3>1, <4>2 DEF Grown
        <5> QED
          BY <5>1
      <4> QED
        BY Zenon, <4>1, <4>2
    <3>3. EntryOf(t, g, l) = EntryOf(s, g, l)
      BY ZenonT(30), <2>2, <2>4, <3>1, <3>2 DEF EntryOf
    <3> QED
      BY Zenon, <2>1, <3>1, <3>3 DEF Grown
  <2> QED
    BY <2>0, <2>5, <2>6 DEF Tells
<1> QED
  BY <1>1, <1>2

LEMMA GrownPorts ==
    ASSUME NEW s, Sound(s), NEW t, NEW h \in Hosts, s.map[h] # 0, NEW k \in Keys, NEW new,
           Grown(s, t, s.map[h], k, new), NEW i \in 1 .. Len(s.slice)
    PROVE  ToSet(s.slice[i].ports) \subseteq ToSet(t.slice[i].ports)
<1>1. CASE i # s.map[h]
  BY Zenon, <1>1 DEF Grown
<1>2. CASE i = s.map[h]
  <2> DEFINE q == s.slice[i].ports u == t.slice[i].ports
  <2>1. q \in Seq(Nat) /\ Len(q) \in Nat
    BY <1>2, RowOfHost, RowFields
  <2>2. u \in Seq(Nat)
    <3>1. t.slice \in Seq(HostRow) /\ i \in 1 .. Len(t.slice)
      BY Zenon, StoreFields DEF Grown
    <3>2. t.slice[i] \in HostRow
      BY <3>1
    <3> QED
      BY <3>2, RowFields
  <2>3. Len(u) = Len(q) + 1 /\ \A j \in 1 .. Len(q) : u[j] = q[j]
    BY Zenon, <1>2 DEF Grown
  <2> HIDE DEF q, u
  <2>4. DOMAIN q = 1 .. Len(q) /\ DOMAIN u = 1 .. Len(u)
    BY <2>1, <2>2
  <2>5. ASSUME NEW j \in DOMAIN q PROVE q[j] \in ToSet(u)
    <3>1. j \in DOMAIN u /\ u[j] = q[j]
      BY <2>1, <2>3, <2>4
    <3> QED
      BY <3>1 DEF ToSet
  <2>6. ToSet(q) \subseteq ToSet(u)
    BY <2>5 DEF ToSet
  <2> QED
    BY <2>6 DEF q, u
<1> QED
  BY <1>1, <1>2

\* The row of a host that gets a port, part by part.
LEMMA RowParts ==
    ASSUME NEW r \in HostRow, NEW x \in Nat, NEW k \in Keys, NEW row,
           row = WithPort(r, k, x)
    PROVE  /\ row = [ip |-> r.ip, ports |-> Append(r.ports, x),
                     portIdx |-> [r.portIdx EXCEPT ![k] = Len(r.ports) + 1]]
           /\ row.ip = r.ip /\ Len(row.ports) = Len(r.ports) + 1
           /\ row.ports[Len(r.ports) + 1] = x
           /\ \A j \in 1 .. Len(r.ports) : row.ports[j] = r.ports[j]
           /\ row.portIdx[k] = Len(r.ports) + 1
           /\ \A l \in Keys : l # k => row.portIdx[l] = r.portIdx[l]
<1>1. /\ r.ports \in Seq(Nat) /\ r.portIdx \in [Keys -> Nat] /\ Len(r.ports) \in Nat
      /\ r = [ip |-> r.ip, ports |-> r.ports, portIdx |-> r.portIdx]
  BY RowFields
<1>0. row = [ip |-> r.ip, ports |-> Append(r.ports, x),
             portIdx |-> [r.portIdx EXCEPT ![k] = Len(r.ports) + 1]]
  <2> DEFINE ports == Append(r.ports, x) idx == [r.portIdx EXCEPT ![k] = Len(r.ports) + 1]
  <2>1. row = [r EXCEPT !.ports = ports, !.portIdx = idx]
    BY DEF WithPort
  <2> HIDE DEF ports, idx
  <2>2. row = [ip |-> r.ip, ports |-> ports, portIdx |-> idx]
    BY <1>1, <2>1
  <2> QED
    BY <2>2 DEF ports, idx
<1>2. /\ row.ip = r.ip /\ row.ports = Append(r.ports, x)
      /\ row.portIdx = [r.portIdx EXCEPT ![k] = Len(r.ports) + 1]
  BY <1>0
<1>3. /\ row.portIdx[k] = Len(r.ports) + 1
      /\ \A l \in Keys : l # k => row.portIdx[l] = r.portIdx[l]
  BY <1>1, <1>2
<1> DEFINE u == row.ports q == r.ports
<1>4. u = Append(q, x) /\ q \in Seq(Nat)
  BY <1>1, <1>2
<1> HIDE DEF u, q
<1>5. Len(u) = Len(q) + 1 /\ u[Len(q) + 1] = x /\ \A j \in 1 .. Len(q) : u[j] = q[j]
  BY <1>4, SeqAppend
<1> QED
  BY <1>0, <1>2, <1>3, <1>5 DEF u, q

\* A port that is new to its host.
LEMMA NewPortGrown ==
    ASSUME NEW s, Sound(s), NEW h \in Hosts, s.map[h] # 0, NEW k \in Keys,
           s.slice[s.map[h]].portIdx[k] = 0, NEW new \in Entry, new.key = k,
           NEW t, t = [s EXCEPT !.entries = Append(@, new),
                                !.slice[s.map[h]] = WithPort(@, k, Len(s.entries) + 1)]
    PROVE  Grown(s, t, s.map[h], k, new)
<1> DEFINE hi    == s.map[h]
           r     == s.slice[hi]
           n     == Len(s.entries)
           row   == WithPort(r, k, n + 1)
           slice == [s.slice EXCEPT ![hi] = row]
           es    == Append(s.entries, new)
<1>1. /\ s \in Store /\ s.slice \in Seq(HostRow) /\ s.entries \in Seq(Entry)
      /\ s.map \in [Hosts -> Nat]
      /\ s = [map |-> s.map, slice |-> s.slice, entries |-> s.entries]
      /\ Len(s.slice) \in Nat /\ n \in Nat /\ n + 1 \in Nat
  BY StoreFields DEF Sound
<1>2. /\ hi \in 1 .. Len(s.slice) /\ r \in HostRow /\ HostOk(r, s.entries) /\ r.portIdx[k] = 0
  BY RowOfHost
<1>3. t = [map |-> s.map, slice |-> slice, entries |-> es]
  <2> DEFINE x == row
  <2>1. t = [s EXCEPT !.entries = es, !.slice = slice]
    <3>1. t = [s EXCEPT !.entries = es, !.slice[hi] = x]
      OBVIOUS
    <3> HIDE DEF x, es, hi
    <3>2. [s EXCEPT !.entries = es, !.slice[hi] = x]
             = [s EXCEPT !.entries = es, !.slice = [s.slice EXCEPT ![hi] = x]]
      OBVIOUS
    <3> QED
      BY <3>1, <3>2 DEF x
  <2> HIDE DEF es, slice
  <2> QED
    BY <1>1, <2>1
<1>4. t.map = s.map /\ t.slice = slice /\ t.entries = es
  <2> HIDE DEF es, slice
  <2> QED
    BY ONLY <1>3
<1> HIDE DEF n
<1>5. /\ row = [ip |-> r.ip, ports |-> Append(r.ports, n + 1),
                portIdx |-> [r.portIdx EXCEPT ![k] = Len(r.ports) + 1]]
      /\ row.ip = r.ip /\ Len(row.ports) = Len(r.ports) + 1
      /\ row.ports[Len(r.ports) + 1] = n + 1
      /\ \A j \in 1 .. Len(r.ports) : row.ports[j] = r.ports[j]
      /\ row.portIdx[k] = Len(r.ports) + 1
      /\ \A l \in Keys : l # k => row.portIdx[l] = r.portIdx[l]
  <2> DEFINE w == row q == r x == n + 1
  <2>1. q \in HostRow /\ x \in Nat /\ w = WithPort(q, k, x)
    BY <1>1, <1>2
  <2> HIDE DEF w, q, x
  <2>2. /\ w = [ip |-> q.ip, ports |-> Append(q.ports, x),
                portIdx |-> [q.portIdx EXCEPT ![k] = Len(q.ports) + 1]]
        /\ w.ip = q.ip /\ Len(w.ports) = Len(q.ports) + 1
        /\ w.ports[Len(q.ports) + 1] = x
        /\ \A j \in 1 .. Len(q.ports) : w.ports[j] = q.ports[j]
        /\ w.portIdx[k] = Len(q.ports) + 1
        /\ \A l \in Keys : l # k => w.portIdx[l] = q.portIdx[l]
    BY <2>1, RowParts
  <2> HIDE DEF row, r
  <2> QED
    BY <2>2 DEF w, q, x
<1>6. row \in HostRow /\ HostOk(row, es)
  <2> HIDE DEF row, r, es
  <2>1. es = Append(s.entries, new)
    BY DEF es
  <2>2. row = [ip |-> r.ip, ports |-> Append(r.ports, Len(s.entries) + 1),
                portIdx |-> [r.portIdx EXCEPT ![k] = Len(r.ports) + 1]]
    BY <1>5 DEF n
  <2> QED
    BY <1>1, <1>2, <2>1, <2>2, RowGrows
<1> HIDE DEF row
<1>7. /\ es \in Seq(Entry) /\ Len(es) = n + 1 /\ es[n + 1] = new
      /\ \A d \in 1 .. n : es[d] = s.entries[d]
  <2> DEFINE q == s.entries
  <2>1. es = Append(q, new) /\ q \in Seq(Entry) /\ n = Len(q)
    BY <1>1 DEF n
  <2> HIDE DEF q, es
  <2>2. es \in Seq(Entry) /\ Len(es) = n + 1 /\ es[n + 1] = new /\ \A d \in 1 .. n : es[d] = q[d]
    BY <2>1, SeqAppend
  <2> QED
    BY <2>2 DEF q
<1>8. /\ slice \in Seq(HostRow) /\ Len(slice) = Len(s.slice) /\ slice[hi] = row
      /\ \A i \in 1 .. Len(s.slice) : i # hi => slice[i] = s.slice[i]
  <2> DEFINE q == s.slice
  <2>1. slice = [q EXCEPT ![hi] = row] /\ q \in Seq(HostRow) /\ hi \in 1 .. Len(q)
    BY <1>1, <1>2
  <2> HIDE DEF q, slice, hi
  <2>2. /\ slice \in Seq(HostRow) /\ Len(slice) = Len(q) /\ slice[hi] = row
        /\ \A i \in 1 .. Len(q) : i # hi => slice[i] = q[i]
    BY <1>6, <2>1, SeqChange
  <2> QED
    BY <2>2 DEF q
<1>9. t \in Store
  <2> HIDE DEF es, slice
  <2> QED
    BY <1>1, <1>3, <1>7, <1>8 DEF Store
<1>10. es = Append(s.entries, new) /\ r = s.slice[hi] /\ n = Len(s.entries)
  BY DEF n
<1> HIDE DEF es, slice, r, hi
<1>11. Grown(s, t, hi, k, new)
  BY ONLY Zenon, <1>4, <1>5, <1>6, <1>7, <1>8, <1>9, <1>10 DEF Grown
<1> QED
  BY <1>11 DEF hi

-----------------------------------------------------------------------------
(* One finding *)

\* What was stored stays stored.
Keeps(s, t) ==
    /\ Len(t.slice) >= Len(s.slice) /\ Len(t.entries) >= Len(s.entries)
    /\ \A i \in 1 .. Len(s.slice) : ToSet(s.slice[i].ports) \subseteq ToSet(t.slice[i].ports)

\* t says what s says and what f adds.
Learns(s, t, f) ==
    \A g \in Hosts, l \in Keys : \A p : Tells(t, g, l, p) <=> Tells(s, g, l, p) \/ Adds(f, g, l, p)

\* The entry of a port that is new.
LEMMA NewIsEntry ==
    ASSUME NEW f \in Finding, NEW new,
           new = [key |-> f.key, service |-> f.service, proxies |-> dedupeAppend(<<>>, f.proxies)]
    PROVE  /\ new \in Entry /\ new.key = f.key /\ IsInjective(new.proxies)
           /\ Range(new.proxies) = Named(f)
<1>1. f.proxies \in Seq(Text) /\ f.service \in Nat /\ f.key \in Keys
  BY DEF Finding
<1>2. <<>> \in Seq(Text) /\ IsInjective(<<>>) /\ Range(<<>>) = {}
  BY EmptyList, RangeIsToSet
<1> DEFINE d == dedupeAppend(<<>>, f.proxies)
<1>3. d \in Seq(Text) /\ IsInjective(d) /\ Range(d) = Range(<<>>) \cup Named(f)
  BY <1>1, <1>2, DedupeAdds DEF Named
<1> HIDE DEF d
<1>4. new = [key |-> f.key, service |-> f.service, proxies |-> d]
  BY DEF d
<1>5. new.key = f.key /\ new.service = f.service /\ new.proxies = d
  BY ONLY <1>4
<1>6. new \in Entry
  BY ONLY <1>1, <1>3, <1>4 DEF Entry
<1> QED
  BY <1>2, <1>3, <1>5, <1>6

Stores(s, t, h, k, f) == Sound(t) /\ Keeps(s, t) /\ Says(s, t, h, k, Named(f))

\* A finding of a port that is known, and one of a port that is new.
LEMMA KnownPortSound ==
    ASSUME NEW s, Sound(s), NEW f \in Finding, NEW h \in Hosts, NEW k \in Keys, Has(s, h, k),
           NEW t, t = [s EXCEPT !.entries[EntryOf(s, h, k)] = MergeEntry(@, f)]
    PROVE  Stores(s, t, h, k, f)
<1>1. Sound(t) /\ t.slice = s.slice /\ Len(t.entries) = Len(s.entries)
  BY MergeSound
<1>5. Says(s, t, h, k, Named(f))
  BY MergeSound
<1>3. Len(s.slice) \in Nat /\ Len(s.entries) \in Nat
  BY StoreFields DEF Sound
<1>4. Keeps(s, t)
  BY ONLY <1>1, <1>3 DEF Keeps
<1> QED
  BY ONLY <1>1, <1>4, <1>5 DEF Stores

LEMMA GrownKeeps ==
    ASSUME NEW s, Sound(s), NEW h \in Hosts, s.map[h] # 0, NEW k \in Keys, NEW new, NEW t,
           Grown(s, t, s.map[h], k, new)
    PROVE  Keeps(s, t)
<1>1. \A i \in 1 .. Len(s.slice) : ToSet(s.slice[i].ports) \subseteq ToSet(t.slice[i].ports)
  BY GrownPorts
<1>2. Len(s.slice) \in Nat /\ Len(s.entries) \in Nat
  BY StoreFields DEF Sound
<1>3. Len(t.slice) = Len(s.slice) /\ Len(t.entries) = Len(s.entries) + 1
  BY Zenon DEF Grown
<1>4. Len(t.slice) >= Len(s.slice) /\ Len(t.entries) >= Len(s.entries)
  BY ONLY <1>2, <1>3
<1> QED
  BY ONLY <1>1, <1>4 DEF Keeps

LEMMA GrownLearns ==
    ASSUME NEW s, Sound(s), NEW f, NEW h \in Hosts, s.map[h] # 0, NEW k \in Keys,
           s.slice[s.map[h]].portIdx[k] = 0, NEW new \in Entry, Range(new.proxies) = Named(f),
           NEW t, Grown(s, t, s.map[h], k, new)
    PROVE  Says(s, t, h, k, Named(f))
<1>1. Says(s, t, h, k, Range(new.proxies))
  BY GrownTells
<1>2. Range(new.proxies) = Named(f)
  OBVIOUS
<1> QED
  BY ONLY <1>1, <1>2

LEMMA NewPortSound ==
    ASSUME NEW s, Sound(s), NEW f, NEW h \in Hosts, s.map[h] # 0, NEW k \in Keys,
           s.slice[s.map[h]].portIdx[k] = 0,
           NEW new \in Entry, new.key = k, IsInjective(new.proxies),
           Range(new.proxies) = Named(f),
           NEW t, t = [s EXCEPT !.entries = Append(@, new),
                                !.slice[s.map[h]] = WithPort(@, k, Len(s.entries) + 1)]
    PROVE  Stores(s, t, h, k, f)
<1>1. Grown(s, t, s.map[h], k, new)
  BY NewPortGrown
<1>2. Sound(t)
  BY <1>1, GrownSound
<1>3. Keeps(s, t)
  BY <1>1, GrownKeeps
<1>4. Says(s, t, h, k, Named(f))
  BY <1>1, GrownLearns
<1> QED
  BY ONLY <1>2, <1>3, <1>4 DEF Stores

\* A finding of a host that has its row, where its port is at the place at.
StoreAt(s, h, k, at, new, f) ==
    IF at # 0
    THEN [s EXCEPT !.entries[s.slice[s.map[h]].ports[at]] = MergeEntry(@, f)]
    ELSE [s EXCEPT !.entries = Append(@, new),
                   !.slice[s.map[h]] = WithPort(@, k, Len(s.entries) + 1)]

LEMMA RowSound ==
    ASSUME NEW s, Sound(s), NEW f \in Finding, NEW h \in Hosts, s.map[h] # 0, NEW k \in Keys,
           NEW new \in Entry, new.key = k, IsInjective(new.proxies),
           Range(new.proxies) = Named(f),
           NEW at, at = s.slice[s.map[h]].portIdx[k],
           NEW t, t = StoreAt(s, h, k, at, new, f)
    PROVE  Stores(s, t, h, k, f)
<1>1. CASE at # 0
  <2>1. Has(s, h, k) /\ EntryOf(s, h, k) = s.slice[s.map[h]].ports[at]
    BY <1>1 DEF Has, EntryOf
  <2>2. t = [s EXCEPT !.entries[EntryOf(s, h, k)] = MergeEntry(@, f)]
    <3> DEFINE e == EntryOf(s, h, k) d == s.slice[s.map[h]].ports[at]
    <3>1. t = [s EXCEPT !.entries[d] = MergeEntry(@, f)]
      BY Zenon, <1>1 DEF StoreAt
    <3>2. d = e
      BY <2>1
    <3> HIDE DEF d, e
    <3>3. t = [s EXCEPT !.entries[e] = MergeEntry(@, f)]
      BY ONLY <3>1, <3>2
    <3> QED
      BY ONLY <3>3 DEF e
  <2> QED
    BY Zenon, <2>1, <2>2, KnownPortSound
<1>2. CASE at = 0
  <2>1. t = [s EXCEPT !.entries = Append(@, new),
                      !.slice[s.map[h]] = WithPort(@, k, Len(s.entries) + 1)]
    BY <1>2 DEF StoreAt
  <2> QED
    BY <1>2, <2>1, NewPortSound
<1> QED
  BY <1>1, <1>2

\* One finding, whether its host and port are known or not.
LEMMA AddSound ==
    ASSUME NEW old, Sound(old), NEW f \in Finding, NEW t, t = AddFinding(old, f)
    PROVE  Sound(t) /\ Keeps(old, t) /\ Learns(old, t, f)
<1>0. f.host \in Hosts \cup {""} /\ f.key \in Keys /\ "" \notin Hosts
  BY HostsAssumption DEF Finding
<1>1. CASE f.host = ""
  <2>1. t = old
    BY <1>1 DEF AddFinding
  <2>2. old \in Store /\ Len(old.slice) \in Nat /\ Len(old.entries) \in Nat
    BY StoreFields DEF Sound
  <2>3. \A g \in Hosts, l \in Keys : \A p : ~Adds(f, g, l, p)
    BY <1>0, <1>1 DEF Adds
  <2> QED
    BY <2>1, <2>2, <2>3 DEF Keeps, Learns
<1>2. CASE f.host # ""
  <2> DEFINE h == f.host k == f.key s == WithHost(old, h)
             hi == s.map[h] at == s.slice[hi].portIdx[k]
             new == [key |-> k, service |-> f.service, proxies |-> dedupeAppend(<<>>, f.proxies)]
  <2>0. h \in Hosts /\ k \in Keys
    BY <1>0, <1>2
  <2>1. /\ Sound(s) /\ s.map[h] # 0 /\ s.entries = old.entries
        /\ Len(s.slice) >= Len(old.slice)
        /\ \A i \in 1 .. Len(old.slice) : s.slice[i] = old.slice[i]
        /\ \A g \in Hosts, l \in Keys : \A p : Tells(s, g, l, p) <=> Tells(old, g, l, p)
    BY <2>0, WithHostSound
  <2>2. /\ Len(old.slice) \in Nat /\ Len(old.entries) \in Nat
        /\ Len(s.slice) \in Nat /\ Len(s.entries) \in Nat
    BY <2>1, StoreFields DEF Sound
  <2>3. t = StoreAt(s, h, k, at, new, f)
    <3> HIDE DEF s
    <3>1. s = WithHost(old, h)
      BY DEF s
    <3> QED
      BY Zenon, <1>2, <3>1 DEF AddFinding, StoreAt
  <2>4. /\ new \in Entry /\ new.key = k /\ IsInjective(new.proxies)
        /\ Range(new.proxies) = Named(f)
    BY NewIsEntry
  <2> HIDE DEF s, new
  <2>6. Sound(s) /\ s.map[h] # 0
    BY <2>1
  <2>7. at = s.slice[s.map[h]].portIdx[k]
    OBVIOUS
  <2>8. f \in Finding
    OBVIOUS
  <2> HIDE DEF h, k, at, hi
  <2>13. Stores(s, t, h, k, f)
    BY ONLY <2>0, <2>3, <2>4, <2>6, <2>7, <2>8, RowSound
  <2>9. Sound(t) /\ Keeps(s, t)
    BY ONLY <2>13 DEF Stores
  <2>12. \A g \in Hosts, l \in Keys : \A p :
            Tells(t, g, l, p) <=> Tells(s, g, l, p) \/ (g = h /\ l = k /\ p \in Named(f))
    BY ONLY <2>13 DEF Stores, Says
  <2>10. Keeps(old, t)
    <3>1. t \in Store /\ Len(t.slice) \in Nat /\ Len(t.entries) \in Nat
      BY ONLY <2>9, StoreFields DEF Sound
    <3>2. ASSUME NEW i \in 1 .. Len(old.slice)
          PROVE  ToSet(old.slice[i].ports) \subseteq ToSet(t.slice[i].ports)
      <4>1. i \in 1 .. Len(s.slice) /\ s.slice[i] = old.slice[i]
        BY <2>1, <2>2
      <4> QED
        BY <2>9, <4>1 DEF Keeps
    <3>3. Len(t.slice) >= Len(s.slice) /\ Len(t.entries) >= Len(s.entries)
      BY <2>9 DEF Keeps
    <3>4. Len(t.slice) >= Len(old.slice) /\ Len(t.entries) >= Len(old.entries)
      BY ONLY <2>1, <2>2, <3>1, <3>3
    <3> QED
      BY ONLY <3>2, <3>4 DEF Keeps
  <2>11. Learns(old, t, f)
    BY ONLY <2>1, <2>12 DEF Learns, Adds, h, k
  <2> QED
    BY <2>9, <2>10, <2>11
<1> QED
  BY <1>1, <1>2

-----------------------------------------------------------------------------
(* One finding after the other *)

Sounds == {s \in Store : Sound(s)}

\* f[i] is the store when the first i findings are in it.
IsAdding(f, old, fs) ==
    f[0] = old /\ \A i \in 1 .. Len(fs) : f[i] = AddFinding(f[i - 1], fs[i])

\* The function in the definition of AddFindings is the one it describes.
LEMMA AddingUnfolds ==
    ASSUME NEW old \in Sounds, NEW fs \in Seq(Finding)
    PROVE  \E f \in [0 .. Len(fs) -> Sounds] : IsAdding(f, old, fs) /\ AddFindings(old, fs) = f[Len(fs)]
<1> DEFINE on(before, i) == AddFinding(before, fs[i])
           Def(g) == [i \in 0 .. Len(fs) |-> IF i = 0 THEN old ELSE on(g[i - 1], i)]
           upTo == CHOOSE g : g = Def(g)
           step == [p \in Sounds \X (1 .. Len(fs)) |-> on(p[1], p[2])]
<1>1. Len(fs) \in Nat /\ \A i \in 1 .. Len(fs) : fs[i] \in Finding
  OBVIOUS
<1>2. step \in [Sounds \X (1 .. Len(fs)) -> Sounds]
  <2>1. \A q \in Sounds : \A i \in 1 .. Len(fs) : on(q, i) \in Sounds
    <3> SUFFICES ASSUME NEW q \in Sounds, NEW i \in 1 .. Len(fs) PROVE on(q, i) \in Sounds
      OBVIOUS
    <3>1. Sound(q) /\ fs[i] \in Finding
      BY <1>1 DEF Sounds
    <3> DEFINE x == on(q, i)
    <3>2. x = AddFinding(q, fs[i])
      OBVIOUS
    <3> HIDE DEF x
    <3>3. Sound(x)
      BY ONLY <3>1, <3>2, AddSound
    <3> QED
      BY ONLY <3>3 DEF x, Sounds, Sound
  <2> HIDE DEF on
  <2> QED
    BY <2>1
<1> HIDE DEF on
<1>3. old \in Sounds
  OBVIOUS
<1>4. PICK f \in [0 .. Len(fs) -> Sounds] :
              f[0] = old /\ \A i \in 1 .. Len(fs) : f[i] = step[<<f[i - 1], i>>]
  <2> DEFINE all == Sounds n == Len(fs)
  <2>1. old \in all /\ n \in Nat /\ step \in [all \X (1 .. n) -> all]
    BY <1>1, <1>2, <1>3
  <2> HIDE DEF all, n, step
  <2>2. \E f \in [0 .. n -> all] : IsCourse(f, old, n, step)
    BY <2>1, Course
  <2> QED
    BY <2>2 DEF all, n, IsCourse
<1>5. ASSUME NEW i \in 1 .. Len(fs)
      PROVE  f[i] = on(f[i - 1], i)
  <2>1. f[i - 1] \in Sounds
    BY <1>1
  <2>2. step[<<f[i - 1], i>>] = on(f[i - 1], i)
    BY <2>1
  <2> QED
    BY <1>4, <2>2
<1>6. f = Def(f)
  <2>1. ASSUME NEW i \in 0 .. Len(fs)
        PROVE  f[i] = Def(f)[i]
    <3>1. CASE i = 0
      BY <3>1, <1>4
    <3>2. CASE i # 0
      <4>1. i \in 1 .. Len(fs)
        BY <3>2, <1>1
      <4> QED
        BY <4>1, <3>2, <1>5
    <3> QED
      BY <3>1, <3>2
  <2> QED
    BY <2>1
<1>7. upTo = Def(upTo)
  BY <1>6
<1>8. AddFindings(old, fs) = upTo[Len(fs)]
  BY DEF on, AddFindings
<1> HIDE DEF upTo
<1>9. upTo[0] = old
  BY <1>1, <1>7
<1>10. ASSUME NEW i \in 1 .. Len(fs)
       PROVE  upTo[i] = on(upTo[i - 1], i)
  BY <1>1, <1>7
<1> DEFINE Good == {i \in 0 .. Len(fs) : upTo[i] = f[i]}
<1>11. 0 \in Good
  BY <1>1, <1>4, <1>9
<1>12. ASSUME NEW i \in 1 .. Len(fs), i - 1 \in Good
       PROVE  i \in Good
  BY <1>1, <1>5, <1>10, <1>12
<1> HIDE DEF Good
<1>13. 0 .. Len(fs) \subseteq Good
  BY <1>1, <1>11, <1>12, UpTo
<1>14. upTo[Len(fs)] = f[Len(fs)]
  BY <1>1, <1>13 DEF Good
<1> QED
  BY <1>4, <1>5, <1>8, <1>14 DEF on, IsAdding

\* t says what s says and what the first n of the findings add.
SaysAll(s, t, fs, n) ==
    \A g \in Hosts, l \in Keys : \A p :
       Tells(t, g, l, p) <=> Tells(s, g, l, p) \/ \E i \in 1 .. n : Adds(fs[i], g, l, p)

LEMMA KeepsOn ==
    ASSUME NEW s, Sound(s), NEW t, Sound(t), NEW u, Sound(u), Keeps(s, t), Keeps(t, u)
    PROVE  Keeps(s, u)
<1>1. /\ Len(s.slice) \in Nat /\ Len(t.slice) \in Nat /\ Len(u.slice) \in Nat
      /\ Len(s.entries) \in Nat /\ Len(t.entries) \in Nat /\ Len(u.entries) \in Nat
  BY StoreFields DEF Sound
<1>2. Len(u.slice) >= Len(s.slice) /\ Len(u.entries) >= Len(s.entries)
  BY <1>1 DEF Keeps
<1>3. ASSUME NEW i \in 1 .. Len(s.slice)
      PROVE  ToSet(s.slice[i].ports) \subseteq ToSet(u.slice[i].ports)
  <2>1. i \in 1 .. Len(t.slice)
    BY <1>1 DEF Keeps
  <2> QED
    BY <2>1 DEF Keeps
<1> QED
  BY ONLY <1>2, <1>3 DEF Keeps

LEMMA SaysOn ==
    ASSUME NEW s, NEW t, NEW u, NEW fs, NEW n \in Nat, n # 0,
           SaysAll(s, t, fs, n - 1), Learns(t, u, fs[n])
    PROVE  SaysAll(s, u, fs, n)
<1> SUFFICES ASSUME NEW g \in Hosts, NEW l \in Keys, NEW p
             PROVE  Tells(u, g, l, p) <=> \/ Tells(s, g, l, p)
                                          \/ \E i \in 1 .. n : Adds(fs[i], g, l, p)
  BY DEF SaysAll
<1>1. Tells(t, g, l, p) <=> Tells(s, g, l, p) \/ \E i \in 1 .. n - 1 : Adds(fs[i], g, l, p)
  BY DEF SaysAll
<1>2. Tells(u, g, l, p) <=> Tells(t, g, l, p) \/ Adds(fs[n], g, l, p)
  BY DEF Learns
<1>3. (\E i \in 1 .. n : Adds(fs[i], g, l, p))
         <=> (\E i \in 1 .. n - 1 : Adds(fs[i], g, l, p)) \/ Adds(fs[n], g, l, p)
  <2>1. 1 .. n = (1 .. n - 1) \cup {n}
    OBVIOUS
  <2> QED
    BY <2>1
<1> QED
  BY ONLY <1>1, <1>2, <1>3

\* One finding after the other.
LEMMA AddAllSound ==
    ASSUME NEW old, Sound(old), NEW fs \in Seq(Finding), NEW t, t = AddFindings(old, fs)
    PROVE  Sound(t) /\ Keeps(old, t) /\ SaysAll(old, t, fs, Len(fs))
<1>1. old \in Sounds
  BY DEF Sounds, Sound
<1>2. PICK f \in [0 .. Len(fs) -> Sounds] : IsAdding(f, old, fs) /\ AddFindings(old, fs) = f[Len(fs)]
  BY <1>1, AddingUnfolds
<1>3. Len(fs) \in Nat /\ \A i \in 1 .. Len(fs) : fs[i] \in Finding
  OBVIOUS
<1> DEFINE Done(i) == Sound(f[i]) /\ Keeps(old, f[i]) /\ SaysAll(old, f[i], fs, i)
           Good == {i \in 0 .. Len(fs) : Done(i)}
<1>4. 0 \in Good
  <2>1. f[0] = old
    BY <1>2 DEF IsAdding
  <2>2. Keeps(old, old)
    <3>1. Len(old.slice) \in Nat /\ Len(old.entries) \in Nat
      BY StoreFields DEF Sound
    <3> QED
      BY ONLY <3>1 DEF Keeps
  <2>3. SaysAll(old, old, fs, 0)
    <3>1. 1 .. 0 = {}
      OBVIOUS
    <3> QED
      BY ONLY <3>1 DEF SaysAll
  <2>4. Done(0)
    BY <2>1, <2>2, <2>3
  <2> HIDE DEF Done
  <2> QED
    BY <1>3, <2>4
<1>5. ASSUME NEW i \in 1 .. Len(fs), i - 1 \in Good
      PROVE  i \in Good
  <2> DEFINE s == f[i - 1] u == f[i]
  <2>1. Done(i - 1)
    <3> HIDE DEF Done
    <3> QED
      BY <1>5
  <2>2. Sound(s) /\ Keeps(old, s) /\ SaysAll(old, s, fs, i - 1)
    BY <2>1
  <2>3. u = AddFinding(s, fs[i]) /\ fs[i] \in Finding
    BY <1>2, <1>3 DEF IsAdding
  <2>4. Sound(old) /\ i \in Nat /\ i # 0
    BY <1>3
  <2> HIDE DEF s, u
  <2>5. Sound(u) /\ Keeps(s, u) /\ Learns(s, u, fs[i])
    BY ONLY <2>2, <2>3, AddSound
  <2>6. Keeps(old, u)
    BY ONLY <2>2, <2>4, <2>5, KeepsOn
  <2>7. SaysAll(old, u, fs, i)
    BY ONLY <2>2, <2>4, <2>5, SaysOn
  <2>8. Done(i)
    BY <2>5, <2>6, <2>7 DEF u
  <2> HIDE DEF Done
  <2> QED
    BY <1>3, <2>8
<1> HIDE DEF Good
<1>6. 0 .. Len(fs) \subseteq Good
  BY <1>3, <1>4, <1>5, UpTo
<1>7. Done(Len(fs))
  <2>1. Len(fs) \in Good
    BY <1>3, <1>6
  <2> HIDE DEF Done
  <2> QED
    BY <2>1 DEF Good
<1> QED
  BY <1>2, <1>7
=============================================================================
