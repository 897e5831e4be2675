-------------------------- MODULE ArgumentsProofs ---------------------------
(***************************************************************************)
(* Proofs about what a command makes of its arguments: parseFlatArgs, for  *)
(* every list of words; expandTarget, for every network; and parsePorts,   *)
(* compressPorts and mergePortSpecs, for every list and specification of   *)
(* ports.                                                                  *)
(***************************************************************************)
EXTENDS CommandLineProofs

-----------------------------------------------------------------------------
(* The words of a command line *)

\* What the word w, with v behind it, makes of s: the step of ParseFlatArgs.
Parsed(s, w, v) ==
    LET Single(g) == [fa |-> g, took |-> FALSE]
        Pair(g)   == [fa |-> g, took |-> TRUE]
    IN  IF s.took THEN Single(s.fa)
        ELSE CASE w \in OwnValueFlags -> Pair(SetValue(s.fa, w, v))
               [] w \in OwnSwitches   -> Single(SetSwitch(s.fa, w))
               [] w \in PortFlags /\ (v = "" \/ Dashed(v))
                    -> Single(Forward(s.fa, <<w>>))
               [] w \in PortFlags /\ v # "" /\ ~Dashed(v)
                    -> Pair([Forward(s.fa, <<"-p", v>>) EXCEPT !.ports = v])
               [] ~Dashed(w) -> Single([s.fa EXCEPT !.targets = Append(@, w)])
               [] w \in NmapFlags /\ w \in NmapValueFlags /\ v # ""
                    -> Pair(Forward(s.fa, <<w, v>>))
               [] OTHER -> Single(Forward(s.fa, <<w>>))

NextParse(words, s, i) == Parsed(s, words[i], IF i < Len(words) THEN words[i + 1] ELSE "")

\* f is the course of the first n words.
IsParse(words, f, n) ==
    /\ f[0] = [fa |-> Defaults, took |-> FALSE]
    /\ \A i \in 1 .. n : f[i] = NextParse(words, f[i - 1], i)

LEMMA ParseUnfolds ==
    ASSUME NEW words, Len(words) \in Nat
    PROVE  \E f : IsParse(words, f, Len(words)) /\ ParseFlatArgs(words) = f[Len(words)].fa
<1> DEFINE n == Len(words)
           Good == {m \in 0 .. n : \E f : IsParse(words, f, m)}
<1>1. 0 \in Good
  <2> DEFINE f == [i \in 0 .. 0 |-> [fa |-> Defaults, took |-> FALSE]]
  <2>1. f[0] = [fa |-> Defaults, took |-> FALSE] /\ 1 .. 0 = {}
    OBVIOUS
  <2> HIDE DEF f
  <2>2. IsParse(words, f, 0)
    BY <2>1 DEF IsParse
  <2>3. 0 \in 0 .. n
    OBVIOUS
  <2> QED
    BY <2>2, <2>3
<1>2. ASSUME NEW m \in 1 .. n, m - 1 \in Good
      PROVE  m \in Good
  <2>1. PICK f : IsParse(words, f, m - 1)
    BY <1>2
  <2> DEFINE last == NextParse(words, f[m - 1], m)
             g    == [k \in 0 .. m |-> IF k = m THEN last ELSE f[k]]
  <2> HIDE DEF last
  <2>2. g[0] = f[0] /\ g[m] = last /\ \A k \in 0 .. m - 1 : g[k] = f[k]
    OBVIOUS
  <2> HIDE DEF g
  <2>3. ASSUME NEW i \in 1 .. m
        PROVE  g[i] = NextParse(words, g[i - 1], i)
    <3>1. CASE i = m
      <4>1. g[i - 1] = f[m - 1]
        BY <3>1, <2>2
      <4> QED
        BY <4>1, <3>1, <2>2 DEF last
    <3>2. CASE i # m
      <4>1. i \in 1 .. m - 1 /\ i \in 0 .. m - 1 /\ i - 1 \in 0 .. m - 1
        BY <3>2
      <4>2. f[i] = NextParse(words, f[i - 1], i)
        BY <4>1, <2>1 DEF IsParse
      <4> QED
        BY <4>1, <4>2, <2>2
    <3> QED
      BY <3>1, <3>2
  <2>4. IsParse(words, g, m)
    BY <2>1, <2>2, <2>3 DEF IsParse
  <2> QED
    BY <2>4
<1>3. 0 .. n \subseteq Good
  <2> HIDE DEF Good
  <2>1. n \in Nat
    OBVIOUS
  <2> QED
    BY <1>1, <1>2, <2>1, UpTo
<1>4. PICK f : IsParse(words, f, n)
  <2>1. n \in Good
    BY <1>3
  <2> QED
    BY <2>1
<1> DEFINE Def(g) == [i \in 0 .. n |->
                         IF i = 0 THEN [fa |-> Defaults, took |-> FALSE]
                         ELSE NextParse(words, g[i - 1], i)]
           h == [i \in 0 .. n |-> f[i]]
           state == CHOOSE g : g = Def(g)
<1>5. h = Def(h)
  <2>1. ASSUME NEW i \in 0 .. n
        PROVE  h[i] = Def(h)[i]
    <3>1. CASE i = 0
      BY <3>1, <1>4 DEF IsParse
    <3>2. CASE i # 0
      <4>1. i \in 1 .. n /\ i - 1 \in 0 .. n
        BY <3>2
      <4>2. h[i] = NextParse(words, f[i - 1], i) /\ h[i - 1] = f[i - 1]
        BY <4>1, <1>4 DEF IsParse
      <4> QED
        BY <4>1, <4>2, <3>2
    <3> QED
      BY <3>1, <3>2
  <2> QED
    BY <2>1
<1>6. state = Def(state)
  BY <1>5
<1>7. ParseFlatArgs(words) = state[n].fa
  BY DEF ParseFlatArgs, NextParse, Parsed
<1> HIDE DEF state
<1>8. IsParse(words, state, n)
  <2>1. state[0] = [fa |-> Defaults, took |-> FALSE]
    BY <1>6
  <2>2. ASSUME NEW i \in 1 .. n PROVE state[i] = NextParse(words, state[i - 1], i)
    <3>1. i \in 0 .. n /\ i # 0
      OBVIOUS
    <3> QED
      BY <3>1, <1>6
  <2> QED
    BY <2>1, <2>2 DEF IsParse
<1> QED
  BY <1>7, <1>8

\* The word in place i goes with the flag in front of it, if that is one.
GoesWith(line, i) ==
    \/ line[i - 1] \in OwnValueFlags
    \/ line[i - 1] \in NmapValueFlags /\ line[i] # ""
    \/ line[i - 1] \in PortFlags /\ line[i] # "" /\ ~Dashed(line[i])

LEMMA ValuesAre ==
    ASSUME NEW line, Len(line) \in Nat, NEW i \in 1 .. Len(line)
    PROVE  i \in Values(line) <=> i > 1 /\ i - 1 \notin Values(line) /\ GoesWith(line, i)
<1> DEFINE n == Len(line)
           on(b, k) == k > 1 /\ ~b /\ GoesWith(line, k)
           A == BOOLEAN
           step == [p \in A \X (1 .. n) |-> on(p[1], p[2])]
           Def(g) == [k \in 0 .. n |-> on(g[k - 1], k)]
           Is(g) == g = Def(g)
           isValue == CHOOSE g : Is(g)
<1>2. \E f \in [0 .. n -> A] : IsCourse(f, FALSE, n, step)
  <2>1. step \in [A \X (1 .. n) -> A] /\ FALSE \in A /\ n \in Nat
    OBVIOUS
  <2> HIDE DEF A, step, n
  <2> QED
    BY <2>1, Course
<1>3. PICK f \in [0 .. n -> A] : IsCourse(f, FALSE, n, step)
  BY <1>2
<1>4. \A k \in 1 .. n : f[k] = on(f[k - 1], k)
  <2> SUFFICES ASSUME NEW k \in 1 .. n PROVE f[k] = on(f[k - 1], k)
    OBVIOUS
  <2>1. k - 1 \in 0 .. n /\ n \in Nat
    OBVIOUS
  <2>2. f[k - 1] \in A
    BY <2>1
  <2>3. f[k] = step[<<f[k - 1], k>>]
    BY <1>3 DEF IsCourse
  <2> HIDE DEF on
  <2> QED
    BY <2>2, <2>3
<1>5. f = Def(f)
  <2>1. ASSUME NEW k \in 0 .. n PROVE f[k] = Def(f)[k]
    <3>1. CASE k = 0
      <4>1. f[0] = FALSE
        BY <1>3 DEF IsCourse
      <4>2. ~on(f[0 - 1], 0)
        OBVIOUS
      <4> QED
        BY <4>1, <4>2, <3>1
    <3>2. CASE k # 0
      <4>1. k \in 1 .. n
        BY <3>2
      <4> HIDE DEF on
      <4> QED
        BY <4>1, <1>4
    <3> QED
      BY <3>1, <3>2
  <2> QED
    BY <2>1
<1>6. Is(isValue)
  <2>1. Is(f)
    BY <1>5
  <2> HIDE DEF Is
  <2> QED
    BY <2>1
<1>7. Values(line) = {k \in 1 .. n : isValue[k]}
  BY DEF Values, GoesWith
<1> HIDE DEF isValue
<1>8. \A k \in 0 .. n : isValue[k] = on(isValue[k - 1], k)
  <2> HIDE DEF on
  <2> QED
    BY <1>6
<1>9. isValue[i] <=> on(isValue[i - 1], i)
  <2>1. i \in 0 .. n
    OBVIOUS
  <2> HIDE DEF on
  <2>2. isValue[i] = on(isValue[i - 1], i)
    BY <2>1, <1>8
  <2> QED
    BY Zenon, <2>2
<1>10. i > 1 => (i - 1 \in Values(line) <=> isValue[i - 1])
  BY <1>7
<1>11. i \in Values(line) <=> isValue[i]
  BY <1>7
<1> QED
  BY <1>9, <1>10, <1>11

\* What the parser collects, of words of W.
Collected(W) ==
    [fa : [proxList : W, targets : Seq(W), ports : W, outFile : W, tool : W, rotate : BOOLEAN,
           wrap : BOOLEAN, nmapPath : W, nmapExtra : Seq(W)],
     took : BOOLEAN]

IsPair(w, v) ==
    \/ w \in OwnValueFlags
    \/ w \in NmapValueFlags /\ v # ""
    \/ w \in PortFlags /\ v # "" /\ ~Dashed(v)

\* What the word w with v behind it makes of s, when it is not a value itself.
Collects(s, t, w, v) ==
    /\ t.took <=> IsPair(w, v)
    /\ t.fa.targets = IF w = "-ip" THEN Append(s.fa.targets, v)
                      ELSE IF Dashed(w) THEN s.fa.targets ELSE Append(s.fa.targets, w)
    /\ w \notin NmapFlags \cup PortFlags => t.fa.nmapExtra = s.fa.nmapExtra
    /\ w \in NmapFlags \cup PortFlags /\ ~t.took =>
          t.fa.nmapExtra = Append(s.fa.nmapExtra, w)
    /\ w \in NmapFlags \cup PortFlags /\ t.took =>
          t.fa.nmapExtra = Append(Append(s.fa.nmapExtra, IF w \in PortFlags THEN "-p" ELSE w), v)

LEMMA FlagsDiffer ==
    /\ OwnValueFlags \cap OwnSwitches = {} /\ OwnValueFlags \cap PortFlags = {}
    /\ OwnSwitches \cap PortFlags = {} /\ NmapValueFlags \subseteq NmapFlags
    /\ NmapFlags \cap (OwnValueFlags \cup OwnSwitches \cup PortFlags) = {}
    /\ "-ip" \in OwnValueFlags
BY FlagsAssumption DEF OwnValueFlags, OwnSwitches, PortFlags

LEMMA OneMore ==
    ASSUME NEW W, NEW q \in Seq(W), NEW x \in W
    PROVE  Append(q, x) \in Seq(W) /\ q \o <<x>> = Append(q, x)
OBVIOUS

LEMMA TwoMore ==
    ASSUME NEW W, NEW q \in Seq(W), NEW x \in W, NEW y \in W
    PROVE  /\ Append(Append(q, x), y) \in Seq(W)
           /\ q \o <<x, y>> = Append(Append(q, x), y)
OBVIOUS

LEMMA SetValueSets ==
    ASSUME NEW W, NEW s \in Collected(W), NEW w \in OwnValueFlags, NEW v \in W
    PROVE  /\ [fa |-> SetValue(s.fa, w, v), took |-> TRUE] \in Collected(W)
           /\ SetValue(s.fa, w, v).targets
                 = IF w = "-ip" THEN Append(s.fa.targets, v) ELSE s.fa.targets
           /\ SetValue(s.fa, w, v).nmapExtra = s.fa.nmapExtra
<1> DEFINE flat == s.fa
           Flat == [proxList : W, targets : Seq(W), ports : W, outFile : W, tool : W,
                    rotate : BOOLEAN, wrap : BOOLEAN, nmapPath : W, nmapExtra : Seq(W)]
<1>1. flat \in Flat
  BY DEF Collected
<1>2. \A g \in Flat : \A b \in BOOLEAN : [fa |-> g, took |-> b] \in Collected(W)
  BY DEF Collected
<1> HIDE DEF flat, Flat
<1>3. /\ SetValue(flat, w, v) \in Flat
      /\ SetValue(flat, w, v).targets
            = IF w = "-ip" THEN Append(flat.targets, v) ELSE flat.targets
      /\ SetValue(flat, w, v).nmapExtra = flat.nmapExtra
  <2>1. CASE w = "-ip"
    <3>1. SetValue(flat, w, v) = [flat EXCEPT !.targets = Append(@, v)]
      BY <2>1 DEF SetValue
    <3>2. Append(flat.targets, v) \in Seq(W)
      BY <1>1 DEF Flat
    <3> QED
      BY <1>1, <2>1, <3>1, <3>2 DEF Flat
  <2>2. CASE w = "-proxlist"
    <3>1. SetValue(flat, w, v) = [flat EXCEPT !.proxList = v]
      BY <2>2 DEF SetValue
    <3> QED
      BY <1>1, <2>2, <3>1 DEF Flat
  <2>3. CASE w = "-out"
    <3>1. SetValue(flat, w, v) = [flat EXCEPT !.outFile = v]
      BY <2>3 DEF SetValue
    <3> QED
      BY <1>1, <2>3, <3>1 DEF Flat
  <2>4. CASE w = "-tool"
    <3>1. SetValue(flat, w, v) = [flat EXCEPT !.tool = v]
      BY <2>4 DEF SetValue
    <3> QED
      BY <1>1, <2>4, <3>1 DEF Flat
  <2>5. CASE w = "-nmap-path"
    <3>1. SetValue(flat, w, v) = [flat EXCEPT !.nmapPath = v]
      BY <2>5 DEF SetValue
    <3> QED
      BY <1>1, <2>5, <3>1 DEF Flat
  <2> QED
    BY <2>1, <2>2, <2>3, <2>4, <2>5 DEF OwnValueFlags
<1> QED
  BY <1>2, <1>3 DEF flat

LEMMA ParsedCollects ==
    ASSUME NEW W, "-p" \in W, NEW s \in Collected(W), NEW w \in W, NEW v \in W
    PROVE  /\ Parsed(s, w, v) \in Collected(W)
           /\ s.took => Parsed(s, w, v).fa = s.fa /\ ~Parsed(s, w, v).took
           /\ ~s.took => Collects(s, Parsed(s, w, v), w, v)
<1> DEFINE t == Parsed(s, w, v)
           flat == s.fa
           Flat == [proxList : W, targets : Seq(W), ports : W, outFile : W, tool : W,
                    rotate : BOOLEAN, wrap : BOOLEAN, nmapPath : W, nmapExtra : Seq(W)]
           Single(g) == [fa |-> g, took |-> FALSE]
           Pair(g)   == [fa |-> g, took |-> TRUE]
<1>a. flat \in Flat /\ s.took \in BOOLEAN
  BY DEF Collected
<1>b. \A g \in Flat : \A b \in BOOLEAN : [fa |-> g, took |-> b] \in Collected(W)
  BY DEF Collected
<1>c. t = IF s.took THEN Single(flat)
          ELSE CASE w \in OwnValueFlags -> Pair(SetValue(flat, w, v))
                 [] w \in OwnSwitches   -> Single(SetSwitch(flat, w))
                 [] w \in PortFlags /\ (v = "" \/ Dashed(v))
                      -> Single(Forward(flat, <<w>>))
                 [] w \in PortFlags /\ v # "" /\ ~Dashed(v)
                      -> Pair([Forward(flat, <<"-p", v>>) EXCEPT !.ports = v])
                 [] ~Dashed(w) -> Single([flat EXCEPT !.targets = Append(@, w)])
                 [] w \in NmapFlags /\ w \in NmapValueFlags /\ v # ""
                      -> Pair(Forward(flat, <<w, v>>))
                 [] OTHER -> Single(Forward(flat, <<w>>))
  BY DEF Parsed
<1> HIDE DEF t, flat
<1>d. Dashed(w) <=> w \in OwnValueFlags \cup OwnSwitches \cup PortFlags \cup NmapFlags
  BY DEF Dashed
<1>e. /\ flat.targets \in Seq(W) /\ flat.nmapExtra \in Seq(W)
      /\ \A x \in W : Append(flat.targets, x) \in Seq(W)
  <2>1. flat.targets \in Seq(W) /\ flat.nmapExtra \in Seq(W)
    BY <1>a
  <2> QED
    BY <2>1, OneMore
<1>f. \A x \in W : /\ Forward(flat, <<x>>) \in Flat
                   /\ Forward(flat, <<x>>).targets = flat.targets
                   /\ Forward(flat, <<x>>).nmapExtra = Append(flat.nmapExtra, x)
  <2> SUFFICES ASSUME NEW x \in W
               PROVE  /\ Forward(flat, <<x>>) \in Flat
                      /\ Forward(flat, <<x>>).targets = flat.targets
                      /\ Forward(flat, <<x>>).nmapExtra = Append(flat.nmapExtra, x)
    OBVIOUS
  <2>1. flat.nmapExtra \o <<x>> = Append(flat.nmapExtra, x)
    BY <1>e, OneMore
  <2>2. Append(flat.nmapExtra, x) \in Seq(W)
    BY <1>e, OneMore
  <2>3. Forward(flat, <<x>>) = [flat EXCEPT !.nmapExtra = Append(flat.nmapExtra, x)]
    BY <2>1 DEF Forward
  <2> QED
    BY <1>a, <2>2, <2>3
<1>g. \A x, y \in W :
         /\ Forward(flat, <<x, y>>) \in Flat
         /\ Forward(flat, <<x, y>>).targets = flat.targets
         /\ Forward(flat, <<x, y>>).nmapExtra = Append(Append(flat.nmapExtra, x), y)
  <2> SUFFICES ASSUME NEW x \in W, NEW y \in W
               PROVE  /\ Forward(flat, <<x, y>>) \in Flat
                      /\ Forward(flat, <<x, y>>).targets = flat.targets
                      /\ Forward(flat, <<x, y>>).nmapExtra
                            = Append(Append(flat.nmapExtra, x), y)
    OBVIOUS
  <2>1. flat.nmapExtra \o <<x, y>> = Append(Append(flat.nmapExtra, x), y)
    BY <1>e, TwoMore
  <2>2. Append(Append(flat.nmapExtra, x), y) \in Seq(W)
    BY <1>e, TwoMore
  <2>3. Forward(flat, <<x, y>>)
          = [flat EXCEPT !.nmapExtra = Append(Append(flat.nmapExtra, x), y)]
    BY <2>1 DEF Forward
  <2> QED
    BY <1>a, <2>2, <2>3
<1>1. CASE s.took
  <2>1. t = Single(flat)
    BY <1>c, <1>1
  <2>2. Single(flat) \in Collected(W) /\ Single(flat).fa = flat /\ ~Single(flat).took
    BY <1>a, <1>b
  <2> QED
    BY <1>1, <2>1, <2>2 DEF t, flat
<1>2. CASE ~s.took /\ w \in OwnValueFlags
  <2>2. w \notin NmapFlags \cup PortFlags \cup OwnSwitches /\ IsPair(w, v) /\ Dashed(w)
    BY <1>2, <1>d, FlagsDiffer DEF IsPair
  <2>1. t = Pair(SetValue(flat, w, v))
    BY <1>c, <1>2, <2>2
  <2>3. /\ Pair(SetValue(flat, w, v)) \in Collected(W)
        /\ SetValue(flat, w, v).targets
              = IF w = "-ip" THEN Append(flat.targets, v) ELSE flat.targets
        /\ SetValue(flat, w, v).nmapExtra = flat.nmapExtra
    BY <1>2, SetValueSets DEF flat
  <2>4. t.took /\ t.fa = SetValue(flat, w, v)
    BY <2>1
  <2> QED
    BY <1>2, <2>1, <2>2, <2>3, <2>4 DEF t, flat, Collects
<1>3. CASE ~s.took /\ w \in OwnSwitches
  <2>0. w \notin OwnValueFlags /\ w \notin NmapFlags \cup PortFlags /\ ~IsPair(w, v)
        /\ Dashed(w) /\ w # "-ip"
    BY <1>3, <1>d, FlagsDiffer DEF IsPair
  <2>1. t = Single(SetSwitch(flat, w))
    BY <1>c, <1>3, <2>0
  <2>2. /\ SetSwitch(flat, w) \in Flat /\ SetSwitch(flat, w).targets = flat.targets
        /\ SetSwitch(flat, w).nmapExtra = flat.nmapExtra
    <3>1. CASE w \in {"-rotate", "-no-rotate"}
      <4>1. SetSwitch(flat, w) = [flat EXCEPT !.rotate = (w = "-rotate")]
        BY <3>1 DEF SetSwitch
      <4> QED
        BY <4>1, <1>a
    <3>2. CASE w \in {"-wrap", "-no-wrap"}
      <4>1. SetSwitch(flat, w) = [flat EXCEPT !.wrap = (w = "-wrap")]
        BY <3>2 DEF SetSwitch
      <4> QED
        BY <4>1, <1>a
    <3> QED
      BY <3>1, <3>2, <1>3 DEF OwnSwitches
  <2>3. ~t.took /\ t.fa = SetSwitch(flat, w) /\ t \in Collected(W)
    BY <2>1, <2>2, <1>b
  <2> QED
    BY <1>3, <2>0, <2>2, <2>3 DEF t, flat, Collects
<1>4. CASE ~s.took /\ w \in PortFlags /\ (v = "" \/ Dashed(v))
  <2>0. w \notin OwnValueFlags \cup OwnSwitches \cup NmapFlags /\ ~IsPair(w, v)
        /\ Dashed(w) /\ w # "-ip"
    BY <1>4, <1>d, FlagsDiffer DEF IsPair
  <2>1. t = Single(Forward(flat, <<w>>))
    BY <1>c, <1>4, <2>0
  <2>2. ~t.took /\ t.fa = Forward(flat, <<w>>) /\ t \in Collected(W)
    BY <2>1, <1>b, <1>f
  <2> QED
    BY <1>4, <1>f, <2>0, <2>2 DEF t, flat, Collects
<1>5. CASE ~s.took /\ w \in PortFlags /\ v # "" /\ ~Dashed(v)
  <2>0. w \notin OwnValueFlags \cup OwnSwitches \cup NmapFlags /\ IsPair(w, v)
        /\ Dashed(w) /\ w # "-ip"
    BY <1>5, <1>d, FlagsDiffer DEF IsPair
  <2> DEFINE both == Forward(flat, <<"-p", v>>)
  <2>1. t = Pair([both EXCEPT !.ports = v])
    BY <1>c, <1>5, <2>0
  <2>2. /\ both \in Flat /\ both.targets = flat.targets
        /\ both.nmapExtra = Append(Append(flat.nmapExtra, "-p"), v)
    BY <1>g
  <2> HIDE DEF both
  <2> DEFINE set == [both EXCEPT !.ports = v]
  <2>3. set \in Flat /\ set.targets = both.targets /\ set.nmapExtra = both.nmapExtra
    BY <2>2
  <2> HIDE DEF set
  <2>4. t.took /\ t.fa = set /\ t \in Collected(W)
    BY <2>1, <2>3, <1>b DEF set
  <2> QED
    BY <1>5, <2>0, <2>2, <2>3, <2>4 DEF t, flat, Collects
<1>6. CASE ~s.took /\ ~Dashed(w)
  <2>0. w \notin OwnValueFlags /\ w \notin OwnSwitches /\ w \notin PortFlags
        /\ w \notin NmapFlags /\ ~IsPair(w, v) /\ w # "-ip"
    BY <1>6, <1>d, FlagsDiffer DEF IsPair
  <2> DEFINE more == [flat EXCEPT !.targets = Append(flat.targets, w)]
  <2>1. t = Single(more)
    BY <1>c, <1>6, <2>0
  <2>2. more \in Flat /\ more.targets = Append(flat.targets, w)
        /\ more.nmapExtra = flat.nmapExtra
    BY <1>a, <1>e
  <2> HIDE DEF more
  <2>3. ~t.took /\ t.fa = more /\ t \in Collected(W)
    BY <2>1, <2>2, <1>b
  <2> QED
    BY <1>6, <2>0, <2>2, <2>3 DEF t, flat, Collects
<1>7. CASE /\ ~s.took /\ Dashed(w) /\ w \notin OwnValueFlags \cup OwnSwitches \cup PortFlags
           /\ w \in NmapValueFlags /\ v # ""
  <2>0. w \in NmapFlags /\ IsPair(w, v) /\ w # "-ip"
    BY <1>7, <1>d, FlagsDiffer DEF IsPair
  <2>1. t = Pair(Forward(flat, <<w, v>>))
    BY <1>c, <1>7, <2>0
  <2>2. t.took /\ t.fa = Forward(flat, <<w, v>>) /\ t \in Collected(W)
    BY <2>1, <1>b, <1>g
  <2>3. /\ t.fa.targets = flat.targets
        /\ t.fa.nmapExtra = Append(Append(flat.nmapExtra, w), v)
    BY <1>g, <2>2
  <2>4. w \notin PortFlags
    BY <1>7
  <2> QED
    BY <1>7, <2>0, <2>2, <2>3, <2>4 DEF t, flat, Collects
<1>8. CASE /\ ~s.took /\ Dashed(w) /\ w \notin OwnValueFlags \cup OwnSwitches \cup PortFlags
           /\ ~(w \in NmapValueFlags /\ v # "")
  <2>0. w \in NmapFlags /\ ~IsPair(w, v) /\ w # "-ip"
    BY <1>8, <1>d, FlagsDiffer DEF IsPair
  <2>1. t = Single(Forward(flat, <<w>>))
    BY <1>c, <1>8, <2>0
  <2>2. ~t.took /\ t.fa = Forward(flat, <<w>>) /\ t \in Collected(W)
    BY <2>1, <1>b, <1>f
  <2> QED
    BY <1>8, <1>f, <2>0, <2>2 DEF t, flat, Collects
<1> QED
  BY <1>1, <1>2, <1>3, <1>4, <1>5, <1>6, <1>7, <1>8 DEF t

-----------------------------------------------------------------------------
(* The places of the words *)

LEMMA ListsNone ==
    ASSUME NEW line, NEW rewritten
    PROVE  Lists(<<>>, line, {}, rewritten)
<1> DEFINE at == [k \in 1 .. Cardinality({}) |-> 0]
<1>1. Cardinality({}) = 0 /\ 1 .. 0 = {} /\ Len(<<>>) = 0
  BY FS_EmptySet
<1>2. at \in [1 .. Cardinality({}) -> {}]
  BY <1>1
<1> QED
  BY <1>1, <1>2 DEF Lists

\* A word behind all that are listed is listed by appending it.
LEMMA ListsGrow ==
    ASSUME NEW line, NEW rewritten, NEW W, NEW ws \in Seq(W), NEW w \in W,
           NEW S \in SUBSET Int, IsFiniteSet(S), NEW j \in Int, \A i \in S : i < j,
           Lists(ws, line, S, rewritten), w = line[j] \/ <<line[j], w>> \in rewritten
    PROVE  Lists(Append(ws, w), line, S \cup {j}, rewritten)
<1> DEFINE c == Cardinality(S)
           more == Append(ws, w)
<1>1. PICK at \in [1 .. c -> S] :
         /\ \A i, k \in 1 .. c : i < k => at[i] < at[k]
         /\ Len(ws) = c
         /\ \A k \in 1 .. c : ws[k] = line[at[k]] \/ <<line[at[k]], ws[k]>> \in rewritten
  BY DEF Lists
<1>2. c \in Nat /\ j \notin S /\ Cardinality(S \cup {j}) = c + 1
  <2>1. j \notin S
    OBVIOUS
  <2> QED
    BY <2>1, FS_CardinalityType, FS_AddElement
<1>3. /\ Len(more) = c + 1 /\ more[c + 1] = w
      /\ \A k \in 1 .. c : more[k] = ws[k]
  BY <1>1, <1>2, AppendProperties
<1> HIDE DEF c, more
<1> DEFINE longer == [k \in 1 .. c + 1 |-> IF k = c + 1 THEN j ELSE at[k]]
<1>4. /\ longer \in [1 .. c + 1 -> S \cup {j}] /\ longer[c + 1] = j
      /\ \A k \in 1 .. c : longer[k] = at[k] /\ longer[k] \in S
  BY <1>1, <1>2
<1> HIDE DEF longer
<1>5. \A k \in 1 .. c + 1 : k = c + 1 \/ k \in 1 .. c
  BY <1>2
<1>6. ASSUME NEW i \in 1 .. c + 1, NEW k \in 1 .. c + 1, i < k
      PROVE  longer[i] < longer[k]
  <2>1. i \in 1 .. c
    BY <1>2, <1>6
  <2>2. CASE k = c + 1
    BY <2>1, <2>2, <1>4
  <2>3. CASE k \in 1 .. c
    BY <2>1, <2>3, <1>1, <1>4, <1>6
  <2> QED
    BY <2>2, <2>3, <1>5
<1>7. ASSUME NEW k \in 1 .. c + 1
      PROVE  more[k] = line[longer[k]] \/ <<line[longer[k]], more[k]>> \in rewritten
  <2>1. CASE k = c + 1
    BY <2>1, <1>3, <1>4
  <2>2. CASE k \in 1 .. c
    BY <2>2, <1>1, <1>3, <1>4
  <2> QED
    BY <2>1, <2>2, <1>5
<1> QED
  BY <1>2, <1>3, <1>4, <1>6, <1>7 DEF Lists, more

\* The places of S that the first i words decide: a value is decided with its flag.
Past(S, V, i) == {j \in S : j <= i \/ (j = i + 1 /\ j \in V)}

\* What becomes of them with the word in place i.
Moves(S, V, i) ==
    /\ i \in V /\ i + 1 \notin V => Past(S, V, i) = Past(S, V, i - 1)
    /\ i \notin V /\ (i + 1 \notin V \/ i + 1 \notin S) =>
          Past(S, V, i) = IF i \in S THEN Past(S, V, i - 1) \cup {i} ELSE Past(S, V, i - 1)
    /\ i \notin V /\ i + 1 \in V /\ i + 1 \in S =>
          Past(S, V, i) = (IF i \in S THEN Past(S, V, i - 1) \cup {i}
                                      ELSE Past(S, V, i - 1)) \cup {i + 1}
    /\ i \notin V => \A j \in Past(S, V, i - 1) : j < i
    /\ IsFiniteSet(Past(S, V, i - 1)) /\ Past(S, V, i - 1) \subseteq Int

LEMMA PastMoves ==
    ASSUME NEW n \in Nat, NEW S \in SUBSET (1 .. n + 1), NEW V, NEW i \in 1 .. n
    PROVE  Moves(S, V, i)
<1>1. \A j \in S : j \in Int /\ (j <= i <=> j <= i - 1 \/ j = i) /\ (i - 1) + 1 = i
  OBVIOUS
<1>2. IsFiniteSet(1 .. n + 1)
  BY FS_Interval
<1>3. Past(S, V, i - 1) \subseteq 1 .. n + 1
  BY DEF Past
<1>4. IsFiniteSet(Past(S, V, i - 1)) /\ Past(S, V, i - 1) \subseteq Int
  BY <1>2, <1>3, FS_Subset
<1>5. \A j : j \in Past(S, V, i) <=> j \in S /\ (j <= i - 1 \/ j = i \/ (j = i + 1 /\ j \in V))
  BY <1>1 DEF Past
<1>6. \A j : j \in Past(S, V, i - 1) <=> j \in S /\ (j <= i - 1 \/ (j = i /\ j \in V))
  BY <1>1 DEF Past
<1>7. ASSUME i \notin V, NEW j \in Past(S, V, i - 1)
      PROVE  j < i
  <2>1. j \in S /\ (j <= i - 1 \/ (j = i /\ j \in V))
    BY <1>6
  <2>2. j \in Int /\ j # i
    BY <2>1, <1>1, <1>7
  <2> QED
    BY <2>1, <2>2
<1> HIDE DEF Past
<1> DEFINE A == Past(S, V, i)
           B == Past(S, V, i - 1)
<1>8. /\ \A j : j \in A <=> j \in S /\ (j <= i - 1 \/ j = i \/ (j = i + 1 /\ j \in V))
      /\ \A j : j \in B <=> j \in S /\ (j <= i - 1 \/ (j = i /\ j \in V))
  BY <1>5, <1>6
<1> HIDE DEF A, B
<1>9. ASSUME i \in V, i + 1 \notin V PROVE A = B
  BY <1>8, <1>9
<1>10. ASSUME i \notin V, i + 1 \notin V \/ i + 1 \notin S
       PROVE  A = IF i \in S THEN B \cup {i} ELSE B
  <2>1. \A j : j \in A <=> j \in S /\ (j <= i - 1 \/ j = i)
    BY <1>8, <1>10
  <2>2. \A j : j \in B <=> j \in S /\ j <= i - 1
    BY <1>8, <1>10
  <2> QED
    BY <2>1, <2>2
<1>11. ASSUME i \notin V, i + 1 \in V, i + 1 \in S
       PROVE  A = (IF i \in S THEN B \cup {i} ELSE B) \cup {i + 1}
  <2>1. \A j : j \in A <=> j \in S /\ (j <= i - 1 \/ j = i \/ j = i + 1)
    BY <1>8, <1>11
  <2>2. \A j : j \in B <=> j \in S /\ j <= i - 1
    BY <1>8, <1>11
  <2> QED
    BY <2>1, <2>2, <1>11
<1> QED
  BY <1>4, <1>7, <1>9, <1>10, <1>11 DEF A, B, Moves

TargetPlaces(line) == {i \in 1 .. Len(line) : IsTarget(line, i)}
ForwardedPlaces(line) == {i \in 1 .. Len(line) : IsForwarded(line, i)}
Rewritten == {<<"--ports", "-p">>}

\* After i words.
Kept(line, s, i) ==
    /\ s.took <=> i + 1 \in Values(line)
    /\ Lists(s.fa.targets, line, Past(TargetPlaces(line), Values(line), i), {})
    /\ Lists(s.fa.nmapExtra, line, Past(ForwardedPlaces(line), Values(line), i), Rewritten)

\* How the places of a word and of the next follow from the word.
LEMMA PlacesOf ==
    ASSUME NEW line, NEW n \in Nat, Len(line) = n + 1, NEW i \in 1 .. n, NEW w, w = line[i],
           NEW v, v = line[i + 1]
    PROVE  LET V == Values(line) T == TargetPlaces(line) F == ForwardedPlaces(line)
           IN  /\ i + 1 \in V <=> i \notin V /\ IsPair(w, v)
               /\ i + 1 \in V => /\ i + 1 \in T <=> w = "-ip"
                                 /\ i + 1 \in F <=> w \in NmapValueFlags \cup PortFlags
               /\ i \notin V => /\ i \in T <=> ~Dashed(w)
                                /\ i \in F <=> w \in NmapFlags \cup PortFlags
<1>1. Len(line) \in Nat /\ i \in 1 .. Len(line) /\ i + 1 \in 1 .. Len(line)
      /\ (i + 1) - 1 = i /\ i + 1 > 1 /\ i < Len(line)
  OBVIOUS
<1>2. i + 1 \in Values(line) <=> i \notin Values(line) /\ GoesWith(line, i + 1)
  BY <1>1, ValuesAre
<1>3. GoesWith(line, i + 1) <=> IsPair(w, v)
  BY <1>1 DEF GoesWith, IsPair
<1>4. /\ i \in TargetPlaces(line) <=> IsTarget(line, i)
      /\ i + 1 \in TargetPlaces(line) <=> IsTarget(line, i + 1)
      /\ i \in ForwardedPlaces(line) <=> IsForwarded(line, i)
      /\ i + 1 \in ForwardedPlaces(line) <=> IsForwarded(line, i + 1)
  BY <1>1 DEF TargetPlaces, ForwardedPlaces
<1>5. i + 1 \in Values(line) => /\ IsTarget(line, i + 1) <=> w = "-ip"
                                /\ IsForwarded(line, i + 1) <=> w \in NmapValueFlags \cup PortFlags
  BY <1>1 DEF IsTarget, IsForwarded
<1>6. i \notin Values(line) => /\ IsTarget(line, i) <=> ~Dashed(w)
                               /\ IsForwarded(line, i) <=> w \in NmapFlags \cup PortFlags
  BY <1>1 DEF IsTarget, IsForwarded
<1> QED
  BY <1>2, <1>3, <1>4, <1>5, <1>6

LEMMA TargetsKept ==
    ASSUME NEW W, NEW n \in Nat, NEW line, Len(line) = n + 1, NEW i \in 1 .. n,
           NEW s \in Collected(W), NEW t, NEW w \in W, NEW v \in W, w = line[i], v = line[i + 1],
           i \notin Values(line), Collects(s, t, w, v),
           Lists(s.fa.targets, line, Past(TargetPlaces(line), Values(line), i - 1), {})
    PROVE  Lists(t.fa.targets, line, Past(TargetPlaces(line), Values(line), i), {})
<1> DEFINE V == Values(line)
           T == TargetPlaces(line)
           B == Past(T, V, i - 1)
           A == Past(T, V, i)
           q == s.fa.targets
<1>1. T \in SUBSET (1 .. n + 1)
  BY DEF TargetPlaces
<1>2. /\ i + 1 \in V <=> IsPair(w, v)
      /\ i + 1 \in V => (i + 1 \in T <=> w = "-ip")
      /\ i \in T <=> ~Dashed(w)
  BY PlacesOf
<1>3. q \in Seq(W)
  BY DEF Collected
<1>4. Dashed(w) <=> w \in OwnValueFlags \cup OwnSwitches \cup PortFlags \cup NmapFlags
  BY DEF Dashed
<1>5. w = "-ip" => IsPair(w, v) /\ Dashed(w)
  BY <1>4, FlagsDiffer DEF IsPair
<1>6. ~Dashed(w) => ~IsPair(w, v)
  BY <1>4, FlagsDiffer DEF IsPair
<1> HIDE DEF T
<1>6a. Moves(T, V, i)
  BY <1>1, PastMoves
<1>7. /\ i + 1 \notin V \/ i + 1 \notin T => A = IF i \in T THEN B \cup {i} ELSE B
      /\ i + 1 \in V /\ i + 1 \in T => A = (IF i \in T THEN B \cup {i} ELSE B) \cup {i + 1}
      /\ \A j \in B : j < i
      /\ IsFiniteSet(B) /\ B \subseteq Int
  BY <1>6a DEF Moves
<1>8. Lists(q, line, B, {}) /\ i \in Int /\ i + 1 \in Int /\ \A j \in B : j < i + 1
  <2>1. \A j \in B : j \in Int /\ j < i
    BY <1>7
  <2>2. Lists(q, line, B, {})
    BY DEF T
  <2>3. i \in Int /\ \A j \in B : j < i + 1
    BY <2>1
  <2> QED
    BY <2>2, <2>3
<1>9. t.fa.targets = IF w = "-ip" THEN Append(q, v)
                     ELSE IF Dashed(w) THEN q ELSE Append(q, w)
  BY DEF Collects
<1> HIDE DEF V, A, B, q
<1>10. CASE w = "-ip"
  <2>1. A = B \cup {i + 1}
    BY <1>2, <1>5, <1>7, <1>10
  <2>2. Lists(Append(q, v), line, B \cup {i + 1}, {})
    BY <1>3, <1>7, <1>8, ListsGrow
  <2> QED
    BY <1>9, <1>10, <2>1, <2>2 DEF A, V, T
<1>11. CASE w # "-ip" /\ Dashed(w)
  <2>1. A = B
    BY <1>2, <1>7, <1>11
  <2> QED
    BY <1>8, <1>9, <1>11, <2>1 DEF A, V, T
<1>12. CASE ~Dashed(w)
  <2>1. A = B \cup {i}
    BY <1>2, <1>6, <1>7, <1>12
  <2>2. Lists(Append(q, w), line, B \cup {i}, {})
    BY <1>3, <1>7, <1>8, ListsGrow
  <2> QED
    BY <1>5, <1>9, <1>12, <2>1, <2>2 DEF A, V, T
<1> QED
  BY <1>10, <1>11, <1>12

LEMMA ForwardedKept ==
    ASSUME NEW W, "-p" \in W, NEW n \in Nat, NEW line, Len(line) = n + 1, NEW i \in 1 .. n,
           NEW s \in Collected(W), NEW t, NEW w \in W, NEW v \in W, w = line[i], v = line[i + 1],
           i \notin Values(line), Collects(s, t, w, v),
           Lists(s.fa.nmapExtra, line, Past(ForwardedPlaces(line), Values(line), i - 1), Rewritten)
    PROVE  Lists(t.fa.nmapExtra, line, Past(ForwardedPlaces(line), Values(line), i), Rewritten)
<1> DEFINE V == Values(line)
           F == ForwardedPlaces(line)
           B == Past(F, V, i - 1)
           A == Past(F, V, i)
           q == s.fa.nmapExtra
           Forwards == w \in NmapFlags \cup PortFlags
           first == IF w \in PortFlags THEN "-p" ELSE w
<1>1. F \in SUBSET (1 .. n + 1)
  BY DEF ForwardedPlaces
<1>2. /\ i + 1 \in V <=> IsPair(w, v)
      /\ i + 1 \in V => (i + 1 \in F <=> w \in NmapValueFlags \cup PortFlags)
      /\ i \in F <=> Forwards
  BY PlacesOf
<1>3. q \in Seq(W) /\ first \in W
  BY DEF Collected
<1>4. /\ ~Forwards => w \notin NmapValueFlags \cup PortFlags
      /\ Forwards /\ IsPair(w, v) => w \in NmapValueFlags \cup PortFlags
  BY FlagsDiffer DEF IsPair
<1> HIDE DEF F
<1>6a. Moves(F, V, i)
  BY <1>1, PastMoves
<1>7. /\ i + 1 \notin V \/ i + 1 \notin F => A = IF i \in F THEN B \cup {i} ELSE B
      /\ i + 1 \in V /\ i + 1 \in F => A = (IF i \in F THEN B \cup {i} ELSE B) \cup {i + 1}
      /\ \A j \in B : j < i
      /\ IsFiniteSet(B) /\ B \subseteq Int
  BY <1>6a DEF Moves
<1>8. Lists(q, line, B, Rewritten) /\ i \in Int /\ i + 1 \in Int
  BY DEF F
<1>9. /\ t.took <=> IsPair(w, v)
      /\ ~Forwards => t.fa.nmapExtra = q
      /\ Forwards /\ ~t.took => t.fa.nmapExtra = Append(q, w)
      /\ Forwards /\ t.took => t.fa.nmapExtra = Append(Append(q, first), v)
  BY DEF Collects
<1>10. first = line[i] \/ <<line[i], first>> \in Rewritten
  <2>1. w \in PortFlags => w = "-p" \/ w = "--ports"
    BY DEF PortFlags
  <2> QED
    BY <2>1 DEF Rewritten
<1> HIDE DEF V, A, B, q, first, Forwards
<1>11. CASE ~Forwards
  <2>1. A = B
    BY <1>2, <1>4, <1>7, <1>11
  <2> QED
    BY <1>8, <1>9, <1>11, <2>1 DEF A, V, F
<1>12. CASE Forwards /\ ~t.took
  <2>1. A = B \cup {i}
    BY <1>2, <1>7, <1>9, <1>12
  <2>2. Lists(Append(q, w), line, B \cup {i}, Rewritten)
    BY <1>3, <1>7, <1>8, ListsGrow
  <2> QED
    BY <1>9, <1>12, <2>1, <2>2 DEF A, V, F
<1>13. CASE Forwards /\ t.took
  <2>1. A = (B \cup {i}) \cup {i + 1}
    BY <1>2, <1>4, <1>7, <1>9, <1>13
  <2>2. Lists(Append(q, first), line, B \cup {i}, Rewritten)
    BY <1>3, <1>7, <1>8, <1>10, ListsGrow
  <2> DEFINE C == B \cup {i}
             r == Append(q, first)
  <2>3. C \in SUBSET Int /\ IsFiniteSet(C) /\ \A j \in C : j < i + 1
    <3>1. \A j \in B : j \in Int /\ j < i
      BY <1>7
    <3>2. \A j \in C : j < i + 1
      BY <3>1, <1>8
    <3>3. IsFiniteSet(C)
      BY <1>7, FS_AddElement
    <3> QED
      BY <1>7, <1>8, <3>2, <3>3
  <2>4. r \in Seq(W)
    BY <1>3
  <2> HIDE DEF C, r
  <2>5. Lists(r, line, C, Rewritten)
    BY <2>2 DEF C, r
  <2>6. Lists(Append(r, v), line, C \cup {i + 1}, Rewritten)
    BY <1>8, <2>3, <2>4, <2>5, ListsGrow
  <2> QED
    BY <1>9, <1>13, <2>1, <2>6 DEF A, V, F, C, r
<1> QED
  BY <1>11, <1>12, <1>13

LEMMA WordKeeps ==
    ASSUME NEW W, "-p" \in W, NEW n \in Nat, NEW line, Len(line) = n + 1, NEW i \in 1 .. n,
           NEW s \in Collected(W), Kept(line, s, i - 1), NEW w \in W, NEW v \in W,
           w = line[i], v = line[i + 1]
    PROVE  Parsed(s, w, v) \in Collected(W) /\ Kept(line, Parsed(s, w, v), i)
<1> DEFINE t == Parsed(s, w, v)
           V == Values(line)
<1>1. /\ t \in Collected(W)
      /\ s.took => t.fa = s.fa /\ ~t.took
      /\ ~s.took => Collects(s, t, w, v)
  BY ParsedCollects
<1> HIDE DEF t
<1>2. /\ s.took <=> i \in V
      /\ Lists(s.fa.targets, line, Past(TargetPlaces(line), V, i - 1), {})
      /\ Lists(s.fa.nmapExtra, line, Past(ForwardedPlaces(line), V, i - 1), Rewritten)
  <2>1. (i - 1) + 1 = i
    OBVIOUS
  <2> QED
    BY <2>1 DEF Kept
<1>3. i + 1 \in V <=> i \notin V /\ IsPair(w, v)
  BY PlacesOf
<1>4. CASE s.took
  <2>1. i \in V /\ i + 1 \notin V
    BY <1>2, <1>3, <1>4
  <2>2. TargetPlaces(line) \in SUBSET (1 .. n + 1) /\ ForwardedPlaces(line) \in SUBSET (1 .. n + 1)
    BY DEF TargetPlaces, ForwardedPlaces
  <2> HIDE DEF V
  <2>3. /\ Past(TargetPlaces(line), V, i) = Past(TargetPlaces(line), V, i - 1)
        /\ Past(ForwardedPlaces(line), V, i) = Past(ForwardedPlaces(line), V, i - 1)
    <3>1. Moves(TargetPlaces(line), V, i) /\ Moves(ForwardedPlaces(line), V, i)
      BY <2>2, PastMoves
    <3> QED
      BY <2>1, <3>1 DEF Moves
  <2>4. ~t.took /\ t.fa = s.fa
    BY <1>1, <1>4
  <2>5. /\ Lists(t.fa.targets, line, Past(TargetPlaces(line), V, i), {})
        /\ Lists(t.fa.nmapExtra, line, Past(ForwardedPlaces(line), V, i), Rewritten)
    BY <1>2, <2>3, <2>4
  <2> QED
    BY <1>1, <2>1, <2>4, <2>5 DEF Kept, t, V
<1>5. CASE ~s.took
  <2>1. Collects(s, t, w, v) /\ i \notin V
    BY <1>1, <1>2, <1>5
  <2>2. Lists(t.fa.targets, line, Past(TargetPlaces(line), V, i), {})
    BY <1>2, <2>1, TargetsKept
  <2>3. Lists(t.fa.nmapExtra, line, Past(ForwardedPlaces(line), V, i), Rewritten)
    BY <1>2, <2>1, ForwardedKept
  <2>4. t.took <=> i + 1 \in V
    BY <1>3, <2>1 DEF Collects
  <2> QED
    BY <1>1, <2>2, <2>3, <2>4 DEF Kept, t
<1> QED
  BY <1>4, <1>5

\* However the words of a line are mixed, none is lost and none is taken twice.
LEMMA LineIsKept ==
    ASSUME NEW X, NEW words \in Seq(X)
    PROVE  ParseKeepsWords(words)
<1> DEFINE n == Len(words)
           line == Line(words)
           V == Values(line)
           none == ""
           W == ((X \cup {none}) \cup {"-p"}) \cup {"builtin"}
<1> HIDE DEF none
<1>1. n \in Nat /\ \A i \in 1 .. n : words[i] \in X
  OBVIOUS
<1>2. /\ Len(line) = n + 1 /\ line[n + 1] = none /\ \A i \in 1 .. n : line[i] = words[i]
      /\ \A i \in 1 .. n + 1 : line[i] \in W
  <2>1. words \in Seq(X \cup {none}) /\ none \in X \cup {none}
    OBVIOUS
  <2>2. line = Append(words, none)
    BY DEF Line, none
  <2> HIDE DEF line
  <2>3. Len(line) = n + 1 /\ line[n + 1] = none /\ \A i \in 1 .. n : line[i] = words[i]
    BY <2>1, <2>2, AppendProperties
  <2>4. \A i \in 1 .. n + 1 : i \in 1 .. n \/ i = n + 1
    BY <1>1
  <2> QED
    BY <1>1, <2>3, <2>4
<1>2a. Len(line) = n + 1
  BY <1>2
<1>3. PICK f : IsParse(words, f, n) /\ ParseFlatArgs(words) = f[n].fa
  BY <1>1, ParseUnfolds
<1>4. "-p" \in W /\ "builtin" \in W /\ none \in W
  OBVIOUS
<1> HIDE DEF n, line, W
<1> DEFINE Good == {i \in 0 .. n : f[i] \in Collected(W) /\ Kept(line, f[i], i)}
<1>5. 0 \in Good
  <2>1. f[0] = [fa |-> Defaults, took |-> FALSE]
    BY <1>3 DEF IsParse
  <2>a. /\ Defaults = [proxList |-> none, targets |-> <<>>, ports |-> none, outFile |-> none,
                       tool |-> "builtin", rotate |-> TRUE, wrap |-> TRUE, nmapPath |-> none,
                       nmapExtra |-> <<>>]
    BY DEF Defaults, none
  <2>b. <<>> \in Seq(W)
    OBVIOUS
  <2>2. f[0] \in Collected(W)
    BY <1>4, <2>1, <2>a, <2>b DEF Collected
  <2>3. f[0].fa.targets = <<>> /\ f[0].fa.nmapExtra = <<>> /\ ~f[0].took
    BY <2>1, <2>a
  <2>4. 1 \notin V
    <3>1. Len(line) \in Nat /\ 1 \in 1 .. Len(line) /\ ~(1 > 1)
      BY <1>1, <1>2a
    <3> QED
      BY <3>1, ValuesAre
  <2>5. \A S : S \subseteq 1 .. n + 1 => Past(S, V, 0) = {}
    <3> SUFFICES ASSUME NEW S, S \subseteq 1 .. n + 1, NEW j \in Past(S, V, 0) PROVE FALSE
      OBVIOUS
    <3>1. j \in 1 .. n + 1 /\ (j <= 0 \/ (j = 0 + 1 /\ j \in V))
      BY DEF Past
    <3> QED
      BY <2>4, <3>1
  <2>6. TargetPlaces(line) \subseteq 1 .. n + 1 /\ ForwardedPlaces(line) \subseteq 1 .. n + 1
    BY <1>2 DEF TargetPlaces, ForwardedPlaces
  <2>7. Past(TargetPlaces(line), V, 0) = {} /\ Past(ForwardedPlaces(line), V, 0) = {}
    BY <2>5, <2>6
  <2>8. Kept(line, f[0], 0)
    <3>1. 0 + 1 = 1
      OBVIOUS
    <3>2. /\ Lists(f[0].fa.targets, line, Past(TargetPlaces(line), V, 0), {})
          /\ Lists(f[0].fa.nmapExtra, line, Past(ForwardedPlaces(line), V, 0), Rewritten)
      BY <2>3, <2>7, ListsNone
    <3> QED
      BY <2>3, <2>4, <3>1, <3>2 DEF Kept
  <2> QED
    BY <1>1, <2>2, <2>8
<1>6. ASSUME NEW i \in 1 .. n, i - 1 \in Good
      PROVE  i \in Good
  <2> DEFINE w == line[i]
             v == line[i + 1]
  <2>1. f[i] = NextParse(words, f[i - 1], i)
    BY <1>3 DEF IsParse
  <2>2. w = words[i] /\ v = IF i < n THEN words[i + 1] ELSE ""
    <3>1. w = words[i] /\ (i < n => v = words[i + 1])
      <4>1. i < n => i + 1 \in 1 .. n
        BY <1>1
      <4> QED
        BY <1>2, <4>1
    <3>2. ~(i < n) => v = none
      <4>1. ~(i < n) => i + 1 = n + 1
        BY <1>1
      <4> QED
        BY <1>2, <4>1
    <3> QED
      BY <3>1, <3>2 DEF none
  <2>3. f[i] = Parsed(f[i - 1], w, v)
    BY <2>1, <2>2 DEF NextParse, n
  <2>4. w \in W /\ v \in W
    <3>1. i \in 1 .. n + 1 /\ i + 1 \in 1 .. n + 1
      BY <1>1
    <3> QED
      BY <1>2, <3>1
  <2>5. f[i - 1] \in Collected(W) /\ Kept(line, f[i - 1], i - 1)
    BY <1>6
  <2>6. w = line[i] /\ v = line[i + 1] /\ "-p" \in W
    BY <1>4
  <2> HIDE DEF w, v
  <2>7. Parsed(f[i - 1], w, v) \in Collected(W) /\ Kept(line, Parsed(f[i - 1], w, v), i)
    BY <1>1, <1>2, <2>4, <2>5, <2>6, WordKeeps
  <2> QED
    BY <1>1, <2>3, <2>7
<1> HIDE DEF Good
<1>7. 0 .. n \subseteq Good
  BY <1>1, <1>5, <1>6, UpTo
<1>8. Kept(line, f[n], n)
  BY <1>1, <1>7 DEF Good
<1>9. /\ Past(TargetPlaces(line), V, n) = TargetPlaces(line)
      /\ Past(ForwardedPlaces(line), V, n) = ForwardedPlaces(line)
  <2>1. ASSUME NEW j \in 1 .. n + 1, j \notin V, ~(j <= n)
        PROVE  j \notin TargetPlaces(line) /\ j \notin ForwardedPlaces(line)
    <3>0. j = n + 1 /\ ~(n + 1 < n + 1)
      BY <1>1, <2>1
    <3>1. ~(j < Len(line))
      BY <1>2a, <3>0
    <3>2. ~IsTarget(line, j) /\ ~IsForwarded(line, j)
      BY <3>1, <2>1 DEF IsTarget, IsForwarded
    <3> QED
      BY <3>2 DEF TargetPlaces, ForwardedPlaces
  <2>2. TargetPlaces(line) \subseteq 1 .. n + 1 /\ ForwardedPlaces(line) \subseteq 1 .. n + 1
    BY <1>2 DEF TargetPlaces, ForwardedPlaces
  <2>3. \A j \in 1 .. n + 1 : ~(j <= n) => j = n + 1
    BY <1>1
  <2> HIDE DEF V
  <2> QED
    BY <2>1, <2>2, <2>3 DEF Past
<1>10. /\ Lists(f[n].fa.targets, line, TargetPlaces(line), {})
       /\ Lists(f[n].fa.nmapExtra, line, ForwardedPlaces(line), Rewritten)
  BY <1>8, <1>9 DEF Kept
<1> QED
  BY <1>3, <1>10 DEF ParseKeepsWords, TargetPlaces, ForwardedPlaces, Rewritten, line
\* For every list of words: the targets of a run and the words that go to nmap are
\* exactly the words in such a place, once each and in their order
\* (parseFlatArgs).
THEOREM ArgumentsAreKept == Spec => []ArgsAreKept
<1>1. RunInv => ArgsAreKept
  <2>1. cpc = "start" /\ IsFlat /\ RunInv => args \in ArgLists
    BY DEF RunInv, StartInv
  <2>2. ArgLists \subseteq Seq(STRING)
    BY CommandAssumption
  <2>3. ASSUME RunInv, cpc = "start", IsFlat PROVE ParseKeepsWords(args)
    <3>1. args \in Seq(STRING)
      BY <2>1, <2>2, <2>3
    <3> QED
      BY <3>1, LineIsKept
  <2> QED
    BY <2>3 DEF ArgsAreKept
<1> QED
  BY <1>1, RunHolds, PTL

-----------------------------------------------------------------------------
(* The hosts of a network *)

LEMMA BitsAre == Bits \in Nat \ {0} /\ MaxPort \in Nat \ {0} /\ MaxParsedPorts \in Nat \ {0}
                 /\ MaxPort <= MaxParsedPorts
  BY SpecsAssumption

\* A network has a host, and two with a bit of its own.
LEMMA NetSizeIs ==
    ASSUME NEW ones \in 0 .. Bits
    PROVE  NetSize(ones) \in Nat \ {0} /\ (ones < Bits => NetSize(ones) >= 2)
<1> DEFINE n == Bits - ones
           Sizes == Nat \ {0}
           step == [x \in Sizes \X (1 .. n) |-> 2 * x[1]]
           Def(g) == [i \in 0 .. n |-> IF i = 0 THEN 1 ELSE 2 * g[i - 1]]
           double == CHOOSE g : g = Def(g)
<1>1. n \in Nat /\ (ones < Bits <=> n # 0)
  BY BitsAre
<1>2. NetSize(ones) = double[n]
  BY DEF NetSize
<1> HIDE DEF n
<1>3. step \in [Sizes \X (1 .. n) -> Sizes] /\ 1 \in Sizes
  OBVIOUS
<1>4. \A k \in Sizes, i \in 1 .. n : step[<<k, i>>] = 2 * k
  OBVIOUS
<1> HIDE DEF step
<1>5. PICK f \in [0 .. n -> Sizes] : IsCourse(f, 1, n, step)
  <2> HIDE DEF Sizes
  <2> QED
    BY <1>1, <1>3, Course
<1>6. f = Def(f)
  <2>1. ASSUME NEW i \in 0 .. n PROVE f[i] = Def(f)[i]
    <3>1. CASE i = 0
      BY <3>1, <1>5 DEF IsCourse
    <3>2. CASE i # 0
      <4>1. i \in 1 .. n /\ i - 1 \in 0 .. n
        BY <3>2, <1>1
      <4>2. f[i] = step[<<f[i - 1], i>>] /\ f[i - 1] \in Sizes
        BY <4>1, <1>5 DEF IsCourse
      <4> QED
        BY <4>1, <4>2, <3>2, <1>4
    <3> QED
      BY <3>1, <3>2
  <2> QED
    BY <2>1, <1>5
<1>7. double = Def(double)
  BY <1>6
<1> HIDE DEF double
<1> DEFINE Good == {i \in 0 .. n : double[i] \in Sizes /\ (i # 0 => double[i] >= 2)}
<1>8. 0 \in Good
  BY <1>7, <1>1
<1>9. ASSUME NEW i \in 1 .. n, i - 1 \in Good
      PROVE  i \in Good
  <2>1. i \in 0 .. n /\ i # 0 /\ double[i - 1] \in Sizes
    BY <1>9
  <2>2. double[i] = 2 * double[i - 1]
    BY <2>1, <1>7
  <2> QED
    BY <2>1, <2>2
<1> HIDE DEF Good
<1>10. n \in Good
  <2>1. 0 .. n \subseteq Good
    BY <1>1, <1>8, <1>9, UpTo
  <2> QED
    BY <2>1, <1>1
<1> QED
  BY <1>1, <1>2, <1>10 DEF Good

\* Address number i of network number q.
HostAt(q, size, i) == q * size + i - 1

LEMMA Remainder ==
    ASSUME NEW size \in Nat \ {0}, NEW q \in Nat, NEW r \in 0 .. size - 1
    PROVE  (q * size + r) % size = r
  OBVIOUS

LEMMA HostAtIs ==
    ASSUME NEW q \in Nat, NEW size \in Nat \ {0}, NEW i \in 1 .. size
    PROVE  HostAt(q, size, i) % size = i - 1
<1> DEFINE r == i - 1
<1>1. r \in 0 .. size - 1 /\ HostAt(q, size, i) = q * size + r
  BY DEF HostAt
<1> HIDE DEF r
<1>2. (q * size + r) % size = r
  BY <1>1, Remainder
<1> QED
  BY <1>1, <1>2 DEF r

LEMMA HostAtOnce ==
    ASSUME NEW q \in Nat, NEW p \in Nat, NEW size \in Nat \ {0},
           NEW i \in 1 .. size, NEW j \in 1 .. size
    PROVE  HostAt(q, size, i) = HostAt(p, size, j) => q = p /\ i = j
<1> SUFFICES ASSUME HostAt(q, size, i) = HostAt(p, size, j)
             PROVE  q = p /\ i = j
  OBVIOUS
<1>1. i - 1 = j - 1
  BY HostAtIs
<1> DEFINE r == i - 1
<1>2. r \in 0 .. size - 1 /\ q * size + r = p * size + r
  BY <1>1 DEF HostAt
<1> HIDE DEF r
<1>3. q = p
  BY <1>2
<1> QED
  BY <1>1, <1>3

\* net are the addresses of network number q, x those of its targets.
IsNet(net, x, q, size, drop) ==
    /\ DOMAIN net = 1 .. size /\ \A i \in 1 .. size : net[i] = HostAt(q, size, i)
    /\ DOMAIN x = 1 .. size - 2 * drop
    /\ \A i \in 1 .. size - 2 * drop : i + drop \in 1 .. size /\ x[i] = HostAt(q, size, i + drop)

Drop(ones) == IF Bits - ones > 1 THEN 1 ELSE 0

LEMMA ExpandIs ==
    ASSUME NEW ones \in 1 .. Bits, NEW a \in Nat
    PROVE  /\ a \div NetSize(ones) \in Nat
           /\ IsNet(Hosts(a, ones), ExpandTarget(a, ones), a \div NetSize(ones),
                    NetSize(ones), Drop(ones))
<1> DEFINE size == NetSize(ones)
           q == a \div size
           net == Hosts(a, ones)
<1>1. size \in Nat \ {0} /\ (Bits - ones > 1 => size >= 2)
  BY NetSizeIs, BitsAre
<1>2. net = [i \in 1 .. size |-> q * size + i - 1]
  BY DEF Hosts
<1>3. ExpandTarget(a, ones) = IF Bits - ones > 1 THEN SubSeq(net, 2, Len(net) - 1) ELSE net
  BY DEF ExpandTarget
<1> HIDE DEF size, net
<1>4. q \in Nat
  BY <1>1
<1> HIDE DEF q
<1>5. q * size \in Nat
  BY <1>1, <1>4
<1>6. /\ DOMAIN net = 1 .. size /\ \A i \in 1 .. size : net[i] = HostAt(q, size, i)
  BY <1>2 DEF HostAt
<1>7. net \in Seq(Nat) /\ Len(net) = size
  <2>1. net \in [1 .. size -> Nat]
    BY <1>1, <1>2, <1>5
  <2> QED
    BY <2>1, <1>1
<1>8. CASE Bits - ones > 1
  <2> DEFINE x == SubSeq(net, 2, size - 1)
  <2>1. size >= 2
    BY <1>1, <1>8
  <2>2. /\ DOMAIN x = 1 .. size - 2
        /\ \A i \in 1 .. size - 2 : x[i] = net[i + 1]
    <3>1. Len(x) = size - 2 /\ x \in Seq(Nat) /\ \A i \in 1 .. size - 2 : x[i] = net[2 + i - 1]
      BY <1>1, <1>7, <2>1, SubSeqProperties
    <3>2. DOMAIN x = 1 .. Len(x)
      BY <3>1
    <3> QED
      BY <3>1, <3>2
  <2>3. ExpandTarget(a, ones) = x /\ Drop(ones) = 1
    BY <1>3, <1>7, <1>8 DEF Drop
  <2> HIDE DEF x
  <2> QED
    BY <1>1, <1>4, <1>6, <2>2, <2>3 DEF IsNet, size, net, q
<1>9. CASE ~(Bits - ones > 1)
  <2>1. ExpandTarget(a, ones) = net /\ Drop(ones) = 0
    BY <1>3, <1>9 DEF Drop
  <2> QED
    BY <1>1, <1>4, <1>6, <2>1 DEF IsNet, size, net, q
<1> QED
  BY <1>8, <1>9

\* Each host is a target once, but the first and the last.
IsDealt(net, x, size, drop) ==
    /\ IsInjective(x)
    /\ \A h \in ToSet(net) \ ToSet(x) : drop = 1 /\ h % size \in {0, size - 1}
    /\ drop = 1 => \A h \in ToSet(x) : h % size \notin {0, size - 1}

LEMMA NetTargets ==
    ASSUME NEW net, NEW x, NEW q \in Nat, NEW size \in Nat \ {0}, NEW drop \in {0, 1},
           IsNet(net, x, q, size, drop)
    PROVE  IsDealt(net, x, size, drop)
<1> DEFINE m == size - 2 * drop
<1>1. /\ m \in Int
      /\ DOMAIN net = 1 .. size /\ \A i \in 1 .. size : net[i] = HostAt(q, size, i)
      /\ DOMAIN x = 1 .. m
      /\ \A i \in 1 .. m : i + drop \in 1 .. size /\ x[i] = HostAt(q, size, i + drop)
  BY DEF IsNet
<1>2. /\ drop = 0 => m = size
      /\ drop = 1 => m = size - 2
  OBVIOUS
<1> HIDE DEF m
<1>3. IsInjective(x)
  <2>1. ASSUME NEW i \in 1 .. m, NEW j \in 1 .. m, x[i] = x[j]
        PROVE  i = j
    <3>1. i + drop = j + drop
      BY <1>1, <2>1, HostAtOnce
    <3> QED
      BY <3>1
  <2> QED
    BY <2>1, <1>1 DEF IsInjective
<1>4. ASSUME NEW h \in ToSet(net) \ ToSet(x)
      PROVE  drop = 1 /\ h % size \in {0, size - 1}
  <2>1. PICK i \in 1 .. size : h = HostAt(q, size, i)
    BY <1>1, <1>4 DEF ToSet
  <2>2. i - drop \notin 1 .. m
    <3>1. ASSUME i - drop \in 1 .. m PROVE FALSE
      <4> DEFINE j == i - drop
      <4>1. j \in 1 .. m /\ j + drop = i
        BY <3>1
      <4> HIDE DEF j
      <4>2. x[j] = h /\ j \in DOMAIN x
        BY <1>1, <2>1, <4>1
      <4>3. h \in ToSet(x)
        BY <4>2 DEF ToSet
      <4> QED
        BY <4>3, <1>4
    <3> QED
      BY <3>1
  <2>3. drop = 1 /\ i \in {1, size}
    BY <2>2, <1>2
  <2>4. h % size = i - 1
    BY <2>1, HostAtIs
  <2> QED
    BY <2>3, <2>4
<1>5. ASSUME drop = 1, NEW h \in ToSet(x)
      PROVE  h % size \notin {0, size - 1}
  <2>1. PICK j \in 1 .. m : h = x[j]
    BY <1>1 DEF ToSet
  <2> DEFINE i == j + drop
  <2>2. i \in 2 .. size - 1 /\ i \in 1 .. size
    BY <1>2, <1>5
  <2>3. h = HostAt(q, size, i)
    BY <1>1, <2>1
  <2> HIDE DEF i
  <2>4. h % size = i - 1
    BY <2>2, <2>3, HostAtIs
  <2> QED
    BY <2>2, <2>4
<1> QED
  BY <1>3, <1>4, <1>5 DEF IsDealt

NoneInCommon(x, y) == ToSet(x) \cap ToSet(y) = {}

LEMMA NetsApart ==
    ASSUME NEW net, NEW x, NEW q \in Nat, NEW other, NEW y, NEW p \in Nat,
           NEW size \in Nat \ {0}, NEW drop \in {0, 1},
           IsNet(net, x, q, size, drop), IsNet(other, y, p, size, drop)
    PROVE  q = p \/ NoneInCommon(x, y)
<1> SUFFICES ASSUME q # p PROVE NoneInCommon(x, y)
  OBVIOUS
<1> DEFINE m == size - 2 * drop
<1>1. /\ DOMAIN x = 1 .. m /\ DOMAIN y = 1 .. m
      /\ \A i \in 1 .. m : i + drop \in 1 .. size /\ x[i] = HostAt(q, size, i + drop)
      /\ \A i \in 1 .. m : i + drop \in 1 .. size /\ y[i] = HostAt(p, size, i + drop)
  BY DEF IsNet
<1> HIDE DEF m
<1>2. \A i, j \in 1 .. m : x[i] # y[j]
  BY <1>1, HostAtOnce
<1> QED
  BY <1>1, <1>2 DEF ToSet, NoneInCommon

LEMMA DisjointTargets ==
    ASSUME NEW ones \in 1 .. Bits
    PROVE  TargetsAreDisjoint(ones)
<1> DEFINE size == NetSize(ones)
           drop == Drop(ones)
<1>1. /\ size \in Nat \ {0} /\ drop \in {0, 1} /\ (drop = 1 <=> Bits - ones > 1)
      /\ NetSize(0) \in Nat
  BY NetSizeIs, BitsAre DEF Drop
<1> SUFFICES ASSUME NEW a \in 0 .. (NetSize(0) - 1), NEW b \in 0 .. (NetSize(0) - 1)
             PROVE  LET x == ExpandTarget(a, ones)
                        y == ExpandTarget(b, ones)
                        net == Hosts(a, ones)
                    IN  /\ IsInjective(x)
                        /\ x = y \/ ToSet(x) \cap ToSet(y) = {}
                        /\ \A h \in ToSet(net) \ ToSet(x) :
                              Bits - ones > 1 /\ h % size \in {0, size - 1}
                        /\ Bits - ones > 1 => \A h \in ToSet(x) :
                              h % size \notin {0, size - 1}
  BY DEF TargetsAreDisjoint
<1> DEFINE x == ExpandTarget(a, ones)
           y == ExpandTarget(b, ones)
           net == Hosts(a, ones)
           other == Hosts(b, ones)
           q == a \div size
           p == b \div size
<1>2. a \in Nat /\ b \in Nat
  BY <1>1
<1>3. /\ q \in Nat /\ IsNet(net, x, q, size, drop)
      /\ p \in Nat /\ IsNet(other, y, p, size, drop)
  BY <1>2, ExpandIs
<1>4. q = p => x = y
  BY DEF Hosts, ExpandTarget
<1> HIDE DEF size, drop, x, y, net, other, q, p
<1>5. q = p \/ NoneInCommon(x, y)
  BY <1>1, <1>3, NetsApart
<1>6. IsDealt(net, x, size, drop)
  BY <1>1, <1>3, NetTargets
<1>7. /\ IsInjective(x)
      /\ x = y \/ ToSet(x) \cap ToSet(y) = {}
      /\ \A h \in ToSet(net) \ ToSet(x) : Bits - ones > 1 /\ h % size \in {0, size - 1}
      /\ Bits - ones > 1 => \A h \in ToSet(x) : h % size \notin {0, size - 1}
  BY <1>1, <1>4, <1>5, <1>6 DEF NoneInCommon, IsDealt
<1> QED
  BY <1>7 DEF x, y, net, size

\* Whatever the length of addresses and of the prefix: each address of a network
\* is a target once, but the network's own and the broadcast address, and
\* networks that do not overlap have no target in common (scanner.go:81-102).
THEOREM TargetsAreExpanded == Spec => []TargetsExpand
<1>1. TargetsExpand
  BY DisjointTargets DEF TargetsExpand
<1> QED
  BY <1>1, PTL

-----------------------------------------------------------------------------
(* The ports of a specification *)

\* What a part makes of the ports read so far: the step of ParsePorts.
NextPorts(list, part) ==
    IF list = Bad \/ ~PartOK(part) THEN Bad
    ELSE IF Len(list \o PartPorts(part)) > MaxParsedPorts THEN Bad
    ELSE list \o PartPorts(part)

\* u is the course of ParsePorts.
IsReading(spec, u) ==
    u[0] = <<>> /\ \A i \in 1 .. Len(spec) : u[i] = NextPorts(u[i - 1], spec[i])

ReadsAs(spec, list) == \E u : IsReading(spec, u) /\ u[Len(spec)] = list

\* The recursive function of ParsePorts exists, and is the course.
LEMMA ParsePortsIs ==
    ASSUME NEW spec, Len(spec) \in Nat, NEW list, ReadsAs(spec, list)
    PROVE  spec = <<>> \/ ParsePorts(spec) = list
<1> SUFFICES ASSUME spec # <<>> PROVE ParsePorts(spec) = list
  OBVIOUS
<1> DEFINE n == Len(spec)
           Def(g) == [i \in 0 .. n |->
                         IF i = 0 THEN <<>> ELSE NextPorts(g[i - 1], spec[i])]
           upTo == CHOOSE g : g = Def(g)
<1>1. PICK u : IsReading(spec, u) /\ u[n] = list
  BY DEF ReadsAs
<1> DEFINE h == [i \in 0 .. n |-> u[i]]
<1>2. h = Def(h)
  <2>1. ASSUME NEW i \in 0 .. n PROVE h[i] = Def(h)[i]
    <3>1. CASE i = 0
      BY <3>1, <1>1 DEF IsReading
    <3>2. CASE i # 0
      <4>1. i \in 1 .. n /\ i - 1 \in 0 .. n
        BY <3>2
      <4>2. h[i] = NextPorts(u[i - 1], spec[i]) /\ h[i - 1] = u[i - 1]
        BY <4>1, <1>1 DEF IsReading
      <4> QED
        BY <4>1, <4>2, <3>2
    <3> QED
      BY <3>1, <3>2
  <2> QED
    BY <2>1
<1>3. upTo = Def(upTo)
  BY <1>2
<1>4. ParsePorts(spec) = upTo[n]
  BY DEF ParsePorts, NextPorts
<1> HIDE DEF upTo
<1> DEFINE Good == {i \in 0 .. n : upTo[i] = u[i]}
<1>5. 0 \in Good
  BY <1>1, <1>3 DEF IsReading
<1>6. ASSUME NEW i \in 1 .. n, i - 1 \in Good
      PROVE  i \in Good
  <2>1. i \in 0 .. n /\ i # 0 /\ upTo[i - 1] = u[i - 1]
    BY <1>6
  <2>2. upTo[i] = NextPorts(upTo[i - 1], spec[i])
    BY <2>1, <1>3
  <2>3. u[i] = NextPorts(u[i - 1], spec[i])
    BY <1>1 DEF IsReading
  <2> QED
    BY <2>1, <2>2, <2>3
<1>7. n \in Good
  <2> HIDE DEF Good
  <2>1. 0 .. n \subseteq Good
    BY <1>5, <1>6, UpTo
  <2> QED
    BY <2>1
<1> QED
  BY <1>1, <1>4, <1>7

LEMMA ReadsNothing == ReadsAs(<<>>, <<>>)
<1> DEFINE u == [i \in 0 .. 0 |-> <<>>]
<1>1. u[0] = <<>> /\ Len(<<>>) = 0 /\ 1 .. 0 = {}
  OBVIOUS
<1> HIDE DEF u
<1> QED
  BY <1>1 DEF ReadsAs, IsReading

LEMMA ReadsMore ==
    ASSUME NEW S, NEW spec \in Seq(S), NEW part \in S, NEW list, ReadsAs(spec, list)
    PROVE  ReadsAs(Append(spec, part), NextPorts(list, part))
<1> DEFINE n == Len(spec)
           more == Append(spec, part)
<1>1. n \in Nat /\ Len(more) = n + 1 /\ more[n + 1] = part /\ \A i \in 1 .. n : more[i] = spec[i]
  BY AppendProperties
<1>2. PICK u : IsReading(spec, u) /\ u[n] = list
  BY DEF ReadsAs
<1> DEFINE g == [i \in 0 .. n + 1 |-> IF i = n + 1 THEN NextPorts(list, part) ELSE u[i]]
<1>3. g[n + 1] = NextPorts(list, part) /\ \A i \in 0 .. n : g[i] = u[i]
  BY <1>1
<1> HIDE DEF more, g
<1>4. IsReading(more, g)
  <2>1. g[0] = <<>>
    BY <1>1, <1>2, <1>3 DEF IsReading
  <2>2. ASSUME NEW i \in 1 .. n + 1
        PROVE  g[i] = NextPorts(g[i - 1], more[i])
    <3>1. CASE i = n + 1
      <4>1. g[i - 1] = list
        BY <3>1, <1>1, <1>2, <1>3
      <4> QED
        BY <3>1, <4>1, <1>1, <1>3
    <3>2. CASE i # n + 1
      <4>1. i \in 1 .. n /\ i \in 0 .. n /\ i - 1 \in 0 .. n
        BY <3>2, <1>1
      <4>2. u[i] = NextPorts(u[i - 1], spec[i])
        BY <4>1, <1>2 DEF IsReading
      <4> QED
        BY <4>1, <4>2, <1>1, <1>3
    <3> QED
      BY <3>1, <3>2
  <2> QED
    BY <2>1, <2>2, <1>1 DEF IsReading
<1> QED
  BY <1>1, <1>3, <1>4 DEF ReadsAs, more

-----------------------------------------------------------------------------
(* What is written is read *)

First(s, k) == [j \in 1 .. k |-> s[j]]

\* From place k + 1 to i the numbers follow each other.
IsRun(s, k, i) == \A j \in k + 1 .. i : s[j] = s[k + 1] + (j - k - 1)

LEMMA FirstIs ==
    ASSUME NEW n \in Nat, NEW s \in [1 .. n -> 1 .. MaxPort], NEW k \in 0 .. n
    PROVE  /\ First(s, k) \in Seq(Nat) /\ Len(First(s, k)) = k
           /\ \A j \in 1 .. k : First(s, k)[j] = s[j]
           /\ First(s, k) # Bad
<1>1. First(s, k) \in [1 .. k -> Nat]
  BY BitsAre DEF First
<1>2. First(s, k) \in Seq(Nat) /\ Len(First(s, k)) = k
  BY <1>1
<1>3. \A j \in 1 .. k : First(s, k)[j] = s[j]
  BY DEF First
<1>4. First(s, k) # Bad
  <2>1. Len(Bad) = 1 /\ Bad[1] = 0
    BY DEF Bad
  <2>2. CASE k = 1
    <3>1. First(s, k)[1] = s[1] /\ s[1] \in 1 .. MaxPort
      BY <1>3, <2>2
    <3> QED
      BY <3>1, <2>1, BitsAre
  <2>3. CASE k # 1
    BY <2>1, <2>3, <1>2
  <2> QED
    BY <2>2, <2>3
<1> QED
  BY <1>2, <1>3, <1>4

LEMMA PartIs ==
    ASSUME NEW a \in 1 .. MaxPort, NEW b \in 1 .. MaxPort, a <= b
    PROVE  /\ Part(a, b) \in Seq(Nat) /\ Part(a, b)[1] = a /\ Part(a, b) # <<>>
           /\ PartOK(Part(a, b))
           /\ PartPorts(Part(a, b)) \in Seq(Nat) /\ Len(PartPorts(Part(a, b))) = b - a + 1
           /\ \A j \in 1 .. b - a + 1 : PartPorts(Part(a, b))[j] = a + j - 1
<1>0. a \in Nat /\ b \in Nat
  BY BitsAre
<1>1. CASE a = b
  <2>1. Part(a, b) = <<a>> /\ Len(<<a>>) = 1 /\ <<a>>[1] = a
    BY <1>1 DEF Part
  <2>2. PartPorts(Part(a, b)) = <<a>>
    BY <2>1 DEF PartPorts
  <2>3. <<a>> \in Seq(Nat) /\ <<a>> # <<>> /\ b - a + 1 = 1 /\ PartOK(<<a>>)
    BY <1>0, <1>1 DEF PartOK
  <2>4. \A j \in 1 .. 1 : <<a>>[j] = a + j - 1
    BY <1>0
  <2> QED
    BY <2>1, <2>2, <2>3, <2>4
<1>2. CASE a # b
  <2>1. Part(a, b) = <<a, b>> /\ Len(<<a, b>>) = 2 /\ <<a, b>>[1] = a /\ <<a, b>>[2] = b
    BY <1>2 DEF Part
  <2> DEFINE ports == [i \in 1 .. (b - a + 1) |-> a + i - 1]
  <2>2. PartPorts(Part(a, b)) = ports
    BY <2>1 DEF PartPorts
  <2>3. ports \in Seq(Nat) /\ Len(ports) = b - a + 1
    <3>1. b - a + 1 \in Nat /\ ports \in [1 .. b - a + 1 -> Nat]
      BY <1>0
    <3> QED
      BY <3>1
  <2>4. PartOK(<<a, b>>)
    BY <2>1, <1>0 DEF PartOK
  <2>5. \A j \in 1 .. b - a + 1 : ports[j] = a + j - 1
    BY <1>0
  <2>6. <<a, b>> \in Seq(Nat) /\ <<a, b>> # <<>>
    BY <1>0
  <2> HIDE DEF ports
  <2> QED
    BY <2>1, <2>2, <2>3, <2>4, <2>5, <2>6
<1> QED
  BY <1>1, <1>2

LEMMA RunJoins ==
    ASSUME NEW n \in 1 .. MaxParsedPorts, NEW s \in [1 .. n -> 1 .. MaxPort], NEW i \in 1 .. n,
           NEW k \in 0 .. i - 1, IsRun(s, k, i)
    PROVE  NextPorts(First(s, k), Part(s[k + 1], s[i])) = First(s, i)
<1> DEFINE a == s[k + 1]
           b == s[i]
           list == First(s, k)
           whole == First(s, i)
           ports == PartPorts(Part(a, b))
<1>0. n \in Nat /\ n <= MaxParsedPorts /\ k \in Nat /\ k \in 0 .. n /\ i \in 0 .. n
      /\ k + 1 \in 1 .. n /\ i \in k + 1 .. i
  BY BitsAre
<1>1. /\ a \in 1 .. MaxPort /\ b \in 1 .. MaxPort /\ a \in Nat /\ b = a + (i - k - 1)
      /\ \A j \in k + 1 .. i : s[j] = a + (j - k - 1)
  BY <1>0, BitsAre DEF IsRun
<1>2. /\ list \in Seq(Nat) /\ Len(list) = k /\ list # Bad /\ \A j \in 1 .. k : list[j] = s[j]
      /\ whole \in Seq(Nat) /\ Len(whole) = i /\ \A j \in 1 .. i : whole[j] = s[j]
  <2>1. list \in Seq(Nat) /\ Len(list) = k /\ list # Bad /\ \A j \in 1 .. k : list[j] = s[j]
    BY <1>0, FirstIs
  <2>2. whole \in Seq(Nat) /\ Len(whole) = i /\ \A j \in 1 .. i : whole[j] = s[j]
    BY <1>0, FirstIs
  <2> QED
    BY <2>1, <2>2
<1> HIDE DEF a, b, list, whole
<1>3. /\ PartOK(Part(a, b)) /\ ports \in Seq(Nat) /\ Len(ports) = i - k
      /\ \A j \in 1 .. i - k : ports[j] = a + j - 1
  <2>1. a <= b /\ b - a + 1 = i - k
    BY <1>0, <1>1
  <2>2. /\ PartOK(Part(a, b)) /\ ports \in Seq(Nat) /\ Len(ports) = b - a + 1
        /\ \A j \in 1 .. b - a + 1 : ports[j] = a + j - 1
    BY <2>1, <1>1, PartIs
  <2> HIDE DEF ports
  <2> QED
    BY <2>1, <2>2
<1>4. NextPorts(list, Part(a, b))
        = IF Len(list \o ports) > MaxParsedPorts THEN Bad ELSE list \o ports
  BY <1>2, <1>3 DEF NextPorts
<1> HIDE DEF ports
<1> DEFINE both == list \o ports
<1>5. /\ both \in Seq(Nat) /\ Len(both) = i
      /\ \A j \in 1 .. i : both[j] = IF j <= k THEN list[j] ELSE ports[j - k]
  <2>1. Len(list) + Len(ports) = i
    BY <1>0, <1>2, <1>3
  <2>2. /\ both \in Seq(Nat) /\ Len(both) = Len(list) + Len(ports)
        /\ \A j \in 1 .. Len(list) + Len(ports) :
              both[j] = IF j <= Len(list) THEN list[j] ELSE ports[j - Len(list)]
    BY <1>2, <1>3, ConcatProperties
  <2> HIDE DEF both
  <2> QED
    BY <2>1, <2>2, <1>2
<1>6. NextPorts(list, Part(a, b)) = both
  BY <1>0, <1>4, <1>5, BitsAre
<1> HIDE DEF both
<1>7. ASSUME NEW j \in 1 .. i
      PROVE  both[j] = whole[j]
  <2>1. CASE j <= k
    <3>1. j \in 1 .. k
      BY <2>1, <1>0
    <3> QED
      BY <3>1, <2>1, <1>2, <1>5
  <2>2. CASE ~(j <= k)
    <3>1. j \in k + 1 .. i /\ j - k \in 1 .. i - k
      BY <2>2, <1>0
    <3>2. both[j] = a + (j - k) - 1 /\ s[j] = a + (j - k - 1)
      BY <3>1, <2>2, <1>1, <1>3, <1>5
    <3> QED
      BY <3>1, <3>2, <1>0, <1>1, <1>2
  <2> QED
    BY <2>1, <2>2
<1>8. both = whole
  BY <1>2, <1>5, <1>7, SeqEqual
<1> QED
  BY <1>6, <1>8 DEF a, b, list, whole

\* What the number in place i makes of the spec: the step of CompressPorts.
NextParts(s, spec, i) ==
    IF i > 1 /\ s[i] = s[i - 1] + 1
    THEN [spec EXCEPT ![Len(spec)] = Part(@[1], s[i])]
    ELSE Append(spec, Part(s[i], s[i]))

IsWriting(s, f, n) == f[0] = <<>> /\ \A i \in 1 .. n : f[i] = NextParts(s, f[i - 1], i)

\* The recursive function of CompressPorts exists, and has its course.
LEMMA CompressIs ==
    ASSUME NEW ports, NEW n \in Nat, NEW s \in [1 .. n -> 1 .. MaxPort], Sorted(ports) = s
    PROVE  \E f : IsWriting(s, f, n) /\ CompressPorts(ports) = f[n]
<1> DEFINE Writings == Seq(Seq(Nat) \ {<<>>})
           step == [x \in Writings \X (1 .. n) |-> NextParts(s, x[1], x[2])]
           Def(g) == [i \in 0 .. n |-> IF i = 0 THEN <<>> ELSE NextParts(s, g[i - 1], i)]
           spec == CHOOSE g : g = Def(g)
<1>1. ASSUME NEW list \in Writings, NEW i \in 1 .. n
      PROVE  NextParts(s, list, i) \in Writings
  <2>1. s[i] \in 1 .. MaxPort /\ s[i] \in Nat
    BY BitsAre
  <2>2. CASE i > 1 /\ s[i] = s[i - 1] + 1
    <3> DEFINE part == Part(list[Len(list)][1], s[i])
    <3>1. NextParts(s, list, i) = [list EXCEPT ![Len(list)] = part]
      BY <2>2 DEF NextParts
    <3>2. CASE list = <<>>
      <4>1. [list EXCEPT ![Len(list)] = part] = <<>>
        BY <3>2
      <4>2. <<>> \in Writings
        OBVIOUS
      <4> HIDE DEF Writings
      <4> QED
        BY <4>1, <4>2, <3>1
    <3>3. CASE list # <<>>
      <4>1. Len(list) \in 1 .. Len(list) /\ list[Len(list)] \in Seq(Nat) \ {<<>>}
        BY <3>3
      <4>2. list[Len(list)][1] \in Nat
        BY <4>1
      <4>3. part \in Seq(Nat) \ {<<>>}
        <5> DEFINE a == list[Len(list)][1]
        <5>1. a \in Nat
          BY <4>2
        <5> HIDE DEF a
        <5>2. <<a>> \in Seq(Nat) \ {<<>>} /\ <<a, s[i]>> \in Seq(Nat) \ {<<>>}
          BY <5>1, <2>1
        <5> QED
          BY <5>2 DEF Part, a
      <4> HIDE DEF part
      <4>4. [list EXCEPT ![Len(list)] = part] \in Writings
        BY <4>1, <4>3
      <4> QED
        BY <4>4, <3>1
    <3> QED
      BY <3>2, <3>3
  <2>3. CASE ~(i > 1 /\ s[i] = s[i - 1] + 1)
    <3>1. Part(s[i], s[i]) \in Seq(Nat) \ {<<>>}
      BY <2>1, PartIs
    <3> QED
      BY <2>3, <3>1 DEF NextParts
  <2> QED
    BY <2>2, <2>3
<1>2. CompressPorts(ports) = spec[n]
  <2>1. Len(s) = n
    OBVIOUS
  <2> QED
    BY <2>1 DEF CompressPorts, NextParts
<1>3. <<>> \in Writings
  OBVIOUS
<1> HIDE DEF Writings
<1>4. /\ step \in [Writings \X (1 .. n) -> Writings]
      /\ \A list \in Writings, i \in 1 .. n : step[<<list, i>>] = NextParts(s, list, i)
  BY <1>1
<1> HIDE DEF step
<1>5. PICK f \in [0 .. n -> Writings] : IsCourse(f, <<>>, n, step)
  BY <1>3, <1>4, Course
<1>6. f[0] = <<>> /\ \A i \in 1 .. n : f[i] = NextParts(s, f[i - 1], i)
  <2>1. ASSUME NEW i \in 1 .. n PROVE f[i] = NextParts(s, f[i - 1], i)
    <3>1. f[i - 1] \in Writings
      OBVIOUS
    <3>2. f[i] = step[<<f[i - 1], i>>]
      BY <1>5 DEF IsCourse
    <3> QED
      BY <3>1, <3>2, <1>4
  <2> QED
    BY <2>1, <1>5 DEF IsCourse
<1>7. f = Def(f)
  <2>1. ASSUME NEW i \in 0 .. n PROVE f[i] = Def(f)[i]
    BY <1>6
  <2> QED
    BY <2>1, <1>5
<1>8. spec = Def(spec)
  BY <1>7
<1> HIDE DEF spec
<1>9. IsWriting(s, spec, n)
  <2>1. spec[0] = <<>>
    BY <1>8
  <2>2. ASSUME NEW i \in 1 .. n PROVE spec[i] = NextParts(s, spec[i - 1], i)
    <3>1. i \in 0 .. n /\ i # 0
      OBVIOUS
    <3> QED
      BY <3>1, <1>8
  <2> QED
    BY <2>1, <2>2 DEF IsWriting
<1> QED
  BY <1>2, <1>9

\* The spec of the first i numbers: those in front of the last part read as the
\* first k, and the last is the run of the others.
Spells(s, spec, i) ==
    \E front \in Seq(Seq(Nat)), k \in 0 .. i - 1 :
       /\ spec = Append(front, Part(s[k + 1], s[i]))
       /\ ReadsAs(front, First(s, k)) /\ IsRun(s, k, i)

LEMMA SpelledReads ==
    ASSUME NEW n \in 1 .. MaxParsedPorts, NEW s \in [1 .. n -> 1 .. MaxPort],
           NEW i \in 1 .. n, NEW spec, Spells(s, spec, i)
    PROVE  spec \in Seq(Seq(Nat)) /\ spec # <<>> /\ ReadsAs(spec, First(s, i))
<1>1. PICK front \in Seq(Seq(Nat)), k \in 0 .. i - 1 :
            /\ spec = Append(front, Part(s[k + 1], s[i]))
            /\ ReadsAs(front, First(s, k)) /\ IsRun(s, k, i)
  BY DEF Spells
<1> DEFINE part == Part(s[k + 1], s[i])
<1>2. NextPorts(First(s, k), part) = First(s, i)
  BY <1>1, RunJoins
<1>3. part \in Seq(Nat)
  <2>1. n \in Nat /\ k + 1 \in 1 .. n /\ i \in k + 1 .. i
    BY BitsAre
  <2>2. s[k + 1] \in 1 .. MaxPort /\ s[i] \in 1 .. MaxPort
    BY <2>1
  <2>3. s[i] = s[k + 1] + (i - k - 1)
    BY <1>1, <2>1 DEF IsRun
  <2>4. s[k + 1] <= s[i]
    BY <2>1, <2>2, <2>3, BitsAre
  <2> QED
    BY <2>2, <2>4, PartIs
<1> HIDE DEF part
<1>4. spec = Append(front, part)
  BY <1>1 DEF part
<1>5. ReadsAs(Append(front, part), NextPorts(First(s, k), part))
  BY <1>1, <1>3, ReadsMore
<1>6. spec \in Seq(Seq(Nat)) /\ spec # <<>>
  <2>1. Append(front, part) \in Seq(Seq(Nat)) /\ Append(front, part) # <<>>
    <3> DEFINE S == Seq(Nat)
    <3>1. front \in Seq(S) /\ part \in S
      BY <1>1, <1>3
    <3> HIDE DEF S
    <3>2. Append(front, part) \in Seq(S) /\ Append(front, part) # <<>>
      BY <3>1, AppendProperties
    <3> QED
      BY <3>2 DEF S
  <2> QED
    BY <2>1, <1>4
<1>7. ReadsAs(spec, First(s, i))
  BY <1>2, <1>4, <1>5
<1> QED
  BY <1>6, <1>7

\* A new part is a run of one number.
LEMMA SpellsNew ==
    ASSUME NEW n \in 1 .. MaxParsedPorts, NEW s \in [1 .. n -> 1 .. MaxPort],
           NEW i \in 1 .. n, NEW spec \in Seq(Seq(Nat)), ReadsAs(spec, First(s, i - 1))
    PROVE  Spells(s, Append(spec, Part(s[i], s[i])), i)
<1> DEFINE k == i - 1
<1>1. k \in 0 .. i - 1 /\ k + 1 = i /\ i \in Nat
  BY BitsAre
<1>2. s[i] \in Nat
  BY BitsAre
<1>3. IsRun(s, k, i)
  <2>1. \A j \in k + 1 .. i : j = i
    BY <1>1
  <2> QED
    BY <1>1, <1>2, <2>1 DEF IsRun
<1> HIDE DEF k
<1>4. ReadsAs(spec, First(s, k))
  BY DEF k
<1> QED
  BY <1>1, <1>3, <1>4 DEF Spells

\* The last part grows with its run.
LEMMA SpellsMore ==
    ASSUME NEW n \in 1 .. MaxParsedPorts, NEW s \in [1 .. n -> 1 .. MaxPort],
           NEW i \in 2 .. n, NEW spec, Spells(s, spec, i - 1), s[i] = s[i - 1] + 1
    PROVE  Spells(s, [spec EXCEPT ![Len(spec)] = Part(@[1], s[i])], i)
<1> DEFINE h == i - 1
<1>0. /\ h \in 1 .. n /\ i \in Nat /\ h \in Nat /\ h + 1 = i /\ h = i - 1
      /\ n \in Nat /\ i \in 1 .. n
      /\ Spells(s, spec, h) /\ s[i] = s[h] + 1
  BY BitsAre
<1> HIDE DEF h
<1>1. PICK front \in Seq(Seq(Nat)), k \in 0 .. h - 1 :
            /\ spec = Append(front, Part(s[k + 1], s[h]))
            /\ ReadsAs(front, First(s, k)) /\ IsRun(s, k, h)
  BY <1>0 DEF Spells
<1> DEFINE a == s[k + 1]
           b == s[h]
           p == s[i]
<1>2. a \in 1 .. MaxPort /\ b \in 1 .. MaxPort /\ p \in 1 .. MaxPort /\ p = b + 1
  BY <1>0
<1>3. b = a + (h - k - 1) /\ k \in Nat /\ k <= h - 1
  <2>1. h \in k + 1 .. h /\ k \in Nat /\ k <= h - 1
    BY <1>0
  <2> QED
    BY <2>1, <1>1 DEF IsRun
<1>4. IsRun(s, k, i) /\ k \in 0 .. i - 1
  <2>1. ASSUME NEW j \in k + 1 .. i PROVE s[j] = a + (j - k - 1)
    <3>1. CASE j = i
      BY <3>1, <1>0, <1>2, <1>3, BitsAre
    <3>2. CASE j # i
      <4>1. j \in k + 1 .. h
        BY <3>2, <1>0, <1>3
      <4> QED
        BY <4>1, <1>1 DEF IsRun
    <3> QED
      BY <3>1, <3>2
  <2> QED
    BY <2>1, <1>0 DEF IsRun
<1>5. spec = Append(front, Part(a, b))
  BY <1>1
<1> HIDE DEF a, b, p
<1> DEFINE old == Part(a, b)
           new == Part(a, p)
<1>6. old \in Seq(Nat) /\ old[1] = a /\ new \in Seq(Nat)
  <2>1. a <= b /\ a <= p
    BY <1>0, <1>2, <1>3, BitsAre
  <2> QED
    BY <2>1, <1>2, PartIs
<1> HIDE DEF old, new
<1>7. [spec EXCEPT ![Len(spec)] = Part(@[1], p)] = Append(front, new)
  <2> DEFINE m == Len(front) + 1
             grown == [spec EXCEPT ![m] = new]
             other == Append(front, new)
  <2>0. spec = Append(front, old)
    BY <1>5 DEF old
  <2>1. /\ m \in Nat /\ Len(spec) = m /\ spec[m] = old /\ spec \in Seq(Seq(Nat))
        /\ \A j \in 1 .. Len(front) : spec[j] = front[j]
    BY <1>6, <2>0, AppendProperties
  <2>2. /\ Len(other) = m /\ other[m] = new /\ other \in Seq(Seq(Nat))
        /\ \A j \in 1 .. Len(front) : other[j] = front[j]
    BY <1>6, AppendProperties
  <2>3. [spec EXCEPT ![Len(spec)] = Part(@[1], p)] = grown
    BY <1>6, <2>1 DEF new
  <2> HIDE DEF other
  <2>4. grown \in Seq(Seq(Nat)) /\ Len(grown) = m
    BY <1>6, <2>1
  <2>5. grown[m] = new /\ \A j \in 1 .. m : j = m \/ grown[j] = spec[j]
    BY <2>1
  <2> HIDE DEF grown
  <2>6. \A j \in 1 .. m : j = m \/ j \in 1 .. Len(front)
    OBVIOUS
  <2>7. \A j \in 1 .. m : grown[j] = other[j]
    BY <2>1, <2>2, <2>5, <2>6
  <2>8. grown = other
    BY <2>2, <2>4, <2>7, SeqEqual
  <2> QED
    BY <2>3, <2>8 DEF other
<1> QED
  BY <1>1, <1>4, <1>7 DEF Spells, new, a, p

\* What is compressed is read as it was sorted.
LEMMA CompressReads ==
    ASSUME NEW ports, NEW n \in 1 .. MaxParsedPorts, NEW s \in [1 .. n -> 1 .. MaxPort],
           Sorted(ports) = s
    PROVE  ParsePorts(CompressPorts(ports)) = s
<1>0. n \in Nat /\ n # 0
  BY BitsAre
<1>1. PICK f : IsWriting(s, f, n) /\ CompressPorts(ports) = f[n]
  BY <1>0, CompressIs
<1> DEFINE Good == {i \in 0 .. n : i = 0 \/ Spells(s, f[i], i)}
<1>2. 0 \in Good
  BY <1>0
<1>3. ASSUME NEW i \in 1 .. n, i - 1 \in Good
      PROVE  i \in Good
  <2>1. f[i] = NextParts(s, f[i - 1], i)
    BY <1>1 DEF IsWriting
  <2>2. CASE i = 1
    <3>1. f[i - 1] = <<>> /\ First(s, i - 1) = <<>> /\ <<>> \in Seq(Seq(Nat))
      BY <2>2, <1>1 DEF IsWriting, First
    <3>2. Spells(s, Append(<<>>, Part(s[i], s[i])), i)
      BY <3>1, SpellsNew, ReadsNothing
    <3> QED
      BY <2>1, <2>2, <3>1, <3>2 DEF NextParts
  <2>3. CASE i # 1
    <3>1. i \in 2 .. n /\ i - 1 \in 1 .. n /\ i > 1 /\ Spells(s, f[i - 1], i - 1)
      BY <2>3, <1>3
    <3>2. CASE s[i] = s[i - 1] + 1
      <4>1. Spells(s, [f[i - 1] EXCEPT ![Len(f[i - 1])] = Part(@[1], s[i])], i)
        BY <3>1, <3>2, SpellsMore
      <4> QED
        BY <4>1, <2>1, <3>1, <3>2 DEF NextParts
    <3>3. CASE s[i] # s[i - 1] + 1
      <4>1. f[i - 1] \in Seq(Seq(Nat)) /\ ReadsAs(f[i - 1], First(s, i - 1))
        BY <3>1, SpelledReads
      <4>2. Spells(s, Append(f[i - 1], Part(s[i], s[i])), i)
        BY <4>1, SpellsNew
      <4>3. f[i] = Append(f[i - 1], Part(s[i], s[i]))
        BY <2>1, <3>3 DEF NextParts
      <4>4. Spells(s, f[i], i)
        BY <4>2, <4>3
      <4>5. i \in 0 .. n
        BY <1>0
      <4> QED
        BY <4>4, <4>5
    <3> QED
      BY <3>2, <3>3
  <2> QED
    BY <2>2, <2>3
<1>4. Spells(s, f[n], n)
  <2> HIDE DEF Good
  <2>1. 0 .. n \subseteq Good
    BY <1>0, <1>2, <1>3, UpTo
  <2>2. n \in Good
    BY <1>0, <2>1
  <2> QED
    BY <2>2, <1>0 DEF Good
<1>5. f[n] \in Seq(Seq(Nat)) /\ f[n] # <<>> /\ ReadsAs(f[n], First(s, n))
  BY <1>0, <1>4, SpelledReads
<1>6. First(s, n) = s
  BY DEF First
<1>7. ParsePorts(f[n]) = s
  <2>1. Len(f[n]) \in Nat
    BY <1>5
  <2> QED
    BY <2>1, <1>5, <1>6, ParsePortsIs
<1> QED
  BY <1>1, <1>7

-----------------------------------------------------------------------------
(* Sorting *)

UpToNumber(ports, p) == {i \in 1 .. Len(ports) : ports[i] <= p}
BelowNumber(ports, p) == {i \in 1 .. Len(ports) : ports[i] < p}

\* p is the number in place k of the sorted list.
IsPlaced(ports, p, k) ==
    Cardinality(BelowNumber(ports, p)) < k /\ Cardinality(UpToNumber(ports, p)) >= k

LEMMA PlacesAreFinite ==
    ASSUME NEW ports \in Seq(1 .. MaxPort), NEW p
    PROVE  /\ IsFiniteSet(UpToNumber(ports, p)) /\ Cardinality(UpToNumber(ports, p)) \in Nat
           /\ IsFiniteSet(BelowNumber(ports, p)) /\ Cardinality(BelowNumber(ports, p)) \in Nat
<1>1. Len(ports) \in Nat
  OBVIOUS
<1>2. IsFiniteSet(1 .. Len(ports))
  BY <1>1, FS_Interval
<1>3. UpToNumber(ports, p) \subseteq 1 .. Len(ports) /\ BelowNumber(ports, p) \subseteq 1 .. Len(ports)
  BY DEF UpToNumber, BelowNumber
<1> QED
  BY <1>2, <1>3, FS_Subset, FS_CardinalityType

\* A number up to which, or below which, more of the list lies.
LEMMA MorePlaces ==
    ASSUME NEW ports \in Seq(1 .. MaxPort), NEW p \in Nat, NEW r \in Nat, p < r
    PROVE  Cardinality(UpToNumber(ports, p)) <= Cardinality(BelowNumber(ports, r))
<1>1. \A i \in 1 .. Len(ports) : ports[i] \in 1 .. MaxPort /\ ports[i] \in Nat
  BY BitsAre
<1>2. UpToNumber(ports, p) \subseteq BelowNumber(ports, r)
  BY <1>1 DEF UpToNumber, BelowNumber
<1> QED
  BY <1>2, PlacesAreFinite, FS_Subset

LEMMA PlaceIsTaken ==
    ASSUME NEW ports \in Seq(1 .. MaxPort), NEW k \in 1 .. Len(ports)
    PROVE  \E p \in ToSet(ports) : IsPlaced(ports, p, k)
<1> DEFINE Enough == {m \in Nat : Cardinality(UpToNumber(ports, m)) >= k}
<1>1. /\ Len(ports) \in Nat /\ DOMAIN ports = 1 .. Len(ports)
      /\ \A i \in 1 .. Len(ports) : ports[i] \in 1 .. MaxPort /\ ports[i] \in Nat
  BY BitsAre
<1>2. MaxPort \in Enough
  <2>1. UpToNumber(ports, MaxPort) = 1 .. Len(ports)
    BY <1>1, BitsAre DEF UpToNumber
  <2>2. Cardinality(1 .. Len(ports)) = Len(ports)
    <3>1. Len(ports) \in Nat
      OBVIOUS
    <3> QED
      BY <3>1, FS_Interval
  <2> QED
    BY <1>1, <2>1, <2>2, BitsAre
<1>3. Enough \subseteq Nat /\ Enough # {}
  BY <1>2
<1> HIDE DEF Enough
<1>4. PICK p \in Enough : \A m \in Enough : ~(m < p)
  BY <1>3, Least
<1>5. p \in Nat /\ Cardinality(UpToNumber(ports, p)) >= k
  BY <1>4 DEF Enough
<1>6. Cardinality(BelowNumber(ports, p)) < k
  <2>1. CASE p = 0
    <3>1. BelowNumber(ports, p) = {}
      BY <1>1, <2>1 DEF BelowNumber
    <3> QED
      BY <3>1, <1>1, FS_EmptySet
  <2>2. CASE p # 0
    <3> DEFINE m == p - 1
    <3>1. m \in Nat /\ m < p /\ \A i \in Nat : i <= m <=> i < p
      BY <2>2, <1>5
    <3> HIDE DEF m
    <3>2. m \notin Enough
      BY <1>4, <3>1
    <3>3. ~(Cardinality(UpToNumber(ports, m)) >= k)
      BY <3>1, <3>2 DEF Enough
    <3>4. BelowNumber(ports, p) = UpToNumber(ports, m)
      BY <1>1, <3>1 DEF UpToNumber, BelowNumber
    <3> QED
      BY <3>3, <3>4, PlacesAreFinite, <1>1
  <2> QED
    BY <2>1, <2>2
<1>7. p \in ToSet(ports)
  <2>1. ASSUME p \notin ToSet(ports) PROVE FALSE
    <3>1. \A i \in 1 .. Len(ports) : ports[i] # p
      BY <1>1, <2>1 DEF ToSet
    <3>2. BelowNumber(ports, p) = UpToNumber(ports, p)
      BY <1>1, <1>5, <3>1 DEF UpToNumber, BelowNumber
    <3> QED
      BY <3>2, <1>1, <1>5, <1>6, PlacesAreFinite
  <2> QED
    BY <2>1
<1> QED
  BY <1>5, <1>6, <1>7 DEF IsPlaced

LEMMA PlacedOnce ==
    ASSUME NEW ports \in Seq(1 .. MaxPort), NEW k \in 1 .. Len(ports),
           NEW p \in Nat, NEW r \in Nat, IsPlaced(ports, p, k), IsPlaced(ports, r, k)
    PROVE  p = r
<1>1. k \in Nat
  BY BitsAre
<1>2. ASSUME NEW q \in {p, r}
      PROVE  /\ Cardinality(BelowNumber(ports, q)) < k /\ Cardinality(UpToNumber(ports, q)) >= k
             /\ Cardinality(BelowNumber(ports, q)) \in Nat /\ Cardinality(UpToNumber(ports, q)) \in Nat
  BY <1>2, PlacesAreFinite DEF IsPlaced
<1>3. ~(p < r)
  <2>1. p < r => Cardinality(UpToNumber(ports, p)) <= Cardinality(BelowNumber(ports, r))
    BY MorePlaces
  <2> QED
    BY <1>1, <1>2, <2>1
<1>4. ~(r < p)
  <2>1. r < p => Cardinality(UpToNumber(ports, r)) <= Cardinality(BelowNumber(ports, p))
    BY MorePlaces
  <2> QED
    BY <1>1, <1>2, <2>1
<1> QED
  BY <1>3, <1>4

\* A number is in its places of the sorted list, and in no other.
LEMMA SortedPlaces ==
    ASSUME NEW ports \in Seq(1 .. MaxPort)
    PROVE  /\ Sorted(ports) \in [1 .. Len(ports) -> ToSet(ports)]
           /\ \A k \in 1 .. Len(ports) : IsPlaced(ports, Sorted(ports)[k], k)
<1> DEFINE n == Len(ports)
<1>1. Sorted(ports) = [k \in 1 .. n |-> CHOOSE p \in ToSet(ports) : IsPlaced(ports, p, k)]
  BY DEF Sorted, IsPlaced, UpToNumber, BelowNumber
<1>2. ASSUME NEW k \in 1 .. n
      PROVE  Sorted(ports)[k] \in ToSet(ports) /\ IsPlaced(ports, Sorted(ports)[k], k)
  <2>1. \E p \in ToSet(ports) : IsPlaced(ports, p, k)
    BY PlaceIsTaken
  <2> QED
    BY <1>1, <2>1
<1> QED
  BY <1>1, <1>2

\* Sorting puts the numbers in order.
LEMMA SortedInOrder ==
    ASSUME NEW ports \in Seq(1 .. MaxPort),
           NEW i \in 1 .. Len(ports), NEW j \in 1 .. Len(ports), i <= j
    PROVE  Sorted(ports)[i] <= Sorted(ports)[j]
<1> DEFINE p == Sorted(ports)[i]
           r == Sorted(ports)[j]
<1>1. p \in ToSet(ports) /\ r \in ToSet(ports) /\ IsPlaced(ports, p, i) /\ IsPlaced(ports, r, j)
  BY SortedPlaces
<1> HIDE DEF p, r
<1>2. p \in Nat /\ r \in Nat
  <2>1. DOMAIN ports = 1 .. Len(ports) /\ \A k \in 1 .. Len(ports) : ports[k] \in Nat
    BY BitsAre
  <2> QED
    BY <1>1, <2>1 DEF ToSet
<1>3. r < p => Cardinality(UpToNumber(ports, r)) <= Cardinality(BelowNumber(ports, p))
  BY <1>2, MorePlaces
<1>4. /\ Cardinality(BelowNumber(ports, p)) < i /\ Cardinality(UpToNumber(ports, r)) >= j
      /\ Cardinality(BelowNumber(ports, p)) \in Nat /\ Cardinality(UpToNumber(ports, r)) \in Nat
  BY <1>1, PlacesAreFinite DEF IsPlaced
<1>5. ~(r < p)
  BY <1>3, <1>4, BitsAre
<1> QED
  BY <1>2, <1>5 DEF p, r

\* And keeps each of them, as often as it is there.
LEMMA SortedAsOften ==
    ASSUME NEW ports \in Seq(1 .. MaxPort), NEW p \in Nat
    PROVE  HowOften(Sorted(ports), p) = HowOften(ports, p)
<1> DEFINE n == Len(ports)
           s == Sorted(ports)
           B == BelowNumber(ports, p)
           U == UpToNumber(ports, p)
           E == {i \in 1 .. n : ports[i] = p}
           P == {k \in 1 .. n : s[k] = p}
           a == Cardinality(B)
           b == Cardinality(U)
<1>1. n \in Nat /\ DOMAIN ports = 1 .. n /\ \A i \in 1 .. n : ports[i] \in Nat
  BY BitsAre
<1>2. /\ DOMAIN s = 1 .. n /\ \A k \in 1 .. n : s[k] \in Nat /\ IsPlaced(ports, s[k], k)
  <2>1. s \in [1 .. n -> ToSet(ports)] /\ \A k \in 1 .. n : IsPlaced(ports, s[k], k)
    BY SortedPlaces
  <2>2. ToSet(ports) \subseteq Nat
    BY <1>1 DEF ToSet
  <2> QED
    BY <2>1, <2>2
<1>3. HowOften(s, p) = Cardinality(P) /\ HowOften(ports, p) = Cardinality(E)
  BY <1>1, <1>2 DEF HowOften
<1>4. U = B \cup E /\ B \cap E = {} /\ U \subseteq 1 .. n
  BY <1>1 DEF UpToNumber, BelowNumber
<1>5. IsFiniteSet(B) /\ IsFiniteSet(E) /\ a \in Nat /\ b \in Nat
  <2>1. IsFiniteSet(B) /\ IsFiniteSet(U) /\ a \in Nat /\ b \in Nat
    BY PlacesAreFinite
  <2>2. E \subseteq U
    BY <1>4
  <2> HIDE DEF B, U, E, a, b
  <2> QED
    BY <2>1, <2>2, FS_Subset
<1> HIDE DEF s
<1>6. P = a + 1 .. b
  <2>1. \A k \in 1 .. n : s[k] = p => IsPlaced(ports, p, k)
    BY <1>2
  <2>2. \A k \in 1 .. n : IsPlaced(ports, p, k) => s[k] = p
    BY <1>2, PlacedOnce
  <2>3. P = {k \in 1 .. n : IsPlaced(ports, p, k)}
    BY <2>1, <2>2
  <2>4. \A k \in 1 .. n : IsPlaced(ports, p, k) <=> a < k /\ b >= k
    BY DEF IsPlaced
  <2>5. b <= n
    <3> HIDE DEF U
    <3>1. IsFiniteSet(1 .. n) /\ Cardinality(1 .. n) = n
      BY <1>1, FS_Interval
    <3> QED
      BY <1>4, <3>1, FS_Subset
  <2> HIDE DEF P, a, b, n
  <2> QED
    BY <2>3, <2>4, <2>5, <1>1, <1>5
<1> HIDE DEF B, U, E, P
<1>7. b = a + Cardinality(E) /\ Cardinality(E) \in Nat
  BY <1>4, <1>5, Apart
<1> HIDE DEF a, b
<1>8. Cardinality(a + 1 .. b) = IF a + 1 > b THEN 0 ELSE b - (a + 1) + 1
  BY <1>5, FS_Interval
<1>9. Cardinality(P) = Cardinality(E)
  BY <1>5, <1>6, <1>7, <1>8
<1> QED
  BY <1>3, <1>9 DEF s

LEMMA SortedIs ==
    ASSUME NEW ports \in Seq(1 .. MaxPort)
    PROVE  /\ Sorted(ports) \in [1 .. Len(ports) -> 1 .. MaxPort]
           /\ ToSet(Sorted(ports)) = ToSet(ports)
<1> DEFINE n == Len(ports)
           s == Sorted(ports)
<1>1. n \in Nat /\ DOMAIN ports = 1 .. n /\ \A i \in 1 .. n : ports[i] \in 1 .. MaxPort
  BY BitsAre
<1>2. s \in [1 .. n -> ToSet(ports)]
  BY SortedPlaces
<1>3. ToSet(ports) \subseteq 1 .. MaxPort
  BY <1>1 DEF ToSet
<1> HIDE DEF s
<1>4. ASSUME NEW p \in ToSet(ports) PROVE p \in ToSet(s)
  <2> DEFINE E == {i \in DOMAIN ports : ports[i] = p}
             P == {k \in DOMAIN s : s[k] = p}
  <2>1. Cardinality(P) = Cardinality(E)
    BY <1>3, SortedAsOften DEF HowOften, s
  <2>2. E \subseteq 1 .. n /\ E # {}
    BY <1>1 DEF ToSet
  <2>3. Cardinality(E) # 0
    <3> HIDE DEF E
    <3>1. IsFiniteSet(1 .. n)
      BY <1>1, FS_Interval
    <3> QED
      BY <2>2, <3>1, FS_Subset, FS_EmptySet
  <2>4. P # {}
    <3> HIDE DEF E, P
    <3> QED
      BY <2>1, <2>3, FS_EmptySet
  <2> QED
    BY <2>4 DEF ToSet
<1>5. ToSet(s) \subseteq ToSet(ports)
  BY <1>2 DEF ToSet
<1> QED
  BY <1>2, <1>3, <1>4, <1>5 DEF s

LEMMA RoundTrips ==
    ASSUME NEW ports \in Seq(1 .. MaxPort), Len(ports) \in 1 .. MaxParsedPorts
    PROVE  /\ ParsePorts(CompressPorts(ports)) = Sorted(ports) /\ RoundTrip(ports)
           /\ Sorted(ports) \in [1 .. Len(ports) -> 1 .. MaxPort]
           /\ ToSet(Sorted(ports)) = ToSet(ports)
<1> DEFINE n == Len(ports)
           s == Sorted(ports)
<1>1. s \in [1 .. n -> 1 .. MaxPort] /\ ToSet(s) = ToSet(ports)
  BY SortedIs
<1>2. n \in 1 .. MaxParsedPorts /\ Sorted(ports) = s
  OBVIOUS
<1>3. DOMAIN s = 1 .. n /\ DOMAIN ports = 1 .. n
  BY <1>1
<1>4. /\ \A i, j \in 1 .. n : i <= j => s[i] <= s[j]
      /\ \A p \in 1 .. MaxPort : HowOften(s, p) = HowOften(ports, p)
  <2>1. \A p \in 1 .. MaxPort : p \in Nat
    BY BitsAre
  <2> QED
    BY <2>1, SortedInOrder, SortedAsOften
<1> HIDE DEF n, s
<1>5. ParsePorts(CompressPorts(ports)) = s
  BY <1>1, <1>2, CompressReads
<1>6. RoundTrip(ports)
  BY <1>3, <1>4, <1>5 DEF RoundTrip
<1> QED
  BY <1>1, <1>2, <1>5, <1>6 DEF n

-----------------------------------------------------------------------------
(* Merging *)

LEMMA FunctionIsList ==
    ASSUME NEW S, NEW n \in Nat, NEW f \in [1 .. n -> S]
    PROVE  f \in Seq(S) /\ Len(f) = n
  OBVIOUS

\* What is read is a list of ports, and is not empty.
LEMMA ReadPorts ==
    ASSUME NEW spec \in Seq(Seq(Nat)), ParsePorts(spec) # Bad
    PROVE  PortsOf(spec) \subseteq 1 .. MaxPort /\ PortsOf(spec) # {}
<1> DEFINE n == Len(spec)
           Ports == Seq(1 .. MaxPort) \cup {Bad}
           step == [x \in Ports \X (1 .. n) |-> NextPorts(x[1], spec[x[2]])]
<1>1. n \in Nat /\ \A i \in 1 .. n : spec[i] \in Seq(Nat)
  OBVIOUS
<1>2. ASSUME NEW list \in Ports, NEW part \in Seq(Nat)
      PROVE  /\ NextPorts(list, part) \in Ports
             /\ NextPorts(list, part) = Bad \/ NextPorts(list, part) # <<>>
  <2>1. CASE list # Bad /\ PartOK(part) /\ ~(Len(list \o PartPorts(part)) > MaxParsedPorts)
    <3> DEFINE ports == PartPorts(part)
    <3>1. NextPorts(list, part) = list \o ports /\ list \in Seq(1 .. MaxPort)
      BY <2>1 DEF NextPorts
    <3>2. ports \in Seq(1 .. MaxPort) /\ Len(ports) >= 1
      <4>1. CASE Len(part) = 1
        <5>1. ports = part /\ part[1] \in 1 .. MaxPort
          BY <4>1, <2>1 DEF PartOK, PartPorts
        <5>2. part \in Seq(1 .. MaxPort)
          <6>1. part \in [1 .. 1 -> 1 .. MaxPort]
            <7>1. part = [i \in 1 .. Len(part) |-> part[i]]
              OBVIOUS
            <7>2. \A i \in 1 .. 1 : i = 1
              OBVIOUS
            <7> QED
              BY <4>1, <5>1, <7>1, <7>2
          <6> QED
            BY <6>1, FunctionIsList
        <5>3. ports \in Seq(1 .. MaxPort) /\ Len(ports) = 1
          BY <4>1, <5>1, <5>2
        <5> HIDE DEF ports
        <5> QED
          BY <5>3
      <4>2. CASE Len(part) # 1
        <5>1. /\ Len(part) = 2 /\ part[1] >= 1 /\ part[2] <= MaxPort /\ part[1] <= part[2]
              /\ part[1] \in Nat /\ part[2] \in Nat
          BY <4>2, <2>1 DEF PartOK
        <5> DEFINE a == part[1]
                   b == part[2]
        <5>2. ports = [i \in 1 .. (b - a + 1) |-> a + i - 1]
          BY <4>2 DEF PartPorts
        <5>3. a \in Nat /\ b \in Nat /\ a >= 1 /\ b <= MaxPort /\ a <= b
          BY <5>1
        <5> HIDE DEF a, b, ports
        <5>4. ports \in [1 .. (b - a + 1) -> 1 .. MaxPort] /\ b - a + 1 \in Nat \ {0}
          BY <5>2, <5>3, BitsAre
        <5> DEFINE m == b - a + 1
        <5>5. m \in Nat \ {0} /\ ports \in [1 .. m -> 1 .. MaxPort]
          BY <5>4
        <5> HIDE DEF m
        <5>6. ports \in Seq(1 .. MaxPort) /\ Len(ports) = m
          BY <5>5, FunctionIsList
        <5> QED
          BY <5>5, <5>6
      <4> QED
        BY <4>1, <4>2
    <3> HIDE DEF ports
    <3>3. list \o ports \in Seq(1 .. MaxPort) /\ Len(list \o ports) >= 1
      BY <3>1, <3>2
    <3> QED
      BY <3>1, <3>3
  <2>2. CASE ~(list # Bad /\ PartOK(part) /\ ~(Len(list \o PartPorts(part)) > MaxParsedPorts))
    BY <2>2 DEF NextPorts
  <2> QED
    BY <2>1, <2>2
<1>3. <<>> \in Ports
  OBVIOUS
<1> HIDE DEF Ports
<1>4. /\ step \in [Ports \X (1 .. n) -> Ports]
      /\ \A list \in Ports, i \in 1 .. n : step[<<list, i>>] = NextPorts(list, spec[i])
  BY <1>1, <1>2
<1> HIDE DEF step
<1>5. PICK u \in [0 .. n -> Ports] : IsCourse(u, <<>>, n, step)
  BY <1>1, <1>3, <1>4, Course
<1>6. ASSUME NEW i \in 1 .. n
      PROVE  /\ u[i] = NextPorts(u[i - 1], spec[i]) /\ u[i - 1] \in Ports
             /\ u[i] = Bad \/ u[i] # <<>>
  <2>1. u[i - 1] \in Ports
    <3>1. i - 1 \in 0 .. n
      BY <1>1
    <3> QED
      BY <3>1
  <2>2. u[i] = step[<<u[i - 1], i>>]
    BY <1>5 DEF IsCourse
  <2>3. u[i] = NextPorts(u[i - 1], spec[i])
    BY <2>1, <2>2, <1>4
  <2> QED
    BY <2>1, <2>3, <1>1, <1>2
<1>7. IsReading(spec, u)
  BY <1>5, <1>6 DEF IsReading, IsCourse
<1>8. ReadsAs(spec, u[n])
  BY <1>7 DEF ReadsAs
<1>9. spec # <<>> /\ n # 0
  BY DEF ParsePorts
<1>10. ParsePorts(spec) = u[n]
  BY <1>1, <1>8, <1>9, ParsePortsIs
<1>11. u[n] \in Ports /\ u[n] # Bad /\ u[n] # <<>>
  <2>1. n \in 1 .. n /\ n \in 0 .. n
    BY <1>1, <1>9
  <2> QED
    BY <2>1, <1>6, <1>10
<1> DEFINE list == u[n]
<1>12. list \in Seq(1 .. MaxPort) /\ list # <<>>
  BY <1>11 DEF Ports
<1>13. PortsOf(spec) = ToSet(list)
  BY <1>10, <1>11 DEF PortsOf
<1> HIDE DEF list
<1>14. /\ DOMAIN list = 1 .. Len(list) /\ 1 \in DOMAIN list
       /\ \A i \in 1 .. Len(list) : list[i] \in 1 .. MaxPort
  <2>1. DOMAIN list = 1 .. Len(list) /\ Len(list) \in Nat /\ Len(list) # 0
    BY <1>12
  <2> QED
    BY <2>1, <1>12, BitsAre
<1> QED
  BY <1>13, <1>14 DEF ToSet

LEMMA ListOfSet ==
    ASSUME NEW S, S \subseteq 1 .. MaxPort, S # {}
    PROVE  /\ SetToSeq(S) \in Seq(1 .. MaxPort) /\ ToSet(SetToSeq(S)) = S
           /\ Len(SetToSeq(S)) \in 1 .. MaxParsedPorts
           /\ Len(SetToSeq(S)) = Cardinality(S)
<1> DEFINE n == Cardinality(S)
<1>1. IsFiniteSet(1 .. MaxPort) /\ Cardinality(1 .. MaxPort) = MaxPort
  BY BitsAre, FS_Interval
<1>2. IsFiniteSet(S) /\ n <= MaxPort
  BY <1>1, FS_Subset
<1>3. n \in Nat /\ n # 0
  BY <1>2, FS_CardinalityType, FS_EmptySet
<1>4. PICK f \in [1 .. n -> S] : IsInjective(f)
  <2>1. PICK f : f \in Bijection(1 .. n, S)
    <3>1. Bijection(1 .. n, S) # {}
      BY <1>2, FS_CardinalityType DEF ExistsBijection
    <3> QED
      BY <3>1
  <2> QED
    BY <2>1 DEF Bijection, Injection, IsInjective
<1> DEFINE list == SetToSeq(S)
<1>5. list \in [1 .. n -> S] /\ IsInjective(list)
  BY <1>4 DEF SetToSeq
<1> HIDE DEF list
<1>6. list \in Surjection(1 .. n, S)
  <2>1. list \in Injection(1 .. n, S)
    BY <1>5 DEF Injection, IsInjective
  <2>2. Cardinality(1 .. n) = n
    BY <1>3, FS_Interval
  <2> QED
    BY <2>1, <2>2, <1>2, FS_Injection
<1>7. ToSet(list) = S
  BY <1>5, <1>6 DEF Surjection, ToSet
<1>8. list \in Seq(1 .. MaxPort) /\ Len(list) = n
  <2>1. list \in [1 .. n -> 1 .. MaxPort]
    BY <1>5
  <2> QED
    BY <2>1, <1>3, BitsAre
<1>9. n \in 1 .. MaxParsedPorts
  BY <1>2, <1>3, BitsAre
<1> QED
  BY <1>7, <1>8, <1>9 DEF list

LEMMA FullIs ==
    /\ PortsOf(<<<<1, MaxPort>>>>) = 1 .. MaxPort
    /\ IsInjective(ParsePorts(<<<<1, MaxPort>>>>))
<1> DEFINE part == <<1, MaxPort>>
           list == [i \in 1 .. MaxPort |-> i]
<1>1. list \in Seq(1 .. MaxPort) /\ Len(list) = MaxPort /\ ToSet(list) = 1 .. MaxPort /\ list # Bad
  <2>1. list \in [1 .. MaxPort -> 1 .. MaxPort] /\ MaxPort \in Nat /\ 1 \in 1 .. MaxPort
    BY BitsAre
  <2>2. list \in Seq(1 .. MaxPort) /\ Len(list) = MaxPort
    BY <2>1, FunctionIsList
  <2>3. list[1] = 1 /\ Bad[1] = 0
    BY <2>1 DEF Bad
  <2>4. ToSet(list) = 1 .. MaxPort
    BY <2>1 DEF ToSet
  <2> HIDE DEF list
  <2> QED
    BY <2>2, <2>3, <2>4
<1>2. PartOK(part) /\ PartPorts(part) = list /\ part \in Seq(Nat)
  <2>1. part[1] = 1 /\ part[2] = MaxPort /\ Len(part) = 2 /\ MaxPort \in Nat /\ MaxPort >= 1
    BY BitsAre
  <2>2. PartOK(part)
    BY <2>1 DEF PartOK
  <2>3. PartPorts(part) = [i \in 1 .. (MaxPort - 1 + 1) |-> 1 + i - 1]
    BY <2>1 DEF PartPorts
  <2>4. [i \in 1 .. (MaxPort - 1 + 1) |-> 1 + i - 1] = list
    BY <2>1
  <2> QED
    BY <2>1, <2>2, <2>3, <2>4
<1>6. IsInjective(list)
  BY DEF IsInjective
<1> HIDE DEF part, list
<1>3. NextPorts(<<>>, part) = list
  <2>1. <<>> # Bad
    BY DEF Bad
  <2>2. <<>> \o list = list
    BY <1>1, ConcatEmptySeq
  <2>3. ~(Len(list) > MaxParsedPorts)
    BY <1>1, BitsAre
  <2> QED
    BY <1>2, <2>1, <2>2, <2>3 DEF NextPorts
<1>4. ReadsAs(<<part>>, list)
  <2>1. <<>> \in Seq(Seq(Nat)) /\ Append(<<>>, part) = <<part>>
    BY <1>2
  <2>2. ReadsAs(Append(<<>>, part), NextPorts(<<>>, part))
    BY <1>2, <2>1, ReadsMore, ReadsNothing
  <2> QED
    BY <1>3, <2>1, <2>2
<1>5. ParsePorts(<<part>>) = list
  <2>1. Len(<<part>>) \in Nat /\ <<part>> # <<>>
    OBVIOUS
  <2> QED
    BY <2>1, <1>4, ParsePortsIs
<1> QED
  BY <1>1, <1>5, <1>6 DEF PortsOf, part

\* No ports are written as nothing, which is read as no ports.
LEMMA NothingMerged ==
    /\ CompressPorts(SetToSeq({})) = <<>>
    /\ PortsOf(<<>>) = {} /\ IsInjective(ParsePorts(<<>>))
<1> DEFINE list == SetToSeq({})
<1>1. Len(list) = 0 /\ list \in Seq(1 .. MaxPort)
  <2>1. Cardinality({}) = 0
    BY FS_EmptySet
  <2> DEFINE f == [i \in 1 .. 0 |-> i]
  <2>2. f \in [1 .. 0 -> {}] /\ IsInjective(f)
    BY DEF IsInjective
  <2>3. list \in [1 .. 0 -> {}]
    BY <2>1, <2>2 DEF SetToSeq
  <2> HIDE DEF list
  <2>4. list \in [1 .. 0 -> 1 .. MaxPort]
    BY <2>3
  <2> QED
    BY <2>4, FunctionIsList
<1> HIDE DEF list
<1>2. Sorted(list) \in [1 .. 0 -> 1 .. MaxPort]
  BY <1>1, SortedIs
<1>3. CompressPorts(list) = <<>>
  <2>1. PICK f : IsWriting(Sorted(list), f, 0) /\ CompressPorts(list) = f[0]
    BY <1>2, CompressIs
  <2> QED
    BY <2>1 DEF IsWriting
<1>4. ParsePorts(<<>>) = Bad
  BY DEF ParsePorts
<1>5. IsInjective(Bad)
  BY DEF Bad, IsInjective
<1> QED
  BY <1>3, <1>4, <1>5 DEF list, PortsOf

\* Ports that are compressed are read again, each once.
LEMMA CompressedSet ==
    ASSUME NEW S, S \subseteq 1 .. MaxPort
    PROVE  LET spec == CompressPorts(SetToSeq(S))
           IN  PortsOf(spec) = S /\ IsInjective(ParsePorts(spec))
<1> DEFINE ports == SetToSeq(S)
           s     == Sorted(ports)
           n     == Len(ports)
<1>1. CASE S = {}
  BY <1>1, NothingMerged
<1>2. CASE S # {}
  <2>1. /\ ports \in Seq(1 .. MaxPort) /\ ToSet(ports) = S
        /\ n \in 1 .. MaxParsedPorts /\ n = Cardinality(S)
    BY <1>2, ListOfSet
  <2> HIDE DEF ports
  <2>2. /\ ParsePorts(CompressPorts(ports)) = s
        /\ s \in [1 .. n -> 1 .. MaxPort] /\ ToSet(s) = S
    BY <2>1, RoundTrips
  <2>3. n \in Nat /\ 1 \in 1 .. n
    BY <2>1, BitsAre
  <2> HIDE DEF s, n
  <2>4. s # Bad
    <3>1. s[1] \in 1 .. MaxPort
      BY <2>2, <2>3
    <3> QED
      BY <3>1, BitsAre DEF Bad
  <2>5. s \in Injection(1 .. n, S)
    <3>1. s \in Surjection(1 .. n, S)
      BY <2>2 DEF Surjection, ToSet
    <3>2. IsFiniteSet(1 .. n) /\ Cardinality(1 .. n) = n
      BY <2>3, FS_Interval
    <3> QED
      BY <2>1, <3>1, <3>2, FS_Surjection
  <2>6. IsInjective(s)
    BY <2>2, <2>5 DEF Injection, IsInjective
  <2> QED
    BY <2>2, <2>4, <2>6 DEF PortsOf, ports
<1> QED
  BY <1>1, <1>2

\* Of a specification that is refused nothing is read.
LEMMA PortsAre ==
    ASSUME NEW spec \in Seq(Seq(Nat)) PROVE PortsOf(spec) \subseteq 1 .. MaxPort
<1>1. CASE ParsePorts(spec) = Bad
  BY <1>1 DEF PortsOf
<1>2. CASE ParsePorts(spec) # Bad
  BY <1>2, ReadPorts
<1> QED
  BY <1>1, <1>2

LEMMA Merged ==
    ASSUME NEW a \in Seq(Seq(Nat)), NEW b \in Seq(Seq(Nat))
    PROVE  MergeKeeps(a, b)
<1> DEFINE merged == MergePortSpecs(a, b)
           full   == <<<<1, MaxPort>>>>
           S      == PortsOf(a) \cup PortsOf(b)
<1>1. PortsOf(a) \subseteq 1 .. MaxPort /\ S \subseteq 1 .. MaxPort
  BY PortsAre
<1>2. CASE {a, b} \cap FullSpecs # {}
  <2>1. merged = full
    BY <1>2 DEF MergePortSpecs
  <2>2. PortsOf(merged) = 1 .. MaxPort /\ IsInjective(ParsePorts(merged))
    BY <2>1, FullIs
  <2>3. MergeCommonPorts(a, b) = a \/ MergeCommonPorts(a, b) = merged
    BY DEF MergeCommonPorts
  <2> HIDE DEF merged
  <2>4. PortsOf(a) \subseteq PortsOf(MergeCommonPorts(a, b))
    BY <1>1, <2>2, <2>3
  <2> QED
    BY <1>2, <2>2, <2>4 DEF MergeKeeps, merged
<1>3. CASE {a, b} \cap FullSpecs = {}
  <2>1. merged = CompressPorts(SetToSeq(S)) /\ MergeCommonPorts(a, b) = merged
    BY <1>3 DEF MergePortSpecs, MergeCommonPorts
  <2>2. PortsOf(merged) = S /\ IsInjective(ParsePorts(merged))
    BY <1>1, <2>1, CompressedSet
  <2> HIDE DEF merged
  <2>3. PortsOf(a) \subseteq PortsOf(MergeCommonPorts(a, b))
    BY <2>1, <2>2
  <2> QED
    BY <1>3, <2>2, <2>3 DEF MergeKeeps, merged
<1> QED
  BY <1>2, <1>3

\* For every list of ports and all specifications: what is compressed is read as
\* the same ports, each as often and in order, and a merge is read as exactly the
\* ports of its two specifications, each once, where one that ParsePorts refuses
\* has none (scanner.go:199-248, cli.go:273-279).
THEOREM PortsAreKept == Spec => []SpecsRoundTrip
<1>1. \A ports \in PortLists : RoundTrip(ports)
  BY SpecsAssumption, RoundTrips
<1>2. \A a, b \in Specs : MergeKeeps(a, b)
  <2>1. Specs \subseteq Seq(Seq(Nat))
    BY SpecsAssumption
  <2> QED
    BY <2>1, Merged
<1>3. SpecsRoundTrip
  BY <1>1, <1>2 DEF SpecsRoundTrip
<1> QED
  BY <1>3, PTL
=============================================================================
