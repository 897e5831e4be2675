------------------------------ MODULE FlatArgs ------------------------------
(***************************************************************************)
(* The arguments of the flat mode (parseFlatArgs, cli/flat.go): one pass    *)
(* over the words, which are rofk's own flags, targets, or flags that go to  *)
(* nmap unchanged.  One representative stands for the flags that are treated *)
(* alike, and a word of the user's is any string without a leading dash.     *)
(***************************************************************************)
EXTENDS Integers, Sequences, FiniteSets

CONSTANT NmapFlags     \* the words that start with a dash and are not rofk's

\* rofk's flags with a value (-out stands for -type, -conc, -confirm and
\* -timeout too), and without.
OwnValueFlags == {"-proxlist", "-ip", "-out", "-tool", "-nmap-path"}
OwnSwitches   == {"-rotate", "-no-rotate", "-wrap", "-no-wrap"}
PortFlags     == {"-p", "--ports"}

\* nmapValueFlags: the flags of nmap that rofk lets take the next word with them.
NmapValueFlags == {"-oX", "--script"}

Dashed(w) == w \in OwnValueFlags \cup OwnSwitches \cup PortFlags \cup NmapFlags

ASSUME FlagsAssumption ==
    /\ NmapValueFlags \subseteq NmapFlags
    /\ NmapFlags \cap (OwnValueFlags \cup OwnSwitches \cup PortFlags) = {}
    /\ "" \notin NmapFlags

Defaults == [proxList |-> "", targets |-> <<>>, ports |-> "", outFile |-> "",
             tool |-> "builtin", rotate |-> TRUE, wrap |-> TRUE, nmapPath |-> "",
             nmapExtra |-> <<>>]

\* The flag w with the value v.
SetValue(fa, w, v) ==
    CASE w = "-proxlist"  -> [fa EXCEPT !.proxList = v]
      [] w = "-ip"        -> [fa EXCEPT !.targets = Append(@, v)]
      [] w = "-out"       -> [fa EXCEPT !.outFile = v]
      [] w = "-tool"      -> [fa EXCEPT !.tool = v]
      [] w = "-nmap-path" -> [fa EXCEPT !.nmapPath = v]

SetSwitch(fa, w) ==
    CASE w \in {"-rotate", "-no-rotate"} -> [fa EXCEPT !.rotate = (w = "-rotate")]
      [] w \in {"-wrap", "-no-wrap"}     -> [fa EXCEPT !.wrap = (w = "-wrap")]

Forward(fa, ws) == [fa EXCEPT !.nmapExtra = @ \o ws]

\* The values of nmap's flags are not taken with them.
ParseFlatArgs_NoValues(args) ==
    LET Peek(i) == IF i < Len(args) THEN args[i + 1] ELSE ""
        state[i \in 0 .. Len(args)] ==
            IF i = 0 THEN [fa |-> Defaults, took |-> FALSE]
            ELSE LET w   == args[i]
                     v   == Peek(i)
                     fa  == state[i - 1].fa
                     Single(g) == [fa |-> g, took |-> FALSE]
                     Pair(g)   == [fa |-> g, took |-> TRUE]
                 IN  IF state[i - 1].took THEN Single(fa)
                     ELSE CASE w \in OwnValueFlags -> Pair(SetValue(fa, w, v))
                            [] w \in OwnSwitches   -> Single(SetSwitch(fa, w))
                            [] w \in PortFlags /\ (v = "" \/ Dashed(v))
                                 -> Single(Forward(fa, <<w>>))
                            [] w \in PortFlags /\ v # "" /\ ~Dashed(v)
                                 -> Pair([Forward(fa, <<"-p", v>>) EXCEPT !.ports = v])
                            [] ~Dashed(w) -> Single([fa EXCEPT !.targets = Append(@, w)])
                            [] OTHER -> Single(Forward(fa, <<w>>))
    IN  state[Len(args)].fa

\* state[i]: what was collected from the first i words, and whether the last of
\* them has taken the next with it.
ParseFlatArgs(args) ==
    LET Peek(i) == IF i < Len(args) THEN args[i + 1] ELSE ""
        state[i \in 0 .. Len(args)] ==
            IF i = 0 THEN [fa |-> Defaults, took |-> FALSE]
            ELSE LET w   == args[i]
                     v   == Peek(i)
                     fa  == state[i - 1].fa
                     Single(g) == [fa |-> g, took |-> FALSE]
                     Pair(g)   == [fa |-> g, took |-> TRUE]
                 IN  IF state[i - 1].took THEN Single(fa)
                     ELSE CASE w \in OwnValueFlags -> Pair(SetValue(fa, w, v))
                            [] w \in OwnSwitches   -> Single(SetSwitch(fa, w))
                            [] w \in PortFlags /\ (v = "" \/ Dashed(v))
                                 -> Single(Forward(fa, <<w>>))
                            [] w \in PortFlags /\ v # "" /\ ~Dashed(v)
                                 -> Pair([Forward(fa, <<"-p", v>>) EXCEPT !.ports = v])
                            [] ~Dashed(w) -> Single([fa EXCEPT !.targets = Append(@, w)])
                            [] w \in NmapFlags /\ w \in NmapValueFlags /\ v # ""
                                 -> Pair(Forward(fa, <<w, v>>))
                            [] OTHER -> Single(Forward(fa, <<w>>))
    IN  state[Len(args)].fa

-----------------------------------------------------------------------------
(* The same, word by word: what a word is follows from its place. *)

\* The words with the empty one that nextVal and consume find behind the last.
Line(args) == Append(args, "")

\* The places of the words that belong to the flag in front of them.
Values(line) ==
    LET isValue[i \in 0 .. Len(line)] ==
            /\ i > 1 /\ ~isValue[i - 1]
            /\ \/ line[i - 1] \in OwnValueFlags
               \/ line[i - 1] \in NmapValueFlags /\ line[i] # ""
               \/ line[i - 1] \in PortFlags /\ line[i] # "" /\ ~Dashed(line[i])
    IN  {i \in 1 .. Len(line) : isValue[i]}

IsTarget(line, i) ==
    IF i \in Values(line) THEN line[i - 1] = "-ip" ELSE i < Len(line) /\ ~Dashed(line[i])

IsForwarded(line, i) ==
    IF i \in Values(line) THEN line[i - 1] \in NmapValueFlags \cup PortFlags
    ELSE i < Len(line) /\ line[i] \in NmapFlags \cup PortFlags

\* ws are the words in the places S, each once and in their order, up to those
\* that are rewritten.
Lists(ws, line, S, rewritten) ==
    \E at \in [1 .. Cardinality(S) -> S] :
       /\ \A j, k \in 1 .. Cardinality(S) : j < k => at[j] < at[k]
       /\ Len(ws) = Cardinality(S)
       /\ \A k \in 1 .. Cardinality(S) :
             ws[k] = line[at[k]] \/ <<line[at[k]], ws[k]>> \in rewritten

\* Targets and the words for nmap are exactly the words in such a place, in
\* their order: the value of a flag on rofk's list of nmap's flags is never
\* scanned as a target, nor a target lost to a flag (flat.go:64-160).  nmap has
\* flags with a value that are not on the list; theirs IS a target, against
\* README.md:131.  (A last "-ip" without a value adds the empty target.)
ParseKeepsWords(args) ==
    LET fa   == ParseFlatArgs(args)
        line == Line(args)
    IN  /\ Lists(fa.targets, line, {i \in 1 .. Len(line) : IsTarget(line, i)}, {})
        /\ Lists(fa.nmapExtra, line, {i \in 1 .. Len(line) : IsForwarded(line, i)},
                 {<<"--ports", "-p">>})
=============================================================================
