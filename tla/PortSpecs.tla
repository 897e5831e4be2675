----------------------------- MODULE PortSpecs -----------------------------
(***************************************************************************)
(* Port specifications and targets (scanner/scanner.go).  A specification   *)
(* is the sequence of its comma-separated parts: <<n>> for a number,        *)
(* <<a, b>> for a range and <<>> for a part that is neither.  An address is *)
(* a number of Bits bits.                                                   *)
(***************************************************************************)
EXTENDS Integers, Sequences, FiniteSets, SequencesExt

CONSTANTS MaxPort,         \* 65535
          MaxParsedPorts,  \* maxParsedPorts
          Bits,            \* bits of an IPv4 address (32)
          PortLists,       \* lists of ports to compress
          Specs            \* specifications to merge

ASSUME SpecsAssumption ==
    /\ {MaxPort, MaxParsedPorts, Bits} \subseteq Nat \ {0}
    /\ MaxPort <= MaxParsedPorts
    /\ \A ports \in PortLists :
          ports \in Seq(1 .. MaxPort) /\ Len(ports) \in 1 .. MaxParsedPorts
    /\ Specs \subseteq Seq(Seq(Nat))

Bad == <<0>>    \* an error in place of the ports

\* The ports of one part.
PartPorts(part) == IF Len(part) = 1 THEN part
                   ELSE [i \in 1 .. (part[2] - part[1] + 1) |-> part[1] + i - 1]

PartOK(part) == \/ Len(part) = 1 /\ part[1] \in 1 .. MaxPort
                \/ /\ Len(part) = 2
                   /\ part[1] >= 1 /\ part[2] <= MaxPort /\ part[1] <= part[2]

\* All ports in the order written, repeated ones repeated.
ParsePorts(spec) ==
    LET upTo[i \in 0 .. Len(spec)] ==
            IF i = 0 THEN <<>>
            ELSE IF upTo[i - 1] = Bad \/ ~PartOK(spec[i]) THEN Bad
            ELSE IF Len(upTo[i - 1] \o PartPorts(spec[i])) > MaxParsedPorts THEN Bad
            ELSE upTo[i - 1] \o PartPorts(spec[i])
    IN  IF spec = <<>> THEN Bad ELSE upTo[Len(spec)]   \* "" is one part, no number

Part(first, last) == IF first = last THEN <<first>> ELSE <<first, last>>

\* sort.Ints: place k has the number with fewer than k below it and at least k
\* up to it.
Sorted(ports) ==
    [k \in 1 .. Len(ports) |->
        CHOOSE p \in ToSet(ports) :
            /\ Cardinality({i \in 1 .. Len(ports) : ports[i] < p}) < k
            /\ Cardinality({i \in 1 .. Len(ports) : ports[i] <= p}) >= k]

\* The last run of numbers is not written.
CompressPorts_NoLast(ports) ==
    LET s == Sorted(ports)
        parts[i \in 0 .. Len(s)] ==
            IF i = 0 THEN <<>>
            ELSE IF i > 1 /\ s[i] = s[i - 1] + 1
                 THEN [parts[i - 1] EXCEPT ![Len(parts[i - 1])] = Part(@[1], s[i])]
                 ELSE Append(parts[i - 1], Part(s[i], s[i]))
    IN  Front(parts[Len(s)])

\* Sorted, with a part for each run of consecutive numbers.
CompressPorts(ports) ==
    LET s == Sorted(ports)
        parts[i \in 0 .. Len(s)] ==
            IF i = 0 THEN <<>>
            ELSE IF i > 1 /\ s[i] = s[i - 1] + 1
                 THEN [parts[i - 1] EXCEPT ![Len(parts[i - 1])] = Part(@[1], s[i])]
                 ELSE Append(parts[i - 1], Part(s[i], s[i]))
    IN  parts[Len(s)]

FullSpecs == {<<<<1, MaxPort>>>>, <<<<0, MaxPort>>>>}

PortsOf(spec) == IF ParsePorts(spec) = Bad THEN {} ELSE ToSet(ParsePorts(spec))

\* A specification that cannot be parsed adds nothing.
MergePortSpecs(a, b) ==
    IF a \in FullSpecs \/ b \in FullSpecs THEN <<<<1, MaxPort>>>>
    ELSE CompressPorts(SetToSeq(PortsOf(a) \cup PortsOf(b)))

\* mergeCommonPorts (cli/cli.go): a full specification is left as it is.
MergeCommonPorts(spec, common) ==
    IF spec \in FullSpecs THEN spec ELSE MergePortSpecs(spec, common)

-----------------------------------------------------------------------------
(* Targets *)

\* How many addresses have their first ones bits in common.
NetSize(ones) ==
    LET double[i \in 0 .. Bits - ones] == IF i = 0 THEN 1 ELSE 2 * double[i - 1]
    IN  double[Bits - ones]

Hosts(address, ones) ==    \* the addresses of the network, in order
    LET base == (address \div NetSize(ones)) * NetSize(ones)
    IN  [i \in 1 .. NetSize(ones) |-> base + i - 1]

\* The first address is dropped, the last is kept.
ExpandTarget_KeepsLast(address, ones) ==
    LET all == Hosts(address, ones)
    IN  IF Bits - ones > 1 THEN Tail(all) ELSE all

\* The addresses of a CIDR target; ones > 0: with a prefix of length 0 the
\* address after the last is the first again, and the loop does not end.
ExpandTarget(address, ones) ==
    LET all == Hosts(address, ones)
    IN  IF Bits - ones > 1 THEN SubSeq(all, 2, Len(all) - 1) ELSE all

-----------------------------------------------------------------------------
HowOften(list, p) == Cardinality({i \in DOMAIN list : list[i] = p})

\* What is compressed parses to the same ports, each as often and in increasing
\* order, however the list was ordered (scanner.go:199-226 against 47-76).
RoundTrip(ports) ==
    LET read == ParsePorts(CompressPorts(ports))
    IN  /\ DOMAIN read = DOMAIN ports
        /\ \A i, j \in DOMAIN read : i <= j => read[i] <= read[j]
        /\ \A p \in 1 .. MaxPort : HowOften(read, p) = HowOften(ports, p)

\* A merge names exactly the ports of the two specifications, each once, and a full
\* one makes it full; with the common ports added a list has all its own
\* (scanner.go:229-248, cli.go:273-279).  The ports of a specification are those
\* ParsePorts reads: none, when it refuses any part, whatever nmap would make of
\* it (ports from 0, names), so a second run of nmap may lack ports of the first.
MergeKeeps(a, b) ==
    LET merged == MergePortSpecs(a, b)
    IN  /\ PortsOf(merged) = IF {a, b} \cap FullSpecs # {} THEN 1 .. MaxPort
                             ELSE PortsOf(a) \cup PortsOf(b)
        /\ IsInjective(ParsePorts(merged))
        /\ PortsOf(a) \subseteq PortsOf(MergeCommonPorts(a, b))

\* Two networks of one size that do not overlap have no host in common, every
\* address of a network is scanned but its own address and the broadcast
\* address, and none twice (scanner.go:81-102).
TargetsAreDisjoint(ones) ==
    \A a, b \in 0 .. (NetSize(0) - 1) :
        LET x == ExpandTarget(a, ones)
            y == ExpandTarget(b, ones)
        IN  /\ IsInjective(x)
            /\ x = y \/ ToSet(x) \cap ToSet(y) = {}
            /\ \A h \in ToSet(Hosts(a, ones)) \ ToSet(x) :
                   Bits - ones > 1 /\ h % NetSize(ones) \in {0, NetSize(ones) - 1}
            /\ Bits - ones > 1 => \A h \in ToSet(x) :
                   h % NetSize(ones) \notin {0, NetSize(ones) - 1}
=============================================================================
