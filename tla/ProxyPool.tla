----------------------------- MODULE ProxyPool -----------------------------
(***************************************************************************)
(* The shared proxy pool (pool/pool.go).  Its methods lock, so each is one  *)
(* step of whoever calls it; here they are operators on the slices.         *)
(* An entry is a pointer to a parsed proxy: two entries may describe the    *)
(* same proxy, and an entry is never shared by two lists on purpose.         *)
(***************************************************************************)
EXTENDS Integers, Sequences, SequencesExt

NoProxy == "nil"

\* The index Next leaves behind: it wraps when the rotation is past the end.
NextIndex(valid, index, wrap) ==
    IF valid # <<>> /\ index >= Len(valid) /\ wrap THEN 0 ELSE index

\* What Next returns.
NextProxy(valid, index, wrap) ==
    LET i == NextIndex(valid, index, wrap)
    IN  IF i < Len(valid) THEN valid[i + 1] ELSE NoProxy

\* What a caller of SetValid keeps of the pool it read, in its order.
Keep(snapshot, kept) ==
    LET upTo[i \in 0 .. Len(snapshot)] ==
            IF i = 0 THEN <<>>
            ELSE IF snapshot[i] \in kept THEN Append(upTo[i - 1], snapshot[i])
            ELSE upTo[i - 1]
    IN  upTo[Len(snapshot)]
=============================================================================
