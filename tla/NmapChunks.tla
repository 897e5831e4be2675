----------------------------- MODULE NmapChunks -----------------------------
(***************************************************************************)
(* How the rotating nmap scan of the GUI deals a target's hosts out to the   *)
(* proxies (gui/app.go, runNmapCIDR): in consecutive pieces of one size.      *)
(***************************************************************************)
EXTENDS Integers, Sequences, SequencesExt

\* A version that rounds down.
ChunkSize_Down(hosts, proxies) == hosts \div proxies

ChunkSize(hosts, proxies) == (hosts + proxies - 1) \div proxies

\* How many pieces are announced to the progress bar.
ChunksLaunched(hosts, proxies) ==
    LET size == ChunkSize(hosts, proxies)
        Ends == {i \in 0 .. proxies - 1 : i * size >= hosts}
    IN  IF Ends = {} THEN proxies ELSE CHOOSE i \in Ends : \A j \in Ends : i <= j

\* The piece of the proxy in place i, counted from 0: empty when the loop has
\* ended before it.
Chunk(allIPs, i, proxies) ==
    LET size  == ChunkSize(Len(allIPs), proxies)
        start == i * size
        end   == IF start + size > Len(allIPs) THEN Len(allIPs) ELSE start + size
    IN  SubSeq(allIPs, start + 1, end)

\* Every host is scanned through exactly one proxy, in the shuffled order, and
\* as many pieces are launched as the progress bar waits for.
DealsAll(hosts, proxies) ==
    LET allIPs == [i \in 1 .. hosts |-> i]
        chunks == [i \in 1 .. proxies |-> Chunk(allIPs, i - 1, proxies)]
    IN  /\ FlattenSeq(chunks) = allIPs
        /\ \A i \in 1 .. proxies : chunks[i] # <<>> <=> i <= ChunksLaunched(hosts, proxies)
=============================================================================
