------------------------------- MODULE Relay -------------------------------
(***************************************************************************)
(* The local SOCKS4 relay that nmap is pointed at (relay/relay.go).  One    *)
(* goroutine accepts; each connection of nmap has a handler that reads the  *)
(* request, opens a tunnel through the proxy (SocksExchange, read in full)  *)
(* and splices the two with two copiers.  A connection of nmap and the      *)
(* handler's connection to the proxy have the same name, a link.            *)
(***************************************************************************)
EXTENDS SocksExchange, ProxyPool

CONSTANTS Kind,       \* Kind[p]: the protocol of a proxy and whether it has credentials
          RelayLinks, \* bound: the connections that nmap may make
          MaxData     \* bound: how much a target sends through one tunnel, and how much
                      \* of nmap's may wait to be read

ASSUME RelayAssumption == /\ RelayLinks \subseteq Links /\ RelayLinks \subseteq Nat
                          /\ MaxData \in Nat

VARIABLES
    listening,  \* the proxy of the relay whose listener is open, or NoProxy
    owner,      \* r.px of the relay that a connection was made to
    hpc,        \* the handler of a connection
    peer,       \* nmap's end is open
    late,       \* the client's deadline passed while the proxy was dialled
    said,       \* how much the target sent
    down,       \* what nmap has received after the grant
    copying,    \* copying[c]: the copiers that run
    inbox,      \* how much nmap sent that was not read
    writing,    \* the copier to the proxy has read what it has not yet written
    refused     \* history: what nmap sent met a connection that was closed behind it

dvars == <<said, down, inbox, writing, refused>>     \* the data of the tunnels
rvars == <<listening, owner, hpc, peer, late, copying, dvars>>

Data == 7       \* a byte of the target's
Idle == "none"

RelayInit ==
    /\ listening = NoProxy /\ owner = [c \in RelayLinks |-> NoProxy]
    /\ hpc = [c \in RelayLinks |-> Idle]
    /\ peer = [c \in RelayLinks |-> FALSE] /\ late = [c \in RelayLinks |-> FALSE]
    /\ said = [c \in RelayLinks |-> 0] /\ down = [c \in RelayLinks |-> <<>>]
    /\ copying = [c \in RelayLinks |-> {}] /\ inbox = [c \in RelayLinks |-> 0]
    /\ writing = [c \in RelayLinks |-> FALSE] /\ refused = [c \in RelayLinks |-> FALSE]

Becomes(c, h) == hpc' = [hpc EXCEPT ![c] = h]

-----------------------------------------------------------------------------
(* nmap (external) *)

NmapConnects(c) ==
    /\ listening # NoProxy
    /\ hpc[c] = Idle
    /\ owner' = [owner EXCEPT ![c] = listening]
    /\ \A d \in RelayLinks : d < c => hpc[d] # Idle
    /\ Becomes(c, "backlog")
    /\ peer' = [peer EXCEPT ![c] = TRUE]
    /\ UNCHANGED <<listening, late, dvars, copying, xvars>>

\* It ends its connection as a whole: there is no half-close.
NmapCloses(c) ==
    /\ peer[c]
    /\ peer' = [peer EXCEPT ![c] = FALSE]
    /\ UNCHANGED <<listening, owner, hpc, late, dvars, copying, xvars>>

NmapSends(c) ==
    /\ peer[c] /\ hpc[c] = "splice"
    /\ inbox[c] < MaxData
    /\ inbox' = [inbox EXCEPT ![c] = @ + 1]
    /\ UNCHANGED <<listening, owner, hpc, peer, late, copying, said, down, writing, refused,
                   xvars>>

\* Through the tunnel: the target sends,
TargetSends(c) ==
    /\ srv[c] = "tunnel" /\ xpc[c] \in {"connect", "bound", "reply4", "ok"} /\ ~gone[c]
    /\ hpc[c] \in {"exchange", "splice"}
    /\ said[c] < MaxData
    /\ said' = [said EXCEPT ![c] = @ + 1]
    /\ stream' = [stream EXCEPT ![c] = Append(@, Data)]
    /\ UNCHANGED <<listening, owner, hpc, peer, late, down, copying, inbox, writing, refused,
                   reader, xpc, via, srv, gone, cut, left, why>>

\* and closes.
TargetCloses(c) ==
    /\ xpc[c] = "ok" /\ ~gone[c] /\ hpc[c] \in {"exchange", "splice"}
    /\ gone' = [gone EXCEPT ![c] = TRUE]
    /\ UNCHANGED <<rvars, reader, xpc, via, srv, stream, cut, left, why>>

-----------------------------------------------------------------------------
(* The relay *)

\* Start, for one proxy.
RelayStarts(p) ==
    /\ listening = NoProxy
    /\ listening' = p
    /\ UNCHANGED <<owner, hpc, peer, late, dvars, copying, xvars>>

\* Stop closes the listener, and with it the connections not yet accepted; the
\* handlers go on.
RelayStops ==
    /\ listening' = NoProxy
    /\ hpc' = [c \in RelayLinks |-> IF hpc[c] = "backlog" THEN "closed" ELSE hpc[c]]
    /\ UNCHANGED <<owner, peer, late, dvars, copying, xvars>>

Accept(c) ==
    /\ hpc[c] = "backlog"
    /\ Becomes(c, "header")
    /\ UNCHANGED <<listening, owner, peer, late, dvars, copying, xvars>>

\* The request is read: the header, with an address or the mark 0.0.0.x of a name,
\* the user id, and the name.  Anything but a CONNECT ends the handler.
ReadHeader(c) ==
    /\ hpc[c] = "header"
    /\ \/ Becomes(c, "userid") \/ Becomes(c, "userid, name") \/ Becomes(c, "closed")
    /\ UNCHANGED <<listening, owner, peer, late, dvars, copying, xvars>>

ReadUntilNull(c) ==
    /\ hpc[c] \in {"userid", "userid, name", "name"}
    /\ Becomes(c, IF hpc[c] = "userid, name" THEN "name" ELSE "dial")
    /\ UNCHANGED <<listening, owner, peer, late, dvars, copying, xvars>>

\* nmap has closed its end, or the deadline set at the start passes.
ReadFails(c) ==
    /\ hpc[c] \in {"header", "userid", "userid, name", "name"}
    /\ Becomes(c, "closed")
    /\ UNCHANGED <<listening, owner, peer, late, dvars, copying, xvars>>

\* That deadline goes on while the proxy is dialled.
ClientDeadline(c) ==
    /\ hpc[c] \in {"dial", "exchange"} /\ ~late[c]
    /\ late' = [late EXCEPT ![c] = TRUE]
    /\ UNCHANGED <<listening, owner, hpc, peer, dvars, copying, xvars>>

\* dialUpstream begins, through the relay's proxy.
DialUpstream(c) ==
    /\ hpc[c] = "dial"
    /\ Becomes(c, "exchange")
    /\ Begin(c, Kind[owner[c]])
    /\ UNCHANGED <<listening, owner, peer, late, dvars, copying>>

Exchange(c) ==
    /\ hpc[c] = "exchange"
    /\ ClientStep(c)
    /\ UNCHANGED rvars

ProxyStep(c) ==
    /\ hpc[c] = "exchange"
    /\ ServerStep(c)
    /\ UNCHANGED rvars

\* It failed: no reply is written, the client is closed.
DialFails(c) ==
    /\ hpc[c] = "exchange" /\ xpc[c] = "failed"
    /\ Becomes(c, "closed")
    /\ Close(c)
    /\ late' = [late EXCEPT ![c] = FALSE]
    /\ UNCHANGED <<listening, owner, peer, dvars, copying>>

Copiers == {"up", "down"}

\* It succeeded: the reply is written, the deadlines are cleared and the copiers
\* started.
Grant(c) ==
    /\ hpc[c] = "exchange" /\ xpc[c] = "ok"
    /\ ~late[c]
    /\ Becomes(c, "splice")
    /\ copying' = [copying EXCEPT ![c] = Copiers]
    /\ UNCHANGED <<listening, owner, peer, late, dvars, xvars>>

\* The reply cannot be written.
GrantFails(c) ==
    /\ hpc[c] = "exchange" /\ xpc[c] = "ok"
    /\ late[c] \/ ~peer[c]
    /\ Becomes(c, "closed")
    /\ Close(c)
    /\ late' = [late EXCEPT ![c] = FALSE]
    /\ UNCHANGED <<listening, owner, peer, dvars, copying>>

\* io.Copy(client, upstream) moves a byte.  Its write waits for nmap to read.
CopyDown(c) ==
    /\ hpc[c] = "splice" /\ "down" \in copying[c]
    /\ peer[c] /\ stream[c] # <<>>
    /\ down' = [down EXCEPT ![c] = Append(@, Head(stream[c]))]
    /\ Took(c, 1)
    /\ UNCHANGED <<listening, owner, hpc, peer, late, said, copying, inbox, writing, refused,
                   reader, xpc, via, srv, gone, cut, left, why>>

\* io.Copy(upstream, client) reads, also what nmap sent before it closed,
CopyUp(c) ==
    /\ hpc[c] = "splice" /\ "up" \in copying[c]
    /\ inbox[c] > 0 /\ ~writing[c]
    /\ inbox' = [inbox EXCEPT ![c] = @ - 1]
    /\ writing' = [writing EXCEPT ![c] = TRUE]
    /\ UNCHANGED <<listening, owner, hpc, peer, late, copying, said, down, refused, xvars>>

\* and writes.  No deadline ends a write that the proxy leaves waiting; the first
\* one after the proxy has closed may succeed, and is answered by a reset.
WriteUp(c) ==
    /\ hpc[c] = "splice" /\ writing[c]
    /\ writing' = [writing EXCEPT ![c] = FALSE]
    /\ refused' = [refused EXCEPT ![c] = @ \/ gone[c]]
    /\ UNCHANGED <<listening, owner, hpc, peer, late, copying, said, down, inbox, xvars>>

\* When io.Copy(upstream, client) returns: its read finds nmap's end closed or reset,
\* or its write a connection that the proxy has closed.
UpEnds(c) == IF writing[c] THEN gone[c] ELSE ~peer[c]

\* When io.Copy(client, upstream) does: its write finds nmap's end closed, or its
\* read the end of the stream; after a reset the read may fail before that.
DownEnds(c) == \/ ~peer[c] /\ stream[c] # <<>>
               \/ gone[c] /\ (stream[c] = <<>> \/ refused[c])

\* Both return when the handler has closed the connections.
MayEnd(c, i) == hpc[c] = "done" \/ (i = "up" /\ UpEnds(c)) \/ (i = "down" /\ DownEnds(c))

\* A copier returns.  With the second after the handler's end, the connections are
\* forgotten.
Returns(c, i) ==
    /\ i \in copying[c] /\ MayEnd(c, i)
    /\ IF hpc[c] = "done"
       THEN /\ Close(c)
            /\ said' = [said EXCEPT ![c] = 0] /\ down' = [down EXCEPT ![c] = <<>>]
            /\ inbox' = [inbox EXCEPT ![c] = 0]
            /\ writing' = [writing EXCEPT ![c] = FALSE]
            /\ refused' = [refused EXCEPT ![c] = FALSE]
       ELSE /\ writing' = [writing EXCEPT ![c] = @ /\ i # "up"]
            /\ refused' = [refused EXCEPT ![c] = @ \/ (i = "up" /\ writing[c])]
            /\ UNCHANGED <<said, down, inbox, xvars>>

\* errc <- struct{}{} on a channel that holds nothing.
CopierEnds_Unbuffered(c, i) ==
    /\ hpc[c] = "splice" /\ copying[c] = Copiers
    /\ Returns(c, i)
    /\ copying' = [copying EXCEPT ![c] = @ \ {i}]
    /\ UNCHANGED <<listening, owner, hpc, peer, late>>

\* errc <- struct{}{}: there is room for both.
CopierEnds(c, i) ==
    /\ Returns(c, i)
    /\ copying' = [copying EXCEPT ![c] = @ \ {i}]
    /\ UNCHANGED <<listening, owner, hpc, peer, late>>

\* The splice lasts until nothing more is to come from either side.
Finish_WhenAnySilent(c) ==
    /\ hpc[c] = "splice" /\ (copying[c] # Copiers \/ gone[c])
    /\ Becomes(c, "done")
    /\ UNCHANGED <<listening, owner, peer, late, dvars, copying, xvars>>

\* <-errc: the first copier that ends closes both connections.
Finish(c) ==
    /\ hpc[c] = "splice" /\ copying[c] # Copiers
    /\ Becomes(c, "done")
    /\ UNCHANGED <<listening, owner, peer, late, dvars, copying, xvars>>

-----------------------------------------------------------------------------
Handler(c)   == \/ Accept(c) \/ ReadHeader(c) \/ ReadUntilNull(c) \/ ReadFails(c)
                \/ DialUpstream(c) \/ Exchange(c) \/ DialFails(c)
                \/ Grant(c) \/ GrantFails(c) \/ CopyUp(c) \/ Finish(c)
                \/ \E i \in Copiers : CopierEnds(c, i)

\* What nmap, the target and the proxy do, and the writes that wait for them.
Elsewhere(c) == \/ NmapSends(c) \/ NmapCloses(c) \/ TargetSends(c) \/ TargetCloses(c)
                \/ ProxyStep(c) \/ ClientDeadline(c) \/ CopyDown(c) \/ WriteUp(c)

\* What nmap receives through a tunnel was sent by the target: no byte of the
\* handshake is left in front of it, unless draining the bound address failed or
\* its type is not known, errors the relay ignores (relay.go:222-231).
CleanTunnel ==
    \A c \in RelayLinks : why[c] = NoError => \A i \in 1 .. Len(down[c]) : down[c][i] = Data

\* When the handler ends and nmap has not closed, all that came from the target
\* was passed on before the connection was closed, also when the target closed
\* first; it is cut off only after nmap itself sent something to a connection that
\* was closed: that ends the other copier, which then takes both connections down,
\* or resets the one the target's bytes are read from (relay.go:124-127).
LastWords ==
    \A c \in RelayLinks : hpc[c] = "done" /\ peer[c] => stream[c] = <<>> \/ refused[c]
=============================================================================
