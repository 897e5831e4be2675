--------------------------- MODULE SocksExchange ---------------------------
(***************************************************************************)
(* The client side of the SOCKS handshake, written twice in the code: for   *)
(* the scanner and the validation (proxy/validate.go), where a reply is     *)
(* whatever ONE Read of the connection returns, and for the relay           *)
(* (relay/relay.go), which reads each reply in full (io.ReadFull).          *)
(*                                                                         *)
(* A reply is a sequence of bytes, with the runs of bytes nobody looks at   *)
(* shortened to one.  TCP keeps their order but not their boundaries: a     *)
(* Read returns any part that has arrived.  The proxy at the other end is   *)
(* external; it follows the protocol, and closes or goes silent anywhere.   *)
(***************************************************************************)
EXTENDS Integers, Sequences, SequencesExt, ProxyErrors

CONSTANTS
    Links,           \* connections to a proxy
    MethodReplies,   \* what a proxy may answer to the greeting,
    ConnectReplies,  \* to CONNECT,
    Socks4Codes,     \* and the codes it may answer to a SOCKS4 request
    Local            \* what may fail before a SOCKS4 request is sent

ASSUME RepliesAssumption ==
    /\ MethodReplies \subseteq Seq(Nat) /\ ConnectReplies \subseteq Seq(Nat)
    /\ \A r \in MethodReplies : Len(r) = 2
    /\ \A r \in ConnectReplies : Len(r) >= 4 /\ r[1] = 5
    /\ Socks4Codes \subseteq Nat /\ Local \subseteq LocalFailures

\* A proxy that follows the protocol sends, behind the four bytes of the header, an
\* address as long as its type says: of IPv4, a name, IPv6.
ASSUME BoundAssumption ==
    \A r \in ConnectReplies :
        /\ r[4] = 1 => Len(r) = 5
        /\ r[4] = 3 => Len(r) = 6
        /\ r[4] = 4 => Len(r) = 7

VARIABLES
    reader,   \* "once" or "full": which of the two is used
    xpc,      \* where the client is in the exchange
    via,      \* the proxy: its protocol, and whether credentials are configured
    srv,      \* where the proxy is
    stream,   \* the bytes it sent that were not read yet
    gone,     \* the connection is closed or broken at its end
    cut,      \* history: the client moved on before a reply had arrived whole
    left,     \* how much of the bound address is still to be drained
    why       \* the error text, or the error that was ignored

xvars == <<reader, xpc, via, srv, stream, gone, cut, left, why>>

NoError == ""
Waiting(l) == xpc[l] \in {"method", "auth", "connect", "bound", "reply4"}

AnyProxy == [proto |-> "socks5", user |-> FALSE]

ExchangeInit ==
    /\ reader \in {"once", "full"}
    /\ xpc = [l \in Links |-> "idle"]
    /\ via = [l \in Links |-> AnyProxy]
    /\ srv = [l \in Links |-> "none"]
    /\ stream = [l \in Links |-> <<>>]
    /\ gone = [l \in Links |-> FALSE] /\ cut = [l \in Links |-> FALSE]
    /\ left = [l \in Links |-> 0]
    /\ why = [l \in Links |-> NoError]

-----------------------------------------------------------------------------
(* Reading and writing *)

Shorter(n, m) == IF n <= m THEN n ELSE m

\* How many bytes a read into a buffer of n bytes may return.
Reads(l, n) == IF reader = "full" THEN {k \in {n} : k <= Len(stream[l])}
                                  ELSE 1 .. Shorter(n, Len(stream[l]))

\* The i-th byte of a buffer that got k bytes: buffers start as zeros.
Byte(l, k, i) == IF i <= k THEN stream[l][i] ELSE 0

Took(l, k) == stream' = [stream EXCEPT ![l] = SubSeq(@, k + 1, Len(@))]

\* Sets cut when the reply of n bytes had not arrived whole.
Whole(l, k, n) == cut' = [cut EXCEPT ![l] = @ \/ k < n]

Fails(l, err) == /\ xpc' = [xpc EXCEPT ![l] = "failed"]
                 /\ why' = [why EXCEPT ![l] = err]
                 /\ UNCHANGED srv

Succeeds(l, ignored) == /\ xpc' = [xpc EXCEPT ![l] = "ok"]
                        /\ why' = [why EXCEPT ![l] = ignored]
                        /\ UNCHANGED srv

\* A write, after which the client waits for reply next, and which the proxy
\* takes if it is the message it expects.
Sends(l, next, expects, answers) ==
    \/ /\ xpc' = [xpc EXCEPT ![l] = next]
       /\ srv' = [srv EXCEPT ![l] = IF @ = expects THEN answers ELSE "confused"]
       /\ UNCHANGED why
    \/ gone[l] /\ Fails(l, "broken pipe")

SendConnect(l) == Sends(l, "connect", "ready", "request")

-----------------------------------------------------------------------------
(* The client *)

\* The proxy is dialled; the greeting or the SOCKS4 request is written.
Begin(l, p) ==
    /\ xpc[l] = "idle"
    /\ via' = [via EXCEPT ![l] = p]
    /\ \/ \E err \in DialFailures : Fails(l, err)
       \/ p.proto = "socks5" /\ Sends(l, "method", "none", "greeted")
       \/ p.proto = "socks4" /\ Sends(l, "reply4", "none", "request4")
       \/ p.proto = "socks4" /\ reader = "once" /\ \E err \in Local : Fails(l, err)
    /\ UNCHANGED <<reader, stream, gone, cut, left>>

\* The reply is read into a buffer of one byte.
ReadMethod_Small(l) ==
    /\ xpc[l] = "method"
    /\ \E k \in Reads(l, 1) :
          /\ Took(l, k) /\ Whole(l, k, 1)
          /\ IF Byte(l, k, 1) # 5 THEN Fails(l, NotASocksServer) ELSE SendConnect(l)
    /\ UNCHANGED <<reader, via, gone, left>>

ReadMethod(l) ==
    /\ xpc[l] = "method"
    /\ \E k \in Reads(l, 2) :
          LET method == Byte(l, k, 2)
          IN  /\ Took(l, k) /\ Whole(l, k, 2)
              /\ CASE Byte(l, k, 1) # 5 -> Fails(l, NotASocksServer)
                   [] Byte(l, k, 1) = 5 /\ method = 255
                        -> Fails(l, "no acceptable auth method")
                   [] Byte(l, k, 1) = 5 /\ method = 2 /\ ~via[l].user
                        -> Fails(l, "auth required but no credentials")
                   [] Byte(l, k, 1) = 5 /\ method = 2 /\ via[l].user
                        -> Sends(l, "auth", "authenticating", "auth")
                   [] OTHER -> SendConnect(l)
    /\ UNCHANGED <<reader, via, gone, left>>

ReadAuth(l) ==
    /\ xpc[l] = "auth"
    /\ \E k \in Reads(l, 2) :
          /\ Took(l, k) /\ Whole(l, k, 2)
          /\ IF Byte(l, k, 2) # 0 THEN Fails(l, "authentication failed")
                                  ELSE SendConnect(l)
    /\ UNCHANGED <<reader, via, gone, left>>

ReplyText(code) ==
    IF code <= 6 THEN << "general failure", "not allowed", "network unreachable",
                         "host unreachable", "connection refused", "TTL expired" >>[code]
    ELSE "SOCKS5 error"

\* A short answer to CONNECT counts as an answer.
ReadConnectOnce_Short(l) ==
    /\ xpc[l] = "connect" /\ reader = "once"
    /\ \E k \in 1 .. Len(stream[l]) :
          /\ Took(l, k) /\ Whole(l, k, Len(stream[l]))
          /\ IF Byte(l, k, 2) # 0 THEN Fails(l, ReplyText(Byte(l, k, 2)))
             ELSE Succeeds(l, NoError)
    /\ UNCHANGED <<reader, via, gone, left>>

\* The scanner: one Read of up to 262 bytes, more than any reply.
ReadConnectOnce(l) ==
    /\ xpc[l] = "connect" /\ reader = "once"
    /\ \E k \in 1 .. Len(stream[l]) :
          /\ Took(l, k) /\ Whole(l, k, Len(stream[l]))
          /\ CASE k < 2 -> Fails(l, "no CONNECT response")
               [] k >= 2 /\ Byte(l, k, 2) # 0 -> Fails(l, ReplyText(Byte(l, k, 2)))
               [] k >= 2 /\ Byte(l, k, 2) = 0 -> Succeeds(l, NoError)
    /\ UNCHANGED <<reader, via, gone, left>>

\* Every bound address is taken for an IPv4 address.
BoundLength_IPv4(atyp) == 1

\* The length of a bound address: an IPv4 address, a name after its length, an
\* IPv6 address; any other type is not read at all.
BoundLength(atyp) == CASE atyp = 1 -> 1 [] atyp = 3 -> 2 [] atyp = 4 -> 3 [] OTHER -> 0

\* The relay: the four bytes of the header.
ReadConnectFull(l) ==
    /\ xpc[l] = "connect" /\ reader = "full"
    /\ \E k \in Reads(l, 4) :
          /\ Took(l, k)
          /\ left' = [left EXCEPT ![l] = BoundLength(Byte(l, k, 4))]
          /\ IF Byte(l, k, 2) # 0 THEN Fails(l, ReplyText(Byte(l, k, 2)))
             ELSE IF left'[l] = 0 THEN Succeeds(l, "unknown address type")
             ELSE xpc' = [xpc EXCEPT ![l] = "bound"] /\ UNCHANGED <<srv, why>>
    /\ UNCHANGED <<reader, via, gone, cut>>

\* and the bound address, drained.
ReadBound(l) ==
    /\ xpc[l] = "bound"
    /\ \E k \in Reads(l, left[l]) : Took(l, k)
    /\ left' = [left EXCEPT ![l] = 0]
    /\ Succeeds(l, NoError)
    /\ UNCHANGED <<reader, via, gone, cut>>

\* SOCKS4: eight bytes, of which the second is the code.
ReadReply4(l) ==
    /\ xpc[l] = "reply4"
    /\ \E k \in Reads(l, 3) :
          /\ Took(l, k) /\ Whole(l, k, 3)
          /\ CASE Byte(l, k, 2) = 90 -> Succeeds(l, NoError)
               [] Byte(l, k, 2) = 91 -> Fails(l, "request rejected")
               [] OTHER              -> Fails(l, "SOCKS4 code")
    /\ UNCHANGED <<reader, via, gone, left>>

\* A read ends in error: what the caller makes of it.  The relay ignores the
\* errors of the drain.
ReadError(l, err) ==
    CASE xpc[l] = "bound" -> Succeeds(l, err)
      [] xpc[l] = "connect" /\ reader = "once" -> Fails(l, "no CONNECT response")
      [] OTHER -> Fails(l, err)

Needs(l) == CASE reader = "once"      -> 1
              [] xpc[l] = "connect"   -> 4
              [] xpc[l] = "bound"     -> left[l]
              [] xpc[l] = "reply4"    -> 3
              [] OTHER                -> 2

\* The connection ended before what is needed had arrived.
ReadEOF(l) ==
    /\ Waiting(l) /\ gone[l] /\ Len(stream[l]) < Needs(l)
    /\ Took(l, Len(stream[l]))
    /\ ReadError(l, "EOF")
    /\ UNCHANGED <<reader, via, gone, cut, left>>

\* The deadline passes while the client reads; what arrives later is not read.
Expire(l) ==
    /\ Waiting(l)
    /\ ReadError(l, HandshakeTimeout)
    /\ UNCHANGED <<reader, via, stream, gone, cut, left>>

\* conn.Close(): the caller is done with the connection; what is known of it is
\* forgotten.
Close(l) ==
    /\ xpc' = [xpc EXCEPT ![l] = "closed"] /\ via' = [via EXCEPT ![l] = AnyProxy]
    /\ srv' = [srv EXCEPT ![l] = "none"] /\ stream' = [stream EXCEPT ![l] = <<>>]
    /\ gone' = [gone EXCEPT ![l] = FALSE] /\ cut' = [cut EXCEPT ![l] = FALSE]
    /\ left' = [left EXCEPT ![l] = 0] /\ why' = [why EXCEPT ![l] = NoError]
    /\ UNCHANGED reader

-----------------------------------------------------------------------------
(* The proxy (external) *)

Says(l, reply, next) == /\ stream' = [stream EXCEPT ![l] = @ \o reply]
                        /\ srv' = [srv EXCEPT ![l] = next]

\* Its answer to what it got; to a message it does not expect it may answer with
\* a refusal.
ServerAnswers(l) ==
    /\ Waiting(l) /\ ~gone[l]
    /\ \/ /\ srv[l] = "greeted"
          /\ \E r \in MethodReplies :
                Says(l, r, CASE r = <<5, 0>> -> "ready"
                             [] r = <<5, 2>> -> "authenticating"
                             [] OTHER        -> "refused")
       \/ /\ srv[l] = "auth"
          /\ \/ Says(l, <<1, 0>>, "ready")
             \/ Says(l, <<1, 1>>, "refused")
       \/ /\ srv[l] = "request"
          /\ \E r \in ConnectReplies :
                Says(l, r, IF r[2] = 0 THEN "tunnel" ELSE "denied")
       \/ /\ srv[l] = "confused"
          /\ \E r \in {c \in ConnectReplies : c[2] # 0} : Says(l, r, "denied")
       \/ /\ srv[l] = "request4"
          /\ \E c \in Socks4Codes :
                Says(l, <<0, c, 9>>, IF c = 90 THEN "tunnel" ELSE "denied")
    /\ UNCHANGED <<reader, xpc, via, gone, cut, left, why>>

\* The connection ends; what was not delivered may be lost.
Break(l) ==
    /\ Waiting(l) /\ ~gone[l]
    /\ gone' = [gone EXCEPT ![l] = TRUE]
    /\ \E k \in 0 .. Len(stream[l]) :
          stream' = [stream EXCEPT ![l] = SubSeq(@, 1, k)]
    /\ UNCHANGED <<reader, xpc, via, srv, cut, left, why>>

-----------------------------------------------------------------------------
ClientStep(l) == \/ ReadMethod(l) \/ ReadAuth(l) \/ ReadConnectOnce(l)
                 \/ ReadConnectFull(l) \/ ReadBound(l) \/ ReadReply4(l)
                 \/ ReadEOF(l) \/ Expire(l)
ServerStep(l) == ServerAnswers(l) \/ Break(l)

\* However the replies were cut into pieces, a handshake only succeeds when the
\* proxy has opened the tunnel: a truncated or misread reply never counts as a
\* grant (proxy/validate.go:152-259, relay/relay.go:156-259).
OkIsGranted == \A l \in Links : xpc[l] = "ok" => srv[l] = "tunnel"

\* A refusal that the scanner takes for the TARGET's is one the proxy gave in
\* answer to the request, unless a reply came in pieces (then the second byte of
\* one reply is looked for in the next).  The relay reads in full and has no
\* such exception.
RefusalIsServers ==
    \A l \in Links : xpc[l] = "failed" /\ why[l] \in SocksReplies
                     => srv[l] = "denied" \/ (reader = "once" /\ cut[l])
=============================================================================
