---------------------------- MODULE ProxyErrors ----------------------------
(***************************************************************************)
(* What a dial through a SOCKS proxy can fail with, and how the scanner     *)
(* classifies the failure (proxy/validate.go).  The program decides on the  *)
(* TEXT of the error; here an error is the text it carries, reduced to what *)
(* the classifiers look for in it.                                          *)
(***************************************************************************)

\* net.DialTimeout to the proxy failed.  The text is "dial tcp A: ..." where A
\* is the address that was dialled: the configured one when the proxy is given
\* as an IP address, the resolved one when it is given by name, and no address
\* at all when the name does not resolve.
DialFailures == {"dial tcp <address>", "dial tcp <resolved address>",
                 "dial tcp: lookup"}

\* The proxy took the connection and the SOCKS exchange went wrong.
NotASocksServer == "not a SOCKS5 server"
AuthFailures    == {"no acceptable auth method", "auth required but no credentials",
                    "authentication failed"}
BrokenExchanges == {"EOF", "connection reset by peer", "broken pipe",
                    "no CONNECT response"}
HandshakeTimeout == "i/o timeout"

\* The proxy answered the CONNECT request with a refusal code.
SocksReplies == {"connection refused", "host unreachable", "network unreachable",
                 "general failure", "not allowed", "TTL expired",
                 "SOCKS5 error", "request rejected", "cannot connect to identd",
                 "identd mismatch", "SOCKS4 code"}

\* Nothing was sent: SOCKS4 carries an IPv4 address, resolved on this side.
LocalFailures == {"DNS resolution failed", "SOCKS4 requires IPv4"}

\* DialThroughProxyCtx gave up because the scan was stopped.
Canceled == "context canceled"

ErrorKinds == DialFailures \cup {NotASocksServer, HandshakeTimeout, Canceled}
              \cup AuthFailures \cup BrokenExchanges \cup SocksReplies
              \cup LocalFailures

\* Worth retrying through another proxy.
IsProxyError(err) ==
    err \in {"dial tcp <address>", NotASocksServer} \cup AuthFailures
            \cup BrokenExchanges

\* The proxy itself is unusable and may be pruned.
IsProxyDead(err) ==
    err \in {"dial tcp <address>", NotASocksServer} \cup AuthFailures
=============================================================================
