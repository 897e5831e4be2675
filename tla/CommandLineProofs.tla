------------------------- MODULE CommandLineProofs --------------------------
(***************************************************************************)
(* Proofs about the command line, for every list of proxies, reply of a    *)
(* proxy, cut of the byte stream, pool, and number of targets and of jobs: *)
(* the handshake and the relay; the run of a command, its report and its   *)
(* turns; the connect scan of "scan" and the list of "validate".           *)
(***************************************************************************)
EXTENDS CommandLine, ProxyPoolProofs, SequenceTheorems, FiniteSetTheorems, TLAPS

-----------------------------------------------------------------------------
(* The handshake *)

ClientStates == {"idle", "method", "auth", "connect", "bound", "reply4", "ok", "failed", "closed"}

\* What has arrived of the replies, for each place of the client: nothing before
\* the proxy has answered; then at most that reply; and at most one byte of an
\* earlier one before the answer to CONNECT, so that a refusal never has a zero
\* where the client looks for the code.
Granted(l) ==
    /\ xpc[l] = "idle" => srv[l] = "none" /\ Len(stream[l]) = 0
    /\ xpc[l] = "method" =>
          /\ srv[l] \in {"greeted", "ready", "authenticating", "refused"}
          /\ Len(stream[l]) <= 2
          /\ srv[l] = "greeted" => Len(stream[l]) = 0
          /\ Len(stream[l]) = 2 /\ stream[l][1] = 5 /\ stream[l][2] = 2
                => srv[l] = "authenticating"
    /\ xpc[l] = "auth" =>
          /\ srv[l] \in {"auth", "ready", "refused"}
          /\ Len(stream[l]) <= 2
          /\ srv[l] = "auth" => Len(stream[l]) = 0
    /\ xpc[l] = "connect" =>
          /\ srv[l] \in {"request", "confused", "tunnel", "denied"}
          /\ srv[l] \in {"request", "confused"} => Len(stream[l]) <= 1
          /\ srv[l] = "denied" /\ Len(stream[l]) >= 2 => stream[l][2] # 0
    /\ xpc[l] = "reply4" =>
          /\ srv[l] \in {"request4", "tunnel", "denied"}
          /\ srv[l] = "request4" => Len(stream[l]) = 0
          /\ srv[l] = "denied" /\ Len(stream[l]) >= 2 => stream[l][2] # 90
    /\ xpc[l] \in {"bound", "ok"} => srv[l] = "tunnel"

ExchangeTypes ==
    /\ xpc \in [Links -> ClientStates]
    /\ DOMAIN srv = Links
    /\ stream \in [Links -> Seq(Nat)]
    /\ reader \in {"once", "full"}

ExchangeInv == ExchangeTypes /\ \A l \in Links : Granted(l)

\* A step on link l touches no other link.
OnlyLink(l) ==
    \A d \in Links \ {l} : xpc'[d] = xpc[d] /\ srv'[d] = srv[d] /\ stream'[d] = stream[d]

\* Such a step keeps the invariant if it keeps it for l.
LEMMA OneLink ==
    ASSUME ExchangeInv, NEW l \in Links, OnlyLink(l), ExchangeTypes', Granted(l)'
    PROVE  ExchangeInv'
<1>1. ASSUME NEW d \in Links, d # l PROVE Granted(d)'
  BY <1>1 DEF ExchangeInv, OnlyLink, Granted
<1> QED
  BY <1>1 DEF ExchangeInv

\* What a read leaves, and what a broken connection keeps.
LEMMA Rest ==
    ASSUME NEW s \in Seq(Nat), NEW k \in 0 .. Len(s)
    PROVE  /\ SubSeq(s, k + 1, Len(s)) \in Seq(Nat)
           /\ Len(SubSeq(s, k + 1, Len(s))) = Len(s) - k
<1>1. \A i \in k + 1 .. Len(s) : s[i] \in Nat
  OBVIOUS
<1>2. /\ SubSeq(s, k + 1, Len(s)) \in Seq(Nat)
      /\ Len(SubSeq(s, k + 1, Len(s))) =
             IF k + 1 <= Len(s) THEN Len(s) - (k + 1) + 1 ELSE 0
  BY <1>1, SubSeqProperties
<1> QED
  BY <1>2

LEMMA Start ==
    ASSUME NEW s \in Seq(Nat), NEW k \in 0 .. Len(s)
    PROVE  /\ SubSeq(s, 1, k) \in Seq(Nat)
           /\ Len(SubSeq(s, 1, k)) = k
           /\ \A i \in 1 .. k : SubSeq(s, 1, k)[i] = s[i]
<1>1. \A i \in 1 .. k : s[i] \in Nat
  OBVIOUS
<1>2. /\ SubSeq(s, 1, k) \in Seq(Nat)
      /\ Len(SubSeq(s, 1, k)) = IF 1 <= k THEN k - 1 + 1 ELSE 0
      /\ \A i \in 1 .. k - 1 + 1 : SubSeq(s, 1, k)[i] = s[1 + i - 1]
  BY <1>1, SubSeqProperties
<1> QED
  BY <1>2

\* A write of the client: the proxy takes it, or the connection is broken.
LEMMA SendsWhat ==
    ASSUME NEW l, NEW after, NEW expects, NEW answers, ExchangeTypes, l \in Links,
           after \in ClientStates, Sends(l, after, expects, answers)
    PROVE  /\ xpc' \in [Links -> ClientStates] /\ DOMAIN srv' = Links
           /\ \A d \in Links \ {l} : xpc'[d] = xpc[d] /\ srv'[d] = srv[d]
           /\ \/ /\ xpc'[l] = after
                 /\ srv'[l] = IF srv[l] = expects THEN answers ELSE "confused"
              \/ xpc'[l] = "failed"
BY ZenonT(30) DEF ExchangeTypes, Sends, Fails, ClientStates

LEMMA FailsWhat ==
    ASSUME NEW l \in Links, NEW err, ExchangeTypes, Fails(l, err)
    PROVE  /\ xpc' \in [Links -> ClientStates] /\ DOMAIN srv' = Links
           /\ \A d \in Links \ {l} : xpc'[d] = xpc[d] /\ srv'[d] = srv[d]
           /\ xpc'[l] = "failed"
BY DEF ExchangeTypes, Fails, ClientStates

LEMMA SucceedsWhat ==
    ASSUME NEW l \in Links, NEW err, ExchangeTypes, Succeeds(l, err)
    PROVE  /\ xpc' \in [Links -> ClientStates] /\ srv' = srv
           /\ \A d \in Links \ {l} : xpc'[d] = xpc[d]
           /\ xpc'[l] = "ok"
BY DEF ExchangeTypes, Succeeds, ClientStates

LEMMA BeginKeeps ==
    ASSUME ExchangeInv, NEW l \in Links, NEW p, Begin(l, p) PROVE ExchangeInv'
<1>1. srv[l] = "none" /\ Len(stream[l]) = 0 /\ UNCHANGED <<stream, reader>>
  BY DEF ExchangeInv, Granted, Begin
<1>2. CASE \E err : Fails(l, err)
  <2>1. PICK err : Fails(l, err)
    BY <1>2
  <2>2. xpc'[l] = "failed" /\ OnlyLink(l) /\ ExchangeTypes'
    BY <1>1, <2>1, FailsWhat DEF ExchangeInv, ExchangeTypes, OnlyLink
  <2>3. Granted(l)'
    BY <2>2 DEF Granted
  <2> QED
    BY <2>2, <2>3, OneLink
<1>3. CASE Sends(l, "method", "none", "greeted")
  <2>1. "method" \in ClientStates
    BY DEF ClientStates
  <2> QED
    BY <1>1, <1>3, <2>1, SendsWhat, OneLink
    DEF ExchangeInv, ExchangeTypes, Granted, OnlyLink
<1>4. CASE Sends(l, "reply4", "none", "request4")
  <2>1. "reply4" \in ClientStates
    BY DEF ClientStates
  <2>2. /\ xpc' \in [Links -> ClientStates] /\ DOMAIN srv' = Links
        /\ \A d \in Links \ {l} : xpc'[d] = xpc[d] /\ srv'[d] = srv[d]
        /\ (xpc'[l] = "reply4" /\ srv'[l] = "request4") \/ xpc'[l] = "failed"
    BY <1>1, <1>4, <2>1, SendsWhat DEF ExchangeInv
  <2>3. Granted(l)'
    BY <1>1, <2>2 DEF Granted
  <2> QED
    BY <1>1, <2>2, <2>3, OneLink DEF ExchangeInv, ExchangeTypes, OnlyLink
<1> QED
  BY <1>2, <1>3, <1>4 DEF Begin
\* A read of k bytes takes them from the stream.
LEMMA TookWhat ==
    ASSUME NEW l \in Links, NEW k \in 0 .. Len(stream[l]), ExchangeTypes, Took(l, k)
    PROVE  /\ stream' \in [Links -> Seq(Nat)]
           /\ \A d \in Links \ {l} : stream'[d] = stream[d]
           /\ Len(stream'[l]) = Len(stream[l]) - k
<1>1. stream[l] \in Seq(Nat)
  BY DEF ExchangeTypes
<1>2. /\ SubSeq(stream[l], k + 1, Len(stream[l])) \in Seq(Nat)
      /\ Len(SubSeq(stream[l], k + 1, Len(stream[l]))) = Len(stream[l]) - k
  BY <1>1, Rest
<1> QED
  BY <1>2 DEF Took, ExchangeTypes

LEMMA ReadsWhat ==
    ASSUME NEW l \in Links, NEW n \in Nat, NEW k \in Reads(l, n), n > 0, ExchangeTypes
    PROVE  k \in 1 .. n /\ k \in 0 .. Len(stream[l]) /\ Len(stream[l]) \in Nat
<1>1. Len(stream[l]) \in Nat
  BY DEF ExchangeTypes
<1> QED
  BY <1>1 DEF Reads, Shorter

\* Of at most two bytes, a read takes all or leaves one.
LEMMA AtMostOneLeft ==
    ASSUME NEW n \in 1 .. 2, NEW k \in 1 .. 2, k \in 0 .. n
    PROVE  n - k <= 1 /\ (k = 2 => n - k = 0)
OBVIOUS

LEMMA NoneOrOne == ASSUME NEW n \in Nat, n <= 1 PROVE n = 0 \/ n = 1
OBVIOUS

LEMMA Fewer ==
    ASSUME NEW n \in Nat, NEW k \in Nat, k <= n
    PROVE  /\ n = 0 => k = 0
           /\ n <= 1 => k <= 1
           /\ n <= 2 => k <= 2
           /\ n <= 2 /\ k = 2 => n = 2
OBVIOUS

LEMMA OneOrTwo ==
    ASSUME NEW n \in Nat, n <= 2, NEW k \in 1 .. 2, k \in 0 .. n PROVE n \in 1 .. 2
OBVIOUS

LEMMA SendConnectWhat ==
    ASSUME NEW l \in Links, ExchangeTypes, SendConnect(l)
    PROVE  /\ xpc' \in [Links -> ClientStates] /\ DOMAIN srv' = Links
           /\ \A d \in Links \ {l} : xpc'[d] = xpc[d] /\ srv'[d] = srv[d]
           /\ \/ xpc'[l] = "connect" /\ srv'[l] \in {"request", "confused"}
              \/ xpc'[l] = "failed"
<1>1. "connect" \in ClientStates
  BY DEF ClientStates
<1> QED
  BY <1>1, SendsWhat DEF SendConnect

LEMMA ReadMethodKeeps ==
    ASSUME ExchangeInv, NEW l \in Links, ReadMethod(l) PROVE ExchangeInv'
<1>1. PICK k \in Reads(l, 2) :
          /\ Took(l, k)
          /\ CASE Byte(l, k, 1) # 5 -> Fails(l, NotASocksServer)
               [] Byte(l, k, 1) = 5 /\ Byte(l, k, 2) = 255
                    -> Fails(l, "no acceptable auth method")
               [] Byte(l, k, 1) = 5 /\ Byte(l, k, 2) = 2 /\ ~via[l].user
                    -> Fails(l, "auth required but no credentials")
               [] Byte(l, k, 1) = 5 /\ Byte(l, k, 2) = 2 /\ via[l].user
                    -> Sends(l, "auth", "authenticating", "auth")
               [] OTHER -> SendConnect(l)
  BY DEF ReadMethod
<1>2. xpc[l] = "method" /\ UNCHANGED reader
  BY DEF ReadMethod
<1>3. k \in 1 .. 2 /\ k \in 0 .. Len(stream[l]) /\ Len(stream[l]) \in Nat
  BY ReadsWhat DEF ExchangeInv
<1>4. /\ stream' \in [Links -> Seq(Nat)]
      /\ \A d \in Links \ {l} : stream'[d] = stream[d]
      /\ Len(stream'[l]) = Len(stream[l]) - k
  BY ZenonT(30), <1>1, <1>3, TookWhat DEF ExchangeInv
<1>5. Len(stream[l]) \in 1 .. 2
  <2>1. Len(stream[l]) <= 2
    BY <1>2 DEF ExchangeInv, Granted
  <2> QED
    BY <1>3, <2>1, OneOrTwo
<1>6. CASE \E err : Fails(l, err)
  <2>1. /\ xpc' \in [Links -> ClientStates] /\ DOMAIN srv' = Links
        /\ \A d \in Links \ {l} : xpc'[d] = xpc[d] /\ srv'[d] = srv[d]
        /\ xpc'[l] = "failed"
    BY <1>6, FailsWhat DEF ExchangeInv
  <2>2. Granted(l)'
    BY <2>1 DEF Granted
  <2> QED
    BY <1>2, <1>4, <2>1, <2>2, OneLink DEF ExchangeInv, ExchangeTypes, OnlyLink
<1>7. CASE /\ Byte(l, k, 1) = 5 /\ Byte(l, k, 2) = 2
           /\ Sends(l, "auth", "authenticating", "auth")
  <2>1. k = 2 /\ stream[l][1] = 5 /\ stream[l][2] = 2
    BY <1>3, <1>7 DEF Byte
  <2>2. srv[l] = "authenticating" /\ Len(stream'[l]) = 0
    BY <1>2, <1>3, <1>4, <1>5, <2>1 DEF ExchangeInv, Granted
  <2>3. "auth" \in ClientStates
    BY DEF ClientStates
  <2>4. /\ xpc' \in [Links -> ClientStates] /\ DOMAIN srv' = Links
        /\ \A d \in Links \ {l} : xpc'[d] = xpc[d] /\ srv'[d] = srv[d]
        /\ (xpc'[l] = "auth" /\ srv'[l] = "auth") \/ xpc'[l] = "failed"
    BY <1>7, <2>2, <2>3, SendsWhat DEF ExchangeInv
  <2>5. Granted(l)'
    BY <2>2, <2>4 DEF Granted
  <2> QED
    BY <1>2, <1>4, <2>4, <2>5, OneLink DEF ExchangeInv, ExchangeTypes, OnlyLink
<1>8. CASE SendConnect(l)
  <2>1. /\ xpc' \in [Links -> ClientStates] /\ DOMAIN srv' = Links
        /\ \A d \in Links \ {l} : xpc'[d] = xpc[d] /\ srv'[d] = srv[d]
        /\ \/ xpc'[l] = "connect" /\ srv'[l] \in {"request", "confused"}
           \/ xpc'[l] = "failed"
    BY <1>8, SendConnectWhat DEF ExchangeInv
  <2>2. Len(stream'[l]) <= 1
    BY <1>3, <1>4, <1>5, AtMostOneLeft
  <2>3. Granted(l)'
    BY <2>1, <2>2 DEF Granted
  <2> QED
    BY <1>2, <1>4, <2>1, <2>3, OneLink DEF ExchangeInv, ExchangeTypes, OnlyLink
<1> QED
  BY <1>1, <1>6, <1>7, <1>8

LEMMA ReadAuthKeeps ==
    ASSUME ExchangeInv, NEW l \in Links, ReadAuth(l) PROVE ExchangeInv'
<1>1. PICK k \in Reads(l, 2) :
          Took(l, k) /\ (Fails(l, "authentication failed") \/ SendConnect(l))
  BY DEF ReadAuth
<1>2. xpc[l] = "auth" /\ UNCHANGED reader
  BY DEF ReadAuth
<1>3. k \in 1 .. 2 /\ k \in 0 .. Len(stream[l]) /\ Len(stream[l]) \in Nat
  BY ReadsWhat DEF ExchangeInv
<1>4. /\ stream' \in [Links -> Seq(Nat)]
      /\ \A d \in Links \ {l} : stream'[d] = stream[d]
      /\ Len(stream'[l]) = Len(stream[l]) - k
  BY <1>1, <1>3, TookWhat DEF ExchangeInv
<1>5. Len(stream[l]) \in 1 .. 2
  <2>1. Len(stream[l]) <= 2
    BY <1>2 DEF ExchangeInv, Granted
  <2> QED
    BY <1>3, <2>1, OneOrTwo
<1>6. /\ xpc' \in [Links -> ClientStates] /\ DOMAIN srv' = Links
      /\ \A d \in Links \ {l} : xpc'[d] = xpc[d] /\ srv'[d] = srv[d]
      /\ \/ xpc'[l] = "connect" /\ srv'[l] \in {"request", "confused"}
         \/ xpc'[l] = "failed"
  BY <1>1, FailsWhat, SendConnectWhat DEF ExchangeInv
<1>7. Len(stream'[l]) <= 1
  BY <1>3, <1>4, <1>5, AtMostOneLeft
<1>8. Granted(l)'
  BY <1>6, <1>7 DEF Granted
<1> QED
  BY <1>2, <1>4, <1>6, <1>8, OneLink DEF ExchangeInv, ExchangeTypes, OnlyLink
\* The ends of an exchange: it failed, or the proxy has opened the tunnel.
LEMMA EndKeeps ==
    ASSUME ExchangeInv, NEW l \in Links, UNCHANGED reader,
           stream' \in [Links -> Seq(Nat)],
           \A d \in Links \ {l} : stream'[d] = stream[d],
           NEW err, Fails(l, err) \/ (Succeeds(l, err) /\ srv[l] = "tunnel")
    PROVE  ExchangeInv'
<1>1. /\ xpc' \in [Links -> ClientStates] /\ DOMAIN srv' = Links
      /\ \A d \in Links \ {l} : xpc'[d] = xpc[d] /\ srv'[d] = srv[d]
      /\ xpc'[l] = "failed" \/ (xpc'[l] = "ok" /\ srv'[l] = "tunnel")
  BY FailsWhat, SucceedsWhat DEF ExchangeInv, ExchangeTypes
<1>2. Granted(l)'
  BY <1>1 DEF Granted
<1> QED
  BY <1>1, <1>2, OneLink DEF ExchangeInv, ExchangeTypes, OnlyLink

LEMMA ReadConnectOnceKeeps ==
    ASSUME ExchangeInv, NEW l \in Links, ReadConnectOnce(l) PROVE ExchangeInv'
<1>1. PICK k \in 1 .. Len(stream[l]) :
          /\ Took(l, k)
          /\ CASE k < 2 -> Fails(l, "no CONNECT response")
               [] k >= 2 /\ Byte(l, k, 2) # 0 -> Fails(l, ReplyText(Byte(l, k, 2)))
               [] k >= 2 /\ Byte(l, k, 2) = 0 -> Succeeds(l, NoError)
  BY DEF ReadConnectOnce
<1>2. xpc[l] = "connect" /\ UNCHANGED reader
  BY DEF ReadConnectOnce
<1>3. Len(stream[l]) \in Nat /\ k \in 0 .. Len(stream[l])
  <2>1. Len(stream[l]) \in Nat
    BY DEF ExchangeInv, ExchangeTypes
  <2> QED
    BY <2>1
<1>4. /\ stream' \in [Links -> Seq(Nat)]
      /\ \A d \in Links \ {l} : stream'[d] = stream[d]
  BY <1>1, <1>3, TookWhat DEF ExchangeInv
<1>5. CASE \E err : Fails(l, err)
  BY <1>2, <1>4, <1>5, EndKeeps
<1>6. CASE k >= 2 /\ Byte(l, k, 2) = 0 /\ Succeeds(l, NoError)
  <2>1. Len(stream[l]) >= 2 /\ stream[l][2] = 0
    BY <1>3, <1>6 DEF Byte
  <2>2. srv[l] = "tunnel"
    BY <1>2, <2>1 DEF ExchangeInv, Granted
  <2> QED
    BY <1>2, <1>4, <1>6, <2>2, EndKeeps
<1>7. k < 2 \/ (k >= 2 /\ Byte(l, k, 2) # 0) \/ (k >= 2 /\ Byte(l, k, 2) = 0)
  BY <1>3
<1> QED
  BY <1>1, <1>5, <1>6, <1>7

LEMMA ReadConnectFullKeeps ==
    ASSUME ExchangeInv, NEW l \in Links, ReadConnectFull(l) PROVE ExchangeInv'
<1>1. PICK k \in Reads(l, 4) :
          /\ Took(l, k)
          /\ \/ \E err : Fails(l, err)
             \/ Byte(l, k, 2) = 0 /\ Succeeds(l, "unknown address type")
             \/ /\ Byte(l, k, 2) = 0 /\ xpc' = [xpc EXCEPT ![l] = "bound"]
                /\ UNCHANGED srv
  BY DEF ReadConnectFull
<1>2. xpc[l] = "connect" /\ reader = "full" /\ UNCHANGED reader
  BY DEF ReadConnectFull
<1>3. k = 4 /\ k \in 0 .. Len(stream[l]) /\ Len(stream[l]) \in Nat
  BY <1>2, ReadsWhat DEF Reads, ExchangeInv
<1>4. /\ stream' \in [Links -> Seq(Nat)]
      /\ \A d \in Links \ {l} : stream'[d] = stream[d]
  BY <1>1, <1>3, TookWhat DEF ExchangeInv
<1>5. CASE \E err : Fails(l, err)
  BY <1>2, <1>4, <1>5, EndKeeps
<1>6. ASSUME Byte(l, k, 2) = 0 PROVE srv[l] = "tunnel"
  <2>1. Len(stream[l]) >= 2 /\ stream[l][2] = 0
    BY <1>3, <1>6 DEF Byte
  <2> QED
    BY <1>2, <2>1 DEF ExchangeInv, Granted
<1>7. CASE Byte(l, k, 2) = 0 /\ Succeeds(l, "unknown address type")
  BY <1>2, <1>4, <1>6, <1>7, EndKeeps
<1>8. CASE Byte(l, k, 2) = 0 /\ xpc' = [xpc EXCEPT ![l] = "bound"] /\ UNCHANGED srv
  <2>1. /\ xpc' \in [Links -> ClientStates] /\ xpc'[l] = "bound" /\ srv'[l] = "tunnel"
        /\ \A d \in Links \ {l} : xpc'[d] = xpc[d] /\ srv'[d] = srv[d]
    BY <1>6, <1>8 DEF ExchangeInv, ExchangeTypes, ClientStates
  <2>2. Granted(l)'
    BY <2>1 DEF Granted
  <2> QED
    BY <1>2, <1>4, <1>8, <2>1, <2>2, OneLink DEF ExchangeInv, ExchangeTypes, OnlyLink
<1> QED
  BY <1>1, <1>5, <1>7, <1>8

LEMMA ReadBoundKeeps ==
    ASSUME ExchangeInv, NEW l \in Links, ReadBound(l), left[l] \in Nat PROVE ExchangeInv'
<1>1. PICK k \in Reads(l, left[l]) : Took(l, k)
  BY DEF ReadBound
<1>2. /\ xpc[l] = "bound" /\ UNCHANGED reader /\ Succeeds(l, NoError)
      /\ Len(stream[l]) \in Nat
  BY DEF ReadBound, ExchangeInv, ExchangeTypes
<1>3. k \in 0 .. Len(stream[l])
  BY <1>2 DEF Reads, Shorter
<1>4. /\ stream' \in [Links -> Seq(Nat)]
      /\ \A d \in Links \ {l} : stream'[d] = stream[d]
  BY <1>1, <1>3, TookWhat DEF ExchangeInv
<1>5. srv[l] = "tunnel"
  BY <1>2 DEF ExchangeInv, Granted
<1> QED
  BY <1>2, <1>4, <1>5, EndKeeps

LEMMA ReadReply4Keeps ==
    ASSUME ExchangeInv, NEW l \in Links, ReadReply4(l) PROVE ExchangeInv'
<1>1. PICK k \in Reads(l, 3) :
          /\ Took(l, k)
          /\ \/ \E err : Fails(l, err)
             \/ Byte(l, k, 2) = 90 /\ Succeeds(l, NoError)
  BY DEF ReadReply4
<1>2. xpc[l] = "reply4" /\ UNCHANGED reader
  BY DEF ReadReply4
<1>3. k \in 1 .. 3 /\ k \in 0 .. Len(stream[l]) /\ Len(stream[l]) \in Nat
  BY ReadsWhat DEF ExchangeInv
<1>4. /\ stream' \in [Links -> Seq(Nat)]
      /\ \A d \in Links \ {l} : stream'[d] = stream[d]
  BY <1>1, <1>3, TookWhat DEF ExchangeInv
<1>5. CASE \E err : Fails(l, err)
  BY <1>2, <1>4, <1>5, EndKeeps
<1>6. CASE Byte(l, k, 2) = 90 /\ Succeeds(l, NoError)
  <2>1. Len(stream[l]) >= 2 /\ stream[l][2] = 90
    BY <1>3, <1>6 DEF Byte
  <2>2. srv[l] = "tunnel"
    BY <1>2, <2>1 DEF ExchangeInv, Granted
  <2> QED
    BY <1>2, <1>4, <1>6, <2>2, EndKeeps
<1> QED
  BY <1>1, <1>5, <1>6

\* A read that ends in error: only a drain, in an open tunnel, is passed over.
LEMMA ErrorKeeps ==
    ASSUME ExchangeInv, NEW l \in Links, NEW err, ReadError(l, err), UNCHANGED reader,
           stream' \in [Links -> Seq(Nat)],
           \A d \in Links \ {l} : stream'[d] = stream[d]
    PROVE  ExchangeInv'
<1>1. (\E e : Fails(l, e)) \/ (xpc[l] = "bound" /\ Succeeds(l, err))
  BY DEF ReadError
<1>2. xpc[l] = "bound" => srv[l] = "tunnel"
  BY DEF ExchangeInv, Granted
<1> QED
  BY <1>1, <1>2, EndKeeps

LEMMA ReadEOFKeeps ==
    ASSUME ExchangeInv, NEW l \in Links, ReadEOF(l) PROVE ExchangeInv'
<1>1. Len(stream[l]) \in 0 .. Len(stream[l])
  BY DEF ExchangeInv, ExchangeTypes
<1>2. /\ stream' \in [Links -> Seq(Nat)]
      /\ \A d \in Links \ {l} : stream'[d] = stream[d]
  BY <1>1, TookWhat DEF ExchangeInv, ReadEOF
<1> QED
  BY <1>2, ErrorKeeps DEF ReadEOF

LEMMA ExpireKeeps ==
    ASSUME ExchangeInv, NEW l \in Links, Expire(l) PROVE ExchangeInv'
BY ErrorKeeps DEF Expire, ExchangeInv, ExchangeTypes

LEMMA CloseKeeps ==
    ASSUME ExchangeInv, NEW l \in Links, Close(l) PROVE ExchangeInv'
<1>1. /\ xpc' \in [Links -> ClientStates] /\ DOMAIN srv' = Links
      /\ \A d \in Links \ {l} : xpc'[d] = xpc[d] /\ srv'[d] = srv[d] /\ stream'[d] = stream[d]
      /\ xpc'[l] = "closed" /\ UNCHANGED reader
  BY DEF Close, ExchangeInv, ExchangeTypes, ClientStates
<1>2. stream' \in [Links -> Seq(Nat)]
  BY DEF Close, ExchangeInv, ExchangeTypes
<1>3. Granted(l)'
  BY <1>1 DEF Granted
<1> QED
  BY <1>1, <1>2, <1>3, OneLink DEF ExchangeInv, ExchangeTypes, OnlyLink

\* What is appended to what had arrived.
LEMMA Joined ==
    ASSUME NEW s \in Seq(Nat), NEW r \in Seq(Nat)
    PROVE  /\ s \o r \in Seq(Nat) /\ Len(s \o r) = Len(s) + Len(r)
           /\ Len(s) = 0 /\ Len(r) >= 1 => (s \o r)[1] = r[1]
           /\ Len(s) = 0 /\ Len(r) >= 2 => (s \o r)[2] = r[2]
           /\ Len(s) = 1 /\ Len(r) >= 1 => (s \o r)[2] = r[1]
           /\ Len(s) >= 2 => (s \o r)[2] = s[2]
<1>1. /\ s \o r \in Seq(Nat) /\ Len(s \o r) = Len(s) + Len(r)
      /\ \A i \in 1 .. Len(s) + Len(r) :
             (s \o r)[i] = IF i <= Len(s) THEN s[i] ELSE r[i - Len(s)]
  BY ConcatProperties
<1>2. Len(s) \in Nat /\ Len(r) \in Nat
  OBVIOUS
<1>3. Len(s) + Len(r) >= 1 => (s \o r)[1] = IF 1 <= Len(s) THEN s[1] ELSE r[1 - Len(s)]
  BY <1>1, <1>2
<1>4. Len(s) + Len(r) >= 2 => (s \o r)[2] = IF 2 <= Len(s) THEN s[2] ELSE r[2 - Len(s)]
  BY <1>1, <1>2
<1>5. Len(s) = 0 => 1 - Len(s) = 1 /\ 2 - Len(s) = 2 /\ ~(1 <= Len(s)) /\ ~(2 <= Len(s))
  BY <1>2
<1>6. Len(s) = 1 => 2 - Len(s) = 1 /\ ~(2 <= Len(s))
  BY <1>2
<1> QED
  BY <1>1, <1>2, <1>3, <1>4, <1>5, <1>6

LEMMA SaysWhat ==
    ASSUME ExchangeTypes, NEW l \in Links, NEW r \in Seq(Nat), NEW to, Says(l, r, to)
    PROVE  /\ DOMAIN srv' = Links /\ srv'[l] = to
           /\ stream' \in [Links -> Seq(Nat)] /\ stream'[l] = stream[l] \o r
           /\ \A d \in Links \ {l} : srv'[d] = srv[d] /\ stream'[d] = stream[d]
<1>1. stream[l] \o r \in Seq(Nat)
  BY Joined DEF ExchangeTypes
<1> QED
  BY <1>1 DEF Says, ExchangeTypes

\* An answer to the greeting, the credentials or a SOCKS4 request arrives where
\* nothing was left; one to CONNECT behind at most one byte.
LEMMA AnswerKeeps ==
    ASSUME ExchangeInv, NEW l \in Links, Waiting(l), UNCHANGED <<xpc, reader>>,
           NEW r \in Seq(Nat), NEW to, Says(l, r, to),
           \/ /\ srv[l] = "greeted" /\ Len(r) = 2
              /\ to \in {"ready", "authenticating", "refused"}
              /\ r[1] = 5 /\ r[2] = 2 => to = "authenticating"
           \/ srv[l] = "auth" /\ Len(r) = 2 /\ to \in {"ready", "refused"}
           \/ /\ srv[l] \in {"request", "confused"} /\ to \in {"tunnel", "denied"}
              /\ Len(r) >= 2 /\ r[1] = 5 /\ (to = "denied" => r[2] # 0)
           \/ /\ srv[l] = "request4" /\ to \in {"tunnel", "denied"}
              /\ Len(r) >= 2 /\ (to = "denied" => r[2] # 90)
    PROVE  ExchangeInv'
<1> DEFINE s == stream[l]
           t == s \o r
<1>1. s \in Seq(Nat) /\ Len(s) \in Nat /\ Len(r) \in Nat /\ Granted(l)
  BY DEF ExchangeInv, ExchangeTypes
<1>2. /\ srv'[l] = to /\ stream'[l] = t /\ xpc'[l] = xpc[l]
      /\ DOMAIN srv' = Links /\ stream' \in [Links -> Seq(Nat)]
      /\ OnlyLink(l)
  BY SaysWhat DEF ExchangeInv, OnlyLink
<1>3. /\ Len(t) = Len(s) + Len(r)
      /\ Len(s) = 0 /\ Len(r) >= 1 => t[1] = r[1]
      /\ Len(s) = 0 /\ Len(r) >= 2 => t[2] = r[2]
      /\ Len(s) = 1 /\ Len(r) >= 1 => t[2] = r[1]
  BY <1>1, Joined
<1>4. Granted(l)'
  <2> HIDE DEF s, t
  <2>1. CASE /\ srv[l] = "greeted" /\ Len(r) = 2
             /\ to \in {"ready", "authenticating", "refused"}
             /\ r[1] = 5 /\ r[2] = 2 => to = "authenticating"
    <3>1. xpc[l] = "method" /\ Len(s) = 0
      BY <1>1, <2>1 DEF Granted, Waiting, s
    <3>2. Len(t) = 2 /\ t[1] = r[1] /\ t[2] = r[2]
      BY <1>3, <2>1, <3>1
    <3> QED
      BY <1>2, <2>1, <3>1, <3>2 DEF Granted
  <2>2. CASE srv[l] = "auth" /\ Len(r) = 2 /\ to \in {"ready", "refused"}
    <3>1. xpc[l] = "auth" /\ Len(s) = 0
      BY <1>1, <2>2 DEF Granted, Waiting, s
    <3>2. Len(t) = 2
      BY <1>3, <2>2, <3>1
    <3> QED
      BY <1>2, <2>2, <3>1, <3>2 DEF Granted
  <2>3. CASE /\ srv[l] \in {"request", "confused"} /\ to \in {"tunnel", "denied"}
             /\ Len(r) >= 2 /\ r[1] = 5 /\ (to = "denied" => r[2] # 0)
    <3>1. xpc[l] = "connect" /\ Len(s) <= 1
      BY <1>1, <2>3 DEF Granted, Waiting, s
    <3>2. Len(s) = 0 \/ Len(s) = 1
      BY <1>1, <3>1, NoneOrOne
    <3>3. to = "denied" => t[2] # 0
      BY <1>1, <1>3, <2>3, <3>2
    <3> QED
      BY <1>2, <2>3, <3>1, <3>3 DEF Granted
  <2>4. CASE /\ srv[l] = "request4" /\ to \in {"tunnel", "denied"}
             /\ Len(r) >= 2 /\ (to = "denied" => r[2] # 90)
    <3>1. xpc[l] = "reply4" /\ Len(s) = 0
      BY <1>1, <2>4 DEF Granted, Waiting, s
    <3>2. t[2] = r[2]
      BY <1>3, <2>4, <3>1
    <3> QED
      BY <1>2, <2>4, <3>1, <3>2 DEF Granted
  <2> QED
    BY <2>1, <2>2, <2>3, <2>4
<1> QED
  BY <1>2, <1>4, OneLink DEF ExchangeInv, ExchangeTypes

LEMMA ServerAnswersKeeps ==
    ASSUME ExchangeInv, NEW l \in Links, ServerAnswers(l) PROVE ExchangeInv'
<1>1. UNCHANGED <<xpc, reader>> /\ Waiting(l)
  BY DEF ServerAnswers
<1>2. ASSUME NEW r \in MethodReplies, srv[l] = "greeted",
             Says(l, r, CASE r = <<5, 0>> -> "ready"
                          [] r = <<5, 2>> -> "authenticating"
                          [] OTHER        -> "refused")
      PROVE  ExchangeInv'
  <2>1. r \in Seq(Nat) /\ Len(r) = 2
    BY RepliesAssumption
  <2>2. r[1] = 5 /\ r[2] = 2 => r = <<5, 2>>
    BY <2>1
  <2>3. <<5, 0>> # <<5, 2>>
    OBVIOUS
  <2> DEFINE to == CASE r = <<5, 0>> -> "ready"
                     [] r = <<5, 2>> -> "authenticating"
                     [] OTHER        -> "refused"
  <2>4. to \in {"ready", "authenticating", "refused"} /\ (r = <<5, 2>> => to = "authenticating")
    BY <2>3
  <2>5. Says(l, r, to)
    BY <1>2
  <2> HIDE DEF to
  <2> QED
    BY <1>1, <1>2, <2>1, <2>2, <2>4, <2>5, AnswerKeeps
<1>3. ASSUME srv[l] = "auth", Says(l, <<1, 0>>, "ready") \/ Says(l, <<1, 1>>, "refused")
      PROVE  ExchangeInv'
  <2>1. <<1, 0>> \in Seq(Nat) /\ Len(<<1, 0>>) = 2 /\ <<1, 1>> \in Seq(Nat) /\ Len(<<1, 1>>) = 2
    OBVIOUS
  <2>2. CASE Says(l, <<1, 0>>, "ready")
    BY <1>1, <1>3, <2>1, <2>2, AnswerKeeps
  <2>3. CASE Says(l, <<1, 1>>, "refused")
    BY <1>1, <1>3, <2>1, <2>3, AnswerKeeps
  <2> QED
    BY <1>3, <2>2, <2>3
<1>4. ASSUME NEW r \in ConnectReplies, srv[l] \in {"request", "confused"},
             NEW to, to \in {"tunnel", "denied"}, to = "denied" => r[2] # 0, Says(l, r, to)
      PROVE  ExchangeInv'
  <2>1. r \in Seq(Nat) /\ Len(r) >= 4 /\ r[1] = 5
    BY RepliesAssumption
  <2>2. Len(r) >= 2
    BY <2>1
  <2> QED
    BY <1>1, <1>4, <2>1, <2>2, AnswerKeeps
<1>5. ASSUME NEW c \in Socks4Codes, srv[l] = "request4",
             Says(l, <<0, c, 9>>, IF c = 90 THEN "tunnel" ELSE "denied")
      PROVE  ExchangeInv'
  <2> DEFINE r  == <<0, c, 9>>
             to == IF c = 90 THEN "tunnel" ELSE "denied"
  <2>1. r \in Seq(Nat) /\ Len(r) >= 2 /\ r[2] = c
    BY RepliesAssumption
  <2>2. to \in {"tunnel", "denied"} /\ (to = "denied" => r[2] # 90)
    BY <2>1
  <2>3. Says(l, r, to)
    BY <1>5
  <2> HIDE DEF r, to
  <2> QED
    BY <1>1, <1>5, <2>1, <2>2, <2>3, AnswerKeeps
<1>6. \/ /\ srv[l] = "greeted"
         /\ \E r \in MethodReplies :
               Says(l, r, CASE r = <<5, 0>> -> "ready"
                            [] r = <<5, 2>> -> "authenticating"
                            [] OTHER        -> "refused")
      \/ srv[l] = "auth" /\ (Says(l, <<1, 0>>, "ready") \/ Says(l, <<1, 1>>, "refused"))
      \/ /\ srv[l] \in {"request", "confused"}
         /\ \E r \in ConnectReplies : \E to \in {"tunnel", "denied"} :
               (to = "denied" => r[2] # 0) /\ Says(l, r, to)
      \/ /\ srv[l] = "request4"
         /\ \E c \in Socks4Codes :
               Says(l, <<0, c, 9>>, IF c = 90 THEN "tunnel" ELSE "denied")
  BY DEF ServerAnswers
<1> QED
  BY <1>2, <1>3, <1>4, <1>5, <1>6

LEMMA BreakKeeps ==
    ASSUME ExchangeInv, NEW l \in Links, Break(l) PROVE ExchangeInv'
<1>1. PICK k \in 0 .. Len(stream[l]) :
          stream' = [stream EXCEPT ![l] = SubSeq(@, 1, k)]
  BY DEF Break
<1> DEFINE s == stream[l]
           t == SubSeq(s, 1, k)
<1>2. s \in Seq(Nat) /\ Len(s) \in Nat /\ k \in 0 .. Len(s) /\ Granted(l)
  BY <1>1 DEF ExchangeInv, ExchangeTypes
<1>3. t \in Seq(Nat) /\ Len(t) = k /\ \A i \in 1 .. k : t[i] = s[i]
  BY <1>2, Start
<1>4. /\ UNCHANGED <<xpc, srv, reader>> /\ stream'[l] = t
      /\ stream' \in [Links -> Seq(Nat)] /\ OnlyLink(l)
  BY <1>1, <1>3 DEF Break, ExchangeInv, ExchangeTypes, OnlyLink
<1>5. /\ Len(s) = 0 => Len(t) = 0
      /\ Len(s) <= 1 => Len(t) <= 1
      /\ Len(s) <= 2 => Len(t) <= 2
      /\ Len(t) >= 1 => t[1] = s[1]
      /\ Len(t) >= 2 => Len(s) >= 2 /\ t[2] = s[2]
      /\ Len(s) <= 2 /\ Len(t) = 2 => Len(s) = 2 /\ t[1] = s[1] /\ t[2] = s[2]
  <2> HIDE DEF s, t
  <2>1. k \in Nat /\ k <= Len(s) /\ Len(t) = k /\ Len(s) \in Nat
    BY <1>2, <1>3
  <2>2. Len(t) >= 1 => t[1] = s[1]
    BY <1>3, <2>1
  <2>3. Len(t) >= 2 => Len(s) >= 2 /\ t[1] = s[1] /\ t[2] = s[2]
    BY <1>3, <2>1
  <2>4. /\ Len(s) = 0 => Len(t) = 0
        /\ Len(s) <= 1 => Len(t) <= 1
        /\ Len(s) <= 2 => Len(t) <= 2
        /\ Len(s) <= 2 /\ Len(t) = 2 => Len(s) = 2
    BY <2>1, Fewer
  <2>5. Len(t) = 2 => Len(t) >= 2
    BY <2>1
  <2> QED
    BY <2>2, <2>3, <2>4, <2>5
<1>6. Granted(l)'
  <2> HIDE DEF s, t
  <2>1. CASE xpc[l] = "method"
    BY <1>2, <1>4, <1>5, <2>1 DEF Granted, s
  <2>2. CASE xpc[l] # "method"
    BY <1>2, <1>4, <1>5, <2>2 DEF Granted, s
  <2> QED
    BY <2>1, <2>2
<1> QED
  BY <1>4, <1>6, OneLink DEF ExchangeInv, ExchangeTypes

\* The client's steps and the proxy's, together.
LEMMA ClientStepKeeps ==
    ASSUME ExchangeInv, NEW l \in Links, left[l] \in Nat, ClientStep(l) PROVE ExchangeInv'
BY ReadMethodKeeps, ReadAuthKeeps, ReadConnectOnceKeeps, ReadConnectFullKeeps, ReadBoundKeeps,
   ReadReply4Keeps, ReadEOFKeeps, ExpireKeeps DEF ClientStep

LEMMA ServerStepKeeps ==
    ASSUME ExchangeInv, NEW l \in Links, ServerStep(l) PROVE ExchangeInv'
BY ServerAnswersKeeps, BreakKeeps DEF ServerStep

LEMMA StutterKeeps ==
    ASSUME ExchangeInv, UNCHANGED <<xpc, srv, stream, reader>> PROVE ExchangeInv'
BY DEF ExchangeInv, ExchangeTypes, Granted

-----------------------------------------------------------------------------
(* The relay *)

\* Both ends of a tunnel that nmap has not closed are quiet: all was passed on,
\* and the proxy has closed its end.
Quiet(c) == stream[c] = <<>> /\ (gone[c] \/ xpc[c] = "closed")

\* Or nmap itself sent something to a connection that was closed.
Over(c) == Quiet(c) \/ refused[c]

RelayTypes ==
    /\ left \in [Links -> Nat] /\ DOMAIN gone = Links
    /\ DOMAIN hpc = RelayLinks /\ DOMAIN copying = RelayLinks /\ DOMAIN peer = RelayLinks
    /\ refused \in [RelayLinks -> BOOLEAN] /\ writing \in [RelayLinks -> BOOLEAN]

\* A splice runs over a handshake that is over; a copier ends before nmap closes
\* only when the tunnel is quiet or reset, and the handler only when a copier has
\* ended.
SpliceInv ==
    \A c \in RelayLinks :
        /\ hpc[c] \in {"splice", "done"} => xpc[c] \in {"ok", "closed"}
        /\ hpc[c] = "done" => copying[c] # Copiers
        /\ hpc[c] \in {"splice", "done"} /\ peer[c] /\ copying[c] # Copiers => Over(c)

LinkInv == ExchangeInv /\ RelayTypes /\ SpliceInv

LEMMA TargetSendsKeeps ==
    ASSUME ExchangeInv, NEW c \in RelayLinks, TargetSends(c) PROVE ExchangeInv'
<1>1. c \in Links
  BY RelayAssumption
<1>2. /\ UNCHANGED <<xpc, srv, reader>> /\ OnlyLink(c)
      /\ stream' \in [Links -> Seq(Nat)]
      /\ srv[c] = "tunnel" /\ xpc[c] \in {"connect", "bound", "reply4", "ok"}
  BY <1>1 DEF TargetSends, ExchangeInv, ExchangeTypes, OnlyLink, Data
<1>3. Granted(c)'
  BY <1>2 DEF Granted
<1> QED
  BY <1>1, <1>2, <1>3, OneLink DEF ExchangeInv, ExchangeTypes

LEMMA CopyDownKeeps ==
    ASSUME LinkInv, NEW c \in RelayLinks, CopyDown(c) PROVE ExchangeInv'
<1>1. c \in Links
  BY RelayAssumption
<1>2. stream[c] \in Seq(Nat) /\ stream[c] # <<>>
  BY <1>1 DEF CopyDown, LinkInv, ExchangeInv, ExchangeTypes
<1>3. 1 \in 0 .. Len(stream[c])
  BY <1>2, EmptySeq
<1>4. /\ UNCHANGED <<xpc, srv, reader>> /\ OnlyLink(c)
      /\ stream' \in [Links -> Seq(Nat)]
      /\ xpc[c] \in {"ok", "closed"}
  BY <1>1, <1>3, TookWhat DEF CopyDown, LinkInv, SpliceInv, ExchangeInv, OnlyLink
<1>5. Granted(c)'
  BY <1>1, <1>4 DEF Granted, LinkInv, ExchangeInv
<1> QED
  BY <1>1, <1>4, <1>5, OneLink DEF LinkInv, ExchangeInv, ExchangeTypes

\* The steps of the exchange, seen from the relay: only link l changes, an ended
\* exchange stays ended, and a stream that nobody reads stays as it is.  Settles
\* is what the relay may do in the same step.
Settles ==
    /\ DOMAIN hpc' = RelayLinks /\ DOMAIN copying' = RelayLinks /\ UNCHANGED peer
    /\ refused' \in [RelayLinks -> BOOLEAN] /\ writing' \in [RelayLinks -> BOOLEAN]
    /\ \A c \in RelayLinks :
          /\ hpc'[c] \in {"splice", "done"} => hpc'[c] = hpc[c]
          /\ copying'[c] = copying[c] \/ (hpc[c] = "done" /\ copying'[c] # Copiers)
          /\ refused'[c] = refused[c] \/ (stream'[c] = <<>> /\ xpc'[c] = "closed")

LEMMA ExchangeKeepsSplice ==
    ASSUME LinkInv, NEW l \in Links, Settles,
           \/ ClientStep(l) \/ ServerStep(l) \/ (\E p : Begin(l, p)) \/ Close(l)
    PROVE  RelayTypes' /\ SpliceInv'
<1>1. RelayTypes'
  <2>1. DOMAIN gone' = Links
    BY DEF LinkInv, RelayTypes, ClientStep, ServerStep, Begin, Close, ReadMethod, ReadAuth,
           ReadConnectOnce, ReadConnectFull, ReadBound, ReadReply4, ReadEOF, Expire,
           ServerAnswers, Break
  <2>2. left' \in [Links -> Nat]
    <3>1. CASE ReadConnectFull(l)
      <4>1. PICK n \in Nat : left' = [left EXCEPT ![l] = n]
        BY <3>1 DEF ReadConnectFull, BoundLength
      <4> QED
        BY <4>1 DEF LinkInv, RelayTypes
    <3>2. CASE ReadBound(l) \/ Close(l)
      BY <3>2 DEF ReadBound, Close, LinkInv, RelayTypes
    <3>3. CASE ~(ReadConnectFull(l) \/ ReadBound(l) \/ Close(l))
      <4>1. UNCHANGED left
        BY <3>3 DEF ClientStep, ServerStep, Begin, ReadMethod, ReadAuth, ReadConnectOnce,
                    ReadReply4, ReadEOF, Expire, ServerAnswers, Break
      <4> QED
        BY <4>1 DEF LinkInv, RelayTypes
    <3> QED
      BY <3>1, <3>2, <3>3
  <2> QED
    BY <2>1, <2>2 DEF LinkInv, RelayTypes, Settles
<1>2. ASSUME NEW c \in RelayLinks, hpc[c] \in {"splice", "done"}
      PROVE  \/ xpc'[c] = xpc[c] /\ stream'[c] = stream[c] /\ gone'[c] = gone[c]
             \/ xpc'[c] = "closed" /\ stream'[c] = <<>>
  <2>1. c \in Links /\ xpc[c] \in {"ok", "closed"}
    BY <1>2, RelayAssumption DEF LinkInv, SpliceInv
  <2>2. CASE c = l
    <3>1. ~ClientStep(l) /\ ~ServerStep(l) /\ ~(\E p : Begin(l, p))
      BY <2>1, <2>2 DEF ClientStep, ServerStep, Begin, ReadMethod, ReadAuth, ReadConnectOnce,
            ReadConnectFull, ReadBound, ReadReply4, ReadEOF, Expire, ServerAnswers, Break, Waiting
    <3> QED
      BY <2>1, <2>2, <3>1 DEF Close, LinkInv, ExchangeInv, ExchangeTypes
  <2>3. CASE c # l
    <3>1. CASE Close(l)
      BY <2>1, <2>3, <3>1 DEF Close, LinkInv, ExchangeInv, ExchangeTypes, RelayTypes
    <3>2. CASE ServerStep(l)
      BY <2>1, <2>3, <3>2 DEF ServerStep, ServerAnswers, Break, Says, LinkInv, ExchangeInv,
            ExchangeTypes, RelayTypes
    <3>3. CASE \E p : Begin(l, p)
      BY <2>1, <2>3, <3>3 DEF Begin, Sends, Fails, LinkInv, ExchangeInv, ExchangeTypes
    <3>4. CASE ClientStep(l)
      <4>1. UNCHANGED gone /\ \E k : stream' = stream \/ Took(l, k)
        BY <3>4 DEF ClientStep, ReadMethod, ReadAuth, ReadConnectOnce, ReadConnectFull,
              ReadBound, ReadReply4, ReadEOF, Expire
      <4>2. stream'[c] = stream[c]
        BY <2>1, <2>3, <4>1 DEF Took, LinkInv, ExchangeInv, ExchangeTypes
      <4>3. \E v : xpc' = [xpc EXCEPT ![l] = v]
        <5>1. CASE ReadMethod(l)
          BY <5>1 DEF ReadMethod, SendConnect, Sends, Fails
        <5>2. CASE ReadAuth(l)
          BY <5>2 DEF ReadAuth, SendConnect, Sends, Fails
        <5>3. CASE ReadConnectOnce(l)
          <6>1. PICK k \in 1 .. Len(stream[l]) :
                   CASE k < 2 -> Fails(l, "no CONNECT response")
                     [] k >= 2 /\ Byte(l, k, 2) # 0 -> Fails(l, ReplyText(Byte(l, k, 2)))
                     [] k >= 2 /\ Byte(l, k, 2) = 0 -> Succeeds(l, NoError)
            BY <5>3 DEF ReadConnectOnce
          <6>2. Len(stream[l]) \in Nat
            BY DEF LinkInv, ExchangeInv, ExchangeTypes
          <6>3. k < 2 \/ k >= 2
            BY <6>2
          <6>4. (\E err : Fails(l, err)) \/ Succeeds(l, NoError)
            BY <6>1, <6>3
          <6> QED
            BY <6>4 DEF Fails, Succeeds
        <5>4. CASE ReadConnectFull(l)
          BY <5>4 DEF ReadConnectFull, Fails, Succeeds
        <5>5. CASE ReadBound(l)
          BY <5>5 DEF ReadBound, Succeeds
        <5>6. CASE ReadReply4(l)
          BY <5>6 DEF ReadReply4, Fails, Succeeds
        <5>7. CASE ReadEOF(l) \/ Expire(l)
          BY <5>7 DEF ReadEOF, Expire, ReadError, Fails, Succeeds
        <5> QED
          BY <3>4, <5>1, <5>2, <5>3, <5>4, <5>5, <5>6, <5>7 DEF ClientStep
      <4>4. xpc'[c] = xpc[c]
        BY <2>1, <2>3, <4>3 DEF LinkInv, ExchangeInv, ExchangeTypes
      <4> QED
        BY <4>1, <4>2, <4>4
    <3> QED
      BY <3>1, <3>2, <3>3, <3>4
  <2> QED
    BY <2>2, <2>3
<1>3. SpliceInv'
  BY <1>2 DEF LinkInv, SpliceInv, Over, Quiet, Settles
<1> QED
  BY <1>1, <1>3

\* A step of the exchange alone keeps the whole invariant.
LEMMA ExchangeStepKeeps ==
    ASSUME LinkInv, NEW l \in Links, Settles,
           \/ ClientStep(l) \/ ServerStep(l) \/ (\E p : Begin(l, p)) \/ Close(l)
    PROVE  LinkInv'
<1>1. left[l] \in Nat
  BY DEF LinkInv, RelayTypes
<1>2. ExchangeInv'
  BY <1>1, ClientStepKeeps, ServerStepKeeps, BeginKeeps, CloseKeeps DEF LinkInv
<1> QED
  BY <1>2, ExchangeKeepsSplice DEF LinkInv

\* What a step of the relay that leaves the links alone may do to a connection.
LEMMA HandlerOnlyKeeps ==
    ASSUME LinkInv, NEW c \in RelayLinks, UNCHANGED <<xvars, peer, copying, dvars>>,
           NEW h, Becomes(c, h), h \notin {"splice", "done"} \/ (h = "done" /\ Finish(c))
    PROVE  LinkInv'
<1>1. ExchangeInv'
  BY StutterKeeps DEF LinkInv, xvars
<1>2. RelayTypes'
  BY DEF LinkInv, RelayTypes, Becomes, xvars, dvars
<1>3. SpliceInv'
  BY DEF LinkInv, RelayTypes, SpliceInv, Over, Quiet, Becomes, Finish, xvars, dvars
<1> QED
  BY <1>1, <1>2, <1>3 DEF LinkInv

LEMMA HandlerKeeps ==
    ASSUME LinkInv, NEW c \in RelayLinks, Handler(c) PROVE LinkInv'
<1>1. c \in Links
  BY RelayAssumption
<1>2. ASSUME NEW h, Becomes(c, h), h \notin {"splice", "done"}, UNCHANGED <<peer, copying, dvars>>
      PROVE  Settles
  BY <1>2 DEF Becomes, Settles, LinkInv, RelayTypes, dvars
<1>3. CASE Accept(c)
  BY <1>3, HandlerOnlyKeeps DEF Accept
<1>4. CASE ReadHeader(c)
  BY <1>4, HandlerOnlyKeeps DEF ReadHeader
<1>5. CASE ReadUntilNull(c)
  <2>1. \E h \in {"name", "dial"} : Becomes(c, h)
    BY <1>5 DEF ReadUntilNull
  <2> QED
    BY <1>5, <2>1, HandlerOnlyKeeps DEF ReadUntilNull
<1>6. CASE ReadFails(c)
  BY <1>6, HandlerOnlyKeeps DEF ReadFails
<1>7. CASE DialUpstream(c)
  BY <1>1, <1>2, <1>7, ExchangeStepKeeps DEF DialUpstream
<1>8. CASE Exchange(c)
  <2>1. Settles
    BY <1>8 DEF Exchange, rvars, dvars, Settles, LinkInv, RelayTypes
  <2> QED
    BY <1>1, <1>8, <2>1, ExchangeStepKeeps DEF Exchange
<1>9. CASE DialFails(c)
  BY <1>1, <1>2, <1>9, ExchangeStepKeeps DEF DialFails
<1>10. CASE Grant(c)
  <2>1. ExchangeInv'
    BY <1>10, StutterKeeps DEF LinkInv, xvars, Grant
  <2>2. RelayTypes'
    BY <1>10 DEF LinkInv, RelayTypes, Becomes, xvars, dvars, Grant
  <2>3. SpliceInv'
    BY <1>10 DEF LinkInv, RelayTypes, SpliceInv, Over, Quiet, Becomes, Grant, xvars, dvars
  <2> QED
    BY <2>1, <2>2, <2>3 DEF LinkInv
<1>11. CASE GrantFails(c)
  BY <1>1, <1>2, <1>11, ExchangeStepKeeps DEF GrantFails
<1>12. CASE CopyUp(c)
  <2>1. ExchangeInv'
    BY <1>12, StutterKeeps DEF LinkInv, xvars, CopyUp
  <2>2. RelayTypes' /\ SpliceInv'
    BY <1>12 DEF LinkInv, RelayTypes, SpliceInv, Over, Quiet, xvars, CopyUp
  <2> QED
    BY <2>1, <2>2 DEF LinkInv
<1>13. CASE Finish(c)
  BY <1>13, HandlerOnlyKeeps DEF Finish
<1>14. ASSUME NEW i \in Copiers, CopierEnds(c, i) PROVE LinkInv'
  <2>1. CASE hpc[c] = "done"
    <3>1. copying'[c] # Copiers
      BY <1>14, <2>1 DEF CopierEnds, LinkInv, RelayTypes, SpliceInv
    <3>2. Close(c)
      BY <1>14, <2>1 DEF CopierEnds, Returns
    <3>3. /\ refused' = [refused EXCEPT ![c] = FALSE] /\ writing' = [writing EXCEPT ![c] = FALSE]
          /\ stream'[c] = <<>> /\ xpc'[c] = "closed"
      BY <1>1, <1>14, <2>1, <3>2
      DEF CopierEnds, Returns, Close, LinkInv, ExchangeInv, ExchangeTypes
    <3>4. Settles
      BY <1>14, <2>1, <3>1, <3>3 DEF CopierEnds, Settles, LinkInv, RelayTypes
    <3> QED
      BY <1>1, <3>2, <3>4, ExchangeStepKeeps
  <2>2. CASE hpc[c] # "done"
    <3>1. UNCHANGED xvars /\ UNCHANGED <<hpc, peer>>
      BY <1>14, <2>2 DEF CopierEnds, Returns
    <3>2. ExchangeInv'
      BY <3>1, StutterKeeps DEF LinkInv, xvars
    <3>3. /\ writing' = [writing EXCEPT ![c] = @ /\ i # "up"]
          /\ refused' = [refused EXCEPT ![c] = @ \/ (i = "up" /\ writing[c])]
          /\ copying' = [copying EXCEPT ![c] = @ \ {i}]
      BY <1>14, <2>2 DEF CopierEnds, Returns
    <3>4. RelayTypes'
      BY <3>1, <3>3 DEF LinkInv, RelayTypes, xvars
    <3>5. (i = "up" /\ UpEnds(c)) \/ (i = "down" /\ DownEnds(c))
      BY <1>14, <2>2 DEF CopierEnds, Returns, MayEnd
    <3>6. peer[c] => Over(c)'
      <4>1. CASE i = "up" /\ UpEnds(c)
        BY <3>1, <3>3, <4>1 DEF UpEnds, Over, LinkInv, RelayTypes
      <4>2. CASE i = "down" /\ DownEnds(c)
        BY <3>1, <3>3, <4>2 DEF DownEnds, Over, Quiet, xvars, LinkInv, RelayTypes
      <4> QED
        BY <3>5, <4>1, <4>2
    <3>7. \A d \in RelayLinks \ {c} :
              refused'[d] = refused[d] /\ copying'[d] = copying[d] /\ (Over(d) => Over(d)')
      BY <3>1, <3>3 DEF Over, Quiet, xvars, LinkInv, RelayTypes
    <3>8. SpliceInv'
      BY <2>2, <3>1, <3>6, <3>7 DEF LinkInv, SpliceInv, xvars
    <3> QED
      BY <3>2, <3>4, <3>8 DEF LinkInv
  <2> QED
    BY <2>1, <2>2
<1> QED
  BY <1>3, <1>4, <1>5, <1>6, <1>7, <1>8, <1>9, <1>10, <1>11, <1>12, <1>13, <1>14 DEF Handler

LEMMA ElsewhereKeeps ==
    ASSUME LinkInv, NEW c \in RelayLinks, Elsewhere(c) PROVE LinkInv'
<1>1. c \in Links
  BY RelayAssumption
<1>2. CASE NmapCloses(c)
  <2>1. ExchangeInv'
    BY <1>2, StutterKeeps DEF LinkInv, xvars, NmapCloses
  <2>2. RelayTypes' /\ SpliceInv'
    BY <1>2 DEF LinkInv, RelayTypes, SpliceInv, Over, Quiet, xvars, dvars, NmapCloses
  <2> QED
    BY <2>1, <2>2 DEF LinkInv
<1>3. CASE TargetSends(c)
  <2>1. ExchangeInv'
    BY <1>3, TargetSendsKeeps DEF LinkInv
  <2>2. RelayTypes'
    BY <1>3 DEF LinkInv, RelayTypes, TargetSends
  <2>3. \A d \in RelayLinks \ {c} : stream'[d] = stream[d]
    BY <1>3, RelayAssumption DEF TargetSends, LinkInv, ExchangeInv, ExchangeTypes
  <2>4. hpc[c] \in {"splice", "done"} /\ peer[c] => copying[c] = Copiers \/ refused[c]
    BY <1>3 DEF TargetSends, LinkInv, SpliceInv, Over, Quiet
  <2>5. SpliceInv'
    BY <1>3, <2>3, <2>4 DEF LinkInv, SpliceInv, Over, Quiet, TargetSends
  <2> QED
    BY <2>1, <2>2, <2>5 DEF LinkInv
<1>4. CASE TargetCloses(c)
  <2>1. ExchangeInv'
    BY <1>4, StutterKeeps DEF LinkInv, TargetCloses
  <2>2. RelayTypes' /\ SpliceInv'
    BY <1>1, <1>4, RelayAssumption
    DEF LinkInv, RelayTypes, SpliceInv, Over, Quiet, rvars, dvars, TargetCloses
  <2> QED
    BY <2>1, <2>2 DEF LinkInv
<1>5. CASE ProxyStep(c)
  <2>1. Settles
    BY <1>5 DEF ProxyStep, rvars, dvars, Settles, LinkInv, RelayTypes
  <2> QED
    BY <1>1, <1>5, <2>1, ExchangeStepKeeps DEF ProxyStep
<1>6. CASE ClientDeadline(c)
  <2>1. ExchangeInv'
    BY <1>6, StutterKeeps DEF LinkInv, xvars, ClientDeadline
  <2>2. RelayTypes' /\ SpliceInv'
    BY <1>6 DEF LinkInv, RelayTypes, SpliceInv, Over, Quiet, xvars, dvars, ClientDeadline
  <2> QED
    BY <2>1, <2>2 DEF LinkInv
<1>7. CASE CopyDown(c)
  <2>1. ExchangeInv'
    BY <1>7, CopyDownKeeps
  <2>2. RelayTypes'
    BY <1>7 DEF LinkInv, RelayTypes, CopyDown
  <2>3. copying[c] = Copiers \/ ~peer[c] \/ refused[c]
    BY <1>7 DEF CopyDown, LinkInv, SpliceInv, Over, Quiet
  <2>4. \A d \in RelayLinks \ {c} : stream'[d] = stream[d]
    BY <1>7, RelayAssumption DEF CopyDown, Took, LinkInv, ExchangeInv, ExchangeTypes
  <2>5. SpliceInv'
    BY <1>7, <2>3, <2>4 DEF LinkInv, SpliceInv, Over, Quiet, CopyDown
  <2> QED
    BY <2>1, <2>2, <2>5 DEF LinkInv
<1>8. CASE NmapSends(c)
  <2>1. ExchangeInv'
    BY <1>8, StutterKeeps DEF LinkInv, xvars, NmapSends
  <2>2. RelayTypes' /\ SpliceInv'
    BY <1>8 DEF LinkInv, RelayTypes, SpliceInv, Over, Quiet, xvars, NmapSends
  <2> QED
    BY <2>1, <2>2 DEF LinkInv
<1>9. CASE WriteUp(c)
  <2>1. ExchangeInv'
    BY <1>9, StutterKeeps DEF LinkInv, xvars, WriteUp
  <2>2. RelayTypes'
    BY <1>9 DEF LinkInv, RelayTypes, xvars, WriteUp
  <2>3. \A d \in RelayLinks : refused[d] => refused'[d]
    BY <1>9 DEF LinkInv, RelayTypes, WriteUp
  <2>4. SpliceInv'
    BY <1>9, <2>3 DEF LinkInv, SpliceInv, Over, Quiet, xvars, WriteUp
  <2> QED
    BY <2>1, <2>2, <2>4 DEF LinkInv
<1> QED
  BY <1>2, <1>3, <1>4, <1>5, <1>6, <1>7, <1>8, <1>9 DEF Elsewhere

LEMMA NmapConnectsKeeps ==
    ASSUME LinkInv, NEW c \in RelayLinks, NmapConnects(c) PROVE LinkInv'
<1>1. ExchangeInv'
  BY StutterKeeps DEF LinkInv, xvars, NmapConnects
<1>2. RelayTypes' /\ SpliceInv'
  BY DEF LinkInv, RelayTypes, SpliceInv, Over, Quiet, xvars, dvars, NmapConnects, Becomes
<1> QED
  BY <1>1, <1>2 DEF LinkInv

-----------------------------------------------------------------------------
(* The program *)

TakenInv == taken \in Nat

LEMMA ListKeeps ==
    ASSUME LinkInv, TakenInv, UNCHANGED rvars, ListStep \/ (\E i \in Numbers : ProxyActs(i))
    PROVE  LinkInv'
<1>1. Settles
  BY DEF rvars, dvars, Settles, LinkInv, RelayTypes
<1>2. \A i \in Numbers : i \in Links
  BY ListAssumption DEF Numbers
<1>3. CASE StartCheck
  <2>1. taken + 1 \in Numbers
    <3>1. taken < Len(List)
      BY <1>3 DEF StartCheck
    <3>2. Len(List) \in Nat
      <4>1. List \in Seq([proto : {"socks5", "socks4"}, user : BOOLEAN])
        BY ListAssumption
      <4> QED
        BY <4>1, LenProperties
    <3> QED
      BY <3>1, <3>2 DEF Numbers, TakenInv
  <2>2. \E p : Begin(taken + 1, p)
    BY <1>3 DEF StartCheck
  <2>3. taken + 1 \in Links
    BY <1>2, <2>1
  <2> QED
    BY <1>1, <2>2, <2>3, ExchangeStepKeeps
<1>4. ASSUME NEW i \in Numbers, Handshake(i) \/ ProxyActs(i) \/ Validated(i) PROVE LinkInv'
  BY <1>1, <1>2, <1>4, ExchangeStepKeeps DEF Handshake, ProxyActs, Validated
<1>5. ASSUME UNCHANGED xvars PROVE LinkInv'
  <2>1. ExchangeInv'
    BY <1>5, StutterKeeps DEF LinkInv, xvars
  <2> QED
    BY <1>5, <2>1 DEF LinkInv, RelayTypes, SpliceInv, Over, Quiet, xvars, rvars, dvars
<1> QED
  BY <1>3, <1>4, <1>5 DEF ListStep, ListEnds, AskEcho, EchoesFail, CountValid, WriteLine

LEMMA SameLinks == ASSUME LinkInv, UNCHANGED <<xvars, rvars>> PROVE LinkInv'
<1>1. ExchangeInv'
  BY StutterKeeps DEF LinkInv, xvars
<1> QED
  BY <1>1 DEF LinkInv, RelayTypes, SpliceInv, Over, Quiet, xvars, rvars, dvars

\* Opening and closing the listener, and the end of nmap, leave the tunnels alone.
LEMMA StartStopKeeps ==
    ASSUME LinkInv, (\E p : RelayStarts(p)) \/ RelayStops \/ NmapEnds PROVE LinkInv'
<1>1. UNCHANGED <<xvars, copying>>
  BY DEF RelayStarts, RelayStops, NmapEnds
<1>2. ExchangeInv'
  BY <1>1, StutterKeeps DEF LinkInv, xvars
<1>3. RelayTypes' /\ SpliceInv'
  BY <1>1 DEF LinkInv, RelayTypes, SpliceInv, Over, Quiet, xvars, dvars, RelayStarts, RelayStops,
               NmapEnds
<1> QED
  BY <1>2, <1>3 DEF LinkInv

LEMMA MainKeeps == ASSUME LinkInv, Main PROVE LinkInv'
<1>1. CASE StartRelay
  BY <1>1, StartStopKeeps, SameLinks DEF StartRelay
<1>2. CASE NmapDone
  BY <1>2, StartStopKeeps, SameLinks DEF NmapDone
<1>3. CASE StartFlat \/ StartScan \/ StartValidate \/ NextTarget \/ Advance \/ ExecNmap
           \/ BuiltinReturns \/ Prune \/ ConnectScanEnds \/ Summary \/ ValidateEnds
  <2>1. UNCHANGED <<xvars, rvars>>
    BY <1>3 DEF StartFlat, StartScan, StartValidate, NextTarget, Advance, ExecNmap,
          BuiltinReturns, Prune, ConnectScanEnds, Summary, ValidateEnds, parts
  <2> QED
    BY <2>1, SameLinks
<1>4. CASE StartBuiltin
  BY <1>4, SameLinks DEF StartBuiltin
<1> QED
  BY <1>1, <1>2, <1>3, <1>4 DEF Main

LEMMA TakenIsANumber == Spec => []TakenInv
<1>1. Init => TakenInv
  <2>1. Init => ListInit
    BY DEF Init
  <2>2. ListInit => taken = 0
    BY DEF ListInit
  <2> QED
    BY <2>1, <2>2 DEF TakenInv
<1>2. TakenInv /\ [Next]_vars => TakenInv'
  <2> SUFFICES ASSUME TakenInv, [Next]_vars PROVE taken' = taken \/ taken' = taken + 1
    BY DEF TakenInv
  <2>1. CASE ListGoes
    BY <2>1 DEF ListGoes, ListStep, StartCheck, ListEnds, Handshake, Validated, AskEcho,
          EchoesFail, CountValid, WriteLine, lvars
  <2>2. CASE Main
    BY <2>2 DEF Main, StartFlat, StartScan, StartValidate, NextTarget, Advance, StartRelay,
          ExecNmap, NmapDone, StartBuiltin, BuiltinReturns, Prune, ConnectScanEnds, Summary,
          ValidateEnds, parts, lvars
  <2>3. CASE ~ListGoes /\ ~Main
    BY <2>3 DEF Next, Interrupt, NmapFinds, NmapEnds, ScanGoes, RelayOf, Outside, Connects,
          ProxyGoes, ProxyActs, parts, lvars, vars
  <2> QED
    BY <2>1, <2>2, <2>3
<1> QED
  BY <1>1, <1>2, PTL DEF Spec

LEMMA LinkInvHolds == Spec => []LinkInv
<1>1. Init => LinkInv
  <2> SUFFICES ASSUME Init PROVE LinkInv
    OBVIOUS
  <2>1. ExchangeInit /\ RelayInit
    BY DEF Init
  <2>2. Len(<<>>) = 0 /\ <<>> \in Seq(Nat)
    OBVIOUS
  <2>3. ExchangeInv
    BY <2>1, <2>2 DEF ExchangeInit, ExchangeInv, ExchangeTypes, Granted, ClientStates
  <2>4. RelayTypes
    BY <2>1 DEF ExchangeInit, RelayInit, RelayTypes, Idle
  <2>5. SpliceInv
    BY <2>1 DEF RelayInit, SpliceInv, Idle
  <2> QED
    BY <2>3, <2>4, <2>5 DEF LinkInv
<1>2. LinkInv /\ TakenInv /\ [Next]_vars => LinkInv'
  <2> SUFFICES ASSUME LinkInv, TakenInv, [Next]_vars PROVE LinkInv'
    OBVIOUS
  <2>1. CASE Main
    BY <2>1, MainKeeps
  <2>2. CASE Interrupt \/ NmapFinds \/ ScanGoes
    BY <2>2, SameLinks DEF Interrupt, NmapFinds, ScanGoes, parts
  <2>3. CASE NmapEnds
    BY <2>3, StartStopKeeps
  <2>4. CASE ListGoes
    BY <2>4, ListKeeps DEF ListGoes
  <2>5. ASSUME NEW c \in RelayLinks, RelayOf(c) \/ Outside(c) \/ Connects(c) PROVE LinkInv'
    BY <2>5, HandlerKeeps, ElsewhereKeeps, NmapConnectsKeeps DEF RelayOf, Outside, Connects
  <2>6. ASSUME NEW i \in Numbers, ProxyGoes(i) PROVE LinkInv'
    BY <2>6, ListKeeps DEF ProxyGoes
  <2>7. CASE UNCHANGED vars
    BY <2>7, SameLinks DEF vars, parts
  <2> QED
    BY <2>1, <2>2, <2>3, <2>4, <2>5, <2>6, <2>7 DEF Next
<1> QED
  BY <1>1, <1>2, TakenIsANumber, PTL DEF Spec

\* A handshake succeeds only when the proxy has opened the tunnel, for any
\* replies of the proxies, however TCP cuts them and wherever the connection
\* breaks or a deadline passes (validate.go:152-259, relay.go:156-259).
THEOREM HandshakeIsGranted == Spec => []OkIsGranted
<1>1. LinkInv => OkIsGranted
  BY DEF LinkInv, ExchangeInv, ExchangeTypes, Granted, OkIsGranted
<1> QED
  BY <1>1, LinkInvHolds, PTL

\* For any number of connections and amount of data: when a handler ends before
\* nmap has closed, nothing that came from the target is left behind, unless nmap
\* itself sent something to a connection that was closed (relay.go:124-127).
THEOREM TunnelIsDrained == Spec => []LastWords
<1>1. LinkInv => LastWords
  BY DEF LinkInv, SpliceInv, LastWords, Over, Quiet, ExchangeInv
<1> QED
  BY <1>1, LinkInvHolds, PTL

\* For any number of jobs and workers: the channel of a connect scan is closed
\* when none of its workers is left to send, interrupted or not
\* (scanner.go:143-196, cli.go:254-259).
THEOREM ChannelClosedLast == Spec => []NoSendAfterClose
<1>1. Init => NoSendAfterClose
  <2>1. Init => ScanInit
    BY DEF Init
  <2>2. ScanInit => spc = "off"
    BY DEF ScanInit
  <2> QED
    BY <2>1, <2>2 DEF NoSendAfterClose
<1>2. NoSendAfterClose /\ [Next]_vars => NoSendAfterClose'
  <2> SUFFICES ASSUME NoSendAfterClose, [Next]_vars PROVE NoSendAfterClose'
    OBVIOUS
  <2>1. ASSUME UNCHANGED <<spc, wpc>> PROVE NoSendAfterClose'
    BY <2>1 DEF NoSendAfterClose, Busy
  <2>2. CASE ScanStep(interrupted)
    <3>1. CASE ScanLoop(interrupted) \/ StartJob \/ ScanReturns \/ PrintResult
      BY <3>1 DEF ScanLoop, StartJob, ScanReturns, PrintResult, NoSendAfterClose, Busy
    <3>2. ASSUME NEW j \in Jobs, TakeConn(j) \/ GiveUp(j) \/ SendResult(j, interrupted) \/ Count(j)
          PROVE  NoSendAfterClose'
      <4>1. j \in Busy /\ UNCHANGED spc
        BY <3>2 DEF TakeConn, GiveUp, SendResult, Count, Busy
      <4> QED
        BY <4>1 DEF NoSendAfterClose
    <3>3. ASSUME NEW j \in Jobs, DialReturns(j) PROVE NoSendAfterClose'
      BY <2>1, <3>3 DEF DialReturns
    <3> QED
      BY <2>2, <3>1, <3>2, <3>3 DEF ScanStep
  <2>3. CASE StartBuiltin
    BY <2>3 DEF StartBuiltin, ScanStarts, svars, NoSendAfterClose, Busy
  <2>4. CASE Main /\ ~StartBuiltin
    <3>1. UNCHANGED svars
      BY <2>4 DEF Main, StartFlat, StartScan, StartValidate, NextTarget, Advance, StartRelay,
            ExecNmap, NmapDone, BuiltinReturns, Prune, ConnectScanEnds, Summary, ValidateEnds, parts
    <3> QED
      BY <2>1, <3>1 DEF svars
  <2>5. CASE ~Main /\ ~ScanGoes
    <3>1. UNCHANGED svars
      BY <2>5 DEF Next, Interrupt, NmapFinds, NmapEnds, ListGoes, RelayOf, Outside, Connects,
            ProxyGoes, parts, vars
    <3> QED
      BY <2>1, <3>1 DEF svars
  <2> QED
    BY <2>2, <2>3, <2>4, <2>5 DEF ScanGoes
<1> QED
  BY <1>1, <1>2, PTL DEF Spec

-----------------------------------------------------------------------------
(* The main goroutine *)

Proxies == DOMAIN Kind

RunTypes ==
    /\ cpc \in {"start", "loop", "relay", "exec", "wait", "builtin", "scanning", "prune",
                "printing", "validating", "advance", "summary", "exited"}
    /\ valid \in Seq(Proxies) /\ loaded \in Seq(Proxies) /\ used \in Seq(Proxies)
    /\ snapshot \in Seq(Proxies) /\ index \in Nat
    /\ found \in Seq(Nat) /\ all \in Seq(Nat) /\ seen \in Seq(Nat)

\* Nothing is there before the command has started.
StartInv ==
    cpc = "start" =>
        /\ valid = <<>> /\ loaded = <<>> /\ used = <<>> /\ snapshot = <<>> /\ found = <<>>
        /\ index = 0 /\ lost = {}
        /\ IsFlat => args \in ArgLists

\* What belongs to one place of the main goroutine: nmap runs only while it is
\* waited for, its findings wait for its end, the snapshot is the scan's.
PlacesInv ==
    /\ cpc = "validating" => cmd = "validate"
    /\ running => cpc = "wait"
    /\ found # <<>> => cpc \in {"exec", "wait"}
    /\ snapshot # <<>> => cpc = "scanning"
    /\ cpc \in {"builtin", "scanning", "prune"} => ~WithNmap

RunInv == RunTypes /\ StartInv /\ PlacesInv

\* The steps that are not the run's leave it alone.
LEMMA RunSteps ==
    ASSUME [Next]_vars
    PROVE  Main \/ Interrupt \/ NmapFinds \/ NmapEnds \/ UNCHANGED fvars
BY DEF Next, ScanGoes, ListGoes, RelayOf, Outside, Connects, ProxyGoes, vars

LEMMA Loads ==
    ASSUME NEW name \in DOMAIN PoolFiles, NEW where, LoadPool(name, where)
    PROVE  /\ valid' \in Seq(Proxies) /\ loaded' = valid'
           /\ cpc' = where \/ (cpc' = "exited" /\ valid' = <<>>)
BY CommandAssumption DEF LoadPool, Goes, Proxies

\* A command begins with the pool of its file, or ends without one.
LEMMA StartWhat ==
    ASSUME RunInv, StartFlat \/ StartScan \/ StartValidate
    PROVE  /\ cpc = "start" /\ loaded' = valid' /\ valid' \in Seq(Proxies)
           /\ \/ cpc' = "exited" /\ valid' = <<>>
              \/ cpc' = "loop"
              \/ cpc' = "validating" /\ cmd = "validate"
           /\ UNCHANGED <<cmd, interrupted, index, px, nvars, bvars, all, output, used,
                          lost, seen>>
<1>1. CASE StartFlat
  <2>1. cpc = "start" /\ IsFlat /\ UNCHANGED <<cmd, interrupted, index, px, nvars, bvars, all,
                                              output, used, lost, seen>>
    BY <1>1 DEF StartFlat
  <2>2. args \in ArgLists /\ valid = <<>> /\ loaded = <<>>
    BY <2>1 DEF RunInv, StartInv
  <2> DEFINE parsed == ParseFlatArgs(args)
  <2>3. \/ cpc' = "exited" /\ UNCHANGED <<valid, loaded>>
        \/ parsed.proxList # "" /\ LoadPool(parsed.proxList, "loop")
    BY <1>1 DEF StartFlat, Goes
  <2>4. parsed.proxList \in DOMAIN PoolFiles \cup {""}
    BY <2>2, CommandAssumption
  <2> HIDE DEF parsed
  <2>5. CASE cpc' = "exited" /\ UNCHANGED <<valid, loaded>>
    BY <2>1, <2>2, <2>5 DEF RunInv, RunTypes
  <2>6. CASE parsed.proxList # "" /\ LoadPool(parsed.proxList, "loop")
    BY <2>1, <2>4, <2>6, Loads
  <2> QED
    BY <2>3, <2>5, <2>6
<1>2. CASE StartScan
  <2>1. LoadPool("pool", "loop") /\ "pool" \in DOMAIN PoolFiles
    BY <1>2, CommandAssumption DEF StartScan
  <2>2. /\ valid' \in Seq(Proxies) /\ loaded' = valid'
        /\ cpc' = "loop" \/ (cpc' = "exited" /\ valid' = <<>>)
    BY <2>1, Loads
  <2> QED
    BY <1>2, <2>2 DEF StartScan
<1>3. CASE StartValidate
  BY <1>3 DEF StartValidate, Goes, pvars, mvars, RunInv, RunTypes, StartInv
<1> QED
  BY <1>1, <1>2, <1>3

\* A target's turn begins with the next proxy of the pool, or the loop ends.
LEMMA TurnWhat ==
    ASSUME RunTypes, NextTarget
    PROVE  /\ cpc = "loop"
           /\ UNCHANGED <<cmd, args, fa, interrupted, valid, loaded, nvars, bvars, all,
                          output, lost, seen>>
           /\ index' \in Nat /\ used' \in Seq(Proxies)
           /\ \/ /\ cpc' = "summary" /\ UNCHANGED used
                 /\ \/ targets' = <<>> /\ UNCHANGED index
                    \/ interrupted /\ UNCHANGED index
                    \/ /\ index' = NextIndex(valid, index, fa.wrap)
                       /\ Len(valid) <= index'
              \/ /\ cpc' = IF WithNmap THEN "relay" ELSE "builtin"
                 /\ index' = NextIndex(valid, index, fa.wrap) /\ index' < Len(valid)
                 /\ used' = Append(used, valid[index' + 1])
<1>1. /\ cpc = "loop"
      /\ UNCHANGED <<cmd, args, fa, interrupted, valid, loaded, nvars, bvars, all,
                     output, lost, seen>>
  BY DEF NextTarget
<1>2. CASE targets = <<>> \/ (interrupted /\ IsFlat)
  <2>1. index' = index /\ used' = used /\ index \in Nat /\ used \in Seq(Proxies)
    BY <1>2 DEF NextTarget, RunTypes
  <2> QED
    BY <1>1, <1>2, <2>1 DEF NextTarget, Goes
<1>3. CASE ~(targets = <<>> \/ (interrupted /\ IsFlat))
  <2> DEFINE i == NextIndex(valid, index, fa.wrap)
             p == NextProxy(valid, index, fa.wrap)
  <2>1. /\ index' = i
        /\ IF p = NoProxy THEN cpc' = "summary" /\ UNCHANGED used
           ELSE used' = Append(used, p) /\ cpc' = IF WithNmap THEN "relay" ELSE "builtin"
    BY <1>3 DEF NextTarget, Goes
  <2>2. p = IF i < Len(valid) THEN valid[i + 1] ELSE NoProxy
    BY DEF NextProxy
  <2>3. i \in Nat /\ Len(valid) \in Nat
    BY DEF RunTypes, NextIndex
  <2> HIDE DEF i, p
  <2>4. ASSUME i < Len(valid)
        PROVE  valid[i + 1] # NoProxy /\ Append(used, valid[i + 1]) \in Seq(Proxies)
    <3>1. valid \in Seq(Proxies) /\ i + 1 \in 1 .. Len(valid) /\ used \in Seq(Proxies)
      BY <2>3, <2>4 DEF RunTypes
    <3>2. valid[i + 1] \in Proxies
      BY <3>1, ElementOfSeq
    <3> QED
      BY <3>1, <3>2, CommandAssumption, AppendProperties DEF Proxies
  <2>5. CASE i < Len(valid)
    <3>1. used' = Append(used, valid[i + 1]) /\ cpc' = IF WithNmap THEN "relay" ELSE "builtin"
      BY <2>1, <2>2, <2>4, <2>5
    <3> QED
      BY <1>1, <2>1, <2>3, <2>4, <2>5, <3>1 DEF i
  <2>6. CASE ~(i < Len(valid))
    <3>1. used' = used /\ cpc' = "summary" /\ used \in Seq(Proxies) /\ Len(valid) <= i
      BY <2>1, <2>2, <2>3, <2>6 DEF RunTypes
    <3> QED
      BY <1>1, <2>1, <2>3, <3>1 DEF i
  <2> QED
    BY <2>5, <2>6
<1> QED
  BY <1>1, <1>2, <1>3

\* What a command takes from its arguments stays as it is.
LEMMA SameTool == ASSUME UNCHANGED <<cmd, fa>> PROVE WithNmap' = WithNmap /\ IsFlat' = IsFlat
BY DEF WithNmap, IsFlat

LEMMA SameRun == ASSUME RunInv, UNCHANGED fvars PROVE RunInv'
BY DEF RunInv, RunTypes, StartInv, PlacesInv, WithNmap, IsFlat, fvars, pvars, nvars, bvars, mvars

\* One more line, and the lines of a target put behind the others.
LEMMA Lines ==
    ASSUME NEW a \in Seq(Nat), NEW b \in Seq(Nat), NEW x \in Nat
    PROVE  /\ Append(b, x) \in Seq(Nat) /\ a \o b \in Seq(Nat) /\ <<x>> \in Seq(Nat)
           /\ a \o <<>> = a /\ a \o Append(b, x) = Append(a \o b, x)
           /\ (a \o <<x>>) \o <<>> = Append(a, x)
<1>1. /\ Append(b, x) \in Seq(Nat) /\ a \o b \in Seq(Nat) /\ <<x>> \in Seq(Nat)
      /\ a \o <<>> = a /\ <<>> \in Seq(Nat)
  OBVIOUS
<1>2. a \o Append(b, x) = Append(a \o b, x)
  OBVIOUS
<1>3. a \o <<x>> = Append(a, x) /\ a \o <<x>> \in Seq(Nat)
  OBVIOUS
<1>4. (a \o <<x>>) \o <<>> = a \o <<x>>
  BY <1>3
<1> QED
  BY <1>1, <1>2, <1>3, <1>4

LEMMA RunKeeps == ASSUME RunInv, [Next]_vars PROVE RunInv'
<1>1. CASE StartFlat \/ StartScan \/ StartValidate
  <2>1. /\ cpc = "start" /\ loaded' = valid' /\ valid' \in Seq(Proxies)
        /\ \/ cpc' = "exited" /\ valid' = <<>>
           \/ cpc' = "loop"
           \/ cpc' = "validating" /\ cmd = "validate"
        /\ UNCHANGED <<cmd, interrupted, index, px, nvars, bvars, all, output, used,
                       lost, seen>>
    BY <1>1, StartWhat
  <2>2. snapshot' = <<>> /\ found' = <<>> /\ running' = FALSE
    BY <2>1 DEF RunInv, StartInv, PlacesInv, nvars, bvars
  <2> QED
    BY <2>1, <2>2 DEF RunInv, RunTypes, StartInv, PlacesInv, nvars, bvars
<1>2. CASE NextTarget
  <2>1. /\ cpc = "loop"
        /\ UNCHANGED <<cmd, args, fa, interrupted, valid, loaded, nvars, bvars, all,
                       output, lost, seen>>
        /\ \/ /\ cpc' = "summary" /\ UNCHANGED used
              /\ UNCHANGED index \/ index' = NextIndex(valid, index, fa.wrap)
           \/ /\ cpc' = IF WithNmap THEN "relay" ELSE "builtin"
              /\ index' = NextIndex(valid, index, fa.wrap) /\ index' < Len(valid)
              /\ used' = Append(used, valid[index' + 1])
    BY <1>2, TurnWhat DEF RunInv
  <2>2. index' \in Nat /\ used' \in Seq(Proxies)
    BY <1>2, TurnWhat DEF RunInv
  <2>4. RunTypes'
    BY <2>1, <2>2 DEF RunInv, RunTypes, nvars, bvars
  <2>5. PlacesInv'
    BY <2>1, SameTool DEF RunInv, PlacesInv, nvars, bvars
  <2> QED
    BY <2>1, <2>4, <2>5 DEF RunInv, StartInv
<1>3. ASSUME Advance \/ StartRelay \/ ExecNmap \/ ConnectScanEnds \/ Summary \/ ValidateEnds
      PROVE  RunInv'
  <2>1. /\ UNCHANGED <<cmd, fa, valid, loaded, used, bvars, all, seen, found>>
        /\ cpc \notin {"start", "scanning"}
        /\ cpc' \in {"loop", "exec", "advance", "wait", "exited"}
    BY <1>3 DEF Advance, StartRelay, ExecNmap, ConnectScanEnds, Summary, ValidateEnds, Goes,
          nvars, pvars, mvars
  <2>2. index' \in Nat
    <3>1. index' \in {index, index + 1}
      BY <1>3 DEF Advance, StartRelay, ExecNmap, ConnectScanEnds, Summary, ValidateEnds, pvars
    <3> QED
      BY <3>1 DEF RunInv, RunTypes
  <2>3. running' => cpc' = "wait"
    BY <1>3 DEF Advance, StartRelay, ExecNmap, ConnectScanEnds, Summary, ValidateEnds, Goes,
          nvars, RunInv, PlacesInv
  <2>4. found' # <<>> => cpc' \in {"exec", "wait"}
    BY <1>3, <2>1 DEF Advance, StartRelay, ExecNmap, ConnectScanEnds, Summary, ValidateEnds, Goes,
          RunInv, PlacesInv
  <2>5. RunTypes'
    BY <2>1, <2>2 DEF RunInv, RunTypes, bvars
  <2>6. PlacesInv'
    BY <2>1, <2>3, <2>4, SameTool DEF RunInv, PlacesInv, bvars
  <2> QED
    BY <2>1, <2>5, <2>6 DEF RunInv, StartInv
<1>4. CASE NmapDone
  <2>1. /\ UNCHANGED <<cmd, fa, pvars, used, bvars, seen, running>>
        /\ cpc = "wait" /\ ~running
        /\ \/ cpc' = "exec" /\ UNCHANGED <<found, all>>
           \/ cpc' = "advance" /\ found' = <<>> /\ all' = all \o found
    BY <1>4 DEF NmapDone, Goes, Keeps
  <2>2. all \o found \in Seq(Nat) /\ <<>> \in Seq(Nat)
    BY DEF RunInv, RunTypes
  <2>3. RunTypes'
    BY <2>1, <2>2 DEF RunInv, RunTypes, pvars, bvars
  <2>4. PlacesInv'
    BY <2>1, SameTool DEF RunInv, PlacesInv, bvars
  <2> QED
    BY <2>1, <2>3, <2>4 DEF RunInv, StartInv
<1>5. CASE StartBuiltin
  <2>1. /\ UNCHANGED <<cmd, fa, pvars, nvars, mvars>> /\ cpc = "builtin"
        /\ \/ cpc' = "scanning" /\ snapshot' \in {<<>>, valid}
           \/ cpc' = "printing" /\ UNCHANGED snapshot
    BY <1>5 DEF StartBuiltin, Goes
  <2>2. RunTypes'
    <3>1. <<>> \in Seq(Proxies)
      OBVIOUS
    <3> QED
      BY <2>1, <3>1 DEF RunInv, RunTypes, pvars, nvars, mvars
  <2>3. PlacesInv'
    BY <2>1, SameTool DEF RunInv, PlacesInv, nvars
  <2> QED
    BY <2>1, <2>2, <2>3 DEF RunInv, StartInv
<1>6. CASE BuiltinReturns
  <2>1. /\ UNCHANGED <<cmd, fa, pvars, nvars, used>> /\ cpc = "scanning" /\ snapshot' = <<>>
        /\ cpc' \in {"advance", "prune"}
        /\ \/ all' = all \o <<Len(used)>> /\ seen' = Append(seen, Len(used))
           \/ UNCHANGED <<all, seen>>
    BY <1>6 DEF BuiltinReturns, Goes, Keeps
  <2>2. Len(used) \in Nat
    BY DEF RunInv, RunTypes
  <2>3. all' \in Seq(Nat) /\ seen' \in Seq(Nat)
    <3>1. all \in Seq(Nat) /\ seen \in Seq(Nat)
      BY DEF RunInv, RunTypes
    <3>2. <<Len(used)>> \in Seq(Nat) /\ Append(seen, Len(used)) \in Seq(Nat)
      BY <2>2, <3>1, Lines
    <3>3. all \o <<Len(used)>> \in Seq(Nat)
      BY <3>1, <3>2, Lines
    <3> QED
      BY <2>1, <3>1, <3>2, <3>3
  <2>4. RunTypes'
    <3>1. <<>> \in Seq(Proxies)
      OBVIOUS
    <3> QED
      BY <2>1, <2>3, <3>1 DEF RunInv, RunTypes, pvars, nvars
  <2>5. PlacesInv'
    BY <2>1, SameTool DEF RunInv, PlacesInv, nvars
  <2> QED
    BY <2>1, <2>4, <2>5 DEF RunInv, StartInv
<1>7. CASE Prune
  <2>1. /\ UNCHANGED <<cmd, fa, loaded, nvars, snapshot, used, all, seen>> /\ cpc = "prune"
        /\ cpc' = "advance" /\ index' = 0
        /\ valid' = Keep(valid, {p \in ToSet(valid) : Address[p] \notin dead})
    BY <1>7 DEF Prune, Goes
  <2>2. valid' \in Seq(Proxies)
    BY <2>1, KeepFilters DEF RunInv, RunTypes
  <2>3. RunTypes'
    BY <2>1, <2>2 DEF RunInv, RunTypes, nvars
  <2>4. PlacesInv'
    BY <2>1, SameTool DEF RunInv, PlacesInv, nvars
  <2> QED
    BY <2>1, <2>3, <2>4 DEF RunInv, StartInv
<1>8. CASE Interrupt \/ NmapFinds \/ NmapEnds
  <2>1. /\ UNCHANGED <<cmd, fa, pvars, bvars, used, all, cpc>> /\ cpc # "start"
        /\ running' => running
        /\ found' = found \/ (running /\ found' = Append(found, Len(used)))
        /\ seen' = seen \/ seen' = Append(seen, Len(used))
    BY <1>8 DEF Interrupt, NmapFinds, NmapEnds, nvars, mvars, RunInv, PlacesInv
  <2>2. Len(used) \in Nat
    BY DEF RunInv, RunTypes
  <2>3. found' \in Seq(Nat) /\ seen' \in Seq(Nat)
    <3>1. found \in Seq(Nat) /\ seen \in Seq(Nat)
      BY DEF RunInv, RunTypes
    <3> QED
      BY ZenonT(30), <2>1, <2>2, <3>1, Lines
  <2>4. RunTypes'
    BY <2>1, <2>3 DEF RunInv, RunTypes, pvars, bvars
  <2>5. PlacesInv'
    BY <2>1, SameTool DEF RunInv, PlacesInv, bvars
  <2> QED
    BY <2>1, <2>4, <2>5 DEF RunInv, StartInv
<1>9. CASE UNCHANGED fvars
  BY <1>9, SameRun
<1> QED
  BY RunSteps, <1>1, <1>2, <1>3, <1>4, <1>5, <1>6, <1>7, <1>8, <1>9 DEF Main

LEMMA RunHolds == Spec => []RunInv
<1>1. Init => RunInv
  <2> SUFFICES ASSUME Init PROVE RunInv
    OBVIOUS
  <2>1. /\ cpc = "start" /\ valid = <<>> /\ loaded = <<>> /\ used = <<>> /\ snapshot = <<>>
        /\ found = <<>> /\ index = 0 /\ lost = {} /\ running = FALSE
        /\ all = <<>> /\ seen = <<>> /\ args \in IF cmd = "flat" THEN ArgLists ELSE {<<>>}
    BY DEF Init
  <2> QED
    BY <2>1 DEF RunInv, RunTypes, StartInv, PlacesInv, IsFlat
<1> QED
  BY <1>1, RunKeeps, PTL DEF Spec

-----------------------------------------------------------------------------
(* The report *)

\* What was reported is kept, or is still nmap's to give.
SeenInv == seen = all \o found /\ ReportIsWhole

LEMMA SeenKeeps == ASSUME RunInv, SeenInv, [Next]_vars PROVE SeenInv'
<1>1. /\ all \in Seq(Nat) /\ found \in Seq(Nat) /\ seen \in Seq(Nat) /\ Len(used) \in Nat
      /\ seen = all \o found
  BY DEF RunInv, RunTypes, SeenInv
<1>2. ASSUME UNCHANGED <<all, found, seen>>, cpc' # "exited" PROVE SeenInv'
  BY <1>1, <1>2 DEF SeenInv, ReportIsWhole
<1>3. CASE StartFlat \/ StartScan \/ StartValidate
  <2>1. /\ UNCHANGED <<all, found, seen>>
        /\ cpc' = "exited" => loaded' = <<>>
    BY <1>3, StartWhat DEF nvars
  <2> QED
    BY <1>1, <2>1 DEF SeenInv, ReportIsWhole
<1>4. CASE NextTarget
  <2>1. UNCHANGED <<all, found, seen>>
    BY <1>4 DEF NextTarget, nvars
  <2>2. cpc' # "exited"
    BY <1>4 DEF NextTarget, Goes
  <2> QED
    BY <1>2, <2>1, <2>2
<1>5. CASE Advance \/ StartRelay \/ ExecNmap \/ StartBuiltin \/ Prune \/ ConnectScanEnds
  BY <1>2, <1>5 DEF Advance, StartRelay, ExecNmap, StartBuiltin, Prune, ConnectScanEnds, Goes,
      nvars, mvars
<1>6. CASE Interrupt
  BY <1>2, <1>6 DEF Interrupt, nvars, mvars
<1>7. CASE NmapEnds
  <2>1. UNCHANGED <<all, found, seen>> /\ cpc' # "exited"
    BY <1>7 DEF NmapEnds, RunInv, PlacesInv, mvars
  <2> QED
    BY <1>2, <2>1
<1>8. CASE NmapFinds
  <2>1. /\ found' = Append(found, Len(used)) /\ seen' = Append(seen, Len(used))
        /\ all' = all /\ cpc' # "exited"
    BY <1>8 DEF NmapFinds, RunInv, PlacesInv
  <2>2. all \o Append(found, Len(used)) = Append(all \o found, Len(used))
    BY <1>1, Lines
  <2>3. seen' = all' \o found'
    BY <1>1, <2>1, <2>2
  <2> QED
    BY <2>1, <2>3 DEF SeenInv, ReportIsWhole
<1>9. CASE NmapDone
  <2>1. cpc' # "exited" /\ seen' = seen
    BY <1>9 DEF NmapDone, Goes
  <2>2. CASE UNCHANGED <<all, found>>
    BY <1>2, <2>1, <2>2
  <2>3. CASE all' = all \o found /\ found' = <<>>
    <3>1. all \o found \in Seq(Nat)
      BY <1>1, Lines
    <3>2. seen' = all' \o found'
      BY <1>1, <2>1, <2>3, <3>1, Lines
    <3> QED
      BY <2>1, <3>2 DEF SeenInv, ReportIsWhole
  <2> QED
    BY <1>9, <2>2, <2>3 DEF NmapDone, Keeps
<1>10. CASE BuiltinReturns
  <2>1. cpc' # "exited" /\ found' = found /\ found = <<>>
    BY <1>10 DEF BuiltinReturns, Goes, nvars, RunInv, PlacesInv
  <2>2. CASE UNCHANGED <<all, seen>>
    BY <1>2, <2>1, <2>2
  <2>3. CASE all' = all \o <<Len(used)>> /\ seen' = Append(seen, Len(used))
    <3>1. seen = all
      BY <1>1, <2>1, Lines
    <3>2. seen' = all' \o found'
      BY <1>1, <2>1, <2>3, <3>1, Lines
    <3> QED
      BY <2>1, <3>2 DEF SeenInv, ReportIsWhole
  <2> QED
    BY <1>10, <2>2, <2>3 DEF BuiltinReturns, Keeps
<1>11. CASE Summary
  <2>1. /\ UNCHANGED <<all, found, seen, cmd, fa>> /\ found = <<>>
        /\ output' = (IF IsFlat /\ fa.outFile # "" THEN all ELSE output)
              \/ fa.outFile = "no such directory"
    BY <1>11 DEF Summary, nvars, RunInv, PlacesInv
  <2>2. seen = all
    BY <1>1, <2>1, Lines
  <2>3. seen' = all' \o found'
    BY <1>1, <2>1
  <2>4. ReportIsWhole'
    BY <2>1, <2>2 DEF ReportIsWhole, IsFlat
  <2> QED
    BY <2>3, <2>4 DEF SeenInv
<1>12. CASE ValidateEnds
  <2>1. UNCHANGED <<all, found, seen, cmd>> /\ cmd = "validate"
    BY <1>12 DEF ValidateEnds, nvars, mvars, RunInv, PlacesInv
  <2> QED
    BY <1>1, <2>1 DEF SeenInv, ReportIsWhole, IsFlat
<1>13. CASE UNCHANGED fvars
  BY <1>1, <1>13 DEF SeenInv, ReportIsWhole, IsFlat, fvars, pvars, nvars, mvars
<1> QED
  BY RunSteps, <1>3, <1>4, <1>5, <1>6, <1>7, <1>8, <1>9, <1>10, <1>11, <1>12, <1>13 DEF Main

\* For any number of targets, proxies and lines: the file of a flat run that
\* ended, interrupted or not, holds all that nmap or a scan reported for any of its
\* targets, in that order (flat.go:252-264).
THEOREM ReportKeepsAll == Spec => []ReportIsWhole
<1>1. Init => SeenInv
  <2> SUFFICES ASSUME Init PROVE SeenInv
    OBVIOUS
  <2>1. all = <<>> /\ found = <<>> /\ seen = <<>> /\ cpc = "start"
    BY DEF Init
  <2>2. <<>> \o <<>> = <<>>
    OBVIOUS
  <2> QED
    BY <2>1, <2>2 DEF SeenInv, ReportIsWhole
<1>2. SeenInv => ReportIsWhole
  BY DEF SeenInv
<1> QED
  BY <1>1, <1>2, SeenKeeps, RunHolds, PTL DEF Spec

-----------------------------------------------------------------------------
(* The pool *)

\* The pool holds no proxy at an address that was found dead, a scan reads
\* nothing but the pool, and the pool is pruned only of something.
LossInv == /\ ToSet(snapshot) \subseteq ToSet(valid)
           /\ \A p \in ToSet(valid) : Address[p] \notin lost
           /\ cpc = "prune" => dead # {}

LEMMA LossKeeps == ASSUME RunInv, LossInv, [Next]_vars PROVE LossInv'
<1>1. ASSUME UNCHANGED <<snapshot, valid, lost, dead>>, cpc' = cpc \/ cpc' # "prune"
      PROVE  LossInv'
  BY <1>1 DEF LossInv
<1>2. CASE StartFlat \/ StartScan \/ StartValidate
  <2>1. snapshot' = <<>> /\ lost' = {} /\ cpc' # "prune"
    BY <1>2, StartWhat DEF bvars, RunInv, StartInv
  <2> QED
    BY <2>1, EmptyList DEF LossInv
<1>3. CASE NextTarget \/ Advance \/ StartRelay \/ ExecNmap \/ NmapDone \/ ConnectScanEnds
           \/ Summary \/ ValidateEnds \/ Interrupt \/ NmapFinds \/ NmapEnds
  <2>1. UNCHANGED <<snapshot, valid, lost, dead>>
    BY <1>3 DEF NextTarget, Advance, StartRelay, ExecNmap, NmapDone, ConnectScanEnds,
        Summary, ValidateEnds, Interrupt, NmapFinds, NmapEnds, pvars, bvars, mvars
  <2>2. cpc' = cpc \/ cpc' # "prune"
    BY <1>3 DEF NextTarget, Advance, StartRelay, ExecNmap, NmapDone, ConnectScanEnds,
        Summary, ValidateEnds, Interrupt, NmapFinds, NmapEnds, Goes
  <2> QED
    BY <1>1, <2>1, <2>2
<1>4. CASE StartBuiltin
  <2>1. snapshot' \in {<<>>, valid, snapshot} /\ UNCHANGED <<valid, lost>> /\ cpc' # "prune"
    BY <1>4 DEF StartBuiltin, Goes, pvars, mvars
  <2> QED
    BY <2>1, EmptyList DEF LossInv
<1>5. CASE BuiltinReturns
  <2>1. snapshot' = <<>> /\ UNCHANGED <<valid, lost>> /\ (cpc' = "prune" => dead' # {})
    BY <1>5 DEF BuiltinReturns, Goes, pvars
  <2> QED
    BY <2>1, EmptyList DEF LossInv
<1>6. CASE Prune
  <2> DEFINE kept == {p \in ToSet(valid) : Address[p] \notin dead}
  <2>1. /\ valid' = Keep(valid, kept) /\ lost' = lost \cup dead /\ snapshot' = <<>>
        /\ cpc' # "prune"
    BY <1>6 DEF Prune, Goes, RunInv, PlacesInv
  <2>2. valid \in Seq(Proxies)
    BY DEF RunInv, RunTypes
  <2> HIDE DEF kept
  <2>3. ToSet(valid') = ToSet(valid) \cap kept
    BY <2>1, <2>2, KeepFilters
  <2> QED
    BY <2>1, <2>3, EmptyList DEF LossInv, kept
<1>7. CASE UNCHANGED fvars
  BY <1>1, <1>7 DEF fvars, pvars, bvars, mvars
<1> QED
  BY RunSteps, <1>2, <1>3, <1>4, <1>5, <1>6, <1>7 DEF Main

LEMMA LossHolds == Spec => []LossInv
<1>1. Init => LossInv
  <2>1. Init => valid = <<>> /\ snapshot = <<>> /\ cpc = "start"
    BY DEF Init
  <2> QED
    BY <2>1, EmptyList DEF LossInv
<1> QED
  BY <1>1, LossKeeps, RunHolds, PTL DEF Spec

\* For any pool and any deaths: no proxy at an address that a scan of the run has
\* found dead is in the pool again when the next target is taken, nor in what a
\* later scan reads (flat.go:452-462).
THEOREM DeadServeNoMore == Spec => []DeadStayOut
<1>1. LossInv => DeadStayOut
  BY DEF LossInv, DeadStayOut
<1> QED
  BY <1>1, LossHolds, PTL

-----------------------------------------------------------------------------
(* The turns of the targets *)

\* Where a target has its turn.
InTurn == cpc \in {"relay", "exec", "wait", "builtin", "scanning", "prune", "printing", "advance"}

\* The index moves on only behind a target, so it never runs ahead of them.
TurnInv == /\ cpc = "loop" => index <= Len(used)
           /\ InTurn => index < Len(used)
           /\ ~fa.rotate => index = 0

\* The first n proxies of the pool have been targets', but for the first after a
\* pruning.
Passed(n) == \A i \in 1 .. n : i <= Len(valid) =>
                 valid[i] \in ToSet(used) \/ (i = 1 /\ lost # {})

\* The rotation passes no other proxy without a target.
PassInv == /\ cpc = "loop" => Passed(index)
           /\ InTurn => Passed(index + 1)
           /\ AllTargetsTaken

\* The steps that take no proxy and leave the pool alone.
LEMMA OtherSteps ==
    ASSUME RunInv, [Next]_vars
    PROVE  \/ StartFlat \/ StartScan \/ StartValidate \/ NextTarget \/ Advance \/ Prune
           \/ /\ UNCHANGED <<cmd, fa, valid, loaded, used, index, targets, lost>>
              /\ interrupted => interrupted'
              /\ cpc' = cpc \/ cpc' = "exited" \/ (InTurn /\ InTurn')
<1>1. CASE StartRelay \/ ExecNmap \/ NmapDone
  BY <1>1 DEF StartRelay, ExecNmap, NmapDone, Goes, InTurn, pvars, mvars
<1>2. CASE StartBuiltin \/ BuiltinReturns \/ ConnectScanEnds
  BY <1>2 DEF StartBuiltin, BuiltinReturns, ConnectScanEnds, Goes, InTurn, pvars, mvars
<1>3. CASE Summary \/ ValidateEnds
  BY <1>3 DEF Summary, ValidateEnds, Goes, pvars, mvars
<1>4. CASE Interrupt \/ NmapFinds \/ NmapEnds
  BY <1>4 DEF Interrupt, NmapFinds, NmapEnds, pvars, mvars
<1>5. CASE UNCHANGED fvars
  BY <1>5 DEF fvars, pvars, mvars
<1> QED
  BY RunSteps, <1>1, <1>2, <1>3, <1>4, <1>5 DEF Main

\* The index after a proxy was looked for.
LEMMA NextIndexIs ==
    ASSUME RunTypes
    PROVE  /\ NextIndex(valid, index, fa.wrap) <= index
           /\ NextIndex(valid, index, fa.wrap) \in {0, index}
           /\ ~fa.wrap => NextIndex(valid, index, fa.wrap) = index
           /\ fa.wrap /\ valid # <<>> => NextIndex(valid, index, fa.wrap) < Len(valid)
<1>1. /\ index \in Nat /\ Len(valid) \in Nat
      /\ valid # <<>> => Len(valid) > 0
  BY DEF RunTypes
<1> QED
  BY <1>1 DEF NextIndex

LEMMA TurnKeeps == ASSUME RunInv, TurnInv, [Next]_vars PROVE TurnInv'
<1>1. index \in Nat /\ used \in Seq(Proxies) /\ Len(used) \in Nat /\ Len(valid) \in Nat
  BY DEF RunInv, RunTypes
<1>2. CASE StartFlat \/ StartScan \/ StartValidate
  <2>1. /\ UNCHANGED <<index, used>> /\ index = 0 /\ Len(used) = 0
        /\ cpc' \in {"exited", "loop", "validating"}
    BY <1>2, StartWhat DEF RunInv, StartInv
  <2> QED
    BY <2>1 DEF TurnInv, InTurn
<1>3. CASE NextTarget
  <2> DEFINE i == NextIndex(valid, index, fa.wrap)
  <2>1. /\ cpc = "loop" /\ UNCHANGED fa
        /\ \/ cpc' = "summary" /\ index' \in {i, index}
           \/ /\ cpc' \in {"relay", "builtin"} /\ index' = i
              /\ used' = Append(used, valid[i + 1]) /\ used' \in Seq(Proxies)
    BY <1>3, TurnWhat DEF RunInv
  <2>2. i <= index /\ i \in {0, index}
    BY NextIndexIs DEF RunInv
  <2> HIDE DEF i
  <2>3. index <= Len(used) /\ (~fa.rotate => index = 0)
    BY <2>1 DEF TurnInv
  <2>4. ~fa.rotate => index' = 0
    BY <2>1, <2>2, <2>3
  <2>5. CASE cpc' = "summary"
    BY <2>1, <2>4, <2>5 DEF TurnInv, InTurn
  <2>6. CASE used' = Append(used, valid[i + 1]) /\ index' = i /\ cpc' \in {"relay", "builtin"}
    <3>1. Len(used') = Len(used) + 1
      BY <1>1, <2>6
    <3>2. index' < Len(used')
      BY <1>1, <2>2, <2>3, <2>6, <3>1
    <3> QED
      BY <2>1, <2>4, <2>6, <3>2 DEF TurnInv
  <2> QED
    BY <2>1, <2>5, <2>6
<1>4. CASE Advance
  <2>1. /\ cpc = "advance" /\ cpc' = "loop" /\ UNCHANGED <<used, fa>>
        /\ index' = IF fa.rotate THEN index + 1 ELSE index
    BY <1>4 DEF Advance, Goes, mvars
  <2>2. index < Len(used) /\ (~fa.rotate => index = 0)
    BY <2>1 DEF TurnInv, InTurn
  <2>3. index' <= Len(used) /\ (~fa.rotate => index' = 0)
    BY <1>1, <2>1, <2>2
  <2> QED
    BY <2>1, <2>3 DEF TurnInv, InTurn
<1>5. CASE Prune
  <2>1. cpc = "prune" /\ cpc' = "advance" /\ index' = 0 /\ UNCHANGED used
    BY <1>5 DEF Prune, Goes
  <2>2. index < Len(used)
    BY <2>1 DEF TurnInv, InTurn
  <2>3. index' < Len(used)
    BY <1>1, <2>1, <2>2
  <2> QED
    BY <2>1, <2>3 DEF TurnInv
<1>6. CASE /\ UNCHANGED <<cmd, fa, valid, loaded, used, index, targets, lost>>
           /\ interrupted => interrupted'
           /\ cpc' = cpc \/ cpc' = "exited" \/ (InTurn /\ InTurn')
  <2>1. (cpc' = "loop" => cpc = "loop") /\ (InTurn' => InTurn)
    BY <1>6 DEF InTurn
  <2> QED
    BY <1>6, <2>1 DEF TurnInv
<1> QED
  BY OtherSteps, <1>2, <1>3, <1>4, <1>5, <1>6

LEMMA TurnHolds == Spec => []TurnInv
<1>1. Init => TurnInv
  <2> SUFFICES ASSUME Init PROVE TurnInv
    OBVIOUS
  <2>1. cpc = "start" /\ index = 0
    BY DEF Init
  <2> QED
    BY <2>1 DEF TurnInv, InTurn
<1> QED
  BY <1>1, TurnKeeps, RunHolds, PTL DEF Spec

\* A proxy that gets a target has been a target's.
LEMMA AppendedIsUsed ==
    ASSUME used \in Seq(Proxies), NEW p, used' = Append(used, p)
    PROVE  p \in ToSet(used') /\ ToSet(used) \subseteq ToSet(used')
<1>1. /\ Len(used) \in Nat /\ Len(used') = Len(used) + 1 /\ used'[Len(used) + 1] = p
      /\ \A i \in 1 .. Len(used) : used'[i] = used[i]
  OBVIOUS
<1>2. ToSet(used) = {used[i] : i \in 1 .. Len(used)}
      /\ ToSet(used') = {used'[i] : i \in 1 .. Len(used')}
  BY DEF ToSet
<1> QED
  BY <1>1, <1>2

LEMMA PassKeeps == ASSUME RunInv, TurnInv, LossInv, PassInv, [Next]_vars PROVE PassInv'
<1>1. index \in Nat /\ used \in Seq(Proxies) /\ Len(used) \in Nat /\ Len(valid) \in Nat
  BY DEF RunInv, RunTypes
<1>2. CASE StartFlat \/ StartScan \/ StartValidate
  <2>1. index' = 0 /\ cpc' \in {"exited", "loop", "validating"}
    BY <1>2, StartWhat DEF RunInv, StartInv
  <2> QED
    BY <2>1 DEF PassInv, Passed, InTurn, AllTargetsTaken
<1>3. CASE NextTarget
  <2> DEFINE i == NextIndex(valid, index, fa.wrap)
  <2>1. /\ cpc = "loop" /\ UNCHANGED <<cmd, fa, interrupted, valid, lost>>
        /\ \/ /\ cpc' = "summary" /\ UNCHANGED used
              /\ targets' = <<>> \/ interrupted \/ Len(valid) <= i
           \/ /\ cpc' \in {"relay", "builtin"} /\ index' = i /\ i < Len(valid)
              /\ used' = Append(used, valid[i + 1])
    BY <1>3, TurnWhat DEF RunInv
  <2>2. /\ i \in {0, index} /\ i \in Nat
        /\ ~fa.wrap => i = index
        /\ fa.wrap /\ valid # <<>> => i < Len(valid)
    BY <1>1, NextIndexIs DEF RunInv
  <2> HIDE DEF i
  <2>3. Passed(index) /\ (~fa.rotate => index = 0)
    BY <2>1 DEF PassInv, TurnInv
  <2>4. CASE cpc' = "summary"
    <3>1. ASSUME ~interrupted, targets' # <<>>, valid # <<>>
          PROVE  ~fa.wrap /\ fa.rotate /\ Len(valid) <= index
      <4>1. Len(valid) <= i
        BY <2>1, <2>4, <3>1
      <4>2. ~fa.wrap /\ i = index
        BY <1>1, <2>2, <3>1, <4>1
      <4>3. Len(valid) > 0
        BY <1>1, <3>1 DEF RunInv, RunTypes
      <4> QED
        BY <1>1, <2>3, <4>1, <4>2, <4>3
    <3>2. UNCHANGED <<fa, interrupted, valid, lost, used>>
      BY <2>1, <2>4
    <3>3. ASSUME ~interrupted, targets' # <<>>, valid # <<>>, NEW k \in 1 .. Len(valid)
          PROVE  valid[k] \in ToSet(used) \/ (k = 1 /\ lost # {})
      <4>1. k \in 1 .. index /\ k <= Len(valid)
        BY <1>1, <3>1, <3>3
      <4> QED
        BY <2>3, <4>1 DEF Passed
    <3>4. AllTargetsTaken'
      BY <3>1, <3>2, <3>3 DEF AllTargetsTaken
    <3> QED
      BY <2>4, <3>4 DEF PassInv, InTurn
  <2>5. CASE /\ cpc' \in {"relay", "builtin"} /\ index' = i /\ i < Len(valid)
             /\ used' = Append(used, valid[i + 1])
    <3>1. valid[i + 1] \in ToSet(used') /\ ToSet(used) \subseteq ToSet(used')
      BY <1>1, <2>5, AppendedIsUsed
    <3>2. ASSUME NEW k \in 1 .. i + 1, k <= Len(valid)
          PROVE  valid[k] \in ToSet(used') \/ (k = 1 /\ lost # {})
      <4>1. CASE k = i + 1
        BY <3>1, <4>1
      <4>2. CASE k # i + 1
        <5>1. k \in 1 .. index
          BY <1>1, <2>2, <3>2, <4>2
        <5> QED
          BY <2>3, <3>1, <3>2, <5>1 DEF Passed
      <4> QED
        BY <4>1, <4>2
    <3>3. Passed(index + 1)'
      BY <2>1, <2>5, <3>2 DEF Passed
    <3> QED
      BY <2>5, <3>3 DEF PassInv, AllTargetsTaken
  <2> QED
    BY <2>1, <2>4, <2>5
<1>4. CASE Advance
  <2>1. /\ cpc = "advance" /\ cpc' = "loop" /\ UNCHANGED <<used, lost, valid>>
        /\ index' \in {index, index + 1}
    BY <1>4 DEF Advance, Goes, mvars, pvars
  <2>2. Passed(index + 1)
    BY <2>1 DEF PassInv, InTurn
  <2>3. 1 .. index' \subseteq 1 .. index + 1
    BY <1>1, <2>1
  <2>4. Passed(index)'
    BY <2>1, <2>2, <2>3 DEF Passed
  <2> QED
    BY <2>1, <2>4 DEF PassInv, InTurn, AllTargetsTaken
<1>5. CASE Prune
  <2>1. cpc = "prune" /\ cpc' = "advance" /\ index' = 0 /\ lost' = lost \cup dead
    BY <1>5 DEF Prune, Goes
  <2>2. lost' # {}
    BY <2>1 DEF LossInv
  <2>3. Passed(index + 1)'
    <3>1. index' + 1 = 1
      BY <2>1
    <3> QED
      BY <2>2, <3>1 DEF Passed
  <2> QED
    BY <2>1, <2>3 DEF PassInv, AllTargetsTaken
<1>6. CASE /\ UNCHANGED <<cmd, fa, valid, loaded, used, index, targets, lost>>
           /\ interrupted => interrupted'
           /\ cpc' = cpc \/ cpc' = "exited" \/ (InTurn /\ InTurn')
  <2>1. /\ cpc' = "loop" => cpc = "loop"
        /\ cpc' = "summary" => cpc = "summary"
        /\ InTurn' => InTurn
    BY <1>6 DEF InTurn
  <2>2. AllTargetsTaken'
    BY <1>6, <2>1 DEF PassInv, AllTargetsTaken
  <2> QED
    BY <1>6, <2>1, <2>2 DEF PassInv, Passed
<1> QED
  BY OtherSteps, <1>2, <1>3, <1>4, <1>5, <1>6

\* For any number of targets, any pool and any deaths: the loop ends early only
\* when the program is interrupted, when no proxy is left, or when without -wrap
\* every proxy of the pool, but for the first after a pruning, has served a target
\* (flat.go:223-250, 452-462).
THEOREM TargetsGetTheirTurn == Spec => []AllTargetsTaken
<1>1. Init => PassInv
  <2> SUFFICES ASSUME Init PROVE PassInv
    OBVIOUS
  <2>1. cpc = "start"
    BY DEF Init
  <2> QED
    BY <2>1 DEF PassInv, InTurn, AllTargetsTaken
<1>2. PassInv => AllTargetsTaken
  BY DEF PassInv
<1> QED
  BY <1>1, <1>2, PassKeeps, RunHolds, TurnHolds, LossHolds, PTL DEF Spec

-----------------------------------------------------------------------------
(* Remainders *)

LEMMA Division ==
    ASSUME NEW n \in Nat \ {0}, NEW k \in Nat
    PROVE  k \div n \in Int /\ k % n \in 0 .. n - 1 /\ k = n * (k \div n) + (k % n)
OBVIOUS

LEMMA OnlyRemainder ==
    ASSUME NEW n \in Nat \ {0}, NEW k \in Nat, NEW q \in Int, NEW r \in 0 .. n - 1,
           k = n * q + r
    PROVE  k % n = r
OBVIOUS

LEMMA NextRemainder ==
    ASSUME NEW n \in Nat \ {0}, NEW k \in Nat
    PROVE  (k + 1) % n = IF (k % n) + 1 = n THEN 0 ELSE (k % n) + 1
<1> DEFINE q == k \div n
           r == k % n
<1>1. q \in Int /\ r \in 0 .. n - 1 /\ k = n * q + r
  BY Division
<1> HIDE DEF q, r
<1>2. CASE r + 1 = n
  <2>1. k + 1 = n * (q + 1) + 0 /\ q + 1 \in Int
    BY <1>1, <1>2
  <2>2. (k + 1) % n = 0
    BY <2>1, <1>1, OnlyRemainder
  <2> QED
    BY <1>2, <2>2 DEF r
<1>3. CASE r + 1 # n
  <2>1. k + 1 = n * q + (r + 1) /\ r + 1 \in 0 .. n - 1
    BY <1>1, <1>3
  <2>2. (k + 1) % n = r + 1
    BY <2>1, <1>1, OnlyRemainder
  <2> QED
    BY <1>3, <2>2 DEF r
<1> QED
  BY <1>2, <1>3

LEMMA SmallRemainder ==
    ASSUME NEW n \in Nat \ {0}, NEW k \in 0 .. n
    PROVE  k % n = IF k = n THEN 0 ELSE k
<1>1. CASE k = n
  BY <1>1, OnlyRemainder
<1>2. CASE k # n
  BY <1>2, OnlyRemainder
<1> QED
  BY <1>1, <1>2

-----------------------------------------------------------------------------
(* The rotation *)

\* In an nmap scan the pool stays as it was loaded, and the index is where the
\* number of targets points to in it.
Rotating == WithNmap /\ fa.rotate /\ loaded # <<>>
IndexInv ==
    Rotating =>
        /\ cpc = "loop" => index <= Len(loaded) /\ index % Len(loaded) = Len(used) % Len(loaded)
        /\ InTurn => index = (Len(used) - 1) % Len(loaded)
        /\ ~fa.wrap /\ cpc = "loop" => index = Len(used)
        /\ ~fa.wrap /\ InTurn => index = Len(used) - 1

RoundInv == (WithNmap => valid = loaded) /\ IndexInv /\ RoundRobin

LEMMA LastOrBefore ==
    ASSUME NEW k \in Nat, NEW j \in 1 .. k + 1 PROVE j \in 1 .. k \/ j = k + 1
OBVIOUS

\* The proxy that a target gets is the one it should, and the index is at it.
LEMMA TakesItsProxy ==
    ASSUME RunInv, TurnInv, RoundInv, WithNmap, loaded # <<>>, cpc = "loop",
           NEW i \in Nat, i = NextIndex(valid, index, fa.wrap), i < Len(valid),
           index' = i, used' = Append(used, valid[i + 1]), UNCHANGED <<cmd, fa, valid, loaded>>,
           cpc' = "relay"
    PROVE  RoundInv'
<1> DEFINE n == Len(loaded)
           k == Len(used)
<1>1. /\ index \in Nat /\ used \in Seq(Proxies) /\ loaded \in Seq(Proxies) /\ valid = loaded
      /\ n \in Nat \ {0} /\ k \in Nat
  BY DEF RunInv, RunTypes, RoundInv
<1>2. i \in {0, index} /\ (~fa.wrap => i = index) /\ i < n /\ valid # <<>>
  BY <1>1, NextIndexIs DEF RunInv
<1>3. loaded[i + 1] \in Proxies
  <2>1. i + 1 \in 1 .. Len(loaded)
    BY <1>1, <1>2
  <2> QED
    BY <1>1, <2>1, ElementOfSeq
<1>4. /\ Len(used') = k + 1 /\ used'[k + 1] = loaded[i + 1]
      /\ \A j \in 1 .. k : used'[j] = used[j]
  BY <1>1, <1>3
<1>5. ASSUME fa.rotate PROVE i = k % n /\ (~fa.wrap => i = k)
  <2>1. index <= n /\ index % n = k % n /\ (~fa.wrap => index = k)
    BY <1>1, <1>5 DEF RoundInv, IndexInv, Rotating
  <2> HIDE DEF n, k
  <2>2. index \in 0 .. n
    BY <1>1, <2>1
  <2>3. index % n = IF index = n THEN 0 ELSE index
    BY <1>1, <2>2, SmallRemainder
  <2>4. CASE index = n
    BY <1>1, <1>2, <2>1, <2>3, <2>4
  <2>5. CASE index # n
    <3>1. index < Len(valid)
      BY <1>1, <2>2, <2>5 DEF n
    <3>2. i = index
      BY <1>1, <3>1 DEF NextIndex
    <3> QED
      BY <2>1, <2>3, <2>5, <3>2
  <2> QED
    BY <2>4, <2>5
<1>6. ~fa.rotate => i = 0
  BY <1>2 DEF TurnInv
<1>7. WithNmap' /\ ~(cpc' = "loop")
  BY SameTool
<1>8. IndexInv'
  <2> HIDE DEF n, k
  <2>1. Len(used') - 1 = k
    BY <1>1, <1>4
  <2> QED
    BY <1>5, <1>7, <2>1 DEF IndexInv, Rotating, n
<1>9. RoundRobin'
  <2> HIDE DEF k
  <2>1. ASSUME fa.rotate, NEW j \in 1 .. k + 1 PROVE used'[j] = loaded[((j - 1) % n) + 1]
    <3>1. CASE j \in 1 .. k
      <4>1. used[j] = loaded[((j - 1) % n) + 1]
        BY <2>1, <3>1 DEF RoundInv, RoundRobin, k
      <4> QED
        BY <1>4, <3>1, <4>1
    <3>2. CASE j = k + 1
      <4>1. j - 1 = k
        BY <1>1, <3>2
      <4> QED
        BY <1>4, <1>5, <2>1, <3>2, <4>1
    <3> QED
      BY <1>1, <2>1, <3>1, <3>2, LastOrBefore
  <2>2. ASSUME ~fa.rotate, NEW j \in 1 .. k + 1 PROVE used'[j] = loaded[1]
    <3>1. CASE j \in 1 .. k
      BY <1>4, <2>2, <3>1 DEF RoundInv, RoundRobin, k
    <3>2. CASE j = k + 1
      BY <1>4, <1>6, <2>2, <3>2
    <3> QED
      BY <1>1, <2>2, <3>1, <3>2, LastOrBefore
  <2>3. fa.rotate /\ ~fa.wrap => Len(used') <= Len(loaded)
    <3> HIDE DEF n
    <3>1. fa.rotate /\ ~fa.wrap => k < n
      BY <1>2, <1>5
    <3> QED
      BY <1>1, <1>4, <3>1 DEF n
  <2> QED
    BY <1>4, <2>1, <2>2, <2>3 DEF RoundRobin
<1> QED
  BY <1>1, <1>7, <1>8, <1>9 DEF RoundInv

LEMMA RoundKeeps == ASSUME RunInv, TurnInv, RoundInv, [Next]_vars PROVE RoundInv'
<1>1. CASE StartFlat \/ StartScan \/ StartValidate
  <2>1. /\ loaded' = valid' /\ index' = 0 /\ used' = <<>> /\ loaded' \in Seq(Proxies)
        /\ cpc' \in {"exited", "loop", "validating"}
    BY <1>1, StartWhat DEF RunInv, StartInv
  <2>2. Len(used') = 0 /\ Len(loaded') \in Nat /\ 1 .. Len(used') = {}
    BY <2>1
  <2> QED
    BY <2>1, <2>2 DEF RoundInv, IndexInv, RoundRobin, InTurn
<1>2. CASE NextTarget
  <2>1. /\ cpc = "loop" /\ UNCHANGED <<cmd, fa, valid, loaded>>
        /\ index' \in Nat
        /\ \/ cpc' = "summary" /\ UNCHANGED used
           \/ /\ cpc' = IF WithNmap THEN "relay" ELSE "builtin"
              /\ index' = NextIndex(valid, index, fa.wrap) /\ index' < Len(valid)
              /\ used' = Append(used, valid[index' + 1])
    BY <1>2, TurnWhat DEF RunInv
  <2>2. CASE cpc' = "summary" /\ UNCHANGED used
    BY <2>1, <2>2, SameTool DEF RoundInv, IndexInv, RoundRobin, InTurn
  <2>3. CASE ~WithNmap
    BY <2>1, <2>3, SameTool DEF RoundInv, IndexInv, Rotating, RoundRobin
  <2>4. CASE loaded = <<>>
    BY <2>1, <2>4, SameTool DEF RoundInv, IndexInv, Rotating, RoundRobin
  <2>5. CASE /\ WithNmap /\ loaded # <<>> /\ cpc' = "relay"
             /\ index' = NextIndex(valid, index, fa.wrap) /\ index' < Len(valid)
             /\ used' = Append(used, valid[index' + 1])
    BY <2>1, <2>5, TakesItsProxy
  <2> QED
    BY <2>1, <2>2, <2>3, <2>4, <2>5
<1>3. CASE Advance
  <2>1. /\ cpc = "advance" /\ cpc' = "loop" /\ UNCHANGED <<used, cmd, fa, valid, loaded>>
        /\ index' = IF fa.rotate THEN index + 1 ELSE index
    BY <1>3 DEF Advance, Goes, mvars
  <2>2. ASSUME Rotating
        PROVE  /\ index' <= Len(loaded) /\ index' % Len(loaded) = Len(used) % Len(loaded)
               /\ ~fa.wrap => index' = Len(used)
    <3> DEFINE n == Len(loaded)
               k == Len(used) - 1
    <3>1. index < Len(used) /\ index = k % n /\ (~fa.wrap => index = k) /\ index' = index + 1
      BY <2>1, <2>2 DEF TurnInv, RoundInv, IndexInv, InTurn, Rotating
    <3>2. n \in Nat \ {0} /\ Len(used) \in Nat /\ index \in Nat
      BY <2>2 DEF RunInv, RunTypes, Rotating
    <3>3. k \in Nat /\ k + 1 = Len(used)
      BY <3>1, <3>2
    <3> HIDE DEF n, k
    <3>4. k % n \in 0 .. n - 1
      BY <3>2, <3>3, Division
    <3>5. index' \in 0 .. n
      BY <3>1, <3>2, <3>4
    <3>6. index' % n = IF index' = n THEN 0 ELSE index'
      BY <3>2, <3>5, SmallRemainder
    <3>7. (k + 1) % n = IF (k % n) + 1 = n THEN 0 ELSE (k % n) + 1
      BY <3>2, <3>3, NextRemainder
    <3>8. index' % n = Len(used) % n
      BY <3>1, <3>3, <3>6, <3>7
    <3> QED
      BY <3>1, <3>2, <3>3, <3>5, <3>8 DEF n
  <2>3. IndexInv'
    BY <2>1, <2>2, SameTool DEF IndexInv, InTurn, Rotating
  <2> QED
    BY <2>1, <2>3, SameTool DEF RoundInv, RoundRobin
<1>4. CASE Prune
  <2>1. ~WithNmap /\ UNCHANGED <<cmd, fa>>
    BY <1>4 DEF Prune, RunInv, PlacesInv
  <2> QED
    BY <2>1, SameTool DEF RoundInv, IndexInv, Rotating, RoundRobin
<1>5. CASE /\ UNCHANGED <<cmd, fa, valid, loaded, used, index, targets>>
           /\ interrupted => interrupted'
           /\ cpc' = cpc \/ cpc' = "exited" \/ (InTurn /\ InTurn')
  <2>1. (cpc' = "loop" => cpc = "loop") /\ (InTurn' => InTurn)
    BY <1>5 DEF InTurn
  <2>2. IndexInv'
    BY <1>5, <2>1, SameTool DEF RoundInv, IndexInv, Rotating
  <2> QED
    BY <1>5, <2>2, SameTool DEF RoundInv, RoundRobin
<1> QED
  BY OtherSteps, <1>1, <1>2, <1>3, <1>4, <1>5

\* For any number of targets and proxies, in an nmap scan: target number i goes
\* through proxy number i, counted round and round, through the first one without
\* rotation, and without -wrap no proxy serves twice (flat.go:223-250, pool.go Next
\* and Advance).
THEOREM ProxiesInTurn == Spec => []RoundRobin
<1>1. Init => RoundInv
  <2> SUFFICES ASSUME Init PROVE RoundInv
    OBVIOUS
  <2>1. cpc = "start" /\ valid = <<>> /\ loaded = <<>>
    BY DEF Init
  <2> QED
    BY <2>1 DEF RoundInv, IndexInv, Rotating, RoundRobin
<1>2. RoundInv => RoundRobin
  BY DEF RoundInv
<1> QED
  BY <1>1, <1>2, RoundKeeps, TurnHolds, RunHolds, PTL DEF Spec

-----------------------------------------------------------------------------
(* The connect scan *)

ScanTypes ==
    /\ spc \in {"off", "loop", "acquire", "wait", "cancelled", "closed"}
    /\ next \in 1 .. Cardinality(Jobs) + 1
    /\ wpc \in [Jobs -> {"none", "dialing", "sending", "counting", "done"}]
    /\ connCh \in [Jobs -> {"", "conn", "nil", "used"}]
    /\ results \in Seq(Jobs) /\ printed \in Seq(Jobs)

With(w) == {j \in Jobs : wpc[j] = w}

\* The jobs are started in their order, and the loop is only left at its end or
\* after the interrupt; scanned counts the workers that are done.
OrderInv ==
    /\ \A j \in Jobs : wpc[j] = "none" <=> j >= next
    /\ spc = "acquire" => next \in Jobs
    /\ spc = "cancelled" => interrupted
    /\ spc \in {"wait", "closed"} => interrupted \/ next \notin Jobs
    /\ counted = Cardinality(With("done"))

\* What went into the channel, printed or not, are jobs whose connection a worker
\* took and that is not about to send, each once; without the interrupt, all those.
Sent == ToSet(printed \o results)
SentInv ==
    /\ \A j \in Jobs : /\ wpc[j] \in {"none", "dialing"} => connCh[j] # "used"
                       /\ wpc[j] = "sending" => connCh[j] = "used"
    /\ IsInjective(printed \o results)
    /\ \A j \in Sent : j \in Jobs /\ connCh[j] = "used" /\ wpc[j] # "sending"
    /\ ~interrupted => \A j \in Jobs : connCh[j] = "used" => j \in Sent \/ wpc[j] = "sending"

ScanInv == ScanTypes /\ OrderInv /\ SentInv

LEMMA JobsAre ==
    IsFiniteSet(Jobs) /\ Cardinality(Jobs) \in Nat /\ Jobs = 1 .. Cardinality(Jobs)
BY ScanAssumption, FS_CardinalityType

LEMMA OneIsFirst == 1 \in 1 .. Cardinality(Jobs) + 1 /\ \A j \in Jobs : j >= 1
<1>1. Cardinality(Jobs) \in Nat
  BY JobsAre
<1>2. ASSUME NEW j \in Jobs PROVE j >= 1
  BY JobsAre
<1> QED
  BY <1>1, <1>2

\* A worker counts itself once.
LEMMA OneMoreDone ==
    ASSUME ScanTypes, NEW j \in Jobs, wpc[j] # "done", wpc' = [wpc EXCEPT ![j] = "done"]
    PROVE  Cardinality(With("done"))' = Cardinality(With("done")) + 1
<1>1. With("done")' = With("done") \cup {j} /\ j \notin With("done")
  BY DEF With, ScanTypes
<1>2. IsFiniteSet(With("done"))
  <2>1. With("done") \subseteq Jobs
    BY DEF With
  <2> QED
    BY <2>1, JobsAre, FS_Subset
<1> QED
  BY <1>1, <1>2, FS_AddElement

\* A step of a worker that neither starts it nor ends it, nor touches the channel.
LEMMA WorkerKeepsOrder ==
    ASSUME ScanTypes, OrderInv, NEW j \in Jobs, NEW w, w \notin {"none", "done"},
           wpc[j] \notin {"none", "done"}, wpc' = [wpc EXCEPT ![j] = w],
           UNCHANGED <<spc, next, counted, interrupted>>
    PROVE  OrderInv'
<1>1. With("done")' = With("done")
  BY DEF With, ScanTypes
<1>2. \A i \in Jobs : wpc'[i] = "none" <=> wpc[i] = "none"
  BY DEF ScanTypes
<1> QED
  BY <1>1, <1>2 DEF OrderInv

\* The head of the channel becomes the last that was printed.
LEMMA Moved ==
    ASSUME NEW S, NEW s \in Seq(S), NEW t \in Seq(S), t # <<>>
    PROVE  Append(s, Head(t)) \o Tail(t) = s \o t
<1>1. /\ Len(s) \in Nat /\ Len(t) \in Nat \ {0} /\ Head(t) = t[1] /\ Head(t) \in S
      /\ Tail(t) \in Seq(S) /\ Len(Tail(t)) = Len(t) - 1
      /\ \A i \in 1 .. Len(t) - 1 : Tail(t)[i] = t[i + 1]
  OBVIOUS
<1> DEFINE a == Append(s, Head(t))
           u == Tail(t)
<1>2. /\ a \in Seq(S) /\ Len(a) = Len(s) + 1 /\ a[Len(s) + 1] = t[1]
      /\ \A i \in 1 .. Len(s) : a[i] = s[i]
  BY <1>1
<1> HIDE DEF a, u
<1>3. u \in Seq(S) /\ Len(u) = Len(t) - 1 /\ \A i \in 1 .. Len(t) - 1 : u[i] = t[i + 1]
  BY <1>1 DEF u
<1>4. /\ a \o u \in Seq(S) /\ Len(a \o u) = Len(a) + Len(u)
      /\ \A i \in 1 .. Len(a) + Len(u) : (a \o u)[i] = IF i <= Len(a) THEN a[i] ELSE u[i - Len(a)]
  BY <1>2, <1>3, ConcatProperties
<1>5. /\ s \o t \in Seq(S) /\ Len(s \o t) = Len(s) + Len(t)
      /\ \A i \in 1 .. Len(s) + Len(t) : (s \o t)[i] = IF i <= Len(s) THEN s[i] ELSE t[i - Len(s)]
  BY ConcatProperties
<1>6. Len(a \o u) = Len(s \o t) /\ Len(a) + Len(u) = Len(s) + Len(t)
  BY <1>1, <1>2, <1>3, <1>4, <1>5
<1>7. ASSUME NEW i \in 1 .. Len(s) + Len(t) PROVE (a \o u)[i] = (s \o t)[i]
  <2>1. CASE i <= Len(s)
    BY <1>1, <1>2, <1>4, <1>5, <1>6, <1>7, <2>1
  <2>2. CASE i = Len(s) + 1
    BY <1>1, <1>2, <1>4, <1>5, <1>6, <1>7, <2>2
  <2>3. CASE i > Len(s) + 1
    <3>1. /\ (a \o u)[i] = u[i - (Len(s) + 1)]
          /\ (s \o t)[i] = t[i - Len(s)]
      BY <1>1, <1>2, <1>4, <1>5, <1>6, <1>7, <2>3
    <3>2. i - (Len(s) + 1) \in 1 .. Len(t) - 1
      BY <1>1, <1>7, <2>3
    <3>3. (i - (Len(s) + 1)) + 1 = i - Len(s)
      BY <1>1, <1>7
    <3> QED
      BY <1>3, <3>1, <3>2, <3>3
  <2> QED
    <3>1. i \in Nat /\ Len(s) \in Nat
      BY <1>1, <1>7
    <3>2. i <= Len(s) \/ i = Len(s) + 1 \/ i > Len(s) + 1
      BY <3>1
    <3> QED
      BY <2>1, <2>2, <2>3, <3>2
<1>8. a \o u = s \o t
  BY <1>4, <1>5, <1>6, <1>7, SeqEqual
<1> QED
  BY <1>8 DEF a, u

LEMMA ScanLoopKeeps == ASSUME ScanInv, ScanLoop(interrupted), UNCHANGED interrupted PROVE ScanInv'
<1>1. /\ UNCHANGED <<next, wpc, connCh, results, counted, printed>>
      /\ \/ spc' = "wait" /\ next \notin Jobs
         \/ spc' = "cancelled" /\ interrupted
         \/ spc' = "acquire" /\ next \in Jobs
  BY DEF ScanLoop
<1>2. With("done")' = With("done") /\ Sent' = Sent
  BY <1>1 DEF With, Sent
<1> QED
  BY <1>1, <1>2 DEF ScanInv, ScanTypes, OrderInv, SentInv

LEMMA StartJobKeeps == ASSUME ScanInv, StartJob, UNCHANGED interrupted PROVE ScanInv'
<1>1. /\ spc' = "loop" /\ next' = next + 1 /\ wpc' = [wpc EXCEPT ![next] = "dialing"]
      /\ UNCHANGED <<connCh, results, counted, printed>>
      /\ next \in Jobs /\ wpc[next] = "none" /\ connCh[next] # "used"
  <2>1. /\ spc' = "loop" /\ next' = next + 1 /\ wpc' = [wpc EXCEPT ![next] = "dialing"]
        /\ UNCHANGED <<connCh, results, counted, printed>>
        /\ next \in Jobs
    BY DEF StartJob, ScanInv, OrderInv
  <2>2. next >= next
    BY <2>1, JobsAre
  <2>3. wpc[next] = "none"
    BY <2>1, <2>2 DEF ScanInv, OrderInv
  <2>4. connCh[next] # "used"
    BY <2>1, <2>3 DEF ScanInv, SentInv
  <2> QED
    BY <2>1, <2>3, <2>4
<1>2. next \in 1 .. Cardinality(Jobs) /\ Cardinality(Jobs) \in Nat
  BY <1>1, JobsAre
<1>3. next' \in 1 .. Cardinality(Jobs) + 1
  BY <1>1, <1>2
<1>4. ScanTypes'
  BY <1>1, <1>3 DEF ScanInv, ScanTypes
<1>5. With("done")' = With("done")
  BY <1>1 DEF With, ScanInv, ScanTypes
<1>6. ASSUME NEW j \in Jobs PROVE wpc'[j] = "none" <=> j >= next'
  <2>1. j \in Int /\ next \in Int
    BY <1>2, JobsAre
  <2>2. CASE j = next
    <3>1. wpc'[j] = "dialing"
      BY <1>1, <2>2 DEF ScanInv, ScanTypes
    <3>2. ~(j >= next')
      BY <1>1, <2>1, <2>2
    <3> QED
      BY <3>1, <3>2
  <2>3. CASE j # next
    <3>1. wpc'[j] = wpc[j] /\ (wpc[j] = "none" <=> j >= next)
      BY <1>1, <2>3 DEF ScanInv, ScanTypes, OrderInv
    <3> QED
      BY <1>1, <2>1, <2>3, <3>1
  <2> QED
    BY <2>2, <2>3
<1>7. OrderInv'
  BY <1>1, <1>5, <1>6 DEF ScanInv, OrderInv
<1>8. Sent' = Sent
  BY <1>1 DEF Sent
<1>9. SentInv'
  BY <1>1, <1>8 DEF ScanInv, ScanTypes, SentInv
<1> QED
  BY <1>4, <1>7, <1>9 DEF ScanInv

LEMMA DialReturnsKeeps ==
    ASSUME ScanInv, NEW j \in Jobs, DialReturns(j), UNCHANGED interrupted PROVE ScanInv'
<1>1. /\ UNCHANGED <<spc, next, wpc, results, counted, printed>> /\ connCh[j] = ""
      /\ \E answer \in {"conn", "nil"} : connCh' = [connCh EXCEPT ![j] = answer]
  BY DEF DialReturns
<1>2. With("done")' = With("done") /\ Sent' = Sent
  BY <1>1 DEF With, Sent
<1>3. connCh' \in [Jobs -> {"", "conn", "nil", "used"}]
      /\ \A i \in Jobs : connCh'[i] = "used" <=> connCh[i] = "used"
  BY <1>1 DEF ScanInv, ScanTypes
<1>4. ScanTypes' /\ OrderInv'
  BY <1>1, <1>2, <1>3 DEF ScanInv, ScanTypes, OrderInv
<1>5. SentInv'
  BY <1>1, <1>2, <1>3 DEF ScanInv, SentInv
<1> QED
  BY <1>4, <1>5 DEF ScanInv

LEMMA TakeConnKeeps ==
    ASSUME ScanInv, NEW j \in Jobs, TakeConn(j), UNCHANGED interrupted PROVE ScanInv'
<1>1. /\ UNCHANGED <<spc, next, results, counted, printed>> /\ wpc[j] = "dialing"
      /\ \/ /\ wpc' = [wpc EXCEPT ![j] = "sending"] /\ connCh' = [connCh EXCEPT ![j] = "used"]
         \/ /\ wpc' = [wpc EXCEPT ![j] = "counting"] /\ connCh' = connCh
  <2>1. connCh[j] \in {"conn", "nil"}
    BY DEF TakeConn
  <2>2. CASE connCh[j] = "conn"
    BY <2>2 DEF TakeConn
  <2>3. CASE connCh[j] = "nil"
    BY <2>3 DEF TakeConn, ScanInv, ScanTypes
  <2> QED
    BY <2>1, <2>2, <2>3
<1>2. Sent' = Sent /\ connCh[j] # "used" /\ j \notin Sent
  BY <1>1 DEF Sent, ScanInv, SentInv
<1>3. ScanTypes'
  BY <1>1 DEF ScanInv, ScanTypes
<1>4. OrderInv'
  BY <1>1, WorkerKeepsOrder DEF ScanInv
<1>5. SentInv'
  BY <1>1, <1>2 DEF ScanInv, ScanTypes, SentInv
<1> QED
  BY <1>3, <1>4, <1>5 DEF ScanInv

LEMMA GiveUpKeeps ==
    ASSUME ScanInv, NEW j \in Jobs, GiveUp(j), UNCHANGED interrupted PROVE ScanInv'
<1>1. /\ UNCHANGED <<spc, next, connCh, results, counted, printed>> /\ wpc[j] = "dialing"
      /\ wpc' = [wpc EXCEPT ![j] = "counting"]
  BY DEF GiveUp
<1>2. Sent' = Sent
  BY <1>1 DEF Sent
<1>3. ScanTypes'
  BY <1>1 DEF ScanInv, ScanTypes
<1>4. OrderInv'
  BY <1>1, WorkerKeepsOrder DEF ScanInv
<1>5. SentInv'
  BY <1>1, <1>2 DEF ScanInv, ScanTypes, SentInv
<1> QED
  BY <1>3, <1>4, <1>5 DEF ScanInv

LEMMA SendResultKeeps ==
    ASSUME ScanInv, NEW j \in Jobs, SendResult(j, interrupted), UNCHANGED interrupted
    PROVE  ScanInv'
<1>1. /\ UNCHANGED <<spc, next, connCh, counted, printed>> /\ wpc[j] = "sending"
      /\ wpc' = [wpc EXCEPT ![j] = "counting"]
      /\ results' = Append(results, j) \/ (interrupted /\ results' = results)
  BY DEF SendResult
<1>2. /\ results \in Seq(Jobs) /\ printed \in Seq(Jobs) /\ printed \o results \in Seq(Jobs)
      /\ Append(results, j) \in Seq(Jobs)
  <2>1. results \in Seq(Jobs) /\ printed \in Seq(Jobs)
    BY DEF ScanInv, ScanTypes
  <2> QED
    BY <2>1, ConcatProperties, AppendProperties
<1>3. ScanTypes'
  BY <1>1, <1>2 DEF ScanInv, ScanTypes
<1>4. OrderInv'
  BY <1>1, WorkerKeepsOrder DEF ScanInv
<1>5. j \notin Sent /\ connCh[j] = "used" /\ IsInjective(printed \o results)
  BY <1>1 DEF ScanInv, SentInv
<1>6. CASE results' = Append(results, j)
  <2>1. printed' \o results' = Append(printed \o results, j)
    BY <1>1, <1>2, <1>6
  <2>2. Sent' = Sent \cup {j} /\ IsInjective(printed' \o results')
    <3> DEFINE p == printed \o results
    <3>1. p \in Seq(Jobs) /\ j \notin ToSet(p) /\ IsInjective(p)
      BY <1>2, <1>5 DEF Sent
    <3>2. printed' \o results' = Append(p, j)
      BY <2>1
    <3> HIDE DEF p
    <3>3. ToSet(Append(p, j)) = ToSet(p) \cup {j} /\ IsInjective(Append(p, j))
      BY <3>1, AppendAdds
    <3> QED
      BY <3>2, <3>3 DEF Sent, p
  <2>3. SentInv'
    BY <1>1, <1>5, <2>2 DEF ScanInv, ScanTypes, SentInv
  <2> QED
    BY <1>3, <1>4, <2>3 DEF ScanInv
<1>7. CASE interrupted /\ results' = results
  <2>1. Sent' = Sent
    BY <1>1, <1>7 DEF Sent
  <2>2. SentInv'
    BY <1>1, <1>7, <2>1 DEF ScanInv, ScanTypes, SentInv
  <2> QED
    BY <1>3, <1>4, <2>2 DEF ScanInv
<1> QED
  BY <1>1, <1>6, <1>7

LEMMA CountKeeps ==
    ASSUME ScanInv, NEW j \in Jobs, Count(j), UNCHANGED interrupted PROVE ScanInv'
<1>1. /\ UNCHANGED <<spc, next, connCh, results, printed>> /\ wpc[j] = "counting"
      /\ wpc' = [wpc EXCEPT ![j] = "done"] /\ counted' = counted + 1
  BY DEF Count
<1>2. Sent' = Sent
  BY <1>1 DEF Sent
<1>3. ScanTypes'
  BY <1>1 DEF ScanInv, ScanTypes
<1>4. Cardinality(With("done"))' = Cardinality(With("done")) + 1
  BY <1>1, OneMoreDone DEF ScanInv
<1>5. \A i \in Jobs : wpc'[i] = "none" <=> wpc[i] = "none"
  BY <1>1 DEF ScanInv, ScanTypes
<1>6. OrderInv'
  BY <1>1, <1>4, <1>5 DEF ScanInv, OrderInv
<1>7. SentInv'
  BY <1>1, <1>2 DEF ScanInv, ScanTypes, SentInv
<1> QED
  BY <1>3, <1>6, <1>7 DEF ScanInv

LEMMA ScanReturnsKeeps ==
    ASSUME ScanInv, ScanReturns \/ ScanStarts, UNCHANGED interrupted PROVE ScanInv'
<1>1. /\ UNCHANGED <<next, wpc, connCh, results, counted, printed>>
      /\ \/ spc' = "closed" /\ spc \in {"wait", "cancelled"}
         \/ spc' = "loop"
  BY DEF ScanReturns, ScanStarts
<1>2. With("done")' = With("done") /\ Sent' = Sent
  BY <1>1 DEF With, Sent
<1> QED
  BY <1>1, <1>2 DEF ScanInv, ScanTypes, OrderInv, SentInv

LEMMA PrintResultKeeps ==
    ASSUME ScanInv, PrintResult, UNCHANGED interrupted PROVE ScanInv'
<1>1. /\ UNCHANGED <<spc, next, wpc, connCh, counted>> /\ results # <<>>
      /\ printed' = Append(printed, Head(results)) /\ results' = Tail(results)
      /\ results \in Seq(Jobs) /\ printed \in Seq(Jobs)
  BY DEF PrintResult, ScanInv, ScanTypes
<1>2. printed' \o results' = printed \o results
  BY <1>1, Moved
<1>3. printed' \in Seq(Jobs) /\ results' \in Seq(Jobs)
  BY <1>1, HeadTailProperties, AppendProperties
<1>4. With("done")' = With("done") /\ Sent' = Sent
  BY <1>1, <1>2 DEF With, Sent
<1> QED
  BY <1>1, <1>2, <1>3, <1>4 DEF ScanInv, ScanTypes, OrderInv, SentInv

LEMMA SameScan == ASSUME ScanInv, UNCHANGED svars, interrupted => interrupted' PROVE ScanInv'
<1>1. With("done")' = With("done") /\ Sent' = Sent
  BY DEF With, Sent, svars
<1> QED
  BY <1>1 DEF ScanInv, ScanTypes, OrderInv, SentInv, svars

LEMMA ScanKeeps == ASSUME ScanInv, [Next]_vars PROVE ScanInv'
<1>1. CASE ScanGoes
  <2>1. ScanStep(interrupted) /\ UNCHANGED interrupted
    BY <1>1 DEF ScanGoes, fvars
  <2> QED
    BY <2>1, ScanLoopKeeps, StartJobKeeps, ScanReturnsKeeps, PrintResultKeeps, DialReturnsKeeps,
       TakeConnKeeps, GiveUpKeeps, SendResultKeeps, CountKeeps DEF ScanStep
<1>2. CASE StartBuiltin
  <2>1. (UNCHANGED svars \/ ScanStarts) /\ UNCHANGED interrupted
    BY <1>2 DEF StartBuiltin
  <2> QED
    BY <2>1, SameScan, ScanReturnsKeeps
<1>3. CASE Main /\ ~StartBuiltin
  <2>1. UNCHANGED svars /\ UNCHANGED interrupted
    BY <1>3 DEF Main, StartFlat, StartScan, StartValidate, NextTarget, Advance, StartRelay,
          ExecNmap, NmapDone, BuiltinReturns, Prune, ConnectScanEnds, Summary, ValidateEnds, parts
  <2> QED
    BY <2>1, SameScan
<1>4. CASE ~Main /\ ~ScanGoes
  <2>1. UNCHANGED svars /\ (interrupted => interrupted')
    BY <1>4 DEF Next, Interrupt, NmapFinds, NmapEnds, ListGoes, RelayOf, Outside, Connects,
          ProxyGoes, parts, vars, fvars
  <2> QED
    BY <2>1, SameScan
<1> QED
  BY <1>1, <1>2, <1>3, <1>4

LEMMA ScanHolds == Spec => []ScanInv
<1>1. Init => ScanInv
  <2> SUFFICES ASSUME Init PROVE ScanInv
    OBVIOUS
  <2>1. ScanInit
    BY DEF Init
  <2>2. /\ <<>> \o <<>> = <<>> /\ <<>> \in Seq(Jobs)
        /\ Cardinality(Jobs) \in Nat /\ Jobs = 1 .. Cardinality(Jobs)
    BY JobsAre
  <2>3. Sent = {} /\ IsInjective(printed \o results)
    BY <2>1, <2>2, EmptyList DEF ScanInit, Sent
  <2>4. With("done") = {}
    BY <2>1 DEF ScanInit, With
  <2>5. \A j \in Jobs : j >= next
    BY <2>1, OneIsFirst DEF ScanInit
  <2>6. ScanTypes
    <3>1. next \in 1 .. Cardinality(Jobs) + 1
      BY <2>1, OneIsFirst DEF ScanInit
    <3> QED
      BY <2>1, <2>2, <3>1 DEF ScanInit, ScanTypes
  <2>7. OrderInv
    BY <2>1, <2>4, <2>5, FS_EmptySet DEF ScanInit, OrderInv
  <2>8. SentInv
    BY <2>1, <2>3 DEF ScanInit, SentInv
  <2> QED
    BY <2>6, <2>7, <2>8 DEF ScanInv
<1> QED
  BY <1>1, ScanKeeps, PTL DEF Spec

\* For any number of jobs, workers and room in the channel: a connect scan that was
\* not interrupted has counted every job, and printed each port whose connection a
\* worker took, once (scanner.go:143-196, cli.go:254-266).
THEOREM ScanPrintsAll == Spec => []ConnectScanIsWhole
<1>1. ScanInv /\ NoSendAfterClose => ConnectScanIsWhole
  <2> SUFFICES ASSUME ScanInv, NoSendAfterClose, spc = "closed", ~interrupted
      PROVE  /\ counted = Cardinality(Jobs)
             /\ IsInjective(printed \o results)
             /\ ToSet(printed \o results) = {j \in Jobs : connCh[j] = "used"}
    BY DEF ConnectScanIsWhole, ScanIsWhole
  <2>1. next \notin Jobs /\ next \in 1 .. Cardinality(Jobs) + 1
    BY DEF ScanInv, ScanTypes, OrderInv
  <2>2. \A j \in Jobs : ~(j >= next)
    BY <2>1, JobsAre
  <2>3. \A j \in Jobs : wpc[j] = "done"
    BY <2>2 DEF NoSendAfterClose, Busy, ScanInv, OrderInv
  <2>4. With("done") = Jobs
    BY <2>3 DEF With
  <2>5. Sent = {j \in Jobs : connCh[j] = "used"}
    BY <2>3 DEF ScanInv, SentInv
  <2> QED
    BY <2>4, <2>5 DEF ScanInv, OrderInv, SentInv, Sent
<1> QED
  BY <1>1, ScanHolds, ChannelClosedLast, PTL

-----------------------------------------------------------------------------
(* Adding up *)

\* A fold that adds the second parts of pairs is any function that takes them
\* apart in the same way.
LEMMA SumIs ==
    ASSUME NEW S, IsFiniteSet(S), NEW g \in [SUBSET S -> Nat], g[{}] = 0,
           \A s \in SUBSET S : \A x \in s : g[s] = x[2] + g[s \ {x}]
    PROVE  FoldSet(LAMBDA y, n : y[2] + n, 0, S) = g[S]
<1> DEFINE any(s) == CHOOSE x \in s : TRUE
           IsSum(f) == f = [s \in SUBSET S |-> IF s = {} THEN 0 ELSE any(s)[2] + f[s \ {any(s)}]]
           it == CHOOSE f : IsSum(f)
<1>1. FoldSet(LAMBDA y, n : y[2] + n, 0, S) = it[S]
  BY DEF FoldSet, MapThenFoldSet
<1>2. ASSUME NEW s \in SUBSET S, s # {} PROVE any(s) \in s /\ s \ {any(s)} \in SUBSET S
  BY <1>2
<1> HIDE DEF any
<1>3. IsSum(g)
  <2>1. \A s \in SUBSET S : g[s] = IF s = {} THEN 0 ELSE any(s)[2] + g[s \ {any(s)}]
    BY <1>2
  <2> QED
    BY <2>1
<1>4. IsSum(it)
  BY <1>3
<1> HIDE DEF it
<1>5. \A s \in SUBSET S : it[s] = IF s = {} THEN 0 ELSE any(s)[2] + it[s \ {any(s)}]
  BY <1>4
<1> DEFINE Wrong == {n \in Nat : \E s \in SUBSET S : Cardinality(s) = n /\ it[s] # g[s]}
<1>6. Wrong = {}
  <2> SUFFICES ASSUME Wrong # {} PROVE FALSE
    OBVIOUS
  <2>1. Wrong \subseteq Nat
    OBVIOUS
  <2> HIDE DEF Wrong
  <2>2. PICK n \in Wrong : \A m \in Wrong : ~(m < n)
    BY <2>1, Least
  <2>3. PICK s \in SUBSET S : Cardinality(s) = n /\ it[s] # g[s]
    BY <2>2 DEF Wrong
  <2>4. s # {} /\ IsFiniteSet(s)
    BY <1>5, <2>3, FS_Subset
  <2> DEFINE x == any(s)
  <2>5. x \in s /\ s \ {x} \in SUBSET S
    BY <1>2, <2>4
  <2>6. it[s] = x[2] + it[s \ {x}] /\ g[s] = x[2] + g[s \ {x}]
    BY <1>5, <2>4, <2>5
  <2>7. Cardinality(s \ {x}) = n - 1 /\ n - 1 \in Nat
    <3>1. Cardinality(s \ {x}) = n - 1 /\ IsFiniteSet(s \ {x})
      BY <2>3, <2>4, <2>5, FS_RemoveElement
    <3>2. Cardinality(s \ {x}) \in Nat
      BY <3>1, FS_CardinalityType
    <3> QED
      BY <3>1, <3>2
  <2>8. it[s \ {x}] # g[s \ {x}]
    BY <2>3, <2>6
  <2>9. n - 1 \in Wrong
    BY <2>5, <2>7, <2>8 DEF Wrong
  <2> QED
    BY <2>1, <2>2, <2>7, <2>9
<1>7. it[S] = g[S]
  <2>1. Cardinality(S) \in Nat /\ S \in SUBSET S
    BY FS_CardinalityType
  <2> QED
    BY <1>6, <2>1
<1> QED
  BY <1>1, <1>7

\* Two finite sets that have nothing in common.
LEMMA Apart ==
    ASSUME NEW S, NEW T, IsFiniteSet(S), IsFiniteSet(T), S \cap T = {}
    PROVE  /\ IsFiniteSet(S \cup T)
           /\ Cardinality(S \cup T) = Cardinality(S) + Cardinality(T)
           /\ Cardinality(S) \in Nat /\ Cardinality(T) \in Nat
<1>1. Cardinality(S \cup T) = Cardinality(S) + Cardinality(T) - Cardinality({})
  BY FS_Union
<1>2. Cardinality({}) = 0 /\ Cardinality(S) \in Nat /\ Cardinality(T) \in Nat
  BY FS_EmptySet, FS_CardinalityType
<1>3. IsFiniteSet(S \cup T)
  BY FS_Union
<1> QED
  BY <1>1, <1>2, <1>3

\* Members, each in a group of its own name: those of no name, those alone in
\* their group, and the others, group by group, are all of them.
\* Members of L are in groups by what e makes of them, or in none.
Grouped(L, e, k) == {i \in L : e[i] = k}
Known(L, e, none) == {e[i] : i \in L} \ {none}
Shared(L, e, none) ==
    {<<ip, Cardinality(Grouped(L, e, ip))>> :
        ip \in {k \in Known(L, e, none) : Cardinality(Grouped(L, e, k)) > 1}}

LEMMA GroupsAddUp ==
    ASSUME NEW L, IsFiniteSet(L), NEW e, NEW none
    PROVE  Cardinality(L) = Cardinality(Grouped(L, e, none))
                            + (Cardinality(Known(L, e, none)) - Cardinality(Shared(L, e, none)))
                            + FoldSet(LAMBDA y, n : y[2] + n, 0, Shared(L, e, none))
<1> DEFINE known  == Known(L, e, none)
           shared == Shared(L, e, none)
<1>a. /\ known = {e[i] : i \in L} \ {none}
      /\ shared = {<<ip, Cardinality({i \in L : e[i] = ip})>> :
                     ip \in {k \in known : Cardinality({i \in L : e[i] = k}) > 1}}
  BY DEF Known, Shared, Grouped
<1> HIDE DEF known, shared
<1> USE <1>a
<1> DEFINE H(ip) == {i \in L : e[i] = ip}
           size(ip) == Cardinality(H(ip))
           big      == {k \in known : size(k) > 1}
           G(s)     == {i \in L : \E x \in s : e[i] = x[1]}
           Alone    == {i \in L : e[i] \in known \ big}
<1>1. \A ip : IsFiniteSet(H(ip)) /\ size(ip) \in Nat /\ H(ip) \subseteq L
  <2> SUFFICES ASSUME NEW ip PROVE IsFiniteSet(H(ip)) /\ size(ip) \in Nat /\ H(ip) \subseteq L
    OBVIOUS
  <2>1. H(ip) \subseteq L
    OBVIOUS
  <2> QED
    BY <2>1, FS_Subset, FS_CardinalityType
<1>2. shared = {<<ip, size(ip)>> : ip \in big}
  OBVIOUS
<1>3. \A i : i \in H(e[i]) <=> i \in L
  OBVIOUS
<1>4. \A ip, i : i \in H(ip) => e[i] = ip
  OBVIOUS
<1>5. IsFiniteSet(known) /\ known \subseteq {e[i] : i \in L}
  <2>1. IsFiniteSet({e[i] : i \in L})
    <3> DEFINE f == [i \in L |-> e[i]]
               every == {e[i] : i \in L}
    <3>1. f \in [L -> every] /\ \A i \in L : f[i] = e[i]
      OBVIOUS
    <3>2. \A k \in every : \E i \in L : e[i] = k
      OBVIOUS
    <3> HIDE DEF f, every
    <3>3. f \in Surjection(L, every)
      BY <3>1, <3>2 DEF Surjection
    <3>4. IsFiniteSet(every)
      BY <3>3, FS_Surjection
    <3> QED
      BY <3>4 DEF every
  <2>2. known \subseteq {e[i] : i \in L}
    OBVIOUS
  <2> QED
    BY <2>1, <2>2, FS_Subset
<1>6. Cardinality(H(none)) = Cardinality(Grouped(L, e, none))
  BY DEF Grouped
<1>7. \A i \in L : e[i] = none \/ e[i] \in known
  OBVIOUS
<1>8. none \notin known
  OBVIOUS
<1>9. \A k \in known : size(k) >= 1
  <2> SUFFICES ASSUME NEW k \in known PROVE size(k) >= 1
    OBVIOUS
  <2>1. PICK i \in L : e[i] = k
    BY <1>5
  <2>2. H(k) # {}
    BY <2>1
  <2>3. size(k) # 0 /\ size(k) \in Nat
    BY <1>1, <2>2, FS_EmptySet
  <2> QED
    BY ONLY <2>3
<1> HIDE DEF H
<1>10. big \subseteq known /\ IsFiniteSet(big) /\ IsFiniteSet(known \ big)
       /\ Cardinality(known) = Cardinality(big) + Cardinality(known \ big)
       /\ Cardinality(big) \in Nat /\ Cardinality(known \ big) \in Nat
  <2>1. big \subseteq known
    OBVIOUS
  <2> HIDE DEF big
  <2>2. IsFiniteSet(big) /\ IsFiniteSet(known \ big)
    BY <1>5, <2>1, FS_Subset, FS_Difference
  <2>3. known = big \cup (known \ big) /\ big \cap (known \ big) = {}
    BY <2>1
  <2>4. Cardinality(known) = Cardinality(big) + Cardinality(known \ big) - Cardinality({})
    BY <2>2, <2>3, FS_Union
  <2> QED
    BY <2>1, <2>2, <2>4, FS_EmptySet, FS_CardinalityType
<1>11. IsFiniteSet(shared) /\ Cardinality(shared) = Cardinality(big)
  <2> DEFINE f == [ip \in big |-> <<ip, size(ip)>>]
  <2>0. \A x : x \in shared <=> \E ip \in big : x = <<ip, size(ip)>>
    BY <1>2
  <2> HIDE DEF big, size
  <2>1. f \in [big -> shared] /\ \A ip \in big : f[ip] = <<ip, size(ip)>>
    BY <2>0
  <2> HIDE DEF f
  <2>5. \A a, b \in big : f[a] = f[b] => a = b
    <3> SUFFICES ASSUME NEW a \in big, NEW b \in big, f[a] = f[b] PROVE a = b
      OBVIOUS
    <3>1. <<a, size(a)>> = <<b, size(b)>>
      BY <2>1
    <3> QED
      BY <3>1
  <2>2. f \in Injection(big, shared)
    BY ONLY <2>1, <2>5 DEF Injection, IsInjective
  <2>3. f \in Surjection(big, shared)
    BY <2>0, <2>1 DEF Surjection
  <2>4. f \in Bijection(big, shared)
    BY <2>2, <2>3 DEF Bijection
  <2> QED
    BY <1>10, <2>4, FS_Bijection DEF ExistsBijection
<1>12. \A k \in known \ big : size(k) = 1
  BY <1>1, <1>9
<1>13. Cardinality(Alone) = Cardinality(known \ big)
  <2> DEFINE f == [i \in Alone |-> e[i]]
  <2>1. ASSUME NEW i \in Alone, NEW j \in Alone, e[i] = e[j] PROVE i = j
    <3>1. size(e[i]) = 1 /\ IsFiniteSet(H(e[i]))
      BY <1>1, <1>12
    <3>2. PICK x : H(e[i]) = {x}
      BY <3>1, FS_Singleton
    <3>3. i \in H(e[i]) /\ j \in H(e[i])
      BY <1>3, <2>1
    <3> QED
      BY <3>2, <3>3
  <2>2. ASSUME NEW k \in known \ big PROVE \E i \in Alone : e[i] = k
    <3>1. PICK i \in L : e[i] = k
      BY <1>5
    <3> QED
      BY <3>1
  <2>6. IsFiniteSet(Alone)
    BY FS_Subset
  <2>7. f \in [Alone -> known \ big] /\ \A i \in Alone : f[i] = e[i]
    OBVIOUS
  <2> HIDE DEF f, Alone, big
  <2>3. f \in Injection(Alone, known \ big)
    BY <2>1, <2>7 DEF Injection, IsInjective
  <2>4. f \in Surjection(Alone, known \ big)
    BY <2>2, <2>7 DEF Surjection
  <2>5. f \in Bijection(Alone, known \ big)
    BY <2>3, <2>4 DEF Bijection
  <2> QED
    BY <2>5, <2>6, FS_Bijection DEF ExistsBijection
<1>14. \A s : IsFiniteSet(G(s)) /\ Cardinality(G(s)) \in Nat
  BY FS_Subset, FS_CardinalityType
<1>15. G({}) = {}
  OBVIOUS
<1>16. ASSUME NEW s \in SUBSET shared, NEW x \in s
       PROVE  Cardinality(G(s)) = x[2] + Cardinality(G(s \ {x}))
  <2>1. PICK ip \in big : x = <<ip, size(ip)>>
    BY <1>2
  <2>2. x[1] = ip /\ x[2] = size(ip)
    BY <2>1
  <2>3. \A y \in s : y[1] = ip => y = x
    <3> SUFFICES ASSUME NEW y \in s, y[1] = ip PROVE y = x
      OBVIOUS
    <3>1. PICK k \in big : y = <<k, size(k)>>
      BY <1>2
    <3>2. k = ip
      BY <3>1
    <3> QED
      BY <2>1, <3>1, <3>2
  <2>4. \A i : i \in H(ip) <=> i \in L /\ e[i] = ip
    BY <1>1, <1>3, <1>4
  <2>8. \A i : i \in G(s) <=> i \in L /\ \E y \in s : e[i] = y[1]
    OBVIOUS
  <2>9. \A i : i \in G(s \ {x}) <=> i \in L /\ \E y \in s \ {x} : e[i] = y[1]
    OBVIOUS
  <2> HIDE DEF G, big, size
  <2>5. G(s) = H(ip) \cup G(s \ {x}) /\ H(ip) \cap G(s \ {x}) = {}
    <3>1. \A i : i \in G(s) <=> (i \in H(ip) \/ i \in G(s \ {x}))
      <4>1. ASSUME NEW i, i \in G(s), ~(i \in H(ip)) PROVE i \in G(s \ {x})
        <5>1. i \in L /\ e[i] # ip
          BY ONLY <4>1, <2>4, <2>8
        <5>2. PICK y \in s : e[i] = y[1]
          BY ONLY <4>1, <2>8
        <5>3. y # x
          BY ONLY <5>1, <5>2, <2>2
        <5> QED
          BY ONLY Zenon, <5>1, <5>2, <5>3, <2>9, y \in s
      <4>2. ASSUME NEW i, i \in H(ip) PROVE i \in G(s)
        BY ONLY <4>2, <2>2, <2>4, <2>8, x \in s
      <4>3. ASSUME NEW i, i \in G(s \ {x}) PROVE i \in G(s)
        BY ONLY <4>3, <2>8, <2>9
      <4> QED
        BY ONLY Zenon, <4>1, <4>2, <4>3
    <3>2. \A i : ~(i \in H(ip) /\ i \in G(s \ {x}))
      <4> SUFFICES ASSUME NEW i, i \in H(ip), i \in G(s \ {x}) PROVE FALSE
        OBVIOUS
      <4>1. e[i] = ip
        BY ONLY <2>4, i \in H(ip)
      <4>2. PICK y \in s \ {x} : e[i] = y[1]
        BY ONLY <2>9, i \in G(s \ {x})
      <4>3. y \in s /\ y # x
        BY ONLY y \in s \ {x}
      <4> QED
        BY ONLY <4>1, <4>2, <4>3, <2>3
    <3> QED
      BY ONLY <3>1, <3>2
  <2>7. IsFiniteSet(H(ip)) /\ IsFiniteSet(G(s \ {x}))
    BY <1>1, <1>14
  <2>6. Cardinality(G(s)) = Cardinality(H(ip)) + Cardinality(G(s \ {x}))
    BY ONLY <2>5, <2>7, Apart
  <2> QED
    BY <2>2, <2>6 DEF size
<1> DEFINE g == [s \in SUBSET shared |-> Cardinality(G(s))]
<1>17. FoldSet(LAMBDA y, n : y[2] + n, 0, shared) = Cardinality(G(shared))
  <2>1. g \in [SUBSET shared -> Nat]
    BY <1>14
  <2>2. g[{}] = 0
    BY <1>15, FS_EmptySet
  <2>3. \A s \in SUBSET shared : \A x \in s : g[s] = x[2] + g[s \ {x}]
    BY <1>16
  <2>4. g[shared] = Cardinality(G(shared))
    OBVIOUS
  <2> HIDE DEF g
  <2>5. FoldSet(LAMBDA y, n : y[2] + n, 0, shared) = g[shared]
    BY <1>11, <2>1, <2>2, <2>3, SumIs
  <2> QED
    BY <2>4, <2>5
<1>18. \A i \in L : i \in G(shared) <=> e[i] \in big
  <2>1. \A x \in shared : x[1] \in big
    BY <1>2
  <2>2. \A ip \in big : \E x \in shared : x[1] = ip
    <3> SUFFICES ASSUME NEW ip \in big PROVE \E x \in shared : x[1] = ip
      OBVIOUS
    <3>1. <<ip, size(ip)>> \in shared /\ <<ip, size(ip)>>[1] = ip
      BY <1>2
    <3> QED
      BY <3>1
  <2> HIDE DEF big
  <2> QED
    BY <2>1, <2>2
<1>19. \A i : i \in H(none) <=> i \in L /\ e[i] = none
  BY <1>1, <1>3, <1>4
<1>20. IsFiniteSet(Alone) /\ Alone \subseteq L /\ G(shared) \subseteq L
  BY FS_Subset
<1> HIDE DEF G, big, size
<1>21. \A i \in L : i \in Alone <=> e[i] \in known \ big
  OBVIOUS
<1> HIDE DEF Alone
<1>22. /\ L = (H(none) \cup Alone) \cup G(shared)
       /\ H(none) \cap Alone = {} /\ (H(none) \cup Alone) \cap G(shared) = {}
  BY <1>1, <1>7, <1>8, <1>10, <1>18, <1>19, <1>20, <1>21
<1>23. IsFiniteSet(H(none))
  BY <1>1
<1>24. /\ IsFiniteSet(H(none) \cup Alone)
       /\ Cardinality(H(none) \cup Alone) = Cardinality(H(none)) + Cardinality(Alone)
  BY ONLY <1>20, <1>22, <1>23, Apart
<1>25. Cardinality(L) = Cardinality(H(none) \cup Alone) + Cardinality(G(shared))
  BY ONLY <1>14, <1>22, <1>24, Apart
<1>26. /\ Cardinality(H(none)) \in Nat /\ Cardinality(Alone) \in Nat /\ Cardinality(G(shared)) \in Nat
  BY <1>14, <1>20, <1>23, FS_CardinalityType
<1>27. Cardinality(L) = Cardinality(H(none)) + Cardinality(Alone) + Cardinality(G(shared))
  BY ONLY <1>24, <1>25, <1>26
<1>28. Cardinality(L) = Cardinality(H(none)) + (Cardinality(known) - Cardinality(shared))
                        + Cardinality(G(shared))
  BY ONLY <1>10, <1>11, <1>13, <1>26, <1>27
<1> QED
  BY <1>6, <1>17, <1>28 DEF known, shared
-----------------------------------------------------------------------------
(* The list of "validate" *)

ListTypes ==
    /\ lpc \in {"off", "loop", "done"} /\ taken \in 0 .. Len(List)
    /\ check \in [Numbers -> {"none", "handshake", "egress", "counting", "writing", "done"}]
    /\ lines \in Seq(Numbers)

At(c)   == {i \in Numbers : check[i] = c}
Written == ToSet(lines)
Failed  == At("done") \ Written

\* The proxies are taken in their order; those written are done, each once, and the
\* counters hold them, with those about to be written, and the others that are done.
CountInv ==
    /\ \A i \in Numbers : check[i] = "none" <=> i > taken
    /\ IsInjective(lines) /\ \A i \in Written : i \in At("done")
    /\ nvalid = Cardinality(Written) + Cardinality(At("writing"))
    /\ nfailed = Cardinality(Failed)

\* The summary is made of the whole list.
EndInv ==
    lpc = "done" => taken = Len(List) /\ Checking = {} /\ summary = EgressSummary

ListInv == ListTypes /\ CountInv /\ EndInv

LEMMA NumbersAre ==
    /\ Len(List) \in Nat /\ IsFiniteSet(Numbers) /\ Cardinality(Numbers) = Len(List)
    /\ \A i : i \in Numbers <=> i \in Nat /\ 1 <= i /\ i <= Len(List)
<1>1. Len(List) \in Nat
  <2>1. List \in Seq([proto : {"socks5", "socks4"}, user : BOOLEAN])
    BY ListAssumption
  <2> QED
    BY <2>1, LenProperties
<1>2. IsFiniteSet(1 .. Len(List)) /\ Cardinality(1 .. Len(List)) = Len(List)
  BY SMTT(30), <1>1, FS_Interval
<1> QED
  BY <1>1, <1>2 DEF Numbers

LEMMA GroupsAreFinite ==
    ASSUME ListTypes
    PROVE  /\ IsFiniteSet(Written) /\ Written \subseteq Numbers /\ Cardinality(Written) \in Nat
           /\ IsFiniteSet(Failed) /\ Cardinality(Failed) \in Nat
           /\ \A c : IsFiniteSet(At(c)) /\ Cardinality(At(c)) \in Nat
<1>1. Written \subseteq Numbers
  BY DEF ListTypes, Written, ToSet
<1>2. Failed \subseteq Numbers
  BY DEF Failed, At
<1>3. \A c : At(c) \subseteq Numbers
  BY DEF At
<1> QED
  BY <1>1, <1>2, <1>3, NumbersAre, FS_Subset, FS_CardinalityType

\* A check goes from one place to another.
LEMMA GroupsMove ==
    ASSUME ListTypes, NEW i \in Numbers, NEW b, NEW c, Becoming(i, c), check[i] = b, b # c
    PROVE  /\ \A d : d # c /\ d # b => At(d)' = At(d)
           /\ At(c)' = At(c) \cup {i} /\ i \notin At(c)
           /\ At(b)' = At(b) \ {i} /\ i \in At(b)
<1>1. /\ check'[i] = c /\ check[i] = b
      /\ \A j \in Numbers \ {i} : check'[j] = check[j]
  BY DEF Becoming, ListTypes
<1>2. ASSUME NEW d, d # c, d # b PROVE At(d)' = At(d)
  BY <1>1, <1>2 DEF At
<1>3. At(c)' = At(c) \cup {i} /\ i \notin At(c)
  BY <1>1 DEF At
<1>4. At(b)' = At(b) \ {i} /\ i \in At(b)
  BY <1>1 DEF At
<1> QED
  BY <1>2, <1>3, <1>4

\* A check goes on in between: nothing is counted.
LEMMA StillChecked ==
    ASSUME ListInv, NEW i \in Numbers, NEW c \in {"egress", "counting"}, Becoming(i, c),
           check[i] \in {"handshake", "egress"}, check[i] # c,
           UNCHANGED <<lpc, taken, nvalid, nfailed, lines, summary>>
    PROVE  ListInv'
<1>1. At("done")' = At("done") /\ At("writing")' = At("writing")
  BY GroupsMove DEF ListInv
<1>2. Written' = Written /\ Failed' = Failed
  BY <1>1 DEF Written, Failed
<1>3. lpc # "done"
  BY DEF ListInv, EndInv, Checking
<1>4. \A j \in Numbers : check'[j] = "none" <=> check[j] = "none"
  BY DEF Becoming, ListInv, ListTypes
<1>5. ListTypes'
  BY DEF ListInv, ListTypes, Becoming
<1>6. CountInv'
  BY <1>1, <1>2, <1>4 DEF ListInv, CountInv
<1> QED
  BY <1>3, <1>5, <1>6 DEF ListInv, EndInv

LEMMA StartCheckKeeps == ASSUME ListInv, StartCheck PROVE ListInv'
<1> DEFINE i == taken + 1
<1>1. /\ lpc = "loop" /\ taken < Len(List) /\ taken' = taken + 1 /\ Becoming(i, "handshake")
      /\ UNCHANGED <<lpc, egress, nvalid, nfailed, lines, summary>>
  BY DEF StartCheck
<1>2. i \in Numbers /\ taken \in Nat /\ Len(List) \in Nat /\ taken' \in 0 .. Len(List)
  BY <1>1, NumbersAre DEF ListInv, ListTypes
<1>3. check[i] = "none"
  BY <1>2 DEF ListInv, CountInv
<1> HIDE DEF i
<1>4. At("done")' = At("done") /\ At("writing")' = At("writing")
  BY <1>1, <1>2, <1>3, GroupsMove DEF ListInv
<1>5. Written' = Written /\ Failed' = Failed
  BY <1>1, <1>4 DEF Written, Failed
<1>6. ListTypes'
  BY <1>1, <1>2 DEF ListInv, ListTypes, Becoming
<1>7. \A j \in Numbers : check'[j] = "none" <=> j > taken'
  <2> SUFFICES ASSUME NEW j \in Numbers PROVE check'[j] = "none" <=> j > taken'
    OBVIOUS
  <2>1. j \in Nat /\ (check[j] = "none" <=> j > taken)
    BY NumbersAre DEF ListInv, CountInv
  <2>2. CASE j = i
    <3>1. check'[j] = "handshake"
      BY <1>1, <1>2, <2>2 DEF ListInv, ListTypes, Becoming
    <3> QED
      BY <1>1, <1>2, <2>1, <2>2, <3>1 DEF i
  <2>3. CASE j # i
    <3>1. check'[j] = check[j]
      BY <1>1, <1>2, <2>3 DEF ListInv, ListTypes, Becoming
    <3> QED
      BY <1>1, <1>2, <2>1, <2>3, <3>1 DEF i
  <2> QED
    BY <2>2, <2>3
<1>8. CountInv'
  BY <1>1, <1>4, <1>5, <1>7 DEF ListInv, CountInv
<1> QED
  BY <1>1, <1>6, <1>8 DEF ListInv, EndInv

LEMMA ValidatedKeeps ==
    ASSUME ListInv, NEW i \in Numbers, Validated(i) PROVE ListInv'
<1>1. /\ check[i] = "handshake" /\ UNCHANGED <<lpc, taken, egress, nvalid, lines, summary>>
      /\ \/ Becoming(i, "egress") /\ UNCHANGED nfailed
         \/ Becoming(i, "done") /\ nfailed' = nfailed + 1
  BY DEF Validated
<1>2. CASE Becoming(i, "egress") /\ UNCHANGED nfailed
  BY <1>1, <1>2, StillChecked
<1>3. CASE Becoming(i, "done") /\ nfailed' = nfailed + 1
  <2>1. At("writing")' = At("writing") /\ At("done")' = At("done") \cup {i} /\ i \notin At("done")
    BY <1>1, <1>3, GroupsMove DEF ListInv
  <2>2. Written' = Written
    BY <1>1 DEF Written
  <2>3. Failed' = Failed \cup {i} /\ i \notin Failed
    BY <2>1, <2>2 DEF Failed, ListInv, CountInv
  <2>4. nfailed' = Cardinality(Failed')
    BY <1>3, <2>3, GroupsAreFinite, FS_AddElement DEF ListInv, CountInv
  <2>5. \A j \in Numbers : check'[j] = "none" <=> check[j] = "none"
    BY <1>1, <1>3 DEF Becoming, ListInv, ListTypes
  <2>6. ListTypes'
    BY <1>1, <1>3 DEF ListInv, ListTypes, Becoming
  <2>7. CountInv'
    BY <1>1, <2>1, <2>2, <2>4, <2>5 DEF ListInv, CountInv
  <2>8. lpc # "done"
    BY <1>1 DEF ListInv, EndInv, Checking
  <2> QED
    BY <1>1, <2>6, <2>7, <2>8 DEF ListInv, EndInv
<1> QED
  BY <1>1, <1>2, <1>3

LEMMA AskEchoKeeps ==
    ASSUME ListInv, NEW i \in Numbers, AskEcho(i) \/ EchoesFail(i) PROVE ListInv'
<1>1. /\ check[i] = "egress" /\ UNCHANGED <<lpc, taken, nvalid, nfailed, lines, summary>>
      /\ Becoming(i, "counting") \/ UNCHANGED <<check, egress>>
  BY DEF AskEcho, EchoesFail
<1>2. CASE Becoming(i, "counting")
  BY <1>1, <1>2, StillChecked
<1>3. CASE UNCHANGED <<check, egress>>
  <2>1. lpc # "done"
    BY <1>1 DEF ListInv, EndInv, Checking
  <2>2. \A c : At(c)' = At(c)
    BY <1>3 DEF At
  <2>3. Written' = Written /\ Failed' = Failed
    BY <1>1, <2>2 DEF Written, Failed
  <2> QED
    BY <1>1, <1>3, <2>1, <2>2, <2>3 DEF ListInv, ListTypes, CountInv, EndInv
<1> QED
  BY <1>1, <1>2, <1>3

LEMMA CountValidKeeps ==
    ASSUME ListInv, NEW i \in Numbers, CountValid(i) PROVE ListInv'
<1>1. /\ check[i] = "counting" /\ Becoming(i, "writing") /\ nvalid' = nvalid + 1
      /\ UNCHANGED <<lpc, taken, egress, nfailed, lines, summary>>
  BY DEF CountValid
<1>2. /\ At("done")' = At("done") /\ At("writing")' = At("writing") \cup {i}
      /\ i \notin At("writing")
  BY <1>1, GroupsMove DEF ListInv
<1>3. Written' = Written /\ Failed' = Failed
  BY <1>1, <1>2 DEF Written, Failed
<1>4. Cardinality(At("writing")') = Cardinality(At("writing")) + 1
  BY <1>2, GroupsAreFinite, FS_AddElement DEF ListInv
<1>5. nvalid' = Cardinality(Written') + Cardinality(At("writing")')
  BY <1>1, <1>3, <1>4, GroupsAreFinite DEF ListInv, CountInv
<1>6. \A j \in Numbers : check'[j] = "none" <=> check[j] = "none"
  BY <1>1 DEF Becoming, ListInv, ListTypes
<1>7. ListTypes'
  BY <1>1 DEF ListInv, ListTypes, Becoming
<1>8. CountInv'
  BY <1>1, <1>2, <1>3, <1>5, <1>6 DEF ListInv, CountInv
<1>9. lpc # "done"
  BY <1>1 DEF ListInv, EndInv, Checking
<1> QED
  BY <1>1, <1>7, <1>8, <1>9 DEF ListInv, EndInv

LEMMA WriteLineKeeps ==
    ASSUME ListInv, NEW i \in Numbers, WriteLine(i) PROVE ListInv'
<1>1. /\ check[i] = "writing" /\ Becoming(i, "done") /\ lines' = Append(lines, i)
      /\ UNCHANGED <<lpc, taken, egress, nvalid, nfailed, summary>>
  BY DEF WriteLine
<1>2. /\ At("writing")' = At("writing") \ {i} /\ i \in At("writing")
      /\ At("done")' = At("done") \cup {i} /\ i \notin At("done")
  BY <1>1, GroupsMove DEF ListInv
<1>3. lines \in Seq(Numbers) /\ i \notin Written /\ IsInjective(lines)
  BY <1>2 DEF ListInv, ListTypes, CountInv
<1>4. /\ lines' \in Seq(Numbers) /\ Written' = Written \cup {i} /\ IsInjective(lines')
  <2>1. /\ Append(lines, i) \in Seq(Numbers) /\ ToSet(Append(lines, i)) = ToSet(lines) \cup {i}
        /\ IsInjective(Append(lines, i))
    BY <1>3, AppendAdds DEF Written
  <2> QED
    BY <1>1, <2>1 DEF Written
<1>5. Failed' = Failed
  BY <1>2, <1>4 DEF Failed
<1>6. Cardinality(Written') = Cardinality(Written) + 1
  BY <1>3, <1>4, GroupsAreFinite, FS_AddElement DEF ListInv
<1>7. Cardinality(At("writing")') = Cardinality(At("writing")) - 1
  BY <1>2, GroupsAreFinite, FS_RemoveElement DEF ListInv
<1>8. nvalid' = Cardinality(Written') + Cardinality(At("writing")')
  BY <1>1, <1>6, <1>7, GroupsAreFinite DEF ListInv, CountInv
<1>9. \A j \in Numbers : check'[j] = "none" <=> check[j] = "none"
  BY <1>1 DEF Becoming, ListInv, ListTypes
<1>10. ListTypes'
  BY <1>1, <1>4 DEF ListInv, ListTypes, Becoming
<1>11. CountInv'
  <2>1. \A j \in Written' : j \in At("done")'
    BY <1>2, <1>4 DEF ListInv, CountInv
  <2> QED
    BY <1>1, <1>4, <1>5, <1>8, <1>9, <2>1 DEF ListInv, CountInv
<1>12. lpc # "done"
  BY <1>1 DEF ListInv, EndInv, Checking
<1> QED
  BY <1>1, <1>10, <1>11, <1>12 DEF ListInv, EndInv

LEMMA ListEndsKeeps == ASSUME ListInv, ListEnds PROVE ListInv'
<1>1. /\ taken = Len(List) /\ Checking = {} /\ summary' = EgressSummary /\ lpc' = "done"
      /\ UNCHANGED <<taken, check, egress, nvalid, nfailed, lines>>
  BY DEF ListEnds
<1>2. Written' = Written /\ Failed' = Failed /\ (\A c : At(c)' = At(c)) /\ Checking' = Checking
  BY <1>1 DEF Written, Failed, At, Checking
<1>3. EgressSummary' = EgressSummary
  BY <1>1 DEF EgressSummary, Having
<1> QED
  BY <1>1, <1>2, <1>3 DEF ListInv, ListTypes, CountInv, EndInv

\* The list is left alone, but for its start.
LEMMA SameList ==
    ASSUME ListInv, UNCHANGED <<taken, check, egress, nvalid, nfailed, lines, summary>>,
           lpc' = lpc \/ lpc' = "loop"
    PROVE  ListInv'
<1>1. Written' = Written /\ Failed' = Failed /\ (\A c : At(c)' = At(c)) /\ Checking' = Checking
  BY DEF Written, Failed, At, Checking
<1>2. EgressSummary' = EgressSummary
  BY DEF EgressSummary, Having
<1> QED
  BY <1>1, <1>2 DEF ListInv, ListTypes, CountInv, EndInv

LEMMA ListInvKeeps == ASSUME ListInv, [Next]_vars PROVE ListInv'
<1>1. CASE ListGoes
  <2>1. ListStep
    BY <1>1 DEF ListGoes
  <2>2. ASSUME NEW i \in Numbers, Handshake(i) PROVE ListInv'
    BY <2>2, SameList DEF Handshake, lvars
  <2> QED
    BY <2>1, <2>2, StartCheckKeeps, ListEndsKeeps, ValidatedKeeps, AskEchoKeeps,
       CountValidKeeps, WriteLineKeeps DEF ListStep
<1>2. CASE StartValidate
  BY <1>2, SameList DEF StartValidate
<1>3. CASE Main /\ ~StartValidate
  <2>1. UNCHANGED lvars
    BY <1>3 DEF Main, StartFlat, StartScan, NextTarget, Advance, StartRelay, ExecNmap, NmapDone,
          StartBuiltin, BuiltinReturns, Prune, ConnectScanEnds, Summary, ValidateEnds, parts
  <2> QED
    BY <2>1, SameList DEF lvars
<1>4. CASE ~Main /\ ~ListGoes
  <2>1. UNCHANGED lvars
    BY <1>4 DEF Next, Interrupt, NmapFinds, NmapEnds, ScanGoes, RelayOf, Outside, Connects,
          ProxyGoes, ProxyActs, parts, vars, fvars
  <2> QED
    BY <2>1, SameList DEF lvars
<1> QED
  BY <1>1, <1>2, <1>3, <1>4

LEMMA ListHolds == Spec => []ListInv
<1>1. Init => ListInv
  <2> SUFFICES ASSUME Init PROVE ListInv
    OBVIOUS
  <2>1. ListInit
    BY DEF Init
  <2>2. /\ lpc = "off" /\ taken = 0 /\ check = [i \in Numbers |-> "none"]
        /\ nvalid = 0 /\ nfailed = 0 /\ lines = <<>>
    BY <2>1 DEF ListInit
  <2>3. Written = {} /\ IsInjective(lines)
    BY <2>2, EmptyList DEF Written
  <2>4. At("done") = {} /\ At("writing") = {} /\ Failed = {}
    BY <2>2 DEF At, Failed
  <2>5. \A i \in Numbers : i > taken
    BY <2>2, NumbersAre
  <2>6. ListTypes
    <3>1. 0 \in 0 .. Len(List) /\ <<>> \in Seq(Numbers)
      BY NumbersAre
    <3> QED
      BY <2>2, <3>1 DEF ListTypes
  <2> QED
    BY <2>2, <2>3, <2>4, <2>5, <2>6, FS_EmptySet DEF ListInv, CountInv, EndInv
<1> QED
  BY <1>1, ListInvKeeps, PTL DEF Spec

\* A list without repetition is as long as it has members.
LEMMA AsLong ==
    ASSUME NEW S, NEW s \in Seq(S), IsInjective(s)
    PROVE  Len(s) = Cardinality(ToSet(s))
<1>0. Len(s) \in Nat /\ DOMAIN s = 1 .. Len(s)
  BY LenProperties
<1>1. Len(s) \in Nat /\ DOMAIN s = 1 .. Len(s) /\ IsFiniteSet(1 .. Len(s))
      /\ Cardinality(1 .. Len(s)) = Len(s)
  BY <1>0, FS_Interval
<1> DEFINE f == [i \in 1 .. Len(s) |-> s[i]]
           D == 1 .. Len(s)
           R == ToSet(s)
<1>2. f \in [D -> R] /\ \A i \in D : f[i] = s[i]
  BY <1>1 DEF ToSet
<1>3. \A i, j \in D : s[i] = s[j] => i = j
  BY <1>1 DEF IsInjective
<1>4. \A x \in R : \E i \in D : s[i] = x
  BY <1>1 DEF ToSet
<1>5. IsFiniteSet(D) /\ Cardinality(D) = Len(s)
  BY <1>1
<1> HIDE DEF f, D, R
<1>6. f \in Injection(D, R)
  BY <1>2, <1>3 DEF Injection, IsInjective
<1>7. f \in Surjection(D, R)
  BY <1>2, <1>4 DEF Surjection
<1>8. f \in Bijection(D, R)
  BY <1>6, <1>7 DEF Bijection
<1>9. Cardinality(D) = Cardinality(R)
  BY <1>5, <1>8, FS_Bijection DEF ExistsBijection
<1> QED
  BY <1>5, <1>9 DEF R

\* The counters hold no more than was started.
LEMMA CountersFit == ASSUME ListInv PROVE nvalid \in Nat /\ nfailed \in Nat
                                          /\ nvalid + nfailed <= Len(List)
<1>1. Written \cap At("writing") = {} /\ (Written \cup At("writing")) \cap Failed = {}
      /\ (Written \cup At("writing")) \cup Failed \subseteq Numbers
  <2>1. At("writing") \cap At("done") = {}
    BY DEF At
  <2>2. Written \subseteq At("done") /\ Failed \subseteq At("done")
    BY DEF ListInv, CountInv, Failed
  <2>3. Failed \cap Written = {}
    BY DEF Failed
  <2>4. At("writing") \subseteq Numbers /\ At("done") \subseteq Numbers
    BY DEF At
  <2> QED
    BY <2>1, <2>2, <2>3, <2>4
<1>2. /\ IsFiniteSet(Written) /\ IsFiniteSet(At("writing")) /\ IsFiniteSet(Failed)
      /\ Cardinality(Written) \in Nat /\ Cardinality(At("writing")) \in Nat
      /\ Cardinality(Failed) \in Nat
  BY GroupsAreFinite DEF ListInv
<1> DEFINE A == Written \cup At("writing")
<1>3. IsFiniteSet(A) /\ Cardinality(A) = Cardinality(Written) + Cardinality(At("writing"))
  BY <1>1, <1>2, Apart
<1>4. A \cap Failed = {} /\ A \cup Failed \subseteq Numbers
  BY <1>1
<1> HIDE DEF A
<1>5. Cardinality(A \cup Failed) = Cardinality(A) + Cardinality(Failed)
  BY <1>2, <1>3, <1>4, Apart
<1>6. Cardinality(A \cup Failed) <= Len(List)
  BY <1>4, NumbersAre, FS_Subset
<1>7. nvalid = Cardinality(A) /\ nfailed = Cardinality(Failed)
  BY <1>3 DEF ListInv, CountInv
<1> QED
  BY <1>2, <1>3, <1>5, <1>6, <1>7

\* For any list and number of threads: when "validate" prints its summary every proxy
\* is written, once, or counted as failed, and the summary accounts for every line
\* (cli.go:117-183).
THEOREM SummaryAddsUp == Spec => []ListAddsUp
<1>1. ListInv => ListAddsUp
  <2> SUFFICES ASSUME ListInv, lpc = "done"
               PROVE  /\ IsInjective(lines) /\ nvalid = Len(lines) /\ nvalid + nfailed = Len(List)
                      /\ Len(lines) = summary.unknown
                                      + (summary.unique - Cardinality(summary.shared))
                                      + FoldSet(LAMBDA g, n : g[2] + n, 0, summary.shared)
    BY DEF ListAddsUp
  <2>1. taken = Len(List) /\ Checking = {} /\ summary = EgressSummary
    BY DEF ListInv, EndInv
  <2>2. lines \in Seq(Numbers) /\ IsInjective(lines) /\ IsFiniteSet(Written)
    BY GroupsAreFinite DEF ListInv, ListTypes, CountInv
  <2>3. Len(lines) = Cardinality(Written)
    BY <2>2, AsLong DEF Written
  <2>4. \A i \in Numbers : check[i] = "done"
    <3> SUFFICES ASSUME NEW i \in Numbers PROVE check[i] = "done"
      OBVIOUS
    <3>1. ~(i > taken)
      BY <2>1, NumbersAre
    <3>2. check[i] # "none" /\ i \notin Checking
      BY <2>1, <3>1 DEF ListInv, CountInv
    <3> QED
      BY <3>2 DEF Checking
  <2>5. At("writing") = {} /\ At("done") = Numbers
    BY <2>4 DEF At
  <2>6. nvalid = Len(lines)
    BY <2>3, <2>5, FS_EmptySet, GroupsAreFinite DEF ListInv, CountInv
  <2>7. Failed = Numbers \ Written /\ Written \subseteq Numbers
    BY <2>5, GroupsAreFinite DEF Failed, ListInv
  <2>8. nvalid + nfailed = Len(List)
    <3>1. Written \cap Failed = {} /\ Written \cup Failed = Numbers
      BY <2>7
    <3>2. Cardinality(Numbers) = Cardinality(Written) + Cardinality(Failed)
      BY <2>2, <3>1, GroupsAreFinite, Apart DEF ListInv
    <3> QED
      BY <2>3, <2>6, <3>2, NumbersAre DEF ListInv, CountInv
  <2> DEFINE none == ""
  <2>9. /\ summary.unknown = Cardinality(Grouped(Written, egress, none))
        /\ summary.unique = Cardinality(Known(Written, egress, none))
        /\ summary.shared = Shared(Written, egress, none)
    BY <2>1 DEF EgressSummary, Having, Written, Grouped, Known, Shared
  <2> HIDE DEF none
  <2>10. Cardinality(Written) = Cardinality(Grouped(Written, egress, none))
            + (Cardinality(Known(Written, egress, none)) - Cardinality(Shared(Written, egress, none)))
            + FoldSet(LAMBDA g, n : g[2] + n, 0, Shared(Written, egress, none))
    BY ONLY <2>2, GroupsAddUp
  <2> QED
    BY <2>2, <2>3, <2>6, <2>8, <2>9, <2>10
<1> QED
  BY <1>1, ListHolds, PTL
=============================================================================
