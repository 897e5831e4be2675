--------------------------- MODULE RepliesProofs ---------------------------
(***************************************************************************)
(* Proofs about what a SOCKS client makes of the replies, and what the relay *)
(* passes on behind them, for every reply that follows the protocol and every *)
(* cut of the byte stream; and about the types of the whole program.        *)
(***************************************************************************)
EXTENDS CommandLineProofs

-----------------------------------------------------------------------------
(* A stream that begins with a reply *)

\* Behind the first n bytes there are only the target's.
DataBehind(s, n) == \A i \in n + 1 .. Len(s) : s[i] = Data

\* A stream that begins with a reply of n bytes, the whole of it unless the
\* connection broke.
Begins(s, n, broken) == DataBehind(s, n) /\ (broken \/ Len(s) >= n)

\* A stream that begins with a grant of CONNECT.
Opened(s, broken) ==
    /\ Len(s) >= 2 => s[2] = 0
    /\ broken \/ Len(s) >= 4
    /\ Len(s) >= 4 => BoundLength(s[4]) = 0 \/ Begins(s, 4 + BoundLength(s[4]), broken)

LEMMA BoundLengthIs == \A atyp : BoundLength(atyp) \in 0 .. 3
BY DEF BoundLength

\* What a read of k bytes leaves.
LEMMA BehindRest ==
    ASSUME NEW s \in Seq(Nat), NEW k \in 0 .. Len(s), NEW n \in Nat, NEW m \in Nat, m + k >= n,
           DataBehind(s, n)
    PROVE  DataBehind(SubSeq(s, k + 1, Len(s)), m)
<1> DEFINE t == SubSeq(s, k + 1, Len(s))
<1>1. Len(s) \in Nat /\ k \in Nat
  OBVIOUS
<1>2. Len(t) = Len(s) - k /\ \A i \in 1 .. Len(s) - k : t[i] = s[i + k]
  <2>1. \A i \in k + 1 .. Len(s) : s[i] \in Nat
    OBVIOUS
  <2>2. /\ Len(t) = IF k + 1 <= Len(s) THEN Len(s) - (k + 1) + 1 ELSE 0
        /\ \A i \in 1 .. Len(s) - (k + 1) + 1 : t[i] = s[k + 1 + i - 1]
    BY <2>1, SubSeqProperties
  <2>3. Len(t) = Len(s) - k
    BY Rest
  <2> HIDE DEF t
  <2>4. ASSUME NEW i \in 1 .. Len(s) - k PROVE t[i] = s[i + k]
    <3>1. i \in 1 .. Len(s) - (k + 1) + 1 /\ k + 1 + i - 1 = i + k
      BY <1>1
    <3> QED
      BY <2>2, <3>1
  <2> QED
    BY <2>3, <2>4
<1> HIDE DEF t
<1>3. ASSUME NEW i \in m + 1 .. Len(t) PROVE t[i] = Data
  <2>1. i \in 1 .. Len(s) - k /\ i + k \in n + 1 .. Len(s)
    BY SMTT(30), <1>1, <1>2
  <2> QED
    BY <1>2, <2>1 DEF DataBehind
<1> QED
  BY <1>3 DEF DataBehind, t

\* What is left of it when the connection breaks.
LEMMA BehindStart ==
    ASSUME NEW s \in Seq(Nat), NEW k \in 0 .. Len(s), NEW n \in Nat, DataBehind(s, n)
    PROVE  DataBehind(SubSeq(s, 1, k), n)
<1> DEFINE t == SubSeq(s, 1, k)
<1>1. Len(s) \in Nat /\ k \in Nat /\ Len(t) = k /\ \A i \in 1 .. k : t[i] = s[i]
  BY Start
<1> HIDE DEF t
<1>2. ASSUME NEW i \in n + 1 .. Len(t) PROVE t[i] = Data
  <2>1. i \in 1 .. k /\ i \in n + 1 .. Len(s)
    BY <1>1
  <2> QED
    BY <1>1, <2>1 DEF DataBehind
<1> QED
  BY <1>2 DEF DataBehind, t

\* One more byte of the target's.
LEMMA OneMoreByte ==
    ASSUME NEW s \in Seq(Nat)
    PROVE  /\ Append(s, Data) \in Seq(Nat) /\ Len(Append(s, Data)) = Len(s) + 1
           /\ Append(s, Data)[Len(s) + 1] = Data
           /\ \A i \in 1 .. Len(s) : Append(s, Data)[i] = s[i]
<1>1. Data \in Nat
  BY DEF Data
<1> QED
  BY <1>1, AppendProperties

LEMMA BehindMore ==
    ASSUME NEW s \in Seq(Nat), NEW n \in Nat, DataBehind(s, n)
    PROVE  DataBehind(Append(s, Data), n)
<1> DEFINE t == Append(s, Data)
<1>1. /\ Len(s) \in Nat /\ Len(t) = Len(s) + 1 /\ t[Len(s) + 1] = Data
      /\ \A i \in 1 .. Len(s) : t[i] = s[i]
  BY OneMoreByte
<1> HIDE DEF t
<1>2. ASSUME NEW i \in n + 1 .. Len(t) PROVE t[i] = Data
  <2>1. i = Len(s) + 1 \/ (i \in 1 .. Len(s) /\ i \in n + 1 .. Len(s))
    BY <1>1
  <2> QED
    BY <1>1, <2>1 DEF DataBehind
<1> QED
  BY <1>2 DEF DataBehind, t

\* A grant stays one when more data arrives, and as far as it goes when the
\* connection breaks.
LEMMA OpenedMore ==
    ASSUME NEW s \in Seq(Nat), Opened(s, FALSE) PROVE Opened(Append(s, Data), FALSE)
<1> DEFINE t == Append(s, Data)
           n == 4 + BoundLength(s[4])
<1>1. /\ t \in Seq(Nat) /\ Len(s) \in Nat /\ Len(t) = Len(s) + 1
      /\ \A i \in 1 .. Len(s) : t[i] = s[i]
  BY OneMoreByte
<1>2. Len(s) >= 4 /\ s[2] = 0 /\ (BoundLength(s[4]) = 0 \/ Begins(s, n, FALSE))
  <2>1. Len(s) >= 4
    BY DEF Opened
  <2>2. Len(s) >= 2
    BY <1>1, <2>1
  <2> QED
    BY <2>1, <2>2 DEF Opened
<1>3. n \in Nat
  BY BoundLengthIs
<1>4. Begins(s, n, FALSE) => Begins(t, n, FALSE)
  <2> SUFFICES ASSUME Begins(s, n, FALSE) PROVE Begins(t, n, FALSE)
    OBVIOUS
  <2>1. DataBehind(s, n) /\ Len(s) >= n
    BY DEF Begins
  <2>2. DataBehind(t, n)
    BY <1>3, <2>1, BehindMore
  <2> HIDE DEF t, n
  <2>3. Len(t) >= n
    BY <1>1, <1>3, <2>1
  <2> QED
    BY <2>2, <2>3 DEF Begins
<1> HIDE DEF t
<1>5. t[2] = 0 /\ t[4] = s[4] /\ Len(t) >= 4
  BY SMTT(30), <1>1, <1>2
<1> QED
  BY <1>2, <1>4, <1>5 DEF Opened, t

LEMMA OpenedStart ==
    ASSUME NEW s \in Seq(Nat), NEW k \in 0 .. Len(s), NEW broken, Opened(s, broken)
    PROVE  Opened(SubSeq(s, 1, k), TRUE)
<1> DEFINE t == SubSeq(s, 1, k)
<1>1. Len(s) \in Nat /\ k \in Nat /\ Len(t) = k /\ \A i \in 1 .. k : t[i] = s[i]
  BY Start
<1>2. ASSUME k >= 4, BoundLength(s[4]) # 0 PROVE DataBehind(t, 4 + BoundLength(s[4]))
  <2>1. Len(s) >= 4
    BY <1>1, <1>2
  <2>2. DataBehind(s, 4 + BoundLength(s[4])) /\ 4 + BoundLength(s[4]) \in Nat
    BY <1>2, <2>1, BoundLengthIs DEF Opened, Begins
  <2> QED
    BY <2>2, BehindStart
<1> HIDE DEF t
<1>3. Len(t) >= 2 => t[2] = 0
  <2>1. ASSUME k >= 2 PROVE Len(s) >= 2 /\ t[2] = s[2]
    BY <1>1, <2>1
  <2> QED
    BY <1>1, <2>1 DEF Opened
<1>4. k >= 4 => t[4] = s[4]
  BY <1>1
<1> QED
  BY <1>1, <1>2, <1>3, <1>4 DEF Opened, Begins, t

\* A reply that grants is a grant.
LEMMA ReplyOpens ==
    ASSUME NEW r \in ConnectReplies, r[2] = 0, NEW broken PROVE Opened(r, broken)
<1>1. r \in Seq(Nat) /\ Len(r) \in Nat /\ Len(r) >= 4 /\ BoundLength(r[4]) \in {0, Len(r) - 4}
  BY RepliesAssumption, BoundAssumption DEF BoundLength
<1>2. ASSUME BoundLength(r[4]) = Len(r) - 4 PROVE Begins(r, 4 + BoundLength(r[4]), broken)
  <2>1. 4 + BoundLength(r[4]) = Len(r)
    BY <1>1, <1>2
  <2>2. Len(r) + 1 .. Len(r) = {}
    BY <1>1
  <2> QED
    BY <1>1, <2>1, <2>2 DEF Begins, DataBehind
<1> QED
  BY <1>1, <1>2 DEF Opened

-----------------------------------------------------------------------------
(* What each side knows of the other *)

\* A client that has had each reply whole is in step with the proxy: nothing is
\* left in front of an answer to CONNECT, and a failure named after a refusal
\* follows one.  Behind a grant there is only the target's data.  The relay reads
\* every reply whole.
Exact(l) ==
    /\ reader = "full" => ~cut[l]
    /\ ~cut[l] =>
          /\ xpc[l] = "connect" /\ srv[l] \in {"request", "confused"} => Len(stream[l]) = 0
          /\ xpc[l] = "connect" /\ srv[l] = "tunnel" => Opened(stream[l], gone[l])
          /\ xpc[l] = "reply4" /\ srv[l] = "tunnel" =>
                /\ Begins(stream[l], 3, gone[l])
                /\ Len(stream[l]) >= 2 => stream[l][2] = 90
          /\ xpc[l] = "failed" /\ why[l] \in SocksReplies => srv[l] = "denied"
    /\ reader = "full" =>
          /\ xpc[l] = "bound" => Begins(stream[l], left[l], gone[l])
          /\ xpc[l] = "ok" /\ why[l] = NoError => DataBehind(stream[l], 0)
    /\ xpc[l] = "closed" => Len(stream[l]) = 0

ReplyTypes == cut \in [Links -> BOOLEAN] /\ DOMAIN why = Links

ReplyInv == ReplyTypes /\ \A l \in Links : Exact(l)

\* A step on link l, in what the client writes and in what it reads.
Wrote(l) == /\ DOMAIN why' = Links
            /\ \A d \in Links \ {l} : xpc'[d] = xpc[d] /\ srv'[d] = srv[d] /\ why'[d] = why[d]

Heard(l) == /\ UNCHANGED reader /\ cut' \in [Links -> BOOLEAN]
            /\ \A d \in Links \ {l} : /\ stream'[d] = stream[d] /\ gone'[d] = gone[d]
                                      /\ cut'[d] = cut[d] /\ left'[d] = left[d]

LEMMA OneReply ==
    ASSUME ReplyInv, NEW l \in Links, Wrote(l), Heard(l), Exact(l)' PROVE ReplyInv'
<1>1. ASSUME NEW d \in Links, d # l PROVE Exact(d)'
  BY <1>1 DEF ReplyInv, Wrote, Heard, Exact
<1> QED
  BY <1>1 DEF ReplyInv, ReplyTypes, Wrote, Heard

\* The texts that no refusal gives.
LEMMA OwnErrors ==
    /\ \A err \in DialFailures \cup LocalFailures \cup AuthFailures : err \notin SocksReplies
    /\ NotASocksServer \notin SocksReplies /\ HandshakeTimeout \notin SocksReplies
    /\ "broken pipe" \notin SocksReplies /\ "EOF" \notin SocksReplies
    /\ "no CONNECT response" \notin SocksReplies
    /\ HandshakeTimeout # NoError /\ "EOF" # NoError /\ "unknown address type" # NoError
BY DEF DialFailures, LocalFailures, AuthFailures, SocksReplies, NotASocksServer,
       HandshakeTimeout, NoError

LEMMA FailsAt ==
    ASSUME ExchangeInv, ReplyInv, NEW l \in Links, NEW err, Fails(l, err)
    PROVE  Wrote(l) /\ xpc'[l] = "failed" /\ why'[l] = err /\ srv'[l] = srv[l]
BY DEF ExchangeInv, ExchangeTypes, ReplyInv, ReplyTypes, Fails, Wrote

LEMMA SucceedsAt ==
    ASSUME ExchangeInv, ReplyInv, NEW l \in Links, NEW err, Succeeds(l, err)
    PROVE  Wrote(l) /\ xpc'[l] = "ok" /\ why'[l] = err /\ srv'[l] = srv[l]
BY DEF ExchangeInv, ExchangeTypes, ReplyInv, ReplyTypes, Succeeds, Wrote

LEMMA SendsAt ==
    ASSUME ExchangeInv, ReplyInv, NEW l \in Links, NEW after, NEW expects, NEW answers,
           Sends(l, after, expects, answers)
    PROVE  /\ Wrote(l)
           /\ \/ /\ xpc'[l] = after
                 /\ srv'[l] = IF srv[l] = expects THEN answers ELSE "confused"
              \/ xpc'[l] = "failed" /\ why'[l] = "broken pipe"
BY DEF ExchangeInv, ExchangeTypes, ReplyInv, ReplyTypes, Sends, Fails, Wrote

\* What a failure that is not named after a refusal leaves.
LEMMA OwnFailure ==
    ASSUME NEW l, reader' = "full" => ~cut'[l], xpc'[l] = "failed", why'[l] \notin SocksReplies
    PROVE  Exact(l)'
BY DEF Exact

LEMMA BeginExact ==
    ASSUME ExchangeInv, RelayTypes, ReplyInv, NEW l \in Links, NEW p, Begin(l, p)
    PROVE  ReplyInv'
<1>1. srv[l] = "none" /\ Heard(l) /\ (reader' = "full" => ~cut'[l])
  BY DEF ExchangeInv, Granted, ReplyInv, ReplyTypes, Exact, Begin, Heard
<1>2. CASE \E err \in DialFailures \cup LocalFailures : Fails(l, err)
  <2>1. PICK err \in DialFailures \cup LocalFailures : Fails(l, err)
    BY <1>2
  <2>2. Wrote(l) /\ xpc'[l] = "failed" /\ why'[l] = err
    BY <2>1, FailsAt
  <2>3. err \notin SocksReplies
    BY OwnErrors
  <2> QED
    BY <1>1, <2>2, <2>3, OwnFailure, OneReply
<1>3. CASE Sends(l, "method", "none", "greeted") \/ Sends(l, "reply4", "none", "request4")
  <2>1. /\ Wrote(l)
        /\ \/ xpc'[l] = "method"
           \/ xpc'[l] = "reply4" /\ srv'[l] = "request4"
           \/ xpc'[l] = "failed" /\ why'[l] = "broken pipe"
    BY <1>1, <1>3, SendsAt
  <2>2. Exact(l)'
    BY <1>1, <2>1, OwnErrors DEF Exact
  <2> QED
    BY <1>1, <2>1, <2>2, OneReply
<1> QED
  BY <1>2, <1>3, RepliesAssumption DEF Begin

\* A read of k bytes of a reply of n, by either reader.
LEMMA TookAt ==
    ASSUME ExchangeInv, RelayTypes, ReplyInv, NEW l \in Links, NEW n \in Nat, n > 0,
           NEW k \in Reads(l, n), Took(l, k), Whole(l, k, n), UNCHANGED <<reader, gone, left>>
    PROVE  /\ Heard(l)
           /\ k \in 1 .. n /\ k \in 0 .. Len(stream[l]) /\ Len(stream[l]) \in Nat
           /\ stream'[l] = SubSeq(stream[l], k + 1, Len(stream[l]))
           /\ Len(stream'[l]) = Len(stream[l]) - k
           /\ ~cut'[l] => ~cut[l] /\ k = n
           /\ reader' = "full" => ~cut'[l]
<1>1. k \in 1 .. n /\ k \in 0 .. Len(stream[l]) /\ Len(stream[l]) \in Nat
  BY ReadsWhat DEF ExchangeInv
<1>2. Len(stream'[l]) = Len(stream[l]) - k /\ \A d \in Links \ {l} : stream'[d] = stream[d]
  BY <1>1, TookWhat DEF ExchangeInv
<1>3. stream'[l] = SubSeq(stream[l], k + 1, Len(stream[l]))
  BY DEF Took, ExchangeInv, ExchangeTypes
<1>4. /\ cut' \in [Links -> BOOLEAN] /\ (cut'[l] <=> cut[l] \/ k < n)
      /\ \A d \in Links \ {l} : cut'[d] = cut[d]
  BY DEF Whole, ReplyInv, ReplyTypes
<1>5. Heard(l)
  BY <1>2, <1>4 DEF Heard
<1>6. ~cut'[l] => ~cut[l] /\ k = n
  BY <1>1, <1>4
<1>7. reader = "full" => ~cut[l] /\ k = n
  BY DEF ReplyInv, Exact, Reads
<1>8. reader' = "full" => ~cut'[l]
  BY <1>1, <1>4, <1>7
<1> QED
  BY <1>1, <1>2, <1>3, <1>5, <1>6, <1>8

\* A reply to the greeting or the credentials is taken; CONNECT is sent where
\* nothing is left, or the exchange ends with an error of the client's own.
LEMMA NextMessage ==
    ASSUME ExchangeInv, RelayTypes, ReplyInv, NEW l \in Links, NEW k \in Reads(l, 2),
           xpc[l] \in {"method", "auth"},
           Took(l, k), Whole(l, k, 2), UNCHANGED <<reader, gone, left>>,
           \/ \E err \in AuthFailures \cup {NotASocksServer} : Fails(l, err)
           \/ Sends(l, "auth", "authenticating", "auth")
           \/ SendConnect(l)
    PROVE  ReplyInv'
<1>1. /\ Heard(l)
      /\ k \in 0 .. Len(stream[l]) /\ Len(stream[l]) \in Nat
      /\ Len(stream'[l]) = Len(stream[l]) - k
      /\ ~cut'[l] => k = 2
      /\ reader' = "full" => ~cut'[l]
  BY TookAt
<1>2. CASE \E err \in AuthFailures \cup {NotASocksServer} : Fails(l, err)
  <2>1. PICK err \in AuthFailures \cup {NotASocksServer} : Fails(l, err)
    BY <1>2
  <2>2. Wrote(l) /\ xpc'[l] = "failed" /\ why'[l] = err
    BY <2>1, FailsAt
  <2>3. err \notin SocksReplies
    BY OwnErrors
  <2> QED
    BY <1>1, <2>2, <2>3, OwnFailure, OneReply
<1>3. CASE Sends(l, "auth", "authenticating", "auth") \/ SendConnect(l)
  <2>1. /\ Wrote(l)
        /\ \/ xpc'[l] = "auth"
           \/ xpc'[l] = "connect" /\ srv'[l] \in {"request", "confused"}
           \/ xpc'[l] = "failed" /\ why'[l] = "broken pipe"
    BY <1>3, SendsAt DEF SendConnect
  <2>2. ~cut'[l] => Len(stream'[l]) = 0
    <3>1. Len(stream[l]) <= 2
      BY DEF ExchangeInv, Granted
    <3> QED
      BY <1>1, <3>1
  <2>3. Exact(l)'
    BY <1>1, <2>1, <2>2, OwnErrors DEF Exact
  <2> QED
    BY <1>1, <2>1, <2>3, OneReply
<1> QED
  BY <1>2, <1>3

LEMMA ReadMethodExact ==
    ASSUME ExchangeInv, RelayTypes, ReplyInv, NEW l \in Links, ReadMethod(l) \/ ReadAuth(l)
    PROVE  ReplyInv'
<1>1. CASE ReadMethod(l)
  <2>1. PICK k \in Reads(l, 2) :
            /\ Took(l, k) /\ Whole(l, k, 2)
            /\ CASE Byte(l, k, 1) # 5 -> Fails(l, NotASocksServer)
                 [] Byte(l, k, 1) = 5 /\ Byte(l, k, 2) = 255
                      -> Fails(l, "no acceptable auth method")
                 [] Byte(l, k, 1) = 5 /\ Byte(l, k, 2) = 2 /\ ~via[l].user
                      -> Fails(l, "auth required but no credentials")
                 [] Byte(l, k, 1) = 5 /\ Byte(l, k, 2) = 2 /\ via[l].user
                      -> Sends(l, "auth", "authenticating", "auth")
                 [] OTHER -> SendConnect(l)
    BY <1>1 DEF ReadMethod
  <2>2. xpc[l] = "method" /\ UNCHANGED <<reader, gone, left>>
    BY <1>1 DEF ReadMethod
  <2>3. \/ \E err \in AuthFailures \cup {NotASocksServer} : Fails(l, err)
        \/ Sends(l, "auth", "authenticating", "auth")
        \/ SendConnect(l)
    BY <2>1 DEF AuthFailures
  <2> QED
    BY <2>1, <2>2, <2>3, NextMessage
<1>2. CASE ReadAuth(l)
  <2>1. PICK k \in Reads(l, 2) :
            /\ Took(l, k) /\ Whole(l, k, 2)
            /\ Fails(l, "authentication failed") \/ SendConnect(l)
    BY <1>2 DEF ReadAuth
  <2>2. xpc[l] = "auth" /\ UNCHANGED <<reader, gone, left>>
    BY <1>2 DEF ReadAuth
  <2>3. \/ \E err \in AuthFailures \cup {NotASocksServer} : Fails(l, err)
        \/ SendConnect(l)
    BY <2>1 DEF AuthFailures
  <2> QED
    BY <2>1, <2>2, <2>3, NextMessage
<1> QED
  BY <1>1, <1>2

\* A refusal that the client reads in answer to a whole exchange is the proxy's.
LEMMA RefusalAt ==
    ASSUME ExchangeInv, ReplyInv, NEW l \in Links, xpc[l] = "connect", ~cut[l],
           Len(stream[l]) \in Nat, Len(stream[l]) >= 2, stream[l][2] # 0
    PROVE  srv[l] = "denied"
<1>1. srv[l] \in {"request", "confused", "tunnel", "denied"}
  BY DEF ExchangeInv, Granted
<1>2. srv[l] \notin {"request", "confused"}
  BY DEF ReplyInv, Exact
<1>3. srv[l] # "tunnel"
  BY DEF ReplyInv, Exact, Opened
<1> QED
  BY <1>1, <1>2, <1>3

LEMMA ReadConnectOnceExact ==
    ASSUME ExchangeInv, RelayTypes, ReplyInv, NEW l \in Links, ReadConnectOnce(l)
    PROVE  ReplyInv'
<1>1. PICK k \in 1 .. Len(stream[l]) :
          /\ Took(l, k) /\ Whole(l, k, Len(stream[l]))
          /\ \/ Fails(l, "no CONNECT response")
             \/ k >= 2 /\ Byte(l, k, 2) # 0 /\ Fails(l, ReplyText(Byte(l, k, 2)))
             \/ k >= 2 /\ Byte(l, k, 2) = 0 /\ Succeeds(l, NoError)
  <2>1. PICK k \in 1 .. Len(stream[l]) :
            /\ Took(l, k) /\ Whole(l, k, Len(stream[l]))
            /\ CASE k < 2 -> Fails(l, "no CONNECT response")
                 [] k >= 2 /\ Byte(l, k, 2) # 0 -> Fails(l, ReplyText(Byte(l, k, 2)))
                 [] k >= 2 /\ Byte(l, k, 2) = 0 -> Succeeds(l, NoError)
    BY DEF ReadConnectOnce
  <2>2. Len(stream[l]) \in Nat
    BY DEF ExchangeInv, ExchangeTypes
  <2>3. k < 2 \/ k >= 2
    BY <2>2
  <2> QED
    BY <2>1, <2>3
<1>2. xpc[l] = "connect" /\ reader = "once" /\ UNCHANGED <<reader, gone, left>>
  BY DEF ReadConnectOnce
<1>3. Len(stream[l]) \in Nat /\ k \in 0 .. Len(stream[l])
  <2>1. Len(stream[l]) \in Nat
    BY DEF ExchangeInv, ExchangeTypes
  <2> QED
    BY <2>1
<1>4. Heard(l) /\ (~cut'[l] => ~cut[l]) /\ (reader' = "full" => ~cut'[l])
  <2>1. \A d \in Links \ {l} : stream'[d] = stream[d]
    BY <1>1, <1>3, TookWhat DEF ExchangeInv
  <2> QED
    BY <1>1, <1>2, <2>1 DEF Heard, Whole, ReplyInv, ReplyTypes
<1>5. CASE Fails(l, "no CONNECT response")
  <2>1. Wrote(l) /\ xpc'[l] = "failed" /\ why'[l] = "no CONNECT response"
    BY <1>5, FailsAt
  <2> QED
    BY <1>4, <2>1, OwnErrors, OwnFailure, OneReply
<1>6. CASE k >= 2 /\ Byte(l, k, 2) # 0 /\ Fails(l, ReplyText(Byte(l, k, 2)))
  <2>2. Wrote(l) /\ xpc'[l] = "failed" /\ srv'[l] = srv[l]
    BY <1>6, FailsAt
  <2>3. Len(stream[l]) >= 2 /\ stream[l][2] # 0
    BY <1>3, <1>6 DEF Byte
  <2>4. ~cut'[l] => srv'[l] = "denied"
    BY <1>2, <1>3, <1>4, <2>2, <2>3, RefusalAt
  <2>5. Exact(l)'
    BY <1>4, <2>2, <2>4 DEF Exact
  <2> QED
    BY <1>4, <2>2, <2>5, OneReply
<1>7. CASE k >= 2 /\ Byte(l, k, 2) = 0 /\ Succeeds(l, NoError)
  <2>2. Wrote(l) /\ xpc'[l] = "ok"
    BY <1>7, SucceedsAt
  <2>3. Exact(l)'
    BY <1>2, <1>4, <2>2 DEF Exact
  <2> QED
    BY <1>4, <2>2, <2>3, OneReply
<1> QED
  BY <1>1, <1>5, <1>6, <1>7

LEMMA ReadConnectFullExact ==
    ASSUME ExchangeInv, RelayTypes, ReplyInv, NEW l \in Links, ReadConnectFull(l)
    PROVE  ReplyInv'
<1> DEFINE s == stream[l]
           n == BoundLength(s[4])
<1>1. PICK k \in Reads(l, 4) :
          /\ Took(l, k) /\ left' = [left EXCEPT ![l] = BoundLength(Byte(l, k, 4))]
          /\ IF Byte(l, k, 2) # 0 THEN Fails(l, ReplyText(Byte(l, k, 2)))
             ELSE IF left'[l] = 0 THEN Succeeds(l, "unknown address type")
             ELSE xpc' = [xpc EXCEPT ![l] = "bound"] /\ UNCHANGED <<srv, why>>
  BY DEF ReadConnectFull
<1>2. xpc[l] = "connect" /\ reader = "full" /\ UNCHANGED <<reader, gone, cut>> /\ ~cut[l]
  BY DEF ReadConnectFull, ReplyInv, Exact
<1>3. k = 4 /\ Len(s) \in Nat /\ Len(s) >= 4 /\ k \in 0 .. Len(s) /\ s \in Seq(Nat)
  BY <1>2, ReadsWhat DEF Reads, ExchangeInv, ExchangeTypes
<1>4. Byte(l, k, 2) = s[2] /\ Byte(l, k, 4) = s[4]
  BY <1>3 DEF Byte
<1>5. /\ left'[l] = n
      /\ \A d \in Links \ {l} : stream'[d] = stream[d] /\ left'[d] = left[d]
      /\ stream'[l] = SubSeq(s, 5, Len(s)) /\ Len(stream'[l]) = Len(s) - 4
  <2>1. /\ Len(stream'[l]) = Len(s) - k
        /\ \A d \in Links \ {l} : stream'[d] = stream[d]
    BY <1>1, <1>3, TookWhat DEF ExchangeInv
  <2>2. stream'[l] = SubSeq(s, k + 1, Len(s))
    BY <1>1 DEF Took, ExchangeInv, ExchangeTypes
  <2>3. k + 1 = 5
    BY <1>3
  <2>4. left'[l] = n /\ \A d \in Links \ {l} : left'[d] = left[d]
    BY <1>1, <1>4 DEF RelayTypes
  <2> QED
    BY <1>3, <2>1, <2>2, <2>3, <2>4
<1>6. Heard(l) /\ ~cut'[l]
  BY <1>2, <1>5 DEF Heard, ReplyInv, ReplyTypes
<1>7. CASE s[2] # 0
  <2>1. Fails(l, ReplyText(Byte(l, k, 2)))
    BY <1>1, <1>4, <1>7
  <2>2. Wrote(l) /\ xpc'[l] = "failed" /\ srv'[l] = srv[l]
    BY <2>1, FailsAt
  <2>3. Len(s) >= 2
    BY <1>3
  <2>4. srv[l] = "denied"
    BY <1>2, <1>3, <1>7, <2>3, RefusalAt
  <2>5. Exact(l)'
    BY <1>6, <2>2, <2>4 DEF Exact
  <2> QED
    BY <1>6, <2>2, <2>5, OneReply
<1>8. CASE s[2] = 0 /\ n = 0
  <2>1. Succeeds(l, "unknown address type")
    BY <1>1, <1>4, <1>5, <1>8
  <2>2. Wrote(l) /\ xpc'[l] = "ok" /\ why'[l] = "unknown address type"
    BY <2>1, SucceedsAt
  <2>3. Exact(l)'
    BY <1>6, <2>2, OwnErrors DEF Exact
  <2> QED
    BY <1>6, <2>2, <2>3, OneReply
<1>9. CASE s[2] = 0 /\ n # 0
  <2>1. xpc' = [xpc EXCEPT ![l] = "bound"] /\ UNCHANGED <<srv, why>>
    BY <1>1, <1>4, <1>5, <1>9
  <2>2. Wrote(l) /\ xpc'[l] = "bound"
    BY <2>1 DEF Wrote, ExchangeInv, ExchangeTypes, ReplyInv, ReplyTypes
  <2>3. srv[l] = "tunnel"
    <3>1. srv[l] \in {"request", "confused", "tunnel", "denied"}
      BY <1>2 DEF ExchangeInv, Granted
    <3>2. srv[l] \notin {"request", "confused"}
      BY <1>2, <1>3 DEF ReplyInv, Exact
    <3>3. Len(s) >= 2
      BY <1>3
    <3>4. srv[l] # "denied"
      BY <1>2, <1>9, <3>3 DEF ExchangeInv, Granted
    <3> QED
      BY <3>1, <3>2, <3>4
  <2>4. Opened(s, gone[l])
    BY <1>2, <2>3 DEF ReplyInv, Exact
  <2>5. DataBehind(s, 4 + n) /\ (gone[l] \/ Len(s) >= 4 + n) /\ n \in Nat
    BY <1>3, <1>9, <2>4, BoundLengthIs DEF Opened, Begins
  <2> HIDE DEF s, n
  <2>6. DataBehind(SubSeq(s, 5, Len(s)), n)
    <3>1. 4 \in 0 .. Len(s) /\ 4 + n \in Nat /\ n + 4 >= 4 + n /\ 4 + 1 = 5
      BY <1>3, <2>5
    <3>2. DataBehind(SubSeq(s, 4 + 1, Len(s)), n)
      BY <1>3, <2>5, <3>1, BehindRest
    <3> QED
      BY <3>1, <3>2
  <2>7. gone[l] \/ Len(stream'[l]) >= n
    BY <1>3, <1>5, <2>5
  <2>8. Begins(stream'[l], left'[l], gone'[l])
    BY <1>2, <1>5, <2>6, <2>7 DEF Begins
  <2>9. Exact(l)'
    BY <1>6, <2>2, <2>8 DEF Exact
  <2> QED
    BY <1>6, <2>2, <2>9, OneReply
<1> QED
  BY <1>7, <1>8, <1>9

LEMMA ReadBoundExact ==
    ASSUME ExchangeInv, RelayTypes, ReplyInv, NEW l \in Links, ReadBound(l)
    PROVE  ReplyInv'
<1> DEFINE s == stream[l]
<1>1. PICK k \in Reads(l, left[l]) : Took(l, k)
  BY DEF ReadBound
<1>2. /\ xpc[l] = "bound" /\ UNCHANGED <<reader, gone, cut>> /\ Succeeds(l, NoError)
      /\ left' = [left EXCEPT ![l] = 0]
      /\ s \in Seq(Nat) /\ Len(s) \in Nat
  BY DEF ReadBound, ExchangeInv, ExchangeTypes
<1>3. k \in 0 .. Len(s)
  <2>1. left[l] \in Nat
    BY DEF RelayTypes
  <2> QED
    BY <1>2, <2>1 DEF Reads, Shorter
<1>4. /\ stream'[l] = SubSeq(s, k + 1, Len(s))
      /\ \A d \in Links \ {l} : stream'[d] = stream[d]
  BY <1>1, <1>3, TookWhat DEF Took, ExchangeInv, ExchangeTypes
<1>5. Heard(l) /\ (reader' = "full" => ~cut'[l])
  BY <1>2, <1>4 DEF Heard, RelayTypes, ReplyInv, ReplyTypes, Exact
<1>6. Wrote(l) /\ xpc'[l] = "ok"
  BY <1>2, SucceedsAt
<1>7. reader = "full" => DataBehind(stream'[l], 0)
  <2> SUFFICES ASSUME reader = "full" PROVE DataBehind(stream'[l], 0)
    OBVIOUS
  <2>1. k = left[l] /\ left[l] \in Nat
    BY DEF Reads, RelayTypes
  <2>2. DataBehind(s, left[l])
    BY <1>2 DEF ReplyInv, Exact, Begins
  <2>3. 0 + k >= left[l]
    BY <2>1
  <2> HIDE DEF s
  <2> QED
    BY <1>2, <1>3, <1>4, <2>1, <2>2, <2>3, BehindRest
<1>8. Exact(l)'
  BY <1>2, <1>5, <1>6, <1>7 DEF Exact
<1> QED
  BY <1>5, <1>6, <1>8, OneReply

LEMMA ReadReply4Exact ==
    ASSUME ExchangeInv, RelayTypes, ReplyInv, NEW l \in Links, ReadReply4(l)
    PROVE  ReplyInv'
<1> DEFINE s == stream[l]
<1>1. PICK k \in Reads(l, 3) :
          /\ Took(l, k) /\ Whole(l, k, 3)
          /\ \/ Byte(l, k, 2) = 90 /\ Succeeds(l, NoError)
             \/ Byte(l, k, 2) # 90 /\ \E err : Fails(l, err)
  <2>1. PICK k \in Reads(l, 3) :
            /\ Took(l, k) /\ Whole(l, k, 3)
            /\ CASE Byte(l, k, 2) = 90 -> Succeeds(l, NoError)
                 [] Byte(l, k, 2) = 91 -> Fails(l, "request rejected")
                 [] OTHER              -> Fails(l, "SOCKS4 code")
    BY DEF ReadReply4
  <2>2. CASE Byte(l, k, 2) = 90
    <3>1. Byte(l, k, 2) # 91
      BY <2>2
    <3>2. Succeeds(l, NoError)
      BY <2>1, <2>2, <3>1
    <3> QED
      BY <2>1, <2>2, <3>2
  <2>3. CASE Byte(l, k, 2) # 90
    <3>1. Fails(l, "request rejected") \/ Fails(l, "SOCKS4 code")
      BY <2>1, <2>3
    <3> QED
      BY ZenonT(30), <2>1, <2>3, <3>1
  <2> QED
    BY <2>2, <2>3
<1>2. xpc[l] = "reply4" /\ UNCHANGED <<reader, gone, left>> /\ s \in Seq(Nat)
  BY DEF ReadReply4, ExchangeInv, ExchangeTypes
<1>3. /\ Heard(l)
      /\ k \in 1 .. 3 /\ k \in 0 .. Len(s) /\ Len(s) \in Nat
      /\ stream'[l] = SubSeq(s, k + 1, Len(s))
      /\ ~cut'[l] => ~cut[l] /\ k = 3
      /\ reader' = "full" => ~cut'[l]
  <2>1. 3 \in Nat /\ 3 > 0
    OBVIOUS
  <2> QED
    BY <1>1, <1>2, <2>1, TookAt
<1>4. srv[l] \in {"tunnel", "denied"}
  <2>1. srv[l] \in {"request4", "tunnel", "denied"} /\ (srv[l] = "request4" => Len(s) = 0)
    BY <1>2 DEF ExchangeInv, Granted
  <2>2. Len(s) # 0
    BY <1>3
  <2> QED
    BY <2>1, <2>2
<1>5. CASE Byte(l, k, 2) = 90 /\ Succeeds(l, NoError)
  <2>1. Wrote(l) /\ xpc'[l] = "ok" /\ why'[l] = NoError
    BY <1>5, SucceedsAt
  <2>2. Len(s) >= 2 /\ s[2] = 90
    BY <1>3, <1>5 DEF Byte
  <2>3. srv[l] = "tunnel"
    BY <1>2, <1>4, <2>2 DEF ExchangeInv, Granted
  <2>4. ~cut'[l] => DataBehind(stream'[l], 0)
    <3> SUFFICES ASSUME ~cut'[l] PROVE DataBehind(stream'[l], 0)
      OBVIOUS
    <3>1. DataBehind(s, 3)
      BY <1>2, <1>3, <2>3 DEF ReplyInv, Exact, Begins
    <3>2. 0 + k >= 3
      BY <1>3
    <3>3. s \in Seq(Nat) /\ k \in 0 .. Len(s) /\ 0 \in Nat /\ 3 \in Nat
      BY <1>2, <1>3
    <3> HIDE DEF s
    <3>4. DataBehind(SubSeq(s, k + 1, Len(s)), 0)
      BY <3>1, <3>2, <3>3, BehindRest
    <3> QED
      BY <1>3, <3>4
  <2>5. Exact(l)'
    BY <1>3, <2>1, <2>4 DEF Exact
  <2> QED
    BY <1>3, <2>1, <2>5, OneReply
<1>6. CASE Byte(l, k, 2) # 90 /\ \E err : Fails(l, err)
  <2>1. PICK err : Fails(l, err)
    BY <1>6
  <2>2. Wrote(l) /\ xpc'[l] = "failed" /\ srv'[l] = srv[l]
    BY <2>1, FailsAt
  <2>3. ~cut'[l] => srv[l] = "denied"
    <3> SUFFICES ASSUME ~cut'[l], srv[l] = "tunnel" PROVE FALSE
      BY <1>4
    <3>1. k = 3 /\ Len(s) >= 2 /\ s[2] # 90
      BY <1>3, <1>6 DEF Byte
    <3> QED
      BY <1>2, <1>3, <3>1 DEF ReplyInv, Exact
  <2>4. Exact(l)'
    BY <1>3, <2>2, <2>3 DEF Exact
  <2> QED
    BY <1>3, <2>2, <2>4, OneReply
<1> QED
  BY <1>1, <1>5, <1>6

\* A read that ends in error gives no refusal; the error of a drain is kept.
LEMMA ErrorExact ==
    ASSUME ExchangeInv, ReplyInv, NEW l \in Links, NEW err \in {"EOF", HandshakeTimeout},
           ReadError(l, err), Heard(l), UNCHANGED cut
    PROVE  ReplyInv'
<1>1. reader' = "full" => ~cut'[l]
  BY DEF Heard, ReplyInv, Exact
<1>2. CASE xpc[l] = "bound"
  <2>1. Wrote(l) /\ xpc'[l] = "ok" /\ why'[l] = err
    BY <1>2, SucceedsAt DEF ReadError
  <2>2. Exact(l)'
    BY <1>1, <2>1, OwnErrors DEF Exact
  <2> QED
    BY <2>1, <2>2, OneReply
<1>3. CASE xpc[l] # "bound"
  <2>1. PICK e \in {"EOF", HandshakeTimeout, "no CONNECT response"} : Fails(l, e)
    BY <1>3 DEF ReadError
  <2>2. Wrote(l) /\ xpc'[l] = "failed" /\ why'[l] = e
    BY <2>1, FailsAt
  <2> QED
    BY <1>1, <2>2, OwnErrors, OwnFailure, OneReply
<1> QED
  BY <1>2, <1>3

LEMMA ReadEndsExact ==
    ASSUME ExchangeInv, RelayTypes, ReplyInv, NEW l \in Links, ReadEOF(l) \/ Expire(l)
    PROVE  ReplyInv'
<1>1. CASE ReadEOF(l)
  <2>1. Len(stream[l]) \in 0 .. Len(stream[l])
    BY DEF ExchangeInv, ExchangeTypes
  <2>2. \A d \in Links \ {l} : stream'[d] = stream[d]
    BY <1>1, <2>1, TookWhat DEF ExchangeInv, ReadEOF
  <2>3. Heard(l)
    BY <1>1, <2>2 DEF ReadEOF, Heard, ReplyInv, ReplyTypes
  <2> QED
    BY <1>1, <2>3, ErrorExact DEF ReadEOF
<1>2. CASE Expire(l)
  BY <1>2, ErrorExact DEF Expire, Heard, ReplyInv, ReplyTypes
<1> QED
  BY <1>1, <1>2

LEMMA CloseExact ==
    ASSUME ExchangeInv, RelayTypes, ReplyInv, NEW l \in Links, Close(l) PROVE ReplyInv'
<1>1. Wrote(l) /\ Heard(l)
  BY DEF Close, Wrote, Heard, ExchangeInv, ExchangeTypes, RelayTypes, ReplyInv, ReplyTypes
<1>2. xpc'[l] = "closed" /\ ~cut'[l] /\ Len(stream'[l]) = 0
  <2>1. Len(<<>>) = 0
    OBVIOUS
  <2> QED
    BY <2>1 DEF Close, ExchangeInv, ExchangeTypes, ReplyInv, ReplyTypes
<1>3. Exact(l)'
  BY <1>2 DEF Exact
<1> QED
  BY <1>1, <1>3, OneReply

-----------------------------------------------------------------------------
(* The proxy and the target *)

\* An answer of the proxy's: only a grant has to be exact, and it arrives where
\* nothing was left.
LEMMA AnswerExact ==
    ASSUME ExchangeInv, RelayTypes, ReplyInv, NEW l \in Links,
           UNCHANGED <<reader, xpc, gone, cut, left, why>>,
           NEW r \in Seq(Nat), NEW to, Says(l, r, to),
           \/ xpc[l] \in {"method", "auth"}
           \/ xpc[l] \in {"connect", "reply4"} /\ to = "denied"
           \/ /\ xpc[l] = "connect" /\ srv[l] = "request" /\ to = "tunnel"
              /\ \A broken : Opened(r, broken)
           \/ xpc[l] = "reply4" /\ Len(stream[l]) = 0 /\ Len(r) = 3 /\ r[2] = 90
    PROVE  ReplyInv'
<1>1. /\ srv'[l] = to /\ stream'[l] = stream[l] \o r
      /\ \A d \in Links \ {l} : srv'[d] = srv[d] /\ stream'[d] = stream[d]
  BY SaysWhat DEF ExchangeInv
<1>2. Wrote(l) /\ Heard(l) /\ (reader' = "full" => ~cut'[l])
  BY <1>1 DEF Wrote, Heard, ReplyInv, ReplyTypes, Exact
<1>3. ASSUME Len(stream[l]) = 0 PROVE stream'[l] = r
  <2>1. stream[l] \in Seq(Nat)
    BY DEF ExchangeInv, ExchangeTypes
  <2>2. stream[l] = <<>>
    BY <1>3, <2>1
  <2>3. <<>> \o r = r
    BY ConcatEmptySeq
  <2> QED
    BY <1>1, <2>2, <2>3
<1>4. CASE xpc[l] \in {"method", "auth"}
  <2>1. Exact(l)'
    BY <1>2, <1>4 DEF Exact
  <2> QED
    BY <1>2, <2>1, OneReply
<1>5. CASE xpc[l] \in {"connect", "reply4"} /\ to = "denied"
  <2>1. Exact(l)'
    BY <1>1, <1>2, <1>5 DEF Exact
  <2> QED
    BY <1>2, <2>1, OneReply
<1>6. CASE /\ xpc[l] = "connect" /\ srv[l] = "request" /\ to = "tunnel"
           /\ \A broken : Opened(r, broken)
  <2>1. ~cut'[l] => stream'[l] = r
    BY <1>3, <1>6 DEF ReplyInv, Exact
  <2>2. ~cut'[l] => Opened(stream'[l], gone'[l])
    BY <1>6, <2>1
  <2>3. Exact(l)'
    BY <1>1, <1>2, <1>6, <2>2 DEF Exact
  <2> QED
    BY <1>2, <2>3, OneReply
<1>7. CASE xpc[l] = "reply4" /\ Len(stream[l]) = 0 /\ Len(r) = 3 /\ r[2] = 90
  <2>1. stream'[l] = r
    BY <1>3, <1>7
  <2>2. Begins(r, 3, gone'[l])
    <3>1. 3 + 1 .. Len(r) = {}
      BY <1>7
    <3>2. Len(r) >= 3
      BY <1>7
    <3> QED
      BY <3>1, <3>2 DEF Begins, DataBehind
  <2>3. Exact(l)'
    BY <1>2, <1>7, <2>1, <2>2 DEF Exact
  <2> QED
    BY <1>2, <2>3, OneReply
<1> QED
  BY <1>4, <1>5, <1>6, <1>7

LEMMA ServerAnswersExact ==
    ASSUME ExchangeInv, RelayTypes, ReplyInv, NEW l \in Links, ServerAnswers(l)
    PROVE  ReplyInv'
<1>1. UNCHANGED <<reader, xpc, gone, cut, left, why>> /\ Waiting(l) /\ Granted(l)
  BY DEF ServerAnswers, ExchangeInv
<1>2. /\ srv[l] = "greeted" => xpc[l] = "method"
      /\ srv[l] = "auth" => xpc[l] = "auth"
      /\ srv[l] \in {"request", "confused"} => xpc[l] = "connect"
      /\ srv[l] = "request4" => xpc[l] = "reply4" /\ Len(stream[l]) = 0
  BY <1>1 DEF Granted, Waiting
<1>3. ASSUME NEW r \in MethodReplies, NEW to, srv[l] = "greeted", Says(l, r, to)
      PROVE  ReplyInv'
  <2>1. r \in Seq(Nat)
    BY RepliesAssumption
  <2> QED
    BY <1>1, <1>2, <1>3, <2>1, AnswerExact
<1>4. ASSUME srv[l] = "auth", NEW r \in {<<1, 0>>, <<1, 1>>}, NEW to, Says(l, r, to)
      PROVE  ReplyInv'
  <2>1. <<1, 0>> \in Seq(Nat) /\ <<1, 1>> \in Seq(Nat)
    OBVIOUS
  <2> QED
    BY <1>1, <1>2, <1>4, <2>1, AnswerExact
<1>5. ASSUME NEW r \in ConnectReplies, srv[l] \in {"request", "confused"}, Says(l, r, "denied")
      PROVE  ReplyInv'
  <2>1. r \in Seq(Nat)
    BY RepliesAssumption
  <2> QED
    BY <1>1, <1>2, <1>5, <2>1, AnswerExact
<1>6. ASSUME NEW r \in ConnectReplies, srv[l] = "request", r[2] = 0, Says(l, r, "tunnel")
      PROVE  ReplyInv'
  <2>1. r \in Seq(Nat)
    BY RepliesAssumption
  <2>2. \A broken : Opened(r, broken)
    BY <1>6, ReplyOpens
  <2> QED
    BY <1>1, <1>2, <1>6, <2>1, <2>2, AnswerExact
<1>7. ASSUME NEW c \in Socks4Codes, srv[l] = "request4",
             NEW to, to = "denied" \/ c = 90, Says(l, <<0, c, 9>>, to)
      PROVE  ReplyInv'
  <2> DEFINE r == <<0, c, 9>>
  <2>1. r \in Seq(Nat) /\ Len(r) = 3 /\ r[2] = c
    BY RepliesAssumption
  <2>2. Says(l, r, to)
    BY <1>7
  <2> HIDE DEF r
  <2> QED
    BY <1>1, <1>2, <1>7, <2>1, <2>2, AnswerExact
<1>8. \/ srv[l] = "greeted" /\ \E r \in MethodReplies : \E to : Says(l, r, to)
      \/ srv[l] = "auth" /\ \E r \in {<<1, 0>>, <<1, 1>>} : \E to : Says(l, r, to)
      \/ /\ srv[l] \in {"request", "confused"}
         /\ \E r \in ConnectReplies : Says(l, r, "denied")
      \/ /\ srv[l] = "request"
         /\ \E r \in ConnectReplies : r[2] = 0 /\ Says(l, r, "tunnel")
      \/ /\ srv[l] = "request4"
         /\ \E c \in Socks4Codes : \E to : /\ to = "denied" \/ c = 90
                                           /\ Says(l, <<0, c, 9>>, to)
  BY DEF ServerAnswers
<1> QED
  BY <1>3, <1>4, <1>5, <1>6, <1>7, <1>8

LEMMA BreakExact ==
    ASSUME ExchangeInv, RelayTypes, ReplyInv, NEW l \in Links, Break(l) PROVE ReplyInv'
<1>1. PICK k \in 0 .. Len(stream[l]) :
          stream' = [stream EXCEPT ![l] = SubSeq(@, 1, k)]
  BY DEF Break
<1> DEFINE s == stream[l]
           t == SubSeq(s, 1, k)
<1>2. s \in Seq(Nat) /\ Len(s) \in Nat /\ k \in 0 .. Len(s) /\ Waiting(l) /\ Exact(l)
  BY <1>1 DEF ExchangeInv, ExchangeTypes, Break, ReplyInv
<1>3. t \in Seq(Nat) /\ Len(t) = k /\ \A i \in 1 .. k : t[i] = s[i]
  BY <1>2, Start
<1>4. /\ UNCHANGED <<xpc, srv, reader, cut, left, why>> /\ stream'[l] = t /\ gone'[l] = TRUE
      /\ Wrote(l) /\ Heard(l)
  BY <1>1 DEF Break, ExchangeInv, ExchangeTypes, RelayTypes, ReplyInv, ReplyTypes, Wrote, Heard
<1>5. \A n \in Nat : DataBehind(s, n) => DataBehind(t, n)
  <2> SUFFICES ASSUME NEW n \in Nat, DataBehind(s, n) PROVE DataBehind(t, n)
    OBVIOUS
  <2> HIDE DEF s
  <2> QED
    BY <1>2, BehindStart
<1>6. Opened(s, gone[l]) => Opened(t, TRUE)
  <2> HIDE DEF s
  <2> QED
    BY <1>2, OpenedStart
<1> HIDE DEF s, t
<1>7. Len(s) = 0 => Len(t) = 0
  BY <1>2, <1>3
<1>8. Len(t) >= 2 => Len(s) >= 2 /\ t[2] = s[2]
  <2> SUFFICES ASSUME Len(t) >= 2 PROVE Len(s) >= 2 /\ t[2] = s[2]
    OBVIOUS
  <2>1. k \in Nat /\ k >= 2 /\ Len(s) >= 2
    BY <1>2, <1>3
  <2> QED
    BY <1>3, <2>1
<1>9. \A n \in Nat : Begins(s, n, gone[l]) => Begins(t, n, TRUE)
  BY <1>5 DEF Begins
<1>10. left[l] \in Nat /\ 3 \in Nat
  BY DEF RelayTypes
<1>11. reader' = "full" => ~cut'[l]
  BY <1>2, <1>4 DEF Exact
<1>12. CASE xpc[l] \in {"method", "auth"}
  BY <1>4, <1>11, <1>12, OneReply DEF Exact
<1>13. CASE xpc[l] = "connect"
  <2>1. Exact(l)'
    BY <1>2, <1>4, <1>6, <1>7, <1>11, <1>13 DEF Exact, s
  <2> QED
    BY <1>4, <2>1, OneReply
<1>14. CASE xpc[l] = "reply4"
  <2>1. Exact(l)'
    BY <1>2, <1>4, <1>8, <1>9, <1>10, <1>11, <1>14 DEF Exact, s
  <2> QED
    BY <1>4, <2>1, OneReply
<1>15. CASE xpc[l] = "bound"
  <2>1. Exact(l)'
    BY <1>2, <1>4, <1>9, <1>10, <1>11, <1>15 DEF Exact, s
  <2> QED
    BY <1>4, <2>1, OneReply
<1> QED
  BY <1>2, <1>12, <1>13, <1>14, <1>15 DEF Waiting

\* The target sends: its byte comes behind what is there.
LEMMA TargetSendsExact ==
    ASSUME ExchangeInv, RelayTypes, ReplyInv, NEW l \in RelayLinks, TargetSends(l)
    PROVE  ReplyInv'
<1> DEFINE s == stream[l]
           t == Append(s, Data)
<1>1. l \in Links /\ left[l] \in Nat
  BY RelayAssumption DEF RelayTypes
<1>2. s \in Seq(Nat) /\ Exact(l)
  BY <1>1 DEF ExchangeInv, ExchangeTypes, ReplyInv
<1>3. /\ UNCHANGED <<xpc, srv, reader, cut, left, why, gone>> /\ stream'[l] = t /\ ~gone[l]
      /\ srv[l] = "tunnel" /\ xpc[l] \in {"connect", "bound", "reply4", "ok"}
      /\ Wrote(l) /\ Heard(l)
  BY <1>1 DEF TargetSends, ExchangeInv, ExchangeTypes, ReplyInv, ReplyTypes, Wrote, Heard
<1>4. \A n \in Nat : DataBehind(s, n) => DataBehind(t, n)
  <2> SUFFICES ASSUME NEW n \in Nat, DataBehind(s, n) PROVE DataBehind(t, n)
    OBVIOUS
  <2> HIDE DEF s
  <2> QED
    BY <1>2, BehindMore
<1>5. Opened(s, gone[l]) => Opened(t, gone[l])
  <2> HIDE DEF s
  <2>1. Opened(s, FALSE) => Opened(t, FALSE)
    BY <1>2, OpenedMore
  <2>2. gone[l] \in BOOLEAN => gone[l] = FALSE
    BY <1>3
  <2>3. Opened(s, gone[l]) => Opened(s, FALSE)
    BY <1>3 DEF Opened, Begins
  <2>4. Opened(t, FALSE) => Opened(t, gone[l])
    BY DEF Opened, Begins
  <2> QED
    BY <2>1, <2>3, <2>4
<1>6. /\ Len(s) \in Nat /\ Len(t) = Len(s) + 1
      /\ \A i \in 1 .. Len(s) : t[i] = s[i]
  BY <1>2, OneMoreByte
<1> HIDE DEF s, t
<1>7. \A n \in Nat : Begins(s, n, gone[l]) => Begins(t, n, gone[l])
  <2> SUFFICES ASSUME NEW n \in Nat, Begins(s, n, gone[l]) PROVE Begins(t, n, gone[l])
    OBVIOUS
  <2>1. Len(t) >= n
    BY <1>3, <1>6 DEF Begins
  <2> QED
    BY <1>4, <2>1 DEF Begins
<1>8. reader' = "full" => ~cut'[l]
  BY <1>2, <1>3 DEF Exact
<1>9. CASE xpc[l] = "connect"
  <2>1. Exact(l)'
    BY <1>2, <1>3, <1>5, <1>8, <1>9 DEF Exact, s
  <2> QED
    BY <1>1, <1>3, <2>1, OneReply
<1>10. CASE xpc[l] = "reply4"
  <2>1. ASSUME ~cut[l] PROVE Begins(t, 3, gone[l]) /\ t[2] = 90
    <3>1. Begins(s, 3, gone[l]) /\ (Len(s) >= 2 => s[2] = 90)
      BY <1>2, <1>3, <1>10, <2>1 DEF Exact, s
    <3>2. Len(s) >= 3
      BY <1>3, <3>1 DEF Begins
    <3>3. Len(s) >= 2 /\ 2 \in 1 .. Len(s) /\ 3 \in Nat
      BY <1>6, <3>2
    <3> QED
      BY <1>6, <1>7, <3>1, <3>3
  <2>2. Exact(l)'
    BY <1>3, <1>8, <1>10, <2>1 DEF Exact
  <2> QED
    BY <1>1, <1>3, <2>2, OneReply
<1>11. CASE xpc[l] = "bound"
  <2>1. Exact(l)'
    BY <1>1, <1>2, <1>3, <1>7, <1>8, <1>11 DEF Exact, s
  <2> QED
    BY <1>1, <1>3, <2>1, OneReply
<1>12. CASE xpc[l] = "ok"
  <2>1. 0 \in Nat
    OBVIOUS
  <2>2. Exact(l)'
    BY <1>2, <1>3, <1>4, <1>8, <1>12, <2>1 DEF Exact, s
  <2> QED
    BY <1>1, <1>3, <2>2, OneReply
<1> QED
  BY <1>3, <1>9, <1>10, <1>11, <1>12

LEMMA TargetClosesExact ==
    ASSUME ExchangeInv, RelayTypes, ReplyInv, NEW l \in RelayLinks, TargetCloses(l)
    PROVE  ReplyInv'
<1>1. l \in Links
  BY RelayAssumption
<1>2. /\ UNCHANGED <<xpc, srv, stream, reader, cut, left, why>> /\ xpc[l] = "ok"
      /\ Wrote(l) /\ Heard(l)
  BY <1>1 DEF TargetCloses, RelayTypes, ReplyInv, ReplyTypes, Wrote, Heard
<1>3. Exact(l)'
  BY <1>1, <1>2 DEF Exact, ReplyInv
<1> QED
  BY <1>1, <1>2, <1>3, OneReply

\* A byte is passed on from an open tunnel; behind it there is what was there.
LEMMA CopyDownExact ==
    ASSUME LinkInv, ReplyInv, NEW l \in RelayLinks, CopyDown(l)
    PROVE  /\ ReplyInv'
           /\ reader = "full" /\ why[l] = NoError => Head(stream[l]) = Data
<1> DEFINE s == stream[l]
<1>1. l \in Links
  BY RelayAssumption
<1>2. s \in Seq(Nat) /\ s # <<>> /\ Exact(l)
  BY <1>1 DEF CopyDown, LinkInv, ExchangeInv, ExchangeTypes, ReplyInv
<1>3. Len(s) \in Nat /\ Len(s) # 0 /\ 1 \in 0 .. Len(s)
  BY <1>2, EmptySeq
<1>4. xpc[l] = "ok"
  <2>1. xpc[l] \in {"ok", "closed"}
    BY <1>1 DEF CopyDown, LinkInv, SpliceInv
  <2> QED
    BY <1>2, <1>3, <2>1 DEF Exact
<1>5. /\ UNCHANGED <<xpc, srv, reader, cut, left, why, gone>>
      /\ stream'[l] = SubSeq(s, 1 + 1, Len(s))
      /\ Wrote(l) /\ Heard(l)
  <2>1. \A d \in Links \ {l} : stream'[d] = stream[d]
    BY <1>1, <1>3, TookWhat DEF CopyDown, LinkInv, ExchangeInv
  <2>2. stream'[l] = SubSeq(s, 1 + 1, Len(s))
    BY <1>1 DEF CopyDown, Took, LinkInv, ExchangeInv, ExchangeTypes
  <2> QED
    BY <2>1, <2>2 DEF CopyDown, ReplyInv, ReplyTypes, Wrote, Heard
<1>6. ASSUME DataBehind(s, 0) PROVE DataBehind(stream'[l], 0) /\ Head(s) = Data
  <2> HIDE DEF s
  <2>1. 0 + 1 >= 0 /\ 0 \in Nat /\ 1 \in 0 + 1 .. Len(s)
    BY <1>3
  <2>2. DataBehind(stream'[l], 0)
    BY <1>2, <1>3, <1>5, <1>6, <2>1, BehindRest
  <2>3. Head(s) = s[1]
    BY <1>2
  <2> QED
    BY <1>6, <2>1, <2>2, <2>3 DEF DataBehind
<1>7. Exact(l)'
  BY <1>2, <1>4, <1>5, <1>6 DEF Exact
<1>8. reader = "full" /\ why[l] = NoError => Head(stream[l]) = Data
  BY <1>2, <1>4, <1>6 DEF Exact
<1> QED
  BY <1>1, <1>5, <1>7, <1>8, OneReply

-----------------------------------------------------------------------------
(* The program *)

ExchangeStep(l) == ClientStep(l) \/ ServerStep(l) \/ (\E p : Begin(l, p)) \/ Close(l)

LEMMA ExchangeStepExact ==
    ASSUME LinkInv, ReplyInv, NEW l \in Links, ExchangeStep(l) PROVE ReplyInv'
<1>1. ExchangeInv /\ RelayTypes
  BY DEF LinkInv
<1>2. CASE ClientStep(l)
  BY <1>1, <1>2, ReadMethodExact, ReadConnectOnceExact, ReadConnectFullExact, ReadBoundExact,
     ReadReply4Exact, ReadEndsExact DEF ClientStep
<1>3. CASE ServerStep(l)
  BY <1>1, <1>3, ServerAnswersExact, BreakExact DEF ServerStep
<1>4. CASE (\E p : Begin(l, p)) \/ Close(l)
  BY <1>1, <1>4, BeginExact, CloseExact
<1> QED
  BY <1>2, <1>3, <1>4 DEF ExchangeStep

LEMMA SameReplies == ASSUME ReplyInv, UNCHANGED xvars PROVE ReplyInv'
BY DEF ReplyInv, ReplyTypes, Exact, xvars

\* What the steps of a connection, of the list and of the program do to the links.
LEMMA HandlerSteps ==
    ASSUME NEW c \in RelayLinks, Handler(c) \/ Elsewhere(c) \/ NmapConnects(c)
    PROVE  \/ ExchangeStep(c) \/ UNCHANGED xvars
           \/ TargetSends(c) \/ TargetCloses(c) \/ CopyDown(c)
<1>1. CASE Handler(c)
  BY <1>1 DEF Handler, Accept, ReadHeader, ReadUntilNull, ReadFails, DialUpstream, Exchange,
        DialFails, Grant, GrantFails, CopyUp, Finish, CopierEnds, Returns, ExchangeStep
<1>2. CASE Elsewhere(c)
  BY <1>2 DEF Elsewhere, NmapSends, NmapCloses, ProxyStep, ClientDeadline, WriteUp, ExchangeStep
<1>3. CASE NmapConnects(c)
  BY <1>3 DEF NmapConnects
<1> QED
  BY <1>1, <1>2, <1>3

LEMMA FirstNumbers == ASSUME TakenInv, taken < Len(List) PROVE taken + 1 \in Numbers
<1>1. List \in Seq([proto : {"socks5", "socks4"}, user : BOOLEAN])
  BY ListAssumption
<1>2. Len(List) \in Nat
  BY <1>1, LenProperties
<1> QED
  BY <1>2 DEF Numbers, TakenInv

LEMMA ListLinks ==
    ASSUME TakenInv, ListStep \/ (\E i \in Numbers : ProxyActs(i)), ~UNCHANGED xvars
    PROVE  \E l \in Links : ExchangeStep(l)
<1>1. \A i \in Numbers : i \in Links
  BY ListAssumption DEF Numbers
<1>2. CASE StartCheck
  <2>1. taken + 1 \in Links
    BY <1>1, <1>2, FirstNumbers DEF StartCheck
  <2>2. \E p : Begin(taken + 1, p)
    BY <1>2 DEF StartCheck
  <2> QED
    BY <2>1, <2>2 DEF ExchangeStep
<1>3. ASSUME NEW i \in Numbers, Handshake(i) \/ Validated(i) \/ ProxyActs(i)
      PROVE  \E l \in Links : ExchangeStep(l)
  <2>1. ExchangeStep(i)
    BY <1>3 DEF Handshake, Validated, ProxyActs, ExchangeStep
  <2> QED
    BY <1>1, <2>1
<1>4. UNCHANGED xvars \/ StartCheck
      \/ \E i \in Numbers : Handshake(i) \/ Validated(i) \/ ProxyActs(i)
  BY DEF ListStep, ListEnds, AskEcho, EchoesFail, CountValid, WriteLine
<1> QED
  BY <1>2, <1>3, <1>4

LEMMA MainLinks ==
    ASSUME Main \/ Interrupt \/ NmapFinds \/ NmapEnds \/ ScanGoes \/ UNCHANGED vars
    PROVE  UNCHANGED xvars
<1>1. CASE Main
  BY <1>1 DEF Main, StartFlat, StartScan, StartValidate, NextTarget, Advance, StartRelay,
        RelayStarts, ExecNmap, NmapDone, RelayStops, StartBuiltin, BuiltinReturns, Prune,
        ConnectScanEnds, Summary, ValidateEnds, parts
<1>2. CASE Interrupt \/ NmapFinds \/ NmapEnds \/ ScanGoes \/ UNCHANGED vars
  BY <1>2 DEF Interrupt, NmapFinds, NmapEnds, ScanGoes, vars, parts
<1> QED
  BY <1>1, <1>2

LEMMA RepliesKeep == ASSUME LinkInv, TakenInv, ReplyInv, [Next]_vars PROVE ReplyInv'
<1>1. ASSUME NEW c \in RelayLinks, RelayOf(c) \/ Outside(c) \/ Connects(c) PROVE ReplyInv'
  <2>1. c \in Links /\ ExchangeInv /\ RelayTypes
    BY RelayAssumption DEF LinkInv
  <2>2. \/ ExchangeStep(c) \/ UNCHANGED xvars
        \/ TargetSends(c) \/ TargetCloses(c) \/ CopyDown(c)
    BY <1>1, HandlerSteps DEF RelayOf, Outside, Connects
  <2> QED
    BY <2>1, <2>2, ExchangeStepExact, SameReplies, TargetSendsExact, TargetClosesExact,
       CopyDownExact
<1>2. CASE ListGoes \/ \E i \in Numbers : ProxyGoes(i)
  <2>1. ListStep \/ \E i \in Numbers : ProxyActs(i)
    BY <1>2 DEF ListGoes, ProxyGoes
  <2> QED
    BY <2>1, ListLinks, ExchangeStepExact, SameReplies
<1>3. CASE Main \/ Interrupt \/ NmapFinds \/ NmapEnds \/ ScanGoes \/ UNCHANGED vars
  BY <1>3, MainLinks, SameReplies
<1> QED
  BY <1>1, <1>2, <1>3 DEF Next

LEMMA RepliesHold == Spec => []ReplyInv
<1>1. Init => ReplyInv
  <2> SUFFICES ASSUME Init PROVE ReplyInv
    OBVIOUS
  <2>1. ExchangeInit
    BY DEF Init
  <2> QED
    BY <2>1 DEF ExchangeInit, ReplyInv, ReplyTypes, Exact
<1>2. LinkInv /\ TakenInv /\ ReplyInv /\ [Next]_vars => ReplyInv'
  BY RepliesKeep
<1> QED
  BY <1>1, <1>2, LinkInvHolds, TakenIsANumber, PTL DEF Spec

\* For any replies that follow the protocol, however TCP cuts them and wherever
\* the connection breaks: a failure that the scanner takes for the target's
\* refusal comes from the proxy's answer to the request, unless a reply came in
\* pieces; the relay, which reads in full, has no such exception
\* (validate.go:152-259, relay.go:156-259).
THEOREM RefusalsAreServers == Spec => []RefusalIsServers
<1>1. LinkInv /\ ReplyInv => RefusalIsServers
  BY DEF LinkInv, ExchangeInv, ExchangeTypes, ReplyInv, Exact, RefusalIsServers
<1> QED
  BY <1>1, LinkInvHolds, RepliesHold, PTL

-----------------------------------------------------------------------------
(* What nmap receives *)

\* "validate" makes no relay; it alone reads replies as they come.
ToolInv ==
    /\ (reader = "once") = (cmd = "validate")
    /\ cmd = "validate" => cpc \in {"start", "validating", "exited"}

\* A connection: it is the relay's, nothing is passed on before the splice, and
\* what is comes from the target.
Clean(c) ==
    /\ cmd = "validate" => hpc[c] = Idle /\ copying[c] = {}
    /\ hpc[c] \notin {"splice", "done"} => down[c] = <<>>
    /\ why[c] = NoError => DataBehind(down[c], 0)

DownInv == /\ ToolInv
           /\ down \in [RelayLinks -> Seq(Nat)]
           /\ \A c \in RelayLinks : Clean(c)

LEMMA NothingPassed == /\ <<>> \in Seq(Nat) /\ DataBehind(<<>>, 0)
<1>1. <<>> \in Seq(Nat) /\ 0 + 1 .. Len(<<>>) = {}
  OBVIOUS
<1> QED
  BY <1>1 DEF DataBehind

\* A step of connection c alone.
OnlyTunnel(c) ==
    /\ UNCHANGED <<cmd, reader>>
    /\ \A d \in RelayLinks \ {c} : /\ hpc'[d] = hpc[d] /\ copying'[d] = copying[d]
                                   /\ down'[d] = down[d] /\ why'[d] = why[d]

LEMMA OneTunnel ==
    ASSUME DownInv, ToolInv', NEW c \in RelayLinks, OnlyTunnel(c), Clean(c)',
           down' \in [RelayLinks -> Seq(Nat)]
    PROVE  DownInv'
<1>1. ASSUME NEW d \in RelayLinks, d # c PROVE Clean(d)'
  BY <1>1 DEF DownInv, OnlyTunnel, Clean
<1> QED
  BY <1>1 DEF DownInv

LEMMA SameTunnels ==
    ASSUME DownInv, ToolInv', UNCHANGED <<cmd, hpc, copying, down, why>> PROVE DownInv'
BY DEF DownInv, Clean

LEMMA SameReader == ASSUME NEW l, ExchangeStep(l) PROVE UNCHANGED reader
BY DEF ExchangeStep, ClientStep, ServerStep, ReadMethod, ReadAuth, ReadConnectOnce,
       ReadConnectFull, ReadBound, ReadReply4, ReadEOF, Expire, ServerAnswers, Break, Begin, Close

\* The exchange of link l gives no other link an error.
LEMMA OwnWhy ==
    ASSUME LinkInv, ReplyInv, NEW l \in Links, ExchangeStep(l), NEW d \in Links, d # l
    PROVE  why'[d] = why[d]
<1>1. CASE ReadConnectOnce(l)
  <2>1. PICK k \in 1 .. Len(stream[l]) :
           CASE k < 2 -> Fails(l, "no CONNECT response")
             [] k >= 2 /\ Byte(l, k, 2) # 0 -> Fails(l, ReplyText(Byte(l, k, 2)))
             [] k >= 2 /\ Byte(l, k, 2) = 0 -> Succeeds(l, NoError)
    BY <1>1 DEF ReadConnectOnce
  <2>2. Len(stream[l]) \in Nat
    BY DEF LinkInv, ExchangeInv, ExchangeTypes
  <2>3. k < 2 \/ k >= 2
    BY <2>2
  <2>4. (\E err : Fails(l, err)) \/ Succeeds(l, NoError)
    BY <2>1, <2>3
  <2> QED
    BY <1>1, <2>4 DEF Fails, Succeeds, ReplyInv, ReplyTypes, ReadConnectOnce
<1>2. CASE ReadMethod(l) \/ ReadAuth(l) \/ ReadConnectFull(l) \/ ReadBound(l) \/ ReadReply4(l)
  <2>1. UNCHANGED why \/ (\E err : Fails(l, err)) \/ (\E err : Succeeds(l, err))
    <3>1. CASE ReadMethod(l)
      BY <3>1 DEF ReadMethod, SendConnect, Sends
    <3>2. CASE ReadAuth(l)
      BY <3>2 DEF ReadAuth, SendConnect, Sends
    <3>3. CASE ReadConnectFull(l) \/ ReadBound(l)
      BY <3>3 DEF ReadConnectFull, ReadBound
    <3>4. CASE ReadReply4(l)
      BY <3>4 DEF ReadReply4
    <3> QED
      BY <1>2, <3>1, <3>2, <3>3, <3>4
  <2> QED
    BY <2>1 DEF Fails, Succeeds, ReplyInv, ReplyTypes
<1>3. CASE ReadEOF(l) \/ Expire(l)
  BY <1>3 DEF ReadEOF, Expire, ReadError, Fails, Succeeds, ReplyInv, ReplyTypes
<1>4. CASE ServerStep(l)
  BY <1>4 DEF ServerStep, ServerAnswers, Break
<1>5. CASE \E p : Begin(l, p)
  BY <1>5 DEF Begin, Sends, Fails, ReplyInv, ReplyTypes
<1>6. CASE Close(l)
  BY <1>6 DEF Close, ReplyInv, ReplyTypes
<1> QED
  BY <1>1, <1>2, <1>3, <1>4, <1>5, <1>6 DEF ExchangeStep, ClientStep

\* The handler of connection c gets to h.
Turns(c, h) == hpc'[c] = h /\ \A d \in RelayLinks \ {c} : hpc'[d] = hpc[d]

LEMMA BecomesTurns ==
    ASSUME LinkInv, NEW c \in RelayLinks, NEW h, Becomes(c, h) PROVE Turns(c, h)
BY DEF LinkInv, RelayTypes, Becomes, Turns

\* Before the splice an exchange may end as it will: nothing was passed on.
LEMMA ExchangeIsClean ==
    ASSUME LinkInv, ReplyInv, DownInv, ToolInv', NEW c \in RelayLinks, ExchangeStep(c),
           NEW h, hpc[c] \notin {Idle, "splice", "done"}, h \notin {"splice", "done"},
           Turns(c, h), UNCHANGED <<cmd, copying, down>>
    PROVE  DownInv'
<1>1. \A d \in RelayLinks \ {c} : why'[d] = why[d]
  BY OwnWhy, RelayAssumption
<1>2. UNCHANGED reader
  BY SameReader
<1>3. OnlyTunnel(c) /\ hpc'[c] = h
  BY <1>1, <1>2 DEF OnlyTunnel, Turns
<1>4. cmd # "validate" /\ down[c] = <<>>
  BY DEF DownInv, Clean
<1>5. Clean(c)'
  BY <1>3, <1>4, NothingPassed DEF Clean
<1> QED
  BY <1>3, <1>5, OneTunnel DEF DownInv

\* A step of the handler alone, up to the splice and out of it.
LEMMA HandlerIsClean ==
    ASSUME LinkInv, DownInv, ToolInv', NEW c \in RelayLinks, UNCHANGED <<cmd, down, xvars>>,
           cmd # "validate", NEW h, Turns(c, h),
           hpc[c] \in {"splice", "done"} => h \in {"splice", "done"},
           \A d \in RelayLinks \ {c} : copying'[d] = copying[d]
    PROVE  DownInv'
<1>1. OnlyTunnel(c) /\ hpc'[c] = h /\ why'[c] = why[c]
  BY RelayAssumption DEF OnlyTunnel, Turns, xvars
<1>2. Clean(c)'
  BY <1>1 DEF Clean, DownInv
<1> QED
  BY <1>1, <1>2, OneTunnel DEF DownInv

LEMMA HandlerKeepsClean ==
    ASSUME LinkInv, ReplyInv, DownInv, ToolInv', NEW c \in RelayLinks, Handler(c), UNCHANGED cmd
    PROVE  DownInv'
<1>1. hpc[c] # Idle \/ copying[c] # {} => cmd # "validate"
  BY DEF DownInv, Clean
<1>2. CASE Accept(c) \/ ReadHeader(c) \/ ReadUntilNull(c) \/ ReadFails(c)
  <2>1. /\ UNCHANGED <<down, copying, xvars>>
        /\ hpc[c] \notin {Idle, "splice", "done"}
        /\ \E h : Turns(c, h)
    BY <1>2, BecomesTurns DEF Accept, ReadHeader, ReadUntilNull, ReadFails, Idle, dvars
  <2> QED
    BY <1>1, <2>1, HandlerIsClean
<1>3. CASE DialUpstream(c) \/ DialFails(c) \/ GrantFails(c)
  <2>1. /\ ExchangeStep(c) /\ UNCHANGED <<copying, down>>
        /\ hpc[c] \notin {Idle, "splice", "done"}
        /\ \E h : h \notin {"splice", "done"} /\ Turns(c, h)
    BY <1>3, BecomesTurns DEF DialUpstream, DialFails, GrantFails, ExchangeStep, Idle, dvars
  <2> QED
    BY <2>1, ExchangeIsClean
<1>4. CASE Exchange(c)
  <2>1. /\ ExchangeStep(c) /\ UNCHANGED <<copying, down>>
        /\ hpc[c] = "exchange" /\ hpc[c] \notin {Idle, "splice", "done"}
        /\ Turns(c, "exchange")
    BY <1>4 DEF Exchange, ExchangeStep, rvars, dvars, Turns, Idle
  <2>2. "exchange" \notin {"splice", "done"}
    OBVIOUS
  <2> QED
    BY <2>1, <2>2, ExchangeIsClean
<1>5. CASE Grant(c)
  <2>1. /\ UNCHANGED <<down, xvars>> /\ hpc[c] = "exchange" /\ hpc[c] # Idle
        /\ Turns(c, "splice")
        /\ \A d \in RelayLinks \ {c} : copying'[d] = copying[d]
    BY <1>5, BecomesTurns DEF Grant, Idle, LinkInv, RelayTypes, dvars
  <2>2. hpc[c] \in {"splice", "done"} => "splice" \in {"splice", "done"}
    OBVIOUS
  <2> QED
    BY <1>1, <2>1, <2>2, HandlerIsClean
<1>6. CASE Finish(c)
  <2>1. /\ UNCHANGED <<down, xvars, copying>> /\ hpc[c] = "splice" /\ hpc[c] # Idle
        /\ Turns(c, "done")
    BY <1>6, BecomesTurns DEF Finish, Idle, dvars
  <2>2. hpc[c] \in {"splice", "done"} => "done" \in {"splice", "done"}
    OBVIOUS
  <2> QED
    BY <1>1, <2>1, <2>2, HandlerIsClean
<1>7. CASE CopyUp(c)
  <2>1. UNCHANGED <<cmd, hpc, copying, down, why>>
    BY <1>7 DEF CopyUp, xvars
  <2> QED
    BY <2>1, SameTunnels
<1>8. ASSUME NEW i \in Copiers, CopierEnds(c, i) PROVE DownInv'
  <2>1. /\ UNCHANGED hpc /\ cmd # "validate"
        /\ \A d \in RelayLinks \ {c} : copying'[d] = copying[d]
    BY <1>1, <1>8 DEF CopierEnds, Returns, LinkInv, RelayTypes
  <2>2. CASE hpc[c] = "done"
    <3>1. Close(c) /\ down' = [down EXCEPT ![c] = <<>>]
      BY <1>8, <2>2 DEF CopierEnds, Returns
    <3>2. /\ down'[c] = <<>> /\ down' \in [RelayLinks -> Seq(Nat)]
          /\ \A d \in RelayLinks \ {c} : down'[d] = down[d]
      BY <3>1, NothingPassed DEF DownInv
    <3>3. UNCHANGED reader /\ \A d \in RelayLinks \ {c} : why'[d] = why[d]
      BY <3>1, RelayAssumption DEF Close, ReplyInv, ReplyTypes
    <3>4. OnlyTunnel(c)
      BY <2>1, <3>2, <3>3 DEF OnlyTunnel
    <3>5. Clean(c)'
      BY <2>1, <3>2, NothingPassed DEF Clean
    <3> QED
      BY <3>2, <3>4, <3>5, OneTunnel
  <2>3. CASE hpc[c] # "done"
    <3>1. UNCHANGED <<down, xvars>>
      BY <1>8, <2>3 DEF CopierEnds, Returns
    <3>2. Turns(c, hpc[c])
      BY <2>1 DEF Turns
    <3> QED
      BY <2>1, <3>1, <3>2, HandlerIsClean
  <2> QED
    BY <2>2, <2>3
<1> QED
  BY <1>2, <1>3, <1>4, <1>5, <1>6, <1>7, <1>8 DEF Handler

\* "validate" stays where it is: the other steps of the main goroutine are not its.
LEMMA ToolKeeps ==
    ASSUME TakenInv, RunInv, ToolInv, [Next]_vars PROVE ToolInv' /\ UNCHANGED cmd
<1>1. UNCHANGED reader
  <2>1. ASSUME NEW c \in RelayLinks, RelayOf(c) \/ Outside(c) \/ Connects(c)
        PROVE  UNCHANGED reader
    <3>1. \/ ExchangeStep(c) \/ UNCHANGED xvars
          \/ TargetSends(c) \/ TargetCloses(c) \/ CopyDown(c)
      BY <2>1, HandlerSteps DEF RelayOf, Outside, Connects
    <3> QED
      BY <3>1, SameReader DEF xvars, TargetSends, TargetCloses, CopyDown
  <2>2. CASE ListGoes \/ \E i \in Numbers : ProxyGoes(i)
    <3>1. ListStep \/ \E i \in Numbers : ProxyActs(i)
      BY <2>2 DEF ListGoes, ProxyGoes
    <3> QED
      BY <3>1, ListLinks, SameReader DEF xvars
  <2>3. CASE Main \/ Interrupt \/ NmapFinds \/ NmapEnds \/ ScanGoes \/ UNCHANGED vars
    BY <2>3, MainLinks DEF xvars
  <2> QED
    BY <2>1, <2>2, <2>3 DEF Next
<1>2. CASE Main
  <2>1. UNCHANGED cmd
    BY <1>2 DEF Main, StartFlat, StartScan, StartValidate, NextTarget, Advance, StartRelay,
          ExecNmap, NmapDone, StartBuiltin, BuiltinReturns, Prune, ConnectScanEnds, Summary,
          ValidateEnds
  <2>2. cmd = "validate" => cpc' \in {"start", "validating", "exited"}
    BY <1>2 DEF Main, StartFlat, StartScan, StartValidate, NextTarget, Advance, StartRelay,
          ExecNmap, NmapDone, StartBuiltin, BuiltinReturns, Prune, ConnectScanEnds, Summary,
          ValidateEnds, ToolInv, IsFlat, Goes
  <2> QED
    BY <1>1, <2>1, <2>2 DEF ToolInv
<1>3. CASE Interrupt \/ NmapFinds \/ NmapEnds \/ UNCHANGED fvars
  BY <1>1, <1>3 DEF Interrupt, NmapFinds, NmapEnds, ToolInv, fvars
<1> QED
  BY <1>2, <1>3, RunSteps

LEMMA ElsewhereKeepsClean ==
    ASSUME LinkInv, ReplyInv, DownInv, ToolInv', UNCHANGED cmd, NEW c \in RelayLinks,
           Elsewhere(c) \/ (cmd # "validate" /\ NmapConnects(c))
    PROVE  DownInv'
<1>1. CASE Elsewhere(c) /\ ~CopyDown(c)
  <2>1. UNCHANGED <<hpc, copying, down, why>>
    BY <1>1 DEF Elsewhere, NmapSends, NmapCloses, TargetSends, TargetCloses, ProxyStep, ServerStep,
          ServerAnswers, Break, ClientDeadline, WriteUp, rvars, dvars, xvars
  <2> QED
    BY <2>1, SameTunnels
<1>2. CASE cmd # "validate" /\ NmapConnects(c)
  <2>1. hpc[c] = Idle /\ hpc[c] \notin {"splice", "done"} /\ Turns(c, "backlog")
        /\ UNCHANGED <<down, copying, xvars>>
    BY <1>2, BecomesTurns DEF NmapConnects, Idle, dvars
  <2> QED
    BY <1>2, <2>1, HandlerIsClean
<1>3. CASE CopyDown(c)
  <2>1. /\ UNCHANGED <<hpc, copying, reader, why>> /\ hpc[c] = "splice" /\ stream[c] # <<>>
        /\ down' = [down EXCEPT ![c] = Append(@, Head(stream[c]))]
    BY <1>3 DEF CopyDown
  <2>2. cmd # "validate" /\ reader = "full"
    BY <2>1 DEF Idle, DownInv, Clean, ToolInv, LinkInv, ExchangeInv, ExchangeTypes
  <2> DEFINE s == down[c]
             x == Head(stream[c])
             t == Append(s, x)
  <2>3. s \in Seq(Nat) /\ x \in Nat
    <3>1. stream[c] \in Seq(Nat)
      BY RelayAssumption DEF LinkInv, ExchangeInv, ExchangeTypes
    <3> QED
      BY <2>1, <3>1 DEF DownInv
  <2>4. t \in Seq(Nat)
    BY <2>3, AppendProperties
  <2>5. down'[c] = t /\ down' \in [RelayLinks -> Seq(Nat)]
        /\ \A d \in RelayLinks \ {c} : down'[d] = down[d]
    BY <2>1, <2>4 DEF DownInv
  <2>6. ASSUME why[c] = NoError PROVE DataBehind(t, 0)
    <3>1. x = Data /\ DataBehind(s, 0) /\ 0 \in Nat
      BY <1>3, <2>2, <2>6, CopyDownExact DEF DownInv, Clean
    <3> HIDE DEF s, x
    <3> QED
      BY <2>3, <3>1, BehindMore
  <2>7. Clean(c)'
    BY <2>1, <2>2, <2>5, <2>6 DEF Clean
  <2>8. OnlyTunnel(c)
    BY <2>1, <2>5 DEF OnlyTunnel
  <2> QED
    BY <2>5, <2>7, <2>8, OneTunnel
<1> QED
  BY <1>1, <1>2, <1>3

LEMMA DownKeeps ==
    ASSUME LinkInv, TakenInv, ReplyInv, RunInv, DownInv, [Next]_vars PROVE DownInv'
<1>1. ToolInv' /\ UNCHANGED cmd
  BY ToolKeeps DEF DownInv
<1>2. ASSUME NEW c \in RelayLinks, RelayOf(c) \/ Outside(c) \/ Connects(c) PROVE DownInv'
  <2>1. running => cmd # "validate"
    BY DEF RunInv, PlacesInv, DownInv, ToolInv
  <2> QED
    BY <1>1, <1>2, <2>1, HandlerKeepsClean, ElsewhereKeepsClean DEF RelayOf, Outside, Connects
<1>3. CASE ListGoes \/ \E i \in Numbers : ProxyGoes(i)
  <2>1. UNCHANGED <<hpc, copying, down>> /\ cmd = "validate"
    BY <1>3 DEF ListGoes, ProxyGoes, rvars, dvars, RunInv, PlacesInv
  <2>2. \A c \in RelayLinks : Clean(c)'
    BY <1>1, <2>1, NothingPassed DEF DownInv, Clean, Idle
  <2> QED
    BY <1>1, <2>1, <2>2 DEF DownInv
<1>4. CASE Main \/ Interrupt \/ NmapFinds \/ NmapEnds \/ ScanGoes \/ UNCHANGED vars
  <2>1. UNCHANGED why
    BY <1>4, MainLinks DEF xvars
  <2>2. UNCHANGED <<copying, down>> /\ (UNCHANGED hpc \/ RelayStops)
    BY <1>4 DEF Main, StartFlat, StartScan, StartValidate, NextTarget, Advance, StartRelay,
          RelayStarts, ExecNmap, NmapDone, RelayStops, StartBuiltin, BuiltinReturns, Prune,
          ConnectScanEnds, Summary, ValidateEnds, Interrupt, NmapFinds, NmapEnds, ScanGoes,
          vars, parts, rvars, dvars
  <2>3. CASE UNCHANGED hpc
    BY <1>1, <2>1, <2>2, <2>3, SameTunnels
  <2>4. CASE RelayStops
    <3>1. \A c \in RelayLinks : hpc'[c] = IF hpc[c] = "backlog" THEN "closed" ELSE hpc[c]
      BY <2>4 DEF RelayStops
    <3> QED
      BY <1>1, <2>1, <2>2, <3>1 DEF DownInv, Clean, Idle
  <2> QED
    BY <2>2, <2>3, <2>4
<1> QED
  BY <1>2, <1>3, <1>4 DEF Next

LEMMA DownHolds == Spec => []DownInv
<1>1. Init => DownInv
  <2> SUFFICES ASSUME Init PROVE DownInv
    OBVIOUS
  <2>1. /\ (reader = "once") = (cmd = "validate") /\ cpc = "start"
        /\ hpc = [c \in RelayLinks |-> Idle] /\ copying = [c \in RelayLinks |-> {}]
        /\ down = [c \in RelayLinks |-> <<>>]
    BY DEF Init, RelayInit
  <2> QED
    BY <2>1, NothingPassed DEF DownInv, ToolInv, Clean
<1>2. LinkInv /\ TakenInv /\ ReplyInv /\ RunInv /\ DownInv /\ [Next]_vars => DownInv'
  BY DownKeeps
<1> QED
  BY <1>1, <1>2, LinkInvHolds, TakenIsANumber, RepliesHold, RunHolds, PTL DEF Spec

\* For any replies that follow the protocol and any data: what nmap receives
\* through a tunnel was sent by the target, and no byte of the handshake is left
\* in front of it, unless an error of the drain was ignored (relay.go:222-231).
THEOREM TunnelsAreClean == Spec => []CleanTunnel
<1>1. DownInv => CleanTunnel
  <2> SUFFICES ASSUME DownInv, NEW c \in RelayLinks, why[c] = NoError,
                      NEW i \in 1 .. Len(down[c])
               PROVE  down[c][i] = Data
    BY DEF CleanTunnel
  <2>1. DataBehind(down[c], 0) /\ i \in 0 + 1 .. Len(down[c])
    BY DEF DownInv, Clean
  <2> QED
    BY <2>1 DEF DataBehind
<1> QED
  BY <1>1, DownHolds, PTL

-----------------------------------------------------------------------------
(* Types *)

\* What may be known of an error.
Texts == ErrorKinds \cup {NoError, "unknown address type"}

TextInv == left \in [Links -> 0 .. 3] /\ why \in [Links -> Texts]

RelayCounts ==
    /\ listening \in Proxies \cup {NoProxy}
    /\ said \in [RelayLinks -> 0 .. MaxData] /\ copying \in [RelayLinks -> SUBSET Copiers]
    /\ inbox \in [RelayLinks -> 0 .. MaxData]

RestInv ==
    /\ px \in Proxies \cup {NoProxy} /\ attempt \in 0 .. 2
    /\ running \in BOOLEAN /\ interrupted \in BOOLEAN

LEMMA ErrorsAreTexts ==
    /\ DialFailures \subseteq Texts /\ AuthFailures \subseteq Texts
    /\ BrokenExchanges \subseteq Texts /\ SocksReplies \subseteq Texts
    /\ LocalFailures \subseteq Texts /\ Local \subseteq Texts
    /\ NotASocksServer \in Texts /\ HandshakeTimeout \in Texts /\ NoError \in Texts
    /\ "unknown address type" \in Texts
<1>1. ErrorKinds \subseteq Texts /\ NoError \in Texts /\ "unknown address type" \in Texts
  BY DEF Texts
<1>2. Local \subseteq LocalFailures
  BY RepliesAssumption
<1> QED
  BY ONLY <1>1, <1>2 DEF ErrorKinds

\* The texts that the client puts in itself.
LEMMA TheseAreTexts ==
    /\ "broken pipe" \in Texts /\ "EOF" \in Texts /\ "no CONNECT response" \in Texts
    /\ "no acceptable auth method" \in Texts /\ "auth required but no credentials" \in Texts
    /\ "authentication failed" \in Texts /\ "request rejected" \in Texts
    /\ "SOCKS4 code" \in Texts /\ "unknown address type" \in Texts
<1>1. /\ "broken pipe" \in BrokenExchanges /\ "EOF" \in BrokenExchanges
      /\ "no CONNECT response" \in BrokenExchanges
  BY DEF BrokenExchanges
<1>2. /\ "no acceptable auth method" \in AuthFailures /\ "authentication failed" \in AuthFailures
      /\ "auth required but no credentials" \in AuthFailures
  BY DEF AuthFailures
<1>3. "request rejected" \in SocksReplies /\ "SOCKS4 code" \in SocksReplies
  BY DEF SocksReplies
<1> QED
  BY <1>1, <1>2, <1>3, ErrorsAreTexts

LEMMA RepliesAreTexts == ASSUME NEW code \in Nat, code # 0 PROVE ReplyText(code) \in Texts
<1>1. ReplyText(code) \in SocksReplies
  <2>1. CASE code > 6
    <3>1. ReplyText(code) = "SOCKS5 error"
      <4>1. ~(code <= 6)
        BY <2>1
      <4> QED
        BY Zenon, <4>1 DEF ReplyText
    <3> QED
      BY <3>1 DEF SocksReplies
  <2>2. CASE code <= 6
    <3> DEFINE t == << "general failure", "not allowed", "network unreachable",
                       "host unreachable", "connection refused", "TTL expired" >>
    <3>1. code \in 1 .. 6 /\ ReplyText(code) = t[code]
      BY <2>2 DEF ReplyText
    <3>2. /\ t[1] \in SocksReplies /\ t[2] \in SocksReplies /\ t[3] \in SocksReplies
          /\ t[4] \in SocksReplies /\ t[5] \in SocksReplies /\ t[6] \in SocksReplies
      <4>1. /\ t[1] = "general failure" /\ t[2] = "not allowed" /\ t[3] = "network unreachable"
            /\ t[4] = "host unreachable" /\ t[5] = "connection refused" /\ t[6] = "TTL expired"
        OBVIOUS
      <4> HIDE DEF t
      <4> QED
        BY <4>1 DEF SocksReplies
    <3> HIDE DEF t
    <3>3. code = 1 \/ code = 2 \/ code = 3 \/ code = 4 \/ code = 5 \/ code = 6
      BY <3>1
    <3> QED
      BY <3>1, <3>2, <3>3
  <2> QED
    BY <2>1, <2>2
<1> QED
  BY <1>1, ErrorsAreTexts

\* An end of the exchange, with a text.
LEMMA EndsInText ==
    ASSUME TextInv, NEW l \in Links, NEW err \in Texts, Fails(l, err) \/ Succeeds(l, err),
           left' \in [Links -> 0 .. 3]
    PROVE  TextInv'
BY DEF TextInv, Fails, Succeeds

LEMMA SendsInText ==
    ASSUME TextInv, NEW l \in Links, NEW after, NEW expects, NEW answers,
           Sends(l, after, expects, answers), UNCHANGED left
    PROVE  TextInv'
<1>1. Fails(l, "broken pipe") => TextInv'
  BY EndsInText, TheseAreTexts DEF TextInv
<1>2. UNCHANGED why => TextInv'
  BY DEF TextInv
<1> QED
  BY <1>1, <1>2 DEF Sends

LEMMA BytesAre ==
    ASSUME ExchangeInv, NEW l \in Links, NEW k \in Nat, k <= Len(stream[l])
    PROVE  \A i \in Nat \ {0} : Byte(l, k, i) \in Nat
<1>1. stream[l] \in Seq(Nat)
  BY DEF ExchangeInv, ExchangeTypes
<1>2. ASSUME NEW i \in Nat \ {0}, i <= k PROVE stream[l][i] \in Nat
  <2>1. Len(stream[l]) \in Nat
    BY <1>1
  <2>2. i \in 1 .. Len(stream[l])
    BY <1>2, <2>1
  <2> QED
    BY <1>1, <2>2, ElementOfSeq
<1> QED
  BY <1>2 DEF Byte

LEMMA ReadsInText ==
    ASSUME ExchangeInv, TextInv, NEW l \in Links,
           ReadMethod(l) \/ ReadAuth(l) \/ ReadReply4(l) \/ ReadBound(l)
    PROVE  TextInv'
<1>1. CASE ReadMethod(l)
  <2>1. PICK k \in Reads(l, 2) :
          CASE Byte(l, k, 1) # 5 -> Fails(l, NotASocksServer)
            [] Byte(l, k, 1) = 5 /\ Byte(l, k, 2) = 255 -> Fails(l, "no acceptable auth method")
            [] Byte(l, k, 1) = 5 /\ Byte(l, k, 2) = 2 /\ ~via[l].user
                 -> Fails(l, "auth required but no credentials")
            [] Byte(l, k, 1) = 5 /\ Byte(l, k, 2) = 2 /\ via[l].user
                 -> Sends(l, "auth", "authenticating", "auth")
            [] OTHER -> SendConnect(l)
    BY <1>1 DEF ReadMethod
  <2>2. \/ Fails(l, NotASocksServer) \/ Fails(l, "no acceptable auth method")
        \/ Fails(l, "auth required but no credentials")
        \/ Sends(l, "auth", "authenticating", "auth") \/ SendConnect(l)
    BY <2>1
  <2>3. UNCHANGED left
    BY <1>1 DEF ReadMethod
  <2> QED
    BY <2>2, <2>3, ErrorsAreTexts, TheseAreTexts, EndsInText, SendsInText DEF TextInv, SendConnect
<1>2. CASE ReadAuth(l)
  <2>1. UNCHANGED left /\ (Fails(l, "authentication failed") \/ SendConnect(l))
    BY <1>2 DEF ReadAuth
  <2> QED
    BY <2>1, TheseAreTexts, EndsInText, SendsInText DEF TextInv, SendConnect
<1>3. CASE ReadReply4(l)
  <2>1. UNCHANGED left /\ \E err \in Texts : Fails(l, err) \/ Succeeds(l, err)
    BY <1>3, ErrorsAreTexts, TheseAreTexts DEF ReadReply4
  <2> QED
    BY <2>1, EndsInText DEF TextInv
<1>4. CASE ReadBound(l)
  <2>1. left' \in [Links -> 0 .. 3] /\ Succeeds(l, NoError)
    BY <1>4 DEF ReadBound, TextInv
  <2> QED
    BY <2>1, ErrorsAreTexts, EndsInText
<1> QED
  BY <1>1, <1>2, <1>3, <1>4

LEMMA ConnectInText ==
    ASSUME ExchangeInv, TextInv, NEW l \in Links, ReadConnectOnce(l) \/ ReadConnectFull(l)
    PROVE  TextInv'
<1>1. Len(stream[l]) \in Nat
  BY DEF ExchangeInv, ExchangeTypes
<1>2. ASSUME NEW k \in Nat, k <= Len(stream[l]), Byte(l, k, 2) # 0
      PROVE  ReplyText(Byte(l, k, 2)) \in Texts
  BY <1>2, BytesAre, RepliesAreTexts
<1>3. CASE ReadConnectOnce(l)
  <2>1. PICK k \in 1 .. Len(stream[l]) :
          CASE k < 2 -> Fails(l, "no CONNECT response")
            [] k >= 2 /\ Byte(l, k, 2) # 0 -> Fails(l, ReplyText(Byte(l, k, 2)))
            [] k >= 2 /\ Byte(l, k, 2) = 0 -> Succeeds(l, NoError)
    BY <1>3 DEF ReadConnectOnce
  <2>2. k \in Nat /\ k <= Len(stream[l])
    BY <1>1
  <2>3. k < 2 \/ (k >= 2 /\ Byte(l, k, 2) # 0) \/ (k >= 2 /\ Byte(l, k, 2) = 0)
    BY <2>2
  <2>4. \E err \in Texts : Fails(l, err) \/ Succeeds(l, err)
    BY <1>2, <2>1, <2>2, <2>3, ErrorsAreTexts, TheseAreTexts
  <2>5. UNCHANGED left
    BY <1>3 DEF ReadConnectOnce
  <2> QED
    BY <2>4, <2>5, EndsInText DEF TextInv
<1>4. CASE ReadConnectFull(l)
  <2>1. PICK k \in Reads(l, 4) :
          /\ left' = [left EXCEPT ![l] = BoundLength(Byte(l, k, 4))]
          /\ IF Byte(l, k, 2) # 0 THEN Fails(l, ReplyText(Byte(l, k, 2)))
             ELSE IF left'[l] = 0 THEN Succeeds(l, "unknown address type")
             ELSE xpc' = [xpc EXCEPT ![l] = "bound"] /\ UNCHANGED <<srv, why>>
    BY <1>4 DEF ReadConnectFull
  <2>2. k \in Nat /\ k <= Len(stream[l])
    <3>1. k \in 1 .. 4 /\ k \in 0 .. Len(stream[l])
      BY k \in Reads(l, 4), ReadsWhat DEF ExchangeInv
    <3> QED
      BY <1>1, <3>1
  <2>3. left' \in [Links -> 0 .. 3]
    <3>1. BoundLength(Byte(l, k, 4)) \in 0 .. 3
      BY BoundLengthIs
    <3>2. left' = [left EXCEPT ![l] = BoundLength(Byte(l, k, 4))]
      BY <2>1
    <3> DEFINE n == BoundLength(Byte(l, k, 4))
    <3>3. n \in 0 .. 3 /\ left' = [left EXCEPT ![l] = n] /\ left \in [Links -> 0 .. 3]
      BY <3>1, <3>2 DEF TextInv
    <3> HIDE DEF n
    <3> QED
      BY ONLY <3>3
  <2>4. (\E err \in Texts : Fails(l, err) \/ Succeeds(l, err)) \/ UNCHANGED why
    BY <1>2, <2>1, <2>2, TheseAreTexts
  <2> QED
    BY <2>3, <2>4, EndsInText DEF TextInv
<1> QED
  BY <1>3, <1>4

LEMMA ExchangeInText ==
    ASSUME ExchangeInv, TextInv, NEW l \in Links,
           \/ ClientStep(l) \/ ServerStep(l) \/ (\E p : Begin(l, p)) \/ Close(l)
    PROVE  TextInv'
<1>1. CASE ReadEOF(l) \/ Expire(l)
  <2>1. UNCHANGED left /\ \E err \in Texts : ReadError(l, err)
    BY <1>1, ErrorsAreTexts, TheseAreTexts DEF ReadEOF, Expire
  <2>2. \E err \in Texts : Fails(l, err) \/ Succeeds(l, err)
    BY <2>1, TheseAreTexts DEF ReadError
  <2> QED
    BY <2>1, <2>2, EndsInText DEF TextInv
<1>2. CASE ServerStep(l)
  <2>1. UNCHANGED <<left, why>>
    BY <1>2 DEF ServerStep, ServerAnswers, Break
  <2> QED
    BY <2>1 DEF TextInv
<1>3. ASSUME NEW p, Begin(l, p) PROVE TextInv'
  <2>1. UNCHANGED left /\ \/ \E err \in Texts : Fails(l, err)
                          \/ \E a, b, c : Sends(l, a, b, c)
    BY <1>3, ErrorsAreTexts, TheseAreTexts DEF Begin
  <2> QED
    BY <2>1, EndsInText, SendsInText DEF TextInv
<1>4. CASE Close(l)
  <2>1. left' = [left EXCEPT ![l] = 0] /\ why' = [why EXCEPT ![l] = NoError]
    BY <1>4 DEF Close
  <2>2. NoError \in Texts
    BY ErrorsAreTexts
  <2> QED
    BY ONLY <2>1, <2>2, TextInv DEF TextInv
<1> QED
  BY <1>1, <1>2, <1>3, <1>4, ReadsInText, ConnectInText DEF ClientStep

LEMMA TextKeeps == ASSUME LinkInv, TakenInv, TextInv, [Next]_vars PROVE TextInv'
<1>1. \A c \in RelayLinks : c \in Links
  BY RelayAssumption
<1>2. \A i \in Numbers : i \in Links
  BY ListAssumption DEF Numbers
<1>3. ASSUME UNCHANGED xvars PROVE TextInv'
  BY <1>3 DEF xvars, TextInv
<1>4. ASSUME NEW c \in RelayLinks, RelayOf(c) \/ Outside(c) \/ Connects(c) PROVE TextInv'
  <2>1. CASE RelayOf(c)
    <3>1. \/ UNCHANGED xvars \/ ClientStep(c) \/ (\E p : Begin(c, p)) \/ Close(c)
          \/ UNCHANGED <<left, why>>
      BY <2>1 DEF RelayOf, Handler, Accept, ReadHeader, ReadUntilNull, ReadFails, DialUpstream,
            Exchange, DialFails, Grant, GrantFails, CopyUp, Finish, CopierEnds, Returns
    <3> QED
      BY <1>1, <1>3, <3>1, ExchangeInText DEF LinkInv, TextInv
  <2>2. CASE Outside(c)
    <3>1. UNCHANGED <<left, why>>
      BY <2>2 DEF Outside, Elsewhere, NmapSends, NmapCloses, TargetSends, TargetCloses,
            ProxyStep, ServerStep, ServerAnswers, Break, ClientDeadline, CopyDown, WriteUp, xvars
    <3> QED
      BY <3>1 DEF TextInv
  <2>3. CASE Connects(c)
    BY <1>3, <2>3 DEF Connects, NmapConnects
  <2> QED
    BY <1>4, <2>1, <2>2, <2>3
<1>5. CASE ListGoes
  <2>1. \/ UNCHANGED xvars
        \/ \E i \in Numbers : ClientStep(i) \/ Close(i)
        \/ taken + 1 \in Numbers /\ \E p : Begin(taken + 1, p)
    <3>1. StartCheck => taken + 1 \in Numbers
      BY NumbersAre DEF StartCheck, TakenInv
    <3> QED
      BY <1>5, <3>1 DEF ListGoes, ListStep, StartCheck, ListEnds, Handshake, Validated, AskEcho,
            EchoesFail, CountValid, WriteLine
  <2> QED
    BY <1>2, <1>3, <2>1, ExchangeInText DEF LinkInv
<1>6. ASSUME NEW i \in Numbers, ProxyGoes(i) PROVE TextInv'
  BY <1>2, <1>6, ExchangeInText DEF ProxyGoes, ProxyActs, LinkInv
<1>7. CASE Main \/ Interrupt \/ NmapFinds \/ NmapEnds \/ ScanGoes \/ UNCHANGED vars
  BY <1>3, <1>7, MainLinks
<1> QED
  BY <1>4, <1>5, <1>6, <1>7 DEF Next

LEMMA HandlerCounts ==
    ASSUME LinkInv, RelayCounts, NEW c \in RelayLinks, Handler(c) \/ Elsewhere(c) \/ NmapConnects(c)
    PROVE  RelayCounts'
<1>1. CASE TargetSends(c)
  <2>1. said[c] \in 0 .. MaxData /\ said[c] < MaxData /\ MaxData \in Nat
    BY <1>1, RelayAssumption DEF TargetSends, RelayCounts
  <2>2. said[c] + 1 \in 0 .. MaxData
    BY <2>1
  <2> QED
    BY <1>1, <2>2 DEF TargetSends, RelayCounts
<1>2. ASSUME NEW i \in Copiers, CopierEnds(c, i) PROVE RelayCounts'
  <2>1. 0 \in 0 .. MaxData
    BY RelayAssumption
  <2>2. said' \in [RelayLinks -> 0 .. MaxData] /\ inbox' \in [RelayLinks -> 0 .. MaxData]
    BY <1>2, <2>1 DEF CopierEnds, Returns, RelayCounts
  <2>3. copying' \in [RelayLinks -> SUBSET Copiers] /\ UNCHANGED listening
    BY <1>2 DEF CopierEnds, RelayCounts
  <2> QED
    BY <2>2, <2>3 DEF RelayCounts
<1>3. CASE Grant(c)
  BY <1>3 DEF Grant, RelayCounts, dvars
<1>4. CASE NmapSends(c)
  <2>1. inbox[c] \in 0 .. MaxData /\ inbox[c] < MaxData /\ MaxData \in Nat
    BY <1>4, RelayAssumption DEF NmapSends, RelayCounts
  <2>2. inbox[c] + 1 \in 0 .. MaxData
    BY <2>1
  <2> QED
    BY <1>4, <2>2 DEF NmapSends, RelayCounts
<1>5. CASE CopyUp(c)
  <2>1. inbox[c] \in 0 .. MaxData /\ inbox[c] > 0 /\ MaxData \in Nat
    BY <1>5, RelayAssumption DEF CopyUp, RelayCounts
  <2>2. inbox[c] - 1 \in 0 .. MaxData
    BY <2>1
  <2> QED
    BY <1>5, <2>2 DEF CopyUp, RelayCounts
<1>6. CASE /\ ~TargetSends(c) /\ ~Grant(c) /\ ~NmapSends(c) /\ ~CopyUp(c)
           /\ ~\E i \in Copiers : CopierEnds(c, i)
  <2>1. UNCHANGED <<listening, said, copying, inbox>>
    BY <1>6 DEF Handler, Elsewhere, Accept, ReadHeader, ReadUntilNull, ReadFails, DialUpstream,
          Exchange, DialFails, GrantFails, CopyDown, WriteUp, Finish, NmapCloses, TargetCloses,
          ProxyStep, ClientDeadline, NmapConnects, rvars, dvars
  <2> QED
    BY <2>1 DEF RelayCounts
<1> QED
  BY <1>1, <1>2, <1>3, <1>4, <1>5, <1>6

LEMMA CountsKeep ==
    ASSUME LinkInv, RestInv, RelayCounts, [Next]_vars PROVE RelayCounts'
<1>1. ASSUME NEW c \in RelayLinks, RelayOf(c) \/ Outside(c) \/ Connects(c) PROVE RelayCounts'
  BY <1>1, HandlerCounts DEF RelayOf, Outside, Connects
<1>2. CASE ~\E c \in RelayLinks : RelayOf(c) \/ Outside(c) \/ Connects(c)
  <2>1. UNCHANGED <<said, copying, inbox>> /\ listening' \in {listening, px, NoProxy}
    BY <1>2 DEF Next, Main, StartFlat, StartScan, StartValidate, NextTarget, Advance, StartRelay,
          RelayStarts, ExecNmap, NmapDone, RelayStops, StartBuiltin, BuiltinReturns, Prune,
          ConnectScanEnds, Summary, ValidateEnds, Interrupt, NmapFinds, NmapEnds, ScanGoes,
          ListGoes, ProxyGoes, vars, parts, rvars, dvars
  <2> QED
    BY <2>1 DEF RelayCounts, RestInv
<1> QED
  BY <1>1, <1>2

LEMMA RestKeeps == ASSUME RunInv, RestInv, [Next]_vars PROVE RestInv'
<1>1. CASE NextTarget
  <2>1. px' = px \/ px' = NextProxy(valid, index, fa.wrap)
    BY <1>1 DEF NextTarget
  <2>2. NextProxy(valid, index, fa.wrap) \in Proxies \cup {NoProxy}
    <3> DEFINE i == NextIndex(valid, index, fa.wrap)
    <3>1. i \in Nat /\ valid \in Seq(Proxies) /\ Len(valid) \in Nat
      BY DEF RunInv, RunTypes, NextIndex
    <3>2. NextProxy(valid, index, fa.wrap) = IF i < Len(valid) THEN valid[i + 1] ELSE NoProxy
      BY DEF NextProxy
    <3> HIDE DEF i
    <3>3. ASSUME i < Len(valid) PROVE valid[i + 1] \in Proxies
      <4>1. i + 1 \in 1 .. Len(valid)
        BY <3>1, <3>3
      <4> QED
        BY <3>1, <4>1, ElementOfSeq
    <3> QED
      BY <3>2, <3>3
  <2>3. UNCHANGED <<attempt, running, interrupted>>
    BY <1>1 DEF NextTarget, nvars
  <2> QED
    BY <2>1, <2>2, <2>3 DEF RestInv
<1>2. CASE Main /\ ~NextTarget
  <2>1. CASE StartRelay \/ ExecNmap \/ NmapDone
    <3>1. /\ UNCHANGED <<px, interrupted>>
          /\ attempt' = attempt \/ attempt' = 0 \/ attempt' = 1 \/ attempt' = 2
          /\ running' = running \/ running' = TRUE
      BY <2>1 DEF StartRelay, ExecNmap, NmapDone, mvars, nvars
    <3>2. attempt' \in 0 .. 2
      BY <3>1 DEF RestInv
    <3> QED
      <4>1. /\ px \in Proxies \cup {NoProxy} /\ running \in BOOLEAN /\ interrupted \in BOOLEAN
        BY DEF RestInv
      <4>2. px' = px /\ interrupted' = interrupted
        BY ONLY <3>1
      <4>3. running' \in BOOLEAN
        BY ONLY Zenon, <3>1, <4>1
      <4> QED
        BY ONLY Zenon, <3>2, <4>1, <4>2, <4>3 DEF RestInv
  <2>2. CASE ~(StartRelay \/ ExecNmap \/ NmapDone)
    <3>1. UNCHANGED <<px, interrupted, attempt, running>>
      BY <1>2, <2>2 DEF Main, StartFlat, StartScan, StartValidate, Advance, StartBuiltin,
            BuiltinReturns, Prune, ConnectScanEnds, Summary, ValidateEnds, nvars, mvars
    <3> QED
      BY <3>1 DEF RestInv
  <2> QED
    BY <2>1, <2>2
<1>3. CASE Interrupt \/ NmapFinds \/ NmapEnds
  <2>1. UNCHANGED <<px, attempt>> /\ running' \in {running, FALSE}
        /\ interrupted' \in {interrupted, TRUE}
    BY <1>3 DEF Interrupt, NmapFinds, NmapEnds, nvars, mvars
  <2> QED
    BY <2>1 DEF RestInv
<1>4. CASE UNCHANGED fvars
  BY <1>4 DEF RestInv, fvars, nvars, mvars
<1> QED
  BY RunSteps, <1>1, <1>2, <1>3, <1>4

TypesInv == TextInv /\ RelayCounts /\ RestInv

\* For every command line, pool, list, reply and number of jobs: the program's data
\* stay in their types, its counters within what was started.
THEOREM CommandIsTyped == Spec => []TypeOK
<1>1. Init => TypesInv
  <2> SUFFICES ASSUME Init PROVE TypesInv
    OBVIOUS
  <2>1. ExchangeInit /\ RelayInit
    BY DEF Init
  <2>2. TextInv
    <3>1. left = [l \in Links |-> 0] /\ why = [l \in Links |-> NoError]
      BY <2>1 DEF ExchangeInit
    <3>2. NoError \in Texts
      BY ErrorsAreTexts
    <3> QED
      BY ONLY <3>1, <3>2 DEF TextInv
  <2>3. RelayCounts
    <3>1. 0 \in 0 .. MaxData
      BY RelayAssumption
    <3> QED
      BY <2>1, <3>1 DEF RelayInit, RelayCounts
  <2>4. RestInv
    <3>1. px = NoProxy /\ attempt = 0 /\ running = FALSE /\ interrupted = FALSE
      BY DEF Init
    <3>2. attempt \in 0 .. 2
      BY <3>1
    <3> QED
      BY ONLY Zenon, <3>1, <3>2 DEF RestInv
  <2> QED
    BY <2>2, <2>3, <2>4 DEF TypesInv
<1>2. LinkInv /\ TakenInv /\ RunInv /\ TypesInv /\ [Next]_vars => TypesInv'
  BY TextKeeps, CountsKeep, RestKeeps DEF TypesInv
<1>3. LinkInv /\ RunInv /\ TypesInv /\ ScanInv /\ ListInv => TypeOK
  <2> SUFFICES ASSUME LinkInv, RunInv, TypesInv, ScanInv, ListInv PROVE TypeOK
    OBVIOUS
  <2>1. /\ cpc \in {"start", "loop", "relay", "exec", "wait", "builtin", "scanning", "prune",
                    "printing", "validating", "advance", "summary", "exited"}
        /\ valid \in Seq(DOMAIN Kind) /\ index \in Nat
    BY DEF RunInv, RunTypes, Proxies
  <2>2. /\ px \in DOMAIN Kind \cup {NoProxy} /\ listening \in DOMAIN Kind \cup {NoProxy}
        /\ attempt \in 0 .. 2 /\ running \in BOOLEAN /\ interrupted \in BOOLEAN
    BY DEF TypesInv, RestInv, RelayCounts, Proxies
  <2>3. \A l \in Links : /\ stream[l] \in Seq(Nat) /\ left[l] \in 0 .. 3
                         /\ why[l] \in ErrorKinds \cup {NoError, "unknown address type"}
    <3>1. \A l \in Links : stream[l] \in Seq(Nat) /\ left[l] \in 0 .. 3 /\ why[l] \in Texts
      BY DEF LinkInv, ExchangeInv, ExchangeTypes, TypesInv, TextInv
    <3> QED
      BY <3>1 DEF Texts
  <2>4. \A c \in RelayLinks : /\ said[c] \in 0 .. MaxData /\ inbox[c] \in 0 .. MaxData
                               /\ copying[c] \subseteq Copiers
                               /\ writing[c] \in BOOLEAN /\ refused[c] \in BOOLEAN
    <3>1. \A c \in RelayLinks : /\ said[c] \in 0 .. MaxData /\ inbox[c] \in 0 .. MaxData
                                 /\ copying[c] \subseteq Copiers
      BY DEF TypesInv, RelayCounts
    <3>2. \A c \in RelayLinks : writing[c] \in BOOLEAN /\ refused[c] \in BOOLEAN
      BY Zenon DEF LinkInv, RelayTypes
    <3> QED
      BY ONLY Zenon, <3>1, <3>2
  <2>5. counted \in 0 .. Cardinality(Jobs)
    <3>1. counted = Cardinality(With("done")) /\ With("done") \subseteq Jobs
      BY DEF ScanInv, OrderInv, With
    <3>2. Cardinality(With("done")) <= Cardinality(Jobs) /\ Cardinality(With("done")) \in Nat
          /\ Cardinality(Jobs) \in Nat
      BY <3>1, JobsAre, FS_Subset, FS_CardinalityType
    <3> QED
      BY <3>1, <3>2
  <2>6. nvalid + nfailed <= Len(List)
    BY CountersFit
  <2> QED
    BY ONLY Zenon, <2>1, <2>2, <2>3, <2>4, <2>5, <2>6 DEF TypeOK
<1> QED
  BY <1>1, <1>2, <1>3, LinkInvHolds, TakenIsANumber, RunHolds, ScanHolds, ListHolds, PTL DEF Spec
=============================================================================
