------------------------------ MODULE DialCtx ------------------------------
(***************************************************************************)
(* DialThroughProxyCtx (scanner/dial.go): the dial runs in a goroutine of    *)
(* its own, so that the caller can leave when its context ends; whatever     *)
(* connection the dial then still makes has to be closed by someone.          *)
(* Each call has a number.                                                    *)
(***************************************************************************)
EXTENDS Integers, ProxyErrors

CONSTANTS NumCalls,   \* bound of the model: how many calls are made
          Answers     \* Answers[c]: what the dial of a call may return

Connected == "conn"
Nothing   == ""
Results   == (ErrorKinds \ {Canceled}) \cup {Connected}

Calls == 1 .. NumCalls

ASSUME DialAssumption == NumCalls \in Nat /\ Answers \in [Calls -> SUBSET Results]

VARIABLES
    expired,    \* the context of the calls that run has ended
    dialer,     \* the goroutine that dials: "none", "dialing" or "ended"
    ch,         \* the channel of a call, with room for one result
    got,        \* what the call has returned, until the caller is done with it
    closer,     \* the goroutine that waits for a late connection
    open,       \* connections made less calls of Close: 1 is open, -1 is wrong
    said        \* the result that the call received, kept to compare votes with

dvars == <<expired, dialer, ch, got, closer, open, said>>

DialInit ==
    /\ expired = FALSE
    /\ dialer = [c \in Calls |-> "none"] /\ closer = [c \in Calls |-> "none"]
    /\ ch = [c \in Calls |-> Nothing] /\ got = [c \in Calls |-> Nothing]
    /\ said = [c \in Calls |-> Nothing]
    /\ open = [c \in Calls |-> 0]

Conns(result) == IF result = Connected THEN 1 ELSE 0

\* The call starts its goroutine and waits for it or for the context.
StartDial(c) ==
    /\ dialer' = [dialer EXCEPT ![c] = "dialing"]
    /\ UNCHANGED <<expired, ch, got, closer, open, said>>

\* DialThroughProxy returns, within its own time limit, and the goroutine
\* leaves the result in the channel.
DialEnds(c) ==
    /\ dialer[c] = "dialing"
    /\ dialer' = [dialer EXCEPT ![c] = "ended"]
    /\ \E r \in Answers[c] :
           /\ ch' = [ch EXCEPT ![c] = r]
           /\ open' = [open EXCEPT ![c] = @ + Conns(r)]
    /\ UNCHANGED <<expired, got, closer, said>>

\* The call receives the result.  When the context has ended as well, either
\* branch of the select may be taken.
TakeResult(c) ==
    /\ ch[c] # Nothing
    /\ ch' = [ch EXCEPT ![c] = Nothing]
    /\ got' = [got EXCEPT ![c] = ch[c]] /\ said' = [said EXCEPT ![c] = ch[c]]
    /\ UNCHANGED <<expired, dialer, closer, open>>

\* A version in which nobody waits for the late connection.
GiveUp_Forgets(c) ==
    /\ expired
    /\ got' = [got EXCEPT ![c] = Canceled]
    /\ UNCHANGED <<expired, dialer, ch, closer, open, said>>

\* The context has ended: the call leaves, and leaves a goroutine behind.
GiveUp(c) ==
    /\ expired
    /\ got' = [got EXCEPT ![c] = Canceled]
    /\ closer' = [closer EXCEPT ![c] = "waiting"]
    /\ UNCHANGED <<expired, dialer, ch, open, said>>

\* That goroutine gets the result and closes a connection.
LateResult(c) ==
    /\ closer[c] = "waiting" /\ ch[c] # Nothing
    /\ closer' = [closer EXCEPT ![c] = "none"]
    /\ ch' = [ch EXCEPT ![c] = Nothing]
    /\ open' = [open EXCEPT ![c] = @ - Conns(ch[c])]
    /\ UNCHANGED <<expired, dialer, got, said>>
=============================================================================
