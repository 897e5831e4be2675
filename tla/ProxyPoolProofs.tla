-------------------------- MODULE ProxyPoolProofs --------------------------
(***************************************************************************)
(* What the pool's callers keep of a snapshot: lemmas about Keep, for every *)
(* snapshot.  Keep is a recursive function on the positions of a sequence;  *)
(* induction on the positions is had from the library's theorem that a      *)
(* well-founded relation has minimal elements, applied to a set of numbers. *)
(***************************************************************************)
EXTENDS ProxyPool, WellFoundedInduction, TLAPS

\* Every set of numbers that is not empty has a least one.
LEMMA Least ==
    ASSUME NEW Some, Some \subseteq Nat, Some # {}
    PROVE  \E x \in Some : \A y \in Some : ~(y < x)
<1>1. \E x \in Some : \A y \in Some : ~(<<y, x>> \in OpToRel(<, Nat))
  BY NatLessThanWellFounded, WFMin
<1> QED
  BY <1>1 DEF OpToRel

\* Induction up to n, for the positions at which something holds.
LEMMA UpTo ==
    ASSUME NEW n \in Nat, NEW Good, 0 \in Good,
           \A i \in 1 .. n : i - 1 \in Good => i \in Good
    PROVE  0 .. n \subseteq Good
<1> DEFINE Bad == {i \in 0 .. n : i \notin Good}
<1>1. Bad = {}
  <2> SUFFICES ASSUME Bad # {} PROVE FALSE
    OBVIOUS
  <2>1. Bad \subseteq Nat
    OBVIOUS
  <2> HIDE DEF Bad
  <2>2. PICK x \in Bad : \A y \in Bad : ~(y < x)
    BY <2>1, Least
  <2>3. x \in 1 .. n
    BY DEF Bad
  <2>4. x - 1 \notin Bad
    BY <2>1, <2>2, <2>3
  <2> QED
    BY <2>3, <2>4 DEF Bad
<1> QED
  BY <1>1

\* f is the course of n steps from start.
IsCourse(f, start, n, step) ==
    f[0] = start /\ \A i \in 1 .. n : f[i] = step[<<f[i - 1], i>>]

\* A step of A, repeated n times, has a course.
LEMMA Course ==
    ASSUME NEW A, NEW start \in A, NEW n \in Nat, NEW step \in [A \X (1 .. n) -> A]
    PROVE  \E f \in [0 .. n -> A] : IsCourse(f, start, n, step)
<1> DEFINE Good == {m \in 0 .. n :
                       \E f \in [0 .. m -> A] :
                          f[0] = start /\ \A i \in 1 .. m : f[i] = step[<<f[i - 1], i>>]}
<1>1. 0 \in Good
  <2> DEFINE f == [i \in 0 .. 0 |-> start]
  <2>1. f \in [0 .. 0 -> A] /\ f[0] = start /\ 0 \in 0 .. n /\ 1 .. 0 = {}
    OBVIOUS
  <2> HIDE DEF f
  <2> QED
    BY <2>1
<1>2. ASSUME NEW m \in 1 .. n, m - 1 \in Good
      PROVE  m \in Good
  <2>1. PICK f \in [0 .. (m - 1) -> A] :
              f[0] = start /\ \A i \in 1 .. (m - 1) : f[i] = step[<<f[i - 1], i>>]
    BY <1>2
  <2> DEFINE last == step[<<f[m - 1], m>>]
             g    == [k \in 0 .. m |-> IF k = m THEN last ELSE f[k]]
  <2>2. last \in A
    OBVIOUS
  <2> HIDE DEF last
  <2>3. g \in [0 .. m -> A]
    BY <2>2
  <2>4. g[0] = start /\ g[m] = last /\ \A k \in 0 .. (m - 1) : g[k] = f[k]
    BY <2>1
  <2> HIDE DEF g
  <2>5. ASSUME NEW i \in 1 .. m
        PROVE  g[i] = step[<<g[i - 1], i>>]
    <3>1. CASE i = m
      BY SMTT(30), <3>1, <2>4 DEF last
    <3>2. CASE i # m
      BY <3>2, <2>1, <2>4
    <3> QED
      BY <3>1, <3>2
  <2> QED
    BY <2>3, <2>4, <2>5
<1> HIDE DEF Good
<1>3. 0 .. n \subseteq Good
  BY <1>1, <1>2, UpTo
<1>4. n \in Good
  BY <1>3
<1> QED
  BY <1>4 DEF Good, IsCourse

-----------------------------------------------------------------------------
(* Sequences as lists of entries *)

LEMMA EmptyList == ToSet(<<>>) = {} /\ IsInjective(<<>>)
  BY DEF ToSet, IsInjective

\* Appending an element adds it to the elements.
LEMMA AppendAdds ==
    ASSUME NEW S, NEW s \in Seq(S), NEW x \in S
    PROVE  /\ Append(s, x) \in Seq(S) /\ ToSet(Append(s, x)) = ToSet(s) \cup {x}
           /\ IsInjective(s) /\ x \notin ToSet(s) => IsInjective(Append(s, x))
<1> DEFINE t == Append(s, x)
<1>1. /\ t \in Seq(S) /\ Len(s) \in Nat /\ Len(t) = Len(s) + 1
      /\ DOMAIN s = 1 .. Len(s) /\ DOMAIN t = 1 .. (Len(s) + 1)
      /\ \A i \in 1 .. Len(s) : t[i] = s[i]
      /\ t[Len(s) + 1] = x
  OBVIOUS
<1> HIDE DEF t
<1>2. ToSet(t) = ToSet(s) \cup {x}
  BY <1>1 DEF ToSet
<1>3. ASSUME IsInjective(s), x \notin ToSet(s)
      PROVE  IsInjective(t)
  BY <1>1, <1>3 DEF ToSet, IsInjective
<1> QED
  BY <1>1, <1>2, <1>3 DEF t

\* Taking the head off leaves the other elements, in an injective list without it.
LEMMA TailLeaves ==
    ASSUME NEW S, NEW s \in Seq(S), s # <<>>
    PROVE  /\ Head(s) \in ToSet(s) /\ Tail(s) \in Seq(S) /\ ToSet(Tail(s)) \subseteq ToSet(s)
           /\ IsInjective(s) => IsInjective(Tail(s)) /\ Head(s) \notin ToSet(Tail(s))
<1> DEFINE t == Tail(s)
<1>1. /\ t \in Seq(S) /\ Len(s) \in Nat \ {0} /\ Len(t) = Len(s) - 1
      /\ DOMAIN s = 1 .. Len(s) /\ DOMAIN t = 1 .. (Len(s) - 1)
      /\ \A i \in 1 .. (Len(s) - 1) : t[i] = s[i + 1]
      /\ Head(s) = s[1]
  OBVIOUS
<1> HIDE DEF t
<1> QED
  BY <1>1 DEF ToSet, IsInjective, t

-----------------------------------------------------------------------------
(* Keep *)

\* f[i] is what is kept of the first i entries.
IsKeeping(f, s, kept) ==
    /\ f[0] = <<>>
    /\ \A i \in 1 .. Len(s) :
          f[i] = IF s[i] \in kept THEN Append(f[i - 1], s[i]) ELSE f[i - 1]

\* The function in the definition of Keep is the one it describes: there is one,
\* and so the definition's choice is one.
LEMMA KeepUnfolds ==
    ASSUME NEW S, NEW s \in Seq(S), NEW kept
    PROVE  \E f \in [0 .. Len(s) -> Seq(S)] :
              IsKeeping(f, s, kept) /\ Keep(s, kept) = f[Len(s)]
<1> DEFINE on(before, i) == IF s[i] \in kept THEN Append(before, s[i]) ELSE before
           Def(g) == [i \in 0 .. Len(s) |-> IF i = 0 THEN <<>> ELSE on(g[i - 1], i)]
           upTo == CHOOSE g : g = Def(g)
           step == [p \in Seq(S) \X (1 .. Len(s)) |-> on(p[1], p[2])]
<1>1. Len(s) \in Nat /\ \A i \in 1 .. Len(s) : s[i] \in S
  OBVIOUS
<1>2. step \in [Seq(S) \X (1 .. Len(s)) -> Seq(S)]
  BY <1>1
<1>3. <<>> \in Seq(S)
  OBVIOUS
<1>4. PICK f \in [0 .. Len(s) -> Seq(S)] :
              f[0] = <<>> /\ \A i \in 1 .. Len(s) : f[i] = step[<<f[i - 1], i>>]
  <2> DEFINE A == Seq(S) start == <<>> n == Len(s)
  <2>1. start \in A /\ n \in Nat /\ step \in [A \X (1 .. n) -> A]
    BY <1>1, <1>2, <1>3
  <2> HIDE DEF A, start, n, step
  <2>2. \E f \in [0 .. n -> A] : IsCourse(f, start, n, step)
    BY <2>1, Course
  <2> QED
    BY <2>2 DEF A, start, n, IsCourse
<1>5. ASSUME NEW i \in 1 .. Len(s)
      PROVE  f[i] = on(f[i - 1], i)
  <2>1. f[i - 1] \in Seq(S)
    BY <1>1
  <2> HIDE DEF on
  <2>2. step[<<f[i - 1], i>>] = on(f[i - 1], i)
    BY <2>1
  <2> QED
    BY <1>4, <2>2
<1>6. f = Def(f)
  <2>1. ASSUME NEW i \in 0 .. Len(s)
        PROVE  f[i] = Def(f)[i]
    <3>1. CASE i = 0
      BY <3>1, <1>4
    <3>2. CASE i # 0
      <4>1. i \in 1 .. Len(s)
        BY <3>2, <1>1
      <4> HIDE DEF on
      <4> QED
        BY <4>1, <3>2, <1>5
    <3> QED
      BY <3>1, <3>2
  <2> QED
    BY <2>1
<1>7. upTo = Def(upTo)
  BY <1>6
<1>8. Keep(s, kept) = upTo[Len(s)]
  BY DEF Keep
<1> HIDE DEF upTo
<1>9. upTo[0] = <<>>
  BY <1>1, <1>7
<1>10. ASSUME NEW i \in 1 .. Len(s)
       PROVE  upTo[i] = on(upTo[i - 1], i)
  <2> HIDE DEF on
  <2> QED
    BY <1>1, <1>7
<1> DEFINE Good == {i \in 0 .. Len(s) : upTo[i] = f[i]}
<1>11. 0 \in Good
  BY <1>1, <1>4, <1>9
<1>12. ASSUME NEW i \in 1 .. Len(s), i - 1 \in Good
       PROVE  i \in Good
  <2> HIDE DEF on
  <2> QED
    BY <1>1, <1>5, <1>10, <1>12
<1> HIDE DEF Good
<1>13. 0 .. Len(s) \subseteq Good
  BY <1>1, <1>11, <1>12, UpTo
<1>14. upTo[Len(s)] = f[Len(s)]
  BY <1>1, <1>13 DEF Good
<1> QED
  BY <1>4, <1>5, <1>8, <1>14 DEF IsKeeping

\* What is kept are the members of the snapshot that are in kept, each as often as
\* it was there: a snapshot without a repetition gives a list without one.
LEMMA KeepFilters ==
    ASSUME NEW S, NEW s \in Seq(S), NEW kept
    PROVE  /\ Keep(s, kept) \in Seq(S) /\ ToSet(Keep(s, kept)) = ToSet(s) \cap kept
           /\ IsInjective(s) => IsInjective(Keep(s, kept))
<1>1. PICK f \in [0 .. Len(s) -> Seq(S)] :
              IsKeeping(f, s, kept) /\ Keep(s, kept) = f[Len(s)]
  BY KeepUnfolds
<1>2. Len(s) \in Nat /\ DOMAIN s = 1 .. Len(s) /\ \A i \in 1 .. Len(s) : s[i] \in S
  OBVIOUS
<1> DEFINE Seen(i) == {s[j] : j \in 1 .. i}
           Good == {i \in 0 .. Len(s) : /\ ToSet(f[i]) = Seen(i) \cap kept
                                        /\ IsInjective(s) => IsInjective(f[i])}
<1>3. 0 \in Good
  <2>1. ToSet(<<>>) = {} /\ IsInjective(<<>>) /\ Seen(0) = {}
    BY EmptyList
  <2> QED
    BY <1>1, <1>2, <2>1 DEF IsKeeping
<1>4. ASSUME NEW i \in 1 .. Len(s), i - 1 \in Good
      PROVE  i \in Good
  <2>1. f[i - 1] \in Seq(S) /\ s[i] \in S
    BY <1>2
  <2>2. Seen(i) = Seen(i - 1) \cup {s[i]}
    BY <1>2
  <2>3. IsInjective(s) => s[i] \notin Seen(i - 1)
    BY <1>2 DEF IsInjective
  <2> HIDE DEF Seen
  <2>4. CASE s[i] \in kept
    <3>1. f[i] = Append(f[i - 1], s[i])
      BY <1>1, <2>4 DEF IsKeeping
    <3>2. /\ ToSet(f[i]) = ToSet(f[i - 1]) \cup {s[i]}
          /\ IsInjective(f[i - 1]) /\ s[i] \notin ToSet(f[i - 1]) => IsInjective(f[i])
      BY <2>1, <3>1, AppendAdds
    <3> QED
      BY <1>4, <2>2, <2>3, <2>4, <3>2
  <2>5. CASE s[i] \notin kept
    <3>1. f[i] = f[i - 1]
      BY <1>1, <2>5 DEF IsKeeping
    <3> QED
      BY <1>4, <2>2, <2>5, <3>1
  <2> QED
    BY <2>4, <2>5
<1> HIDE DEF Good
<1>5. 0 .. Len(s) \subseteq Good
  BY <1>2, <1>3, <1>4, UpTo
<1>6. Len(s) \in Good
  BY <1>2, <1>5
<1>7. ToSet(s) = {s[j] : j \in 1 .. Len(s)}
  BY <1>2 DEF ToSet
<1> QED
  BY <1>1, <1>2, <1>6, <1>7 DEF Good
=============================================================================
