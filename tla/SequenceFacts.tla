---------------------------- MODULE SequenceFacts ----------------------------
(* What the proofs of several modules need to know about sequences: the      *)
(* elements of an Append, a Tail, a concatenation and a removal, and when    *)
(* each element occurs once.                                                 *)
EXTENDS Integers, Sequences, FiniteSets, Functions, Listings,
        FiniteSetTheorems, SequenceTheorems, TLAPS

\* A function on 1..m is a sequence, the empty one if m is negative.
LEMMA FunctionIsSeq ==
    ASSUME NEW S, NEW m \in Int, NEW f \in [1..m -> S]
    PROVE  f \in Seq(S) /\ DOMAIN f = 1..m /\ Len(f) = IF m >= 0 THEN m ELSE 0
<1>1. CASE m \in Nat
  BY <1>1
<1>2. CASE m \notin Nat
  <2>1. 1..m = 1..0
    BY <1>2
  <2>2. f \in [1..0 -> S]
    BY <2>1
  <2>3. QED
    BY <2>1, <2>2, <1>2
<1>3. QED
  BY <1>1, <1>2

\* A sequence over a set is one over any set that contains it.
LEMMA WiderSeq ==
    ASSUME NEW S, NEW T, S \subseteq T, NEW s \in Seq(S)
    PROVE  s \in Seq(T)
<1>1. s \in [1..Len(s) -> S] /\ Len(s) \in Nat
  BY LenProperties
<1>2. s \in [1..Len(s) -> T]
  BY <1>1
<1> QED
  BY <1>1, <1>2, FunctionIsSeq

\* What is left of a sequence without its first n elements.
LEMMA SuffixProperties ==
    ASSUME NEW S, NEW s \in Seq(S), NEW n \in Nat
    PROVE  LET t == SubSeq(s, n + 1, Len(s))
           IN  /\ t \in Seq(S)
               /\ \A i : i \in DOMAIN t <=> i \in Nat \ {0} /\ n + i \in DOMAIN s
               /\ \A i \in DOMAIN t : t[i] = s[n + i]
<1> DEFINE t == SubSeq(s, n + 1, Len(s))
<1>1. Len(s) \in Nat /\ DOMAIN s = 1..Len(s) /\ \A i \in n + 1 .. Len(s) : s[i] \in S
  OBVIOUS
<1>2. /\ t \in Seq(S)
      /\ Len(t) = IF n + 1 <= Len(s) THEN Len(s) - (n + 1) + 1 ELSE 0
      /\ \A i \in 1..Len(s) - (n + 1) + 1 : t[i] = s[n + 1 + i - 1]
  BY <1>1, SubSeqProperties
<1> HIDE DEF t
<1>3. DOMAIN t = 1..Len(s) - n
  <2>1. DOMAIN t = 1..Len(t)
    BY <1>2
  <2>2. CASE n + 1 <= Len(s)
    <3>1. Len(t) = Len(s) - n
      BY <1>1, <1>2, <2>2
    <3>2. QED
      BY <2>1, <3>1
  <2>3. CASE ~(n + 1 <= Len(s))
    <3>1. 1..0 = 1..Len(s) - n
      BY <1>1, <2>3
    <3>2. Len(t) = 0
      BY <1>2, <2>3
    <3>3. QED
      BY <2>1, <3>1, <3>2
  <2>4. QED
    BY <2>2, <2>3
<1>4. \A i : i \in DOMAIN t <=> i \in Nat \ {0} /\ n + i \in DOMAIN s
  BY <1>1, <1>3
<1>5. \A i \in DOMAIN t : i \in 1..Len(s) - (n + 1) + 1 /\ n + 1 + i - 1 = n + i
  BY <1>1, <1>3
<1>6. QED
  BY <1>2, <1>4, <1>5 DEF t

\* The elements of a concatenation; it is injective if its parts are and they
\* have no element in common.
LEMMA ConcatRange ==
    ASSUME NEW S, NEW s \in Seq(S), NEW t \in Seq(S)
    PROVE  /\ s \o t \in Seq(S)
           /\ Range(s \o t) = Range(s) \cup Range(t)
           /\ IsInjective(s) /\ IsInjective(t) /\ Range(s) \cap Range(t) = {}
                => IsInjective(s \o t)
<1> DEFINE u == s \o t
           m == Len(s)
           n == Len(t)
<1>1. /\ m \in Nat /\ n \in Nat /\ DOMAIN s = 1..m /\ DOMAIN t = 1..n
      /\ u \in Seq(S) /\ DOMAIN u = 1..(m + n)
      /\ \A i \in 1..(m + n) : u[i] = IF i <= m THEN s[i] ELSE t[i - m]
  BY ConcatProperties
<1> HIDE DEF u, m, n
<1>2. \A i \in 1..m : i \in 1..(m + n) /\ u[i] = s[i]
  BY <1>1
<1>3. \A i \in 1..n : m + i \in 1..(m + n) /\ u[m + i] = t[i]
  <2>1. \A i \in 1..n : m + i \in 1..(m + n) /\ ~(m + i <= m) /\ (m + i) - m = i
    BY <1>1
  <2>2. QED
    BY <1>1, <2>1
<1>4. \A i \in 1..(m + n) : \/ i \in 1..m /\ u[i] = s[i]
                            \/ i - m \in 1..n /\ u[i] = t[i - m]
  BY <1>1
<1>5. Range(u) = Range(s) \cup Range(t)
  <2>1. \A x \in Range(u) : x \in Range(s) \cup Range(t)
    BY <1>1, <1>4 DEF Range
  <2>2. \A x \in Range(s) : x \in Range(u)
    BY <1>1, <1>2 DEF Range
  <2>3. \A x \in Range(t) : x \in Range(u)
    <3>1. SUFFICES ASSUME NEW i \in 1..n
                   PROVE  t[i] \in Range(u)
      BY <1>1 DEF Range
    <3>2. QED
      BY <1>1, <1>3 DEF Range
  <2>4. QED
    BY <2>1, <2>2, <2>3
<1>6. ASSUME IsInjective(s), IsInjective(t), Range(s) \cap Range(t) = {},
             NEW i \in 1..(m + n), NEW j \in 1..(m + n), u[i] = u[j]
      PROVE  i = j
  <2>1. CASE i \in 1..m /\ u[i] = s[i] /\ j \in 1..m /\ u[j] = s[j]
    BY <1>1, <1>6, <2>1 DEF IsInjective
  <2>2. CASE i - m \in 1..n /\ u[i] = t[i - m] /\ j - m \in 1..n /\ u[j] = t[j - m]
    <3>1. i - m = j - m
      BY <1>1, <1>6, <2>2 DEF IsInjective
    <3>2. QED
      BY <1>1, <3>1
  <2>3. \A k \in 1..m, l \in 1..n : s[k] # t[l]
    BY <1>1, <1>6 DEF Range
  <2>4. QED
    BY <1>4, <1>6, <2>1, <2>2, <2>3
<1>7. QED
  BY <1>1, <1>5, <1>6 DEF u, IsInjective

\* The elements of a sequence with one more at its end.
LEMMA AppendRange ==
    ASSUME NEW S, NEW s \in Seq(S), NEW x \in S
    PROVE  /\ Append(s, x) \in Seq(S)
           /\ Len(Append(s, x)) = Len(s) + 1
           /\ Range(Append(s, x)) = Range(s) \cup {x}
           /\ IsInjective(s) /\ x \notin Range(s) => IsInjective(Append(s, x))
           /\ Head(Append(s, x)) = IF s = <<>> THEN x ELSE Head(s)
<1> DEFINE t == Append(s, x)
           n == Len(s)
<1>1. /\ n \in Nat /\ DOMAIN s = 1..n /\ t \in Seq(S) /\ DOMAIN t = 1..(n + 1)
      /\ Len(t) = n + 1
      /\ \A i \in 1..n : t[i] = s[i]
      /\ t[n + 1] = x
  BY AppendProperties
<1>2. Head(t) = IF s = <<>> THEN x ELSE Head(s)
  BY HeadTailAppend
<1> HIDE DEF t, n
<1>3. \A i \in 1..(n + 1) : i \in 1..n \/ i = n + 1
  BY <1>1
<1>4. \A i \in 1..n : i \in 1..(n + 1) /\ i # n + 1
  BY <1>1
<1>5. Range(t) = Range(s) \cup {x}
  BY <1>1, <1>3, <1>4 DEF Range
<1>6. IsInjective(s) /\ x \notin Range(s) => IsInjective(t)
  BY <1>1, <1>3, <1>4 DEF Range, IsInjective
<1>7. QED
  BY <1>1, <1>2, <1>5, <1>6 DEF t, n

\* The elements of a sequence without its first one.
LEMMA TailRange ==
    ASSUME NEW S, NEW s \in Seq(S), s # <<>>
    PROVE  /\ Tail(s) \in Seq(S) /\ Head(s) \in Range(s)
           /\ Len(Tail(s)) = Len(s) - 1 /\ Len(s) \in Nat \ {0}
           /\ Range(s) = Range(Tail(s)) \cup {Head(s)}
           /\ IsInjective(s) => IsInjective(Tail(s)) /\ Head(s) \notin Range(Tail(s))
<1> DEFINE t == Tail(s)
           n == Len(s)
<1>1. /\ n \in Nat \ {0} /\ DOMAIN s = 1..n /\ t \in Seq(S) /\ DOMAIN t = 1..(n - 1)
      /\ Len(t) = n - 1
      /\ \A i \in 1..(n - 1) : t[i] = s[i + 1]
      /\ Head(s) = s[1]
  BY HeadTailProperties, EmptySeq
<1> HIDE DEF t, n
<1>2. \A i \in 1..n : i = 1 \/ (i - 1 \in 1..(n - 1) /\ (i - 1) + 1 = i)
  BY <1>1
<1>3. \A i \in 1..(n - 1) : i + 1 \in 1..n /\ i + 1 # 1
  BY <1>1
<1>4. 1 \in 1..n
  BY <1>1
<1>5. Range(s) = Range(t) \cup {Head(s)}
  <2>1. ASSUME NEW i \in 1..n
        PROVE  s[i] \in Range(t) \cup {Head(s)}
    <3>1. CASE i = 1
      BY <1>1, <3>1
    <3>2. CASE i # 1
      <4>1. i - 1 \in DOMAIN t /\ t[i - 1] = s[(i - 1) + 1] /\ (i - 1) + 1 = i
        BY <1>1, <1>2, <3>2
      <4> QED
        BY <4>1 DEF Range
    <3> QED
      BY <3>1, <3>2
  <2>2. ASSUME NEW i \in 1..(n - 1)
        PROVE  t[i] \in Range(s)
    BY <1>1, <1>3 DEF Range
  <2>3. Range(s) = {s[i] : i \in 1..n} /\ Range(t) = {t[i] : i \in 1..(n - 1)}
    BY <1>1 DEF Range
  <2>4. Head(s) \in Range(s)
    BY <1>1, <1>4, <2>3
  <2>5. QED
    BY <2>1, <2>2, <2>3, <2>4
<1>6. ASSUME IsInjective(s)
      PROVE  IsInjective(t) /\ Head(s) \notin Range(t)
  <2>1. ASSUME NEW i \in 1..(n - 1), NEW j \in 1..(n - 1), t[i] = t[j]
        PROVE  i = j
    <3>1. s[i + 1] = s[j + 1] /\ i + 1 \in DOMAIN s /\ j + 1 \in DOMAIN s
      BY <1>1, <1>3, <2>1
    <3>2. i + 1 = j + 1
      BY ONLY <1>6, <3>1 DEF IsInjective
    <3>3. QED
      BY <3>2
  <2>2. ASSUME NEW i \in 1..(n - 1)
        PROVE  t[i] # s[1]
    BY <1>1, <1>3, <1>4, <1>6 DEF IsInjective
  <2>3. QED
    BY <1>1, <2>1, <2>2 DEF Range, IsInjective
<1>7. QED
  BY <1>1, <1>4, <1>5, <1>6 DEF t, n, Range

\* A sequence that has each element once is as long as it has elements.
LEMMA InjectiveLength ==
    ASSUME NEW S, NEW s \in Seq(S), IsInjective(s)
    PROVE  IsFiniteSet(Range(s)) /\ Cardinality(Range(s)) = Len(s)
<1> DEFINE n == Len(s)
<1>1. n \in Nat /\ DOMAIN s = 1..n /\ s \in [1..n -> S]
  BY LenProperties
<1>2. s \in Bijection(1..n, Range(s))
  <2>1. s \in [1..n -> Range(s)]
    BY <1>1 DEF Range
  <2>2. \A x \in Range(s) : \E i \in 1..n : s[i] = x
    BY <1>1 DEF Range
  <2>3. QED
    BY <2>1, <2>2 DEF Bijection, Injection, Surjection
<1>3. ExistsBijection(1..n, Range(s))
  BY <1>2 DEF ExistsBijection
<1>4. QED
  BY <1>1, <1>3, FS_NatBijection, FS_CountingElements

\* A sequence cut in two: the parts share nothing if it has each element once.
LEMMA SplitRange ==
    ASSUME NEW S, NEW s \in Seq(S), NEW n \in 0..Len(s)
    PROVE  LET front == SubSeq(s, 1, n)
               back == SubSeq(s, n + 1, Len(s))
           IN  /\ front \in Seq(S) /\ back \in Seq(S)
               /\ Len(front) = n /\ \A i \in 1..n : front[i] = s[i]
               /\ Range(s) = Range(front) \cup Range(back)
               /\ IsInjective(s) => /\ IsInjective(front) /\ IsInjective(back)
                                    /\ Range(front) \cap Range(back) = {}
<1> DEFINE front == SubSeq(s, 1, n)
           back == SubSeq(s, n + 1, Len(s))
<1>1. Len(s) \in Nat /\ DOMAIN s = 1..Len(s) /\ n \in Nat /\ n <= Len(s)
  OBVIOUS
<1>2. /\ back \in Seq(S)
      /\ \A i : i \in DOMAIN back <=> i \in Nat \ {0} /\ n + i \in DOMAIN s
      /\ \A i \in DOMAIN back : back[i] = s[n + i]
  BY <1>1, SuffixProperties
<1>3. /\ front \in Seq(S) /\ Len(front) = n /\ DOMAIN front = 1..n
      /\ \A i \in 1..n : front[i] = s[i]
  <2>1. \A i \in 1..n : s[i] \in S
    BY <1>1
  <2>2. front \in Seq(S) /\ Len(front) = n /\ \A i \in 1..n : front[i] = s[i]
    BY <1>1, <2>1, SubSeqProperties
  <2>3. QED
    BY <2>2
<1> HIDE DEF front, back
<1>4. Range(s) = Range(front) \cup Range(back)
  <2>1. ASSUME NEW x \in Range(s)
        PROVE  x \in Range(front) \cup Range(back)
    <3>1. PICK i \in DOMAIN s : x = s[i]
      BY <2>1 DEF Range
    <3>2. CASE i <= n
      BY <1>1, <1>3, <3>1, <3>2 DEF Range
    <3>3. CASE ~(i <= n)
      <4>1. i - n \in Nat \ {0} /\ n + (i - n) = i
        BY <1>1, <3>1, <3>3
      <4>2. i - n \in DOMAIN back /\ back[i - n] = x
        BY <1>2, <3>1, <4>1
      <4>3. QED
        BY <4>2 DEF Range
    <3>4. QED
      BY <3>2, <3>3
  <2>2. ASSUME NEW x \in Range(front) \cup Range(back)
        PROVE  x \in Range(s)
    <3>1. CASE x \in Range(front)
      BY <1>1, <1>3, <3>1 DEF Range
    <3>2. CASE x \in Range(back)
      BY <1>2, <3>2 DEF Range
    <3>3. QED
      BY <2>2, <3>1, <3>2
  <2>3. QED
    BY <2>1, <2>2
<1>5. ASSUME IsInjective(s)
      PROVE  /\ IsInjective(front) /\ IsInjective(back)
             /\ Range(front) \cap Range(back) = {}
  <2>1. \A i, j \in DOMAIN s : s[i] = s[j] => i = j
    BY <1>5 DEF IsInjective
  <2>2. \A i, j \in DOMAIN front : front[i] = front[j] => i = j
    BY <1>1, <1>3, <2>1
  <2>3. \A i, j \in DOMAIN back : back[i] = back[j] => n + i = n + j
    BY <1>2, <2>1
  <2>4. \A i, j \in DOMAIN back : back[i] = back[j] => i = j
    BY <1>1, <1>2, <2>3
  <2>5. ASSUME NEW x \in Range(front), x \in Range(back)
        PROVE  FALSE
    <3>1. PICK i \in 1..n : x = s[i]
      BY <1>3, <2>5 DEF Range
    <3>2. PICK j \in DOMAIN back : x = s[n + j]
      BY <1>2, <2>5 DEF Range
    <3>3. j \in Nat \ {0} /\ n + j \in DOMAIN s /\ i \in DOMAIN s
      BY <1>1, <1>2
    <3>4. i = n + j
      BY <2>1, <3>1, <3>2, <3>3
    <3>5. QED
      BY <1>1, <3>3, <3>4
  <2>6. QED
    BY <2>2, <2>4, <2>5 DEF IsInjective
<1>6. QED
  BY <1>2, <1>3, <1>4, <1>5 DEF front, back

\* A sequence that has each element once, without its element at place i.
LEMMA RemovalRange ==
    ASSUME NEW S, NEW s \in Seq(S), IsInjective(s), NEW i \in DOMAIN s
    PROVE  LET t == SubSeq(s, 1, i - 1) \o SubSeq(s, i + 1, Len(s))
           IN  /\ t \in Seq(S) /\ IsInjective(t)
               /\ Len(t) = Len(s) - 1
               /\ Range(t) = Range(s) \ {s[i]}
<1> DEFINE n == Len(s)
           a == SubSeq(s, 1, i - 1)
           b == SubSeq(s, i + 1, n)
<1>1. n \in Nat /\ DOMAIN s = 1..n /\ i \in 1..n /\ \A j \in 1..n : s[j] \in S
  BY LenProperties, ElementOfSeq
<1>2. /\ a \in Seq(S) /\ Len(a) = i - 1 /\ DOMAIN a = 1..(i - 1)
      /\ \A j \in 1..(i - 1) : a[j] = s[j]
  <2>1. \A j \in 1..(i - 1) : s[j] \in S
    BY <1>1
  <2>2. /\ a \in Seq(S)
        /\ Len(a) = IF 1 <= i - 1 THEN (i - 1) - 1 + 1 ELSE 0
        /\ \A j \in 1 .. (i - 1) - 1 + 1 : a[j] = s[1 + j - 1]
    BY <1>1, <2>1, SubSeqProperties
  <2> HIDE DEF a
  <2>3. Len(a) = i - 1
    BY <1>1, <2>2
  <2>4. \A j \in 1..(i - 1) : j \in 1 .. (i - 1) - 1 + 1 /\ 1 + j - 1 = j
    BY <1>1
  <2>5. QED
    BY <2>2, <2>3, <2>4, LenProperties
<1>3. /\ b \in Seq(S) /\ Len(b) = n - i /\ DOMAIN b = 1..(n - i)
      /\ \A j \in 1..(n - i) : b[j] = s[i + j]
  <2>1. \A j \in (i + 1)..n : s[j] \in S
    BY <1>1
  <2>2. /\ b \in Seq(S)
        /\ Len(b) = IF i + 1 <= n THEN n - (i + 1) + 1 ELSE 0
        /\ \A j \in 1 .. n - (i + 1) + 1 : b[j] = s[i + 1 + j - 1]
    BY <1>1, <2>1, SubSeqProperties
  <2> HIDE DEF b
  <2>3. Len(b) = n - i
    BY <1>1, <2>2
  <2>4. \A j \in 1..(n - i) : j \in 1 .. n - (i + 1) + 1 /\ i + 1 + j - 1 = i + j
    BY <1>1
  <2>5. QED
    BY <2>2, <2>3, <2>4, LenProperties
<1> HIDE DEF a, b, n
<1>4. \A j \in 1..(i - 1) : j \in 1..n /\ j # i
  BY <1>1
<1>5. \A j \in 1..(n - i) : i + j \in 1..n /\ i + j # i /\ ~(i + j \in 1..(i - 1))
  BY <1>1
<1>6. \A j \in 1..n : \/ j \in 1..(i - 1) \/ j = i
                      \/ j - i \in 1..(n - i) /\ i + (j - i) = j
  BY <1>1
<1>7. IsInjective(a)
  BY <1>1, <1>2, <1>4 DEF IsInjective
<1>8. IsInjective(b)
  <2>1. SUFFICES ASSUME NEW j \in 1..(n - i), NEW k \in 1..(n - i), b[j] = b[k]
                 PROVE  j = k
    BY <1>3 DEF IsInjective
  <2>2. i + j = i + k
    BY <1>1, <1>3, <1>5, <2>1 DEF IsInjective
  <2>3. QED
    BY <1>1, <2>2
<1>9. Range(a) \cap Range(b) = {}
  <2>1. SUFFICES ASSUME NEW j \in 1..(i - 1), NEW k \in 1..(n - i), a[j] = b[k]
                 PROVE  FALSE
    BY <1>2, <1>3 DEF Range
  <2>2. s[j] = s[i + k] /\ j \in 1..n /\ i + k \in 1..n /\ j # i + k
    BY <1>2, <1>3, <1>4, <1>5, <2>1
  <2>3. QED
    BY <1>1, <2>2 DEF IsInjective
<1>10. Range(a) \cup Range(b) = Range(s) \ {s[i]}
  <2>1. ASSUME NEW j \in 1..(i - 1)
        PROVE  a[j] \in Range(s) \ {s[i]}
    BY <1>1, <1>2, <1>4 DEF Range, IsInjective
  <2>2. ASSUME NEW j \in 1..(n - i)
        PROVE  b[j] \in Range(s) \ {s[i]}
    BY <1>1, <1>3, <1>5 DEF Range, IsInjective
  <2>3. ASSUME NEW j \in 1..n, s[j] # s[i]
        PROVE  s[j] \in Range(a) \cup Range(b)
    BY <1>2, <1>3, <1>6, <2>3 DEF Range
  <2>4. \A x \in Range(a) \cup Range(b) : x \in Range(s) \ {s[i]}
    BY <1>2, <1>3, <2>1, <2>2 DEF Range
  <2>5. \A x \in Range(s) \ {s[i]} : x \in Range(a) \cup Range(b)
    BY <1>1, <2>3 DEF Range
  <2>6. QED
    BY <2>4, <2>5
<1>11. /\ a \o b \in Seq(S) /\ IsInjective(a \o b)
       /\ Range(a \o b) = Range(a) \cup Range(b)
  BY <1>2, <1>3, <1>7, <1>8, <1>9, ConcatRange
<1>12. Len(a \o b) = n - 1
  <2>1. Len(a \o b) = Len(a) + Len(b)
    BY <1>2, <1>3, ConcatProperties
  <2>2. QED
    BY <1>1, <1>2, <1>3, <2>1
<1>13. QED
  BY <1>10, <1>11, <1>12 DEF a, b, n

\* Two sets whose elements correspond one to one have the same size.
LEMMA SameSize ==
    ASSUME NEW S, NEW T, IsFiniteSet(T), NEW f \in [S -> T],
           \A x, y \in S : f[x] = f[y] => x = y,
           \A z \in T : \E x \in S : f[x] = z
    PROVE  IsFiniteSet(S) /\ Cardinality(S) = Cardinality(T)
<1>1. f \in Injection(S, T)
  BY DEF Injection, IsInjective
<1>2. f \in Surjection(S, T)
  BY DEF Surjection
<1> QED
  BY <1>1, <1>2, FS_Injection

-----------------------------------------------------------------------------
(* Induction *)

\* Every set of naturals that is not empty has a least element.
LEMMA LeastNat ==
    ASSUME NEW T \in SUBSET Nat, T # {}
    PROVE  \E x \in T : \A y \in T : x <= y
<1> DEFINE R == OpToRel(<, Nat)
<1>1. IsWellFoundedOn(R, Nat)
  BY NatLessThanWellFounded, Zenon
<1> HIDE DEF R
<1>2. PICK x \in T : \A y \in T : ~(<<y, x>> \in R)
  BY <1>1, WFMin
<1>3. \A y \in Nat : y < x => <<y, x>> \in R
  BY DEF R, OpToRel
<1>4. x \in Nat /\ \A y \in T : y \in Nat /\ ~(y < x)
  BY <1>2, <1>3
<1> QED
  BY <1>4

\* The two sequences of the same length that agree everywhere are equal.
LEMMA SameSequence ==
    ASSUME NEW S, NEW s \in Seq(S), NEW t \in Seq(S), Len(s) = Len(t),
           \A i \in 1..Len(s) : s[i] = t[i]
    PROVE  s = t
<1>1. DOMAIN s = 1..Len(s) /\ DOMAIN t = 1..Len(s)
  BY LenProperties
<1>2. s = [i \in 1..Len(s) |-> s[i]] /\ t = [i \in 1..Len(s) |-> t[i]]
  BY <1>1, LenProperties
<1> QED
  BY <1>2

\* The ends of two sequences put together.
LEMMA ConcatEnds ==
    ASSUME NEW S, NEW s \in Seq(S), NEW t \in Seq(S)
    PROVE  /\ s # <<>> => /\ s \o t # <<>> /\ Head(s \o t) = Head(s)
                          /\ Tail(s \o t) = Tail(s) \o t
           /\ s = <<>> => s \o t = t
           /\ t = <<>> => s \o t = s
           /\ \A x \in S : Append(s \o t, x) = s \o Append(t, x)
           /\ s \o t \in Seq(S)
<1>1. ASSUME s # <<>>
      PROVE  s \o t # <<>> /\ Head(s \o t) = Head(s) /\ Tail(s \o t) = Tail(s) \o t
  <2> DEFINE u == s \o t
             v == Tail(s) \o t
             m == Len(s)
             n == Len(t)
  <2>1. /\ m \in Nat \ {0} /\ n \in Nat /\ u \in Seq(S) /\ Len(u) = m + n
        /\ \A i \in 1..(m + n) : u[i] = IF i <= m THEN s[i] ELSE t[i - m]
    BY <1>1, ConcatProperties, EmptySeq
  <2>2. /\ Tail(s) \in Seq(S) /\ Len(Tail(s)) = m - 1
        /\ \A i \in 1..(m - 1) : Tail(s)[i] = s[i + 1]
        /\ Head(s) = s[1]
    BY <1>1, <2>1, HeadTailProperties
  <2>3. /\ v \in Seq(S) /\ Len(v) = m - 1 + n
        /\ \A i \in 1..(m - 1 + n) : v[i] = IF i <= m - 1 THEN Tail(s)[i] ELSE t[i - (m - 1)]
    BY <2>1, <2>2, ConcatProperties
  <2> HIDE DEF u, v, m, n
  <2>4. u # <<>> /\ Head(u) = u[1] /\ u[1] = s[1]
    BY <2>1, HeadTailProperties
  <2>5. /\ Tail(u) \in Seq(S) /\ Len(Tail(u)) = m - 1 + n
        /\ \A i \in 1..(m - 1 + n) : Tail(u)[i] = u[i + 1]
    BY <2>1, <2>4, HeadTailProperties
  <2>6. ASSUME NEW i \in 1..(m - 1 + n)
        PROVE  Tail(u)[i] = v[i]
    <3>1. i + 1 \in 1..(m + n) /\ i + 1 - m = i - (m - 1) /\ (i + 1 <= m <=> i <= m - 1)
      BY <2>1
    <3>2. i <= m - 1 => i \in 1..(m - 1)
      BY <2>1
    <3>3. u[i + 1] = IF i <= m - 1 THEN s[i + 1] ELSE t[i - (m - 1)]
      BY <2>1, <3>1
    <3> QED
      BY <2>2, <2>3, <2>5, <3>2, <3>3
  <2>7. Tail(u) = v
    BY <2>3, <2>5, <2>6, SameSequence
  <2> QED
    BY <2>2, <2>4, <2>7 DEF u, v
<1>2. s = <<>> => s \o t = t
  BY ConcatEmptySeq
<1>3. t = <<>> => s \o t = s
  BY ConcatEmptySeq
<1>4. s \o t \in Seq(S)
  BY ConcatProperties
<1>5. ASSUME NEW x \in S
      PROVE  Append(s \o t, x) = s \o Append(t, x)
  <2> DEFINE u == Append(s \o t, x)
             v == s \o Append(t, x)
             m == Len(s)
             n == Len(t)
  <2>1. /\ m \in Nat /\ n \in Nat /\ Len(s \o t) = m + n
        /\ \A i \in 1..(m + n) : (s \o t)[i] = IF i <= m THEN s[i] ELSE t[i - m]
    BY ConcatProperties
  <2>2. /\ u \in Seq(S) /\ Len(u) = m + n + 1
        /\ \A i \in 1..(m + n) : u[i] = (s \o t)[i]
        /\ u[m + n + 1] = x
    BY <1>4, <2>1, AppendProperties
  <2>3. /\ Append(t, x) \in Seq(S) /\ Len(Append(t, x)) = n + 1
        /\ \A i \in 1..n : Append(t, x)[i] = t[i]
        /\ Append(t, x)[n + 1] = x
    BY <2>1, AppendProperties
  <2>4. /\ v \in Seq(S) /\ Len(v) = m + (n + 1)
        /\ \A i \in 1..(m + (n + 1)) : v[i] = IF i <= m THEN s[i] ELSE Append(t, x)[i - m]
    BY <2>3, ConcatProperties
  <2> HIDE DEF u, v, m, n
  <2>5. ASSUME NEW i \in 1..(m + n + 1)
        PROVE  u[i] = v[i]
    <3>1. CASE i <= m
      <4>1. i \in 1..(m + n) /\ i \in 1..(m + (n + 1))
        BY <2>1, <3>1
      <4>2. u[i] = s[i] /\ v[i] = s[i]
        BY <2>1, <2>2, <2>4, <3>1, <4>1
      <4> QED
        BY <4>2
    <3>2. CASE m < i /\ i <= m + n
      <4>1. i \in 1..(m + n) /\ i \in 1..(m + (n + 1)) /\ i - m \in 1..n /\ ~(i <= m)
        BY <2>1, <3>2
      <4>2. u[i] = t[i - m] /\ v[i] = t[i - m]
        BY <2>1, <2>2, <2>3, <2>4, <4>1
      <4> QED
        BY <4>2
    <3>3. CASE i = m + n + 1
      <4>1. i \in 1..(m + (n + 1)) /\ i - m = n + 1 /\ ~(i <= m)
        BY <2>1, <3>3
      <4>2. u[i] = x /\ v[i] = x
        BY <2>2, <2>3, <2>4, <3>3, <4>1
      <4> QED
        BY <4>2
    <3> QED
      BY <2>1, <3>1, <3>2, <3>3
  <2>6. u = v
    BY <2>1, <2>2, <2>4, <2>5, SameSequence
  <2> QED
    BY <2>6 DEF u, v
<1> QED
  BY <1>1, <1>2, <1>3, <1>4, <1>5

-----------------------------------------------------------------------------
(* Sets of numbers listed in increasing order *)

IsListing(q, S) ==
    /\ q \in [1..Cardinality(S) -> S]
    /\ \A i, j \in 1..Cardinality(S) : i < j => q[i] < q[j]

\* A listing has every number of the set, once.
LEMMA ListingFacts ==
    ASSUME NEW S \in SUBSET Nat, IsFiniteSet(S), NEW q, IsListing(q, S)
    PROVE  /\ q \in Seq(S) /\ IsInjective(q) /\ Range(q) = S
           /\ Len(q) = Cardinality(S) /\ DOMAIN q = 1..Cardinality(S)
<1>1. Cardinality(S) \in Nat
  BY FS_CardinalityType
<1>2. q \in Seq(S) /\ Len(q) = Cardinality(S) /\ DOMAIN q = 1..Cardinality(S)
  BY <1>1, FunctionIsSeq DEF IsListing
<1>3. \A i, j \in DOMAIN q : i = j \/ i < j \/ j < i
  BY <1>1, <1>2
<1>4. \A i \in DOMAIN q : q[i] \in Nat
  BY <1>2 DEF IsListing
<1>5. \A i, j \in DOMAIN q : i < j => q[i] < q[j]
  BY <1>2 DEF IsListing
<1>6. IsInjective(q)
  BY <1>3, <1>4, <1>5 DEF IsInjective
<1>a. Cardinality(Range(q)) = Cardinality(S)
  BY <1>2, <1>6, InjectiveLength
<1>b. Range(q) \in SUBSET S
  BY <1>2 DEF Range
<1>7. Range(q) \in SUBSET S /\ Cardinality(Range(q)) = Cardinality(S)
  BY <1>a, <1>b
<1> QED
  BY <1>2, <1>6, <1>7, FS_Subset

\* There is only one.
LEMMA ListingUnique ==
    ASSUME NEW S \in SUBSET Nat, IsFiniteSet(S),
           NEW p, IsListing(p, S), NEW q, IsListing(q, S)
    PROVE  p = q
<1> DEFINE n == Cardinality(S)
           D == {i \in 1..n : p[i] # q[i]}
<1>1. /\ n \in Nat /\ p \in [1..n -> S] /\ q \in [1..n -> S]
      /\ Range(p) = S /\ Range(q) = S /\ DOMAIN p = 1..n /\ DOMAIN q = 1..n
      /\ \A i, j \in 1..n : i < j => p[i] < p[j]
      /\ \A i, j \in 1..n : i < j => q[i] < q[j]
  BY FS_CardinalityType, ListingFacts DEF IsListing
<1> HIDE DEF n
<1>2. SUFFICES ASSUME D # {}
               PROVE  FALSE
  BY <1>1
<1>3. D \in SUBSET Nat
  BY <1>1
<1>4. PICK i \in D : \A j \in D : i <= j
  BY <1>2, <1>3, LeastNat
<1>5. i \in 1..n /\ p[i] # q[i] /\ p[i] \in Nat /\ q[i] \in Nat
  BY <1>1
<1>6. \A j \in 1..n : j < i => p[j] = q[j]
  BY <1>1, <1>4, <1>5
<1>7. CASE p[i] < q[i]
  <2>1. PICK j \in 1..n : q[j] = p[i]
    BY <1>1, <1>5 DEF Range
  <2>2. j < i \/ j = i \/ i < j
    BY <1>1, <1>5
  <2>3. q[j] \in Nat /\ p[j] \in Nat
    BY <1>1
  <2> QED
    BY <1>1, <1>5, <1>6, <1>7, <2>1, <2>2, <2>3
<1>8. CASE q[i] < p[i]
  <2>1. PICK j \in 1..n : p[j] = q[i]
    BY <1>1, <1>5 DEF Range
  <2>2. j < i \/ j = i \/ i < j
    BY <1>1, <1>5
  <2>3. q[j] \in Nat /\ p[j] \in Nat
    BY <1>1
  <2> QED
    BY <1>1, <1>5, <1>6, <1>8, <2>1, <2>2, <2>3
<1> QED
  BY <1>5, <1>7, <1>8

\* The least number goes in front of the listing of the others.
LEMMA ListingCons ==
    ASSUME NEW S \in SUBSET Nat, IsFiniteSet(S),
           NEW m \in S, \A x \in S : m <= x,
           NEW q, IsListing(q, S \ {m})
    PROVE  LET p == [i \in 1..Cardinality(S) |-> IF i = 1 THEN m ELSE q[i - 1]]
           IN  IsListing(p, S) /\ q = Tail(p) /\ Head(p) = m /\ p # <<>> /\ p \in Seq(S)
<1> DEFINE n == Cardinality(S)
           k == Cardinality(S \ {m})
           p == [i \in 1..n |-> IF i = 1 THEN m ELSE q[i - 1]]
<1>1. n \in Nat /\ k = n - 1 /\ k \in Nat /\ IsFiniteSet(S \ {m})
  BY FS_CardinalityType, FS_RemoveElement
<1>2. /\ q \in [1..k -> S \ {m}] /\ q \in Seq(S \ {m})
      /\ \A i, j \in 1..k : i < j => q[i] < q[j]
  BY <1>1, ListingFacts DEF IsListing
<1> HIDE DEF n, k
<1>3. \A i \in 1..n : i = 1 \/ i - 1 \in 1..k
  BY <1>1
<1>4. p \in [1..n -> S]
  BY <1>2, <1>3
<1>a. \A i \in 1..n : p[i] = IF i = 1 THEN m ELSE q[i - 1]
  OBVIOUS
<1>5. ASSUME NEW i \in 1..n, NEW j \in 1..n, i < j
      PROVE  p[i] < p[j]
  <2> HIDE DEF p
  <2>1. j - 1 \in 1..k /\ j # 1 /\ p[j] = q[j - 1]
    BY <1>1, <1>3, <1>5, <1>a
  <2>2. CASE i = 1
    <3>1. p[i] = m /\ q[j - 1] \in S /\ q[j - 1] # m
      BY <1>2, <2>1, <2>2, <1>a
    <3>2. m <= q[j - 1] /\ m \in Nat /\ q[j - 1] \in Nat
      BY <3>1
    <3> QED
      BY <2>1, <3>1, <3>2
  <2>3. CASE i # 1
    <3>1. i - 1 \in 1..k /\ p[i] = q[i - 1] /\ i - 1 < j - 1
      BY <1>1, <1>3, <1>5, <2>3, <1>a
    <3> QED
      BY <1>2, <2>1, <3>1
  <2> QED
    BY <2>2, <2>3
<1>6. IsListing(p, S)
  BY <1>4, <1>5 DEF IsListing, n
<1>7. p \in Seq(S) /\ Len(p) = n /\ n # 0 /\ p[1] = m
  BY <1>1, <1>4, FunctionIsSeq
<1>8. p # <<>> /\ Head(p) = m
  BY <1>1, <1>7
<1>9. Tail(p) = q
  <2> HIDE DEF p
  <2>1. Tail(p) \in Seq(S) /\ Len(Tail(p)) = k
    BY <1>1, <1>7, <1>8, HeadTailProperties
  <2>2. \A i \in 1..k : Tail(p)[i] = p[i + 1]
    BY <1>1, <1>7, <1>8, <2>1, HeadTailProperties
  <2>3. \A i \in 1..k : p[i + 1] = q[i]
    BY <1>1 DEF p
  <2>4. q \in Seq(S) /\ Len(q) = k
    BY <1>1, <1>2
  <2> QED
    BY <2>1, <2>2, <2>3, <2>4, SameSequence
<1> QED
  BY <1>6, <1>7, <1>8, <1>9 DEF n

\* Every finite set of numbers can be listed.
LEMMA ListingExists ==
    ASSUME NEW S \in SUBSET Nat, IsFiniteSet(S)
    PROVE  \E q : IsListing(q, S)
<1> DEFINE Bad == {n \in Nat : \E U \in SUBSET Nat :
                     IsFiniteSet(U) /\ Cardinality(U) = n /\ ~ \E q : IsListing(q, U)}
<1>1. SUFFICES ASSUME Bad # {}
               PROVE  FALSE
  BY FS_CardinalityType
<1>2. PICK n \in Bad : \A k \in Bad : n <= k
  BY <1>1, LeastNat
<1>3. PICK U \in SUBSET Nat :
        IsFiniteSet(U) /\ Cardinality(U) = n /\ ~ \E q : IsListing(q, U)
  BY <1>2
<1>4. U # {}
  <2> SUFFICES ASSUME U = {}
               PROVE  FALSE
    OBVIOUS
  <2>1. Cardinality(U) = 0
    BY FS_EmptySet
  <2>2. <<>> \in [1..0 -> U] /\ 1..0 = {}
    OBVIOUS
  <2>3. IsListing(<<>>, U)
    BY <2>1, <2>2 DEF IsListing
  <2> QED
    BY <1>3, <2>3
<1>5. PICK m \in U : \A x \in U : m <= x
  BY <1>4, LeastNat
<1>6. IsFiniteSet(U \ {m}) /\ Cardinality(U \ {m}) = n - 1 /\ n \in Nat
  BY <1>2, <1>3, FS_RemoveElement
<1>7. Cardinality(U \ {m}) \in Nat
  BY <1>6, FS_CardinalityType
<1>8. PICK q : IsListing(q, U \ {m})
  <2>1. n - 1 \notin Bad
    BY <1>2, <1>6
  <2> QED
    BY <1>6, <1>7, <2>1
<1>9. \E p : IsListing(p, U)
  BY <1>3, <1>5, <1>8, ListingCons
<1> QED
  BY <1>3, <1>9

\* So Listed is the listing.
LEMMA ListedIs ==
    ASSUME NEW S \in SUBSET Nat, IsFiniteSet(S)
    PROVE  /\ IsListing(Listed(S), S)
           /\ \A q : IsListing(q, S) => q = Listed(S)
<1>1. PICK p : IsListing(p, S)
  BY ListingExists
<1>2. IsListing(Listed(S), S)
  BY <1>1 DEF Listed, IsListing
<1> QED
  BY <1>2, ListingUnique

\* The listing without the least number is the tail.
LEMMA ListedTail ==
    ASSUME NEW S \in SUBSET Nat, IsFiniteSet(S),
           NEW m \in S, \A x \in S : m <= x
    PROVE  /\ Listed(S) # <<>> /\ Listed(S) \in Seq(S) /\ Head(Listed(S)) = m
           /\ Listed(S \ {m}) = Tail(Listed(S))
<1>1. IsFiniteSet(S \ {m})
  BY FS_RemoveElement
<1>2. IsListing(Listed(S \ {m}), S \ {m})
  BY <1>1, ListedIs
<1>3. PICK p : /\ IsListing(p, S) /\ Listed(S \ {m}) = Tail(p) /\ Head(p) = m
               /\ p # <<>> /\ p \in Seq(S)
  BY <1>2, ListingCons
<1>4. p = Listed(S)
  BY <1>3, ListedIs
<1> QED
  BY <1>3, <1>4

\* A number that is greater than all goes behind them.
LEMMA ListedAppend ==
    ASSUME NEW S \in SUBSET Nat, IsFiniteSet(S),
           NEW m \in Nat, \A x \in S : x < m
    PROVE  Listed(S \cup {m}) = Append(Listed(S), m)
<1> DEFINE n == Cardinality(S)
           q == Listed(S)
           p == Append(q, m)
<1>1. /\ n \in Nat /\ IsListing(q, S) /\ q \in Seq(S)
      /\ IsFiniteSet(S \cup {m}) /\ Cardinality(S \cup {m}) = n + 1
      /\ Len(q) = n
  BY FS_CardinalityType, FS_AddElement, ListedIs, ListingFacts
<1>2. /\ q \in [1..n -> S]
      /\ \A i, j \in 1..n : i < j => q[i] < q[j]
  BY <1>1 DEF IsListing
<1> HIDE DEF n, q
<1>3. /\ DOMAIN p = 1..(n + 1) /\ p \in Seq(S \cup {m}) /\ Len(p) = n + 1
      /\ \A i \in 1..n : p[i] = q[i]
      /\ p[n + 1] = m
  <2>1. q \in Seq(S \cup {m}) /\ m \in S \cup {m}
    BY <1>1
  <2> QED
    BY <1>1, <2>1, AppendProperties
<1> HIDE DEF p
<1>4. p \in [1..(n + 1) -> S \cup {m}]
  BY <1>3, LenProperties
<1>5. ASSUME NEW i \in 1..(n + 1), NEW j \in 1..(n + 1), i < j
      PROVE  p[i] < p[j]
  <2>1. i \in 1..n /\ (j \in 1..n \/ j = n + 1)
    BY <1>1, <1>5
  <2> QED
    BY <1>2, <1>3, <1>5, <2>1
<1>6. IsListing(p, S \cup {m})
  BY <1>1, <1>4, <1>5 DEF IsListing
<1> QED
  BY <1>1, <1>6, ListedIs DEF p, q

\* What a list made by Listed has.
LEMMA ListedProperties ==
    ASSUME NEW S \in SUBSET Nat, IsFiniteSet(S)
    PROVE  /\ Listed(S) \in Seq(S) /\ IsInjective(Listed(S)) /\ Range(Listed(S)) = S
           /\ Len(Listed(S)) = Cardinality(S)
BY ListedIs, ListingFacts

-----------------------------------------------------------------------------
(* Values made step by step *)

\* What holds at 0 and from each number to the next holds up to n.
LEMMA CountsUp ==
    ASSUME NEW n \in Nat, NEW G, 0 \in G, \A i \in 1..n : i - 1 \in G => i \in G
    PROVE  n \in G
<1> DEFINE Bad == {i \in 0..n : i \notin G}
<1> SUFFICES ASSUME Bad # {}
             PROVE  FALSE
  OBVIOUS
<1>1. Bad \in SUBSET Nat
  OBVIOUS
<1>2. PICK k \in Bad : \A j \in Bad : k <= j
  BY <1>1, LeastNat
<1>3. k \in 1..n /\ k - 1 \in 0..n /\ ~(k <= k - 1)
  BY <1>2
<1> QED
  BY <1>2, <1>3

\* n values of S after a, each made from the one before it.
IsChain(f, n, S, a, step) ==
    f \in [0..n -> S] /\ f[0] = a /\ \A i \in 1..n : f[i] = step[i][f[i - 1]]

\* A chain of values, each made from the one before it, exists.
LEMMA StepsExist ==
    ASSUME NEW n \in Nat, NEW S, NEW a \in S, NEW step \in [1..n -> [S -> S]]
    PROVE  \E f : IsChain(f, n, S, a, step)
<1> DEFINE Good(k, f) == IsChain(f, k, S, a, step)
           Bad == {k \in 0..n : ~ \E f : Good(k, f)}
<1> USE DEF IsChain
<1>a. n \in 0..n /\ Bad \in SUBSET Nat
  OBVIOUS
<1>1. SUFFICES ASSUME Bad # {}
               PROVE  FALSE
  <2>1. Bad = {} => \E f : Good(n, f)
    BY <1>a
  <2> QED
    BY <2>1
<1>2. PICK k \in Bad : \A j \in Bad : k <= j
  BY <1>1, <1>a, LeastNat
<1>3. k # 0
  <2>1. Good(0, [i \in 0..0 |-> a])
    OBVIOUS
  <2> QED
    BY <2>1
<1>4. k \in 1..n /\ k - 1 \in 0..n /\ ~(k <= k - 1)
  BY <1>3
<1>5. PICK f : Good(k - 1, f)
  BY <1>2, <1>4
<1> DEFINE g == [i \in 0..k |-> IF i = k THEN step[k][f[k - 1]] ELSE f[i]]
<1>6. Good(k, g)
  <2>1. \A i \in 0..k : i # k => i \in 0..(k - 1)
    BY <1>4
  <2>2. k - 1 \in 0..(k - 1) /\ f[k - 1] \in S
    BY <1>4, <1>5
  <2>3. g \in [0..k -> S]
    BY <1>4, <1>5, <2>1, <2>2
  <2>4. g[0] = a
    BY <1>4, <1>5
  <2>5. ASSUME NEW i \in 1..k
        PROVE  g[i] = step[i][g[i - 1]]
    <3>1. i \in 0..k /\ i - 1 \in 0..k /\ i - 1 # k
      BY <1>4
    <3>2. g[i - 1] = f[i - 1]
      BY <3>1
    <3>3. CASE i = k
      BY <3>1, <3>2, <3>3
    <3>4. CASE i # k
      <4>1. i \in 1..(k - 1)
        BY <1>4, <3>4
      <4> QED
        BY <1>5, <3>1, <3>2, <3>4, <4>1
    <3> QED
      BY <3>3, <3>4
  <2> QED
    BY <2>3, <2>4, <2>5
<1> QED
  BY <1>2, <1>6

\* What is kept of a sequence: its elements in T, each once if it was.
LEMMA KeptProperties ==
    ASSUME NEW S, NEW s \in Seq(S), NEW T
    PROVE  /\ Kept(s, T) \in Seq(S)
           /\ Range(Kept(s, T)) = Range(s) \cap T
           /\ IsInjective(s) => IsInjective(Kept(s, T))
           /\ Len(Kept(s, T)) <= Len(s)
<1> DEFINE n == Len(s)
           D == Seq(S)
           a == <<>>
           Longer(i, q) == IF s[i] \in T THEN Append(q, s[i]) ELSE q
           Rec(g) == g = [i \in 0..n |-> IF i = 0 THEN <<>>
                            ELSE IF s[i] \in T THEN Append(g[i - 1], s[i]) ELSE g[i - 1]]
           kept == CHOOSE g : Rec(g)
           step == [i \in 1..n |-> [q \in D |-> Longer(i, q)]]
<1>1. n \in Nat /\ DOMAIN s = 1..n /\ \A i \in 1..n : s[i] \in S
  BY LenProperties
<1>2. \A i \in 1..n : \A q \in D : Longer(i, q) \in D
  BY <1>1
<1>3. step \in [1..n -> [D -> D]]
  <2> HIDE DEF n, Longer, D
  <2> QED
    BY <1>2
<1>4. a \in D
  OBVIOUS
<1>5. \E f : IsChain(f, n, D, a, step)
  <2> HIDE DEF n, step, D, a
  <2> QED
    BY <1>1, <1>3, <1>4, StepsExist
<1>6. PICK f : Rec(f)
  <2>1. PICK f \in [0..n -> D] : f[0] = a /\ \A i \in 1..n : f[i] = step[i][f[i - 1]]
    BY <1>5 DEF IsChain
  <2> HIDE DEF n, D, a, step
  <2>2. \A i \in 1..n : f[i - 1] \in D /\ i \in 0..n /\ i # 0
    BY <1>1, <2>1
  <2> USE DEF a, step
  <2>3. \A i \in 1..n : f[i] = Longer(i, f[i - 1])
    BY <2>1, <2>2
  <2>4. \A i \in 0..n : i = 0 \/ i \in 1..n
    BY <1>1
  <2> QED
    BY <2>1, <2>3, <2>4, ZenonT(40)
<1>7. Rec(kept)
  BY <1>6
<1>8. Kept(s, T) = kept[n]
  BY DEF Kept
<1> HIDE DEF kept
<1>9. kept[0] = <<>> /\ \A i \in 1..n : kept[i] = Longer(i, kept[i - 1])
  <2>1. 0 \in 0..n /\ \A i \in 1..n : i \in 0..n /\ i # 0
    BY <1>1
  <2> QED
    BY <1>7, <2>1
<1> DEFINE Good(k) == /\ kept[k] \in Seq(S)
                      /\ \A x : x \in Range(kept[k]) <=> x \in T /\ \E j \in 1..k : s[j] = x
                      /\ IsInjective(s) => IsInjective(kept[k])
                      /\ Len(kept[k]) <= k
           G == {k \in 0..n : Good(k)}
<1> HIDE DEF n
<1>10. 0 \in G
  <2>1. IsInjective(<<>>) /\ Range(<<>>) = {}
    BY DEF IsInjective, Range
  <2>2. <<>> \in Seq(S) /\ Len(<<>>) = 0
    OBVIOUS
  <2>3. \A x : ~(x \in Range(<<>>)) /\ ~ \E j \in 1..0 : s[j] = x
    BY <2>1
  <2>4. Good(0)
    BY <1>9, <2>1, <2>2, <2>3
  <2> QED
    BY <1>1, <2>4
<1>11. ASSUME NEW k \in 1..n, k - 1 \in G
       PROVE  k \in G
  <2> DEFINE q == kept[k - 1]
  <2>1. /\ q \in Seq(S) /\ Len(q) <= k - 1
        /\ \A x : x \in Range(q) <=> x \in T /\ \E j \in 1..(k - 1) : s[j] = x
        /\ IsInjective(s) => IsInjective(q)
        /\ kept[k] = Longer(k, q)
    BY <1>9, <1>11
  <2> HIDE DEF q
  <2>2. /\ \A j \in 1..k : j \in 1..(k - 1) \/ j = k
        /\ \A j \in 1..(k - 1) : j \in 1..k /\ j \in 1..n /\ j # k
        /\ k \in 1..k /\ k \in 0..n /\ k \in Nat
    BY <1>1
  <2>3. s[k] \in S /\ (IsInjective(s) => s[k] \notin Range(q))
    <3>1. IsInjective(s) => \A j \in 1..(k - 1) : s[j] # s[k]
      BY <1>1, <2>2 DEF IsInjective
    <3> QED
      BY <1>1, <2>1, <3>1
  <2>4. CASE s[k] \in T
    <3>1. kept[k] = Append(q, s[k])
      BY <2>1, <2>4
    <3>2. /\ kept[k] \in Seq(S) /\ Range(kept[k]) = Range(q) \cup {s[k]}
          /\ IsInjective(s) => IsInjective(kept[k])
          /\ Len(kept[k]) = Len(q) + 1 /\ Len(q) \in Nat
      BY <2>1, <2>3, <3>1, AppendRange
    <3>3. Len(kept[k]) <= k
      BY <2>1, <2>2, <3>2
    <3> QED
      BY <2>1, <2>2, <2>4, <3>2, <3>3
  <2>5. CASE s[k] \notin T
    <3>1. kept[k] = q
      BY <2>1, <2>5
    <3>2. Len(q) <= k
      BY <2>1, <2>2
    <3> QED
      BY <2>1, <2>2, <2>5, <3>1, <3>2
  <2> QED
    BY <2>4, <2>5
<1>12. n \in G
  <2> HIDE DEF G
  <2> QED
    BY <1>1, <1>10, <1>11, CountsUp
<1>13. \A x : x \in Range(s) <=> \E j \in 1..n : s[j] = x
  BY <1>1 DEF Range
<1> QED
  BY <1>8, <1>12, <1>13 DEF n

=============================================================================
