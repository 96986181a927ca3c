--------------------------- MODULE SequenceLemmas ---------------------------
(***************************************************************************)
(* Induction over numbers and sequences, and definitions by recursion over   *)
(* sequences, in a form that the first-order provers can use: the statement  *)
(* that is proved by induction is a set, not an operator.  It rests on the   *)
(* theorem that a set with a well-founded relation has minimal elements.     *)
(***************************************************************************)
EXTENDS SequencesExt, SequenceTheorems, WellFoundedInduction, TLAPS

\* A set of naturals that is not empty has a least element.
LEMMA LeastNat ==
  ASSUME NEW T, T \subseteq Nat, T # {}
  PROVE  \E x \in T : \A y \in T : x <= y
<1>1. IsWellFoundedOn(OpToRel(<, Nat), Nat)
  BY NatLessThanWellFounded
<1>2. PICK x \in T : \A y \in T : ~ (<<y, x>> \in OpToRel(<, Nat))
  BY <1>1, WFMin
<1>3. \A y \in T : ~(y < x)
  BY <1>2 DEF OpToRel
<1> QED BY <1>3

\* Induction over the naturals: S has 0, and with a number the next.

LEMMA NatSet ==
  ASSUME NEW S, 0 \in S, \A n \in Nat : n \in S => n + 1 \in S
  PROVE  Nat \subseteq S
<1> DEFINE T == {n \in Nat : n \notin S}
<1>1. SUFFICES ASSUME T # {} PROVE FALSE
  OBVIOUS
<1>2. PICK x \in T : \A y \in T : x <= y
  <2> HIDE DEF T
  <2>1. T \subseteq Nat
    BY DEF T
  <2> QED BY <1>1, <2>1, LeastNat
<1> QED
  <2>1. x # 0
    BY <1>2
  <2>2. x - 1 \in Nat /\ x - 1 < x
    BY <2>1
  <2>3. x - 1 \in S
    BY <1>2, <2>2
  <2> QED BY <2>2, <2>3

\* What Min says of a set of naturals (FiniteSetsExt).
LEMMA MinOfNat ==
  ASSUME NEW T, T \subseteq Nat, T # {}
  PROVE  Min(T) \in T /\ \A y \in T : Min(T) <= y
BY LeastNat DEF Min

\* What Max says of a bounded one.
LEMMA MaxUpTo ==
  ASSUME NEW n \in Nat, NEW T, T \subseteq 0..n, T # {}
  PROVE  Max(T) \in T /\ \A y \in T : y <= Max(T)
<1> DEFINE U == {k \in 0..n : n - k \in T}
<1>1. U \subseteq Nat
  OBVIOUS
<1>2. U # {}
  <2>1. PICK x \in T : x \in 0..n
    OBVIOUS
  <2>2. n - x \in 0..n /\ n - (n - x) = x
    BY <2>1
  <2> QED BY <2>1, <2>2
<1>3. PICK k \in U : \A y \in U : k <= y
  <2> HIDE DEF U
  <2> QED BY <1>1, <1>2, LeastNat
<1>4. n - k \in T /\ k \in 0..n
  OBVIOUS
<1>5. ASSUME NEW y \in T
      PROVE  n - k >= y
  <2>1. y \in 0..n /\ n - y \in 0..n /\ n - (n - y) = y
    OBVIOUS
  <2>2. n - y \in U
    BY <2>1
  <2>3. k <= n - y
    BY <1>3, <2>2
  <2> QED BY <1>4, <2>1, <2>3
<1>6. \E x \in T : \A y \in T : x >= y
  BY <1>4, <1>5
<1>7. Max(T) \in T /\ \A y \in T : Max(T) >= y
  BY <1>6 DEF Max
<1>8. \A y \in T : y \in Int
  OBVIOUS
<1> QED BY <1>7, <1>8

\* A sequence that is not empty is its Front followed by its Last.
LEMMA FrontLast ==
  ASSUME NEW X, NEW s \in Seq(X), s # <<>>
  PROVE  /\ Len(s) \in Nat \ {0}
         /\ Front(s) \in Seq(X)
         /\ Len(Front(s)) = Len(s) - 1
         /\ Last(s) \in X
         /\ s = Append(Front(s), Last(s))
<1>1. Len(s) \in Nat \ {0}
  BY EmptySeq
<1>2. \A i \in 1..Len(s) - 1 : s[i] \in X
  BY <1>1
<1>3. /\ Front(s) \in Seq(X)
      /\ Len(Front(s)) = Len(s) - 1
      /\ \A i \in 1..Len(s) - 1 : Front(s)[i] = s[i]
  <2> DEFINE n == Len(s) - 1
  <2>1. n \in Int /\ (\A i \in 1..n : s[i] \in X) /\ n >= 0
    BY <1>1, <1>2
  <2> HIDE DEF n
  <2>2. /\ SubSeq(s, 1, n) \in Seq(X)
        /\ Len(SubSeq(s, 1, n)) = IF 1 <= n THEN n - 1 + 1 ELSE 0
        /\ \A i \in 1..n - 1 + 1 : SubSeq(s, 1, n)[i] = s[1 + i - 1]
    BY <2>1, SubSeqProperties
  <2>3. /\ Len(SubSeq(s, 1, n)) = n
        /\ \A i \in 1..n : SubSeq(s, 1, n)[i] = s[i]
    BY <2>1, <2>2
  <2> QED BY <2>2, <2>3 DEF Front, n
<1>4. Last(s) \in X
  BY <1>1 DEF Last
<1>5. s = Append(Front(s), Last(s))
  <2> DEFINE t == Append(Front(s), Last(s))
  <2>1. t \in Seq(X) /\ Len(t) = Len(s)
    BY <1>1, <1>3, <1>4
  <2>2. \A i \in 1..Len(s) : s[i] = t[i]
    BY <1>1, <1>3, <1>4 DEF Last
  <2> QED BY <2>1, <2>2, SeqEqual
<1> QED BY <1>1, <1>3, <1>4, <1>5

\* Front and Last take apart what Append put together.
LEMMA FrontLastOfAppend ==
  ASSUME NEW X, NEW s \in Seq(X), NEW x \in X
  PROVE  /\ Append(s, x) \in Seq(X)
         /\ Append(s, x) # <<>>
         /\ Front(Append(s, x)) = s
         /\ Last(Append(s, x)) = x
<1>1. Append(s, x) \in Seq(X) /\ Append(s, x) # <<>>
  BY AppendProperties
<1>2. Last(Append(s, x)) = x
  BY DEF Last
<1>3. Front(Append(s, x)) \in Seq(X) /\ Append(s, x) = Append(Front(Append(s, x)), Last(Append(s, x)))
  BY <1>1, FrontLast
<1>4. Front(Append(s, x)) = s
  BY <1>1, <1>2, <1>3, AppendInjective
<1> QED BY <1>1, <1>2, <1>4

\* Induction over sequences: S has the empty one, and with a sequence each that is
\* one element longer.
LEMMA SeqSet ==
  ASSUME NEW X, NEW S, <<>> \in S,
         \A s \in Seq(X), x \in X : s \in S => Append(s, x) \in S
  PROVE  Seq(X) \subseteq S
<1> DEFINE N == {n \in Nat : \A s \in Seq(X) : Len(s) = n => s \in S}
<1>1. 0 \in N
  OBVIOUS
<1>2. ASSUME NEW n \in Nat, n \in N
      PROVE  n + 1 \in N
  <2>1. ASSUME NEW s \in Seq(X), Len(s) = n + 1
        PROVE  s \in S
    <3>1. s # <<>>
      BY <2>1
    <3>2. /\ Front(s) \in Seq(X) /\ Len(Front(s)) = n
          /\ Last(s) \in X /\ s = Append(Front(s), Last(s))
      BY <2>1, <3>1, FrontLast
    <3> QED BY <1>2, <3>2
  <2> QED BY <2>1
<1>3. Nat \subseteq N
  <2> HIDE DEF N
  <2> QED BY <1>1, <1>2, NatSet
<1> QED BY <1>3

\* On the sequences in D, F goes from b by one step of g per element.
Follows(F, D, b, g) ==
  F = [s \in D |-> IF s = <<>> THEN b ELSE g[<<F[Front(s)], Last(s)>>]]

\* Such a function exists.  What is defined on all sequences up to a length is
\* extended to the next; two that are so defined agree where both are.
LEMMA SeqRecursion ==
  ASSUME NEW X, NEW T, NEW b \in T, NEW g \in [T \X X -> T]
  PROVE  \E F \in [Seq(X) -> T] : Follows(F, Seq(X), b, g)
<1> DEFINE Up(k) == {s \in Seq(X) : Len(s) <= k}
           A(k) == {F \in [Up(k) -> T] : Follows(F, Up(k), b, g)}
           N == {n \in Nat : A(n) # {}}
<1>1. 0 \in N
  <2> DEFINE F == [s \in Up(0) |-> b]
  <2>1. \A s \in Up(0) : s = <<>>
    OBVIOUS
  <2>2. F \in A(0)
    BY <2>1 DEF Follows
  <2> QED BY <2>2
<1>2. ASSUME NEW n \in Nat, n \in N
      PROVE  n + 1 \in N
  <2>1. PICK F : F \in A(n)
    BY <1>2
  <2> DEFINE G == [s \in Up(n + 1) |-> IF s = <<>> THEN b ELSE g[<<F[Front(s)], Last(s)>>]]
  <2>2. \A s \in Up(n) : G[s] = F[s]
    BY <2>1 DEF Follows
  <2>3. \A s \in Up(n + 1) : s # <<>> => Front(s) \in Up(n) /\ Last(s) \in X
    BY FrontLast
  <2>4. G \in [Up(n + 1) -> T]
    BY <2>1, <2>3
  <2>5. \A s \in Up(n + 1) : s # <<>> => G[Front(s)] = F[Front(s)]
    BY <2>2, <2>3
  <2>6. Follows(G, Up(n + 1), b, g)
    BY <2>4, <2>5 DEF Follows
  <2>7. G \in A(n + 1)
    <3> HIDE DEF G
    <3> QED BY <2>4, <2>6
  <2>8. A(n + 1) # {}
    <3> HIDE DEF A, G
    <3> QED BY <2>7
  <2> QED
    <3> HIDE DEF A
    <3> QED BY <2>8
<1>3. \A n \in Nat : A(n) # {}
  <2>1. Nat \subseteq N
    <3> HIDE DEF N
    <3> QED BY <1>1, <1>2, NatSet
  <2> QED BY <2>1
<1>4. ASSUME NEW m \in Nat, NEW n \in Nat, NEW F \in A(m), NEW G \in A(n)
      PROVE  \A s \in Seq(X) : Len(s) <= m /\ Len(s) <= n => F[s] = G[s]
  <2> DEFINE E == {s \in Seq(X) : Len(s) <= m /\ Len(s) <= n => F[s] = G[s]}
  <2>1. <<>> \in E
    <3>1. <<>> \in Seq(X) /\ <<>> \in Up(m) /\ <<>> \in Up(n)
      OBVIOUS
    <3>2. F[<<>>] = b /\ G[<<>>] = b
      BY <3>1 DEF Follows
    <3> QED BY <3>1, <3>2
  <2>2. ASSUME NEW s \in Seq(X), NEW x \in X, s \in E
        PROVE  Append(s, x) \in E
    <3>1. Append(s, x) \in Seq(X) /\ Append(s, x) # <<>> /\ Front(Append(s, x)) = s /\ Last(Append(s, x)) = x
          /\ Len(Append(s, x)) = Len(s) + 1
      BY FrontLastOfAppend
    <3>2. SUFFICES ASSUME Len(s) + 1 <= m, Len(s) + 1 <= n
                   PROVE  F[Append(s, x)] = G[Append(s, x)]
      BY <3>1
    <3>3. F[s] = G[s]
      BY <2>2, <3>2
    <3>4. F[Append(s, x)] = g[<<F[s], x>>]
      BY <3>1, <3>2 DEF Follows
    <3>5. G[Append(s, x)] = g[<<G[s], x>>]
      BY <3>1, <3>2 DEF Follows
    <3> QED BY <3>3, <3>4, <3>5
  <2>3. Seq(X) \subseteq E
    <3> HIDE DEF E
    <3> QED BY <2>1, <2>2, SeqSet
  <2> QED BY <2>3
<1> DEFINE C(n) == CHOOSE F : F \in A(n)
           H == [s \in Seq(X) |-> C(Len(s))[s]]
<1>5. \A n \in Nat : C(n) \in A(n)
  <2> HIDE DEF A
  <2> QED BY <1>3
<1> HIDE DEF C
<1>6. \A s \in Seq(X) : C(Len(s)) \in A(Len(s)) /\ s \in Up(Len(s))
  <2>1. \A s \in Seq(X) : Len(s) \in Nat /\ s \in Up(Len(s))
    OBVIOUS
  <2> HIDE DEF A, Up
  <2> QED BY <1>5, <2>1
<1>7. H \in [Seq(X) -> T]
  <2>1. \A s \in Seq(X) : C(Len(s))[s] \in T
    BY <1>6
  <2> QED BY <2>1
<1>8. ASSUME NEW s \in Seq(X)
      PROVE  H[s] = IF s = <<>> THEN b ELSE g[<<H[Front(s)], Last(s)>>]
  <2>1. H[s] = IF s = <<>> THEN b ELSE g[<<C(Len(s))[Front(s)], Last(s)>>]
    BY <1>6 DEF Follows
  <2>2. CASE s # <<>>
    <3>1. Front(s) \in Seq(X) /\ Len(s) \in Nat /\ Len(Front(s)) \in Nat /\ Len(Front(s)) <= Len(s)
      BY <2>2, FrontLast
    <3>2. C(Len(s)) \in A(Len(s)) /\ C(Len(Front(s))) \in A(Len(Front(s)))
      <4> HIDE DEF A
      <4> QED BY <1>5, <3>1
    <3>3. C(Len(s))[Front(s)] = C(Len(Front(s)))[Front(s)]
      <4> HIDE DEF A
      <4> QED BY <1>4, <3>1, <3>2
    <3> QED BY <2>1, <2>2, <3>1, <3>3
  <2> QED BY <2>1, <2>2
<1>9. Follows(H, Seq(X), b, g)
  <2> HIDE DEF H
  <2> QED BY <1>7, <1>8 DEF Follows
<1> QED
  <2> HIDE DEF H
  <2> QED BY <1>7, <1>9

\* To append to the second of two sequences is to append to both.
LEMMA ConcatAppend ==
  ASSUME NEW X, NEW s \in Seq(X), NEW t \in Seq(X), NEW x \in X
  PROVE  s \o Append(t, x) = Append(s \o t, x)
<1>1. Append(t, x) = t \o <<x>> /\ Append(s \o t, x) = (s \o t) \o <<x>> /\ <<x>> \in Seq(X)
  BY AppendIsConcat
<1> QED BY <1>1, ConcatAssociative

\* A sequence begins with its first part.
LEMMA PrefixOfConcat ==
  ASSUME NEW X, NEW s \in Seq(X), NEW t \in Seq(X)
  PROVE  IsPrefix(s, s \o t)
<1>1. Len(s) <= Len(s \o t)
  OBVIOUS
<1>2. SubSeq(s, 1, Len(s)) = SubSeq(s \o t, 1, Len(s))
  <2>1. CASE Len(s) = 0
    BY <2>1, SubSeqEmpty
  <2>2. CASE Len(s) # 0
    BY <2>2, SubSeqOfConcat1
  <2> QED BY <2>1, <2>2
<1> QED BY <1>1, <1>2 DEF IsPrefix

\* The beginning of a beginning is one.
LEMMA PrefixTransitive ==
  ASSUME NEW X, NEW s \in Seq(X), NEW t \in Seq(X), NEW u \in Seq(X),
         IsPrefix(s, t), IsPrefix(t, u)
  PROVE  IsPrefix(s, u)
<1>1. Len(s) <= Len(t) /\ Len(t) <= Len(u)
  BY DEF IsPrefix
<1>2. \A i \in 1..Len(s) : SubSeq(s, 1, Len(s))[i] = s[i] /\ SubSeq(t, 1, Len(s))[i] = t[i]
                            /\ SubSeq(u, 1, Len(s))[i] = u[i]
  OBVIOUS
<1>3. \A i \in 1..Len(t) : SubSeq(t, 1, Len(t))[i] = t[i] /\ SubSeq(u, 1, Len(t))[i] = u[i]
  BY <1>1
<1>4. \A i \in 1..Len(s) : s[i] = u[i]
  BY <1>1, <1>2, <1>3 DEF IsPrefix
<1>5. SubSeq(s, 1, Len(s)) = SubSeq(u, 1, Len(s))
  <2>1. SubSeq(s, 1, Len(s)) \in Seq(X) /\ SubSeq(u, 1, Len(s)) \in Seq(X)
    BY <1>1
  <2>2. Len(SubSeq(s, 1, Len(s))) = Len(s) /\ Len(SubSeq(u, 1, Len(s))) = Len(s)
    OBVIOUS
  <2> QED BY <2>1, <2>2, <1>2, <1>4, SeqEqual
<1> QED BY <1>1, <1>5 DEF IsPrefix

-----------------------------------------------------------------------------
(***************************************************************************)
(* Recursion and induction by a measure: each round of a loop makes it less. *)
(***************************************************************************)

\* Induction: G has each s at which the loop stops, and each from which it goes on
\* to an element of G.
LEMMA MeasureSet ==
  ASSUME NEW S, NEW G, NEW m \in [S -> Nat],
         \A s \in S : (\A t \in S : m[t] < m[s] => t \in G) => s \in G
  PROVE  S \subseteq G
<1> DEFINE N == {n \in Nat : \A s \in S : m[s] < n => s \in G}
<1>1. 0 \in N
  OBVIOUS
<1>2. ASSUME NEW n \in Nat, n \in N
      PROVE  n + 1 \in N
  <2>1. SUFFICES ASSUME NEW s \in S, m[s] < n + 1
                 PROVE  s \in G
    OBVIOUS
  <2>2. \A t \in S : m[t] < m[s] => t \in G
    BY <1>2, <2>1
  <2> QED BY <2>1, <2>2
<1>3. Nat \subseteq N
  <2> HIDE DEF N
  <2> QED BY <1>1, <1>2, NatSet
<1>4. \A s \in S : m[s] + 1 \in N /\ m[s] < m[s] + 1
  BY <1>3
<1> QED BY <1>4

\* On D, F is out where the loop stops, and elsewhere what join makes of it and of
\* what F is after one round.
Unfolds(F, D, stop, out, next, join) ==
  F = [s \in D |-> IF s \in stop THEN out[s] ELSE join[<<s, F[next[s]]>>]]

\* Such a function exists, by the argument of SeqRecursion.
LEMMA MeasureRecursion ==
  ASSUME NEW S, NEW T, NEW m \in [S -> Nat], NEW stop, NEW out \in [S -> T],
         NEW next \in [S -> S], NEW join \in [S \X T -> T],
         \A s \in S : s \notin stop => m[next[s]] < m[s]
  PROVE  \E F \in [S -> T] : Unfolds(F, S, stop, out, next, join)
<1> DEFINE Up(k) == {s \in S : m[s] < k}
           A(k) == {F \in [Up(k) -> T] : Unfolds(F, Up(k), stop, out, next, join)}
           N == {n \in Nat : A(n) # {}}
<1>1. 0 \in N
  <2> DEFINE F == [s \in Up(0) |-> out[s]]
  <2>1. \A s \in Up(0) : FALSE
    OBVIOUS
  <2>2. F \in A(0)
    BY <2>1 DEF Unfolds
  <2> QED BY <2>2
<1>2. ASSUME NEW n \in Nat, n \in N
      PROVE  n + 1 \in N
  <2>1. PICK F : F \in A(n)
    BY <1>2
  <2> DEFINE G == [s \in Up(n + 1) |-> IF s \in stop THEN out[s] ELSE join[<<s, F[next[s]]>>]]
  <2>2. \A s \in Up(n + 1) : s \notin stop => next[s] \in Up(n)
    OBVIOUS
  <2>3. \A s \in Up(n) : G[s] = F[s]
    BY <2>1 DEF Unfolds
  <2>4. G \in [Up(n + 1) -> T]
    BY <2>1, <2>2
  <2>5. \A s \in Up(n + 1) : s \notin stop => G[next[s]] = F[next[s]]
    BY <2>2, <2>3
  <2>6. Unfolds(G, Up(n + 1), stop, out, next, join)
    BY <2>4, <2>5 DEF Unfolds
  <2>7. G \in A(n + 1)
    <3> HIDE DEF G
    <3> QED BY <2>4, <2>6
  <2>8. A(n + 1) # {}
    <3> HIDE DEF A, G
    <3> QED BY <2>7
  <2> QED
    <3> HIDE DEF A
    <3> QED BY <2>8
<1>3. \A n \in Nat : A(n) # {}
  <2>1. Nat \subseteq N
    <3> HIDE DEF N
    <3> QED BY <1>1, <1>2, NatSet
  <2> QED BY <2>1
<1>4. ASSUME NEW k \in Nat, NEW n \in Nat, NEW F \in A(k), NEW G \in A(n)
      PROVE  \A s \in S : m[s] < k /\ m[s] < n => F[s] = G[s]
  <2> DEFINE E == {s \in S : m[s] < k /\ m[s] < n => F[s] = G[s]}
  <2>1. ASSUME NEW s \in S, \A t \in S : m[t] < m[s] => t \in E
        PROVE  s \in E
    <3>1. SUFFICES ASSUME m[s] < k, m[s] < n
                   PROVE  F[s] = G[s]
      OBVIOUS
    <3>2. /\ F[s] = IF s \in stop THEN out[s] ELSE join[<<s, F[next[s]]>>]
          /\ G[s] = IF s \in stop THEN out[s] ELSE join[<<s, G[next[s]]>>]
      BY <3>1 DEF Unfolds
    <3>3. s \notin stop => F[next[s]] = G[next[s]]
      BY <2>1, <3>1
    <3> QED BY <3>2, <3>3
  <2>2. S \subseteq E
    <3> HIDE DEF E
    <3> QED BY <2>1, MeasureSet
  <2> QED BY <2>2
<1> DEFINE C(n) == CHOOSE F : F \in A(n)
           H == [s \in S |-> C(m[s] + 1)[s]]
<1>5. \A n \in Nat : C(n) \in A(n)
  <2> HIDE DEF A
  <2> QED BY <1>3
<1> HIDE DEF C
<1>6. \A s \in S : m[s] + 1 \in Nat /\ C(m[s] + 1) \in A(m[s] + 1) /\ s \in Up(m[s] + 1)
  <2>1. \A s \in S : m[s] + 1 \in Nat /\ s \in Up(m[s] + 1)
    OBVIOUS
  <2> HIDE DEF A, Up
  <2> QED BY <1>5, <2>1
<1>7. H \in [S -> T]
  <2>1. \A s \in S : C(m[s] + 1)[s] \in T
    BY <1>6
  <2> QED BY <2>1
<1>8. ASSUME NEW s \in S
      PROVE  H[s] = IF s \in stop THEN out[s] ELSE join[<<s, H[next[s]]>>]
  <2>1. H[s] = IF s \in stop THEN out[s] ELSE join[<<s, C(m[s] + 1)[next[s]]>>]
    BY <1>6 DEF Unfolds
  <2>2. CASE s \notin stop
    <3>1. next[s] \in S /\ m[next[s]] < m[s] /\ m[next[s]] \in Nat
      BY <2>2
    <3>2. /\ C(m[s] + 1) \in A(m[s] + 1) /\ C(m[next[s]] + 1) \in A(m[next[s]] + 1)
          /\ m[s] + 1 \in Nat /\ m[next[s]] + 1 \in Nat
      <4> HIDE DEF A
      <4> QED BY <1>6, <3>1
    <3>3. C(m[s] + 1)[next[s]] = C(m[next[s]] + 1)[next[s]]
      <4>1. m[next[s]] < m[s] + 1 /\ m[next[s]] < m[next[s]] + 1
        BY <3>1
      <4> HIDE DEF A
      <4> QED BY <1>4, <3>1, <3>2, <4>1
    <3> QED BY <2>1, <2>2, <3>1, <3>3
  <2> QED BY <2>1, <2>2
<1>9. Unfolds(H, S, stop, out, next, join)
  <2> HIDE DEF H
  <2> QED BY <1>7, <1>8 DEF Unfolds
<1> QED
  <2> HIDE DEF H
  <2> QED BY <1>7, <1>9

\* A loop, which returns what it returns when it stops.
Rounds(F, S, stop, out, next) == F = [s \in S |-> IF s \in stop THEN out[s] ELSE F[next[s]]]

LEMMA LoopRecursion ==
  ASSUME NEW S, NEW T, NEW m \in [S -> Nat], NEW stop, NEW out \in [S -> T],
         NEW next \in [S -> S],
         \A s \in S : s \notin stop => m[next[s]] < m[s]
  PROVE  \E F \in [S -> T] : Rounds(F, S, stop, out, next)
<1> DEFINE join == [y \in S \X T |-> y[2]]
<1>1. join \in [S \X T -> T]
  OBVIOUS
<1>2. \A s \in S, t \in T : join[<<s, t>>] = t
  OBVIOUS
<1>3. PICK F \in [S -> T] : Unfolds(F, S, stop, out, next, join)
  <2> HIDE DEF join
  <2> QED BY <1>1, MeasureRecursion
<1>4. \A s \in S : join[<<s, F[next[s]]>>] = F[next[s]]
  BY <1>2
<1> HIDE DEF join
<1>5. Rounds(F, S, stop, out, next)
  BY <1>3, <1>4 DEF Unfolds, Rounds
<1> QED BY <1>5

=============================================================================
