---------------------------- MODULE PluginsProofs ----------------------------
(***************************************************************************)
(* Proofs about Plugins for any number of requests, and any settings,      *)
(* addresses and routing rules.                                            *)
(***************************************************************************)
EXTENDS Plugins, NaturalsInduction, WellFoundedInduction, SequenceTheorems, TLAPS

-----------------------------------------------------------------------------
(* Lists of rules.  The induction is over sets of numbers.                   *)

LEMMA UpTo ==
  ASSUME NEW N \in Nat, NEW P, 0 \in P, \A n \in 0..(N - 1) : n \in P => n + 1 \in P
  PROVE  \A n \in 0..N : n \in P
  <1> SUFFICES ASSUME (0..N) \ P # {} PROVE FALSE
    OBVIOUS
  <1> DEFINE T == (0..N) \ P
  <1>1. IsWellFoundedOn(OpToRel(<, Nat), Nat)
    BY NatLessThanWellFounded
  <1>2. T \subseteq Nat /\ T # {}
    OBVIOUS
  <1>3. PICK n \in T : \A m \in T : ~(<<m, n>> \in OpToRel(<, Nat))
    <2> HIDE DEF T
    <2> QED BY <1>1, <1>2, WFMin
  <1>4. n # 0 /\ n \in 1..N
    OBVIOUS
  <1>5. <<n - 1, n>> \in OpToRel(<, Nat)
    BY <1>4 DEF OpToRel
  <1>6. n - 1 \in 0..N /\ n - 1 \in 0..(N - 1) /\ (n - 1) + 1 = n
    BY <1>4
  <1>7. n - 1 \in P
    <2>1. n - 1 \notin T
      <3> HIDE DEF T
      <3> QED BY <1>3, <1>5
    <2> QED BY <1>6, <2>1
  <1> QED BY <1>6, <1>7

\* The recursive function exists, and is what its definition says.
LEMMA KeptDef ==
  ASSUME NEW S, NEW s \in Seq(S), NEW D
  PROVE  Kept(s, D) = [n \in 0..Len(s) |->
            IF n = 0 THEN <<>>
            ELSE IF s[n] \in D THEN Kept(s, D)[n - 1] ELSE Append(Kept(s, D)[n - 1], s[n])]
  <1> DEFINE E(g, n) == IF n = 0 THEN <<>>
                        ELSE IF s[n] \in D THEN g[n - 1] ELSE Append(g[n - 1], s[n])
             G(N) == \E g : g = [n \in 0..N |-> E(g, n)]
             P == {N \in Nat : G(N)}
  <1>1. Len(s) \in Nat
    OBVIOUS
  <1>2. 0 \in P
    <2> DEFINE g == [n \in 0..0 |-> <<>>]
    <2>1. g = [n \in 0..0 |-> E(g, n)]
      OBVIOUS
    <2> QED BY <2>1
  <1>3. ASSUME NEW N \in 0..(Len(s) - 1), N \in P
        PROVE  N + 1 \in P
    <2>1. PICK g : g = [n \in 0..N |-> E(g, n)]
      BY <1>3
    <2> DEFINE h == [n \in 0..(N + 1) |-> IF n <= N THEN g[n] ELSE E(g, N + 1)]
    <2>2. \A n \in 0..N : h[n] = g[n]
      OBVIOUS
    <2>3. ASSUME NEW n \in 0..(N + 1)
          PROVE  h[n] = E(h, n)
      <3>1. n = 0 \/ n - 1 \in 0..N
        OBVIOUS
      <3>2. E(g, n) = E(h, n)
        BY <2>2, <3>1
      <3>3. CASE n <= N
        <4>1. n \in 0..N
          BY <3>3
        <4>2. g[n] = E(g, n)
          <5> HIDE DEF E
          <5> QED BY <2>1, <4>1
        <4> QED BY <2>2, <3>2, <4>1, <4>2
      <3>4. CASE n = N + 1
        BY <3>2, <3>4
      <3> QED BY <3>3, <3>4
    <2>4. h = [n \in 0..(N + 1) |-> E(h, n)]
      <3> HIDE DEF E
      <3> QED BY <2>3
    <2>5. G(N + 1)
      <3> HIDE DEF h, E
      <3> QED BY <2>4
    <2> QED BY <2>5
  <1>4. Len(s) \in P
    <2> HIDE DEF P
    <2>1. \A N \in 0..Len(s) : N \in P
      BY <1>1, <1>2, <1>3, UpTo
    <2> QED BY <1>1, <2>1
  <1>5. Kept(s, D) = CHOOSE g : g = [n \in 0..Len(s) |-> E(g, n)]
    BY DEF Kept
  <1> QED BY <1>4, <1>5

LEMMA KeptSteps ==
  ASSUME NEW S, NEW s \in Seq(S), NEW D
  PROVE  /\ Kept(s, D)[0] = <<>>
         /\ \A n \in 0..(Len(s) - 1) :
              Kept(s, D)[n + 1] = IF s[n + 1] \in D THEN Kept(s, D)[n]
                                  ELSE Append(Kept(s, D)[n], s[n + 1])
  <1> DEFINE k == Kept(s, D)
  <1>1. Len(s) \in Nat
    OBVIOUS
  <1>2. k = [n \in 0..Len(s) |-> IF n = 0 THEN <<>>
                                 ELSE IF s[n] \in D THEN k[n - 1] ELSE Append(k[n - 1], s[n])]
    BY KeptDef
  <1> HIDE DEF k
  <1>3. k[0] = <<>>
    BY <1>1, <1>2
  <1>4. ASSUME NEW n \in 0..(Len(s) - 1)
        PROVE  k[n + 1] = IF s[n + 1] \in D THEN k[n] ELSE Append(k[n], s[n + 1])
    <2>1. n + 1 \in 0..Len(s) /\ n + 1 # 0 /\ (n + 1) - 1 = n
      BY <1>1
    <2> QED BY <1>2, <2>1
  <1> QED BY <1>3, <1>4 DEF k

LEMMA WithoutType ==
  ASSUME NEW S, NEW s \in Seq(S), NEW D
  PROVE  /\ \A n \in 0..Len(s) : Kept(s, D)[n] \in Seq(S)
         /\ Without(s, D) \in Seq(S)
  <1> DEFINE P == {n \in 0..Len(s) : Kept(s, D)[n] \in Seq(S)}
  <1>1. Len(s) \in Nat /\ \A n \in 1..Len(s) : s[n] \in S
    OBVIOUS
  <1>2. 0 \in P
    <2>1. Kept(s, D)[0] = <<>> /\ <<>> \in Seq(S)
      BY KeptSteps, EmptySeq
    <2>2. 0 \in 0..Len(s) /\ Kept(s, D)[0] \in Seq(S)
      BY <1>1, <2>1
    <2> QED BY <2>2
  <1>3. ASSUME NEW n \in 0..(Len(s) - 1), n \in P
        PROVE  n + 1 \in P
    <2>1. Kept(s, D)[n + 1] = IF s[n + 1] \in D THEN Kept(s, D)[n]
                              ELSE Append(Kept(s, D)[n], s[n + 1])
      BY KeptSteps
    <2>2. n + 1 \in 1..Len(s) /\ n + 1 \in 0..Len(s) /\ s[n + 1] \in S
      BY <1>1
    <2>3. Kept(s, D)[n] \in Seq(S)
      BY <1>3
    <2>4. Kept(s, D)[n + 1] \in Seq(S)
      BY <2>1, <2>2, <2>3
    <2> QED BY <2>2, <2>4
  <1>4. \A n \in 0..Len(s) : n \in P
    <2> HIDE DEF P
    <2> QED BY <1>1, <1>2, <1>3, UpTo
  <1> QED BY <1>1, <1>4 DEF Without

LEMMA WithoutEmpty ==
  ASSUME NEW D
  PROVE  Without(<<>>, D) = <<>>
  <1>1. <<>> \in Seq({}) /\ Len(<<>>) = 0
    OBVIOUS
  <1> QED BY <1>1, KeptSteps DEF Without

LEMMA WithoutSingle ==
  ASSUME NEW S, NEW x \in S, NEW D
  PROVE  Without(<<x>>, D) = IF x \in D THEN <<>> ELSE <<x>>
  <1> DEFINE y == <<x>>
  <1>1. y \in Seq(S) /\ Len(y) = 1 /\ y[1] = x /\ Append(<<>>, x) = y
    OBVIOUS
  <1> HIDE DEF y
  <1>2. Kept(y, D)[0] = <<>>
    BY <1>1, KeptSteps
  <1>3. \A n \in 0..(Len(y) - 1) :
          Kept(y, D)[n + 1] = IF y[n + 1] \in D THEN Kept(y, D)[n]
                              ELSE Append(Kept(y, D)[n], y[n + 1])
    BY <1>1, KeptSteps
  <1>4. 0 \in 0..(Len(y) - 1) /\ 0 + 1 = 1
    BY <1>1
  <1>5. Kept(y, D)[1] = IF x \in D THEN <<>> ELSE y
    BY <1>1, <1>2, <1>3, <1>4
  <1> QED BY <1>1, <1>5 DEF Without, y

LEMMA WithoutConcat ==
  ASSUME NEW S, NEW s \in Seq(S), NEW t \in Seq(S), NEW D
  PROVE  Without(s \o t, D) = Without(s, D) \o Without(t, D)
  <1> DEFINE st == s \o t
  <1>1. /\ st \in Seq(S) /\ Len(s) \in Nat /\ Len(t) \in Nat /\ Len(st) = Len(s) + Len(t)
        /\ \A n \in 1..Len(s) : st[n] = s[n]
        /\ \A n \in 1..Len(t) : st[Len(s) + n] = t[n]
    BY ConcatProperties, LenProperties
  <1> HIDE DEF st
  <1>0. \A n \in 0..(Len(st) - 1) :
          Kept(st, D)[n + 1] = IF st[n + 1] \in D THEN Kept(st, D)[n]
                               ELSE Append(Kept(st, D)[n], st[n + 1])
    BY <1>1, KeptSteps
  <1>2. \A n \in 0..Len(s) : Kept(st, D)[n] = Kept(s, D)[n]
    <2> DEFINE P == {n \in 0..Len(s) : Kept(st, D)[n] = Kept(s, D)[n]}
    <2>1. 0 \in P
      <3>1. Kept(st, D)[0] = <<>> /\ Kept(s, D)[0] = <<>>
        BY <1>1, KeptSteps
      <3> QED BY <1>1, <3>1
    <2>2. ASSUME NEW n \in 0..(Len(s) - 1), n \in P
          PROVE  n + 1 \in P
      <3>1. n \in 0..(Len(st) - 1) /\ n + 1 \in 0..Len(s) /\ st[n + 1] = s[n + 1]
        BY <1>1
      <3>2. Kept(s, D)[n + 1] = IF s[n + 1] \in D THEN Kept(s, D)[n]
                                ELSE Append(Kept(s, D)[n], s[n + 1])
        BY KeptSteps
      <3>3. Kept(st, D)[n + 1] = IF st[n + 1] \in D THEN Kept(st, D)[n]
                                 ELSE Append(Kept(st, D)[n], st[n + 1])
        BY <1>0, <3>1
      <3> QED BY <2>2, <3>1, <3>2, <3>3
    <2> HIDE DEF P
    <2>3. \A n \in 0..Len(s) : n \in P
      BY <1>1, <2>1, <2>2, UpTo
    <2> QED BY <2>3 DEF P
  <1>3. \A n \in 0..Len(t) : Kept(st, D)[Len(s) + n] = Without(s, D) \o Kept(t, D)[n]
    <2> DEFINE W == Without(s, D)
               P == {n \in 0..Len(t) : Kept(st, D)[Len(s) + n] = W \o Kept(t, D)[n]}
    <2>1. W \in Seq(S) /\ \A n \in 0..Len(t) : Kept(t, D)[n] \in Seq(S)
      BY WithoutType
    <2>2. 0 \in P
      <3>1. Kept(st, D)[Len(s)] = W /\ Kept(t, D)[0] = <<>>
        BY <1>1, <1>2, KeptSteps DEF Without
      <3>2. W \o <<>> = W
        BY <2>1, ConcatEmptySeq
      <3>3. Len(s) + 0 = Len(s) /\ 0 \in 0..Len(t)
        BY <1>1
      <3> HIDE DEF W
      <3> QED BY <3>1, <3>2, <3>3
    <2>3. ASSUME NEW n \in 0..(Len(t) - 1), n \in P
          PROVE  n + 1 \in P
      <3>1. /\ Len(s) + n \in 0..(Len(st) - 1) /\ (Len(s) + n) + 1 = Len(s) + (n + 1)
            /\ n + 1 \in 1..Len(t) /\ n + 1 \in 0..Len(t) /\ n \in 0..Len(t)
        BY <1>1
      <3>2. st[Len(s) + (n + 1)] = t[n + 1] /\ t[n + 1] \in S
        BY <1>1, <3>1
      <3>3. Kept(t, D)[n + 1] = IF t[n + 1] \in D THEN Kept(t, D)[n]
                                ELSE Append(Kept(t, D)[n], t[n + 1])
        BY KeptSteps
      <3>4. Kept(st, D)[Len(s) + (n + 1)]
              = IF t[n + 1] \in D THEN Kept(st, D)[Len(s) + n]
                ELSE Append(Kept(st, D)[Len(s) + n], t[n + 1])
        BY <1>0, <3>1, <3>2
      <3>5. Kept(st, D)[Len(s) + n] = W \o Kept(t, D)[n]
        BY <2>3
      <3>6. Append(W \o Kept(t, D)[n], t[n + 1]) = W \o Append(Kept(t, D)[n], t[n + 1])
        <4> DEFINE k == Kept(t, D)[n]
        <4>1. k \in Seq(S)
          BY <2>1, <3>1
        <4> HIDE DEF k, W
        <4> DEFINE y == t[n + 1]
        <4>2. y \in S /\ <<y>> \in Seq(S)
          BY <3>2
        <4> HIDE DEF y
        <4>3. W \o k \in Seq(S)
          BY <2>1, <4>1, ConcatProperties
        <4>4. Append(W \o k, y) = (W \o k) \o <<y>> /\ Append(k, y) = k \o <<y>>
          BY <4>1, <4>2, <4>3, AppendIsConcat
        <4>5. (W \o k) \o <<y>> = W \o (k \o <<y>>)
          BY <2>1, <4>1, <4>2, ConcatAssociative
        <4> QED BY <4>4, <4>5 DEF k, y
      <3> QED BY <3>1, <3>3, <3>4, <3>5, <3>6
    <2> HIDE DEF P, W
    <2>4. \A n \in 0..Len(t) : n \in P
      BY <1>1, <2>2, <2>3, UpTo
    <2> QED BY <2>4 DEF P, W
  <1>4. Kept(st, D)[Len(st)] = Without(s, D) \o Without(t, D)
    <2>1. Len(t) \in 0..Len(t)
      BY <1>1
    <2>2. Kept(st, D)[Len(s) + Len(t)] = Without(s, D) \o Kept(t, D)[Len(t)]
      BY <1>3, <2>1
    <2> QED BY <1>1, <2>2 DEF Without
  <1> QED BY <1>4 DEF Without, st

LEMMA WithoutAppend ==
  ASSUME NEW S, NEW k \in Seq(S), NEW x \in S, NEW D
  PROVE  Without(Append(k, x), D) = IF x \in D THEN Without(k, D) ELSE Append(Without(k, D), x)
  <1> DEFINE y == <<x>>
             w == Without(k, D)
  <1>1. y \in Seq(S) /\ w \in Seq(S)
    BY WithoutType
  <1>2. Append(k, x) = k \o y /\ Append(w, x) = w \o y /\ w \o <<>> = w
    BY <1>1, AppendIsConcat, ConcatEmptySeq
  <1>3. Without(y, D) = IF x \in D THEN <<>> ELSE y
    BY WithoutSingle
  <1> HIDE DEF y
  <1>4. Without(k \o y, D) = Without(k, D) \o Without(y, D)
    BY <1>1, WithoutConcat
  <1> HIDE DEF w
  <1>5. Without(k \o y, D) = w \o Without(y, D)
    BY <1>4 DEF w
  <1>6. Without(Append(k, x), D) = IF x \in D THEN w ELSE Append(w, x)
    BY <1>2, <1>3, <1>5
  <1> QED BY <1>6 DEF w

LEMMA WithoutParts ==
  ASSUME NEW S, NEW D
  PROVE  \A s, t \in Seq(S) : Without(s \o t, D) = Without(s, D) \o Without(t, D)
  <1> SUFFICES ASSUME NEW s \in Seq(S), NEW t \in Seq(S)
               PROVE  Without(s \o t, D) = Without(s, D) \o Without(t, D)
    OBVIOUS
  <1> QED BY WithoutConcat

\* To drop some, and then others, is to drop both.
LEMMA WithoutBoth ==
  ASSUME NEW S, NEW s \in Seq(S), NEW D, NEW E
  PROVE  Without(Without(s, D), E) = Without(s, D \cup E)
  <1> DEFINE P == {n \in 0..Len(s) : Without(Kept(s, D)[n], E) = Kept(s, D \cup E)[n]}
  <1>1. Len(s) \in Nat /\ \A n \in 1..Len(s) : s[n] \in S
    OBVIOUS
  <1>2. 0 \in P
    <2>1. Kept(s, D)[0] = <<>> /\ Kept(s, D \cup E)[0] = <<>>
      BY KeptSteps
    <2> QED BY <1>1, <2>1, WithoutEmpty
  <1>3. ASSUME NEW n \in 0..(Len(s) - 1), n \in P
        PROVE  n + 1 \in P
    <2> DEFINE x == s[n + 1]
               k == Kept(s, D)[n]
               l == Kept(s, D \cup E)[n]
    <2>1. n + 1 \in 0..Len(s) /\ n \in 0..Len(s) /\ x \in S
      BY <1>1
    <2>2. /\ Kept(s, D)[n + 1] = IF x \in D THEN k ELSE Append(k, x)
          /\ Kept(s, D \cup E)[n + 1] = IF x \in D \cup E THEN l ELSE Append(l, x)
      BY KeptSteps
    <2>3. k \in Seq(S) /\ l \in Seq(S) /\ Without(k, E) = l
      BY <1>3, <2>1, WithoutType
    <2> HIDE DEF k, l, x
    <2>4. Without(Append(k, x), E) = IF x \in E THEN l ELSE Append(l, x)
      BY <2>1, <2>3, WithoutAppend
    <2>5. Without(Kept(s, D)[n + 1], E) = Kept(s, D \cup E)[n + 1]
      BY <2>2, <2>3, <2>4
    <2> QED BY <2>1, <2>5
  <1> HIDE DEF P
  <1>4. \A n \in 0..Len(s) : n \in P
    BY <1>1, <1>2, <1>3, UpTo
  <1>5. Len(s) \in P
    BY <1>1, <1>4
  <1> QED BY <1>5 DEF P, Without

-----------------------------------------------------------------------------
(* The configuration generated for xray. *)

RuleSet == [tag : STRING, outbound : STRING] \cup {Api, Blocking}

\* The API's rule comes first, and the panel's follow in their order.
WellMade(x) ==
    /\ x.rules[1] = Api
    /\ Without(Tail(x.rules), {Blocking}) = Without(x.given, Replaced(x.given) \cup {Blocking})

\* The blocker works in x as its state has it.
Blocks(x, state) ==
    /\ x.outbound = state.enabled
    /\ state.enabled =>
         /\ x.hooked = Hooked(x.rules, state.tags)
         /\ \E n \in DOMAIN x.rules :
               /\ x.rules[n] = Blocking
               /\ n - 2 = IF state.position <= 0 THEN 0
                          ELSE IF state.position < Len(x.rules) - 2
                          THEN state.position ELSE Len(x.rules) - 2

LEMMA ConcatShape ==
  ASSUME NEW S
  PROVE  \A s, t \in Seq(S) :
            /\ s \o t \in Seq(S) /\ Len(s) \in Nat /\ Len(t) \in Nat
            /\ Len(s \o t) = Len(s) + Len(t)
            /\ \A j \in 1..Len(s) : (s \o t)[j] = s[j]
            /\ \A j \in 1..Len(t) : (s \o t)[Len(s) + j] = t[j]
  <1> SUFFICES ASSUME NEW s \in Seq(S), NEW t \in Seq(S)
               PROVE  /\ s \o t \in Seq(S) /\ Len(s) \in Nat /\ Len(t) \in Nat
                      /\ Len(s \o t) = Len(s) + Len(t)
                      /\ \A j \in 1..Len(s) : (s \o t)[j] = s[j]
                      /\ \A j \in 1..Len(t) : (s \o t)[Len(s) + j] = t[j]
    OBVIOUS
  <1> QED BY ConcatProperties, LenProperties

LEMMA InsertAtType ==
  ASSUME NEW S, NEW s \in Seq(S), NEW i \in 1..(Len(s) + 1), NEW x \in S
  PROVE  /\ InsertAt(s, i, x) \in Seq(S)
         /\ Len(InsertAt(s, i, x)) = Len(s) + 1
         /\ InsertAt(s, i, x)[i] = x
         /\ i > 1 => InsertAt(s, i, x)[1] = s[1]
  <1> DEFINE a == SubSeq(s, 1, i - 1)
             b == SubSeq(s, i, Len(s))
             y == <<x>>
             c == a \o y
             d == c \o b
  <1>1. /\ Len(s) \in Nat /\ a \in Seq(S) /\ b \in Seq(S)
        /\ Len(a) = i - 1 /\ Len(b) = Len(s) - i + 1
        /\ i > 1 => a[1] = s[1]
    OBVIOUS
  <1>2. y \in Seq(S) /\ Len(y) = 1 /\ y[1] = x
    OBVIOUS
  <1>3. InsertAt(s, i, x) = d
    BY DEF InsertAt
  <1> HIDE DEF a, b, y
  <1>4. \A t, u \in Seq(S) :
            /\ t \o u \in Seq(S) /\ Len(t) \in Nat /\ Len(u) \in Nat
            /\ Len(t \o u) = Len(t) + Len(u)
            /\ \A j \in 1..Len(t) : (t \o u)[j] = t[j]
            /\ \A j \in 1..Len(u) : (t \o u)[Len(t) + j] = u[j]
    BY ConcatShape
  <1>5. /\ c \in Seq(S) /\ Len(a) \in Nat /\ Len(y) \in Nat /\ Len(c) = Len(a) + Len(y)
        /\ \A j \in 1..Len(a) : c[j] = a[j]
        /\ \A j \in 1..Len(y) : c[Len(a) + j] = y[j]
    BY <1>1, <1>2, <1>4, Zenon
  <1> HIDE DEF c
  <1>6. /\ d \in Seq(S) /\ Len(c) \in Nat /\ Len(b) \in Nat /\ Len(d) = Len(c) + Len(b)
        /\ \A j \in 1..Len(c) : d[j] = c[j]
    BY <1>1, <1>4, <1>5, Zenon
  <1> HIDE DEF d
  <1>7. d[i] = x
    BY <1>1, <1>2, <1>5, <1>6
  <1>8. i > 1 => d[1] = s[1]
    BY <1>1, <1>2, <1>5, <1>6
  <1> QED BY <1>1, <1>2, <1>3, <1>5, <1>6, <1>7, <1>8

\* To insert an element that is dropped changes nothing.
LEMMA WithoutInserted ==
  ASSUME NEW S, NEW s \in Seq(S), NEW i \in 1..(Len(s) + 1), NEW x \in S
  PROVE  Without(InsertAt(s, i, x), {x}) = Without(s, {x})
  <1> DEFINE a == SubSeq(s, 1, i - 1)
             b == SubSeq(s, i, Len(s))
             y == <<x>>
  <1>1. a \in Seq(S) /\ b \in Seq(S) /\ y \in Seq(S) /\ Len(s) \in Nat
    OBVIOUS
  <1>2. Without(y, {x}) = <<>>
    BY WithoutSingle
  <1>3. InsertAt(s, i, x) = (a \o y) \o b
    BY DEF InsertAt
  <1>4. a \o b = s
    <2>1. SubSeq(s, 1, i - 1) \o SubSeq(s, (i - 1) + 1, Len(s)) = SubSeq(s, 1, Len(s))
      <3>1. 1 \in 1..(Len(s) + 1) /\ i - 1 \in (1 - 1)..Len(s) /\ Len(s) \in (i - 1)..Len(s)
        BY <1>1
      <3> QED BY <3>1, ConcatAdjacentSubSeq
    <2>2. (i - 1) + 1 = i /\ SubSeq(s, 1, Len(s)) = s
      BY SubSeqFull
    <2> QED BY <2>1, <2>2
  <1> HIDE DEF a, b, y
  <1>5. Without((a \o y) \o b, {x}) = (Without(a, {x}) \o Without(y, {x})) \o Without(b, {x})
    <2>1. \A t, u \in Seq(S) : Without(t \o u, {x}) = Without(t, {x}) \o Without(u, {x})
      BY WithoutParts
    <2>2. a \o y \in Seq(S)
      <3>1. \A t, u \in Seq(S) : t \o u \in Seq(S)
        BY ConcatProperties, Zenon
      <3> QED BY <1>1, <3>1, Zenon
    <2> QED BY <1>1, <2>1, <2>2, Zenon
  <1>6. Without(a, {x}) \o <<>> = Without(a, {x})
    BY <1>1, WithoutType, ConcatEmptySeq
  <1>7. Without(a \o b, {x}) = Without(a, {x}) \o Without(b, {x})
    <2>1. \A t, u \in Seq(S) : Without(t \o u, {x}) = Without(t, {x}) \o Without(u, {x})
      BY WithoutParts
    <2> QED BY <1>1, <2>1, Zenon
  <1> QED BY <1>2, <1>3, <1>4, <1>5, <1>6, <1>7

LEMMA FirstAndRest ==
  ASSUME NEW S, NEW s \in Seq(S), s # <<>>
  PROVE  Tail(s) \in Seq(S) /\ s[1] \in S /\ s = <<s[1]>> \o Tail(s)
  <1>1. Len(s) \in Nat /\ Len(s) # 0
    BY EmptySeq, LenProperties
  <1>2. Tail(s) = SubSeq(s, 2, Len(s))
    BY TailIsSubSeq
  <1>3. SubSeq(s, 1, Len(s)) = <<s[1]>> \o SubSeq(s, 1 + 1, Len(s))
    <2>1. 1 \in 1..Len(s) /\ Len(s) \in 1..Len(s)
      BY <1>1
    <2> QED BY <2>1, SubSeqRecursiveFirst
  <1>4. SubSeq(s, 1, Len(s)) = s /\ 1 + 1 = 2
    BY SubSeqFull
  <1>5. Tail(s) \in Seq(S)
    BY HeadTailProperties
  <1>6. s[1] \in S
    BY <1>1, ElementOfSeq
  <1> QED BY <1>2, <1>3, <1>4, <1>5, <1>6, Zenon

\* Lists that start alike, with what is not dropped, go on alike.
LEMMA WithoutTail ==
  ASSUME NEW S, NEW D, NEW s \in Seq(S), NEW t \in Seq(S), s # <<>>, t # <<>>,
         s[1] = t[1], s[1] \notin D, Without(s, D) = Without(t, D)
  PROVE  Without(Tail(s), D) = Without(Tail(t), D)
  <1> DEFINE y == <<s[1]>>
             p == Tail(s)
             q == Tail(t)
  <1>1. p \in Seq(S) /\ q \in Seq(S) /\ s[1] \in S /\ s = y \o p /\ t = y \o q
    <2>1. p \in Seq(S) /\ s[1] \in S /\ s = y \o p
      BY FirstAndRest
    <2>2. q \in Seq(S) /\ t = <<t[1]>> \o q
      BY FirstAndRest
    <2> QED BY <2>1, <2>2, Zenon
  <1>2. y \in Seq(S) /\ Without(y, D) = y
    BY <1>1, WithoutSingle
  <1> HIDE DEF y, p, q
  <1>3. \A u, v \in Seq(S) : Without(u \o v, D) = Without(u, D) \o Without(v, D)
    BY WithoutParts
  <1>4. Without(s, D) = y \o Without(p, D) /\ Without(t, D) = y \o Without(q, D)
    BY <1>1, <1>2, <1>3, Zenon
  <1>5. Without(p, D) \in Seq(S) /\ Without(q, D) \in Seq(S)
    BY <1>1, WithoutType
  <1>6. \A u, v, w \in Seq(S) : u \o v = u \o w => v = w
    BY ConcatSimplifications, Zenon
  <1> QED BY <1>2, <1>4, <1>5, <1>6, Zenon DEF p, q

BlockerStates ==
    [enabled : BOOLEAN, duration : BOOLEAN, tags : SUBSET STRING,
     position : Int, ignored : SUBSET Ips]

\* Whatever rules the panel gives, the configuration generated from them keeps
\* them, in their order, after the API's, and blocks as the state says.
LEMMA GeneratedMade ==
  ASSUME NEW rules \in RuleLists, NEW state \in BlockerStates
  PROVE  WellMade(Generated(rules, state)) /\ Blocks(Generated(rules, state), state)
  <1> DEFINE R == Replaced(rules)
             w == Without(rules, R)
             own == <<Api>> \o w
             i == RuleIndex(state.position, Len(own)) + 1
             all == InsertAt(own, i, Blocking)
             g == Generated(rules, state)
  <1>1. rules \in Seq(RuleSet) /\ Api \in RuleSet /\ Blocking \in RuleSet /\ Api # Blocking
    <2>1. rules \in Seq([tag : STRING, outbound : STRING])
      BY RulesAssumption, Zenon
    <2>2. [tag : STRING, outbound : STRING] \subseteq RuleSet
      BY DEF RuleSet
    <2>3. rules \in Seq(RuleSet)
      BY <2>1, <2>2, SeqMonotonic
    <2>4. "REMNAWAVE_API" # "RW_TB_OUTBOUND_BLOCK"
      OBVIOUS
    <2>5. Api # Blocking
      BY <2>4 DEF Api, Blocking
    <2>6. Api \in RuleSet /\ Blocking \in RuleSet
      BY DEF RuleSet
    <2> QED BY <2>3, <2>5, <2>6
  <1>2. w \in Seq(RuleSet)
    BY <1>1, WithoutType
  <1>3. /\ own \in Seq(RuleSet) /\ own # <<>> /\ own[1] = Api /\ Len(own) \in Nat
        /\ Len(own) >= 1 /\ Tail(own) = w
    <2> HIDE DEF w
    <2> QED BY <1>1, <1>2
  <1>4. Without(w, {Blocking}) = Without(rules, R \cup {Blocking})
    BY <1>1, WithoutBoth
  <1>5. g.given = rules
    BY DEF Generated
  <1> HIDE DEF w, own
  <1>6. CASE ~state.enabled
    <2>1. g.rules = own /\ g.outbound = FALSE
      BY <1>6 DEF Generated, own, w, R, BlockerStates
    <2> QED BY <1>3, <1>4, <1>5, <1>6, <2>1 DEF WellMade, Blocks, R, BlockerStates
  <1>7. CASE state.enabled
    <2>1. g.rules = all /\ g.outbound = TRUE /\ g.hooked = Hooked(all, state.tags)
      BY <1>7 DEF Generated, own, w, R, BlockerStates
    <2>2. /\ state.position \in Int
          /\ i = IF state.position <= 0 THEN 2
                 ELSE 2 + (IF state.position > Len(own) - 1 THEN Len(own) - 1 ELSE state.position)
      BY <1>3 DEF BlockerStates, RuleIndex
    <2>3. i \in 2..(Len(own) + 1)
      BY <1>3, <2>2
    <2> HIDE DEF i
    <2>4. /\ all \in Seq(RuleSet) /\ Len(all) = Len(own) + 1
          /\ all[i] = Blocking /\ all[1] = Api
      <3>1. i \in 1..(Len(own) + 1) /\ i > 1
        BY <1>3, <2>3
      <3> QED BY <1>1, <1>3, <3>1, InsertAtType
    <2>5. Without(all, {Blocking}) = Without(own, {Blocking})
      <3>1. i \in 1..(Len(own) + 1)
        BY <1>3, <2>3
      <3> QED BY <1>1, <1>3, <3>1, WithoutInserted
    <2> HIDE DEF all
    <2>6. all # <<>>
      BY <1>3, <2>4
    <2>7. Without(Tail(all), {Blocking}) = Without(Tail(own), {Blocking})
      <3>1. all[1] = own[1] /\ all[1] \notin {Blocking}
        BY <1>1, <1>3, <2>4
      <3> QED BY <1>3, <2>4, <2>5, <2>6, <3>1, WithoutTail
    <2>8. WellMade(g)
      BY <1>3, <1>4, <1>5, <2>1, <2>4, <2>7 DEF WellMade, R
    <2>9. /\ i \in DOMAIN all
          /\ i - 2 = IF state.position <= 0 THEN 0
                     ELSE IF state.position < Len(all) - 2 THEN state.position ELSE Len(all) - 2
      BY <1>3, <2>2, <2>3, <2>4
    <2>10. Blocks(g, state)
      BY <1>7, <2>1, <2>4, <2>9 DEF Blocks
    <2> QED BY <2>8, <2>10
  <1> QED BY <1>6, <1>7

-----------------------------------------------------------------------------
(* What the requests and the start hold.                                     *)

Working == {"table", "tabled", "filter", "filtered"}
Leaving == {"outbound", "stop", "stopped"}
Nexts == {"fill", "stop", "kill"}
RequestStates ==
    {Idle}
    \cup [at : Working, config : Configs \cup {None}, next : Nexts,
          k : 1..Len(Filters), before : BlockerStates]
    \cup [at : Leaving, next : Nexts]

\* A set of the table is filled for settings, when there is a table.
RequestMade(q) ==
    /\ q.at \in Working /\ q.next = "fill" => q.config \in Configs
    /\ q.at \in {"filter", "filtered"} => q.next = "fill" /\ Available
    /\ q.at \in Working /\ q.before.enabled => Available

RequestsInv ==
    /\ req = [r \in Requests |-> req[r]]
    /\ \A r \in Requests : req[r] \in RequestStates /\ RequestMade(req[r])

\* A configuration generated for xray, whether or not the outbound to block
\* with was removed since.
Made(x) ==
    /\ x = [given |-> x.given, rules |-> x.rules, outbound |-> x.outbound, hooked |-> x.hooked]
    /\ WellMade(x)

StartInv ==
    /\ \/ start = Idle
       \/ /\ start = [at |-> start.at, config |-> start.config, alone |-> start.alone]
          /\ start.at \in {"restart", "wait"} /\ start.alone \in BOOLEAN
          /\ Made(start.config)
    /\ xray # None => Made(xray)

\* Nothing else has the type that TypeOK says, but for these.
TypeInv ==
    /\ nftables \in Kinds
    /\ blocker \in BlockerStates /\ (blocker.enabled => Available)
    /\ dropping \subseteq Ips
    /\ hooks \in Configs \cup {None} /\ hash \in Configs \cup {None}
    /\ active \in BOOLEAN
    /\ table \in [FilterSets -> SUBSET Ips]
    /\ ~Available => table = EmptyTable
    /\ online \in BOOLEAN
    /\ edited \in BOOLEAN /\ overlap \in BOOLEAN /\ astray \in BOOLEAN

Typed == TypeInv /\ RequestsInv /\ StartInv

-----------------------------------------------------------------------------
(* The settings in force.                                                    *)

AtMostOne == \A r, s \in Requests : ~At(r, "idle") /\ ~At(s, "idle") => r = s

\* What a request that is alone makes of the blocker's state.
Filled(c) ==
    IF c.blocker /\ Available
    THEN [enabled |-> TRUE, duration |-> TRUE, position |-> c.position,
          tags |-> IF c.tags = NoTags THEN {} ELSE c.tags, ignored |-> Resolve(c, c.ignored)]
    ELSE Off

InForce(c) ==
    /\ blocker = Filled(c)
    /\ c.whitelist # None /\ nftables # "nocap" => dropping = Resolve(c, c.whitelist)
    /\ hooks = IF c.hooks THEN c ELSE None

\* The addresses that settings want in the n-th of the sets.
Wanted(c, n) == IF Available THEN Resolve(c, c.filters[Filters[n]]) ELSE {}
FilledUpTo(c, k) ==
    \A n \in 1..Len(Filters) : table[Filters[n]] = IF n <= k THEN Wanted(c, n) ELSE {}

Cleared == hash = None /\ blocker = Off /\ dropping = {} /\ hooks = None

\* How far a request that is alone has come with the settings.
SettingsStage(q) ==
    /\ q.at \in {"table", "tabled"} => Cleared
    /\ q.at = "tabled" /\ ~edited => table = EmptyTable
    /\ q.at \in {"filter", "filtered"} => hash = None /\ InForce(q.config)
    /\ q.at = "filter" /\ ~edited => FilledUpTo(q.config, q.k - 1)
    /\ q.at = "filtered" /\ ~edited => FilledUpTo(q.config, q.k)

HashInv ==
    ~overlap =>
        /\ AtMostOne
        /\ \A r \in Requests : SettingsStage(req[r])
        /\ hash # None => InForce(hash) /\ (~edited => FilledUpTo(hash, Len(Filters)))

-----------------------------------------------------------------------------
(* The blocker in the xray that runs.                                        *)

AllIdle == \A r \in Requests : At(r, "idle")
Running == online /\ xray # None

\* How far a request that is alone has come with what xray is to be told.
BlockerStage(q) ==
    /\ q.at \in {"table", "tabled"} => blocker = Off
    /\ q.at \in {"filter", "filtered"} => blocker = Filled(q.config)
    /\ q.at \in Working /\ q.next = "fill" /\ Running => Blocks(xray, q.before)
    /\ q.at = "outbound" => ~blocker.enabled
    /\ q.at = "stopped" => xray = None

BlockerInv ==
    /\ start.at = "restart" => (start.alone => AllIdle /\ Blocks(start.config, blocker))
    /\ ~astray =>
         /\ AtMostOne
         /\ \A r \in Requests : BlockerStage(req[r])
         /\ AllIdle /\ Running => Blocks(xray, blocker)
         /\ start.at = "wait" => AllIdle /\ Blocks(xray, blocker)

-----------------------------------------------------------------------------
(* Types.                                                                    *)

LEMMA FiltersMade ==
  /\ Len(Filters) = 3 /\ 1..Len(Filters) = {1, 2, 3}
  /\ FilterSets = {Filters[n] : n \in 1..Len(Filters)}
  /\ \A n \in 1..Len(Filters) : Filters[n] \in FilterSets
  /\ \A m, n \in 1..Len(Filters) : Filters[m] = Filters[n] => m = n
  <1>1. Len(Filters) = 3 /\ 1..Len(Filters) = {1, 2, 3}
    BY DEF Filters
  <1>2. Filters[1] = "ingress" /\ Filters[2] = "egress" /\ Filters[3] = "ports"
    BY DEF Filters
  <1> QED BY <1>1, <1>2 DEF FilterSets

LEMMA ResolveType ==
  ASSUME NEW c \in Configs, NEW items
  PROVE  Resolve(c, items) \subseteq Ips
  BY ConfigsAssumption DEF Resolve

LEMMA FilledType ==
  ASSUME NEW c \in Configs
  PROVE  Filled(c) \in BlockerStates /\ (Filled(c).enabled => Available)
  <1>1. c.position \in Int /\ (IF c.tags = NoTags THEN {} ELSE c.tags) \subseteq STRING
    BY ConfigsAssumption
  <1>2. Resolve(c, c.ignored) \subseteq Ips
    BY ResolveType
  <1> DEFINE tags == IF c.tags = NoTags THEN {} ELSE c.tags
             ignored == Resolve(c, c.ignored)
  <1> HIDE DEF ignored, tags
  <1> QED BY <1>1, <1>2 DEF Filled, Off, BlockerStates, tags, ignored

LEMMA OffType == Off \in BlockerStates /\ ~Off.enabled
  BY DEF Off, BlockerStates

\* A request becomes q, and the others stay.
LEMMA RequestTo ==
  ASSUME NEW r \in Requests, NEW q \in RequestStates, RequestMade(q), RequestsInv,
         UNCHANGED nftables, req' = [req EXCEPT ![r] = q]
  PROVE  RequestsInv'
  <1>1. req = [s \in Requests |-> req[s]]
    BY DEF RequestsInv
  <1>2. req' = [s \in Requests |-> IF s = r THEN q ELSE req[s]]
    BY <1>1
  <1>3. req' = [s \in Requests |-> req'[s]]
    BY <1>2
  <1>4. ASSUME NEW s \in Requests
        PROVE  req'[s] \in RequestStates /\ RequestMade(req[s])'
    <2>1. CASE s = r
      <3>1. req'[s] = q
        BY <1>2, <2>1
      <3> QED BY <3>1 DEF RequestMade, Available
    <2>2. CASE s # r
      <3>1. req'[s] = req[s]
        BY <1>2, <2>2
      <3>2. req[s] \in RequestStates /\ RequestMade(req[s])
        BY DEF RequestsInv
      <3> QED BY <3>1, <3>2 DEF RequestMade, Available
    <2> QED BY <2>1, <2>2
  <1>5. RequestStates' = RequestStates
    BY DEF RequestStates
  <1> QED BY <1>3, <1>4, <1>5 DEF RequestsInv

LEMMA IdleMade == Idle \in RequestStates /\ RequestMade(Idle)
  BY DEF Idle, RequestStates, RequestMade, Working

LEMMA LeavingMade ==
  ASSUME NEW at \in Leaving, NEW next \in Nexts
  PROVE  [at |-> at, next |-> next] \in RequestStates /\ RequestMade([at |-> at, next |-> next])
  BY DEF Leaving, RequestStates, RequestMade, Working

\* What is known of a request from where it is.
LEMMA RequestHas ==
  ASSUME RequestsInv, NEW r \in Requests
  PROVE  /\ req[r].at \in Working =>
              /\ req[r] \in [at : Working, config : Configs \cup {None}, next : Nexts,
                             k : 1..Len(Filters), before : BlockerStates]
              /\ req[r].before.enabled => Available
              /\ req[r].next = "fill" => req[r].config \in Configs
              /\ req[r].at \in {"filter", "filtered"} => req[r].next = "fill" /\ Available
         /\ req[r].at \in Leaving => req[r] \in [at : Leaving, next : Nexts]
         /\ req[r].at \in Working \cup Leaving \cup {"idle"}
         /\ req[r].at = "idle" => req[r] = Idle
  <1> PICK q : q = req[r]
    OBVIOUS
  <1>1. q \in RequestStates /\ RequestMade(q)
    BY DEF RequestsInv
  <1>2. Idle.at = "idle" /\ "idle" \notin Working \cup Leaving /\ Working \cap Leaving = {}
    BY DEF Idle, Working, Leaving
  <1>3. \/ q = Idle
        \/ q \in [at : Working, config : Configs \cup {None}, next : Nexts,
                  k : 1..Len(Filters), before : BlockerStates]
        \/ q \in [at : Leaving, next : Nexts]
    BY <1>1 DEF RequestStates
  <1> QED BY <1>1, <1>2, <1>3 DEF RequestMade

LEMMA GotoMade ==
  ASSUME RequestsInv, NEW r \in Requests, NEW at \in Working, UNCHANGED nftables,
         req[r].at \in Working, Goto(r, at),
         at \in {"filter", "filtered"} => req[r].next = "fill" /\ Available
  PROVE  RequestsInv'
  <1> PICK q : q = req[r]
    OBVIOUS
  <1>1. /\ q \in [at : Working, config : Configs \cup {None}, next : Nexts,
                  k : 1..Len(Filters), before : BlockerStates]
        /\ q.before.enabled => Available
        /\ q.next = "fill" => q.config \in Configs
    BY RequestHas
  <1> DEFINE p == [q EXCEPT !.at = at]
  <1>2. req' = [req EXCEPT ![r] = p]
    BY DEF Goto
  <1>3. p \in [at : Working, config : Configs \cup {None}, next : Nexts,
               k : 1..Len(Filters), before : BlockerStates]
    BY <1>1
  <1>4. p.at = at /\ p.next = q.next /\ p.config = q.config /\ p.before = q.before
    BY <1>1
  <1> HIDE DEF p
  <1>5. p \in RequestStates
    BY <1>3 DEF RequestStates
  <1>6. RequestMade(p)
    BY <1>1, <1>4 DEF RequestMade
  <1> QED BY <1>2, <1>5, <1>6, RequestTo

LEMMA FinishMade ==
  ASSUME RequestsInv, NEW r \in Requests, NEW at \in Leaving, UNCHANGED nftables,
         req[r].at # "idle", Finish(r, at)
  PROVE  RequestsInv' /\ req' = [req EXCEPT ![r] = [at |-> at, next |-> req[r].next]]
  <1> PICK n : n = req[r].next
    OBVIOUS
  <1>1. n \in Nexts
    BY RequestHas
  <1>2. req' = [req EXCEPT ![r] = [at |-> at, next |-> n]]
    BY DEF Finish
  <1>3. [at |-> at, next |-> n] \in RequestStates /\ RequestMade([at |-> at, next |-> n])
    BY <1>1, LeavingMade
  <1> QED BY <1>2, <1>3, RequestTo

LEMMA AnswerMade ==
  ASSUME RequestsInv, NEW r \in Requests, UNCHANGED nftables, Answer(r)
  PROVE  RequestsInv'
  BY IdleMade, RequestTo DEF Answer

\* Either the request comes to the first set still to be filled, or it is through.
LEMMA FilterOrCommitCases ==
  ASSUME NEW r \in Requests, NEW c \in Configs, NEW k \in 1..(Len(Filters) + 1),
         FilterOrCommit(r, c, k)
  PROVE  \/ /\ \A n \in 1..Len(Filters) : n >= k => n \notin WantedFilters(c)
            /\ Commit(r, c)
         \/ \E n \in WantedFilters(c) :
               /\ n >= k /\ \A m \in WantedFilters(c) : m >= k => n <= m
               /\ req' = [req EXCEPT ![r].at = "filter", ![r].k = n]
               /\ UNCHANGED <<hash, active>>
  <1> DEFINE rest == {n \in WantedFilters(c) : n >= k}
  <1>1. rest \subseteq {1, 2, 3} /\ WantedFilters(c) \subseteq 1..Len(Filters)
    BY FiltersMade DEF WantedFilters
  <1>2. CASE rest = {}
    BY <1>2 DEF FilterOrCommit
  <1>3. CASE rest # {}
    <2> DEFINE first == CHOOSE n \in rest : \A m \in rest : n <= m
    <2>1. \E n \in rest : \A m \in rest : n <= m
      <3> HIDE DEF rest
      <3>1. 1 \in rest \/ 2 \in rest \/ 3 \in rest
        BY <1>1, <1>3
      <3> QED BY <1>1, <3>1
    <2>2. first \in rest /\ \A m \in rest : first <= m
      <3> HIDE DEF rest
      <3> QED BY <2>1
    <2>3. req' = [req EXCEPT ![r].at = "filter", ![r].k = first] /\ UNCHANGED <<hash, active>>
      BY <1>3 DEF FilterOrCommit
    <2> HIDE DEF first
    <2> QED BY <2>2, <2>3
  <1> QED BY <1>2, <1>3

\* What follows when the settings are in place.
LEMMA CommitCases ==
  ASSUME NEW r \in Requests, NEW c \in Configs, Commit(r, c), RequestsInv,
         req[r].at # "idle", UNCHANGED nftables
  PROVE  /\ RequestsInv' /\ hash' = c /\ active' = TRUE
         /\ \/ /\ req[r].before.enabled /\ ~c.blocker
               /\ req' = [req EXCEPT ![r] = [at |-> "outbound", next |-> req[r].next]]
            \/ req' = [req EXCEPT ![r] = [at |-> "stop", next |-> req[r].next]]
            \/ /\ ~NeedsRestart(req[r].before, c)
               /\ req' = [req EXCEPT ![r] = Idle]
  <1>1. hash' = c /\ active' = TRUE
    BY DEF Commit
  <1>2. "outbound" \in Leaving /\ "stop" \in Leaving
    BY DEF Leaving
  <1>3. CASE req[r].before.enabled /\ ~c.blocker /\ c.tags = NoTags
    <2>1. Finish(r, "outbound")
      BY <1>3 DEF Commit
    <2> QED BY <1>1, <1>2, <1>3, <2>1, FinishMade
  <1>4. CASE /\ ~(req[r].before.enabled /\ ~c.blocker /\ c.tags = NoTags)
             /\ NeedsRestart(req[r].before, c)
    <2>1. Finish(r, "stop")
      BY <1>4, Zenon DEF Commit
    <2> QED BY <1>1, <1>2, <2>1, FinishMade
  <1>5. CASE /\ ~(req[r].before.enabled /\ ~c.blocker /\ c.tags = NoTags)
             /\ ~NeedsRestart(req[r].before, c)
    <2>1. Answer(r)
      BY <1>5, Zenon DEF Commit
    <2> QED BY <1>1, <1>5, <2>1, AnswerMade DEF Answer
  <1> QED BY <1>3, <1>4, <1>5

\* The same of a request that has its settings: where it goes next.
LEMMA FilterOrCommitMade ==
  ASSUME NEW r \in Requests, NEW c \in Configs, NEW k \in 1..(Len(Filters) + 1),
         FilterOrCommit(r, c, k), RequestsInv, UNCHANGED nftables,
         req[r].at \in {"tabled", "filtered"}, req[r].next = "fill"
  PROVE  RequestsInv' /\ (hash' = hash \/ hash' = c) /\ (active' = active \/ active' = TRUE)
  <1>1. req[r].at # "idle"
    OBVIOUS
  <1>2. CASE Commit(r, c)
    BY <1>1, <1>2, CommitCases
  <1>3. ASSUME NEW n \in WantedFilters(c),
               req' = [req EXCEPT ![r].at = "filter", ![r].k = n], UNCHANGED <<hash, active>>
        PROVE  RequestsInv' /\ UNCHANGED <<hash, active>>
    <2> PICK q : q = req[r]
      OBVIOUS
    <2>1. /\ q \in [at : Working, config : Configs \cup {None}, next : Nexts,
                    k : 1..Len(Filters), before : BlockerStates]
          /\ q.before.enabled => Available
          /\ q.next = "fill" /\ q.config \in Configs
      BY RequestHas DEF Working
    <2> DEFINE p == [[q EXCEPT !.at = "filter"] EXCEPT !.k = n]
    <2>2. req' = [req EXCEPT ![r] = p]
      <3>1. req = [s \in Requests |-> req[s]]
        BY DEF RequestsInv
      <3> QED BY <1>3, <3>1
    <2>3. n \in 1..Len(Filters) /\ Available
      BY DEF WantedFilters
    <2>4. p \in [at : Working, config : Configs \cup {None}, next : Nexts,
                 k : 1..Len(Filters), before : BlockerStates]
      <3>1. "filter" \in Working
        BY DEF Working
      <3> QED BY <2>1, <2>3, <3>1
    <2>5. p.at = "filter" /\ p.next = q.next /\ p.config = q.config /\ p.before = q.before
      BY <2>1
    <2> HIDE DEF p
    <2>6. p \in RequestStates
      BY <2>4 DEF RequestStates
    <2>7. RequestMade(p)
      BY <2>1, <2>3, <2>5 DEF RequestMade
    <2> QED BY <1>3, <2>2, <2>6, <2>7, RequestTo
  <1> QED BY <1>2, <1>3, FilterOrCommitCases, CommitCases

LEMMA StartKept ==
  ASSUME StartInv, UNCHANGED <<start, xray>>
  PROVE  StartInv'
  BY DEF StartInv, Made, WellMade

LEMMA ResetTyped ==
  ASSUME Typed, NEW r \in Requests, NEW c \in Configs \cup {None}, NEW next \in Nexts,
         next = "fill" => c \in Configs, Reset(r, c, next)
  PROVE  Typed'
  <1> USE DEF Typed
  <1> DEFINE before == IF next = "fill" THEN blocker ELSE Off
             q == [at |-> "table", config |-> c, next |-> next, k |-> 1, before |-> before]
  <1>1. before \in BlockerStates /\ (before.enabled => Available)
    BY OffType DEF TypeInv
  <1>2. req' = [req EXCEPT ![r] = q] /\ UNCHANGED nftables
    BY DEF Reset
  <1> HIDE DEF before
  <1>3. q \in RequestStates /\ RequestMade(q)
    BY <1>1, FiltersMade DEF RequestStates, RequestMade, Working
  <1> HIDE DEF q
  <1>4. RequestsInv'
    BY <1>2, <1>3, RequestTo
  <1>5. TypeInv'
    <2>1. overlap' \in BOOLEAN /\ astray' \in BOOLEAN
      BY DEF Reset, Quiet, TypeInv
    <2>2. blocker' = Off /\ dropping' = {} /\ hooks' = None /\ hash' = None /\ active' = FALSE
      BY DEF Reset, ResetStates
    <2>3. UNCHANGED <<nftables, table, online, edited>>
      BY DEF Reset
    <2> QED BY <2>1, <2>2, <2>3, OffType DEF TypeInv, Available
  <1>6. StartInv'
    <2>1. start' = IF start = Idle THEN Idle ELSE [start EXCEPT !.alone = FALSE]
      BY DEF Reset
    <2>2. UNCHANGED xray
      BY DEF Reset
    <2>3. CASE start = Idle
      BY <2>1, <2>2, <2>3 DEF StartInv, Made, WellMade
    <2>4. CASE start # Idle
      <3> PICK s : s = start
        OBVIOUS
      <3>1. /\ s = [at |-> s.at, config |-> s.config, alone |-> s.alone]
            /\ s.at \in {"restart", "wait"} /\ Made(s.config)
        BY <2>4 DEF StartInv
      <3>2. start' = [at |-> s.at, config |-> s.config, alone |-> FALSE]
        BY <2>1, <2>4, <3>1
      <3>3. start'.at = s.at /\ start'.config = s.config /\ start'.alone = FALSE
        BY <3>2
      <3>4. Made(start.config)'
        BY <3>1, <3>3 DEF Made, WellMade
      <3>5. (xray # None => Made(xray))'
        BY <2>2 DEF StartInv, Made, WellMade
      <3>6. start' = [at |-> start'.at, config |-> start'.config, alone |-> start'.alone]
        BY <3>2, <3>3
      <3> QED BY <3>1, <3>3, <3>4, <3>5, <3>6 DEF StartInv
    <2> QED BY <2>3, <2>4
  <1> QED BY <1>4, <1>5, <1>6

LEMMA FillType ==
  ASSUME TypeInv, NEW c \in Configs, Fill(c)
  PROVE  /\ blocker' \in BlockerStates /\ (blocker'.enabled => Available)
         /\ dropping' \subseteq Ips /\ hooks' \in Configs \cup {None}
  <1> DEFINE tags == IF c.tags = NoTags THEN blocker.tags ELSE c.tags
             ignored == Resolve(c, c.ignored)
  <1>1. c.position \in Int /\ tags \subseteq STRING /\ ignored \subseteq Ips
    BY ConfigsAssumption, ResolveType DEF TypeInv, BlockerStates
  <1>2. blocker' = IF c.blocker /\ Available
                   THEN [enabled |-> TRUE, duration |-> TRUE, position |-> c.position,
                         tags |-> tags, ignored |-> ignored]
                   ELSE blocker
    BY DEF Fill
  <1> HIDE DEF tags, ignored
  <1>3. blocker' \in BlockerStates /\ (blocker'.enabled => Available)
    <2>1. CASE c.blocker /\ Available
      BY <1>1, <1>2, <2>1 DEF BlockerStates
    <2>2. CASE ~(c.blocker /\ Available)
      BY <1>2, <2>2 DEF TypeInv
    <2> QED BY <2>1, <2>2
  <1>4. dropping' \subseteq Ips
    <2>1. Resolve(c, c.whitelist) \subseteq Ips
      BY ResolveType
    <2>2. dropping' = Resolve(c, c.whitelist) \/ dropping' = dropping
      BY DEF Fill
    <2> QED BY <2>1, <2>2 DEF TypeInv
  <1>5. hooks' \in Configs \cup {None}
    BY DEF Fill, TypeInv
  <1> QED BY <1>3, <1>4, <1>5

\* A step of a request leaves everything of its type.
LEMMA RequestTyped ==
  ASSUME Typed, NEW r \in Requests, RequestStep(r)
  PROVE  Typed'
  <1> USE DEF Typed
  <1>1. CASE SyncNothing(r) \/ SyncInvalid(r) \/ StopWithCleanup(r)
    <2>1. Reset(r, None, "stop") \/ Reset(r, None, "kill")
      BY <1>1 DEF SyncNothing, SyncInvalid, StopWithCleanup
    <2> QED BY <2>1, ResetTyped DEF Nexts
  <1>2. ASSUME NEW c \in Configs, Sync(r, c)
        PROVE  Typed'
    BY <1>2, ResetTyped DEF Sync, Nexts
  <1>3. CASE RecreateTable(r)
    <2>1. RequestsInv'
      BY <1>3, GotoMade DEF RecreateTable, At, Working
    <2>2. TypeInv'
      <3>1. EmptyTable \in [FilterSets -> SUBSET Ips]
        BY DEF EmptyTable
      <3>2. table' \in {EmptyTable, table} /\ edited' \in {FALSE, edited}
        BY <1>3 DEF RecreateTable
      <3>3. UNCHANGED <<nftables, states, online, overlap, astray>>
        BY <1>3 DEF RecreateTable, process
      <3> QED BY <3>1, <3>2, <3>3 DEF TypeInv, Available, states, EmptyTable
    <2>3. StartInv'
      BY <1>3, StartKept DEF RecreateTable, process
    <2> QED BY <2>1, <2>2, <2>3
  <1>4. CASE RecreateTableFails(r)
    <2>1. RequestsInv'
      <3>1. CASE Finish(r, "stop")
        BY <1>4, <3>1, FinishMade DEF RecreateTableFails, At, Leaving
      <3>2. CASE Answer(r)
        BY <1>4, <3>2, AnswerMade DEF RecreateTableFails
      <3> QED BY <1>4, <3>1, <3>2 DEF RecreateTableFails
    <2>2. TypeInv'
      BY <1>4 DEF RecreateTableFails, TypeInv, Available, states, process
    <2>3. StartInv'
      BY <1>4, StartKept DEF RecreateTableFails, process
    <2> QED BY <2>1, <2>2, <2>3
  <1>5. CASE Tabled(r)
    <2>1. UNCHANGED <<nftables, table, process, history>> /\ req[r].at = "tabled"
      BY <1>5 DEF Tabled, At
    <2>2. StartInv'
      BY <2>1, StartKept DEF process
    <2>3. CASE req[r].next = "fill"
      <3> PICK c : c = req[r].config
        OBVIOUS
      <3>1. c \in Configs /\ Fill(c) /\ FilterOrCommit(r, c, 1)
        BY <1>5, <2>1, <2>3, RequestHas DEF Tabled, Working
      <3>2. 1 \in 1..(Len(Filters) + 1)
        BY FiltersMade
      <3>3. RequestsInv' /\ (hash' = hash \/ hash' = c) /\ (active' = active \/ active' = TRUE)
        BY <2>1, <2>3, <3>1, <3>2, FilterOrCommitMade
      <3>4. TypeInv'
        BY <2>1, <3>1, <3>3, FillType DEF TypeInv, Available, process, history
      <3> QED BY <2>2, <3>3, <3>4
    <2>4. CASE req[r].next # "fill"
      <3>1. Finish(r, "stop") /\ UNCHANGED states
        BY <1>5, <2>4 DEF Tabled
      <3>2. RequestsInv'
        BY <2>1, <3>1, FinishMade DEF Leaving
      <3>3. TypeInv'
        BY <2>1, <3>1 DEF TypeInv, Available, states, process, history
      <3> QED BY <2>2, <3>2, <3>3
    <2> QED BY <2>3, <2>4
  <1>6. CASE FillFilter(r)
    <2>1. req[r].at = "filter" /\ Goto(r, "filtered")
      BY <1>6 DEF FillFilter, At
    <2>2. UNCHANGED <<nftables, states, process, history>>
      BY <1>6 DEF FillFilter
    <2> PICK q : q = req[r]
      OBVIOUS
    <2>3. /\ q \in [at : Working, config : Configs \cup {None}, next : Nexts,
                    k : 1..Len(Filters), before : BlockerStates]
          /\ q.next = "fill" /\ Available /\ q.config \in Configs
      BY <2>1, RequestHas DEF Working
    <2>4. RequestsInv'
      BY <2>1, <2>2, <2>3, GotoMade DEF Working
    <2>5. StartInv'
      BY <2>2, StartKept DEF process
    <2>6. TypeInv'
      <3> DEFINE set == Filters[q.k]
                 new == Resolve(q.config, q.config.filters[set])
      <3>1. set \in FilterSets /\ new \subseteq Ips
        BY <2>3, FiltersMade, ResolveType
      <3>2. table' = [table EXCEPT ![set] = @ \cup new]
        BY <1>6 DEF FillFilter
      <3> HIDE DEF set, new
      <3>3. table' \in [FilterSets -> SUBSET Ips]
        BY <3>1, <3>2 DEF TypeInv
      <3> QED BY <2>2, <2>3, <3>3 DEF TypeInv, Available, states, process, history
    <2> QED BY <2>4, <2>5, <2>6
  <1>7. CASE FillFilterFails(r)
    <2>1. RequestsInv'
      BY <1>7, AnswerMade DEF FillFilterFails
    <2>2. TypeInv'
      BY <1>7 DEF FillFilterFails, TypeInv, Available, states, process
    <2>3. StartInv'
      BY <1>7, StartKept DEF FillFilterFails, process
    <2> QED BY <2>1, <2>2, <2>3
  <1>8. CASE Filtered(r)
    <2> PICK q : q = req[r]
      OBVIOUS
    <2>1. /\ q.at = "filtered" /\ FilterOrCommit(r, q.config, q.k + 1)
          /\ UNCHANGED <<nftables, blocker, dropping, hooks, table, process, history>>
      BY <1>8 DEF Filtered, At
    <2>2. q.next = "fill" /\ q.config \in Configs /\ q.k + 1 \in 1..(Len(Filters) + 1)
      <3>1. q.next = "fill" /\ q.config \in Configs /\ q.k \in 1..Len(Filters)
        BY <2>1, RequestHas DEF Working
      <3> QED BY <3>1, FiltersMade
    <2>3. /\ RequestsInv' /\ (hash' = hash \/ hash' = q.config)
          /\ (active' = active \/ active' = TRUE)
      BY <2>1, <2>2, FilterOrCommitMade
    <2>4. TypeInv'
      BY <2>1, <2>2, <2>3 DEF TypeInv, Available, process, history
    <2>5. StartInv'
      BY <2>1, StartKept DEF process
    <2> QED BY <2>3, <2>4, <2>5
  <1>9. CASE RemoveOutbound(r)
    <2>1. RequestsInv'
      BY <1>9, AnswerMade DEF RemoveOutbound
    <2>2. TypeInv'
      BY <1>9 DEF RemoveOutbound, TypeInv, Available, states
    <2>3. StartInv'
      <3>1. UNCHANGED start
        BY <1>9 DEF RemoveOutbound
      <3>2. CASE UNCHANGED xray
        BY <3>1, <3>2, StartKept
      <3>3. CASE xray # None /\ xray' = [xray EXCEPT !.outbound = FALSE]
        <4> PICK x : x = xray
          OBVIOUS
        <4>1. /\ x = [given |-> x.given, rules |-> x.rules,
                      outbound |-> x.outbound, hooked |-> x.hooked]
              /\ WellMade(x)
          BY <3>3 DEF StartInv, Made
        <4>2. xray' = [given |-> x.given, rules |-> x.rules,
                       outbound |-> FALSE, hooked |-> x.hooked]
          BY <3>3, <4>1
        <4>3. /\ xray'.given = x.given /\ xray'.rules = x.rules
              /\ xray'.outbound = FALSE /\ xray'.hooked = x.hooked
          BY <4>2
        <4>4. Made(xray)'
          BY <4>1, <4>2, <4>3 DEF Made, WellMade
        <4>5. (start = Idle \/ Made(start.config))'
          BY <3>1 DEF StartInv, Made, WellMade
        <4> QED BY <3>1, <4>4, <4>5 DEF StartInv
      <3> QED BY <1>9, <3>2, <3>3 DEF RemoveOutbound
    <2> QED BY <2>1, <2>2, <2>3
  <1>10. CASE StopOffline(r) \/ KillXrayFails(r)
    <2>1. RequestsInv'
      <3>1. CASE StopOffline(r)
        BY <3>1, AnswerMade DEF StopOffline
      <3>2. CASE KillXrayFails(r)
        BY <3>2, FinishMade DEF KillXrayFails, At, Leaving
      <3> QED BY <1>10, <3>1, <3>2
    <2>2. TypeInv'
      BY <1>10 DEF StopOffline, KillXrayFails, TypeInv, Available, states, process, history
    <2>3. StartInv'
      BY <1>10, StartKept DEF StopOffline, KillXrayFails, process
    <2> QED BY <2>1, <2>2, <2>3
  <1>11. CASE KillXray(r)
    <2>1. RequestsInv'
      BY <1>11, FinishMade DEF KillXray, At, Leaving
    <2>2. TypeInv'
      BY <1>11 DEF KillXray, TypeInv, Available, states, history
    <2>3. StartInv'
      BY <1>11 DEF KillXray, StartInv, Made, WellMade
    <2> QED BY <2>1, <2>2, <2>3
  <1>12. CASE Stopped(r)
    <2>1. RequestsInv'
      BY <1>12, AnswerMade DEF Stopped
    <2>2. TypeInv'
      BY <1>12 DEF Stopped, TypeInv, Available, states, history
    <2>3. StartInv'
      BY <1>12, StartKept DEF Stopped
    <2> QED BY <2>1, <2>2, <2>3
  <1> QED BY <1>1, <1>2, <1>3, <1>4, <1>5, <1>6, <1>7, <1>8, <1>9, <1>10, <1>11, <1>12
          DEF RequestStep

\* So does a step of a start of xray, or one by hand.
LEMMA OtherTyped ==
  ASSUME Typed,
         \/ \E rules \in RuleLists : StartReads(rules)
         \/ StartRestarts \/ StartFails \/ StartEnds
         \/ \E ips \in SUBSET Ips : UnblockIps(ips)
         \/ RecreateByHand
  PROVE  Typed'
  <1> USE DEF Typed
  <1>0. ASSUME UNCHANGED <<nftables, req>>
        PROVE  RequestsInv'
    BY <1>0 DEF RequestsInv, RequestMade, RequestStates, Available
  <1>1. ASSUME NEW rules \in RuleLists, StartReads(rules)
        PROVE  Typed'
    <2>1. UNCHANGED <<nftables, states, table, req, online, xray, history>>
      BY <1>1 DEF StartReads
    <2>2. TypeInv'
      BY <2>1 DEF TypeInv, Available, states, history
    <2> DEFINE g == Generated(rules, blocker)
    <2>3. start' = [at |-> "restart", config |-> g, alone |-> Quiet]
      BY <1>1 DEF StartReads
    <2>4. WellMade(g)
      BY GeneratedMade DEF TypeInv
    <2>5. g = [given |-> g.given, rules |-> g.rules, outbound |-> g.outbound, hooked |-> g.hooked]
      BY DEF Generated
    <2> HIDE DEF g
    <2>6. start'.at = "restart" /\ start'.config = g /\ start'.alone = Quiet /\ Quiet \in BOOLEAN
      BY <2>3 DEF Quiet
    <2>7. Made(start.config)'
      BY <2>4, <2>5, <2>6 DEF Made, WellMade
    <2>8. (xray # None => Made(xray))'
      BY <2>1 DEF StartInv, Made, WellMade
    <2>9. StartInv'
      BY <2>3, <2>6, <2>7, <2>8 DEF StartInv
    <2> QED BY <1>0, <2>1, <2>2, <2>9
  <1>2. CASE StartRestarts
    <2>1. UNCHANGED <<nftables, states, table, req, online, edited, overlap>>
      BY <1>2 DEF StartRestarts
    <2> PICK s : s = start
      OBVIOUS
    <2>2. /\ s = [at |-> s.at, config |-> s.config, alone |-> s.alone]
          /\ s.alone \in BOOLEAN /\ Made(s.config)
      BY <1>2 DEF StartRestarts, StartInv, Idle
    <2>3. xray' = s.config /\ astray' = ~s.alone /\ start' = [s EXCEPT !.at = "wait"]
      BY <1>2 DEF StartRestarts
    <2>4. start' = [at |-> "wait", config |-> s.config, alone |-> s.alone]
      BY <2>2, <2>3
    <2>5. start'.at = "wait" /\ start'.config = s.config /\ start'.alone = s.alone
      BY <2>4
    <2>6. Made(start.config)' /\ Made(xray)'
      BY <2>2, <2>3, <2>5 DEF Made, WellMade
    <2>7. StartInv'
      BY <2>2, <2>4, <2>5, <2>6 DEF StartInv
    <2>8. TypeInv'
      BY <2>1, <2>2, <2>3 DEF TypeInv, Available, states
    <2> QED BY <1>0, <2>1, <2>7, <2>8
  <1>3. CASE StartFails
    <2>1. TypeInv'
      BY <1>3 DEF StartFails, TypeInv, Available, states, history
    <2>2. StartInv'
      BY <1>3 DEF StartFails, StartInv, Made, WellMade
    <2> QED BY <1>0, <1>3, <2>1, <2>2 DEF StartFails
  <1>4. CASE StartEnds
    <2>1. TypeInv'
      BY <1>4 DEF StartEnds, TypeInv, Available, states, history
    <2>2. StartInv'
      BY <1>4 DEF StartEnds, StartInv, Made, WellMade
    <2> QED BY <1>0, <1>4, <2>1, <2>2 DEF StartEnds
  <1>5. ASSUME NEW ips \in SUBSET Ips, UnblockIps(ips)
        PROVE  Typed'
    <2>1. UNCHANGED <<nftables, states, req, process, overlap, astray>>
      BY <1>5 DEF UnblockIps
    <2>2. "ingress" \in FilterSets
      BY DEF FilterSets
    <2>3. table' = [table EXCEPT !["ingress"] = @ \ ips] /\ edited' = TRUE
      BY <1>5 DEF UnblockIps
    <2>4. table' \in [FilterSets -> SUBSET Ips]
      BY <2>2, <2>3 DEF TypeInv
    <2>5. table = EmptyTable => table' = EmptyTable
      BY <2>2, <2>3 DEF EmptyTable
    <2>6. TypeInv'
      BY <2>1, <2>3, <2>4, <2>5 DEF TypeInv, Available, states, process, EmptyTable
    <2> QED BY <1>0, <2>1, <2>6, StartKept DEF process
  <1>6. CASE RecreateByHand
    <2>1. UNCHANGED <<nftables, states, req, process, overlap, astray>>
      BY <1>6 DEF RecreateByHand
    <2>2. table' = EmptyTable /\ edited' = TRUE
      BY <1>6 DEF RecreateByHand
    <2>3. EmptyTable \in [FilterSets -> SUBSET Ips]
      BY DEF EmptyTable
    <2>4. TypeInv'
      BY <2>1, <2>2, <2>3 DEF TypeInv, Available, states, process, EmptyTable
    <2> QED BY <1>0, <2>1, <2>4, StartKept DEF process
  <1> QED BY <1>1, <1>2, <1>3, <1>4, <1>5, <1>6

LEMMA TypedInit == Init => Typed
  <1> SUFFICES ASSUME Init PROVE Typed
    OBVIOUS
  <1>1. RequestsInv
    <2>1. req = [r \in Requests |-> Idle]
      BY DEF Init
    <2> QED BY <2>1, IdleMade DEF RequestsInv
  <1>2. TypeInv
    <2>1. EmptyTable \in [FilterSets -> SUBSET Ips]
      BY DEF EmptyTable
    <2> QED BY <2>1, OffType DEF Init, TypeInv
  <1>3. StartInv
    BY DEF Init, StartInv
  <1> QED BY <1>1, <1>2, <1>3 DEF Typed

LEMMA TypedStep == Typed /\ [Next]_vars => Typed'
  <1> SUFFICES ASSUME Typed, [Next]_vars PROVE Typed'
    OBVIOUS
  <1>1. CASE UNCHANGED vars
    BY <1>1 DEF vars, states, process, history, Typed, TypeInv, RequestsInv, RequestStates,
                RequestMade, StartInv, Made, WellMade, Available
  <1>2. ASSUME NEW r \in Requests, RequestStep(r)
        PROVE  Typed'
    BY <1>2, RequestTyped
  <1> QED BY <1>1, <1>2, OtherTyped DEF Next

LEMMA TypedTypeOK == Typed => TypeOK
  <1> SUFFICES ASSUME Typed PROVE TypeOK
    OBVIOUS
  <1>1. \A r \in Requests : req[r].at \in Awaits \cup {"idle"}
    BY RequestHas DEF Typed, Working, Leaving, Awaits
  <1>2. start.at \in {"idle", "restart", "wait"}
    BY DEF Typed, StartInv, Idle
  <1> QED BY <1>1, <1>2 DEF Typed, TypeInv, TypeOK, BlockerStates

LEMMA AlwaysTyped == Spec => []Typed
  BY TypedInit, TypedStep, PTL DEF Spec

\* The states of the plugins, the sets of nftables, the requests and the start
\* of xray have the types that are declared, for any settings that parse.
THEOREM PluginsTypeCorrect == Spec => []TypeOK
  BY AlwaysTyped, TypedTypeOK, PTL

\* Whatever rules the panel gives and whatever is removed from it since, xray
\* runs with the API's rule first and with the panel's after it, in their order.
THEOREM RulesInOrder == Spec => []RulesGenerated
  <1>1. Typed => RulesGenerated
    BY DEF Typed, StartInv, Made, WellMade, RulesGenerated
  <1> QED BY <1>1, AlwaysTyped, PTL

-----------------------------------------------------------------------------
(* The settings that are remembered are in force.                            *)

LEMMA NotWanted ==
  ASSUME NEW c \in Configs, NEW n \in 1..Len(Filters), n \notin WantedFilters(c)
  PROVE  Wanted(c, n) = {}
  BY DEF WantedFilters, Wanted

\* Sets that are not wanted may be skipped.
LEMMA FilledSkip ==
  ASSUME NEW c \in Configs, NEW k \in 1..(Len(Filters) + 1), NEW l \in 0..Len(Filters),
         \A n \in 1..Len(Filters) : n >= k /\ n <= l => n \notin WantedFilters(c),
         k <= l + 1, FilledUpTo(c, k - 1)
  PROVE  FilledUpTo(c, l)
  <1> SUFFICES ASSUME NEW n \in 1..Len(Filters)
               PROVE  table[Filters[n]] = IF n <= l THEN Wanted(c, n) ELSE {}
    BY DEF FilledUpTo
  <1>1. n \in Nat /\ l \in Nat /\ k \in Nat
    BY FiltersMade
  <1>2. table[Filters[n]] = IF n <= k - 1 THEN Wanted(c, n) ELSE {}
    BY DEF FilledUpTo
  <1>3. CASE n <= k - 1
    BY <1>1, <1>2, <1>3
  <1>4. CASE n >= k /\ n <= l
    BY <1>1, <1>2, <1>4, NotWanted
  <1>5. CASE n > l
    BY <1>1, <1>2, <1>5
  <1> QED BY <1>1, <1>3, <1>4, <1>5

LEMMA FilledNone ==
  ASSUME table = EmptyTable, NEW c
  PROVE  FilledUpTo(c, 0)
  BY FiltersMade DEF FilledUpTo, EmptyTable

\* What must hold after a step of a request that is alone.
LEMMA HashTo ==
  ASSUME RequestsInv, HashInv, NEW r \in Requests, NEW q, req' = [req EXCEPT ![r] = q],
         req[r].at # "idle", UNCHANGED overlap,
         ~overlap => SettingsStage(q)',
         ~overlap /\ hash' # None =>
           InForce(hash)' /\ (~edited' => FilledUpTo(hash, Len(Filters))')
  PROVE  HashInv'
  <1> SUFFICES ASSUME ~overlap PROVE HashInv'
    BY DEF HashInv
  <1>1. AtMostOne
    BY DEF HashInv
  <1>2. req = [s \in Requests |-> req[s]]
    BY DEF RequestsInv
  <1>3. req' = [s \in Requests |-> IF s = r THEN q ELSE req[s]]
    BY <1>2
  <1>4. ASSUME NEW s \in Requests, s # r
        PROVE  req[s].at = "idle" /\ req'[s] = req[s]
    BY <1>1, <1>3, <1>4 DEF AtMostOne, At
  <1>5. AtMostOne'
    BY <1>4 DEF AtMostOne, At
  <1>6. ASSUME NEW s \in Requests
        PROVE  SettingsStage(req[s])'
    <2>1. CASE s = r
      <3>1. req'[s] = q
        BY <1>3, <2>1
      <3> QED BY <3>1 DEF SettingsStage
    <2>2. CASE s # r
      BY <1>4, <2>2 DEF SettingsStage
    <2> QED BY <2>1, <2>2
  <1> QED BY <1>5, <1>6 DEF HashInv

\* A request that leaves has nothing more to do with the settings.
LEMMA LeavingStage ==
  ASSUME NEW q, q.at \in Leaving \cup {"idle"}
  PROVE  SettingsStage(q)'
  BY DEF SettingsStage, Leaving

LEMMA LeavingAt ==
  /\ Idle.at \in Leaving \cup {"idle"}
  /\ \A at \in Leaving : \A next : [at |-> at, next |-> next].at \in Leaving \cup {"idle"}
  BY DEF Idle

\* Nothing happens to the settings: they stay remembered, and in force.
LEMMA HashStays ==
  ASSUME HashInv, UNCHANGED <<nftables, states, table, edited>>, ~overlap, hash' # None
  PROVE  InForce(hash)' /\ (~edited' => FilledUpTo(hash, Len(Filters))')
  BY DEF HashInv, InForce, Filled, FilledUpTo, Wanted, Available, states

\* From the n-th set on, with the settings in force.
LEMMA HashFilters ==
  ASSUME Typed, HashInv, NEW r \in Requests, NEW c \in Configs, NEW k \in 1..(Len(Filters) + 1),
         FilterOrCommit(r, c, k), UNCHANGED <<nftables, table, edited, overlap>>,
         req[r].at \in {"tabled", "filtered"}, req[r].config = c,
         ~overlap => hash = None /\ InForce(c)' /\ (~edited => FilledUpTo(c, k - 1))
  PROVE  HashInv'
  <1>0. RequestsInv /\ req[r].at # "idle"
    BY DEF Typed
  <1>1. CASE /\ \A n \in 1..Len(Filters) : n >= k => n \notin WantedFilters(c)
             /\ Commit(r, c)
    <2>1. ~overlap /\ ~edited => FilledUpTo(c, Len(Filters))
      <3>1. Len(Filters) \in 0..Len(Filters) /\ k <= Len(Filters) + 1
        BY FiltersMade
      <3> QED BY <1>1, <3>1, FilledSkip
    <2>2. FilledUpTo(c, Len(Filters)) => FilledUpTo(c, Len(Filters))'
      BY DEF FilledUpTo, Wanted, Available
    <2>3. hash' = c
      BY <1>1 DEF Commit
    <2>4. ~overlap => InForce(hash)' /\ (~edited' => FilledUpTo(hash, Len(Filters))')
      <3>1. ~overlap => InForce(c)' /\ (~edited' => FilledUpTo(c, Len(Filters))')
        BY <2>1, <2>2
      <3> QED BY <2>3, <3>1 DEF InForce, Filled, FilledUpTo, Wanted, Available
    <2>5. \/ Finish(r, "outbound") \/ Finish(r, "stop") \/ Answer(r)
      BY <1>1 DEF Commit
    <2>6. PICK q : req' = [req EXCEPT ![r] = q] /\ q.at \in Leaving \cup {"idle"}
      BY <2>5, LeavingAt DEF Finish, Answer, Leaving
    <2> QED BY <1>0, <2>4, <2>6, HashTo, LeavingStage
  <1>2. ASSUME NEW n \in WantedFilters(c), n >= k,
               \A m \in WantedFilters(c) : m >= k => n <= m,
               req' = [req EXCEPT ![r].at = "filter", ![r].k = n], UNCHANGED <<hash, active>>
        PROVE  HashInv'
    <2> PICK p : p = req[r]
      OBVIOUS
    <2>1. p \in [at : Working, config : Configs \cup {None}, next : Nexts,
                 k : 1..Len(Filters), before : BlockerStates]
      BY <1>0, RequestHas DEF Working
    <2> DEFINE q == [[p EXCEPT !.at = "filter"] EXCEPT !.k = n]
    <2>2. req' = [req EXCEPT ![r] = q]
      <3>1. req = [s \in Requests |-> req[s]]
        BY <1>0 DEF RequestsInv
      <3> QED BY <1>2, <3>1
    <2>3. q.at = "filter" /\ q.k = n /\ q.config = c
      BY <2>1
    <2> HIDE DEF q
    <2>4. n \in 1..Len(Filters) /\ WantedFilters(c) \subseteq 1..Len(Filters)
      BY DEF WantedFilters
    <2>5. ~overlap /\ ~edited => FilledUpTo(c, n - 1)
      <3>1. n - 1 \in 0..Len(Filters) /\ k <= (n - 1) + 1
        BY <1>2, <2>4, FiltersMade
      <3>2. \A m \in 1..Len(Filters) : m >= k /\ m <= n - 1 => m \notin WantedFilters(c)
        BY <1>2, <2>4, FiltersMade
      <3> QED BY <3>1, <3>2, FilledSkip
    <2>6. FilledUpTo(c, n - 1) => FilledUpTo(c, n - 1)'
      BY DEF FilledUpTo, Wanted, Available
    <2>7. ~overlap => SettingsStage(q)'
      <3>1. ~overlap => hash' = None /\ InForce(q.config)' /\ (~edited' => FilledUpTo(q.config, q.k - 1)')
        BY <1>2, <2>3, <2>5, <2>6
      <3> QED BY <2>3, <3>1 DEF SettingsStage
    <2>8. ~overlap => hash' = None
      BY <1>2
    <2> QED BY <1>0, <2>2, <2>7, <2>8, HashTo
  <1> QED BY <1>1, <1>2, FilterOrCommitCases

LEMMA HashReset ==
  ASSUME Typed, HashInv, NEW r \in Requests, NEW c, NEW next, Reset(r, c, next)
  PROVE  HashInv'
  <1> DEFINE q == [at |-> "table", config |-> c, next |-> next, k |-> 1,
                   before |-> IF next = "fill" THEN blocker ELSE Off]
  <1>1. overlap' = ~Quiet /\ req' = [req EXCEPT ![r] = q]
    BY DEF Reset
  <1>2. q.at = "table"
    OBVIOUS
  <1> HIDE DEF q
  <1> SUFFICES ASSUME Quiet PROVE HashInv'
    BY <1>1 DEF HashInv
  <1>3. req = [s \in Requests |-> req[s]] /\ \A s \in Requests : req[s].at = "idle"
    BY DEF Quiet, Typed, RequestsInv, At
  <1>4. \A s \in Requests : req'[s] = IF s = r THEN q ELSE req[s]
    BY <1>1, <1>3
  <1>5. AtMostOne'
    BY <1>3, <1>4 DEF AtMostOne, At
  <1>6. hash' = None /\ Cleared'
    BY DEF Reset, ResetStates, Cleared
  <1>7. ASSUME NEW s \in Requests
        PROVE  SettingsStage(req[s])'
    <2>1. req'[s].at \in {"table", "idle"}
      BY <1>2, <1>3, <1>4
    <2> QED BY <1>6, <2>1 DEF SettingsStage
  <1> QED BY <1>5, <1>6, <1>7 DEF HashInv

\* A step that leaves the states as they were and sends a request away.
LEMMA HashLeaves ==
  ASSUME Typed, HashInv, NEW r \in Requests, req[r].at # "idle",
         UNCHANGED <<nftables, states, table, edited, overlap>>,
         Answer(r) \/ \E at \in Leaving : Finish(r, at)
  PROVE  HashInv'
  <1>1. PICK q : req' = [req EXCEPT ![r] = q] /\ q.at \in Leaving \cup {"idle"}
    BY LeavingAt DEF Finish, Answer
  <1>2. ~overlap /\ hash' # None =>
           InForce(hash)' /\ (~edited' => FilledUpTo(hash, Len(Filters))')
    BY HashStays
  <1> QED BY <1>1, <1>2, HashTo, LeavingStage DEF Typed

LEMMA HashRequest ==
  ASSUME Typed, HashInv, NEW r \in Requests, RequestStep(r)
  PROVE  HashInv'
  <1>0. RequestsInv
    BY DEF Typed
  <1>1. CASE SyncNothing(r) \/ SyncInvalid(r) \/ StopWithCleanup(r)
    BY <1>1, HashReset DEF SyncNothing, SyncInvalid, StopWithCleanup
  <1>2. ASSUME NEW c \in Configs, Sync(r, c)
        PROVE  HashInv'
    BY <1>2, HashReset DEF Sync
  <1>3. CASE RecreateTable(r)
    <2> PICK p : p = req[r]
      OBVIOUS
    <2> DEFINE q == [p EXCEPT !.at = "tabled"]
    <2>1. p.at = "table" /\ req' = [req EXCEPT ![r] = q]
      BY <1>3 DEF RecreateTable, At, Goto
    <2>2. q.at = "tabled"
      <3>1. p \in [at : Working, config : Configs \cup {None}, next : Nexts,
                   k : 1..Len(Filters), before : BlockerStates]
        BY <1>0, <2>1, RequestHas DEF Working
      <3> QED BY <3>1
    <2> HIDE DEF q
    <2>3. UNCHANGED <<nftables, states, overlap>>
      BY <1>3 DEF RecreateTable
    <2>4. table' = EmptyTable \/ (~Available /\ table' = table)
      BY <1>3 DEF RecreateTable, Manager, Available
    <2>5. table' = EmptyTable
      BY <2>4 DEF Typed, TypeInv
    <2>6. ~overlap => Cleared
      BY <2>1 DEF HashInv, SettingsStage
    <2>7. ~overlap => SettingsStage(q)'
      BY <2>2, <2>3, <2>5, <2>6 DEF SettingsStage, Cleared, states, EmptyTable
    <2>8. ~overlap => hash' = None
      BY <2>3, <2>6 DEF Cleared, states
    <2> QED BY <1>0, <2>1, <2>3, <2>7, <2>8, HashTo
  <1>4. CASE RecreateTableFails(r)
    BY <1>4, HashLeaves DEF RecreateTableFails, At, Leaving
  <1>5. CASE Tabled(r)
    <2>1. UNCHANGED <<nftables, table, process, history>> /\ req[r].at = "tabled"
      BY <1>5 DEF Tabled, At
    <2>2. CASE req[r].next = "fill"
      <3> PICK c : c = req[r].config
        OBVIOUS
      <3>1. c \in Configs /\ Fill(c) /\ FilterOrCommit(r, c, 1)
        BY <1>0, <1>5, <2>1, <2>2, RequestHas DEF Tabled, Working
      <3>2. ~overlap => Cleared /\ (~edited => table = EmptyTable)
        BY <2>1 DEF HashInv, SettingsStage
      <3>3. ~overlap => InForce(c)'
        <4> SUFFICES ASSUME ~overlap PROVE InForce(c)'
          OBVIOUS
        <4>1. blocker = Off /\ dropping = {} /\ hooks = None
          BY <3>2 DEF Cleared
        <4>2. blocker' = Filled(c)
          <5>1. blocker.tags = {}
            BY <4>1 DEF Off
          <5> QED BY <3>1, <4>1, <5>1 DEF Fill, Filled
        <4>3. c.whitelist # None /\ nftables # "nocap" => dropping' = Resolve(c, c.whitelist)
          BY <3>1 DEF Fill
        <4>4. hooks' = IF c.hooks THEN c ELSE None
          BY <3>1, <4>1 DEF Fill
        <4> QED BY <2>1, <4>2, <4>3, <4>4 DEF InForce, Filled, Available
      <3>4. ~overlap /\ ~edited => FilledUpTo(c, 1 - 1)
        BY <3>2, FilledNone
      <3>5. 1 \in 1..(Len(Filters) + 1)
        BY FiltersMade
      <3>6. ~overlap => hash = None
        BY <3>2 DEF Cleared
      <3>7. UNCHANGED <<nftables, table, edited, overlap>>
        BY <2>1 DEF history
      <3> QED BY <2>1, <3>1, <3>3, <3>4, <3>5, <3>6, <3>7, HashFilters
    <2>3. CASE req[r].next # "fill"
      BY <1>5, <2>1, <2>3, HashLeaves DEF Tabled, history, Leaving
    <2> QED BY <2>2, <2>3
  <1>6. CASE FillFilter(r)
    <2> PICK p : p = req[r]
      OBVIOUS
    <2> DEFINE q == [p EXCEPT !.at = "filtered"]
               c == p.config
               new == Resolve(c, c.filters[Filters[p.k]])
    <2>1. p.at = "filter" /\ req' = [req EXCEPT ![r] = q]
      BY <1>6 DEF FillFilter, At, Goto
    <2>2. UNCHANGED <<nftables, states, process, history>>
      BY <1>6 DEF FillFilter
    <2>3. /\ p \in [at : Working, config : Configs \cup {None}, next : Nexts,
                    k : 1..Len(Filters), before : BlockerStates]
          /\ Available /\ c \in Configs
      BY <1>0, <2>1, RequestHas DEF Working
    <2>4. q.at = "filtered" /\ q.k = p.k /\ q.config = c
      BY <2>3
    <2>5. table' = [table EXCEPT ![Filters[p.k]] = @ \cup new]
      BY <1>6 DEF FillFilter
    <2> HIDE DEF q
    <2>6. ~overlap => hash = None /\ InForce(c) /\ (~edited => FilledUpTo(c, p.k - 1))
      BY <2>1 DEF HashInv, SettingsStage
    <2>7. FilledUpTo(c, p.k - 1) => FilledUpTo(c, p.k)'
      <3> SUFFICES ASSUME FilledUpTo(c, p.k - 1), NEW n \in 1..Len(Filters)
                   PROVE  table'[Filters[n]] = IF n <= p.k THEN Wanted(c, n)' ELSE {}
        BY DEF FilledUpTo
      <3>1. p.k \in 1..Len(Filters) /\ n \in Int /\ p.k \in Int
        BY <2>3, FiltersMade
      <3>2. table[Filters[n]] = IF n <= p.k - 1 THEN Wanted(c, n) ELSE {}
        BY DEF FilledUpTo
      <3>3. Wanted(c, n)' = Wanted(c, n) /\ Wanted(c, p.k) = new
        BY <2>2, <2>3 DEF Wanted, Available
      <3>4. CASE n = p.k
        <4>1. table'[Filters[n]] = table[Filters[n]] \cup new
          <5>1. Filters[n] \in FilterSets /\ DOMAIN table = FilterSets
            BY FiltersMade DEF Typed, TypeInv
          <5> HIDE DEF new
          <5> QED BY <2>5, <3>4, <5>1
        <4>2. table[Filters[n]] = {}
          BY <3>1, <3>2, <3>4
        <4> QED BY <3>1, <3>3, <3>4, <4>1, <4>2
      <3>5. CASE n # p.k
        <4>1. Filters[n] # Filters[p.k]
          BY <3>1, <3>5, FiltersMade
        <4>2. table'[Filters[n]] = table[Filters[n]]
          <5>1. Filters[n] \in FilterSets /\ DOMAIN table = FilterSets
            BY FiltersMade DEF Typed, TypeInv
          <5> HIDE DEF new
          <5> QED BY <2>5, <4>1, <5>1
        <4> QED BY <3>1, <3>2, <3>3, <3>5, <4>2
      <3> QED BY <3>4, <3>5
    <2> HIDE DEF c, new
    <2>8. InForce(c) => InForce(c)'
      BY <2>2 DEF InForce, Filled, Available, states
    <2>9. ~overlap => SettingsStage(q)'
      <3>1. ~overlap => hash' = None /\ InForce(q.config)' /\ (~edited' => FilledUpTo(q.config, q.k)')
        BY <2>2, <2>4, <2>6, <2>7, <2>8 DEF states, history
      <3> QED BY <2>4, <3>1 DEF SettingsStage
    <2>10. ~overlap => hash' = None
      BY <2>2, <2>6 DEF states
    <2> QED BY <1>0, <2>1, <2>2, <2>9, <2>10, HashTo DEF history
  <1>7. CASE FillFilterFails(r)
    BY <1>7, HashLeaves DEF FillFilterFails, At
  <1>8. CASE Filtered(r)
    <2> PICK q : q = req[r]
      OBVIOUS
    <2>1. /\ q.at = "filtered" /\ FilterOrCommit(r, q.config, q.k + 1)
          /\ UNCHANGED <<nftables, blocker, dropping, hooks, table, process, history>>
      BY <1>8 DEF Filtered, At
    <2>2. q.config \in Configs /\ q.k + 1 \in 1..(Len(Filters) + 1) /\ (q.k + 1) - 1 = q.k
      <3>1. q.config \in Configs /\ q.k \in 1..Len(Filters)
        BY <1>0, <2>1, RequestHas DEF Working
      <3> QED BY <3>1, FiltersMade
    <2>3. ~overlap => hash = None /\ InForce(q.config) /\ (~edited => FilledUpTo(q.config, q.k))
      BY <2>1 DEF HashInv, SettingsStage
    <2>4. InForce(q.config) => InForce(q.config)'
      BY <2>1 DEF InForce, Filled, Available
    <2>5. UNCHANGED <<nftables, table, edited, overlap>>
      BY <2>1 DEF history
    <2> QED BY <2>1, <2>2, <2>3, <2>4, <2>5, HashFilters
  <1>9. CASE RemoveOutbound(r)
    BY <1>9, HashLeaves DEF RemoveOutbound, At
  <1>10. CASE StopOffline(r) \/ Stopped(r)
    BY <1>10, HashLeaves DEF StopOffline, Stopped, At, history
  <1>11. CASE KillXray(r) \/ KillXrayFails(r)
    BY <1>11, HashLeaves DEF KillXray, KillXrayFails, At, history, Leaving
  <1> QED BY <1>1, <1>2, <1>3, <1>4, <1>5, <1>6, <1>7, <1>8, <1>9, <1>10, <1>11
          DEF RequestStep

LEMMA HashStep == Typed /\ HashInv /\ [Next]_vars => HashInv'
  <1> SUFFICES ASSUME Typed, HashInv, [Next]_vars PROVE HashInv'
    OBVIOUS
  <1>0. ASSUME UNCHANGED <<nftables, states, req, overlap>>,
               edited' \/ UNCHANGED <<table, edited>>
        PROVE  HashInv'
    BY <1>0 DEF HashInv, AtMostOne, At, SettingsStage, Cleared, InForce, Filled, FilledUpTo,
                Wanted, Available, states, EmptyTable
  <1>1. CASE UNCHANGED vars
    BY <1>0, <1>1 DEF vars, history
  <1>2. ASSUME NEW r \in Requests, RequestStep(r)
        PROVE  HashInv'
    BY <1>2, HashRequest
  <1>3. ASSUME NEW rules \in RuleLists, StartReads(rules)
        PROVE  HashInv'
    BY <1>0, <1>3 DEF StartReads, history
  <1>4. CASE StartRestarts \/ StartFails \/ StartEnds
    BY <1>0, <1>4 DEF StartRestarts, StartFails, StartEnds, history
  <1>5. ASSUME NEW ips \in SUBSET Ips, UnblockIps(ips)
        PROVE  HashInv'
    BY <1>0, <1>5 DEF UnblockIps
  <1>6. CASE RecreateByHand
    BY <1>0, <1>6 DEF RecreateByHand
  <1> QED BY <1>1, <1>2, <1>3, <1>4, <1>5, <1>6 DEF Next

\* A sync whose settings have the hash that is remembered is skipped rightly:
\* every plugin has these settings, and so has nftables unless it was changed by
\* hand, when no other request came in between.
THEOREM HashTrue == Spec => []HashDescribesSettings
  <1>1. Init => HashInv
    BY DEF Init, HashInv, AtMostOne, At, SettingsStage, Idle
  <1>2. Typed /\ HashInv => HashDescribesSettings
    <2> SUFFICES ASSUME Typed, HashInv, hash # None, ~overlap
                 PROVE  HashDescribesSettings
      BY DEF HashDescribesSettings
    <2>1. InForce(hash) /\ (~edited => FilledUpTo(hash, Len(Filters)))
      BY DEF HashInv
    <2>2. ASSUME ~edited, NEW set \in FilterSets
          PROVE  table[set] = IF Available THEN Resolve(hash, hash.filters[set]) ELSE {}
      <3>1. PICK n \in 1..Len(Filters) : set = Filters[n]
        BY FiltersMade
      <3>2. n <= Len(Filters)
        BY FiltersMade
      <3> QED BY <2>1, <2>2, <3>1, <3>2 DEF FilledUpTo, Wanted
    <2> QED BY <2>1, <2>2 DEF HashDescribesSettings, InForce, Filled
  <1> QED BY <1>1, <1>2, AlwaysTyped, HashStep, PTL DEF Spec

-----------------------------------------------------------------------------
(* xray has the blocker that the settings say.                               *)

\* An xray that need not be stopped has the new blocker: it is the old one.
LEMMA NoRestartBlocks ==
  ASSUME NEW c \in Configs, NEW before \in BlockerStates, before.enabled => Available,
         ~NeedsRestart(before, c), NEW x, Blocks(x, before)
  PROVE  Blocks(x, Filled(c))
  <1>1. c.blocker \in BOOLEAN /\ before.enabled \in BOOLEAN
    BY ConfigsAssumption DEF BlockerStates
  <1>2. before.enabled = c.blocker
    BY DEF NeedsRestart
  <1>3. CASE ~c.blocker
    <2>1. Filled(c) = Off /\ Off.enabled = FALSE
      BY <1>3 DEF Filled, Off
    <2> QED BY <1>1, <1>2, <1>3, <2>1 DEF Blocks
  <1>4. CASE c.blocker
    <2> DEFINE tags == IF c.tags = NoTags THEN {} ELSE c.tags
               ignored == Resolve(c, c.ignored)
    <2>1. before.enabled /\ before.tags = tags /\ before.position = c.position
      BY <1>2, <1>4 DEF NeedsRestart
    <2>2. Filled(c) = [enabled |-> TRUE, duration |-> TRUE, position |-> c.position,
                       tags |-> tags, ignored |-> ignored]
      BY <1>4, <2>1 DEF Filled
    <2> HIDE DEF tags, ignored
    <2>3. Filled(c).enabled = TRUE /\ Filled(c).tags = tags /\ Filled(c).position = c.position
      BY <2>2
    <2> QED BY <1>1, <2>1, <2>3 DEF Blocks
  <1> QED BY <1>1, <1>3, <1>4

\* What must hold after a step of a request that is alone.
LEMMA BlockerTo ==
  ASSUME RequestsInv, BlockerInv, NEW r \in Requests, NEW q, req' = [req EXCEPT ![r] = q],
         req[r].at # "idle", UNCHANGED start,
         astray' \/ UNCHANGED astray,
         ~astray => BlockerStage(q)',
         ~astray /\ q.at = "idle" /\ Running' => Blocks(xray, blocker)'
  PROVE  BlockerInv'
  <1>1. ~(start.at = "restart" /\ start.alone)
    BY DEF BlockerInv, AllIdle, At
  <1> SUFFICES ASSUME ~astray, ~astray' PROVE BlockerInv'
    BY <1>1 DEF BlockerInv
  <1>2. AtMostOne /\ start.at # "wait"
    BY DEF BlockerInv, AllIdle, At
  <1>3. req = [s \in Requests |-> req[s]]
    BY DEF RequestsInv
  <1>4. req' = [s \in Requests |-> IF s = r THEN q ELSE req[s]]
    BY <1>3
  <1>5. ASSUME NEW s \in Requests, s # r
        PROVE  req[s].at = "idle" /\ req'[s] = req[s]
    BY <1>2, <1>4, <1>5 DEF AtMostOne, At
  <1>6. AtMostOne'
    BY <1>5 DEF AtMostOne, At
  <1>7. req'[r] = q
    BY <1>4
  <1>8. ASSUME NEW s \in Requests
        PROVE  BlockerStage(req[s])'
    <2>1. CASE s = r
      BY <1>7, <2>1 DEF BlockerStage
    <2>2. CASE s # r
      BY <1>5, <2>2 DEF BlockerStage, Working
    <2> QED BY <2>1, <2>2
  <1>9. (AllIdle /\ Running => Blocks(xray, blocker))'
    BY <1>7 DEF AllIdle, At
  <1> QED BY <1>1, <1>2, <1>6, <1>8, <1>9 DEF BlockerInv

LEMMA BlockerReset ==
  ASSUME Typed, BlockerInv, NEW r \in Requests, NEW c, NEW next, Reset(r, c, next)
  PROVE  BlockerInv'
  <1> PICK before : before = IF next = "fill" THEN blocker ELSE Off
    OBVIOUS
  <1> PICK q : q = [at |-> "table", config |-> c, next |-> next, k |-> 1, before |-> before]
    OBVIOUS
  <1>1. /\ req' = [req EXCEPT ![r] = q] /\ astray' = (astray \/ ~Quiet)
        /\ start' = (IF start = Idle THEN Idle ELSE [start EXCEPT !.alone = FALSE])
        /\ blocker' = Off /\ UNCHANGED <<online, xray>>
    BY DEF Reset, ResetStates
  <1>2. q.at = "table" /\ q.next = next /\ q.before = before
    OBVIOUS
  <1>3. start'.at = "restart" => ~start'.alone
    <2>1. CASE start = Idle
      BY <1>1, <2>1 DEF Idle
    <2>2. CASE start # Idle
      <3> PICK s : s = start
        OBVIOUS
      <3>1. s = [at |-> s.at, config |-> s.config, alone |-> s.alone]
        BY <2>2 DEF Typed, StartInv
      <3>2. start' = [s EXCEPT !.alone = FALSE]
        BY <1>1, <2>2
      <3> QED BY <3>1, <3>2
    <2> QED BY <2>1, <2>2
  <1> SUFFICES ASSUME ~astray, Quiet PROVE BlockerInv'
    BY <1>1, <1>3 DEF BlockerInv
  <1>4. req = [s \in Requests |-> req[s]] /\ \A s \in Requests : req[s].at = "idle"
    BY DEF Quiet, Typed, RequestsInv, At
  <1>5. \A s \in Requests : req'[s] = IF s = r THEN q ELSE req[s]
    BY <1>1, <1>4
  <1>6. start'.at = "idle"
    BY <1>1 DEF Quiet, Idle
  <1>7. AtMostOne' /\ ~AllIdle'
    BY <1>2, <1>4, <1>5 DEF AtMostOne, AllIdle, At
  <1>8. Running' /\ next = "fill" => Blocks(xray, before)'
    <2>1. AllIdle
      BY <1>4 DEF AllIdle, At
    <2>2. Running => Blocks(xray, blocker)
      BY <2>1 DEF BlockerInv
    <2>3. Running' = Running
      BY <1>1 DEF Running
    <2> QED BY <1>1, <2>2, <2>3
  <1>9. ASSUME NEW s \in Requests
        PROVE  BlockerStage(req[s])'
    <2>1. CASE s = r
      <3>1. req'[s] = q
        BY <1>5, <2>1
      <3> QED BY <1>1, <1>2, <1>8, <3>1 DEF BlockerStage
    <2>2. CASE s # r
      <3>1. req'[s].at = "idle"
        BY <1>4, <1>5, <2>2
      <3> QED BY <3>1 DEF BlockerStage, Working
    <2> QED BY <2>1, <2>2
  <1> QED BY <1>6, <1>7, <1>9 DEF BlockerInv

LEMMA BlockerCommit ==
  ASSUME Typed, BlockerInv, NEW r \in Requests, NEW c \in Configs, NEW k \in 1..(Len(Filters) + 1),
         FilterOrCommit(r, c, k), UNCHANGED <<nftables, online, xray, start, astray>>,
         req[r].at \in {"tabled", "filtered"}, req[r].next = "fill", req[r].config = c,
         ~astray => blocker' = Filled(c)
  PROVE  BlockerInv'
  <1> PICK p : p = req[r]
    OBVIOUS
  <1>0. /\ RequestsInv /\ req[r].at # "idle"
        /\ p \in [at : Working, config : Configs \cup {None}, next : Nexts,
                  k : 1..Len(Filters), before : BlockerStates]
        /\ p.before.enabled => Available
    BY RequestHas DEF Typed, Working
  <1>1. ~astray /\ Running => Blocks(xray, p.before)
    BY DEF BlockerInv, BlockerStage, Working
  <1>2. Running' = Running
    BY DEF Running
  <1>3. ASSUME Commit(r, c)
        PROVE  BlockerInv'
    <2>1. \/ /\ p.before.enabled /\ ~c.blocker
             /\ req' = [req EXCEPT ![r] = [at |-> "outbound", next |-> p.next]]
          \/ req' = [req EXCEPT ![r] = [at |-> "stop", next |-> p.next]]
          \/ /\ ~NeedsRestart(p.before, c)
             /\ req' = [req EXCEPT ![r] = Idle]
      BY <1>0, <1>3, CommitCases
    <2>2. CASE /\ p.before.enabled /\ ~c.blocker
               /\ req' = [req EXCEPT ![r] = [at |-> "outbound", next |-> p.next]]
      <3> PICK q : q = [at |-> "outbound", next |-> p.next]
        OBVIOUS
      <3>1. q.at = "outbound"
        OBVIOUS
      <3>2. ~astray => ~blocker'.enabled
        BY <2>2, OffType DEF Filled
      <3>3. ~astray => BlockerStage(q)'
        BY <3>1, <3>2 DEF BlockerStage, Working
      <3> QED BY <1>0, <2>2, <3>1, <3>3, BlockerTo
    <2>3. CASE req' = [req EXCEPT ![r] = [at |-> "stop", next |-> p.next]]
      <3> PICK q : q = [at |-> "stop", next |-> p.next]
        OBVIOUS
      <3>1. q.at = "stop"
        OBVIOUS
      <3>2. BlockerStage(q)'
        BY <3>1 DEF BlockerStage, Working
      <3> QED BY <1>0, <2>3, <3>1, <3>2, BlockerTo
    <2>4. CASE /\ ~NeedsRestart(p.before, c)
               /\ req' = [req EXCEPT ![r] = Idle]
      <3> PICK q : q = Idle
        OBVIOUS
      <3>1. q.at = "idle"
        BY DEF Idle
      <3>2. BlockerStage(q)'
        BY <3>1 DEF BlockerStage, Working
      <3>3. ~astray /\ Running => Blocks(xray, Filled(c))
        <4> PICK before : before = p.before
          OBVIOUS
        <4>1. before \in BlockerStates
          BY <1>0
        <4> QED BY <1>0, <1>1, <2>4, <4>1, NoRestartBlocks
      <3>4. ~astray /\ Running' => Blocks(xray, blocker)'
        BY <1>2, <3>3
      <3> QED BY <1>0, <2>4, <3>1, <3>2, <3>4, BlockerTo
    <2> QED BY <2>1, <2>2, <2>3, <2>4
  <1>4. ASSUME NEW n \in WantedFilters(c),
               req' = [req EXCEPT ![r].at = "filter", ![r].k = n]
        PROVE  BlockerInv'
    <2> PICK q : q = [[p EXCEPT !.at = "filter"] EXCEPT !.k = n]
      OBVIOUS
    <2>1. req' = [req EXCEPT ![r] = q]
      <3>1. req = [s \in Requests |-> req[s]]
        BY <1>0 DEF RequestsInv
      <3> QED BY <1>4, <3>1
    <2>2. q.at = "filter" /\ q.config = c /\ q.next = p.next /\ q.before = p.before
      BY <1>0
    <2>3. ~astray => (blocker = Filled(q.config))'
      BY <2>2 DEF Filled, Available
    <2>4. ~astray /\ Running' => Blocks(xray, q.before)'
      BY <1>1, <1>2, <2>2
    <2>5. ~astray => BlockerStage(q)'
      BY <2>2, <2>3, <2>4 DEF BlockerStage
    <2> QED BY <1>0, <2>1, <2>2, <2>5, BlockerTo
  <1> QED BY <1>3, <1>4, FilterOrCommitCases

\* A step of a request that is alone to a place that says nothing of xray.
LEMMA BlockerLeaves ==
  ASSUME Typed, BlockerInv, NEW r \in Requests, NEW q, req' = [req EXCEPT ![r] = q],
         req[r].at # "idle", UNCHANGED start, astray' \/ UNCHANGED astray,
         \/ astray'
         \/ q.at = "stop"
         \/ q.at = "stopped" /\ xray' = None
         \/ q.at = "idle" /\ ~Running'
  PROVE  BlockerInv'
  <1>1. CASE astray'
    <2>1. ~(start.at = "restart" /\ start.alone)
      BY DEF BlockerInv, AllIdle, At
    <2> QED BY <1>1, <2>1 DEF BlockerInv
  <1>2. CASE q.at = "stop" \/ (q.at = "stopped" /\ xray' = None) \/ (q.at = "idle" /\ ~Running')
    <2>1. BlockerStage(q)'
      BY <1>2 DEF BlockerStage, Working
    <2>2. q.at = "idle" => ~Running'
      BY <1>2
    <2> QED BY <2>1, <2>2, BlockerTo DEF Typed
  <1> QED BY <1>1, <1>2

LEMMA BlockerRequest ==
  ASSUME Typed, BlockerInv, NEW r \in Requests, RequestStep(r)
  PROVE  BlockerInv'
  <1>0. RequestsInv
    BY DEF Typed
  <1> PICK p : p = req[r]
    OBVIOUS
  <1>1. CASE SyncNothing(r) \/ SyncInvalid(r) \/ StopWithCleanup(r)
    BY <1>1, BlockerReset DEF SyncNothing, SyncInvalid, StopWithCleanup
  <1>2. ASSUME NEW c \in Configs, Sync(r, c)
        PROVE  BlockerInv'
    BY <1>2, BlockerReset DEF Sync
  <1>3. CASE RecreateTable(r)
    <2> PICK q : q = [p EXCEPT !.at = "tabled"]
      OBVIOUS
    <2>1. p.at = "table" /\ req' = [req EXCEPT ![r] = q]
      BY <1>3 DEF RecreateTable, At, Goto
    <2>2. q.at = "tabled" /\ q.next = p.next /\ q.before = p.before
      <3>1. p \in [at : Working, config : Configs \cup {None}, next : Nexts,
                   k : 1..Len(Filters), before : BlockerStates]
        BY <1>0, <2>1, RequestHas DEF Working
      <3> QED BY <3>1
    <2>3. UNCHANGED <<blocker, online, xray, start, astray>>
      BY <1>3 DEF RecreateTable, states, process
    <2>4. ~astray => BlockerStage(p)
      BY DEF BlockerInv
    <2>5. ~astray => BlockerStage(q)'
      BY <2>1, <2>2, <2>3, <2>4 DEF BlockerStage, Working, Running
    <2> QED BY <1>0, <2>1, <2>2, <2>3, <2>5, BlockerTo
  <1>4. CASE RecreateTableFails(r)
    <2>1. astray' /\ UNCHANGED start /\ req[r].at # "idle"
      BY <1>4 DEF RecreateTableFails, process, At
    <2>2. \E q : req' = [req EXCEPT ![r] = q]
      BY <1>4 DEF RecreateTableFails, Finish, Answer
    <2> QED BY <2>1, <2>2, BlockerLeaves
  <1>5. CASE Tabled(r)
    <2>1. UNCHANGED <<nftables, online, xray, start, astray>> /\ req[r].at = "tabled"
      BY <1>5 DEF Tabled, At, process, history
    <2>2. CASE p.next = "fill"
      <3> PICK c : c = p.config
        OBVIOUS
      <3>1. c \in Configs /\ Fill(c) /\ FilterOrCommit(r, c, 1)
        BY <1>0, <1>5, <2>1, <2>2, RequestHas DEF Tabled, Working
      <3>2. ~astray => blocker = Off
        BY <2>1 DEF BlockerInv, BlockerStage
      <3>3. ~astray => blocker' = Filled(c)
        <4>1. blocker = Off => blocker.tags = {}
          BY DEF Off
        <4> QED BY <3>1, <3>2, <4>1 DEF Fill, Filled
      <3>4. 1 \in 1..(Len(Filters) + 1)
        BY FiltersMade
      <3> QED BY <2>1, <2>2, <3>1, <3>3, <3>4, BlockerCommit
    <2>3. CASE p.next # "fill"
      <3> PICK q : q = [at |-> "stop", next |-> p.next]
        OBVIOUS
      <3>1. req' = [req EXCEPT ![r] = q] /\ q.at = "stop"
        BY <1>5, <2>3 DEF Tabled, Finish
      <3> QED BY <2>1, <3>1, BlockerLeaves
    <2> QED BY <2>2, <2>3
  <1>6. CASE FillFilter(r)
    <2> PICK q : q = [p EXCEPT !.at = "filtered"]
      OBVIOUS
    <2>1. p.at = "filter" /\ req' = [req EXCEPT ![r] = q]
      BY <1>6 DEF FillFilter, At, Goto
    <2>2. q.at = "filtered" /\ q.next = p.next /\ q.before = p.before /\ q.config = p.config
      <3>1. p \in [at : Working, config : Configs \cup {None}, next : Nexts,
                   k : 1..Len(Filters), before : BlockerStates]
        BY <1>0, <2>1, RequestHas DEF Working
      <3> QED BY <3>1
    <2>3. UNCHANGED <<nftables, blocker, online, xray, start, astray>>
      BY <1>6 DEF FillFilter, states, process, history
    <2>4. ~astray => BlockerStage(p)
      BY DEF BlockerInv
    <2>5. ~astray => BlockerStage(q)'
      BY <2>1, <2>2, <2>3, <2>4 DEF BlockerStage, Working, Running, Filled, Available
    <2> QED BY <1>0, <2>1, <2>2, <2>3, <2>5, BlockerTo
  <1>7. CASE FillFilterFails(r)
    BY <1>7, BlockerLeaves DEF FillFilterFails, Answer, At, process
  <1>8. CASE Filtered(r)
    <2>1. /\ p.at = "filtered" /\ FilterOrCommit(r, p.config, p.k + 1)
          /\ UNCHANGED <<nftables, blocker, online, xray, start, astray>>
      BY <1>8 DEF Filtered, At, process, history
    <2>2. p.next = "fill" /\ p.config \in Configs /\ p.k + 1 \in 1..(Len(Filters) + 1)
      <3>1. p.next = "fill" /\ p.config \in Configs /\ p.k \in 1..Len(Filters)
        BY <1>0, <2>1, RequestHas DEF Working
      <3> QED BY <3>1, FiltersMade
    <2>3. ~astray => blocker = Filled(p.config)
      BY <2>1 DEF BlockerInv, BlockerStage
    <2> QED BY <2>1, <2>2, <2>3, BlockerCommit
  <1>9. CASE RemoveOutbound(r)
    <2>1. req[r].at = "outbound" /\ req' = [req EXCEPT ![r] = Idle] /\ Idle.at = "idle"
      BY <1>9 DEF RemoveOutbound, At, Answer, Idle
    <2>2. UNCHANGED <<blocker, online, start>> /\ (astray' \/ UNCHANGED astray)
      BY <1>9 DEF RemoveOutbound, states
    <2>3. CASE astray'
      BY <2>1, <2>2, <2>3, BlockerLeaves
    <2>4. CASE UNCHANGED astray /\ ~astray
      <3>1. xray' = IF xray = None THEN None ELSE [xray EXCEPT !.outbound = FALSE]
        BY <1>9, <2>4 DEF RemoveOutbound
      <3>2. blocker.enabled = FALSE
        <4>1. ~blocker.enabled
          BY <2>1, <2>4 DEF BlockerInv, BlockerStage
        <4> QED BY <4>1 DEF Typed, TypeInv, BlockerStates
      <3>3. CASE xray = None
        <4>1. ~Running'
          BY <3>1, <3>3 DEF Running
        <4> QED BY <2>1, <2>2, <4>1, BlockerLeaves
      <3>4. CASE xray # None
        <4> PICK x : x = xray
          OBVIOUS
        <4>1. x = [given |-> x.given, rules |-> x.rules,
                   outbound |-> x.outbound, hooked |-> x.hooked]
          BY <3>4 DEF Typed, StartInv, Made
        <4>2. xray' = [x EXCEPT !.outbound = FALSE]
          BY <3>1, <3>4
        <4>3. xray'.outbound = FALSE
          BY <4>1, <4>2
        <4>4. Blocks(xray, blocker)'
          BY <2>2, <3>2, <4>3 DEF Blocks
        <4>5. BlockerStage(Idle)'
          BY <2>1 DEF BlockerStage, Working
        <4> QED BY <1>0, <2>1, <2>2, <4>4, <4>5, BlockerTo
      <3> QED BY <3>3, <3>4
    <2>5. CASE UNCHANGED astray /\ astray
      BY <2>1, <2>2, <2>5, BlockerLeaves
    <2> QED BY <2>2, <2>3, <2>4, <2>5
  <1>10. CASE StopOffline(r)
    <2>1. req[r].at = "stop" /\ req' = [req EXCEPT ![r] = Idle] /\ Idle.at = "idle"
      BY <1>10 DEF StopOffline, At, Answer, Idle
    <2>2. UNCHANGED <<online, start, astray>> /\ ~online
      BY <1>10 DEF StopOffline, MustStop, process, history
    <2> QED BY <2>1, <2>2, BlockerLeaves DEF Running
  <1>11. CASE KillXray(r)
    <2> PICK q : q = [at |-> "stopped", next |-> p.next]
      OBVIOUS
    <2>1. req[r].at = "stop" /\ req' = [req EXCEPT ![r] = q] /\ q.at = "stopped"
      BY <1>11 DEF KillXray, At, Finish
    <2>2. xray' = None /\ UNCHANGED <<start, astray>>
      BY <1>11 DEF KillXray, history
    <2> QED BY <2>1, <2>2, BlockerLeaves
  <1>12. CASE KillXrayFails(r)
    <2> PICK q : q = [at |-> "stopped", next |-> p.next]
      OBVIOUS
    <2>1. req[r].at = "stop" /\ req' = [req EXCEPT ![r] = q] /\ q.at = "stopped"
      BY <1>12 DEF KillXrayFails, At, Finish
    <2>2. UNCHANGED <<start, xray>> /\ astray'
      BY <1>12 DEF KillXrayFails, process
    <2> QED BY <2>1, <2>2, BlockerLeaves
  <1>13. CASE Stopped(r)
    <2>1. req[r].at = "stopped" /\ req' = [req EXCEPT ![r] = Idle] /\ Idle.at = "idle"
      BY <1>13 DEF Stopped, At, Answer, Idle
    <2>2. UNCHANGED <<start, astray>> /\ ~online'
      BY <1>13 DEF Stopped, history
    <2> QED BY <2>1, <2>2, BlockerLeaves DEF Running
  <1> QED BY <1>1, <1>2, <1>3, <1>4, <1>5, <1>6, <1>7, <1>8, <1>9, <1>10, <1>11, <1>12, <1>13
          DEF RequestStep

LEMMA BlockerStep == Typed /\ BlockerInv /\ [Next]_vars => BlockerInv'
  <1> SUFFICES ASSUME Typed, BlockerInv, [Next]_vars PROVE BlockerInv'
    OBVIOUS
  <1>0. ASSUME UNCHANGED <<nftables, blocker, req, process, astray>>
        PROVE  BlockerInv'
    BY <1>0 DEF BlockerInv, AtMostOne, AllIdle, At, BlockerStage, Running, Filled, Available, process
  <1>1. CASE UNCHANGED vars
    BY <1>0, <1>1 DEF vars, states, history
  <1>2. ASSUME NEW r \in Requests, RequestStep(r)
        PROVE  BlockerInv'
    BY <1>2, BlockerRequest
  <1>3. ASSUME NEW rules \in RuleLists, StartReads(rules)
        PROVE  BlockerInv'
    <2> PICK g : g = Generated(rules, blocker)
      OBVIOUS
    <2>1. start = Idle /\ start' = [at |-> "restart", config |-> g, alone |-> Quiet]
      BY <1>3 DEF StartReads
    <2>2. UNCHANGED <<nftables, blocker, req, online, xray, astray>>
      BY <1>3 DEF StartReads, states, history
    <2>3. start'.at = "restart" /\ start'.config = g /\ start'.alone = Quiet
      BY <2>1
    <2>4. Blocks(g, blocker)
      BY GeneratedMade DEF Typed, TypeInv
    <2>5. Quiet => AllIdle
      BY DEF Quiet, AllIdle
    <2>6. (start.at = "restart" => (start.alone => AllIdle /\ Blocks(start.config, blocker)))'
      BY <2>2, <2>3, <2>4, <2>5 DEF AllIdle, At
    <2> QED BY <2>2, <2>3, <2>6
            DEF BlockerInv, AtMostOne, AllIdle, At, BlockerStage, Running, Filled, Available
  <1>4. CASE StartRestarts
    <2> PICK s : s = start
      OBVIOUS
    <2>1. /\ s.at = "restart" /\ xray' = s.config /\ astray' = ~s.alone
          /\ start' = [s EXCEPT !.at = "wait"] /\ UNCHANGED <<nftables, blocker, req, online>>
      BY <1>4 DEF StartRestarts, states
    <2>2. s = [at |-> s.at, config |-> s.config, alone |-> s.alone]
      BY <2>1 DEF Typed, StartInv, Idle
    <2>3. start'.at = "wait"
      BY <2>1, <2>2
    <2> SUFFICES ASSUME s.alone PROVE BlockerInv'
      BY <2>1, <2>3 DEF BlockerInv
    <2>4. AllIdle /\ Blocks(s.config, blocker)
      BY <2>1 DEF BlockerInv
    <2>5. \A r \in Requests : req'[r].at = "idle"
      BY <2>1, <2>4 DEF AllIdle, At
    <2>6. Blocks(xray, blocker)'
      BY <2>1, <2>4
    <2>7. AtMostOne' /\ AllIdle' /\ \A r \in Requests : BlockerStage(req[r])'
      BY <2>5 DEF AtMostOne, AllIdle, At, BlockerStage, Working
    <2> QED BY <2>3, <2>6, <2>7 DEF BlockerInv
  <1>5. CASE StartFails
    <2>1. start'.at = "idle" /\ UNCHANGED <<nftables, blocker, req, online, astray>>
      BY <1>5 DEF StartFails, Idle, states, history
    <2>2. xray' = xray \/ xray' = None
      BY <1>5 DEF StartFails
    <2>3. Running' => UNCHANGED xray /\ Running
      BY <2>1, <2>2 DEF Running
    <2>4. ASSUME ~astray, NEW r \in Requests
          PROVE  BlockerStage(req[r])'
      <3>1. BlockerStage(req[r])
        BY <2>4 DEF BlockerInv
      <3> QED BY <2>1, <2>2, <2>3, <3>1 DEF BlockerStage, Filled, Available
    <2>5. AtMostOne' = AtMostOne /\ AllIdle' = AllIdle
      BY <2>1 DEF AtMostOne, AllIdle, At
    <2> QED BY <2>1, <2>3, <2>4, <2>5 DEF BlockerInv
  <1>6. CASE StartEnds
    <2>1. start.at = "wait" /\ start'.at = "idle" /\ UNCHANGED <<nftables, blocker, req, xray, astray>>
      BY <1>6 DEF StartEnds, Idle, states, history
    <2> SUFFICES ASSUME ~astray PROVE BlockerInv'
      BY <2>1 DEF BlockerInv
    <2>2. AllIdle /\ Blocks(xray, blocker)
      BY <2>1 DEF BlockerInv
    <2>3. \A r \in Requests : req'[r].at = "idle"
      BY <2>1, <2>2 DEF AllIdle, At
    <2>4. AtMostOne' /\ \A r \in Requests : BlockerStage(req[r])'
      BY <2>3 DEF AtMostOne, At, BlockerStage, Working
    <2> QED BY <2>1, <2>2, <2>4 DEF BlockerInv
  <1>7. ASSUME NEW ips \in SUBSET Ips, UnblockIps(ips)
        PROVE  BlockerInv'
    BY <1>0, <1>7 DEF UnblockIps, states
  <1>8. CASE RecreateByHand
    BY <1>0, <1>8 DEF RecreateByHand, states
  <1> QED BY <1>1, <1>2, <1>3, <1>4, <1>5, <1>6, <1>7, <1>8 DEF Next

\* The xray that runs blocks exactly when the blocker is on, with its rule in
\* its place and the hooks that the settings want, however syncs, stops and
\* starts came in, as long as they did not overlap and no call failed.
THEOREM BlockerWorks == Spec => []XrayHasBlocker
  <1>1. Init => BlockerInv
    BY DEF Init, BlockerInv, AtMostOne, AllIdle, At, BlockerStage, Working, Running, Idle
  <1>2. Typed /\ BlockerInv => XrayHasBlocker
    <2> SUFFICES ASSUME BlockerInv, Quiet, Running, ~astray
                 PROVE  XrayHasBlocker
      BY DEF XrayHasBlocker, Running
    <2>1. Blocks(xray, blocker)
      BY DEF BlockerInv, Quiet, AllIdle
    <2> QED BY <2>1 DEF XrayHasBlocker, Blocks
  <1> QED BY <1>1, <1>2, AlwaysTyped, BlockerStep, PTL DEF Spec
=============================================================================
