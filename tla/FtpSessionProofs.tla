-------------------------- MODULE FtpSessionProofs --------------------------
(***************************************************************************)
(* Sessions, for every number of them and for all devices, names, paths    *)
(* and passwords: whose login a session has, that it is in the folder its  *)
(* client was told of, that every handler opens what the client named,     *)
(* and the types.  The paths are sequences of any length, so what the      *)
(* scans of vrt.c make of them is proved by induction first.               *)
(***************************************************************************)
EXTENDS FtpSession, FiniteSetTheorems, WellFoundedInduction, TLAPS

(***************************************************************************)
(* Induction, and the three folds over a path.                             *)
(***************************************************************************)

\* Induction, over a set instead of an operator, which SMT and Zenon cannot be
\* given: a smallest number outside the set would follow one that is in it.
LEMMA UpFromZero ==
  ASSUME NEW S, 0 \in S, \A n \in Nat : n \in S => n + 1 \in S
  PROVE  Nat \subseteq S
<1> DEFINE Gap == Nat \ S
<1> SUFFICES ASSUME Gap # {} PROVE FALSE
  OBVIOUS
<1>1. \E x \in Gap : \A y \in Gap : ~(<<y, x>> \in OpToRel(<, Nat))
  <2>1. Gap \in SUBSET Nat
    OBVIOUS
  <2> HIDE DEF Gap
  <2> QED
    BY <2>1, NatLessThanWellFounded, WFMin
<1>2. PICK x \in Gap : \A y \in Gap : ~(<<y, x>> \in OpToRel(<, Nat))
  BY <1>1
<1>3. x \in Nat /\ x # 0 /\ x - 1 \in Nat
  OBVIOUS
<1>4. CASE x - 1 \in Gap
  <2>1. ~(<<x - 1, x>> \in {p \in Nat \X Nat : p[1] < p[2]})
    BY <1>2, <1>4, Zenon DEF OpToRel
  <2> QED
    BY <1>3, <2>1
<1>5. CASE x - 1 \in S
  <2>1. (x - 1) + 1 \in S
    BY <1>3, <1>5
  <2> QED
    BY <1>3, <2>1
<1> QED
  BY <1>3, <1>4, <1>5

\* The largest of a set of indices that has the last one.
LEMMA MaxOfPrefix ==
  ASSUME NEW n \in Nat, NEW T \in SUBSET (1 .. n + 1), n + 1 \in T
  PROVE  Max(T) = n + 1
<1>1. \A y \in T : n + 1 >= y
  OBVIOUS
<1>2. \A x \in T : (\A y \in T : x >= y) <=> x = n + 1
  OBVIOUS
<1>3. Max(T) = CHOOSE x \in T : x = n + 1
  BY <1>2, Zenon DEF Max
<1> QED
  BY <1>3

\* Two sequences that agree up to an index.
Agree(s, t, k) == \A i \in 1 .. k : s[i] = t[i]

\* Names, and what is left of a path without dots.
Plain == Device \cup Name
Bare == Plain \cup {"/"}

\* The three folds: where a path leads from a folder, what it is made of, and
\* what virtual_abspath has done of it.
Walk(h, s) == FoldLeft(Follow, h, s)
Gather(h, s) == FoldLeft(Item, h, s)
Scanned(a, s) == FoldLeft(Scan, a, s)

\* They are proved about together: one step and all steps of each.
Apply(o, a, t) ==
  CASE o = "walk" -> Follow(a, t)
    [] o = "gather" -> Item(a, t)
    [] o = "scan" -> Scan(a, t)
Folded(o, a, s) ==
  CASE o = "walk" -> Walk(a, s)
    [] o = "gather" -> Gather(a, s)
    [] o = "scan" -> Scanned(a, s)

\* A fold is defined by recursion over sets of indices; this is its function.
IsFold(o, g, b, s, n) ==
  g = [T \in SUBSET (1 .. n) |->
         IF T = {} THEN b ELSE LET x == Max(T) IN Apply(o, g[T \ {x}], s[x])]

\* Such a function exists.
LEMMA FoldExists ==
  ASSUME NEW o, NEW b, NEW s
  PROVE  \A n \in Nat : \E g : IsFold(o, g, b, s, n)
<1> DEFINE S == {n \in Nat : \E g : IsFold(o, g, b, s, n)}
<1>1. 0 \in S
  <2> DEFINE g == [T \in SUBSET (1 .. 0) |-> b]
  <2>1. g = [T \in SUBSET (1 .. 0) |->
               IF T = {} THEN b ELSE LET x == Max(T) IN Apply(o, g[T \ {x}], s[x])]
    <3>1. \A T \in SUBSET (1 .. 0) : T = {}
      OBVIOUS
    <3> QED
      BY <3>1
  <2> HIDE DEF g
  <2>2. IsFold(o, g, b, s, 0)
    BY <2>1, Zenon DEF IsFold
  <2> QED
    BY <2>2
<1>2. ASSUME NEW n \in Nat, n \in S  PROVE n + 1 \in S
  <2>1. PICK g : IsFold(o, g, b, s, n)
    BY <1>2
  <2> DEFINE h == [T \in SUBSET (1 .. n + 1) |->
                     IF n + 1 \in T THEN Apply(o, g[T \ {n + 1}], s[n + 1]) ELSE g[T]]
             h2 == [T \in SUBSET (1 .. n + 1) |->
                      IF T = {} THEN b ELSE LET x == Max(T) IN Apply(o, h[T \ {x}], s[x])]
  <2>2. ASSUME NEW T \in SUBSET (1 .. n + 1)  PROVE h[T] = h2[T]
    <3>1. CASE n + 1 \in T
      <4>1. Max(T) = n + 1
        BY <3>1, MaxOfPrefix
      <4>2. T \ {n + 1} \in SUBSET (1 .. n + 1) /\ n + 1 \notin T \ {n + 1}
        OBVIOUS
      <4>3. h[T \ {n + 1}] = g[T \ {n + 1}]
        BY <4>2
      <4>4. h[T] = Apply(o, g[T \ {n + 1}], s[n + 1])
        BY <3>1, Zenon
      <4>5. h2[T] = Apply(o, h[T \ {Max(T)}], s[Max(T)])
        BY <3>1, Zenon
      <4> HIDE DEF h, h2
      <4> QED
        BY <4>1, <4>3, <4>4, <4>5, Zenon
    <3>2. CASE n + 1 \notin T
      <4>1. T \in SUBSET (1 .. n)
        BY <3>2
      <4>2. h[T] = g[T]
        BY <3>2, Zenon
      <4>3. g[T] = IF T = {} THEN b ELSE Apply(o, g[T \ {Max(T)}], s[Max(T)])
        BY <2>1, <4>1, Zenon DEF IsFold
      <4>4. \A x : h[T \ {x}] = g[T \ {x}]
        <5>1. \A x : T \ {x} \in SUBSET (1 .. n + 1) /\ n + 1 \notin T \ {x}
          BY <3>2
        <5> QED
          BY <5>1, Zenon
      <4>5. h2[T] = IF T = {} THEN b ELSE Apply(o, h[T \ {Max(T)}], s[Max(T)])
        BY Zenon
      <4> HIDE DEF h, h2
      <4> QED
        BY <4>2, <4>3, <4>4, <4>5, Zenon
    <3> QED
      BY <3>1, <3>2
  <2>3. h = h2
    BY <2>2, Zenon
  <2> HIDE DEF h
  <2>4. IsFold(o, h, b, s, n + 1)
    BY <2>3, Zenon DEF IsFold
  <2> QED
    BY <2>4
<1> HIDE DEF S
<1>3. Nat \subseteq S
  BY <1>1, <1>2, UpFromZero
<1> QED
  BY <1>3 DEF S

\* The fold is the value of such a function at all of the indices.
LEMMA FoldIs ==
  ASSUME NEW o \in {"walk", "gather", "scan"}, NEW b, NEW X, NEW s \in Seq(X)
  PROVE  \E g : IsFold(o, g, b, s, Len(s)) /\ Folded(o, b, s) = g[1 .. Len(s)]
<1>1. DOMAIN s = 1 .. Len(s) /\ Len(s) \in Nat
  OBVIOUS
<1>2. \E g : IsFold(o, g, b, s, Len(s))
  BY <1>1, FoldExists
<1>3. CASE o = "walk"
  <2> DEFINE Eq(g) == g = [T \in SUBSET (1 .. Len(s)) |->
                IF T = {} THEN b ELSE LET x == Max(T) IN Follow(g[T \ {x}], s[x])]
             c == CHOOSE g : Eq(g)
  <2>1. \A x, y : Apply(o, x, y) = Follow(x, y)
    BY <1>3 DEF Apply
  <2>2. ASSUME NEW g  PROVE Eq(g) <=> IsFold(o, g, b, s, Len(s))
    BY <2>1, Zenon DEF IsFold
  <2>3. Folded(o, b, s) = FoldLeft(Follow, b, s)
    BY <1>3 DEF Folded, Walk
  <2>4. FoldLeft(Follow, b, s) =
          (CHOOSE i : i = [T \in SUBSET DOMAIN s |->
             IF T = {} THEN b ELSE LET x == Max(T) IN Follow(i[T \ {x}], s[x])])[DOMAIN s]
    BY Zenon DEF FoldLeft, MapThenFoldSet
  <2>5. Folded(o, b, s) = c[1 .. Len(s)]
    BY <1>1, <2>3, <2>4, Zenon
  <2>6. Eq(c)
    <3>1. \E g : Eq(g)
      BY <1>2, <2>2, Zenon
    <3> HIDE DEF Eq
    <3> QED
      BY <3>1, Zenon
  <2> QED
    BY <2>2, <2>5, <2>6, Zenon
<1>4. CASE o = "gather"
  <2> DEFINE Eq(g) == g = [T \in SUBSET (1 .. Len(s)) |->
                IF T = {} THEN b ELSE LET x == Max(T) IN Item(g[T \ {x}], s[x])]
             c == CHOOSE g : Eq(g)
  <2>1. \A x, y : Apply(o, x, y) = Item(x, y)
    BY <1>4 DEF Apply
  <2>2. ASSUME NEW g  PROVE Eq(g) <=> IsFold(o, g, b, s, Len(s))
    BY <2>1, Zenon DEF IsFold
  <2>3. Folded(o, b, s) = FoldLeft(Item, b, s)
    BY <1>4 DEF Folded, Gather
  <2>4. FoldLeft(Item, b, s) =
          (CHOOSE i : i = [T \in SUBSET DOMAIN s |->
             IF T = {} THEN b ELSE LET x == Max(T) IN Item(i[T \ {x}], s[x])])[DOMAIN s]
    BY Zenon DEF FoldLeft, MapThenFoldSet
  <2>5. Folded(o, b, s) = c[1 .. Len(s)]
    BY <1>1, <2>3, <2>4, Zenon
  <2>6. Eq(c)
    <3>1. \E g : Eq(g)
      BY <1>2, <2>2, Zenon
    <3> HIDE DEF Eq
    <3> QED
      BY <3>1, Zenon
  <2> QED
    BY <2>2, <2>5, <2>6, Zenon
<1>5. CASE o = "scan"
  <2> DEFINE Eq(g) == g = [T \in SUBSET (1 .. Len(s)) |->
                IF T = {} THEN b ELSE LET x == Max(T) IN Scan(g[T \ {x}], s[x])]
             c == CHOOSE g : Eq(g)
  <2>1. \A x, y : Apply(o, x, y) = Scan(x, y)
    BY <1>5 DEF Apply
  <2>2. ASSUME NEW g  PROVE Eq(g) <=> IsFold(o, g, b, s, Len(s))
    BY <2>1, Zenon DEF IsFold
  <2>3. Folded(o, b, s) = FoldLeft(Scan, b, s)
    BY <1>5 DEF Folded, Scanned
  <2>4. FoldLeft(Scan, b, s) =
          (CHOOSE i : i = [T \in SUBSET DOMAIN s |->
             IF T = {} THEN b ELSE LET x == Max(T) IN Scan(i[T \ {x}], s[x])])[DOMAIN s]
    BY Zenon DEF FoldLeft, MapThenFoldSet
  <2>5. Folded(o, b, s) = c[1 .. Len(s)]
    BY <1>1, <2>3, <2>4, Zenon
  <2>6. Eq(c)
    <3>1. \E g : Eq(g)
      BY <1>2, <2>2, Zenon
    <3> HIDE DEF Eq
    <3> QED
      BY <3>1, Zenon
  <2> QED
    BY <2>2, <2>5, <2>6, Zenon
<1> QED
  BY <1>3, <1>4, <1>5

\* Two folds agree where their sequences do, and take one step per index.
LEMMA FoldPrefix ==
  ASSUME NEW o, NEW b, NEW s, NEW t, NEW m \in Nat, NEW n \in Nat, NEW k \in Nat,
         k <= m, k <= n, Agree(s, t, k),
         NEW g, NEW h, IsFold(o, g, b, s, m), IsFold(o, h, b, t, n)
  PROVE  g[1 .. k] = h[1 .. k] /\ (k > 0 => g[1 .. k] = Apply(o, g[1 .. k - 1], s[k]))
<1> DEFINE S == {i \in Nat : i <= k => g[1 .. i] = h[1 .. i]}
<1>1. ASSUME NEW i \in Nat, i <= k, NEW f, NEW r, NEW q \in Nat, k <= q, IsFold(o, f, b, r, q)
      PROVE  f[1 .. i] = IF i = 0 THEN b ELSE Apply(o, f[1 .. i - 1], r[i])
  <2>1. 1 .. i \in SUBSET (1 .. q)
    BY <1>1
  <2>2. f[1 .. i] = IF 1 .. i = {} THEN b
                    ELSE Apply(o, f[(1 .. i) \ {Max(1 .. i)}], r[Max(1 .. i)])
    BY <1>1, <2>1, Zenon DEF IsFold
  <2>3. CASE i = 0
    <3>1. 1 .. i = {}
      BY <2>3
    <3> QED
      BY <2>2, <2>3, <3>1, Zenon
  <2>4. CASE i # 0
    <3>1. i - 1 \in Nat /\ (i - 1) + 1 = i /\ i \in 1 .. i /\ 1 .. i # {}
      BY <2>4
    <3>2. Max(1 .. i) = i
      <4>1. 1 .. i \in SUBSET (1 .. (i - 1) + 1) /\ (i - 1) + 1 \in 1 .. i
        BY <3>1
      <4>2. Max(1 .. i) = (i - 1) + 1
        BY <3>1, <4>1, MaxOfPrefix
      <4> QED
        BY <3>1, <4>2
    <3>3. (1 .. i) \ {i} = 1 .. i - 1
      OBVIOUS
    <3> QED
      BY <2>2, <2>4, <3>1, <3>2, <3>3, Zenon
  <2> QED
    BY <2>3, <2>4
<1>2. 0 \in S
  <2>1. g[1 .. 0] = b /\ h[1 .. 0] = b
    <3>1. 0 \in Nat /\ 0 <= k
      OBVIOUS
    <3>2. g[1 .. 0] = IF 0 = 0 THEN b ELSE Apply(o, g[1 .. 0 - 1], s[0])
      BY <1>1, <3>1
    <3>3. h[1 .. 0] = IF 0 = 0 THEN b ELSE Apply(o, h[1 .. 0 - 1], t[0])
      BY <1>1, <3>1
    <3> QED
      BY <3>2, <3>3
  <2> QED
    BY <2>1
<1>3. ASSUME NEW i \in Nat, i \in S  PROVE i + 1 \in S
  <2> SUFFICES ASSUME i + 1 <= k PROVE g[1 .. i + 1] = h[1 .. i + 1]
    OBVIOUS
  <2>1. i + 1 \in Nat /\ i + 1 # 0 /\ (i + 1) - 1 = i /\ i <= k /\ i + 1 \in 1 .. k
    OBVIOUS
  <2>2. g[1 .. i] = h[1 .. i]
    BY <1>3, <2>1
  <2>3. g[1 .. i + 1] = Apply(o, g[1 .. i], s[i + 1])
    BY <1>1, <2>1
  <2>4. h[1 .. i + 1] = Apply(o, h[1 .. i], t[i + 1])
    BY <1>1, <2>1
  <2>5. s[i + 1] = t[i + 1]
    BY <2>1 DEF Agree
  <2> QED
    BY <2>2, <2>3, <2>4, <2>5, Zenon
<1>4. k > 0 => g[1 .. k] = Apply(o, g[1 .. k - 1], s[k])
  <2> SUFFICES ASSUME k > 0 PROVE g[1 .. k] = Apply(o, g[1 .. k - 1], s[k])
    OBVIOUS
  <2>1. k # 0 /\ k <= k
    OBVIOUS
  <2> QED
    BY <1>1, <2>1
<1> HIDE DEF S
<1>5. Nat \subseteq S
  BY <1>2, <1>3, UpFromZero
<1>6. g[1 .. k] = h[1 .. k]
  BY <1>5 DEF S
<1> QED
  BY <1>4, <1>6

\* What a fold makes of a sequence, by its last element.
LEMMA FoldSteps ==
  ASSUME NEW o \in {"walk", "gather", "scan"}, NEW b, NEW X, NEW s \in Seq(X), NEW t \in X
  PROVE  /\ Folded(o, b, <<>>) = b
         /\ Folded(o, b, Append(s, t)) = Apply(o, Folded(o, b, s), t)
<1>1. Folded(o, b, <<>>) = b
  <2>1. <<>> \in Seq(X) /\ Len(<<>>) = 0
    OBVIOUS
  <2>2. PICK g : IsFold(o, g, b, <<>>, 0) /\ Folded(o, b, <<>>) = g[1 .. 0]
    <3> DEFINE e == <<>>
    <3>1. \E g : IsFold(o, g, b, e, Len(e)) /\ Folded(o, b, e) = g[1 .. Len(e)]
      <4>1. e \in Seq(X)
        BY <2>1
      <4> HIDE DEF e
      <4> QED
        BY <4>1, FoldIs
    <3> QED
      BY <2>1, <3>1, Zenon
  <2>3. 1 .. 0 \in SUBSET (1 .. 0) /\ 1 .. 0 = {}
    OBVIOUS
  <2> QED
    BY <2>2, <2>3, Zenon DEF IsFold
<1>2. Folded(o, b, Append(s, t)) = Apply(o, Folded(o, b, s), t)
  <2> DEFINE r == Append(s, t)
  <2>1. /\ r \in Seq(X) /\ Len(r) = Len(s) + 1 /\ Len(s) \in Nat /\ Len(s) + 1 \in Nat
        /\ r[Len(s) + 1] = t /\ \A i \in 1 .. Len(s) : r[i] = s[i]
    OBVIOUS
  <2> HIDE DEF r
  <2>2. PICK g : IsFold(o, g, b, s, Len(s)) /\ Folded(o, b, s) = g[1 .. Len(s)]
    BY FoldIs
  <2>3. PICK h : IsFold(o, h, b, r, Len(r)) /\ Folded(o, b, r) = h[1 .. Len(r)]
    BY <2>1, FoldIs
  <2>4. h[1 .. Len(s)] = g[1 .. Len(s)]
    <3> DEFINE k == Len(s)
               m == Len(r)
    <3>1. k \in Nat /\ m \in Nat /\ k <= m /\ k <= k /\ Agree(r, s, k)
      BY <2>1 DEF Agree
    <3>2. IsFold(o, h, b, r, m) /\ IsFold(o, g, b, s, k)
      BY <2>2, <2>3
    <3> HIDE DEF k, m
    <3>3. h[1 .. k] = g[1 .. k] /\ (k > 0 => h[1 .. k] = Apply(o, h[1 .. k - 1], r[k]))
      BY ONLY <3>1, <3>2, FoldPrefix
    <3> QED
      BY <3>3 DEF k
  <2>5. h[1 .. Len(r)] = Apply(o, h[1 .. Len(s)], t)
    <3> DEFINE k == Len(r)
    <3>1. k \in Nat /\ k > 0 /\ k - 1 = Len(s) /\ k <= k /\ r[k] = t /\ Agree(r, r, k)
      BY <2>1 DEF Agree
    <3> HIDE DEF k
    <3>2. IsFold(o, h, b, r, k)
      BY <2>3 DEF k
    <3>3. h[1 .. k] = Apply(o, h[1 .. k - 1], r[k])
      BY <3>1, <3>2, FoldPrefix
    <3> QED
      BY <3>1, <3>3 DEF k
  <2>6. Folded(o, b, r) = Apply(o, Folded(o, b, s), t)
    BY <2>2, <2>3, <2>4, <2>5, Zenon
  <2> QED
    BY <2>6 DEF r
<1> QED
  BY <1>1, <1>2

LEMMA FollowFolds ==
  ASSUME NEW b, NEW X, NEW s \in Seq(X), NEW t \in X
  PROVE  /\ Walk(b, <<>>) = b
         /\ Walk(b, Append(s, t)) = Follow(Walk(b, s), t)
<1>1. \A a, r : Folded("walk", a, r) = Walk(a, r) /\ Apply("walk", a, r) = Follow(a, r)
  BY DEF Folded, Apply
<1> QED
  BY <1>1, FoldSteps

LEMMA ItemFolds ==
  ASSUME NEW b, NEW X, NEW s \in Seq(X), NEW t \in X
  PROVE  /\ Gather(b, <<>>) = b
         /\ Gather(b, Append(s, t)) = Item(Gather(b, s), t)
<1>1. \A a, r : Folded("gather", a, r) = Gather(a, r) /\ Apply("gather", a, r) = Item(a, r)
  BY DEF Folded, Apply
<1> QED
  BY <1>1, FoldSteps

LEMMA ScanFolds ==
  ASSUME NEW b, NEW X, NEW s \in Seq(X), NEW t \in X
  PROVE  /\ Scanned(b, <<>>) = b
         /\ Scanned(b, Append(s, t)) = Scan(Scanned(b, s), t)
<1>1. \A a, r : Folded("scan", a, r) = Scanned(a, r) /\ Apply("scan", a, r) = Scan(a, r)
  BY DEF Folded, Apply
<1> QED
  BY <1>1, FoldSteps

\* Induction over sequences.
LEMMA SeqUp ==
  ASSUME NEW X, NEW S, <<>> \in S, \A s \in Seq(X), t \in X : s \in S => Append(s, t) \in S
  PROVE  Seq(X) \subseteq S
<1> DEFINE N == {n \in Nat : \A s \in Seq(X) : Len(s) = n => s \in S}
<1>1. 0 \in N
  <2>1. \A s \in Seq(X) : Len(s) = 0 => s = <<>>
    OBVIOUS
  <2> QED
    BY <2>1
<1>2. ASSUME NEW n \in Nat, n \in N  PROVE n + 1 \in N
  <2> SUFFICES ASSUME NEW s \in Seq(X), Len(s) = n + 1  PROVE s \in S
    OBVIOUS
  <2> DEFINE f == SubSeq(s, 1, n)
  <2>1. f \in Seq(X) /\ Len(f) = n /\ s[n + 1] \in X
    OBVIOUS
  <2>2. s = Append(f, s[n + 1])
    OBVIOUS
  <2> HIDE DEF f
  <2>3. f \in S
    BY <1>2, <2>1
  <2>4. Append(f, s[n + 1]) \in S
    BY <2>1, <2>3
  <2> QED
    BY <2>2, <2>4, Zenon
<1> HIDE DEF N
<1>3. Nat \subseteq N
  BY <1>1, <1>2, UpFromZero
<1> QED
  BY <1>3 DEF N

\* Names are no dots and no slashes.
LEMMA Tokens ==
  /\ "/" \notin Plain /\ "." \notin Plain /\ ".." \notin Plain
  /\ Token = Plain \cup {"/", ".", ".."}
  /\ Plain \subseteq Bare /\ Bare \subseteq Token /\ "NULL" \notin Token
BY NamesAssumption DEF Plain, Bare, Token, Word

\* Where one token leads.
LEMMA FollowIs ==
  ASSUME NEW p
  PROVE  /\ Follow(p, "/") = p /\ Follow(p, ".") = p
         /\ Follow(p, "..") = IF p = <<>> THEN p ELSE Front(p)
         /\ \A n \in Plain : Follow(p, n) = Append(p, n)
BY Tokens DEF Follow

\* A sequence without its last element.
LEMMA FrontIs ==
  ASSUME NEW X, NEW s \in Seq(X), s # <<>>
  PROVE  Front(s) \in Seq(X) /\ Len(Front(s)) = Len(s) - 1
         /\ \A i \in 1 .. Len(s) - 1 : Front(s)[i] = s[i]
<1> DEFINE n == Len(s) - 1
<1>1. n \in Nat /\ n <= Len(s)
  OBVIOUS
<1>2. SubSeq(s, 1, n) \in Seq(X) /\ Len(SubSeq(s, 1, n)) = n
      /\ \A i \in 1 .. n : SubSeq(s, 1, n)[i] = s[i]
  <2> HIDE DEF n
  <2> QED
    BY <1>1
<1> QED
  BY <1>2 DEF Front

\* Where a path leads, and what it is made of, token by token.
LEMMA WalkSteps ==
  ASSUME NEW h, NEW s \in Seq(Token), NEW t \in Token
  PROVE  Walk(h, <<>>) = h /\ Walk(h, Append(s, t)) = Follow(Walk(h, s), t)
BY FollowFolds

LEMMA ItemSteps ==
  ASSUME NEW s \in Seq(Bare), NEW t \in Bare
  PROVE  Items(<<>>) = <<>> /\ Items(Append(s, t)) = Item(Items(s), t)
<1>1. \A r : Items(r) = Gather(<<>>, r)
  BY Zenon DEF Items, Gather
<1> QED
  BY <1>1, ItemFolds

LEMMA SeqGrows ==
  ASSUME NEW X, NEW Y, X \subseteq Y, NEW s \in Seq(X)
  PROVE  s \in Seq(Y)
<1>1. Len(s) \in Nat /\ s = [i \in 1 .. Len(s) |-> s[i]] /\ \A i \in 1 .. Len(s) : s[i] \in Y
  OBVIOUS
<1>2. s \in [1 .. Len(s) -> Y]
  BY <1>1
<1> QED
  BY <1>1, <1>2

LEMMA BareTokens == \A s \in Seq(Bare) : s \in Seq(Token)
<1> TAKE s \in Seq(Bare)
<1>1. Bare \subseteq Token
  BY Tokens
<1> QED
  BY <1>1, SeqGrows

\* No path leads anywhere but to names below names.
LEMMA WalkType ==
  ASSUME NEW h \in Seq(Plain), NEW s \in Seq(Token)
  PROVE  Walk(h, s) \in Seq(Plain)
<1> DEFINE S == {r \in Seq(Token) : Walk(h, r) \in Seq(Plain)}
<1>1. <<>> \in S
  <2>1. <<>> \in Seq(Token)
    OBVIOUS
  <2>2. Token # {}
    BY DEF Token
  <2> QED
    BY <2>1, <2>2, WalkSteps
<1>2. ASSUME NEW r \in Seq(Token), NEW t \in Token, r \in S  PROVE Append(r, t) \in S
  <2> DEFINE w == Walk(h, r)
  <2>1. w \in Seq(Plain)
    BY <1>2
  <2>2. Walk(h, Append(r, t)) = Follow(w, t)
    BY WalkSteps
  <2> HIDE DEF w
  <2>3. Follow(w, t) \in Seq(Plain)
    <3>1. CASE t \in Plain
      <4>1. Follow(w, t) = Append(w, t)
        BY <3>1, FollowIs
      <4> QED
        BY <2>1, <3>1, <4>1
    <3>2. CASE t \in {"/", "."}
      BY <2>1, <3>2, FollowIs
    <3>3. CASE t = ".."
      <4>1. w # <<>> => Front(w) \in Seq(Plain)
        BY <2>1, FrontIs
      <4>2. Follow(w, t) = IF w = <<>> THEN w ELSE Front(w)
        BY <3>3, FollowIs
      <4> QED
        BY <2>1, <4>1, <4>2
    <3> QED
      BY <3>1, <3>2, <3>3, Tokens
  <2> QED
    BY <2>2, <2>3
<1> HIDE DEF S
<1>3. Seq(Token) \subseteq S
  BY <1>1, <1>2, SeqUp
<1> QED
  BY <1>3 DEF S

\* A path behind a path leads on from where the first one leads.
LEMMA WalkOn ==
  ASSUME NEW h, NEW s \in Seq(Token), NEW t \in Seq(Token)
  PROVE  Walk(h, s \o t) = Walk(Walk(h, s), t)
<1> DEFINE S == {r \in Seq(Token) : Walk(h, s \o r) = Walk(Walk(h, s), r)}
<1>0. Token # {}
  BY DEF Token
<1>1. <<>> \in S
  <2>1. <<>> \in Seq(Token) /\ s \o <<>> = s
    OBVIOUS
  <2>2. Walk(Walk(h, s), <<>>) = Walk(h, s)
    BY <1>0, WalkSteps
  <2> QED
    BY <2>1, <2>2
<1>2. ASSUME NEW r \in Seq(Token), NEW x \in Token, r \in S  PROVE Append(r, x) \in S
  <2>1. s \o r \in Seq(Token) /\ s \o Append(r, x) = Append(s \o r, x) /\ Append(r, x) \in Seq(Token)
    OBVIOUS
  <2>2. Walk(h, Append(s \o r, x)) = Follow(Walk(h, s \o r), x)
    BY <2>1, WalkSteps
  <2>3. Walk(Walk(h, s), Append(r, x)) = Follow(Walk(Walk(h, s), r), x)
    BY <2>1, WalkSteps
  <2>4. Walk(h, s \o r) = Walk(Walk(h, s), r)
    BY <1>2
  <2> QED
    BY <2>1, <2>2, <2>3, <2>4
<1> HIDE DEF S
<1>3. Seq(Token) \subseteq S
  BY <1>1, <1>2, SeqUp
<1> QED
  BY <1>3 DEF S

\* Without dots, what a path is made of is where it leads.
LEMMA ItemsAreWalked ==
  ASSUME NEW s \in Seq(Bare)
  PROVE  Items(s) = Walk(<<>>, s)
<1> DEFINE S == {r \in Seq(Bare) : Items(r) = Walk(<<>>, r)}
<1>0. "/" \in Bare /\ "/" \in Token
  BY DEF Token, Bare
<1>1. <<>> \in S
  <2>1. <<>> \in Seq(Token) /\ <<>> \in Seq(Bare)
    OBVIOUS
  <2>2. Walk(<<>>, <<>>) = <<>>
    BY <1>0, <2>1, WalkSteps
  <2>3. Items(<<>>) = <<>>
    BY <1>0, <2>1, ItemSteps
  <2> QED
    BY <2>1, <2>2, <2>3
<1>2. ASSUME NEW r \in Seq(Bare), NEW x \in Bare, r \in S  PROVE Append(r, x) \in S
  <2>1. r \in Seq(Token) /\ x \in Token
    BY Tokens, BareTokens
  <2>2. Walk(<<>>, Append(r, x)) = Follow(Walk(<<>>, r), x)
    BY <2>1, WalkSteps
  <2>3. Items(Append(r, x)) = Item(Items(r), x)
    BY ItemSteps
  <2>4. Item(Items(r), x) = Follow(Items(r), x)
    <3>1. x \in Plain \/ x = "/"
      BY DEF Bare
    <3> QED
      BY <3>1, FollowIs, Tokens DEF Item
  <2>5. Items(r) = Walk(<<>>, r) /\ Append(r, x) \in Seq(Bare)
    BY <1>2
  <2> QED
    BY <2>2, <2>3, <2>4, <2>5
<1> HIDE DEF S
<1>3. Seq(Bare) \subseteq S
  BY <1>1, <1>2, SeqUp
<1> QED
  BY <1>3 DEF S

\* A folder without dots and without two slashes in a row.
\* A folder as virtual_abspath leaves it: single slashes, at both ends.
Tidy(f) ==
  /\ f \in Seq(Bare) /\ f # <<>> /\ f[1] = "/" /\ f[Len(f)] = "/"
  /\ \A i \in 1 .. Len(f) - 1 : f[i] = "/" <=> f[i + 1] # "/"

(***************************************************************************)
(* The scan of virtual_abspath.                                            *)
(***************************************************************************)

\* The states of the scan.
Scanning == [state : {"start", "slash", "dot", "dotdot"}, out : Seq(Token), dir : Nat]

Nul == ""    \* the end of a string

\* The states of the scan of virtual_abspath, one by one.
LEMMA ScanIs ==
  ASSUME NEW a \in Scanning, NEW t
  PROVE  /\ a.state = "dot" =>
              Scan(a, t) = [state |-> "slash", out |-> SubSeq(a.out, 1, a.dir), dir |-> a.dir]
         /\ a.state = "dotdot" => Scan(a, t) = UpOnce(a)
         /\ a.state \in {"start", "slash"} /\ t = Nul => Scan(a, t) = a
         /\ a.state = "slash" /\ t = "/" => Scan(a, t) = a
         /\ a.state = "start" /\ t = "/" =>
              Scan(a, t) = [state |-> "slash", out |-> Append(a.out, t), dir |-> Len(a.out) + 1]
         /\ a.state = "slash" /\ t = "." =>
              Scan(a, t) = [state |-> "dot", out |-> Append(a.out, t), dir |-> a.dir]
         /\ a.state = "slash" /\ t = ".." =>
              Scan(a, t) = [state |-> "dotdot", out |-> Append(a.out, t), dir |-> a.dir]
         /\ a.state = "slash" /\ t \in Plain =>
              Scan(a, t) = [state |-> "start", out |-> Append(a.out, t), dir |-> a.dir]
<1>1. a = [state |-> a.state, out |-> a.out, dir |-> a.dir]
  BY DEF Scanning
<1>2. a.state = "dot" =>
        Scan(a, t) = [state |-> "slash", out |-> SubSeq(a.out, 1, a.dir), dir |-> a.dir]
  BY <1>1 DEF Scan
<1>3. a.state = "dotdot" => Scan(a, t) = UpOnce(a)
  BY <1>1 DEF Scan, Up
<1>4. a.state \in {"start", "slash"} /\ t = Nul => Scan(a, t) = a
  BY <1>1, Zenon DEF Scan, Nul
<1>5. a.state = "slash" /\ t = "/" => Scan(a, t) = a
  BY <1>1 DEF Scan
<1>6. a.state = "start" /\ t = "/" =>
        Scan(a, t) = [state |-> "slash", out |-> Append(a.out, t), dir |-> Len(a.out) + 1]
  BY <1>1 DEF Scan
<1>7. a.state = "slash" /\ t = "." =>
        Scan(a, t) = [state |-> "dot", out |-> Append(a.out, t), dir |-> a.dir]
  BY <1>1 DEF Scan
<1>8. a.state = "slash" /\ t = ".." =>
        Scan(a, t) = [state |-> "dotdot", out |-> Append(a.out, t), dir |-> a.dir]
  BY <1>1 DEF Scan
<1>9. a.state = "slash" /\ t \in Plain =>
        Scan(a, t) = [state |-> "start", out |-> Append(a.out, t), dir |-> a.dir]
  <2>1. t \in Plain => t # "" /\ t # "/" /\ t # "." /\ t # ".."
    BY NamesAssumption, Zenon DEF Plain
  <2> QED
    BY <1>1, <2>1, Zenon DEF Scan
<1> QED
  BY <1>2, <1>3, <1>4, <1>5, <1>6, <1>7, <1>8, <1>9

\* A set of indices has a largest one, which is what strrchr looks for.
LEMMA MaxExists ==
  ASSUME NEW n \in Nat, NEW T \in SUBSET (1 .. n), T # {}
  PROVE  \E m \in T : \A i \in T : m >= i
<1> DEFINE N == {k \in Nat : \A S \in SUBSET (1 .. k) :
                                S # {} => \E m \in S : \A i \in S : m >= i}
<1>1. 0 \in N
  <2>1. \A S \in SUBSET (1 .. 0) : S = {}
    OBVIOUS
  <2> QED
    BY <2>1
<1>2. ASSUME NEW k \in Nat, k \in N  PROVE k + 1 \in N
  <2> SUFFICES ASSUME NEW S \in SUBSET (1 .. k + 1), S # {}
               PROVE  \E m \in S : \A i \in S : m >= i
    OBVIOUS
  <2>1. CASE k + 1 \in S
    <3>1. \A i \in S : k + 1 >= i
      OBVIOUS
    <3> QED
      BY <2>1, <3>1
  <2>2. CASE k + 1 \notin S
    <3>1. S \in SUBSET (1 .. k)
      BY <2>2
    <3> QED
      BY <1>2, <3>1
  <2> QED
    BY <2>1, <2>2
<1> HIDE DEF N
<1>3. Nat \subseteq N
  BY <1>1, <1>2, UpFromZero
<1> QED
  BY <1>3 DEF N

\* strrchr.
LEMMA SlashIs ==
  ASSUME NEW X, NEW s \in Seq(X)
  PROVE  /\ LastSlash(s) \in 0 .. Len(s)
         /\ LastSlash(s) > 0 => s[LastSlash(s)] = "/"
         /\ \A i \in 1 .. Len(s) : s[i] = "/" => i <= LastSlash(s)
<1> DEFINE I == {i \in 1 .. Len(s) : s[i] = "/"}
<1>1. LastSlash(s) = IF I # {} THEN Max(I) ELSE 0
  BY Zenon DEF LastSlash, SelectLastInSeq
<1>2. CASE I = {}
  BY <1>1, <1>2
<1>3. CASE I # {}
  <2>1. \E m \in I : \A i \in I : m >= i
    <3>1. Len(s) \in Nat /\ I \in SUBSET (1 .. Len(s))
      OBVIOUS
    <3> HIDE DEF I
    <3> QED
      BY <1>3, <3>1, MaxExists
  <2>2. Max(I) \in I /\ \A i \in I : Max(I) >= i
    BY <2>1 DEF Max
  <2> HIDE DEF I
  <2>3. LastSlash(s) \in I /\ \A i \in I : LastSlash(s) >= i
    BY <1>1, <1>3, <2>2
  <2> QED
    BY <2>3 DEF I
<1> QED
  BY <1>2, <1>3

LEMMA PrefixIs ==
  ASSUME NEW X, NEW s \in Seq(X), NEW k \in Nat, k <= Len(s)
  PROVE  /\ SubSeq(s, 1, k) \in Seq(X) /\ Len(SubSeq(s, 1, k)) = k
         /\ \A i \in 1 .. k : SubSeq(s, 1, k)[i] = s[i]
OBVIOUS

\* Where a tidy folder leads.
LEMMA TidyWalk ==
  ASSUME NEW f \in Seq(Bare), NEW n \in Plain
  PROVE  /\ Walk(<<>>, f) \in Seq(Plain)
         /\ Walk(<<>>, Append(f, "/")) = Walk(<<>>, f)
         /\ Walk(<<>>, Append(f, n)) = Append(Walk(<<>>, f), n)
<1>1. f \in Seq(Token) /\ n \in Token /\ "/" \in Token
  BY BareTokens, Tokens
<1>2. Walk(<<>>, Append(f, "/")) = Follow(Walk(<<>>, f), "/")
  BY <1>1, WalkSteps
<1>3. Walk(<<>>, Append(f, n)) = Follow(Walk(<<>>, f), n)
  BY <1>1, WalkSteps
<1>4. <<>> \in Seq(Plain)
  OBVIOUS
<1> QED
  BY <1>1, <1>2, <1>3, <1>4, WalkType, FollowIs

\* ".." takes one folder off a tidy one, and nothing off the root.
LEMMA TidyUp ==
  ASSUME NEW f, Tidy(f), NEW a, a.out = Append(f, ".."), a.dir = Len(f)
  PROVE  \E g : /\ Tidy(g) /\ UpOnce(a) = [state |-> "slash", out |-> g, dir |-> Len(g)]
                /\ Walk(<<>>, g) = Follow(Walk(<<>>, f), "..")
<1> DEFINE d == Len(f)
           kept == SubSeq(f, 1, d - 1)
           prev == LastSlash(kept)
<1>1. f \in Seq(Bare) /\ d \in Nat /\ d >= 1 /\ f[1] = "/" /\ f[d] = "/" /\ f \in Seq(Token)
  BY BareTokens DEF Tidy
<1>0. d - 1 \in Nat /\ d - 1 <= Len(f)
  BY <1>1
<1>2. SubSeq(a.out, 1, a.dir - 1) = kept
  <2>1. Append(f, "..") \in Seq(Token) /\ Len(Append(f, "..")) = d + 1
        /\ \A i \in 1 .. d : Append(f, "..")[i] = f[i]
    <3>1. ".." \in Token
      BY Tokens
    <3> QED
      BY <1>1, <3>1
  <2> QED
    BY <1>1, <2>1
<1>3. kept \in Seq(Bare) /\ Len(kept) = d - 1 /\ \A i \in 1 .. d - 1 : kept[i] = f[i]
  BY <1>0, <1>1, PrefixIs
<1>4. UpOnce(a) = IF prev > 0
                  THEN [state |-> "slash", out |-> SubSeq(kept, 1, prev), dir |-> prev]
                  ELSE [state |-> "slash", out |-> kept \o Root, dir |-> d]
  BY <1>2 DEF UpOnce
<1>5. CASE d = 1
  <2>1. kept = <<>> /\ f = Root
    BY <1>1, <1>3, <1>5 DEF Root
  <2>2. prev = 0
    <3>1. prev \in 0 .. Len(kept) /\ Len(kept) = 0
      <4>1. prev \in 0 .. Len(kept)
        BY <1>3, SlashIs
      <4> QED
        BY <1>3, <1>5, <4>1
    <3> HIDE DEF prev, kept
    <3> QED
      BY <3>1
  <2>3. kept \o Root = Root /\ Len(Root) = 1
    <3>1. Root \in Seq(Bare) /\ <<>> \o Root = Root /\ Len(Root) = 1
      BY DEF Root, Bare
    <3> QED
      BY <2>1, <3>1
  <2>4. Walk(<<>>, f) = <<>>
    <3>1. <<>> \in Seq(Token) /\ "/" \in Token /\ f = Append(<<>>, "/")
      <4>1. Root = Append(<<>>, "/") /\ <<>> \in Seq(Token)
        BY DEF Root
      <4> QED
        BY <2>1, <4>1, Tokens
    <3>2. Walk(<<>>, f) = Follow(<<>>, "/")
      BY <3>1, WalkSteps
    <3> QED
      BY <3>2, FollowIs
  <2>5. Follow(<<>>, "..") = <<>>
    BY FollowIs
  <2>6. UpOnce(a) = [state |-> "slash", out |-> Root, dir |-> Len(Root)]
    BY <1>4, <1>5, <2>2, <2>3
  <2> QED
    BY <2>1, <2>4, <2>5, <2>6
<1>6. CASE d # 1
  <2>1. d - 1 \in 1 .. d - 1 /\ (d - 1) + 1 = d
    <3> HIDE DEF d
    <3> QED
      BY <1>1, <1>6
  <2>2. f[d - 1] # "/"
    BY <1>1, <2>1 DEF Tidy
  <2>3. d - 1 # 1 /\ d - 2 \in 1 .. Len(f) - 1 /\ (d - 2) + 1 = d - 1
    BY <1>1, <2>1, <2>2
  <2>4. f[d - 2] = "/"
    BY <2>2, <2>3 DEF Tidy
  <2>5. prev = d - 2
    <3>1. prev \in 0 .. d - 1 /\ (prev > 0 => kept[prev] = "/")
          /\ \A i \in 1 .. d - 1 : kept[i] = "/" => i <= prev
      BY <1>3, SlashIs
    <3> HIDE DEF prev, kept
    <3>2. kept[d - 2] = "/" /\ kept[d - 1] # "/"
      BY <1>1, <1>3, <2>1, <2>2, <2>3, <2>4
    <3>3. d - 2 \in 1 .. d - 1 /\ d \in Nat
      BY <1>1, <2>3
    <3> HIDE DEF d
    <3> QED
      BY <3>1, <3>2, <3>3
  <2> DEFINE g == SubSeq(f, 1, d - 2)
             n == f[d - 1]
  <2>6. g \in Seq(Bare) /\ Len(g) = d - 2 /\ \A i \in 1 .. d - 2 : g[i] = f[i]
    BY <1>1, <2>3
  <2>7. SubSeq(kept, 1, prev) = g
    BY <1>1, <1>3, <2>3, <2>5
  <2>8. Tidy(g)
    <3>1. g # <<>> /\ g[1] = "/" /\ g[Len(g)] = "/"
      BY <1>1, <2>3, <2>4, <2>6
    <3>2. ASSUME NEW i \in 1 .. Len(g) - 1  PROVE g[i] = "/" <=> g[i + 1] # "/"
      <4>1. i \in 1 .. Len(f) - 1 /\ i \in 1 .. d - 2 /\ i + 1 \in 1 .. d - 2
        BY <2>3, <2>6
      <4> QED
        BY <2>6, <4>1 DEF Tidy
    <3> QED
      BY <2>6, <3>1, <3>2 DEF Tidy
  <2>9. f = Append(Append(g, n), "/")
    BY <1>1, <2>3, <2>6
  <2>10. n \in Plain
    BY <1>1, <2>1, <2>2 DEF Bare
  <2> DEFINE w == Walk(<<>>, g)
  <2>11. w \in Seq(Plain) /\ Walk(<<>>, f) = Append(w, n)
    <3> HIDE DEF g, n
    <3>0. n \in Bare
      BY <2>10, Tokens
    <3>1. Append(g, n) \in Seq(Bare)
      BY <2>6, <3>0
    <3>2. Walk(<<>>, Append(Append(g, n), "/")) = Walk(<<>>, Append(g, n))
      BY <2>10, <3>1, TidyWalk
    <3>3. Walk(<<>>, Append(g, n)) = Append(w, n) /\ w \in Seq(Plain)
      BY <2>6, <2>10, TidyWalk
    <3> QED
      BY <2>9, <3>2, <3>3
  <2>12. Follow(Walk(<<>>, f), "..") = w
    <3> HIDE DEF w, n
    <3>1. Append(w, n) # <<>> /\ Front(Append(w, n)) = w
      BY <2>10, <2>11 DEF Front
    <3> QED
      BY <2>11, <3>1, FollowIs
  <2>13. UpOnce(a) = [state |-> "slash", out |-> g, dir |-> Len(g)]
    <3>1. prev > 0
      BY <1>1, <2>3, <2>5
    <3> QED
      BY <1>4, <2>5, <2>6, <2>7, <3>1
  <2> QED
    BY <2>8, <2>12, <2>13
<1> QED
  BY <1>5, <1>6

\* What the scan has kept of the path s, which begins at the root.
\* The invariant of the scan: after s, it has the tidy folder f and what of the
\* last component it is still to judge.
Kept(a, s, f) ==
  LET t == s[Len(s)]
      w == Walk(<<>>, s)
  IN
  /\ Tidy(f) /\ a.dir = Len(f)
  /\ \/ a.state = "slash" /\ t = "/" /\ a.out = f /\ w = Walk(<<>>, f)
     \/ a.state = "dot" /\ t = "." /\ a.out = Append(f, t) /\ w = Walk(<<>>, f)
     \/ a.state = "dotdot" /\ t = ".." /\ a.out = Append(f, t)
        /\ w = Follow(Walk(<<>>, f), "..")
     \/ a.state = "start" /\ t \in Plain /\ a.out = Append(f, t)
        /\ w = Append(Walk(<<>>, f), t)

LEMMA TidyIs ==
  ASSUME NEW f, Tidy(f)
  PROVE  f \in Seq(Token) /\ Len(f) \in Nat /\ Len(f) > 0 /\ SubSeq(f, 1, Len(f)) = f
         /\ \A t : SubSeq(Append(f, t), 1, Len(f)) = f
<1>1. f \in Seq(Bare) /\ f # <<>>
  BY DEF Tidy
<1>2. SubSeq(f, 1, Len(f)) = f /\ Len(f) \in Nat /\ Len(f) > 0
  BY <1>1
<1>3. ASSUME NEW t PROVE SubSeq(Append(f, t), 1, Len(f)) = f
  <2> DEFINE X == Bare \cup {t}
  <2>1. f \in Seq(X)
    <3>1. Len(f) \in Nat /\ f = [i \in 1 .. Len(f) |-> f[i]] /\ \A i \in 1 .. Len(f) : f[i] \in X
      BY <1>1
    <3> QED
      BY <3>1
  <2>2. t \in X
    OBVIOUS
  <2> HIDE DEF X
  <2> QED
    BY <2>1, <2>2
<1> QED
  BY <1>1, <1>2, <1>3, BareTokens

LEMMA ScanType ==
  ASSUME NEW a \in Scanning, NEW s, NEW f, Kept(a, s, f)
  PROVE  Tidy(f) /\ a.dir = Len(f) /\ a.state \in {"start", "slash", "dot", "dotdot"}
BY DEF Kept, Scanning

\* A name and a slash more leave it tidy.
LEMMA TidyAdd ==
  ASSUME NEW f, Tidy(f), NEW n \in Plain
  PROVE  /\ Append(f, n) \in Seq(Bare) /\ Tidy(Append(Append(f, n), "/"))
         /\ Len(Append(Append(f, n), "/")) = Len(f) + 2
<1> DEFINE g == Append(Append(f, n), "/")
<1>1. f \in Seq(Bare) /\ Len(f) \in Nat
  BY TidyIs DEF Tidy
<1>2. g \in Seq(Bare) /\ Len(g) = Len(f) + 2 /\ Append(f, n) \in Seq(Bare)
      /\ g[Len(f) + 1] = n /\ g[Len(f) + 2] = "/" /\ \A i \in 1 .. Len(f) : g[i] = f[i]
  <2>1. n \in Bare /\ "/" \in Bare
    BY Tokens DEF Bare
  <2> QED
    BY <1>1, <2>1
<1>3. Tidy(g)
  <2> HIDE DEF g
  <2> DEFINE d == Len(f)
  <2>1. d \in Nat /\ d >= 1 /\ f[1] = "/" /\ f[d] = "/"
        /\ \A i \in 1 .. d - 1 : f[i] = "/" <=> f[i + 1] # "/"
    BY <1>1 DEF Tidy
  <2>2. n # "/"
    BY Tokens
  <2> HIDE DEF d
  <2>3. ASSUME NEW i \in 1 .. d + 1  PROVE g[i] = "/" <=> g[i + 1] # "/"
    <3>1. CASE i \in 1 .. d - 1
      <4>1. i \in 1 .. d /\ i + 1 \in 1 .. d
        BY <2>1, <3>1
      <4> QED
        BY <1>2, <2>1, <3>1, <4>1 DEF d
    <3>2. CASE i = d
      BY <1>2, <2>1, <2>2, <3>2 DEF d
    <3>3. CASE i = d + 1
      <4>1. g[i] = n /\ i + 1 = d + 2
        BY <1>2, <2>1, <3>3 DEF d
      <4>2. g[i + 1] = "/"
        BY <1>2, <4>1 DEF d
      <4> QED
        BY <2>2, <4>1, <4>2
    <3> QED
      BY <2>1, <3>1, <3>2, <3>3
  <2>4. Len(g) = d + 2 /\ Len(g) - 1 = d + 1
    BY <1>2, <2>1 DEF d
  <2>5. g # <<>> /\ g[1] = "/" /\ g[Len(g)] = "/"
    BY <1>2, <2>1, <2>4 DEF d
  <2> QED
    BY <1>2, <2>3, <2>4, <2>5 DEF Tidy
<1> QED
  BY <1>2, <1>3

\* The next token of a path.
LEMMA ScanOn ==
  ASSUME NEW a \in Scanning, NEW s \in Seq(Token), s # <<>>, NEW t \in Token,
         "/" \in {s[Len(s)], t}, NEW f, Kept(a, s, f)
  PROVE  Scan(a, t) \in Scanning /\ \E g : Kept(Scan(a, t), Append(s, t), g)
<1> DEFINE r == Append(s, t)
           w == Walk(<<>>, s)
<1>1. r[Len(r)] = t /\ Walk(<<>>, r) = Follow(w, t)
  BY WalkSteps
<1>2. Tidy(f) /\ a.dir = Len(f) /\ f \in Seq(Token) /\ Len(f) \in Nat
      /\ f \in Seq(Bare) /\ Append(f, t) \in Seq(Token)
  BY TidyIs DEF Kept, Tidy
<1>3. CASE a.state = "slash"
  <2>1. a.out = f /\ w = Walk(<<>>, f)
    BY <1>3 DEF Kept
  <2>2. CASE t = "/"
    <3>1. Scan(a, t) = a
      BY <1>3, <2>2, ScanIs
    <3>2. Walk(<<>>, r) = w
      BY <1>1, <2>2, FollowIs
    <3> QED
      BY <1>1, <1>2, <1>3, <2>1, <2>2, <3>1, <3>2 DEF Kept
  <2>3. CASE t = "."
    <3>1. Scan(a, t) = [state |-> "dot", out |-> Append(a.out, t), dir |-> a.dir]
      BY <1>3, <2>3, ScanIs
    <3>2. Walk(<<>>, r) = w
      BY <1>1, <2>3, FollowIs
    <3>3. Kept(Scan(a, t), r, f)
      <4> HIDE DEF r, w
      <4> QED
        BY <1>1, <1>2, <2>1, <2>3, <3>1, <3>2 DEF Kept
    <3>4. Scan(a, t) \in Scanning
      BY <1>2, <2>1, <3>1 DEF Scanning
    <3> QED
      BY <3>3, <3>4
  <2>4. CASE t = ".."
    <3>1. Scan(a, t) = [state |-> "dotdot", out |-> Append(a.out, t), dir |-> a.dir]
      BY <1>3, <2>4, ScanIs
    <3>3. Kept(Scan(a, t), r, f)
      <4> HIDE DEF r, w
      <4> QED
        BY <1>1, <1>2, <2>1, <2>4, <3>1 DEF Kept
    <3>4. Scan(a, t) \in Scanning
      BY <1>2, <2>1, <3>1 DEF Scanning
    <3> QED
      BY <3>3, <3>4
  <2>5. CASE t \in Plain
    <3>1. Scan(a, t) = [state |-> "start", out |-> Append(a.out, t), dir |-> a.dir]
      BY <1>3, <2>5, ScanIs
    <3>2. Walk(<<>>, r) = Append(w, t)
      BY <1>1, <2>5, FollowIs
    <3> QED
      BY <1>1, <1>2, <2>1, <2>5, <3>1, <3>2 DEF Kept, Scanning
  <2> QED
    BY <2>2, <2>3, <2>4, <2>5, Tokens
<1>4. CASE a.state = "dot"
  <2>1. a.out = Append(f, ".") /\ w = Walk(<<>>, f) /\ s[Len(s)] = "."
    BY <1>4 DEF Kept
  <2>2. t = "/"
    BY <2>1
  <2>3. Scan(a, t) = [state |-> "slash", out |-> f, dir |-> Len(f)]
    <3>1. Scan(a, t) = [state |-> "slash", out |-> SubSeq(a.out, 1, a.dir), dir |-> a.dir]
      BY <1>4, ScanIs
    <3>2. SubSeq(a.out, 1, a.dir) = f
      BY <1>2, <2>1, TidyIs
    <3> QED
      BY <1>2, <3>1, <3>2
  <2>4. Walk(<<>>, r) = w
    BY <1>1, <2>2, FollowIs
  <2> QED
    BY <1>1, <1>2, <2>1, <2>2, <2>3, <2>4 DEF Kept, Scanning
<1>5. CASE a.state = "dotdot"
  <2>1. a.out = Append(f, "..") /\ w = Follow(Walk(<<>>, f), "..") /\ s[Len(s)] = ".."
    BY <1>5 DEF Kept
  <2>2. t = "/"
    BY <2>1
  <2>3. PICK g : /\ Tidy(g) /\ UpOnce(a) = [state |-> "slash", out |-> g, dir |-> Len(g)]
                 /\ Walk(<<>>, g) = w
    BY <1>2, <2>1, TidyUp
  <2>4. Scan(a, t) = [state |-> "slash", out |-> g, dir |-> Len(g)]
    BY <1>5, <2>3, ScanIs
  <2>5. Walk(<<>>, r) = w
    BY <1>1, <2>2, FollowIs
  <2>6. g \in Seq(Token) /\ Len(g) \in Nat
    BY <2>3, TidyIs
  <2> QED
    BY <1>1, <2>2, <2>3, <2>4, <2>5, <2>6 DEF Kept, Scanning
<1>6. CASE a.state = "start"
  <2>1. PICK n \in Plain : a.out = Append(f, n) /\ w = Append(Walk(<<>>, f), n)
                           /\ s[Len(s)] = n
    BY <1>6 DEF Kept
  <2>2. t = "/"
    BY <2>1, Tokens
  <2> DEFINE g == Append(Append(f, n), "/")
  <2>3. Tidy(g) /\ Len(g) = Len(f) + 2 /\ Append(f, n) \in Seq(Bare)
    BY <1>2, TidyAdd
  <2>4. Tidy(g)
    BY <2>3
  <2>5. Walk(<<>>, g) = w
    BY <1>2, <2>1, <2>3, TidyWalk
  <2>6. Scan(a, t) = [state |-> "slash", out |-> g, dir |-> Len(g)]
    <3>1. Scan(a, t) = [state |-> "slash", out |-> Append(a.out, t), dir |-> Len(a.out) + 1]
      BY <1>6, <2>2, ScanIs
    <3>2. Append(a.out, t) = g /\ Len(a.out) + 1 = Len(g)
      BY <1>2, <2>1, <2>2, <2>3
    <3> QED
      BY <3>1, <3>2
  <2>7. Walk(<<>>, r) = w
    BY <1>1, <2>2, FollowIs
  <2>8. g \in Seq(Token) /\ Len(g) \in Nat
    BY <2>4, TidyIs
  <2> HIDE DEF g
  <2> QED
    BY <1>1, <2>2, <2>4, <2>5, <2>6, <2>7, <2>8 DEF Kept, Scanning
<1> QED
  BY <1>3, <1>4, <1>5, <1>6 DEF Scanning

\* Where the scan begins.
Unscanned == [state |-> "start", out |-> <<>>, dir |-> 1]

\* The whole of a path that begins at the root.
LEMMA ScanKeeps ==
  ASSUME NEW s, IsPath(s), IsAbsolute(s)
  PROVE  Scanned(Unscanned, s) \in Scanning /\ \E f : Kept(Scanned(Unscanned, s), s, f)
<1> DEFINE Good(r) == IsPath(r) /\ IsAbsolute(r) =>
                        Scanned(Unscanned, r) \in Scanning /\ \E f : Kept(Scanned(Unscanned, r), r, f)
           S == {r \in Seq(Token) : Good(r)}
<1>1. <<>> \in S
  <2>1. <<>> \in Seq(Token) /\ ~IsAbsolute(<<>>)
    BY DEF IsAbsolute
  <2> QED
    BY <2>1
<1>2. ASSUME NEW r \in Seq(Token), NEW t \in Token, r \in S  PROVE Append(r, t) \in S
  <2> DEFINE q == Append(r, t)
             a == Scanned(Unscanned, r)
  <2>1. q \in Seq(Token) /\ Len(q) = Len(r) + 1 /\ Len(r) \in Nat /\ q[Len(r) + 1] = t
        /\ \A i \in 1 .. Len(r) : q[i] = r[i]
    OBVIOUS
  <2>2. Scanned(Unscanned, q) = Scan(a, t)
    BY ScanFolds
  <2> SUFFICES ASSUME IsPath(q), IsAbsolute(q)
               PROVE  Scanned(Unscanned, q) \in Scanning /\ \E f : Kept(Scanned(Unscanned, q), q, f)
    BY <2>1
  <2> HIDE DEF q
  <2>3. CASE r = <<>>
    <3>1. t = "/" /\ q = <<"/">>
      BY <2>1, <2>3 DEF IsAbsolute, q
    <3>2. a = Unscanned
      BY <2>3, ScanFolds
    <3>3. Scan(Unscanned, "/") = [state |-> "slash", out |-> <<"/">>, dir |-> 1]
      <4>1. Unscanned \in Scanning /\ Unscanned.state = "start" /\ Unscanned.out = <<>>
        BY DEF Unscanned, Scanning
      <4>2. Append(<<>>, "/") = <<"/">> /\ Len(<<>>) + 1 = 1
        OBVIOUS
      <4>3. Scan(Unscanned, "/") = [state |-> "slash", out |-> Append(Unscanned.out, "/"),
                                 dir |-> Len(Unscanned.out) + 1]
        BY <4>1, ScanIs
      <4> QED
        BY <4>1, <4>2, <4>3
    <3>4. Tidy(<<"/">>) /\ Len(<<"/">>) = 1 /\ <<"/">> \in Seq(Token)
      <4>1. "/" \in Bare /\ "/" \in Token
        BY Tokens DEF Bare
      <4>2. <<"/">> \in Seq(Bare) /\ <<"/">> \in Seq(Token)
        BY <4>1
      <4> QED
        BY <4>2 DEF Tidy
    <3>5. Kept([state |-> "slash", out |-> <<"/">>, dir |-> 1], <<"/">>, <<"/">>)
      BY <3>4 DEF Kept
    <3>6. [state |-> "slash", out |-> <<"/">>, dir |-> 1] \in Scanning
      BY <3>4 DEF Scanning
    <3>7. Scanned(Unscanned, q) = [state |-> "slash", out |-> <<"/">>, dir |-> 1]
      BY <2>2, <3>1, <3>2, <3>3
    <3> QED
      BY <3>1, <3>5, <3>6, <3>7
  <2>4. CASE r # <<>>
    <3>1. Len(r) >= 1 /\ q # <<>>
      BY <2>1, <2>4
    <3>2. IsAbsolute(r)
      <4>1. q[1] = r[1]
        BY <2>1, <3>1
      <4> QED
        BY <2>4, <4>1 DEF IsAbsolute
    <3>3. IsPath(r)
      <4>1. ASSUME NEW i \in 1 .. Len(r) - 1  PROVE "/" \in {r[i], r[i + 1]}
        <5>1. i \in 1 .. Len(q) - 1 /\ i \in 1 .. Len(r) /\ i + 1 \in 1 .. Len(r)
          BY <2>1
        <5> QED
          BY <2>1, <5>1 DEF IsPath
      <4> QED
        BY <4>1 DEF IsPath
    <3>4. "/" \in {r[Len(r)], t}
      <4>1. Len(r) \in 1 .. Len(q) - 1 /\ Len(r) \in 1 .. Len(r)
        BY <2>1, <3>1
      <4> QED
        BY <2>1, <4>1 DEF IsPath
    <3>5. a \in Scanning
      BY <1>2, <3>2, <3>3
    <3>6. PICK f : Kept(a, r, f)
      BY <1>2, <3>2, <3>3
    <3> HIDE DEF a
    <3> QED
      BY <2>2, <2>4, <3>4, <3>5, <3>6, ScanOn DEF q
  <2> QED
    BY <2>3, <2>4
<1> HIDE DEF S
<1>3. Seq(Token) \subseteq S
  BY <1>1, <1>2, SeqUp
<1>4. s \in Seq(Token)
  BY DEF IsPath
<1>5. s \in S
  BY <1>3, <1>4
<1> QED
  BY <1>5 DEF S

(***************************************************************************)
(* Folders and paths, and what secureAndSplitPath makes of them.           *)
(***************************************************************************)

\* What a working folder is.
IsFolder(s) == IsPath(s) /\ s # <<>> /\ s[1] = "/" /\ s[Len(s)] = "/"

\* A tidy path is a folder, which every cwd is.
LEMMA TidyFolder ==
  ASSUME NEW f, Tidy(f)
  PROVE  IsFolder(f)
<1>1. f \in Seq(Token) /\ f # <<>> /\ f[1] = "/" /\ f[Len(f)] = "/"
  BY TidyIs DEF Tidy
<1>2. ASSUME NEW i \in 1 .. Len(f) - 1  PROVE "/" \in {f[i], f[i + 1]}
  BY DEF Tidy
<1> QED
  BY <1>1, <1>2 DEF IsFolder, IsPath

\* What chdir makes the working folder.
Chosen(v) == IF v = Root THEN Root ELSE v \o Root

LEMMA ScanNext ==
  ASSUME NEW b, NEW s \in Seq(Token), NEW t
  PROVE  Scanned(b, Append(s, t)) = Scan(Scanned(b, s), t)
<1> DEFINE X == Token \cup {t}
<1>1. s \in Seq(X) /\ t \in X
  <2>1. Token \subseteq X
    OBVIOUS
  <2> QED
    BY <2>1, SeqGrows
<1> HIDE DEF X
<1> QED
  BY <1>1, ScanFolds

\* virtual_abspath finds where a path leads.
LEMMA AbspathIs ==
  ASSUME NEW cwd, NEW path, NEW whole, whole = (IF IsAbsolute(path) THEN path ELSE cwd \o path),
         IsPath(whole), IsAbsolute(whole)
  PROVE  LET v == VirtualAbspath(cwd, path) IN
         Items(v) = Walk(<<>>, whole) /\ Tidy(Chosen(v)) /\ Walk(<<>>, Chosen(v)) = Walk(<<>>, whole)
<1> DEFINE v == VirtualAbspath(cwd, path)
           a == Scanned(Unscanned, whole)
           done == Scan(a, Nul)
           w == Walk(<<>>, whole)
<1>1. v = IF done.out = Root THEN Root ELSE RemoveTrailingSlash(done.out)
  <2>1. VirtualAbspath(cwd, path) =
          LET d == FoldLeft(Scan, [state |-> "start", out |-> <<>>, dir |-> 1], Append(whole, Nul))
          IN IF d.out = Root THEN Root ELSE RemoveTrailingSlash(d.out)
    BY Zenon DEF VirtualAbspath, Nul
  <2>2. Scanned(Unscanned, Append(whole, Nul)) =
          FoldLeft(Scan, [state |-> "start", out |-> <<>>, dir |-> 1], Append(whole, Nul))
    BY Zenon DEF Scanned, Unscanned
  <2>3. Scanned(Unscanned, Append(whole, Nul)) = done
    <3>1. \A t : Scanned(Unscanned, Append(whole, t)) = Scan(a, t)
      <4>1. whole \in Seq(Token)
        BY DEF IsPath
      <4> QED
        BY <4>1, ScanNext
    <3> QED
      BY <3>1, Zenon
  <2> QED
    BY <2>1, <2>2, <2>3, Zenon
<1>2. a \in Scanning
  BY ScanKeeps
<1>3. PICK f : Kept(a, whole, f)
  BY ScanKeeps
<1>4. (\E g : Tidy(g) /\ done.out = g /\ Walk(<<>>, g) = w)
      \/ (\E n \in Plain : \E g : Tidy(g) /\ done.out = Append(g, n)
                              /\ w = Append(Walk(<<>>, g), n))
  <2> HIDE DEF a
  <2>0. Tidy(f) /\ a.dir = Len(f)
    BY <1>3 DEF Kept
  <2>1. CASE a.state = "slash"
    <3>1. done = a
      BY <1>2, <2>1, ScanIs
    <3>2. a.out = f /\ w = Walk(<<>>, f)
      BY <1>3, <2>1 DEF Kept
    <3> QED
      BY <2>0, <3>1, <3>2
  <2>2. CASE a.state = "dot"
    <3>1. done = [state |-> "slash", out |-> SubSeq(a.out, 1, a.dir), dir |-> a.dir]
      BY <1>2, <2>2, ScanIs
    <3>2. a.out = Append(f, ".") /\ w = Walk(<<>>, f)
      BY <1>3, <2>2 DEF Kept
    <3> HIDE DEF done
    <3>3. done.out = f
      BY <2>0, <3>1, <3>2, TidyIs
    <3> QED
      BY <2>0, <3>2, <3>3
  <2>3. CASE a.state = "dotdot"
    <3>1. done = UpOnce(a)
      BY <1>2, <2>3, ScanIs
    <3>2. a.out = Append(f, "..") /\ w = Follow(Walk(<<>>, f), "..")
      BY <1>3, <2>3 DEF Kept
    <3>3. PICK g : /\ Tidy(g) /\ UpOnce(a) = [state |-> "slash", out |-> g, dir |-> Len(g)]
                   /\ Walk(<<>>, g) = Follow(Walk(<<>>, f), "..")
      BY <2>0, <3>2, TidyUp
    <3> HIDE DEF done
    <3>4. done.out = g
      BY <3>1, <3>3
    <3> QED
      BY <3>2, <3>3, <3>4
  <2>4. CASE a.state = "start"
    <3>1. done = a
      BY <1>2, <2>4, ScanIs
    <3>2. PICK n \in Plain : a.out = Append(f, n) /\ w = Append(Walk(<<>>, f), n)
      BY <1>3, <2>4 DEF Kept
    <3> QED
      BY <2>0, <3>1, <3>2
  <2> QED
    BY <1>2, <2>1, <2>2, <2>3, <2>4 DEF Scanning
<1> HIDE DEF v, done
<1>5. CASE \E g : Tidy(g) /\ done.out = g /\ Walk(<<>>, g) = w
  <2>1. PICK g : Tidy(g) /\ done.out = g /\ Walk(<<>>, g) = w
    BY <1>5
  <2>2. CASE g = Root
    <3>1. v = Root /\ Chosen(v) = Root /\ Root \in Seq(Bare)
      BY <1>1, <2>1, <2>2 DEF Chosen, Tidy
    <3>2. Items(v) = w
      BY <2>1, <2>2, <3>1, ItemsAreWalked
    <3> QED
      BY <2>1, <2>2, <3>1, <3>2 DEF v
  <2>3. CASE g # Root
    <3> DEFINE u == Front(g)
    <3>0. g \in Seq(Bare) /\ Len(g) \in Nat /\ g # <<>> /\ g[1] = "/" /\ g[Len(g)] = "/"
      BY <2>1 DEF Tidy
    <3>1. Len(g) > 1
      <4>1. Len(g) = 1 => g = <<g[1]>>
        BY <3>0
      <4>2. Len(g) # 1
        BY <2>3, <3>0, <4>1 DEF Root
      <4>3. Len(g) # 0
        BY <3>0
      <4> DEFINE m == Len(g)
      <4>4. m \in Nat /\ m # 1 /\ m # 0
        BY <3>0, <4>2, <4>3
      <4> HIDE DEF m
      <4>5. m > 1
        BY <4>4
      <4> QED
        BY <4>5 DEF m
    <3>2. u \in Seq(Bare) /\ Len(u) = Len(g) - 1 /\ \A i \in 1 .. Len(g) - 1 : u[i] = g[i]
      BY <3>0, FrontIs
    <3>3. g = Append(u, "/")
      BY <3>0, <3>1, <3>2
    <3>4. u # Root
      <4> SUFFICES ASSUME u = Root PROVE FALSE
        OBVIOUS
      <4>0. Len(u) = 1
        BY DEF Root
      <4> HIDE DEF u
      <4> DEFINE m == Len(g)
      <4>1. m \in Nat /\ m - 1 = 1 /\ g[m] = "/"
        BY <3>0, <3>2, <4>0
      <4> HIDE DEF m
      <4>2. m = 2 /\ 1 \in 1 .. m - 1 /\ g[1 + 1] = "/"
        BY <4>1
      <4> QED
        BY <2>1, <3>0, <4>2 DEF Tidy, m
    <3>5. RemoveTrailingSlash(g) = u
      <4>1. Last(g) = "/" /\ g # Dot
        BY <3>0, <3>1 DEF Dot, Last
      <4> QED
        BY <3>1, <4>1 DEF RemoveTrailingSlash
    <3>6. v = u
      BY <1>1, <2>1, <2>3, <3>5
    <3>7. u \o Root = g
      BY <3>2, <3>3 DEF Root
    <3> HIDE DEF u
    <3>8. Chosen(v) = g
      BY <3>4, <3>6, <3>7 DEF Chosen
    <3>9. Items(v) = w
      <4>2. u \in Seq(Token) /\ "/" \in Token
        BY <3>2, BareTokens, Tokens
      <4>3. Walk(<<>>, g) = Follow(Walk(<<>>, u), "/")
        BY <3>3, <4>2, WalkSteps
      <4> QED
        BY <2>1, <3>2, <3>6, <4>3, FollowIs, ItemsAreWalked
    <3> QED
      BY <2>1, <3>8, <3>9 DEF v
  <2> QED
    BY <2>2, <2>3
<1>6. CASE \E n \in Plain : \E g : Tidy(g) /\ done.out = Append(g, n) /\ w = Append(Walk(<<>>, g), n)
  <2>0. PICK n \in Plain : \E g : Tidy(g) /\ done.out = Append(g, n) /\ w = Append(Walk(<<>>, g), n)
    BY <1>6
  <2>1. PICK g : Tidy(g) /\ done.out = Append(g, n) /\ w = Append(Walk(<<>>, g), n)
    BY <2>0
  <2> DEFINE u == Append(g, n)
  <2>2. g \in Seq(Bare) /\ Len(g) \in Nat /\ Len(g) > 0
    BY <2>1, TidyIs DEF Tidy
  <2>3. u \in Seq(Bare) /\ Tidy(Append(u, "/"))
    BY <2>1, TidyAdd
  <2>4. Len(u) = Len(g) + 1 /\ u[Len(u)] = n /\ n # "/"
    <3>1. n \in Bare /\ n # "/"
      BY Tokens
    <3> QED
      BY <2>2, <3>1
  <2>5. u # Root /\ u # Dot /\ Last(u) # "/"
    <3> HIDE DEF u
    <3>1. Len(u) # 1 /\ Len(Root) = 1 /\ Len(Dot) = 1
      BY <2>2, <2>4 DEF Root, Dot
    <3> QED
      BY <2>4, <3>1 DEF Last
  <2>6. v = u
    BY <1>1, <2>1, <2>5 DEF RemoveTrailingSlash
  <2>7. Chosen(v) = Append(u, "/")
    BY <2>3, <2>5, <2>6 DEF Chosen, Root
  <2>8. Walk(<<>>, u) = w
    BY <2>1, <2>2, TidyWalk
  <2> HIDE DEF u
  <2>9. Items(v) = w
    BY <2>3, <2>6, <2>8, ItemsAreWalked
  <2>10. Walk(<<>>, Append(u, "/")) = w
    BY <2>1, <2>3, <2>8, TidyWalk
  <2> QED
    BY <2>3, <2>7, <2>9, <2>10 DEF v
<1> QED
  BY <1>4, <1>5, <1>6 DEF v

\* The paths that are literals.
LEMMA RootIs ==
  /\ Root \in Seq(Token) /\ Len(Root) = 1 /\ Root[1] = "/" /\ IsFolder(Root) /\ IsPath(Root)
  /\ IsPath(Dot) /\ ~IsAbsolute(Dot) /\ IsPath(DotDot) /\ ~IsAbsolute(DotDot) /\ Dot # DotDot
  /\ Dot # Root /\ Dot # <<>>
<1>1. "/" \in Token /\ "." \in Token /\ ".." \in Token
  BY Tokens
<1>2. Root \in Seq(Token) /\ Len(Root) = 1 /\ Root[1] = "/"
  BY <1>1 DEF Root
<1>3. Dot \in Seq(Token) /\ Len(Dot) = 1 /\ Dot[1] = "."
  BY <1>1 DEF Dot
<1>4. DotDot \in Seq(Token) /\ Len(DotDot) = 1 /\ DotDot[1] = ".."
  BY <1>1 DEF DotDot
<1> QED
  BY <1>2, <1>3, <1>4 DEF IsPath, IsFolder, IsAbsolute

\* A path behind a folder.
LEMMA JoinIs ==
  ASSUME NEW cwd, IsFolder(cwd), NEW p, IsPath(p)
  PROVE  IsPath(cwd \o p) /\ IsAbsolute(cwd \o p)
<1> DEFINE m == Len(cwd)
           n == Len(p)
           r == cwd \o p
<1>1. cwd \in Seq(Token) /\ p \in Seq(Token) /\ m \in Nat /\ n \in Nat /\ m > 0
  BY DEF IsFolder, IsPath
<1>2. r \in Seq(Token) /\ Len(r) = m + n /\ (\A i \in 1 .. m : r[i] = cwd[i])
      /\ \A i \in 1 .. n : r[m + i] = p[i]
  BY <1>1
<1>3. (\A i \in 1 .. m - 1 : "/" \in {cwd[i], cwd[i + 1]}) /\ cwd[m] = "/" /\ cwd[1] = "/"
      /\ \A i \in 1 .. n - 1 : "/" \in {p[i], p[i + 1]}
  BY DEF IsFolder, IsPath
<1> HIDE DEF m, n, r
<1>4. ASSUME NEW i \in 1 .. m + n - 1  PROVE "/" \in {r[i], r[i + 1]}
  <2>1. CASE i < m
    <3>1. i \in 1 .. m - 1 /\ i \in 1 .. m /\ i + 1 \in 1 .. m
      BY <1>1, <2>1
    <3> QED
      BY <1>2, <1>3, <3>1
  <2>2. CASE i = m
    <3>1. m \in 1 .. m
      BY <1>1
    <3> QED
      BY <1>2, <1>3, <2>2, <3>1
  <2>3. CASE i > m
    <3> DEFINE j == i - m
    <3>1. j \in 1 .. n - 1 /\ j \in 1 .. n /\ j + 1 \in 1 .. n /\ i = m + j /\ i + 1 = m + (j + 1)
      BY <1>1, <2>3
    <3> HIDE DEF j
    <3>2. r[i] = p[j] /\ r[i + 1] = p[j + 1]
      BY <1>2, <3>1
    <3> QED
      BY <1>3, <3>1, <3>2
  <2> QED
    BY <1>1, <2>1, <2>2, <2>3
<1>5. r # <<>> /\ r[1] = "/"
  <2>1. 1 \in 1 .. m /\ Len(r) # 0
    BY <1>1, <1>2
  <2> QED
    BY <1>2, <1>3, <2>1
<1>6. IsPath(r) /\ IsAbsolute(r)
  <2>1. Len(r) - 1 = m + n - 1
    BY <1>1, <1>2
  <2>2. \A i \in 1 .. Len(r) - 1 : "/" \in {r[i], r[i + 1]}
    BY <1>4, <2>1, Zenon
  <2> QED
    BY <1>2, <1>5, <2>2, Zenon DEF IsPath, IsAbsolute
<1> QED
  BY <1>6 DEF r

\* What a client means by a path is where it leads.
LEMMA MeantIs ==
  ASSUME NEW h, NEW p
  PROVE  Meant(h, p) = Walk(IF IsAbsolute(p) THEN <<>> ELSE h, p)
BY Zenon DEF Meant, Walk

\* What virtual_abspath and to_real_path make of a path in a folder.
LEMMA RealPathIs ==
  ASSUME NEW cwd, IsFolder(cwd), NEW p, IsPath(p)
  PROVE  LET v == VirtualAbspath(cwd, p)
             w == Meant(Walk(<<>>, cwd), p)
         IN Items(v) = w /\ ToRealPath(cwd, p) = Translated(w)
            /\ IsFolder(Chosen(v)) /\ Walk(<<>>, Chosen(v)) = w
<1> DEFINE v == VirtualAbspath(cwd, p)
           w == Meant(Walk(<<>>, cwd), p)
           whole == IF IsAbsolute(p) THEN p ELSE cwd \o p
<1>1. IsPath(whole) /\ IsAbsolute(whole)
  BY JoinIs
<1>2. Walk(<<>>, whole) = w
  <2>1. cwd \in Seq(Token) /\ p \in Seq(Token)
    BY DEF IsFolder, IsPath
  <2>2. Walk(<<>>, cwd \o p) = Walk(Walk(<<>>, cwd), p)
    BY <2>1, WalkOn
  <2> QED
    BY <2>2, MeantIs
<1> HIDE DEF whole
<1>3. Items(v) = Walk(<<>>, whole) /\ Tidy(Chosen(v)) /\ Walk(<<>>, Chosen(v)) = Walk(<<>>, whole)
  BY <1>1, AbspathIs DEF whole
<1>4. IsFolder(Chosen(v))
  BY <1>3, TidyFolder
<1>5. ToRealPath(cwd, p) = Translated(Items(v))
  BY Zenon DEF ToRealPath, Translated
<1> QED
  BY <1>2, <1>3, <1>4, <1>5

\* A folder that handlers put a slash behind, and where it is.
Leads(folder, w) == IsFolder(folder \o Root) /\ Walk(<<>>, folder \o Root) = w

\* The working folder the handlers leave leads where their folder does.
LEMMA SettledIs ==
  ASSUME NEW folder, NEW w, Leads(folder, w)
  PROVE  IsFolder(Settled(folder)) /\ Walk(<<>>, Settled(folder)) = w
<1>1. CASE folder = Root
  <2>1. Walk(<<>>, Root \o Root) = Walk(Walk(<<>>, Root), Root)
    BY RootIs, WalkOn
  <2>2. \A h : Walk(h, Root) = h
    <3> TAKE h
    <3>1. <<>> \in Seq(Token) /\ "/" \in Token /\ Root = Append(<<>>, "/")
      <4>1. Root = Append(<<>>, "/") /\ <<>> \in Seq(Token)
        BY DEF Root
      <4> QED
        BY <4>1, Tokens
    <3>2. Walk(h, Root) = Follow(Walk(h, <<>>), "/") /\ Walk(h, <<>>) = h
      BY <3>1, WalkSteps
    <3> QED
      BY <3>2, FollowIs
  <2>3. Settled(folder) = Root
    BY <1>1 DEF Settled
  <2> QED
    BY <1>1, <2>1, <2>2, <2>3, RootIs DEF Leads
<1>2. CASE folder # Root
  BY <1>2 DEF Settled, Leads
<1> QED
  BY <1>1, <1>2

\* A path cut at its last slash.
LEMMA CutIs ==
  ASSUME NEW s, IsPath(s), IsAbsolute(s), s # Root
  PROVE  LET b == Before(s)
             n == LastItemOfPath(s)
         IN /\ b \in Seq(Token) /\ IsPath(n) /\ ~IsAbsolute(n)
            /\ Leads(b, Walk(<<>>, b \o Root)) /\ Walk(Walk(<<>>, b \o Root), n) = Walk(<<>>, s)
<1> DEFINE k == LastSlash(s)
           l == Len(s)
           b == SubSeq(s, 1, k - 1)
           n == SubSeq(s, k + 1, l)
           d == b \o Root
<1>1. s \in Seq(Token) /\ l \in Nat /\ s # <<>> /\ s[1] = "/" /\ l >= 1
      /\ \A i \in 1 .. l - 1 : "/" \in {s[i], s[i + 1]}
  BY DEF IsPath, IsAbsolute
<1>2. k \in 1 .. l /\ s[k] = "/" /\ \A i \in 1 .. l : s[i] = "/" => i <= k
  <2>1. k \in 0 .. l /\ (k > 0 => s[k] = "/") /\ \A i \in 1 .. l : s[i] = "/" => i <= k
    BY <1>1, SlashIs
  <2>2. 1 \in 1 .. l
    BY <1>1
  <2>3. 1 <= k
    BY <1>1, <2>1, <2>2
  <2> HIDE DEF k, l
  <2> QED
    BY <1>1, <2>1, <2>3
<1>3. Before(s) = b /\ LastItemOfPath(s) = n
  BY <1>1 DEF Before, LastItemOfPath
<1> HIDE DEF k
<1>4. b \in Seq(Token) /\ Len(b) = k - 1 /\ \A i \in 1 .. k - 1 : b[i] = s[i]
  <2>1. k - 1 \in Nat /\ k - 1 <= Len(s)
    BY <1>1, <1>2
  <2> QED
    BY <1>1, <2>1, PrefixIs
<1>5. n \in Seq(Token) /\ Len(n) = l - k /\ \A i \in 1 .. l - k : n[i] = s[k + i]
  BY <1>1, <1>2
<1>6. d \in Seq(Token) /\ Len(d) = k /\ d[k] = "/" /\ \A i \in 1 .. k : d[i] = s[i]
  <2> HIDE DEF b, l
  <2>1. d \in Seq(Token) /\ Len(d) = (k - 1) + 1 /\ d[(k - 1) + 1] = "/"
        /\ \A i \in 1 .. k - 1 : d[i] = b[i]
    BY <1>4, RootIs DEF Root
  <2>2. (k - 1) + 1 = k
    BY <1>1, <1>2
  <2> HIDE DEF d
  <2>3. ASSUME NEW i \in 1 .. k PROVE d[i] = s[i]
    <3>1. i \in 1 .. k - 1 \/ i = k
      BY <1>1, <1>2
    <3> QED
      BY <1>2, <1>4, <2>1, <2>2, <3>1
  <2> QED
    BY <2>1, <2>2, <2>3
<1>7. s = d \o n
  <2> HIDE DEF b, d, n, l
  <2>1. d \o n \in Seq(Token) /\ Len(d \o n) = k + (l - k)
        /\ (\A i \in 1 .. k : (d \o n)[i] = d[i])
        /\ \A i \in 1 .. l - k : (d \o n)[k + i] = n[i]
    <3>1. \A x, y \in Seq(Token) :
            /\ x \o y \in Seq(Token) /\ Len(x \o y) = Len(x) + Len(y)
            /\ \A i \in 1 .. Len(x) : (x \o y)[i] = x[i]
            /\ \A i \in 1 .. Len(y) : (x \o y)[Len(x) + i] = y[i]
      OBVIOUS
    <3>2. /\ d \o n \in Seq(Token) /\ Len(d \o n) = Len(d) + Len(n)
          /\ \A i \in 1 .. Len(d) : (d \o n)[i] = d[i]
          /\ \A i \in 1 .. Len(n) : (d \o n)[Len(d) + i] = n[i]
      BY <1>5, <1>6, <3>1, Zenon
    <3> QED
      BY <1>5, <1>6, <3>2, Zenon
  <2> DEFINE r == d \o n
  <2>2. r \in Seq(Token) /\ Len(r) = l /\ Len(s) = l
    BY <1>1, <1>2, <2>1 DEF l
  <2>3. ASSUME NEW i \in 1 .. l  PROVE r[i] = s[i]
    <3>1. CASE i <= k
      <4>1. i \in 1 .. k
        BY <3>1
      <4> QED
        BY <1>6, <2>1, <4>1
    <3>2. CASE i > k
      <4>1. i - k \in 1 .. l - k /\ i = k + (i - k)
        BY <1>1, <1>2, <3>2
      <4> QED
        <5> DEFINE j == i - k
        <5>1. j \in 1 .. l - k /\ i = k + j
          BY <4>1
        <5> HIDE DEF j, r
        <5>2. r[k + j] = n[j] /\ n[j] = s[k + j]
          BY <1>5, <2>1, <5>1 DEF r
        <5> QED
          BY <5>1, <5>2
    <3>3. i <= k \/ i > k
      BY <1>2
    <3> QED
      BY <3>1, <3>2, <3>3
  <2> HIDE DEF r
  <2>4. r = s
    BY <1>1, <2>2, <2>3
  <2> QED
    BY <2>4 DEF r
<1>8. IsFolder(d)
  <2> HIDE DEF b, d, l
  <2>1. ASSUME NEW i \in 1 .. Len(d) - 1  PROVE "/" \in {d[i], d[i + 1]}
    <3>1. i \in 1 .. k /\ i + 1 \in 1 .. k /\ i \in 1 .. l - 1
      BY <1>1, <1>2, <1>6
    <3> QED
      BY <1>1, <1>6, <3>1
  <2>2. 1 \in 1 .. k /\ d # <<>>
    BY <1>1, <1>2, <1>6
  <2> QED
    BY <1>1, <1>6, <2>1, <2>2 DEF IsFolder, IsPath
<1>9. IsPath(n) /\ ~IsAbsolute(n)
  <2> HIDE DEF n, l
  <2>1. ASSUME NEW i \in 1 .. l - k  PROVE n[i] # "/"
    <3>1. k + i \in 1 .. l /\ ~(k + i <= k)
      BY <1>1, <1>2
    <3> QED
      BY <1>2, <1>5, <3>1
  <2>2. ASSUME NEW i \in 1 .. Len(n) - 1  PROVE "/" \in {n[i], n[i + 1]}
    <3>1. k + i \in 1 .. l - 1 /\ (k + i) + 1 = k + (i + 1)
          /\ i \in 1 .. l - k /\ i + 1 \in 1 .. l - k
      BY <1>1, <1>2, <1>5
    <3> QED
      BY <1>1, <1>5, <3>1
  <2>3. n # <<>> => n[1] # "/"
    <3>1. n # <<>> => 1 \in 1 .. l - k
      BY <1>1, <1>2, <1>5
    <3> QED
      BY <2>1, <3>1
  <2> QED
    BY <1>5, <2>2, <2>3 DEF IsPath, IsAbsolute
<1>10. Walk(Walk(<<>>, d), n) = Walk(<<>>, s)
  <2> HIDE DEF b, d, n
  <2> QED
    BY <1>5, <1>6, <1>7, WalkOn
<1>11. Leads(b, Walk(<<>>, d))
  BY <1>8 DEF Leads
<1> QED
  BY <1>3, <1>4, <1>9, <1>10, <1>11

LEMMA FolderTyped ==
  ASSUME NEW cwd, IsFolder(cwd)
  PROVE  IsPath(cwd) /\ cwd \in Seq(Token) /\ IsAbsolute(cwd) /\ Len(cwd) \in Nat /\ Len(cwd) > 0
         /\ cwd # <<>> /\ cwd # Dot
<1>1. cwd \in Seq(Token) /\ cwd # <<>> /\ cwd[1] = "/"
  BY DEF IsFolder, IsPath
<1>2. cwd # Dot
  BY <1>1 DEF Dot
<1> QED
  BY <1>1, <1>2 DEF IsFolder, IsAbsolute

\* A folder with one more slash behind it.
LEMMA DeeperIs ==
  ASSUME NEW cwd, IsFolder(cwd)
  PROVE  Leads(cwd, Walk(<<>>, cwd))
<1> DEFINE r == cwd \o Root
           l == Len(cwd)
<1>1. cwd \in Seq(Token) /\ l \in Nat /\ l > 0
  BY FolderTyped
<1>2. IsPath(r) /\ IsAbsolute(r)
  BY RootIs, JoinIs
<1>3. r = Append(cwd, "/")
  BY <1>1 DEF Root
<1>4. r[Len(r)] = "/"
  <2>1. "/" \in Token
    BY Tokens
  <2> QED
    BY <1>1, <1>3, <2>1
<1>5. IsFolder(r)
  BY <1>2, <1>4 DEF IsFolder, IsAbsolute
<1>6. Walk(<<>>, r) = Follow(Walk(<<>>, cwd), "/")
  <2>1. "/" \in Token
    BY Tokens
  <2> QED
    BY <1>1, <1>3, <2>1, WalkSteps
<1> QED
  BY <1>5, <1>6, FollowIs DEF Leads

\* A folder without the slash at its end.
LEMMA BareIs ==
  ASSUME NEW cwd, IsFolder(cwd)
  PROVE  LET b == RemoveTrailingSlash(cwd) IN
         IsPath(b) /\ IsAbsolute(b) /\ Leads(b, Walk(<<>>, cwd))
<1> DEFINE l == Len(cwd)
           b == Front(cwd)
<1>1. cwd \in Seq(Token) /\ l \in Nat /\ l > 0 /\ cwd # <<>> /\ cwd # Dot
      /\ cwd[1] = "/" /\ cwd[l] = "/" /\ \A i \in 1 .. l - 1 : "/" \in {cwd[i], cwd[i + 1]}
  BY FolderTyped DEF IsFolder, IsPath
<1>2. CASE l = 1
  <2>1. cwd = Root
    BY <1>1, <1>2 DEF Root
  <2>2. RemoveTrailingSlash(cwd) = cwd
    BY <1>1, <1>2 DEF RemoveTrailingSlash
  <2> QED
    BY <2>1, <2>2, RootIs, DeeperIs, FolderTyped
<1>3. CASE l # 1
  <2>1. l > 1 /\ Last(cwd) = "/"
    <3>1. Last(cwd) = "/"
      BY <1>1 DEF Last
    <3> HIDE DEF l
    <3> QED
      BY <1>1, <1>3, <3>1
  <2>2. RemoveTrailingSlash(cwd) = b
    BY <1>1, <2>1 DEF RemoveTrailingSlash
  <2>3. b \in Seq(Token) /\ Len(b) = l - 1 /\ \A i \in 1 .. l - 1 : b[i] = cwd[i]
    BY <1>1, FrontIs
  <2> HIDE DEF b
  <2>4. b \o Root = cwd
    <3>1. b \o Root = Append(b, "/")
      BY <2>3 DEF Root
    <3>2. cwd = Append(b, "/")
      BY <1>1, <2>1, <2>3
    <3> QED
      BY <3>1, <3>2
  <2>5. IsPath(b)
    <3> HIDE DEF l
    <3>1. ASSUME NEW i \in 1 .. Len(b) - 1  PROVE "/" \in {b[i], b[i + 1]}
      <4>1. i \in 1 .. l - 1 /\ i + 1 \in 1 .. l - 1
        BY <1>1, <2>3
      <4> QED
        BY <1>1, <2>3, <4>1
    <3> QED
      BY <2>3, <3>1 DEF IsPath
  <2>6. IsAbsolute(b)
    <3> HIDE DEF l
    <3>1. 1 \in 1 .. l - 1 /\ b # <<>>
      BY <1>1, <2>1, <2>3
    <3> QED
      BY <1>1, <2>3, <3>1 DEF IsAbsolute
  <2> QED
    BY <2>2, <2>4, <2>5, <2>6 DEF Leads
<1> QED
  BY <1>2, <1>3

\* The cases of secureAndSplitPath.
LEMMA SplitCases ==
  ASSUME NEW cwd, NEW path, IsPath(path)
  PROVE  LET bare == RemoveTrailingSlash(cwd)
             r == SecureAndSplitPath(cwd, path)
         IN
         \/ /\ path = Root \/ (path = Dot /\ cwd = Root)
            /\ r = [folder |-> Root, fileName |-> Dot]
         \/ r.folder = Null
         \/ /\ path = <<>> \/ InCwd(cwd, path)
            /\ bare # Root /\ r = [folder |-> Before(bare), fileName |-> LastItemOfPath(bare)]
         \/ /\ IsAbsolute(path) /\ path # Root
            /\ r = [folder |-> Before(path), fileName |-> LastItemOfPath(path)]
         \/ ~IsAbsolute(path) /\ r = [folder |-> bare, fileName |-> path]
         \/ ~IsAbsolute(path) /\ r = [folder |-> cwd, fileName |-> path]
<1> DEFINE bare == RemoveTrailingSlash(cwd)
           r == SecureAndSplitPath(cwd, path)
           ofCwd == IF bare = Root THEN [folder |-> Null, fileName |-> Null]
                    ELSE [folder |-> Before(bare), fileName |-> LastItemOfPath(bare)]
<1>0. /\ Root # Dot /\ Root # <<>> /\ Dot # <<>> /\ ~Longer(Root) /\ ~Longer(Dot) /\ ~Longer(<<>>)
      /\ IsAbsolute(Root) /\ ~IsAbsolute(Dot) /\ ~IsAbsolute(<<>>)
      /\ (InCwd(cwd, path) => Longer(path) /\ ~IsAbsolute(path))
  BY DEF Root, Dot, Longer, IsAbsolute, InCwd
<1>1. CASE path = Root \/ (path = Dot /\ cwd = Root)
  <2>1. r = [folder |-> Root, fileName |-> Dot]
    BY <1>0, <1>1, Zenon DEF SecureAndSplitPath
  <2> QED
    BY <1>1, <2>1
<1>2. CASE path = Dot /\ cwd # Root
  <2>1. r = [folder |-> Null, fileName |-> Null]
    BY <1>0, <1>2, Zenon DEF SecureAndSplitPath
  <2> QED
    BY <2>1
<1>3. CASE path = <<>> \/ InCwd(cwd, path)
  <2>1. r = ofCwd
    BY <1>0, <1>3, Zenon DEF SecureAndSplitPath
  <2> QED
    BY <1>3, <2>1
<1>4. CASE IsAbsolute(path) /\ Longer(path)
  <2>1. r = [folder |-> Before(path), fileName |-> LastItemOfPath(path)]
    BY <1>0, <1>4, Zenon DEF SecureAndSplitPath
  <2> QED
    BY <1>0, <1>4, <2>1
<1>5. CASE Longer(path) /\ ~IsAbsolute(path) /\ ~InCwd(cwd, path)
  <2>1. r = [folder |-> bare, fileName |-> path]
    BY <1>0, <1>5, Zenon DEF SecureAndSplitPath
  <2> QED
    BY <1>5, <2>1
<1>6. CASE path # Dot /\ path # Root /\ path # <<>> /\ ~Longer(path)
  <2>1. r = [folder |-> cwd, fileName |-> path]
    BY <1>0, <1>6, Zenon DEF SecureAndSplitPath
  <2>2. ~IsAbsolute(path)
    <3>1. path \in Seq(Token) /\ Len(path) \in Nat
      BY DEF IsPath
    <3>2. Len(path) = 1
      <4>1. Len(path) # 0
        BY <1>6, <3>1
      <4>2. ~(Len(path) > 1)
        BY <1>6, Zenon DEF Longer
      <4> DEFINE l == Len(path)
      <4>3. l \in Nat /\ l # 0 /\ ~(l > 1)
        BY <3>1, <4>1, <4>2
      <4> HIDE DEF l
      <4>4. l = 1
        BY <4>3
      <4> QED
        BY <4>4 DEF l
    <3>3. path = <<path[1]>>
      BY <3>1, <3>2
    <3> QED
      BY <1>6, <3>3, Zenon DEF IsAbsolute, Root
  <2> QED
    BY <2>1, <2>2
<1> QED
  BY <1>1, <1>2, <1>3, <1>4, <1>5, <1>6

\* What secureAndSplitPath promises its callers: the folder they copy is one
\* that paths can be put behind, folder and name together are the path when it
\* is absolute, and a plain relative path is left as it is, in the same folder.
LEMMA SplitIs ==
  ASSUME NEW cwd, IsFolder(cwd), NEW path, IsPath(path),
         SecureAndSplitPath(cwd, path).folder # Null
  PROVE  LET r == SecureAndSplitPath(cwd, path)
             here == Walk(<<>>, Settled(r.folder))
         IN /\ r.folder \in Seq(Token) /\ IsFolder(Settled(r.folder))
            /\ IsFolder(r.folder \o Root) /\ Walk(<<>>, r.folder \o Root) = here
            /\ IsPath(r.fileName) /\ ~IsAbsolute(r.fileName)
            /\ IsAbsolute(path) => Walk(here, r.fileName) = Walk(<<>>, path)
            /\ path # <<>> /\ ~IsAbsolute(path) /\ ~InCwd(cwd, path)
                 => r.fileName = path /\ here = Walk(<<>>, cwd)
<1> DEFINE r == SecureAndSplitPath(cwd, path)
           here == Walk(<<>>, Settled(r.folder))
           bare == RemoveTrailingSlash(cwd)
<1>0. IsPath(bare) /\ IsAbsolute(bare) /\ Leads(bare, Walk(<<>>, cwd)) /\ bare \in Seq(Token)
      /\ cwd \in Seq(Token) /\ Leads(cwd, Walk(<<>>, cwd))
  BY BareIs, DeeperIs, FolderTyped DEF IsPath
<1> HIDE DEF r, bare
<1>1. ASSUME NEW folder, NEW fileName, NEW w, r = [folder |-> folder, fileName |-> fileName],
             folder \in Seq(Token), Leads(folder, w), IsPath(fileName), ~IsAbsolute(fileName)
      PROVE  /\ r.folder = folder /\ r.fileName = fileName /\ here = w
             /\ r.folder \in Seq(Token) /\ IsFolder(Settled(r.folder))
             /\ IsFolder(r.folder \o Root) /\ Walk(<<>>, r.folder \o Root) = here
             /\ IsPath(r.fileName) /\ ~IsAbsolute(r.fileName)
  <2>1. r.folder = folder /\ r.fileName = fileName
    BY <1>1
  <2>2. IsFolder(Settled(folder)) /\ Walk(<<>>, Settled(folder)) = w
    BY <1>1, SettledIs
  <2> QED
    BY <1>1, <2>1, <2>2 DEF Leads
<1>2. CASE /\ path = Root \/ (path = Dot /\ cwd = Root)
           /\ r = [folder |-> Root, fileName |-> Dot]
  <2>1. Leads(Root, Walk(<<>>, Root)) /\ Root \in Seq(Token) /\ IsPath(Dot) /\ ~IsAbsolute(Dot)
    BY RootIs, DeeperIs
  <2>2. Walk(Walk(<<>>, Root), Dot) = Walk(<<>>, Root)
    <3>1. <<>> \in Seq(Token) /\ "." \in Token /\ Dot = Append(<<>>, ".")
      <4>1. Dot = Append(<<>>, ".") /\ <<>> \in Seq(Token)
        BY DEF Dot
      <4> QED
        BY <4>1, Tokens
    <3>2. \A h : Walk(h, Dot) = Follow(Walk(h, <<>>), ".") /\ Walk(h, <<>>) = h
      BY <3>1, WalkSteps
    <3> QED
      BY <3>2, FollowIs
  <2> DEFINE w == Walk(<<>>, Root)
  <2>3. Leads(Root, w)
    BY <2>1
  <2>4. IsAbsolute(path) => path = Root
    BY <1>2, RootIs
  <2>5. path = Root => IsAbsolute(path)
    BY DEF IsAbsolute, Root
  <2> HIDE DEF w
  <2>6. /\ r.folder = Root /\ r.fileName = Dot /\ here = w
        /\ r.folder \in Seq(Token) /\ IsFolder(Settled(r.folder))
        /\ IsFolder(r.folder \o Root) /\ Walk(<<>>, r.folder \o Root) = here
        /\ IsPath(r.fileName) /\ ~IsAbsolute(r.fileName)
    BY <1>1, <1>2, <2>1, <2>3
  <2>7. IsAbsolute(path) => Walk(here, r.fileName) = Walk(<<>>, path)
    BY <2>2, <2>4, <2>6 DEF w
  <2>8. ~IsAbsolute(path) => r.fileName = path /\ here = Walk(<<>>, cwd)
    BY <1>2, <2>5, <2>6 DEF w
  <2> HIDE DEF here
  <2> QED
    BY <2>6, <2>7, <2>8 DEF r, here
<1>3. CASE /\ path = <<>> \/ InCwd(cwd, path)
           /\ bare # Root /\ r = [folder |-> Before(bare), fileName |-> LastItemOfPath(bare)]
  <2> DEFINE b == Before(bare)
             n == LastItemOfPath(bare)
             w == Walk(<<>>, b \o Root)
  <2>1. b \in Seq(Token) /\ IsPath(n) /\ ~IsAbsolute(n) /\ Leads(b, w)
    BY <1>0, <1>3, CutIs
  <2> HIDE DEF w, b, n
  <2>2. r = [folder |-> b, fileName |-> n]
    BY <1>3 DEF b, n
  <2>3. /\ r.folder \in Seq(Token) /\ IsFolder(Settled(r.folder))
        /\ IsFolder(r.folder \o Root) /\ Walk(<<>>, r.folder \o Root) = here
        /\ IsPath(r.fileName) /\ ~IsAbsolute(r.fileName)
    BY <1>1, <2>1, <2>2
  <2>4. ~IsAbsolute(path)
    BY <1>3 DEF InCwd, IsAbsolute
  <2> HIDE DEF here
  <2> QED
    BY <1>3, <2>3, <2>4 DEF r, here
<1>4. CASE /\ IsAbsolute(path) /\ path # Root
           /\ r = [folder |-> Before(path), fileName |-> LastItemOfPath(path)]
  <2> DEFINE b == Before(path)
             n == LastItemOfPath(path)
             w == Walk(<<>>, b \o Root)
  <2>1. b \in Seq(Token) /\ IsPath(n) /\ ~IsAbsolute(n) /\ Leads(b, w) /\ Walk(w, n) = Walk(<<>>, path)
    BY <1>4, CutIs
  <2> HIDE DEF w, b, n
  <2>2. r = [folder |-> b, fileName |-> n]
    BY <1>4 DEF b, n
  <2>3. /\ r.folder = b /\ r.fileName = n /\ here = w
        /\ r.folder \in Seq(Token) /\ IsFolder(Settled(r.folder))
        /\ IsFolder(r.folder \o Root) /\ Walk(<<>>, r.folder \o Root) = here
        /\ IsPath(r.fileName) /\ ~IsAbsolute(r.fileName)
    BY <1>1, <2>1, <2>2
  <2> HIDE DEF here
  <2> QED
    BY <1>4, <2>1, <2>3 DEF r, here
<1>5. CASE \/ ~IsAbsolute(path) /\ r = [folder |-> bare, fileName |-> path]
           \/ ~IsAbsolute(path) /\ r = [folder |-> cwd, fileName |-> path]
  <2> DEFINE w == Walk(<<>>, cwd)
  <2>1. Leads(bare, w) /\ Leads(cwd, w)
    BY <1>0
  <2> HIDE DEF w
  <2>2. /\ r.fileName = path /\ here = w
        /\ r.folder \in Seq(Token) /\ IsFolder(Settled(r.folder))
        /\ IsFolder(r.folder \o Root) /\ Walk(<<>>, r.folder \o Root) = here
        /\ IsPath(r.fileName) /\ ~IsAbsolute(r.fileName)
    BY <1>0, <1>1, <1>5, <2>1
  <2> HIDE DEF here
  <2> QED
    BY <1>5, <2>2 DEF r, here, w
<1>6. r.folder # Null
  BY DEF r
<1>7. \/ /\ path = Root \/ (path = Dot /\ cwd = Root)
         /\ r = [folder |-> Root, fileName |-> Dot]
      \/ r.folder = Null
      \/ /\ path = <<>> \/ InCwd(cwd, path)
         /\ bare # Root /\ r = [folder |-> Before(bare), fileName |-> LastItemOfPath(bare)]
      \/ /\ IsAbsolute(path) /\ path # Root
         /\ r = [folder |-> Before(path), fileName |-> LastItemOfPath(path)]
      \/ ~IsAbsolute(path) /\ r = [folder |-> bare, fileName |-> path]
      \/ ~IsAbsolute(path) /\ r = [folder |-> cwd, fileName |-> path]
  BY SplitCases DEF r, bare
<1> HIDE DEF here
<1> QED
  BY <1>2, <1>3, <1>4, <1>5, <1>6, <1>7

(***************************************************************************)
(* Logins.                                                                 *)
(***************************************************************************)

\* What a slot of connections[] keeps, with any folder, name and marker.
Slot(A, B, M) ==
  [open : BOOLEAN, authenticated : BOOLEAN, cwd : A, pending : B, marker : M]

Shape(s) ==
  s \in [Session -> Slot({s[c].cwd : c \in Session},
                         {s[c].pending : c \in Session},
                         {s[c].marker : c \in Session})]

\* Every slot keeps its five fields, and who is logged in has proved it.
LoginInv == Shape(session) /\ OnlyProven

LEMMA ShapeOf ==
  ASSUME NEW A, NEW B, NEW M, NEW s \in [Session -> Slot(A, B, M)]
  PROVE  Shape(s)
<1>1. ASSUME NEW c \in Session
      PROVE  s[c] \in Slot({s[d].cwd : d \in Session}, {s[d].pending : d \in Session},
                           {s[d].marker : d \in Session})
  <2>1. s[c] \in Slot(A, B, M)
    OBVIOUS
  <2> QED
    BY <2>1 DEF Slot
<1> QED
  BY <1>1 DEF Shape

\* One session gets a folder, a pending rename and a marker.
Gets(s, c, x, y, z) ==
  /\ Shape(s) /\ \A d \in Session \ {c} : s[d] = session[d]
  /\ s[c].open = session[c].open /\ s[c].authenticated = session[c].authenticated
  /\ s[c].cwd = x /\ s[c].pending = y /\ s[c].marker = z

LEMMA FieldsOf ==
  ASSUME Shape(session), NEW c \in Session, NEW x, NEW y, NEW z, NEW s
  PROVE  LET e == session[c] IN
         /\ s = [session EXCEPT ![c].cwd = x] => Gets(s, c, x, e.pending, e.marker)
         /\ s = [session EXCEPT ![c].cwd = x, ![c].pending = y] => Gets(s, c, x, y, e.marker)
         /\ s = [session EXCEPT ![c].cwd = x, ![c].marker = z] => Gets(s, c, x, e.pending, z)
         /\ s = [session EXCEPT ![c].marker = z] => Gets(s, c, e.cwd, e.pending, z)
<1> DEFINE A == {session[d].cwd : d \in Session} \cup {x}
           B == {session[d].pending : d \in Session} \cup {y}
           M == {session[d].marker : d \in Session} \cup {z}
           e == session[c]
<1>1. session \in [Session -> Slot(A, B, M)] /\ x \in A /\ y \in B /\ z \in M
  BY DEF Shape, Slot
<1> HIDE DEF A, B, M
<1>2. ASSUME s \in [Session -> Slot(A, B, M)]  PROVE Shape(s)
  BY <1>2, ShapeOf
<1>3. s = [session EXCEPT ![c].cwd = x] => Gets(s, c, x, e.pending, e.marker)
  <2> SUFFICES ASSUME s = [session EXCEPT ![c].cwd = x]
               PROVE  Gets(s, c, x, e.pending, e.marker)
    OBVIOUS
  <2>1. s \in [Session -> Slot(A, B, M)]
    BY <1>1 DEF Slot
  <2> QED
    BY <1>1, <1>2, <2>1 DEF Gets, Slot
<1>4. s = [session EXCEPT ![c].cwd = x, ![c].pending = y] => Gets(s, c, x, y, e.marker)
  <2> SUFFICES ASSUME s = [session EXCEPT ![c].cwd = x, ![c].pending = y]
               PROVE  Gets(s, c, x, y, e.marker)
    OBVIOUS
  <2>1. s \in [Session -> Slot(A, B, M)]
    BY <1>1 DEF Slot
  <2> QED
    BY <1>1, <1>2, <2>1 DEF Gets, Slot
<1>5. s = [session EXCEPT ![c].cwd = x, ![c].marker = z] => Gets(s, c, x, e.pending, z)
  <2> SUFFICES ASSUME s = [session EXCEPT ![c].cwd = x, ![c].marker = z]
               PROVE  Gets(s, c, x, e.pending, z)
    OBVIOUS
  <2>1. s \in [Session -> Slot(A, B, M)]
    BY <1>1 DEF Slot
  <2> QED
    BY <1>1, <1>2, <2>1 DEF Gets, Slot
<1>6. s = [session EXCEPT ![c].marker = z] => Gets(s, c, e.cwd, e.pending, z)
  <2> SUFFICES ASSUME s = [session EXCEPT ![c].marker = z]
               PROVE  Gets(s, c, e.cwd, e.pending, z)
    OBVIOUS
  <2>1. s \in [Session -> Slot(A, B, M)]
    BY <1>1 DEF Slot
  <2> QED
    BY <1>1, <1>2, <2>1 DEF Gets, Slot
<1> QED
  BY <1>3, <1>4, <1>5, <1>6

\* What a command on a path leaves in its session: a folder, a pending rename
\* and the marker that was there or none.
LEMMA PathGets ==
  ASSUME Shape(session), NEW c \in Session, NEW p, OnPath(c, p)
  PROVE  \E x, y : \E z \in {session[c].marker, 0} : Gets(session', c, x, y, z)
<1> DEFINE e == session[c]
           x == Folder(c, p)
<1>1. CASE CWD(c, p) \/ DELE(c, p) \/ MKD(c, p) \/ SIZE(c, p)
  <2>1. PICK cwd : session' = [session EXCEPT ![c].cwd = cwd]
    BY <1>1 DEF CWD, DELE, MKD, SIZE, Moves
  <2>2. Gets(session', c, cwd, e.pending, e.marker)
    BY <2>1, FieldsOf
  <2> QED
    BY <2>2
<1>2. CASE RNFR(c, p) \/ RNTO(c, p)
  <2>1. PICK y : session' = [session EXCEPT ![c].cwd = x, ![c].pending = y]
    BY <1>2 DEF RNFR, RNTO
  <2>2. Gets(session', c, x, y, e.marker)
    BY <2>1, FieldsOf
  <2> QED
    BY <2>2
<1>3. CASE LIST(c, p) \/ Fails(c, p) \/ StoreFails(c, p)
  <2>1. session' = session
    BY <1>3 DEF LIST, Fails, StoreFails
  <2>2. Gets(session', c, e.cwd, e.pending, e.marker)
    BY <2>1 DEF Gets
  <2> QED
    BY <2>2
<1>4. CASE RETR(c, p)
  <2>1. PICK seeks \in BOOLEAN :
          session' = [session EXCEPT ![c].cwd = Split(c, p).folder \o Root,
                                     ![c].marker = IF seeks THEN e.marker ELSE 0]
    BY <1>4 DEF RETR
  <2> DEFINE z == IF seeks THEN e.marker ELSE 0
             folder == Split(c, p).folder \o Root
  <2>2. z \in {e.marker, 0}
    OBVIOUS
  <2>3. session' = [session EXCEPT ![c].cwd = folder, ![c].marker = z]
    BY <2>1
  <2> HIDE DEF z, folder
  <2>4. Gets(session', c, folder, e.pending, z)
    BY <2>3, FieldsOf
  <2> QED
    BY <2>2, <2>4
<1>5. CASE STOR(c, p) \/ APPE(c, p)
  <2>1. PICK z \in {e.marker, 0} : session' = [session EXCEPT ![c].cwd = x, ![c].marker = z]
    BY <1>5 DEF STOR, APPE, Stored, Folder
  <2>2. Gets(session', c, x, e.pending, z)
    BY <2>1, FieldsOf
  <2> QED
    BY <2>2
<1> QED
  BY <1>1, <1>2, <1>3, <1>4, <1>5 DEF OnPath

\* A command that leaves the session in another folder, with another pending
\* rename or marker, leaves its login.
LEMMA GetsKeeps ==
  ASSUME LoginInv, NEW c \in Session, NEW x, NEW y, NEW z, Gets(session', c, x, y, z),
         proved' = proved
  PROVE  LoginInv'
BY DEF LoginInv, OnlyProven, Gets

LEMMA NothingChanges ==
  ASSUME LoginInv, UNCHANGED <<session, proved>>
  PROVE  LoginInv'
BY DEF LoginInv, OnlyProven

\* What resetConnection leaves in a slot.
LEMMA FreshSlot ==
  ASSUME NEW A, NEW B, NEW M, NEW s \in Slot(A, B, M), Root \in A, <<>> \in B, 0 \in M
  PROVE  /\ Fresh(s) \in Slot(A, B, M) /\ ~Fresh(s).authenticated
         /\ [Fresh(s) EXCEPT !.open = TRUE] \in Slot(A, B, M)
         /\ ~[Fresh(s) EXCEPT !.open = TRUE].authenticated
<1>1. Fresh(s) \in Slot(A, B, M) /\ ~Fresh(s).authenticated
  BY DEF Slot, Fresh
<1>2. ASSUME NEW f \in Slot(A, B, M), ~f.authenticated
      PROVE  /\ [f EXCEPT !.open = TRUE] \in Slot(A, B, M)
             /\ ~[f EXCEPT !.open = TRUE].authenticated
  BY <1>2 DEF Slot
<1> QED
  BY <1>1, <1>2

\* A slot that is given away or left has nobody's login.
LEMMA FreshKeeps ==
  ASSUME LoginInv, NEW c \in Session,
         session' = [session EXCEPT ![c] = Fresh(@)]
           \/ session' = [session EXCEPT ![c] = [Fresh(@) EXCEPT !.open = TRUE]],
         proved \subseteq proved' \cup {c}
  PROVE  LoginInv'
<1> DEFINE A == {session[d].cwd : d \in Session} \cup {Root}
           B == {session[d].pending : d \in Session} \cup {<<>>}
           M == {session[d].marker : d \in Session} \cup {0}
<1>1. session \in [Session -> Slot(A, B, M)]
  BY DEF LoginInv, Shape, Slot
<1>2. Root \in A /\ <<>> \in B /\ 0 \in M
  OBVIOUS
<1> HIDE DEF A, B, M
<1>3. PICK f \in Slot(A, B, M) : ~f.authenticated /\ session' = [session EXCEPT ![c] = f]
  <2>1. session[c] \in Slot(A, B, M)
    BY <1>1
  <2> QED
    BY <1>2, <2>1, FreshSlot
<1>4. session' \in [Session -> Slot(A, B, M)]
  BY <1>1, <1>3
<1>5. /\ ~session'[c].authenticated
      /\ \A d \in Session \ {c} : session'[d] = session[d]
  BY <1>1, <1>3
<1>6. Shape(session')
  BY <1>4, ShapeOf
<1> QED
  BY <1>5, <1>6 DEF LoginInv, OnlyProven

\* PASS logs in the session of the client that gave the password.
LEMMA PassKeeps ==
  ASSUME LoginInv, NEW c \in Session, session[c].open,
         session' = [session EXCEPT ![c].authenticated = TRUE], proved' = proved \cup {c}
  PROVE  LoginInv'
<1> DEFINE A == {session[d].cwd : d \in Session}
           B == {session[d].pending : d \in Session}
           M == {session[d].marker : d \in Session}
<1>1. session \in [Session -> Slot(A, B, M)]
  BY DEF LoginInv, Shape
<1> HIDE DEF A, B, M
<1>2. session' \in [Session -> Slot(A, B, M)]
  BY <1>1 DEF Slot
<1>3. /\ session'[c].open
      /\ \A d \in Session \ {c} : session'[d] = session[d]
  BY <1>1 DEF Slot
<1>4. Shape(session')
  BY <1>2, ShapeOf
<1> QED
  BY <1>3, <1>4 DEF LoginInv, OnlyProven

\* REIN takes the login and the folder, and keeps the slot.
LEMMA ReinKeeps ==
  ASSUME LoginInv, NEW c \in Session,
         session' = [session EXCEPT ![c].cwd = Root, ![c].authenticated = FALSE],
         proved' = proved \ {c}
  PROVE  LoginInv'
<1> DEFINE A == {session[d].cwd : d \in Session} \cup {Root}
           B == {session[d].pending : d \in Session}
           M == {session[d].marker : d \in Session}
<1>1. session \in [Session -> Slot(A, B, M)] /\ Root \in A
  BY DEF LoginInv, Shape, Slot
<1> HIDE DEF A, B, M
<1>2. session' \in [Session -> Slot(A, B, M)]
  BY <1>1 DEF Slot
<1>3. /\ ~session'[c].authenticated
      /\ \A d \in Session \ {c} : session'[d] = session[d]
  BY <1>1 DEF Slot
<1>4. Shape(session')
  BY <1>2, ShapeOf
<1> QED
  BY <1>3, <1>4 DEF LoginInv, OnlyProven

LEMMA PathStep ==
  ASSUME LoginInv, NEW c \in Session, NEW p, OnPath(c, p)
  PROVE  LoginInv'
<1>1. PICK x, y, z : Gets(session', c, x, y, z)
  BY PathGets DEF LoginInv
<1>2. proved' = proved
  BY DEF OnPath, CWD, DELE, MKD, RNFR, RNTO, SIZE, LIST, RETR, STOR, APPE, Stored, Fails,
         StoreFails, history
<1> QED
  BY <1>1, <1>2, GetsKeeps

LEMMA LoginStep == ASSUME LoginInv, [Next]_vars PROVE LoginInv'
<1>1. ASSUME NEW c \in Session, Login(c) PROVE LoginInv'
  <2>1. CASE Connect(c)
    BY <2>1, FreshKeeps DEF Connect, Begins
  <2>2. CASE Disconnect(c)
    BY <2>2, FreshKeeps DEF Disconnect, history
  <2>3. CASE REIN(c)
    BY <2>3, ReinKeeps DEF REIN, Begins
  <2>4. ASSUME NEW w \in Password, PASS(c, w) PROVE LoginInv'
    BY <2>4, PassKeeps, NothingChanges DEF PASS, Command
  <2>5. ASSUME NEW new, SITE_PASSWD(c, new) PROVE LoginInv'
    BY <2>5, NothingChanges DEF SITE_PASSWD, history
  <2> QED
    BY <1>1, <2>1, <2>2, <2>3, <2>4, <2>5 DEF Login
<1>2. ASSUME NEW c \in Session, CDUP(c) PROVE LoginInv'
  <2>1. PICK x : session' = [session EXCEPT ![c].cwd = x]
    BY <1>2 DEF CDUP, Moves
  <2>2. Gets(session', c, x, session[c].pending, session[c].marker)
    BY <2>1, FieldsOf DEF LoginInv
  <2> QED
    BY <1>2, <2>2, GetsKeeps DEF CDUP
<1>3. ASSUME NEW c \in Session, SITE_CHMOD(c) PROVE LoginInv'
  BY <1>3, NothingChanges DEF SITE_CHMOD, history
<1>4. ASSUME NEW c \in Session, NEW n \in Offset, REST(c, n) PROVE LoginInv'
  <2>1. Gets(session', c, session[c].cwd, session[c].pending, n)
    BY <1>4, FieldsOf DEF REST, LoginInv
  <2> QED
    BY <1>4, <2>1, GetsKeeps DEF REST, history
<1>5. CASE Done \/ UNCHANGED vars
  BY <1>5, NothingChanges DEF Done, vars
<1> QED
  BY <1>1, <1>2, <1>3, <1>4, <1>5, PathStep DEF Next

LEMMA InitLogin == Init => LoginInv
<1> SUFFICES ASSUME Init PROVE LoginInv
  OBVIOUS
<1>1. Blank \in Slot({Root}, {<<>>}, {0}) /\ ~Blank.authenticated
  BY DEF Blank, Slot
<1>2. session = [c \in Session |-> Blank]
  BY DEF Init
<1>3. Shape(session)
  BY <1>1, <1>2, ShapeOf
<1> QED
  BY <1>1, <1>2, <1>3 DEF LoginInv, OnlyProven

\* A session is logged in only when its own client gave the password since it
\* began: no slot that is given to another client, none that was left and no
\* REIN hands a login on (resetConnection, ftp_PASS, ftp_REIN).
THEOREM LoginsAreProven == Spec => []OnlyProven
<1>1. LoginInv => OnlyProven
  BY DEF LoginInv
<1> QED
  BY <1>1, InitLogin, LoginStep, PTL DEF Spec

(***************************************************************************)
(* Folders, and the paths the handlers build.                              *)
(***************************************************************************)

\* Where a session is, what its client was told, and what it asked to rename.
PathsOf(c) ==
  /\ IsFolder(session[c].cwd)
  /\ session[c].open /\ c \notin strayed => Walk(<<>>, session[c].cwd) = home[c]
  /\ asked[c].free /\ session[c].pending # <<>>
       => ToRealPath(asked[c].folder, session[c].pending) = Translated(asked[c].path)

\* Sessions are folders in order, and the histories have a value for each.
PathInv ==
  /\ Shape(session)
  /\ home = [c \in Session |-> home[c]] /\ asked = [c \in Session |-> asked[c]]
  /\ \A c \in Session : PathsOf(c)

\* What one command may touch.
OnlyOf(c) ==
  /\ \A d \in Session \ {c} : session'[d] = session[d] /\ home'[d] = home[d] /\ asked'[d] = asked[d]
  /\ \A d \in Session \ {c} : d \in strayed' <=> d \in strayed
  /\ Shape(session)' /\ home' = [d \in Session |-> home'[d]] /\ asked' = [d \in Session |-> asked'[d]]

\* A command of one session leaves the paths of the others.
LEMMA PathsKeep ==
  ASSUME PathInv, NEW c \in Session, OnlyOf(c), PathsOf(c)'
  PROVE  PathInv'
<1>1. ASSUME NEW d \in Session, d # c PROVE PathsOf(d)'
  <2>1. PathsOf(d)
    BY DEF PathInv
  <2>2. session'[d] = session[d] /\ home'[d] = home[d] /\ asked'[d] = asked[d]
        /\ (d \in strayed' <=> d \in strayed)
    BY <1>1 DEF OnlyOf
  <2> QED
    BY <2>1, <2>2 DEF PathsOf
<1> QED
  BY <1>1 DEF PathInv, OnlyOf

\* Every handler that copies the folder of its path leaves the session where
\* its client was told it is, unless the path strays.
LEMMA SplitHere ==
  ASSUME PathInv, NEW c \in Session, NEW p \in Arg, Split(c, p).folder # Null
  PROVE  LET here == Walk(<<>>, Folder(c, p))
             f == Split(c, p).fileName
         IN /\ IsFolder(Folder(c, p)) /\ IsFolder(Split(c, p).folder \o Root)
            /\ Walk(<<>>, Split(c, p).folder \o Root) = here
            /\ IsPath(f) /\ ~IsAbsolute(f) /\ IsPath(p)
            /\ IsAbsolute(p) => Walk(here, f) = Walk(<<>>, p)
            /\ ~Strays(c, p) => f = p /\ here = Walk(<<>>, session[c].cwd)
<1>1. IsFolder(session[c].cwd) /\ IsPath(p)
  BY SessionAssumption DEF PathInv, PathsOf
<1>2. SecureAndSplitPath(session[c].cwd, p).folder # Null
  BY DEF Split, In
<1> QED
  BY <1>1, <1>2, SplitIs DEF Split, In, Folder, Strays

LEMMA HandlerKeeps ==
  ASSUME PathInv, NEW c \in Session, NEW p \in Arg, Split(c, p).folder # Null, NEW x, NEW y, NEW z,
         Gets(session', c, x, y, z), x \in {Folder(c, p), Split(c, p).folder \o Root},
         y \in {session[c].pending, <<>>}, Stray(c, p), UNCHANGED <<home, asked>>
  PROVE  PathInv'
<1>1. PathsOf(c)
  BY DEF PathInv
<1>2. IsFolder(x) /\ Walk(<<>>, x) = Walk(<<>>, Folder(c, p))
  BY SplitHere
<1>3. /\ session'[c].open = session[c].open /\ session'[c].cwd = x /\ session'[c].pending = y
      /\ home'[c] = home[c] /\ asked'[c] = asked[c]
  BY DEF Gets
<1>4. c \notin strayed' => c \notin strayed /\ ~Strays(c, p)
  BY DEF Stray
<1>5. session'[c].open /\ c \notin strayed' => Walk(<<>>, x) = home'[c]
  BY <1>1, <1>2, <1>3, <1>4, SplitHere DEF PathsOf
<1>6. asked'[c].free /\ session'[c].pending # <<>>
        => ToRealPath(asked'[c].folder, session'[c].pending) = Translated(asked'[c].path)
  BY <1>1, <1>3 DEF PathsOf
<1>7. PathsOf(c)'
  BY <1>2, <1>3, <1>5, <1>6 DEF PathsOf
<1>8. OnlyOf(c)
  BY DEF OnlyOf, Gets, Stray, PathInv
<1> QED
  BY <1>7, <1>8, PathsKeep

\* CWD goes where the client meant, when what it names is there.
LEMMA CwdKeeps ==
  ASSUME PathInv, NEW c \in Session, NEW p \in Arg, CWD(c, p)
  PROVE  PathInv'
<1> DEFINE base == Split(c, p).fileName
           folder == Folder(c, p)
           here == Walk(<<>>, folder)
           v == VirtualAbspath(folder, base)
           found == VrtCheckdir(folder, base)
           x == VrtChdir(folder, base)
<1>1. Split(c, p).folder # Null /\ session' = [session EXCEPT ![c].cwd = x]
  BY DEF CWD, Splits, Moves
<1>2. Gets(session', c, x, session[c].pending, session[c].marker)
  BY <1>1, FieldsOf DEF PathInv
<1>3. UNCHANGED asked
  BY DEF CWD
<1>4. CASE ~found
  <2>1. x = folder
    BY <1>4, Zenon DEF VrtChdir
  <2>2. Stray(c, p) /\ UNCHANGED home
    BY <1>4, Zenon DEF CWD
  <2> HIDE DEF x
  <2> QED
    BY <1>1, <1>2, <1>3, <2>1, <2>2, HandlerKeeps
<1>5. CASE found
  <2>1. x = Chosen(v)
    BY <1>5, Zenon DEF VrtChdir, Chosen
  <2>2. home' = [home EXCEPT ![c] = Meant(home[c], p)]
        /\ strayed' = IF IsAbsolute(p) THEN strayed \ {c}
                      ELSE IF Strays(c, p) THEN strayed \cup {c} ELSE strayed
    BY <1>5, Zenon DEF CWD
  <2>3. /\ IsFolder(folder) /\ IsPath(base) /\ ~IsAbsolute(base) /\ IsPath(p)
        /\ IsAbsolute(p) => Walk(here, base) = Walk(<<>>, p)
        /\ ~Strays(c, p) => base = p /\ here = Walk(<<>>, session[c].cwd)
    BY <1>1, SplitHere
  <2> HIDE DEF base, folder
  <2>4. IsFolder(x) /\ Walk(<<>>, x) = Meant(here, base)
    BY <2>1, <2>3, RealPathIs
  <2>5. Walk(<<>>, x) = Walk(here, base)
    BY <2>3, <2>4, MeantIs
  <2> HIDE DEF x, here, v, found
  <2>6. PathsOf(c) /\ home = [d \in Session |-> home[d]] /\ asked = [d \in Session |-> asked[d]]
    BY DEF PathInv
  <2>7. home'[c] = Meant(home[c], p) /\ home' = [d \in Session |-> home'[d]]
        /\ \A d \in Session \ {c} : home'[d] = home[d]
    BY <2>2, <2>6
  <2>8. /\ session'[c].open = session[c].open /\ session'[c].cwd = x
        /\ session'[c].pending = session[c].pending /\ asked'[c] = asked[c]
    BY <1>2, <1>3 DEF Gets
  <2>9. session'[c].open /\ c \notin strayed' => Walk(<<>>, x) = home'[c]
    <3>1. CASE IsAbsolute(p)
      BY <2>3, <2>5, <2>7, <3>1, MeantIs
    <3>2. CASE ~IsAbsolute(p)
      <4> SUFFICES ASSUME session'[c].open, c \notin strayed' PROVE Walk(<<>>, x) = home'[c]
        OBVIOUS
      <4>1. ~Strays(c, p) /\ c \notin strayed
        BY <2>2, <3>2
      <4>2. here = home[c] /\ base = p
        BY <2>3, <2>6, <2>8, <4>1 DEF PathsOf
      <4> QED
        BY <2>5, <2>7, <3>2, <4>2, MeantIs
    <3> QED
      BY <3>1, <3>2
  <2>10. PathsOf(c)'
    BY <2>4, <2>6, <2>8, <2>9 DEF PathsOf
  <2>11. OnlyOf(c)
    <3>1. \A d \in Session \ {c} : d \in strayed' <=> d \in strayed
      BY <2>2
    <3>2. asked' = asked
      BY <1>3
    <3> QED
      BY <1>2, <2>6, <2>7, <3>1, <3>2 DEF OnlyOf, Gets
  <2> QED
    BY <2>10, <2>11, PathsKeep
<1> QED
  BY <1>4, <1>5

\* CDUP goes one folder up.
LEMMA CdupKeeps ==
  ASSUME PathInv, NEW c \in Session, CDUP(c)
  PROVE  PathInv'
<1> DEFINE cwd == session[c].cwd
           v == VirtualAbspath(cwd, DotDot)
           found == VrtCheckdir(cwd, DotDot)
           x == VrtChdir(cwd, DotDot)
<1>1. session' = [session EXCEPT ![c].cwd = x] /\ UNCHANGED <<asked, strayed>>
      /\ home' = IF found THEN [home EXCEPT ![c] = Meant(@, DotDot)] ELSE home
  BY DEF CDUP, Moves, In
<1>2. Gets(session', c, x, session[c].pending, session[c].marker)
  BY <1>1, FieldsOf DEF PathInv
<1>3. PathsOf(c) /\ home = [d \in Session |-> home[d]] /\ asked = [d \in Session |-> asked[d]]
  BY DEF PathInv
<1>4. IsFolder(cwd)
  BY <1>3 DEF PathsOf
<1>5. found => IsFolder(x) /\ Walk(<<>>, x) = Meant(Walk(<<>>, cwd), DotDot)
  <2>1. found => x = Chosen(v)
    BY Zenon DEF VrtChdir, Chosen
  <2> QED
    BY <1>4, <2>1, RootIs, RealPathIs
<1>6. ~found => x = cwd
  BY Zenon DEF VrtChdir
<1> HIDE DEF x, found, v
<1>7. home' = [d \in Session |-> home'[d]] /\ (\A d \in Session \ {c} : home'[d] = home[d])
      /\ home'[c] = IF found THEN Meant(home[c], DotDot) ELSE home[c]
  BY <1>1, <1>3
<1>8. PathsOf(c)'
  <2>1. /\ session'[c].open = session[c].open /\ session'[c].cwd = x
        /\ session'[c].pending = session[c].pending /\ asked'[c] = asked[c] /\ strayed' = strayed
    BY <1>1, <1>2 DEF Gets
  <2>2. IsFolder(x)
    BY <1>4, <1>5, <1>6
  <2>3. session[c].open /\ c \notin strayed => Walk(<<>>, x) = home'[c]
    BY <1>3, <1>5, <1>6, <1>7 DEF PathsOf
  <2> QED
    BY <1>3, <2>1, <2>2, <2>3 DEF PathsOf
<1>9. OnlyOf(c)
  BY <1>1, <1>2, <1>3, <1>7 DEF OnlyOf, Gets
<1> QED
  BY <1>8, <1>9, PathsKeep

\* What the handlers of a path open: what the client named.
LEMMA RealIs ==
  ASSUME PathInv, NEW c \in Session, NEW p \in Arg, Split(c, p).folder # Null, session[c].open,
         IsAbsolute(p) \/ ~(c \in strayed \/ Strays(c, p))
  PROVE  Real(c, p) = Translated(Meant(home[c], p))
<1> DEFINE folder == Folder(c, p)
           f == Split(c, p).fileName
           here == Walk(<<>>, folder)
<1>1. /\ IsFolder(folder) /\ IsPath(f) /\ ~IsAbsolute(f)
      /\ IsAbsolute(p) => Walk(here, f) = Walk(<<>>, p)
      /\ ~Strays(c, p) => f = p /\ here = Walk(<<>>, session[c].cwd)
  BY SplitHere
<1>2. Real(c, p) = ToRealPath(folder, f)
  BY DEF Real
<1>3. c \notin strayed => Walk(<<>>, session[c].cwd) = home[c]
  BY DEF PathInv, PathsOf
<1> HIDE DEF folder, f
<1>4. ToRealPath(folder, f) = Translated(Meant(here, f))
  BY <1>1, RealPathIs
<1>5. Meant(here, f) = Walk(here, f)
  BY <1>1, MeantIs
<1>6. Walk(here, f) = Meant(home[c], p)
  <2>1. CASE IsAbsolute(p)
    BY <1>1, <2>1, MeantIs
  <2>2. CASE ~IsAbsolute(p)
    BY <1>1, <1>3, <2>2, MeantIs
  <2> QED
    BY <2>1, <2>2
<1> QED
  BY <1>2, <1>4, <1>5, <1>6

\* RNFR leaves a name that is what it was asked for.
LEMMA RnfrKeeps ==
  ASSUME PathInv, NEW c \in Session, NEW p \in Arg, RNFR(c, p)
  PROVE  PathInv'
<1> DEFINE x == Folder(c, p)
           y == Split(c, p).fileName
           free == IsAbsolute(p) \/ ~(c \in strayed \/ Strays(c, p))
           a == [path |-> Meant(home[c], p), folder |-> x, free |-> free]
<1>1. /\ Split(c, p).folder # Null /\ session[c].open
      /\ session' = [session EXCEPT ![c].cwd = x, ![c].pending = y]
      /\ asked' = [asked EXCEPT ![c] = a] /\ Stray(c, p) /\ UNCHANGED home
  BY DEF RNFR, Splits, LoggedIn, Command
<1>2. Gets(session', c, x, y, session[c].marker)
  BY <1>1, FieldsOf DEF PathInv
<1>3. PathsOf(c) /\ home = [d \in Session |-> home[d]] /\ asked = [d \in Session |-> asked[d]]
  BY DEF PathInv
<1>4. IsFolder(x) /\ (~Strays(c, p) => Walk(<<>>, x) = Walk(<<>>, session[c].cwd))
  BY <1>1, SplitHere
<1>5. free => ToRealPath(x, y) = Translated(Meant(home[c], p))
  BY <1>1, RealIs DEF Real
<1>6. a.path = Meant(home[c], p) /\ a.folder = x /\ a.free = free
  OBVIOUS
<1>7. c \notin strayed' => c \notin strayed /\ ~Strays(c, p)
  BY <1>1 DEF Stray
<1> HIDE DEF a, x, y, free
<1>8. /\ session'[c].open = session[c].open /\ session'[c].cwd = x /\ session'[c].pending = y
      /\ home'[c] = home[c] /\ asked'[c] = a /\ asked' = [d \in Session |-> asked'[d]]
      /\ \A d \in Session \ {c} : asked'[d] = asked[d]
  BY <1>1, <1>2, <1>3 DEF Gets
<1>9. PathsOf(c)'
  BY <1>3, <1>4, <1>5, <1>6, <1>7, <1>8 DEF PathsOf
<1>10. OnlyOf(c)
  BY <1>1, <1>2, <1>3, <1>8 DEF OnlyOf, Gets, Stray
<1> QED
  BY <1>9, <1>10, PathsKeep

\* The commands without a path leave the session where it is.
LEMMA StillKeeps ==
  ASSUME PathInv, NEW c \in Session, NEW z,
         session' = [session EXCEPT ![c].marker = z] \/ UNCHANGED session,
         UNCHANGED <<home, asked, strayed>>
  PROVE  PathInv'
<1>1. CASE UNCHANGED session
  BY <1>1 DEF PathInv, PathsOf
<1>2. CASE session' = [session EXCEPT ![c].marker = z]
  <2>1. Gets(session', c, session[c].cwd, session[c].pending, z)
    BY <1>2, FieldsOf DEF PathInv
  <2>2. PathsOf(c)'
    BY <2>1 DEF Gets, PathInv, PathsOf
  <2>3. OnlyOf(c)
    BY <2>1 DEF OnlyOf, Gets, PathInv
  <2> QED
    BY <2>2, <2>3, PathsKeep
<1> QED
  BY <1>1, <1>2

\* A session that begins, ends or begins again, and one that logs in.
LEMMA SlotKeeps ==
  ASSUME PathInv, NEW c \in Session, NEW x, NEW y, Shape(session'),
         \A d \in Session \ {c} : session'[d] = session[d],
         session'[c].cwd = x, session'[c].pending = y,
         \/ x = session[c].cwd /\ y = session[c].pending
            /\ session'[c].open = session[c].open /\ UNCHANGED <<home, asked, strayed>>
         \/ x = Root /\ y = <<>> /\ ~session'[c].open /\ UNCHANGED <<home, asked, strayed>>
         \/ x = Root /\ y \in {session[c].pending, <<>>} /\ Begins(c)
            /\ (UNCHANGED asked \/ (y = <<>> /\ asked' = [asked EXCEPT ![c] = NotAsked]))
  PROVE  PathInv'
<1>1. PathsOf(c) /\ home = [d \in Session |-> home[d]] /\ asked = [d \in Session |-> asked[d]]
  BY DEF PathInv
<1>2. Walk(<<>>, Root) = <<>> /\ IsFolder(Root)
  <2>1. <<>> \in Seq(Token) /\ "/" \in Token /\ Root = Append(<<>>, "/")
    <3>1. Root = Append(<<>>, "/") /\ <<>> \in Seq(Token)
      BY DEF Root
    <3> QED
      BY <3>1, Tokens
  <2>2. Walk(<<>>, Root) = Follow(Walk(<<>>, <<>>), "/") /\ Walk(<<>>, <<>>) = <<>>
    BY <2>1, WalkSteps
  <2> QED
    BY <2>2, FollowIs, RootIs
<1>3. CASE \/ x = session[c].cwd /\ y = session[c].pending
              /\ session'[c].open = session[c].open /\ UNCHANGED <<home, asked, strayed>>
           \/ x = Root /\ y = <<>> /\ ~session'[c].open /\ UNCHANGED <<home, asked, strayed>>
  <2>1. PathsOf(c)'
    BY <1>1, <1>2, <1>3 DEF PathsOf
  <2>2. OnlyOf(c)
    BY <1>1, <1>3 DEF OnlyOf
  <2> QED
    BY <2>1, <2>2, PathsKeep
<1>4. CASE x = Root /\ y \in {session[c].pending, <<>>} /\ Begins(c)
           /\ (UNCHANGED asked \/ (y = <<>> /\ asked' = [asked EXCEPT ![c] = NotAsked]))
  <2>1. home' = [d \in Session |-> home'[d]] /\ home'[c] = <<>>
        /\ \A d \in Session \ {c} : home'[d] = home[d] /\ (d \in strayed' <=> d \in strayed)
    BY <1>1, <1>4 DEF Begins
  <2>2. asked' = [d \in Session |-> asked'[d]] /\ \A d \in Session \ {c} : asked'[d] = asked[d]
    BY <1>1, <1>4
  <2>3. asked'[c] = asked[c] \/ y = <<>>
    BY <1>4
  <2>4. asked'[c].free /\ y # <<>> => ToRealPath(asked'[c].folder, y) = Translated(asked'[c].path)
    BY <1>1, <1>4, <2>3 DEF PathsOf
  <2>5. PathsOf(c)'
    BY <1>2, <1>4, <2>1, <2>4 DEF PathsOf
  <2>6. OnlyOf(c)
    BY <2>1, <2>2 DEF OnlyOf
  <2> QED
    BY <2>5, <2>6, PathsKeep
<1> QED
  BY <1>3, <1>4

\* Whoever gets a slot starts in the root.
LEMMA LoginPaths ==
  ASSUME PathInv, NEW c \in Session, Login(c)
  PROVE  PathInv'
<1> DEFINE A == {session[d].cwd : d \in Session} \cup {Root}
           B == {session[d].pending : d \in Session} \cup {<<>>}
           M == {session[d].marker : d \in Session} \cup {0}
<1>1. session \in [Session -> Slot(A, B, M)]
  BY DEF PathInv, Shape, Slot
<1>2. Root \in A /\ <<>> \in B /\ 0 \in M
  OBVIOUS
<1> HIDE DEF A, B, M
<1>3. session[c] \in Slot(A, B, M)
  BY <1>1
<1>4. ASSUME session' \in [Session -> Slot(A, B, M)]  PROVE Shape(session')
  BY <1>4, ShapeOf
<1>5. /\ Fresh(session[c]) \in Slot(A, B, M) /\ [Fresh(session[c]) EXCEPT !.open = TRUE] \in Slot(A, B, M)
      /\ Fresh(session[c]).cwd = Root /\ Fresh(session[c]).pending = <<>> /\ ~Fresh(session[c]).open
      /\ [Fresh(session[c]) EXCEPT !.open = TRUE].cwd = Root
      /\ [Fresh(session[c]) EXCEPT !.open = TRUE].pending = <<>>
  <2>1. Fresh(session[c]) \in Slot(A, B, M) /\ [Fresh(session[c]) EXCEPT !.open = TRUE] \in Slot(A, B, M)
    BY <1>2, <1>3, FreshSlot
  <2>2. Fresh(session[c]).cwd = Root /\ Fresh(session[c]).pending = <<>> /\ ~Fresh(session[c]).open
    BY <1>3 DEF Fresh, Slot
  <2>3. \A f \in Slot(A, B, M) : [f EXCEPT !.open = TRUE].cwd = f.cwd
                                 /\ [f EXCEPT !.open = TRUE].pending = f.pending
    BY DEF Slot
  <2> QED
    BY <2>1, <2>2, <2>3
<1>6. CASE Connect(c)
  <2>1. session' = [session EXCEPT ![c] = [Fresh(session[c]) EXCEPT !.open = TRUE]]
        /\ Begins(c) /\ asked' = [asked EXCEPT ![c] = NotAsked]
    BY <1>6 DEF Connect
  <2>2. session' \in [Session -> Slot(A, B, M)]
    BY <1>1, <1>5, <2>1
  <2>3. session'[c].cwd = Root /\ session'[c].pending = <<>>
        /\ \A d \in Session \ {c} : session'[d] = session[d]
    BY <1>1, <1>5, <2>1
  <2> QED
    BY <1>4, <2>1, <2>2, <2>3, SlotKeeps
<1>7. CASE Disconnect(c)
  <2>1. session' = [session EXCEPT ![c] = Fresh(session[c])] /\ UNCHANGED <<home, asked, strayed>>
    BY <1>7 DEF Disconnect, history
  <2>2. session' \in [Session -> Slot(A, B, M)]
    BY <1>1, <1>5, <2>1
  <2>3. session'[c].cwd = Root /\ session'[c].pending = <<>> /\ ~session'[c].open
        /\ \A d \in Session \ {c} : session'[d] = session[d]
    BY <1>1, <1>5, <2>1
  <2> QED
    BY <1>4, <2>1, <2>2, <2>3, SlotKeeps
<1>8. CASE REIN(c)
  <2>1. session' = [session EXCEPT ![c].cwd = Root, ![c].authenticated = FALSE]
        /\ Begins(c) /\ UNCHANGED asked
    BY <1>8 DEF REIN
  <2>2. session' \in [Session -> Slot(A, B, M)]
    BY <1>1, <1>2, <2>1 DEF Slot
  <2>3. session'[c].cwd = Root /\ session'[c].pending = session[c].pending
        /\ \A d \in Session \ {c} : session'[d] = session[d]
    BY <1>1, <2>1 DEF Slot
  <2> QED
    BY <1>4, <2>1, <2>2, <2>3, SlotKeeps
<1>9. ASSUME NEW w \in Password, PASS(c, w)  PROVE PathInv'
  <2>1. UNCHANGED <<home, asked, strayed>>
        /\ (session' = [session EXCEPT ![c].authenticated = TRUE] \/ UNCHANGED session)
    BY <1>9 DEF PASS
  <2>2. CASE UNCHANGED session
    BY <2>1, <2>2, StillKeeps
  <2>3. CASE session' = [session EXCEPT ![c].authenticated = TRUE]
    <3>1. session' \in [Session -> Slot(A, B, M)]
      BY <1>1, <2>3 DEF Slot
    <3>2. session'[c].cwd = session[c].cwd /\ session'[c].pending = session[c].pending
          /\ session'[c].open = session[c].open
          /\ \A d \in Session \ {c} : session'[d] = session[d]
      BY <1>1, <2>3 DEF Slot
    <3> QED
      BY <1>4, <2>1, <3>1, <3>2, SlotKeeps
  <2> QED
    BY <2>1, <2>2, <2>3
<1>10. ASSUME NEW new, SITE_PASSWD(c, new)  PROVE PathInv'
  BY <1>10, StillKeeps DEF SITE_PASSWD, history
<1> QED
  BY <1>6, <1>7, <1>8, <1>9, <1>10 DEF Login

\* The handlers of a path, one by one.
LEMMA PathKeeps ==
  ASSUME PathInv, NEW c \in Session, NEW p \in Arg, OnPath(c, p)
  PROVE  PathInv'
<1> DEFINE e == session[c]
           x == Folder(c, p)
<1>1. CASE CWD(c, p)
  BY <1>1, CwdKeeps
<1>2. CASE DELE(c, p) \/ MKD(c, p) \/ SIZE(c, p)
  <2>1. Split(c, p).folder # Null /\ session' = [session EXCEPT ![c].cwd = x]
        /\ Stray(c, p) /\ UNCHANGED <<home, asked>>
    BY <1>2 DEF DELE, MKD, SIZE, Moves, Splits
  <2>2. Gets(session', c, x, e.pending, e.marker)
    BY <2>1, FieldsOf DEF PathInv
  <2> QED
    BY <2>1, <2>2, HandlerKeeps
<1>3. CASE RNFR(c, p)
  BY <1>3, RnfrKeeps
<1>4. CASE RNTO(c, p)
  <2>1. Split(c, p).folder # Null /\ session' = [session EXCEPT ![c].cwd = x, ![c].pending = <<>>]
        /\ Stray(c, p) /\ UNCHANGED <<home, asked>>
    BY <1>4 DEF RNTO, Splits
  <2>2. Gets(session', c, x, <<>>, e.marker)
    BY <2>1, FieldsOf DEF PathInv
  <2> QED
    BY <2>1, <2>2, HandlerKeeps
<1>5. CASE LIST(c, p) \/ Fails(c, p) \/ StoreFails(c, p)
  BY <1>5, StillKeeps DEF LIST, Fails, StoreFails, history
<1>6. CASE RETR(c, p)
  <2>1. PICK seeks \in BOOLEAN :
          session' = [session EXCEPT ![c].cwd = Split(c, p).folder \o Root,
                                     ![c].marker = IF seeks THEN e.marker ELSE 0]
    BY <1>6 DEF RETR
  <2> DEFINE z == IF seeks THEN e.marker ELSE 0
             folder == Split(c, p).folder \o Root
  <2>2. Split(c, p).folder # Null /\ Stray(c, p) /\ UNCHANGED <<home, asked>>
    BY <1>6 DEF RETR, Splits
  <2>3. Gets(session', c, folder, e.pending, z)
    <3> HIDE DEF z, folder
    <3>1. session' = [session EXCEPT ![c].cwd = folder, ![c].marker = z]
      BY <2>1 DEF z, folder
    <3> QED
      BY <3>1, FieldsOf DEF PathInv
  <2> QED
    BY <2>2, <2>3, HandlerKeeps
<1>7. CASE STOR(c, p) \/ APPE(c, p)
  <2>1. PICK z : session' = [session EXCEPT ![c].cwd = x, ![c].marker = z]
    BY <1>7 DEF STOR, APPE, Stored, Folder
  <2>2. Split(c, p).folder # Null /\ Stray(c, p) /\ UNCHANGED <<home, asked>>
    BY <1>7 DEF STOR, APPE, Stored, Splits
  <2>3. Gets(session', c, x, e.pending, z)
    BY <2>1, FieldsOf DEF PathInv
  <2> QED
    BY <2>2, <2>3, HandlerKeeps
<1> QED
  BY <1>1, <1>2, <1>3, <1>4, <1>5, <1>6, <1>7 DEF OnPath

LEMMA PathStepKeeps == ASSUME PathInv, [Next]_vars PROVE PathInv'
<1>1. ASSUME NEW c \in Session, Login(c) PROVE PathInv'
  BY <1>1, LoginPaths
<1>2. ASSUME NEW c \in Session, CDUP(c) PROVE PathInv'
  BY <1>2, CdupKeeps
<1>3. ASSUME NEW c \in Session, SITE_CHMOD(c) PROVE PathInv'
  BY <1>3, StillKeeps DEF SITE_CHMOD, history
<1>4. ASSUME NEW c \in Session, NEW n \in Offset, REST(c, n) PROVE PathInv'
  BY <1>4, StillKeeps DEF REST, history
<1>5. ASSUME NEW c \in Session, NEW p \in Arg, OnPath(c, p) PROVE PathInv'
  BY <1>5, PathKeeps
<1>6. CASE Done \/ UNCHANGED vars
  BY <1>6 DEF Done, vars, PathInv, PathsOf
<1> QED
  BY <1>1, <1>2, <1>3, <1>4, <1>5, <1>6 DEF Next

LEMMA InitPaths == Init => PathInv
<1> SUFFICES ASSUME Init PROVE PathInv
  OBVIOUS
<1>1. Blank \in Slot({Root}, {<<>>}, {0}) /\ Blank.cwd = Root /\ Blank.pending = <<>> /\ ~Blank.open
  BY DEF Blank, Slot
<1>2. session = [c \in Session |-> Blank]
  BY DEF Init
<1>3. Shape(session)
  BY <1>1, <1>2, ShapeOf
<1>4. IsFolder(Root)
  BY RootIs
<1>5. \A c \in Session : PathsOf(c)
  BY <1>1, <1>2, <1>4 DEF PathsOf
<1>6. home = [c \in Session |-> home[c]] /\ asked = [c \in Session |-> asked[c]]
  BY DEF Init
<1> QED
  BY <1>3, <1>5, <1>6 DEF PathInv

\* A path that is read in the folder the client was told of.
LEMMA ReadHere ==
  ASSUME NEW x, IsFolder(x), NEW p, IsPath(p), NEW h, IsAbsolute(p) \/ Walk(<<>>, x) = h
  PROVE  ToRealPath(x, p) = Translated(Meant(h, p))
<1>1. ToRealPath(x, p) = Translated(Meant(Walk(<<>>, x), p))
  BY RealPathIs
<1>2. Meant(Walk(<<>>, x), p) = Meant(h, p)
  BY MeantIs
<1> QED
  BY <1>1, <1>2

\* The four ways to build a path.
LEMMA ActsHere ==
  ASSUME PathInv, OnlyProven, NEW c \in Session, NEW p \in Arg, session[c].authenticated,
         Split(c, p).folder # Null, p # <<>>, IsAbsolute(p) \/ ~(c \in strayed \/ Strays(c, p))
  PROVE  {Real(c, p), Listed(c, p), Retrieved(c, p), StoredAt(c, p)} = {Translated(Meant(home[c], p))}
<1> DEFINE cwd == session[c].cwd
           folder == Split(c, p).folder \o Root
           h == home[c]
<1>1. session[c].open
  BY DEF OnlyProven
<1>2. IsFolder(cwd) /\ (c \notin strayed => Walk(<<>>, cwd) = h) /\ IsPath(p)
  BY <1>1, SessionAssumption DEF PathInv, PathsOf
<1>3. /\ IsFolder(Folder(c, p)) /\ IsFolder(folder)
      /\ Walk(<<>>, folder) = Walk(<<>>, Folder(c, p))
      /\ ~Strays(c, p) => Walk(<<>>, Folder(c, p)) = Walk(<<>>, cwd)
  BY SplitHere
<1>4. Real(c, p) = Translated(Meant(h, p))
  BY <1>1, RealIs
<1>5. Listed(c, p) = ToRealPath(cwd, p) /\ Retrieved(c, p) = ToRealPath(folder, p)
      /\ StoredAt(c, p) = ToRealPath(Folder(c, p), p)
  BY Zenon DEF Listed, Retrieved, StoredAt, In
<1> HIDE DEF cwd, folder, h
<1>6. ToRealPath(cwd, p) = Translated(Meant(h, p)) /\ ToRealPath(folder, p) = Translated(Meant(h, p))
      /\ ToRealPath(Folder(c, p), p) = Translated(Meant(h, p))
  BY <1>2, <1>3, ReadHere
<1> QED
  BY <1>4, <1>5, <1>6 DEF h

LEMMA PathProperties ==
  PathInv /\ OnlyProven => StaysWhereTold /\ ActsWhereNamed /\ RenamesWhatWasNamed
<1> SUFFICES ASSUME PathInv, OnlyProven
             PROVE  StaysWhereTold /\ ActsWhereNamed /\ RenamesWhatWasNamed
  OBVIOUS
<1>1. StaysWhereTold
  <2> SUFFICES ASSUME NEW c \in Session, session[c].open, c \notin strayed
               PROVE  Where(c) = home[c]
    BY DEF StaysWhereTold
  <2> DEFINE cwd == session[c].cwd
  <2>1. IsFolder(cwd) /\ Walk(<<>>, cwd) = home[c]
    BY DEF PathInv, PathsOf
  <2>2. IsPath(<<>>) /\ ~IsAbsolute(<<>>) /\ <<>> \in Seq(Token)
    BY DEF IsPath, IsAbsolute
  <2>3. Where(c) = Items(VirtualAbspath(cwd, <<>>))
    BY Zenon DEF Where, In
  <2> HIDE DEF cwd
  <2>4. Where(c) = Meant(Walk(<<>>, cwd), <<>>)
    BY <2>1, <2>2, <2>3, RealPathIs
  <2>5. "/" \in Token
    BY Tokens
  <2> QED
    BY <2>1, <2>2, <2>4, <2>5, MeantIs, WalkSteps
<1>2. ActsWhereNamed
  BY ActsHere DEF ActsWhereNamed
<1>3. RenamesWhatWasNamed
  BY DEF RenamesWhatWasNamed, PathInv, PathsOf, In
<1> QED
  BY <1>1, <1>2, <1>3

LEMMA PathsHold == Spec => [](PathInv /\ OnlyProven)
<1>1. PathInv /\ [Next]_vars => PathInv'
  BY PathStepKeeps
<1> QED
  BY <1>1, InitPaths, LoginsAreProven, PTL DEF Spec

\* A session is in the folder its client was told of: the scan of
\* virtual_abspath, the copies of folder to cwd and the slash that is put
\* behind it never move it, for any folder and any path that does not stray.
THEOREM SessionsStay == Spec => []StaysWhereTold
BY PathsHold, PathProperties, PTL

\* All handlers open the path the client named, whichever of the four ways
\* to build it they go, the name translated component by component.
THEOREM HandlersAgree == Spec => []ActsWhereNamed
BY PathsHold, PathProperties, PTL

\* RNTO moves what RNFR named when both name the same folder.
THEOREM RenamesAgree == Spec => []RenamesWhatWasNamed
BY PathsHold, PathProperties, PTL

(***************************************************************************)
(* Types, and the files of the devices.                                    *)
(***************************************************************************)

\* The markers are what REST was given, or nothing.
Markers == \A c \in Session : session[c].marker \in Offset \cup {0}

LEMMA MarkerSet ==
  ASSUME Markers, NEW c \in Session, NEW x, NEW y, NEW z \in Offset \cup {0}, Gets(session', c, x, y, z)
  PROVE  Markers'
BY DEF Markers, Gets

LEMMA PathMarkers ==
  ASSUME Shape(session), Markers, NEW c \in Session, NEW p, OnPath(c, p)
  PROVE  Markers'
<1>1. PICK x, y : \E z \in {session[c].marker, 0} : Gets(session', c, x, y, z)
  BY PathGets
<1>2. session[c].marker \in Offset \cup {0}
  BY DEF Markers
<1> QED
  BY <1>1, <1>2, MarkerSet

LEMMA MarkersKeep ==
  ASSUME Shape(session), Markers, [Next]_vars
  PROVE  Markers'
<1>1. ASSUME NEW c \in Session, Login(c) PROVE Markers'
  <2> DEFINE A == {session[d].cwd : d \in Session}
             B == {session[d].pending : d \in Session}
             M == {session[d].marker : d \in Session}
  <2>1. session \in [Session -> Slot(A, B, M)]
    BY DEF Shape, Slot
  <2> HIDE DEF A, B, M
  <2>2. ASSUME NEW s \in Slot(A, B, M)
        PROVE  Fresh(s).marker = 0 /\ [Fresh(s) EXCEPT !.open = TRUE].marker = 0
    <3>1. Fresh(s) \in Slot(A \cup {Root}, B \cup {<<>>}, M \cup {0}) /\ Fresh(s).marker = 0
      BY DEF Slot, Fresh
    <3>2. \A f \in Slot(A \cup {Root}, B \cup {<<>>}, M \cup {0}) : [f EXCEPT !.open = TRUE].marker = f.marker
      BY DEF Slot
    <3> QED
      BY <3>1, <3>2
  <2>3. CASE Connect(c)
    <3>1. session' = [session EXCEPT ![c] = [Fresh(session[c]) EXCEPT !.open = TRUE]]
      BY <2>3 DEF Connect
    <3> QED
      BY <2>1, <2>2, <3>1 DEF Markers
  <2>4. CASE Disconnect(c)
    <3>1. session' = [session EXCEPT ![c] = Fresh(session[c])]
      BY <2>4 DEF Disconnect
    <3> QED
      BY <2>1, <2>2, <3>1 DEF Markers
  <2>5. CASE REIN(c)
    <3>1. session' = [session EXCEPT ![c].cwd = Root, ![c].authenticated = FALSE]
      BY <2>5 DEF REIN
    <3>2. \A d \in Session : session'[d].marker = session[d].marker
      BY <2>1, <3>1 DEF Slot
    <3> QED
      BY <3>2 DEF Markers
  <2>6. ASSUME NEW w \in Password, PASS(c, w)  PROVE Markers'
    <3>1. session' = [session EXCEPT ![c].authenticated = TRUE] \/ session' = session
      BY <2>6 DEF PASS
    <3>2. \A d \in Session : session'[d].marker = session[d].marker
      BY <2>1, <3>1 DEF Slot
    <3> QED
      BY <3>2 DEF Markers
  <2>7. ASSUME NEW new, SITE_PASSWD(c, new)  PROVE Markers'
    BY <2>7 DEF SITE_PASSWD, Markers
  <2> QED
    BY <1>1, <2>3, <2>4, <2>5, <2>6, <2>7 DEF Login
<1>2. ASSUME NEW c \in Session, CDUP(c) PROVE Markers'
  <2>1. PICK cwd : session' = [session EXCEPT ![c].cwd = cwd]
    BY <1>2 DEF CDUP, Moves
  <2>2. Gets(session', c, cwd, session[c].pending, session[c].marker)
    BY <2>1, FieldsOf
  <2>3. session[c].marker \in Offset \cup {0}
    BY DEF Markers
  <2> QED
    BY <2>2, <2>3, MarkerSet
<1>3. ASSUME NEW c \in Session, SITE_CHMOD(c) PROVE Markers'
  BY <1>3 DEF SITE_CHMOD, Markers
<1>4. ASSUME NEW c \in Session, NEW n \in Offset, REST(c, n) PROVE Markers'
  <2>1. session' = [session EXCEPT ![c].marker = n]
    BY <1>4 DEF REST
  <2>2. Gets(session', c, session[c].cwd, session[c].pending, n)
    BY <2>1, FieldsOf
  <2> QED
    BY <2>2, MarkerSet
<1>5. ASSUME NEW c \in Session, NEW p \in Arg, OnPath(c, p) PROVE Markers'
  BY <1>5, PathMarkers
<1>6. CASE Done \/ UNCHANGED vars
  BY <1>6 DEF Done, vars, Markers
<1> QED
  BY <1>1, <1>2, <1>3, <1>4, <1>5, <1>6 DEF Next

\* A path of the devices is a sequence of one to three names, and so is the
\* folder it is in.
LEMMA NodeIs ==
  ASSUME NEW p \in Node
  PROVE  /\ p \in Seq(Plain) /\ Len(p) \in 1 .. 3
         /\ Len(p) > 1 => Front(p) \in Node /\ Front(p) \in Seq(Plain) /\ Len(Front(p)) = Len(p) - 1
<1>1. CASE \E d \in Device : p = <<d>>
  BY <1>1 DEF Plain
<1>2. CASE \E d \in Device, n \in Name : p = <<d, n>>
  <2>1. PICK d \in Device, n \in Name : p = <<d, n>>
    BY <1>2
  <2>2. p \in Seq(Plain) /\ Len(p) = 2
    BY <2>1 DEF Plain
  <2>3. Front(p) = <<d>>
    <3>1. Front(p) = SubSeq(p, 1, 1)
      BY <2>2 DEF Front
    <3> QED
      BY <2>1, <2>2, <3>1
  <2>4. <<d>> \in Node /\ <<d>> \in Seq(Plain) /\ Len(<<d>>) = 1
    BY DEF Node, Plain
  <2> QED
    BY <2>2, <2>3, <2>4
<1>3. CASE \E d \in Device, n \in Name, m \in Name : p = <<d, n, m>>
  <2>1. PICK d \in Device, n \in Name, m \in Name : p = <<d, n, m>>
    BY <1>3
  <2>2. p \in Seq(Plain) /\ Len(p) = 3
    BY <2>1 DEF Plain
  <2>3. Front(p) = <<d, n>>
    <3>1. Front(p) = SubSeq(p, 1, 2)
      BY <2>2 DEF Front
    <3> QED
      BY <2>1, <2>2, <3>1
  <2>4. <<d, n>> \in Node /\ <<d, n>> \in Seq(Plain) /\ Len(<<d, n>>) = 2
    BY DEF Node, Plain
  <2> QED
    BY <2>2, <2>3, <2>4
<1> QED
  BY <1>1, <1>2, <1>3 DEF Node

\* What is below p and above r.
LEMMA BelowFront ==
  ASSUME NEW S, NEW p \in Seq(S), NEW r \in Seq(S), Len(r) > 1
  PROVE  Below(p, Front(r)) <=> Below(p, r) /\ Len(p) < Len(r)
<1> DEFINE m == Len(p)
           n == Len(r)
           f == Front(r)
<1>1. m \in Nat /\ n \in Nat /\ f \in Seq(S) /\ Len(f) = n - 1 /\ \A i \in 1 .. n - 1 : f[i] = r[i]
  BY DEF Front
<1>2. ASSUME m < n  PROVE SubSeq(f, 1, m) = SubSeq(r, 1, m)
  BY <1>1, <1>2
<1> HIDE DEF m, n, f
<1>3. CASE m < n
  BY <1>1, <1>2, <1>3 DEF Below, m, n, f
<1>4. CASE ~(m < n)
  <2>1. ~(Len(f) >= m)
    BY <1>1, <1>4
  <2> QED
    BY <1>4, <2>1 DEF Below, m, n, f
<1> QED
  BY <1>3, <1>4

\* The part of r below q, put below p.
Rebased(p, q, r) == p \o SubSeq(r, Len(q) + 1, Len(r))

LEMMA MovedFront ==
  ASSUME NEW S, NEW p \in Seq(S), NEW q \in Seq(S), NEW r \in Seq(S), Len(q) < Len(r)
  PROVE  /\ Len(Rebased(p, q, r)) = Len(p) + Len(r) - Len(q)
         /\ Front(Rebased(p, q, r)) = Rebased(p, q, Front(r))
<1> DEFINE l == Len(p)
           m == Len(q)
           n == Len(r)
           a == SubSeq(r, m + 1, n)
           f == Front(r)
           b == SubSeq(f, m + 1, n - 1)
           x == p \o a
           y == p \o b
<1>1. l \in Nat /\ m \in Nat /\ n \in Nat /\ m < n
  OBVIOUS
<1>2. f \in Seq(S) /\ Len(f) = n - 1 /\ \A i \in 1 .. n - 1 : f[i] = r[i]
  <2>1. r # <<>>
    OBVIOUS
  <2> QED
    BY <2>1, FrontIs
<1>3. a \in Seq(S) /\ Len(a) = n - m /\ \A i \in 1 .. n - m : a[i] = r[m + i]
  BY <1>1
<1>4. b \in Seq(S) /\ Len(b) = n - 1 - m /\ \A i \in 1 .. n - 1 - m : b[i] = f[m + i]
  BY <1>1, <1>2
<1>5. x \in Seq(S) /\ Len(x) = l + (n - m) /\ (\A i \in 1 .. l : x[i] = p[i])
      /\ \A i \in 1 .. n - m : x[l + i] = a[i]
  BY <1>1, <1>3
<1>6. y \in Seq(S) /\ Len(y) = l + (n - 1 - m) /\ (\A i \in 1 .. l : y[i] = p[i])
      /\ \A i \in 1 .. n - 1 - m : y[l + i] = b[i]
  <2>1. ASSUME NEW z \in Seq(S)
        PROVE  /\ p \o z \in Seq(S)
               /\ Len(p \o z) = Len(p) + Len(z)
               /\ \A i \in 1 .. Len(p) : (p \o z)[i] = p[i]
               /\ \A i \in 1 .. Len(z) : (p \o z)[Len(p) + i] = z[i]
    OBVIOUS
  <2>2. n - 1 - m \in Nat
    BY <1>1
  <2>3. Len(p) = l /\ l \in Nat
    OBVIOUS
  <2> HIDE DEF b, f, l, m, n
  <2>4. /\ p \o b \in Seq(S)
        /\ Len(p \o b) = l + Len(b)
        /\ \A i \in 1 .. l : (p \o b)[i] = p[i]
        /\ \A i \in 1 .. Len(b) : (p \o b)[l + i] = b[i]
    BY <1>4, <2>1, <2>3
  <2>5. Len(b) = n - 1 - m /\ l + (n - 1 - m) = l + Len(b)
    BY <1>4
  <2> QED
    BY <2>2, <2>4, <2>5
<1>7. Front(x) \in Seq(S) /\ Len(Front(x)) = Len(x) - 1 /\ \A i \in 1 .. Len(x) - 1 : Front(x)[i] = x[i]
  <2>1. Len(x) > 0
    BY <1>1, <1>5
  <2> QED
    BY <1>5, <2>1 DEF Front
<1>8. Front(x) = y
  <2> HIDE DEF l, m, n, a, b, x, y, f
  <2>1. Len(Front(x)) = Len(y)
    BY <1>1, <1>5, <1>6, <1>7
  <2>2. ASSUME NEW i \in 1 .. Len(y)  PROVE Front(x)[i] = y[i]
    <3>1. Front(x)[i] = x[i] /\ i \in Nat /\ i > 0 /\ i \leq l + (n - 1 - m)
      BY <1>1, <1>5, <1>6, <1>7
    <3>2. CASE i \leq l
      BY <1>1, <1>5, <1>6, <3>1, <3>2
    <3>3. CASE i > l
      <4> DEFINE j == i - l
      <4>1. j \in 1 .. n - m /\ j \in 1 .. n - 1 - m /\ i = l + j /\ m + j \in 1 .. n - 1
        BY <1>1, <3>1, <3>3
      <4> HIDE DEF j
      <4>2. x[i] = r[m + j]
        BY <1>3, <1>5, <4>1
      <4>3. y[i] = r[m + j]
        BY <1>2, <1>4, <1>6, <4>1
      <4> QED
        BY <3>1, <4>2, <4>3
    <3> QED
      BY <1>1, <3>1, <3>2, <3>3
  <2> QED
    BY <1>6, <1>7, <2>1, <2>2
<1>9. Front(x) = p \o SubSeq(Front(r), m + 1, Len(Front(r)))
  BY <1>2, <1>8
<1>10. Len(x) = l + n - m
  BY <1>1, <1>5
<1> QED
  BY <1>9, <1>10 DEF Rebased

\* What is on a device is in a folder of it.
FsOK(files) ==
  /\ files \in [Node -> {"none", "file", "dir"}]
  /\ \A p \in Node : Len(p) > 1 /\ files[p] # "none" => files[Front(p)] = "dir"

\* What is removed had nothing in it.
LEMMA UnlinkKeeps ==
  ASSUME FsOK(fs), NEW p
  PROVE  FsOK(VrtUnlink(p))
<1>1. CASE VrtUnlink(p) = fs
  BY <1>1
<1>2. CASE VrtUnlink(p) # fs
  <2>1. VrtUnlink(p) = [fs EXCEPT ![p] = "none"] /\ Removable(p)
    BY <1>2, Zenon DEF VrtUnlink
  <2>2. p \in Node
    BY <2>1 DEF Removable, IsDir, Kind
  <2>3. ASSUME NEW r \in Node, Len(r) > 1, fs[r] # "none"  PROVE Front(r) # p
    <3>1. fs[Front(r)] = "dir" /\ Front(r) \in Node /\ Len(r) = Len(Front(r)) + 1
      <4>1. Front(r) \in Node /\ Len(Front(r)) = Len(r) - 1 /\ Len(r) \in 1 .. 3
        BY <2>3, NodeIs
      <4> QED
        BY <2>3, <4>1 DEF FsOK
    <3> SUFFICES ASSUME Front(r) = p PROVE FALSE
      OBVIOUS
    <3>2. Empty(p)
      BY <2>1, <2>2, <3>1 DEF Removable, Kind
    <3> QED
      BY <2>3, <3>1, <3>2 DEF Empty
  <2>4. VrtUnlink(p) \in [Node -> {"none", "file", "dir"}]
    BY <2>1 DEF FsOK
  <2>5. \A r \in Node : VrtUnlink(p)[r] = IF r = p THEN "none" ELSE fs[r]
    BY <2>1, <2>2 DEF FsOK
  <2>6. \A r \in Node : Len(r) > 1 => Front(r) \in Node
    BY NodeIs
  <2> QED
    BY <2>3, <2>4, <2>5, <2>6 DEF FsOK
<1> QED
  BY <1>1, <1>2

\* Something that is made in a folder, where there was nothing.
LEMMA MadeKeeps ==
  ASSUME NEW files, FsOK(files), NEW p \in Node, NEW kind \in {"file", "dir"}, files[p] = "none",
         Len(p) > 1 => files[Front(p)] = "dir"
  PROVE  FsOK([files EXCEPT ![p] = kind])
<1> DEFINE made == [files EXCEPT ![p] = kind]
<1>1. made \in [Node -> {"none", "file", "dir"}]
      /\ \A r \in Node : made[r] = IF r = p THEN kind ELSE files[r]
  BY DEF FsOK
<1> HIDE DEF made
<1>2. ASSUME NEW r \in Node, Len(r) > 1, made[r] # "none"  PROVE made[Front(r)] = "dir"
  <2>1. Front(r) \in Node /\ files[Front(r)] = "dir"
    BY <1>1, <1>2, NodeIs DEF FsOK
  <2> QED
    BY <1>1, <2>1
<1>3. FsOK(made)
  BY <1>1, <1>2 DEF FsOK
<1> QED
  BY <1>3 DEF made

LEMMA MkdirKeeps ==
  ASSUME FsOK(fs), NEW p
  PROVE  FsOK(VrtMkdir(p))
<1>1. CASE VrtMkdir(p) = fs
  BY <1>1
<1>2. CASE VrtMkdir(p) # fs
  <2>1. VrtMkdir(p) = [fs EXCEPT ![p] = "dir"] /\ Room(p)
    BY <1>2, Zenon DEF VrtMkdir
  <2>2. p \in Node /\ fs[p] = "none" /\ fs[Front(p)] = "dir"
    BY <2>1 DEF Room, IsDir, Kind
  <2> QED
    BY <2>1, <2>2, MadeKeeps
<1> QED
  BY <1>1, <1>2

LEMMA OpenedKeeps ==
  ASSUME NEW files, FsOK(files), NEW p
  PROVE  FsOK(Opened(files, p))
<1>1. CASE p \in Node /\ files[p] = "none" /\ files[Front(p)] = "dir"
           /\ Opened(files, p) = [files EXCEPT ![p] = "file"]
  BY <1>1, MadeKeeps
<1>2. CASE Opened(files, p) = files
  BY <1>2
<1> QED
  BY <1>1, <1>2, Zenon DEF Opened

\* A folder that is moved brings what is in it: a path below the new name has
\* the folder its old one had.
LEMMA MoveKeeps ==
  ASSUME FsOK(fs), NEW p, NEW q, CanRename(p, q), Len(p) > 1, ~Below(p, q)
  PROVE  FsOK(Move(p, q))
<1> DEFINE Rest(r) == SubSeq(r, Len(q) + 1, Len(r))
           moved == Move(p, q)
<1>1. /\ p \in Node /\ Len(p) > 1 /\ q \in Node /\ ~Below(p, q)
      /\ Front(q) \in Node /\ fs[Front(q)] = "dir" /\ fs[p] # "none"
  BY DEF CanRename, Room, IsDir, Kind
<1>2. p \in Seq(Plain) /\ q \in Seq(Plain) /\ Len(p) \in 1 .. 3 /\ Len(q) \in 1 .. 3
  BY <1>1, NodeIs
<1>3. ASSUME NEW r \in Node
      PROVE  /\ Below(q, r) => moved[r] = Kind(p \o Rest(r))
             /\ ~Below(q, r) /\ Below(p, r) => moved[r] = "none"
             /\ ~Below(q, r) /\ ~Below(p, r) => moved[r] = fs[r]
  BY Zenon DEF Move
<1>4. \A x : Kind(x) \in {"none", "file", "dir"}
  BY DEF Kind, FsOK
<1>5. moved \in [Node -> {"none", "file", "dir"}]
  <2>1. moved = [r \in Node |-> moved[r]]
    BY Zenon DEF Move
  <2>2. ASSUME NEW r \in Node  PROVE moved[r] \in {"none", "file", "dir"}
    <3> HIDE DEF moved, Rest
    <3> QED
      BY <1>3, <1>4 DEF FsOK
  <2> HIDE DEF moved
  <2> QED
    BY <2>1, <2>2
<1>6. ASSUME NEW r \in Node, Len(r) > 1, moved[r] # "none"  PROVE moved[Front(r)] = "dir"
  <2> DEFINE f == Front(r)
  <2>1. r \in Seq(Plain) /\ f \in Node /\ f \in Seq(Plain) /\ Len(r) \in 1 .. 3 /\ Len(f) = Len(r) - 1
    BY <1>6, NodeIs
  <2>2. /\ Below(p, f) <=> Below(p, r) /\ Len(p) < Len(r)
        /\ Below(q, f) <=> Below(q, r) /\ Len(q) < Len(r)
    BY <1>2, <1>6, <2>1, BelowFront
  <2>3. CASE ~Below(q, r)
    <3>1. ~Below(p, r) /\ moved[r] = fs[r]
      BY <1>3, <1>6, <2>3
    <3>2. moved[f] = fs[f]
      BY <1>3, <2>1, <2>2, <2>3, <3>1
    <3>3. fs[f] = "dir"
      BY <1>6, <3>1 DEF FsOK
    <3> QED
      BY <3>2, <3>3
  <2>4. CASE Below(q, r) /\ Len(q) < Len(r)
    <3> DEFINE x == p \o Rest(r)
    <3>1. Len(x) = Len(p) + Len(r) - Len(q) /\ Front(x) = p \o Rest(f)
      <4>1. r \in Seq(Plain) /\ p \in Seq(Plain) /\ q \in Seq(Plain) /\ Len(q) < Len(r)
        BY <1>2, <2>1, <2>4
      <4>2. x = Rebased(p, q, r) /\ p \o Rest(f) = Rebased(p, q, f)
        BY Zenon DEF Rebased
      <4> HIDE DEF x, Rest
      <4> QED
        BY <4>1, <4>2, MovedFront
    <3>2. moved[r] = Kind(x) /\ moved[f] = Kind(Front(x))
      BY <1>3, <2>1, <2>2, <2>4, <3>1
    <3> HIDE DEF x
    <3>3. x \in Node /\ fs[x] # "none" /\ Len(x) > 1
      <4>1. x \in Node /\ fs[x] # "none"
        BY <1>6, <3>2 DEF Kind
      <4>2. Len(x) > 1
        <5> DEFINE l == Len(p)
                   m == Len(q)
                   n == Len(r)
        <5>1. l \in 1 .. 3 /\ l > 1 /\ m \in 1 .. 3 /\ n \in 1 .. 3 /\ m < n /\ Len(x) = l + n - m
          BY <1>1, <1>2, <2>1, <2>4, <3>1
        <5> HIDE DEF l, m, n
        <5> QED
          BY <5>1
      <4> QED
        BY <4>1, <4>2
    <3>4. Front(x) \in Node /\ fs[Front(x)] = "dir"
      BY <3>3, NodeIs DEF FsOK
    <3> QED
      BY <3>2, <3>4 DEF Kind
  <2>5. CASE Below(q, r) /\ ~(Len(q) < Len(r))
    <3>1. r = q
      <4>1. Len(r) >= Len(q) /\ SubSeq(r, 1, Len(q)) = q
        BY <2>5 DEF Below
      <4>2. Len(r) = Len(q)
        <5> DEFINE m == Len(q)
                   n == Len(r)
        <5>1. m \in 1 .. 3 /\ n \in 1 .. 3 /\ n >= m /\ ~(m < n)
          BY <1>2, <2>1, <2>5, <4>1
        <5> HIDE DEF m, n
        <5>2. n = m
          BY <5>1
        <5> QED
          BY <5>2 DEF m, n
      <4>3. SubSeq(r, 1, Len(r)) = r
        BY <2>1
      <4> QED
        BY <4>1, <4>2, <4>3
    <3>2. ~Below(p, f) /\ ~Below(q, f)
      BY <1>1, <2>2, <2>5, <3>1
    <3>3. moved[f] = fs[f]
      BY <1>3, <2>1, <3>2
    <3> QED
      BY <1>1, <3>1, <3>3
  <2> QED
    BY <2>3, <2>4, <2>5
<1> QED
  BY <1>5, <1>6 DEF FsOK

\* A folder that is lost takes with it all that is in it.
LEMMA LostKeeps ==
  ASSUME FsOK(fs), NEW p \in Node
  PROVE  FsOK(Lost(p))
<1>1. /\ Lost(p) \in [Node -> {"none", "file", "dir"}]
      /\ \A r \in Node : Lost(p)[r] = IF Below(p, r) THEN "none" ELSE fs[r]
  BY DEF Lost, FsOK
<1>2. ASSUME NEW r \in Node, Len(r) > 1, Lost(p)[r] # "none"  PROVE Lost(p)[Front(r)] = "dir"
  <2>1. ~Below(p, r) /\ fs[r] # "none"
    BY <1>1, <1>2
  <2>2. Front(r) \in Node /\ fs[Front(r)] = "dir"
    BY <1>2, <2>1, NodeIs DEF FsOK
  <2>3. ~Below(p, Front(r))
    <3>1. p \in Seq(Plain) /\ r \in Seq(Plain)
      BY NodeIs
    <3> QED
      BY <1>2, <2>1, <3>1, BelowFront
  <2> QED
    BY <1>1, <2>2, <2>3
<1> QED
  BY <1>1, <1>2 DEF FsOK

\* No command leaves the devices with something outside a folder.
LEMMA FilesKeep ==
  ASSUME FsOK(fs), [Next]_vars
  PROVE  FsOK(fs')
<1>1. ASSUME NEW c \in Session, Login(c)  PROVE fs' = fs
  BY <1>1 DEF Login, Connect, Disconnect, REIN, PASS, SITE_PASSWD
<1>2. ASSUME NEW c \in Session, CDUP(c) \/ SITE_CHMOD(c)  PROVE fs' = fs
  BY <1>2 DEF CDUP, SITE_CHMOD
<1>3. ASSUME NEW c \in Session, NEW n \in Offset, REST(c, n)  PROVE fs' = fs
  BY <1>3 DEF REST
<1>4. ASSUME NEW c \in Session, NEW p \in Arg, OnPath(c, p)  PROVE FsOK(fs')
  <2>1. CASE CWD(c, p) \/ RNFR(c, p) \/ SIZE(c, p) \/ LIST(c, p) \/ RETR(c, p)
             \/ Fails(c, p) \/ StoreFails(c, p)
    <3>1. fs' = fs
      BY <2>1 DEF CWD, RNFR, SIZE, LIST, RETR, Fails, StoreFails
    <3> QED
      BY <3>1
  <2>2. CASE DELE(c, p)
    BY <2>2, UnlinkKeeps DEF DELE
  <2>3. CASE MKD(c, p)
    <3>1. fs' = fs \/ fs' = VrtMkdir(Real(c, p))
      BY <2>3 DEF MKD
    <3> QED
      BY <3>1, MkdirKeeps
  <2>4. CASE RNTO(c, p)
    <3>1. PICK from, to : fs' = fs \/ fs' = VrtRename(from, to)
      BY <2>4 DEF RNTO
    <3>2. \/ VrtRename(from, to) = fs
          \/ CanRename(from, to) /\ VrtRename(from, to) = Lost(from)
          \/ /\ CanRename(from, to) /\ Len(from) > 1 /\ ~Below(from, to)
             /\ VrtRename(from, to) = Move(from, to)
      BY Zenon DEF VrtRename
    <3>3. CanRename(from, to) => from \in Node
      BY DEF CanRename, Kind
    <3> QED
      BY <3>1, <3>2, <3>3, MoveKeeps, LostKeeps
  <2>5. CASE STOR(c, p) \/ APPE(c, p)
    <3>1. PICK files, x : fs' = Opened(files, x) /\ (files = fs \/ \E y : files = VrtMkdir(y))
      BY <2>5 DEF STOR, APPE, Stored
    <3>2. FsOK(files)
      BY <3>1, MkdirKeeps
    <3> QED
      BY <3>1, <3>2, OpenedKeeps
  <2> QED
    BY <1>4, <2>1, <2>2, <2>3, <2>4, <2>5 DEF OnPath
<1>5. CASE Done \/ UNCHANGED vars
  <2>1. fs' = fs
    BY <1>5 DEF Done, vars
  <2> QED
    BY <2>1
<1> QED
  BY <1>1, <1>2, <1>3, <1>4, <1>5 DEF Next

\* The rest of the types.
OneWord == password \subseteq Password /\ (password = {} \/ \E w \in Password : password = {w})
Bounded == down \in BOOLEAN /\ commands \in 0 .. MaxCommands

LEMMA OneWordKeeps == ASSUME OneWord, [Next]_vars PROVE OneWord'
<1>1. ASSUME NEW c \in Session, Login(c)  PROVE OneWord'
  <2>1. CASE Connect(c) \/ Disconnect(c) \/ REIN(c) \/ \E w \in Password : PASS(c, w)
    BY <2>1 DEF Connect, Disconnect, REIN, PASS, OneWord
  <2>2. CASE SITE_PASSWD(c, {}) \/ \E w \in Password : SITE_PASSWD(c, {w})
    BY <2>2 DEF SITE_PASSWD, OneWord
  <2> QED
    BY <1>1, <2>1, <2>2 DEF Login
<1>2. ASSUME NEW c \in Session, CDUP(c) \/ SITE_CHMOD(c)  PROVE password' = password
  BY <1>2 DEF CDUP, SITE_CHMOD
<1>3. ASSUME NEW c \in Session, NEW n \in Offset, REST(c, n)  PROVE password' = password
  BY <1>3 DEF REST
<1>4. ASSUME NEW c \in Session, NEW p \in Arg, OnPath(c, p)  PROVE password' = password
  BY <1>4 DEF OnPath, CWD, DELE, MKD, RNFR, RNTO, SIZE, LIST, RETR, STOR, APPE, Stored, Fails, StoreFails
<1>5. CASE Done \/ UNCHANGED vars
  BY <1>5 DEF Done, vars, OneWord
<1> QED
  BY <1>1, <1>2, <1>3, <1>4, <1>5 DEF Next, OneWord

LEMMA BoundedKeeps == ASSUME Bounded, [Next]_vars PROVE Bounded'
<1>1. ASSUME Counted  PROVE commands' \in 0 .. MaxCommands
  BY <1>1, SessionAssumption DEF Counted, Bounded
<1>2. ASSUME NEW c \in Session, Login(c)  PROVE UNCHANGED <<down, commands>>
  BY <1>2 DEF Login, Connect, Disconnect, REIN, PASS, SITE_PASSWD
<1>3. ASSUME NEW c \in Session, CDUP(c)  PROVE Bounded'
  BY <1>1, <1>3 DEF CDUP, Bounded
<1>4. ASSUME NEW c \in Session, SITE_CHMOD(c)  PROVE Bounded'
  BY <1>4 DEF SITE_CHMOD, Bounded
<1>5. ASSUME NEW c \in Session, NEW n \in Offset, REST(c, n)  PROVE UNCHANGED <<down, commands>>
  BY <1>5 DEF REST
<1>6. ASSUME NEW c \in Session, NEW p \in Arg, OnPath(c, p)  PROVE Bounded'
  <2>1. Counted
    BY <1>6 DEF OnPath, CWD, DELE, MKD, RNFR, RNTO, SIZE, LIST, RETR, STOR, APPE, Stored,
                Fails, StoreFails, Splits
  <2>2. down' \in BOOLEAN
    <3>1. CASE RNTO(c, p)
      BY <3>1 DEF RNTO
    <3>2. CASE ~RNTO(c, p)
      BY <1>6, <3>2 DEF OnPath, CWD, DELE, MKD, RNFR, SIZE, LIST, RETR, STOR, APPE, Stored,
                        Fails, StoreFails, Bounded
    <3> QED
      BY <3>1, <3>2
  <2> QED
    BY <1>1, <2>1, <2>2 DEF Bounded
<1>7. CASE Done \/ UNCHANGED vars
  BY <1>7 DEF Done, vars, Bounded
<1> QED
  BY <1>2, <1>3, <1>4, <1>5, <1>6, <1>7 DEF Next, Bounded

TypeInv == PathInv /\ Markers /\ FsOK(fs) /\ OneWord /\ Bounded

LEMMA InitTypes == Init => TypeInv
<1> SUFFICES ASSUME Init PROVE TypeInv
  OBVIOUS
<1>1. PathInv
  BY InitPaths
<1>2. Markers
  BY DEF Init, Blank, Markers
<1>3. FsOK(fs)
  <2>1. fs = [p \in Node |-> IF p \in Folders THEN "dir" ELSE "none"]
    BY DEF Init
  <2>2. ASSUME NEW p \in Node, Len(p) > 1, fs[p] # "none"  PROVE fs[Front(p)] = "dir"
    <3>1. Front(p) \in Folders /\ Front(p) \in Node
      BY <2>1, <2>2, NodeIs, FoldersAssumption
    <3> QED
      BY <2>1, <3>1
  <2>3. fs \in [Node -> {"none", "file", "dir"}]
    BY <2>1
  <2> QED
    BY <2>2, <2>3 DEF FsOK
<1>4. OneWord
  BY DEF Init, OneWord
<1>5. Bounded
  <2>1. 0 \in 0 .. MaxCommands
    BY SessionAssumption
  <2> QED
    BY <2>1 DEF Init, Bounded
<1> QED
  BY <1>1, <1>2, <1>3, <1>4, <1>5 DEF TypeInv

LEMMA TypesFollow == TypeInv => TypeOK
<1> SUFFICES ASSUME TypeInv PROVE TypeOK
  OBVIOUS
<1>1. ASSUME NEW c \in Session
      PROVE  /\ session[c].open \in BOOLEAN /\ session[c].authenticated \in BOOLEAN
             /\ session[c].cwd # <<>> /\ session[c].cwd[1] = "/" /\ Last(session[c].cwd) = "/"
             /\ session[c].marker \in Offset \cup {0}
  <2>1. session[c].open \in BOOLEAN /\ session[c].authenticated \in BOOLEAN
    BY DEF TypeInv, PathInv, Shape, Slot
  <2>2. IsFolder(session[c].cwd) /\ session[c].marker \in Offset \cup {0}
    BY DEF TypeInv, PathInv, PathsOf, Markers
  <2> QED
    BY <2>1, <2>2, Zenon DEF IsFolder, Last
<1>2. Cardinality(password) <= 1 /\ password \subseteq Password
  <2>1. password = {} \/ \E w : password = {w}
    BY DEF TypeInv, OneWord
  <2>2. Cardinality(password) = 0 \/ Cardinality(password) = 1
    BY <2>1, FS_EmptySet, FS_Singleton
  <2> QED
    BY <2>2 DEF TypeInv, OneWord
<1>3. /\ fs \in [Node -> {"none", "file", "dir"}]
      /\ \A p \in Node : Len(p) > 1 /\ fs[p] # "none" => IsDir(Front(p))
  <2>1. \A p \in Node : Len(p) > 1 => Front(p) \in Node
    BY NodeIs
  <2> QED
    BY <2>1 DEF TypeInv, FsOK, IsDir, Kind
<1>4. down \in BOOLEAN /\ commands \in 0 .. MaxCommands
  BY DEF TypeInv, Bounded
<1> QED
  BY <1>1, <1>2, <1>3, <1>4 DEF TypeOK

\* Types: every session is in a folder with a slash at both ends, and no
\* command leaves the devices with a file or folder outside of a folder: a
\* folder that is renamed takes all that is in it to the new name or, when
\* that is below the old one, out of the tree.
THEOREM TypeCorrect == Spec => []TypeOK
<1>1. TypeInv /\ [Next]_vars => TypeInv'
  BY PathStepKeeps, MarkersKeep, FilesKeep, OneWordKeeps, BoundedKeeps DEF TypeInv, PathInv
<1> QED
  BY <1>1, InitTypes, TypesFollow, PTL DEF Spec
=============================================================================
