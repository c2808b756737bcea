---------------------------- MODULE FatPlaceProofs ----------------------------
(***************************************************************************)
(* Where the bytes go: _FAT_read_r and _FAT_write_r move every byte of a   *)
(* file to and from the place that the file's chain gives it, and a chain  *)
(* has as many clusters as its file needs, for every disc, every number of *)
(* handles and every interleaving of calls that do not share a file.       *)
(* The chains are paths through the table, each with one end; PlaceInv     *)
(* says what every handle, entry, call and transfer has of them; then each *)
(* action of FatFile is shown to keep it.                                  *)
(***************************************************************************)
EXTENDS FatFileProofs

\* Induction over the naturals, for a set of numbers.
LEMMA UpFromZero ==
  ASSUME NEW S, 0 \in S, \A n \in Nat : n \in S => n + 1 \in S
  PROVE  Nat \subseteq S
<1> DEFINE Gap == Nat \ S
<1> SUFFICES ASSUME Gap # {} PROVE FALSE
  OBVIOUS
<1>1. \E x \in Gap : \A y \in Gap : ~(<<y, x>> \in OpToRel(<, Nat))
  <2>1. Gap \in SUBSET Nat
    OBVIOUS
  <2> HIDE DEF Gap
  <2> QED
    BY <2>1, NatLessThanWellFounded, WFMin
<1>2. PICK x \in Gap : \A y \in Gap : ~(<<y, x>> \in OpToRel(<, Nat))
  BY <1>1
<1>3. x \in Nat /\ x # 0 /\ x - 1 \in Nat
  OBVIOUS
<1>4. CASE x - 1 \in Gap
  <2>1. ~(<<x - 1, x>> \in {p \in Nat \X Nat : p[1] < p[2]})
    BY <1>2, <1>4, Zenon DEF OpToRel
  <2> QED
    BY <1>3, <2>1
<1>5. CASE x - 1 \in S
  <2>1. (x - 1) + 1 \in S
    BY <1>3, <1>5
  <2> QED
    BY <1>3, <2>1
<1> QED
  BY <1>3, <1>4, <1>5

\* The clusters of a chain are defined, up to any rank.
IsNth(c, g, m) == g = [n \in 0 .. m |-> IF n = 0 THEN c ELSE NextOf(g[n - 1])]

LEMMA NthExists == \A c : \A m \in Nat : \E g : IsNth(c, g, m)
<1> TAKE c
<1> DEFINE S == {m \in Nat : \E g : IsNth(c, g, m)}
<1>1. 0 \in S
  <2> DEFINE g == [n \in 0 .. 0 |-> c]
  <2>1. g = [n \in 0 .. 0 |-> IF n = 0 THEN c ELSE NextOf(g[n - 1])]
    OBVIOUS
  <2> HIDE DEF g
  <2> QED
    BY <2>1 DEF IsNth
<1>2. ASSUME NEW m \in Nat, m \in S  PROVE m + 1 \in S
  <2>1. PICK g : IsNth(c, g, m)
    BY <1>2
  <2> DEFINE h == [n \in 0 .. m + 1 |-> IF n = m + 1 THEN NextOf(g[m]) ELSE g[n]]
             h2 == [n \in 0 .. m + 1 |-> IF n = 0 THEN c ELSE NextOf(h[n - 1])]
  <2>2. ASSUME NEW n \in 0 .. m + 1  PROVE h[n] = h2[n]
    <3>1. CASE n = m + 1
      <4>1. n # 0 /\ n - 1 = m /\ m \in 0 .. m + 1 /\ m # m + 1
        BY <3>1
      <4> QED
        BY <3>1, <4>1
    <3>2. CASE n # m + 1
      <4>1. n \in 0 .. m /\ (n # 0 => n - 1 \in 0 .. m + 1 /\ n - 1 # m + 1)
        BY <3>2
      <4>2. g[n] = IF n = 0 THEN c ELSE NextOf(g[n - 1])
        BY <2>1, <4>1, Zenon DEF IsNth
      <4> QED
        BY <3>2, <4>1, <4>2
    <3> QED
      BY <3>1, <3>2
  <2>3. h = h2
    BY <2>2
  <2> HIDE DEF h
  <2>4. IsNth(c, h, m + 1)
    BY <2>3, Zenon DEF IsNth
  <2> QED
    BY <2>4
<1> HIDE DEF S
<1>3. Nat \subseteq S
  BY <1>1, <1>2, UpFromZero
<1> QED
  BY <1>3 DEF S

NthOK ==
  \A c : /\ Nth(c)[0] = c
         /\ \A k \in 0 .. Last - 1 : Nth(c)[k + 1] = NextOf(Nth(c)[k])

\* Nth of FatFile is defined up to the number of clusters: each step follows a link.
LEMMA NthIs == NthOK
<1> SUFFICES ASSUME NEW c
             PROVE  /\ Nth(c)[0] = c
                    /\ \A k \in 0 .. Last - 1 : Nth(c)[k + 1] = NextOf(Nth(c)[k])
  BY DEF NthOK
<1>1. \E g : IsNth(c, g, Last)
  BY NthExists, Constants
<1> DEFINE a == CHOOSE g : g = [n \in 0 .. Last |-> IF n = 0 THEN c ELSE NextOf(g[n - 1])]
<1>2. Nth(c) = a
  BY Zenon DEF Nth
<1>3. IsNth(c, a, Last)
  BY <1>1, Zenon DEF IsNth
<1> HIDE DEF a
<1>4. ASSUME NEW n \in 0 .. Last  PROVE a[n] = IF n = 0 THEN c ELSE NextOf(a[n - 1])
  BY <1>3, Zenon DEF IsNth
<1>5. a[0] = c
  BY <1>4, Constants
<1>6. ASSUME NEW k \in 0 .. Last - 1  PROVE a[k + 1] = NextOf(a[k])
  <2>1. k + 1 \in 0 .. Last /\ k + 1 # 0 /\ (k + 1) - 1 = k
    BY Constants
  <2> QED
    BY <1>4, <2>1
<1> QED
  BY <1>2, <1>5, <1>6

LEMMA NthIsNext == NthOK'
BY NthIs, PTL

-----------------------------------------------------------------------------
(***************************************************************************)
(* Bytes, sectors and clusters.                                            *)
(***************************************************************************)
Sectors(m) == m * Bps
Clusters(k) == k * Bpc

LEMMA Times ==
  ASSUME NEW a \in Nat, NEW b \in Nat, NEW c \in Nat
  PROVE  /\ a * c \in Nat /\ 0 * c = 0 /\ 1 * c = c
         /\ (a + b) * c = a * c + b * c /\ (a + 1) * c = a * c + c
         /\ a <= b => a * c <= b * c
         /\ a < b => a * c + c <= b * c
<1>1. a * c \in Nat /\ 0 * c = 0 /\ 1 * c = c
  OBVIOUS
<1>2. (a + b) * c = a * c + b * c /\ (a + 1) * c = a * c + c
  OBVIOUS
<1>3. ASSUME a <= b  PROVE a * c <= b * c
  <2>1. b - a \in Nat /\ b = a + (b - a)
    BY <1>3
  <2>2. (b - a) * c \in Nat /\ (a + (b - a)) * c = a * c + (b - a) * c
    BY <2>1
  <2>3. b * c = a * c + (b - a) * c
    BY <2>1, <2>2, Zenon
  <2> DEFINE x == (b - a) * c
             y == a * c
             z == b * c
  <2>4. x \in Nat /\ y \in Nat /\ z = y + x
    BY <1>1, <2>2, <2>3
  <2> HIDE DEF x, y, z
  <2>5. y <= z
    BY <2>4
  <2> QED
    BY <2>5 DEF y, z
<1>4. ASSUME a < b  PROVE a * c + c <= b * c
  <2>1. b - a - 1 \in Nat /\ b = (a + 1) + (b - a - 1)
    BY <1>4
  <2>2. (b - a - 1) * c \in Nat
    BY <2>1
  <2>3. ((a + 1) + (b - a - 1)) * c = (a * c + c) + (b - a - 1) * c
    BY <2>1
  <2>4. b * c = (a * c + c) + (b - a - 1) * c
    BY <2>1, <2>3, Zenon
  <2> DEFINE x == (b - a - 1) * c
             y == a * c
             z == b * c
  <2>5. x \in Nat /\ y \in Nat /\ z = y + c + x
    BY <1>1, <2>2, <2>4
  <2> HIDE DEF x, y, z
  <2>6. y + c <= z
    BY <2>5
  <2> QED
    BY <2>6 DEF y, z
<1> QED
  BY <1>1, <1>2, <1>3, <1>4

LEMMA SectorFacts ==
  /\ \A m \in Nat : Sectors(m) \in Nat /\ Sectors(m + 1) = Sectors(m) + Bps
  /\ Sectors(0) = 0 /\ Sectors(1) = Bps /\ Sectors(Spc) = Bpc
  /\ \A m, n \in Nat :
       /\ Sectors(m + n) = Sectors(m) + Sectors(n)
       /\ m <= n => Sectors(m) <= Sectors(n)
       /\ m < n => Sectors(m) + Bps <= Sectors(n)
<1>1. Bps \in Nat /\ Spc \in Nat
  BY SizesAssumption
<1>2. Sectors(Spc) = Bpc
  BY <1>1 DEF Sectors, Bpc
<1> QED
  BY <1>1, <1>2, Times DEF Sectors

LEMMA ClusterFacts ==
  /\ \A m \in Nat : Clusters(m) \in Nat /\ Clusters(m + 1) = Clusters(m) + Bpc
  /\ Clusters(0) = 0 /\ Clusters(1) = Bpc
  /\ \A m, n \in Nat :
       /\ Clusters(m + n) = Clusters(m) + Clusters(n)
       /\ m <= n => Clusters(m) <= Clusters(n)
       /\ m < n => Clusters(m) + Bpc <= Clusters(n)
BY BpcPositive, Times DEF Clusters

LEMMA Sizes3 ==
  /\ Bps \in Nat /\ Bps > 0 /\ Spc \in Nat /\ Spc > 0 /\ Bpc \in Nat /\ Bpc > 0 /\ Bps <= Bpc
<1>1. Bps \in Nat /\ Bps > 0 /\ Spc \in Nat /\ Spc > 0
  BY SizesAssumption
<1>2. Sectors(1) <= Sectors(Spc)
  BY <1>1, SectorFacts
<1> QED
  BY <1>1, <1>2, BpcPositive, SectorFacts

\* A number has one quotient and one remainder.
LEMMA DivUnique ==
  ASSUME NEW b \in Nat, b > 0, NEW q \in Nat, NEW r \in Nat, r < b, NEW x \in Nat, x = q * b + r
  PROVE  x \div b = q /\ x % b = r
<1> DEFINE u == x \div b
           v == x % b
<1>1. u \in Nat /\ v \in Nat /\ v < b /\ x = u * b + v
  BY Division
<1> HIDE DEF u, v
<1>2. ~(u < q)
  <2> SUFFICES ASSUME u < q  PROVE FALSE
    OBVIOUS
  <2>1. u * b + b <= q * b
    BY <1>1, Times
  <2>2. u * b \in Nat /\ q * b \in Nat
    BY <1>1, Times
  <2> DEFINE y == u * b
             z == q * b
  <2> HIDE DEF y, z
  <2>3. y + b <= z /\ x = y + v /\ x = z + r /\ y \in Nat /\ z \in Nat
    BY <1>1, <2>1, <2>2 DEF y, z
  <2> QED
    BY <1>1, <2>3
<1>3. ~(q < u)
  <2> SUFFICES ASSUME q < u  PROVE FALSE
    OBVIOUS
  <2>1. q * b + b <= u * b
    BY <1>1, Times
  <2>2. u * b \in Nat /\ q * b \in Nat
    BY <1>1, Times
  <2> DEFINE y == u * b
             z == q * b
  <2> HIDE DEF y, z
  <2>3. z + b <= y /\ x = y + v /\ x = z + r /\ y \in Nat /\ z \in Nat
    BY <1>1, <2>1, <2>2 DEF y, z
  <2> QED
    BY <1>1, <2>3
<1>4. u = q
  BY <1>1, <1>2, <1>3
<1>5. q * b \in Nat
  BY Times
<1>6. v = r
  BY <1>1, <1>4, <1>5
<1> QED
  BY <1>4, <1>6 DEF u, v

LEMMA SectorsOf ==
  ASSUME NEW n \in Nat
  PROVE  /\ n \div Bps \in Nat /\ n % Bps \in Nat /\ n % Bps < Bps /\ n % Bps \in 0 .. Bps - 1
         /\ n = Sectors(n \div Bps) + (n % Bps)
         /\ n < Bpc => n \div Bps < Spc
<1> DEFINE u == n \div Bps
           v == n % Bps
<1>1. u \in Nat /\ v \in Nat /\ v < Bps /\ n = Sectors(u) + v
  BY Sizes3, Division DEF Sectors
<1> HIDE DEF u, v
<1>2. ASSUME n < Bpc  PROVE u < Spc
  <2> SUFFICES ASSUME ~(u < Spc)  PROVE FALSE
    OBVIOUS
  <2>1. Spc <= u
    BY <1>1, Sizes3
  <2>2. Sectors(Spc) <= Sectors(u) /\ Sectors(Spc) = Bpc /\ Sectors(u) \in Nat
    BY <1>1, <2>1, Sizes3, SectorFacts
  <2> QED
    BY <1>1, <1>2, <2>2, Sizes3
<1>3. v \in 0 .. Bps - 1
  BY <1>1, Sizes3
<1> QED
  BY <1>1, <1>2, <1>3 DEF u, v

LEMMA ClustersOf ==
  ASSUME NEW n \in Nat
  PROVE  /\ n \div Bpc \in Nat /\ n % Bpc \in Nat /\ n % Bpc < Bpc
         /\ n = Clusters(n \div Bpc) + (n % Bpc)
BY Sizes3, Division DEF Clusters

LEMMA ClustersUnique ==
  ASSUME NEW r \in Nat, NEW b \in Nat, b < Bpc, NEW x \in Nat, x = Clusters(r) + b
  PROVE  x \div Bpc = r /\ x % Bpc = b
BY Sizes3, DivUnique DEF Clusters

\* The byte x of a file: its cluster, its sector in it, its place in that one.
LEMMA Parts ==
  ASSUME NEW x \in Nat
  PROVE  /\ x \div Bpc \in Nat /\ (x % Bpc) \div Bps \in Nat /\ x % Bps \in Nat
         /\ (x % Bpc) \div Bps < Spc /\ x % Bps < Bps /\ x % Bps \in 0 .. Bps - 1
         /\ x % Bpc = Sectors((x % Bpc) \div Bps) + (x % Bps)
         /\ x = Clusters(x \div Bpc) + Sectors((x % Bpc) \div Bps) + (x % Bps)
<1> DEFINE r == x \div Bpc
           y == x % Bpc
           s == y \div Bps
           b == y % Bps
<1>1. r \in Nat /\ y \in Nat /\ y < Bpc /\ x = Clusters(r) + y
  BY ClustersOf
<1>2. s \in Nat /\ b \in Nat /\ b < Bps /\ b \in 0 .. Bps - 1 /\ y = Sectors(s) + b /\ s < Spc
  BY <1>1, SectorsOf
<1>3. Clusters(r) = Sectors(r * Spc) /\ r * Spc \in Nat
  BY <1>1, Sizes3 DEF Clusters, Sectors, Bpc
<1> HIDE DEF r, y, s, b
<1> DEFINE m == r * Spc
<1> HIDE DEF m
<1>4. m \in Nat /\ Clusters(r) = Sectors(m) /\ m + s \in Nat
  BY <1>1, <1>2, <1>3 DEF m
<1>5. Sectors(m + s) = Sectors(m) + Sectors(s) /\ Sectors(m) \in Nat /\ Sectors(s) \in Nat
  BY <1>2, <1>4, SectorFacts
<1>7. x = Sectors(m + s) + b
  BY <1>1, <1>2, <1>4, <1>5
<1>6. x % Bps = b
  <2> DEFINE q == m + s
  <2>1. q \in Nat /\ x = q * Bps + b
    BY <1>4, <1>7 DEF Sectors
  <2> HIDE DEF q
  <2> QED
    BY <1>2, <2>1, Sizes3, DivUnique
<1>8. Clusters(r) \in Nat /\ Sectors(s) \in Nat
  BY <1>1, <1>2, ClusterFacts, SectorFacts
<1>9. x = Clusters(r) + Sectors(s) + b
  BY <1>1, <1>2, <1>8
<1> QED
  BY <1>1, <1>2, <1>6, <1>9 DEF r, y, s, b

-----------------------------------------------------------------------------
(***************************************************************************)
(* The chains as paths through the table.  Reaches(t, s, k, c): in the     *)
(* table t, the k-th cluster of the chain from s is c, which may be the    *)
(* entry behind the last one.                                              *)
(***************************************************************************)
Table(t) == t \in [Cluster -> Link]
Paths(t, s, k) ==
  {p \in [0 .. k -> Link] :
     /\ p[0] = s /\ ~Ends(p[k])
     /\ \A i \in 0 .. k - 1 : p[i] \in Cluster /\ t[p[i]] = p[i + 1]}
Reaches(t, s, k, c) == k \in Nat /\ \E p \in Paths(t, s, k) : p[k] = c

\* The chain from s has k clusters.
Tight(t, s, k) ==
  \/ k = 0 /\ Ends(s)
  \/ k \in Nat \ {0} /\ \E c \in Link : Reaches(t, s, k - 1, c) /\ (c = Beyond \/ Ends(t[c]))

\* The clusters of a chain that is as long as a file of x bytes needs; where the
\* last one is full, the full disc's entry may follow.
Covers(k, x) == x <= Clusters(k) /\ Clusters(k) < x + Bpc
Fits(t, s, x) ==
  \E k \in Nat : Covers(k, x) /\ (Tight(t, s, k) \/ (x = Clusters(k) /\ Reaches(t, s, k, Beyond)))
Long(t, s, x) == x = 0 \/ \E k \in Nat, c \in Link : Reaches(t, s, k, c) /\ x <= Clusters(k + 1)

\* The position p is the one of the file's byte x; at the flag, of the byte
\* behind the cluster.
Stands(t, s, p, x) ==
  /\ p.sector \in 0 .. Spc /\ (p.sector = Spc => p.byte = 0)
  /\ \E r \in Nat : Reaches(t, s, r, p.cluster) /\ x = Clusters(r) + Sectors(p.sector) + p.byte

\* A cluster was just linked for the bytes from x on, which p is the position of.
Fresh(t, s, p, x) ==
  p.sector = 0 /\ p.byte = 0 /\ \E r \in Nat : x = Clusters(r) /\ Tight(t, s, r + 1)

\* Clusters that follow each other on the disc, and in the chain from rank k on.
Run(t, s, k, c, m) == \A i \in 0 .. m - 1 : Reaches(t, s, k + i, c + i)

LEMMA EndsLinks ==
  /\ \A c \in Link : ~Ends(c) <=> c \in Cluster \cup {Beyond}
  /\ \A c \in Cluster : ~Ends(c)
  /\ ~Ends(Beyond) /\ Ends(Free) /\ Ends(Eof)
BY Outside DEF Ends, Link

LEMMA ReachesType ==
  ASSUME NEW t, NEW s, NEW k, NEW c, Reaches(t, s, k, c)
  PROVE  k \in Nat /\ c \in Link /\ c \in Cluster \cup {Beyond} /\ ~Ends(c) /\ s \in Link /\ ~Ends(s)
<1>1. PICK p \in Paths(t, s, k) : p[k] = c
  BY DEF Reaches
<1>2. k \in Nat
  BY DEF Reaches
<1>3. p \in [0 .. k -> Link] /\ p[0] = s /\ ~Ends(c) /\ \A i \in 0 .. k - 1 : p[i] \in Cluster
  BY <1>1 DEF Paths
<1>4. c \in Link /\ s \in Link
  BY <1>1, <1>2, <1>3
<1>5. ~Ends(s)
  <2>1. CASE k = 0
    BY <1>1, <1>3, <2>1
  <2>2. CASE k # 0
    <3>1. 0 \in 0 .. k - 1
      BY <1>2, <2>2
    <3> QED
      BY <1>3, <3>1, EndsLinks
  <2> QED
    BY <2>1, <2>2
<1> QED
  BY <1>2, <1>3, <1>4, <1>5, EndsLinks

LEMMA ReachesStart ==
  ASSUME NEW t, NEW s
  PROVE  /\ s \in Link /\ ~Ends(s) => Reaches(t, s, 0, s)
         /\ \A c : Reaches(t, s, 0, c) => c = s
<1>1. ASSUME s \in Link, ~Ends(s)  PROVE Reaches(t, s, 0, s)
  <2> DEFINE p == [i \in 0 .. 0 |-> s]
  <2>1. p \in [0 .. 0 -> Link] /\ p[0] = s
    BY <1>1
  <2> HIDE DEF p
  <2>2. p \in Paths(t, s, 0)
    BY <1>1, <2>1 DEF Paths
  <2> QED
    BY <2>1, <2>2 DEF Reaches
<1>2. ASSUME NEW c, Reaches(t, s, 0, c)  PROVE c = s
  BY <1>2 DEF Reaches, Paths
<1> QED
  BY <1>1, <1>2

LEMMA ReachesNext ==
  ASSUME NEW t, Table(t), NEW s, NEW k, NEW c, Reaches(t, s, k, c), c \in Cluster, ~Ends(t[c])
  PROVE  Reaches(t, s, k + 1, t[c])
<1>1. PICK p \in Paths(t, s, k) : p[k] = c
  BY DEF Reaches
<1>2. k \in Nat
  BY DEF Reaches
<1> DEFINE q == [i \in 0 .. k + 1 |-> IF i = k + 1 THEN t[c] ELSE p[i]]
<1>3. /\ p \in [0 .. k -> Link] /\ p[0] = s
      /\ \A i \in 0 .. k - 1 : p[i] \in Cluster /\ t[p[i]] = p[i + 1]
  BY <1>1 DEF Paths
<1>4. t[c] \in Link
  BY DEF Table
<1>5. q \in [0 .. k + 1 -> Link]
  BY <1>2, <1>3, <1>4
<1>6. q[0] = s /\ q[k + 1] = t[c]
  BY <1>2, <1>3
<1>7. ASSUME NEW i \in 0 .. (k + 1) - 1  PROVE q[i] \in Cluster /\ t[q[i]] = q[i + 1]
  <2>1. CASE i = k
    BY <1>1, <1>2, <2>1
  <2>2. CASE i # k
    <3>1. i \in 0 .. k - 1 /\ i + 1 \in 0 .. k
      BY <1>2, <2>2
    <3> QED
      BY <1>2, <1>3, <3>1
  <2> QED
    BY <2>1, <2>2
<1> HIDE DEF q
<1>8. q \in Paths(t, s, k + 1)
  BY <1>5, <1>6, <1>7 DEF Paths
<1> QED
  BY <1>2, <1>6, <1>8 DEF Reaches

\* The cluster of a lower rank.
LEMMA ReachesBack ==
  ASSUME NEW t, NEW s, NEW k, NEW d, Reaches(t, s, k, d), NEW j \in Nat, j < k
  PROVE  \E c \in Cluster : Reaches(t, s, j, c) /\ (j + 1 = k => t[c] = d) /\ ~Ends(t[c])
<1>1. PICK p \in Paths(t, s, k) : p[k] = d
  BY DEF Reaches
<1>2. k \in Nat
  BY DEF Reaches
<1>3. /\ p \in [0 .. k -> Link] /\ p[0] = s /\ ~Ends(p[k])
      /\ \A i \in 0 .. k - 1 : p[i] \in Cluster /\ t[p[i]] = p[i + 1]
  BY <1>1 DEF Paths
<1> DEFINE q == [i \in 0 .. j |-> p[i]]
<1>4. j \in 0 .. k - 1 /\ j + 1 \in 0 .. k /\ p[j] \in Cluster /\ t[p[j]] = p[j + 1]
  BY <1>2, <1>3
<1>5. ~Ends(p[j + 1])
  <2>1. CASE j + 1 = k
    BY <1>3, <2>1
  <2>2. CASE j + 1 # k
    <3>1. j + 1 \in 0 .. k - 1
      BY <1>2, <2>2
    <3> QED
      BY <1>3, <3>1, EndsLinks
  <2> QED
    BY <2>1, <2>2
<1>6. q \in [0 .. j -> Link] /\ q[0] = s /\ q[j] = p[j]
  BY <1>2, <1>3
<1>7. ASSUME NEW i \in 0 .. j - 1  PROVE q[i] \in Cluster /\ t[q[i]] = q[i + 1]
  <2>1. i \in 0 .. k - 1 /\ i \in 0 .. j /\ i + 1 \in 0 .. j
    BY <1>2
  <2> QED
    BY <1>3, <2>1
<1> HIDE DEF q
<1>8. q \in Paths(t, s, j)
  BY <1>4, <1>6, <1>7, EndsLinks DEF Paths
<1>9. Reaches(t, s, j, p[j])
  BY <1>6, <1>8 DEF Reaches
<1> QED
  BY <1>1, <1>4, <1>5, <1>9

LEMMA ReachesOne ==
  ASSUME NEW t, NEW s
  PROVE  \A k \in Nat : \A c, d : Reaches(t, s, k, c) /\ Reaches(t, s, k, d) => c = d
<1> DEFINE S == {k \in Nat : \A c, d : Reaches(t, s, k, c) /\ Reaches(t, s, k, d) => c = d}
<1>1. 0 \in S
  BY ReachesStart
<1>2. ASSUME NEW k \in Nat, k \in S  PROVE k + 1 \in S
  <2>1. ASSUME NEW c, NEW d, Reaches(t, s, k + 1, c), Reaches(t, s, k + 1, d)  PROVE c = d
    <3>1. PICK a \in Cluster : Reaches(t, s, k, a) /\ t[a] = c
      BY <2>1, ReachesBack
    <3>2. PICK b \in Cluster : Reaches(t, s, k, b) /\ t[b] = d
      BY <2>1, ReachesBack
    <3> QED
      BY <1>2, <3>1, <3>2
  <2> QED
    BY <2>1
<1> HIDE DEF S
<1>3. Nat \subseteq S
  BY <1>1, <1>2, UpFromZero
<1> QED
  BY <1>3 DEF S

\* A chain has nothing behind its end.
LEMMA TightEnds ==
  ASSUME NEW t, NEW s, NEW k, Tight(t, s, k), NEW j, NEW d, Reaches(t, s, j, d)
  PROVE  k \in Nat /\ j < k /\ (j + 1 = k => d = Beyond \/ Ends(t[d]))
<1>1. j \in Nat /\ ~Ends(s)
  BY ReachesType
<1>2. k \in Nat \ {0}
  BY <1>1 DEF Tight
<1>3. PICK c \in Link : Reaches(t, s, k - 1, c) /\ (c = Beyond \/ Ends(t[c]))
  BY <1>1 DEF Tight
<1>4. j < k
  <2> SUFFICES ASSUME ~(j < k)  PROVE FALSE
    OBVIOUS
  <2>1. k - 1 \in Nat /\ k - 1 < j
    BY <1>1, <1>2
  <2>2. PICK e \in Cluster : Reaches(t, s, k - 1, e) /\ ~Ends(t[e])
    BY <2>1, ReachesBack
  <2>3. e = c
    BY <1>3, <2>1, <2>2, ReachesOne
  <2> QED
    BY <1>3, <2>2, <2>3, Outside
<1>5. ASSUME j + 1 = k  PROVE d = c
  <2>1. k - 1 = j
    BY <1>1, <1>2, <1>5
  <2> QED
    BY <1>1, <1>3, <2>1, ReachesOne
<1> QED
  BY <1>2, <1>3, <1>4, <1>5

LEMMA TightOne ==
  ASSUME NEW t, NEW s, NEW k, NEW l, Tight(t, s, k), Tight(t, s, l)
  PROVE  k = l
<1>1. CASE Ends(s)
  BY <1>1, ReachesType DEF Tight
<1>2. CASE ~Ends(s)
  <2>1. k \in Nat \ {0} /\ l \in Nat \ {0}
    BY <1>2 DEF Tight
  <2>2. (\E c \in Link : Reaches(t, s, k - 1, c)) /\ (\E c \in Link : Reaches(t, s, l - 1, c))
    BY <1>2 DEF Tight
  <2>3. k - 1 < l /\ l - 1 < k
    BY <2>2, TightEnds
  <2> QED
    BY <2>1, <2>3
<1> QED
  BY <1>1, <1>2

LEMMA TightAt ==
  ASSUME NEW t, NEW s, NEW k, NEW c, Reaches(t, s, k, c), c = Beyond \/ Ends(t[c])
  PROVE  Tight(t, s, k + 1)
<1>1. k \in Nat /\ c \in Link
  BY ReachesType
<1>2. k + 1 \in Nat \ {0} /\ (k + 1) - 1 = k
  BY <1>1
<1> QED
  BY <1>1, <1>2 DEF Tight

\* The table u has the links that the chain from s has in t.
SameLinks(t, u, s) ==
  \A k, c : Reaches(t, s, k, c) /\ c \in Cluster /\ ~Ends(t[c]) => u[c] = t[c]
SameEnds(t, u, s) ==
  \A k, c : Reaches(t, s, k, c) /\ c \in Cluster => u[c] = t[c]
Keeps(t, u, s) == \A k, c : Reaches(t, s, k, c) => Reaches(u, s, k, c)
Ended(t, u, s) == \A k : Tight(t, s, k) => Tight(u, s, k)

LEMMA LinksKeep ==
  ASSUME NEW t, NEW u, Table(u), NEW s, SameLinks(t, u, s)
  PROVE  Keeps(t, u, s)
<1> DEFINE S == {k \in Nat : \A c : Reaches(t, s, k, c) => Reaches(u, s, k, c)}
<1>1. 0 \in S
  <2>1. ASSUME NEW c, Reaches(t, s, 0, c)  PROVE Reaches(u, s, 0, c)
    BY <2>1, ReachesStart, ReachesType
  <2> QED
    BY <2>1
<1>2. ASSUME NEW k \in Nat, k \in S  PROVE k + 1 \in S
  <2>1. ASSUME NEW d, Reaches(t, s, k + 1, d)  PROVE Reaches(u, s, k + 1, d)
    <3>1. PICK c \in Cluster : Reaches(t, s, k, c) /\ t[c] = d /\ ~Ends(t[c])
      BY <2>1, ReachesBack
    <3>2. u[c] = t[c] /\ Reaches(u, s, k, c)
      BY <1>2, <3>1 DEF SameLinks
    <3> QED
      BY <3>1, <3>2, ReachesNext
  <2> QED
    BY <2>1
<1> HIDE DEF S
<1>3. Nat \subseteq S
  BY <1>1, <1>2, UpFromZero
<1>4. \A k, c : Reaches(t, s, k, c) => k \in S
  BY <1>3 DEF Reaches
<1> QED
  BY <1>4 DEF S, Keeps

LEMMA EndsKeep ==
  ASSUME NEW t, NEW u, Table(u), NEW s, SameEnds(t, u, s)
  PROVE  Keeps(t, u, s) /\ Ended(t, u, s)
<1>1. Keeps(t, u, s)
  BY LinksKeep DEF SameLinks, SameEnds
<1>2. ASSUME NEW k, Tight(t, s, k)  PROVE Tight(u, s, k)
  <2>1. CASE k = 0
    BY <1>2, <2>1 DEF Tight
  <2>2. CASE k # 0
    <3>1. k \in Nat \ {0}
      BY <1>2, <2>2 DEF Tight
    <3>2. PICK c \in Link : Reaches(t, s, k - 1, c) /\ (c = Beyond \/ Ends(t[c]))
      BY <1>2, <2>2 DEF Tight
    <3>3. Reaches(u, s, k - 1, c)
      BY <1>1, <3>2 DEF Keeps
    <3>4. c = Beyond \/ Ends(u[c])
      <4>1. c \in Cluster \cup {Beyond}
        BY <3>2, ReachesType
      <4> QED
        BY <3>2, <4>1 DEF SameEnds
    <3> QED
      BY <3>1, <3>2, <3>3, <3>4 DEF Tight
  <2> QED
    BY <2>1, <2>2
<1> QED
  BY <1>1, <1>2 DEF Ended

\* No chain begins with an end.
LEMMA NoChain ==
  ASSUME NEW t, NEW u, NEW s, Ends(s)
  PROVE  Keeps(t, u, s) /\ Ended(t, u, s)
<1>1. \A k, c : ~Reaches(t, s, k, c)
  BY ReachesType
<1> QED
  BY <1>1 DEF Keeps, Ended, Tight

LEMMA SameTable == ASSUME NEW t, NEW s  PROVE Keeps(t, t, s) /\ Ended(t, t, s)
BY DEF Keeps, Ended

LEMMA ChainsKept ==
  ASSUME NEW t, NEW u, NEW s, Keeps(t, u, s)
  PROVE  /\ \A p, x : Stands(t, s, p, x) => Stands(u, s, p, x)
         /\ \A x : Long(t, s, x) => Long(u, s, x)
         /\ \A k, c, m : Run(t, s, k, c, m) => Run(u, s, k, c, m)
         /\ Ended(t, u, s) => \A x : Fits(t, s, x) => Fits(u, s, x)
         /\ Ended(t, u, s) => \A p, x : Fresh(t, s, p, x) => Fresh(u, s, p, x)
<1>1. \A p, x : Stands(t, s, p, x) => Stands(u, s, p, x)
  BY DEF Keeps, Stands
<1>2. \A x : Long(t, s, x) => Long(u, s, x)
  BY DEF Keeps, Long
<1>3. \A k, c, m : Run(t, s, k, c, m) => Run(u, s, k, c, m)
  BY DEF Keeps, Run
<1>4. Ended(t, u, s) => \A x : Fits(t, s, x) => Fits(u, s, x)
  BY DEF Keeps, Ended, Fits
<1>5. Ended(t, u, s) => \A p, x : Fresh(t, s, p, x) => Fresh(u, s, p, x)
  BY DEF Ended, Fresh
<1> QED
  BY <1>1, <1>2, <1>3, <1>4, <1>5

LEMMA SpotFacts ==
  ASSUME NEW p \in Spot
  PROVE  /\ p.cluster \in Link /\ p.sector \in Nat /\ p.byte \in Nat /\ p.byte < Bps
         /\ p.byte \in 0 .. Bps - 1 /\ p.sector + 1 \in Nat
         /\ Sectors(p.sector) \in Nat /\ Sectors(p.sector + 1) = Sectors(p.sector) + Bps
<1>1. p.cluster \in Link /\ p.sector \in Nat /\ p.byte \in 0 .. Bps - 1
  BY SpotParts
<1>2. p.byte \in Nat /\ p.byte < Bps
  BY <1>1, Sizes3
<1>3. Sectors(p.sector) \in Nat /\ Sectors(p.sector + 1) = Sectors(p.sector) + Bps
  BY <1>1, SectorFacts
<1> QED
  BY <1>1, <1>2, <1>3

LEMMA RankFacts ==
  ASSUME NEW r \in Nat
  PROVE  /\ r + 1 \in Nat /\ Clusters(r) \in Nat /\ Clusters(r + 1) \in Nat
         /\ Clusters(r + 1) = Clusters(r) + Bpc
<1>1. r + 1 \in Nat
  OBVIOUS
<1> QED
  BY <1>1, ClusterFacts

\* How long a chain is.
LEMMA LongReaches ==
  ASSUME NEW t, NEW s, NEW x \in Nat, Long(t, s, x), NEW k \in Nat, Clusters(k) < x
  PROVE  \E c \in Link : Reaches(t, s, k, c)
<1>1. Clusters(k) \in Nat
  BY ClusterFacts
<1>2. PICK j \in Nat, c \in Link : Reaches(t, s, j, c) /\ x <= Clusters(j + 1)
  BY <1>1 DEF Long
<1>3. ~(j < k)
  <2> SUFFICES ASSUME j < k  PROVE FALSE
    OBVIOUS
  <2>1. j + 1 \in Nat /\ j + 1 <= k
    OBVIOUS
  <2>3. Clusters(j + 1) <= Clusters(k) /\ Clusters(j + 1) \in Nat
    BY <2>1, ClusterFacts
  <2> QED
    BY <1>1, <1>2, <2>3
<1>4. CASE j = k
  BY <1>2, <1>4
<1>5. CASE k < j
  <2>1. \E d \in Cluster : Reaches(t, s, k, d)
    BY <1>2, <1>5, ReachesBack
  <2> QED
    BY <2>1, Outside
<1> QED
  BY <1>3, <1>4, <1>5

LEMMA LongLess ==
  ASSUME NEW t, NEW s, NEW x \in Nat, Long(t, s, x), NEW y \in Nat, y <= x
  PROVE  Long(t, s, y)
<1>1. CASE x = 0
  BY <1>1 DEF Long
<1>2. CASE x # 0
  <2>1. PICK j \in Nat, c \in Link : Reaches(t, s, j, c) /\ x <= Clusters(j + 1)
    BY <1>2 DEF Long
  <2>2. j + 1 \in Nat /\ Clusters(j + 1) \in Nat
    BY RankFacts
  <2>3. y <= Clusters(j + 1)
    BY <2>1, <2>2
  <2> QED
    BY <2>1, <2>3 DEF Long
<1> QED
  BY <1>1, <1>2

LEMMA FitsLong ==
  ASSUME NEW t, NEW s, NEW x \in Nat, Fits(t, s, x)
  PROVE  Long(t, s, x)
<1>1. PICK k \in Nat : Covers(k, x) /\ (Tight(t, s, k) \/ Reaches(t, s, k, Beyond))
  BY DEF Fits
<1>2. x <= Clusters(k)
  BY <1>1 DEF Covers
<1>3. CASE k = 0
  <2>1. x = 0
    BY <1>2, <1>3, ClusterFacts
  <2> QED
    BY <2>1 DEF Long
<1>4. CASE k # 0
  <2>1. k - 1 \in Nat /\ (k - 1) + 1 = k /\ k - 1 < k
    BY <1>4
  <2>2. \E c \in Link : Reaches(t, s, k - 1, c)
    <3>1. CASE Tight(t, s, k)
      BY <1>4, <3>1 DEF Tight
    <3>2. CASE Reaches(t, s, k, Beyond)
      <4>1. \E c \in Cluster : Reaches(t, s, k - 1, c)
        BY <2>1, <3>2, ReachesBack
      <4> QED
        BY <4>1, Outside
    <3> QED
      BY <1>1, <3>1, <3>2
  <2> QED
    BY <1>2, <2>1, <2>2 DEF Long
<1> QED
  BY <1>3, <1>4

\* An empty file has no cluster.
LEMMA FitsNothing ==
  ASSUME NEW t, NEW s, Fits(t, s, 0), s # Beyond
  PROVE  Ends(s)
<1>1. PICK k \in Nat : Covers(k, 0) /\ (Tight(t, s, k) \/ Reaches(t, s, k, Beyond))
  BY DEF Fits
<1>2. k = 0
  <2> SUFFICES ASSUME 0 < k  PROVE FALSE
    BY <1>1
  <2>1. Clusters(0) + Bpc <= Clusters(k)
    BY <1>1, ClusterFacts
  <2> QED
    BY <1>1, <2>1, ClusterFacts, Sizes3 DEF Covers
<1> QED
  BY <1>1, <1>2, ReachesStart DEF Tight

\* Positions move on within their cluster.
LEMMA StandsMoved ==
  ASSUME NEW t, NEW s, NEW p \in Spot, NEW x \in Nat, Stands(t, s, p, x), NEW q \in Spot,
         NEW n \in Nat, q.cluster = p.cluster, q.sector <= Spc, q.sector = Spc => q.byte = 0,
         Sectors(q.sector) + q.byte = Sectors(p.sector) + p.byte + n
  PROVE  Stands(t, s, q, x + n)
<1>1. PICK r \in Nat : Reaches(t, s, r, p.cluster) /\ x = Clusters(r) + Sectors(p.sector) + p.byte
  BY DEF Stands
<1>2. /\ p.sector \in Nat /\ p.byte \in Nat /\ q.sector \in Nat /\ q.byte \in Nat
      /\ Sectors(p.sector) \in Nat /\ Sectors(q.sector) \in Nat /\ Clusters(r) \in Nat /\ Spc \in Nat
  BY SpotFacts, RankFacts, Sizes3
<1>3. x + n = Clusters(r) + Sectors(q.sector) + q.byte /\ q.sector \in 0 .. Spc
  BY <1>1, <1>2
<1> QED
  BY <1>1, <1>3 DEF Stands

LEMMA StandsAfter ==
  ASSUME NEW t, NEW s, NEW p \in Spot, NEW x \in Nat, Stands(t, s, p, x), p.sector < Spc,
         NEW n \in Nat, n <= Bps - p.byte
  PROVE  /\ Stands(t, s, After(p, n), x + n)
         /\ After(p, n).sector <= Spc /\ (After(p, n).sector = Spc => After(p, n).byte = 0)
         /\ After(p, n) \in Spot
         /\ Sectors(After(p, n).sector) + After(p, n).byte = Sectors(p.sector) + p.byte + n
<1>1. /\ p.cluster \in Link /\ p.sector \in Nat /\ p.byte \in Nat /\ p.byte < Bps /\ Bps \in Nat
      /\ Spc \in Nat /\ Sectors(p.sector) \in Nat /\ Sectors(p.sector + 1) = Sectors(p.sector) + Bps
  BY SpotFacts, Sizes3
<1> DEFINE q == After(p, n)
<1>2. q \in Spot /\ q.cluster = p.cluster
  BY AfterType
<1>3. /\ q.sector <= Spc /\ (q.sector = Spc => q.byte = 0)
      /\ Sectors(q.sector) + q.byte = Sectors(p.sector) + p.byte + n
  <2>1. CASE p.byte + n >= Bps
    <3>1. q.sector = p.sector + 1 /\ q.byte = 0 /\ p.byte + n = Bps
      BY <1>1, <2>1 DEF After, Position
    <3> HIDE DEF q
    <3> QED
      BY <1>1, <3>1
  <2>2. CASE ~(p.byte + n >= Bps)
    <3>1. q.sector = p.sector /\ q.byte = p.byte + n
      BY <1>1, <2>2 DEF After, Position
    <3> HIDE DEF q
    <3> QED
      BY <1>1, <3>1
  <2> QED
    BY <2>1, <2>2
<1> HIDE DEF q
<1>4. Stands(t, s, q, x + n)
  BY <1>2, <1>3, StandsMoved
<1> QED
  BY <1>2, <1>3, <1>4 DEF q

LEMMA StandsBySectors ==
  ASSUME NEW t, NEW s, NEW p \in Spot, NEW x \in Nat, Stands(t, s, p, x),
         NEW m \in Nat, p.sector + m <= Spc, p.byte = 0 \/ m = 0
  PROVE  Stands(t, s, BySectors(p, m), x + Sectors(m))
<1>1. p.sector \in Nat /\ p.byte \in Nat /\ Spc \in Nat /\ Sectors(p.sector + m) = Sectors(p.sector) + Sectors(m)
      /\ Sectors(p.sector) \in Nat /\ Sectors(m) \in Nat
  <2>1. p.sector \in Nat /\ p.byte \in Nat /\ Spc \in Nat
    BY SpotFacts, Sizes3
  <2> QED
    BY <2>1, SectorFacts
<1> DEFINE q == BySectors(p, m)
<1>2. q \in Spot /\ q.cluster = p.cluster /\ q.byte = p.byte /\ q.sector = p.sector + m
  BY BySectorsType DEF BySectors, Spot
<1> HIDE DEF q
<1>3. p.sector = Spc => p.byte = 0
  BY DEF Stands
<1>4. q.sector = Spc => q.byte = 0
  BY <1>1, <1>2, <1>3
<1>5. Sectors(q.sector) + q.byte = Sectors(p.sector) + p.byte + Sectors(m)
  BY <1>1, <1>2
<1>6. Stands(t, s, q, x + Sectors(m))
  BY <1>1, <1>2, <1>4, <1>5, StandsMoved
<1> QED
  BY <1>6 DEF q

LEMMA StandsByBytes ==
  ASSUME NEW t, NEW s, NEW p \in Spot, NEW x \in Nat, Stands(t, s, p, x), p.sector < Spc \/ p.byte = 0,
         NEW n \in Nat, p.byte + n < Bps, n > 0 => p.sector < Spc
  PROVE  Stands(t, s, [p EXCEPT !.byte = @ + n], x + n) /\ [p EXCEPT !.byte = @ + n] \in Spot
<1>1. p.sector \in Nat /\ p.byte \in Nat /\ Sectors(p.sector) \in Nat /\ Bps \in Nat /\ Spc \in Nat
  BY SpotFacts, Sizes3
<1> DEFINE q == [p EXCEPT !.byte = @ + n]
<1>2. p.byte + n \in 0 .. Bps - 1
  BY <1>1
<1>3. q \in Spot /\ q.cluster = p.cluster /\ q.sector = p.sector /\ q.byte = p.byte + n
  BY <1>2 DEF Spot
<1> HIDE DEF q
<1>4. p.sector \in 0 .. Spc
  BY DEF Stands
<1>5. q.sector <= Spc /\ (q.sector = Spc => q.byte = 0)
  BY <1>1, <1>3, <1>4
<1>6. Sectors(q.sector) + q.byte = Sectors(p.sector) + p.byte + n
  BY <1>1, <1>3
<1>7. Stands(t, s, q, x + n)
  BY <1>3, <1>5, <1>6, StandsMoved
<1> QED
  BY <1>3, <1>7 DEF q

\* From the edge of a cluster to the next one.
LEMMA StandsOver ==
  ASSUME NEW t, Table(t), NEW s, NEW p \in Spot, NEW x \in Nat, Stands(t, s, p, x), p.sector = Spc,
         NEW c \in Link, NEW q \in Spot, q.cluster = c, q.sector = 0, q.byte = 0,
         \A r \in Nat : Reaches(t, s, r, p.cluster) => Reaches(t, s, r + 1, c)
  PROVE  Stands(t, s, q, x)
<1>1. PICK r \in Nat : Reaches(t, s, r, p.cluster) /\ x = Clusters(r) + Sectors(p.sector) + p.byte
  BY DEF Stands
<1>2. p.byte = 0 /\ Sectors(Spc) = Bpc /\ Sectors(0) = 0
  BY SectorFacts DEF Stands
<1>3. r + 1 \in Nat /\ Clusters(r + 1) = Clusters(r) + Bpc /\ Clusters(r) \in Nat /\ Clusters(r + 1) \in Nat
  BY RankFacts
<1>4. Reaches(t, s, r + 1, q.cluster) /\ 0 \in 0 .. Spc /\ Spc # 0
  BY <1>1, Sizes3
<1>5. x = Clusters(r + 1) + Sectors(q.sector) + q.byte
  BY <1>1, <1>2, <1>3, Sizes3
<1> QED
  BY <1>3, <1>4, <1>5 DEF Stands

\* What is written from p on, within its cluster, is the end of a chain that
\* had room for it.
Most(a, b) == IF a < b THEN b ELSE a

LEMMA Filled ==
  ASSUME NEW t, NEW s, NEW p \in Spot, NEW x \in Nat, Stands(t, s, p, x), p.sector < Spc,
         NEW n \in Nat, n > 0, Sectors(p.sector) + p.byte + n <= Bpc,
         NEW y \in Nat, Fits(t, s, y) \/ (Fresh(t, s, p, x) /\ y <= x)
  PROVE  Fits(t, s, Most(y, x + n))
<1>1. PICK r \in Nat : Reaches(t, s, r, p.cluster) /\ x = Clusters(r) + Sectors(p.sector) + p.byte
  BY DEF Stands
<1> DEFINE z == Most(y, x + n)
<1>2. z \in Nat /\ y <= z /\ x + n <= z /\ (z = y \/ z = x + n)
  BY DEF Most
<1> HIDE DEF z
<1> SUFFICES Fits(t, s, z)
  BY DEF z
<1>3. /\ p.sector \in Nat /\ p.byte \in Nat /\ Sectors(p.sector) \in Nat /\ Clusters(r) \in Nat
      /\ Clusters(r + 1) = Clusters(r) + Bpc /\ r + 1 \in Nat /\ Bpc \in Nat /\ Bpc > 0
  BY SpotFacts, RankFacts, Sizes3
<1>4. x + n <= Clusters(r + 1) /\ Clusters(r) < x + n /\ Clusters(r) <= x
  BY <1>1, <1>3
<1>5. ASSUME NEW k \in Nat, Tight(t, s, k), y <= Clusters(k), Clusters(k) < y + Bpc \/ k = r + 1
      PROVE  Fits(t, s, z)
  <2>1. r < k
    BY <1>1, <1>5, TightEnds
  <2>2. Clusters(r + 1) <= Clusters(k) /\ Clusters(k) \in Nat
    BY <1>3, <2>1, ClusterFacts
  <2>3. z <= Clusters(k)
    BY <1>2, <1>3, <1>4, <1>5, <2>2
  <2>4. Clusters(k) < z + Bpc
    BY <1>2, <1>3, <1>4, <1>5, <2>2
  <2> QED
    BY <1>5, <2>3, <2>4 DEF Fits, Covers
<1>6. CASE Fits(t, s, y)
  <2>1. PICK k \in Nat : Covers(k, y) /\ (Tight(t, s, k) \/ (y = Clusters(k) /\ Reaches(t, s, k, Beyond)))
    BY <1>6 DEF Fits
  <2>2. CASE Tight(t, s, k)
    BY <1>5, <2>1, <2>2 DEF Covers
  <2>3. CASE y = Clusters(k) /\ Reaches(t, s, k, Beyond)
    <3>1. Tight(t, s, k + 1) /\ k + 1 \in Nat
      BY <2>3, TightAt
    <3>2. r < k + 1
      BY <1>1, <3>1, TightEnds
    <3>3. CASE r = k
      <4>1. y <= Clusters(r + 1)
        BY <1>3, <2>3, <3>3
      <4> QED
        BY <1>5, <3>1, <3>3, <4>1
    <3>4. CASE r < k
      <4>1. Clusters(r + 1) <= Clusters(k) /\ Clusters(k) \in Nat
        BY <1>3, <3>4, ClusterFacts
      <4>2. z = y
        BY <1>2, <1>3, <1>4, <2>3, <4>1
      <4> QED
        BY <1>6, <4>2
    <3> QED
      BY <3>2, <3>3, <3>4
  <2> QED
    BY <2>1, <2>2, <2>3
<1>7. CASE Fresh(t, s, p, x) /\ y <= x
  <2>1. PICK k \in Nat : x = Clusters(k) /\ Tight(t, s, k + 1)
    BY <1>7 DEF Fresh
  <2>2. p.sector = 0 /\ p.byte = 0 /\ Sectors(0) = 0
    BY <1>7, SectorFacts DEF Fresh
  <2>3. k = r
    <3>1. Clusters(k) = Clusters(r)
      BY <1>1, <1>3, <2>1, <2>2
    <3>2. (k < r => Clusters(k) + Bpc <= Clusters(r)) /\ (r < k => Clusters(r) + Bpc <= Clusters(k))
      BY ClusterFacts
    <3> QED
      BY <1>3, <3>1, <3>2
  <2>4. y <= Clusters(r + 1)
    BY <1>3, <1>4, <1>7
  <2> QED
    BY <1>3, <1>5, <2>1, <2>3, <2>4
<1> QED
  BY <1>6, <1>7

\* The position that a seek computes for the byte x, and the one of a file's end.
LEMMA StandsAt ==
  ASSUME NEW t, NEW s, NEW p \in Spot, NEW x \in Nat, Reaches(t, s, x \div Bpc, p.cluster),
         p.sector = (x % Bpc) \div Bps, p.byte = x % Bps
  PROVE  Stands(t, s, p, x)
<1>1. /\ x \div Bpc \in Nat /\ (x % Bpc) \div Bps \in Nat /\ (x % Bpc) \div Bps < Spc
      /\ x = Clusters(x \div Bpc) + Sectors((x % Bpc) \div Bps) + (x % Bps)
  BY Parts
<1>2. p.sector \in 0 .. Spc /\ p.sector # Spc
  BY <1>1, Sizes3
<1> DEFINE r == x \div Bpc
<1>3. r \in Nat /\ Reaches(t, s, r, p.cluster) /\ x = Clusters(r) + Sectors(p.sector) + p.byte
  BY <1>1
<1> HIDE DEF r
<1> QED
  BY <1>2, <1>3 DEF Stands

LEMMA StandsAtEdge ==
  ASSUME NEW t, NEW s, NEW p \in Spot, NEW r \in Nat, Reaches(t, s, r, p.cluster),
         p.sector = Spc, p.byte = 0
  PROVE  Stands(t, s, p, Clusters(r + 1))
<1>1. Clusters(r + 1) = Clusters(r) + Bpc /\ Clusters(r) \in Nat /\ Sectors(Spc) = Bpc /\ Bpc \in Nat
  BY RankFacts, SectorFacts, Sizes3
<1>2. Spc \in 0 .. Spc
  BY Sizes3
<1> QED
  BY <1>1, <1>2 DEF Stands

LEMMA StandsAtHead ==
  ASSUME NEW t, NEW s, NEW p \in Spot, NEW r \in Nat, Reaches(t, s, r, p.cluster),
         p.sector = 0, p.byte = 0
  PROVE  Stands(t, s, p, Clusters(r))
<1>1. Clusters(r) \in Nat /\ Sectors(0) = 0 /\ 0 \in 0 .. Spc /\ Spc # 0
  BY RankFacts, SectorFacts, Sizes3
<1> QED
  BY <1>1 DEF Stands

\* The number of clusters of x bytes.
LEMMA CoversOne ==
  ASSUME NEW x \in Nat, NEW k \in Nat, Covers(k, x), NEW l \in Nat, Covers(l, x)
  PROVE  k = l
<1>1. Clusters(k) \in Nat /\ Clusters(l) \in Nat /\ Bpc \in Nat
  BY ClusterFacts, Sizes3
<1>2. (k < l => Clusters(k) + Bpc <= Clusters(l)) /\ (l < k => Clusters(l) + Bpc <= Clusters(k))
  BY ClusterFacts
<1> QED
  BY <1>1, <1>2 DEF Covers

LEMMA CoversQuotient ==
  ASSUME NEW x \in Nat, NEW k \in Nat, Covers(k + 1, x), x # Clusters(k + 1)
  PROVE  (x \div Bpc = k /\ x % Bpc # 0) \/ x = Clusters(k)
<1>1. Clusters(k) \in Nat /\ Clusters(k + 1) = Clusters(k) + Bpc /\ Bpc \in Nat
  BY RankFacts, Sizes3
<1>2. x - Clusters(k) \in Nat /\ x - Clusters(k) < Bpc /\ x = Clusters(k) + (x - Clusters(k))
  BY <1>1 DEF Covers
<1> DEFINE b == x - Clusters(k)
<1>3. b \in Nat /\ b < Bpc /\ x = Clusters(k) + b
  BY <1>2
<1> HIDE DEF b
<1>4. x \div Bpc = k /\ x % Bpc = b
  BY <1>3, ClustersUnique
<1> QED
  BY <1>1, <1>3, <1>4

LEMMA EdgeRest ==
  ASSUME NEW k \in Nat
  PROVE  Clusters(k) % Bpc = 0 /\ Clusters(k) \div Bpc = k /\ Clusters(k) % Bps = 0
<1> DEFINE x == Clusters(k)
<1>0. Clusters(k) \in Nat
  BY RankFacts
<1>1. x \in Nat /\ x = Clusters(k) + 0
  BY <1>0
<1>2. x = Sectors(k * Spc) /\ k * Spc \in Nat
  BY Sizes3 DEF Clusters, Sectors, Bpc
<1> DEFINE m == k * Spc
<1> HIDE DEF m
<1>3. m \in Nat /\ x = Sectors(m) + 0
  BY <1>1, <1>2 DEF m
<1> HIDE DEF x
<1>4. x \div Bpc = k /\ x % Bpc = 0
  BY <1>1, Sizes3, ClustersUnique
<1>5. x % Bps = 0
  <2>1. x = m * Bps + 0
    BY <1>3 DEF Sectors
  <2> QED
    BY <1>1, <1>3, <2>1, Sizes3, DivUnique
<1> QED
  BY <1>4, <1>5 DEF x

LEMMA StandsAtEnd ==
  ASSUME NEW t, NEW s, NEW c \in Link, NEW x \in Nat, NEW k \in Nat, Reaches(t, s, k, c),
         Covers(k + 1, x), x > 0
  PROVE  Stands(t, s, EndPosition(c, x), x)
<1> DEFINE p == EndPosition(c, x)
<1>0. p \in Spot /\ p.cluster = c
  BY EndPositionType
<1>1. /\ Clusters(k) \in Nat /\ Clusters(k + 1) = Clusters(k) + Bpc /\ Clusters(k + 1) \in Nat
      /\ Bpc \in Nat /\ k + 1 \in Nat
  BY RankFacts, Sizes3
<1>2. CASE x = Clusters(k + 1)
  <2>1. x % Bpc = 0 /\ x % Bps = 0
    BY <1>1, <1>2, EdgeRest
  <2>2. p.sector = Spc /\ p.byte = 0
    BY <2>1 DEF EndPosition, Position
  <2> HIDE DEF p
  <2>3. Stands(t, s, p, x)
    BY <1>0, <1>2, <2>2, StandsAtEdge
  <2> QED
    BY <2>3 DEF p
<1>3. CASE x # Clusters(k + 1)
  <2>1. x # Clusters(k)
    BY <1>1 DEF Covers
  <2>2. x \div Bpc = k /\ x % Bpc # 0
    BY <1>3, <2>1, CoversQuotient
  <2>3. p.sector = (x % Bpc) \div Bps /\ p.byte = x % Bps
    BY <2>2 DEF EndPosition, Position
  <2> HIDE DEF p
  <2>4. Stands(t, s, p, x)
    BY <1>0, <2>2, <2>3, StandsAt
  <2> QED
    BY <2>4 DEF p
<1> QED
  BY <1>2, <1>3

-----------------------------------------------------------------------------
(***************************************************************************)
(* Transfers.  InPlace: each of the n bytes from the file's byte off on is *)
(* where the chain has it, counted from the place at on the disc.          *)
(***************************************************************************)
InPlace(t, s, off, n, at) ==
  \A k \in 0 .. n - 1 :
    \E r \in Nat, c \in Link, b \in 0 .. Bpc - 1 :
      Reaches(t, s, r, c) /\ off + k = Clusters(r) + b /\ at + k = Clusters(c) + b

Placed(t, s, T) == \A x \in T : InPlace(t, s, x.off, x.n, x.at)

LEMMA PlacedNothing == ASSUME NEW t, NEW s  PROVE Placed(t, s, {})
BY DEF Placed

LEMMA PlacedBoth ==
  ASSUME NEW t, NEW s, NEW T, NEW U, Placed(t, s, T), Placed(t, s, U)
  PROVE  Placed(t, s, T \cup U)
BY DEF Placed

\* A transfer of no byte, or within one cluster.
LEMMA PlacedNone ==
  ASSUME NEW t, NEW s, NEW h, NEW p, NEW off
  PROVE  Placed(t, s, Transfer(h, p, off, 0))
BY DEF Placed, Transfer

LEMMA PlacedWithin ==
  ASSUME NEW t, NEW s, NEW h, NEW p \in Spot, NEW off \in Nat, NEW n \in Nat,
         n > 0 => Stands(t, s, p, off) /\ Sectors(p.sector) + p.byte + n <= Bpc
  PROVE  Placed(t, s, Transfer(h, p, off, n))
<1>1. CASE n = 0
  BY <1>1, PlacedNone
<1>2. CASE n # 0
  <2> DEFINE at == p.cluster * Bpc + p.sector * Bps + p.byte
  <2>1. Stands(t, s, p, off) /\ Sectors(p.sector) + p.byte + n <= Bpc
    BY <1>2
  <2>2. PICK r \in Nat : Reaches(t, s, r, p.cluster) /\ off = Clusters(r) + Sectors(p.sector) + p.byte
    BY <2>1 DEF Stands
  <2>3. at = Clusters(p.cluster) + Sectors(p.sector) + p.byte
    BY DEF Clusters, Sectors
  <2>4. /\ p.cluster \in Link /\ p.cluster \in Nat /\ p.sector \in Nat /\ p.byte \in Nat
        /\ Sectors(p.sector) \in Nat /\ Clusters(r) \in Nat /\ Clusters(p.cluster) \in Nat
        /\ Bpc \in Nat
    BY SpotFacts, Outside, RankFacts, Sizes3
  <2> HIDE DEF at
  <2>5. ASSUME NEW k \in 0 .. n - 1
        PROVE  \E i \in Nat, c \in Link, b \in 0 .. Bpc - 1 :
                 Reaches(t, s, i, c) /\ off + k = Clusters(i) + b /\ at + k = Clusters(c) + b
    <3> DEFINE b == Sectors(p.sector) + p.byte + k
    <3>1. b \in 0 .. Bpc - 1
      BY <2>1, <2>4
    <3>2. off + k = Clusters(r) + b /\ at + k = Clusters(p.cluster) + b
      BY <2>2, <2>3, <2>4
    <3> HIDE DEF b
    <3> QED
      BY <2>2, <2>4, <3>1, <3>2
  <2>6. InPlace(t, s, off, n, at)
    BY <2>5 DEF InPlace
  <2>7. Transfer(h, p, off, n) = {[h |-> h, off |-> off, n |-> n, at |-> at]}
    BY <1>2 DEF Transfer, at
  <2> QED
    BY <2>6, <2>7 DEF Placed
<1> QED
  BY <1>1, <1>2

\* A transfer of clusters that follow each other.
LEMMA PlacedRun ==
  ASSUME NEW t, NEW s, NEW h, NEW p \in Spot, p.sector = 0, p.byte = 0,
         NEW r \in Nat, NEW m \in Nat, Run(t, s, r, p.cluster, m)
  PROVE  Placed(t, s, Transfer(h, p, Clusters(r), Clusters(m)))
<1>1. Clusters(r) \in Nat /\ Clusters(m) \in Nat /\ Bpc \in Nat /\ Bpc > 0
  BY RankFacts, Sizes3
<1>2. CASE Clusters(m) = 0
  BY <1>2, PlacedNone
<1>3. CASE Clusters(m) # 0
  <2> DEFINE at == p.cluster * Bpc + p.sector * Bps + p.byte
             off == Clusters(r)
             n == Clusters(m)
  <2>1. p.cluster \in Nat /\ Clusters(p.cluster) \in Nat
    BY SpotFacts, Outside, RankFacts
  <2>2. at = Clusters(p.cluster)
    <3>1. p.sector * Bps = 0
      BY SectorFacts DEF Sectors
    <3>2. at = Clusters(p.cluster) + p.sector * Bps + p.byte
      BY DEF Clusters
    <3> HIDE DEF at
    <3> QED
      BY <2>1, <3>1, <3>2
  <2> HIDE DEF at, off, n
  <2>3. ASSUME NEW k \in 0 .. n - 1
        PROVE  \E i \in Nat, c \in Link, b \in 0 .. Bpc - 1 :
                 Reaches(t, s, i, c) /\ off + k = Clusters(i) + b /\ at + k = Clusters(c) + b
    <3> DEFINE j == k \div Bpc
               b == k % Bpc
    <3>1. j \in Nat /\ b \in Nat /\ b < Bpc /\ k = Clusters(j) + b /\ k \in Nat
      BY ClustersOf
    <3> HIDE DEF j, b
    <3>2. Clusters(j) \in Nat /\ (m <= j => Clusters(m) <= Clusters(j))
      BY <3>1, ClusterFacts
    <3>3. j < m
      BY <1>1, <3>1, <3>2 DEF n
    <3>4. Reaches(t, s, r + j, p.cluster + j) /\ r + j \in Nat
      BY <3>1, <3>3 DEF Run
    <3>5. p.cluster + j \in Link
      BY <3>4, ReachesType
    <3>6. Clusters(r + j) = Clusters(r) + Clusters(j) /\ Clusters(p.cluster + j) = Clusters(p.cluster) + Clusters(j)
      BY <2>1, <3>1, ClusterFacts
    <3>7. off + k = Clusters(r + j) + b /\ at + k = Clusters(p.cluster + j) + b
      BY <1>1, <2>1, <2>2, <3>1, <3>2, <3>6 DEF off
    <3>8. b \in 0 .. Bpc - 1
      BY <1>1, <3>1
    <3> QED
      BY <3>4, <3>5, <3>7, <3>8
  <2>4. InPlace(t, s, off, n, at)
    BY <2>3 DEF InPlace
  <2>5. Transfer(h, p, off, n) = {[h |-> h, off |-> off, n |-> n, at |-> at]}
    BY <1>3 DEF Transfer, at, n
  <2>6. Placed(t, s, Transfer(h, p, off, n))
    BY <2>4, <2>5 DEF Placed
  <2> QED
    BY <2>6 DEF off, n
<1> QED
  BY <1>2, <1>3

-----------------------------------------------------------------------------
(***************************************************************************)
(* What the steps of the table do to the chains.                           *)
(***************************************************************************)
LEMMA FatIsTable == TypeInv => Table(fat) /\ (\A c \in Cluster : fat[c] \in Link)
BY DEF TypeInv, TableOK, TableType, Table

LEMMA FatIsTableNext == TypeInv' => Table(fat')
BY DEF TypeInv, TableOK, TableType, Table

\* The clusters of a file's chain were taken for it, one rank behind the other.
LEMMA RanksOf ==
  ASSUME TypeInv, Links, NEW m, NEW s \in Cluster, IsFirst(m, s)
  PROVE  \A k \in Nat : \A c \in Cluster : Reaches(fat, s, k, c) =>
           fat[c] # Free /\ place[c].of = m /\ place[c].rank = k
<1> DEFINE S == {k \in Nat : \A c \in Cluster : Reaches(fat, s, k, c) =>
                   fat[c] # Free /\ place[c].of = m /\ place[c].rank = k}
<1>1. 0 \in S
  <2>1. \A c : Reaches(fat, s, 0, c) => c = s
    BY ReachesStart
  <2> QED
    BY <2>1 DEF IsFirst
<1>2. ASSUME NEW k \in Nat, k \in S  PROVE k + 1 \in S
  <2>1. ASSUME NEW c \in Cluster, Reaches(fat, s, k + 1, c)
        PROVE  fat[c] # Free /\ place[c].of = m /\ place[c].rank = k + 1
    <3>1. PICK b \in Cluster : Reaches(fat, s, k, b) /\ fat[b] = c
      BY <2>1, ReachesBack
    <3>2. place[b].of = m /\ place[b].rank = k
      BY <1>2, <3>1
    <3> QED
      BY <3>1, <3>2 DEF Links
  <2> QED
    BY <2>1
<1> HIDE DEF S
<1>3. Nat \subseteq S
  BY <1>1, <1>2, UpFromZero
<1> QED
  BY <1>3 DEF S

LEMMA RankIsOne ==
  ASSUME TypeInv, Links, NEW m, NEW s \in Cluster, IsFirst(m, s),
         NEW j, NEW k, NEW c, Reaches(fat, s, j, c), Reaches(fat, s, k, c)
  PROVE  j = k
<1>1. j \in Nat /\ k \in Nat /\ c \in Cluster \cup {Beyond}
  BY ReachesType
<1>2. CASE c \in Cluster
  BY <1>1, <1>2, RanksOf
<1>3. CASE c = Beyond
  <2>1. Tight(fat, s, j + 1) /\ Tight(fat, s, k + 1)
    BY <1>3, TightAt
  <2>2. j + 1 = k + 1
    BY <2>1, TightOne
  <2> QED
    BY <1>1, <2>2
<1> QED
  BY <1>1, <1>2, <1>3

\* A chain none of whose clusters changes.
LEMMA OtherChain ==
  ASSUME TypeInv, Links, NEW m, NEW s \in Cluster, IsFirst(m, s), Table(fat'),
         \A x \in Cluster : fat[x] # Free /\ place[x].of = m => fat'[x] = fat[x]
  PROVE  Keeps(fat, fat', s) /\ Ended(fat, fat', s)
<1>1. ASSUME NEW k, NEW c, Reaches(fat, s, k, c), c \in Cluster  PROVE fat'[c] = fat[c]
  <2>1. k \in Nat
    BY <1>1, ReachesType
  <2>2. fat[c] # Free /\ place[c].of = m
    BY <1>1, <2>1, RanksOf
  <2> QED
    BY <1>1, <2>2
<1>2. SameEnds(fat, fat', s)
  BY <1>1 DEF SameEnds
<1> QED
  BY <1>2, EndsKeep

\* An allocation: the three things that it may be.
LEMMA LinkFreeCases ==
  ASSUME TypeInv, NEW c, NEW n \in Name, NEW got, LinkFree(c, n, got)
  PROVE  /\ got \in Results /\ Table(fat')
         /\ \/ fat' = fat /\ got = Error
            \/ fat' = fat /\ got \in Cluster /\ got = NextOf(c) /\ c <= Last
            \/ /\ c <= Last /\ NextOf(c) \notin Cluster
               /\ got = Beyond \/ (got \in Cluster /\ fat[got] = Free)
               /\ fat' = Linked(c, got)
<1>1. TableType' /\ got \in Results
  BY LinkFreeType DEF TypeInv, TableOK
<1>2. Table(fat')
  BY <1>1 DEF TableType, Table
<1>3. Found(got) => got = Beyond \/ (got \in Cluster /\ fat[got] = Free)
  BY DEF Found, FreeClusters
<1> QED
  BY <1>1, <1>2, <1>3 DEF LinkFree, table

LEMMA LinkSpares ==
  ASSUME TypeInv, Links, NEW n \in Name, NEW c, c = Free \/ On(n, c), NEW got, LinkFree(c, n, got),
         NEW m, NEW s \in Cluster, IsFirst(m, s), m # n \/ c = Free
  PROVE  Keeps(fat, fat', s) /\ Ended(fat, fat', s)
<1>1. ASSUME NEW x \in Cluster, fat[x] # Free, place[x].of = m  PROVE fat'[x] = fat[x]
  <2>1. x # c
    BY <1>1, Outside DEF On, OnIn
  <2>2. fat' = Linked(c, got) /\ fat[x] # Free /\ (got \in Cluster => fat[got] = Free) => fat'[x] = fat[x]
    BY <2>1 DEF Linked
  <2> QED
    BY <1>1, <2>2, LinkFreeCases, Outside
<1> QED
  BY <1>1, OtherChain, LinkFreeCases

LEMMA LinkOwn ==
  ASSUME TypeInv, NEW n \in Name, NEW s, NEW r, NEW c, Reaches(fat, s, r, c),
         c = Beyond \/ (fat[c] # Free /\ Ends(fat[c])), NEW got, LinkFree(c, n, got)
  PROVE  /\ Keeps(fat, fat', s) /\ r + 1 \in Nat
         /\ got \in Cluster => Reaches(fat', s, r + 1, got) /\ Tight(fat', s, r + 1 + 1)
         /\ got = Beyond => Reaches(fat', s, r + 1, Beyond)
         /\ got \notin Cluster \cup {Beyond} => fat' = fat
<1>1. r \in Nat /\ c \in Cluster \cup {Beyond}
  BY ReachesType
<1>2. CASE c = Beyond
  <2>1. ~(Beyond <= Last)
    BY Constants
  <2>2. LinkFree(Beyond, n, got)
    BY <1>2
  <2>3. got = Error /\ UNCHANGED table
    BY <2>1, <2>2 DEF LinkFree
  <2>4. fat' = fat
    BY <2>3 DEF table
  <2> QED
    BY <1>1, <2>3, <2>4, Outside, SameTable
<1>3. CASE c \in Cluster
  <2>1. NextOf(c) = fat[c] /\ fat[c] \notin Cluster /\ fat[c] # Free /\ Ends(fat[c])
    BY <1>3, Outside DEF NextOf, Ends
  <2>2. CASE fat' = fat /\ got = Error
    BY <1>1, <2>2, Outside, SameTable
  <2>3. CASE /\ got = Beyond \/ (got \in Cluster /\ fat[got] = Free)
             /\ fat' = Linked(c, got)
    <3>1. c # got
      BY <1>3, <2>1, <2>3, Outside
    <3>2. fat'[c] = got /\ (got \in Cluster => fat'[got] = Eof)
      BY <1>3, <2>3, <3>1 DEF Linked
    <3>3. ASSUME NEW x \in Cluster, ~Ends(fat[x])  PROVE fat'[x] = fat[x]
      <4>1. x # c /\ x # got
        BY <2>1, <2>3, <3>3, Outside DEF Ends
      <4> QED
        BY <2>3, <4>1 DEF Linked
    <3>4. SameLinks(fat, fat', s)
      BY <3>3 DEF SameLinks
    <3>5. Keeps(fat, fat', s) /\ Table(fat')
      BY <3>4, LinksKeep, LinkFreeCases
    <3>6. Reaches(fat', s, r, c)
      BY <3>5 DEF Keeps
    <3>7. ~Ends(got)
      BY <2>3, EndsLinks
    <3>8. Reaches(fat', s, r + 1, got)
      BY <1>3, <3>2, <3>5, <3>6, <3>7, ReachesNext
    <3>9. got \in Cluster => Tight(fat', s, r + 1 + 1)
      BY <3>2, <3>8, TightAt, EndsLinks
    <3> QED
      BY <1>1, <2>3, <3>5, <3>8, <3>9
  <2> QED
    BY <2>1, <2>2, <2>3, LinkFreeCases
<1> QED
  BY <1>1, <1>2, <1>3

\* The first cluster of a chain.
LEMMA LinkHead ==
  ASSUME TypeInv, NEW n \in Name, NEW got \in Cluster, LinkFree(Free, n, got)
  PROVE  Reaches(fat', got, 0, got) /\ Tight(fat', got, 1)
<1>1. NextOf(Free) = Free
  BY Outside DEF NextOf
<1>2. fat' = Linked(Free, got)
  BY <1>1, LinkFreeCases, Outside
<1>3. fat'[got] = Eof
  BY <1>2 DEF Linked
<1>4. Reaches(fat', got, 0, got)
  BY ReachesStart, EndsLinks, Outside
<1>5. Tight(fat', got, 0 + 1)
  BY <1>3, <1>4, TightAt, EndsLinks
<1> QED
  BY <1>4, <1>5

\* Nothing is given back of a chain that somebody has.
LEMMA ClearSpares ==
  ASSUME TypeInv, Links, NEW c, c = Beyond \/ (c \in Cluster /\ CutOff(c)), ClearLink(c),
         NEW m, NEW s \in Cluster, IsFirst(m, s), Starts(s)
  PROVE  Keeps(fat, fat', s) /\ Ended(fat, fat', s)
<1>1. Table(fat')
  BY ClearLinkType DEF TypeInv, TableOK, TableType, Table
<1>2. ASSUME NEW k, NEW x, Reaches(fat, s, k, x), x \in Cluster  PROVE fat'[x] = fat[x]
  <2>1. k \in Nat
    BY <1>2, ReachesType
  <2>2. x # c
    <3>1. CASE k = 0
      BY <1>2, <3>1, ReachesStart, Outside DEF CutOff
    <3>2. CASE k # 0
      <4>1. k - 1 \in Nat /\ k - 1 < k /\ (k - 1) + 1 = k
        BY <2>1, <3>2
      <4>2. PICK b \in Cluster : fat[b] = x
        BY <1>2, <4>1, ReachesBack
      <4> QED
        BY <1>2, <4>2, Outside DEF CutOff
    <3> QED
      BY <3>1, <3>2
  <2> QED
    BY <1>2, <2>2 DEF ClearLink, Cleared
<1>3. SameEnds(fat, fat', s)
  BY <1>2 DEF SameEnds
<1> QED
  BY <1>1, <1>3, EndsKeep

\* A chain that is cut behind its r-th cluster.
LEMMA MarkOwn ==
  ASSUME TypeInv, Links, NEW m, NEW s \in Cluster, IsFirst(m, s), NEW r, NEW c,
         Reaches(fat, s, r, c), fat' = MarkEnd(c)
  PROVE  Reaches(fat', s, r, c) /\ Tight(fat', s, r + 1)
<1>1. r \in Nat /\ c \in Cluster \cup {Beyond} /\ s \in Link /\ ~Ends(s)
  BY ReachesType
<1>2. Table(fat')
  BY MarkEndType DEF TypeInv, TableOK, Table
<1> DEFINE S == {k \in Nat : \A x : k <= r /\ Reaches(fat, s, k, x) => Reaches(fat', s, k, x)}
<1>3. 0 \in S
  <2>1. ASSUME NEW x, Reaches(fat, s, 0, x)  PROVE Reaches(fat', s, 0, x)
    BY <1>1, <2>1, ReachesStart
  <2> QED
    BY <2>1
<1>4. ASSUME NEW k \in Nat, k \in S  PROVE k + 1 \in S
  <2>1. ASSUME NEW x, k + 1 <= r, Reaches(fat, s, k + 1, x)  PROVE Reaches(fat', s, k + 1, x)
    <3>1. PICK b \in Cluster : Reaches(fat, s, k, b) /\ fat[b] = x /\ ~Ends(fat[b])
      BY <2>1, ReachesBack
    <3>2. k # r /\ k <= r
      BY <1>1, <2>1
    <3>3. b # c
      BY <3>1, <3>2, RankIsOne
    <3>4. fat'[b] = fat[b]
      BY <3>3 DEF MarkEnd
    <3>5. Reaches(fat', s, k, b)
      BY <1>4, <3>1, <3>2
    <3> QED
      BY <1>2, <3>1, <3>4, <3>5, ReachesNext
  <2> QED
    BY <2>1
<1> HIDE DEF S
<1>5. Nat \subseteq S
  BY <1>3, <1>4, UpFromZero
<1>6. Reaches(fat', s, r, c)
  BY <1>1, <1>5 DEF S
<1>7. c = Beyond \/ Ends(fat'[c])
  BY <1>1, EndsLinks DEF MarkEnd
<1> QED
  BY <1>6, <1>7, TightAt

\* Over the edge of the last cluster: to a new one, or to nowhere.
InUse(s) == \A r, c : Reaches(fat, s, r, c) /\ c \in Cluster => fat[c] # Free

LEMMA OverTheEnd ==
  ASSUME TypeInv, NEW n \in Name, NEW s, InUse(s), NEW p \in Spot, NEW x \in Nat,
         Stands(fat, s, p, x), p.sector = Spc, p.cluster = Beyond \/ Ends(fat[p.cluster]),
         NEW got, LinkFree(p.cluster, n, got)
  PROVE  /\ Keeps(fat, fat', s)
         /\ \A q \in Spot : got \in Cluster /\ q.cluster = got /\ q.sector = 0 /\ q.byte = 0 =>
              Stands(fat', s, q, x) /\ Fresh(fat', s, q, x)
         /\ \A y \in Nat : Fits(fat, s, y) /\ x <= y =>
              IF got \in Cluster THEN y = x ELSE Fits(fat', s, y)
<1>1. PICK r \in Nat : Reaches(fat, s, r, p.cluster) /\ x = Clusters(r) + Sectors(p.sector) + p.byte
  BY DEF Stands
<1>2. /\ Clusters(r) \in Nat /\ Clusters(r + 1) = Clusters(r) + Bpc /\ Bpc \in Nat
      /\ Sectors(Spc) = Bpc /\ r + 1 \in Nat /\ Sectors(0) = 0 /\ p.byte = 0
  BY RankFacts, SectorFacts, Sizes3 DEF Stands
<1>3. x = Clusters(r + 1)
  BY <1>1, <1>2
<1> DEFINE c == p.cluster
<1>4. c \in Cluster \cup {Beyond}
  BY <1>1, ReachesType
<1>5. c = Beyond \/ (fat[c] # Free /\ Ends(fat[c]))
  BY <1>1, <1>4 DEF InUse
<1>6. /\ Keeps(fat, fat', s)
      /\ got \in Cluster => Reaches(fat', s, r + 1, got) /\ Tight(fat', s, r + 1 + 1)
      /\ got = Beyond => Reaches(fat', s, r + 1, Beyond)
      /\ got \notin Cluster \cup {Beyond} => fat' = fat
  <2> HIDE DEF c
  <2>1. Reaches(fat, s, r, c) /\ LinkFree(c, n, got)
    BY <1>1 DEF c
  <2> QED
    BY <1>5, <2>1, LinkOwn
<1>7. ASSUME NEW q \in Spot, got \in Cluster, q.cluster = got, q.sector = 0, q.byte = 0
      PROVE  Stands(fat', s, q, x) /\ Fresh(fat', s, q, x)
  <2>1. Stands(fat', s, q, Clusters(r + 1))
    BY <1>2, <1>6, <1>7, StandsAtHead
  <2> QED
    BY <1>2, <1>3, <1>6, <1>7, <2>1 DEF Fresh
<1>8. ASSUME NEW y \in Nat, Fits(fat, s, y), x <= y
      PROVE  IF got \in Cluster THEN y = x ELSE Fits(fat', s, y)
  <2>1. Tight(fat, s, r + 1)
    BY <1>1, <1>5, TightAt
  <2>2. PICK k \in Nat :
          Covers(k, y) /\ (Tight(fat, s, k) \/ (y = Clusters(k) /\ Reaches(fat, s, k, Beyond)))
    BY <1>8 DEF Fits
  <2>3. CASE Tight(fat, s, k)
    <3>1. k = r + 1
      BY <2>1, <2>3, TightOne
    <3>2. y = x
      BY <1>2, <1>3, <1>8, <2>2, <3>1 DEF Covers
    <3>3. got = Beyond => Fits(fat', s, y)
      BY <1>2, <1>3, <1>6, <2>2, <3>1, <3>2 DEF Fits
    <3>4. fat' = fat => Fits(fat', s, y)
      BY <1>8
    <3> QED
      BY <1>6, <3>2, <3>3, <3>4
  <2>4. CASE y = Clusters(k) /\ Reaches(fat, s, k, Beyond)
    <3>1. Tight(fat, s, k + 1)
      BY <2>4, TightAt
    <3>2. k + 1 = r + 1
      BY <2>1, <3>1, TightOne
    <3>3. k = r
      BY <2>2, <3>2
    <3>4. FALSE
      BY <1>2, <1>3, <1>8, <2>4, <3>3, Sizes3
    <3> QED
      BY <3>4
  <2> QED
    BY <2>2, <2>3, <2>4
<1> QED
  BY <1>6, <1>7, <1>8

\* _FAT_check_position_for_next_cluster.
LEMMA AdvanceStands ==
  ASSUME TypeInv, f.name \in Name, NEW s, InUse(s), NEW p \in Spot, NEW x \in Nat,
         Stands(fat, s, p, x), NEW q \in Positions, NEW good, Advance(p, q, good)
  PROVE  /\ Keeps(fat, fat', s) /\ q \in Spot
         /\ good => Stands(fat', s, q, x) /\ q.sector < Spc /\ q.byte = p.byte
                    /\ (p.sector = Spc => q.sector = 0) /\ (p.sector < Spc => q = p)
         /\ ~good => q = p /\ p.sector = Spc
         /\ \A y \in Nat : Fits(fat, s, y) /\ x <= y =>
              Fits(fat', s, y) \/ (good /\ Fresh(fat', s, q, x) /\ y = x)
         /\ p.sector < Spc => fat' = fat
<1>0. q \in Spot
  BY PositionsAreSpots
<1>1. CASE p.sector < Spc /\ q = p /\ good = TRUE /\ UNCHANGED table
  <2>1. fat' = fat
    BY <1>1 DEF table
  <2>2. p.sector # Spc
    BY <1>1, SpotFacts, Sizes3
  <2> QED
    BY <1>0, <1>1, <2>1, <2>2, SameTable
<1>2. CASE p.sector = Spc
  <2>1. PICK got \in Link \cup Results :
          /\ IF Ends(NextOf(p.cluster)) THEN LinkFree(p.cluster, f.name, got)
             ELSE got = NextOf(p.cluster) /\ UNCHANGED table
          /\ good = IsValid(got)
          /\ q = IF good THEN [p EXCEPT !.sector = 0, !.cluster = got] ELSE p
    <3>1. ~(p.sector < Spc)
      BY <1>2, Sizes3
    <3> QED
      BY <3>1, Zenon DEF Advance
  <2>2. p.byte = 0 /\ ~(p.sector < Spc) /\ 0 < Spc
    BY <1>2, Sizes3 DEF Stands
  <2>3. good <=> got \in Cluster
    BY <2>1 DEF IsValid
  <2>4. good => q.sector = 0 /\ q.byte = 0 /\ q.cluster = got
    BY <2>1, <2>2, SpotFacts DEF Spot
  <2>5. PICK r \in Nat : Reaches(fat, s, r, p.cluster) /\ x = Clusters(r) + Sectors(p.sector) + p.byte
    BY DEF Stands
  <2>6. p.cluster \in Cluster \cup {Beyond}
    BY <2>5, ReachesType
  <2>7. CASE Ends(NextOf(p.cluster))
    <3>1. p.cluster = Beyond \/ Ends(fat[p.cluster])
      BY <2>6, <2>7 DEF NextOf
    <3>2. LinkFree(p.cluster, f.name, got)
      BY <2>1, <2>7
    <3>3. /\ Keeps(fat, fat', s)
          /\ \A u \in Spot : got \in Cluster /\ u.cluster = got /\ u.sector = 0 /\ u.byte = 0 =>
               Stands(fat', s, u, x) /\ Fresh(fat', s, u, x)
          /\ \A y \in Nat : Fits(fat, s, y) /\ x <= y =>
               IF got \in Cluster THEN y = x ELSE Fits(fat', s, y)
      BY <1>2, <3>1, <3>2, OverTheEnd
    <3>4. good => Stands(fat', s, q, x) /\ Fresh(fat', s, q, x)
      BY <1>0, <2>3, <2>4, <3>3
    <3>5. ~good => q = p
      BY <2>1
    <3> QED
      BY <1>0, <1>2, <2>2, <2>3, <2>4, <3>3, <3>4, <3>5
  <2>8. CASE ~Ends(NextOf(p.cluster))
    <3>1. fat' = fat /\ got = NextOf(p.cluster)
      BY <2>1, <2>8 DEF table
    <3>2. p.cluster # Beyond
      BY <2>8, Outside DEF NextOf, Ends, TypeInv, TableOK, TableType
    <3>3. got = fat[p.cluster] /\ p.cluster \in Cluster /\ ~Ends(fat[p.cluster])
      BY <2>6, <2>8, <3>1, <3>2 DEF NextOf
    <3>4. \A i \in Nat : Reaches(fat, s, i, p.cluster) => Reaches(fat, s, i + 1, got)
      BY <3>3, FatIsTable, ReachesNext
    <3>5. good => Stands(fat, s, q, x)
      <4>1. got \in Link
        BY <3>3, FatIsTable
      <4> QED
        BY <1>0, <1>2, <2>4, <3>4, <4>1, FatIsTable, StandsOver
    <3>6. ~good => q = p
      BY <2>1
    <3> QED
      BY <1>0, <1>2, <2>2, <2>4, <3>1, <3>5, <3>6, SameTable
  <2> QED
    BY <2>7, <2>8
<1> QED
  BY <1>1, <1>2 DEF Advance

\* From a position at the end of a chain that a full disc has led behind the
\* last cluster.
Dead(p) == p = Position(Beyond, Spc, 0)

LEMMA AdvanceDead ==
  ASSUME TypeInv, NEW p, Dead(p), NEW q, NEW good, Advance(p, q, good)
  PROVE  ~good /\ q = p /\ fat' = fat
<1>1. p.sector = Spc /\ p.cluster = Beyond
  BY DEF Dead, Position
<1>2. Ends(NextOf(Beyond))
  BY Outside DEF NextOf, Ends, TypeInv, TableOK, TableType
<1>3. PICK got \in Link \cup Results :
        /\ LinkFree(Beyond, f.name, got)
        /\ good = IsValid(got)
        /\ q = IF good THEN [p EXCEPT !.sector = 0, !.cluster = got] ELSE p
  <2>1. ~(p.sector < Spc)
    BY <1>1, Sizes3
  <2> QED
    BY <1>1, <1>2, <2>1, Zenon DEF Advance
<1>4. ~(Beyond <= Last)
  BY Constants
<1>5. got = Error /\ UNCHANGED table
  BY <1>3, <1>4 DEF LinkFree
<1> QED
  BY <1>3, <1>5, Outside DEF IsValid, table

-----------------------------------------------------------------------------
(***************************************************************************)
(* What holds of the positions and the sizes, but for the names whose      *)
(* chain a failure left too long or too short (uneven) and the handles     *)
(* whose position was left behind (astray) or given away (loose).          *)
(***************************************************************************)
Even(h) == file[h].name \notin uneven
Lengthens(h) == op.h = h /\ (Extending \/ op.pc \in {"head", "chunk", "group"})
Seeking(h) == op.h = h /\ op.pc = "walk" /\ op.then \in {"seek", "rewind"}
Opening(h) == op.h = h /\ op.pc = "walk" /\ op.then = "append"
Sure(h) == file[h].inUse /\ file[h].start # Free /\ Even(h) /\ h \notin loose /\ h \notin astray
Follower(h) == file[h].inUse /\ ~file[h].write /\ file[h].start # Free /\ h \notin loose

\* A file that is written has the clusters it needs, and its entry tells what
\* it is or will be written.
SizeFits(h) ==
  Writer(h) /\ Even(h) /\ ~Lengthens(h) =>
    /\ Fits(fat, file[h].start, file[h].size)
    /\ ~file[h].modified => dir[file[h].name] = Entry(file[h].start, file[h].size)

\* A file that is only read has the chain of its entry and of its writer, which
\* is as long as it expects.
Follows(h) ==
  Follower(h) =>
    /\ dir[file[h].name].start = file[h].start
    /\ \A w \in Handle : Writer(w) /\ file[w].name = file[h].name => file[w].start = file[h].start
    /\ Even(h) => Long(fat, file[h].start, file[h].size)

RwStands(h) ==
  Sure(h) /\ ~Seeking(h) /\ file[h].cur <= file[h].size =>
    Stands(fat, file[h].start, file[h].rw, file[h].cur)
ApStands(h) ==
  Writer(h) /\ file[h].append /\ file[h].start # Free /\ Even(h) /\ ~Opening(h) /\ ~Lengthens(h) =>
    Stands(fat, file[h].start, file[h].ap, file[h].size) \/ Dead(file[h].ap)

HandleFits(h) == SizeFits(h) /\ Follows(h) /\ RwStands(h) /\ ApStands(h)
EntryFits(n) == n \notin uneven /\ Unwritten(n) => Fits(fat, dir[n].start, dir[n].size)
Firm == \A h \in loose : file[h].inUse /\ ~file[h].write

\* The walks.  In the table t, the call o has of its file g:
AppendWalk(t, o, g) == g.start = Free \/ \E r \in Nat : Reaches(t, g.start, r, o.tip)
ExtendWalk(t, o, g) ==
  /\ \E r \in Nat : Reaches(t, g.start, r, o.tip)
  /\ Fits(t, g.start, g.size) \/ (g.size = 0 /\ Tight(t, g.start, 1))
  /\ o.ok /\ o.goal > g.size
  /\ o.len > 0 => o.goal = g.cur
TrimWalk(t, o, g) ==
  /\ o.goal > 0 /\ o.goal < g.size /\ o.left >= 0
  /\ \E r \in Nat : Reaches(t, g.start, r, o.tip) /\ r + o.left = (o.goal - 1) \div Bpc
SeekWalk(t, o, g) ==
  o.left >= 0 /\ \E r \in Nat : Reaches(t, g.start, r, o.tip) /\ r + o.left = o.goal \div Bpc

\* The writes.
ZeroFits(t, o, g) ==
  /\ Stands(t, g.start, o.pos, o.off) /\ o.pos.byte = 0 /\ o.ok
  /\ g.size <= o.off /\ o.off + o.remain = o.goal
  /\ \/ \E k \in Nat : Covers(k, o.off) /\ Tight(t, g.start, k)
     \/ Fresh(t, g.start, o.pos, o.off) /\ o.remain > 0
  /\ o.len > 0 => o.goal = g.cur
PutAt(t, o, g) ==
  Stands(t, g.start, o.pos, o.off) \/ (g.append /\ Dead(o.pos) /\ o.off = g.size)
PutFits(t, o, g) ==
  \/ Fits(t, g.start, Most(g.size, o.off))
  \/ Fresh(t, g.start, o.pos, o.off) /\ o.remain > 0 /\ o.ok /\ g.size <= o.off
PutLeft(o, g) == o.off + o.remain = (IF g.append THEN g.size ELSE g.cur) + o.len
HeadFits(t, o, g) == PutAt(t, o, g) /\ PutFits(t, o, g) /\ PutLeft(o, g) /\ o.ok /\ o.remain > 0
ChunkFits(t, o, g) ==
  /\ PutAt(t, o, g) /\ PutFits(t, o, g) /\ PutLeft(o, g)
  /\ o.ok => o.remain = 0 \/ (o.pos.byte = 0 /\ (o.pos.sector \in {0, Spc} \/ o.remain < Bps))
GroupAt(t, o, g, r, m) ==
  /\ m > 0 /\ o.chunk = Clusters(m) /\ o.off = Clusters(r)
  /\ Run(t, g.start, r, o.pos.cluster, m) /\ o.end = o.pos.cluster + m - 1
GroupFits(t, o, g) ==
  /\ o.pos.sector = 0 /\ o.pos.byte = 0 /\ o.chunk <= o.remain /\ PutLeft(o, g)
  /\ \E r, m \in Nat :
       /\ GroupAt(t, o, g, r, m)
       /\ \/ o.next = o.end /\ Fits(t, g.start, Most(g.size, o.off + o.chunk))
          \/ /\ o.next \in Cluster /\ Reaches(t, g.start, r + m, o.next)
             /\ o.ok /\ o.chunk < o.remain
             /\ \/ Fits(t, g.start, Most(g.size, o.off + o.chunk))
                \/ g.size <= o.off + o.chunk /\ Tight(t, g.start, r + m + 1)

\* The reads.
ReadAt(t, o, g) ==
  /\ Stands(t, g.start, o.pos, o.off)
  /\ o.off + o.remain = g.cur + o.len /\ g.cur + o.len <= g.size
  /\ o.ok => \/ o.remain = 0
             \/ o.pos.byte = 0 /\ o.pos.sector < Spc /\ (o.pos.sector = 0 \/ o.remain < Bps)
ReadRun(t, o, g) ==
  /\ o.pc = "rchunk" /\ o.ok /\ o.chunk = 0 => o.next = o.pos.cluster
  /\ o.chunk > 0 =>
       /\ o.ok /\ o.chunk <= o.remain /\ o.next = NextOf(o.end)
       /\ \E r, m \in Nat : GroupAt(t, o, g, r, m)
  /\ o.pc = "rget" => o.chunk > 0
  /\ o.pc = "rchunk" /\ o.chunk > 0 => o.next = o.end + 1 /\ o.chunk + Bpc <= o.remain

TrimmedAlone == op.h \in astray /\ OpenOn(f.name) \ {op.h} \subseteq loose
SeekAims ==
  /\ op.goal <= f.size
  /\ f.rw.sector = (op.goal % Bpc) \div Bps /\ f.rw.byte = op.goal % Bps
WalkFits ==
  /\ op.then = "trim" => TrimmedAlone
  /\ op.then \in {"seek", "rewind"} => SeekAims
  /\ Even(op.h) =>
       /\ op.then = "append" => AppendWalk(fat, op, f)
       /\ op.then = "extend" => ExtendWalk(fat, op, f)
       /\ op.then = "trim" => TrimWalk(fat, op, f)
       /\ op.then = "seek" /\ op.h \notin loose \cup astray => SeekWalk(fat, op, f)
       /\ op.then = "rewind" /\ op.h \notin loose => SeekWalk(fat, op, f)
\* A file that grows behind its read position, which is not past the end.
GrowsBehind == (op.pc \in {"head", "chunk", "group"} /\ f.append) \/ (Extending /\ op.len = 0)
KnowsSize == GrowsBehind => op.h \in astray \/ f.cur <= f.size
CallFits ==
  /\ KnowsSize
  /\ op.pc = "walk" => WalkFits
  /\ op.pc = "zero" /\ Even(op.h) => ZeroFits(fat, op, f)
  /\ op.pc = "head" /\ Even(op.h) => HeadFits(fat, op, f)
  /\ op.pc = "chunk" /\ Even(op.h) => ChunkFits(fat, op, f)
  /\ op.pc = "group" /\ Even(op.h) => GroupFits(fat, op, f)
  /\ op.pc \in {"rchunk", "rget"} /\ Sure(op.h) => ReadAt(fat, op, f) /\ ReadRun(fat, op, f)

Excused(t) == t.h \in loose \cup astray \/ file[t.h].name \in uneven \/ ReadAtFlag(t)
IoFits == \A t \in io : Excused(t) \/ InPlace(fat, file[t.h].start, t.off, t.n, t.at)

PlaceInv ==
  /\ \A h \in Handle : HandleFits(h)
  /\ \A n \in Name : EntryFits(n)
  /\ Firm /\ CallFits /\ IoFits

-----------------------------------------------------------------------------
(***************************************************************************)
(* What a step leaves of the other handles and of the entries.             *)
(***************************************************************************)
Away(h) == ~Lengthens(h) /\ ~Seeking(h) /\ ~Opening(h)
StillAway(h) ==
  /\ Lengthens(h) => Lengthens(h)'
  /\ Seeking(h) => Seeking(h)'
  /\ Opening(h) => Opening(h)'
KeepsAll(s) == Keeps(fat, fat', s) /\ Ended(fat, fat', s)
Remembers ==
  uneven \subseteq uneven'
Same(h) ==
  file'[h] = file[h] /\ (h \in loose => h \in loose') /\ (h \in astray => h \in astray')

\* The file of a handle that the step is not about.
SameWriter(h) == dir'[file[h].name] = dir[file[h].name] /\ KeepsAll(file[h].start)
SameFollower(h) ==
  /\ dir'[file[h].name].start = dir[file[h].name].start
  /\ \A w \in Handle : Writer(w)' /\ file'[w].name = file[h].name => file'[w].start = file[h].start
  /\ Keeps(fat, fat', file[h].start) \/ file[h].name \in uneven'

LEMMA HandleStays ==
  ASSUME NEW h \in Handle, HandleFits(h), Same(h), StillAway(h),
         file[h].name \in uneven => file[h].name \in uneven',
         Writer(h) => SameWriter(h),
         Follower(h) /\ h \notin loose' => SameFollower(h)
  PROVE  HandleFits(h)'
<1> DEFINE s == file[h].start
<1>0. file'[h] = file[h] /\ (Even(h)' => Even(h)) /\ (Sure(h)' => Sure(h)) /\ (Writer(h)' <=> Writer(h))
  BY DEF Same, Even, Sure, Writer
<1>1. SizeFits(h)'
  <2> SUFFICES ASSUME Writer(h), Even(h)', ~Lengthens(h)'
               PROVE  /\ Fits(fat', file'[h].start, file'[h].size)
                      /\ ~file'[h].modified => dir'[file'[h].name] = Entry(file'[h].start, file'[h].size)
    BY <1>0 DEF SizeFits
  <2>1. Fits(fat, s, file[h].size) /\ (~file[h].modified => dir[file[h].name] = Entry(s, file[h].size))
    BY <1>0 DEF HandleFits, SizeFits, StillAway
  <2>2. Fits(fat', s, file[h].size)
    BY <2>1, ChainsKept DEF SameWriter, KeepsAll
  <2> QED
    BY <1>0, <2>1, <2>2 DEF SameWriter
<1>2. Follows(h)'
  <2> SUFFICES ASSUME Follower(h), h \notin loose'
               PROVE  /\ dir'[file'[h].name].start = file'[h].start
                      /\ \A w \in Handle : Writer(w)' /\ file'[w].name = file'[h].name =>
                           file'[w].start = file'[h].start
                      /\ Even(h)' => Long(fat', file'[h].start, file'[h].size)
    BY <1>0 DEF Follows, Follower, Same
  <2>1. dir[file[h].name].start = s /\ (Even(h) => Long(fat, s, file[h].size))
    BY DEF HandleFits, Follows
  <2>2. Even(h)' => Long(fat', s, file[h].size)
    <3>1. Keeps(fat, fat', s) \/ ~Even(h)'
      BY <1>0 DEF SameFollower, Even
    <3> QED
      BY <1>0, <2>1, <3>1, ChainsKept
  <2> QED
    BY <1>0, <2>1, <2>2 DEF SameFollower
<1>3. Sure(h)' => Keeps(fat, fat', s)
  <2> SUFFICES ASSUME Sure(h)'  PROVE Keeps(fat, fat', s)
    OBVIOUS
  <2>1. CASE file[h].write
    BY <1>0, <2>1 DEF Sure, Writer, SameWriter, KeepsAll
  <2>2. CASE ~file[h].write
    <3>1. Follower(h) /\ h \notin loose' /\ Even(h)'
      BY <1>0, <2>2 DEF Sure, Follower
    <3> QED
      BY <1>0, <3>1 DEF SameFollower, Even
  <2> QED
    BY <2>1, <2>2
<1>4. RwStands(h)'
  <2> SUFFICES ASSUME Sure(h)', file'[h].cur <= file'[h].size, ~Seeking(h)'
               PROVE  Stands(fat', file'[h].start, file'[h].rw, file'[h].cur)
    BY DEF RwStands
  <2>1. Stands(fat, s, file[h].rw, file[h].cur)
    BY <1>0 DEF HandleFits, RwStands, StillAway
  <2> QED
    BY <1>0, <1>3, <2>1, ChainsKept
<1>5. ApStands(h)'
  <2> SUFFICES ASSUME Writer(h), file[h].append, file[h].start # Free, Even(h),
                      ~Lengthens(h)', ~Opening(h)'
               PROVE  \/ Stands(fat', file'[h].start, file'[h].ap, file'[h].size)
                      \/ Dead(file'[h].ap)
    BY <1>0 DEF ApStands
  <2>1. Stands(fat, s, file[h].ap, file[h].size) \/ Dead(file[h].ap)
    BY DEF HandleFits, ApStands, StillAway
  <2>2. Keeps(fat, fat', s)
    BY DEF SameWriter, KeepsAll
  <2> QED
    BY <1>0, <2>1, <2>2, ChainsKept
<1> QED
  BY <1>1, <1>2, <1>4, <1>5 DEF HandleFits

LEMMA HandleKept ==
  ASSUME NEW h \in Handle, HandleFits(h), Same(h), StillAway(h), Remembers,
         Writer(h) => SameWriter(h),
         Follower(h) /\ h \notin loose' => SameFollower(h)
  PROVE  HandleFits(h)'
BY HandleStays DEF Remembers

LEMMA EntryKept ==
  ASSUME NEW n \in Name, EntryFits(n), Remembers, Unwritten(n)' => Unwritten(n),
         dir'[n] = dir[n], Unwritten(n) => KeepsAll(dir[n].start)
  PROVE  EntryFits(n)'
BY ChainsKept DEF EntryFits, Remembers, KeepsAll

\* A step of the call of the handle k, or the beginning of one.
Spares(k) ==
  \A s \in Cluster : Starts(s) /\ (Writer(k) => s # file[k].start) => KeepsAll(s)
Loses(k) == \A h \in Handle \ {k} : file[h].inUse /\ file[h].name = file[k].name => h \in loose'
OwnKept(k) ==
  Writer(k) => Keeps(fat, fat', file[k].start) \/ file[k].name \in uneven' \/ Loses(k)
Acts(k) ==
  /\ \A h \in Handle \ {k} : Same(h)
  /\ SameNames /\ dir' = dir /\ Remembers
  /\ op.pc \in {"idle", "clear"} \/ op.h = k
  /\ file'[k].start = file[k].start \/ file[k].start = Free \/ Loses(k)
  /\ Spares(k) /\ OwnKept(k)

LEMMA IdleIsAway ==
  ASSUME NEW h, op.pc \in {"idle", "clear"} \/ op.h # h
  PROVE  Away(h)
BY DEF Away, Lengthens, Seeking, Opening, Extending

LEMMA StartType ==
  ASSUME TypeInv, NEW h \in Handle
  PROVE  /\ file[h] \in FileStruct /\ file[h].start \in Cluster \cup {Free}
         /\ (file[h].inUse => file[h].name \in Name) /\ HandleOK(file[h])
  <1>1. file[h] \in FileStruct /\ HandleOK(file[h])
    BY DEF TypeInv, FilesOK, Handles
  <1> QED
    BY <1>1 DEF FileStruct, HandleOK

LEMMA NoChainAtAll == ASSUME NEW s, Ends(s)  PROVE KeepsAll(s)
BY NoChain DEF KeepsAll

\* The chain of a writer, of an entry and of a follower is somebody's.
LEMMA ChainOfWriter ==
  ASSUME TypeInv, Shape, NEW k \in Handle, Spares(k), NEW h \in Handle \ {k}, Writer(h)
  PROVE  KeepsAll(file[h].start)
<1> DEFINE s == file[h].start
<1>1. s \in Cluster \cup {Free}
  BY StartType
<1>2. CASE s = Free
  BY <1>2, NoChainAtAll, EndsLinks
<1>3. CASE s \in Cluster
  <2>1. Starts(s)
    BY DEF Starts
  <2>2. Writer(k) => s # file[k].start
    <3> SUFFICES ASSUME Writer(k), s = file[k].start  PROVE FALSE
      OBVIOUS
    <3>1. IsFirst(file[h].name, s) /\ IsFirst(file[k].name, s)
      BY <1>3 DEF Shape, Heads
    <3>2. file[h].name = file[k].name
      BY <3>1 DEF IsFirst
    <3> QED
      BY <3>2 DEF Shape, OneWriter
  <2> QED
    BY <1>3, <2>1, <2>2 DEF Spares
<1> QED
  BY <1>1, <1>2, <1>3

LEMMA ChainOfEntry ==
  ASSUME TypeInv, Shape, NEW k \in Handle, Spares(k), NEW n \in Name, Unwritten(n)
  PROVE  KeepsAll(dir[n].start)
<1> DEFINE s == dir[n].start
<1>1. s \in Cluster \cup {Free, Eof}
  BY DEF TypeInv, DiscOK
<1>2. CASE s \in {Free, Eof}
  BY <1>2, NoChainAtAll, EndsLinks
<1>3. CASE s \in Cluster
  <2>1. Starts(s)
    BY DEF Starts
  <2>2. Writer(k) => s # file[k].start
    <3> SUFFICES ASSUME Writer(k), s = file[k].start  PROVE FALSE
      OBVIOUS
    <3>1. IsFirst(n, s) /\ IsFirst(file[k].name, s)
      BY <1>3 DEF Shape, Heads
    <3>2. n = file[k].name
      BY <3>1 DEF IsFirst
    <3> QED
      BY <3>2 DEF Unwritten
  <2> QED
    BY <1>3, <2>1, <2>2 DEF Spares
<1> QED
  BY <1>1, <1>2, <1>3

LEMMA StartOfFollower ==
  ASSUME TypeInv, NEW h \in Handle, Follower(h), Follows(h)
  PROVE  /\ file[h].start \in Cluster /\ Starts(file[h].start) /\ file[h].name \in Name
<1>1. file[h].start \in Cluster /\ file[h].name \in Name
  BY StartType DEF Follower
<1>2. CASE Unwritten(file[h].name)
  BY <1>1, <1>2 DEF Starts, Follows
<1>3. CASE ~Unwritten(file[h].name)
  BY <1>1, <1>3 DEF Starts, Follows, Unwritten
<1> QED
  BY <1>1, <1>2, <1>3

LEMMA ChainOfFollower ==
  ASSUME TypeInv, Shape, NEW k \in Handle, Spares(k), OwnKept(k), NEW h \in Handle \ {k},
         Follower(h), Follows(h), h \notin loose'
  PROVE  Keeps(fat, fat', file[h].start) \/ file[h].name \in uneven'
<1> DEFINE s == file[h].start
<1>1. s \in Cluster /\ Starts(s) /\ file[h].name \in Name
  BY StartOfFollower
<1>2. CASE Writer(k) => s # file[k].start
  BY <1>1, <1>2 DEF Spares, KeepsAll
<1>3. CASE Writer(k) /\ s = file[k].start
  <2>1. IsFirst(file[k].name, s)
    BY <1>1, <1>3 DEF Shape, Heads
  <2>2. IsFirst(file[h].name, s)
    <3>1. CASE Unwritten(file[h].name)
      BY <1>1, <3>1 DEF Shape, Heads, Follows
    <3>2. CASE ~Unwritten(file[h].name)
      <4>1. PICK w \in Handle : Writer(w) /\ file[w].name = file[h].name
        BY <3>2 DEF Unwritten
      <4>2. file[w].start = s
        BY <4>1 DEF Follows
      <4> QED
        BY <1>1, <4>1, <4>2 DEF Shape, Heads
    <3> QED
      BY <3>1, <3>2
  <2>3. file[h].name = file[k].name
    BY <2>1, <2>2 DEF IsFirst
  <2>4. ~Loses(k)
    BY <2>3 DEF Loses, Follower
  <2> QED
    BY <1>3, <2>3, <2>4 DEF OwnKept
<1> QED
  BY <1>2, <1>3

LEMMA OthersFit ==
  ASSUME TypeInv, Shape, PlaceInv, NEW k \in Handle, Acts(k)
  PROVE  (\A h \in Handle \ {k} : HandleFits(h)') /\ (\A n \in Name : EntryFits(n)')
<1>1. (\A h \in Handle : Writer(h)' <=> Writer(h)) /\ (\A n \in Name : Unwritten(n)' <=> Unwritten(n))
  BY WritersSame DEF Acts
<1>2. ASSUME NEW h \in Handle \ {k}  PROVE HandleFits(h)'
  <2>1. Same(h) /\ Remembers /\ StillAway(h) /\ HandleFits(h) /\ Follows(h)
    BY IdleIsAway DEF Acts, PlaceInv, HandleFits, Away, StillAway
  <2>2. Writer(h) => SameWriter(h)
    BY ChainOfWriter DEF Acts, SameWriter
  <2>3. ASSUME Follower(h), h \notin loose'  PROVE SameFollower(h)
    <3>1. Keeps(fat, fat', file[h].start) \/ file[h].name \in uneven'
      BY <2>1, <2>3, ChainOfFollower DEF Acts
    <3>2. ASSUME NEW w \in Handle, Writer(w)', file'[w].name = file[h].name
          PROVE  file'[w].start = file[h].start
      <4>1. Writer(w) /\ file[w].name = file[h].name
        BY <1>1, <3>2 DEF Acts, SameNames
      <4>2. file[w].start = file[h].start /\ file[h].start # Free
        BY <2>1, <2>3, <4>1 DEF Follows, Follower
      <4>3. CASE w = k
        <5>1. ~Loses(k)
          BY <2>3, <4>1, <4>3 DEF Loses, Follower
        <5> QED
          BY <4>2, <4>3, <5>1 DEF Acts
      <4>4. CASE w # k
        BY <4>2, <4>4 DEF Acts, Same
      <4> QED
        BY <4>3, <4>4
    <3> QED
      BY <3>1, <3>2 DEF SameFollower, Acts
  <2> QED
    BY <2>1, <2>2, <2>3, HandleKept
<1>3. ASSUME NEW n \in Name  PROVE EntryFits(n)'
  BY <1>1, ChainOfEntry, EntryKept DEF Acts, PlaceInv
<1> QED
  BY <1>2, <1>3

\* A step that leaves the table alone.
LEMMA TableKept ==
  ASSUME fat' = fat
  PROVE  (\A s : KeepsAll(s)) /\ (\A k : Spares(k) /\ OwnKept(k))
BY SameTable DEF KeepsAll, Spares, OwnKept

LEMMA SparesLinked ==
  ASSUME TypeInv, Shape, NEW k \in Handle, Writer(k), NEW c, c = Free \/ On(file[k].name, c),
         NEW got, LinkFree(c, file[k].name, got)
  PROVE  Spares(k)
<1> DEFINE n == file[k].name
<1>0. n \in Name
  BY StartType DEF Writer
<1>1. ASSUME NEW s \in Cluster, Starts(s), s # file[k].start
      PROVE  \E m : m # n /\ IsFirst(m, s)
  <2>1. CASE \E h \in Handle : Writer(h) /\ file[h].start = s
    <3>1. PICK h \in Handle : Writer(h) /\ file[h].start = s
      BY <2>1
    <3>2. IsFirst(file[h].name, s) /\ file[h].name # n
      BY <1>1, <3>1 DEF Shape, Heads, OneWriter
    <3> QED
      BY <3>2
  <2>2. CASE \E m \in Name : Unwritten(m) /\ dir[m].start = s
    <3>1. PICK m \in Name : Unwritten(m) /\ dir[m].start = s
      BY <2>2
    <3>2. IsFirst(m, s) /\ m # n
      BY <1>1, <3>1 DEF Shape, Heads, Unwritten
    <3> QED
      BY <3>2
  <2> QED
    BY <1>1, <2>1, <2>2 DEF Starts
<1> HIDE DEF n
<1>2. ASSUME NEW s \in Cluster, Starts(s), s # file[k].start  PROVE KeepsAll(s)
  <2>1. PICK m : m # n /\ IsFirst(m, s)
    BY <1>1, <1>2
  <2>2. c = Free \/ On(n, c)
    BY DEF n
  <2>3. LinkFree(c, n, got) /\ Links
    BY DEF n, Shape
  <2> QED
    BY <1>0, <2>1, <2>2, <2>3, LinkSpares DEF KeepsAll
<1> QED
  BY <1>2 DEF Spares

LEMMA OwnChain ==
  ASSUME TypeInv, Shape, NEW k \in Handle, Writer(k), file[k].start # Free
  PROVE  /\ file[k].start \in Cluster /\ IsFirst(file[k].name, file[k].start)
         /\ InUse(file[k].start) /\ file[k].name \in Name
<1>1. file[k].start \in Cluster /\ IsFirst(file[k].name, file[k].start)
  BY StartOn DEF Shape
<1>2. InUse(file[k].start)
  <2>1. \A r, c : Reaches(fat, file[k].start, r, c) => r \in Nat
    BY DEF Reaches
  <2> QED
    BY <1>1, <2>1, RanksOf DEF InUse, Shape
<1>3. file[k].name \in Name
  BY StartType DEF Writer
<1> QED
  BY <1>1, <1>2, <1>3

\* What a handle that is lengthening its file has meanwhile.
LEMMA LengtheningFits ==
  ASSUME NEW k \in Handle, HandleFits(k), Same(k), Remembers, Writer(k), Lengthens(k)', ~Seeking(k),
         Keeps(fat, fat', file[k].start) \/ file[k].name \in uneven'
  PROVE  HandleFits(k)'
<1>0. file'[k] = file[k] /\ (Even(k)' => Even(k)) /\ (Sure(k)' => Sure(k)) /\ (Writer(k)' <=> Writer(k))
  BY DEF Same, Remembers, Even, Sure, Writer
<1>1. SizeFits(k)' /\ ApStands(k)'
  BY DEF SizeFits, ApStands
<1>2. Follows(k)'
  BY <1>0 DEF Follows, Follower, Writer
<1>3. RwStands(k)'
  <2> SUFFICES ASSUME Sure(k)', file'[k].cur <= file'[k].size
               PROVE  Stands(fat', file'[k].start, file'[k].rw, file'[k].cur)
    BY DEF RwStands
  <2>1. Stands(fat, file[k].start, file[k].rw, file[k].cur)
    BY <1>0 DEF HandleFits, RwStands
  <2>2. Keeps(fat, fat', file[k].start)
    BY <1>0 DEF Sure, Even
  <2> QED
    BY <1>0, <2>1, <2>2, ChainsKept
<1> QED
  BY <1>1, <1>2, <1>3 DEF HandleFits

\* The transfers of a step.
LEMMA NoIoFits == ASSUME NoIo  PROVE IoFits'
BY DEF NoIo, IoFits

LEMMA UnevenIo ==
  ASSUME NEW k \in Handle, \A t \in io' : t.h = k, file'[k].name \in uneven'
  PROVE  IoFits'
BY DEF IoFits, Excused

LEMMA PlacedIo ==
  ASSUME NEW k \in Handle, \A t \in io' : t.h = k, Placed(fat', file'[k].start, io')
  PROVE  IoFits'
BY DEF IoFits, Placed

LEMMA TransferOf == \A h, p, off, n : \A t \in Transfer(h, p, off, n) : t.h = h
BY DEF Transfer

LEMMA FirmStays == ASSUME Firm, SameNames, loose' = loose, loose \subseteq Handle  PROVE Firm'
BY DEF Firm, SameNames

LEMMA StepFits ==
  ASSUME TypeInv, Shape, PlaceInv, NEW k \in Handle, Acts(k), HandleFits(k)', Firm', CallFits', IoFits'
  PROVE  PlaceInv'
BY OthersFit DEF PlaceInv

\* A step of a call that only moves along on its stack.
LEMMA StackStep ==
  ASSUME FileInv, ~conflict, PlaceInv, NEW k \in Handle, op.pc \in {"idle", "clear"} \/ op.h = k,
         UNCHANGED <<fat, dir, file, loose, uneven>>, astray \subseteq astray',
         StillAway(k), CallFits', IoFits'
  PROVE  PlaceInv'
<1>1. TypeInv /\ Shape /\ SameNames /\ \A h \in Handle : Same(h)
  BY Peaceful, FilesUntouched DEF Same
<1>2. Acts(k)
  BY <1>1, TableKept DEF Acts, Remembers
<1>3. HandleFits(k) /\ Firm /\ \A h \in Handle : Writer(h)' <=> Writer(h)
  BY DEF PlaceInv, Writer
<1>4. Writer(k) => SameWriter(k)
  BY TableKept DEF SameWriter
<1>5. Follower(k) /\ k \notin loose' => SameFollower(k)
  BY <1>3, TableKept DEF SameFollower, KeepsAll, HandleFits, Follows
<1>6. HandleFits(k)'
  BY <1>1, <1>2, <1>3, <1>4, <1>5, HandleKept DEF Acts
<1>7. Firm'
  BY <1>1, <1>3, FirmStays DEF TypeInv, NotesOK
<1> QED
  BY <1>1, <1>2, <1>6, <1>7, StepFits

-----------------------------------------------------------------------------
(***************************************************************************)
(* The walks.                                                              *)
(***************************************************************************)
LEMMA NextReached ==
  ASSUME TypeInv, NEW s, NEW r, NEW c, Reaches(fat, s, r, c), ~Ends(NextOf(c))
  PROVE  Reaches(fat, s, r + 1, NextOf(c)) /\ c \in Cluster /\ NextOf(c) = fat[c]
<1>1. c \in Cluster \cup {Beyond}
  BY ReachesType
<1>2. c # Beyond
  BY Outside DEF NextOf, Ends, TypeInv, TableOK, TableType
<1>3. c \in Cluster /\ NextOf(c) = fat[c]
  BY <1>1, <1>2 DEF NextOf
<1> QED
  BY <1>3, FatIsTable, ReachesNext

LEMMA EndReached ==
  ASSUME TypeInv, NEW s, NEW r, NEW c, Reaches(fat, s, r, c), Ends(NextOf(c))
  PROVE  (c = Beyond \/ Ends(fat[c])) /\ Tight(fat, s, r + 1)
<1>1. c \in Cluster \cup {Beyond}
  BY ReachesType
<1>2. c = Beyond \/ Ends(fat[c])
  BY <1>1 DEF NextOf
<1> QED
  BY <1>2, TightAt

LEMMA WalkedOn ==
  ASSUME TypeInv, NEW s, NEW r \in Nat, Reaches(fat, s, r, op.tip), ~Ends(NextOf(op.tip)),
         NEW g \in Int, r + op.left = g
  PROVE  \E i \in Nat : Reaches(fat, s, i, NextOf(op.tip)) /\ i + (op.left - 1) = g
<1>1. r + 1 \in Nat /\ Reaches(fat, s, r + 1, NextOf(op.tip)) /\ op.left \in Int
  BY NextReached, OpFields
<1>2. (r + 1) + (op.left - 1) = g
  BY <1>1
<1> QED
  BY <1>1, <1>2

\* One link of the walks of open, seek, extend and truncate (_FAT_fat_nextCluster,
\* _FAT_fat_lastCluster).
LEMMA PlaceOfWalk == ASSUME FileInv, ~conflict, PlaceInv, Walk  PROVE PlaceInv'
<1>0. TypeInv /\ op.pc = "walk" /\ op.h \in Handle /\ f \in FileStruct
  BY Peaceful, CallFile DEF Walk, At
<1>1. /\ op' = [op EXCEPT !.tip = NextOf(@), !.left = IF ToTheEnd THEN @ ELSE @ - 1]
      /\ ~Ends(NextOf(op.tip)) /\ (~ToTheEnd => op.left > 0)
  BY DEF Walk, MoreToWalk
<1>2. UNCHANGED <<fat, dir, file, loose, uneven, astray>> /\ NoIo
  BY DEF Walk, table, notes
<1>3. /\ op'.pc = "walk" /\ op'.h = op.h /\ op'.then = op.then /\ op'.goal = op.goal /\ op'.len = op.len
      /\ op'.ok = op.ok
      /\ op'.tip = NextOf(op.tip) /\ op'.left = IF ToTheEnd THEN op.left ELSE op.left - 1
  BY <1>0, <1>1, OpFields DEF Stack
<1>4. f' = f /\ (Even(op.h)' <=> Even(op.h))
  BY <1>2, <1>3 DEF f, Even
<1>5. WalkFits /\ op.left \in Int
  BY <1>0, OpFields DEF PlaceInv, CallFits
<1>a. (\E r \in Nat : Reaches(fat, f.start, r, op.tip))
        => \E r \in Nat : Reaches(fat, f.start, r, NextOf(op.tip))
  BY <1>0, <1>1, NextReached, ReachesType
<1>6. ASSUME op.then = "append", AppendWalk(fat, op, f)  PROVE AppendWalk(fat', op', f')
  BY <1>2, <1>3, <1>4, <1>6, <1>a DEF AppendWalk
<1>7. ASSUME op.then = "extend", ExtendWalk(fat, op, f)  PROVE ExtendWalk(fat', op', f')
  <2>1. \E r \in Nat : Reaches(fat, f.start, r, NextOf(op.tip))
    BY <1>7, <1>a DEF ExtendWalk
  <2> QED
    BY <1>2, <1>3, <1>4, <1>7, <2>1 DEF ExtendWalk
<1>8. op.then \in {"trim", "seek", "rewind"} => op'.left = op.left - 1 /\ op.left - 1 >= 0
  BY <1>1, <1>3, <1>5 DEF ToTheEnd
<1>9. ASSUME op.then = "trim", TrimWalk(fat, op, f)  PROVE TrimWalk(fat', op', f')
  <2>0. (op.goal - 1) \div Bpc \in Int
    BY <1>0, OpFields, Sizes3
  <2>1. PICK r \in Nat : Reaches(fat, f.start, r, op.tip) /\ r + op.left = (op.goal - 1) \div Bpc
    BY <1>9 DEF TrimWalk
  <2>2. \E i \in Nat : Reaches(fat, f.start, i, NextOf(op.tip))
                       /\ i + (op.left - 1) = (op.goal - 1) \div Bpc
    BY <1>0, <1>1, <2>0, <2>1, WalkedOn
  <2> QED
    BY <1>2, <1>3, <1>4, <1>8, <1>9, <2>2 DEF TrimWalk
<1>10. ASSUME op.then \in {"seek", "rewind"}, SeekWalk(fat, op, f)  PROVE SeekWalk(fat', op', f')
  <2>0. op.goal \div Bpc \in Int
    BY <1>0, OpFields, Sizes3
  <2>1. PICK r \in Nat : Reaches(fat, f.start, r, op.tip) /\ r + op.left = op.goal \div Bpc
    BY <1>10 DEF SeekWalk
  <2>2. \E i \in Nat : Reaches(fat, f.start, i, NextOf(op.tip)) /\ i + (op.left - 1) = op.goal \div Bpc
    BY <1>0, <1>1, <2>0, <2>1, WalkedOn
  <2> QED
    BY <1>2, <1>3, <1>4, <1>8, <1>10, <2>2 DEF SeekWalk
<1>11. WalkFits'
  <2>1. op.then = "trim" => TrimmedAlone'
    BY <1>2, <1>3, <1>4, <1>5 DEF WalkFits, TrimmedAlone, OpenOn
  <2>2. op.then \in {"seek", "rewind"} => SeekAims'
    BY <1>3, <1>4, <1>5 DEF WalkFits, SeekAims
  <2> QED
    BY <1>2, <1>3, <1>4, <1>5, <1>6, <1>7, <1>9, <1>10, <2>1, <2>2 DEF WalkFits
<1>12. CallFits'
  <2>1. KnowsSize'
    BY <1>0, <1>2, <1>3, <1>4 DEF PlaceInv, CallFits, KnowsSize, GrowsBehind, Extending
  <2> QED
    BY <1>3, <1>11, <2>1 DEF CallFits
<1>13. StillAway(op.h)
  BY <1>0, <1>3 DEF StillAway, Lengthens, Seeking, Opening, Extending
<1> QED
  BY <1>0, <1>2, <1>12, <1>13, NoIoFits, StackStep

\* Where two positions of a division stand to each other.
LEMMA QuotientGrows ==
  ASSUME NEW x \in Nat, NEW y \in Nat, x <= y
  PROVE  x \div Bpc <= y \div Bpc
<1> DEFINE a == x \div Bpc
           b == y \div Bpc
           v == x % Bpc
           w == y % Bpc
<1>1. /\ a \in Nat /\ v \in Nat /\ x = Clusters(a) + v
      /\ b \in Nat /\ w \in Nat /\ w < Bpc /\ y = Clusters(b) + w
  BY ClustersOf
<1> HIDE DEF a, b, v, w
<1>2. Clusters(a) \in Nat /\ Clusters(b) \in Nat /\ Bpc \in Nat
      /\ (b < a => Clusters(b) + Bpc <= Clusters(a))
  BY <1>1, ClusterFacts, Sizes3
<1>3. a <= b
  BY <1>1, <1>2
<1> QED
  BY <1>3 DEF a, b

LEMMA RankOfPosition ==
  ASSUME NEW t, NEW s, NEW p \in Spot, NEW x \in Nat, Stands(t, s, p, x)
  PROVE  \E r \in Nat : /\ Reaches(t, s, r, p.cluster)
                        /\ x \div Bpc = r + (IF p.sector = Spc THEN 1 ELSE 0)
<1>1. PICK r \in Nat : Reaches(t, s, r, p.cluster) /\ x = Clusters(r) + Sectors(p.sector) + p.byte
  BY DEF Stands
<1>2. /\ p.sector \in Nat /\ p.byte \in Nat /\ p.byte < Bps /\ Sectors(p.sector) \in Nat
      /\ Sectors(p.sector + 1) = Sectors(p.sector) + Bps /\ Clusters(r) \in Nat
      /\ Clusters(r + 1) = Clusters(r) + Bpc /\ r + 1 \in Nat /\ Clusters(r + 1) \in Nat
      /\ Bpc \in Nat /\ Bpc > 0 /\ Spc \in Nat /\ Bps \in Nat /\ Sectors(Spc) = Bpc
      /\ p.sector + 1 \in Nat
  BY SpotFacts, RankFacts, Sizes3, SectorFacts
<1>3. p.sector <= Spc /\ (p.sector = Spc => p.byte = 0)
  BY <1>2 DEF Stands
<1>4. CASE p.sector = Spc
  <2>1. x = Clusters(r + 1) + 0 /\ 0 < Bpc
    BY <1>1, <1>2, <1>3, <1>4
  <2>2. x \div Bpc = r + 1
    BY <1>2, <2>1, ClustersUnique
  <2> QED
    BY <1>1, <1>4, <2>2
<1>5. CASE p.sector # Spc
  <2>1. p.sector + 1 <= Spc
    BY <1>2, <1>3, <1>5
  <2>2. Sectors(p.sector + 1) <= Sectors(Spc)
    BY <1>2, <2>1, SectorFacts
  <2> DEFINE b == Sectors(p.sector) + p.byte
  <2>3. b \in Nat /\ b < Bpc /\ x = Clusters(r) + b
    BY <1>1, <1>2, <2>2
  <2> HIDE DEF b
  <2>4. x \div Bpc = r
    BY <2>3, ClustersUnique
  <2> QED
    BY <1>1, <1>5, <2>4
<1> QED
  BY <1>4, <1>5

\* A handle that is sure of its position has a chain long enough for it.
LEMMA SureIsLong ==
  ASSUME TypeInv, PlaceInv, NEW h \in Handle, file[h].inUse, file[h].start # Free, Even(h), h \notin loose,
         ~Lengthens(h)
  PROVE  Long(fat, file[h].start, file[h].size)
<1>0. HandleFits(h) /\ file[h].size \in Nat
  BY StartType DEF PlaceInv, FileStruct
<1>1. CASE file[h].write
  <2>1. Fits(fat, file[h].start, file[h].size)
    BY <1>0, <1>1 DEF HandleFits, SizeFits, Writer
  <2> QED
    BY <1>0, <2>1, FitsLong
<1>2. CASE ~file[h].write
  BY <1>0, <1>2 DEF HandleFits, Follows, Follower
<1> QED
  BY <1>1, <1>2

\* A step that changes the position of k in its file, and nothing of the table.
Repositions(k) ==
  /\ SameNames /\ SameStarts /\ UNCHANGED <<fat, dir, loose, uneven>>
  /\ \A h \in Handle \ {k} : Same(h)
  /\ file'[k].size = file[k].size /\ file'[k].append = file[k].append
  /\ file'[k].modified = file[k].modified

LEMMA RepositionActs ==
  ASSUME NEW k \in Handle, Repositions(k), op.pc \in {"idle", "clear"} \/ op.h = k
  PROVE  Acts(k)
BY TableKept DEF Acts, Repositions, Remembers, SameStarts

LEMMA Repositioned ==
  ASSUME NEW k \in Handle, Repositions(k), HandleFits(k)
  PROVE  /\ (Even(k)' <=> Even(k)) /\ (Writer(k)' <=> Writer(k))
         /\ ~Lengthens(k) \/ Lengthens(k)' => SizeFits(k)'
         /\ Follows(k)'
         /\ (Sure(k)' => Sure(k) \/ k \in astray) /\ (k \notin astray => (Sure(k)' => Sure(k)))
         /\ file'[k].ap = file[k].ap /\ ~Lengthens(k) /\ ~Opening(k) => ApStands(k)'
         /\ file'[k].rw = file[k].rw /\ file'[k].cur = file[k].cur /\ ~Seeking(k)
              /\ (k \in astray => k \in astray') => RwStands(k)'
<1>1. /\ file'[k].inUse = file[k].inUse /\ file'[k].write = file[k].write
      /\ file'[k].name = file[k].name /\ file'[k].start = file[k].start
  BY DEF Repositions, SameNames, SameStarts
<1>2. (Even(k)' <=> Even(k)) /\ (Writer(k)' <=> Writer(k)) /\ (Follower(k)' <=> Follower(k))
  BY <1>1 DEF Repositions, Even, Writer, Follower
<1>3. \A w \in Handle : (Writer(w)' <=> Writer(w)) /\ file'[w].name = file[w].name
                        /\ file'[w].start = file[w].start
  BY DEF Repositions, SameNames, SameStarts, Writer
<1>4. ~Lengthens(k) \/ Lengthens(k)' => SizeFits(k)'
  BY <1>1, <1>2 DEF Repositions, HandleFits, SizeFits
<1>5. Follows(k)'
  BY <1>1, <1>2, <1>3 DEF Repositions, HandleFits, Follows
<1>6. (Sure(k)' => Sure(k) \/ k \in astray) /\ (k \notin astray => (Sure(k)' => Sure(k)))
  BY <1>1, <1>2 DEF Repositions, Sure
<1>7. file'[k].ap = file[k].ap /\ ~Lengthens(k) /\ ~Opening(k) => ApStands(k)'
  BY <1>1, <1>2 DEF Repositions, HandleFits, ApStands
<1>8. file'[k].rw = file[k].rw /\ file'[k].cur = file[k].cur /\ ~Seeking(k)
        /\ (k \in astray => k \in astray') => RwStands(k)'
  BY <1>1, <1>2 DEF Repositions, HandleFits, RwStands, Sure
<1> QED
  BY <1>2, <1>4, <1>5, <1>6, <1>7, <1>8

LEMMA RepositionStep ==
  ASSUME FileInv, ~conflict, PlaceInv, NEW k \in Handle, Repositions(k),
         op.pc \in {"idle", "clear"} \/ op.h = k,
         SizeFits(k)', Follows(k)', RwStands(k)', ApStands(k)', CallFits', IoFits'
  PROVE  PlaceInv'
<1>1. TypeInv /\ Shape /\ Acts(k) /\ HandleFits(k)'
  BY Peaceful, RepositionActs DEF HandleFits
<1>2. Firm'
  BY <1>1, FirmStays DEF PlaceInv, Repositions, TypeInv, NotesOK
<1> QED
  BY <1>1, <1>2, StepFits

\* The record of k becomes g.
LEMMA BecomesRepositions ==
  ASSUME TypeInv, NEW k \in Handle, NEW g, Becomes(k, g),
         g.inUse = file[k].inUse, g.write = file[k].write, g.name = file[k].name,
         g.modified = file[k].modified, g.start = file[k].start, g.size = file[k].size,
         g.append = file[k].append,
         UNCHANGED <<fat, dir, loose, uneven>>, astray \ {k} \subseteq astray'
  PROVE  Repositions(k) /\ file'[k] = g
<1>1. /\ SameNames /\ file'[k] = g /\ \A j \in Handle \ {k} : file'[j] = file[j]
      /\ SameStarts
  BY NamesKept
<1> QED
  BY <1>1 DEF Repositions, Same

LEMMA QuietSize ==
  ASSUME op'.pc \in {"idle", "clear", "rchunk", "rget"} \/ (op'.pc = "walk" /\ op'.then # "extend")
  PROVE  KnowsSize'
BY DEF KnowsSize, GrowsBehind, Extending

LEMMA IdleFits == ASSUME op'.pc \in {"idle", "clear"}  PROVE CallFits'
BY QuietSize DEF CallFits

LEMMA IdleOp == Idle.pc = "idle" /\ \A c : Clearing(c).pc = "clear"
BY DEF Idle, Clearing

\* The end of an open for appending.
LEMMA PlaceOfOpenAppended == ASSUME FileInv, ~conflict, PlaceInv, OpenAppended  PROVE PlaceInv'
<1>k. PICK k \in Handle : k = op.h
  BY Peaceful, CallFile DEF OpenAppended, Walked, At
<1> DEFINE ap == EndPosition(op.tip, f.size)
           g == [f EXCEPT !.ap = ap]
<1>0. TypeInv /\ Shape /\ op.pc = "walk" /\ op.then = "append" /\ k = op.h /\ f = file[k]
      /\ f \in FileStruct /\ ~MoreToWalk /\ HandleOK(f)
  BY <1>k, Peaceful, CallFile DEF OpenAppended, Walked, At
<1>1. Becomes(k, g) /\ op' = Idle /\ NoIo
      /\ UNCHANGED <<fat, dir, loose, uneven, astray>>
  BY <1>0 DEF OpenAppended, notes, table
<1>2. /\ g.inUse = f.inUse /\ g.write = f.write /\ g.name = f.name /\ g.modified = f.modified
      /\ g.start = f.start /\ g.size = f.size /\ g.append = f.append /\ g.rw = f.rw /\ g.cur = f.cur
      /\ g.ap = ap
  BY <1>0 DEF FileStruct
<1> HIDE DEF g
<1>3. Repositions(k) /\ file'[k] = g
  BY <1>0, <1>1, <1>2, BecomesRepositions
<1>4. HandleFits(k) /\ ~Lengthens(k) /\ ~Seeking(k)
  BY <1>0 DEF PlaceInv, Lengthens, Seeking, Extending
<1>5. SizeFits(k)' /\ Follows(k)' /\ RwStands(k)' /\ (Even(k)' <=> Even(k)) /\ (Writer(k)' <=> Writer(k))
  BY <1>0, <1>1, <1>2, <1>3, <1>4, Repositioned
<1>6. ApStands(k)'
  <2> SUFFICES ASSUME Writer(k), f.append, f.start # Free, Even(k)
               PROVE  Stands(fat, f.start, ap, f.size) \/ Dead(ap)
    BY <1>0, <1>1, <1>2, <1>3, <1>5 DEF ApStands
  <2>1. Fits(fat, f.start, f.size)
    BY <1>0, <1>4 DEF HandleFits, SizeFits
  <2>2. AppendWalk(fat, op, f)
    BY <1>0 DEF PlaceInv, CallFits, WalkFits
  <2>3. PICK r \in Nat : Reaches(fat, f.start, r, op.tip)
    BY <2>2 DEF AppendWalk
  <2>4. Ends(NextOf(op.tip))
    BY <1>0 DEF MoreToWalk, ToTheEnd
  <2>5. Tight(fat, f.start, r + 1) /\ op.tip \in Link /\ f.size \in Nat /\ f.start # Beyond
    BY <1>0, <2>3, <2>4, EndReached, ReachesType, Outside DEF FileStruct
  <2>6. PICK n \in Nat : Covers(n, f.size)
                /\ (Tight(fat, f.start, n) \/ (f.size = Clusters(n) /\ Reaches(fat, f.start, n, Beyond)))
    BY <2>1 DEF Fits
  <2>7. f.size > 0
    <3> SUFFICES ASSUME f.size = 0  PROVE FALSE
      BY <2>5
    <3>1. Ends(f.start)
      BY <2>1, <2>5, FitsNothing
    <3> QED
      BY <2>3, <3>1, ReachesType
  <2>8. CASE Tight(fat, f.start, n)
    <3>1. n = r + 1
      BY <2>5, <2>8, TightOne
    <3> QED
      BY <2>3, <2>5, <2>6, <2>7, <3>1, StandsAtEnd
  <2>9. CASE f.size = Clusters(n) /\ Reaches(fat, f.start, n, Beyond)
    <3>1. Tight(fat, f.start, n + 1)
      BY <2>9, TightAt
    <3>2. n + 1 = r + 1
      BY <2>5, <3>1, TightOne
    <3>3. n = r
      BY <3>2
    <3>4. op.tip = Beyond
      BY <2>3, <2>9, <3>3, ReachesOne
    <3>5. f.size % Bpc = 0 /\ f.size % Bps = 0
      BY <2>9, EdgeRest
    <3> QED
      BY <2>7, <3>4, <3>5 DEF Dead, EndPosition
  <2> QED
    BY <2>6, <2>8, <2>9
<1> QED
  BY <1>0, <1>1, <1>3, <1>5, <1>6, IdleFits, IdleOp, NoIoFits, RepositionStep

\* _FAT_seek_r: the position it computes, or the walk there.
LEMMA PlaceOfSeek ==
  ASSUME FileInv, ~conflict, PlaceInv, NEW k \in Handle, NEW p \in Places, Seek(k, p)
  PROVE  PlaceInv'
<1> DEFINE old == file[k]
           ahead == p >= old.cur
           g == [old EXCEPT !.rw.sector = (p % Bpc) \div Bps, !.rw.byte = p % Bps]
           far == [old EXCEPT !.cur = p]
           o == [Idle EXCEPT !.pc = "walk", !.h = k, !.goal = p,
                   !.then = IF ahead THEN "seek" ELSE "rewind",
                   !.tip = IF ahead THEN old.rw.cluster ELSE old.start,
                   !.left = p \div Bpc - IF ahead THEN Counted(old) ELSE 0]
<1>0. TypeInv /\ op.pc = "idle" /\ old \in FileStruct /\ p \in Nat /\ old.size \in Nat
      /\ old.cur \in Nat /\ old.rw \in Spot /\ old.start \in Cluster \cup {Free} /\ old.inUse
  BY Peaceful, StartType, FileFields, CallsAssumption DEF Seek, Call
<1>1. NoIo /\ UNCHANGED <<fat, dir, loose, uneven, astray>>
  BY DEF Seek, notes, table
<1>2. HandleFits(k) /\ ~Lengthens(k) /\ ~Opening(k) /\ ~Seeking(k)
  BY <1>0, IdleIsAway DEF PlaceInv, Away
<1>3. CASE ~(p <= old.size /\ old.start # Free)
  <2>1. Becomes(k, far) /\ op' = op
    BY <1>3, Zenon DEF Seek
  <2>2. /\ far.inUse = old.inUse /\ far.write = old.write /\ far.name = old.name
        /\ far.modified = old.modified /\ far.start = old.start /\ far.size = old.size
        /\ far.append = old.append /\ far.rw = old.rw /\ far.cur = p /\ far.ap = old.ap
    BY <1>0 DEF FileStruct
  <2> HIDE DEF far
  <2>3. Repositions(k) /\ file'[k] = far
    BY <1>0, <1>1, <2>1, <2>2, BecomesRepositions
  <2>4. SizeFits(k)' /\ Follows(k)' /\ ApStands(k)'
    BY <1>2, <2>2, <2>3, Repositioned
  <2>5. RwStands(k)'
    BY <1>0, <1>3, <2>2, <2>3 DEF RwStands, Sure
  <2> QED
    BY <1>0, <1>1, <2>1, <2>3, <2>4, <2>5, IdleFits, NoIoFits, RepositionStep
<1>4. CASE p <= old.size /\ old.start # Free
  <2>1. Becomes(k, g) /\ op' = o
    BY <1>4, Zenon DEF Seek
  <2>2. /\ g.inUse = old.inUse /\ g.write = old.write /\ g.name = old.name
        /\ g.modified = old.modified /\ g.start = old.start /\ g.size = old.size
        /\ g.append = old.append /\ g.ap = old.ap
        /\ g.rw.sector = (p % Bpc) \div Bps /\ g.rw.byte = p % Bps
    BY <1>0, Zenon DEF FileStruct, Spot
  <2>3. /\ o.pc = "walk" /\ o.h = k /\ o.goal = p /\ o.then = (IF ahead THEN "seek" ELSE "rewind")
        /\ o.tip = (IF ahead THEN old.rw.cluster ELSE old.start)
        /\ o.left = p \div Bpc - (IF ahead THEN Counted(old) ELSE 0)
    BY DEF Idle
  <2> HIDE DEF g, o
  <2>4. Repositions(k) /\ file'[k] = g /\ f' = g
    BY <1>0, <1>1, <2>1, <2>2, <2>3, BecomesRepositions DEF f
  <2>5. SizeFits(k)' /\ Follows(k)' /\ ApStands(k)' /\ (k \notin astray => (Sure(k)' => Sure(k)))
        /\ (Even(k)' <=> Even(k))
    BY <1>2, <2>2, <2>4, Repositioned
  <2>6. RwStands(k)'
    BY <2>1, <2>3 DEF RwStands, Seeking
  <2>7. ASSUME Even(k), IF ahead THEN k \notin loose \cup astray ELSE k \notin loose
        PROVE  SeekWalk(fat, o, g)
    <3>1. p \div Bpc \in Nat
      BY <1>0, ClustersOf
    <3>2. CASE ahead
      <4>1. Sure(k) /\ old.cur <= old.size
        BY <1>0, <1>4, <2>7, <3>2 DEF Sure
      <4>2. Stands(fat, old.start, old.rw, old.cur)
        BY <1>2, <4>1 DEF HandleFits, RwStands
      <4>3. PICK r \in Nat : /\ Reaches(fat, old.start, r, old.rw.cluster)
                             /\ old.cur \div Bpc = r + (IF old.rw.sector = Spc THEN 1 ELSE 0)
        BY <1>0, <4>2, RankOfPosition
      <4>4. Counted(old) = r
        BY <4>3 DEF Counted
      <4>5. old.cur \div Bpc <= p \div Bpc
        BY <1>0, <3>2, QuotientGrows
      <4>6. o.left = p \div Bpc - r /\ o.left >= 0 /\ r + o.left = p \div Bpc
        BY <2>3, <3>1, <3>2, <4>3, <4>4, <4>5
      <4> QED
        BY <2>2, <2>3, <3>2, <4>3, <4>6 DEF SeekWalk
    <3>3. CASE ~ahead
      <4>1. Reaches(fat, old.start, 0, old.start)
        BY <1>0, <1>4, Outside, EndsLinks, ReachesStart
      <4>2. o.left = p \div Bpc /\ o.left >= 0 /\ 0 + o.left = p \div Bpc
        BY <2>3, <3>1, <3>3
      <4> QED
        BY <2>2, <2>3, <3>3, <4>1, <4>2 DEF SeekWalk
    <3> QED
      BY <3>2, <3>3
  <2>8. SeekAims'
    BY <1>4, <2>1, <2>2, <2>3, <2>4 DEF SeekAims
  <2>9. WalkFits'
    BY <1>1, <2>1, <2>3, <2>4, <2>5, <2>7, <2>8 DEF WalkFits
  <2>10. CallFits'
    BY <2>1, <2>3, <2>9, QuietSize DEF CallFits
  <2> QED
    BY <1>0, <1>1, <2>4, <2>5, <2>6, <2>10, NoIoFits, RepositionStep
<1> QED
  BY <1>3, <1>4

\* The end of the walk of _FAT_seek_r, in the edge case behind the last cluster too.
LEMMA PlaceOfSought == ASSUME FileInv, ~conflict, PlaceInv, Sought  PROVE PlaceInv'
<1>k. PICK k \in Handle : k = op.h
  BY Peaceful, CallFile DEF Sought, Walked, At
<1>0. TypeInv /\ op.pc = "walk" /\ op.then \in {"seek", "rewind"} /\ f = file[k] /\ k = op.h
      /\ f \in FileStruct /\ ~MoreToWalk /\ f.size \in Nat /\ f.rw \in Spot /\ f.start # Free
      /\ op.goal \in Nat /\ op.tip \in Link /\ op.left \in Int
  BY <1>k, Peaceful, CallFile, FileFields, OpFields
     DEF Sought, Walked, At, TypeInv, OpOK, CallOK, WalkOK
<1>1. NoIo /\ UNCHANGED <<fat, dir, loose, uneven>> /\ op' = Idle
  BY DEF Sought, KeepNotes, table
<1>2. HandleFits(k) /\ ~Lengthens(k) /\ ~Opening(k)
  BY <1>0 DEF PlaceInv, Lengthens, Opening, Extending
<1>3. ToTheEnd = FALSE /\ SeekAims /\ WalkFits
  BY <1>0 DEF ToTheEnd, PlaceInv, CallFits, WalkFits
<1> DEFINE there == [f EXCEPT !.rw.cluster = op.tip, !.cur = op.goal]
           flag == [f EXCEPT !.rw = Position(op.tip, Spc, 0), !.cur = op.goal]
\* What the walk has found, when the handle can be trusted.
<1> DEFINE Found2 == Even(k) /\ k \notin loose /\ (op.then = "seek" => k \notin astray)
<1>4. Found2 => SeekWalk(fat, op, f) /\ Long(fat, f.start, f.size)
  <2> SUFFICES ASSUME Found2  PROVE SeekWalk(fat, op, f) /\ Long(fat, f.start, f.size)
    OBVIOUS
  <2>1. SeekWalk(fat, op, f)
    BY <1>0, <1>3 DEF WalkFits
  <2>2. f.inUse
    BY <1>0, CallFile
  <2> QED
    BY <1>0, <1>2, <2>1, <2>2, SureIsLong
<1>5. CASE op.left <= 0 /\ Becomes(op.h, there)
           /\ astray' = IF op.then = "rewind" THEN astray \ {op.h} ELSE astray
  <2>1. /\ there.inUse = f.inUse /\ there.write = f.write /\ there.name = f.name
        /\ there.modified = f.modified /\ there.start = f.start /\ there.size = f.size
        /\ there.append = f.append /\ there.ap = f.ap /\ there.cur = op.goal
        /\ there.rw \in Spot /\ there.rw.cluster = op.tip /\ there.rw.sector = f.rw.sector
        /\ there.rw.byte = f.rw.byte
    BY <1>0, Zenon DEF FileStruct, Spot
  <2> HIDE DEF there
  <2>2. Repositions(k) /\ file'[k] = there
    BY <1>0, <1>1, <1>5, <2>1, BecomesRepositions
  <2>3. SizeFits(k)' /\ Follows(k)' /\ ApStands(k)' /\ (Even(k)' <=> Even(k))
    BY <1>0, <1>2, <2>1, <2>2, Repositioned
  <2>4. RwStands(k)'
    <3> SUFFICES ASSUME Sure(k)'  PROVE Stands(fat, f.start, there.rw, op.goal)
      BY <1>1, <2>1, <2>2 DEF RwStands
    <3>1. Found2
      BY <1>0, <1>1, <1>5, <2>3 DEF Sure
    <3>2. PICK r \in Nat : Reaches(fat, f.start, r, op.tip) /\ r + op.left = op.goal \div Bpc
                           /\ op.left >= 0
      BY <1>4, <3>1 DEF SeekWalk
    <3>3. op.left = 0 /\ r = op.goal \div Bpc
      BY <1>0, <1>5, <3>2
    <3> QED
      BY <1>0, <1>3, <2>1, <3>2, <3>3, StandsAt DEF SeekAims
  <2> QED
    BY <1>0, <1>1, <2>2, <2>3, <2>4, IdleFits, IdleOp, NoIoFits, RepositionStep
<1>6. CASE op.left > 0 /\ op.left = 1 /\ f.size = op.goal /\ f.rw.sector = 0
           /\ Becomes(op.h, flag) /\ astray' = astray
  <2>1. /\ flag.inUse = f.inUse /\ flag.write = f.write /\ flag.name = f.name
        /\ flag.modified = f.modified /\ flag.start = f.start /\ flag.size = f.size
        /\ flag.append = f.append /\ flag.ap = f.ap /\ flag.cur = op.goal
        /\ flag.rw = Position(op.tip, Spc, 0)
    BY <1>0, Zenon DEF FileStruct
  <2> HIDE DEF flag
  <2>2. Repositions(k) /\ file'[k] = flag
    BY <1>0, <1>1, <1>6, <2>1, BecomesRepositions
  <2>3. SizeFits(k)' /\ Follows(k)' /\ ApStands(k)' /\ (Even(k)' <=> Even(k))
        /\ (k \notin astray => (Sure(k)' => Sure(k)))
    BY <1>0, <1>2, <2>1, <2>2, Repositioned
  <2>4. RwStands(k)'
    <3> SUFFICES ASSUME Sure(k)'  PROVE Stands(fat, f.start, flag.rw, op.goal)
      BY <1>1, <2>1, <2>2 DEF RwStands
    <3>1. Found2
      BY <1>0, <1>1, <1>6, <2>3 DEF Sure
    <3>2. PICK r \in Nat : Reaches(fat, f.start, r, op.tip) /\ r + op.left = op.goal \div Bpc
      BY <1>4, <3>1 DEF SeekWalk
    <3>3. op.goal \div Bpc = r + 1
      BY <1>0, <1>6, <3>2
    <3>4. flag.rw \in Spot /\ flag.rw.cluster = op.tip /\ flag.rw.sector = Spc /\ flag.rw.byte = 0
      BY <1>0, <2>1, SpotType, Sizes3
    <3>5. Stands(fat, f.start, flag.rw, Clusters(r + 1))
      BY <3>2, <3>4, StandsAtEdge
    <3>6. Sectors(0) = 0 /\ op.goal = Clusters(r + 1) + Sectors((op.goal % Bpc) \div Bps) + (op.goal % Bps)
          /\ op.goal % Bps \in Nat
      BY <1>0, <3>3, Parts, SectorFacts
    <3>7. (op.goal % Bpc) \div Bps = 0
      BY <1>3, <1>6 DEF SeekAims
    <3>8. Clusters(r + 1) \in Nat /\ r + 1 \in Nat
      BY RankFacts
    <3>9. op.goal = Clusters(r + 1) + (op.goal % Bps)
      BY <3>6, <3>7, <3>8
    <3>10. op.goal % Bps = 0
      <4> SUFFICES ASSUME op.goal % Bps # 0  PROVE FALSE
        OBVIOUS
      <4>1. Clusters(r + 1) < f.size
        BY <1>0, <1>6, <3>6, <3>8, <3>9
      <4>2. PICK c \in Link : Reaches(fat, f.start, r + 1, c)
        BY <1>0, <1>4, <3>1, <3>8, <4>1, LongReaches
      <4>3. Ends(NextOf(op.tip))
        BY <1>0, <1>3, <1>6 DEF MoreToWalk
      <4>4. Tight(fat, f.start, r + 1)
        BY <1>0, <3>2, <4>3, EndReached
      <4>5. r + 1 < r + 1
        BY <4>2, <4>4, TightEnds
      <4> QED
        BY <3>8, <4>5
    <3> QED
      BY <3>5, <3>8, <3>9, <3>10
  <2> QED
    BY <1>0, <1>1, <2>2, <2>3, <2>4, IdleFits, IdleOp, NoIoFits, RepositionStep
<1>7. CASE file' = file /\ astray' = astray \cup {op.h}
  <2>1. Repositions(k)
    BY <1>0, <1>1, <1>7, FilesUntouched DEF Repositions, Same
  <2>2. SizeFits(k)' /\ Follows(k)' /\ ApStands(k)'
    BY <1>0, <1>2, <1>7, <2>1, Repositioned
  <2>3. RwStands(k)'
    BY <1>0, <1>7 DEF RwStands, Sure
  <2> QED
    BY <1>0, <1>1, <2>1, <2>2, <2>3, IdleFits, IdleOp, NoIoFits, RepositionStep
<1> QED
  BY <1>0, <1>5, <1>6, <1>7, Zenon DEF Sought

-----------------------------------------------------------------------------
(***************************************************************************)
(* The reads.                                                              *)
(***************************************************************************)
LEMMA RunOne ==
  ASSUME NEW t, NEW s, NEW r, NEW c, Reaches(t, s, r, c)
  PROVE  Run(t, s, r, c, 1)
<1>1. r \in Nat /\ c \in Link /\ c \in Nat
  BY ReachesType, Outside
<1>2. \A i \in 0 .. 1 - 1 : i = 0 /\ r + i = r /\ c + i = c
  BY <1>1
<1> QED
  BY <1>2 DEF Run

LEMMA RunLast ==
  ASSUME NEW t, NEW s, NEW r \in Nat, NEW c \in Nat, NEW m \in Nat, m > 0, Run(t, s, r, c, m)
  PROVE  Reaches(t, s, r + (m - 1), c + (m - 1)) /\ Reaches(t, s, r, c)
<1>1. m - 1 \in 0 .. m - 1 /\ 0 \in 0 .. m - 1
  OBVIOUS
<1>2. Reaches(t, s, r + (m - 1), c + (m - 1)) /\ Reaches(t, s, r + 0, c + 0)
  BY <1>1 DEF Run
<1>3. r + 0 = r
  OBVIOUS
<1>4. c + 0 = c
  OBVIOUS
<1> QED
  BY <1>2, <1>3, <1>4

LEMMA RunMore ==
  ASSUME NEW t, NEW s, NEW r \in Nat, NEW c \in Nat, NEW m \in Nat, Run(t, s, r, c, m),
         Reaches(t, s, r + m, c + m)
  PROVE  Run(t, s, r, c, m + 1)
<1> SUFFICES ASSUME NEW i \in 0 .. (m + 1) - 1  PROVE Reaches(t, s, r + i, c + i)
  BY DEF Run
<1>1. i = m \/ i \in 0 .. m - 1
  OBVIOUS
<1> QED
  BY <1>1 DEF Run

\* A link to the cluster that is next on the disc is the link to another one.
LEMMA NextOnDisc ==
  ASSUME TypeInv, NEW s, NEW r, NEW c, Reaches(fat, s, r, c), NextOf(c) = c + 1
  PROVE  Reaches(fat, s, r + 1, c + 1)
<1>1. c \in Cluster \cup {Beyond} /\ c \in Nat
  BY ReachesType, Outside
<1>2. tail \in {Free, Eof}
  BY DEF TypeInv, TableOK, TableType
<1>3. ~Ends(NextOf(c))
  <2>1. CASE c = Beyond
    <3>1. NextOf(c) = tail
      BY <2>1, Outside DEF NextOf
    <3>2. Beyond + 1 # Free /\ Beyond + 1 # Eof
      BY Constants
    <3> QED
      BY <1>2, <2>1, <3>1, <3>2
  <2>2. CASE c \in Cluster
    BY <2>2, Constants DEF Ends
  <2> QED
    BY <1>1, <2>1, <2>2
<1> QED
  BY <1>3, NextReached

LEMMA ReadCall ==
  ASSUME FileInv, ~conflict, PlaceInv, op.pc \in {"rchunk", "rget"}
  PROVE  /\ TypeInv /\ op.h \in Handle /\ f = file[op.h] /\ f \in FileStruct /\ HandleOK(f)
         /\ StillAway(op.h) /\ Away(op.h) /\ HandleFits(op.h)
         /\ Sure(op.h) => ReadAt(fat, op, f) /\ ReadRun(fat, op, f)
<1>1. TypeInv /\ op.h \in Handle /\ f = file[op.h] /\ f \in FileStruct /\ HandleOK(f)
  BY Peaceful, CallFile
<1>2. Away(op.h)
  BY DEF Away, Lengthens, Seeking, Opening, Extending
<1>3. StillAway(op.h)
  BY <1>2 DEF StillAway, Away
<1> QED
  BY <1>1, <1>2, <1>3 DEF PlaceInv, CallFits

\* _FAT_read_r gathers the clusters that follow each other.
LEMMA PlaceOfReadGroup == ASSUME FileInv, ~conflict, PlaceInv, ReadGroup  PROVE PlaceInv'
<1> DEFINE chunk == op.chunk + Bpc
           next == NextOf(op.next)
<1>0. op.pc = "rchunk" /\ op.ok /\ op.remain >= Bpc
  BY DEF ReadGroup, At
<1>1. /\ TypeInv /\ op.h \in Handle /\ f = file[op.h] /\ f \in FileStruct
      /\ StillAway(op.h)
      /\ Sure(op.h) => ReadAt(fat, op, f) /\ ReadRun(fat, op, f)
  BY <1>0, ReadCall
<1>2. /\ op.remain \in Nat /\ op.chunk \in Nat /\ op.pos \in Spot /\ op.next \in Link
      /\ op.off \in Nat /\ op \in Stack /\ Bpc \in Nat /\ Bpc > 0 /\ Bps \in Nat /\ Bps <= Bpc /\ Bps > 0
      /\ op.end \in Link
  BY <1>1, OpFields, Sizes3
<1>3. UNCHANGED <<fat, dir, file, loose, uneven, astray>> /\ NoIo
  BY DEF ReadGroup, table, notes
<1>4. op' = [op EXCEPT !.end = op.next, !.next = next, !.chunk = chunk,
                 !.pc = IF next = op.next + 1 /\ InRun(chunk) /\ chunk + Bpc <= op.remain
                        THEN "rchunk" ELSE "rget"]
  BY DEF ReadGroup
<1>5. /\ op'.pc = (IF next = op.next + 1 /\ InRun(chunk) /\ chunk + Bpc <= op.remain
                   THEN "rchunk" ELSE "rget")
      /\ op'.end = op.next /\ op'.next = next /\ op'.chunk = chunk /\ op'.h = op.h
      /\ op'.pos = op.pos /\ op'.off = op.off /\ op'.len = op.len /\ op'.remain = op.remain
      /\ op'.ok = op.ok
  BY <1>2, <1>4 DEF Stack
<1>6. f' = f /\ (Sure(op.h)' <=> Sure(op.h))
  BY <1>3, <1>5 DEF f, Sure, Even
<1>6a. \A c : NextOf(c)' = NextOf(c)
  BY DEF ReadGroup, table, NextOf
<1>7. ASSUME Sure(op.h)  PROVE ReadAt(fat, op, f)' /\ ReadRun(fat, op, f)'
  <2>1. ReadAt(fat, op, f) /\ ReadRun(fat, op, f)
    BY <1>1, <1>7
  <2>2. ReadAt(fat, op, f)'
    BY <1>3, <1>5, <1>6, <2>1 DEF ReadAt
  <2>3. op.pos.byte = 0 /\ op.pos.sector = 0
    BY <1>0, <1>2, <2>1 DEF ReadAt
  <2>4. chunk > 0 /\ chunk <= op.remain
    <3>1. CASE op.chunk = 0
      BY <1>0, <1>2, <3>1
    <3>2. CASE op.chunk > 0
      BY <1>0, <1>2, <2>1, <3>2 DEF ReadRun
    <3> QED
      BY <1>2, <3>1, <3>2
  <2>5. PICK r \in Nat : Reaches(fat, f.start, r, op.pos.cluster)
                         /\ op.off = Clusters(r) + Sectors(op.pos.sector) + op.pos.byte
    BY <2>1 DEF ReadAt, Stands
  <2>6. op.off = Clusters(r) /\ op.pos.cluster \in Nat
    <3>1. op.pos.cluster \in Nat /\ Clusters(r) \in Nat
      BY <2>5, RankFacts, ReachesType, Outside
    <3>2. op.off = Clusters(r) + 0 + 0
      BY <2>3, <2>5, SectorFacts
    <3> QED
      BY <3>1, <3>2
  <2>7. \E i, m \in Nat : GroupAt(fat, op', f, i, m)
    <3>1. CASE op.chunk = 0
      <4>1. op.next = op.pos.cluster
        BY <1>0, <2>1, <3>1 DEF ReadRun
      <4>2. op'.chunk = Clusters(1) /\ Clusters(1) = Bpc
        BY <1>2, <1>5, <3>1, ClusterFacts
      <4>3. Run(fat, f.start, r, op'.pos.cluster, 1)
        BY <1>5, <2>5, RunOne
      <4>4. op'.end = op'.pos.cluster + 1 - 1
        BY <1>5, <2>6, <4>1
      <4> QED
        BY <1>5, <2>6, <4>2, <4>3, <4>4 DEF GroupAt
    <3>2. CASE op.chunk > 0
      <4>1. PICK i, m \in Nat : GroupAt(fat, op, f, i, m)
        BY <2>1, <3>2 DEF ReadRun
      <4>2. op.next = NextOf(op.end) /\ op.next = op.end + 1
        BY <1>0, <2>1, <3>2 DEF ReadRun
      <4>3. /\ m > 0 /\ op.chunk = Clusters(m) /\ op.off = Clusters(i)
            /\ Run(fat, f.start, i, op.pos.cluster, m) /\ op.end = op.pos.cluster + m - 1
        BY <4>1 DEF GroupAt
      <4>4. Reaches(fat, f.start, i + (m - 1), op.pos.cluster + (m - 1))
        BY <2>6, <4>3, RunLast
      <4>5. op.pos.cluster + (m - 1) = op.end /\ (i + (m - 1)) + 1 = i + m
            /\ op.end + 1 = op.pos.cluster + m
        BY <2>6, <4>3
      <4>6. Reaches(fat, f.start, (i + (m - 1)) + 1, op.end + 1)
        BY <1>1, <4>2, <4>4, <4>5, NextOnDisc
      <4>7. Run(fat, f.start, i, op.pos.cluster, m + 1)
        BY <2>6, <4>3, <4>5, <4>6, RunMore
      <4>8. op'.chunk = Clusters(m + 1) /\ m + 1 \in Nat /\ m + 1 > 0
        BY <1>5, <4>3, RankFacts
      <4>9. op'.end = op'.pos.cluster + (m + 1) - 1
        BY <1>5, <2>6, <4>2, <4>3, <4>5
      <4>10. GroupAt(fat, op', f, i, m + 1)
        BY <1>5, <4>3, <4>7, <4>8, <4>9 DEF GroupAt
      <4> QED
        BY <4>8, <4>10
    <3>3. op.chunk = 0 \/ op.chunk > 0
      BY <1>2
    <3> QED
      BY <3>1, <3>2, <3>3
  <2>8. op'.next = NextOf(op'.end)
    BY <1>5
  <2>9. op'.pc = "rchunk" => op'.next = op'.end + 1 /\ op'.chunk + Bpc <= op'.remain
    BY <1>5
  <2>10. op'.ok /\ op'.chunk > 0 /\ op'.chunk <= op'.remain
    BY <1>0, <1>5, <2>4
  <2>11. ReadRun(fat, op, f)'
    BY <1>3, <1>5, <1>6, <1>6a, <2>7, <2>8, <2>9, <2>10 DEF ReadRun
  <2> QED
    BY <2>2, <2>11
<1>8. CallFits'
  <2>3. op'.pc \in {"rchunk", "rget"}
    BY <1>5
  <2>4. KnowsSize'
    BY <2>3, QuietSize
  <2> QED
    BY <1>5, <1>6, <1>7, <2>3, <2>4, Zenon DEF CallFits
<1> QED
  BY <1>1, <1>3, <1>8, NoIoFits, StackStep

\* The transfers for a handle that can be trusted, or cannot.
LEMMA SureIo ==
  ASSUME NEW k \in Handle, \A t \in io' : t.h = k,
         file'[k].name = file[k].name, uneven' = uneven, loose' = loose, astray \subseteq astray',
         file[k].inUse, file[k].start # Free,
         Sure(k) => Placed(fat', file'[k].start, io')
  PROVE  IoFits'
<1>1. CASE Sure(k)
  BY <1>1, PlacedIo
<1>2. CASE ~Sure(k)
  <2>1. file'[k].name \in uneven' \/ k \in loose' \cup astray'
    BY <1>2 DEF Sure, Even
  <2> QED
    BY <2>1 DEF IoFits, Excused
<1> QED
  BY <1>1, <1>2

\* _FAT_read_r reads them in one transfer, or stops at its error.
LEMMA PlaceOfReadGet == ASSUME FileInv, ~conflict, PlaceInv, ReadGet  PROVE PlaceInv'
<1>k. PICK k \in Handle : k = op.h
  BY Peaceful, CallFile DEF ReadGet, At
<1>0. op.pc = "rget"
  BY DEF ReadGet, At
<1>1. /\ TypeInv /\ k = op.h /\ f = file[k] /\ f \in FileStruct /\ f.start # Free /\ f.inUse
      /\ StillAway(k)
      /\ Sure(k) => ReadAt(fat, op, f) /\ ReadRun(fat, op, f)
      /\ op.ok /\ op.pos.byte = 0 /\ op.chunk <= op.remain
  BY <1>k, <1>0, ReadCall, CallFile DEF TypeInv, OpOK, CallOK, ReadOK, RunOK
<1>2. /\ op.remain \in Nat /\ op.chunk \in Nat /\ op.pos \in Spot /\ op.next \in Link
      /\ op.off \in Nat /\ op \in Stack /\ op.end \in Link /\ Spc \in Nat
      /\ op.len \in Nat
  BY <1>1, OpFields, Sizes3
<1>3. UNCHANGED <<fat, dir, file, loose, uneven>> /\ tail' = tail
  BY DEF ReadGet, table
<1>4. CASE /\ op' = [op EXCEPT !.pc = "rchunk", !.chunk = 0, !.ok = FALSE]
           /\ NoIo /\ UNCHANGED astray
  <2>1. /\ op'.pc = "rchunk" /\ op'.chunk = 0 /\ op'.ok = FALSE /\ op'.h = k
        /\ op'.pos = op.pos /\ op'.off = op.off /\ op'.len = op.len /\ op'.remain = op.remain
    BY <1>1, <1>2, <1>4 DEF Stack
  <2>2. f' = f /\ (Sure(k)' <=> Sure(k))
    BY <1>1, <1>3, <1>4, <2>1 DEF f, Sure, Even
  <2>3. ASSUME Sure(k)  PROVE ReadAt(fat, op, f)' /\ ReadRun(fat, op, f)'
    <3>1. ReadAt(fat, op, f)'
      BY <1>1, <1>3, <2>1, <2>2, <2>3 DEF ReadAt
    <3>2. ReadRun(fat, op, f)'
      BY <2>1 DEF ReadRun
    <3> QED
      BY <3>1, <3>2
  <2>4. KnowsSize'
    BY <2>1, QuietSize
  <2>5. CallFits'
    BY <2>1, <2>2, <2>3, <2>4, Zenon DEF CallFits
  <2> QED
    BY <1>1, <1>3, <1>4, <2>5, NoIoFits, StackStep
<1> DEFINE rest == op.remain - op.chunk
           ended == rest = 0 /\ op.next = Eof
           good == ended \/ IsValid(op.next)
           p == CASE ended -> [op.pos EXCEPT !.cluster = op.end, !.sector = Spc]
                  [] ~ended /\ good -> [op.pos EXCEPT !.cluster = op.next, !.sector = 0]
                  [] OTHER -> op.pos
           at == OnSector(AtHead(op.pos))
<1>5. CASE /\ io' = Transfer(op.h, at, op.off, op.chunk)
           /\ op' = [op EXCEPT !.pc = "rchunk", !.chunk = 0, !.remain = rest, !.pos = p,
                       !.off = @ + op.chunk, !.ok = good, !.next = p.cluster]
           /\ astray' = IF good THEN astray ELSE astray \cup {op.h}
  <2>1. /\ op'.pc = "rchunk" /\ op'.chunk = 0 /\ op'.ok = good /\ op'.h = k
        /\ op'.pos = p /\ op'.off = op.off + op.chunk /\ op'.len = op.len /\ op'.remain = rest
        /\ op'.next = p.cluster
    BY <1>1, <1>2, <1>5 DEF Stack
  <2>2. f' = f /\ (Sure(k)' => Sure(k) /\ good)
    <3>1. f' = f /\ astray \subseteq astray' /\ (~good => k \in astray')
      BY <1>1, <1>3, <1>5, <2>1 DEF f
    <3> HIDE DEF good
    <3> QED
      BY <1>3, <3>1 DEF Sure, Even
  <2>3. ASSUME Sure(k)
        PROVE  \E r, m \in Nat :
                  /\ m > 0 /\ op.chunk = Clusters(m) /\ op.off = Clusters(r)
                  /\ Run(fat, f.start, r, op.pos.cluster, m)
                  /\ Reaches(fat, f.start, r + (m - 1), op.end)
    <3>1. ReadRun(fat, op, f)
      BY <1>1, <2>3
    <3>2. PICK r, m \in Nat : GroupAt(fat, op, f, r, m)
      BY <1>0, <3>1 DEF ReadRun
    <3>3. /\ m > 0 /\ op.chunk = Clusters(m) /\ op.off = Clusters(r)
          /\ Run(fat, f.start, r, op.pos.cluster, m) /\ op.end = op.pos.cluster + m - 1
      BY <3>2 DEF GroupAt
    <3>4. op.pos.cluster \in Nat
      BY <1>2, SpotFacts, Outside
    <3>5. Reaches(fat, f.start, r + (m - 1), op.pos.cluster + (m - 1))
      BY <3>3, <3>4, RunLast
    <3>6. op.pos.cluster + (m - 1) = op.end
      BY <3>3, <3>4
    <3> QED
      BY <3>3, <3>5, <3>6
  <2>4. ASSUME Sure(k)  PROVE Placed(fat', file'[k].start, io')
    <3>1. PICK r, m \in Nat : op.chunk = Clusters(m) /\ op.off = Clusters(r)
                              /\ Run(fat, f.start, r, op.pos.cluster, m)
      BY <2>3, <2>4
    <3>2. at \in Spot /\ at.sector = 0 /\ at.byte = 0 /\ at.cluster = op.pos.cluster
      BY <1>2, HeadOfCluster DEF OnSector, AtHead, Spot
    <3> HIDE DEF at
    <3>3. Placed(fat, f.start, Transfer(k, at, Clusters(r), Clusters(m)))
      BY <3>1, <3>2, PlacedRun
    <3> QED
      BY <1>1, <1>3, <1>5, <3>1, <3>3
  <2>5. ASSUME Sure(k), good  PROVE ReadAt(fat, op, f)' /\ ReadRun(fat, op, f)'
    <3>1. PICK r, m \in Nat :
            /\ m > 0 /\ op.chunk = Clusters(m) /\ op.off = Clusters(r)
            /\ Reaches(fat, f.start, r + (m - 1), op.end)
      BY <2>3, <2>5
    <3>2. op.off + op.chunk = Clusters(r + m) /\ (r + (m - 1)) + 1 = r + m /\ r + (m - 1) \in Nat
          /\ r + m \in Nat
      BY <3>1, ClusterFacts
    <3>3. /\ op.off + op.remain = f.cur + op.len /\ f.cur + op.len <= f.size
      BY <1>1, <2>5 DEF ReadAt
    <3>4. (op.off + op.chunk) + rest = f.cur + op.len
      BY <1>2, <3>3
    <3>5. /\ Stands(fat, f.start, p, op.off + op.chunk)
          /\ rest = 0 \/ (p.byte = 0 /\ p.sector = 0)
      <4>1. CASE ended
        <5>1. p = [op.pos EXCEPT !.cluster = op.end, !.sector = Spc]
          BY <4>1, Zenon
        <5>2. p \in Spot /\ p.cluster = op.end /\ p.sector = Spc /\ p.byte = 0
          BY <1>1, <1>2, <5>1 DEF Spot
        <5> HIDE DEF p
        <5>3. Stands(fat, f.start, p, Clusters((r + (m - 1)) + 1))
          BY <3>1, <3>2, <5>2, StandsAtEdge
        <5> QED
          BY <3>2, <4>1, <5>3
      <4>2. CASE ~ended /\ good
        <5>1. p = [op.pos EXCEPT !.cluster = op.next, !.sector = 0]
          BY <4>2, Zenon
        <5>2. p \in Spot /\ p.cluster = op.next /\ p.sector = 0 /\ p.byte = 0
          BY <1>1, <1>2, <5>1 DEF Spot
        <5>3. IsValid(op.next) /\ op.next = NextOf(op.end)
          <6>1. ReadRun(fat, op, f)
            BY <1>1, <2>5
          <6>2. op.chunk > 0
            BY <1>0, <6>1 DEF ReadRun
          <6> QED
            BY <4>2, <6>1, <6>2 DEF ReadRun
        <5>4. Reaches(fat, f.start, (r + (m - 1)) + 1, op.next)
          BY <1>1, <3>1, <5>3, NextReached, EndsLinks DEF IsValid
        <5> HIDE DEF p
        <5>5. Stands(fat, f.start, p, Clusters(r + m))
          BY <3>2, <5>2, <5>4, StandsAtHead
        <5> QED
          BY <3>2, <5>2, <5>5
      <4> QED
        BY <2>5, <4>1, <4>2
    <3> HIDE DEF p, good, rest
    <3>6. 0 < Spc
      BY Sizes3
    <3>7. ReadAt(fat, op, f)'
      BY <1>3, <2>1, <2>2, <3>3, <3>4, <3>5, <3>6 DEF ReadAt
    <3>8. ReadRun(fat, op, f)'
      BY <2>1 DEF ReadRun
    <3> QED
      BY <3>7, <3>8
  <2>6. astray \subseteq astray'
    BY <1>5
  <2> HIDE DEF p, good, rest, at
  <2>a. KnowsSize'
    BY <2>1, QuietSize
  <2>7. CallFits'
    BY <2>1, <2>2, <2>5, <2>a, Zenon DEF CallFits
  <2>8. \A t \in io' : t.h = k
    BY <1>1, <1>5, TransferOf
  <2>9. IoFits'
    BY <1>1, <1>3, <2>4, <2>6, <2>8, SureIo
  <2> QED
    BY <1>1, <1>3, <2>6, <2>7, <2>9, StackStep
<1> QED
  BY <1>4, <1>5, Zenon DEF ReadGet

\* The end of a read or a write: n bytes, less than a cluster, from the head of
\* one on, or within a sector.
LEMMA TailMoved ==
  ASSUME NEW t, NEW s, NEW h, NEW p \in Spot, NEW x \in Nat, Stands(t, s, p, x), NEW n \in Nat, n < Bpc,
         n = 0 \/ (p.byte = 0 /\ p.sector < Spc /\ (p.sector = 0 \/ n < Bps)),
         NEW m \in Nat, NEW b \in Nat, b < Bps, n = Sectors(m) + b, NEW q, q = BySectors(p, m)
  PROVE  /\ Stands(t, s, [q EXCEPT !.byte = @ + b], x + n) /\ [q EXCEPT !.byte = @ + b] \in Spot
         /\ Placed(t, s, Transfer(h, OnSector(AtHead(p)), x, Sectors(m))
                         \cup Transfer(h, OnSector(q), x + Sectors(m), b))
         /\ q \in Spot /\ q.sector = p.sector + m /\ q.byte = p.byte
<1>2. Sectors(m) \in Nat /\ Sectors(0) = 0
  BY SectorFacts
<1>1. /\ m \in Nat /\ b \in Nat /\ b < Bps /\ n = Sectors(m) + b /\ m < Spc
  <2>1. m >= Spc => Sectors(m) >= Bpc
    BY SectorFacts, Sizes3
  <2> QED
    BY <1>2, <2>1, Sizes3
<1>3. /\ p.sector \in Nat /\ p.byte \in Nat /\ p.byte < Bps /\ p.cluster \in Link
      /\ p.sector <= Spc /\ (p.sector = Spc => p.byte = 0) /\ Spc \in Nat
  BY SpotFacts, Sizes3 DEF Stands
<1>4. n = 0 => m = 0 /\ b = 0
  <2>1. m > 0 => Sectors(m) >= Bps
    BY <1>1, SectorFacts, Sizes3
  <2> QED
    BY <1>1, <1>2, <2>1, Sizes3
<1>5. n < Bps => m = 0
  <2>1. m > 0 => Sectors(m) >= Bps
    BY <1>1, SectorFacts, Sizes3
  <2> QED
    BY <1>1, <1>2, <2>1, Sizes3
<1>6. /\ p.byte = 0 \/ m = 0
      /\ p.sector + m <= Spc /\ (n > 0 => p.sector + m < Spc)
  BY <1>1, <1>3, <1>4, <1>5
<1>7. q \in Spot /\ q.sector = p.sector + m /\ q.byte = p.byte /\ q.cluster = p.cluster
  BY <1>1, <1>3, BySectorsType DEF BySectors, Spot
<1>8. Stands(t, s, q, x + Sectors(m))
  BY <1>1, <1>6, StandsBySectors
<1>9. /\ q.sector < Spc \/ q.byte = 0
      /\ q.byte + b < Bps /\ (b > 0 => q.sector < Spc)
  BY <1>1, <1>2, <1>3, <1>4, <1>6, <1>7
<1>10. x + Sectors(m) \in Nat /\ (x + Sectors(m)) + b = x + n
  BY <1>1, <1>2
<1>11. Stands(t, s, [q EXCEPT !.byte = @ + b], (x + Sectors(m)) + b) /\ [q EXCEPT !.byte = @ + b] \in Spot
  BY <1>1, <1>7, <1>8, <1>9, <1>10, StandsByBytes
<1>12. Placed(t, s, Transfer(h, OnSector(AtHead(p)), x, Sectors(m)))
  <2> DEFINE at == OnSector(AtHead(p))
  <2>1. at \in Spot
    BY HeadOfCluster
  <2>2. m > 0 => p.sector = 0 /\ p.byte = 0
    BY <1>1, <1>3, <1>4, <1>5, Sizes3
  <2>3. m > 0 => at = p
    BY <2>2 DEF OnSector, AtHead, Spot
  <2> HIDE DEF at
  <2>4. Sectors(m) > 0 => m > 0
    BY <1>1, <1>2
  <2>5. Sectors(m) > 0 => Stands(t, s, at, x) /\ Sectors(at.sector) + at.byte + Sectors(m) <= Bpc
    <3> SUFFICES ASSUME m > 0  PROVE Sectors(at.sector) + at.byte + Sectors(m) <= Bpc /\ Stands(t, s, at, x)
      BY <2>4
    <3>1. at.sector = 0 /\ at.byte = 0
      BY <2>2, <2>3
    <3>2. 0 + 0 + Sectors(m) <= Bpc
      BY <1>1, <1>2, Sizes3
    <3> QED
      BY <1>2, <2>3, <3>1, <3>2
  <2>6. Placed(t, s, Transfer(h, at, x, Sectors(m)))
    BY <1>2, <2>1, <2>5, PlacedWithin
  <2> QED
    BY <2>6 DEF at
<1>13. Placed(t, s, Transfer(h, OnSector(q), x + Sectors(m), b))
  <2> DEFINE at == OnSector(q)
  <2>1. at \in Spot
    BY <1>7, HeadOfCluster
  <2>2. b > 0 => q.byte = 0 /\ q.sector < Spc
    BY <1>1, <1>2, <1>3, <1>6, <1>7
  <2>3. b > 0 => at = q
    BY <1>7, <2>2 DEF OnSector, Spot
  <2> HIDE DEF at
  <2>4. b > 0 => Stands(t, s, at, x + Sectors(m)) /\ Sectors(at.sector) + at.byte + b <= Bpc
    <3> SUFFICES ASSUME b > 0  PROVE Sectors(at.sector) + at.byte + b <= Bpc /\ Stands(t, s, at, x + Sectors(m))
      OBVIOUS
    <3>1. at.sector = q.sector /\ at.byte = 0 /\ q.sector \in Nat /\ q.sector < Spc
      BY <1>1, <1>3, <1>7, <2>2, <2>3
    <3>2. Sectors(q.sector) + Bps <= Bpc /\ Sectors(q.sector) \in Nat
      BY <1>3, <3>1, SectorFacts
    <3> QED
      BY <1>1, <1>8, <2>3, <3>1, <3>2, Sizes3
  <2>5. Placed(t, s, Transfer(h, at, x + Sectors(m), b))
    BY <1>1, <1>10, <2>1, <2>4, PlacedWithin
  <2> QED
    BY <2>5 DEF at
<1> QED
  BY <1>1, <1>2, <1>7, <1>10, <1>11, <1>12, <1>13, PlacedBoth

TailLands(t, s, h, p, x, n, m, b, q) ==
  /\ Stands(t, s, [q EXCEPT !.byte = @ + b], x + n)
  /\ Placed(t, s, Transfer(h, OnSector(AtHead(p)), x, Sectors(m))
                  \cup Transfer(h, OnSector(q), x + Sectors(m), b))

LEMMA TailMovedSo ==
  ASSUME NEW t, NEW s, NEW h, NEW p \in Spot, NEW x \in Nat, Stands(t, s, p, x), NEW n \in Nat, n < Bpc,
         n = 0 \/ (p.byte = 0 /\ p.sector < Spc /\ (p.sector = 0 \/ n < Bps)),
         NEW m \in Nat, NEW b \in Nat, b < Bps, n = Sectors(m) + b, NEW q, q = BySectors(p, m)
  PROVE  TailLands(t, s, h, p, x, n, m, b, q)
BY TailMoved DEF TailLands

\* _FAT_read_r: the whole sectors and the bytes of the last cluster.
LEMMA PlaceOfReadTail == ASSUME FileInv, ~conflict, PlaceInv, ReadTail  PROVE PlaceInv'
<1>k. PICK k \in Handle : k = op.h
  BY Peaceful, CallFile DEF ReadTail, At
<1>0. op.pc = "rchunk"
  BY DEF ReadTail, At
<1>1. /\ TypeInv /\ k = op.h /\ f = file[k] /\ f \in FileStruct /\ f.start # Free /\ f.inUse
      /\ Away(k) /\ HandleFits(k)
      /\ Sure(k) => ReadAt(fat, op, f)
      /\ op.remain <= op.len
  BY <1>k, <1>0, ReadCall, CallFile DEF TypeInv, OpOK, CallOK, ReadOK
<1>2. /\ op.remain \in Nat /\ op.pos \in Spot /\ op.off \in Nat /\ op.len \in Nat
      /\ f.cur \in Nat /\ f.size \in Nat
  BY <1>1, OpFields, FileFields
<1> DEFINE sectors == IF op.ok THEN op.remain \div Bps ELSE 0
           q == BySectors(op.pos, sectors)
           rest == op.remain - sectors * Bps
           Done2(p, n) == Becomes(op.h, [f EXCEPT !.rw = Moved(p), !.cur = @ + (op.len - n)])
           Got == Transfer(op.h, OnSector(AtHead(op.pos)), op.off, sectors * Bps)
                     \cup Transfer(op.h, OnSector(q), op.off + sectors * Bps, rest)
           last == [q EXCEPT !.byte = @ + rest]
<1>3. /\ UNCHANGED <<fat, dir, loose, uneven, astray>> /\ op' = Idle
      /\ op.remain < Bpc \/ ~op.ok
      /\ \/ op.ok /\ io' = Got /\ Done2(last, 0)
         \/ Done2(op.pos, op.remain) /\ NoIo
  BY DEF ReadTail, table, notes
<1>4. ASSUME NEW p, NEW n, Done2(p, n)
      PROVE  /\ Repositions(k) /\ file'[k].rw = p /\ file'[k].cur = f.cur + (op.len - n)
             /\ file'[k].name = f.name /\ file'[k].start = f.start
             /\ SizeFits(k)' /\ Follows(k)' /\ ApStands(k)' /\ (Sure(k)' => Sure(k))
  <2> DEFINE g == [f EXCEPT !.rw = Moved(p), !.cur = @ + (op.len - n)]
  <2>1. /\ g.inUse = f.inUse /\ g.write = f.write /\ g.name = f.name /\ g.modified = f.modified
        /\ g.start = f.start /\ g.size = f.size /\ g.append = f.append /\ g.ap = f.ap
        /\ g.rw = p /\ g.cur = f.cur + (op.len - n)
    BY <1>1 DEF FileStruct, Moved
  <2>2. Becomes(k, g)
    BY <1>1, <1>4
  <2> HIDE DEF g
  <2>3. Repositions(k) /\ file'[k] = g
    BY <1>1, <1>3, <2>1, <2>2, BecomesRepositions
  <2>4. SizeFits(k)' /\ Follows(k)' /\ ApStands(k)' /\ (Sure(k)' => Sure(k))
    <3>1. /\ Away(k) => ~Lengthens(k) /\ ~Opening(k)
          /\ astray' = astray
      BY <1>3 DEF Away
    <3>2. k \in astray => ~Sure(k)'
      BY <3>1 DEF Sure
    <3> QED
      BY <1>1, <2>1, <2>3, <3>1, <3>2, Repositioned
  <2> QED
    BY <2>1, <2>3, <2>4
<1>5. CASE op.ok /\ io' = Got /\ Done2(last, 0)
  <2>1. ASSUME Sure(k)
        PROVE  Stands(fat, f.start, last, f.cur + (op.len - 0)) /\ Placed(fat, f.start, Got)
    <3>1. /\ Stands(fat, f.start, op.pos, op.off)
          /\ op.off + op.remain = f.cur + op.len
          /\ op.remain = 0 \/ (op.pos.byte = 0 /\ op.pos.sector < Spc
                               /\ (op.pos.sector = 0 \/ op.remain < Bps))
      BY <1>1, <1>5, <2>1 DEF ReadAt
    <3>2. op.remain < Bpc /\ sectors = op.remain \div Bps
      BY <1>3, <1>5
    <3>3. /\ sectors \in Nat /\ rest \in Nat /\ rest < Bps /\ op.remain = Sectors(sectors) + rest
          /\ Sectors(sectors) = sectors * Bps
      <4>1. /\ op.remain \div Bps \in Nat /\ op.remain % Bps \in Nat /\ op.remain % Bps < Bps
            /\ op.remain = Sectors(op.remain \div Bps) + (op.remain % Bps)
            /\ Sectors(op.remain \div Bps) \in Nat
        BY <1>2, SectorsOf, SectorFacts
      <4> DEFINE m == op.remain \div Bps
                 b == op.remain % Bps
      <4> HIDE DEF m, b, sectors
      <4>2. m \in Nat /\ b \in Nat /\ b < Bps /\ op.remain = Sectors(m) + b /\ Sectors(m) \in Nat
            /\ sectors = m /\ rest = op.remain - Sectors(sectors)
        BY <3>2, <4>1 DEF m, b, Sectors
      <4>3. rest = b
        BY <4>2
      <4> QED
        BY <4>2, <4>3 DEF Sectors
    <3> HIDE DEF sectors, rest
    <3>3a. q = BySectors(op.pos, sectors)
      OBVIOUS
    <3> HIDE DEF q
    <3>4. /\ Stands(fat, f.start, last, op.off + op.remain)
          /\ Placed(fat, f.start, Got)
      <4>1. /\ Stands(fat, f.start, [q EXCEPT !.byte = @ + rest], op.off + op.remain)
            /\ Placed(fat, f.start, Transfer(op.h, OnSector(AtHead(op.pos)), op.off, Sectors(sectors))
                         \cup Transfer(op.h, OnSector(q), op.off + Sectors(sectors), rest))
        <5> DEFINE x == op.off
                   n == op.remain
                   pos == op.pos
                   m == sectors
                   b == rest
                   st == f.start
        <5>1. /\ pos \in Spot /\ x \in Nat /\ Stands(fat, st, pos, x) /\ n \in Nat /\ n < Bpc
              /\ n = 0 \/ (pos.byte = 0 /\ pos.sector < Spc /\ (pos.sector = 0 \/ n < Bps))
              /\ m \in Nat /\ b \in Nat /\ b < Bps /\ n = Sectors(m) + b /\ q = BySectors(pos, m)
          BY <1>2, <3>1, <3>2, <3>3, <3>3a
        <5> HIDE DEF x, n, pos, m, b, st
        <5>2. /\ Stands(fat, st, [q EXCEPT !.byte = @ + b], x + n)
              /\ Placed(fat, st, Transfer(op.h, OnSector(AtHead(pos)), x, Sectors(m))
                         \cup Transfer(op.h, OnSector(q), x + Sectors(m), b))
          BY <5>1, TailMoved
        <5> QED
          BY <5>2 DEF x, n, pos, m, b, st
      <4> QED
        BY <3>3, <4>1
    <3>5. op.off + op.remain = f.cur + (op.len - 0)
      BY <1>2, <3>1
    <3> QED
      BY <3>4, <3>5
  <2> HIDE DEF last, Got
  <2>2. /\ Repositions(k) /\ file'[k].rw = last /\ file'[k].cur = f.cur + (op.len - 0)
        /\ file'[k].name = f.name /\ file'[k].start = f.start
        /\ SizeFits(k)' /\ Follows(k)' /\ ApStands(k)' /\ (Sure(k)' => Sure(k))
    BY <1>4, <1>5
  <2>3. RwStands(k)'
    BY <1>3, <2>1, <2>2 DEF RwStands
  <2>4. \A t \in io' : t.h = k
    BY <1>1, <1>5, TransferOf DEF Got
  <2>5. IoFits'
    <3>1. Sure(k) => Placed(fat', file'[k].start, io')
      BY <1>3, <1>5, <2>1, <2>2
    <3> QED
      BY <1>1, <1>3, <2>2, <2>4, <3>1, SureIo
  <2> QED
    BY <1>1, <1>3, <2>2, <2>3, <2>5, IdleFits, IdleOp, RepositionStep
<1>6. CASE Done2(op.pos, op.remain) /\ NoIo
  <2>1. ASSUME Sure(k)  PROVE Stands(fat, f.start, op.pos, f.cur + (op.len - op.remain))
    <3>1. /\ Stands(fat, f.start, op.pos, op.off)
          /\ op.off + op.remain = f.cur + op.len
      BY <1>1, <2>1 DEF ReadAt
    <3>2. f.cur + (op.len - op.remain) = op.off
      BY <1>2, <3>1
    <3> QED
      BY <3>1, <3>2
  <2>2. /\ Repositions(k) /\ file'[k].rw = op.pos /\ file'[k].cur = f.cur + (op.len - op.remain)
        /\ file'[k].name = f.name /\ file'[k].start = f.start
        /\ SizeFits(k)' /\ Follows(k)' /\ ApStands(k)' /\ (Sure(k)' => Sure(k))
    BY <1>4, <1>6
  <2>3. RwStands(k)'
    BY <1>3, <2>1, <2>2 DEF RwStands
  <2> QED
    BY <1>1, <1>3, <1>6, <2>2, <2>3, IdleFits, IdleOp, NoIoFits, RepositionStep
<1> QED
  BY <1>3, <1>5, <1>6

LEMMA ToEdgeMoves ==
  ASSUME NEW p \in Spot, p.sector <= Spc, NEW n \in Nat, NEW m, m = ToEdge(p, n)
  PROVE  /\ m \in Nat /\ p.sector + m <= Spc /\ Sectors(m) \in Nat /\ Sectors(m) <= n
         /\ Sectors(m) = m * Bps
         /\ (p.sector + m < Spc => n - Sectors(m) < Bps)
         /\ (n = 0 => m = 0) /\ (p.sector = Spc => m = 0)
<1>1. p.sector \in Nat /\ Spc \in Nat /\ Spc - p.sector \in Nat /\ Bps \in Nat /\ Bps > 0
  BY SpotFacts, Sizes3
<1>2. CASE n > Sectors(Spc - p.sector)
  <2>1. m = Spc - p.sector
    BY <1>2 DEF ToEdge, Sectors
  <2>2. Sectors(m) \in Nat
    BY <1>1, <2>1, SectorFacts
  <2>3. Sectors(m) = m * Bps
    BY DEF Sectors
  <2> QED
    BY <1>1, <1>2, <2>1, <2>2, <2>3
<1>3. CASE ~(n > Sectors(Spc - p.sector))
  <2>1. m = n \div Bps
    BY <1>3 DEF ToEdge, Sectors
  <2>2. m \in Nat /\ n % Bps \in Nat /\ n % Bps < Bps /\ n = Sectors(m) + (n % Bps)
    BY <2>1, SectorsOf
  <2>3. Sectors(m) \in Nat /\ Sectors(Spc - p.sector) \in Nat
    BY <1>1, <2>2, SectorFacts
  <2>4. Sectors(m) = m * Bps
    BY DEF Sectors
  <2> DEFINE b == n % Bps
  <2> HIDE DEF b
  <2>5. b \in Nat /\ b < Bps /\ n = Sectors(m) + b /\ m \in Nat
    BY <2>2 DEF b
  <2>6. m <= Spc - p.sector
    <3> SUFFICES ASSUME Spc - p.sector < m  PROVE FALSE
      BY <1>1, <2>2
    <3>1. Sectors(Spc - p.sector) + Bps <= Sectors(m)
      BY <1>1, <2>2, SectorFacts
    <3> QED
      BY <1>1, <1>3, <2>3, <2>5, <3>1
  <2>7. m > 0 => Sectors(m) >= Bps
    BY <1>1, <2>2, SectorFacts
  <2>8. n = 0 => m = 0
    <3>1. CASE m > 0
      <4>1. n >= Bps
        BY <1>1, <2>3, <2>5, <2>7, <3>1
      <4> QED
        BY <1>1, <4>1
    <3>2. m = 0 \/ m > 0
      BY <2>5
    <3> QED
      BY <3>1, <3>2
  <2>9. /\ p.sector + m <= Spc /\ Sectors(m) <= n /\ n - Sectors(m) < Bps
        /\ (p.sector = Spc => m = 0)
    <3> HIDE DEF b
    <3> QED
      BY <1>1, <2>3, <2>5, <2>6
  <2> QED
    BY <2>2, <2>3, <2>4, <2>8, <2>9
<1> QED
  BY <1>2, <1>3

LEMMA SectorsPlaced ==
  ASSUME NEW t, NEW s, NEW h, NEW p \in Spot, NEW x \in Nat, Stands(t, s, p, x),
         NEW m \in Nat, p.byte = 0 \/ m = 0, p.sector + m <= Spc
  PROVE  /\ Placed(t, s, Transfer(h, p, x, Sectors(m)))
         /\ Stands(t, s, BySectors(p, m), x + Sectors(m))
         /\ BySectors(p, m) \in Spot /\ BySectors(p, m).sector = p.sector + m
         /\ BySectors(p, m).byte = p.byte /\ BySectors(p, m).cluster = p.cluster
<1>1. p.sector \in Nat /\ Spc \in Nat /\ p.byte \in Nat /\ Sectors(p.sector) \in Nat /\ Sectors(m) \in Nat
  BY SpotFacts, Sizes3, SectorFacts
<1>2. Sectors(p.sector) + Sectors(m) <= Bpc
  <2>1. Sectors(p.sector + m) <= Sectors(Spc) /\ Sectors(p.sector + m) = Sectors(p.sector) + Sectors(m)
    <3>1. p.sector + m \in Nat
      BY <1>1
    <3> QED
      BY <1>1, <3>1, SectorFacts
  <2> QED
    BY <2>1, SectorFacts
<1>3. m = 0 => Sectors(m) = 0
  BY SectorFacts
<1>4. Sectors(m) > 0 => Stands(t, s, p, x) /\ Sectors(p.sector) + p.byte + Sectors(m) <= Bpc
  BY <1>1, <1>2, <1>3
<1>5. Placed(t, s, Transfer(h, p, x, Sectors(m)))
  BY <1>1, <1>4, PlacedWithin
<1>6. Stands(t, s, BySectors(p, m), x + Sectors(m))
  BY StandsBySectors
<1>7. BySectors(p, m).sector = p.sector + m
  BY DEF BySectors, Spot
<1> QED
  BY <1>5, <1>6, <1>7, BySectorsType

LEMMA OverEdgeStands ==
  ASSUME TypeInv, NEW s, NEW p \in Spot, NEW x \in Nat, Stands(fat, s, p, x)
  PROVE  Stands(fat, s, OverEdge(p), x)
<1>1. CASE p.sector < Spc \/ ~IsValid(NextOf(p.cluster))
  BY <1>1 DEF OverEdge
<1>2. CASE ~(p.sector < Spc) /\ IsValid(NextOf(p.cluster))
  <2>1. p.sector = Spc /\ p.byte = 0
    BY <1>2, SpotFacts, Sizes3 DEF Stands
  <2> DEFINE c == NextOf(p.cluster)
             q == OverEdge(p)
  <2>2. c \in Link /\ c \in Cluster
    BY <1>2, Outside DEF IsValid
  <2>3. q = [p EXCEPT !.sector = 0, !.cluster = c]
    BY <1>2 DEF OverEdge
  <2> HIDE DEF c, q
  <2>4. q \in Spot /\ q.cluster = c /\ q.sector = 0 /\ q.byte = 0
    BY <2>1, <2>2, <2>3 DEF Spot
  <2> USE DEF c
  <2>5. Table(fat)
    BY FatIsTable
  <2>6. ASSUME NEW r \in Nat, Reaches(fat, s, r, p.cluster)  PROVE Reaches(fat, s, r + 1, c)
    BY <2>2, <2>6, EndsLinks, NextReached
  <2> HIDE DEF c, q
  <2>7. Stands(fat, s, q, x)
    BY <2>1, <2>2, <2>4, <2>5, <2>6, StandsOver
  <2> QED
    BY <2>7 DEF q
<1> QED
  BY <1>1, <1>2

\* The part of a first sector, unless the position is at the flag.
LEMMA PartPlaced ==
  ASSUME NEW t, NEW s, NEW h, NEW p \in Spot, NEW x \in Nat, Stands(t, s, p, x), NEW n \in Nat,
         NEW m, m = Part(p, n), p.sector < Spc \/ m = 0
  PROVE  /\ m \in Nat /\ m <= n /\ After(p, m) \in Spot
         /\ Stands(t, s, After(p, m), x + m) /\ Placed(t, s, Transfer(h, p, x, m))
         /\ (n - m > 0 => After(p, m).byte = 0) /\ After(p, m).sector <= Spc
         /\ After(p, m).cluster = p.cluster
<1>1. /\ p.sector \in Nat /\ p.byte \in Nat /\ p.byte < Bps /\ Spc \in Nat /\ Bps \in Nat /\ Bps > 0
      /\ p.sector <= Spc /\ p.cluster \in Link /\ Sectors(p.sector) \in Nat
  BY SpotFacts, Sizes3 DEF Stands
<1>2. m \in Nat /\ n - m \in Nat /\ (n - m > 0 => After(p, m).byte = 0)
  BY PartFacts
<1>3. m <= Bps - p.byte
  BY <1>1, <1>2 DEF Part, Least
<1>4. After(p, m) \in Spot /\ After(p, m).cluster = p.cluster
  BY <1>2, AfterType
<1>5. CASE p.sector < Spc
  <2>1. Stands(t, s, After(p, m), x + m) /\ After(p, m).sector <= Spc
    BY <1>2, <1>3, <1>5, StandsAfter
  <2>2. Sectors(p.sector) + p.byte + m <= Bpc
    <3>1. Sectors(p.sector) + Bps <= Bpc
      BY <1>1, <1>5, SectorFacts
    <3> QED
      BY <1>1, <1>2, <1>3, <3>1, Sizes3
  <2>3. Placed(t, s, Transfer(h, p, x, m))
    BY <1>2, <2>2, PlacedWithin
  <2> QED
    BY <1>2, <1>4, <2>1, <2>3
<1>6. CASE m = 0 /\ ~(p.sector < Spc)
  <2>1. After(p, m) = p
    <3>1. p.byte + 0 = p.byte /\ ~(p.byte >= Bps)
      BY <1>1
    <3> QED
      BY <1>6, <3>1 DEF After, Position, Spot
  <2>2. x + m = x
    BY <1>6
  <2>3. Placed(t, s, Transfer(h, p, x, m))
    BY <1>6, PlacedNone
  <2> QED
    BY <1>1, <1>2, <1>4, <2>1, <2>2, <2>3
<1> QED
  BY <1>5, <1>6

\* _FAT_read_r: its length is cut to the file, then the rest of a sector and of a
\* cluster are read.
LEMMA PlaceOfReadBegin ==
  ASSUME FileInv, ~conflict, PlaceInv, NEW h \in Handle, NEW n \in Lens, ReadBegin(h, n)
  PROVE  PlaceInv'
<1> DEFINE g == file[h]
           len == Least(n, g.size - g.cur)
           part == Part(g.rw, len)
           p == After(g.rw, part)
           sectors == ToEdge(p, len - part)
           rest == len - part - sectors * Bps
           q == BySectors(p, sectors)
           started == [Idle EXCEPT !.pc = "rchunk", !.h = h, !.len = len]
           over == [started EXCEPT !.pos = OverEdge(q), !.remain = rest,
                        !.off = g.cur + len - rest, !.ok = ~EdgeFails(q, rest),
                        !.next = OverEdge(q).cluster]
           stopped == [started EXCEPT !.pos = p, !.remain = len - part,
                        !.off = g.cur + part, !.ok = FALSE]
<1>0. TypeInv /\ op.pc = "idle" /\ g \in FileStruct /\ n \in Nat /\ n > 0 /\ g.size \in Nat
      /\ g.cur \in Nat /\ g.rw \in Spot /\ g.inUse /\ g.start # Free /\ g.cur < g.size
  BY Peaceful, StartType, FileFields, CallsAssumption DEF ReadBegin, Call
<1>1. UNCHANGED <<fat, dir, file, loose, uneven>> /\ tail' = tail /\ astray \subseteq astray'
      /\ (AtFlag(g.rw) /\ part > 0 /\ ~IsValid(NextOf(g.rw.cluster)) => h \in astray')
  BY DEF ReadBegin, table
<1>2. PICK good \in Outcome(sectors) :
        /\ io' = Transfer(h, g.rw, g.cur, part)
                 \cup IF good THEN Transfer(h, p, g.cur + part, sectors * Bps) ELSE {}
        /\ op' = IF good THEN over ELSE stopped
  BY DEF ReadBegin
<1>3. Away(h) /\ StillAway(h) /\ HandleFits(h)
  BY <1>0, IdleIsAway DEF PlaceInv, Away, StillAway
<1>4. len \in Nat /\ len > 0 /\ g.cur + len <= g.size
  BY <1>0 DEF Least
<1>5. /\ started.pc = "rchunk" /\ started.h = h /\ started.len = len /\ started.chunk = 0
      /\ DOMAIN started = DOMAIN Idle
  BY DEF Idle
<1>6. /\ op'.pc = "rchunk" /\ op'.h = h /\ op'.len = len /\ op'.chunk = 0
      /\ IF good
         THEN /\ op'.pos = OverEdge(q) /\ op'.remain = rest /\ op'.off = g.cur + len - rest
              /\ op'.ok = ~EdgeFails(q, rest) /\ op'.next = OverEdge(q).cluster
         ELSE /\ op'.pos = p /\ op'.remain = len - part /\ op'.off = g.cur + part /\ op'.ok = FALSE
  BY <1>2 DEF Idle
<1> HIDE DEF over, stopped, started, len
<1>7. f' = g /\ (Sure(h)' => Sure(h))
  BY <1>1, <1>6 DEF f, Sure, Even
<1>8. Sure(h) => Stands(fat, g.start, g.rw, g.cur)
  BY <1>0, <1>3 DEF HandleFits, RwStands, Away
<1>9. part \in Nat /\ len - part \in Nat /\ p \in Spot
  BY <1>0, <1>4, PartFacts, AfterType
<1>10. ReadRun(fat, op, f)'
  <2>1. op'.ok => op'.next = op'.pos.cluster
    BY <1>6
  <2> HIDE DEF g, part, p, sectors, rest, q
  <2> QED
    BY <1>6, <2>1 DEF ReadRun
<1>11. \A t \in io' : t.h = h
  BY <1>2, TransferOf
<1>12. ASSUME g.rw.sector < Spc \/ part = 0, Sure(h)
       PROVE  ReadAt(fat, op, f)' /\ Placed(fat', file'[h].start, io')
  <2> DEFINE x == g.cur + part
             m == len - part
             st == g.start
  <2>1. /\ Stands(fat, st, p, x) /\ Placed(fat, st, Transfer(h, g.rw, g.cur, part))
        /\ (m > 0 => p.byte = 0) /\ p.sector <= Spc /\ part <= len
    <3> DEFINE rw == g.rw
               cur == g.cur
    <3>1. rw \in Spot /\ cur \in Nat /\ Stands(fat, st, rw, cur) /\ (rw.sector < Spc \/ part = 0)
          /\ part = Part(rw, len) /\ p = After(rw, part)
      BY <1>0, <1>8, <1>12
    <3> HIDE DEF rw, cur, st, part, p
    <3>2. /\ Stands(fat, st, After(rw, part), cur + part) /\ Placed(fat, st, Transfer(h, rw, cur, part))
          /\ (len - part > 0 => After(rw, part).byte = 0) /\ After(rw, part).sector <= Spc /\ part <= len
      BY <1>4, <3>1, PartPlaced
    <3> QED
      BY <3>1, <3>2 DEF rw, cur
  <2>2. x \in Nat /\ m \in Nat /\ x + m = g.cur + len
    BY <1>0, <1>4, <1>9
  <2>3. rest = m - sectors * Bps /\ sectors = ToEdge(p, m) /\ q = BySectors(p, sectors)
    OBVIOUS
  <2> HIDE DEF p, m
  <2>4. /\ sectors \in Nat /\ p.sector + sectors <= Spc /\ Sectors(sectors) \in Nat
        /\ Sectors(sectors) <= m /\ Sectors(sectors) = sectors * Bps
        /\ (p.sector + sectors < Spc => m - Sectors(sectors) < Bps)
        /\ (m = 0 => sectors = 0)
    BY <1>9, <2>1, <2>2, <2>3, ToEdgeMoves
  <2>5. rest = m - Sectors(sectors)
    BY <2>3, <2>4
  <2> HIDE DEF sectors, rest, q, x, st
  <2>6. p.byte = 0 \/ sectors = 0
    <3>1. m = 0 \/ m > 0
      BY <2>2
    <3> QED
      BY <2>1, <2>4, <3>1
  <2>7. /\ Placed(fat, st, Transfer(h, p, x, Sectors(sectors)))
        /\ Stands(fat, st, q, x + Sectors(sectors))
        /\ q \in Spot /\ q.sector = p.sector + sectors /\ q.byte = p.byte
    <3>1. p \in Spot
      BY <1>9
    <3>2. /\ Placed(fat, st, Transfer(h, p, x, Sectors(sectors)))
          /\ Stands(fat, st, BySectors(p, sectors), x + Sectors(sectors))
          /\ BySectors(p, sectors) \in Spot /\ BySectors(p, sectors).sector = p.sector + sectors
          /\ BySectors(p, sectors).byte = p.byte
      BY <2>1, <2>2, <2>4, <2>6, <3>1, SectorsPlaced
    <3> QED
      BY <2>3, <3>2
  <2>8. Stands(fat, st, OverEdge(q), x + Sectors(sectors))
    <3>1. x + Sectors(sectors) \in Nat
      BY <2>2, <2>4
    <3> QED
      BY <1>0, <2>7, <3>1, OverEdgeStands
  <2>9. Placed(fat', file'[h].start, io')
    <3>1. Placed(fat, st, Transfer(h, p, g.cur + part, sectors * Bps))
      BY <2>4, <2>7 DEF x
    <3>2. Placed(fat, st, {})
      BY PlacedNothing
    <3>3. Placed(fat, st, io')
      BY <1>2, <2>1, <3>1, <3>2, PlacedBoth
    <3> QED
      BY <1>1, <3>3 DEF st
  <2>10. CASE ~good
    <3>1. op'.pos = p /\ op'.remain = m /\ op'.off = x /\ op'.ok = FALSE
      BY <1>6, <2>10 DEF m, x
    <3>2. ReadAt(fat, op, f)'
      BY <1>1, <1>4, <1>6, <1>7, <2>1, <2>2, <3>1 DEF ReadAt, st
    <3> QED
      BY <2>9, <3>2
  <2>11. CASE good
    <3>1. rest \in Nat /\ g.cur + len - rest = x + Sectors(sectors)
          /\ (x + Sectors(sectors)) + rest = g.cur + len
      BY <1>0, <1>4, <2>2, <2>4, <2>5
    <3>2. /\ op'.pos = OverEdge(q) /\ op'.remain = rest /\ op'.off = x + Sectors(sectors)
          /\ op'.ok = ~EdgeFails(q, rest)
      BY <1>6, <2>11, <3>1
    <3>3. ~EdgeFails(q, rest) => \/ rest = 0
                                 \/ /\ OverEdge(q).byte = 0 /\ OverEdge(q).sector < Spc
                                    /\ OverEdge(q).sector = 0 \/ rest < Bps
      <4> SUFFICES ASSUME rest # 0, ~EdgeFails(q, rest)
                   PROVE  /\ OverEdge(q).byte = 0 /\ OverEdge(q).sector < Spc
                          /\ OverEdge(q).sector = 0 \/ rest < Bps
        OBVIOUS
      <4>1. q.byte = 0 /\ q.sector \in Nat /\ Spc \in Nat /\ Spc > 0
        <5>1. m > 0
          BY <2>2, <2>4, <2>5, <3>1
        <5> QED
          BY <2>1, <2>7, <5>1, SpotFacts, Sizes3
      <4>2. CASE q.sector < Spc
        <5>1. OverEdge(q) = q
          BY <4>2 DEF OverEdge
        <5>2. rest < Bps
          BY <2>4, <2>5, <2>7, <4>2
        <5> QED
          BY <4>1, <4>2, <5>1, <5>2
      <4>3. CASE ~(q.sector < Spc)
        <5>1. IsValid(NextOf(q.cluster))
          BY <4>1, <4>3 DEF EdgeFails
        <5> DEFINE c == NextOf(q.cluster)
        <5>2. OverEdge(q) = [q EXCEPT !.sector = 0, !.cluster = c]
          BY <4>3, <5>1 DEF OverEdge
        <5>3. q \in Spot
          BY <2>7
        <5> HIDE DEF c
        <5>4. OverEdge(q).sector = 0 /\ OverEdge(q).byte = 0
          BY <4>1, <5>2, <5>3 DEF Spot
        <5> QED
          BY <4>1, <5>4
      <4> QED
        BY <4>2, <4>3
    <3> DEFINE o == OverEdge(q)
               ok == ~EdgeFails(q, rest)
               y == x + Sectors(sectors)
    <3> HIDE DEF o, ok, y
    <3>4. /\ Stands(fat, st, o, y) /\ y + rest = g.cur + len
          /\ ok => rest = 0 \/ (o.byte = 0 /\ o.sector < Spc /\ (o.sector = 0 \/ rest < Bps))
      BY <2>8, <3>1, <3>3 DEF o, ok, y
    <3>5. op'.pos = o /\ op'.remain = rest /\ op'.off = y /\ op'.ok = ok /\ op'.len = len
      BY <1>6, <3>2 DEF o, ok, y
    <3>6. ReadAt(fat, op, f)'
      BY <1>1, <1>4, <1>7, <3>4, <3>5 DEF ReadAt, st
    <3> QED
      BY <2>9, <3>6
  <2> QED
    BY <2>10, <2>11
<1>13. ASSUME ~(g.rw.sector < Spc \/ part = 0), Sure(h)
       PROVE  /\ Sure(h)' => ReadAt(fat, op, f)'
              /\ \A t \in io' : ReadAtFlag(t)'
  <2>1. /\ g.rw.sector = Spc /\ g.rw.byte = 0 /\ part > 0 /\ Spc \in Nat /\ Bps \in Nat /\ Bps > 0
    BY <1>0, <1>8, <1>9, <1>13, SpotFacts, Sizes3 DEF Stands
  <2>2. part = len /\ len < Bps
    BY <1>4, <2>1 DEF Part, Least
  <2>3. p = Position(g.rw.cluster, Spc, len)
    BY <1>4, <2>1, <2>2 DEF After
  <2>4. len - part = 0 /\ p \in Spot /\ p.cluster = g.rw.cluster /\ p.sector = Spc /\ p.byte = len
    BY <1>4, <1>9, <2>2, <2>3 DEF Position
  <2> DEFINE m == len - part
  <2>5. sectors = ToEdge(p, m) /\ rest = m - sectors * Bps /\ q = BySectors(p, sectors)
    OBVIOUS
  <2> HIDE DEF p, m, part
  <2>6. sectors = 0
    <3>1. p.sector <= Spc /\ m = 0
      BY <2>1, <2>4 DEF m
    <3> QED
      BY <2>4, <2>5, <3>1, ToEdgeMoves
  <2>7. rest = 0 /\ q = p /\ good = TRUE
    <3>1. 0 * Bps = 0 /\ m = 0
      BY <2>1, <2>4, Times DEF m
    <3>2. rest = 0
      BY <2>5, <2>6, <3>1
    <3>3. q = p
      <4> HIDE DEF q
      <4>1. p.sector + 0 = p.sector
        BY <2>1, <2>4
      <4> QED
        BY <2>4, <2>5, <2>6, <4>1 DEF BySectors, Spot
    <3>4. good = TRUE
      <4>1. good \in Outcome(sectors)
        OBVIOUS
      <4> HIDE DEF sectors
      <4> QED
        BY <2>6, <4>1 DEF Outcome
    <3> QED
      BY <3>2, <3>3, <3>4
  <2> HIDE DEF sectors, rest, q
  <2>8. io' = Transfer(h, g.rw, g.cur, len)
    <3>1. sectors * Bps = 0
      BY <2>1, <2>6, Times
    <3>2. Transfer(h, p, g.cur + part, 0) = {}
      BY DEF Transfer
    <3> QED
      BY <1>2, <2>2, <2>7, <3>1, <3>2
  <2>9. \A t \in io' : ReadAtFlag(t)'
    <3>1. \A t \in io' : t.h = h /\ t.off = g.cur /\ t.n = len
      BY <2>8 DEF Transfer
    <3> QED
      BY <1>6, <1>7, <2>1, <2>2, <3>1 DEF ReadAtFlag, AtFlag
  <2>10. ASSUME Sure(h)'  PROVE ReadAt(fat, op, f)'
    <3> DEFINE c == NextOf(g.rw.cluster)
               head == Position(c, 0, 0)
               o == OverEdge(p)
               y == g.cur + len
    <3>1. IsValid(c) /\ c \in Link
      BY <1>1, <1>13, <2>1, <2>10, Outside DEF AtFlag, Sure, IsValid
    <3>2. Stands(fat, g.start, head, g.cur) /\ head \in Spot
      <4>1. OverEdge(g.rw) = [g.rw EXCEPT !.sector = 0, !.cluster = c]
        BY <2>1, <3>1 DEF OverEdge
      <4> HIDE DEF c, head
      <4>2. [g.rw EXCEPT !.sector = 0, !.cluster = c] = Position(c, 0, 0)
        <5> DEFINE rw == g.rw
        <5>1. rw \in Spot /\ rw.byte = 0
          BY <1>0, <2>1
        <5> HIDE DEF rw
        <5> DEFINE z == [rw EXCEPT !.sector = 0, !.cluster = c]
        <5>2. z = [rw EXCEPT !.sector = 0, !.cluster = c]
          OBVIOUS
        <5> HIDE DEF z
        <5>3. z = Position(c, 0, 0)
          BY <5>1, <5>2 DEF Spot, Position
        <5> QED
          BY <5>2, <5>3 DEF rw, z
      <4>3. Position(c, 0, 0) \in Spot
        BY <2>1, <3>1, SpotType
      <4> QED
        BY <1>0, <1>8, <1>13, <4>1, <4>2, <4>3, OverEdgeStands DEF head
    <3>3. o = Position(c, 0, len)
      <4>1. o = [p EXCEPT !.sector = 0, !.cluster = c]
        BY <2>1, <2>4, <3>1 DEF OverEdge
      <4> HIDE DEF c, o
      <4> QED
        BY <2>4, <4>1 DEF Spot, Position
    <3>4. [head EXCEPT !.byte = @ + len] = o
      <4>1. 0 + len = len
        BY <1>4
      <4> HIDE DEF c, o
      <4> QED
        BY <3>3, <4>1 DEF Position
    <3>5. head.sector = 0 /\ head.byte = 0
      BY DEF Position
    <3> HIDE DEF c, head, o, y
    <3>6. Stands(fat, g.start, [head EXCEPT !.byte = @ + len], g.cur + len)
      <4>1. head.sector < Spc /\ head.byte + len < Bps
        BY <1>4, <2>1, <2>2, <3>5, Sizes3
      <4> QED
        BY <1>0, <1>4, <3>2, <4>1, StandsByBytes
    <3>7. op'.pos = o /\ op'.remain = 0 /\ op'.off = y
      <4>1. g.cur + len - 0 = y
        BY <1>0, <1>4 DEF y
      <4> QED
        BY <1>6, <2>7, <4>1 DEF o
    <3>8. y + 0 = g.cur + len
      BY <1>0, <1>4 DEF y
    <3> QED
      BY <1>1, <1>4, <1>6, <1>7, <3>4, <3>6, <3>7, <3>8 DEF ReadAt, y
  <2> QED
    BY <2>9, <2>10
<1>14. IoFits' /\ (Sure(h)' => ReadAt(fat, op, f)')
  <2> HIDE DEF g, part, p, sectors, rest, q
  <2>1. CASE Sure(h) /\ ~(g.rw.sector < Spc \/ part = 0)
    BY <1>13, <2>1 DEF IoFits, Excused
  <2>2. CASE ~(Sure(h) /\ ~(g.rw.sector < Spc \/ part = 0))
    <3>1. Sure(h) => ReadAt(fat, op, f)' /\ Placed(fat', file'[h].start, io')
      BY <1>12, <2>2
    <3>2. IoFits'
      BY <1>0, <1>1, <1>11, <3>1, SureIo DEF g
    <3> QED
      BY <1>7, <3>1, <3>2
  <2> QED
    BY <2>1, <2>2
<1>15. CallFits'
  <2> HIDE DEF g
  <2>1. ReadRun(fat, op, f)'
    BY <1>10
  <2>2. KnowsSize'
    BY <1>6, QuietSize
  <2> QED
    BY <1>6, <1>14, <2>1, <2>2, Zenon DEF CallFits
<1> QED
  BY <1>0, <1>1, <1>3, <1>14, <1>15, StackStep

-----------------------------------------------------------------------------
(***************************************************************************)
(* The writes.                                                             *)
(***************************************************************************)
LEMMA LengthenCall ==
  ASSUME FileInv, ~conflict, PlaceInv, Extending \/ op.pc \in {"head", "chunk", "group"}
  PROVE  /\ TypeInv /\ Shape /\ op.h \in Handle /\ f = file[op.h] /\ f \in FileStruct /\ HandleOK(f)
         /\ Writer(op.h) /\ f.name \in Name /\ f.start # Free /\ f.start \in Cluster
         /\ InUse(f.start) /\ Lengthens(op.h) /\ ~Seeking(op.h) /\ ~Opening(op.h)
         /\ HandleFits(op.h)
<1>1. TypeInv /\ Shape /\ op.pc \notin {"idle", "clear"}
  BY Peaceful DEF Extending
<1>2. op.h \in Handle /\ f = file[op.h] /\ f \in FileStruct /\ HandleOK(f) /\ f.inUse /\ f.name \in Name
  BY <1>1, CallFile
<1>3. f.write /\ f.start # Free
  BY <1>1, ExtendingCall, WritingCall DEF Extending
<1>4. Writer(op.h)
  BY <1>2, <1>3 DEF Writer
<1>5. f.start \in Cluster /\ InUse(f.start)
  BY <1>1, <1>2, <1>3, <1>4, OwnChain
<1>6. Lengthens(op.h) /\ ~Seeking(op.h) /\ ~Opening(op.h)
  BY DEF Lengthens, Seeking, Opening, Extending
<1> QED
  BY <1>1, <1>2, <1>3, <1>4, <1>5, <1>6 DEF PlaceInv

\* A step of a call that goes on to lengthen its file.
LEMMA LengthStep ==
  ASSUME FileInv, ~conflict, PlaceInv, NEW k \in Handle, Writer(k),
         op.pc \in {"idle", "clear"} \/ op.h = k, ~Seeking(k),
         UNCHANGED <<file, dir, loose>>, astray \subseteq astray', uneven \subseteq uneven',
         Lengthens(k)', Spares(k),
         Keeps(fat, fat', file[k].start) \/ file[k].name \in uneven',
         CallFits', IoFits'
  PROVE  PlaceInv'
<1>1. TypeInv /\ Shape /\ SameNames /\ \A h \in Handle : Same(h)
  BY Peaceful, FilesUntouched DEF Same
<1>2. Acts(k)
  BY <1>1 DEF Acts, Remembers, OwnKept
<1>3. HandleFits(k) /\ Firm
  BY DEF PlaceInv
<1>4. HandleFits(k)'
  BY <1>1, <1>2, <1>3, LengtheningFits DEF Acts
<1>5. Firm'
  BY <1>1, <1>3, FirmStays DEF TypeInv, NotesOK
<1> QED
  BY <1>1, <1>2, <1>4, <1>5, StepFits

LEMMA SparesAdvance ==
  ASSUME TypeInv, Shape, NEW k \in Handle, Writer(k), k = op.h, f.name \in Name,
         NEW p, NEW q, NEW good, Advance(p, q, good), On(f.name, p.cluster)
  PROVE  Spares(k)
<1>1. CASE fat' = fat
  BY <1>1, TableKept
<1>2. CASE \E got \in Link \cup Results : LinkFree(p.cluster, f.name, got)
  BY <1>2, SparesLinked DEF f
<1> QED
  BY <1>1, <1>2 DEF Advance, table

LEMMA MostFacts ==
  ASSUME NEW y \in Nat, NEW x \in Nat, NEW n \in Nat
  PROVE  /\ Most(y, x) \in Nat /\ x <= Most(y, x) /\ y <= Most(y, x)
         /\ (y <= x => Most(y, x) = x /\ Most(y, x) <= x) /\ (Most(y, x) = x => y <= x)
         /\ (x <= y => Most(y, x) = y)
         /\ Most(Most(y, x), x + n) = Most(y, x + n)
BY DEF Most

LEMMA FilledOn ==
  ASSUME NEW t, NEW s, NEW p \in Spot, NEW x \in Nat, Stands(t, s, p, x), p.sector < Spc,
         NEW n \in Nat, n > 0, Sectors(p.sector) + p.byte + n <= Bpc, NEW y \in Nat,
         Fits(t, s, Most(y, x)) \/ (Fresh(t, s, p, x) /\ y <= x)
  PROVE  Fits(t, s, Most(y, x + n))
<1>1. Most(y, x) \in Nat /\ Most(Most(y, x), x + n) = Most(y, x + n)
      /\ (y <= x => Most(y, x) <= x)
  BY DEF Most
<1>2. Fits(t, s, Most(y, x)) \/ (Fresh(t, s, p, x) /\ Most(y, x) <= x)
  BY <1>1
<1> QED
  BY <1>1, <1>2, Filled

\* Where a write goes on from, when there is more of it.
LEMMA PutAdvance ==
  ASSUME TypeInv, f.name \in Name, f \in FileStruct, InUse(f.start), PutAt(fat, op, f),
         PutFits(fat, op, f), NEW q \in Positions, NEW good, Advance(op.pos, q, good)
  PROVE  /\ Keeps(fat, fat', f.start) /\ q \in Spot
         /\ ~good => /\ q = op.pos /\ PutAt(fat', op, f)
                     /\ Fits(fat', f.start, Most(f.size, op.off))
         /\ good => /\ Stands(fat', f.start, q, op.off) /\ q.sector < Spc /\ q.byte = op.pos.byte
                    /\ (op.pos.sector = Spc => q.sector = 0) /\ (op.pos.sector < Spc => q = op.pos)
                    /\ \/ Fits(fat', f.start, Most(f.size, op.off))
                       \/ Fresh(fat', f.start, q, op.off) /\ f.size <= op.off
<1>1. op.pos \in Spot /\ op.off \in Nat /\ f.size \in Nat /\ q \in Spot /\ Spc > 0 /\ Spc \in Nat
  BY OpFields, FileFields, PositionsAreSpots, Sizes3
<1> DEFINE s == f.start
           x == op.off
           p == op.pos
           y == Most(f.size, op.off)
<1>2. y \in Nat /\ x <= y /\ (y = x => f.size <= x)
  BY <1>1 DEF Most
<1>3. Fits(fat, s, y) \/ (Fresh(fat, s, p, x) /\ f.size <= x)
  BY DEF PutFits
<1>4. CASE Stands(fat, s, p, x)
  <2> HIDE DEF s, x, p, y
  <2>1. /\ Keeps(fat, fat', s)
        /\ good => Stands(fat', s, q, x) /\ q.sector < Spc /\ q.byte = p.byte
                   /\ (p.sector = Spc => q.sector = 0) /\ (p.sector < Spc => q = p)
        /\ ~good => q = p /\ p.sector = Spc
        /\ Fits(fat, s, y) => Fits(fat', s, y) \/ (good /\ Fresh(fat', s, q, x) /\ y = x)
        /\ p.sector < Spc => fat' = fat
    BY <1>1, <1>2, <1>4, AdvanceStands DEF p, x, s
  <2>2. CASE Fits(fat, s, y)
    <3>1. ~good => PutAt(fat', op, f)
      BY <1>4, <2>1, ChainsKept DEF PutAt, s, x, p
    <3> QED
      BY <1>1, <1>2, <2>1, <2>2, <3>1 DEF s, x, p, y
  <2>3. CASE Fresh(fat, s, p, x) /\ f.size <= x
    <3>1. p.sector < Spc /\ p.sector # Spc
      BY <1>1, <2>3 DEF Fresh
    <3>2. fat' = fat /\ q = p /\ good
      BY <2>1, <3>1
    <3> QED
      BY <1>1, <2>1, <2>3, <3>2 DEF s, x, p, y
  <2> QED
    BY <1>3, <2>2, <2>3
<1>5. CASE Dead(p) /\ f.append /\ x = f.size
  <2>1. ~good /\ q = p /\ fat' = fat
    BY <1>5, AdvanceDead
  <2>2. ~Fresh(fat, s, p, x)
    BY <1>1, <1>5 DEF Dead, Fresh, Position
  <2>3. Keeps(fat, fat', s)
    BY <2>1, SameTable
  <2> QED
    BY <1>1, <1>3, <1>5, <2>1, <2>2, <2>3 DEF PutAt
<1> QED
  BY <1>4, <1>5 DEF PutAt

\* The rest of a sector, then of a cluster.
HeadGoes(t, s, h, q, x, y, remain, part, p, m, e) ==
  /\ part \in Nat /\ m \in Nat /\ Sectors(m) \in Nat /\ Sectors(m) = m * Bps
  /\ part + Sectors(m) <= remain
  /\ e \in Spot /\ Stands(t, s, e, x + (part + Sectors(m)))
  /\ \/ Fits(t, s, Most(y, x + (part + Sectors(m))))
     \/ part + Sectors(m) = 0 /\ e = q /\ Fresh(t, s, q, x) /\ y <= x
  /\ \/ remain - (part + Sectors(m)) = 0
     \/ e.byte = 0 /\ (e.sector \in {0, Spc} \/ remain - (part + Sectors(m)) < Bps)
  /\ Placed(t, s, Transfer(h, q, x, part) \cup Transfer(h, p, x + part, Sectors(m)))

LEMMA HeadMoved ==
  ASSUME NEW t, NEW s, NEW h, NEW q \in Spot, NEW x \in Nat, Stands(t, s, q, x), q.sector < Spc,
         NEW y \in Nat, Fits(t, s, Most(y, x)) \/ (Fresh(t, s, q, x) /\ y <= x),
         NEW remain \in Nat, remain > 0, NEW part, part = Part(q, remain),
         NEW p, p = After(q, part), NEW edge, edge = ToEdge(p, remain - part),
         NEW m, m = (IF edge < Spc THEN edge ELSE 0), NEW e, e = BySectors(p, m)
  PROVE  HeadGoes(t, s, h, q, x, y, remain, part, p, m, e)
<1>1. /\ part \in Nat /\ part <= remain /\ p \in Spot
      /\ Stands(t, s, p, x + part) /\ Placed(t, s, Transfer(h, q, x, part))
      /\ (remain - part > 0 => p.byte = 0) /\ p.sector <= Spc /\ p.cluster = q.cluster
  BY PartPlaced
<1>2. /\ remain - part \in Nat /\ x + part \in Nat /\ Spc \in Nat /\ Spc > 0 /\ Bps \in Nat /\ Bps > 0
      /\ p.sector \in Nat /\ p.byte \in Nat /\ p.byte < Bps
  BY <1>1, SpotFacts, Sizes3
<1>3. /\ edge \in Nat /\ p.sector + edge <= Spc /\ Sectors(edge) \in Nat /\ Sectors(edge) <= remain - part
      /\ (p.sector + edge < Spc => (remain - part) - Sectors(edge) < Bps)
      /\ (remain - part = 0 => edge = 0)
  BY <1>1, <1>2, ToEdgeMoves
<1>4. /\ m \in Nat /\ p.sector + m <= Spc /\ Sectors(m) \in Nat /\ Sectors(m) <= remain - part
      /\ (p.byte = 0 \/ m = 0)
      /\ m = edge \/ (m = 0 /\ edge = Spc /\ p.sector = 0)
      /\ Sectors(0) = 0
  <2>1. Sectors(0) = 0
    BY SectorFacts
  <2>2. remain - part = 0 \/ remain - part > 0
    BY <1>2
  <2>3. CASE edge < Spc
    <3>1. m = edge
      BY <2>3
    <3> QED
      BY <1>1, <1>3, <2>1, <2>2, <3>1
  <2>4. CASE ~(edge < Spc)
    <3>1. m = 0
      BY <2>4
    <3>2. edge = Spc /\ p.sector = 0
      BY <1>2, <1>3, <2>4
    <3> QED
      BY <1>2, <2>1, <3>1, <3>2
  <2> QED
    BY <2>3, <2>4
<1>5. /\ Placed(t, s, Transfer(h, p, x + part, Sectors(m)))
      /\ Stands(t, s, BySectors(p, m), (x + part) + Sectors(m))
      /\ BySectors(p, m) \in Spot /\ BySectors(p, m).sector = p.sector + m
      /\ BySectors(p, m).byte = p.byte /\ BySectors(p, m).cluster = p.cluster
  <2> DEFINE z == x + part
  <2>1. z \in Nat /\ Stands(t, s, p, z) /\ p \in Spot /\ m \in Nat /\ (p.byte = 0 \/ m = 0)
        /\ p.sector + m <= Spc
    BY <1>1, <1>2, <1>4
  <2> HIDE DEF z
  <2>2. /\ Placed(t, s, Transfer(h, p, z, Sectors(m)))
        /\ Stands(t, s, BySectors(p, m), z + Sectors(m))
        /\ BySectors(p, m) \in Spot /\ BySectors(p, m).sector = p.sector + m
        /\ BySectors(p, m).byte = p.byte /\ BySectors(p, m).cluster = p.cluster
    BY <2>1, SectorsPlaced
  <2> QED
    BY <2>2 DEF z
<1>6. /\ e \in Spot /\ e.sector = p.sector + m /\ e.byte = p.byte /\ e.cluster = p.cluster
      /\ Stands(t, s, e, x + (part + Sectors(m)))
  <2>1. (x + part) + Sectors(m) = x + (part + Sectors(m))
    BY <1>1, <1>4
  <2> QED
    BY <1>5, <2>1
<1> DEFINE n == part + Sectors(m)
<1>7. n \in Nat /\ n <= remain
  BY <1>1, <1>2, <1>4
<1>8. remain - n = 0 \/ (e.byte = 0 /\ (e.sector \in {0, Spc} \/ remain - n < Bps))
  <2>1. remain - n = (remain - part) - Sectors(m)
    BY <1>1, <1>4
  <2> HIDE DEF n
  <2>2. remain - part = 0 \/ remain - part > 0
    BY <1>2
  <2>3. CASE remain - part = 0
    BY <1>3, <1>4, <2>1, <2>3
  <2>4. CASE remain - part > 0
    <3>1. e.byte = 0
      BY <1>1, <1>6, <2>4
    <3>2. CASE m = edge
      BY <1>2, <1>3, <1>6, <2>1, <3>1, <3>2
    <3>3. CASE m = 0 /\ edge = Spc /\ p.sector = 0
      BY <1>6, <3>1, <3>3
    <3> QED
      BY <1>4, <3>2, <3>3
  <2> QED
    BY <2>2, <2>3, <2>4
<1>9. Fits(t, s, Most(y, x + n)) \/ (n = 0 /\ e = q /\ Fresh(t, s, q, x) /\ y <= x)
  <2>1. CASE n > 0
    <3>1. Sectors(q.sector) + q.byte + n <= Bpc
      <4>1. Sectors(q.sector) + q.byte + part = Sectors(p.sector) + p.byte
        <5>1. CASE q.byte + part >= Bps
          <6>1. p = Position(q.cluster, q.sector + 1, 0)
            BY <5>1 DEF After
          <6>2. p.sector = q.sector + 1 /\ p.byte = 0
            BY <6>1 DEF Position
          <6>3. q.byte + part = Bps
            BY <1>1, <5>1, SpotFacts, Sizes3 DEF Part, Least
          <6> QED
            BY <1>1, <6>2, <6>3, SpotFacts, Sizes3
        <5>2. CASE ~(q.byte + part >= Bps)
          <6>1. p = Position(q.cluster, q.sector, q.byte + part)
            BY <5>2 DEF After
          <6>2. p.sector = q.sector /\ p.byte = q.byte + part
            BY <6>1 DEF Position
          <6> QED
            BY <1>1, <6>2, SpotFacts
        <5> QED
          BY <5>1, <5>2
      <4>2. Sectors(p.sector) + p.byte + Sectors(m) <= Bpc
        <5>1. Sectors(p.sector + m) = Sectors(p.sector) + Sectors(m) /\ Sectors(p.sector) \in Nat
          <6>1. PICK a \in Nat : a = p.sector
            BY <1>2
          <6>2. m \in Nat
            BY <1>4
          <6>3. Sectors(a + m) = Sectors(a) + Sectors(m) /\ Sectors(a) \in Nat
            BY <6>2, SectorFacts
          <6> QED
            BY <6>1, <6>3
        <5>2. CASE p.sector + m < Spc
          <6>1. p.sector + m \in Nat
            BY <1>2, <1>4
          <6>2. Sectors(p.sector + m) + Bps <= Sectors(Spc)
            BY <1>2, <5>2, <6>1, SectorFacts
          <6>3. Sectors(Spc) = Bpc
            BY SectorFacts
          <6>4. Sectors(p.sector + m) \in Nat
            BY <6>1, SectorFacts
          <6> QED
            BY <1>2, <1>4, <5>1, <6>2, <6>3, <6>4, Sizes3
        <5>3. CASE p.sector + m = Spc
          <6>1. p.byte = 0
            BY <1>6, <5>3 DEF Stands
          <6> QED
            BY <1>2, <1>4, <5>1, <5>3, <6>1, SectorFacts
        <5> QED
          BY <1>2, <1>4, <5>2, <5>3
      <4>3. Sectors(q.sector) \in Nat /\ q.byte \in Nat /\ Sectors(p.sector) \in Nat /\ Bpc \in Nat
        BY <1>1, SpotFacts, Sizes3
      <4> QED
        BY <1>1, <1>2, <1>4, <4>1, <4>2, <4>3
    <3> HIDE DEF n
    <3>2. Fits(t, s, Most(y, x + n))
      BY <1>7, <2>1, <3>1, FilledOn
    <3> QED
      BY <3>2
  <2>2. CASE n = 0
    <3>1. part = 0 /\ Sectors(m) = 0
      BY <1>1, <1>4, <2>2
    <3>2. m = 0
      <4>1. m > 0 => Sectors(m) >= Bps
        BY <1>2, <1>4, SectorFacts
      <4>2. m = 0 \/ m > 0
        BY <1>4
      <4> QED
        BY <1>2, <3>1, <4>1, <4>2
    <3>3. p = q
      <4>1. q.byte + 0 = q.byte /\ ~(q.byte + 0 >= Bps)
        BY SpotFacts, Sizes3
      <4> QED
        BY <3>1, <4>1 DEF After, Position, Spot
    <3>4. e = p
      <4>1. p.sector + 0 = p.sector
        BY <1>2
      <4> QED
        BY <1>1, <3>2, <4>1 DEF BySectors, Spot
    <3>5. x + n = x
      BY <2>2
    <3> HIDE DEF n
    <3> QED
      BY <2>2, <3>3, <3>4, <3>5
  <2> QED
    BY <1>7, <2>1, <2>2
<1>10. Placed(t, s, Transfer(h, q, x, part) \cup Transfer(h, p, x + part, Sectors(m)))
  BY <1>1, <1>5, PlacedBoth
<1>11. Sectors(m) = m * Bps
  BY DEF Sectors
<1> QED
  BY <1>1, <1>4, <1>6, <1>7, <1>8, <1>9, <1>10, <1>11 DEF HeadGoes

LEMMA OnPosition ==
  ASSUME FileInv, ~conflict, op.pc \in {"zero", "head", "chunk", "group"}
  PROVE  On(f.name, op.pos.cluster) /\ (op.pc = "group" => On(f.name, op.end))
BY Peaceful DEF CallOn

LEMMA KnowsStays ==
  ASSUME CallFits, f' = f, op'.h = op.h, astray' = astray,
         \/ op.pc \in {"head", "chunk", "group"} /\ op'.pc \in {"head", "chunk", "group"}
         \/ Extending /\ op'.pc = "zero" /\ op'.len = op.len
  PROVE  KnowsSize'
BY DEF CallFits, KnowsSize, GrowsBehind, Extending

\* _FAT_write_r: the rest of the sector and of the cluster it begins in.
LEMMA PlaceOfWriteHead == ASSUME FileInv, ~conflict, PlaceInv, WriteHead  PROVE PlaceInv'
<1>k. PICK k \in Handle : k = op.h
  BY Peaceful, CallFile DEF WriteHead, At
<1>0. op.pc = "head"
  BY DEF WriteHead, At
<1>1. /\ TypeInv /\ Shape /\ k = op.h /\ f = file[k] /\ f \in FileStruct
      /\ Writer(k) /\ f.name \in Name /\ f.start # Free
      /\ InUse(f.start) /\ ~Seeking(k) /\ On(f.name, op.pos.cluster)
      /\ (Even(k) => HeadFits(fat, op, f))
  BY <1>k, <1>0, LengthenCall, OnPosition DEF PlaceInv, CallFits
<1>2. /\ op.remain \in Nat /\ op.pos \in Spot /\ op.off \in Nat /\ op.len \in Nat /\ op \in Stack
      /\ f.size \in Nat
  BY <1>1, OpFields, FileFields
<1>3. UNCHANGED <<file, dir, loose, astray>>
  BY DEF WriteHead, KeepNotes
<1>4. PICK q \in Positions, good \in BOOLEAN :
       /\ Advance(op.pos, q, good)
       /\ LET part == Part(q, op.remain)
              p == After(q, part)
              edge == ToEdge(p, op.remain - part)
              sectors == IF edge < Spc THEN edge ELSE 0
              n == part + sectors * Bps
          IN
          IF ~good
          THEN op' = [op EXCEPT !.pc = "chunk", !.ok = FALSE] /\ NoIo /\ UNCHANGED uneven
          ELSE \/ /\ op' = [op EXCEPT !.pc = "chunk", !.pos = BySectors(p, sectors),
                              !.remain = @ - n, !.off = @ + n]
                  /\ io' = Transfer(op.h, q, op.off, part)
                           \cup Transfer(op.h, p, op.off + part, sectors * Bps)
                  /\ UNCHANGED uneven
               \/ /\ sectors > 0      \* EIO
                  /\ op' = [op EXCEPT !.pc = "chunk", !.pos = p, !.ok = FALSE,
                              !.remain = @ - part, !.off = @ + part]
                  /\ io' = Transfer(op.h, q, op.off, part)
                  /\ MadeUneven
  BY DEF WriteHead
<1> DEFINE part == Part(q, op.remain)
           p == After(q, part)
           edge == ToEdge(p, op.remain - part)
           m == IF edge < Spc THEN edge ELSE 0
           n == part + m * Bps
           e == BySectors(p, m)
<1>5. /\ op'.pc = "chunk" /\ op'.h = k /\ op'.len = op.len
      /\ uneven \subseteq uneven'
      /\ \A t \in io' : t.h = k
      /\ \/ /\ ~good /\ op'.pos = op.pos /\ op'.remain = op.remain /\ op'.off = op.off /\ op'.ok = FALSE
            /\ NoIo /\ uneven' = uneven
         \/ /\ good /\ op'.pos = e /\ op'.remain = op.remain - n /\ op'.off = op.off + n
            /\ op'.ok = op.ok /\ uneven' = uneven
            /\ io' = Transfer(k, q, op.off, part) \cup Transfer(k, p, op.off + part, m * Bps)
         \/ f.name \in uneven'
  <2> HIDE DEF part, p, edge, m, n, e
  <2>1. CASE ~good
    <3>1. op' = [op EXCEPT !.pc = "chunk", !.ok = FALSE] /\ NoIo /\ UNCHANGED uneven
      BY <1>4, <2>1
    <3> QED
      BY <1>1, <1>2, <2>1, <3>1 DEF Stack, NoIo
  <2>2. CASE good
    <3>1. \/ /\ op' = [op EXCEPT !.pc = "chunk", !.pos = e, !.remain = @ - n, !.off = @ + n]
             /\ io' = Transfer(k, q, op.off, part) \cup Transfer(k, p, op.off + part, m * Bps)
             /\ UNCHANGED uneven
          \/ /\ op' = [op EXCEPT !.pc = "chunk", !.pos = p, !.ok = FALSE,
                         !.remain = @ - part, !.off = @ + part]
             /\ io' = Transfer(k, q, op.off, part)
             /\ MadeUneven
      BY <1>1, <1>4, <2>2 DEF part, p, edge, m, n, e
    <3>2. CASE /\ op' = [op EXCEPT !.pc = "chunk", !.pos = e, !.remain = @ - n, !.off = @ + n]
               /\ io' = Transfer(k, q, op.off, part) \cup Transfer(k, p, op.off + part, m * Bps)
               /\ UNCHANGED uneven
      <4>1. \A t \in io' : t.h = k
        BY <3>2, TransferOf
      <4> QED
        BY <1>1, <1>2, <2>2, <3>2, <4>1 DEF Stack
    <3>3. CASE /\ op' = [op EXCEPT !.pc = "chunk", !.pos = p, !.ok = FALSE,
                           !.remain = @ - part, !.off = @ + part]
               /\ io' = Transfer(k, q, op.off, part)
               /\ MadeUneven
      <4>1. \A t \in io' : t.h = k
        BY <3>3, TransferOf
      <4>2. uneven \subseteq uneven' /\ f.name \in uneven'
        BY <3>3 DEF MadeUneven
      <4> QED
        BY <1>1, <1>2, <2>2, <3>3, <4>1, <4>2 DEF Stack
    <3> QED
      BY <3>1, <3>2, <3>3
  <2> QED
    BY <2>1, <2>2
<1>6. Spares(k)
  BY <1>1, <1>4, SparesAdvance
<1>7. Lengthens(k)' /\ f' = f
  BY <1>1, <1>3, <1>5 DEF Lengthens, f
<1>8. ASSUME f.name \notin uneven'
      PROVE  /\ Keeps(fat, fat', f.start) /\ ChunkFits(fat', op', f)
             /\ Placed(fat', f.start, io')
  <2>1. HeadFits(fat, op, f)
    BY <1>1, <1>5, <1>8 DEF Even
  <2>2. /\ Keeps(fat, fat', f.start) /\ q \in Spot
        /\ ~good => /\ q = op.pos /\ PutAt(fat', op, f)
                    /\ Fits(fat', f.start, Most(f.size, op.off))
        /\ good => /\ Stands(fat', f.start, q, op.off) /\ q.sector < Spc
                   /\ \/ Fits(fat', f.start, Most(f.size, op.off))
                      \/ Fresh(fat', f.start, q, op.off) /\ f.size <= op.off
    BY <1>1, <1>4, <2>1, PutAdvance DEF HeadFits
  <2>3. PutLeft(op, f) /\ op.ok /\ op.remain > 0
    BY <2>1 DEF HeadFits
  <2>4. CASE /\ ~good /\ op'.pos = op.pos /\ op'.remain = op.remain /\ op'.off = op.off /\ op'.ok = FALSE
             /\ NoIo
    <3>1. PutAt(fat', op', f)
      BY <2>2, <2>4 DEF PutAt
    <3>2. PutFits(fat', op', f)
      BY <2>2, <2>4 DEF PutFits
    <3>3. PutLeft(op', f)
      BY <1>5, <2>3, <2>4 DEF PutLeft
    <3>4. Placed(fat', f.start, io')
      BY <2>4, PlacedNothing DEF NoIo
    <3> QED
      BY <2>2, <2>4, <3>1, <3>2, <3>3, <3>4 DEF ChunkFits
  <2>5. CASE /\ good /\ op'.pos = e /\ op'.remain = op.remain - n /\ op'.off = op.off + n
             /\ op'.ok = op.ok
             /\ io' = Transfer(k, q, op.off, part) \cup Transfer(k, p, op.off + part, m * Bps)
    <3> DEFINE x == op.off
               s == f.start
               y == f.size
               r == op.remain
    <3>1. /\ part = Part(q, r) /\ p = After(q, part) /\ edge = ToEdge(p, r - part)
          /\ m = (IF edge < Spc THEN edge ELSE 0) /\ e = BySectors(p, m) /\ n = part + m * Bps
      OBVIOUS
    <3>2. /\ Stands(fat', s, q, x) /\ q.sector < Spc /\ q \in Spot
          /\ Fits(fat', s, Most(y, x)) \/ (Fresh(fat', s, q, x) /\ y <= x)
          /\ r \in Nat /\ r > 0 /\ x \in Nat /\ y \in Nat
      BY <1>2, <2>2, <2>3, <2>5
    <3> HIDE DEF part, p, edge, m, e, n, x, s, y, r
    <3>3. /\ part \in Nat /\ m \in Nat /\ Sectors(m) \in Nat /\ Sectors(m) = m * Bps
          /\ part + Sectors(m) <= r
          /\ e \in Spot /\ Stands(fat', s, e, x + (part + Sectors(m)))
          /\ \/ Fits(fat', s, Most(y, x + (part + Sectors(m))))
             \/ part + Sectors(m) = 0 /\ e = q /\ Fresh(fat', s, q, x) /\ y <= x
          /\ \/ r - (part + Sectors(m)) = 0
             \/ e.byte = 0 /\ (e.sector \in {0, Spc} \/ r - (part + Sectors(m)) < Bps)
          /\ Placed(fat', s, Transfer(k, q, x, part) \cup Transfer(k, p, x + part, Sectors(m)))
      <4> DEFINE t == fat'
      <4>1. /\ Stands(t, s, q, x) /\ q.sector < Spc /\ q \in Spot
            /\ Fits(t, s, Most(y, x)) \/ (Fresh(t, s, q, x) /\ y <= x)
            /\ r \in Nat /\ r > 0 /\ x \in Nat /\ y \in Nat
        BY <3>2
      <4>2. /\ part = Part(q, r) /\ p = After(q, part) /\ edge = ToEdge(p, r - part)
            /\ m = (IF edge < Spc THEN edge ELSE 0) /\ e = BySectors(p, m)
        BY <3>1
      <4> HIDE DEF t
      <4>3. HeadGoes(t, s, k, q, x, y, r, part, p, m, e)
        BY <4>1, <4>2, HeadMoved
      <4> QED
        BY <4>3 DEF t, HeadGoes
    <3>4. /\ n = part + Sectors(m) /\ n \in Nat /\ n <= r
          /\ Stands(fat', s, e, x + n)
          /\ Fits(fat', s, Most(y, x + n)) \/ (n = 0 /\ e = q /\ Fresh(fat', s, q, x) /\ y <= x)
          /\ r - n = 0 \/ (e.byte = 0 /\ (e.sector \in {0, Spc} \/ r - n < Bps))
      <4>1. n = part + Sectors(m)
        BY <3>1, <3>3
      <4>2. n \in Nat /\ n <= r
        BY <3>3, <4>1
      <4> QED
        BY <3>3, <4>1, <4>2
    <3>5. Placed(fat', s, io')
      BY <2>5, <3>3 DEF x
    <3>6. op'.pos = e /\ op'.remain = r - n /\ op'.off = x + n /\ op'.ok = op.ok /\ op'.len = op.len
      BY <1>5, <2>5 DEF x, r
    <3>7. PutAt(fat', op', f)
      BY <3>4, <3>6 DEF PutAt, s
    <3>8. PutFits(fat', op', f)
      <4>1. CASE Fits(fat', s, Most(y, x + n))
        BY <3>6, <4>1 DEF PutFits, s, y
      <4>2. CASE n = 0 /\ e = q /\ Fresh(fat', s, q, x) /\ y <= x
        <5>1. x + n = x /\ r - n = r
          BY <3>2, <4>2
        <5>2. op'.remain > 0 /\ op'.ok
          BY <2>3, <3>2, <3>6, <5>1
        <5> QED
          BY <3>6, <4>2, <5>1, <5>2 DEF PutFits, s, y
      <4> QED
        BY <3>4, <4>1, <4>2
    <3>9. PutLeft(op', f)
      <4>1. (x + n) + (r - n) = x + r
        BY <3>2, <3>4
      <4> QED
        BY <2>3, <3>6, <4>1 DEF PutLeft, x, r
    <3>10. op'.remain = 0 \/ (op'.pos.byte = 0 /\ (op'.pos.sector \in {0, Spc} \/ op'.remain < Bps))
      BY <3>4, <3>6
    <3> QED
      BY <2>2, <3>5, <3>7, <3>8, <3>9, <3>10 DEF ChunkFits, s
  <2> HIDE DEF part, p, edge, m, e, n
  <2> QED
    BY <1>5, <1>8, <2>4, <2>5
<1> HIDE DEF part, p, edge, m, e, n
<1>a. KnowsSize'
  BY <1>0, <1>1, <1>3, <1>5, <1>7, KnowsStays DEF PlaceInv
<1>9. CallFits'
  BY <1>1, <1>3, <1>5, <1>7, <1>8, <1>a, Zenon DEF CallFits, Even
<1>10. IoFits'
  <2>1. CASE f.name \in uneven'
    BY <1>1, <1>3, <1>5, <2>1, UnevenIo
  <2>2. CASE f.name \notin uneven'
    BY <1>1, <1>3, <1>5, <1>8, <2>2, PlacedIo
  <2> QED
    BY <2>1, <2>2
<1> QED
  BY <1>1, <1>3, <1>5, <1>6, <1>7, <1>8, <1>9, <1>10, LengthStep

\* What a call that writes has.
LEMMA WriteCall ==
  ASSUME FileInv, ~conflict, PlaceInv, op.pc \in {"head", "chunk", "group"}
  PROVE  /\ TypeInv /\ Shape /\ op.h \in Handle /\ f = file[op.h] /\ f \in FileStruct
         /\ Writer(op.h) /\ f.name \in Name /\ f.start # Free /\ f.start \in Cluster
         /\ InUse(f.start) /\ ~Seeking(op.h) /\ On(f.name, op.pos.cluster)
         /\ op.remain \in Nat /\ op.pos \in Spot /\ op.off \in Nat /\ op.len \in Nat
         /\ f.size \in Nat /\ op \in Stack /\ f.cur \in Nat
BY LengthenCall, OnPosition, OpFields, FileFields

\* _FAT_write_r: the next run of whole clusters begins, or the tail is reached.
LEMMA PlaceOfWriteChunk == ASSUME FileInv, ~conflict, PlaceInv, WriteChunk  PROVE PlaceInv'
<1>k. PICK k \in Handle : k = op.h
  BY Peaceful, CallFile DEF WriteChunk, At
<1>0. op.pc = "chunk" /\ op.ok /\ op.remain >= Bpc /\ NoIo
  BY DEF WriteChunk, At
<1>1. /\ TypeInv /\ Shape /\ k = op.h /\ f = file[k] /\ f \in FileStruct
      /\ Writer(k) /\ f.name \in Name /\ InUse(f.start) /\ ~Seeking(k) /\ On(f.name, op.pos.cluster)
      /\ (Even(k) => ChunkFits(fat, op, f))
  BY <1>k, <1>0, WriteCall DEF PlaceInv, CallFits
<1>2. /\ op.remain \in Nat /\ op.pos \in Spot /\ op.off \in Nat /\ op.len \in Nat /\ op \in Stack
      /\ f.size \in Nat /\ Bpc \in Nat /\ Bpc > 0 /\ Bps \in Nat /\ Bps > 0 /\ Bps <= Bpc
      /\ Spc \in Nat /\ Spc > 0
  BY <1>0, WriteCall, Sizes3
<1>3. UNCHANGED <<file, dir, loose, astray, uneven>>
  BY DEF WriteChunk, notes
<1>4. PICK q \in Positions, good \in BOOLEAN :
        /\ Advance(op.pos, q, good)
        /\ op' = IF good
                 THEN [op EXCEPT !.pc = "group", !.pos = q, !.end = q.cluster,
                         !.next = q.cluster, !.chunk = Bpc]
                 ELSE [op EXCEPT !.ok = FALSE]
  BY DEF WriteChunk
<1>5. /\ op'.pc \in {"chunk", "group"} /\ op'.h = k /\ op'.len = op.len
      /\ op'.remain = op.remain /\ op'.off = op.off
      /\ good => /\ op'.pc = "group" /\ op'.pos = q /\ op'.end = q.cluster /\ op'.next = q.cluster
                 /\ op'.chunk = Bpc
      /\ ~good => op'.pc = "chunk" /\ op'.pos = op.pos /\ op'.ok = FALSE
  <2>1. CASE good
    BY <1>0, <1>1, <1>2, <1>4, <2>1 DEF Stack
  <2>2. CASE ~good
    BY <1>0, <1>1, <1>2, <1>4, <2>2 DEF Stack
  <2> QED
    BY <2>1, <2>2
<1>6. Spares(k)
  BY <1>1, <1>4, SparesAdvance
<1>7. Lengthens(k)' /\ f' = f
  BY <1>1, <1>3, <1>5 DEF Lengthens, f
<1>8. ASSUME Even(k)
      PROVE  /\ Keeps(fat, fat', f.start)
             /\ (good => GroupFits(fat', op', f)) /\ (~good => ChunkFits(fat', op', f))
  <2>1. PutAt(fat, op, f) /\ PutFits(fat, op, f) /\ PutLeft(op, f)
        /\ op.pos.byte = 0 /\ op.pos.sector \in {0, Spc}
    BY <1>0, <1>1, <1>2, <1>8 DEF ChunkFits
  <2>2. /\ Keeps(fat, fat', f.start) /\ q \in Spot
        /\ ~good => /\ q = op.pos /\ PutAt(fat', op, f)
                    /\ Fits(fat', f.start, Most(f.size, op.off))
        /\ good => /\ Stands(fat', f.start, q, op.off) /\ q.sector = 0 /\ q.byte = 0
                   /\ \/ Fits(fat', f.start, Most(f.size, op.off))
                      \/ Fresh(fat', f.start, q, op.off) /\ f.size <= op.off
    BY <1>1, <1>2, <1>4, <2>1, PutAdvance
  <2>3. PutLeft(op', f)
    BY <1>5, <2>1 DEF PutLeft
  <2>4. ASSUME ~good  PROVE ChunkFits(fat', op', f)
    <3>1. PutAt(fat', op', f)
      BY <1>5, <2>2, <2>4 DEF PutAt
    <3>2. PutFits(fat', op', f)
      BY <1>5, <2>2, <2>4 DEF PutFits
    <3> QED
      BY <1>5, <2>3, <2>4, <3>1, <3>2 DEF ChunkFits
  <2>5. ASSUME good  PROVE GroupFits(fat', op', f)
    <3> DEFINE s == f.start
               x == op.off
               y == f.size
    <3>1. /\ Stands(fat', s, q, x) /\ q.sector = 0 /\ q.byte = 0 /\ q \in Spot /\ x \in Nat /\ y \in Nat
          /\ Fits(fat', s, Most(y, x)) \/ (Fresh(fat', s, q, x) /\ y <= x)
      BY <1>2, <2>2, <2>5
    <3> HIDE DEF s, x, y
    <3>2. Sectors(0) = 0 /\ Clusters(1) = Bpc
      BY SectorFacts, ClusterFacts
    <3>3. Fits(fat', s, Most(y, x + Bpc))
      <4>1. Sectors(q.sector) + q.byte + Bpc <= Bpc /\ q.sector < Spc
        BY <1>2, <3>1, <3>2
      <4> QED
        BY <1>2, <3>1, <4>1, FilledOn
    <3>4. PICK r \in Nat : Reaches(fat', s, r, q.cluster) /\ x = Clusters(r) + Sectors(q.sector) + q.byte
      BY <3>1 DEF Stands
    <3>5. x = Clusters(r)
      BY <3>1, <3>2, <3>4, RankFacts
    <3>6. Run(fat', s, r, q.cluster, 1)
      BY <3>4, RunOne
    <3>7. q.cluster = q.cluster + 1 - 1
      <4>1. q.cluster \in Link
        BY <3>1, SpotFacts
      <4>2. q.cluster \in Nat
        BY <4>1, Outside
      <4> QED
        BY <4>2
    <3>8. GroupAt(fat', op', f, r, 1)
      BY <1>5, <2>5, <3>2, <3>5, <3>6, <3>7 DEF GroupAt, s, x
    <3> QED
      BY <1>0, <1>5, <2>3, <2>5, <3>1, <3>3, <3>8 DEF GroupFits, s, x, y
  <2> QED
    BY <2>2, <2>4, <2>5
<1>9. KnowsSize'
  BY <1>0, <1>1, <1>3, <1>5, <1>7, KnowsStays DEF PlaceInv
<1>10. Even(k)' <=> Even(k)
  BY <1>3 DEF Even
<1>11. CallFits'
  <2>1. (op'.pc = "group" => good) /\ (op'.pc = "chunk" => ~good)
    BY <1>5
  <2> QED
    BY <1>1, <1>3, <1>5, <1>7, <1>8, <1>9, <1>10, <2>1, Zenon DEF CallFits
<1>12. Keeps(fat, fat', file[k].start) \/ file[k].name \in uneven'
  BY <1>1, <1>3, <1>8 DEF Even
<1>13. IoFits'
  BY <1>0, NoIoFits
<1> QED
  BY <1>1, <1>3, <1>6, <1>7, <1>11, <1>12, <1>13, LengthStep

LEMMA RankOne ==
  ASSUME NEW r \in Nat, NEW l \in Nat, Clusters(r) = Clusters(l)
  PROVE  r = l
<1>1. Clusters(r) % Bpc = 0 /\ Clusters(r) \div Bpc = r /\ Clusters(l) \div Bpc = l
  BY EdgeRest
<1> QED
  BY <1>1

\* The head of a cluster, as the position of the byte where the rank r begins.
LEMMA HeadRank ==
  ASSUME NEW t, NEW s, NEW q \in Spot, q.sector = 0, q.byte = 0, NEW r \in Nat, NEW z, z = Clusters(r)
  PROVE  /\ Stands(t, s, q, z) => Reaches(t, s, r, q.cluster)
         /\ Fresh(t, s, q, z) => Tight(t, s, r + 1)
<1>1. ASSUME Stands(t, s, q, z)  PROVE Reaches(t, s, r, q.cluster)
  <2>1. PICK l \in Nat : Reaches(t, s, l, q.cluster) /\ z = Clusters(l) + Sectors(q.sector) + q.byte
    BY <1>1 DEF Stands
  <2>2. z = Clusters(l)
    BY <2>1, SectorFacts, RankFacts
  <2> QED
    BY <2>1, <2>2, RankOne
<1>2. ASSUME Fresh(t, s, q, z)  PROVE Tight(t, s, r + 1)
  <2>1. PICK l \in Nat : z = Clusters(l) /\ Tight(t, s, l + 1)
    BY <1>2 DEF Fresh
  <2> QED
    BY <2>1, RankOne
<1> QED
  BY <1>1, <1>2

\* The clusters of a run, whatever its call goes on to.
LEMMA RunEnds ==
  ASSUME TypeInv, GroupFits(fat, op, f)
  PROVE  \E r, m \in Nat :
           /\ GroupAt(fat, op, f, r, m) /\ m > 0 /\ Reaches(fat, f.start, r + (m - 1), op.end)
           /\ op.off + op.chunk = Clusters(r + m) /\ r + m \in Nat
           /\ Stands(fat, f.start, Position(op.end, Spc, 0), Clusters(r + m))
           /\ Position(op.end, Spc, 0) \in Spot
           /\ \/ op.next = op.end /\ Fits(fat, f.start, Most(f.size, op.off + op.chunk))
              \/ /\ op.next \in Cluster /\ Reaches(fat, f.start, r + m, op.next)
                 /\ op.ok /\ op.chunk < op.remain
                 /\ \/ Fits(fat, f.start, Most(f.size, op.off + op.chunk))
                    \/ /\ f.size <= op.off + op.chunk
                       /\ Tight(fat, f.start, r + m + 1)
<1>1. PICK r \in Nat, m \in Nat :
        /\ GroupAt(fat, op, f, r, m)
        /\ \/ op.next = op.end /\ Fits(fat, f.start, Most(f.size, op.off + op.chunk))
           \/ /\ op.next \in Cluster /\ Reaches(fat, f.start, r + m, op.next)
              /\ op.ok /\ op.chunk < op.remain
              /\ \/ Fits(fat, f.start, Most(f.size, op.off + op.chunk))
                 \/ f.size <= op.off + op.chunk /\ Tight(fat, f.start, r + m + 1)
  BY DEF GroupFits
<1>2. /\ m > 0 /\ op.chunk = Clusters(m) /\ op.off = Clusters(r)
      /\ Run(fat, f.start, r, op.pos.cluster, m) /\ op.end = op.pos.cluster + m - 1
  BY <1>1 DEF GroupAt
<1>3. op.pos.cluster \in Nat /\ op.end \in Link
  <2>1. op.pos.cluster \in Link /\ op.end \in Link
    BY OpFields, SpotFacts
  <2> QED
    BY <2>1, Outside
<1>4. Reaches(fat, f.start, r + (m - 1), op.end)
  <2>1. Reaches(fat, f.start, r + (m - 1), op.pos.cluster + (m - 1))
    BY <1>2, <1>3, RunLast
  <2>2. op.end = op.pos.cluster + (m - 1)
    BY <1>2, <1>3
  <2> QED
    BY <2>1, <2>2
<1>5. r + (m - 1) \in Nat /\ (r + (m - 1)) + 1 = r + m /\ r + m \in Nat
  BY <1>2
<1>6. op.off + op.chunk = Clusters(r + m)
  BY <1>2, ClusterFacts
<1>7. Position(op.end, Spc, 0) \in Spot
  BY <1>3, Sizes3 DEF Position, Spot
<1>8. Stands(fat, f.start, Position(op.end, Spc, 0), Clusters(r + m))
  <2> DEFINE p == Position(op.end, Spc, 0)
  <2>1. p.cluster = op.end /\ p.sector = Spc /\ p.byte = 0 /\ p \in Spot
    BY <1>7 DEF Position
  <2> HIDE DEF p
  <2>2. Stands(fat, f.start, p, Clusters((r + (m - 1)) + 1))
    BY <1>4, <1>5, <2>1, StandsAtEdge
  <2> QED
    BY <1>5, <2>2 DEF p
<1> QED
  BY <1>1, <1>2, <1>4, <1>5, <1>6, <1>7, <1>8

\* One cluster more: it joins the run, or waits to be the first of the next one.
GroupGoes(t, o, u, s, y, r, m, q, good) ==
  /\ Keeps(t, u, s) /\ q \in Spot
  /\ ~good => Fits(u, s, Most(y, Clusters(r + m)))
  /\ good => /\ q.sector = 0 /\ q.byte = 0 /\ q.cluster \in Cluster
             /\ Stands(u, s, q, Clusters(r + m)) /\ Reaches(u, s, r + m, q.cluster)
             /\ \/ Fits(u, s, Most(y, Clusters(r + m)))
                \/ y <= Clusters(r + m) /\ Tight(u, s, r + m + 1)
             /\ Fits(u, s, Most(y, Clusters(r + m) + Bpc))

LEMMA GroupAdvance ==
  ASSUME TypeInv, f.name \in Name, NEW s, InUse(s), NEW y \in Nat, NEW r \in Nat, NEW m \in Nat,
         NEW p \in Spot, p.sector = Spc, p.byte = 0, Stands(fat, s, p, Clusters(r + m)),
         Fits(fat, s, Most(y, Clusters(r + m))),
         NEW q \in Positions, NEW good, Advance(p, q, good)
  PROVE  GroupGoes(fat, op, fat', s, y, r, m, q, good)
<1> DEFINE z == Clusters(r + m)
           w == Most(y, z)
<1>1. z \in Nat /\ w \in Nat /\ z <= w /\ (w = z => y <= z) /\ r + m \in Nat
  <2>1. r + m \in Nat
    OBVIOUS
  <2>2. z \in Nat
    BY <2>1, RankFacts
  <2> HIDE DEF z
  <2> QED
    BY <2>1, <2>2 DEF Most
<1>2. Stands(fat, s, p, z) /\ Fits(fat, s, w)
  OBVIOUS
<1> HIDE DEF z, w
<1>3. /\ Keeps(fat, fat', s) /\ q \in Spot
      /\ good => Stands(fat', s, q, z) /\ q.sector < Spc /\ q.byte = p.byte
                 /\ (p.sector = Spc => q.sector = 0)
      /\ \/ Fits(fat', s, w)
         \/ good /\ Fresh(fat', s, q, z) /\ w = z
  BY <1>1, <1>2, AdvanceStands
<1>4. ASSUME good  PROVE q.cluster \in Cluster
  <2>1. PICK got \in Link \cup Results :
          /\ good = IsValid(got)
          /\ q = IF good THEN [p EXCEPT !.sector = 0, !.cluster = got] ELSE p
    <3>1. ~(p.sector < Spc)
      BY Sizes3
    <3> QED
      BY <3>1, Zenon DEF Advance
  <2>2. got \in Cluster
    BY <1>4, <2>1 DEF IsValid
  <2>3. q = [p EXCEPT !.sector = 0, !.cluster = got]
    BY <1>4, <2>1
  <2> QED
    BY <2>2, <2>3 DEF Spot
<1>5. ASSUME good  PROVE Reaches(fat', s, r + m, q.cluster)
  BY <1>1, <1>3, <1>5, HeadRank DEF z
<1>6. ASSUME good  PROVE Fits(fat', s, w) \/ (y <= z /\ Tight(fat', s, r + m + 1))
  BY <1>1, <1>3, <1>6, HeadRank DEF z
<1>7. ASSUME good  PROVE Fits(fat', s, Most(y, z + Bpc))
  <2>1. Fits(fat', s, Most(y, z)) \/ (Fresh(fat', s, q, z) /\ y <= z)
    BY <1>1, <1>3 DEF w
  <2>2. Sectors(q.sector) + q.byte + Bpc <= Bpc /\ q.sector < Spc /\ Bpc \in Nat /\ Bpc > 0
    <3>1. q.sector = 0 /\ q.byte = 0 /\ Sectors(0) = 0
      BY <1>3, <1>7, SectorFacts
    <3>2. Sectors(q.sector) = 0
      BY <3>1
    <3> QED
      BY <3>1, <3>2, Sizes3
  <2> QED
    BY <1>1, <1>3, <1>7, <2>1, <2>2, FilledOn
<1>8. ASSUME good  PROVE q.sector = 0 /\ q.byte = 0
  BY <1>3, <1>8
<1> QED
  BY <1>1, <1>3, <1>4, <1>5, <1>6, <1>7, <1>8 DEF GroupGoes, z, w

\* _FAT_write_r gathers clusters that follow each other, and takes new ones.
LEMMA PlaceOfWriteGroup == ASSUME FileInv, ~conflict, PlaceInv, WriteGroup  PROVE PlaceInv'
<1>k. PICK k \in Handle : k = op.h
  BY Peaceful, CallFile DEF WriteGroup, At
<1>0. op.pc = "group" /\ op.ok /\ op.next = op.end /\ op.chunk + Bpc < op.remain /\ NoIo
  BY DEF WriteGroup, At, GroupsOn
<1>1. /\ TypeInv /\ Shape /\ k = op.h /\ f = file[k] /\ f \in FileStruct /\ Links
      /\ Writer(k) /\ f.name \in Name /\ InUse(f.start) /\ ~Seeking(k) /\ On(f.name, op.end)
      /\ f.start \in Cluster /\ IsFirst(f.name, f.start)
      /\ (Even(k) => GroupFits(fat, op, f))
  BY <1>k, <1>0, WriteCall, OnPosition, Peaceful, OwnChain DEF PlaceInv, CallFits
<1>2. /\ op.remain \in Nat /\ op.pos \in Spot /\ op.off \in Nat /\ op.len \in Nat /\ op \in Stack
      /\ f.size \in Nat /\ op.chunk \in Nat /\ Bpc \in Nat /\ Bpc > 0 /\ Spc \in Nat /\ Spc > 0
  BY <1>0, WriteCall, OpFields, Sizes3
<1>3. UNCHANGED <<file, dir, loose, astray, uneven>>
  BY DEF WriteGroup, notes
<1>4. PICK q \in Positions, good \in BOOLEAN :
        /\ Advance(Position(op.end, Spc, op.pos.byte), q, good)
        /\ op' = CASE ~good -> [op EXCEPT !.ok = FALSE]
                   [] good /\ q.cluster # op.end + 1 -> [op EXCEPT !.next = q.cluster]
                   [] OTHER -> [op EXCEPT !.end = q.cluster, !.next = q.cluster,
                                  !.chunk = @ + Bpc]
  BY DEF WriteGroup
<1>5. /\ op'.pc = "group" /\ op'.h = k /\ op'.len = op.len /\ op'.pos = op.pos
      /\ op'.remain = op.remain /\ op'.off = op.off
      /\ ~good => op'.end = op.end /\ op'.next = op.next /\ op'.chunk = op.chunk
      /\ good /\ q.cluster # op.end + 1 =>
           op'.end = op.end /\ op'.next = q.cluster /\ op'.chunk = op.chunk /\ op'.ok = op.ok
      /\ good /\ q.cluster = op.end + 1 =>
           op'.end = q.cluster /\ op'.next = q.cluster /\ op'.chunk = op.chunk + Bpc
  <2>1. CASE ~good
    <3>1. op' = [op EXCEPT !.ok = FALSE]
      BY <1>4, <2>1, Zenon
    <3> QED
      BY <1>0, <1>1, <1>2, <2>1, <3>1 DEF Stack
  <2>2. CASE good /\ q.cluster # op.end + 1
    <3>1. op' = [op EXCEPT !.next = q.cluster]
      BY <1>4, <2>2, Zenon
    <3> QED
      BY <1>0, <1>1, <1>2, <2>2, <3>1 DEF Stack
  <2>3. CASE good /\ q.cluster = op.end + 1
    <3>1. op' = [op EXCEPT !.end = q.cluster, !.next = q.cluster, !.chunk = @ + Bpc]
      BY <1>4, <2>3, Zenon
    <3> QED
      BY <1>0, <1>1, <1>2, <2>3, <3>1 DEF Stack
  <2> QED
    BY <2>1, <2>2, <2>3
<1>6. Spares(k)
  <2>1. Position(op.end, Spc, op.pos.byte).cluster = op.end
    BY DEF Position
  <2> QED
    BY <1>1, <1>4, <2>1, SparesAdvance
<1>7. Lengthens(k)' /\ f' = f
  BY <1>1, <1>3, <1>5 DEF Lengthens, f
<1>8. ASSUME Even(k)
      PROVE  Keeps(fat, fat', f.start) /\ GroupFits(fat', op', f)
  <2>1. GroupFits(fat, op, f)
    BY <1>1, <1>8
  <2>2. op.pos.sector = 0 /\ op.pos.byte = 0 /\ op.chunk <= op.remain /\ PutLeft(op, f)
    BY <2>1 DEF GroupFits
  <2>3. PICK r \in Nat, m \in Nat :
          /\ GroupAt(fat, op, f, r, m) /\ m > 0 /\ Reaches(fat, f.start, r + (m - 1), op.end)
          /\ op.off + op.chunk = Clusters(r + m) /\ r + m \in Nat
          /\ Stands(fat, f.start, Position(op.end, Spc, 0), Clusters(r + m))
          /\ Position(op.end, Spc, 0) \in Spot
          /\ \/ Fits(fat, f.start, Most(f.size, op.off + op.chunk))
             \/ Reaches(fat, f.start, r + m, op.end)
    BY <1>0, <1>1, <2>1, RunEnds
  <2>4. ~Reaches(fat, f.start, r + m, op.end)
    <3> SUFFICES ASSUME Reaches(fat, f.start, r + m, op.end)  PROVE FALSE
      OBVIOUS
    <3>1. r + m = r + (m - 1)
      BY <1>1, <2>3, RankIsOne
    <3> QED
      BY <3>1
  <2>5. GroupGoes(fat, op, fat', f.start, f.size, r, m, q, good)
    <3> DEFINE p == Position(op.end, Spc, 0)
    <3>1. /\ p.sector = Spc /\ p.byte = 0 /\ p \in Spot /\ Stands(fat, f.start, p, Clusters(r + m))
          /\ Fits(fat, f.start, Most(f.size, Clusters(r + m))) /\ Advance(p, q, good)
      BY <1>4, <2>2, <2>3, <2>4 DEF Position
    <3> HIDE DEF p
    <3> QED
      BY <1>1, <1>2, <3>1, GroupAdvance
  <2> DEFINE s == f.start
             t == fat'
             y == f.size
  <2>6. /\ Keeps(fat, t, s) /\ q \in Spot
        /\ ~good => Fits(t, s, Most(y, Clusters(r + m)))
        /\ good => /\ q.cluster \in Cluster
                   /\ Reaches(t, s, r + m, q.cluster)
                   /\ \/ Fits(t, s, Most(y, Clusters(r + m)))
                      \/ y <= Clusters(r + m) /\ Tight(t, s, r + m + 1)
                   /\ Fits(t, s, Most(y, Clusters(r + m) + Bpc))
    BY <2>5 DEF GroupGoes
  <2>7. /\ op.chunk = Clusters(m) /\ op.off = Clusters(r) /\ Run(fat, s, r, op.pos.cluster, m)
        /\ op.end = op.pos.cluster + m - 1
    BY <2>3 DEF GroupAt
  <2>8. Run(t, s, r, op.pos.cluster, m)
    BY <2>6, <2>7, ChainsKept
  <2>9. PutLeft(op', f)
    BY <1>5, <2>2 DEF PutLeft
  <2>10. CASE ~good
    <3>1. GroupAt(t, op', f, r, m)
      BY <1>5, <2>3, <2>7, <2>8, <2>10 DEF GroupAt
    <3>2. op'.next = op'.end /\ Fits(t, s, Most(f.size, op'.off + op'.chunk))
      BY <1>0, <1>5, <2>3, <2>6, <2>10
    <3> QED
      BY <1>5, <2>2, <2>6, <2>9, <2>10, <3>1, <3>2 DEF GroupFits
  <2>11. CASE good /\ q.cluster # op.end + 1
    <3>1. GroupAt(t, op', f, r, m)
      BY <1>5, <2>3, <2>7, <2>8, <2>11 DEF GroupAt
    <3>2. /\ op'.next \in Cluster /\ Reaches(t, s, r + m, op'.next)
          /\ op'.ok /\ op'.chunk < op'.remain
      <4>1. op.chunk < op.remain
        BY <1>0, <1>2
      <4> QED
        BY <1>0, <1>5, <2>6, <2>11, <4>1
    <3>3. \/ Fits(t, s, Most(f.size, op'.off + op'.chunk))
          \/ f.size <= op'.off + op'.chunk /\ Tight(t, s, r + m + 1)
      BY <1>5, <2>3, <2>6, <2>11
    <3> QED
      BY <1>5, <2>2, <2>6, <2>9, <2>11, <3>1, <3>2, <3>3 DEF GroupFits
  <2>12. CASE good /\ q.cluster = op.end + 1
    <3>0. op.pos.cluster \in Nat
      <4>1. op.pos.cluster \in Link
        BY <1>2, SpotFacts
      <4> QED
        BY <4>1, Outside
    <3>1. op.end + 1 = op.pos.cluster + m /\ op.pos.cluster + m = op.pos.cluster + (m + 1) - 1
      BY <2>7, <3>0
    <3>2. Run(t, s, r, op.pos.cluster, m + 1)
      BY <2>6, <2>8, <2>12, <3>0, <3>1, RunMore
    <3>3. op.chunk + Bpc = Clusters(m + 1) /\ m + 1 \in Nat /\ m + 1 > 0
      BY <2>7, RankFacts
    <3>4. GroupAt(t, op', f, r, m + 1)
      BY <1>5, <2>7, <2>12, <3>1, <3>2, <3>3 DEF GroupAt
    <3>5. op.off + (op.chunk + Bpc) = Clusters(r + m) + Bpc /\ op.chunk + Bpc <= op.remain
      <4>1. Clusters(r + m) \in Nat
        BY <2>3, RankFacts
      <4> QED
        BY <1>0, <1>2, <2>3, <4>1
    <3>6. op'.next = op'.end /\ Fits(t, s, Most(f.size, op'.off + op'.chunk))
      BY <1>5, <2>6, <2>12, <3>5
    <3>7. op'.pos.sector = 0 /\ op'.pos.byte = 0 /\ op'.chunk <= op'.remain
      BY <1>5, <2>2, <2>12, <3>5
    <3> DEFINE n == m + 1
    <3>8. n \in Nat /\ GroupAt(t, op', f, r, n)
      BY <3>3, <3>4
    <3> HIDE DEF n
    <3>9. GroupFits(t, op', f)
      BY <2>9, <3>6, <3>7, <3>8 DEF GroupFits
    <3> QED
      BY <2>6, <3>9
  <2> QED
    BY <2>6, <2>10, <2>11, <2>12
<1>9. KnowsSize'
  BY <1>0, <1>1, <1>3, <1>5, <1>7, KnowsStays DEF PlaceInv
<1>10. Even(k)' <=> Even(k)
  BY <1>3 DEF Even
<1>11. CallFits'
  BY <1>1, <1>3, <1>5, <1>7, <1>8, <1>9, <1>10, Zenon DEF CallFits
<1>12. Keeps(fat, fat', file[k].start) \/ file[k].name \in uneven'
  BY <1>1, <1>3, <1>8 DEF Even
<1>13. IoFits'
  BY <1>0, NoIoFits
<1> QED
  BY <1>1, <1>3, <1>6, <1>7, <1>11, <1>12, <1>13, LengthStep

\* Where a run leaves its call.
LEMMA AfterRunFits ==
  ASSUME TypeInv, Links, f.start \in Cluster, IsFirst(f.name, f.start), GroupFits(fat, op, f),
         f \in FileStruct
  PROVE  /\ AfterRun \in Spot /\ AfterRun.byte = 0 /\ AfterRun.sector \in {0, Spc}
         /\ Stands(fat, f.start, AfterRun, op.off + op.chunk)
         /\ \/ Fits(fat, f.start, Most(f.size, op.off + op.chunk))
            \/ /\ Fresh(fat, f.start, AfterRun, op.off + op.chunk)
               /\ op.chunk < op.remain /\ op.ok /\ f.size <= op.off + op.chunk
<1> DEFINE s == f.start
           z == op.off + op.chunk
           y == f.size
<1>1. PICK r \in Nat, m \in Nat :
        /\ GroupAt(fat, op, f, r, m) /\ m > 0 /\ Reaches(fat, s, r + (m - 1), op.end)
        /\ z = Clusters(r + m) /\ r + m \in Nat
        /\ Stands(fat, s, Position(op.end, Spc, 0), Clusters(r + m))
        /\ Position(op.end, Spc, 0) \in Spot
        /\ \/ op.next = op.end /\ Fits(fat, s, Most(y, z))
           \/ /\ op.next \in Cluster /\ Reaches(fat, s, r + m, op.next)
              /\ op.ok /\ op.chunk < op.remain
              /\ \/ Fits(fat, s, Most(y, z))
                 \/ y <= z /\ Tight(fat, s, r + m + 1)
  BY RunEnds
<1>2. op.pos.byte = 0
  BY DEF GroupFits
<1> HIDE DEF s, z, y
<1>3. ~(op.next = op.end /\ Reaches(fat, s, r + m, op.next))
  <2> SUFFICES ASSUME Reaches(fat, s, r + m, op.end)  PROVE FALSE
    OBVIOUS
  <2>1. r + m = r + (m - 1)
    BY <1>1, RankIsOne DEF s
  <2> QED
    BY <1>1, <2>1
<1>4. CASE op.end # op.next /\ IsValid(op.next)
  <2>1. AfterRun = Position(op.next, 0, 0)
    BY <1>2, <1>4 DEF AfterRun
  <2> DEFINE p == Position(op.next, 0, 0)
  <2>2. p.cluster = op.next /\ p.sector = 0 /\ p.byte = 0 /\ p \in Spot
    BY OpFields, Sizes3 DEF Position, Spot
  <2> HIDE DEF p
  <2>3. /\ Reaches(fat, s, r + m, op.next) /\ op.ok /\ op.chunk < op.remain
        /\ Fits(fat, s, Most(y, z)) \/ (y <= z /\ Tight(fat, s, r + m + 1))
    BY <1>1, <1>4
  <2>4. Stands(fat, s, p, Clusters(r + m))
    BY <1>1, <2>2, <2>3, StandsAtHead
  <2>5. Tight(fat, s, r + m + 1) => Fresh(fat, s, p, z)
    BY <1>1, <2>2 DEF Fresh
  <2>6. /\ p.sector \in {0, Spc} /\ Stands(fat, s, p, z)
        /\ Fits(fat, s, Most(y, z)) \/ (Fresh(fat, s, p, z) /\ y <= z)
    BY <1>1, <2>2, <2>3, <2>4, <2>5
  <2> QED
    BY <2>1, <2>2, <2>3, <2>6 DEF p, s, y, z
<1>5. CASE ~(op.end # op.next /\ IsValid(op.next))
  <2>1. AfterRun = Position(op.end, Spc, 0)
    BY <1>2, <1>5 DEF AfterRun
  <2>2. Fits(fat, s, Most(y, z))
    BY <1>1, <1>3, <1>5 DEF IsValid
  <2> DEFINE p == Position(op.end, Spc, 0)
  <2>3. p.sector = Spc /\ p.byte = 0 /\ p \in Spot /\ Stands(fat, s, p, z)
    BY <1>1 DEF Position
  <2> HIDE DEF p
  <2> QED
    BY <2>1, <2>2, <2>3 DEF p, s, y, z
<1> QED
  BY <1>4, <1>5

LEMMA OnHead ==
  ASSUME NEW p \in Spot, p.sector = 0, p.byte = 0
  PROVE  OnSector(AtHead(p)) = p
BY DEF OnSector, AtHead, Spot

\* _FAT_write_r writes the run in one transfer.
LEMMA PlaceOfWritePut == ASSUME FileInv, ~conflict, PlaceInv, WritePut  PROVE PlaceInv'
<1>k. PICK k \in Handle : k = op.h
  BY Peaceful, CallFile DEF WritePut, At
<1>0. op.pc = "group"
  BY DEF WritePut, At
<1>1. /\ TypeInv /\ Shape /\ k = op.h /\ f = file[k] /\ f \in FileStruct /\ Links
      /\ Writer(k) /\ f.name \in Name /\ InUse(f.start) /\ ~Seeking(k)
      /\ f.start \in Cluster /\ IsFirst(f.name, f.start)
      /\ (Even(k) => GroupFits(fat, op, f))
  BY <1>k, <1>0, WriteCall, Peaceful, OwnChain DEF PlaceInv, CallFits
<1>2. /\ op.remain \in Nat /\ op.pos \in Spot /\ op.off \in Nat /\ op.len \in Nat /\ op \in Stack
      /\ f.size \in Nat /\ f.cur \in Nat /\ op.chunk \in Nat
  BY <1>0, WriteCall, OpFields
<1>3. UNCHANGED <<fat, file, dir, loose, astray>>
  BY DEF WritePut, KeepNotes, table
<1>5. /\ op'.pc = "chunk" /\ op'.h = k /\ op'.len = op.len
      /\ uneven \subseteq uneven' /\ \A t \in io' : t.h = k
      /\ \/ /\ op'.pos = AfterRun /\ op'.remain = op.remain - op.chunk
            /\ op'.off = op.off + op.chunk /\ op'.ok = op.ok /\ uneven' = uneven
            /\ io' = Transfer(k, OnSector(AtHead(op.pos)), op.off, op.chunk)
         \/ f.name \in uneven'
  <2> DEFINE put == [op EXCEPT !.pc = "chunk", !.end = Free, !.next = Free, !.chunk = 0]
  <2>1. \/ /\ op' = [put EXCEPT !.pos = AfterRun, !.remain = @ - op.chunk, !.off = @ + op.chunk]
           /\ io' = Transfer(k, OnSector(AtHead(op.pos)), op.off, op.chunk)
           /\ UNCHANGED uneven
        \/ op' = [put EXCEPT !.ok = FALSE] /\ NoIo /\ MadeUneven
    BY <1>1 DEF WritePut
  <2>2. /\ put.pc = "chunk" /\ put.h = k /\ put.len = op.len /\ put.remain = op.remain
        /\ put.off = op.off /\ put.ok = op.ok /\ put \in Stack
    <3>1. Free \in Link /\ 0 \in Nat
      BY DEF Link
    <3> QED
      BY <1>1, <1>2, <3>1 DEF Stack
  <2>3. CASE /\ op' = [put EXCEPT !.pos = AfterRun, !.remain = @ - op.chunk, !.off = @ + op.chunk]
             /\ io' = Transfer(k, OnSector(AtHead(op.pos)), op.off, op.chunk)
             /\ UNCHANGED uneven
    <3> HIDE DEF put
    <3>1. \A t \in io' : t.h = k
      BY <2>3, TransferOf
    <3> QED
      BY <2>2, <2>3, <3>1 DEF Stack
  <2>4. CASE op' = [put EXCEPT !.ok = FALSE] /\ NoIo /\ MadeUneven
    <3> HIDE DEF put
    <3> QED
      BY <2>2, <2>4 DEF Stack, MadeUneven, NoIo
  <2> QED
    BY <2>1, <2>3, <2>4
<1>6. Spares(k) /\ Keeps(fat, fat', file[k].start)
  BY <1>3, TableKept DEF KeepsAll
<1>7. Lengthens(k)' /\ f' = f
  BY <1>1, <1>3, <1>5 DEF Lengthens, f
<1>8. ASSUME f.name \notin uneven'
      PROVE  ChunkFits(fat', op', f) /\ Placed(fat', f.start, io')
  <2>1. GroupFits(fat, op, f) /\ op.pos.sector = 0 /\ op.pos.byte = 0 /\ op.chunk <= op.remain
        /\ PutLeft(op, f)
    BY <1>1, <1>5, <1>8 DEF Even, GroupFits
  <2>2. /\ op'.pos = AfterRun /\ op'.remain = op.remain - op.chunk
        /\ op'.off = op.off + op.chunk /\ op'.ok = op.ok
        /\ io' = Transfer(k, OnSector(AtHead(op.pos)), op.off, op.chunk)
    BY <1>5, <1>8
  <2>3. /\ AfterRun \in Spot /\ AfterRun.byte = 0 /\ AfterRun.sector \in {0, Spc}
        /\ Stands(fat, f.start, AfterRun, op.off + op.chunk)
        /\ \/ Fits(fat, f.start, Most(f.size, op.off + op.chunk))
           \/ /\ Fresh(fat, f.start, AfterRun, op.off + op.chunk)
              /\ op.chunk < op.remain /\ op.ok /\ f.size <= op.off + op.chunk
    BY <1>1, <2>1, AfterRunFits
  <2>4. PutAt(fat', op', f)
    BY <1>3, <2>2, <2>3 DEF PutAt
  <2>5. op.chunk < op.remain => op.remain - op.chunk > 0
    BY <1>2
  <2>6. PutFits(fat', op', f)
    BY <1>3, <2>2, <2>3, <2>5 DEF PutFits
  <2>7. PutLeft(op', f)
    <3>1. (op.off + op.chunk) + (op.remain - op.chunk) = op.off + op.remain
      BY <1>2
    <3> QED
      BY <1>5, <2>1, <2>2, <3>1 DEF PutLeft
  <2>8. ChunkFits(fat', op', f)
    BY <2>2, <2>3, <2>4, <2>6, <2>7 DEF ChunkFits
  <2>9. Placed(fat, f.start, Transfer(k, op.pos, op.off, op.chunk))
    <3>1. PICK r \in Nat, m \in Nat : GroupAt(fat, op, f, r, m)
      BY <2>1 DEF GroupFits
    <3>2. Run(fat, f.start, r, op.pos.cluster, m) /\ op.chunk = Clusters(m) /\ op.off = Clusters(r)
      BY <3>1 DEF GroupAt
    <3> QED
      BY <1>2, <2>1, <3>2, PlacedRun
  <2> QED
    BY <1>2, <1>3, <2>1, <2>2, <2>8, <2>9, OnHead
<1>9. KnowsSize'
  BY <1>0, <1>1, <1>3, <1>5, <1>7, KnowsStays DEF PlaceInv
<1>11. CallFits'
  BY <1>1, <1>3, <1>5, <1>7, <1>8, <1>9, Zenon DEF CallFits, Even
<1>12. IoFits'
  <2>1. CASE f.name \in uneven'
    BY <1>1, <1>3, <1>5, <2>1, UnevenIo
  <2>2. CASE f.name \notin uneven'
    BY <1>1, <1>3, <1>5, <1>8, <2>2, PlacedIo
  <2> QED
    BY <2>1, <2>2
<1> QED
  BY <1>1, <1>3, <1>5, <1>6, <1>7, <1>11, <1>12, LengthStep

-----------------------------------------------------------------------------
(***************************************************************************)
(* The end of a call that lengthens its file.                              *)
(***************************************************************************)
EndFits(t, g, k) ==
  /\ Fits(t, g.start, g.size) /\ g.modified
  /\ k \notin astray /\ k \notin loose /\ g.cur <= g.size => Stands(t, g.start, g.rw, g.cur)
  /\ g.append => Stands(t, g.start, g.ap, g.size) \/ Dead(g.ap)

LEMMA EndStep ==
  ASSUME FileInv, ~conflict, PlaceInv, NEW k \in Handle, k = op.h, Writer(k), NEW g, Becomes(k, g),
         g.inUse = file[k].inUse, g.write = file[k].write, g.name = file[k].name,
         g.start = file[k].start, ~g.modified => ~file[k].modified,
         op' = Idle, UNCHANGED <<dir, loose, astray>>, uneven \subseteq uneven', Spares(k),
         file[k].name \notin uneven' => Keeps(fat, fat', g.start) /\ EndFits(fat', g, k), IoFits'
  PROVE  PlaceInv'
<1>1. TypeInv /\ Shape /\ SameNames /\ file'[k] = g /\ \A j \in Handle \ {k} : file'[j] = file[j]
  BY Peaceful, NamesKept
<1>2. Acts(k)
  BY <1>1 DEF Acts, Same, Remembers, OwnKept
<1>3. Firm'
  BY <1>1, FirmStays DEF TypeInv, NotesOK, PlaceInv
<1>4. CallFits'
  BY IdleOp, IdleFits
<1>5. HandleFits(k)'
  <2>1. SizeFits(k)'
    BY <1>1 DEF SizeFits, EndFits, Even
  <2>2. Follows(k)'
    BY <1>1 DEF Follows, Follower, Writer
  <2>3. RwStands(k)'
    BY <1>1 DEF RwStands, EndFits, Sure, Even
  <2>4. ApStands(k)'
    BY <1>1 DEF ApStands, EndFits, Even
  <2> QED
    BY <2>1, <2>2, <2>3, <2>4 DEF HandleFits
<1> QED
  BY <1>1, <1>2, <1>3, <1>4, <1>5, StepFits

\* What a write leaves of its file.
WrittenRecord(p, n) ==
  LET done == op.len - n
      cur == f.cur + done
  IN IF f.append
     THEN [f EXCEPT !.modified = TRUE, !.ap = p, !.size = @ + done]
     ELSE [f EXCEPT !.modified = TRUE, !.rw = p, !.cur = cur,
             !.size = IF @ < cur THEN cur ELSE @]

WrittenAs(p, n, g) ==
  /\ g.inUse = f.inUse /\ g.write = f.write /\ g.name = f.name /\ g.start = f.start
  /\ g.modified = TRUE /\ g.append = f.append
  /\ f.append => /\ g.ap = p /\ g.size = f.size + (op.len - n)
                 /\ g.rw = f.rw /\ g.cur = f.cur
  /\ ~f.append => /\ g.rw = p /\ g.cur = f.cur + (op.len - n)
                  /\ g.size = (IF f.size < g.cur THEN g.cur ELSE f.size)

LEMMA WrittenFields ==
  ASSUME f \in FileStruct, NEW p, NEW n, NEW g, g = WrittenRecord(p, n)
  PROVE  WrittenAs(p, n, g)
<1>1. CASE f.append
  <2>1. g = [f EXCEPT !.modified = TRUE, !.ap = p, !.size = @ + (op.len - n)]
    BY <1>1 DEF WrittenRecord
  <2> QED
    BY <1>1, <2>1 DEF FileStruct, WrittenAs
<1>2. CASE ~f.append
  <2> DEFINE cur == f.cur + (op.len - n)
             size == IF f.size < cur THEN cur ELSE f.size
  <2>1. g = [f EXCEPT !.modified = TRUE, !.rw = p, !.cur = cur, !.size = size]
    BY <1>2 DEF WrittenRecord
  <2>2. size = (IF f.size < cur THEN cur ELSE f.size)
    OBVIOUS
  <2> HIDE DEF size
  <2>3. /\ g.inUse = f.inUse /\ g.write = f.write /\ g.name = f.name /\ g.start = f.start
        /\ g.modified = TRUE /\ g.append = f.append /\ g.rw = p /\ g.cur = cur /\ g.size = size
    BY <2>1 DEF FileStruct
  <2> QED
    BY <1>2, <2>2, <2>3 DEF WrittenAs
<1> QED
  BY <1>1, <1>2

LEMMA WrittenFits ==
  ASSUME FileInv, ~conflict, PlaceInv, op.pc \in {"chunk"}, Even(op.h), PutLeft(op, f),
         NEW n \in Nat, n <= op.remain, NEW p, NEW z, z = op.off + (op.remain - n),
         Keeps(fat, fat', f.start), Fits(fat', f.start, Most(f.size, z)),
         Stands(fat', f.start, p, z) \/ (f.append /\ Dead(p)),
         NEW g, g = WrittenRecord(p, n)
  PROVE  EndFits(fat', g, op.h)
<1>1. /\ TypeInv /\ op.h \in Handle /\ f = file[op.h] /\ f \in FileStruct /\ Writer(op.h) /\ f.start # Free
      /\ op.remain \in Nat /\ op.off \in Nat /\ op.len \in Nat /\ op.remain <= op.len
      /\ f.size \in Nat /\ f.cur \in Nat /\ HandleFits(op.h)
  BY WriteCall, WritingCall, LengthenCall
<1>2. /\ g.start = f.start /\ g.modified = TRUE /\ g.append = f.append
      /\ f.append => /\ g.ap = p /\ g.size = f.size + (op.len - n)
                     /\ g.rw = f.rw /\ g.cur = f.cur
      /\ ~f.append => /\ g.rw = p /\ g.cur = f.cur + (op.len - n)
                      /\ g.size = (IF f.size < g.cur THEN g.cur ELSE f.size)
  <2>1. f \in FileStruct /\ g = WrittenRecord(p, n)
    BY <1>1
  <2> QED
    <3>1. WrittenAs(p, n, g)
      BY <2>1, WrittenFields
    <3> QED
      BY <3>1 DEF WrittenAs
<1>3. CASE f.append
  <2>1. op.off + op.remain = f.size + op.len
    BY <1>3 DEF PutLeft
  <2>2. z = f.size + (op.len - n) /\ f.size <= z /\ z \in Nat
    BY <1>1, <2>1
  <2>3. g.size = z /\ Most(f.size, z) = z
    <3>1. g.size = z
      BY <1>2, <1>3, <2>2
    <3>2. PICK a \in Nat : a = f.size
      BY <1>1
    <3>3. Most(a, z) = z
      BY <2>2, <3>2 DEF Most
    <3> QED
      BY <3>1, <3>2, <3>3
  <2>4. ASSUME op.h \notin astray, op.h \notin loose
        PROVE  Stands(fat', f.start, f.rw, f.cur)
    <3>1. f.cur <= f.size
      BY <1>3, <2>4 DEF PlaceInv, CallFits, KnowsSize, GrowsBehind
    <3>2. Sure(op.h) /\ ~Seeking(op.h)
      BY <1>1, <2>4 DEF Sure, Writer, Seeking
    <3>3. Stands(fat, f.start, f.rw, f.cur)
      BY <1>1, <3>1, <3>2 DEF HandleFits, RwStands
    <3> QED
      BY <3>3, ChainsKept
  <2> QED
    BY <1>2, <1>3, <2>3, <2>4 DEF EndFits
<1>4. CASE ~f.append
  <2>1. op.off + op.remain = f.cur + op.len
    BY <1>4 DEF PutLeft
  <2>2. z = f.cur + (op.len - n) /\ z \in Nat
    BY <1>1, <2>1
  <2>3. g.cur = z /\ g.size = Most(f.size, z)
    BY <1>1, <1>2, <1>4, <2>2 DEF Most
  <2> QED
    BY <1>2, <1>4, <2>3 DEF EndFits
<1> QED
  BY <1>3, <1>4

\* What is left of a write, put down: at the position q, for the bytes from x on.
TailGoes(t, s, h, q, x, y, n, m, b, p) ==
  /\ Stands(t, s, [p EXCEPT !.byte = @ + b], x + n)
  /\ Fits(t, s, Most(y, x + n))
  /\ Placed(t, s, Transfer(h, OnSector(AtHead(q)), x, m * Bps)
                  \cup Transfer(h, OnSector(p), x + m * Bps, b))

LEMMA TailPut ==
  ASSUME NEW t, NEW s, NEW h, NEW q \in Spot, NEW x \in Nat, Stands(t, s, q, x), q.sector < Spc,
         q.byte = 0, NEW n \in Nat, n > 0, n < Bpc, q.sector = 0 \/ n < Bps, NEW y \in Nat,
         Fits(t, s, Most(y, x)) \/ (Fresh(t, s, q, x) /\ y <= x),
         NEW m, m = n \div Bps, NEW b, b = n % Bps, NEW p, p = BySectors(q, m)
  PROVE  TailGoes(t, s, h, q, x, y, n, m, b, p)
<1>1. m \in Nat /\ b \in Nat /\ b < Bps /\ n = Sectors(m) + b /\ Sectors(m) = m * Bps
  BY SectorsOf DEF Sectors
<1>2. /\ Stands(t, s, [p EXCEPT !.byte = @ + b], x + n)
      /\ Placed(t, s, Transfer(h, OnSector(AtHead(q)), x, Sectors(m))
                      \cup Transfer(h, OnSector(p), x + Sectors(m), b))
  <2>1. n = 0 \/ (q.byte = 0 /\ q.sector < Spc /\ (q.sector = 0 \/ n < Bps))
    OBVIOUS
  <2> QED
    <3>1. TailLands(t, s, h, q, x, n, m, b, p)
      BY <1>1, <2>1, TailMovedSo
    <3> QED
      BY <3>1 DEF TailLands
<1>3. Sectors(q.sector) + q.byte + n <= Bpc
  <2>1. Spc \in Nat /\ Bps \in Nat /\ Bpc \in Nat /\ q.sector \in Nat
    BY Sizes3, SpotFacts
  <2>2. CASE q.sector = 0
    <3>1. Sectors(q.sector) = 0
      BY <2>2, SectorFacts
    <3> QED
      BY <2>1, <3>1
  <2>3. CASE n < Bps
    <3>1. Sectors(q.sector) + Bps <= Sectors(Spc) /\ Sectors(Spc) = Bpc /\ Sectors(q.sector) \in Nat
      BY <2>1, SectorFacts
    <3> QED
      BY <2>1, <2>3, <3>1
  <2> QED
    BY <2>2, <2>3
<1>4. Fits(t, s, Most(y, x + n))
  BY <1>3, FilledOn
<1> QED
  BY <1>1, <1>2, <1>4 DEF TailGoes

\* Where the tail of a write begins.
TailBegins(t, q, good) ==
  /\ Keeps(fat, t, f.start)
  /\ ~good => /\ Fits(t, f.start, Most(f.size, op.off))
              /\ Stands(t, f.start, q, op.off) \/ (f.append /\ Dead(q))
  /\ good => op.remain < Bpc
  /\ good /\ op.remain = 0 => /\ q = op.pos /\ Fits(t, f.start, Most(f.size, op.off))
                              /\ Stands(t, f.start, q, op.off) \/ (f.append /\ Dead(q))
  /\ good /\ op.remain > 0 =>
       /\ q \in Spot /\ Stands(t, f.start, q, op.off) /\ q.sector < Spc /\ q.byte = 0
       /\ q.sector = 0 \/ op.remain < Bps
       /\ \/ Fits(t, f.start, Most(f.size, op.off))
          \/ Fresh(t, f.start, q, op.off) /\ f.size <= op.off

LEMMA TailStart ==
  ASSUME FileInv, ~conflict, PlaceInv, op.pc = "chunk", Even(op.h), op.remain < Bpc \/ ~op.ok,
         NEW q \in Positions, NEW good,
         IF op.remain > 0 /\ op.ok THEN Advance(op.pos, q, good)
         ELSE q = op.pos /\ good = op.ok /\ UNCHANGED table
  PROVE  TailBegins(fat', q, good)
<1>1. /\ TypeInv /\ f \in FileStruct /\ f.name \in Name /\ InUse(f.start) /\ op.remain \in Nat
      /\ op.pos \in Spot /\ ChunkFits(fat, op, f)
  BY WriteCall DEF PlaceInv, CallFits
<1>2. /\ PutAt(fat, op, f) /\ PutFits(fat, op, f)
      /\ op.ok => op.remain = 0 \/ (op.pos.byte = 0 /\ (op.pos.sector \in {0, Spc} \/ op.remain < Bps))
  BY <1>1 DEF ChunkFits
<1>3. CASE op.remain > 0 /\ op.ok
  <2>1. Advance(op.pos, q, good)
    BY <1>3
  <2>2. /\ Keeps(fat, fat', f.start) /\ q \in Spot
        /\ ~good => /\ q = op.pos /\ PutAt(fat', op, f)
                    /\ Fits(fat', f.start, Most(f.size, op.off))
        /\ good => /\ Stands(fat', f.start, q, op.off) /\ q.sector < Spc /\ q.byte = op.pos.byte
                   /\ (op.pos.sector = Spc => q.sector = 0) /\ (op.pos.sector < Spc => q = op.pos)
                   /\ \/ Fits(fat', f.start, Most(f.size, op.off))
                      \/ Fresh(fat', f.start, q, op.off) /\ f.size <= op.off
    BY <1>1, <1>2, <2>1, PutAdvance
  <2>3. op.pos.byte = 0 /\ (op.pos.sector \in {0, Spc} \/ op.remain < Bps) /\ op.remain < Bpc
    BY <1>1, <1>2, <1>3
  <2>4. op.pos.sector = 0 => op.pos.sector < Spc
    BY Sizes3
  <2>5. good => q.byte = 0 /\ (q.sector = 0 \/ op.remain < Bps)
    BY <2>2, <2>3, <2>4
  <2>6. ~(op.remain = 0)
    BY <1>1, <1>3
  <2> QED
    BY <2>2, <2>3, <2>5, <2>6 DEF TailBegins, PutAt
<1>4. CASE ~(op.remain > 0 /\ op.ok)
  <2>1. q = op.pos /\ good = op.ok /\ fat' = fat
    BY <1>4 DEF table
  <2>2. Fits(fat, f.start, Most(f.size, op.off))
    BY <1>2, <1>4 DEF PutFits
  <2>3. Keeps(fat, fat', f.start)
    BY <2>1, SameTable
  <2> QED
    BY <1>2, <1>4, <2>1, <2>2, <2>3 DEF TailBegins, PutAt
<1> QED
  BY <1>3, <1>4

\* The end of a write, as the position and the bytes it left undone tell it.
TailEnds(t, e, n) ==
  /\ n \in Nat /\ n <= op.remain /\ Keeps(fat, t, f.start)
  /\ Fits(t, f.start, Most(f.size, op.off + (op.remain - n)))
  /\ Stands(t, f.start, e, op.off + (op.remain - n)) \/ (f.append /\ Dead(e))

LEMMA TailUndone ==
  ASSUME NEW t, NEW q, TailBegins(t, q, FALSE), op.remain \in Nat, op.off \in Nat
  PROVE  TailEnds(t, q, op.remain)
<1>1. op.off + (op.remain - op.remain) = op.off /\ op.remain <= op.remain
  OBVIOUS
<1> QED
  BY <1>1 DEF TailBegins, TailEnds

LEMMA TailDone ==
  ASSUME NEW t, NEW k, NEW q, q \in Positions, TailBegins(t, q, TRUE), op.remain \in Nat, op.off \in Nat, f.size \in Nat,
         op.pos \in Spot,
         NEW m, m = op.remain \div Bps, NEW b, b = op.remain % Bps, NEW p, p = BySectors(q, m)
  PROVE  /\ TailEnds(t, [p EXCEPT !.byte = @ + b], 0)
         /\ Placed(t, f.start, Transfer(k, OnSector(AtHead(q)), op.off, m * Bps)
                               \cup Transfer(k, OnSector(p), op.off + m * Bps, b))
<1> DEFINE x == op.off
           n == op.remain
           y == f.size
           s == f.start
<1>0. x + (n - 0) = x + n /\ 0 <= n /\ 0 \in Nat
  OBVIOUS
<1>1. CASE n = 0
  <2>1. m = 0 /\ b = 0 /\ m * Bps = 0
    BY <1>1, Sizes3
  <2>2. q = op.pos /\ q \in Spot /\ q.byte \in Nat /\ q.sector \in Nat
    BY <1>1, SpotFacts DEF TailBegins
  <2>3. q.sector + 0 = q.sector /\ q.byte + 0 = q.byte
    BY <2>2
  <2>4. p = q
    <3>1. p = [q EXCEPT !.sector = q.sector + 0]
      BY <2>1 DEF BySectors
    <3> QED
      BY <2>2, <2>3, <3>1 DEF Spot
  <2>5. [p EXCEPT !.byte = @ + b] = q
    <3>1. [p EXCEPT !.byte = @ + b] = [q EXCEPT !.byte = q.byte + 0]
      BY <2>1, <2>4
    <3> QED
      BY <2>2, <2>3, <3>1 DEF Spot
  <2>6. Placed(t, s, Transfer(k, OnSector(AtHead(q)), x, m * Bps)
                     \cup Transfer(k, OnSector(p), x + m * Bps, b))
    BY <2>1, PlacedNone, PlacedBoth
  <2>7. op.off + (op.remain - 0) = op.off
    BY <1>1
  <2>8. TailEnds(t, q, 0)
    BY <1>0, <1>1, <2>7 DEF TailBegins, TailEnds
  <2> QED
    BY <2>5, <2>6, <2>8
<1>2. CASE n # 0
  <2>1. n > 0
    BY <1>2
  <2>2. /\ q \in Spot /\ Stands(t, s, q, x) /\ q.sector < Spc /\ q.byte = 0
        /\ q.sector = 0 \/ n < Bps
        /\ Fits(t, s, Most(y, x)) \/ (Fresh(t, s, q, x) /\ y <= x)
        /\ n < Bpc /\ Keeps(fat, t, s)
    BY <2>1 DEF TailBegins
  <2>3. n \in Nat /\ x \in Nat /\ y \in Nat /\ m = n \div Bps /\ b = n % Bps
    OBVIOUS
  <2>4. TailGoes(t, s, k, q, x, y, n, m, b, p)
    <3> HIDE DEF n, x, y, s
    <3> QED
      BY <2>1, <2>2, <2>3, TailPut
  <2>5. /\ Stands(t, s, [p EXCEPT !.byte = @ + b], x + n)
        /\ Fits(t, s, Most(y, x + n))
        /\ Placed(t, s, Transfer(k, OnSector(AtHead(q)), x, m * Bps)
                        \cup Transfer(k, OnSector(p), x + m * Bps, b))
    BY <2>4 DEF TailGoes
  <2>6. TailEnds(t, [p EXCEPT !.byte = @ + b], 0)
    BY <1>0, <2>2, <2>5, Zenon DEF TailEnds
  <2> QED
    BY <2>5, <2>6
<1> QED
  BY <1>1, <1>2

LEMMA WrittenEnd ==
  ASSUME FileInv, ~conflict, PlaceInv, op.pc = "chunk", NEW k \in Handle, k = op.h,
         NEW p, NEW n, Written(p, n), op' = Idle, UNCHANGED <<dir, loose, astray>>,
         uneven \subseteq uneven', Spares(k), f.name \notin uneven' => TailEnds(fat', p, n),
         \A t \in io' : t.h = k, f.name \notin uneven' => Placed(fat', f.start, io')
  PROVE  PlaceInv'
<1>1. /\ TypeInv /\ f = file[k] /\ f \in FileStruct /\ Writer(k) /\ f.name \in Name
  BY WriteCall
<1>2. PICK g : g = WrittenRecord(p, n)
  OBVIOUS
<1>3. Becomes(k, g)
  BY <1>2 DEF Written, WrittenRecord
<1>4. WrittenAs(p, n, g)
  BY <1>1, <1>2, WrittenFields
<1>5. g.inUse = f.inUse /\ g.write = f.write /\ g.name = f.name /\ g.start = f.start
      /\ g.modified = TRUE
  BY <1>4 DEF WrittenAs
<1>6. ASSUME f.name \notin uneven'  PROVE Keeps(fat, fat', f.start) /\ EndFits(fat', g, k)
  <2>1. TailEnds(fat', p, n) /\ Even(op.h)
    BY <1>1, <1>6 DEF Even
  <2>2. PutLeft(op, f)
    BY <2>1 DEF PlaceInv, CallFits, ChunkFits
  <2> DEFINE z == op.off + (op.remain - n)
  <2>3. /\ n \in Nat /\ n <= op.remain /\ Keeps(fat, fat', f.start)
        /\ Fits(fat', f.start, Most(f.size, z))
        /\ Stands(fat', f.start, p, z) \/ (f.append /\ Dead(p))
    BY <2>1 DEF TailEnds
  <2>a. z = op.off + (op.remain - n) /\ op.pc \in {"chunk"}
    OBVIOUS
  <2> HIDE DEF z
  <2>4. EndFits(fat', g, op.h)
    BY <1>2, <2>1, <2>2, <2>3, <2>a, WrittenFits
  <2> QED
    BY <2>3, <2>4
<1>7. SameNames /\ file'[k] = g
  BY <1>1, <1>3, <1>5, NamesKept
<1>8. IoFits'
  <2>1. CASE f.name \in uneven'
    BY <1>5, <1>7, <2>1, UnevenIo
  <2>2. CASE f.name \notin uneven'
    BY <1>5, <1>7, <2>2, PlacedIo
  <2> QED
    BY <2>1, <2>2
<1> QED
  BY <1>1, <1>3, <1>5, <1>6, <1>8, EndStep

\* _FAT_write_r: the whole sectors and the bytes of the last cluster, and the size.
LEMMA PlaceOfWriteTail == ASSUME FileInv, ~conflict, PlaceInv, WriteTail  PROVE PlaceInv'
<1>k. PICK k \in Handle : k = op.h
  BY Peaceful, CallFile DEF WriteTail, At
<1>0. op.pc = "chunk" /\ (op.remain < Bpc \/ ~op.ok) /\ op' = Idle
      /\ UNCHANGED <<dir, loose, astray>>
  BY DEF WriteTail, At, KeepNotes
<1>1. /\ TypeInv /\ Shape /\ k = op.h /\ f = file[k] /\ f \in FileStruct
      /\ Writer(k) /\ f.name \in Name /\ On(f.name, op.pos.cluster)
      /\ op.remain \in Nat /\ op.pos \in Spot /\ op.off \in Nat /\ f.size \in Nat
  BY <1>k, <1>0, WriteCall
<1>4. PICK q \in Positions, good \in BOOLEAN :
       /\ IF op.remain > 0 /\ op.ok THEN Advance(op.pos, q, good)
          ELSE q = op.pos /\ good = op.ok /\ UNCHANGED table
       /\ LET sectors == op.remain \div Bps
              p == BySectors(q, sectors)
              rest == op.remain % Bps
          IN
          \/ ~good /\ Written(q, op.remain) /\ NoIo /\ UNCHANGED uneven
          \/ /\ good
             /\ Written([p EXCEPT !.byte = @ + rest], 0)
             /\ io' = Transfer(op.h, OnSector(AtHead(q)), op.off, sectors * Bps)
                      \cup Transfer(op.h, OnSector(p), op.off + sectors * Bps, rest)
             /\ UNCHANGED uneven
          \/ good /\ sectors > 0 /\ Written(q, op.remain) /\ NoIo /\ MadeUneven
  BY DEF WriteTail
<1> DEFINE m == op.remain \div Bps
           p == BySectors(q, m)
           b == op.remain % Bps
           e == [p EXCEPT !.byte = @ + b]
<1>5. \/ ~good /\ Written(q, op.remain) /\ NoIo /\ uneven' = uneven
      \/ /\ good /\ Written(e, 0) /\ uneven' = uneven
         /\ io' = Transfer(k, OnSector(AtHead(q)), op.off, m * Bps)
                  \cup Transfer(k, OnSector(p), op.off + m * Bps, b)
      \/ Written(q, op.remain) /\ NoIo /\ uneven \subseteq uneven' /\ f.name \in uneven'
  BY <1>k, <1>4 DEF MadeUneven
<1>6. Spares(k)
  <2>1. CASE op.remain > 0 /\ op.ok
    BY <1>1, <1>4, <2>1, SparesAdvance
  <2>2. CASE ~(op.remain > 0 /\ op.ok)
    BY <1>4, <2>2, TableKept DEF table
  <2> QED
    BY <2>1, <2>2
<1>7. Even(k) => TailBegins(fat', q, good)
  BY <1>k, <1>0, <1>4, TailStart
<1>8. CASE ~good /\ Written(q, op.remain) /\ NoIo /\ uneven' = uneven
  <2>1. f.name \notin uneven' => TailEnds(fat', q, op.remain)
    <3> SUFFICES ASSUME Even(k)  PROVE TailEnds(fat', q, op.remain)
      BY <1>1, <1>8 DEF Even
    <3>1. good = FALSE
      BY <1>8
    <3> QED
      BY <1>1, <1>7, <3>1, TailUndone
  <2>2. (\A t \in io' : t.h = k) /\ Placed(fat', f.start, io')
    BY <1>8, PlacedNothing DEF NoIo
  <2> QED
    BY <1>0, <1>1, <1>6, <1>8, <2>1, <2>2, WrittenEnd
<1>9. CASE /\ good /\ Written(e, 0) /\ uneven' = uneven
           /\ io' = Transfer(k, OnSector(AtHead(q)), op.off, m * Bps)
                    \cup Transfer(k, OnSector(p), op.off + m * Bps, b)
  <2>1. f.name \notin uneven' => TailEnds(fat', e, 0) /\ Placed(fat', f.start, io')
    <3> SUFFICES ASSUME Even(k)  PROVE TailEnds(fat', e, 0) /\ Placed(fat', f.start, io')
      BY <1>1, <1>9 DEF Even
    <3>1. good = TRUE
      BY <1>9
    <3>2. m = op.remain \div Bps /\ b = op.remain % Bps /\ p = BySectors(q, m)
          /\ e = [p EXCEPT !.byte = @ + b]
      OBVIOUS
    <3> HIDE DEF m, b, p, e
    <3> QED
      BY <1>1, <1>7, <1>9, <3>1, <3>2, TailDone
  <2>2. \A t \in io' : t.h = k
    <3> HIDE DEF m, b, p, e
    <3> QED
      BY <1>9, TransferOf
  <2> HIDE DEF m, b, p, e
  <2>3. 0 \in Nat /\ uneven \subseteq uneven'
    BY <1>9
  <2> QED
    BY <1>0, <1>1, <1>6, <1>9, <2>1, <2>2, <2>3, WrittenEnd
<1>10. CASE Written(q, op.remain) /\ NoIo /\ uneven \subseteq uneven' /\ f.name \in uneven'
  <2>1. \A t \in io' : t.h = k
    BY <1>10 DEF NoIo
  <2> QED
    BY <1>0, <1>1, <1>6, <1>10, <2>1, WrittenEnd
<1> HIDE DEF m, b, p, e
<1> QED
  BY <1>5, <1>8, <1>9, <1>10

Covered(t, s, x) == \E k \in Nat : Covers(k, x) /\ Tight(t, s, k)

LEMMA CoverGrows ==
  ASSUME NEW t, NEW s, NEW p \in Spot, NEW x \in Nat, Stands(t, s, p, x), p.sector < Spc,
         NEW n \in Nat, Sectors(p.sector) + p.byte + n <= Bpc,
         Covered(t, s, x) \/ (Fresh(t, s, p, x) /\ n > 0)
  PROVE  Covered(t, s, x + n)
<1>1. /\ p.sector \in Nat /\ p.byte \in Nat /\ Sectors(p.sector) \in Nat /\ Bpc \in Nat /\ Bpc > 0
  BY SpotFacts, Sizes3
<1>2. CASE Covered(t, s, x)
  <2>1. PICK k \in Nat : Covers(k, x) /\ Tight(t, s, k)
    BY <1>2 DEF Covered
  <2>2. PICK r \in Nat : Reaches(t, s, r, p.cluster) /\ x = Clusters(r) + Sectors(p.sector) + p.byte
    BY DEF Stands
  <2>3. r < k
    BY <2>1, <2>2, TightEnds
  <2>4. /\ Clusters(r) \in Nat /\ Clusters(k) \in Nat /\ Clusters(r) + Bpc <= Clusters(k)
    BY <2>3, ClusterFacts
  <2>5. x <= Clusters(k) /\ Clusters(k) < x + Bpc
    BY <2>1 DEF Covers
  <2>6. x + n <= Clusters(k) /\ Clusters(k) < (x + n) + Bpc
    <3> HIDE DEF Clusters, Sectors, Bpc
    <3> QED
      BY <1>1, <2>2, <2>4, <2>5
  <2>7. Covers(k, x + n)
    BY <2>6 DEF Covers
  <2> QED
    BY <2>1, <2>7 DEF Covered
<1>3. CASE Fresh(t, s, p, x) /\ n > 0
  <2>1. PICK r \in Nat : x = Clusters(r) /\ Tight(t, s, r + 1)
    BY <1>3 DEF Fresh
  <2>2. Clusters(r) \in Nat /\ Clusters(r + 1) = Clusters(r) + Bpc /\ r + 1 \in Nat
    BY RankFacts
  <2>3. x + n <= Clusters(r + 1) /\ Clusters(r + 1) < (x + n) + Bpc
    BY <1>1, <1>3, <2>1, <2>2
  <2>4. Covers(r + 1, x + n)
    BY <2>3 DEF Covers
  <2> QED
    BY <2>1, <2>2, <2>4 DEF Covered
<1> QED
  BY <1>2, <1>3

LEMMA CoveredFits == ASSUME NEW t, NEW s, NEW x, Covered(t, s, x)  PROVE Fits(t, s, x)
BY DEF Covered, Fits

LEMMA CoveredKept ==
  ASSUME NEW t, NEW u, NEW s, NEW x, Covered(t, s, x), Ended(t, u, s)
  PROVE  Covered(u, s, x)
BY DEF Covered, Ended

\* The end of an extension: the file has its new size, and a write goes on there.
ExtendEnds(t, p) ==
  /\ Keeps(fat, t, f.start) /\ Stands(t, f.start, p, op.goal) /\ Fits(t, f.start, op.goal)
  /\ op.ok /\ (op.len > 0 => op.goal = f.cur)

LEMMA ExtendedStep ==
  ASSUME FileInv, ~conflict, PlaceInv, Extending, NEW k \in Handle, k = op.h,
         NEW p \in Spot, Extended(p), UNCHANGED <<dir, loose, astray, uneven>>, Spares(k),
         Even(k) => ExtendEnds(fat', p) /\ Placed(fat', f.start, io'), \A t \in io' : t.h = k
  PROVE  PlaceInv'
<1>1. /\ TypeInv /\ Shape /\ f = file[k] /\ f \in FileStruct /\ Writer(k) /\ f.name \in Name /\ op \in Stack
      /\ f.size \in Nat /\ f.cur \in Nat /\ op.goal \in Nat /\ op.len \in Nat /\ HandleFits(k)
      /\ f.start # Free /\ ~Seeking(k) /\ (op.len > 0 => ~f.append)
  BY LengthenCall, OpFields, FileFields, ExtendingCall DEF Extending
<1>2. CASE op.len > 0
  <2> DEFINE g0 == [f EXCEPT !.rw = p, !.size = op.goal]
             o0 == [op EXCEPT !.pc = "head", !.then = "none", !.tip = Free, !.goal = 0,
                      !.pos = p, !.remain = op.len, !.off = op.goal]
  <2>1. Becomes(k, g0) /\ op' = o0
    BY <1>1, <1>2 DEF Extended
  <2>2. /\ g0.inUse = f.inUse /\ g0.write = f.write /\ g0.name = f.name /\ g0.start = f.start
        /\ g0.modified = f.modified /\ g0.append = f.append /\ g0.cur = f.cur
        /\ g0.rw = p /\ g0.size = op.goal
    BY <1>1 DEF FileStruct
  <2>3. /\ o0.pc = "head" /\ o0.h = op.h /\ o0.pos = p /\ o0.remain = op.len /\ o0.off = op.goal
        /\ o0.len = op.len /\ o0.ok = op.ok
    BY <1>1 DEF Stack
  <2> HIDE DEF g0, o0
  <2>4. SameNames /\ file'[k] = g0 /\ \A j \in Handle \ {k} : file'[j] = file[j]
    BY <1>1, <2>1, <2>2, NamesKept
  <2>5. (Even(k)' <=> Even(k)) /\ (Writer(k)' <=> Writer(k)) /\ Lengthens(k)'
    BY <1>1, <2>1, <2>2, <2>3, <2>4 DEF Even, Writer, Lengthens
  <2>6. Acts(k)
    <3>1. Keeps(fat, fat', file[k].start) \/ file[k].name \in uneven'
      BY <1>1 DEF ExtendEnds, Even
    <3> QED
      BY <1>1, <2>2, <2>4, <3>1 DEF Acts, Same, Remembers, OwnKept
  <2>7. HandleFits(k)'
    <3>1. SizeFits(k)' /\ ApStands(k)'
      BY <2>5 DEF SizeFits, ApStands
    <3>2. Follows(k)'
      BY <1>1, <2>5 DEF Follows, Follower, Writer
    <3>3. RwStands(k)'
      <4> SUFFICES ASSUME Sure(k)'  PROVE Stands(fat', file'[k].start, file'[k].rw, file'[k].cur)
        BY DEF RwStands
      <4>1. Even(k)
        BY <2>5 DEF Sure
      <4>2. Stands(fat', f.start, p, f.cur)
        BY <1>2, <4>1 DEF ExtendEnds
      <4> QED
        BY <2>2, <2>4, <4>2
    <3> QED
      BY <3>1, <3>2, <3>3 DEF HandleFits
  <2>8. f' = g0
    BY <1>1, <2>1, <2>3, <2>4 DEF f
  <2>9. ASSUME Even(k)  PROVE HeadFits(fat', op', g0)
    <3>1. ExtendEnds(fat', p) /\ op.goal = f.cur /\ op.ok
      BY <1>2, <2>9 DEF ExtendEnds
    <3>2. Stands(fat', f.start, p, op.goal) /\ Fits(fat', f.start, op.goal)
      BY <3>1 DEF ExtendEnds
    <3>3. PutAt(fat', op', g0)
      BY <2>1, <2>2, <2>3, <3>2 DEF PutAt
    <3>4. PutFits(fat', op', g0)
      BY <1>1, <2>1, <2>2, <2>3, <3>2 DEF PutFits, Most
    <3>5. PutLeft(op', g0)
      BY <1>1, <1>2, <2>1, <2>2, <2>3, <3>1 DEF PutLeft
    <3> QED
      BY <1>2, <2>1, <2>3, <3>1, <3>3, <3>4, <3>5 DEF HeadFits
  <2>10. KnowsSize'
    BY <1>1, <1>2, <2>1, <2>2, <2>3, <2>8 DEF KnowsSize, GrowsBehind, Extending
  <2>11. CallFits'
    <3>1. op'.pc = "head" /\ op'.h = k
      BY <2>1, <2>3
    <3> QED
      BY <2>5, <2>8, <2>9, <2>10, <3>1, Zenon DEF CallFits
  <2>12. IoFits'
    <3>1. CASE Even(k)
      BY <2>2, <2>4, <3>1, <1>1, PlacedIo
    <3>2. CASE ~Even(k)
      BY <1>1, <2>2, <2>4, <3>2, UnevenIo DEF Even
    <3> QED
      BY <3>1, <3>2
  <2>13. Firm'
    BY <1>1, <2>4, FirmStays DEF TypeInv, NotesOK, PlaceInv
  <2> QED
    BY <1>1, <2>6, <2>7, <2>11, <2>12, <2>13, StepFits
<1>3. CASE ~(op.len > 0)
  <2> DEFINE ap == IF f.append THEN p ELSE f.ap
             g0 == [f EXCEPT !.size = op.goal, !.modified = TRUE, !.ap = ap]
  <2>1. Becomes(k, g0) /\ op' = Idle
    BY <1>1, <1>3 DEF Extended
  <2>a. f.append => ap = p
    OBVIOUS
  <2> HIDE DEF ap
  <2>2. /\ g0.inUse = f.inUse /\ g0.write = f.write /\ g0.name = f.name /\ g0.start = f.start
        /\ g0.modified = TRUE /\ g0.append = f.append /\ g0.cur = f.cur
        /\ g0.rw = f.rw /\ g0.size = op.goal /\ g0.ap = ap
    BY <1>1 DEF FileStruct
  <2> HIDE DEF g0
  <2>3. ASSUME Even(k)  PROVE Keeps(fat, fat', g0.start) /\ EndFits(fat', g0, k)
    <3>1. /\ Keeps(fat, fat', f.start) /\ Stands(fat', f.start, p, op.goal)
          /\ Fits(fat', f.start, op.goal)
      BY <2>3 DEF ExtendEnds
    <3>2. ASSUME k \notin astray, k \notin loose  PROVE Stands(fat', f.start, f.rw, f.cur)
      <4>1. op.len = 0
        BY <1>1, <1>3
      <4>2. f.cur <= f.size
        BY <3>2, <4>1 DEF PlaceInv, CallFits, KnowsSize, GrowsBehind
      <4>3. Sure(k)
        BY <1>1, <2>3, <3>2 DEF Sure, Writer
      <4>4. Stands(fat, f.start, f.rw, f.cur)
        BY <1>1, <4>2, <4>3 DEF HandleFits, RwStands
      <4> QED
        BY <3>1, <4>4, ChainsKept
    <3> QED
      BY <2>2, <2>a, <3>1, <3>2 DEF EndFits
  <2>4. file'[k] = g0
    BY <1>1, <2>1, <2>2, NamesKept
  <2>5. IoFits'
    <3>1. CASE Even(k)
      BY <2>2, <2>4, <3>1, <1>1, PlacedIo
    <3>2. CASE ~Even(k)
      BY <1>1, <2>2, <2>4, <3>2, UnevenIo DEF Even
    <3> QED
      BY <3>1, <3>2
  <2>6. file[k].name \notin uneven' => Even(k)
    BY DEF Even
  <2> QED
    BY <1>1, <2>1, <2>2, <2>3, <2>5, <2>6, EndStep
<1> QED
  BY <1>2, <1>3

LEMMA FailedStep ==
  ASSUME FileInv, ~conflict, PlaceInv, Extending, NEW k \in Handle, k = op.h,
         ExtendFailed, UNCHANGED <<dir, loose, astray>>, Spares(k)
  PROVE  PlaceInv'
<1>1. /\ TypeInv /\ f = file[k] /\ f \in FileStruct /\ Writer(k)
  BY LengthenCall
<1>2. NoIo /\ op' = Idle /\ f.name \in uneven' /\ uneven \subseteq uneven'
  BY DEF ExtendFailed, MadeUneven
<1>3. PICK g : /\ Becomes(k, g)
               /\ g.inUse = f.inUse /\ g.write = f.write /\ g.name = f.name /\ g.start = f.start
               /\ (~g.modified => ~f.modified)
  <2>1. CASE op.len > 0
    BY <1>1, <2>1 DEF ExtendFailed
  <2>2. CASE ~(op.len > 0)
    <3> DEFINE ap == IF f.append THEN f.rw ELSE f.ap
               g0 == [f EXCEPT !.size = op.goal, !.modified = TRUE, !.ap = ap]
    <3>1. Becomes(k, g0)
      BY <1>1, <2>2 DEF ExtendFailed
    <3> HIDE DEF ap
    <3>2. /\ g0.inUse = f.inUse /\ g0.write = f.write /\ g0.name = f.name /\ g0.start = f.start
          /\ g0.modified = TRUE
      BY <1>1 DEF FileStruct
    <3> QED
      BY <3>1, <3>2
  <2> QED
    BY <2>1, <2>2
<1>4. IoFits'
  BY <1>2, NoIoFits
<1> QED
  BY <1>1, <1>2, <1>3, <1>4, EndStep

\* A position in front of a sector, where there is one, up to which the file is
\* filled and no cluster is left over but its own.
Landed(t, p, x) ==
  /\ Keeps(fat, t, f.start) /\ p \in Spot /\ p.sector < Spc /\ Stands(t, f.start, p, x)
  /\ Covered(t, f.start, x) \/ Fresh(t, f.start, p, x)

LEMMA ZeroLands ==
  ASSUME TypeInv, f.name \in Name, InUse(f.start), ZeroFits(fat, op, f), op.pos \in Spot, op.off \in Nat,
         NEW got, NEW p,
         p = IF op.pos.sector >= Spc THEN Position(got, 0, op.pos.byte) ELSE op.pos,
         IF op.pos.sector >= Spc THEN LinkFree(op.pos.cluster, f.name, got)
         ELSE got = op.pos.cluster /\ UNCHANGED table,
         ~(op.pos.sector >= Spc /\ ~IsValid(got))
  PROVE  Landed(fat', p, op.off) /\ p.byte = 0
<1>1. /\ Stands(fat, f.start, op.pos, op.off) /\ op.pos.byte = 0
      /\ Covered(fat, f.start, op.off) \/ Fresh(fat, f.start, op.pos, op.off)
  BY DEF ZeroFits, Covered
<1>2. op.pos.sector \in 0 .. Spc /\ op.pos.sector \in Nat /\ Spc \in Nat /\ Spc > 0 /\ Bpc \in Nat
  BY <1>1, Sizes3, SpotFacts DEF Stands
<1>3. CASE op.pos.sector < Spc
  <2>1. p = op.pos /\ fat' = fat
    BY <1>2, <1>3 DEF table
  <2>2. Keeps(fat, fat', f.start)
    BY <2>1, SameTable
  <2> QED
    BY <1>1, <1>3, <2>1, <2>2 DEF Landed
<1>4. CASE op.pos.sector = Spc
  <2>1. p = Position(got, 0, 0) /\ LinkFree(op.pos.cluster, f.name, got) /\ got \in Cluster
    BY <1>1, <1>2, <1>4 DEF IsValid
  <2>2. p.cluster = got /\ p.sector = 0 /\ p.byte = 0 /\ p \in Spot
    BY <2>1, Sizes3 DEF Position, Spot, Link
  <2>3. Covered(fat, f.start, op.off)
    BY <1>1, <1>2, <1>4 DEF Fresh
  <2>4. PICK k \in Nat : Covers(k, op.off) /\ Tight(fat, f.start, k)
    BY <2>3 DEF Covered
  <2>5. PICK r \in Nat : /\ Reaches(fat, f.start, r, op.pos.cluster)
                         /\ op.off = Clusters(r) + Sectors(op.pos.sector) + op.pos.byte
    BY <1>1 DEF Stands
  <2>6. r + 1 \in Nat /\ op.off = Clusters(r + 1)
    BY <1>1, <1>2, <1>4, <2>5, RankFacts, SectorFacts
  <2>7. Covers(r + 1, op.off)
    <3>1. Bpc > 0
      BY Sizes3
    <3> QED
      BY <1>2, <2>6, <3>1 DEF Covers
  <2>8. k = r + 1
    BY <2>4, <2>6, <2>7, CoversOne
  <2>9. op.pos.cluster = Beyond \/ Ends(fat[op.pos.cluster])
    BY <2>4, <2>5, <2>8, TightEnds
  <2>10. Keeps(fat, fat', f.start) /\ Stands(fat', f.start, p, op.off) /\ Fresh(fat', f.start, p, op.off)
    BY <1>1, <1>4, <2>1, <2>2, <2>9, OverTheEnd
  <2> QED
    BY <1>2, <2>2, <2>10 DEF Landed
<1> QED
  BY <1>2, <1>3, <1>4

\* _FAT_file_extend_r writes the zeros sector by sector.
LEMMA PlaceOfExtendSector == ASSUME FileInv, ~conflict, PlaceInv, ExtendSector  PROVE PlaceInv'
<1>0. op.pc = "zero" /\ op.remain >= Bps /\ UNCHANGED <<dir, loose, astray>> /\ Extending
  BY DEF ExtendSector, At, KeepNotes, Extending
<1>1. /\ TypeInv /\ Shape /\ op.h \in Handle /\ f = file[op.h] /\ f \in FileStruct
      /\ Writer(op.h) /\ f.name \in Name /\ f.start # Free /\ f.start \in Cluster
      /\ InUse(f.start) /\ ~Seeking(op.h) /\ op \in Stack
  BY <1>0, LengthenCall, OpFields
<1>k. PICK k \in Handle : k = op.h
  BY <1>1
<1>2. op.remain \in Nat /\ op.pos \in Spot /\ op.off \in Nat /\ op.len \in Nat /\ op.goal \in Nat
  BY <1>1 DEF Stack
<1>3. On(f.name, op.pos.cluster)
  BY <1>0, OnPosition
<1>4. PICK got \in Link \cup Results :
       LET p == IF op.pos.sector >= Spc THEN Position(got, 0, op.pos.byte) ELSE op.pos IN
       /\ IF op.pos.sector >= Spc THEN LinkFree(op.pos.cluster, f.name, got)
          ELSE got = op.pos.cluster /\ UNCHANGED table
       /\ IF op.pos.sector >= Spc /\ ~IsValid(got) THEN ExtendFailed
          ELSE /\ op' = [op EXCEPT !.pos = BySectors(p, 1), !.remain = @ - Bps,
                           !.off = @ + Bps]
               /\ io' = Transfer(op.h, OnSector(p), op.off, Bps)
               /\ UNCHANGED <<file, uneven, misled>>
  BY DEF ExtendSector
<1>5. Spares(k)
  <2>1. CASE op.pos.sector >= Spc
    BY <1>1, <1>k, <1>3, <1>4, <2>1, SparesLinked
  <2>2. CASE ~(op.pos.sector >= Spc)
    BY <1>4, <2>2, TableKept DEF table
  <2> QED
    BY <2>1, <2>2
<1>6. CASE op.pos.sector >= Spc /\ ~IsValid(got)
  <2>1. ExtendFailed
    BY <1>4, <1>6
  <2> QED
    BY <1>0, <1>k, <1>5, <2>1, FailedStep
<1>7. CASE ~(op.pos.sector >= Spc /\ ~IsValid(got))
  <2>1. PICK p : p = IF op.pos.sector >= Spc THEN Position(got, 0, op.pos.byte) ELSE op.pos
    OBVIOUS
  <2>2. /\ op' = [op EXCEPT !.pos = BySectors(p, 1), !.remain = @ - Bps, !.off = @ + Bps]
        /\ io' = Transfer(op.h, OnSector(p), op.off, Bps)
        /\ UNCHANGED <<file, uneven, misled>>
    BY <1>4, <1>7, <2>1, Zenon
  <2>3. /\ op'.pc = "zero" /\ op'.h = op.h /\ op'.len = op.len /\ op'.ok = op.ok /\ op'.goal = op.goal
        /\ op'.pos = BySectors(p, 1) /\ op'.remain = op.remain - Bps /\ op'.off = op.off + Bps
    BY <1>0, <1>1, <2>2 DEF Stack
  <2>4. ASSUME Even(k)
        PROVE  /\ Keeps(fat, fat', f.start) /\ Placed(fat', f.start, io')
               /\ ZeroFits(fat', op', f)
    <3>1. ZeroFits(fat, op, f)
      BY <1>0, <1>k, <2>4 DEF PlaceInv, CallFits
    <3>2. Landed(fat', p, op.off) /\ p.byte = 0
      BY <1>1, <1>2, <1>4, <1>7, <2>1, <3>1, ZeroLands
    <3>3. /\ Keeps(fat, fat', f.start) /\ p \in Spot /\ p.sector < Spc /\ p.sector \in Nat
          /\ Stands(fat', f.start, p, op.off)
          /\ Covered(fat', f.start, op.off) \/ Fresh(fat', f.start, p, op.off)
      BY <3>2, SpotFacts DEF Landed
    <3>4. /\ Bps \in Nat /\ Bps > 0 /\ Spc \in Nat /\ 1 \in Nat /\ p.sector + 1 <= Spc
      BY <3>3, Sizes3
    <3>5. Sectors(p.sector) + p.byte + Bps <= Bpc /\ Sectors(1) = Bps
      <4>1. Sectors(p.sector) + Bps <= Sectors(Spc) /\ Sectors(p.sector) \in Nat
        BY <3>3, <3>4, SectorFacts
      <4> QED
        BY <3>2, <3>4, <4>1, SectorFacts
    <3>6. Covered(fat', f.start, op.off + Bps)
      BY <1>2, <3>2, <3>3, <3>4, <3>5, CoverGrows
    <3>7. OnSector(p) = p
      BY <3>2, <3>3 DEF OnSector, Spot
    <3>8. /\ Placed(fat', f.start, Transfer(op.h, p, op.off, Sectors(1)))
          /\ Stands(fat', f.start, BySectors(p, 1), op.off + Sectors(1))
          /\ BySectors(p, 1) \in Spot /\ BySectors(p, 1).byte = p.byte
      BY <1>2, <3>2, <3>3, <3>4, SectorsPlaced
    <3>9. Placed(fat', f.start, io')
      BY <2>2, <3>5, <3>7, <3>8
    <3>10. f.size <= op.off + Bps /\ (op.off + Bps) + (op.remain - Bps) = op.goal
      <4>1. f.size <= op.off /\ op.off + op.remain = op.goal /\ f.size \in Nat
        BY <1>1, <3>1, FileFields DEF ZeroFits
      <4> QED
        BY <1>2, <3>4, <4>1
    <3>11. op.ok /\ (op.len > 0 => op.goal = f.cur)
      BY <3>1 DEF ZeroFits
    <3>12. \E j \in Nat : Covers(j, op'.off) /\ Tight(fat', f.start, j)
      BY <2>3, <3>6 DEF Covered
    <3>13. ZeroFits(fat', op', f)
      <4>1. Stands(fat', f.start, op'.pos, op'.off) /\ op'.pos.byte = 0
        BY <2>3, <3>2, <3>5, <3>8
      <4>2. f.size <= op'.off /\ op'.off + op'.remain = op'.goal
        BY <2>3, <3>10
      <4> QED
        BY <2>3, <3>11, <3>12, <4>1, <4>2 DEF ZeroFits
    <3> QED
      BY <3>3, <3>9, <3>13
  <2>5. f' = f
    BY <2>2, <2>3 DEF f
  <2>6. KnowsSize'
    BY <1>0, <2>3, <2>5, KnowsStays DEF PlaceInv
  <2>7. CallFits'
    <3>1. Even(op.h)' <=> Even(k)
      BY <1>k, <2>2, <2>3 DEF Even
    <3> QED
      BY <1>0, <2>3, <2>4, <2>5, <2>6, <3>1 DEF CallFits
  <2>8. \A t \in io' : t.h = k
    BY <1>k, <2>2, TransferOf
  <2>9. IoFits'
    <3>1. CASE Even(k)
      BY <1>1, <1>k, <2>2, <2>4, <2>8, <3>1, PlacedIo
    <3>2. CASE ~Even(k)
      BY <2>2, <2>8, <3>2, UnevenIo DEF Even
    <3> QED
      BY <3>1, <3>2
  <2>10. Lengthens(k)'
    BY <1>k, <2>3 DEF Lengthens, Extending
  <2>11. Keeps(fat, fat', file[k].start) \/ file[k].name \in uneven'
    BY <1>1, <1>k, <2>2, <2>4 DEF Even
  <2>12. astray \subseteq astray' /\ uneven \subseteq uneven' /\ UNCHANGED <<file, dir, loose>>
    BY <1>0, <2>2
  <2> QED
    BY <1>1, <1>k, <1>5, <2>7, <2>9, <2>10, <2>11, <2>12, LengthStep
<1> QED
  BY <1>6, <1>7

LEMMA AdvanceFills ==
  ASSUME TypeInv, f.name \in Name, NEW s, InUse(s), NEW p \in Spot, NEW x \in Nat,
         Stands(fat, s, p, x), NEW q \in Positions, NEW good, Advance(p, q, good)
  PROVE  /\ Keeps(fat, fat', s) /\ q \in Spot
         /\ good => Stands(fat', s, q, x) /\ q.sector < Spc /\ q.byte = p.byte
                    /\ (p.sector < Spc => q = p)
         /\ Fits(fat, s, x) => Fits(fat', s, x) \/ (good /\ Fresh(fat', s, q, x))
         /\ (p.sector < Spc => fat' = fat)
<1>1. x <= x
  OBVIOUS
<1> QED
  BY <1>1, AdvanceStands

\* The last sector of an extension that is not written whole.
LEMMA LastLands ==
  ASSUME TypeInv, f.name \in Name, InUse(f.start), ZeroFits(fat, op, f), op \in Stack, f \in FileStruct,
         op.remain > 0, op.remain < Bps, NEW k,
         NEW q \in Positions, NEW good, good = TRUE, Advance(op.pos, q, good),
         NEW p, p = [q EXCEPT !.byte = op.remain]
  PROVE  /\ ExtendEnds(fat', p) /\ p \in Spot
         /\ Placed(fat', f.start, Transfer(k, OnSector(q), op.off, op.remain))
<1>1. /\ Stands(fat, f.start, op.pos, op.off) /\ op.pos.byte = 0
      /\ Covered(fat, f.start, op.off) \/ Fresh(fat, f.start, op.pos, op.off)
      /\ f.size <= op.off /\ op.off + op.remain = op.goal /\ op.ok /\ (op.len > 0 => op.goal = f.cur)
  BY DEF ZeroFits, Covered
<1>2. op.remain \in Nat /\ op.pos \in Spot /\ op.off \in Nat /\ op.goal \in Nat /\ Bps \in Nat
  BY Sizes3 DEF Stack
<1>3. /\ Keeps(fat, fat', f.start) /\ q \in Spot
      /\ Stands(fat', f.start, q, op.off) /\ q.sector < Spc /\ q.byte = op.pos.byte
      /\ (op.pos.sector < Spc => q = op.pos)
      /\ Fits(fat, f.start, op.off) => Fits(fat', f.start, op.off) \/ Fresh(fat', f.start, q, op.off)
      /\ (op.pos.sector < Spc => fat' = fat)
  <2> DEFINE s == f.start
             x == op.off
             l == op.pos
  <2>1. l \in Spot /\ x \in Nat /\ Stands(fat, s, l, x) /\ InUse(s) /\ Advance(l, q, good) /\ x <= x
    BY <1>1, <1>2
  <2> HIDE DEF s, x, l
  <2>2. /\ Keeps(fat, fat', s) /\ q \in Spot
        /\ good => Stands(fat', s, q, x) /\ q.sector < Spc /\ q.byte = l.byte
                    /\ (l.sector < Spc => q = l)
        /\ Fits(fat, s, x) => Fits(fat', s, x) \/ (good /\ Fresh(fat', s, q, x))
        /\ (l.sector < Spc => fat' = fat)
    BY <2>1, AdvanceFills
  <2> QED
    BY <2>2 DEF s, x, l
<1>4. Fits(fat', f.start, op.off) \/ Fresh(fat', f.start, q, op.off)
  <2>1. CASE Covered(fat, f.start, op.off)
    <3>1. Fits(fat, f.start, op.off) /\ op.off <= op.off
      BY <1>2, <2>1, CoveredFits
    <3> QED
      BY <1>2, <1>3, <3>1
  <2>2. CASE Fresh(fat, f.start, op.pos, op.off)
    <3>1. op.pos.sector < Spc
      BY <2>2, Sizes3 DEF Fresh
    <3> QED
      BY <1>3, <2>2, <3>1
  <2> QED
    BY <1>1, <2>1, <2>2
<1>5. q.byte = 0 /\ q.sector \in Nat /\ q.byte + op.remain < Bps /\ OnSector(q) = q
  <2>1. q.byte = 0 /\ q.sector \in Nat
    BY <1>1, <1>3, SpotFacts
  <2>2. OnSector(q) = q
    BY <1>3, <2>1 DEF OnSector, Spot
  <2> QED
    BY <1>2, <2>1, <2>2
<1>6. p = [q EXCEPT !.byte = @ + op.remain]
  <2>1. q.byte + op.remain = op.remain
    BY <1>2, <1>5
  <2> QED
    BY <2>1
<1>7. Sectors(q.sector) + q.byte + op.remain <= Bpc
  <2>1. Sectors(q.sector) + Bps <= Sectors(Spc) /\ Sectors(q.sector) \in Nat /\ Sectors(Spc) = Bpc
        /\ Bpc \in Nat
    BY <1>3, <1>5, SectorFacts, Sizes3
  <2> QED
    BY <1>2, <1>5, <2>1
<1>8. Stands(fat', f.start, p, op.off + op.remain) /\ p \in Spot
  <2> DEFINE x == op.off
             n == op.remain
  <2>1. /\ x \in Nat /\ n \in Nat /\ q \in Spot /\ Stands(fat', f.start, q, x) /\ q.sector < Spc
        /\ q.byte + n < Bps /\ p = [q EXCEPT !.byte = @ + n]
    BY <1>2, <1>3, <1>5, <1>6
  <2> HIDE DEF x, n
  <2>2. Stands(fat', f.start, p, x + n) /\ p \in Spot
    BY <2>1, StandsByBytes
  <2> QED
    BY <2>2 DEF x, n
<1>9. Fits(fat', f.start, op.off + op.remain)
  <2> DEFINE x == op.off
             n == op.remain
  <2>1. x \in Nat /\ n \in Nat /\ n > 0
    BY <1>2
  <2>2. Most(x, x) = x /\ Most(x, x + n) = x + n /\ x <= x
    BY <2>1 DEF Most
  <2>3. Fits(fat', f.start, Most(x, x)) \/ (Fresh(fat', f.start, q, x) /\ x <= x)
    BY <1>4, <2>2
  <2>4. Sectors(q.sector) + q.byte + n <= Bpc /\ Stands(fat', f.start, q, x)
    BY <1>3, <1>7
  <2> HIDE DEF x, n
  <2>5. Fits(fat', f.start, Most(x, x + n))
    BY <1>3, <2>1, <2>3, <2>4, FilledOn
  <2>6. Fits(fat', f.start, x + n)
    BY <2>2, <2>5
  <2> QED
    BY <2>6 DEF x, n
<1>10. Placed(fat', f.start, Transfer(k, q, op.off, op.remain))
  <2> DEFINE x == op.off
             n == op.remain
  <2>1. x \in Nat /\ n \in Nat /\ Stands(fat', f.start, q, x) /\ Sectors(q.sector) + q.byte + n <= Bpc
    BY <1>2, <1>3, <1>7
  <2> HIDE DEF x, n
  <2>2. Placed(fat', f.start, Transfer(k, q, x, n))
    BY <1>3, <2>1, PlacedWithin
  <2> QED
    BY <2>2 DEF x, n
<1> QED
  BY <1>1, <1>3, <1>5, <1>8, <1>9, <1>10 DEF ExtendEnds

\* _FAT_file_extend_r writes the zeros of the last sector.
LEMMA PlaceOfExtendLast == ASSUME FileInv, ~conflict, PlaceInv, ExtendLast  PROVE PlaceInv'
<1>0. op.pc = "zero" /\ op.remain < Bps /\ UNCHANGED <<dir, loose, astray>> /\ Extending
  BY DEF ExtendLast, At, KeepNotes, Extending
<1>1. /\ TypeInv /\ Shape /\ op.h \in Handle /\ f = file[op.h] /\ f \in FileStruct
      /\ Writer(op.h) /\ f.name \in Name /\ f.start # Free /\ f.start \in Cluster
      /\ InUse(f.start) /\ ~Seeking(op.h) /\ op \in Stack
  BY <1>0, LengthenCall, OpFields
<1>k. PICK k \in Handle : k = op.h
  BY <1>1
<1>2. op.remain \in Nat /\ op.pos \in Spot /\ op.off \in Nat /\ op.len \in Nat /\ op.goal \in Nat
  BY <1>1 DEF Stack
<1>3. On(f.name, op.pos.cluster)
  BY <1>0, OnPosition
<1>4. Even(k) => ZeroFits(fat, op, f)
  BY <1>0, <1>k DEF PlaceInv, CallFits
<1>5. CASE op.remain = 0 /\ Extended(op.pos) /\ NoIo /\ UNCHANGED <<table, uneven, misled>>
  <2>1. Spares(k) /\ fat' = fat /\ uneven' = uneven
    BY <1>5, TableKept DEF table
  <2>2. Even(k) => ExtendEnds(fat', op.pos)
    <3> SUFFICES ASSUME Even(k)  PROVE ExtendEnds(fat', op.pos)
      OBVIOUS
    <3>1. /\ Stands(fat, f.start, op.pos, op.off) /\ op.off + op.remain = op.goal /\ op.ok
          /\ Covered(fat, f.start, op.off) /\ (op.len > 0 => op.goal = f.cur)
      BY <1>4, <1>5, <1>2 DEF ZeroFits, Covered
    <3>2. op.off = op.goal
      BY <1>2, <1>5, <3>1
    <3>3. Fits(fat, f.start, op.goal) /\ Keeps(fat, fat', f.start)
      BY <2>1, <3>1, <3>2, CoveredFits, SameTable
    <3> QED
      BY <2>1, <3>1, <3>2, <3>3 DEF ExtendEnds
  <2>3. (\A t \in io' : t.h = k) /\ Placed(fat', f.start, io')
    BY <1>5, PlacedNothing DEF NoIo
  <2> QED
    BY <1>0, <1>2, <1>5, <1>k, <2>1, <2>2, <2>3, ExtendedStep
<1>6. CASE /\ op.remain > 0
           /\ \E q \in Positions, good \in BOOLEAN :
                /\ Advance(op.pos, q, good)
                /\ IF good
                   THEN /\ Extended([q EXCEPT !.byte = op.remain])
                        /\ io' = Transfer(op.h, OnSector(q), op.off, op.remain)
                        /\ UNCHANGED <<uneven, misled>>
                   ELSE ExtendFailed
  <2>1. PICK q \in Positions, good \in BOOLEAN :
                /\ Advance(op.pos, q, good)
                /\ IF good
                   THEN /\ Extended([q EXCEPT !.byte = op.remain])
                        /\ io' = Transfer(op.h, OnSector(q), op.off, op.remain)
                        /\ UNCHANGED <<uneven, misled>>
                   ELSE ExtendFailed
    BY <1>6
  <2>2. Spares(k)
    BY <1>1, <1>3, <1>k, <2>1, SparesAdvance
  <2>3. CASE ~good
    <3>1. ExtendFailed
      BY <2>1, <2>3
    <3> QED
      BY <1>0, <1>k, <2>2, <3>1, FailedStep
  <2>4. CASE good
    <3>1. PICK p : p = [q EXCEPT !.byte = op.remain]
      OBVIOUS
    <3>2. Extended(p) /\ io' = Transfer(k, OnSector(q), op.off, op.remain) /\ uneven' = uneven
      BY <1>k, <2>1, <2>4, <3>1
    <3>3. p \in Spot
      <4>1. op.remain \in 0 .. Bps - 1
        BY <1>0, <1>2, Sizes3
      <4> QED
        BY <3>1, <4>1, Sizes3 DEF Positions, Spot
    <3>4. Even(k) => ExtendEnds(fat', p) /\ Placed(fat', f.start, io')
      <4> SUFFICES ASSUME Even(k)  PROVE ExtendEnds(fat', p) /\ Placed(fat', f.start, io')
        OBVIOUS
      <4>1. good = TRUE
        BY <2>4
      <4>2. /\ ExtendEnds(fat', p)
            /\ Placed(fat', f.start, Transfer(k, OnSector(q), op.off, op.remain))
        BY <1>0, <1>1, <1>4, <1>6, <2>1, <3>1, <4>1, LastLands
      <4> QED
        BY <3>2, <4>2
    <3>5. \A t \in io' : t.h = k
      BY <3>2, TransferOf
    <3> QED
      BY <1>0, <1>k, <2>2, <3>2, <3>3, <3>4, <3>5, ExtendedStep
  <2> QED
    BY <2>3, <2>4
<1> QED
  BY <1>5, <1>6 DEF ExtendLast

LEMMA NotBeyond ==
  ASSUME TypeInv, NEW n, NEW got, LinkFree(Beyond, n, got)
  PROVE  ~IsValid(got)
<1>1. ~(Beyond <= Last)
  BY Constants
<1> QED
  BY <1>1, Outside DEF LinkFree, IsValid

LEMMA EdgeLands ==
  ASSUME TypeInv, NEW n \in Name, NEW s, InUse(s), NEW r \in Nat, NEW c, Reaches(fat, s, r, c),
         Ends(NextOf(c)), NEW x \in Nat, x > 0, x % Bpc = 0, Fits(fat, s, x),
         NEW got, LinkFree(c, n, got), IsValid(got),
         NEW p \in Spot, p.cluster = got, p.sector = 0, p.byte = 0
  PROVE  Keeps(fat, fat', s) /\ Stands(fat', s, p, x) /\ Fresh(fat', s, p, x)
<1>1. (c = Beyond \/ Ends(fat[c])) /\ Tight(fat, s, r + 1) /\ r + 1 \in Nat
  BY EndReached
<1>2. PICK j \in Nat : x = Clusters(j)
  <2>1. x \div Bpc \in Nat /\ x = Clusters(x \div Bpc) + (x % Bpc) /\ Clusters(x \div Bpc) \in Nat
    BY ClustersOf, ClusterFacts
  <2>2. x = Clusters(x \div Bpc)
    BY <2>1
  <2> QED
    BY <2>1, <2>2
<1>3. PICK k \in Nat : Covers(k, x) /\ (Tight(fat, s, k) \/ (x = Clusters(k) /\ Reaches(fat, s, k, Beyond)))
  BY DEF Fits
<1>4. k = j
  <2>1. Covers(j, x)
    BY <1>2, Sizes3 DEF Covers
  <2> QED
    BY <1>3, <2>1, CoversOne
<1>5. Tight(fat, s, j)
  <2> SUFFICES ASSUME Reaches(fat, s, j, Beyond)  PROVE FALSE
    BY <1>3, <1>4
  <2>1. Tight(fat, s, j + 1)
    BY TightAt
  <2>2. r + 1 = j + 1
    BY <1>1, <2>1, TightOne
  <2>3. r = j
    BY <2>2
  <2>4. c = Beyond
    BY <2>3, ReachesOne
  <2> QED
    BY <2>4, NotBeyond
<1>6. r + 1 = j
  BY <1>1, <1>5, TightOne
<1>7. c = Beyond \/ (fat[c] # Free /\ Ends(fat[c]))
  <2>1. c \in Cluster \cup {Beyond}
    BY ReachesType
  <2> QED
    BY <1>1, <2>1 DEF InUse
<1>8. Keeps(fat, fat', s) /\ Reaches(fat', s, r + 1, got) /\ Tight(fat', s, r + 1 + 1)
  BY <1>7, LinkOwn DEF IsValid
<1>9. Reaches(fat', s, j, p.cluster) /\ Tight(fat', s, j + 1)
  BY <1>6, <1>8
<1>10. Stands(fat', s, p, x)
  BY <1>2, <1>9, StandsAtHead
<1> QED
  BY <1>2, <1>8, <1>9, <1>10 DEF Fresh

LEMMA MidLands ==
  ASSUME TypeInv, NEW s \in Cluster, NEW r \in Nat, NEW c, Reaches(fat, s, r, c),
         Ends(NextOf(c)), NEW x \in Nat, x = 0 \/ x % Bpc # 0,
         Fits(fat, s, x) \/ (x = 0 /\ Tight(fat, s, 1)),
         NEW p \in Spot, p.cluster = c, p.sector = (x % Bpc) \div Bps, p.byte = x % Bps
  PROVE  Stands(fat, s, p, x) /\ (Covered(fat, s, x) \/ Fresh(fat, s, p, x))
<1>1. Tight(fat, s, r + 1) /\ r + 1 \in Nat
  BY EndReached
<1>2. CASE x = 0
  <2>1. Tight(fat, s, 1)
    <3>1. ASSUME Fits(fat, s, 0)  PROVE FALSE
      <4>1. s # Beyond /\ ~Ends(s)
        BY EndsLinks, Outside
      <4> QED
        BY <3>1, <4>1, FitsNothing
    <3> QED
      BY <1>2, <3>1
  <2>2. r = 0
    <3>1. r + 1 = 1
      BY <1>1, <2>1, TightOne
    <3> QED
      BY <3>1
  <2>3. x = Clusters(0) /\ Clusters(0) = 0 /\ Clusters(0) % Bpc = 0 /\ Clusters(0) \div Bpc = 0 /\ Clusters(0) % Bps = 0
    BY <1>2, ClusterFacts, EdgeRest
  <2>4. p.byte = 0 /\ x \div Bpc = 0
    BY <2>3
  <2>5. p.sector = 0
    <3>1. /\ p.sector \in Nat /\ x % Bpc = Sectors(p.sector) + (x % Bps)
      BY Parts
    <3>2. Sectors(p.sector) = 0 \/ ~(Sectors(p.sector) \in Nat)
      BY <2>3, <3>1
    <3>3. Sectors(p.sector) \in Nat /\ (0 < p.sector => Sectors(0) + Bps <= Sectors(p.sector))
          /\ Sectors(0) = 0
      BY <3>1, SectorFacts
    <3>4. Bps \in Nat /\ Bps > 0
      BY Sizes3
    <3> QED
      BY <3>1, <3>2, <3>3, <3>4
  <2>6. Reaches(fat, s, x \div Bpc, p.cluster)
    BY <2>2, <2>4
  <2>7. Stands(fat, s, p, x)
    BY <2>6, StandsAt
  <2>8. 0 + 1 = 1 /\ 0 \in Nat
    OBVIOUS
  <2> QED
    BY <2>1, <2>3, <2>4, <2>5, <2>7, <2>8 DEF Fresh
<1>3. CASE x # 0
  <2>1. PICK k \in Nat : Covers(k, x) /\ (Tight(fat, s, k) \/ (x = Clusters(k) /\ Reaches(fat, s, k, Beyond)))
    BY <1>3 DEF Fits
  <2>2. x # Clusters(k) /\ x % Bpc # 0
    BY <1>3, EdgeRest
  <2>3. k # 0
    <3>1. Clusters(0) = 0 /\ x <= Clusters(k)
      BY <2>1, ClusterFacts DEF Covers
    <3> QED
      BY <1>3, <3>1
  <2>4. PICK i \in Nat : k = i + 1
    <3>1. k - 1 \in Nat /\ k = (k - 1) + 1
      BY <2>3
    <3> QED
      BY <3>1
  <2>5. x \div Bpc = i
    <3>1. x # Clusters(i)
      BY <1>3, <2>2, EdgeRest
    <3>2. Covers(i + 1, x) /\ x # Clusters(i + 1)
      BY <2>1, <2>2, <2>4
    <3> QED
      BY <3>1, <3>2, CoversQuotient
  <2>6. Tight(fat, s, k) /\ r + 1 = k
    BY <1>1, <2>1, <2>2, TightOne
  <2>7. r = i
    BY <2>4, <2>6
  <2>8. Reaches(fat, s, x \div Bpc, p.cluster)
    BY <2>5, <2>7
  <2>9. Stands(fat, s, p, x)
    BY <2>8, StandsAt
  <2> QED
    BY <2>1, <2>6, <2>9 DEF Covered
<1> QED
  BY <1>2, <1>3

LEMMA FirstLands ==
  ASSUME TypeInv, f.name \in Name, InUse(f.start), f.start \in Cluster, ExtendWalk(fat, op, f),
         Ends(NextOf(op.tip)), f.size \in Nat, op.tip \in Link,
         NEW q, q = Position(op.tip, (f.size % Bpc) \div Bps, f.size % Bps),
         NEW atEdge, atEdge <=> (f.size > 0 /\ q.sector = 0 /\ q.byte = 0), NEW got,
         IF atEdge THEN LinkFree(op.tip, f.name, got) ELSE got = op.tip /\ UNCHANGED table,
         ~(atEdge /\ ~IsValid(got)), NEW p, p = [q EXCEPT !.cluster = got]
  PROVE  Landed(fat', p, f.size)
<1> DEFINE s == f.start
           x == f.size
<1>1. PICK r \in Nat : Reaches(fat, s, r, op.tip)
  BY DEF ExtendWalk
<1>2. Fits(fat, s, x) \/ (x = 0 /\ Tight(fat, s, 1))
  BY DEF ExtendWalk
<1>3. /\ x \in Nat /\ s \in Cluster
      /\ (x % Bpc) \div Bps \in Nat /\ x % Bps \in Nat
      /\ (x % Bpc) \div Bps < Spc /\ x % Bps \in 0 .. Bps - 1
      /\ x % Bpc = Sectors((x % Bpc) \div Bps) + (x % Bps)
  BY Parts
<1>4. q.cluster = op.tip /\ q.sector = (x % Bpc) \div Bps /\ q.byte = x % Bps
  BY DEF Position
<1>5. p = Position(got, (x % Bpc) \div Bps, x % Bps)
  BY DEF Position
<1>6. p.cluster = got /\ p.sector = (x % Bpc) \div Bps /\ p.byte = x % Bps
  BY <1>5 DEF Position
<1> HIDE DEF s, x
<1>7. got \in Link => p \in Spot
  BY <1>3, <1>5 DEF Position, Spot
<1>8. CASE atEdge
  <2>1. x > 0 /\ p.sector = 0 /\ p.byte = 0
    BY <1>4, <1>6, <1>8 DEF x
  <2>2. x % Bpc = 0
    <3>1. Sectors(0) = 0
      BY SectorFacts
    <3> QED
      BY <1>3, <1>6, <2>1, <3>1
  <2>3. Fits(fat, s, x)
    BY <1>2, <2>1
  <2>4. LinkFree(op.tip, f.name, got) /\ IsValid(got) /\ InUse(s)
    BY <1>8 DEF s
  <2>5. p \in Spot
    BY <1>7, <2>4 DEF IsValid, Link
  <2>6. Keeps(fat, fat', s) /\ Stands(fat', s, p, x) /\ Fresh(fat', s, p, x)
    BY <1>1, <1>3, <1>6, <2>1, <2>2, <2>3, <2>4, <2>5, EdgeLands
  <2> QED
    BY <2>1, <2>5, <2>6, Sizes3 DEF Landed, s, x
<1>9. CASE ~atEdge
  <2>1. got = op.tip /\ fat' = fat /\ p \in Spot
    BY <1>7, <1>9 DEF table
  <2>2. x = 0 \/ x % Bpc # 0
    <3> SUFFICES ASSUME x # 0, x % Bpc = 0  PROVE FALSE
      OBVIOUS
    <3>1. x > 0 /\ ~(p.sector = 0 /\ p.byte = 0)
      BY <1>3, <1>4, <1>6, <1>9 DEF x
    <3>a. p.sector \in Nat /\ p.byte \in Nat
      BY <1>3, <1>6, Sizes3
    <3>2. Sectors(p.sector) \in Nat /\ p.byte \in Nat /\ p.sector \in Nat
          /\ (0 < p.sector => Sectors(0) + Bps <= Sectors(p.sector)) /\ Sectors(0) = 0
      BY <3>a, SectorFacts
    <3>3. Sectors(p.sector) + p.byte = 0
      BY <1>3, <1>6
    <3>4. Bps \in Nat /\ Bps > 0
      BY Sizes3
    <3> QED
      BY <3>1, <3>2, <3>3, <3>4
  <2>3. Stands(fat, s, p, x) /\ (Covered(fat, s, x) \/ Fresh(fat, s, p, x))
    BY <1>1, <1>2, <1>3, <1>6, <2>1, <2>2, MidLands
  <2>4. Keeps(fat, fat', s) /\ p.sector < Spc
    BY <1>3, <1>6, <2>1, SameTable
  <2> QED
    BY <2>1, <2>3, <2>4 DEF Landed, s, x
<1> QED
  BY <1>8, <1>9

\* What the first step of an extension fills of the last sector: all of the
\* extension, or the rest of the sector.
FirstAll(t, s, p, e, x, n, k) ==
  /\ Stands(t, s, e, x + n) /\ e \in Spot /\ Covered(t, s, x + n)
  /\ Placed(t, s, Transfer(k, p, x, n))

LEMMA FirstFills ==
  ASSUME NEW t, NEW s, NEW k, NEW p \in Spot, NEW x \in Nat, Stands(t, s, p, x), p.sector < Spc,
         Covered(t, s, x) \/ Fresh(t, s, p, x), NEW n \in Nat, n > 0, p.byte + n < Bps,
         NEW e, e = [p EXCEPT !.byte = @ + n]
  PROVE  FirstAll(t, s, p, e, x, n, k)
<1>1. p.sector \in Nat /\ p.byte \in Nat /\ Sectors(p.sector) \in Nat
  BY SpotFacts
<1>2. Sectors(p.sector) + p.byte + n <= Bpc
  <2>1. Sectors(p.sector) + Bps <= Sectors(Spc) /\ Sectors(Spc) = Bpc /\ Bpc \in Nat /\ Bps \in Nat
    BY <1>1, SectorFacts, Sizes3
  <2> QED
    BY <1>1, <2>1
<1>3. Covered(t, s, x + n)
  BY <1>2, CoverGrows
<1>4. Stands(t, s, [p EXCEPT !.byte = @ + n], x + n) /\ [p EXCEPT !.byte = @ + n] \in Spot
  BY StandsByBytes
<1>5. Placed(t, s, Transfer(k, p, x, n))
  BY <1>2, PlacedWithin
<1> QED
  BY <1>3, <1>4, <1>5 DEF FirstAll

FirstRest(t, s, p, x, n, k) ==
  /\ n \in Nat /\ Stands(t, s, After(p, n), x + n) /\ After(p, n).byte = 0
  /\ Covered(t, s, x + n) \/ (n = 0 /\ Fresh(t, s, After(p, n), x + n))
  /\ Placed(t, s, Transfer(k, p, x, n)) /\ (n > 0 => p.byte > 0 /\ n = Bps - p.byte)

LEMMA FirstBegins ==
  ASSUME NEW t, NEW s, NEW k, NEW p \in Spot, NEW x \in Nat, Stands(t, s, p, x), p.sector < Spc,
         Covered(t, s, x) \/ Fresh(t, s, p, x), NEW n, n = IF p.byte > 0 THEN Bps - p.byte ELSE 0
  PROVE  FirstRest(t, s, p, x, n, k)
<1>1. p.sector \in Nat /\ p.byte \in Nat /\ p.byte < Bps /\ Sectors(p.sector) \in Nat /\ Bps \in Nat
  BY SpotFacts, Sizes3
<1>2. n \in Nat /\ n <= Bps - p.byte /\ (n > 0 => p.byte > 0 /\ n = Bps - p.byte)
      /\ (n > 0 \/ (n = 0 /\ p.byte = 0))
  BY <1>1
<1>3. Sectors(p.sector) + p.byte + n <= Bpc
  <2>1. Sectors(p.sector) + Bps <= Sectors(Spc) /\ Sectors(Spc) = Bpc /\ Bpc \in Nat /\ Spc \in Nat
    BY <1>1, SectorFacts, Sizes3
  <2> QED
    BY <1>1, <1>2, <2>1
<1>4. Stands(t, s, After(p, n), x + n)
  BY <1>2, StandsAfter
<1>5. Placed(t, s, Transfer(k, p, x, n))
  BY <1>2, <1>3, PlacedWithin
<1>6. CASE n > 0
  <2>1. p.byte + n >= Bps
    BY <1>1, <1>2, <1>6
  <2>2. After(p, n).byte = 0
    BY <2>1 DEF After, Position
  <2>3. Covered(t, s, x + n)
    BY <1>2, <1>3, <1>6, CoverGrows
  <2> QED
    BY <1>2, <1>4, <1>5, <2>2, <2>3 DEF FirstRest
<1>7. CASE n = 0
  <2>1. p.byte = 0 /\ x + n = x
    BY <1>2, <1>7
  <2>2. p.byte + n = 0 /\ ~(p.byte + n >= Bps)
    BY <1>1, <1>7, <2>1
  <2>3. After(p, n) = p
    <3>1. After(p, n) = Position(p.cluster, p.sector, 0)
      BY <2>2 DEF After
    <3> QED
      BY <2>1, <3>1 DEF Position, Spot
  <2> QED
    BY <1>2, <1>4, <1>5, <1>7, <2>1, <2>3 DEF FirstRest
<1> QED
  BY <1>2, <1>6, <1>7

\* _FAT_file_extend_r: the end of the chain is found, the first sector is filled up.
LEMMA PlaceOfExtendFirst == ASSUME FileInv, ~conflict, PlaceInv, ExtendFirst  PROVE PlaceInv'
<1>0. op.pc = "walk" /\ op.then = "extend" /\ ~MoreToWalk /\ UNCHANGED <<dir, loose, astray>> /\ Extending
  BY DEF ExtendFirst, Walked, At, KeepNotes, Extending
<1>1. /\ TypeInv /\ Shape /\ op.h \in Handle /\ f = file[op.h] /\ f \in FileStruct
      /\ Writer(op.h) /\ f.name \in Name /\ f.start # Free /\ f.start \in Cluster
      /\ InUse(f.start) /\ ~Seeking(op.h) /\ op \in Stack
  BY <1>0, LengthenCall, OpFields
<1>k. PICK k \in Handle : k = op.h
  BY <1>1
<1>2. op.tip \in Link /\ op.len \in Nat /\ op.goal \in Nat /\ f.size \in Nat /\ f.cur \in Nat
  BY <1>1, FileFields DEF Stack
<1>3. On(f.name, op.tip)
  BY <1>0, Peaceful DEF CallOn, WalkOn
<1>4. Even(k) => ExtendWalk(fat, op, f)
  BY <1>0, <1>k DEF PlaceInv, CallFits, WalkFits
<1>5. Ends(NextOf(op.tip))
  BY <1>0 DEF MoreToWalk, ToTheEnd
<1> DEFINE gap == op.goal - f.size
           q == Position(op.tip, (f.size % Bpc) \div Bps, f.size % Bps)
           atEdge == f.size > 0 /\ q.sector = 0 /\ q.byte = 0
           first == IF q.byte > 0 THEN Bps - q.byte ELSE 0
<1>6. PICK got \in Link \cup Results :
       LET p == [q EXCEPT !.cluster = got] IN
       /\ IF atEdge THEN LinkFree(op.tip, f.name, got) ELSE got = op.tip /\ UNCHANGED table
       /\ \/ atEdge /\ ~IsValid(got) /\ ExtendFailed
          \/ /\ ~(atEdge /\ ~IsValid(got)) /\ gap + q.byte < Bps
             /\ Extended([p EXCEPT !.byte = @ + gap])
             /\ io' = Transfer(op.h, p, f.size, gap) /\ UNCHANGED <<uneven, misled>>
          \/ /\ ~(atEdge /\ ~IsValid(got)) /\ gap + q.byte >= Bps
             /\ op' = [op EXCEPT !.pc = "zero", !.pos = After(p, first),
                         !.remain = gap - first, !.off = f.size + first]
             /\ io' = Transfer(op.h, p, f.size, first) /\ UNCHANGED <<file, uneven, misled>>
  BY DEF ExtendFirst
<1> DEFINE p == [q EXCEPT !.cluster = got]
<1>7. Spares(k)
  <2>1. CASE atEdge
    <3>1. LinkFree(op.tip, f.name, got)
      BY <1>6, <2>1
    <3> QED
      BY <1>1, <1>k, <1>3, <3>1, SparesLinked
  <2>2. CASE ~atEdge
    <3>1. fat' = fat
      BY <1>6, <2>2 DEF table
    <3> QED
      BY <3>1, TableKept
  <2> QED
    BY <2>1, <2>2
<1>8. p.byte = q.byte /\ p.sector = q.sector /\ q.byte = f.size % Bps
      /\ p = Position(got, (f.size % Bpc) \div Bps, f.size % Bps)
  BY DEF Position
<1>a. q.byte \in Nat /\ q.byte \in 0 .. Bps - 1 /\ (f.size % Bpc) \div Bps \in Nat /\ Bps \in Nat
  BY <1>2, <1>8, Parts, Sizes3
<1>9. CASE atEdge /\ ~IsValid(got) /\ ExtendFailed
  BY <1>0, <1>k, <1>7, <1>9, FailedStep
<1>10. ASSUME Even(k), ~(atEdge /\ ~IsValid(got))  PROVE Landed(fat', p, f.size) /\ gap \in Nat /\ gap > 0
  <2>1. ExtendWalk(fat, op, f)
    BY <1>4, <1>10
  <2>2. gap \in Nat /\ gap > 0
    BY <1>2, <2>1 DEF ExtendWalk
  <2>3. /\ q = Position(op.tip, (f.size % Bpc) \div Bps, f.size % Bps)
        /\ p = [q EXCEPT !.cluster = got]
        /\ atEdge <=> (f.size > 0 /\ q.sector = 0 /\ q.byte = 0)
        /\ IF atEdge THEN LinkFree(op.tip, f.name, got) ELSE got = op.tip /\ UNCHANGED table
    BY <1>6
  <2> HIDE DEF p, q, atEdge
  <2>4. Landed(fat', p, f.size)
    BY <1>1, <1>2, <1>5, <1>10, <2>1, <2>3, FirstLands
  <2> QED
    BY <2>2, <2>4
<1>11. CASE /\ ~(atEdge /\ ~IsValid(got)) /\ gap + q.byte < Bps
            /\ Extended([p EXCEPT !.byte = @ + gap])
            /\ io' = Transfer(op.h, p, f.size, gap) /\ UNCHANGED <<uneven, misled>>
  <2>1. PICK e : e = [p EXCEPT !.byte = @ + gap]
    OBVIOUS
  <2>2. Extended(e) /\ io' = Transfer(k, p, f.size, gap) /\ uneven' = uneven
    BY <1>k, <1>11, <2>1
  <2>3. Even(k) => ExtendEnds(fat', e) /\ Placed(fat', f.start, io')
    <3> SUFFICES ASSUME Even(k)  PROVE ExtendEnds(fat', e) /\ Placed(fat', f.start, io')
      OBVIOUS
    <3>1. Landed(fat', p, f.size) /\ gap \in Nat /\ gap > 0 /\ p.byte + gap < Bps
          /\ f.size + gap = op.goal
      BY <1>a, <1>2, <1>8, <1>10, <1>11
    <3> DEFINE s == f.start
               x == f.size
               n == gap
    <3>2. x \in Nat /\ n \in Nat /\ n > 0 /\ p.byte + n < Bps /\ e = [p EXCEPT !.byte = @ + n]
          /\ Keeps(fat, fat', s) /\ p \in Spot /\ p.sector < Spc /\ Stands(fat', s, p, x)
          /\ (Covered(fat', s, x) \/ Fresh(fat', s, p, x))
      BY <1>2, <2>1, <3>1 DEF Landed
    <3> HIDE DEF s, x, n, p, q
    <3>3. FirstAll(fat', s, p, e, x, n, k)
      BY <3>2, FirstFills
    <3>4. x + n = op.goal /\ io' = Transfer(k, p, x, n)
      BY <2>2, <3>1 DEF x, n
    <3>5. Stands(fat', s, e, op.goal) /\ Fits(fat', s, op.goal) /\ Placed(fat', s, io')
      BY <3>3, <3>4, CoveredFits DEF FirstAll
    <3>6. op.ok /\ (op.len > 0 => op.goal = f.cur)
      BY <1>4 DEF ExtendWalk
    <3> QED
      BY <3>2, <3>5, <3>6 DEF ExtendEnds, s
  <2>4. e \in Spot
    <3>1. e = Position(got, (f.size % Bpc) \div Bps, q.byte + gap)
      BY <1>8, <2>1 DEF Position
    <3>2. got \in Link
      <4>1. CASE atEdge
        BY <1>11, <4>1 DEF IsValid, Link
      <4>2. CASE ~atEdge
        BY <1>2, <1>6, <4>2
      <4> QED
        BY <4>1, <4>2
    <3>3. q.byte + gap \in 0 .. Bps - 1
      <4>1. op.goal > f.size
        BY <1>0, <1>1, ExtendingCall
      <4> QED
        BY <1>a, <1>2, <1>11, <4>1
    <3> QED
      BY <1>a, <3>1, <3>2, <3>3 DEF Position, Spot
  <2>5. \A t \in io' : t.h = k
    <3> HIDE DEF p, gap
    <3> QED
      BY <2>2, TransferOf
  <2> QED
    BY <1>0, <1>k, <1>7, <2>2, <2>3, <2>4, <2>5, ExtendedStep
<1>12. CASE /\ ~(atEdge /\ ~IsValid(got)) /\ gap + q.byte >= Bps
            /\ op' = [op EXCEPT !.pc = "zero", !.pos = After(p, first),
                        !.remain = gap - first, !.off = f.size + first]
            /\ io' = Transfer(op.h, p, f.size, first) /\ UNCHANGED <<file, uneven, misled>>
  <2>1. /\ op'.pc = "zero" /\ op'.h = op.h /\ op'.len = op.len /\ op'.ok = op.ok /\ op'.goal = op.goal
        /\ op'.pos = After(p, first) /\ op'.remain = gap - first /\ op'.off = f.size + first
    <3> HIDE DEF p, q, first, gap
    <3> QED
      BY <1>1, <1>12 DEF Stack
  <2>2. io' = Transfer(k, p, f.size, first) /\ uneven' = uneven /\ file' = file
    BY <1>k, <1>12
  <2>3. ASSUME Even(k)
        PROVE  /\ Keeps(fat, fat', f.start) /\ Placed(fat', f.start, io')
               /\ ZeroFits(fat', op', f)
    <3>1. Landed(fat', p, f.size) /\ gap \in Nat /\ gap > 0 /\ f.size + gap = op.goal
          /\ gap + p.byte >= Bps
      BY <1>a, <1>2, <1>8, <1>10, <1>12, <2>3
    <3> DEFINE s == f.start
               x == f.size
               n == first
    <3>2. x \in Nat /\ n = (IF p.byte > 0 THEN Bps - p.byte ELSE 0)
          /\ Keeps(fat, fat', s) /\ p \in Spot /\ p.sector < Spc /\ Stands(fat', s, p, x)
          /\ (Covered(fat', s, x) \/ Fresh(fat', s, p, x))
      BY <1>2, <1>8, <3>1 DEF Landed
    <3>3. io' = Transfer(k, p, x, n) /\ op'.pos = After(p, n) /\ op'.remain = gap - n
          /\ op'.off = x + n
      BY <2>1, <2>2
    <3>a. x + gap = op.goal /\ gap \in Nat /\ gap > 0
      BY <3>1
    <3> HIDE DEF s, x, n, p, q, gap
    <3>4. FirstRest(fat', s, p, x, n, k)
      BY <3>2, FirstBegins
    <3>5. /\ n \in Nat /\ Stands(fat', s, After(p, n), x + n) /\ After(p, n).byte = 0
          /\ Covered(fat', s, x + n) \/ (n = 0 /\ Fresh(fat', s, After(p, n), x + n))
          /\ Placed(fat', s, Transfer(k, p, x, n))
      BY <3>4 DEF FirstRest
    <3>6. op.ok /\ (op.len > 0 => op.goal = f.cur)
      BY <1>4, <2>3 DEF ExtendWalk
    <3>7. x <= op'.off /\ op'.off + op'.remain = op'.goal /\ (n = 0 => op'.remain > 0)
      BY <2>1, <3>a, <3>2, <3>3, <3>5
    <3>8. \/ \E j \in Nat : Covers(j, op'.off) /\ Tight(fat', s, j)
          \/ Fresh(fat', s, op'.pos, op'.off) /\ op'.remain > 0
      BY <3>3, <3>5, <3>7 DEF Covered
    <3>9. ZeroFits(fat', op', f)
      <4>1. Stands(fat', s, op'.pos, op'.off) /\ op'.pos.byte = 0
        BY <3>3, <3>5
      <4> QED
        BY <2>1, <3>6, <3>7, <3>8, <4>1 DEF ZeroFits, s, x
    <3> QED
      BY <3>2, <3>3, <3>5, <3>9 DEF s
  <2> HIDE DEF p, q, first, gap
  <2>5. f' = f
    BY <2>2, <2>1 DEF f
  <2>6. KnowsSize'
    BY <1>0, <2>1, <2>5, KnowsStays DEF PlaceInv
  <2>7. CallFits'
    <3>1. Even(op.h)' <=> Even(k)
      BY <1>k, <2>2, <2>1 DEF Even
    <3> QED
      BY <2>1, <2>3, <2>5, <2>6, <3>1 DEF CallFits
  <2>8. \A t \in io' : t.h = k
    BY <2>2, TransferOf
  <2>9. IoFits'
    <3>1. CASE Even(k)
      BY <1>1, <1>k, <2>2, <2>3, <2>8, <3>1, PlacedIo
    <3>2. CASE ~Even(k)
      BY <2>2, <2>8, <3>2, UnevenIo DEF Even
    <3> QED
      BY <3>1, <3>2
  <2>10. Lengthens(k)'
    BY <1>k, <2>1 DEF Lengthens, Extending
  <2>11. Keeps(fat, fat', file[k].start) \/ file[k].name \in uneven'
    BY <1>1, <1>k, <2>2, <2>3 DEF Even
  <2>12. astray \subseteq astray' /\ uneven \subseteq uneven' /\ UNCHANGED <<file, dir, loose>>
    BY <1>0, <2>2
  <2> QED
    BY <1>1, <1>k, <1>7, <2>7, <2>9, <2>10, <2>11, <2>12, LengthStep
<1> HIDE DEF p, q, atEdge, gap, first
<1> QED
  BY <1>6, <1>9, <1>11, <1>12 DEF p

-----------------------------------------------------------------------------
(***************************************************************************)
(* The calls that are one step, the openings and the freeing of chains.    *)
(***************************************************************************)
\* Steps that leave the table and end, or begin, without a call.
LEMMA QuietStep ==
  ASSUME \A h \in Handle : HandleFits(h)', \A n \in Name : EntryFits(n)', Firm',
         op'.pc \in {"idle", "clear"}, NoIo
  PROVE  PlaceInv'
BY IdleFits, NoIoFits DEF PlaceInv

LEMMA NoFollower ==
  ASSUME NEW h \in Handle, ~(file'[h].inUse)
  PROVE  HandleFits(h)'
BY DEF HandleFits, SizeFits, Follows, RwStands, ApStands, Writer, Follower, Sure

LEMMA AwayStays ==
  ASSUME NEW h \in Handle, op.pc \in {"idle", "clear"} \/ op.h # h
  PROVE  StillAway(h)
BY IdleIsAway DEF StillAway, Away

\* _FAT_statvfs_r counts the free clusters and moves no file.
LEMMA PlaceOfStatvfs == ASSUME FileInv, ~conflict, PlaceInv, Statvfs  PROVE PlaceInv'
<1>1. op.pc = "idle" /\ op' = op /\ UNCHANGED <<fat, dir, file, loose, astray, uneven>> /\ NoIo
  BY DEF Statvfs, Call, notes
<1>2. ASSUME NEW h \in Handle  PROVE HandleFits(h)'
  <2>1. Same(h) /\ StillAway(h) /\ Remembers
    BY <1>1, AwayStays DEF Same, Remembers
  <2>2. SameWriter(h) /\ (Follower(h) => SameFollower(h))
    <3>1. KeepsAll(file[h].start)
      BY <1>1, SameTable DEF KeepsAll
    <3> QED
      BY <1>1, <3>1 DEF SameWriter, SameFollower, KeepsAll, Follower, Follows, HandleFits, PlaceInv,
         Writer
  <2> QED
    BY <2>1, <2>2, HandleKept DEF PlaceInv
<1>3. ASSUME NEW n \in Name  PROVE EntryFits(n)'
  BY <1>1 DEF EntryFits, Unwritten, Writer, PlaceInv
<1>4. Firm'
  BY <1>1 DEF Firm, PlaceInv
<1> QED
  BY <1>1, <1>2, <1>3, <1>4, QuietStep

\* _FAT_ftruncate_r to the size the file has.
LEMMA PlaceOfSameSize ==
  ASSUME FileInv, ~conflict, PlaceInv, NEW k \in Handle, SameSize(k)
  PROVE  PlaceInv'
<1>1. /\ op.pc = "idle" /\ op' = op /\ NoIo /\ UNCHANGED <<fat, dir, loose, astray, uneven>>
      /\ Becomes(k, [file[k] EXCEPT !.modified = TRUE]) /\ Writer(k)
  BY DEF SameSize, Call, notes, table, Writer
<1>2. TypeInv /\ Shape /\ file[k] \in FileStruct
  BY Peaceful, StartType
<1>3. PICK g : g = [file[k] EXCEPT !.modified = TRUE]
  OBVIOUS
<1>4. /\ g.inUse = file[k].inUse /\ g.write = file[k].write /\ g.name = file[k].name
      /\ g.start = file[k].start /\ g.append = file[k].append /\ g.size = file[k].size
      /\ g.cur = file[k].cur /\ g.rw = file[k].rw /\ g.ap = file[k].ap /\ g.modified = TRUE
  BY <1>2, <1>3 DEF FileStruct
<1>5. SameNames /\ file'[k] = g /\ \A j \in Handle \ {k} : file'[j] = file[j]
  BY <1>1, <1>2, <1>3, <1>4, NamesKept
<1>6. Acts(k)
  BY <1>1, <1>4, <1>5, TableKept DEF Acts, Same, Remembers
<1>7. HandleFits(k)'
  <2>0. HandleFits(k) /\ ~Lengthens(k) /\ ~Seeking(k) /\ ~Opening(k)
    BY <1>1, IdleIsAway DEF PlaceInv, Away
  <2>1. SizeFits(k)'
    BY <1>1, <1>4, <1>5, <2>0 DEF HandleFits, SizeFits, Even
  <2>2. Follows(k)'
    BY <1>1, <1>4, <1>5 DEF Follows, Follower, Writer
  <2>3. RwStands(k)'
    BY <1>1, <1>4, <1>5, <2>0 DEF HandleFits, RwStands, Sure, Even
  <2>4. ApStands(k)'
    BY <1>1, <1>4, <1>5, <2>0 DEF HandleFits, ApStands, Writer, Even
  <2> QED
    BY <2>1, <2>2, <2>3, <2>4 DEF HandleFits
<1>8. Firm'
  BY <1>1, <1>2, <1>5, FirmStays DEF TypeInv, NotesOK, PlaceInv
<1>9. CallFits' /\ IoFits'
  BY <1>1, IdleFits, NoIoFits
<1> QED
  BY <1>2, <1>6, <1>7, <1>8, <1>9, StepFits

\* The entry that a writer leaves of its file.
LEMMA SyncedFits ==
  ASSUME TypeInv, Shape, NEW k \in Handle, Writer(k), HandleFits(k), ~Lengthens(k), Even(k)
  PROVE  /\ Synced(file[k].name, k) = Entry(file[k].start, file[k].size)
         /\ Fits(fat, file[k].start, file[k].size)
<1>1. /\ Fits(fat, file[k].start, file[k].size)
      /\ ~file[k].modified => dir[file[k].name] = Entry(file[k].start, file[k].size)
  BY DEF HandleFits, SizeFits
<1>2. dir[file[k].name] # NoEntry
  BY DEF Shape, OneWriter
<1>3. Synced(file[k].name, k) = Entry(file[k].start, file[k].size)
  BY <1>1, <1>2 DEF Synced, SyncEntry, Writer
<1> QED
  BY <1>1, <1>3

LEMMA SyncedNot == ASSUME NEW k \in Handle, ~Writer(k), file[k].inUse, NEW n  PROVE Synced(n, k) = dir[n]
BY DEF Synced, Writer

\* What an entry that is written, or stays, leaves of the other handles.
DirTurns(n, e) == dir'[n] = e /\ \A m \in Name \ {n} : dir'[m] = dir[m]

LEMMA DirTurned ==
  ASSUME TypeInv, NEW n \in Name, NEW e, dir' = [dir EXCEPT ![n] = e]
  PROVE  DirTurns(n, e)
BY DEF TypeInv, DiscOK, DirTurns

LEMMA SyncSpares ==
  ASSUME TypeInv, Shape, NEW k \in Handle, file[k].inUse, NEW n, n = file[k].name,
         DirTurns(n, Synced(n, k)), NEW h \in Handle \ {k}, HandleFits(h), fat' = fat,
         \A j \in Handle \ {k} : file'[j] = file[j],
         ~file'[k].inUse \/ (file'[k].start = file[k].start),
         Writer(k)' => Writer(k), file'[k].inUse => file'[k].name = n
  PROVE  /\ Writer(h) => SameWriter(h)
         /\ Follower(h) /\ h \notin loose' => SameFollower(h)
<1>0. file'[h] = file[h] /\ KeepsAll(file[h].start) /\ n \in Name
  BY SameTable, StartType DEF KeepsAll
<1>1. ASSUME Writer(h)  PROVE SameWriter(h)
  <2>1. file[h].name \in Name
    BY <1>1, StartType DEF Writer
  <2>2. dir'[file[h].name] = dir[file[h].name]
    <3>1. CASE Writer(k)
      <4>1. file[h].name # n
        BY <1>1, <3>1 DEF Shape, OneWriter
      <4> QED
        BY <2>1, <4>1 DEF DirTurns
    <3>2. CASE ~Writer(k)
      BY <2>1, <3>2, SyncedNot DEF DirTurns
    <3> QED
      BY <3>1, <3>2
  <2> QED
    BY <1>0, <2>2 DEF SameWriter
<1>2. ASSUME Follower(h), h \notin loose'  PROVE SameFollower(h)
  <2>0. h \in loose \/ h \notin loose
    OBVIOUS
  <2>1. file[h].name \in Name /\ dir[file[h].name].start = file[h].start
        /\ \A w \in Handle : Writer(w) /\ file[w].name = file[h].name => file[w].start = file[h].start
    BY <1>2, StartType DEF Follower, HandleFits, Follows
  <2>2. dir'[file[h].name].start = dir[file[h].name].start
    <3>1. CASE file[h].name # n \/ ~Writer(k)
      BY <2>1, <3>1, SyncedNot DEF DirTurns
    <3>2. CASE file[h].name = n /\ Writer(k)
      <4>1. file[k].start = file[h].start
        BY <2>1, <3>2
      <4>2. Synced(n, k) = dir[n] \/ Synced(n, k) = Entry(file[k].start, file[k].size)
        BY DEF Synced, SyncEntry
      <4> QED
        BY <2>1, <3>2, <4>1, <4>2 DEF DirTurns, Entry
    <3> QED
      BY <3>1, <3>2
  <2>3. ASSUME NEW w \in Handle, Writer(w)', file'[w].name = file[h].name
        PROVE  file'[w].start = file[h].start
    <3>1. CASE w = k
      BY <2>1, <2>3, <3>1 DEF Writer
    <3>2. CASE w # k
      BY <2>1, <2>3, <3>2 DEF Writer
    <3> QED
      BY <3>1, <3>2
  <2> QED
    BY <1>0, <2>2, <2>3 DEF SameFollower, KeepsAll
<1> QED
  BY <1>1, <1>2

\* _FAT_fsync_r writes the entry.
LEMMA PlaceOfFsync ==
  ASSUME FileInv, ~conflict, PlaceInv, NEW k \in Handle, Fsync(k)
  PROVE  PlaceInv'
<1>1. /\ op.pc = "idle" /\ op' = op /\ NoIo /\ UNCHANGED <<fat, loose, astray, uneven>>
      /\ Becomes(k, [file[k] EXCEPT !.modified = FALSE]) /\ file[k].inUse
      /\ dir' = [dir EXCEPT ![file[k].name] = Synced(file[k].name, k)]
  BY DEF Fsync, Call, notes, table
<1>2. TypeInv /\ Shape /\ file[k] \in FileStruct /\ file[k].name \in Name
  BY <1>1, Peaceful, StartType
<1>3. PICK g : g = [file[k] EXCEPT !.modified = FALSE]
  OBVIOUS
<1>4. /\ g.inUse = file[k].inUse /\ g.write = file[k].write /\ g.name = file[k].name
      /\ g.start = file[k].start /\ g.append = file[k].append /\ g.size = file[k].size
      /\ g.cur = file[k].cur /\ g.rw = file[k].rw /\ g.ap = file[k].ap /\ g.modified = FALSE
  BY <1>2, <1>3 DEF FileStruct
<1>5. file'[k] = g /\ \A j \in Handle \ {k} : file'[j] = file[j]
  BY <1>1, <1>2, <1>3 DEF TypeInv, FilesOK, Becomes
<1>6. PICK n : n = file[k].name
  OBVIOUS
<1>7. DirTurns(n, Synced(n, k)) /\ n \in Name
  BY <1>1, <1>2, <1>6, DirTurned
<1>8. (Writer(k)' <=> Writer(k)) /\ (Even(k)' <=> Even(k))
  BY <1>1, <1>4, <1>5 DEF Writer, Even
<1>9. ASSUME NEW h \in Handle \ {k}  PROVE HandleFits(h)'
  <2>1. HandleFits(h) /\ Same(h) /\ StillAway(h) /\ Remembers
    BY <1>1, <1>5, AwayStays DEF Same, Remembers, PlaceInv
  <2>2. /\ ~file'[k].inUse \/ (file'[k].start = file[k].start)
        /\ file'[k].inUse => file'[k].name = n
    BY <1>4, <1>5, <1>6
  <2>3. /\ Writer(h) => SameWriter(h)
        /\ Follower(h) /\ h \notin loose' => SameFollower(h)
    BY <1>1, <1>2, <1>5, <1>6, <1>7, <1>8, <2>1, <2>2, SyncSpares
  <2> QED
    BY <2>1, <2>3, HandleKept
<1>10. HandleFits(k)'
  <2>0. HandleFits(k) /\ ~Lengthens(k) /\ ~Seeking(k) /\ ~Opening(k)
    BY <1>1, IdleIsAway DEF PlaceInv, Away
  <2>1. SizeFits(k)'
    <3> SUFFICES ASSUME Writer(k), Even(k)
                 PROVE  /\ Fits(fat, g.start, g.size)
                        /\ dir'[n] = Entry(g.start, g.size)
      BY <1>1, <1>4, <1>5, <1>6, <1>8 DEF SizeFits
    <3>1. Synced(n, k) = Entry(file[k].start, file[k].size) /\ Fits(fat, file[k].start, file[k].size)
      BY <1>2, <1>6, <2>0, SyncedFits
    <3> QED
      BY <1>4, <1>7, <3>1 DEF DirTurns
  <2>2. Follows(k)'
    <3> SUFFICES ASSUME ~Writer(k), file[k].inUse, g.start # Free, k \notin loose
                 PROVE  /\ dir'[n].start = g.start
                        /\ \A w \in Handle : Writer(w)' /\ file'[w].name = n => file'[w].start = g.start
                        /\ Even(k) => Long(fat, g.start, g.size)
      BY <1>1, <1>4, <1>5, <1>6, <1>8 DEF Follows, Follower, Writer
    <3>1. /\ dir[n].start = g.start
          /\ \A w \in Handle : Writer(w) /\ file[w].name = n => file[w].start = g.start
          /\ Even(k) => Long(fat, g.start, g.size)
      BY <1>4, <1>6, <2>0 DEF HandleFits, Follows, Follower, Writer
    <3>2. dir'[n] = dir[n]
      BY <1>7, SyncedNot DEF DirTurns
    <3>3. ASSUME NEW w \in Handle, Writer(w)', file'[w].name = n  PROVE file'[w].start = g.start
      <4>1. w # k
        BY <1>8, <3>3
      <4> QED
        BY <1>5, <3>1, <3>3, <4>1 DEF Writer
    <3> QED
      BY <3>1, <3>2, <3>3
  <2>3. RwStands(k)'
    BY <1>1, <1>4, <1>5, <2>0 DEF HandleFits, RwStands, Sure, Even
  <2>4. ApStands(k)'
    BY <1>1, <1>4, <1>5, <2>0 DEF HandleFits, ApStands, Writer, Even
  <2> QED
    BY <2>1, <2>2, <2>3, <2>4 DEF HandleFits
<1>11. ASSUME NEW m \in Name  PROVE EntryFits(m)'
  <2>1. Unwritten(m)' => Unwritten(m)
    BY <1>4, <1>5 DEF Unwritten, Writer
  <2>2. Unwritten(m) => dir'[m] = dir[m]
    <3>1. CASE m # n
      BY <1>7, <3>1 DEF DirTurns
    <3>2. CASE m = n
      BY <1>1, <1>6, <1>7, <3>2, SyncedNot DEF DirTurns, Unwritten
    <3> QED
      BY <3>1, <3>2
  <2> QED
    BY <1>1, <2>1, <2>2 DEF EntryFits, PlaceInv
<1>12. Firm'
  <2>1. loose' = loose /\ loose \subseteq Handle /\ Firm
    BY <1>1, <1>2 DEF PlaceInv, TypeInv, NotesOK
  <2>2. \A h \in Handle : file'[h].inUse = file[h].inUse /\ file'[h].write = file[h].write
    BY <1>4, <1>5
  <2> QED
    BY <2>1, <2>2 DEF Firm
<1>13. \A h \in Handle : HandleFits(h)'
  BY <1>9, <1>10
<1> QED
  BY <1>1, <1>11, <1>12, <1>13, QuietStep

\* _FAT_close_r writes the entry and gives the handle up.
LEMMA PlaceOfClose ==
  ASSUME FileInv, ~conflict, PlaceInv, NEW k \in Handle, Close(k)
  PROVE  PlaceInv'
<1>1. /\ op.pc = "idle" /\ op' = op /\ NoIo /\ UNCHANGED <<fat, uneven>>
      /\ loose' = loose \ {k} /\ astray' = astray \ {k}
      /\ Becomes(k, Closed) /\ file[k].inUse
      /\ dir' = [dir EXCEPT ![file[k].name] = Synced(file[k].name, k)]
  BY DEF Close, Call, table
<1>2. TypeInv /\ Shape /\ file[k] \in FileStruct /\ file[k].name \in Name
  BY <1>1, Peaceful, StartType
<1>5. file'[k] = Closed /\ ~file'[k].inUse /\ \A j \in Handle \ {k} : file'[j] = file[j]
  BY <1>1, <1>2 DEF TypeInv, FilesOK, Becomes, Closed
<1>6. PICK n : n = file[k].name
  OBVIOUS
<1>7. DirTurns(n, Synced(n, k)) /\ n \in Name
  BY <1>1, <1>2, <1>6, DirTurned
<1>8. ~Writer(k)'
  BY <1>5 DEF Writer
<1>9. ASSUME NEW h \in Handle \ {k}  PROVE HandleFits(h)'
  <2>1. HandleFits(h) /\ Same(h) /\ StillAway(h) /\ Remembers
    BY <1>1, <1>5, AwayStays DEF Same, Remembers, PlaceInv
  <2>3. /\ Writer(h) => SameWriter(h)
        /\ Follower(h) /\ h \notin loose' => SameFollower(h)
    BY <1>1, <1>2, <1>5, <1>6, <1>7, <1>8, <2>1, SyncSpares
  <2> QED
    BY <2>1, <2>3, HandleKept
<1>10. HandleFits(k)'
  BY <1>5, NoFollower
<1>11. ASSUME NEW m \in Name  PROVE EntryFits(m)'
  <2>1. CASE m = n /\ Writer(k)
    <3> SUFFICES ASSUME m \notin uneven  PROVE Fits(fat, dir'[m].start, dir'[m].size)
      BY <1>1 DEF EntryFits
    <3>1. HandleFits(k) /\ ~Lengthens(k) /\ Even(k)
      BY <1>1, <1>6, <2>1, IdleIsAway DEF PlaceInv, Away, Even
    <3>2. Synced(n, k) = Entry(file[k].start, file[k].size) /\ Fits(fat, file[k].start, file[k].size)
      BY <1>2, <1>6, <2>1, <3>1, SyncedFits
    <3> QED
      BY <1>7, <2>1, <3>2 DEF DirTurns, Entry
  <2>2. CASE ~(m = n /\ Writer(k))
    <3>1. dir'[m] = dir[m]
      BY <1>1, <1>7, <2>2, SyncedNot DEF DirTurns
    <3>2. Unwritten(m)' => Unwritten(m)
      BY <1>5, <1>6, <2>2 DEF Unwritten, Writer
    <3> QED
      BY <1>1, <3>1, <3>2 DEF EntryFits, PlaceInv
  <2> QED
    BY <2>1, <2>2
<1>12. Firm'
  <2>1. loose' = loose \ {k} /\ loose \subseteq Handle /\ Firm
    BY <1>1, <1>2 DEF PlaceInv, TypeInv, NotesOK
  <2> QED
    BY <1>5, <2>1 DEF Firm
<1>13. \A h \in Handle : HandleFits(h)'
  BY <1>9, <1>10
<1> QED
  BY <1>1, <1>11, <1>12, <1>13, QuietStep

\* _FAT_unlink_r frees the chain, under the handles that still read it.
LEMMA PlaceOfUnlink ==
  ASSUME FileInv, ~conflict, ~conflict', PlaceInv, NEW n \in Name, Unlink(n)
  PROVE  PlaceInv'
<1>1. /\ op.pc = "idle" /\ UNCHANGED <<fat, file, astray>> /\ NoIo
      /\ loose' = loose \cup OpenOn(n) /\ uneven' = uneven \ {n} /\ Writers(n) = {}
      /\ dir' = [dir EXCEPT ![n] = NoEntry] /\ dir[n] # NoEntry
  BY DEF Unlink, Call
<1>2. op'.pc \in {"idle", "clear"}
  BY IdleOp DEF Unlink, Call
<1>3. TypeInv /\ Shape
  BY Peaceful
<1>4. DirTurns(n, NoEntry)
  BY <1>1, <1>3, DirTurned
<1>5. \A h \in Handle : file[h].inUse /\ file[h].name = n => ~file[h].write /\ h \in loose'
  BY <1>1 DEF Writers, OpenOn
<1>6. ASSUME NEW h \in Handle  PROVE HandleFits(h)'
  <2>1. HandleFits(h) /\ Same(h) /\ StillAway(h)
    BY <1>1, AwayStays DEF Same, PlaceInv
  <2>2. CASE file[h].name # n
    <3>1. KeepsAll(file[h].start)
      BY <1>1, SameTable DEF KeepsAll
    <3>2. file[h].inUse => dir'[file[h].name] = dir[file[h].name]
      BY <1>3, <1>4, <2>2, StartType DEF DirTurns
    <3>3. Writer(h) => SameWriter(h)
      BY <3>1, <3>2 DEF SameWriter, Writer
    <3>4. Follower(h) /\ h \notin loose' => SameFollower(h)
      BY <1>1, <2>1, <3>1, <3>2 DEF SameFollower, KeepsAll, Follower, Follows, HandleFits, Writer
    <3>5. file[h].name \in uneven => file[h].name \in uneven'
      BY <1>1, <2>2
    <3> QED
      BY <2>1, <3>3, <3>4, <3>5, HandleStays
  <2>3. CASE file[h].name = n
    BY <1>1, <1>5, <2>3
    DEF HandleFits, SizeFits, Follows, RwStands, ApStands, Writer, Follower, Sure
  <2> QED
    BY <2>2, <2>3
<1>7. ASSUME NEW m \in Name  PROVE EntryFits(m)'
  <2>1. CASE m # n
    BY <1>1, <1>4, <2>1 DEF EntryFits, Unwritten, Writer, DirTurns, PlaceInv
  <2>2. CASE m = n
    <3>1. Tight(fat, Eof, 0) /\ Covers(0, 0)
      <4>1. Clusters(0) = 0 /\ Bpc \in Nat /\ Bpc > 0
        BY ClusterFacts, Sizes3
      <4> QED
        BY <4>1, EndsLinks DEF Tight, Covers
    <3>2. Fits(fat, Eof, 0)
      BY <3>1 DEF Fits
    <3>3. dir'[m].start = Eof /\ dir'[m].size = 0
      BY <1>4, <2>2 DEF DirTurns, NoEntry, Entry
    <3> QED
      BY <1>1, <3>2, <3>3 DEF EntryFits
  <2> QED
    BY <2>1, <2>2
<1>8. Firm'
  BY <1>1, <1>5 DEF Firm, PlaceInv, OpenOn
<1> QED
  BY <1>1, <1>2, <1>6, <1>7, <1>8, QuietStep

\* The disc is unmounted, which writes the entries of the open files, and mounted
\* again: no handle stays.
LEMMA PlaceOfRemount == ASSUME FileInv, ~conflict, PlaceInv, Remount  PROVE PlaceInv'
<1>1. /\ op.pc = "idle" /\ op' = op /\ NoIo /\ UNCHANGED <<fat, uneven>> /\ loose' = {}
      /\ file' = [h \in Handle |-> Closed]
      /\ dir' = [n \in Name |-> IF Writers(n) = {} THEN dir[n]
                                ELSE Synced(n, CHOOSE h \in Writers(n) : TRUE)]
  BY DEF Remount, Call
<1>2. TypeInv /\ Shape
  BY Peaceful
<1>3. \A h \in Handle : HandleFits(h)'
  BY <1>1, NoFollower DEF Closed
<1>4. ASSUME NEW n \in Name  PROVE EntryFits(n)'
  <2> SUFFICES ASSUME n \notin uneven  PROVE Fits(fat, dir'[n].start, dir'[n].size)
    BY <1>1 DEF EntryFits
  <2>1. CASE Writers(n) = {}
    <3>1. Unwritten(n)
      BY <2>1 DEF Writers, OpenOn, Unwritten, Writer
    <3>2. dir'[n] = dir[n]
      BY <1>1, <2>1
    <3> QED
      BY <3>1, <3>2 DEF EntryFits, PlaceInv
  <2>2. CASE Writers(n) # {}
    <3>1. PICK k : k = CHOOSE h \in Writers(n) : TRUE
      OBVIOUS
    <3>2. k \in Writers(n)
      BY <2>2, <3>1
    <3>3. k \in Handle /\ Writer(k) /\ file[k].name = n
      BY <3>2 DEF Writers, OpenOn, Writer
    <3>4. HandleFits(k) /\ ~Lengthens(k) /\ Even(k)
      BY <1>1, <3>3, IdleIsAway DEF PlaceInv, Away, Even
    <3>5. Synced(n, k) = Entry(file[k].start, file[k].size) /\ Fits(fat, file[k].start, file[k].size)
      BY <1>2, <3>3, <3>4, SyncedFits
    <3>6. dir'[n] = Synced(n, k)
      BY <1>1, <2>2, <3>1
    <3> QED
      BY <3>5, <3>6 DEF Entry
  <2> QED
    BY <2>1, <2>2
<1>5. Firm'
  BY <1>1 DEF Firm
<1> QED
  BY <1>1, <1>3, <1>4, <1>5, QuietStep

LEMMA NothingFits ==
  /\ \A t, s : Ends(s) => Fits(t, s, 0)
  /\ \A t, s, p : s \in Link /\ ~Ends(s) /\ p = Position(s, 0, 0) => Stands(t, s, p, 0)
<1>1. Clusters(0) = 0 /\ Bpc \in Nat /\ Bpc > 0
  BY ClusterFacts, Sizes3
<1>2. ASSUME NEW t, NEW s, Ends(s)  PROVE Fits(t, s, 0)
  <2>1. Tight(t, s, 0) /\ Covers(0, 0)
    BY <1>1, <1>2 DEF Tight, Covers
  <2> QED
    BY <2>1 DEF Fits
<1>3. ASSUME NEW t, NEW s \in Link, ~Ends(s), NEW p, p = Position(s, 0, 0)  PROVE Stands(t, s, p, 0)
  <2>1. p.cluster = s /\ p.sector = 0 /\ p.byte = 0 /\ p \in Spot
    BY <1>3, Sizes3 DEF Position, Spot
  <2>2. Reaches(t, s, 0, p.cluster)
    BY <1>3, <2>1, ReachesStart
  <2> QED
    BY <1>1, <2>1, <2>2, StandsAtHead
<1> QED
  BY <1>2, <1>3

\* _FAT_open_r: the structure is filled, a file that is created or emptied has no
\* chain, and one opened for appending walks to its end.
LEMMA PlaceOfOpen ==
  ASSUME FileInv, ~conflict, ~conflict', PlaceInv,
         NEW h \in Handle, NEW n \in Name, NEW m \in Mode, Open(h, n, m)
  PROVE  PlaceInv'
<1> DEFINE known == dir[n] # NoEntry
           old == IF known THEN dir[n] ELSE Entry(Free, 0)
           cut == Truncates(m) /\ old.start # Free
           start == CutStart(cut, old.start)
           size == IF cut THEN 0 ELSE old.size
           g == [Closed EXCEPT
                   !.inUse = TRUE, !.name = n, !.read = Reads(m), !.write = Writes(m),
                   !.append = Appends(m), !.size = size,
                   !.start = start, !.modified = cut \/ ~known,
                   !.rw = Position(start, 0, 0), !.ap = Position(start, 0, 0)]
           o == [Idle EXCEPT !.pc = "walk", !.then = "append", !.h = h, !.tip = start]
           outdated == \E w \in Writers(n) : Outdated(old, file[w])
<1>1. /\ op.pc = "idle" /\ ~file[h].inUse /\ (known \/ Creates(m))
      /\ dir' = [dir EXCEPT ![n] = old] /\ Becomes(h, g)
      /\ op' = IF cut THEN Clearing(old.start) ELSE IF Appends(m) THEN o ELSE Idle
      /\ UNCHANGED <<fat, astray, uneven>> /\ NoIo
      /\ (Writes(m) => Writers(n) = {})
      /\ loose' = loose \cup (IF cut THEN OpenOn(n) ELSE {}) \cup (IF outdated THEN {h} ELSE {})
  BY DEF Open, Call
<1>2. TypeInv /\ Shape /\ OneWriter /\ loose \subseteq Handle
  BY Peaceful DEF Shape, TypeInv, NotesOK
<1>3. /\ old.start \in Cluster \cup {Free} /\ old.size \in Nat /\ old = Entry(old.start, old.size)
      /\ known => old = dir[n]
      /\ ~known => old.start = Free /\ old.size = 0 /\ Writes(m)
  <2>1. ~known => Writes(m)
    BY <1>1 DEF Creates, Writes
  <2>2. NoEntry.start = Eof
    BY DEF NoEntry, Entry
  <2>3. CASE known
    <3>1. old.start \in Cluster \cup {Free} /\ old = dir[n]
      BY <1>2, <2>2, <2>3, Outside DEF TypeInv, DiscOK, Entries
    <3>2. dir[n] \in [start : Cluster \cup {Free, Eof}, size : Nat]
      BY <1>2 DEF TypeInv, DiscOK
    <3> QED
      BY <2>3, <3>1, <3>2 DEF Entry
  <2>4. CASE ~known
    <3>1. old = Entry(Free, 0) /\ Entry(Free, 0).start = Free /\ Entry(Free, 0).size = 0
      BY <2>4 DEF Entry
    <3> QED
      BY <2>1, <2>2, <2>4, <3>1, Outside
  <2> QED
    BY <2>3, <2>4
<1>4. /\ start = IF cut THEN Free ELSE old.start
      /\ cut => old.start \in Cluster /\ known /\ Writes(m) /\ ~Appends(m)
      /\ Appends(m) => Writes(m)
      /\ size = IF cut THEN 0 ELSE old.size
  BY <1>3, Outside DEF CutStart, Truncates, Writes, Appends
<1>5. /\ g.inUse /\ g.name = n /\ g.write = Writes(m) /\ g.append = Appends(m)
      /\ g.start = start /\ g.size = size /\ g.cur = 0 /\ (~g.modified => known /\ ~cut)
      /\ g.rw = Position(start, 0, 0)
  BY DEF Closed
<1>6. o.pc = "walk" /\ o.then = "append" /\ o.h = h /\ o.tip = start
  BY DEF Idle
<1>a. outdated <=> \E w \in Writers(n) : Outdated(old, file[w])
  OBVIOUS
<1> HIDE DEF known, old, cut, start, size, g, o, outdated
<1>b. \/ op'.pc \in {"idle", "clear"} /\ ~(Appends(m) /\ ~cut)
      \/ op' = o /\ Appends(m) /\ ~cut
  BY <1>1, IdleOp
<1>7. file'[h] = g /\ \A j \in Handle \ {h} : file'[j] = file[j]
  BY <1>1, <1>2 DEF Becomes, TypeInv, FilesOK
<1>8. DirTurns(n, old)
  BY <1>1, <1>2, DirTurned
<1>9. /\ \A j \in Handle \ {h} : Writer(j)' <=> Writer(j)
      /\ Writer(h)' <=> Writes(m)
      /\ ~Writer(h) /\ h \notin loose
  BY <1>1, <1>5, <1>7 DEF Writer, PlaceInv, Firm
<1>10. /\ Writes(m) => Unwritten(n)
       /\ \A x \in Name : Unwritten(x)' <=> Unwritten(x) /\ ~(Writes(m) /\ x = n)
  <2>1. Writes(m) => Unwritten(n)
    BY <1>1 DEF Unwritten, Writers, OpenOn, Writer
  <2>2. ASSUME NEW x \in Name
        PROVE  Unwritten(x)' <=> Unwritten(x) /\ ~(Writes(m) /\ x = n)
    BY <1>5, <1>7, <1>9 DEF Unwritten
  <2> QED
    BY <2>1, <2>2
<1>11. known => dir'[n] = dir[n]
  BY <1>3, <1>8 DEF DirTurns
<1>12. ASSUME NEW j \in Handle \ {h}  PROVE HandleFits(j)'
  <2>1. HandleFits(j) /\ Same(j) /\ StillAway(j) /\ Remembers /\ KeepsAll(file[j].start)
    BY <1>1, <1>7, AwayStays, SameTable DEF Same, Remembers, PlaceInv, KeepsAll
  <2>2. ASSUME Writer(j)  PROVE SameWriter(j)
    <3>1. file[j].name \in Name /\ dir[file[j].name] # NoEntry
      BY <1>2, <2>2, StartType DEF Writer, OneWriter
    <3>2. dir'[file[j].name] = dir[file[j].name]
      BY <1>8, <1>11, <3>1 DEF DirTurns, known
    <3> QED
      BY <2>1, <3>2 DEF SameWriter
  <2>3. ASSUME Follower(j), j \notin loose'  PROVE SameFollower(j)
    <3>0. Follower(j) /\ j \notin loose
      BY <1>1, <2>3
    <3>1. /\ file[j].name \in Name /\ dir[file[j].name].start = file[j].start
          /\ file[j].start # Free /\ file[j].start \in Cluster
          /\ \A w \in Handle : Writer(w) /\ file[w].name = file[j].name => file[w].start = file[j].start
      BY <1>2, <2>1, <3>0, StartType DEF Follower, HandleFits, Follows
    <3>2. dir[file[j].name] # NoEntry
      <4>1. NoEntry.start = Eof
        BY DEF NoEntry, Entry
      <4> QED
        BY <3>1, <4>1, Outside
    <3>3. dir'[file[j].name] = dir[file[j].name]
      BY <1>8, <1>11, <3>1, <3>2 DEF DirTurns, known
    <3>4. ~(cut /\ file[j].name = n)
      BY <1>1, <2>3 DEF OpenOn, Follower
    <3>5. ASSUME NEW w \in Handle, Writer(w)', file'[w].name = file[j].name
          PROVE  file'[w].start = file[j].start
      <4>1. CASE w = h
        <5>1. file[j].name = n
          BY <1>5, <1>7, <3>5, <4>1
        <5>2. start = old.start /\ old = dir[n]
          BY <1>3, <1>4, <3>2, <3>4, <5>1 DEF known
        <5> QED
          BY <1>5, <1>7, <3>1, <4>1, <5>1, <5>2
      <4>2. CASE w # h
        BY <1>7, <1>9, <3>1, <3>5, <4>2
      <4> QED
        BY <4>1, <4>2
    <3> QED
      BY <2>1, <3>3, <3>5 DEF SameFollower, KeepsAll
  <2> QED
    BY <2>1, <2>2, <2>3, HandleKept
<1>13. ASSUME NEW x \in Name  PROVE EntryFits(x)'
  <2>1. CASE x # n
    BY <1>1, <1>8, <1>10, <2>1 DEF EntryFits, DirTurns, PlaceInv
  <2>2. CASE x = n
    <3>1. Unwritten(x)' => known /\ Unwritten(x)
      BY <1>3, <1>10, <2>2
    <3> QED
      BY <1>1, <1>11, <2>2, <3>1 DEF EntryFits, PlaceInv
  <2> QED
    BY <2>1, <2>2
<1>14. Firm'
  <2> SUFFICES ASSUME NEW j \in loose'  PROVE file'[j].inUse /\ ~file'[j].write
    BY DEF Firm
  <2>1. CASE j \in loose
    BY <1>2, <1>7, <1>9, <2>1 DEF Firm, PlaceInv
  <2>2. CASE cut /\ j \in OpenOn(n)
    <3>1. j \in Handle /\ file[j].inUse /\ ~file[j].write
      BY <1>1, <1>4, <2>2 DEF OpenOn, Writers
    <3> QED
      BY <1>1, <1>7, <3>1
  <2>3. CASE outdated /\ j = h
    BY <1>1, <1>5, <1>7, <1>a, <2>3
  <2> QED
    BY <1>1, <2>1, <2>2, <2>3
<1>15. Even(h)' /\ Unwritten(n) => Fits(fat, start, size)
  <2> SUFFICES ASSUME Even(h)', Unwritten(n)  PROVE Fits(fat, start, size)
    OBVIOUS
  <2>1. n \notin uneven
    BY <1>1, <1>5, <1>7 DEF Even
  <2>2. CASE cut
    BY <1>4, <2>2, NothingFits, EndsLinks
  <2>3. CASE ~cut /\ known
    BY <1>3, <1>4, <2>1, <2>3 DEF EntryFits, PlaceInv
  <2>4. CASE ~cut /\ ~known
    BY <1>3, <1>4, <2>4, NothingFits, EndsLinks
  <2> QED
    BY <2>2, <2>3, <2>4
<1>16. HandleFits(h)'
  <2>0. (Opening(h)' <=> op' = o) /\ ~Lengthens(h)' /\ ~Seeking(h)'
    <3>1. op'.pc \in {"idle", "clear"} \/ (op' = o /\ op'.pc = "walk" /\ op'.then = "append" /\ op'.h = h)
      BY <1>6, <1>b
    <3> QED
      BY <1>6, <3>1 DEF Opening, Lengthens, Seeking, Extending
  <2>1. SizeFits(h)'
    <3> SUFFICES ASSUME Writes(m), Even(h)'
                 PROVE  /\ Fits(fat', g.start, g.size)
                        /\ ~g.modified => dir'[n] = Entry(g.start, g.size)
      BY <1>5, <1>7, <1>9 DEF SizeFits
    <3>1. Fits(fat', g.start, g.size)
      BY <1>1, <1>5, <1>10, <1>15
    <3>2. ~g.modified => dir'[n] = Entry(g.start, g.size)
      BY <1>3, <1>4, <1>5, <1>8 DEF DirTurns
    <3> QED
      BY <3>1, <3>2
  <2>2. Follows(h)'
    <3> SUFFICES ASSUME ~Writes(m), start # Free, h \notin loose'
                 PROVE  /\ dir'[n].start = start
                        /\ \A w \in Handle : Writer(w)' /\ file'[w].name = n => file'[w].start = start
                        /\ Even(h)' => Long(fat', start, size)
      BY <1>5, <1>7 DEF Follows, Follower
    <3>1. ~cut /\ known /\ start = old.start /\ size = old.size /\ ~outdated
      BY <1>1, <1>3, <1>4
    <3>2. dir'[n].start = start
      BY <1>8, <3>1 DEF DirTurns
    <3>3. ASSUME NEW w \in Handle, Writer(w)', file'[w].name = n
          PROVE  /\ w # h /\ Writer(w) /\ file[w].name = n /\ file'[w].start = start
                 /\ ~(file[w].size < size)
      <4>1. w # h
        BY <1>9, <3>3
      <4>2. Writer(w) /\ file[w].name = n /\ file'[w] = file[w]
        BY <1>7, <1>9, <3>3, <4>1
      <4>3. w \in Writers(n)
        BY <4>2 DEF Writers, OpenOn, Writer
      <4>4. ~Outdated(old, file[w])
        BY <1>a, <3>1, <4>3
      <4> QED
        BY <3>1, <4>1, <4>2, <4>4 DEF Outdated
    <3>4. ASSUME Even(h)'  PROVE Long(fat', start, size)
      <4>0. size \in Nat /\ n \notin uneven /\ fat' = fat
        BY <1>1, <1>3, <1>5, <1>7, <3>1, <3>4 DEF Even
      <4>1. CASE Unwritten(n)
        BY <1>15, <3>4, <4>0, <4>1, FitsLong
      <4>2. CASE ~Unwritten(n)
        <5>1. PICK w \in Handle : Writer(w) /\ file[w].name = n
          BY <4>2 DEF Unwritten
        <5>2. w # h /\ Writer(w)' /\ file'[w].name = n /\ file'[w] = file[w]
          BY <1>7, <1>9, <5>1
        <5>3. file[w].start = start /\ ~(file[w].size < size)
          BY <3>3, <5>1, <5>2
        <5>4. Even(w) /\ ~Lengthens(w) /\ HandleFits(w)
          BY <1>1, <4>0, <5>1, IdleIsAway DEF Even, Away, PlaceInv
        <5>5. Fits(fat, file[w].start, file[w].size) /\ file[w].size \in Nat
          BY <1>2, <5>1, <5>4, StartType DEF HandleFits, SizeFits, FileStruct
        <5>6. Long(fat, start, file[w].size) /\ size <= file[w].size
          BY <4>0, <5>3, <5>5, FitsLong
        <5> QED
          BY <4>0, <5>5, <5>6, LongLess
      <4> QED
        BY <4>1, <4>2
    <3> QED
      BY <3>2, <3>3, <3>4
  <2>3. RwStands(h)'
    <3> SUFFICES ASSUME start # Free  PROVE Stands(fat', start, g.rw, 0)
      BY <1>5, <1>7 DEF RwStands, Sure
    <3>1. start \in Link /\ ~Ends(start)
      BY <1>3, <1>4, EndsLinks DEF Link
    <3> QED
      BY <1>5, <3>1, NothingFits
  <2>4. ApStands(h)'
    <3> SUFFICES ASSUME Writer(h)', g.append, start # Free, ~Opening(h)'  PROVE FALSE
      BY <1>5, <1>7 DEF ApStands
    <3>1. Appends(m) /\ ~(op' = o)
      BY <1>5, <2>0
    <3>2. cut
      BY <1>b, <3>1
    <3> QED
      BY <1>4, <3>1, <3>2
  <2> QED
    BY <2>1, <2>2, <2>3, <2>4 DEF HandleFits
<1>17. CallFits'
  <2>1. CASE op'.pc \in {"idle", "clear"}
    BY <2>1, IdleFits
  <2>2. CASE op' = o
    <3>1. op'.pc = "walk" /\ op'.then = "append" /\ op'.h = h /\ op'.tip = start
      BY <1>6, <2>2
    <3>2. KnowsSize'
      BY <3>1, QuietSize
    <3>3. f' = g
      BY <1>7, <3>1 DEF f
    <3>4. AppendWalk(fat', op', f')
      <4>1. start = Free \/ (start \in Link /\ ~Ends(start))
        BY <1>3, <1>4, EndsLinks DEF Link
      <4>2. start = Free \/ Reaches(fat', start, 0, op'.tip)
        BY <3>1, <4>1, ReachesStart
      <4> QED
        BY <1>5, <3>3, <4>2 DEF AppendWalk
    <3>5. WalkFits'
      BY <3>1, <3>4, Zenon DEF WalkFits
    <3> QED
      BY <3>1, <3>2, <3>5 DEF CallFits
  <2> QED
    BY <1>b, <2>1, <2>2
<1>18. IoFits'
  BY <1>1, NoIoFits
<1>19. \A j \in Handle : HandleFits(j)'
  BY <1>12, <1>16
<1> QED
  BY <1>13, <1>14, <1>17, <1>18, <1>19 DEF PlaceInv

LEMMA StartsKept ==
  ASSUME TypeInv, Shape, \A s \in Cluster : Starts(s) => KeepsAll(s)
  PROVE  /\ \A h \in Handle : Writer(h) => KeepsAll(file[h].start)
         /\ \A h \in Handle : Follower(h) /\ Follows(h) => KeepsAll(file[h].start)
         /\ \A n \in Name : Unwritten(n) => KeepsAll(dir[n].start)
<1>1. ASSUME NEW h \in Handle, Writer(h)  PROVE KeepsAll(file[h].start)
  <2>1. file[h].start \in Cluster \cup {Free}
    BY StartType
  <2>2. file[h].start \in Cluster => Starts(file[h].start)
    BY <1>1 DEF Starts
  <2> QED
    BY <2>1, <2>2, NoChainAtAll, EndsLinks
<1>2. ASSUME NEW h \in Handle, Follower(h), Follows(h)  PROVE KeepsAll(file[h].start)
  BY <1>2, StartOfFollower
<1>3. ASSUME NEW n \in Name, Unwritten(n)  PROVE KeepsAll(dir[n].start)
  <2>1. dir[n].start \in Cluster \cup {Free, Eof}
    BY DEF TypeInv, DiscOK
  <2>2. dir[n].start \in Cluster => Starts(dir[n].start)
    BY <1>3 DEF Starts
  <2> QED
    BY <2>1, <2>2, NoChainAtAll, EndsLinks
<1> QED
  BY <1>1, <1>2, <1>3

\* _FAT_fat_clearLinks frees one cluster of a chain after another.
LEMMA PlaceOfClear == ASSUME FileInv, ~conflict, PlaceInv, Clear  PROVE PlaceInv'
<1>1. /\ op.pc = "clear" /\ ClearLink(op.tip) /\ NoIo
      /\ UNCHANGED <<dir, file, loose, astray, uneven>>
  BY DEF Clear, At, notes
<1>2. op'.pc \in {"idle", "clear"}
  BY IdleOp DEF Clear
<1>3. TypeInv /\ Shape /\ Links /\ Heads
  BY Peaceful DEF Shape
<1>4. op.tip = Beyond \/ (op.tip \in Cluster /\ CutOff(op.tip))
  BY <1>1, <1>3 DEF Shape, Clears
<1>5. ASSUME NEW s \in Cluster, Starts(s)  PROVE KeepsAll(s)
  <2>1. PICK m : IsFirst(m, s)
    BY <1>3, <1>5, StartsAreFirst
  <2>2. PICK c : c = op.tip
    OBVIOUS
  <2>3. (c = Beyond \/ (c \in Cluster /\ CutOff(c))) /\ ClearLink(c)
    BY <1>1, <1>4, <2>2
  <2> QED
    BY <1>3, <1>5, <2>1, <2>3, ClearSpares DEF KeepsAll
<1>6. /\ \A h \in Handle : Writer(h) => KeepsAll(file[h].start)
      /\ \A h \in Handle : Follower(h) /\ Follows(h) => KeepsAll(file[h].start)
      /\ \A n \in Name : Unwritten(n) => KeepsAll(dir[n].start)
  BY <1>3, <1>5, StartsKept
<1>7. ASSUME NEW h \in Handle  PROVE HandleFits(h)'
  <2>1. HandleFits(h) /\ Same(h) /\ StillAway(h) /\ Remembers
    BY <1>1, AwayStays DEF Same, Remembers, PlaceInv
  <2>2. Writer(h) => SameWriter(h)
    BY <1>1, <1>6 DEF SameWriter
  <2>3. Follower(h) => SameFollower(h)
    BY <1>1, <1>6, <2>1 DEF SameFollower, KeepsAll, Follower, Follows, HandleFits, Writer
  <2> QED
    BY <2>1, <2>2, <2>3, HandleKept
<1>8. ASSUME NEW n \in Name  PROVE EntryFits(n)'
  <2>1. EntryFits(n) /\ Remembers /\ (Unwritten(n)' => Unwritten(n)) /\ dir'[n] = dir[n]
    BY <1>1 DEF PlaceInv, Remembers, Unwritten, Writer
  <2> QED
    BY <1>6, <2>1, EntryKept
<1>9. Firm'
  BY <1>1 DEF Firm, PlaceInv
<1> QED
  BY <1>1, <1>2, <1>7, <1>8, <1>9, QuietStep

\* The start of somebody else.
LEMMA OthersStart ==
  ASSUME TypeInv, Shape, NEW k \in Handle, Writer(k), NEW s \in Cluster, Starts(s), s # file[k].start
  PROVE  \E m : m # file[k].name /\ IsFirst(m, s)
<1>1. CASE \E h \in Handle : Writer(h) /\ file[h].start = s
  <2>1. PICK h \in Handle : Writer(h) /\ file[h].start = s
    BY <1>1
  <2>2. IsFirst(file[h].name, s) /\ file[h].name # file[k].name
    BY <2>1 DEF Shape, Heads, OneWriter
  <2> QED
    BY <2>2
<1>2. CASE \E m \in Name : Unwritten(m) /\ dir[m].start = s
  <2>1. PICK m \in Name : Unwritten(m) /\ dir[m].start = s
    BY <1>2
  <2>2. IsFirst(m, s) /\ m # file[k].name
    BY <2>1 DEF Shape, Heads, Unwritten
  <2> QED
    BY <2>2
<1> QED
  BY <1>1, <1>2 DEF Starts

\* The clusters a chain keeps when it is cut behind the one of a position.
LEMMA TrimFits ==
  ASSUME TypeInv, NEW s, NEW x \in Nat, NEW y \in Nat, y > 0, y < x, Fits(fat, s, x),
         NEW r \in Nat, NEW c, Reaches(fat, s, r, c), NEW left \in Nat, r + left = (y - 1) \div Bpc,
         left = 0 \/ Ends(NextOf(c))
  PROVE  r = (y - 1) \div Bpc /\ Covers(r + 1, y)
<1> DEFINE i == (y - 1) \div Bpc
<1>1. /\ y - 1 \in Nat /\ i \in Nat /\ (y - 1) % Bpc \in Nat /\ (y - 1) % Bpc < Bpc
      /\ y - 1 = Clusters(i) + ((y - 1) % Bpc)
  <2>1. y - 1 \in Nat
    OBVIOUS
  <2> QED
    BY <2>1, ClustersOf
<1>a. r + left = i
  OBVIOUS
<1> HIDE DEF i
<1>2. /\ Clusters(i) \in Nat /\ Clusters(i) < x /\ Clusters(i + 1) = Clusters(i) + Bpc /\ i + 1 \in Nat
      /\ Bpc \in Nat /\ Bpc > 0
  <2>1. Clusters(i) \in Nat /\ Clusters(i + 1) = Clusters(i) + Bpc /\ i + 1 \in Nat /\ Bpc \in Nat /\ Bpc > 0
    BY <1>1, RankFacts, Sizes3
  <2> QED
    BY <1>1, <2>1
<1>3. left = 0
  <2> SUFFICES ASSUME left > 0  PROVE FALSE
    OBVIOUS
  <2>1. Tight(fat, s, r + 1)
    BY EndReached
  <2>2. PICK d \in Link : Reaches(fat, s, i, d)
    BY <1>1, <1>2, FitsLong, LongReaches
  <2>3. i < r + 1
    BY <2>1, <2>2, TightEnds
  <2> QED
    BY <1>a, <1>1, <2>3
<1>4. r = i
  BY <1>a, <1>1, <1>3
<1>5. Covers(i + 1, y)
  <2>1. y <= Clusters(i + 1) /\ Clusters(i + 1) < y + Bpc
    BY <1>1, <1>2
  <2> QED
    BY <2>1 DEF Covers
<1> QED
  BY <1>4, <1>5 DEF i

\* _FAT_ftruncate_r cuts the chain behind the last cluster that is kept.
LEMMA PlaceOfTrim == ASSUME FileInv, ~conflict, PlaceInv, Trim  PROVE PlaceInv'
<1> DEFINE g0 == [f EXCEPT !.size = op.goal, !.modified = TRUE,
                    !.ap = IF f.append THEN EndPosition(op.tip, op.goal) ELSE @]
<1>1. /\ op.pc = "walk" /\ op.then = "trim" /\ ~MoreToWalk /\ fat' = MarkEnd(op.tip)
      /\ op'.pc \in {"idle", "clear"} /\ Becomes(op.h, g0)
      /\ UNCHANGED <<dir, loose, astray, uneven>> /\ NoIo
  <2>1. op' = Clearing(NextOf(op.tip)) \/ op' = Idle
    BY DEF Trim
  <2> QED
    BY <2>1, IdleOp DEF Trim, Walked, At, Trimmed, notes
<1>2. TypeInv /\ Shape /\ Links /\ CallOn
  BY Peaceful DEF Shape
<1>3. PICK k \in Handle, c \in Link, goal \in Nat : k = op.h /\ c = op.tip /\ goal = op.goal
  BY <1>1, <1>2, CallFile, OpFields
<1>4. PICK e : e = EndPosition(c, goal)
  OBVIOUS
<1>5. /\ f = file[k] /\ f \in FileStruct /\ f.name \in Name /\ f.inUse /\ f.write /\ Writer(k)
      /\ f.start # Free
  BY <1>1, <1>2, <1>3, CallFile DEF TypeInv, OpOK, CallOK, WalkOK, Writer
<1>6. PICK g : g = [f EXCEPT !.size = goal, !.modified = TRUE, !.ap = IF f.append THEN e ELSE @]
  OBVIOUS
<1>7. /\ g.inUse = f.inUse /\ g.write = f.write /\ g.name = f.name /\ g.start = f.start
      /\ g.append = f.append /\ g.size = goal /\ g.modified = TRUE
      /\ (f.append => g.ap = e)
  BY <1>5, <1>6 DEF FileStruct
<1>8. SameNames /\ SameStarts /\ file'[k] = g /\ \A j \in Handle \ {k} : file'[j] = file[j]
  <2>1. Becomes(k, g)
    BY <1>1, <1>3, <1>4, <1>6
  <2>2. g.inUse = file[k].inUse /\ g.write = file[k].write /\ g.name = file[k].name
    BY <1>5, <1>7
  <2> QED
    BY <1>2, <1>5, <1>7, <2>1, <2>2, NamesKept
<1>9. On(f.name, c) /\ k \in astray /\ k \in astray' /\ OpenOn(f.name) \ {k} \subseteq loose
  <2>1. TrimmedAlone
    BY <1>1 DEF PlaceInv, CallFits, WalkFits
  <2> QED
    BY <1>1, <1>2, <1>3, <2>1 DEF TrimmedAlone, CallOn, WalkOn
<1>10. Table(fat') /\ \A d \in Cluster : fat'[d] = IF d = c THEN Eof ELSE fat[d]
  BY <1>1, <1>2, <1>3, MarkEndType DEF Table, MarkEnd, TypeInv, TableOK
<1>11. Spares(k)
  <2> SUFFICES ASSUME NEW s \in Cluster, Starts(s), s # file[k].start  PROVE KeepsAll(s)
    BY <1>5 DEF Spares
  <2>1. PICK m : m # file[k].name /\ IsFirst(m, s)
    BY <1>2, <1>5, OthersStart
  <2>2. ASSUME NEW x \in Cluster, fat[x] # Free, place[x].of = m  PROVE fat'[x] = fat[x]
    <3>1. x # c
      BY <1>5, <1>9, <2>1, <2>2, Outside DEF On, OnIn
    <3> QED
      BY <1>10, <3>1
  <2> QED
    BY <1>2, <1>10, <2>1, <2>2, OtherChain DEF KeepsAll
<1>12. Loses(k)
  BY <1>1, <1>5, <1>9 DEF Loses, OpenOn
<1>13. Acts(k)
  <2>1. \A h \in Handle \ {k} : Same(h)
    BY <1>1, <1>8 DEF Same
  <2> QED
    BY <1>1, <1>3, <1>5, <1>7, <1>8, <1>11, <1>12, <2>1 DEF Acts, OwnKept, Remembers
<1>14. ASSUME Even(k)
       PROVE  /\ Fits(fat', f.start, goal)
              /\ Stands(fat', f.start, e, goal)
  <2>1. TrimWalk(fat, op, f)
    BY <1>1, <1>3, <1>14 DEF PlaceInv, CallFits, WalkFits
  <2>2. PICK left \in Nat : left = op.left
    BY <1>2, <2>1, OpFields DEF TrimWalk
  <2>3. PICK r \in Nat : Reaches(fat, f.start, r, c) /\ r + left = (goal - 1) \div Bpc
    BY <1>3, <2>1, <2>2 DEF TrimWalk
  <2>4. PICK x \in Nat : x = f.size
    BY <1>5, FileFields
  <2>5. goal > 0 /\ goal < x
    BY <1>3, <2>1, <2>4 DEF TrimWalk
  <2>6. Fits(fat, f.start, x)
    <3>1. ~Lengthens(k)
      BY <1>1 DEF Lengthens, Extending
    <3> QED
      BY <1>5, <1>14, <2>4, <3>1 DEF PlaceInv, HandleFits, SizeFits
  <2>7. left = 0 \/ Ends(NextOf(c))
    BY <1>1, <1>3, <2>2 DEF MoreToWalk, ToTheEnd
  <2>8. PICK s \in Cluster : s = f.start /\ IsFirst(f.name, s)
    BY <1>2, <1>5, OwnChain
  <2>9. Covers(r + 1, goal)
    BY <1>2, <2>3, <2>5, <2>6, <2>7, <2>8, TrimFits
  <2>10. Reaches(fat', s, r, c) /\ Tight(fat', s, r + 1)
    BY <1>1, <1>2, <1>3, <2>3, <2>8, MarkOwn
  <2>11. r + 1 \in Nat
    OBVIOUS
  <2>12. Fits(fat', s, goal)
    BY <2>9, <2>10, <2>11 DEF Fits
  <2>13. Stands(fat', s, e, goal)
    BY <1>4, <2>5, <2>9, <2>10, StandsAtEnd
  <2> QED
    BY <2>8, <2>12, <2>13
<1>15. HandleFits(k)'
  <2>1. Even(k)' => Even(k)
    BY <1>1, <1>5, <1>7, <1>8 DEF Even
  <2>2. SizeFits(k)'
    BY <1>7, <1>8, <1>14, <2>1 DEF SizeFits
  <2>3. Follows(k)'
    BY <1>5, <1>7, <1>8 DEF Follows, Follower
  <2>4. RwStands(k)'
    BY <1>9 DEF RwStands, Sure
  <2>5. ApStands(k)'
    BY <1>7, <1>8, <1>14, <2>1 DEF ApStands
  <2> QED
    BY <2>2, <2>3, <2>4, <2>5 DEF HandleFits
<1>16. Firm'
  BY <1>1, <1>2, <1>8, FirmStays DEF TypeInv, NotesOK, PlaceInv
<1>17. CallFits' /\ IoFits'
  BY <1>1, IdleFits, NoIoFits
<1> QED
  BY <1>2, <1>13, <1>15, <1>16, <1>17, StepFits

\* _FAT_ftruncate_r to a smaller size.
LEMMA PlaceOfShrink ==
  ASSUME FileInv, ~conflict, PlaceInv, NEW k \in Handle, NEW n \in Places, Shrink(k, n)
  PROVE  PlaceInv'
<1>1. /\ op.pc = "idle" /\ file[k].inUse /\ file[k].write /\ n < file[k].size /\ NoIo
      /\ UNCHANGED <<fat, dir, uneven>>
      /\ astray' = (IF n > 0 THEN astray \cup {k} ELSE astray)
      /\ loose' = loose \cup (OpenOn(file[k].name) \ {k})
      /\ n \in Nat
  BY CallsAssumption DEF Shrink, Call
<1>2. TypeInv /\ Shape /\ OneWriter
  BY Peaceful DEF Shape
<1>3. /\ file[k] \in FileStruct /\ file[k].name \in Name /\ file[k].size \in Nat /\ Writer(k)
      /\ file[k].start # Free
  BY <1>1, <1>2, StartType, FileFields DEF Writer, HandleOK
<1>4. /\ Loses(k) /\ \A h \in OpenOn(file[k].name) \ {k} : h \in Handle /\ file[h].inUse /\ ~file[h].write
  BY <1>1, <1>2, <1>3 DEF Loses, OpenOn, OneWriter, Writer
<1>5. HandleFits(k) /\ ~Lengthens(k) /\ ~Seeking(k) /\ ~Opening(k)
  BY <1>1, IdleIsAway DEF PlaceInv, Away
<1>6. loose \subseteq loose' /\ astray \subseteq astray' /\ k \notin loose
  BY <1>1, <1>3 DEF PlaceInv, Firm, Writer
<1>7. CASE n = 0
  <2>1. PICK g : g = [file[k] EXCEPT !.size = 0, !.modified = TRUE, !.start = Free,
                        !.ap = Position(Free, 0, 0)]
    OBVIOUS
  <2>2. /\ g.inUse = file[k].inUse /\ g.write = file[k].write /\ g.name = file[k].name
        /\ g.start = Free /\ g.size = 0 /\ g.modified = TRUE
    BY <1>3, <2>1 DEF FileStruct
  <2>3. Becomes(k, g) /\ op' = Clearing(file[k].start) /\ op'.pc \in {"idle", "clear"}
    <3>1. Becomes(k, g) /\ op' = Clearing(file[k].start)
      BY <1>7, <2>1 DEF Shrink
    <3> QED
      BY <3>1, IdleOp
  <2>4. SameNames /\ file'[k] = g /\ \A j \in Handle \ {k} : file'[j] = file[j]
    BY <1>2, <2>2, <2>3, NamesKept
  <2>5. Acts(k)
    <3>1. \A h \in Handle \ {k} : Same(h)
      BY <1>6, <2>4 DEF Same
    <3> QED
      BY <1>1, <1>4, <2>4, <3>1, TableKept DEF Acts, Remembers
  <2>6. HandleFits(k)'
    <3>1. Ends(Free) /\ Fits(fat', Free, 0)
      BY EndsLinks, NothingFits
    <3> QED
      BY <1>3, <2>2, <2>4, <3>1
      DEF HandleFits, SizeFits, Follows, Follower, RwStands, Sure, ApStands, Writer
  <2>7. Firm'
    <3>1. \A h \in loose' : h \in Handle /\ file[h].inUse /\ ~file[h].write
      <4>1. loose \subseteq Handle /\ \A h \in loose : file[h].inUse /\ ~file[h].write
        BY <1>2 DEF Firm, PlaceInv, TypeInv, NotesOK
      <4> QED
        BY <1>1, <1>4, <4>1
    <3>2. \A h \in Handle : file'[h].inUse = file[h].inUse /\ file'[h].write = file[h].write
      BY <2>2, <2>4
    <3> QED
      BY <3>1, <3>2 DEF Firm
  <2> QED
    BY <1>1, <1>2, <2>3, <2>5, <2>6, <2>7, IdleFits, NoIoFits, StepFits
<1>8. CASE n > 0
  <2>1. PICK o : o = [Idle EXCEPT !.pc = "walk", !.then = "trim", !.h = k, !.tip = file[k].start,
                        !.left = (n - 1) \div Bpc, !.goal = n]
    OBVIOUS
  <2>2. /\ o.pc = "walk" /\ o.then = "trim" /\ o.h = k /\ o.tip = file[k].start
        /\ o.left = (n - 1) \div Bpc /\ o.goal = n
    BY <2>1 DEF Idle
  <2>3. op' = o /\ file' = file
    BY <1>8, <2>1 DEF Shrink
  <2>4. Acts(k)
    <3>1. (\A h \in Handle \ {k} : Same(h)) /\ SameNames
      BY <1>6, <2>3 DEF Same, SameNames
    <3> QED
      BY <1>1, <1>4, <2>3, <3>1, TableKept DEF Acts, Remembers
  <2>5. HandleFits(k)'
    <3>1. k \in astray'
      BY <1>1, <1>8
    <3> QED
      BY <1>1, <1>3, <1>5, <2>3, <3>1
      DEF HandleFits, SizeFits, Follows, Follower, RwStands, Sure, ApStands, Writer, Even
  <2>6. Firm'
    BY <1>1, <1>4, <2>3 DEF Firm, PlaceInv
  <2>7. WalkFits'
    <3>1. f' = file[k] /\ op'.h = k
      BY <2>2, <2>3 DEF f
    <3>2. TrimmedAlone'
      BY <1>1, <1>8, <2>3, <3>1 DEF TrimmedAlone, OpenOn
    <3>3. TrimWalk(fat, o, file[k])
      <4>1. file[k].start \in Cluster /\ ~Ends(file[k].start) /\ file[k].start \in Link
        BY <1>2, <1>3, OwnChain, EndsLinks, Outside
      <4>2. Reaches(fat, file[k].start, 0, o.tip)
        BY <2>2, <4>1, ReachesStart
      <4>3. (n - 1) \div Bpc \in Nat
        <5>1. n - 1 \in Nat
          BY <1>1, <1>8
        <5> QED
          BY <5>1, ClustersOf
      <4>4. PICK i \in Nat : i = (n - 1) \div Bpc
        BY <4>3
      <4>5. o.left = i /\ o.left >= 0 /\ 0 + o.left = i
        BY <2>2, <4>4
      <4> QED
        BY <1>1, <1>8, <2>2, <4>2, <4>4, <4>5 DEF TrimWalk
    <3> QED
      BY <1>1, <2>2, <2>3, <3>1, <3>2, <3>3 DEF WalkFits
  <2>8. CallFits'
    <3>1. KnowsSize'
      BY <2>2, <2>3, QuietSize
    <3> QED
      BY <2>2, <2>3, <2>7, <3>1 DEF CallFits
  <2> QED
    BY <1>1, <1>2, <2>4, <2>5, <2>6, <2>8, NoIoFits, StepFits
<1> QED
  BY <1>1, <1>7, <1>8

\* A call that begins to lengthen the file of k, now g: it walks to the end
\* of the chain first, or writes where the file stands.
WalksOut(o, k, g, x, n) ==
  /\ o.pc = "walk" /\ o.then = "extend" /\ o.h = k /\ o.ok = TRUE
  /\ o.tip = g.start /\ o.goal = x /\ o.len = n
PutsDown(o, k, g, n) ==
  /\ o.pc = "head" /\ o.h = k /\ o.ok = TRUE /\ o.len = n /\ o.remain = n
  /\ o.pos = (IF g.append THEN g.ap ELSE g.rw)
  /\ o.off = (IF g.append THEN g.size ELSE g.cur)
LEMMA WritingFields ==
  ASSUME NEW k, NEW g, NEW n, NEW o, o = Writing(k, g, n)
  PROVE  /\ ~g.append /\ g.cur > g.size => WalksOut(o, k, g, g.cur, n)
         /\ ~(~g.append /\ g.cur > g.size) => PutsDown(o, k, g, n)
<1>1. CASE ~g.append /\ g.cur > g.size
  <2>1. o = [[Idle EXCEPT !.h = k, !.len = n, !.remain = n] EXCEPT
               !.pc = "walk", !.then = "extend", !.tip = g.start, !.goal = g.cur]
    BY <1>1 DEF Writing, PastEnd
  <2> QED
    BY <1>1, <2>1 DEF WalksOut, Idle
<1>2. CASE ~(~g.append /\ g.cur > g.size)
  <2>1. PICK p : p = IF g.append THEN g.ap ELSE g.rw
    OBVIOUS
  <2>2. PICK x : x = IF g.append THEN g.size ELSE g.cur
    OBVIOUS
  <2>3. o = [[Idle EXCEPT !.h = k, !.len = n, !.remain = n] EXCEPT
               !.pc = "head", !.pos = p, !.off = x]
    BY <1>2, <2>1, <2>2 DEF Writing, PastEnd
  <2> QED
    BY <1>2, <2>1, <2>2, <2>3 DEF PutsDown, Idle
<1> QED
  BY <1>1, <1>2

\* The file g, of the chain in the table t, as such a call finds it.
Ready(t, g) ==
  \/ Fits(t, g.start, g.size)
  \/ g.size = 0 /\ Tight(t, g.start, 1)
Begun(t, g) ==
  \/ g.append /\ Fits(t, g.start, g.size) /\ (Stands(t, g.start, g.ap, g.size) \/ Dead(g.ap))
  \/ ~g.append /\ Fits(t, g.start, g.size) /\ (g.cur <= g.size => Stands(t, g.start, g.rw, g.cur))
  \/ /\ g.size = 0 /\ Tight(t, g.start, 1)
     /\ (IF g.append THEN g.ap ELSE g.rw) = Position(g.start, 0, 0)
LEMMA WalkBegins ==
  ASSUME NEW k \in Handle, NEW g, file'[k] = g, g.start \in Cluster,
         NEW x, NEW n, WalksOut(op', k, g, x, n), x > g.size, n > 0 => x = g.cur,
         n = 0 => k \in astray' \/ g.cur <= g.size,
         Even(k)' => Ready(fat', g)
  PROVE  CallFits' /\ Lengthens(k)' /\ ~Seeking(k)'
<1>1. f' = g /\ op'.h = k /\ op'.pc = "walk" /\ op'.then = "extend"
  BY DEF f, WalksOut
<1>2. Even(k)' => ExtendWalk(fat', op', g)
  <2> SUFFICES ASSUME Even(k)'  PROVE ExtendWalk(fat', op', g)
    OBVIOUS
  <2>1. Reaches(fat', g.start, 0, op'.tip)
    BY ReachesStart, EndsLinks, Outside DEF WalksOut
  <2> QED
    BY <2>1 DEF ExtendWalk, WalksOut, Ready
<1>3. KnowsSize'
  BY <1>1 DEF KnowsSize, GrowsBehind, Extending, WalksOut
<1>4. WalkFits'
  BY <1>1, <1>2 DEF WalkFits
<1>5. Lengthens(k)' /\ ~Seeking(k)'
  BY <1>1 DEF Lengthens, Extending, Seeking
<1> QED
  BY <1>1, <1>3, <1>4, <1>5 DEF CallFits

LEMMA HeadBegins ==
  ASSUME NEW k \in Handle, NEW g, file'[k] = g, g.start \in Cluster, g.size \in Nat, g.cur \in Nat,
         NEW n \in Nat, n > 0, PutsDown(op', k, g, n), g.append \/ g.cur <= g.size,
         g.append => k \in astray' \/ g.cur <= g.size,
         Even(k)' => Begun(fat', g)
  PROVE  CallFits' /\ Lengthens(k)' /\ ~Seeking(k)'
<1>1. f' = g /\ op'.h = k /\ op'.pc = "head" /\ op'.ok /\ op'.remain = n /\ op'.len = n
  BY DEF f, PutsDown
<1>2. Even(k)' => HeadFits(fat', op', g)
  <2> SUFFICES ASSUME Begun(fat', g)  PROVE HeadFits(fat', op', g)
    OBVIOUS
  <2>1. PutLeft(op', g)
    BY DEF PutLeft, PutsDown
  <2>2. CASE /\ g.append /\ Fits(fat', g.start, g.size)
             /\ Stands(fat', g.start, g.ap, g.size) \/ Dead(g.ap)
    <3>1. op'.pos = g.ap /\ op'.off = g.size
      BY <2>2 DEF PutsDown
    <3>2. Most(g.size, g.size) = g.size
      BY DEF Most
    <3> QED
      BY <1>1, <2>1, <2>2, <3>1, <3>2 DEF HeadFits, PutAt, PutFits
  <2>3. CASE /\ ~g.append /\ Fits(fat', g.start, g.size)
             /\ g.cur <= g.size => Stands(fat', g.start, g.rw, g.cur)
    <3>1. op'.pos = g.rw /\ op'.off = g.cur /\ g.cur <= g.size
      BY <2>3 DEF PutsDown
    <3>2. Most(g.size, g.cur) = g.size
      BY <3>1 DEF Most
    <3> QED
      BY <1>1, <2>1, <2>3, <3>1, <3>2 DEF HeadFits, PutAt, PutFits
  <2>4. CASE /\ g.size = 0 /\ Tight(fat', g.start, 1)
             /\ (IF g.append THEN g.ap ELSE g.rw) = Position(g.start, 0, 0)
    <3>1. op'.pos = Position(g.start, 0, 0) /\ op'.off = 0
      BY <2>4 DEF PutsDown
    <3>2. Stands(fat', g.start, op'.pos, 0)
      BY <3>1, NothingFits, EndsLinks, Outside
    <3>3. Fresh(fat', g.start, op'.pos, 0)
      <4>1. op'.pos.sector = 0 /\ op'.pos.byte = 0
        BY <3>1 DEF Position
      <4>2. 0 = Clusters(0) /\ 0 + 1 = 1
        BY ClusterFacts
      <4>3. Tight(fat', g.start, 0 + 1)
        BY <2>4, <4>2
      <4> QED
        BY <4>1, <4>2, <4>3 DEF Fresh
    <3> QED
      BY <1>1, <2>1, <2>4, <3>1, <3>2, <3>3 DEF HeadFits, PutAt, PutFits
  <2> QED
    BY <2>2, <2>3, <2>4 DEF Begun
<1>3. KnowsSize'
  BY <1>1 DEF KnowsSize, GrowsBehind, Extending
<1>4. Lengthens(k)' /\ ~Seeking(k)'
  BY <1>1 DEF Lengthens, Seeking
<1> QED
  BY <1>1, <1>2, <1>3, <1>4 DEF CallFits

\* No first cluster is found for a file that has none.
LEMMA NoneFound ==
  ASSUME FileInv, ~conflict, PlaceInv, op.pc = "idle", NEW k \in Handle, Writer(k), file[k].start = Free,
         NEW got, LinkFree(Free, file[k].name, got), UNCHANGED <<file, op, dir, loose, uneven>>,
         astray \subseteq astray', NoIo
  PROVE  PlaceInv'
<1>1. TypeInv /\ Shape /\ SameNames /\ \A h \in Handle : Same(h)
  BY Peaceful, FilesUntouched DEF Same
<1>2. Spares(k)
  BY <1>1, SparesLinked
<1>3. KeepsAll(file[k].start)
  BY NoChainAtAll, EndsLinks
<1>4. Acts(k)
  BY <1>1, <1>2, <1>3 DEF Acts, OwnKept, KeepsAll, Remembers
<1>5. HandleFits(k)'
  <2>1. HandleFits(k) /\ StillAway(k) /\ Remembers /\ SameWriter(k) /\ ~Follower(k)
    BY <1>3, AwayStays DEF PlaceInv, Remembers, SameWriter, Writer, Follower
  <2> QED
    BY <1>1, <2>1, HandleKept
<1>6. Firm'
  BY DEF Firm, PlaceInv
<1> QED
  BY <1>1, <1>4, <1>5, <1>6, IdleFits, NoIoFits, StepFits

\* One is found.
LEMMA FirstFound ==
  ASSUME FileInv, ~conflict, PlaceInv, op.pc = "idle", NEW k \in Handle, Writer(k), file[k].start = Free,
         NEW got \in Cluster, LinkFree(Free, file[k].name, got), UNCHANGED <<dir, loose, uneven>>,
         astray \subseteq astray', NoIo, NEW g, Becomes(k, g),
         g.inUse = file[k].inUse, g.write = file[k].write, g.name = file[k].name,
         g.modified = file[k].modified, g.size = file[k].size, g.cur = file[k].cur,
         g.start = got, g.rw = Position(got, 0, 0), CallFits', Lengthens(k)'
  PROVE  PlaceInv'
<1>1. TypeInv /\ Shape
  BY Peaceful
<1>2. SameNames /\ file'[k] = g /\ \A j \in Handle \ {k} : file'[j] = file[j]
  BY <1>1, NamesKept
<1>3. Spares(k)
  BY <1>1, SparesLinked
<1>4. KeepsAll(file[k].start)
  BY NoChainAtAll, EndsLinks
<1>5. Acts(k)
  <2>1. \A h \in Handle \ {k} : Same(h)
    BY <1>2 DEF Same
  <2> QED
    BY <1>2, <1>3, <1>4, <2>1 DEF Acts, OwnKept, KeepsAll, Remembers
<1>6. HandleFits(k)'
  <2>1. RwStands(k)'
    <3> SUFFICES ASSUME g.cur <= g.size  PROVE Stands(fat', got, Position(got, 0, 0), g.cur)
      BY <1>2 DEF RwStands
    <3>1. g.cur = 0
      BY <1>1, StartType, FileFields DEF HandleOK
    <3>2. got \in Link /\ ~Ends(got)
      BY EndsLinks, Outside
    <3> QED
      BY <3>1, <3>2, NothingFits
  <2> QED
    BY <1>2, <2>1 DEF HandleFits, SizeFits, Follows, Follower, ApStands, Writer
<1>7. Firm'
  <2>1. loose' = loose /\ loose \subseteq Handle /\ Firm
    BY <1>1 DEF PlaceInv, TypeInv, NotesOK
  <2> QED
    BY <1>2, <2>1, FirmStays
<1> QED
  BY <1>1, <1>5, <1>6, <1>7, NoIoFits, StepFits

\* _FAT_ftruncate_r to a larger size: the file is extended.
LEMMA PlaceOfGrow ==
  ASSUME FileInv, ~conflict, PlaceInv, NEW k \in Handle, NEW n \in Places, Grow(k, n)
  PROVE  PlaceInv'
<1> DEFINE Growing(start) == [Idle EXCEPT !.pc = "walk", !.then = "extend", !.h = k,
                                !.tip = start, !.goal = n]
<1>1. /\ op.pc = "idle" /\ Writer(k) /\ n > file[k].size /\ NoIo
      /\ UNCHANGED <<dir, loose, uneven>>
      /\ astray' = (IF LeftBehind(file[k]) THEN astray \cup {k} ELSE astray)
      /\ astray \subseteq astray'
  BY DEF Grow, Call, KeepNotes, Writer
<1>2. TypeInv /\ Shape
  BY Peaceful
<1>3. /\ file[k] \in FileStruct /\ file[k].name \in Name /\ file[k].size \in Nat /\ file[k].cur \in Nat
      /\ (file[k].start = Free => file[k].size = 0)
  BY <1>1, <1>2, StartType, FileFields DEF Writer, HandleOK
<1>4. k \in astray' \/ file[k].cur <= file[k].size
  BY <1>1, <1>3 DEF LeftBehind
<1>5. HandleFits(k) /\ ~Lengthens(k) /\ ~Seeking(k)
  BY <1>1, IdleIsAway DEF PlaceInv, Away
<1>6. ASSUME NEW g, g.start \in Cluster, op' = Growing(g.start)
      PROVE  WalksOut(op', k, g, n, 0)
  BY <1>6 DEF WalksOut, Idle
<1> HIDE DEF Growing
<1>7. CASE file[k].start # Free /\ op' = Growing(file[k].start) /\ UNCHANGED <<table, file>>
  <2>1. PICK g : g = file[k]
    OBVIOUS
  <2>2. g.start \in Cluster
    BY <1>1, <1>2, <1>7, <2>1, OwnChain
  <2>3. WalksOut(op', k, g, n, 0)
    BY <1>6, <1>7, <2>1, <2>2
  <2>4. file'[k] = g /\ fat' = fat
    BY <1>7, <2>1 DEF table
  <2>5. Even(k)' => Ready(fat', g)
    BY <1>1, <1>5, <2>1, <2>4 DEF Even, Ready, HandleFits, SizeFits
  <2>6. PICK z, x : z = 0 /\ x = n
    OBVIOUS
  <2>a. /\ x > g.size /\ WalksOut(op', k, g, x, z) /\ (z > 0 => x = g.cur)
        /\ (z = 0 => k \in astray' \/ g.cur <= g.size)
    BY <1>1, <1>4, <2>1, <2>3, <2>6
  <2>7. CallFits' /\ Lengthens(k)'
    BY <2>2, <2>4, <2>5, <2>a, WalkBegins
  <2>8. Spares(k) /\ Keeps(fat, fat', file[k].start)
    BY <2>4, TableKept DEF KeepsAll
  <2> QED
    BY <1>1, <1>5, <1>7, <2>7, <2>8, NoIoFits, LengthStep
<1>8. ASSUME file[k].start = Free, NEW got \in Results, LinkFree(Free, file[k].name, got),
             IF IsValid(got)
             THEN /\ op' = Growing(got)
                  /\ Becomes(k, [file[k] EXCEPT !.start = got, !.rw = Position(got, 0, 0)])
             ELSE UNCHANGED <<file, op>>
      PROVE  PlaceInv'
  <2>1. CASE ~IsValid(got)
    BY <1>1, <1>8, <2>1, NoneFound
  <2>2. CASE IsValid(got)
    <3>1. got \in Cluster
      BY <2>2 DEF IsValid
    <3>2. PICK g : g = [file[k] EXCEPT !.start = got, !.rw = Position(got, 0, 0)]
      OBVIOUS
    <3>3. Becomes(k, g) /\ op' = Growing(got)
      BY <1>8, <2>2, <3>2
    <3>4. /\ g.inUse = file[k].inUse /\ g.write = file[k].write /\ g.name = file[k].name
          /\ g.modified = file[k].modified /\ g.size = file[k].size /\ g.cur = file[k].cur
          /\ g.start = got /\ g.rw = Position(got, 0, 0)
      BY <1>3, <3>2 DEF FileStruct
    <3>5. WalksOut(op', k, g, n, 0)
      BY <1>6, <3>1, <3>3, <3>4
    <3>6. file'[k] = g
      BY <1>2, <3>3, <3>4, NamesKept
    <3>7. Ready(fat', g)
      BY <1>2, <1>3, <1>8, <3>1, <3>4, LinkHead DEF Ready
    <3>8. PICK z, x : z = 0 /\ x = n
      OBVIOUS
    <3>a. /\ x > g.size /\ WalksOut(op', k, g, x, z) /\ (z > 0 => x = g.cur)
          /\ (z = 0 => k \in astray' \/ g.cur <= g.size) /\ g.start \in Cluster
      BY <1>1, <1>4, <3>1, <3>4, <3>5, <3>8
    <3>9. CallFits' /\ Lengthens(k)'
      BY <3>6, <3>7, <3>a, WalkBegins
    <3> QED
      BY <1>1, <1>8, <3>1, <3>3, <3>4, <3>9, FirstFound
  <2> QED
    BY <2>1, <2>2
<1> QED
  BY <1>7, <1>8 DEF Grow, Growing

\* _FAT_write_r begins: a gap before its position is filled first.
LEMMA PlaceOfWriteBegin ==
  ASSUME FileInv, ~conflict, ~conflict', PlaceInv, NEW k \in Handle, NEW n \in Lens, WriteBegin(k, n)
  PROVE  PlaceInv'
<1>0. PICK len : len = IF n + file[k].size > MaxFile THEN MaxFile - file[k].size ELSE n
  OBVIOUS
<1>1. /\ op.pc = "idle" /\ Writer(k) /\ len > 0 /\ NoIo
      /\ UNCHANGED <<dir, loose, uneven>>
      /\ astray' = (IF file[k].append /\ LeftBehind(file[k]) THEN astray \cup {k} ELSE astray)
      /\ astray \subseteq astray' /\ (~file[k].append => k \notin astray)
  BY <1>0 DEF WriteBegin, Call, Writer
<1>2. TypeInv /\ Shape
  BY Peaceful
<1>3. /\ file[k] \in FileStruct /\ file[k].name \in Name /\ file[k].size \in Nat /\ file[k].cur \in Nat
      /\ (file[k].start = Free => file[k].size = 0)
  BY <1>1, <1>2, StartType, FileFields DEF Writer, HandleOK
<1>a. len \in Nat
  BY <1>0, <1>1, <1>3, CallsAssumption
<1>4. file[k].append => k \in astray' \/ file[k].cur <= file[k].size
  BY <1>1, <1>3 DEF LeftBehind
<1>5. HandleFits(k) /\ ~Lengthens(k) /\ ~Seeking(k) /\ ~Opening(k) /\ k \notin loose
  BY <1>1, IdleIsAway DEF PlaceInv, Away, Firm, Writer
<1>6. ASSUME NEW g, file'[k] = g, op' = Writing(k, g, len), g.start \in Cluster,
             g.size = file[k].size, g.cur = file[k].cur, g.append = file[k].append,
             Even(k)' => Ready(fat', g) /\ Begun(fat', g)
      PROVE  CallFits' /\ Lengthens(k)'
  <2>1. CASE ~g.append /\ g.cur > g.size
    <3>1. WalksOut(op', k, g, g.cur, len)
      BY <1>6, <2>1, WritingFields
    <3>2. PICK x : x = g.cur
      OBVIOUS
    <3>3. /\ WalksOut(op', k, g, x, len) /\ x > g.size /\ (len > 0 => x = g.cur)
          /\ (len = 0 => k \in astray' \/ g.cur <= g.size)
      BY <1>1, <2>1, <3>1, <3>2
    <3> QED
      BY <1>6, <3>3, WalkBegins
  <2>2. CASE ~(~g.append /\ g.cur > g.size)
    <3>1. PutsDown(op', k, g, len)
      BY <1>6, <2>2, WritingFields
    <3>2. g.size \in Nat /\ g.cur \in Nat /\ (g.append \/ g.cur <= g.size)
      BY <1>3, <1>6, <2>2
    <3>3. g.append => k \in astray' \/ g.cur <= g.size
      BY <1>4, <1>6
    <3> QED
      BY <1>1, <1>a, <1>6, <3>1, <3>2, <3>3, HeadBegins
  <2> QED
    BY <2>1, <2>2
<1>7. CASE file[k].start # Free /\ op' = Writing(k, file[k], len) /\ UNCHANGED <<table, file>>
  <2>1. PICK g : g = file[k]
    OBVIOUS
  <2>2. g.start \in Cluster
    BY <1>1, <1>2, <1>7, <2>1, OwnChain
  <2>4. file'[k] = g /\ fat' = fat
    BY <1>7, <2>1 DEF table
  <2>5. Even(k)' => Even(k)
    BY <1>1, <2>1, <2>4 DEF Even
  <2>6. Even(k) => Fits(fat, g.start, g.size)
    BY <1>1, <1>5, <2>1 DEF HandleFits, SizeFits
  <2>7. Even(k) /\ g.append => Stands(fat, g.start, g.ap, g.size) \/ Dead(g.ap)
    BY <1>1, <1>5, <1>7, <2>1 DEF HandleFits, ApStands
  <2>8. Even(k) /\ ~g.append /\ g.cur <= g.size => Stands(fat, g.start, g.rw, g.cur)
    BY <1>1, <1>5, <1>7, <2>1 DEF HandleFits, RwStands, Sure, Writer
  <2>9. Even(k)' => Ready(fat', g) /\ Begun(fat', g)
    <3> SUFFICES ASSUME Even(k)  PROVE Ready(fat, g) /\ Begun(fat, g)
      BY <2>4, <2>5
    <3>1. g.append \in BOOLEAN
      BY <1>3, <2>1, FileFields
    <3> QED
      BY <2>6, <2>7, <2>8, <3>1 DEF Ready, Begun
  <2>10. CallFits' /\ Lengthens(k)'
    BY <1>6, <1>7, <2>1, <2>2, <2>4, <2>9
  <2>11. Spares(k) /\ Keeps(fat, fat', file[k].start)
    BY <2>4, TableKept DEF KeepsAll
  <2> QED
    BY <1>1, <1>5, <1>7, <2>10, <2>11, NoIoFits, LengthStep
<1>8. ASSUME file[k].start = Free, NEW got \in Results, LinkFree(Free, file[k].name, got),
             IF IsValid(got)
             THEN Becomes(k, Headed(k, got)) /\ op' = Writing(k, Headed(k, got), len)
             ELSE UNCHANGED <<file, op>>
      PROVE  PlaceInv'
  <2>1. CASE ~IsValid(got)
    BY <1>1, <1>8, <2>1, NoneFound
  <2>2. CASE IsValid(got)
    <3>1. got \in Cluster
      BY <2>2 DEF IsValid
    <3>2. PICK g : g = Headed(k, got)
      OBVIOUS
    <3>3. Becomes(k, g) /\ op' = Writing(k, g, len)
      BY <1>8, <2>2, <3>2
    <3>4. /\ g.inUse = file[k].inUse /\ g.write = file[k].write /\ g.name = file[k].name
          /\ g.modified = file[k].modified /\ g.size = file[k].size /\ g.cur = file[k].cur
          /\ g.append = file[k].append
          /\ g.start = got /\ g.rw = Position(got, 0, 0) /\ g.ap = Position(got, 0, 0)
      BY <1>3, <3>2 DEF FileStruct, Headed
    <3>6. file'[k] = g
      BY <1>2, <3>3, <3>4, NamesKept
    <3>7. Ready(fat', g) /\ Begun(fat', g)
      <4>1. Tight(fat', g.start, 1) /\ g.size = 0
        BY <1>2, <1>3, <1>8, <3>1, <3>4, LinkHead
      <4> QED
        BY <3>4, <4>1 DEF Ready, Begun
    <3>9. CallFits' /\ Lengthens(k)'
      BY <1>6, <3>1, <3>3, <3>4, <3>6, <3>7
    <3> QED
      BY <1>1, <1>8, <3>1, <3>3, <3>4, <3>9, FirstFound
  <2> QED
    BY <2>1, <2>2
<1>9. \/ file[k].start # Free /\ op' = Writing(k, file[k], len) /\ UNCHANGED <<table, file>>
      \/ /\ file[k].start = Free
         /\ \E got \in Results :
              /\ LinkFree(Free, file[k].name, got)
              /\ IF IsValid(got)
                 THEN Becomes(k, Headed(k, got)) /\ op' = Writing(k, Headed(k, got), len)
                 ELSE UNCHANGED <<file, op>>
  BY <1>0 DEF WriteBegin
<1> QED
  BY <1>7, <1>8, <1>9

-----------------------------------------------------------------------------
(***************************************************************************)
(* The invariant, and the properties that follow from it.                  *)
(***************************************************************************)
\* A disc on which nothing is open.
LEMMA PlaceOfInit == Init => PlaceInv
<1> SUFFICES ASSUME Init  PROVE PlaceInv
  OBVIOUS
<1>1. /\ dir = [n \in Name |-> NoEntry] /\ file = [h \in Handle |-> Closed]
      /\ op = Idle /\ io = {} /\ loose = {}
  BY DEF Init
<1>2. ASSUME NEW h \in Handle  PROVE HandleFits(h)
  <2>1. ~file[h].inUse
    BY <1>1 DEF Closed
  <2> QED
    BY <2>1 DEF HandleFits, SizeFits, Follows, RwStands, ApStands, Writer, Follower, Sure
<1>3. ASSUME NEW n \in Name  PROVE EntryFits(n)
  <2>1. dir[n].start = Eof /\ dir[n].size = 0
    BY <1>1 DEF NoEntry, Entry
  <2> QED
    BY <2>1, NothingFits, EndsLinks DEF EntryFits
<1>4. op.pc = "idle"
  BY <1>1 DEF Idle
<1>5. CallFits
  BY <1>4 DEF CallFits, KnowsSize, GrowsBehind, Extending
<1> QED
  BY <1>1, <1>2, <1>3, <1>5 DEF PlaceInv, Firm, IoFits

LEMMA PlaceOfStutter == ASSUME PlaceInv, UNCHANGED vars  PROVE PlaceInv'
<1>1. /\ UNCHANGED <<fat, tail, dir, file, op, io, loose, astray, uneven>>
  BY DEF vars, table, notes
<1>2. f' = f /\ \A c : NextOf(c)' = NextOf(c)
  BY <1>1 DEF f, NextOf
<1>3. ASSUME NEW h \in Handle  PROVE HandleFits(h)'
  <2>1. HandleFits(h)
    BY DEF PlaceInv
  <2>2. /\ Even(h)' = Even(h) /\ Lengthens(h)' = Lengthens(h) /\ Seeking(h)' = Seeking(h)
        /\ Opening(h)' = Opening(h) /\ Sure(h)' = Sure(h) /\ Follower(h)' = Follower(h)
        /\ \A w \in Handle : Writer(w)' = Writer(w)
    BY <1>1 DEF Even, Lengthens, Extending, Seeking, Opening, Sure, Follower, Writer
  <2> QED
    BY <1>1, <2>1, <2>2 DEF HandleFits, SizeFits, Follows, RwStands, ApStands
<1>4. ASSUME NEW n \in Name  PROVE EntryFits(n)'
  BY <1>1 DEF PlaceInv, EntryFits, Unwritten, Writer
<1>5. Firm'
  BY <1>1 DEF PlaceInv, Firm
<1>6. CallFits'
  <2>1. CallFits
    BY DEF PlaceInv
  <2>2. /\ KnowsSize' = KnowsSize /\ Even(op.h)' = Even(op.h) /\ Sure(op.h)' = Sure(op.h)
        /\ TrimmedAlone' = TrimmedAlone /\ SeekAims' = SeekAims
    BY <1>1, <1>2 DEF KnowsSize, GrowsBehind, Extending, Even, Sure, TrimmedAlone, SeekAims, OpenOn
  <2>3. WalkFits' = WalkFits
    BY <1>1, <1>2, <2>2 DEF WalkFits
  <2>4. ReadRun(fat, op, f)' = ReadRun(fat, op, f)
    BY <1>1, <1>2 DEF ReadRun
  <2> QED
    BY <1>1, <1>2, <2>1, <2>2, <2>3, <2>4 DEF CallFits
<1>7. IoFits'
  BY <1>1, <1>2 DEF PlaceInv, IoFits, Excused, ReadAtFlag
<1> QED
  BY <1>3, <1>4, <1>5, <1>6, <1>7 DEF PlaceInv

\* Every step of the specification keeps what is said of the places.
LEMMA PlaceStep ==
  FileInv /\ (~conflict => PlaceInv) /\ [Next]_vars => (~conflict => PlaceInv)'
<1> SUFFICES ASSUME FileInv, ~conflict => PlaceInv, [Next]_vars, ~conflict'  PROVE PlaceInv'
  OBVIOUS
<1>1. ~conflict /\ PlaceInv
  BY ConflictStays
<1>2. CASE Step
  BY <1>1, <1>2, PlaceOfClear, PlaceOfWalk, PlaceOfOpenAppended, PlaceOfReadGroup, PlaceOfReadGet,
     PlaceOfReadTail, PlaceOfExtendFirst, PlaceOfExtendSector, PlaceOfExtendLast,
     PlaceOfWriteHead, PlaceOfWriteChunk, PlaceOfWriteGroup, PlaceOfWritePut, PlaceOfWriteTail,
     PlaceOfSought, PlaceOfTrim
  DEF Step
<1>3. ASSUME NEW h \in Handle, Begin(h)  PROVE PlaceInv'
  BY <1>1, <1>3, PlaceOfOpen, PlaceOfClose, PlaceOfFsync, PlaceOfReadBegin, PlaceOfWriteBegin,
     PlaceOfSeek, PlaceOfGrow, PlaceOfShrink, PlaceOfSameSize
  DEF Begin
<1>4. CASE \E n \in Name : Unlink(n)
  BY <1>1, <1>4, PlaceOfUnlink
<1>5. CASE Statvfs \/ Remount
  BY <1>1, <1>5, PlaceOfStatvfs, PlaceOfRemount
<1>6. CASE Done \/ UNCHANGED vars
  BY <1>1, <1>6, PlaceOfStutter DEF Done
<1> QED
  BY <1>2, <1>3, <1>4, <1>5, <1>6 DEF Next

PlaceInvs == FileInv /\ (~conflict => PlaceInv)

\* While no file was written by two handles, by one whose position was left
\* behind, or removed under its writer, every handle, every entry, the call under
\* way and its transfers agree with the chains: what
\* _FAT_read_r, _FAT_write_r, _FAT_seek_r, _FAT_ftruncate_r and the rest of
\* fatfile.c leave to one another.
THEOREM PlaceInvariance == Spec => []PlaceInvs
<1>1. Init => PlaceInvs
  BY FileOfInit, PlaceOfInit DEF PlaceInvs
<1>2. PlaceInvs /\ [Next]_vars => PlaceInvs'
  BY FileStep, PlaceStep DEF PlaceInvs
<1> QED
  BY <1>1, <1>2, PTL DEF Spec

\* The ranks of a chain rise along it, wherever it begins.
LEMMA RanksRise ==
  ASSUME TypeInv, Links, NEW s \in Cluster
  PROVE  \A k \in Nat : \A c \in Cluster : Reaches(fat, s, k, c) =>
           place[c].rank = place[s].rank + k
<1> DEFINE S == {k \in Nat : \A c \in Cluster : Reaches(fat, s, k, c) =>
                   place[c].rank = place[s].rank + k}
<1>0. \A c \in Cluster : place[c].rank \in Nat
  BY DEF TypeInv, TableOK, PlaceType
<1>1. 0 \in S
  <2>1. \A c : Reaches(fat, s, 0, c) => c = s
    BY ReachesStart
  <2> QED
    BY <1>0, <2>1
<1>2. ASSUME NEW k \in Nat, k \in S  PROVE k + 1 \in S
  <2>1. ASSUME NEW c \in Cluster, Reaches(fat, s, k + 1, c)
        PROVE  place[c].rank = place[s].rank + (k + 1)
    <3>1. PICK b \in Cluster : Reaches(fat, s, k, b) /\ fat[b] = c
      BY <2>1, ReachesBack
    <3>2. place[b].rank = place[s].rank + k
      BY <1>2, <3>1
    <3>3. place[c].rank = place[b].rank + 1
      BY <3>1 DEF Links
    <3> QED
      BY <1>0, <3>2, <3>3
  <2> QED
    BY <2>1
<1> HIDE DEF S
<1>3. Nat \subseteq S
  BY <1>1, <1>2, UpFromZero
<1> QED
  BY <1>3 DEF S

\* A chain has no more clusters than the disc: every rank is one that Nth has.
LEMMA RankFitsDisc ==
  ASSUME TypeInv, Links, NEW s, NEW k, NEW c, Reaches(fat, s, k, c)
  PROVE  k \in 0 .. Last
<1>1. k \in Nat /\ c \in Cluster \cup {Beyond} /\ s \in Link /\ ~Ends(s)
  BY ReachesType
<1>2. CASE k = 0
  BY <1>2, Constants
<1>3. CASE k > 0
  <2>1. PICK p \in Paths(fat, s, k) : p[k] = c
    BY DEF Reaches
  <2>2. \A i \in 0 .. k - 1 : p[i] \in Cluster
    BY <2>1 DEF Paths
  <2>3. \A i \in 0 .. k - 1 : Reaches(fat, s, i, p[i])
    <3> SUFFICES ASSUME NEW i \in 0 .. k - 1  PROVE Reaches(fat, s, i, p[i])
      OBVIOUS
    <3>1. i \in Nat /\ i < k
      BY <1>1
    <3> DEFINE q == [j \in 0 .. i |-> p[j]]
    <3>2. q \in [0 .. i -> Link] /\ q[0] = s /\ q[i] = p[i]
      BY <1>1, <2>1, <3>1 DEF Paths
    <3>3. \A j \in 0 .. i - 1 : q[j] \in Cluster /\ fat[q[j]] = q[j + 1]
      <4> SUFFICES ASSUME NEW j \in 0 .. i - 1  PROVE q[j] \in Cluster /\ fat[q[j]] = q[j + 1]
        OBVIOUS
      <4>1. j \in 0 .. i /\ j + 1 \in 0 .. i /\ j \in 0 .. k - 1
        BY <1>1, <3>1
      <4>2. p[j] \in Cluster /\ fat[p[j]] = p[j + 1]
        BY <2>1, <4>1 DEF Paths
      <4> QED
        BY <4>1, <4>2
    <3>4. ~Ends(q[i])
      BY <2>2, <3>2, EndsLinks
    <3> HIDE DEF q
    <3>5. q \in Paths(fat, s, i)
      BY <3>2, <3>3, <3>4 DEF Paths
    <3> QED
      BY <3>1, <3>2, <3>5 DEF Reaches
  <2>4. s \in Cluster
    BY <1>1, <1>3, <2>1, <2>2 DEF Paths
  <2>5. ASSUME NEW i \in 0 .. k - 1, NEW j \in 0 .. k - 1, p[i] = p[j]  PROVE i = j
    <3>1. place[p[i]].rank = place[s].rank + i /\ place[p[j]].rank = place[s].rank + j
      BY <1>1, <2>2, <2>3, <2>4, RanksRise
    <3>2. place[s].rank \in Nat
      BY <2>4 DEF TypeInv, TableOK, PlaceType
    <3> QED
      BY <2>5, <3>1, <3>2
  <2> DEFINE m == [i \in 0 .. k - 1 |-> p[i]]
  <2>6. m \in Injection(0 .. k - 1, Cluster)
    BY <2>2, <2>5 DEF Injection, IsInjective
  <2> HIDE DEF m
  <2>7. IsFiniteSet(Cluster) /\ Cardinality(Cluster) = Last - 1
    BY RecountType
  <2>8. Cardinality(0 .. k - 1) <= Cardinality(Cluster)
    BY <2>6, <2>7, FS_Injection
  <2>9. Cardinality(0 .. k - 1) = k
    <3>1. 0 \in Int /\ k - 1 \in Int
      BY <1>1
    <3>2. Cardinality(0 .. (k - 1)) = IF 0 > k - 1 THEN 0 ELSE (k - 1) - 0 + 1
      BY <3>1, FS_Interval
    <3> QED
      BY <1>1, <1>3, <3>2
  <2> QED
    BY <1>1, <2>7, <2>8, <2>9, Constants
<1> QED
  BY <1>1, <1>2, <1>3

\* Nth is what the paths reach.
LEMMA NthReached ==
  ASSUME TypeInv, NEW s
  PROVE  \A k \in Nat : k <= Last => \A c : Reaches(fat, s, k, c) => Nth(s)[k] = c
<1> DEFINE S == {k \in Nat : k <= Last => \A c : Reaches(fat, s, k, c) => Nth(s)[k] = c}
<1>1. 0 \in S
  BY ReachesStart, NthIs DEF NthOK
<1>2. ASSUME NEW k \in Nat, k \in S  PROVE k + 1 \in S
  <2>1. ASSUME k + 1 <= Last, NEW c, Reaches(fat, s, k + 1, c)  PROVE Nth(s)[k + 1] = c
    <3>1. PICK b \in Cluster : Reaches(fat, s, k, b) /\ fat[b] = c
      BY <2>1, ReachesBack
    <3>2. k <= Last /\ k \in 0 .. Last - 1
      BY <2>1, Constants
    <3>3. Nth(s)[k] = b
      BY <1>2, <3>1, <3>2
    <3>4. NextOf(b) = c
      <4>1. b # Beyond
        BY <3>1, Outside
      <4> QED
        BY <3>1, <4>1, Outside DEF NextOf
    <3> QED
      BY <3>2, <3>3, <3>4, NthIs DEF NthOK
  <2> QED
    BY <2>1
<1> HIDE DEF S
<1>3. Nat \subseteq S
  BY <1>1, <1>2, UpFromZero
<1> QED
  BY <1>3 DEF S

LEMMA NthOfRank ==
  ASSUME TypeInv, Links, NEW s, NEW k, NEW c, Reaches(fat, s, k, c)
  PROVE  k \in 0 .. Last /\ k \in Nat /\ Nth(s)[k] = c
<1>1. k \in 0 .. Last
  BY RankFitsDisc
<1>2. k \in Nat /\ k <= Last
  BY <1>1, Constants
<1> QED
  BY <1>1, <1>2, NthReached

\* Nothing follows an end.
LEMMA NthEnds ==
  ASSUME NEW s, NEW k \in Nat, k <= Last, Ends(Nth(s)[k])
  PROVE  \A j \in Nat : k <= j /\ j <= Last => Ends(Nth(s)[j])
<1> DEFINE S == {i \in Nat : k + i <= Last => Ends(Nth(s)[k + i])}
<1>1. 0 \in S
  OBVIOUS
<1>2. ASSUME NEW i \in Nat, i \in S  PROVE i + 1 \in S
  <2>1. ASSUME k + (i + 1) <= Last  PROVE Ends(Nth(s)[k + (i + 1)])
    <3>1. k + i <= Last /\ k + i \in 0 .. Last - 1 /\ k + (i + 1) = (k + i) + 1
      BY <2>1, Constants
    <3>2. Ends(Nth(s)[k + i])
      BY <1>2, <3>1
    <3>3. Nth(s)[(k + i) + 1] = NextOf(Nth(s)[k + i])
      BY <3>1, NthIs DEF NthOK
    <3>4. \A c : Ends(c) => NextOf(c) = Free
      BY Outside DEF Ends, NextOf
    <3> QED
      BY <3>1, <3>2, <3>3, <3>4, EndsLinks
  <2> QED
    BY <2>1
<1> HIDE DEF S
<1>3. Nat \subseteq S
  BY <1>1, <1>2, UpFromZero
<1>4. ASSUME NEW j \in Nat, k <= j, j <= Last  PROVE Ends(Nth(s)[j])
  <2>1. j - k \in Nat /\ k + (j - k) = j
    BY <1>4
  <2>2. j - k \in S
    BY <1>3, <2>1
  <2> QED
    BY <1>4, <2>1, <2>2 DEF S
<1> QED
  BY <1>4

\* What a transfer has of the chain is where Nth puts its bytes.
LEMMA PlacesOfTransfers == PlaceInvs => TransfersInPlace
<1> SUFFICES ASSUME PlaceInvs, ~conflict, NEW t \in io, ~Excused(t), NEW k \in 0 .. t.n - 1
             PROVE  t.at + k = Nth(file[t.h].start)[(t.off + k) \div Bpc] * Bpc + ((t.off + k) % Bpc)
  BY DEF TransfersInPlace, Excused
<1>1. TypeInv /\ Links /\ PlaceInv
  BY Peaceful DEF PlaceInvs
<1>2. t.off \in Nat /\ t.n \in Nat /\ t.at \in Nat /\ k \in Nat
  BY <1>1 DEF TypeInv, IoOK, TransferRecord
<1>3. PICK s : s = file[t.h].start
  OBVIOUS
<1>4. InPlace(fat, s, t.off, t.n, t.at)
  BY <1>1, <1>3 DEF PlaceInv, IoFits
<1>5. PICK r \in Nat, c \in Link, b \in 0 .. Bpc - 1 :
        Reaches(fat, s, r, c) /\ t.off + k = Clusters(r) + b /\ t.at + k = Clusters(c) + b
  BY <1>4 DEF InPlace
<1>6. PICK x \in Nat : x = t.off + k
  BY <1>2
<1>7. b \in Nat /\ b < Bpc
  BY Sizes3
<1>8. x \div Bpc = r /\ x % Bpc = b
  BY <1>5, <1>6, <1>7, ClustersUnique
<1>9. Nth(s)[r] = c
  BY <1>1, <1>5, NthOfRank
<1>10. t.at + k = Nth(s)[r] * Bpc + b
  BY <1>5, <1>9 DEF Clusters
<1> QED
  BY <1>3, <1>6, <1>8, <1>10

\* The number of clusters of a chain that ends.
LEMMA CardOfTight ==
  ASSUME TypeInv, Links, NEW s, NEW k, Tight(fat, s, k), \A i \in 0 .. Last : Nth(s)[i] # Beyond
  PROVE  k \in Nat /\ Cardinality(ChainOf(s)) = k
<1>1. CASE k = 0 /\ Ends(s)
  <2>1. 0 \in Nat /\ 0 <= Last /\ Ends(Nth(s)[0])
    BY <1>1, NthIs, Constants DEF NthOK
  <2>2. \A j \in Nat : 0 <= j /\ j <= Last => Ends(Nth(s)[j])
    BY <2>1, NthEnds
  <2>3. \A j \in 0 .. Last : Nth(s)[j] \notin Cluster
    BY <2>2, EndsLinks, Constants
  <2>4. ChainOf(s) = {}
    BY <2>3 DEF ChainOf
  <2> QED
    BY <1>1, <2>4, FS_EmptySet
<1>2. CASE k \in Nat \ {0} /\ \E c \in Link : Reaches(fat, s, k - 1, c) /\ (c = Beyond \/ Ends(fat[c]))
  <2>1. PICK c \in Link : Reaches(fat, s, k - 1, c) /\ (c = Beyond \/ Ends(fat[c]))
    BY <1>2
  <2>2. k - 1 \in 0 .. Last /\ k - 1 \in Nat /\ Nth(s)[k - 1] = c
    BY <1>1, <2>1, NthOfRank
  <2>3. c \in Cluster /\ Ends(fat[c])
    BY <2>1, <2>2, ReachesType
  <2>4. ASSUME NEW i \in 0 .. k - 1
        PROVE  Nth(s)[i] \in Cluster /\ Reaches(fat, s, i, Nth(s)[i]) /\ i \in 0 .. Last
    <3>1. CASE i = k - 1
      BY <2>1, <2>2, <2>3, <3>1
    <3>2. CASE i < k - 1
      <4>1. i \in Nat
        BY <1>2
      <4>2. PICK d \in Cluster : Reaches(fat, s, i, d)
        BY <2>1, <3>2, <4>1, ReachesBack
      <4> QED
        BY <4>2, NthOfRank
    <3> QED
      BY <1>2, <3>1, <3>2
  <2>5. s \in Cluster
    <3>1. 0 \in 0 .. k - 1
      BY <1>2
    <3> QED
      BY <2>4, <3>1, NthIs DEF NthOK
  <2>6. ASSUME NEW i \in 0 .. k - 1, NEW j \in 0 .. k - 1, Nth(s)[i] = Nth(s)[j]  PROVE i = j
    <3>1. i \in Nat /\ j \in Nat
      BY <1>2
    <3>2. /\ place[Nth(s)[i]].rank = place[s].rank + i
          /\ place[Nth(s)[j]].rank = place[s].rank + j
      BY <2>4, <2>5, <3>1, RanksRise
    <3>3. place[s].rank \in Nat
      BY <2>5 DEF TypeInv, TableOK, PlaceType
    <3> QED
      BY <2>6, <3>1, <3>2, <3>3
  <2>7. ASSUME NEW j \in 0 .. Last, j >= k  PROVE Nth(s)[j] \notin Cluster
    <3>1. k - 1 \in 0 .. Last - 1 /\ (k - 1) + 1 = k /\ j \in Nat /\ k <= Last
      BY <1>2, <2>2, <2>7, Constants
    <3>2. Nth(s)[(k - 1) + 1] = NextOf(Nth(s)[k - 1])
      BY <3>1, NthIs DEF NthOK
    <3>3. NextOf(c) = fat[c]
      <4>1. c # Beyond
        BY <2>3, Outside
      <4> QED
        BY <2>3, <4>1, Outside DEF NextOf
    <3>4. Ends(Nth(s)[k])
      BY <2>2, <2>3, <3>1, <3>2, <3>3
    <3>5. Ends(Nth(s)[j])
      BY <1>2, <2>7, <3>1, <3>4, NthEnds
    <3> QED
      BY <3>5, EndsLinks
  <2> DEFINE m == [i \in 0 .. k - 1 |-> Nth(s)[i]]
             T == {Nth(s)[i] : i \in 0 .. Last} \cap Cluster
  <2>8. m \in Bijection(0 .. k - 1, T)
    <3>1. m \in [0 .. k - 1 -> T]
      BY <2>4
    <3>2. \A i, j \in 0 .. k - 1 : m[i] = m[j] => i = j
      BY <2>6
    <3>3. ASSUME NEW x \in T  PROVE \E i \in 0 .. k - 1 : m[i] = x
      <4>1. PICK i \in 0 .. Last : x = Nth(s)[i] /\ x \in Cluster
        OBVIOUS
      <4>2. ~(i >= k)
        BY <2>7, <4>1
      <4>3. i \in 0 .. k - 1
        BY <1>2, <4>2, Constants
      <4> QED
        BY <4>1, <4>3
    <3> HIDE DEF m, T
    <3> QED
      BY <3>1, <3>2, <3>3 DEF Bijection, Injection, Surjection, IsInjective
  <2> HIDE DEF m, T
  <2>9. IsFiniteSet(0 .. (k - 1)) /\ Cardinality(0 .. (k - 1)) = k
    <3>1. 0 \in Int /\ k - 1 \in Int
      BY <1>2
    <3>2. /\ IsFiniteSet(0 .. (k - 1))
          /\ Cardinality(0 .. (k - 1)) = IF 0 > k - 1 THEN 0 ELSE (k - 1) - 0 + 1
      BY <3>1, FS_Interval
    <3> QED
      BY <1>2, <3>2
  <2>10. Cardinality(T) = k
    <3>1. ExistsBijection(0 .. (k - 1), T)
      BY <2>8 DEF ExistsBijection
    <3> QED
      BY <2>9, <3>1, FS_Bijection
  <2> QED
    BY <1>2, <2>10 DEF T, ChainOf
<1> QED
  BY <1>1, <1>2 DEF Tight

\* The number of clusters that x bytes need.
LEMMA CoversNeeded ==
  ASSUME NEW x \in Nat, NEW k \in Nat, Covers(k, x)
  PROVE  (x + Bpc - 1) \div Bpc = k
<1>1. Clusters(k) \in Nat /\ x <= Clusters(k) /\ Clusters(k) < x + Bpc /\ Bpc \in Nat /\ Bpc > 0
  BY ClusterFacts, Sizes3 DEF Covers
<1>2. PICK y \in Nat : y = x + Bpc - 1
  BY <1>1
<1>3. PICK b \in Nat : b = y - Clusters(k)
  BY <1>1, <1>2
<1>4. b < Bpc /\ y = Clusters(k) + b
  BY <1>1, <1>2, <1>3
<1>5. y \div Bpc = k
  BY <1>4, ClustersUnique
<1> QED
  BY <1>2, <1>5

\* A chain that covers a size has the number of clusters the code computes for it.
LEMMA SizesOfChains == PlaceInvs => ChainFitsSize
<1> SUFFICES ASSUME PlaceInvs, op.pc = "idle", ~conflict, NEW n \in Name \ uneven, dir[n] # NoEntry,
                    Beyond \notin {Nth(Head(n))[k] : k \in 0 .. Last}
             PROVE  Cardinality(ChainOf(Head(n))) = (SizeOf(n) + Bpc - 1) \div Bpc
  BY DEF ChainFitsSize
<1>1. TypeInv /\ Links /\ PlaceInv
  BY Peaceful DEF PlaceInvs
<1>2. PICK s, x : s = Head(n) /\ x = SizeOf(n)
  OBVIOUS
<1>3. Fits(fat, s, x) /\ x \in Nat
  <2>1. CASE Writers(n) = {}
    <3>1. s = dir[n].start /\ x = dir[n].size
      BY <1>2, <2>1 DEF Head, SizeOf
    <3>2. Unwritten(n)
      BY <2>1 DEF Writers, OpenOn, Unwritten, Writer
    <3>3. EntryFits(n) /\ dir[n].size \in Nat
      BY <1>1 DEF PlaceInv, TypeInv, DiscOK
    <3> QED
      BY <3>1, <3>2, <3>3 DEF EntryFits
  <2>2. CASE Writers(n) # {}
    <3>1. PICK h : h = CHOOSE w \in Writers(n) : TRUE
      OBVIOUS
    <3>2. s = file[h].start /\ x = file[h].size /\ h \in Writers(n)
      BY <1>2, <2>2, <3>1 DEF Head, SizeOf
    <3>3. h \in Handle /\ Writer(h) /\ file[h].name = n
      BY <3>2 DEF Writers, OpenOn, Writer
    <3>4. HandleFits(h) /\ ~Lengthens(h) /\ Even(h)
      BY <1>1, <3>3, IdleIsAway DEF PlaceInv, Away, Even
    <3>5. x \in Nat
      BY <1>1, <3>2, <3>3, StartType, FileFields
    <3> QED
      BY <3>2, <3>3, <3>4, <3>5 DEF HandleFits, SizeFits
  <2> QED
    BY <2>1, <2>2
<1>4. \A i \in 0 .. Last : Nth(s)[i] # Beyond
  BY <1>2
<1>5. PICK k \in Nat : Covers(k, x) /\ (Tight(fat, s, k) \/ Reaches(fat, s, k, Beyond))
  BY <1>3 DEF Fits
<1>6. ~Reaches(fat, s, k, Beyond)
  BY <1>1, <1>4, NthOfRank
<1>7. Cardinality(ChainOf(s)) = k
  BY <1>1, <1>4, <1>5, <1>6, CardOfTight
<1>8. (x + Bpc - 1) \div Bpc = k
  BY <1>3, <1>5, CoversNeeded
<1> QED
  BY <1>2, <1>7, <1>8

\* Every byte that _FAT_read_r and _FAT_write_r transfer, and every zero of
\* _FAT_file_extend_r, goes to the place the chain has for it, for every size of
\* sectors and clusters, every disc, and every way a call is cut into runs of
\* clusters, whole sectors and their parts.
THEOREM EveryTransferIsInPlace == Spec => []TransfersInPlace
BY PlaceInvariance, PlacesOfTransfers, PTL

\* Between two calls the chain of a file has exactly the clusters its size needs,
\* whatever _FAT_write_r, _FAT_file_extend_r, _FAT_ftruncate_r and _FAT_open_r did
\* before and in which order.
THEOREM EveryChainFitsItsSize == Spec => []ChainFitsSize
BY PlaceInvariance, SizesOfChains, PTL
=============================================================================
