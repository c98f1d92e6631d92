----------------------- MODULE BundleDirectory_proofs -----------------------
(***************************************************************************)
(* Proofs about BundleDirectory, for any set of build arguments, any       *)
(* number of tiles, of builds and of loads.                                *)
(*                                                                         *)
(* The lemmas are about what a build computes: the balls around a tile     *)
(* (BallStops), the two partitions (PartitionSplits), the sorted arrays    *)
(* (SortedFacts).  The invariant says how far the builder is, what lies on *)
(* the disk, and what a load has taken from it.                            *)
(***************************************************************************)
EXTENDS BundleDirectory, FiniteSetTheorems, TLAPS

-----------------------------------------------------------------------------
(* The search of expand_input_halo.                                         *)

Arcs(q) == q.edges \cup (IF q.undirected THEN {<<e[2], e[1]>> : e \in q.edges} ELSE {})

(* The nodes that send to a node of S.                                      *)
Senders(q, S) == {e[1] : e \in {e \in Arcs(q) : e[2] \in S}}

(* f[k] is the ball of radius k around a set, for k up to n.                *)
IsBall(f, q, out, n) ==
  f = [k \in 0 .. n |-> IF k = 0 THEN out ELSE f[k - 1] \cup Senders(q, f[k - 1])]

Ball(q, out) == CHOOSE f : IsBall(f, q, out, q.hops)

(* The receptive field is the last ball.                                    *)
LEMMA FieldIsBall ==
  ASSUME NEW q, NEW out
  PROVE  ReceptiveField(q, out) = Ball(q, out)[q.hops]
  BY DEF ReceptiveField, Ball, IsBall, Senders, Arcs

(* A set of naturals has a least element.                                   *)
LEMMA First ==
  ASSUME NEW T, T \subseteq Nat, T # {}
  PROVE  \E m \in T : \A j \in T : m <= j
<1>1. PICK m \in T : \A j \in T : ~ (<<j, m>> \in OpToRel(<, Nat))
  BY NatLessThanWellFounded, WFMin
<1>2. \A j \in T : ~(j < m)
  BY <1>1 DEF OpToRel
<1> QED
  BY <1>2

(* The recursion of the balls has a solution.                               *)
LEMMA BallExists ==
  ASSUME NEW q, NEW out, NEW h \in Nat
  PROVE  \E f : IsBall(f, q, out, h)
<1> DEFINE T == {n \in 0 .. h : ~ \E f : IsBall(f, q, out, n)}
<1>1. SUFFICES T = {}
  OBVIOUS
<1>2. SUFFICES ASSUME T # {} PROVE FALSE
  OBVIOUS
<1>3. T \subseteq Nat
  OBVIOUS
<1>4. PICK n \in T : \A j \in T : n <= j
  <2> HIDE DEF T
  <2> QED
    BY <1>2, <1>3, First
<1>5. n \in 0 .. h /\ ~ \E f : IsBall(f, q, out, n)
  OBVIOUS
<1>6. CASE n = 0
  <2>1. IsBall([k \in 0 .. 0 |-> out], q, out, 0)
    BY DEF IsBall
  <2> QED
    BY <1>5, <1>6, <2>1
<1>7. CASE n # 0
  <2>1. n - 1 \in 0 .. h /\ n - 1 \notin T
    BY <1>4, <1>5, <1>7
  <2>2. PICK f : IsBall(f, q, out, n - 1)
    BY <2>1
  <2> DEFINE g == [k \in 0 .. n |->
                     IF k = 0 THEN out ELSE f[k - 1] \cup Senders(q, f[k - 1])]
  <2>3. \A k \in 0 .. n - 1 : g[k] = f[k]
    <3>1. \A k \in 0 .. n - 1 :
            f[k] = IF k = 0 THEN out ELSE f[k - 1] \cup Senders(q, f[k - 1])
      <4> HIDE DEF g
      <4> QED
        BY <2>2, Zenon DEF IsBall
    <3>2. \A k \in 0 .. n - 1 : k \in 0 .. n
      BY <1>5
    <3> QED
      BY <3>1, <3>2, Zenon
  <2>4. \A k \in 0 .. n : k # 0 => k - 1 \in 0 .. n - 1
    BY <1>5
  <2>5. g = [k \in 0 .. n |-> IF k = 0 THEN out ELSE g[k - 1] \cup Senders(q, g[k - 1])]
    BY <2>3, <2>4
  <2> QED
    BY <1>5, <2>5 DEF IsBall
<1> QED
  BY <1>6, <1>7

(* The balls satisfy their recursion.                                       *)
LEMMA BallStep ==
  ASSUME NEW q, NEW out, q.hops \in Nat
  PROVE  /\ Ball(q, out)[0] = out
         /\ \A k \in 1 .. q.hops :
              Ball(q, out)[k] = Ball(q, out)[k - 1] \cup Senders(q, Ball(q, out)[k - 1])
<1> DEFINE f == Ball(q, out)
<1>1. IsBall(f, q, out, q.hops)
  BY BallExists, Zenon DEF Ball
<1> HIDE DEF f
<1>2. \A k \in 0 .. q.hops :
        f[k] = IF k = 0 THEN out ELSE f[k - 1] \cup Senders(q, f[k - 1])
  BY <1>1, Zenon DEF IsBall
<1>3. 0 \in 0 .. q.hops /\ \A k \in 1 .. q.hops : k \in 0 .. q.hops /\ k # 0
  OBVIOUS
<1>4. f[0] = out /\ \A k \in 1 .. q.hops : f[k] = f[k - 1] \cup Senders(q, f[k - 1])
  BY <1>2, <1>3, Zenon
<1> QED
  BY <1>4 DEF f

(* A ball that nobody outside sends to is the last one.                     *)
LEMMA BallStops ==
  ASSUME NEW q, NEW out, q.hops \in Nat, NEW h \in 0 .. q.hops,
         Senders(q, Ball(q, out)[h]) \subseteq Ball(q, out)[h]
  PROVE  Ball(q, out)[q.hops] = Ball(q, out)[h]
<1> DEFINE f == Ball(q, out)
           T == {k \in h .. q.hops : f[k] # f[h]}
<1>1. \A k \in 1 .. q.hops : f[k] = f[k - 1] \cup Senders(q, f[k - 1])
  BY BallStep
<1>2. Senders(q, f[h]) \subseteq f[h]
  OBVIOUS
<1> HIDE DEF f
<1>3. SUFFICES ASSUME T # {} PROVE FALSE
  <2>1. q.hops \in h .. q.hops
    OBVIOUS
  <2> QED
    BY <2>1 DEF f
<1>4. T \subseteq Nat
  OBVIOUS
<1>5. PICK k \in T : \A j \in T : k <= j
  <2> HIDE DEF T
  <2> QED
    BY <1>3, <1>4, First
<1>6. k \in h .. q.hops /\ f[k] # f[h]
  OBVIOUS
<1>7. k # h
  BY <1>6
<1>8. k - 1 \in h .. q.hops /\ k \in 1 .. q.hops /\ ~(k <= k - 1)
  BY <1>6, <1>7
<1>9. f[k - 1] = f[h]
  BY <1>5, <1>8
<1>10. f[k] = f[h] \cup Senders(q, f[h])
  BY <1>1, <1>8, <1>9
<1> QED
  BY <1>2, <1>6, <1>10

-----------------------------------------------------------------------------
(* Arithmetic of the partitions.                                            *)

(* Multiplying by a positive number keeps the order.                        *)
LEMMA Times ==
  ASSUME NEW a \in Int, NEW b \in Int, NEW k \in Nat \ {0}
  PROVE  /\ a * k \in Int /\ b * k \in Int
         /\ a <= b => a * k <= b * k
         /\ a < b <=> a * k < b * k
<1>1. a * k \in Int /\ b * k \in Int
  BY SMTT(30)
<1>2. a <= b => a * k <= b * k
  BY SMTT(30)
<1>3. a < b => a * k < b * k
  BY SMTT(30)
<1> DEFINE ak == a * k
           bk == b * k
<1> HIDE DEF ak, bk
<1>4. a * k < b * k => a < b
  <2>1. ~ (a < b) => b * k <= a * k
    BY SMTT(30)
  <2>2. ak \in Int /\ bk \in Int /\ (~(a < b) => bk <= ak)
    BY <1>1, <2>1 DEF ak, bk
  <2>3. ak < bk => a < b
    BY <2>2
  <2> QED
    BY <2>3 DEF ak, bk
<1> QED
  BY <1>1, <1>2, <1>3, <1>4

(* Quotient and remainder.                                                  *)
LEMMA Parts ==
  ASSUME NEW x \in Nat, NEW k \in Nat \ {0}
  PROVE  /\ x \div k \in Nat /\ x % k \in 0 .. k - 1
         /\ (x \div k) * k \in Nat
         /\ x = (x \div k) * k + (x % k)
<1> DEFINE d == x \div k
           m == x % k
<1>1. d \in Int /\ m \in 0 .. k - 1 /\ x = k * d + m
  OBVIOUS
<1> HIDE DEF d, m
<1>2. k * d = d * k /\ d * k \in Int
  BY <1>1, SMTT(30)
<1>3. d >= 0
  <2>1. d <= -1 => d * k <= (-1) * k
    BY <1>1, Times
  <2>2. (-1) * k = -k
    OBVIOUS
  <2> DEFINE p == d * k
  <2> HIDE DEF p
  <2>3. x = p + m /\ p \in Int /\ (d <= -1 => p <= -k)
    BY <1>1, <1>2, <2>1, <2>2 DEF p
  <2> QED
    BY <1>1, <2>3
<1>4. d * k >= 0
  <2>1. 0 * k <= d * k
    BY <1>1, <1>3, Times
  <2> QED
    BY <2>1
<1> DEFINE p == d * k
<1> HIDE DEF p
<1>5. p \in Nat /\ x = p + m /\ d \in Nat
  BY <1>1, <1>2, <1>3, <1>4 DEF p
<1> QED
  BY <1>1, <1>5 DEF p, d, m

LEMMA Division ==
  ASSUME NEW n \in Nat \ {0}, NEW q \in Nat, NEW r \in 0 .. n - 1
  PROVE  (q * n + r) \div n = q /\ (q * n + r) % n = r
<1> DEFINE x == q * n + r
           d == x \div n
           rest == x % n
           gap == d - q
           p == gap * n
<1>1. x \in Nat
  <2>1. q * n \in Nat
    BY SMTT(30)
  <2> QED
    BY <2>1
<1>2. d \in Int /\ rest \in 0 .. n - 1
  <2> HIDE DEF x
  <2> QED
    BY <1>1
<1>3. x = n * d + rest
  <2> HIDE DEF x
  <2> QED
    BY <1>1
<1>4. gap \in Int
  BY <1>2
<1>5. p = r - rest
  <2>1. p = d * n - q * n
    <3> HIDE DEF d
    <3> QED
      BY <1>2, SMTT(30)
  <2>2. q * n \in Int /\ d * n \in Int /\ n * d = d * n
    <3> HIDE DEF d
    <3> QED
      BY <1>2, SMTT(30)
  <2>3. q * n + r = d * n + rest
    BY <1>3, <2>2
  <2> HIDE DEF p, d, rest
  <2> QED
    BY <1>2, <2>1, <2>2, <2>3
<1> HIDE DEF rest, gap
<1>6. (gap >= 1 => p >= n) /\ (gap <= -1 => p <= -n)
  BY <1>4, SMTT(30)
<1> HIDE DEF p
<1>7. gap = 0
  BY <1>2, <1>4, <1>5, <1>6
<1>8. d = q
  BY <1>2, <1>7 DEF gap
<1>9. rest = r
  BY <1>2, <1>5, <1>7 DEF p
<1> QED
  BY <1>8, <1>9 DEF d, x, rest

(* The cells of a table with a rows of b columns are 0 .. a * b - 1.        *)
LEMMA Cells ==
  ASSUME NEW a \in Nat \ {0}, NEW b \in Nat \ {0}
  PROVE  /\ a * b \in Nat \ {0}
         /\ \A x \in 0 .. a * b - 1 : x \div b \in 0 .. a - 1 /\ x % b \in 0 .. b - 1
         /\ \A i \in 0 .. a - 1, j \in 0 .. b - 1 : i * b + j \in 0 .. a * b - 1
<1> DEFINE n == a * b
<1>1. n \in Nat \ {0}
  <2>1. 0 * b < a * b /\ a * b \in Int
    BY Times
  <2> QED
    BY <2>1
<1>2. ASSUME NEW x \in 0 .. n - 1
      PROVE  x \div b \in 0 .. a - 1 /\ x % b \in 0 .. b - 1
  <2> DEFINE d == x \div b
             m == x % b
  <2>1. x \in Nat /\ x < n
    BY <1>1
  <2>2. d \in Nat /\ m \in 0 .. b - 1 /\ d * b \in Nat /\ x = d * b + m
    BY <2>1, Parts
  <2> HIDE DEF d, m
  <2> DEFINE p == d * b
  <2> HIDE DEF p, n
  <2>3. p < n
    BY <1>1, <2>1, <2>2 DEF p
  <2>4. d < a
    BY <2>2, <2>3, Times DEF p, n
  <2>5. d \in 0 .. a - 1 /\ m \in 0 .. b - 1
    BY <2>2, <2>4
  <2> QED
    BY <2>5 DEF d, m
<1>3. ASSUME NEW i \in 0 .. a - 1, NEW j \in 0 .. b - 1
      PROVE  i * b + j \in 0 .. n - 1
  <2> DEFINE p == i * b
             r == (a - 1) * b
  <2>1. 0 * b <= p /\ p <= r /\ p \in Int /\ r \in Int
    BY Times
  <2>2. r + b = n
    BY SMTT(30)
  <2> HIDE DEF p, r, n
  <2>3. p + j \in 0 .. n - 1
    BY <1>1, <2>1, <2>2
  <2> QED
    BY <2>3 DEF p
<1> QED
  BY <1>1, <1>2, <1>3

(* Blocks of k cover a run of n: none is empty, and none begins beyond it.  *)
LEMMA Blocks ==
  ASSUME NEW n \in Nat \ {0}, NEW k \in Nat \ {0}
  PROVE  /\ Ceil(n, k) \in Nat \ {0}
         /\ \A x \in 0 .. n - 1 : x \div k \in 0 .. Ceil(n, k) - 1
         /\ \A c \in 0 .. Ceil(n, k) - 1 : c * k \in 0 .. n - 1 /\ (c * k) \div k = c
<1> DEFINE y == n + k - 1
           C == Ceil(n, k)
           m == y % k
           p == C * k
<1>1. y \in Nat
  OBVIOUS
<1>2. C \in Nat /\ m \in 0 .. k - 1 /\ p \in Nat /\ y = p + m
  BY <1>1, Parts DEF Ceil
<1> HIDE DEF C, m
<1>3. n <= p /\ p <= n + k - 1
  <2> HIDE DEF p
  <2> QED
    BY <1>2
<1>4. C # 0
  <2>1. C = 0 => p = 0
    OBVIOUS
  <2> HIDE DEF p
  <2> QED
    BY <1>2, <1>3, <2>1
<1>5. ASSUME NEW x \in 0 .. n - 1
      PROVE  x \div k \in 0 .. C - 1
  <2> DEFINE d == x \div k
             r == x % k
             t == d * k
  <2>1. d \in Nat /\ r \in 0 .. k - 1 /\ t \in Nat /\ x = t + r
    <3>1. x \in Nat
      OBVIOUS
    <3> QED
      BY <3>1, Parts
  <2> HIDE DEF d, r
  <2>2. t < p
    <3> HIDE DEF t, p
    <3> QED
      BY <1>2, <1>3, <2>1
  <2>3. d < C
    BY <1>2, <2>1, <2>2, Times
  <2>4. d \in 0 .. C - 1
    BY <1>2, <2>1, <2>3
  <2> QED
    BY <2>4 DEF d
<1>6. ASSUME NEW c \in 0 .. C - 1
      PROVE  c * k \in 0 .. n - 1 /\ (c * k) \div k = c
  <2> DEFINE t == c * k
             r == (C - 1) * k
  <2>1. c \in Nat /\ C - 1 \in Nat /\ c <= C - 1
    BY <1>2, <1>4
  <2>2. 0 * k <= t /\ t <= r /\ t \in Int /\ r \in Int
    BY <2>1, Times
  <2>3. r + k = p
    BY <1>2, SMTT(30)
  <2>4. (c * k + 0) \div k = c
    BY <2>1, Division
  <2>5. t + 0 = t
    BY <2>2
  <2>6. t \in 0 .. n - 1
    <3> HIDE DEF t, r, p
    <3> QED
      BY <1>2, <1>3, <2>2, <2>3
  <2> QED
    BY <2>4, <2>5, <2>6
<1> QED
  BY <1>2, <1>4, <1>5, <1>6 DEF C

-----------------------------------------------------------------------------
(* What a build that gets past its argument checks divides.                 *)

Fit(q) == q \in Builds /\ ArgumentsFit(q) /\ q.hops >= 0

(* The tiles cover the nodes below this one.                                *)
Limit(q) ==
  IF q.tileGrid # NoGrid THEN GridOf(q)[1] * GridOf(q)[2] ELSE NodesOf(q)

Positives == Nat \ {0}

(* A grid has rows and columns.                                             *)
LEMMA GridFacts ==
  ASSUME NEW q, Fit(q), GridOf(q) # NoGrid
  PROVE  /\ GridOf(q) \in Int \X Int
         /\ GridOf(q)[1] \in Positives /\ GridOf(q)[2] \in Positives
<1>1. /\ q.grid \in (Int \X Int) \cup {NoGrid}
      /\ q.resolution \in Int \cup {None}
      /\ q.grid # NoGrid => Positive(q.grid)
      /\ q.resolution # None => q.resolution > 0 /\ 180 % q.resolution = 0
  BY BuildAssumption DEF Fit, ArgumentsFit, GridAgrees
<1>2. CASE q.resolution = None
  BY <1>1, <1>2 DEF GridOf, Positive, Positives
<1>3. CASE q.resolution # None
  <2> DEFINE r == q.resolution
             h == 180 \div r
             w == 360 \div r
             m == 360 % r
             z == 180 % r
  <2>1. r \in Nat \ {0} /\ z = 0
    BY <1>1, <1>3
  <2> HIDE DEF r
  <2>2. /\ h \in Nat /\ w \in Nat /\ m \in 0 .. r - 1
        /\ h * r \in Nat /\ 180 = h * r + z
        /\ w * r \in Nat /\ 360 = w * r + m
    <3>1. \A n \in Nat : /\ n \div r \in Nat /\ n % r \in 0 .. r - 1
                        /\ (n \div r) * r \in Nat /\ n = (n \div r) * r + (n % r)
      BY <2>1, Parts
    <3> QED
      BY <3>1
  <2>3. (h = 0 => h * r = 0) /\ (w = 0 => w * r = 0)
    <3> HIDE DEF h, w
    <3> QED
      BY <2>1
  <2>4. 1 <= h => 1 * r <= h * r
    <3> HIDE DEF h
    <3> QED
      BY <2>1, <2>2, Times
  <2> DEFINE hr == h * r
             wr == w * r
  <2>5. w # 0
    <3> HIDE DEF h, w, m, z
    <3>1. hr = 180 /\ h # 0
      BY <2>1, <2>2, <2>3
    <3>2. r <= hr
      <4>1. 1 <= h /\ 1 * r = r
        BY <2>1, <2>2, <3>1
      <4> QED
        BY <2>4, <4>1
    <3>3. w = 0 => wr = 0
      BY <2>3
    <3> HIDE DEF hr, wr
    <3> QED
      BY <2>1, <2>2, <3>1, <3>2, <3>3 DEF wr
  <2>6. GridOf(q) = <<h + 1, w>>
    BY <1>3 DEF GridOf, ResolutionGrid, r
  <2> HIDE DEF h, w
  <2> QED
    BY <2>2, <2>5, <2>6 DEF Positives
<1> QED
  BY <1>2, <1>3

(* There is at least one node.                                              *)
LEMMA NodeFacts ==
  ASSUME NEW q, Fit(q)
  PROVE  NodesOf(q) \in Positives
<1>1. NodesOf(q) > 0 /\ (q.nodes # None \/ GridOf(q) # NoGrid) /\ q.nodes \in Int \cup {None}
  BY BuildAssumption DEF Fit, ArgumentsFit
<1>2. CASE q.nodes # None
  BY <1>1, <1>2 DEF NodesOf, Positives
<1>3. CASE q.nodes = None
  <2>1. GridOf(q)[1] \in Nat \ {0} /\ GridOf(q)[2] \in Nat \ {0}
    BY <1>1, <1>3, GridFacts DEF Positives
  <2>2. GridOf(q)[1] * GridOf(q)[2] \in Nat \ {0}
    BY <2>1, Cells
  <2> QED
    BY <1>3, <2>2 DEF NodesOf, Positives
<1> QED
  BY <1>2, <1>3

(* A function on 1 .. n is a sequence of n.                                 *)
LEMMA LenIs ==
  ASSUME NEW n \in Nat, NEW s, s = [k \in 1 .. n |-> s[k]]
  PROVE  Len(s) = n /\ DOMAIN s = 1 .. n
<1> DEFINE S == {s[k] : k \in 1 .. n}
<1>1. s \in [1 .. n -> S]
  OBVIOUS
<1>2. s \in Seq(S)
  <2> HIDE DEF S
  <2> QED
    BY <1>1
<1> HIDE DEF S
<1>3. DOMAIN s = 1 .. Len(s) /\ Len(s) \in Nat /\ DOMAIN s = 1 .. n
  BY <1>1, <1>2
<1> QED
  BY <1>3

(* The sets of a sequence split 0 .. n - 1: none is empty, no two overlap.  *)
Splits(P, n) ==
  /\ Len(P) \in Positives /\ DOMAIN P = 1 .. Len(P)
  /\ \A k \in 1 .. Len(P) : P[k] \subseteq 0 .. n - 1 /\ P[k] # {}
  /\ \A x \in 0 .. n - 1 : \E k \in 1 .. Len(P) : x \in P[k]
  /\ \A j, k \in 1 .. Len(P) : j # k => P[j] \cap P[k] = {}

(* Contiguous runs.                                                         *)
LEMMA RunsSplit ==
  ASSUME NEW n \in Positives, NEW size \in Positives
  PROVE  Splits([k \in 1 .. Ceil(n, size) |-> {x \in 0 .. n - 1 : x \div size = k - 1}], n)
<1> DEFINE C == Ceil(n, size)
           P == [k \in 1 .. C |-> {x \in 0 .. n - 1 : x \div size = k - 1}]
<1>1. /\ C \in Nat \ {0}
      /\ \A x \in 0 .. n - 1 : x \div size \in 0 .. C - 1
      /\ \A c \in 0 .. C - 1 : c * size \in 0 .. n - 1 /\ (c * size) \div size = c
  BY Blocks DEF Positives
<1> HIDE DEF C
<1>2. Len(P) = C /\ DOMAIN P = 1 .. C
  BY <1>1, LenIs
<1>3. ASSUME NEW k \in 1 .. C
      PROVE  P[k] \subseteq 0 .. n - 1 /\ P[k] # {}
  <2>1. k - 1 \in 0 .. C - 1
    BY <1>1
  <2>2. (k - 1) * size \in 0 .. n - 1 /\ ((k - 1) * size) \div size = k - 1
    BY <1>1, <2>1
  <2>3. (k - 1) * size \in P[k]
    BY <2>2
  <2> QED
    BY <2>3
<1>4. ASSUME NEW x \in 0 .. n - 1
      PROVE  \E k \in 1 .. C : x \in P[k]
  <2> DEFINE d == x \div size
  <2>1. d \in 0 .. C - 1
    BY <1>1
  <2> HIDE DEF d
  <2>2. d + 1 \in 1 .. C /\ (d + 1) - 1 = d
    BY <1>1, <2>1
  <2>3. x \in P[d + 1]
    BY <2>2 DEF d
  <2> QED
    BY <2>2, <2>3
<1>5. ASSUME NEW j \in 1 .. C, NEW k \in 1 .. C, j # k
      PROVE  P[j] \cap P[k] = {}
  <2>1. j - 1 # k - 1
    BY <1>1, <1>5
  <2> QED
    BY <2>1
<1>6. C \in Positives
  BY <1>1 DEF Positives
<1> HIDE DEF P
<1>7. Splits(P, n)
  BY <1>2, <1>3, <1>4, <1>5, <1>6 DEF Splits
<1> QED
  BY <1>7 DEF P, C

(* Blocks of b x c nodes of a grid of g x h.                                *)
GridBlocks(g, h, b, c) ==
  [k \in 1 .. Ceil(g, b) * Ceil(h, c) |->
     {i * h + j : i \in {i \in 0 .. g - 1 : i \div b = (k - 1) \div Ceil(h, c)},
                  j \in {j \in 0 .. h - 1 : j \div c = (k - 1) % Ceil(h, c)}}]

LEMMA BlocksSplit ==
  ASSUME NEW g \in Positives, NEW h \in Positives, NEW b \in Positives, NEW c \in Positives
  PROVE  Splits(GridBlocks(g, h, b, c), g * h)
<1> DEFINE tall == Ceil(g, b)
           wide == Ceil(h, c)
           C == tall * wide
           n == g * h
           Block(r, s) == {i * h + j : i \in {i \in 0 .. g - 1 : i \div b = r},
                                       j \in {j \in 0 .. h - 1 : j \div c = s}}
           P == [k \in 1 .. C |-> Block((k - 1) \div wide, (k - 1) % wide)]
<1>1. /\ tall \in Nat \ {0}
      /\ \A x \in 0 .. g - 1 : x \div b \in 0 .. tall - 1
      /\ \A r \in 0 .. tall - 1 : r * b \in 0 .. g - 1 /\ (r * b) \div b = r
  BY Blocks DEF Positives
<1>2. /\ wide \in Nat \ {0}
      /\ \A x \in 0 .. h - 1 : x \div c \in 0 .. wide - 1
      /\ \A s \in 0 .. wide - 1 : s * c \in 0 .. h - 1 /\ (s * c) \div c = s
  BY Blocks DEF Positives
<1> HIDE DEF tall, wide
<1>3. /\ C \in Nat \ {0}
      /\ \A x \in 0 .. C - 1 : x \div wide \in 0 .. tall - 1 /\ x % wide \in 0 .. wide - 1
      /\ \A r \in 0 .. tall - 1, s \in 0 .. wide - 1 : r * wide + s \in 0 .. C - 1
  BY <1>1, <1>2, Cells
<1>4. /\ n \in Nat \ {0}
      /\ \A x \in 0 .. n - 1 : x \div h \in 0 .. g - 1 /\ x % h \in 0 .. h - 1
      /\ \A i \in 0 .. g - 1, j \in 0 .. h - 1 : i * h + j \in 0 .. n - 1
  BY Cells DEF Positives
<1> HIDE DEF C, n
<1>5. Len(P) = C /\ DOMAIN P = 1 .. C
  BY <1>3, LenIs
<1>6. \A k \in 1 .. C : P[k] = Block((k - 1) \div wide, (k - 1) % wide)
  OBVIOUS
<1> HIDE DEF P
<1>7. ASSUME NEW k \in 1 .. C
      PROVE  /\ (k - 1) \div wide \in 0 .. tall - 1 /\ (k - 1) % wide \in 0 .. wide - 1
             /\ k - 1 = ((k - 1) \div wide) * wide + ((k - 1) % wide)
  <2>1. k - 1 \in 0 .. C - 1 /\ k - 1 \in Nat
    BY <1>3
  <2> QED
    BY <1>2, <1>3, <2>1, Parts
<1>8. ASSUME NEW k \in 1 .. C
      PROVE  P[k] \subseteq 0 .. n - 1 /\ P[k] # {}
  <2> DEFINE r == (k - 1) \div wide
             s == (k - 1) % wide
  <2>1. r \in 0 .. tall - 1 /\ s \in 0 .. wide - 1
    BY <1>7
  <2>2. P[k] = Block(r, s)
    BY <1>6
  <2> HIDE DEF r, s
  <2>3. /\ r * b \in 0 .. g - 1 /\ (r * b) \div b = r
        /\ s * c \in 0 .. h - 1 /\ (s * c) \div c = s
    BY <1>1, <1>2, <2>1
  <2>4. (r * b) * h + s * c \in Block(r, s)
    BY <2>3
  <2>5. Block(r, s) \subseteq 0 .. n - 1
    BY <1>4
  <2> QED
    BY <2>2, <2>4, <2>5
<1>9. ASSUME NEW r, NEW s, NEW x \in Block(r, s)
      PROVE  (x \div h) \div b = r /\ (x % h) \div c = s
  <2>1. PICK i \in 0 .. g - 1, j \in 0 .. h - 1 :
          i \div b = r /\ j \div c = s /\ x = i * h + j
    OBVIOUS
  <2> DEFINE y == i * h + j
  <2>2. y \div h = i /\ y % h = j
    <3>1. i \in Nat /\ j \in 0 .. h - 1 /\ h \in Nat \ {0}
      BY DEF Positives
    <3> HIDE DEF Block
    <3> QED
      BY <3>1, Division
  <2> HIDE DEF y
  <2>3. x = y
    BY <2>1 DEF y
  <2>4. x \div h = i /\ x % h = j
    BY <2>2, <2>3
  <2>5. i \div b = r /\ j \div c = s
    BY <2>1
  <2> QED
    BY <2>4, <2>5
<1>10. ASSUME NEW x \in 0 .. n - 1
       PROVE  \E k \in 1 .. C : x \in P[k]
  <2> DEFINE i == x \div h
             j == x % h
             r == i \div b
             s == j \div c
             k == r * wide + s + 1
  <2>1. i \in 0 .. g - 1 /\ j \in 0 .. h - 1
    BY <1>4
  <2>2. x = i * h + j
    <3>1. x \in Nat /\ h \in Nat \ {0}
      BY <1>4 DEF Positives
    <3> QED
      BY <3>1, Parts
  <2> HIDE DEF i, j
  <2>3. r \in 0 .. tall - 1 /\ s \in 0 .. wide - 1
    BY <1>1, <1>2, <2>1
  <2>4. x \in Block(r, s)
    BY <2>1, <2>2
  <2> HIDE DEF r, s
  <2>5. r * wide + s \in 0 .. C - 1
    BY <1>3, <2>3
  <2>6. (r * wide + s) \div wide = r /\ (r * wide + s) % wide = s
    <3>1. r \in Nat
      BY <2>3
    <3>2. wide \in Nat \ {0} /\ s \in 0 .. wide - 1
      BY <1>2, <2>3
    <3> QED
      BY <3>1, <3>2, Division, Zenon
  <2> DEFINE t == r * wide + s
  <2>7. t \in 0 .. C - 1 /\ t \div wide = r /\ t % wide = s
    BY <2>5, <2>6
  <2> HIDE DEF t
  <2>8. t + 1 \in 1 .. C /\ (t + 1) - 1 = t
    BY <1>3, <2>7
  <2>9. P[t + 1] = Block(r, s)
    BY <1>6, <2>7, <2>8
  <2> QED
    BY <2>4, <2>8, <2>9
<1>11. ASSUME NEW j \in 1 .. C, NEW k \in 1 .. C, NEW x \in P[j], x \in P[k]
       PROVE  j = k
  <2> HIDE DEF Block
  <2>1. /\ (x \div h) \div b = (j - 1) \div wide /\ (x % h) \div c = (j - 1) % wide
        /\ (x \div h) \div b = (k - 1) \div wide /\ (x % h) \div c = (k - 1) % wide
    <3> DEFINE r1 == (j - 1) \div wide
               s1 == (j - 1) % wide
               r2 == (k - 1) \div wide
               s2 == (k - 1) % wide
    <3>1. x \in Block(r1, s1)
      BY <1>6, Zenon
    <3>2. x \in Block(r2, s2)
      BY <1>6, <1>11, Zenon
    <3> HIDE DEF r1, s1, r2, s2
    <3>3. /\ (x \div h) \div b = r1 /\ (x % h) \div c = s1
          /\ (x \div h) \div b = r2 /\ (x % h) \div c = s2
      BY <1>9, <3>1, <3>2
    <3> QED
      BY <3>3 DEF r1, s1, r2, s2
  <2>2. (j - 1) \div wide = (k - 1) \div wide /\ (j - 1) % wide = (k - 1) % wide
    BY <2>1
  <2>3. j - 1 = k - 1
    BY <1>7, <2>2, Zenon
  <2>4. j \in Int /\ k \in Int
    OBVIOUS
  <2> QED
    BY <2>3, <2>4
<1>12. \A j, k \in 1 .. C : j # k => P[j] \cap P[k] = {}
  BY <1>11
<1>13. C \in Positives
  BY <1>3 DEF Positives
<1>14. Splits(P, n)
  BY <1>5, <1>8, <1>10, <1>12, <1>13, Zenon DEF Splits
<1> QED
  BY <1>14 DEF P, C, n, tall, wide, GridBlocks

(* Either partition splits the nodes below Limit.                           *)
LEMMA PartitionSplits ==
  ASSUME NEW q, Fit(q)
  PROVE  /\ Limit(q) \in Positives
         /\ Splits(Partition(q), Limit(q))
         /\ Len(Partition(q)) <= MaxTiles
<1>1. /\ q.tileGrid \in (Int \X Int) \cup {NoGrid}
      /\ {q.tileNodes, q.tileCount} \subseteq Int \cup {None}
      /\ Len(Partition(q)) <= MaxTiles
  BY BuildAssumption DEF Fit
<1>2. CASE q.tileGrid # NoGrid
  <2>1. Positive(q.tileGrid) /\ GridOf(q) # NoGrid
    BY <1>2 DEF Fit, ArgumentsFit
  <2>2. GridOf(q)[1] \in Positives /\ GridOf(q)[2] \in Positives
    BY <2>1, GridFacts
  <2>3. q.tileGrid[1] \in Positives /\ q.tileGrid[2] \in Positives
    BY <1>1, <1>2, <2>1 DEF Positive, Positives
  <2>4. Limit(q) \in Positives
    <3>1. GridOf(q)[1] * GridOf(q)[2] \in Positives
      BY <2>2, Cells DEF Positives
    <3> QED
      BY <1>2, <3>1 DEF Limit
  <2>5. Splits(GridPartition(q), GridOf(q)[1] * GridOf(q)[2])
    <3>1. GridPartition(q) = GridBlocks(GridOf(q)[1], GridOf(q)[2], q.tileGrid[1], q.tileGrid[2])
      BY DEF GridPartition, GridBlocks
    <3> QED
      BY <2>2, <2>3, <3>1, BlocksSplit
  <2> QED
    BY <1>1, <1>2, <2>4, <2>5 DEF Partition, Limit
<1>3. CASE q.tileGrid = NoGrid
  <2>1. /\ (q.tileNodes = None) # (q.tileCount = None)
        /\ q.tileNodes # None => q.tileNodes > 0
        /\ q.tileCount # None => q.tileCount > 0
    BY <1>3 DEF Fit, ArgumentsFit
  <2>2. NodesOf(q) \in Positives
    BY NodeFacts
  <2> DEFINE size == IF q.tileCount # None THEN Ceil(NodesOf(q), q.tileCount) ELSE q.tileNodes
  <2>3. size \in Positives
    <3>1. CASE q.tileCount # None
      <4>1. q.tileCount \in Nat \ {0}
        BY <1>1, <2>1, <3>1
      <4>2. Ceil(NodesOf(q), q.tileCount) \in Nat \ {0}
        BY <2>2, <4>1, Blocks DEF Positives
      <4> QED
        BY <3>1, <4>2 DEF Positives
    <3>2. CASE q.tileCount = None
      BY <1>1, <2>1, <3>2 DEF Positives
    <3> QED
      BY <3>1, <3>2
  <2>4. Splits(ContiguousPartition(q), NodesOf(q))
    <3>1. ContiguousPartition(q)
            = [k \in 1 .. Ceil(NodesOf(q), size) |-> {x \in 0 .. NodesOf(q) - 1 : x \div size = k - 1}]
      BY Zenon DEF ContiguousPartition
    <3> HIDE DEF size
    <3> QED
      BY <2>2, <2>3, <3>1, RunsSplit
  <2> QED
    BY <1>1, <1>3, <2>2, <2>4 DEF Partition, Limit
<1> QED
  BY <1>2, <1>3

-----------------------------------------------------------------------------
(* Sorted(S) holds each element of a finite set of numbers, once.           *)

Rank(S, x) == Cardinality({y \in S : y < x})

(* A smaller element has a smaller rank.                                    *)
LEMMA RankGrows ==
  ASSUME NEW S, S \subseteq Int, IsFiniteSet(S), NEW x \in S, NEW y \in S, x < y
  PROVE  Rank(S, x) \in Nat /\ Rank(S, x) < Rank(S, y)
<1> DEFINE A == {z \in S : z < x}
           B == {z \in S : z < y}
<1>1. IsFiniteSet(A) /\ IsFiniteSet(B) /\ A \in SUBSET S
  <2>1. A \in SUBSET S /\ B \in SUBSET S
    OBVIOUS
  <2> HIDE DEF A, B
  <2> QED
    BY <2>1, FS_Subset
<1>2. x \notin A /\ (A \cup {x}) \in SUBSET B
  <2>1. x \in Int /\ y \in Int /\ \A z \in S : z \in Int
    OBVIOUS
  <2>2. \A z \in A : z \in B
    BY <2>1
  <2>3. x \in B /\ x \notin A
    BY <2>1
  <2> HIDE DEF A, B
  <2> QED
    BY <2>2, <2>3
<1> HIDE DEF A, B
<1>3. Cardinality(A) \in Nat /\ Cardinality(B) \in Nat
  BY <1>1, FS_CardinalityType
<1>4. IsFiniteSet(A \cup {x}) /\ Cardinality(A \cup {x}) = Cardinality(A) + 1
  BY <1>1, <1>2, FS_AddElement
<1>5. Cardinality(A \cup {x}) <= Cardinality(B)
  BY <1>1, <1>2, FS_Subset
<1>6. Cardinality(A) < Cardinality(B)
  BY <1>3, <1>4, <1>5
<1> QED
  BY <1>3, <1>6 DEF Rank, A, B

LEMMA SortedFacts ==
  ASSUME NEW S, S \subseteq Int, IsFiniteSet(S)
  PROVE  /\ Sorted(S) \in Seq(Int)
         /\ DOMAIN Sorted(S) = 1 .. Cardinality(S) /\ Cardinality(S) \in Nat
         /\ \A k \in DOMAIN Sorted(S) : Sorted(S)[k] \in S
         /\ \A x \in S : \E k \in DOMAIN Sorted(S) : Sorted(S)[k] = x
         /\ \A j, k \in DOMAIN Sorted(S) : Sorted(S)[j] = Sorted(S)[k] => j = k
<1> DEFINE n == Cardinality(S)
           T == 0 .. n - 1
           f == [x \in S |-> Rank(S, x)]
<1>1. n \in Nat
  BY FS_CardinalityType
<1>2. \A x, y \in S : x # y => Rank(S, x) # Rank(S, y)
  <2>1. ASSUME NEW x \in S, NEW y \in S, x # y
        PROVE  Rank(S, x) # Rank(S, y)
    <3>1. \A a, b \in S : a < b => Rank(S, a) \in Nat /\ Rank(S, a) < Rank(S, b)
      BY RankGrows
    <3>2. \A a \in S : Rank(S, a) \in Nat
      <4>1. ASSUME NEW a \in S PROVE Rank(S, a) \in Nat
        <5>1. {y_1 \in S : y_1 < a} \in SUBSET S
          OBVIOUS
        <5> QED
          BY <5>1, FS_Subset, FS_CardinalityType DEF Rank
      <4> QED
        BY <4>1
    <3>3. x \in Int /\ y \in Int
      OBVIOUS
    <3>4. CASE x < y
      BY <3>1, <3>2, <3>4
    <3>5. CASE y < x
      BY <3>1, <3>2, <3>5
    <3> QED
      BY <2>1, <3>3, <3>4, <3>5
  <2> QED
    BY <2>1
<1>3. ASSUME NEW x \in S PROVE Rank(S, x) \in T
  <2> DEFINE A == {y \in S : y < x}
  <2>1. A \in SUBSET S /\ x \notin A
    OBVIOUS
  <2> HIDE DEF A
  <2>2. IsFiniteSet(A) /\ Cardinality(A) \in Nat /\ Cardinality(A) <= n
    BY <2>1, FS_Subset, FS_CardinalityType
  <2>3. Cardinality(A) # n
    BY <2>1, FS_Subset
  <2>4. Cardinality(A) \in T
    BY <1>1, <2>2, <2>3
  <2> QED
    BY <2>4 DEF Rank, A
<1>4. f \in [S -> T]
  BY <1>3
<1>5. f \in Injection(S, T)
  BY <1>2, <1>4 DEF Injection, IsInjective
<1>6. IsFiniteSet(T) /\ Cardinality(T) = n
  <2>1. IsFiniteSet(T) /\ Cardinality(T) = IF 0 > n - 1 THEN 0 ELSE n - 1 - 0 + 1
    BY <1>1, FS_Interval
  <2> HIDE DEF T
  <2> QED
    BY <1>1, <2>1
<1> HIDE DEF f, T
<1>7. f \in Surjection(S, T)
  BY <1>5, <1>6, FS_Injection
<1>8. \A r \in T : \E x \in S : f[x] = r
  BY <1>7, Zenon DEF Surjection
<1>9. \A r \in T : \E x \in S : Rank(S, x) = r
  BY <1>8 DEF f
<1> DEFINE At(k) == CHOOSE x \in S : Cardinality({y \in S : y < x}) = k - 1
<1>10. ASSUME NEW k \in 1 .. n PROVE At(k) \in S /\ Rank(S, At(k)) = k - 1
  <2>1. k - 1 \in T
    BY <1>1 DEF T
  <2>2. \E x \in S : Cardinality({y \in S : y < x}) = k - 1
    BY <1>9, <2>1 DEF Rank
  <2> QED
    BY <2>2 DEF Rank
<1>11. Sorted(S) = [k \in 1 .. n |-> At(k)]
  BY Zenon DEF Sorted
<1> HIDE DEF At, n
<1>12. Sorted(S) \in [1 .. n -> Int]
  BY <1>10, <1>11
<1>13. Sorted(S) \in Seq(Int) /\ DOMAIN Sorted(S) = 1 .. n
  BY <1>1, <1>12
<1>14. \A k \in 1 .. n : Sorted(S)[k] = At(k)
  BY <1>11, Zenon
<1>15. ASSUME NEW x \in S PROVE \E k \in 1 .. n : Sorted(S)[k] = x
  <2>1. Rank(S, x) \in T
    BY <1>3
  <2>2. PICK k \in 1 .. n : Rank(S, x) = k - 1
    <3>1. Rank(S, x) + 1 \in 1 .. n /\ Rank(S, x) = (Rank(S, x) + 1) - 1
      BY <1>1, <2>1 DEF T
    <3> QED
      BY <3>1
  <2>3. Rank(S, At(k)) = Rank(S, x) /\ At(k) \in S
    BY <1>10, <2>2
  <2>4. At(k) = x
    BY <1>2, <2>3
  <2> QED
    BY <1>14, <2>4
<1>16. ASSUME NEW j \in 1 .. n, NEW k \in 1 .. n, Sorted(S)[j] = Sorted(S)[k]
       PROVE  j = k
  <2>1. At(j) = At(k)
    BY <1>14, <1>16
  <2>2. j - 1 = k - 1
    BY <1>10, <2>1
  <2> QED
    BY <2>2
<1>17. \A k \in 1 .. n : Sorted(S)[k] \in S
  BY <1>10, <1>14
<1>18. /\ \A k \in DOMAIN Sorted(S) : Sorted(S)[k] \in S
       /\ \A x \in S : \E k \in DOMAIN Sorted(S) : Sorted(S)[k] = x
       /\ \A j, k \in DOMAIN Sorted(S) : Sorted(S)[j] = Sorted(S)[k] => j = k
  BY <1>13, <1>15, <1>16, <1>17, Zenon
<1> QED
  BY <1>1, <1>13, <1>18, Zenon DEF n

-----------------------------------------------------------------------------
(* The inductive invariant.                                                 *)

InputOf(q, k) == Sorted(ReceptiveField(q, Partition(q)[k]))

OutputOf(q, k) == Sorted(Partition(q)[k])

NumTiles(q) == Len(Partition(q))

(* The builder works on a build that fits, on one of its tiles.             *)
Working ==
  /\ phase \in {"idle", "expand", "input", "half", "output", "saved", "manifest"}
  /\ started \in 0 .. MaxBuilds
  /\ \A q \in begun : Fit(q)
  /\ build \in begun \cup {None} /\ whole \in begun \cup {None}
  /\ phase # "idle" => build \in begun /\ tile \in 1 .. NumTiles(build)
  /\ DOMAIN inputFile = 1 .. MaxTiles /\ DOMAIN outputFile = 1 .. MaxTiles

(* The search has reached the ball of radius hop, and everyone who sends to *)
(* a node behind the frontier has been visited; what is saved is complete.  *)
Searching ==
  phase # "idle" =>
    /\ hop \in 0 .. build.hops
    /\ visited = Ball(build, Partition(build)[tile])[hop]
    /\ Partition(build)[tile] \subseteq visited
    /\ frontier \subseteq visited
    /\ Senders(build, visited \ frontier) \subseteq visited
    /\ phase \in {"input", "half", "output"} => HaloDone

(* Whatever is whole on the disk was meant by a build that has begun.       *)
Meant ==
  /\ \A k \in 1 .. MaxTiles :
       /\ inputFile[k] \in {Missing, Torn} \/
            \E q \in begun : k \in 1 .. NumTiles(q) /\ inputFile[k] = InputOf(q, k)
       /\ outputFile[k] \in {Missing, Torn} \/
            \E q \in begun : k \in 1 .. NumTiles(q) /\ outputFile[k] = OutputOf(q, k)
  /\ manifestFile \in {Missing, Torn} \/ \E q \in begun : manifestFile = ManifestOf(q)

Holds(q, k) == inputFile[k] = InputOf(q, k) /\ outputFile[k] = OutputOf(q, k)

(* The files of the tiles before the one at hand are those of this build.   *)
Progress ==
  /\ phase # "idle" => \A k \in 1 .. tile - 1 : Holds(build, k)
  /\ phase \in {"half", "output"} => inputFile[tile] = InputOf(build, tile)
  /\ phase \in {"saved", "manifest"} => tile = NumTiles(build) /\ Holds(build, tile)

(* The directory is whole until the first file of the next build opens.     *)
Intact ==
  whole # None =>
    /\ phase \in {"idle", "expand"} /\ (phase = "expand" => tile = 1)
    /\ \A k \in 1 .. NumTiles(whole) : Holds(whole, k)
    /\ manifestFile = ManifestOf(whole)

BInv == Working /\ Searching /\ Meant /\ Progress /\ Intact

Read(k) == Loader!OutputOf(loaded[k])

(* What a load has in hand: tiles that do not overlap and that make up      *)
(* covered ...                                                              *)
Disjoint ==
  /\ covered \subseteq 0 .. opened.nodesOut - 1
  /\ \A x : x \in covered <=> \E k \in 1 .. cursor - 1 : x \in Read(k)
  /\ \A j, k \in 1 .. cursor - 1 : j # k => Read(j) \cap Read(k) = {}

(* ... and that were meant.                                                 *)
Genuine ==
  /\ \E q \in begun : opened = ManifestOf(q)
  /\ \A k \in 1 .. cursor - 1 :
       /\ \E q \in begun : k \in 1 .. NumTiles(q) /\ loaded[k].input = InputOf(q, k)
       /\ \E q \in begun : k \in 1 .. NumTiles(q) /\ loaded[k].output = OutputOf(q, k)
  /\ inputRead # None =>
       \E q \in begun : cursor \in 1 .. NumTiles(q) /\ inputRead = InputOf(q, cursor)

ReadTiles == {TileOf(in, out) : in, out \in Seq(Int)}

Loading ==
  /\ verdict \in {"none", "tiles", "accepted", "rejected"}
  /\ loads \in 0 .. MaxLoads
  /\ cursor \in Nat \ {0} /\ loaded \in Seq(ReadTiles)
  /\ Len(loaded) = cursor - 1
  /\ verdict \in {"tiles", "accepted"} =>
       cursor <= Len(opened.tiles) + 1 /\ Disjoint /\ Genuine
  /\ verdict = "accepted" =>
       cursor = Len(opened.tiles) + 1 /\ covered = 0 .. opened.nodesOut - 1

(* A load that saw one whole build has the first tiles of it.               *)
Following ==
  source # None =>
    /\ source = whole
    /\ verdict # "none"
    /\ opened = ManifestOf(source)
    /\ cursor <= NumTiles(source) + 1
    /\ \A k \in 1 .. cursor - 1 : loaded[k] = TileOf(InputOf(source, k), OutputOf(source, k))
    /\ inputRead # None => inputRead = InputOf(source, cursor)
    /\ verdict = "rejected" => ~Loadable(source)
    /\ verdict = "accepted" => Loadable(source) /\ cursor = NumTiles(source) + 1

IInv == BInv /\ Loading /\ Following

-----------------------------------------------------------------------------
(* What a build that fits writes.                                           *)

(* Senders are nodes of the graph: Adjacent finds exactly them.             *)
LEMMA SendersFacts ==
  ASSUME NEW q, Fit(q)
  PROVE  \A S : /\ Senders(q, S) \subseteq 0 .. NodesOf(q) - 1
                /\ Senders(q, S) = Neighbours(q, S)
<1>1. /\ q.edges \subseteq Int \X Int /\ q.undirected \in BOOLEAN
      /\ \A e \in q.edges : e[1] \in 0 .. NodesOf(q) - 1 /\ e[2] \in 0 .. NodesOf(q) - 1
  BY BuildAssumption DEF Fit, ArgumentsFit
<1>2. \A e \in q.edges : e = <<e[1], e[2]>>
  BY <1>1
<1> DEFINE N == 0 .. NodesOf(q) - 1
<1>3. \A u, v : <<u, v>> \in Arcs(q) <=>
                  (<<u, v>> \in q.edges \/ (q.undirected /\ <<v, u>> \in q.edges))
  <2>1. CASE q.undirected
    <3>1. Arcs(q) = q.edges \cup {<<e[2], e[1]>> : e \in q.edges}
      BY <2>1 DEF Arcs
    <3>2. \A u, v : <<u, v>> \in {<<e[2], e[1]>> : e \in q.edges} <=> <<v, u>> \in q.edges
      BY <1>2
    <3> QED
      BY <2>1, <3>1, <3>2
  <2>2. CASE ~q.undirected
    BY <2>2 DEF Arcs
  <2> QED
    BY <2>1, <2>2
<1>4. \A e \in Arcs(q) : e = <<e[1], e[2]>> /\ e[1] \in N
  <2>1. ASSUME NEW e \in Arcs(q) PROVE e = <<e[1], e[2]>> /\ e[1] \in N
    <3>1. CASE e \in q.edges
      BY <1>1, <1>2, <3>1
    <3>2. CASE e \notin q.edges
      <4>1. PICK d \in q.edges : e = <<d[2], d[1]>>
        BY <3>2 DEF Arcs
      <4> QED
        BY <1>1, <4>1
    <3> QED
      BY <3>1, <3>2
  <2> QED
    BY <2>1
<1>5. \A S, u : u \in Senders(q, S) <=> \E v \in S : <<u, v>> \in Arcs(q)
  <2>1. ASSUME NEW S, NEW u, u \in Senders(q, S)
        PROVE  \E v \in S : <<u, v>> \in Arcs(q)
    <3>1. PICK e \in Arcs(q) : e[2] \in S /\ u = e[1]
      BY <2>1 DEF Senders
    <3>2. <<u, e[2]>> \in Arcs(q)
      BY <1>4, <3>1
    <3> QED
      BY <3>1, <3>2
  <2>2. ASSUME NEW S, NEW u, NEW v \in S, <<u, v>> \in Arcs(q)
        PROVE  u \in Senders(q, S)
    BY <2>2 DEF Senders
  <2> QED
    BY <2>1, <2>2
<1>6. \A u, v : u \in Adjacent(q, v) <=> <<u, v>> \in Arcs(q)
  <2>1. \A u, v : <<u, v>> \in Arcs(q) => u \in N
    <3>1. \A u, v : <<u, v>> \in Arcs(q) => <<u, v>>[1] \in N
      BY <1>4, Zenon
    <3> QED
      BY <3>1
  <2>2. \A u, v : u \in Adjacent(q, v) <=>
          (u \in N /\ (<<u, v>> \in q.edges \/ (q.undirected /\ <<v, u>> \in q.edges)))
    BY Zenon DEF Adjacent
  <2> QED
    BY <1>3, <2>1, <2>2, Zenon
<1>7. ASSUME NEW S PROVE Senders(q, S) = Neighbours(q, S)
  <2>1. \A u : u \in Neighbours(q, S) <=> \E v \in S : u \in Adjacent(q, v)
    BY Zenon DEF Neighbours
  <2>2. \A u : u \in Senders(q, S) <=> u \in Neighbours(q, S)
    BY <1>5, <1>6, <2>1, Zenon
  <2> QED
    BY <2>2, Zenon
<1>8. ASSUME NEW S PROVE Senders(q, S) \subseteq N
  BY <1>4 DEF Senders
<1> QED
  BY <1>7, <1>8

(* A receptive field is made of the tile and nodes of the graph.            *)
LEMMA FieldFinite ==
  ASSUME NEW q, Fit(q), NEW out, out \subseteq Int, IsFiniteSet(out)
  PROVE  ReceptiveField(q, out) \subseteq Int /\ IsFiniteSet(ReceptiveField(q, out))
<1> DEFINE N == 0 .. NodesOf(q) - 1
           f == Ball(q, out)
           T == {k \in 0 .. q.hops : ~ (f[k] \subseteq out \cup N)}
<1>1. q.hops \in Nat /\ NodesOf(q) \in Nat
  <2>1. q.hops \in Nat
    BY BuildAssumption DEF Fit
  <2> QED
    BY <2>1, NodeFacts DEF Positives
<1>2. /\ f[0] = out
      /\ \A k \in 1 .. q.hops : f[k] = f[k - 1] \cup Senders(q, f[k - 1])
  BY <1>1, BallStep
<1>3. \A S : Senders(q, S) \subseteq N
  BY SendersFacts
<1> HIDE DEF f, N
<1>4. T = {}
  <2>1. SUFFICES ASSUME T # {} PROVE FALSE
    OBVIOUS
  <2>2. T \subseteq Nat
    OBVIOUS
  <2>3. PICK k \in T : \A j \in T : k <= j
    <3> HIDE DEF T
    <3> QED
      BY <2>1, <2>2, First
  <2>4. k \in 0 .. q.hops /\ ~ (f[k] \subseteq out \cup N)
    OBVIOUS
  <2>5. k # 0
    BY <1>2, <2>4
  <2>6. k \in 1 .. q.hops /\ k - 1 \in 0 .. q.hops /\ ~(k <= k - 1)
    BY <1>1, <2>4, <2>5
  <2>7. f[k - 1] \subseteq out \cup N
    BY <2>3, <2>6
  <2>8. f[k] \subseteq out \cup N
    BY <1>2, <1>3, <2>6, <2>7
  <2> QED
    BY <2>4, <2>8
<1>5. q.hops \in 0 .. q.hops
  BY <1>1
<1>6. f[q.hops] \subseteq out \cup N
  BY <1>4, <1>5
<1>7. IsFiniteSet(N) /\ N \subseteq Int
  BY <1>1, FS_Interval DEF N
<1>8. IsFiniteSet(out \cup N)
  BY <1>7, FS_Union
<1>9. IsFiniteSet(f[q.hops])
  BY <1>6, <1>8, FS_Subset
<1>10. ReceptiveField(q, out) = f[q.hops]
  BY FieldIsBall DEF f
<1> QED
  BY <1>6, <1>7, <1>9, <1>10

(* The files of a tile are arrays, and its outputs are its nodes.           *)
LEMMA TileFacts ==
  ASSUME NEW q, Fit(q), NEW k \in 1 .. NumTiles(q)
  PROVE  /\ InputOf(q, k) \in Seq(Int) /\ OutputOf(q, k) \in Seq(Int)
         /\ \A in : LET t == TileOf(in, OutputOf(q, k)) IN
              /\ Loader!OutputOf(t) = Partition(q)[k]
              /\ t.output # <<>> /\ Loader!IsInjective(t.output)
<1> DEFINE S == Partition(q)[k]
<1>1. /\ S \subseteq 0 .. Limit(q) - 1 /\ S # {} /\ Limit(q) \in Nat
  BY PartitionSplits, Zenon DEF Splits, NumTiles, Positives
<1>2. S \subseteq Int /\ IsFiniteSet(S)
  <2>1. IsFiniteSet(0 .. Limit(q) - 1) /\ 0 .. Limit(q) - 1 \subseteq Int
    BY <1>1, FS_Interval
  <2> HIDE DEF S
  <2> QED
    BY <1>1, <2>1, FS_Subset
<1>3. ReceptiveField(q, S) \subseteq Int /\ IsFiniteSet(ReceptiveField(q, S))
  BY <1>2, FieldFinite
<1>4. InputOf(q, k) \in Seq(Int)
  BY <1>3, SortedFacts DEF InputOf
<1> DEFINE out == OutputOf(q, k)
<1>5. /\ out \in Seq(Int)
      /\ \A j \in DOMAIN out : out[j] \in S
      /\ \A x \in S : \E j \in DOMAIN out : out[j] = x
      /\ \A i, j \in DOMAIN out : out[i] = out[j] => i = j
  BY <1>2, SortedFacts, Zenon DEF OutputOf
<1> HIDE DEF out, S
<1>6. out # <<>>
  <2>1. PICK j \in DOMAIN out : TRUE
    BY <1>1, <1>5
  <2>2. DOMAIN <<>> = {}
    OBVIOUS
  <2> QED
    BY <2>1, <2>2, Zenon
<1>7. Loader!Range(out) = S
  BY <1>5 DEF Loader!Range
<1>8. Loader!IsInjective(out)
  BY <1>5 DEF Loader!IsInjective
<1>9. ASSUME NEW in
      PROVE  LET t == TileOf(in, out) IN
               /\ Loader!OutputOf(t) = S
               /\ t.output # <<>> /\ Loader!IsInjective(t.output)
  <2>1. TileOf(in, out).output = out
    BY DEF TileOf
  <2> QED
    BY <1>6, <1>7, <1>8, <2>1, Zenon DEF Loader!OutputOf
<1> QED
  BY <1>4, <1>5, <1>9, Zenon DEF out, S

(* A file that is missing or torn is none of these.                         *)
LEMMA ManifestFacts ==
  ASSUME NEW q, Fit(q)
  PROVE  /\ ManifestOf(q).nodesOut = NodesOf(q)
         /\ ManifestOf(q).grid = IF GridOf(q) = NoGrid THEN NullGrid ELSE GridOf(q)
         /\ Len(ManifestOf(q).tiles) = NumTiles(q)
         /\ ManifestOf(q) \notin {Missing, Torn}
         /\ q \in Builds /\ q # None /\ q.hops \in Nat
         /\ NumTiles(q) \in Nat \ {0} /\ NumTiles(q) <= MaxTiles
<1>1. NodesOf(q) \in Int
  BY NodeFacts DEF Positives
<1>2. NumTiles(q) \in Nat \ {0} /\ NumTiles(q) <= MaxTiles
  BY PartitionSplits DEF Splits, NumTiles, Positives
<1>3. q \in Builds /\ q # None /\ q.hops \in Nat
  BY BuildAssumption DEF Fit
<1> DEFINE ts == [k \in 1 .. NumTiles(q) |-> k]
           g == IF GridOf(q) = NoGrid THEN NullGrid ELSE GridOf(q)
<1>4. ts \in Seq(Int) /\ Len(ts) = NumTiles(q)
  <2> DEFINE n == NumTiles(q)
  <2>1. n \in Nat
    BY <1>2
  <2> HIDE DEF n
  <2>2. [k \in 1 .. n |-> k] \in Seq(Int)
    BY <2>1
  <2>3. Len([k \in 1 .. n |-> k]) = n
    BY <2>1, LenIs
  <2> QED
    BY <2>2, <2>3 DEF n
<1>5. g \in (Int \X Int) \cup {NullGrid}
  BY GridFacts
<1>6. ManifestOf(q) = [shaped |-> TRUE, nodesIn |-> NodesOf(q), nodesOut |-> NodesOf(q), grid |-> g, tiles |-> ts]
  BY Zenon DEF ManifestOf, NumTiles
<1> HIDE DEF g, ts
<1>7. ManifestOf(q) \in [shaped : BOOLEAN, nodesIn : Int, nodesOut : Int,
                         grid : (Int \X Int) \cup {NullGrid}, tiles : Seq(Int)]
  BY <1>1, <1>4, <1>5, <1>6
<1>8. ManifestOf(q) \notin {Missing, Torn}
  BY <1>7, FileAssumption, Zenon
<1>9. /\ ManifestOf(q).nodesOut = NodesOf(q) /\ ManifestOf(q).grid = g
      /\ ManifestOf(q).tiles = ts
  BY <1>6
<1> QED
  BY <1>2, <1>3, <1>4, <1>8, <1>9 DEF g

-----------------------------------------------------------------------------
(* The builder keeps the invariant.                                         *)

LEMMA StartBuildOK ==
  ASSUME BInv, NEW q \in Builds, StartBuild(q)
  PROVE  BInv'
<1>1. Fit(q)
  BY DEF StartBuild, Fit
<1>2. q \in Builds /\ q # None /\ q.hops \in Nat /\ NumTiles(q) \in Nat \ {0}
  BY <1>1, ManifestFacts
<1>3. /\ started < MaxBuilds /\ started' = started + 1 /\ phase = "idle"
      /\ begun' = begun \cup {q} /\ build' = q /\ phase' = "expand"
      /\ tile' = 1 /\ hop' = 0
      /\ visited' = Partition(q)[1] /\ frontier' = Partition(q)[1]
      /\ UNCHANGED <<inputFile, outputFile, manifestFile, whole>>
  BY DEF StartBuild, Enter
<1>4. Working'
  <2>1. started' \in 0 .. MaxBuilds
    BY <1>3, BuildAssumption DEF BInv, Working
  <2>2. 1 \in 1 .. NumTiles(q)
    BY <1>2
  <2> QED
    BY <1>1, <1>3, <2>1, <2>2 DEF BInv, Working
<1>5. Searching'
  <2>1. Ball(q, Partition(q)[1])[0] = Partition(q)[1]
    BY <1>2, BallStep
  <2>2. \A S : Senders(q, S \ S) \subseteq S
    BY DEF Senders
  <2>3. 0 \in 0 .. q.hops
    BY <1>2
  <2> QED
    BY <1>3, <2>1, <2>2, <2>3 DEF Searching
<1>6. Meant'
  BY <1>3, Zenon DEF BInv, Meant
<1>7. Progress'
  BY <1>3 DEF Progress
<1>8. Intact'
  BY <1>3, Zenon DEF BInv, Intact, Holds
<1> QED
  BY <1>4, <1>5, <1>6, <1>7, <1>8 DEF BInv

(* The set of senders of a union.                                           *)
LEMMA SendersUnion ==
  ASSUME NEW q, NEW S, NEW T
  PROVE  Senders(q, S \cup T) = Senders(q, S) \cup Senders(q, T)
<1>1. \A U, u : u \in Senders(q, U) <=> \E e \in Arcs(q) : e[2] \in U /\ u = e[1]
  BY DEF Senders
<1> QED
  BY <1>1

(* A round that does not raise.                                             *)
LEMMA HopFinds ==
  ASSUME Hop, Fit(build), frontier \subseteq 0 .. NodesOf(build) - 1
  PROVE  /\ visited' = visited \cup (Senders(build, frontier) \ visited)
         /\ frontier' = Senders(build, frontier) \ visited
         /\ hop' = hop + 1 /\ phase' = phase
<1>1. Neighbours(build, frontier) = Senders(build, frontier)
  BY SendersFacts
<1> QED
  BY <1>1 DEF Hop

LEMMA HopOK ==
  ASSUME BInv, Hop
  PROVE  BInv'
<1>1. /\ phase = "expand" /\ hop # build.hops
      /\ UNCHANGED <<build, tile, inputFile, outputFile, manifestFile, started, begun, whole>>
  BY DEF Hop, HaloDone
<1>2. Fit(build) /\ build.hops \in Nat
  BY <1>1, ManifestFacts DEF BInv, Working
<1>3. CASE ~ (frontier \subseteq 0 .. NodesOf(build) - 1)
  <2>1. phase' = "idle" /\ UNCHANGED <<visited, frontier, hop>>
    BY <1>3 DEF Hop
  <2>2. Working'
    BY <1>1, <2>1 DEF BInv, Working
  <2>3. Searching' /\ Progress'
    BY <2>1 DEF Searching, Progress
  <2>4. Meant'
    BY <1>1, Zenon DEF BInv, Meant
  <2>5. Intact'
    BY <1>1, <2>1, Zenon DEF BInv, Intact, Holds
  <2> QED
    BY <2>2, <2>3, <2>4, <2>5 DEF BInv
<1>4. CASE frontier \subseteq 0 .. NodesOf(build) - 1
  <2> DEFINE found == Senders(build, frontier) \ visited
             f == Ball(build, Partition(build)[tile])
  <2>2. /\ visited' = visited \cup found /\ frontier' = found
        /\ hop' = hop + 1 /\ phase' = phase
    BY <1>2, <1>4, HopFinds, Zenon
  <2>3. /\ hop \in 0 .. build.hops /\ visited = f[hop]
        /\ Partition(build)[tile] \subseteq visited /\ frontier \subseteq visited
        /\ Senders(build, visited \ frontier) \subseteq visited
    BY <1>1 DEF BInv, Searching
  <2>4. hop' \in 1 .. build.hops /\ hop' - 1 = hop
    BY <1>1, <1>2, <2>2, <2>3
  <2>5. Senders(build, visited) = Senders(build, visited \ frontier) \cup Senders(build, frontier)
    <3>1. visited = (visited \ frontier) \cup frontier
      BY <2>3
    <3> QED
      BY <3>1, SendersUnion
  <2>6. f[hop'] = visited \cup Senders(build, visited)
    <3>1. \A k \in 1 .. build.hops : f[k] = f[k - 1] \cup Senders(build, f[k - 1])
      BY <1>2, BallStep
    <3> HIDE DEF f
    <3> QED
      BY <2>3, <2>4, <3>1
  <2>7. f[hop'] = visited'
    <3> HIDE DEF f
    <3> QED
      BY <2>2, <2>3, <2>5, <2>6
  <2>8. visited' \ frontier' = visited
    BY <2>2
  <2>9. Senders(build, visited' \ frontier') \subseteq visited'
    BY <2>2, <2>3, <2>5, <2>8
  <2>10. hop' \in 0 .. build.hops
    BY <2>4
  <2>11. Searching'
    <3>1. f' = f
      BY <1>1
    <3>2. visited' = f[hop'] /\ Partition(build)[tile] \subseteq visited' /\ frontier' \subseteq visited'
      BY <2>2, <2>3, <2>7
    <3> QED
      BY <1>1, <2>2, <2>9, <2>10, <3>2 DEF Searching
  <2>12. Working'
    BY <1>1, <2>2 DEF BInv, Working
  <2>13. Meant'
    BY <1>1, Zenon DEF BInv, Meant
  <2>14. Progress'
    BY <1>1, <2>2 DEF BInv, Progress, Holds
  <2>15. Intact'
    BY <1>1, <2>2, Zenon DEF BInv, Intact, Holds
  <2> QED
    BY <2>11, <2>12, <2>13, <2>14, <2>15 DEF BInv
<1> QED
  BY <1>3, <1>4

(* When the search is done it has found the receptive field.                *)
LEMMA SearchDone ==
  ASSUME BInv, phase # "idle", HaloDone
  PROVE  visited = ReceptiveField(build, Partition(build)[tile])
<1> DEFINE f == Ball(build, Partition(build)[tile])
<1>1. build.hops \in Nat
  BY ManifestFacts DEF BInv, Working
<1>2. /\ hop \in 0 .. build.hops /\ visited = f[hop]
      /\ Senders(build, visited \ frontier) \subseteq visited
  BY DEF BInv, Searching
<1>3. ReceptiveField(build, Partition(build)[tile]) = f[build.hops]
  BY FieldIsBall
<1>4. CASE hop = build.hops
  BY <1>2, <1>3, <1>4
<1>5. CASE frontier = {}
  <2>1. visited \ frontier = visited
    BY <1>5
  <2>2. Senders(build, f[hop]) \subseteq f[hop]
    BY <1>2, <2>1
  <2>3. f[build.hops] = f[hop]
    BY <1>1, <1>2, <2>2, BallStops
  <2> QED
    BY <1>2, <1>3, <2>3
<1> QED
  BY <1>4, <1>5 DEF HaloDone

LEMMA OpenInputOK ==
  ASSUME BInv, OpenInput
  PROVE  BInv'
<1>1. /\ phase = "expand" /\ HaloDone /\ phase' = "input"
      /\ inputFile' = [inputFile EXCEPT ![tile] = Torn] /\ whole' = None
      /\ UNCHANGED <<build, tile, visited, frontier, hop, outputFile, manifestFile, started, begun>>
  BY DEF OpenInput
<1>2. build \in begun /\ tile \in 1 .. NumTiles(build) /\ DOMAIN inputFile = 1 .. MaxTiles
  BY <1>1 DEF BInv, Working
<1>3. \A k : k # tile => inputFile'[k] = inputFile[k]
  BY <1>1
<1>4. Working'
  BY <1>1, <1>2 DEF BInv, Working
<1>5. Searching'
  BY <1>1, Zenon DEF BInv, Searching, HaloDone
<1>6. Meant'
  <2>1. inputFile'[tile] = Torn \/ inputFile'[tile] = inputFile[tile]
    BY <1>1, <1>2
  <2> QED
    BY <1>1, <1>3, <2>1, Zenon DEF BInv, Meant
<1>7. Progress'
  <2>1. \A k \in 1 .. tile - 1 : Holds(build, k) /\ k # tile
    <3>1. NumTiles(build) \in Nat
      BY <1>2, ManifestFacts DEF BInv, Working
    <3>2. \A k \in 1 .. tile - 1 : k # tile
      BY <1>2, <3>1
    <3> QED
      BY <1>1, <3>2 DEF BInv, Progress
  <2> QED
    BY <1>1, <1>3, <2>1 DEF Progress, Holds
<1>8. Intact'
  BY <1>1 DEF Intact
<1> QED
  BY <1>4, <1>5, <1>6, <1>7, <1>8 DEF BInv

LEMMA SaveInputOK ==
  ASSUME BInv, SaveInput, visited = ReceptiveField(build, Partition(build)[tile])
  PROVE  BInv'
<1>1. /\ phase = "input" /\ phase' = "half"
      /\ inputFile' = [inputFile EXCEPT ![tile] = InputOf(build, tile)]
      /\ UNCHANGED <<build, tile, visited, frontier, hop, outputFile, manifestFile, started, begun,
                     whole>>
  BY DEF SaveInput, InputOf
<1>2. /\ build \in begun /\ tile \in 1 .. NumTiles(build)
      /\ DOMAIN inputFile = 1 .. MaxTiles
  BY <1>1 DEF BInv, Working
<1>3. NumTiles(build) \in Nat /\ NumTiles(build) <= MaxTiles /\ MaxTiles \in Nat
  BY <1>2, ManifestFacts, BuildAssumption DEF BInv, Working
<1>4. /\ \A k : k # tile => inputFile'[k] = inputFile[k]
      /\ inputFile'[tile] = InputOf(build, tile)
  BY <1>1, <1>2, <1>3
<1>5. Working'
  BY <1>1, <1>2 DEF BInv, Working
<1>6. Searching'
  BY <1>1, Zenon DEF BInv, Searching, HaloDone
<1>7. Meant'
  BY <1>1, <1>2, <1>4, Zenon DEF BInv, Meant
<1>8. Progress'
  <2>1. \A k \in 1 .. tile - 1 : k # tile
    BY <1>2, <1>3
  <2>2. \A k \in 1 .. tile - 1 : Holds(build, k)
    BY <1>1 DEF BInv, Progress
  <2> QED
    BY <1>1, <1>4, <2>1, <2>2 DEF Progress, Holds
<1>9. Intact'
  BY <1>1 DEF BInv, Intact
<1> QED
  BY <1>5, <1>6, <1>7, <1>8, <1>9 DEF BInv

LEMMA OpenOutputOK ==
  ASSUME BInv, OpenOutput
  PROVE  BInv'
<1>1. /\ phase = "half" /\ phase' = "output"
      /\ outputFile' = [outputFile EXCEPT ![tile] = Torn]
      /\ UNCHANGED <<build, tile, visited, frontier, hop, inputFile, manifestFile, started, begun,
                     whole>>
  BY DEF OpenOutput
<1>2. /\ build \in begun /\ tile \in 1 .. NumTiles(build)
      /\ DOMAIN outputFile = 1 .. MaxTiles
  BY <1>1 DEF BInv, Working
<1>3. NumTiles(build) \in Nat /\ NumTiles(build) <= MaxTiles /\ MaxTiles \in Nat
  BY <1>2, ManifestFacts, BuildAssumption DEF BInv, Working
<1>4. /\ \A k : k # tile => outputFile'[k] = outputFile[k]
      /\ outputFile'[tile] = Torn
  BY <1>1, <1>2, <1>3
<1>5. Working'
  BY <1>1, <1>2 DEF BInv, Working
<1>6. Searching'
  BY <1>1, Zenon DEF BInv, Searching, HaloDone
<1>7. Meant'
  BY <1>1, <1>2, <1>4, Zenon DEF BInv, Meant
<1>8. Progress'
  <2>1. \A k \in 1 .. tile - 1 : k # tile
    BY <1>2, <1>3
  <2>2. /\ \A k \in 1 .. tile - 1 : Holds(build, k)
        /\ inputFile[tile] = InputOf(build, tile)
    BY <1>1 DEF BInv, Progress
  <2> QED
    BY <1>1, <1>4, <2>1, <2>2 DEF Progress, Holds
<1>9. Intact'
  BY <1>1 DEF BInv, Intact
<1> QED
  BY <1>5, <1>6, <1>7, <1>8, <1>9 DEF BInv

LEMMA SaveOutputOK ==
  ASSUME BInv, SaveOutput
  PROVE  BInv'
<1>1. /\ phase = "output"
      /\ outputFile' = [outputFile EXCEPT ![tile] = OutputOf(build, tile)]
      /\ UNCHANGED <<build, inputFile, manifestFile, started, begun, whole>>
  BY DEF SaveOutput, OutputOf
<1>2. /\ build \in begun /\ Fit(build) /\ tile \in 1 .. NumTiles(build)
      /\ DOMAIN inputFile = 1 .. MaxTiles /\ DOMAIN outputFile = 1 .. MaxTiles
  BY <1>1 DEF BInv, Working
<1>3. /\ NumTiles(build) \in Nat /\ NumTiles(build) <= MaxTiles /\ MaxTiles \in Nat
      /\ build.hops \in Nat
  BY <1>2, ManifestFacts, BuildAssumption DEF BInv, Working
<1>4. /\ \A k : k # tile => outputFile'[k] = outputFile[k]
      /\ outputFile'[tile] = OutputOf(build, tile)
  BY <1>1, <1>2, <1>3
<1>5. whole' = None
  BY <1>1 DEF BInv, Intact
<1>6. \A k \in 1 .. tile : Holds(build, k)'
  <2>1. \A k \in 1 .. tile - 1 : k # tile
    BY <1>2, <1>3
  <2>2. \A k \in 1 .. tile - 1 : Holds(build, k)
    BY <1>1 DEF BInv, Progress
  <2>3. inputFile[tile] = InputOf(build, tile)
    BY <1>1 DEF BInv, Progress
  <2>4. \A k \in 1 .. tile : k = tile \/ k \in 1 .. tile - 1
    BY <1>2, <1>3
  <2> QED
    BY <1>1, <1>4, <2>1, <2>2, <2>3, <2>4 DEF Holds
<1>7. CASE tile < Len(Partition(build))
  <2>1. /\ phase' = "expand" /\ tile' = tile + 1
        /\ visited' = Partition(build)[tile + 1] /\ frontier' = Partition(build)[tile + 1]
        /\ hop' = 0
    BY <1>7 DEF SaveOutput, Enter
  <2>2. tile + 1 \in 1 .. NumTiles(build) /\ (tile + 1) - 1 = tile
    BY <1>2, <1>3, <1>7 DEF NumTiles
  <2>3. Working'
    BY <1>1, <1>2, <2>1, <2>2 DEF BInv, Working
  <2>4. Searching'
    <3>1. Ball(build, Partition(build)[tile + 1])[0] = Partition(build)[tile + 1]
      BY <1>3, BallStep
    <3>2. \A S : Senders(build, S \ S) \subseteq S
      BY DEF Senders
    <3>3. 0 \in 0 .. build.hops
      BY <1>3
    <3> QED
      BY <1>1, <2>1, <3>1, <3>2, <3>3 DEF Searching
  <2>5. Meant'
    BY <1>1, <1>2, <1>4, <2>1, Zenon DEF BInv, Meant
  <2>6. Progress'
    BY <1>1, <1>6, <2>1, <2>2 DEF Progress, Holds
  <2> QED
    BY <1>5, <2>3, <2>4, <2>5, <2>6 DEF BInv, Intact
<1>8. CASE ~ (tile < Len(Partition(build)))
  <2>1. phase' = "saved" /\ UNCHANGED <<tile, visited, frontier, hop>>
    BY <1>8 DEF SaveOutput
  <2>2. tile = NumTiles(build)
    BY <1>2, <1>3, <1>8 DEF NumTiles
  <2>3. Working'
    BY <1>1, <1>2, <2>1 DEF BInv, Working
  <2>4. Searching'
    BY <1>1, <2>1, Zenon DEF BInv, Searching, HaloDone
  <2>5. Meant'
    BY <1>1, <1>2, <1>4, <2>1, Zenon DEF BInv, Meant
  <2>6. Progress'
    <3>1. \A k \in 1 .. tile - 1 : k \in 1 .. tile
      BY <1>2, <1>3
    <3>2. tile \in 1 .. tile
      BY <1>2, <1>3
    <3> QED
      BY <1>1, <1>6, <2>1, <2>2, <3>1, <3>2 DEF Progress, Holds
  <2> QED
    BY <1>5, <2>3, <2>4, <2>5, <2>6 DEF BInv, Intact
<1> QED
  BY <1>7, <1>8

LEMMA CutManifestOK ==
  ASSUME BInv, CutManifest
  PROVE  BInv'
<1>1. /\ phase = "saved" /\ phase' = "manifest" /\ manifestFile' = Torn
      /\ UNCHANGED <<build, tile, visited, frontier, hop, inputFile, outputFile, started, begun,
                     whole>>
  BY DEF CutManifest
<1>2. Working'
  BY <1>1 DEF BInv, Working
<1>3. Searching'
  BY <1>1, Zenon DEF BInv, Searching, HaloDone
<1>4. Meant'
  BY <1>1, Zenon DEF BInv, Meant
<1>5. Progress'
  BY <1>1, Zenon DEF BInv, Progress, Holds
<1>6. Intact'
  BY <1>1 DEF BInv, Intact
<1> QED
  BY <1>2, <1>3, <1>4, <1>5, <1>6 DEF BInv

LEMMA WriteManifestOK ==
  ASSUME BInv, WriteManifest
  PROVE  BInv'
<1>1. /\ phase = "manifest" /\ phase' = "idle"
      /\ manifestFile' = ManifestOf(build) /\ whole' = build
      /\ UNCHANGED <<build, tile, visited, frontier, hop, inputFile, outputFile, started, begun>>
  BY DEF WriteManifest
<1>2. build \in begun /\ Fit(build) /\ tile \in 1 .. NumTiles(build)
  BY <1>1 DEF BInv, Working
<1>3. NumTiles(build) \in Nat
  BY <1>2, ManifestFacts
<1>4. Working'
  BY <1>1, <1>2 DEF BInv, Working
<1>5. Searching' /\ Progress'
  BY <1>1 DEF Searching, Progress
<1>6. Meant'
  BY <1>1, <1>2, Zenon DEF BInv, Meant
<1>7. Intact'
  <2>1. tile = NumTiles(build) /\ Holds(build, tile) /\ \A k \in 1 .. tile - 1 : Holds(build, k)
    BY <1>1 DEF BInv, Progress
  <2>2. \A k \in 1 .. NumTiles(build) : k = NumTiles(build) \/ k \in 1 .. NumTiles(build) - 1
    BY <1>3
  <2>3. \A k \in 1 .. NumTiles(build) : Holds(build, k)
    BY <2>1, <2>2, Zenon
  <2> QED
    BY <1>1, <2>3, Zenon DEF Intact, Holds
<1> QED
  BY <1>4, <1>5, <1>6, <1>7 DEF BInv

LEMMA CrashOK ==
  ASSUME BInv, Crash
  PROVE  BInv'
<1>1. /\ phase' = "idle"
      /\ UNCHANGED <<build, tile, visited, frontier, hop, inputFile, outputFile,
                     manifestFile, started, begun, whole>>
  BY DEF Crash
<1>2. Working'
  BY <1>1 DEF BInv, Working
<1>3. Searching' /\ Progress'
  BY <1>1 DEF Searching, Progress
<1>4. Meant'
  BY <1>1, Zenon DEF BInv, Meant
<1>5. Intact'
  BY <1>1, Zenon DEF BInv, Intact, Holds
<1> QED
  BY <1>2, <1>3, <1>4, <1>5 DEF BInv

LEMMA BuilderOK ==
  ASSUME BInv, BuilderNext
  PROVE  BInv' /\ begun \subseteq begun'
<1>1. ASSUME NEW q \in Builds, StartBuild(q)
      PROVE  BInv' /\ begun \subseteq begun'
  BY <1>1, StartBuildOK DEF StartBuild
<1>2. CASE Hop
  BY <1>2, HopOK DEF Hop
<1>3. CASE OpenInput
  BY <1>3, OpenInputOK DEF OpenInput
<1>4. CASE SaveInput
  <2>1. phase # "idle" /\ HaloDone
    BY <1>4 DEF SaveInput, BInv, Searching
  <2>2. visited = ReceptiveField(build, Partition(build)[tile])
    BY <2>1, SearchDone
  <2> QED
    BY <1>4, <2>2, SaveInputOK DEF SaveInput
<1>5. CASE SaveOutput
  BY <1>5, SaveOutputOK DEF SaveOutput
<1>6. CASE WriteManifest
  BY <1>6, WriteManifestOK DEF WriteManifest
<1>7. CASE Crash
  BY <1>7, CrashOK DEF Crash
<1>8. CASE OpenOutput
  BY <1>8, OpenOutputOK DEF OpenOutput
<1>9. CASE CutManifest
  BY <1>9, CutManifestOK DEF CutManifest
<1> QED
  BY <1>1, <1>2, <1>3, <1>4, <1>5, <1>6, <1>7, <1>8, <1>9 DEF BuilderNext

-----------------------------------------------------------------------------
(* The loader keeps the invariant.                                          *)

LEMMA BuildOK ==
  ASSUME IInv, Build
  PROVE  IInv'
<1>1. /\ source' = IF whole' = whole THEN source ELSE None
      /\ UNCHANGED <<verdict, opened, cursor, inputRead, covered, loaded, loads>>
  BY DEF Build
<1>2. BInv' /\ begun \subseteq begun'
  BY BuilderOK DEF IInv, Build
<1>3. \A k : Read(k)' = Read(k)
  BY <1>1 DEF Read, Loader!OutputOf, Loader!Range
<1>4. Loading'
  <2>1. Disjoint => Disjoint'
    BY <1>1, <1>3, Zenon DEF Disjoint
  <2>2. Genuine => Genuine'
    <3>1. \A q \in begun : q \in begun'
      BY <1>2
    <3> QED
      BY <1>1, <3>1, Zenon DEF Genuine
  <2> QED
    BY <1>1, <2>1, <2>2 DEF IInv, Loading
<1>5. Following'
  <2>1. source' # None => source' = source /\ whole' = whole
    BY <1>1
  <2> QED
    BY <1>1, <2>1, Zenon DEF IInv, Following
<1> QED
  BY <1>2, <1>4, <1>5 DEF IInv

LEMMA OpenManifestOK ==
  ASSUME IInv, OpenManifest
  PROVE  IInv'
<1>1. /\ verdict # "tiles" /\ loads < MaxLoads /\ loads' = loads + 1
      /\ cursor' = 1 /\ inputRead' = None /\ covered' = {} /\ loaded' = <<>>
      /\ UNCHANGED builderVars
  BY DEF OpenManifest
<1>2. BInv'
  BY <1>1, Zenon DEF IInv, BInv, Working, Searching, HaloDone, Meant, Progress, Intact, Holds,
        builderVars
<1>3. \/ verdict' = "rejected" /\ source' = None
      \/ /\ manifestFile \notin {Missing, Torn}
         /\ verdict' = "tiles" /\ opened' = manifestFile /\ source' = whole
  BY DEF OpenManifest
<1>4. whole' = whole /\ begun' = begun
  BY <1>1 DEF builderVars
<1>5. loads' \in 0 .. MaxLoads
  BY <1>1, LoadAssumption DEF IInv, Loading
<1>6. /\ cursor' \in Nat \ {0} /\ Len(loaded') = cursor' - 1
      /\ loaded' \in Seq(ReadTiles)
  BY <1>1
<1>7. \A k \in 1 .. cursor' - 1 : FALSE
  BY <1>1
<1>8. verdict' = "tiles" =>
        \E q \in begun : /\ opened' = ManifestOf(q) /\ Len(opened'.tiles) = NumTiles(q)
                         /\ NumTiles(q) \in Nat
  <2>1. verdict' = "tiles" => \E q \in begun : opened' = ManifestOf(q)
    BY <1>3, Zenon DEF IInv, BInv, Meant
  <2>2. \A q \in begun : Len(ManifestOf(q).tiles) = NumTiles(q) /\ NumTiles(q) \in Nat
    BY ManifestFacts DEF IInv, BInv, Working
  <2> QED
    BY <2>1, <2>2, Zenon
<1>9. Loading'
  <2>1. verdict' \in {"none", "tiles", "accepted", "rejected"} /\ verdict' # "accepted"
    BY <1>3
  <2>2. verdict' = "tiles" => cursor' <= Len(opened'.tiles) + 1
    BY <1>1, <1>8
  <2>3. Disjoint'
    <3>1. \A x : x \notin covered'
      BY <1>1
    <3>2. covered' \subseteq 0 .. opened'.nodesOut - 1
      BY <1>1
    <3> QED
      BY <1>7, <3>1, <3>2, Zenon DEF Disjoint
  <2>4. verdict' = "tiles" => Genuine'
    BY <1>1, <1>4, <1>7, <1>8, Zenon DEF Genuine
  <2> QED
    BY <1>5, <1>6, <2>1, <2>2, <2>3, <2>4 DEF Loading
<1>10. Following'
  <2>1. ASSUME source' # None
        PROVE  /\ source' = whole /\ whole # None /\ verdict' = "tiles"
               /\ opened' = ManifestOf(whole) /\ NumTiles(whole) \in Nat
    <3>1. source' = whole /\ whole # None /\ verdict' = "tiles" /\ opened' = manifestFile
      BY <1>3, <2>1
    <3>2. manifestFile = ManifestOf(whole) /\ Fit(whole)
      BY <3>1 DEF IInv, BInv, Intact, Working
    <3> QED
      BY <3>1, <3>2, ManifestFacts
  <2>2. source' # None => cursor' <= NumTiles(source') + 1
    BY <1>1, <2>1
  <2>3. \A k \in 1 .. cursor' - 1 : loaded'[k] = TileOf(InputOf(source', k), OutputOf(source', k))
    BY <1>7, Zenon
  <2>4. verdict' = "tiles" => verdict' # "none" /\ verdict' # "rejected" /\ verdict' # "accepted"
    OBVIOUS
  <2> QED
    BY <1>1, <1>4, <2>1, <2>2, <2>3, <2>4, Zenon DEF Following
<1> QED
  BY <1>2, <1>9, <1>10 DEF IInv

(* The tiles of a loadable build stay within the nodes.                     *)
LEMMA LoadableFits ==
  ASSUME NEW q, Fit(q), Loadable(q)
  PROVE  Limit(q) = NodesOf(q)
  BY DEF Loadable, Limit

(* The input array of a tile.                                               *)
LEMMA ReadInputOK ==
  ASSUME IInv, ReadInput
  PROVE  IInv'
<1>1. /\ verdict = "tiles" /\ cursor <= Len(opened.tiles) /\ inputRead = None
      /\ UNCHANGED <<opened, cursor, covered, loaded, source, loads, builderVars>>
      /\ \/ inputFile[cursor] \in {Missing, Torn} /\ verdict' = "rejected" /\ inputRead' = inputRead
         \/ /\ inputFile[cursor] \notin {Missing, Torn}
            /\ verdict' = verdict /\ inputRead' = inputFile[cursor]
  BY DEF ReadInput
<1>2. BInv'
  BY <1>1, Zenon DEF IInv, BInv, Working, Searching, HaloDone, Meant, Progress, Intact, Holds,
        builderVars
<1>3. /\ begun' = begun /\ whole' = whole /\ source' = source /\ opened' = opened
      /\ loads' = loads /\ cursor' = cursor /\ covered' = covered /\ loaded' = loaded
  BY <1>1 DEF builderVars
<1>4. cursor \in Nat \ {0} /\ Disjoint /\ Genuine
  BY <1>1 DEF IInv, Loading
<1>5. PICK q0 \in begun : opened = ManifestOf(q0)
  BY <1>4 DEF Genuine
<1>6. Fit(q0)
  BY <1>5 DEF IInv, BInv, Working
<1>7. cursor \in 1 .. MaxTiles
  <2>1. Len(opened.tiles) \in Nat /\ Len(opened.tiles) <= MaxTiles /\ MaxTiles \in Nat
    BY <1>5, <1>6, ManifestFacts, BuildAssumption
  <2> QED
    BY <1>1, <1>4, <2>1
<1>8. Genuine'
  <2>1. inputRead' # None =>
          \E q \in begun : cursor \in 1 .. NumTiles(q) /\ inputRead' = InputOf(q, cursor)
    BY <1>1, <1>7, Zenon DEF IInv, BInv, Meant
  <2> QED
    BY <1>3, <1>4, <2>1, Zenon DEF Genuine
<1>9. Disjoint'
  <2>1. \A k : Read(k)' = Read(k)
    BY <1>3 DEF Read, Loader!OutputOf, Loader!Range
  <2> QED
    BY <1>3, <1>4, <2>1, Zenon DEF Disjoint
<1>10. Loading'
  BY <1>1, <1>3, <1>8, <1>9 DEF IInv, Loading
<1>11. ASSUME source # None
       PROVE  inputFile[cursor] = InputOf(source, cursor) /\ inputFile[cursor] \notin {Missing, Torn}
  <2>1. source = whole /\ opened = ManifestOf(source)
    BY <1>11 DEF IInv, Following
  <2>2. Fit(source)
    BY <1>11, <2>1 DEF IInv, BInv, Working
  <2>3. cursor \in 1 .. NumTiles(source)
    BY <1>1, <1>4, <2>1, <2>2, ManifestFacts
  <2>4. inputFile[cursor] = InputOf(source, cursor)
    BY <1>11, <2>1, <2>3, Zenon DEF IInv, BInv, Intact, Holds
  <2>5. InputOf(source, cursor) \in Seq(Int)
    BY <2>2, <2>3, TileFacts
  <2> QED
    BY <2>4, <2>5, FileAssumption
<1>12. Following'
  BY <1>1, <1>3, <1>11, Zenon DEF IInv, Following
<1> QED
  BY <1>2, <1>10, <1>12 DEF IInv

(* One more at the end of a sequence.                                       *)
LEMMA Longer ==
  ASSUME NEW S, NEW s \in Seq(S), NEW x \in S
  PROVE  /\ Append(s, x) \in Seq(S) /\ Len(Append(s, x)) = Len(s) + 1
         /\ \A k \in 1 .. Len(s) : Append(s, x)[k] = s[k]
         /\ Append(s, x)[Len(s) + 1] = x
OBVIOUS

(* A tile that is read whole joins the others.                              *)
LEMMA AcceptTile ==
  ASSUME IInv, ReadOutput, verdict' # "rejected"
  PROVE  IInv'
<1> DEFINE t == TileOf(inputRead, outputFile[cursor])
<1>1. /\ verdict = "tiles" /\ cursor <= Len(opened.tiles) /\ verdict' = verdict
      /\ inputRead # None /\ inputRead' = None /\ t.output \notin {Missing, Torn}
      /\ Loader!WellFormed(t) /\ Loader!MayCover(t)
      /\ covered' = covered \cup Loader!OutputOf(t)
      /\ loaded' = Append(loaded, t) /\ cursor' = cursor + 1
      /\ UNCHANGED <<opened, source, loads, builderVars>>
  BY DEF ReadOutput
<1>2. BInv'
  BY <1>1, Zenon DEF IInv, BInv, Working, Searching, HaloDone, Meant, Progress, Intact, Holds,
        builderVars
<1>3. begun' = begun /\ whole' = whole /\ source' = source /\ opened' = opened /\ loads' = loads
  BY <1>1 DEF builderVars
<1>4. /\ cursor \in Nat \ {0} /\ loaded \in Seq(ReadTiles) /\ Len(loaded) = cursor - 1
      /\ loads \in 0 .. MaxLoads /\ Disjoint /\ Genuine
  BY <1>1 DEF IInv, Loading
<1>5. PICK q0 \in begun : opened = ManifestOf(q0)
  BY <1>4 DEF Genuine
<1>6. Len(opened.tiles) \in Nat /\ Len(opened.tiles) <= MaxTiles /\ MaxTiles \in Nat
  <2>1. Fit(q0)
    BY <1>5 DEF IInv, BInv, Working
  <2> QED
    BY <1>5, <2>1, ManifestFacts, BuildAssumption
<1>7. cursor \in 1 .. MaxTiles
  BY <1>1, <1>4, <1>6
<1>8. t.input = inputRead /\ t.output = outputFile[cursor] /\ t.weighted = FALSE
  BY DEF TileOf
<1>9. /\ \E q \in begun : cursor \in 1 .. NumTiles(q) /\ t.input = InputOf(q, cursor)
      /\ \E q \in begun : cursor \in 1 .. NumTiles(q) /\ t.output = OutputOf(q, cursor)
  <2>1. \E q \in begun : cursor \in 1 .. NumTiles(q) /\ t.input = InputOf(q, cursor)
    BY <1>1, <1>4, <1>8, Zenon DEF Genuine
  <2>2. \E q \in begun : cursor \in 1 .. NumTiles(q) /\ t.output = OutputOf(q, cursor)
    BY <1>1, <1>7, <1>8, Zenon DEF IInv, BInv, Meant
  <2> QED
    BY <2>1, <2>2
<1>10. t.input \in Seq(Int) /\ t.output \in Seq(Int)
  <2>1. \A q \in begun : Fit(q)
    BY DEF IInv, BInv, Working
  <2> HIDE DEF t
  <2> QED
    BY <1>9, <2>1, TileFacts
<1>11. t \in ReadTiles
  <2>1. inputRead \in Seq(Int) /\ outputFile[cursor] \in Seq(Int)
    BY <1>8, <1>10, Zenon
  <2> QED
    BY <2>1 DEF ReadTiles
<1>12. Loader!OutputOf(t) \subseteq 0 .. opened.nodesOut - 1 /\ Loader!OutputOf(t) \cap covered = {}
  BY <1>1, <1>8 DEF Loader!WellFormed, Loader!MayCover, Loader!Node
<1> HIDE DEF t
<1>13. /\ loaded' \in Seq(ReadTiles) /\ Len(loaded') = cursor' - 1 /\ cursor' \in Nat \ {0}
       /\ cursor' - 1 = cursor /\ cursor' <= Len(opened.tiles) + 1
       /\ \A k \in 1 .. cursor - 1 : loaded'[k] = loaded[k]
       /\ loaded'[cursor] = t
  <2>1. loaded' = Append(loaded, t) /\ cursor' = cursor + 1 /\ cursor <= Len(opened.tiles)
    BY <1>1
  <2>2. cursor \in Nat \ {0} /\ loaded \in Seq(ReadTiles) /\ Len(loaded) = cursor - 1
    BY <1>4
  <2>3. cursor' \in Nat \ {0} /\ cursor' - 1 = cursor /\ cursor' <= Len(opened.tiles) + 1
    BY <1>6, <2>1, <2>2
  <2> DEFINE S == ReadTiles
  <2>4. loaded \in Seq(S) /\ t \in S
    BY <1>11, <2>2
  <2> HIDE DEF S
  <2>5. /\ Append(loaded, t) \in Seq(S) /\ Len(Append(loaded, t)) = Len(loaded) + 1
        /\ \A k \in 1 .. Len(loaded) : Append(loaded, t)[k] = loaded[k]
        /\ Append(loaded, t)[Len(loaded) + 1] = t
    BY <2>4, Longer
  <2>6. Len(loaded) + 1 = cursor
    <3>1. (cursor - 1) + 1 = cursor
      BY <2>2
    <3> QED
      BY <2>2, <3>1, Zenon
  <2>7. loaded' \in Seq(ReadTiles)
    BY <2>1, <2>5 DEF S
  <2> QED
    BY <2>1, <2>2, <2>3, <2>5, <2>6, <2>7
<1>14. \A k \in 1 .. cursor - 1 : k # cursor
  BY <1>4
<1>15. \A k : Read(k)' = Loader!OutputOf(loaded'[k])
  BY DEF Read, Loader!OutputOf, Loader!Range
<1>16. \A k \in 1 .. cursor - 1 : Read(k)' = Read(k)
  BY <1>13, <1>15 DEF Read
<1>17. \A k : k \in 1 .. cursor <=> (k = cursor \/ k \in 1 .. cursor - 1)
  BY <1>4
<1>18. \A k : k = cursor => Read(k)' = Loader!OutputOf(t)
  BY <1>13, <1>15
<1>19. Disjoint'
  <2>1. covered' \subseteq 0 .. opened'.nodesOut - 1
    BY <1>1, <1>3, <1>4, <1>12 DEF Disjoint
  <2>2. ASSUME NEW x
        PROVE  x \in covered' <=> \E k \in 1 .. cursor : x \in Read(k)'
    <3>1. x \in covered' <=> (x \in covered \/ x \in Loader!OutputOf(t))
      BY <1>1
    <3>2. x \in covered <=> \E k \in 1 .. cursor - 1 : x \in Read(k)
      BY <1>4 DEF Disjoint
    <3> QED
      BY <1>16, <1>17, <1>18, <3>1, <3>2, Zenon
  <2>3. ASSUME NEW j \in 1 .. cursor, NEW k \in 1 .. cursor, j # k
        PROVE  Read(j)' \cap Read(k)' = {}
    <3>1. \A i \in 1 .. cursor - 1 : Read(i) \cap Loader!OutputOf(t) = {}
      BY <1>4, <1>12 DEF Disjoint
    <3>2. \A i, l \in 1 .. cursor - 1 : i # l => Read(i) \cap Read(l) = {}
      BY <1>4 DEF Disjoint
    <3>3. CASE j = cursor
      <4>1. k \in 1 .. cursor - 1
        BY <1>17, <2>3, <3>3
      <4> QED
        BY <1>16, <1>18, <3>1, <3>3, <4>1
    <3>4. CASE k = cursor
      <4>1. j \in 1 .. cursor - 1
        BY <1>17, <2>3, <3>4
      <4> QED
        BY <1>16, <1>18, <3>1, <3>4, <4>1
    <3>5. CASE j # cursor /\ k # cursor
      <4>1. j \in 1 .. cursor - 1 /\ k \in 1 .. cursor - 1
        BY <1>17, <3>5
      <4> QED
        BY <1>16, <2>3, <3>2, <4>1
    <3> QED
      BY <3>3, <3>4, <3>5
  <2> QED
    BY <1>13, <2>1, <2>2, <2>3 DEF Disjoint
<1>20. Genuine'
  <2>1. \A k \in 1 .. cursor :
          /\ \E q \in begun : k \in 1 .. NumTiles(q) /\ loaded'[k].input = InputOf(q, k)
          /\ \E q \in begun : k \in 1 .. NumTiles(q) /\ loaded'[k].output = OutputOf(q, k)
    <3>1. \A k \in 1 .. cursor - 1 :
            /\ \E q \in begun : k \in 1 .. NumTiles(q) /\ loaded[k].input = InputOf(q, k)
            /\ \E q \in begun : k \in 1 .. NumTiles(q) /\ loaded[k].output = OutputOf(q, k)
      BY <1>4, Zenon DEF Genuine
    <3>2. loaded'[cursor] = t /\ \A k \in 1 .. cursor - 1 : loaded'[k] = loaded[k]
      BY <1>13
    <3> QED
      BY <1>9, <1>17, <3>1, <3>2, Zenon
  <2>2. cursor' - 1 = cursor
    BY <1>13
  <2> QED
    BY <1>1, <1>3, <1>5, <2>1, <2>2, Zenon DEF Genuine
<1>21. Loading'
  BY <1>1, <1>3, <1>4, <1>13, <1>19, <1>20 DEF Loading
<1>22. Following'
  <2>1. ASSUME source # None
        PROVE  /\ source = whole /\ opened = ManifestOf(source)
               /\ cursor <= NumTiles(source) /\ NumTiles(source) \in Nat
               /\ t = TileOf(InputOf(source, cursor), OutputOf(source, cursor))
               /\ \A k \in 1 .. cursor - 1 :
                    loaded[k] = TileOf(InputOf(source, k), OutputOf(source, k))
    <3>1. /\ source = whole /\ opened = ManifestOf(source)
          /\ \A k \in 1 .. cursor - 1 :
                loaded[k] = TileOf(InputOf(source, k), OutputOf(source, k))
      BY <2>1, Zenon DEF IInv, Following
    <3>2. Fit(source)
      BY <2>1, <3>1 DEF IInv, BInv, Working
    <3>3. cursor <= NumTiles(source) /\ NumTiles(source) \in Nat
      BY <1>1, <3>1, <3>2, ManifestFacts
    <3>4. cursor \in 1 .. NumTiles(source)
      BY <1>4, <3>3
    <3>5. Holds(source, cursor)
      BY <2>1, <3>1, <3>4, Zenon DEF IInv, BInv, Intact
    <3>6. inputRead = InputOf(source, cursor)
      BY <1>1, <2>1 DEF IInv, Following
    <3> QED
      BY <3>1, <3>3, <3>5, <3>6, Zenon DEF Holds, t
  <2>2. ASSUME source # None PROVE cursor' <= NumTiles(source) + 1
    <3>1. cursor' = cursor + 1 /\ cursor \in Nat
      BY <1>1, <1>4
    <3>2. cursor <= NumTiles(source) /\ NumTiles(source) \in Nat
      BY <2>1, <2>2
    <3> QED
      BY <3>1, <3>2
  <2>3. source # None => \A k \in 1 .. cursor :
          loaded'[k] = TileOf(InputOf(source, k), OutputOf(source, k))
    <3>1. loaded'[cursor] = t /\ \A k \in 1 .. cursor - 1 : loaded'[k] = loaded[k]
      BY <1>13
    <3> QED
      BY <1>17, <2>1, <3>1, Zenon
  <2>4. verdict' = "tiles" /\ cursor' - 1 = cursor
    BY <1>1, <1>13
  <2>5. verdict' # "none" /\ verdict' # "rejected" /\ verdict' # "accepted"
    BY <2>4
  <2> QED
    BY <1>1, <1>3, <2>1, <2>2, <2>3, <2>4, <2>5, Zenon DEF Following
<1> QED
  BY <1>2, <1>21, <1>22 DEF IInv

(* A tile of one whole build is refused only when it leaves the nodes.      *)
LEMMA RejectTile ==
  ASSUME IInv, ReadOutput, verdict' = "rejected"
  PROVE  IInv'
<1> DEFINE t == TileOf(inputRead, outputFile[cursor])
<1>1. /\ verdict = "tiles" /\ cursor <= Len(opened.tiles)
      /\ UNCHANGED <<covered, loaded, cursor, opened, source, loads, builderVars>>
      /\ inputRead # None /\ inputRead' = None
      /\ ~ (/\ t.output \notin {Missing, Torn}
            /\ Loader!WellFormed(t) /\ Loader!MayCover(t))
  BY DEF ReadOutput
<1>2. BInv'
  BY <1>1, Zenon DEF IInv, BInv, Working, Searching, HaloDone, Meant, Progress, Intact, Holds,
        builderVars
<1>3. Loading'
  BY <1>1 DEF IInv, Loading
<1>4. whole' = whole /\ source' = source /\ opened' = opened /\ cursor' = cursor /\ loaded' = loaded
  BY <1>1 DEF builderVars
<1>5. ASSUME source # None, Loadable(source)
      PROVE  FALSE
  <2>1. /\ source = whole /\ opened = ManifestOf(source)
        /\ \A k \in 1 .. cursor - 1 :
              loaded[k] = TileOf(InputOf(source, k), OutputOf(source, k))
    BY <1>5, Zenon DEF IInv, Following
  <2>2. Fit(source)
    BY <1>5, <2>1 DEF IInv, BInv, Working
  <2>3. cursor \in Nat \ {0} /\ Disjoint
    BY <1>1 DEF IInv, Loading
  <2>4. /\ cursor <= NumTiles(source) /\ NumTiles(source) \in Nat
        /\ opened.nodesOut = NodesOf(source)
    BY <1>1, <2>1, <2>2, ManifestFacts
  <2>5. cursor \in 1 .. NumTiles(source)
        /\ \A k \in 1 .. cursor - 1 : k \in 1 .. NumTiles(source) /\ k # cursor
    BY <2>3, <2>4
  <2>6. Holds(source, cursor)
    BY <1>5, <2>1, <2>5, Zenon DEF IInv, BInv, Intact
  <2>7. t = TileOf(InputOf(source, cursor), OutputOf(source, cursor))
    <3>1. inputRead = InputOf(source, cursor)
      BY <1>1, <1>5 DEF IInv, Following
    <3> QED
      BY <2>6, <3>1, Zenon DEF Holds
  <2> DEFINE P == Partition(source)
  <2>8. Splits(P, NodesOf(source))
    BY <1>5, <2>2, PartitionSplits, LoadableFits
  <2>9. \A k \in 1 .. NumTiles(source) :
          /\ InputOf(source, k) \in Seq(Int) /\ OutputOf(source, k) \in Seq(Int)
          /\ \A in : LET u == TileOf(in, OutputOf(source, k)) IN
               /\ Loader!OutputOf(u) = P[k]
               /\ u.output # <<>> /\ Loader!IsInjective(u.output)
    BY <2>2, TileFacts
  <2>10. /\ InputOf(source, cursor) \in Seq(Int) /\ OutputOf(source, cursor) \in Seq(Int)
         /\ Loader!OutputOf(t) = P[cursor] /\ t.output # <<>> /\ Loader!IsInjective(t.output)
    BY <2>5, <2>7, <2>9, Zenon
  <2>11. \A k \in 1 .. cursor - 1 : Read(k) = P[k]
    BY <2>1, <2>5, <2>9, Zenon DEF Read
  <2> HIDE DEF P
  <2>12. P[cursor] \subseteq 0 .. NodesOf(source) - 1
    BY <2>5, <2>8, Zenon DEF Splits, NumTiles, P
  <2>13. \A k \in 1 .. cursor - 1 : P[k] \cap P[cursor] = {}
    BY <2>5, <2>8, Zenon DEF Splits, NumTiles, P
  <2>14. P[cursor] \cap covered = {}
    <3>1. \A x : x \in covered => \E k \in 1 .. cursor - 1 : x \in P[k]
      BY <2>3, <2>11 DEF Disjoint
    <3> QED
      BY <2>13, <3>1
  <2>15. t.weighted = FALSE /\ t.input = InputOf(source, cursor)
         /\ t.output = OutputOf(source, cursor)
    BY <2>7 DEF TileOf
  <2> HIDE DEF t
  <2>16. t.input \notin {Missing, Torn} /\ t.output \notin {Missing, Torn}
    BY <2>10, <2>15, FileAssumption, Zenon
  <2>17. Loader!WellFormed(t)
    BY <2>4, <2>10, <2>12, <2>15 DEF Loader!WellFormed, Loader!Node
  <2>18. Loader!MayCover(t)
    BY <2>10, <2>14 DEF Loader!MayCover
  <2> QED
    BY <1>1, <2>16, <2>17, <2>18
<1>6. Following'
  <2>1. verdict' # "none" /\ verdict' # "accepted"
    OBVIOUS
  <2> QED
    BY <1>1, <1>4, <1>5, <2>1, Zenon DEF IInv, Following
<1> QED
  BY <1>2, <1>3, <1>6 DEF IInv

LEMMA ConcludeOK ==
  ASSUME IInv, Conclude
  PROVE  IInv'
<1>1. /\ verdict = "tiles" /\ cursor > Len(opened.tiles)
      /\ UNCHANGED <<opened, cursor, inputRead, covered, loaded, source, loads, builderVars>>
      /\ verdict' = IF Loader!Complete /\ opened.grid # NullGrid
                         /\ Loader!GridFits(Loader!EffectiveGrid)
                    THEN "accepted" ELSE "rejected"
  BY DEF Conclude
<1>2. BInv'
  BY <1>1, Zenon DEF IInv, BInv, Working, Searching, HaloDone, Meant, Progress, Intact, Holds,
        builderVars
<1>3. /\ whole' = whole /\ source' = source /\ opened' = opened /\ cursor' = cursor
      /\ loaded' = loaded /\ begun' = begun /\ covered' = covered /\ loads' = loads
  BY <1>1 DEF builderVars
<1>4. /\ cursor \in Nat \ {0} /\ loaded \in Seq(ReadTiles) /\ Len(loaded) = cursor - 1
      /\ loads \in 0 .. MaxLoads /\ Disjoint /\ Genuine /\ cursor <= Len(opened.tiles) + 1
  BY <1>1 DEF IInv, Loading
<1>5. PICK q0 \in begun : opened = ManifestOf(q0)
  BY <1>4 DEF Genuine
<1>6. Len(opened.tiles) \in Nat
  <2>1. Fit(q0)
    BY <1>5 DEF IInv, BInv, Working
  <2> QED
    BY <1>5, <2>1, ManifestFacts
<1>7. cursor = Len(opened.tiles) + 1
  BY <1>1, <1>4, <1>6
<1>8. verdict' = "accepted" => covered = 0 .. opened.nodesOut - 1
  BY <1>1 DEF Loader!Complete, Loader!Node
<1>9. verdict' \in {"accepted", "rejected"}
  BY <1>1
<1>10. Loading'
  <2>1. Disjoint' /\ Genuine'
    <3>1. \A k : Read(k)' = Read(k)
      BY <1>3 DEF Read, Loader!OutputOf, Loader!Range
    <3>2. Disjoint'
      BY <1>3, <1>4, <3>1, Zenon DEF Disjoint
    <3>3. Genuine'
      BY <1>1, <1>3, <1>4, Zenon DEF Genuine
    <3> QED
      BY <3>2, <3>3
  <2> QED
    BY <1>3, <1>4, <1>7, <1>8, <1>9, <2>1 DEF Loading
<1>11. ASSUME source # None
       PROVE  /\ source = whole /\ opened = ManifestOf(source)
              /\ cursor = NumTiles(source) + 1
              /\ \A k \in 1 .. cursor - 1 :
                    loaded[k] = TileOf(InputOf(source, k), OutputOf(source, k))
              /\ verdict' = "accepted" <=> Loadable(source)
  <2>1. /\ source = whole /\ opened = ManifestOf(source)
        /\ \A k \in 1 .. cursor - 1 :
              loaded[k] = TileOf(InputOf(source, k), OutputOf(source, k))
    BY <1>11, Zenon DEF IInv, Following
  <2> DEFINE q == source
             P == Partition(q)
             n == NodesOf(q)
             g == GridOf(q)
             m == g[1] * g[2]
  <2>2. Fit(q)
    BY <1>11, <2>1 DEF IInv, BInv, Working
  <2>3. /\ opened.nodesOut = n /\ Len(opened.tiles) = NumTiles(q)
        /\ opened.grid = IF g = NoGrid THEN NullGrid ELSE g
        /\ NumTiles(q) \in Nat \ {0}
    BY <2>1, <2>2, ManifestFacts
  <2>4. cursor = NumTiles(q) + 1 /\ cursor - 1 = NumTiles(q)
    BY <1>7, <2>3
  <2>5. Splits(P, Limit(q)) /\ Limit(q) \in Nat \ {0} /\ n \in Nat \ {0}
    BY <2>2, PartitionSplits, NodeFacts DEF Positives
  <2>6. \A k \in 1 .. NumTiles(q) : Read(k) = P[k]
    <3>1. \A k \in 1 .. NumTiles(q) : Loader!OutputOf(TileOf(InputOf(q, k), OutputOf(q, k))) = P[k]
      BY <2>2, TileFacts
    <3>2. \A k \in 1 .. NumTiles(q) : loaded[k] = TileOf(InputOf(q, k), OutputOf(q, k))
      BY <2>1, <2>4
    <3> QED
      BY <3>1, <3>2, Zenon DEF Read
  <2>7. covered = 0 .. Limit(q) - 1
    <3>1. \A x : x \in covered <=> \E k \in 1 .. NumTiles(q) : x \in P[k]
      BY <1>4, <2>4, <2>6 DEF Disjoint
    <3>2. \A k \in 1 .. NumTiles(q) : P[k] \subseteq 0 .. Limit(q) - 1
      BY <2>5, Zenon DEF Splits, NumTiles
    <3>3. \A x \in 0 .. Limit(q) - 1 : \E k \in 1 .. NumTiles(q) : x \in P[k]
      BY <2>5, Zenon DEF Splits, NumTiles
    <3> HIDE DEF P
    <3> QED
      BY <3>1, <3>2, <3>3, Zenon
  <2>8. opened.tiles # <<>>
    <3>1. Len(<<>>) = 0
      OBVIOUS
    <3> QED
      BY <2>3, <3>1
  <2>9. Loader!Complete <=> Limit(q) = n
    <3>1. Loader!Complete <=> covered = 0 .. n - 1
      BY <2>3, <2>8 DEF Loader!Complete, Loader!Tiles, Loader!Node
    <3>2. 0 .. Limit(q) - 1 = 0 .. n - 1 <=> Limit(q) = n
      <4> DEFINE a == Limit(q)
      <4>1. a \in Nat \ {0} /\ n \in Nat \ {0}
        BY <2>5
      <4> HIDE DEF a, n
      <4>2. 0 .. a - 1 = 0 .. n - 1 => a = n
        <5>1. a - 1 \in 0 .. a - 1 /\ n - 1 \in 0 .. n - 1
          BY <4>1
        <5>2. ASSUME 0 .. a - 1 = 0 .. n - 1
              PROVE  a - 1 \in 0 .. n - 1 /\ n - 1 \in 0 .. a - 1
          BY <5>1, <5>2, Zenon
        <5> QED
          BY <4>1, <5>2
      <4> QED
        BY <4>2 DEF a
    <3> QED
      BY <2>7, <3>1, <3>2, Zenon
  <2>10. CASE g = NoGrid
    <3>1. opened.grid = NullGrid
      BY <2>3, <2>10
    <3>2. verdict' = "rejected"
      BY <1>1, <3>1
    <3>3. ~Loadable(q)
      BY <2>10 DEF Loadable
    <3> QED
      BY <2>1, <2>4, <3>2, <3>3
  <2>11. CASE g # NoGrid
    <3>1. g \in Int \X Int /\ opened.grid = g
      BY <2>2, <2>3, <2>11, GridFacts
    <3>2. opened.grid # NullGrid
      BY <3>1, FileAssumption
    <3>3. Loader!EffectiveGrid = g
      BY <3>1 DEF Loader!EffectiveGrid
    <3>4. Loader!GridFits(Loader!EffectiveGrid) <=> (g[1] > 1 /\ g[2] > 1 /\ m <= n)
      BY <2>3, <2>11, <3>3 DEF Loader!GridFits, Loader!Normalised
    <3>5. Loadable(q) <=> /\ g[1] > 1 /\ g[2] > 1
                          /\ IF q.tileGrid # NoGrid THEN m = n ELSE m <= n
      BY <2>11 DEF Loadable
    <3>6. Limit(q) = IF q.tileGrid # NoGrid THEN m ELSE n
      BY DEF Limit
    <3>7. verdict' = "accepted" <=> (Limit(q) = n /\ g[1] > 1 /\ g[2] > 1 /\ m <= n)
      BY <1>1, <2>9, <3>2, <3>4
    <3>8. verdict' = "accepted" <=> Loadable(q)
      <4> HIDE DEF m, n, g, q
      <4>1. n \in Nat
        BY <2>5
      <4>2. m = n => m <= n
        BY <4>1
      <4> QED
        BY <3>5, <3>6, <3>7, <4>2
    <3> QED
      BY <2>1, <2>4, <3>8
  <2> QED
    BY <2>10, <2>11
<1>12. Following'
  <2>1. verdict' # "none" /\ (verdict' = "rejected" => verdict' # "accepted")
    BY <1>9
  <2>2. source # None => cursor <= NumTiles(source) + 1
    BY <1>4, <1>11
  <2>3. inputRead' = inputRead
    BY <1>1
  <2> QED
    BY <1>3, <1>11, <2>1, <2>2, <2>3 DEF IInv, Following
<1> QED
  BY <1>2, <1>10, <1>12 DEF IInv

-----------------------------------------------------------------------------

LEMMA InitOK == Init => IInv
<1> SUFFICES ASSUME Init PROVE IInv
  OBVIOUS
<1>1. /\ phase = "idle" /\ build = None /\ whole = None /\ begun = {} /\ started = 0
      /\ inputFile = [k \in 1 .. MaxTiles |-> Missing]
      /\ outputFile = [k \in 1 .. MaxTiles |-> Missing]
      /\ manifestFile = Missing
      /\ verdict = "none" /\ cursor = 1 /\ inputRead = None /\ loaded = <<>> /\ source = None /\ loads = 0
  BY DEF Init, BuilderInit
<1>2. Working
  <2>1. started \in 0 .. MaxBuilds
    BY <1>1, BuildAssumption
  <2> QED
    BY <1>1, <2>1 DEF Working
<1>3. Searching /\ Progress /\ Intact
  BY <1>1 DEF Searching, Progress, Intact
<1>4. Meant
  BY <1>1 DEF Meant
<1>5. Loading
  <2>1. loads \in 0 .. MaxLoads
    BY <1>1, LoadAssumption
  <2>2. loaded \in Seq(ReadTiles) /\ Len(loaded) = cursor - 1 /\ cursor \in Nat \ {0}
    BY <1>1
  <2> QED
    BY <1>1, <2>1, <2>2 DEF Loading
<1>6. Following
  BY <1>1 DEF Following
<1> QED
  BY <1>2, <1>3, <1>4, <1>5, <1>6 DEF IInv, BInv

LEMMA NextOK ==
  ASSUME IInv, [Next]_vars
  PROVE  IInv'
<1>1. CASE Build
  BY <1>1, BuildOK
<1>2. CASE OpenManifest
  BY <1>2, OpenManifestOK
<1>3. CASE ReadInput \/ ReadOutput
  BY <1>3, ReadInputOK, AcceptTile, RejectTile
<1>4. CASE Conclude
  BY <1>4, ConcludeOK
<1>5. CASE UNCHANGED vars
  <2>1. UNCHANGED builderVars /\ UNCHANGED loaderVars
    BY <1>5 DEF vars
  <2>2. BInv'
    BY <2>1, Zenon DEF IInv, BInv, Working, Searching, HaloDone, Meant, Progress, Intact, Holds,
          builderVars
  <2>3. UNCHANGED <<verdict, opened, cursor, inputRead, covered, loaded, source, loads, begun,
                  whole>>
    BY <2>1 DEF loaderVars, builderVars
  <2>4. Loading'
    <3>1. \A k : Read(k)' = Read(k)
      BY <2>3 DEF Read, Loader!OutputOf, Loader!Range
    <3>2. (Disjoint => Disjoint') /\ (Genuine => Genuine')
      BY <2>3, <3>1, Zenon DEF Disjoint, Genuine
    <3> QED
      BY <2>3, <3>2 DEF IInv, Loading
  <2>5. Following'
    BY <2>3, Zenon DEF IInv, Following
  <2> QED
    BY <2>2, <2>4, <2>5 DEF IInv
<1> QED
  BY <1>1, <1>2, <1>3, <1>4, <1>5 DEF Next

(* The invariant of the builder and the loader together.                    *)
THEOREM Inductive == Spec => []IInv
  BY InitOK, NextOK, PTL DEF Spec

LEMMA TypeHolds == IInv => TypeOK
<1> SUFFICES ASSUME IInv PROVE TypeOK
  OBVIOUS
<1>1. \A q \in begun : q \in Builds
  BY DEF IInv, BInv, Working, Fit
<1>2. /\ build \in Builds \cup {None} /\ whole \in Builds \cup {None}
      /\ source \in Builds \cup {None}
  BY <1>1 DEF IInv, BInv, Working, Following
<1>3. ASSUME phase # "idle"
      PROVE  /\ tile \in 1 .. Len(Partition(build)) /\ frontier \subseteq visited
             /\ hop \in 0 .. build.hops /\ Partition(build)[tile] \subseteq visited
  BY <1>3 DEF IInv, BInv, Working, Searching, NumTiles
<1>4. /\ phase \in {"idle", "expand", "input", "half", "output", "saved", "manifest"}
      /\ started \in 0 .. MaxBuilds
  BY DEF IInv, BInv, Working
<1>5. /\ loads \in 0 .. MaxLoads /\ verdict \in {"none", "tiles", "accepted", "rejected"}
      /\ Len(loaded) = cursor - 1
  BY DEF IInv, Loading
<1> QED
  BY <1>2, <1>3, <1>4, <1>5 DEF TypeOK

(* The builder is always at work on a build it was given, on one of its     *)
(* tiles and within its hops.                                               *)
THEOREM TypeCorrect == Spec => []TypeOK
  BY Inductive, TypeHolds, PTL

LEMMA HaloHolds == IInv => HaloExact
<1> SUFFICES ASSUME IInv, phase \in {"input", "half", "output"}
             PROVE  visited = ReceptiveField(build, Partition(build)[tile])
  BY DEF HaloExact
<1>1. phase # "idle" /\ HaloDone /\ BInv
  BY DEF IInv, BInv, Searching
<1> QED
  BY <1>1, SearchDone

(* The search that looks only at its frontier and stops early finds the     *)
(* whole receptive field of every tile, whatever the graph and the hops.    *)
THEOREM HaloFound == Spec => []HaloExact
  BY Inductive, HaloHolds, PTL

(* The tiles a load has, as a function.                                     *)
LEMMA LoadedFacts ==
  ASSUME IInv
  PROVE  /\ DOMAIN loaded = 1 .. cursor - 1 /\ loaded = [k \in 1 .. cursor - 1 |-> loaded[k]]
         /\ \A k \in 1 .. cursor - 1 : loaded[k] = TileOf(loaded[k].input, loaded[k].output)
<1>1. cursor \in Nat \ {0} /\ loaded \in Seq(ReadTiles) /\ Len(loaded) = cursor - 1
  BY DEF IInv, Loading
<1>2. DOMAIN loaded = 1 .. cursor - 1 /\ loaded = [k \in 1 .. cursor - 1 |-> loaded[k]]
  BY <1>1
<1>3. \A k \in 1 .. cursor - 1 : loaded[k] \in ReadTiles
  BY <1>1
<1>4. \A t \in ReadTiles : t = TileOf(t.input, t.output)
  <2>1. ASSUME NEW t \in ReadTiles PROVE t = TileOf(t.input, t.output)
    <3>1. PICK in \in Seq(Int), out \in Seq(Int) : t = TileOf(in, out)
      BY DEF ReadTiles
    <3>2. t.input = in /\ t.output = out
      BY <3>1 DEF TileOf
    <3> QED
      BY <3>1, <3>2
  <2> QED
    BY <2>1
<1> QED
  BY <1>2, <1>3, <1>4

LEMMA TilesFacts ==
  ASSUME NEW q
  PROVE  /\ TilesOf(q) = [k \in 1 .. NumTiles(q) |-> TileOf(InputOf(q, k), OutputOf(q, k))]
         /\ DOMAIN TilesOf(q) = 1 .. NumTiles(q)
         /\ \A k \in 1 .. NumTiles(q) : /\ TilesOf(q)[k].input = InputOf(q, k)
                                        /\ TilesOf(q)[k].output = OutputOf(q, k)
<1>1. TilesOf(q) = [k \in 1 .. NumTiles(q) |-> TileOf(InputOf(q, k), OutputOf(q, k))]
  BY DEF TilesOf, NumTiles, InputOf, OutputOf
<1> QED
  BY <1>1 DEF TileOf

LEMMA WholeHolds == IInv => WholeBuildLoads
<1> SUFFICES ASSUME IInv, source # None, verdict \in {"accepted", "rejected"}
             PROVE  IF Loadable(source) THEN verdict = "accepted" /\ loaded = TilesOf(source)
                    ELSE verdict = "rejected"
  BY DEF WholeBuildLoads
<1>1. /\ verdict = "rejected" => ~Loadable(source)
      /\ verdict = "accepted" => Loadable(source) /\ cursor = NumTiles(source) + 1
      /\ \A k \in 1 .. cursor - 1 : loaded[k] = TileOf(InputOf(source, k), OutputOf(source, k))
      /\ source = whole
  BY DEF IInv, Following
<1>2. Fit(source)
  BY <1>1 DEF IInv, BInv, Working
<1>3. NumTiles(source) \in Nat
  BY <1>2, ManifestFacts
<1>4. CASE verdict = "rejected"
  BY <1>1, <1>4
<1>5. CASE verdict = "accepted"
  <2>1. Loadable(source) /\ cursor - 1 = NumTiles(source)
    BY <1>1, <1>3, <1>5
  <2>2. loaded = [k \in 1 .. NumTiles(source) |-> loaded[k]]
    BY <2>1, LoadedFacts
  <2>3. \A k \in 1 .. NumTiles(source) :
          loaded[k] = TileOf(InputOf(source, k), OutputOf(source, k))
    BY <1>1, <2>1
  <2>4. loaded = TilesOf(source)
    BY <2>2, <2>3, TilesFacts
  <2> QED
    BY <1>5, <2>1, <2>4
<1> QED
  BY <1>4, <1>5

(* A load that met one whole build takes exactly its tiles, or refuses a    *)
(* build that was not loadable.                                             *)
THEOREM WholeLoads == Spec => []WholeBuildLoads
  BY Inductive, WholeHolds, PTL

LEMMA BuiltHolds == IInv => EveryFileWasBuilt
<1> SUFFICES ASSUME IInv, verdict = "accepted"
             PROVE  /\ \A k \in DOMAIN loaded :
                         /\ \E q \in begun : /\ k \in DOMAIN TilesOf(q)
                                             /\ loaded[k].input = TilesOf(q)[k].input
                         /\ \E q \in begun : /\ k \in DOMAIN TilesOf(q)
                                             /\ loaded[k].output = TilesOf(q)[k].output
                    /\ begun = {build} => loaded = TilesOf(build)
  BY Zenon DEF EveryFileWasBuilt
<1>1. Genuine /\ cursor = Len(opened.tiles) + 1 /\ cursor \in Nat \ {0}
  BY DEF IInv, Loading
<1>2. DOMAIN loaded = 1 .. cursor - 1
  BY LoadedFacts
<1>3. \A k \in DOMAIN loaded :
        /\ \E q \in begun : k \in DOMAIN TilesOf(q) /\ loaded[k].input = TilesOf(q)[k].input
        /\ \E q \in begun : k \in DOMAIN TilesOf(q) /\ loaded[k].output = TilesOf(q)[k].output
  BY <1>1, <1>2, TilesFacts, Zenon DEF Genuine
<1>4. ASSUME begun = {build}
      PROVE  loaded = TilesOf(build)
  <2>1. Fit(build)
    BY <1>4 DEF IInv, BInv, Working
  <2>2. Len(opened.tiles) = NumTiles(build) /\ NumTiles(build) \in Nat
    BY <1>1, <1>4, <2>1, ManifestFacts DEF Genuine
  <2>3. cursor - 1 = NumTiles(build)
    BY <1>1, <2>2
  <2>4. \A k \in 1 .. NumTiles(build) :
          loaded[k].input = InputOf(build, k) /\ loaded[k].output = OutputOf(build, k)
    BY <1>1, <1>4, <2>3 DEF Genuine
  <2>5. \A k \in 1 .. NumTiles(build) : loaded[k] = TileOf(loaded[k].input, loaded[k].output)
    BY <2>3, LoadedFacts
  <2>6. loaded = [k \in 1 .. NumTiles(build) |-> loaded[k]]
    BY <2>3, LoadedFacts
  <2>7. \A k \in 1 .. NumTiles(build) :
          loaded[k] = TileOf(InputOf(build, k), OutputOf(build, k))
    BY <2>4, <2>5
  <2> QED
    BY <2>6, <2>7, TilesFacts
<1> QED
  BY <1>3, <1>4

(* Builds may be killed, raise or overlap with loads: every file of a       *)
(* bundle that loads was written whole by some build that has begun.        *)
THEOREM FilesWereBuilt == Spec => []EveryFileWasBuilt
  BY Inductive, BuiltHolds, PTL

LEMMA MixHolds == IInv => MixIsPartition
<1> SUFFICES ASSUME IInv, verdict = "accepted"
             PROVE  /\ UNION {Loader!OutputOf(loaded[i]) : i \in DOMAIN loaded}
                         = 0 .. opened.nodesOut - 1
                    /\ \A i, j \in DOMAIN loaded :
                         i # j => Loader!OutputOf(loaded[i]) \cap Loader!OutputOf(loaded[j]) = {}
  BY Zenon DEF MixIsPartition
<1>1. Disjoint /\ covered = 0 .. opened.nodesOut - 1
  BY DEF IInv, Loading
<1>2. DOMAIN loaded = 1 .. cursor - 1
  BY LoadedFacts
<1>3. \A x : x \in UNION {Loader!OutputOf(loaded[i]) : i \in DOMAIN loaded}
               <=> \E i \in DOMAIN loaded : x \in Loader!OutputOf(loaded[i])
  BY Zenon
<1>4. \A x : x \in covered <=> \E i \in DOMAIN loaded : x \in Loader!OutputOf(loaded[i])
  BY <1>1, <1>2, Zenon DEF Disjoint, Read
<1>5. UNION {Loader!OutputOf(loaded[i]) : i \in DOMAIN loaded} = covered
  BY <1>3, <1>4, Zenon
<1>6. \A i, j \in DOMAIN loaded :
        i # j => Loader!OutputOf(loaded[i]) \cap Loader!OutputOf(loaded[j]) = {}
  BY <1>1, <1>2, Zenon DEF Disjoint, Read
<1> QED
  BY <1>1, <1>5, <1>6, Zenon

(* A bundle mixed from several builds loads only when its tiles share out   *)
(* the nodes of the model.                                                  *)
THEOREM MixSharesOut == Spec => []MixIsPartition
  BY Inductive, MixHolds, PTL

=============================================================================
