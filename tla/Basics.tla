------------------------------- MODULE Basics --------------------------------
(***************************************************************************)
(* Facts about numbers and sequences that the proofs of several components  *)
(* need.                                                                   *)
(***************************************************************************)
EXTENDS Integers, Sequences, Vectors, WellFoundedInduction, TLAPS

\* The least number principle, by which facts about every natural number are proved.
LEMMA NatMin ==
    ASSUME NEW T, T \subseteq Nat, T # {}
    PROVE  \E n \in T : \A m \in T : n <= m
<1> DEFINE R == OpToRel(<, Nat)
<1>1. IsWellFoundedOn(R, Nat)
    BY NatLessThanWellFounded
<1>2. \A x, y \in Nat : <<x, y>> \in R <=> x < y
    BY DEF OpToRel
<1> HIDE DEF R
<1>3. PICK x \in T : \A y \in T : ~(<<y, x>> \in R)
    BY <1>1, WFMin
<1>4. ASSUME NEW y \in T PROVE x <= y
  <2>1. x \in Nat /\ y \in Nat
      OBVIOUS
  <2>2. ~(<<y, x>> \in R)
      BY <1>3
  <2>3. <<y, x>> \in R <=> y < x
      BY <1>2, <2>1
  <2>4. ~(y < x)
      BY <2>2, <2>3, Zenon
  <2> QED
      BY <2>1, <2>4
<1> QED
    BY <1>4

\* Induction up to n over a set of numbers.
LEMMA UpTo ==
    ASSUME NEW n \in Nat, NEW T, 0 \in T, \A i \in 1..n : i - 1 \in T => i \in T
    PROVE  \A i \in 0..n : i \in T
<1> DEFINE Bad == {i \in 0..n : i \notin T}
<1> SUFFICES ASSUME Bad # {} PROVE FALSE
    OBVIOUS
<1>1. Bad \subseteq Nat
    OBVIOUS
<1>2. PICK m \in Bad : \A k \in Bad : m <= k
    BY <1>1, NatMin
<1>3. m \in 1..n
    BY <1>2
<1>4. m - 1 \notin Bad /\ m - 1 \in 0..n
    BY <1>2, <1>3
<1> QED
    BY <1>2, <1>3, <1>4

\* g starts at base and goes on, at each number up to n, by a step from its last value.
Iterates(g, S, base, n, step) ==
    /\ g \in [0..n -> S] /\ g[0] = base
    /\ \A i \in 1..n : g[i] = step[<<g[i - 1], i>>]

\* A function that is defined by its value at zero and a step from each number to the next
\* exists, for a step that is a function.
LEMMA RecursionExists ==
    ASSUME NEW S, NEW base \in S, NEW n \in Nat, NEW step \in [S \X (1..n) -> S]
    PROVE  \E g : Iterates(g, S, base, n, step)
<1> DEFINE Upto(g, m) == g[0] = base /\ \A i \in 1..m : g[i] = step[<<g[i - 1], i>>]
           T == {m \in 0..n : \E g \in [0..m -> S] : Upto(g, m)}
<1>1. 0 \in T
  <2> DEFINE g == [i \in 0..0 |-> base]
  <2>1. g \in [0..0 -> S] /\ Upto(g, 0)
      OBVIOUS
  <2>2. 0 \in 0..n
      OBVIOUS
  <2> HIDE DEF g, Upto
  <2> QED
      BY <2>1, <2>2
<1>2. ASSUME NEW m \in 1..n, m - 1 \in T PROVE m \in T
  <2>1. PICK g \in [0..(m - 1) -> S] : Upto(g, m - 1)
      BY <1>2
  <2>2. m \in Nat /\ m - 1 \in Nat /\ m - 1 \in 0..(m - 1) /\ m \in 0..n
      OBVIOUS
  <2>3. step[<<g[m - 1], m>>] \in S
      BY <2>2
  <2> DEFINE h == [i \in 0..m |-> IF i = m THEN step[<<g[m - 1], m>>] ELSE g[i]]
  <2>4. h \in [0..m -> S]
      BY <2>2, <2>3
  <2>5. h[m] = step[<<g[m - 1], m>>] /\ \A i \in 0..(m - 1) : h[i] = g[i]
      BY <2>2
  <2> HIDE DEF h
  <2>6. ASSUME NEW i \in 1..m PROVE h[i] = step[<<h[i - 1], i>>]
    <3>1. i - 1 \in 0..(m - 1) /\ h[i - 1] = g[i - 1]
        BY <2>2, <2>5
    <3>2. CASE i = m
        BY <2>5, <3>1, <3>2
    <3>3. CASE i # m
      <4>1. i \in 1..(m - 1) /\ i \in 0..(m - 1)
          BY <2>2, <3>3
      <4> QED
          BY <2>1, <2>5, <3>1, <4>1
    <3> QED
        BY <3>2, <3>3
  <2>7. h[0] = base
      BY <2>1, <2>2, <2>5
  <2> QED
      BY <2>2, <2>4, <2>6, <2>7
<1> HIDE DEF T
<1>3. \A i \in 0..n : i \in T
    BY <1>1, <1>2, UpTo
<1>4. n \in T
    BY <1>3
<1> QED
    BY <1>4 DEF T, Iterates

\* What is appended to, taken from and cut from a sequence.
LEMMA AppendFacts ==
    ASSUME NEW S, NEW q \in Seq(S), NEW x \in S
    PROVE  /\ Append(q, x) \in Seq(S)
           /\ Len(q) \in Nat /\ Len(Append(q, x)) = Len(q) + 1
           /\ Append(q, x)[Len(q) + 1] = x
           /\ \A i \in 1..Len(q) : Append(q, x)[i] = q[i]
OBVIOUS

LEMMA AppendOne ==
    ASSUME NEW x, NEW y
    PROVE  Append(<<x>>, y) = <<x, y>>
<1> DEFINE q == <<x>>
           r == <<x, y>>
           S == {x, y}
<1>1. q \in Seq(S) /\ Len(q) = 1 /\ q[1] = x /\ y \in S
    OBVIOUS
<1>2. r \in Seq(S) /\ Len(r) = 2 /\ r[1] = x /\ r[2] = y
    OBVIOUS
<1> HIDE DEF q, r, S
<1>3. /\ Append(q, y) \in Seq(S)
      /\ Len(q) \in Nat /\ Len(Append(q, y)) = Len(q) + 1
      /\ Append(q, y)[Len(q) + 1] = y
      /\ \A i \in 1..Len(q) : Append(q, y)[i] = q[i]
    BY <1>1, SMTT(30)
<1>4. Append(q, y) = r
  <2>1. Len(Append(q, y)) = 2 /\ Append(q, y)[1] = x /\ Append(q, y)[2] = y
      BY <1>1, <1>3
  <2> QED
      BY <1>2, <1>3, <2>1
<1> QED
    BY <1>4 DEF q, r

LEMMA TailFacts ==
    ASSUME NEW S, NEW q \in Seq(S), q # <<>>
    PROVE  /\ Tail(q) \in Seq(S)
           /\ Len(q) \in Nat \ {0} /\ Len(Tail(q)) = Len(q) - 1
           /\ Head(q) = q[1] /\ q[1] \in S
           /\ \A i \in 1..(Len(q) - 1) : Tail(q)[i] = q[i + 1]
OBVIOUS

LEMMA CutFacts ==
    ASSUME NEW S, NEW q \in Seq(S), NEW n \in 0..Len(q)
    PROVE  /\ SubSeq(q, 1, n) \in Seq(S) /\ Len(SubSeq(q, 1, n)) = n
           /\ \A i \in 1..n : SubSeq(q, 1, n)[i] = q[i]
           /\ SubSeq(q, n + 1, Len(q)) \in Seq(S) /\ Len(SubSeq(q, n + 1, Len(q))) = Len(q) - n
           /\ \A i \in 1..(Len(q) - n) : SubSeq(q, n + 1, Len(q))[i] = q[n + i]
<1>1. Len(q) \in Nat /\ n \in Nat
    OBVIOUS
<1> QED
    BY <1>1

LEMMA ConcatFacts ==
    ASSUME NEW S, NEW q \in Seq(S), NEW r \in Seq(S)
    PROVE  /\ q \o r \in Seq(S) /\ Len(q) \in Nat /\ Len(r) \in Nat /\ Len(q \o r) = Len(q) + Len(r)
           /\ \A i \in 1..Len(q) : (q \o r)[i] = q[i]
           /\ \A i \in 1..Len(r) : (q \o r)[Len(q) + i] = r[i]
OBVIOUS

\* Sequences with the same elements are the same.
LEMMA SeqExtensional ==
    ASSUME NEW S, NEW a \in Seq(S), NEW b \in Seq(S), Len(a) = Len(b),
           \A i \in 1..Len(a) : a[i] = b[i]
    PROVE  a = b
OBVIOUS

-----------------------------------------------------------------------------
(* The order of vectors *)

\* The first place at which b goes on where a ends, or has the larger number.
Diverges(a, b, i) ==
    /\ i <= Len(b) /\ i <= Len(a) + 1
    /\ \A j \in 1..(i - 1) : a[j] = b[j]
    /\ i = Len(a) + 1 \/ a[i] < b[i]

LEMMA PrefixPointwise ==
    ASSUME NEW a \in Seq(Nat), NEW b \in Seq(Nat)
    PROVE  IsWithin(b, a) <=> Len(a) <= Len(b) /\ \A i \in 1..Len(a) : a[i] = b[i]
<1>0. Len(a) \in Nat /\ Len(b) \in Nat
    OBVIOUS
<1>1. SubSeq(a, 1, Len(a)) = a
    OBVIOUS
<1>2. ASSUME Len(a) <= Len(b)
      PROVE  SubSeq(b, 1, Len(a)) = a <=> \A i \in 1..Len(a) : a[i] = b[i]
  <2> DEFINE c == SubSeq(b, 1, Len(a))
  <2>1. c \in Seq(Nat) /\ Len(c) = Len(a) /\ \A i \in 1..Len(a) : c[i] = b[i]
      BY <1>0, <1>2
  <2> HIDE DEF c
  <2>2. ASSUME \A i \in 1..Len(a) : c[i] = a[i] PROVE c = a
      BY <1>0, <2>1, <2>2, SeqExtensional
  <2>3. c = a <=> \A i \in 1..Len(a) : a[i] = b[i]
      BY <2>1, <2>2
  <2> QED
      BY <2>3, Zenon DEF c
<1> QED
    BY <1>1, <1>2, Zenon DEF IsWithin

LEMMA BeforeDiverges ==
    ASSUME NEW a \in Seq(Nat), NEW b \in Seq(Nat)
    PROVE  Before(a, b) <=> \E i \in Nat \ {0} : Diverges(a, b, i)
<1>0. Len(a) \in Nat /\ Len(b) \in Nat
    OBVIOUS
<1>1. ASSUME IsBelow(b, a) PROVE Diverges(a, b, Len(a) + 1)
  <2>1. Len(a) <= Len(b) /\ (\A i \in 1..Len(a) : a[i] = b[i]) /\ a # b
      BY <1>1, PrefixPointwise DEF IsBelow
  <2>2. Len(a) # Len(b)
      BY <2>1
  <2> QED
      BY <1>0, <2>1, <2>2 DEF Diverges
<1>2. ASSUME NEW i \in 1..(IF Len(a) < Len(b) THEN Len(a) ELSE Len(b)),
             a[i] < b[i], \A j \in 1..(i - 1) : a[j] = b[j]
      PROVE  Diverges(a, b, i) /\ i \in Nat \ {0}
    BY <1>0, <1>2 DEF Diverges
<1>3. ASSUME NEW i \in Nat \ {0}, Diverges(a, b, i) PROVE Before(a, b)
  <2>1. CASE i = Len(a) + 1
    <3>1. Len(a) < Len(b) /\ \A j \in 1..Len(a) : a[j] = b[j]
        BY <1>0, <1>3, <2>1 DEF Diverges
    <3>2. IsWithin(b, a) /\ a # b
        BY <1>0, <3>1, PrefixPointwise
    <3> QED
        BY <3>2 DEF Before, IsBelow
  <2>2. CASE i # Len(a) + 1
      BY <1>0, <1>3, <2>2 DEF Diverges, Before
  <2> QED
      BY <2>1, <2>2
<1>4. Len(a) + 1 \in Nat \ {0}
    BY <1>0
<1> QED
    BY <1>1, <1>2, <1>3, <1>4 DEF Before

LEMMA BeforeIrreflexive ==
    ASSUME NEW a \in Seq(Nat)
    PROVE  ~Before(a, a)
<1>1. Len(a) \in Nat /\ \A i \in 1..Len(a) : a[i] \in Nat
    OBVIOUS
<1>2. ASSUME NEW i \in Nat \ {0} PROVE ~Diverges(a, a, i)
    BY <1>1 DEF Diverges
<1> QED
    BY <1>2, BeforeDiverges

LEMMA BeforeTransitive ==
    ASSUME NEW a \in Seq(Nat), NEW b \in Seq(Nat), NEW c \in Seq(Nat), Before(a, b), Before(b, c)
    PROVE  Before(a, c)
<1>0. /\ Len(a) \in Nat /\ Len(b) \in Nat /\ Len(c) \in Nat
      /\ \A i \in 1..Len(a) : a[i] \in Nat
      /\ \A i \in 1..Len(b) : b[i] \in Nat
      /\ \A i \in 1..Len(c) : c[i] \in Nat
    OBVIOUS
<1>1. PICK i \in Nat \ {0} : Diverges(a, b, i)
    BY BeforeDiverges
<1>2. PICK k \in Nat \ {0} : Diverges(b, c, k)
    BY BeforeDiverges
<1>3. CASE i < k
  <2>1. \A j \in 1..i : j \in 1..(k - 1) /\ b[j] = c[j]
      BY <1>2, <1>3 DEF Diverges
  <2>2. (\A j \in 1..(i - 1) : j \in 1..i /\ a[j] = c[j]) /\ b[i] = c[i]
      BY <1>1, <2>1 DEF Diverges
  <2>3. Diverges(a, c, i)
    <3>1. i <= Len(c) /\ i <= Len(a) + 1
        BY <1>0, <1>1, <1>2, <1>3 DEF Diverges
    <3>2. i = Len(a) + 1 \/ a[i] < c[i]
        BY <1>1, <2>2 DEF Diverges
    <3> QED
        BY <2>2, <3>1, <3>2 DEF Diverges
  <2> QED
      BY <2>3, BeforeDiverges
<1>4. CASE k < i
  <2>1. \A j \in 1..k : j \in 1..(i - 1) /\ a[j] = b[j]
      BY <1>1, <1>4 DEF Diverges
  <2>2. (\A j \in 1..(k - 1) : j \in 1..k /\ a[j] = c[j]) /\ a[k] = b[k]
      BY <1>2, <2>1 DEF Diverges
  <2>3. Diverges(a, c, k)
    <3>1. k <= Len(c) /\ k <= Len(a) + 1 /\ k # Len(b) + 1
        BY <1>0, <1>1, <1>2, <1>4, SMTT(30) DEF Diverges
    <3>2. a[k] < c[k]
        BY <1>2, <2>2, <3>1 DEF Diverges
    <3> QED
        BY <2>2, <3>1, <3>2 DEF Diverges
  <2> QED
      BY <2>3, BeforeDiverges
<1>5. CASE i = k
  <2>1. Diverges(a, c, i)
      BY <1>0, <1>1, <1>2, <1>5, SMTT(30) DEF Diverges
  <2> QED
      BY <2>1, BeforeDiverges
<1> QED
    BY <1>3, <1>4, <1>5

LEMMA BeforeTotal ==
    ASSUME NEW a \in Seq(Nat), NEW b \in Seq(Nat), a # b
    PROVE  Before(a, b) \/ Before(b, a)
<1>0. /\ Len(a) \in Nat /\ Len(b) \in Nat
      /\ \A i \in 1..Len(a) : a[i] \in Nat
      /\ \A i \in 1..Len(b) : b[i] \in Nat
    OBVIOUS
<1> DEFINE T == {i \in Nat \ {0} : i > Len(a) \/ i > Len(b) \/ a[i] # b[i]}
<1>1. T \subseteq Nat /\ T # {}
  <2>1. Len(a) + 1 \in T
      BY <1>0
  <2> QED
      BY <2>1
<1>2. PICK i \in T : \A m \in T : i <= m
    BY <1>1, NatMin, Zenon
<1>3. i \in Nat \ {0}
    OBVIOUS
<1>4. \A j \in 1..(i - 1) : j <= Len(a) /\ j <= Len(b) /\ a[j] = b[j]
  <2> TAKE j \in 1..(i - 1)
  <2>1. j \in Nat \ {0} /\ j \notin T
      BY <1>2, <1>3
  <2> QED
      BY <1>0, <2>1
<1>5. i <= Len(a) + 1 /\ i <= Len(b) + 1
  <2>1. i = 1 \/ i - 1 \in 1..(i - 1)
      BY <1>3
  <2> QED
      BY <1>0, <1>3, <1>4, <2>1
<1>6. i > Len(a) \/ i > Len(b) \/ a[i] # b[i]
    OBVIOUS
<1> HIDE DEF T
<1>7. ~(i = Len(a) + 1 /\ i = Len(b) + 1)
  <2> SUFFICES ASSUME i = Len(a) + 1, i = Len(b) + 1 PROVE FALSE
      OBVIOUS
  <2>1. Len(a) = Len(b) /\ \A j \in 1..Len(a) : a[j] = b[j]
      BY <1>0, <1>3, <1>4
  <2> QED
      BY <2>1, SMTT(30)
<1>8. Diverges(a, b, i) \/ Diverges(b, a, i)
    BY <1>0, <1>3, <1>4, <1>5, <1>6, <1>7, SMTT(30) DEF Diverges
<1> QED
    BY <1>3, <1>8, BeforeDiverges

\* What lies between two objects under a root is under the root.
LEMMA PrefixConvex ==
    ASSUME NEW r \in Seq(Nat), NEW a \in Seq(Nat), NEW b \in Seq(Nat), NEW c \in Seq(Nat),
           IsWithin(a, r), IsWithin(c, r), Before(a, b), b = c \/ Before(b, c)
    PROVE  IsWithin(b, r)
<1>0. /\ Len(r) \in Nat /\ Len(a) \in Nat /\ Len(b) \in Nat /\ Len(c) \in Nat
      /\ \A i \in 1..Len(a) : a[i] \in Nat
      /\ \A i \in 1..Len(b) : b[i] \in Nat
      /\ \A i \in 1..Len(c) : c[i] \in Nat
    OBVIOUS
<1>1. /\ Len(r) <= Len(a) /\ \A i \in 1..Len(r) : r[i] = a[i]
      /\ Len(r) <= Len(c) /\ \A i \in 1..Len(r) : r[i] = c[i]
    BY PrefixPointwise
<1>2. PICK i \in Nat \ {0} : Diverges(a, b, i)
    BY BeforeDiverges
<1>3. CASE i > Len(r)
  <2>1. Len(r) <= Len(b) /\ \A j \in 1..Len(r) : r[j] = b[j]
      BY <1>0, <1>1, <1>2, <1>3 DEF Diverges
  <2> QED
      BY <2>1, PrefixPointwise
<1>4. CASE i <= Len(r)
  <2>1. i <= Len(a) /\ i <= Len(b) /\ a[i] < b[i] /\ r[i] = a[i] /\ r[i] = c[i] /\ i <= Len(c)
    <3>1. i \in 1..Len(r) /\ i <= Len(a) /\ i <= Len(c)
        BY <1>0, <1>1, <1>4, SMTT(30)
    <3>2. r[i] = a[i] /\ r[i] = c[i]
        BY <1>1, <3>1
    <3> QED
        BY <1>0, <1>2, <3>1, <3>2 DEF Diverges
  <2>2. b # c
      BY <1>0, <2>1
  <2>3. PICK k \in Nat \ {0} : Diverges(b, c, k)
      BY <2>2, BeforeDiverges
  <2>4. CASE k < i
    <3>1. k \in 1..(i - 1) /\ k \in 1..Len(r) /\ k \in 1..Len(a) /\ k <= Len(b)
      <4>1. i <= Len(a) /\ i <= Len(b)
          BY <2>1
      <4> QED
          BY <1>0, <1>4, <2>4, <4>1, SMTT(30)
    <3>2. b[k] = a[k] /\ c[k] = a[k] /\ a[k] \in Nat
        BY <1>0, <1>1, <1>2, <3>1 DEF Diverges
    <3>3. k # Len(b) + 1
        BY <1>0, <3>1
    <3>4. b[k] < c[k]
        BY <2>3, <3>3 DEF Diverges
    <3> QED
        BY <3>2, <3>4
  <2>5. CASE k > i
    <3>1. i \in 1..(k - 1) /\ i \in 1..Len(a)
        BY <1>0, <2>1, <2>5
    <3>2. b[i] = c[i] /\ a[i] \in Nat
        BY <1>0, <2>3, <3>1 DEF Diverges
    <3> QED
        BY <2>1, <3>2, SMTT(30)
  <2>6. CASE k = i
    <3>1. i \in 1..Len(a) /\ i \in 1..Len(b) /\ i # Len(b) + 1
        BY <1>0, <2>1
    <3>2. b[i] < c[i] /\ a[i] \in Nat /\ b[i] \in Nat
        BY <1>0, <2>3, <2>6, <3>1 DEF Diverges
    <3> QED
        BY <2>1, <3>2, SMTT(30)
  <2> QED
      BY <2>4, <2>5, <2>6
<1> QED
    BY <1>0, <1>3, <1>4

\* The objects among those of a sequence have a first one.
LEMMA FirstExists ==
    ASSUME NEW q \in Seq(Seq(Nat)), NEW S, S # {}, \A x \in S : \E i \in DOMAIN q : q[i] = x
    PROVE  \E x \in S : \A y \in S \ {x} : Before(x, y)
<1> DEFINE Among(n) == {x \in S : \E i \in 1..n : q[i] = x}
           First(U) == \E x \in U : \A y \in U \ {x} : Before(x, y)
           T == {n \in 0..Len(q) : Among(n) = {} \/ First(Among(n))}
<1>1. Len(q) \in Nat /\ DOMAIN q = 1..Len(q) /\ \A i \in 1..Len(q) : q[i] \in Seq(Nat)
    OBVIOUS
<1>2. 0 \in T
    BY <1>1
<1>3. ASSUME NEW n \in 1..Len(q), n - 1 \in T PROVE n \in T
  <2> DEFINE U == Among(n - 1)
             V == Among(n)
             x == q[n]
  <2>1. V = IF x \in S THEN U \cup {x} ELSE U
    <3>1. \A i : i \in 1..n <=> i \in 1..(n - 1) \/ i = n
        BY <1>1
    <3> QED
        BY <3>1
  <2>2. U \subseteq Seq(Nat) /\ x \in Seq(Nat)
      BY <1>1
  <2>3. U = {} \/ First(U)
      BY <1>3, Zenon
  <2>4. n \in 0..Len(q)
      BY <1>1
  <2> HIDE DEF U, x
  <2>5. V = {} \/ First(V)
    <3>1. CASE V = U
        BY <2>3, <3>1, Zenon
    <3>2. CASE V = U \cup {x} /\ x \notin U
      <4>1. CASE U = {}
          BY <3>2, <4>1, Zenon
      <4>2. CASE First(U)
        <5>1. PICK y \in U : \A z \in U \ {y} : Before(y, z)
            BY <4>2, Zenon
        <5>2. x # y
            BY <3>2
        <5>3. CASE Before(y, x)
          <6>1. y \in V /\ \A z \in V \ {y} : Before(y, z)
              BY <3>2, <5>1, <5>3, Zenon
          <6> QED
              BY <6>1, Zenon
        <5>4. CASE Before(x, y)
          <6>1. \A z \in U : Before(x, z)
              BY <2>2, <5>1, <5>4, BeforeTransitive, Zenon
          <6>2. x \in V /\ \A z \in V \ {x} : Before(x, z)
              BY <3>2, <6>1, Zenon
          <6> QED
              BY <6>2, Zenon
        <5> QED
            BY <2>2, <5>2, <5>3, <5>4, BeforeTotal, Zenon
      <4> QED
          BY <2>3, <4>1, <4>2, Zenon
    <3>3. V = U \/ (V = U \cup {x} /\ x \notin U)
      <4> HIDE DEF V
      <4> QED
          BY <2>1
    <3> QED
        BY <3>1, <3>2, <3>3, Zenon
  <2> QED
      BY <2>4, <2>5, Zenon
<1> HIDE DEF T
<1>4. \A n \in 0..Len(q) : n \in T
    BY <1>1, <1>2, <1>3, UpTo
<1>5. Len(q) \in T
    BY <1>1, <1>4
<1>6. Among(Len(q)) = S
    BY <1>1, Zenon
<1> QED
    BY <1>5, <1>6, Zenon DEF T

-----------------------------------------------------------------------------
(* Filtered and flattened vectors *)

\* How a filter goes over a sequence.
Filters(g, S, s, positions) ==
    /\ g \in [0..Len(s) -> Seq(S)] /\ g[0] = <<>>
    /\ \A n \in 1..Len(s) : g[n] = IF n \in positions THEN Append(g[n - 1], s[n]) ELSE g[n - 1]

LEMMA PickedFilters ==
    ASSUME NEW S, NEW s \in Seq(S), NEW positions
    PROVE  \E g : Filters(g, S, s, positions) /\ Picked(s, positions) = g[Len(s)]
<1> DEFINE L == Len(s)
           Step(f) == [n \in 0..L |-> IF n = 0 THEN <<>>
                                      ELSE IF n \in positions THEN Append(f[n - 1], s[n]) ELSE f[n - 1]]
           f == CHOOSE f : f = Step(f)
           step == [p \in Seq(S) \X (1..L) |-> IF p[2] \in positions THEN Append(p[1], s[p[2]]) ELSE p[1]]
<1>1. Picked(s, positions) = f[L]
    BY Zenon DEF Picked
<1>2. L \in Nat /\ <<>> \in Seq(S)
    OBVIOUS
<1>3. \A n \in 1..L : s[n] \in S
    OBVIOUS
<1>4. /\ \A n \in 1..L : n \in 0..L /\ n # 0 /\ n - 1 \in 0..L
      /\ 0 \in 0..L /\ L \in 0..L /\ \A n \in 0..L : n = 0 \/ n \in 1..L
    BY <1>2
<1> HIDE DEF L
<1>5. step \in [Seq(S) \X (1..L) -> Seq(S)]
  <2>1. ASSUME NEW p \in Seq(S) \X (1..L)
        PROVE  (IF p[2] \in positions THEN Append(p[1], s[p[2]]) ELSE p[1]) \in Seq(S)
    <3>1. p[1] \in Seq(S) /\ p[2] \in 1..L
        OBVIOUS
    <3>2. s[p[2]] \in S
        BY <1>3, <3>1, Zenon
    <3>3. Append(p[1], s[p[2]]) \in Seq(S)
        BY <3>1, <3>2, AppendFacts, Zenon
    <3> QED
        BY <3>1, <3>3, Zenon
  <2> QED
      BY <2>1, Zenon
<1>6. \A q \in Seq(S), n \in 1..L : step[<<q, n>>] = IF n \in positions THEN Append(q, s[n]) ELSE q
    OBVIOUS
<1> HIDE DEF step
<1>7. PICK g : Iterates(g, Seq(S), <<>>, L, step)
    BY <1>2, <1>5, RecursionExists, Zenon
<1>8. /\ g \in [0..L -> Seq(S)] /\ g[0] = <<>>
      /\ \A n \in 1..L : g[n] = step[<<g[n - 1], n>>]
    BY <1>7, Zenon DEF Iterates
<1>9. \A n \in 0..L : g[n] \in Seq(S)
    BY <1>8, Zenon
<1>10. \A n \in 1..L : g[n] = IF n \in positions THEN Append(g[n - 1], s[n]) ELSE g[n - 1]
    BY <1>4, <1>6, <1>8, <1>9, Zenon
<1>11. g = Step(g)
  <2>1. ASSUME NEW n \in 0..L
        PROVE  g[n] = IF n = 0 THEN <<>> ELSE IF n \in positions THEN Append(g[n - 1], s[n]) ELSE g[n - 1]
      BY <1>4, <1>8, <1>10, Zenon
  <2>2. g = [n \in 0..L |-> g[n]]
      BY <1>8, Zenon
  <2> QED
      BY <2>1, <2>2, Zenon
<1>12. f = Step(f)
    BY <1>11, Zenon
<1> HIDE DEF f
<1>13. f[0] = <<>> /\ \A n \in 1..L : f[n] = IF n \in positions THEN Append(f[n - 1], s[n]) ELSE f[n - 1]
    BY <1>4, <1>12, Zenon
<1> DEFINE T == {n \in 0..L : f[n] = g[n]}
<1>14. 0 \in T
    BY <1>4, <1>8, <1>13, Zenon
<1>15. \A n \in 1..L : n - 1 \in T => n \in T
    BY <1>4, <1>10, <1>13, Zenon
<1> HIDE DEF T
<1>16. \A n \in 0..L : n \in T
    BY <1>2, <1>14, <1>15, UpTo, Zenon
<1>17. f[L] = g[L]
    BY <1>4, <1>16, Zenon DEF T
<1> QED
    BY <1>1, <1>8, <1>10, <1>17, Zenon DEF Filters, L

\* What a filter has picked after n elements: at gives the place of everything picked.
Picks(q, at, S, s, positions, n) ==
    /\ q \in Seq(S) /\ at \in [1..Len(q) -> 1..n]
    /\ \A k \in 1..Len(q) : at[k] \in positions /\ q[k] = s[at[k]]
    /\ \A k, l \in 1..Len(q) : k < l => at[k] < at[l]
    /\ \A i \in 1..n : i \in positions => \E k \in 1..Len(q) : at[k] = i

LEMMA PicksOne ==
    ASSUME NEW S, NEW s \in Seq(S), NEW positions, NEW n \in 1..Len(s), NEW q, NEW at,
           Picks(q, at, S, s, positions, n - 1), n \in positions
    PROVE  \E to : Picks(Append(q, s[n]), to, S, s, positions, n)
<1> DEFINE L == Len(q)
           r == Append(q, s[n])
           to == [k \in 1..(L + 1) |-> IF k <= L THEN at[k] ELSE n]
<1>1. /\ q \in Seq(S) /\ at \in [1..L -> 1..(n - 1)]
      /\ \A k \in 1..L : at[k] \in positions /\ q[k] = s[at[k]]
      /\ \A k, l \in 1..L : k < l => at[k] < at[l]
      /\ \A i \in 1..(n - 1) : i \in positions => \E k \in 1..L : at[k] = i
    BY Zenon DEF Picks
<1>2. s[n] \in S /\ n \in Nat /\ L \in Nat
    BY <1>1
<1>3. /\ r \in Seq(S) /\ Len(r) = L + 1 /\ r[L + 1] = s[n] /\ \A k \in 1..L : r[k] = q[k]
    BY <1>1, <1>2, AppendFacts
<1> HIDE DEF L, r
<1>4. /\ \A k \in 1..(L + 1) : k \in 1..L \/ k = L + 1
      /\ L + 1 \in 1..(L + 1) /\ ~(L + 1 <= L)
      /\ \A k \in 1..L : k \in 1..(L + 1) /\ k <= L
      /\ \A i \in 1..n : i \in 1..(n - 1) \/ i = n
      /\ n \in 1..n /\ \A i \in 1..(n - 1) : i \in 1..n /\ i < n
    BY <1>2
<1>5. to[L + 1] = n /\ \A k \in 1..L : to[k] = at[k]
    BY <1>4, Zenon
<1>7. to \in [1..(L + 1) -> 1..n]
  <2>1. \A k \in 1..(L + 1) : (IF k <= L THEN at[k] ELSE n) \in 1..n
      BY <1>1, <1>4, Zenon
  <2> QED
      BY <2>1, Zenon
<1> HIDE DEF to
<1>8. \A k \in 1..(L + 1) : to[k] \in positions /\ r[k] = s[to[k]]
    BY <1>1, <1>3, <1>4, <1>5, Zenon
<1>9. ASSUME NEW k \in 1..(L + 1), NEW l \in 1..(L + 1), k < l PROVE to[k] < to[l]
  <2>1. k \in 1..L /\ (l \in 1..L \/ l = L + 1)
      BY <1>2, <1>9
  <2> QED
      BY <1>1, <1>4, <1>5, <1>9, <2>1, Zenon
<1>10. \A i \in 1..n : i \in positions => \E k \in 1..(L + 1) : to[k] = i
    BY <1>1, <1>4, <1>5, Zenon
<1>11. Picks(r, to, S, s, positions, n)
    BY <1>3, <1>7, <1>8, <1>9, <1>10, Zenon DEF Picks
<1> QED
    BY <1>11, Zenon DEF r

\* A filter takes every element at a position asked for, once and in order.
LEMMA PickedIs ==
    ASSUME NEW S, NEW s \in Seq(S), NEW positions
    PROVE  \E at : Picks(Picked(s, positions), at, S, s, positions, Len(s))
<1> DEFINE L == Len(s)
<1>1. PICK g : Filters(g, S, s, positions) /\ Picked(s, positions) = g[L]
    BY PickedFilters, Zenon
<1>2. /\ g \in [0..L -> Seq(S)] /\ g[0] = <<>>
      /\ \A n \in 1..L : g[n] = IF n \in positions THEN Append(g[n - 1], s[n]) ELSE g[n - 1]
    BY <1>1, Zenon DEF Filters
<1>3. L \in Nat
    OBVIOUS
<1> DEFINE T == {n \in 0..L : \E at : Picks(g[n], at, S, s, positions, n)}
<1>4. 0 \in T
  <2> DEFINE at == [k \in 1..0 |-> 0]
  <2>1. Picks(<<>>, at, S, s, positions, 0)
      BY DEF Picks
  <2>2. 0 \in 0..L
      BY <1>3
  <2> QED
      BY <1>2, <2>1, <2>2, Zenon
<1>5. ASSUME NEW n \in 1..L, n - 1 \in T PROVE n \in T
  <2>1. n \in 0..L
      BY <1>3
  <2>2. PICK at : Picks(g[n - 1], at, S, s, positions, n - 1)
      BY <1>5, Zenon
  <2>3. CASE n \in positions
    <3>1. \E to : Picks(Append(g[n - 1], s[n]), to, S, s, positions, n)
        BY <2>2, <2>3, PicksOne, Zenon
    <3> QED
        BY <1>2, <2>1, <2>3, <3>1, Zenon
  <2>4. CASE n \notin positions
    <3> DEFINE q == g[n - 1]
    <3>1. /\ q \in Seq(S) /\ at \in [1..Len(q) -> 1..(n - 1)]
          /\ \A k \in 1..Len(q) : at[k] \in positions /\ q[k] = s[at[k]]
          /\ \A k, l \in 1..Len(q) : k < l => at[k] < at[l]
          /\ \A i \in 1..(n - 1) : i \in positions => \E k \in 1..Len(q) : at[k] = i
        BY <2>2, Zenon DEF Picks
    <3> HIDE DEF q
    <3>2. /\ \A i \in 1..n : i \in 1..(n - 1) \/ i = n
          /\ \A i \in 1..(n - 1) : i \in 1..n
        BY <1>3
    <3>3. at \in [1..Len(q) -> 1..n]
        BY <3>1, <3>2, Zenon
    <3>4. \A i \in 1..n : i \in positions => \E k \in 1..Len(q) : at[k] = i
        BY <2>4, <3>1, <3>2, Zenon
    <3>5. Picks(q, at, S, s, positions, n)
        BY <3>1, <3>3, <3>4, Zenon DEF Picks
    <3> QED
        BY <1>2, <2>1, <2>4, <3>5, Zenon DEF q
  <2> QED
      BY <2>3, <2>4, Zenon
<1> HIDE DEF T
<1>6. \A n \in 0..L : n \in T
    BY <1>3, <1>4, <1>5, UpTo, Zenon
<1>7. L \in 0..L
    BY <1>3
<1> QED
    BY <1>1, <1>6, <1>7, Zenon DEF T
=============================================================================
