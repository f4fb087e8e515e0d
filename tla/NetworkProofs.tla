---------------------------- MODULE NetworkProofs ----------------------------
(***************************************************************************)
(* Proofs about what the SDK finds out of the printers of a network, for    *)
(* every printer and every value of the limits: which printers a DNS-SD     *)
(* search finds, and what the snapshot of an IPP discovery says and its     *)
(* redacted form shows.  Each theorem is about the specification of one     *)
(* tool; every step that Inspections takes for that tool is one of its      *)
(* steps, and every other step leaves it unchanged.                         *)
(***************************************************************************)
EXTENDS IppDiscovery, DnsSd, Basics, FiniteSetTheorems

-----------------------------------------------------------------------------
(* DNS-SD: the latest record of each printer *)

\* What LatestOfEach says of a set of printers and the records it was made from.
Latest(printers, records) ==
    LET Printers == {i \in DOMAIN records : Normal(records[i])}
    IN  /\ Cardinality(printers) <= MaximumServices
        /\ \A p, q \in printers : Key(p) = Key(q) => p = q
        /\ \A p \in printers : \E i \in Printers : p = Printer(records[i])
        /\ Cardinality(printers) < MaximumServices =>
               \A i \in Printers :
                   (\A j \in Printers : j > i => Key(Printer(records[j])) # Key(Printer(records[i])))
                       => Printer(records[i]) \in printers

LatestInv ==
    /\ IsFiniteSet(discovered) /\ Latest(discovered, returned)
    /\ returned \in Seq(Announcements) /\ heard \in Seq(Announcements)

LEMMA InsertKeepsLatest ==
    ASSUME NEW printers, IsFiniteSet(printers),
           NEW records \in Seq(Announcements), NEW record \in Announcements,
           Latest(printers, records)
    PROVE  /\ IsFiniteSet(Insert(printers, record))
           /\ Latest(Insert(printers, record), Append(records, record))
<1> USE DnsSdAssumption
<1> DEFINE n == Len(records)
           all == Append(records, record)
           P == {i \in DOMAIN records : Normal(records[i])}
           Q == {i \in DOMAIN all : Normal(all[i])}
           K(i) == Key(Printer(all[i]))
           after == Insert(printers, record)
<1>1. /\ n \in Nat /\ DOMAIN records = 1..n /\ DOMAIN all = 1..(n + 1)
      /\ all[n + 1] = record /\ \A i \in 1..n : all[i] = records[i]
    OBVIOUS
<1>2. \A i \in DOMAIN all : i \in 1..n \/ i = n + 1
    BY <1>1
<1>3. \A i \in 1..n : i < n + 1 /\ i # n + 1 /\ i \in DOMAIN all
    BY <1>1
<1>3a. n + 1 \in DOMAIN all
    BY <1>1
<1>4. /\ Cardinality(printers) <= MaximumServices
      /\ \A p, q \in printers : Key(p) = Key(q) => p = q
      /\ \A p \in printers : \E i \in P : p = Printer(records[i])
      /\ Cardinality(printers) < MaximumServices =>
             \A i \in P : (\A j \in P : j > i => Key(Printer(records[j])) # Key(Printer(records[i])))
                              => Printer(records[i]) \in printers
    BY Zenon DEF Latest
<1>5. Cardinality(printers) \in Nat
    BY FS_CardinalityType
<1> SUFFICES /\ IsFiniteSet(after) /\ Cardinality(after) <= MaximumServices
             /\ \A p, q \in after : Key(p) = Key(q) => p = q
             /\ \A p \in after : \E i \in Q : p = Printer(all[i])
             /\ Cardinality(after) < MaximumServices =>
                    \A i \in Q : (\A j \in Q : j > i => K(j) # K(i)) => Printer(all[i]) \in after
    BY Zenon DEF Latest
<1> HIDE DEF n, all
<1>6. CASE ~Normal(record)
  <2>1. after = printers
      BY <1>6 DEF Insert
  <2>2. Q = P
      BY <1>1, <1>2, <1>3, <1>6, Zenon
  <2>3. \A i \in P : all[i] = records[i]
      BY <1>1, Zenon
  <2> HIDE DEF P, Q, after
  <2> QED
      BY <1>4, <2>1, <2>2, <2>3, Zenon
<1>7. CASE Normal(record) /\ Cardinality(printers) >= MaximumServices
  <2>1. after = printers
      BY <1>7 DEF Insert
  <2>2. \A i \in P : i \in Q /\ all[i] = records[i]
      BY <1>1, <1>3, Zenon
  <2> HIDE DEF P, Q, after
  <2> QED
      BY <1>4, <1>5, <1>7, <2>1, <2>2, SMTT(30)
<1>8. CASE Normal(record) /\ Cardinality(printers) < MaximumServices
  <2> DEFINE kept == {p \in printers : Key(p) # Key(Printer(record))}
  <2>1. after = kept \cup {Printer(record)}
      BY <1>5, <1>8 DEF Insert
  <2>2. IsFiniteSet(kept) /\ Cardinality(kept) <= Cardinality(printers) /\ Cardinality(kept) \in Nat
      BY FS_Subset, FS_CardinalityType, Zenon
  <2>3. \A p \in kept : p \in printers /\ Key(p) # Key(Printer(record))
      OBVIOUS
  <2>4. \A p \in printers : Key(p) # Key(Printer(record)) => p \in kept
      OBVIOUS
  <2>5. n + 1 \in Q
      BY <1>1, <1>3a, <1>8, Zenon
  <2>6. \A i \in P : i \in Q /\ all[i] = records[i] /\ i < n + 1
      BY <1>1, <1>3, Zenon
  <2>7. \A i \in Q : i \in P \/ i = n + 1
      BY <1>1, <1>2, Zenon
  <2> HIDE DEF P, Q, after, kept
  <2>8. IsFiniteSet(after) /\ Cardinality(after) <= Cardinality(kept) + 1
    <3>1. /\ IsFiniteSet(kept \cup {Printer(record)})
          /\ \/ Cardinality(kept \cup {Printer(record)}) = Cardinality(kept)
             \/ Cardinality(kept \cup {Printer(record)}) = Cardinality(kept) + 1
        BY <2>2, FS_AddElement, Zenon
    <3> QED
        BY <2>1, <2>2, <3>1, SMTT(30)
  <2>9. Cardinality(after) <= MaximumServices
    <3>1. IsFiniteSet(after) /\ Cardinality(after) \in Nat
        BY <2>8, FS_CardinalityType, Zenon
    <3> QED
        BY <1>5, <1>8, <2>2, <2>8, <3>1, SMTT(30)
  <2>10. \A p, q \in after : Key(p) = Key(q) => p = q
      BY <1>4, <2>1, <2>3, Zenon
  <2>11. \A p \in after : \E i \in Q : p = Printer(all[i])
      BY <1>1, <1>4, <2>1, <2>3, <2>5, <2>6, Zenon
  <2>12. ASSUME NEW i \in Q, \A j \in Q : j > i => K(j) # K(i)
         PROVE  Printer(all[i]) \in after
    <3>1. CASE i = n + 1
        BY <1>1, <2>1, <3>1, Zenon
    <3>2. CASE i \in P
      <4>1. K(n + 1) # K(i)
          BY <2>5, <2>6, <2>12, <3>2, Zenon
      <4>2. \A j \in P : j > i => Key(Printer(records[j])) # Key(Printer(records[i]))
          BY <2>6, <2>12, <3>2, Zenon
      <4>3. Printer(records[i]) \in printers
          BY <1>4, <1>8, <3>2, <4>2, Zenon
      <4> QED
          BY <1>1, <2>1, <2>4, <2>6, <3>2, <4>1, <4>3, Zenon
    <3> QED
        BY <2>7, <3>1, <3>2, Zenon
  <2> QED
      BY <2>8, <2>9, <2>10, <2>11, <2>12, Zenon
<1> QED
    BY <1>5, <1>6, <1>7, <1>8, SMTT(30)

\* The loop over the records of a browse, as a function of the rounds done.
Rounds(g, n, printers, records) ==
    g = [i \in 0..n |-> IF i = 0 THEN printers ELSE Insert(g[i - 1], records[i])]

LEMMA RoundsExist ==
    ASSUME NEW printers, NEW records, NEW L \in Nat
    PROVE  \E g : Rounds(g, L, printers, records)
<1> DEFINE Bad == {n \in Nat : ~\E g : Rounds(g, n, printers, records)}
<1> SUFFICES ASSUME Bad # {} PROVE FALSE
    OBVIOUS
<1>1. PICK m \in Bad : \A k \in Bad : m <= k
    BY NatMin, Zenon
<1>2. CASE m = 0
  <2> DEFINE g == [i \in 0..0 |-> printers]
  <2>1. g = [i \in 0..0 |-> IF i = 0 THEN printers ELSE Insert(g[i - 1], records[i])]
      OBVIOUS
  <2> QED
      BY <1>1, <1>2, <2>1, Zenon DEF Rounds
<1>3. CASE m # 0
  <2>1. m \in Nat /\ m - 1 \in Nat /\ m - 1 \notin Bad
      BY <1>1, <1>3
  <2>2. PICK g : Rounds(g, m - 1, printers, records)
      BY <2>1, Zenon
  <2> DEFINE f(i) == IF i = 0 THEN printers ELSE Insert(g[i - 1], records[i])
             h == [i \in 0..m |-> f(i)]
  <2>3. g = [i \in 0..(m - 1) |-> f(i)]
      BY <2>2, Zenon DEF Rounds
  <2>4. \A i \in 0..(m - 1) : h[i] = g[i] /\ i \in 0..m
    <3>1. \A i \in 0..(m - 1) : g[i] = f(i)
        BY <2>3, Zenon
    <3> HIDE DEF f
    <3> QED
        BY <2>1, <3>1
  <2>5. \A i \in 0..m : h[i] = IF i = 0 THEN printers ELSE Insert(h[i - 1], records[i])
    <3> SUFFICES ASSUME NEW i \in 0..m
                 PROVE  h[i] = IF i = 0 THEN printers ELSE Insert(h[i - 1], records[i])
        BY Zenon
    <3>1. h[i] = f(i)
        OBVIOUS
    <3>2. CASE i = 0
        BY <3>1, <3>2, Zenon
    <3>3. CASE i # 0
      <4>1. i - 1 \in 0..(m - 1)
          BY <2>1, <3>3
      <4>2. h[i - 1] = g[i - 1]
          BY <2>4, <4>1, Zenon
      <4>3. h[i] = Insert(g[i - 1], records[i])
          BY <3>1, <3>3, Zenon
      <4> HIDE DEF h
      <4> QED
          BY <3>3, <4>2, <4>3, Zenon
    <3> QED
        BY <3>2, <3>3, Zenon
  <2>6. h = [i \in 0..m |-> h[i]]
      OBVIOUS
  <2> HIDE DEF h
  <2>7. h = [i \in 0..m |-> IF i = 0 THEN printers ELSE Insert(h[i - 1], records[i])]
      BY <2>5, <2>6, Zenon
  <2> QED
      BY <1>1, <2>7, Zenon DEF Rounds
<1> QED
    BY <1>2, <1>3

LEMMA InsertAllKeepsLatest ==
    ASSUME NEW printers, IsFiniteSet(printers),
           NEW before \in Seq(Announcements), NEW records \in Seq(Announcements),
           Latest(printers, before)
    PROVE  /\ IsFiniteSet(InsertAll(printers, records))
           /\ Latest(InsertAll(printers, records), before \o records)
<1> DEFINE L == Len(records)
           g == CHOOSE a : a = [n \in 0..L |-> IF n = 0 THEN printers ELSE Insert(a[n - 1], records[n])]
           Sofar(n) == before \o SubSeq(records, 1, n)
           Good(n) == IsFiniteSet(g[n]) /\ Latest(g[n], Sofar(n))
           Bad == {n \in 0..L : ~Good(n)}
<1>0. L \in Nat /\ InsertAll(printers, records) = g[L]
    BY DEF InsertAll
<1>1. g = [n \in 0..L |-> IF n = 0 THEN printers ELSE Insert(g[n - 1], records[n])]
  <2> HIDE DEF L
  <2>1. \E a : Rounds(a, L, printers, records)
      BY <1>0, RoundsExist, Zenon
  <2>2. \E a : a = [n \in 0..L |-> IF n = 0 THEN printers ELSE Insert(a[n - 1], records[n])]
      BY <2>1, Zenon DEF Rounds
  <2> QED
      BY <2>2, Zenon
<1> HIDE DEF g
<1>2. /\ g[0] = printers
      /\ \A n \in 1..L : g[n] = Insert(g[n - 1], records[n])
  <2>1. \A n \in 0..L : g[n] = IF n = 0 THEN printers ELSE Insert(g[n - 1], records[n])
      BY <1>1, Zenon
  <2> QED
      BY <1>0, <2>1
<1>3. Bad = {}
  <2> SUFFICES ASSUME Bad # {} PROVE FALSE
      OBVIOUS
  <2>0. Bad \subseteq Nat
      BY <1>0
  <2>1. PICK m \in Bad : \A k \in Bad : m <= k
    <3> HIDE DEF Bad
    <3> QED
        BY <2>0, NatMin, Zenon
  <2>2. CASE m = 0
    <3>1. Sofar(0) = before
        OBVIOUS
    <3> QED
        BY <1>2, <2>1, <2>2, <3>1, Zenon
  <2>3. CASE m # 0
    <3>1. m \in 1..L /\ m - 1 \in 0..L /\ m - 1 \notin Bad
        BY <1>0, <2>1, <2>3
    <3>2. Good(m - 1)
        BY <3>1
    <3>3. Sofar(m - 1) \in Seq(Announcements) /\ records[m] \in Announcements
        BY <1>0, <3>1
    <3>4. Sofar(m) = Append(Sofar(m - 1), records[m])
        BY <1>0, <3>1, SMTT(30)
    <3> HIDE DEF Sofar
    <3>5. Good(m)
        BY <1>2, <3>1, <3>2, <3>3, <3>4, InsertKeepsLatest, Zenon
    <3> QED
        BY <2>1, <3>5, Zenon
  <2> QED
      BY <2>2, <2>3, Zenon
<1>4. Good(L)
    BY <1>0, <1>3
<1>5. Sofar(L) = before \o records
    BY <1>0
<1> QED
    BY <1>0, <1>4, <1>5, Zenon

LEMMA LatestInvNext ==
    ASSUME LatestInv, [DnsSdNext]_dns_sd
    PROVE  LatestInv'
<1>1. CASE EndBrowse
    BY <1>1, InsertAllKeepsLatest DEF EndBrowse, LatestInv
<1>2. CASE Resolved
    BY <1>2 DEF Resolved, LatestInv
<1>3. CASE BeginBrowse \/ BrowseFails \/ Finish \/ UNCHANGED dns_sd
    BY <1>3, Zenon DEF BeginBrowse, BrowseFails, Finish, dns_sd, LatestInv
<1> QED
    BY <1>1, <1>2, <1>3 DEF DnsSdNext, Search

LEMMA LatestInvInit == DnsSdInit => LatestInv
<1> SUFFICES ASSUME DnsSdInit PROVE LatestInv
    OBVIOUS
<1>1. IsFiniteSet({}) /\ Cardinality({}) = 0
    BY FS_EmptySet
<1> QED
    BY <1>1, DnsSdAssumption, SMTT(30) DEF DnsSdInit, LatestInv, Latest

\* However the announcements of a search follow each other, and whatever number of services is
\* allowed: every service is found once, with what it announced last, as long as there is room.
THEOREM SearchesFindTheLatest == DnsSdSpec => []LatestOfEach
<1>1. DnsSdSpec => []LatestInv
    BY LatestInvInit, LatestInvNext, PTL DEF DnsSdSpec
<1>2. LatestInv => LatestOfEach
    BY Zenon DEF LatestInv, Latest, LatestOfEach
<1> QED
    BY <1>1, <1>2, PTL

-----------------------------------------------------------------------------
(* IPP: sequences made of other sequences *)

LEMMA ConcatElements ==
    ASSUME NEW S, NEW q \in Seq(S), NEW r \in Seq(S)
    PROVE  /\ q \o r \in Seq(S) /\ Len(q) \in Nat
           /\ \A i \in DOMAIN (q \o r) :
                  \/ i \in DOMAIN q /\ (q \o r)[i] = q[i]
                  \/ i - Len(q) \in DOMAIN r /\ (q \o r)[i] = r[i - Len(q)]
           /\ \A i \in DOMAIN q : i \in DOMAIN (q \o r) /\ (q \o r)[i] = q[i]
           /\ \A i \in DOMAIN r : Len(q) + i \in DOMAIN (q \o r) /\ (q \o r)[Len(q) + i] = r[i]
<1> DEFINE both == q \o r
<1>1. /\ both \in Seq(S) /\ Len(q) \in Nat /\ Len(r) \in Nat /\ Len(both) = Len(q) + Len(r)
      /\ \A i \in 1..Len(q) : both[i] = q[i]
      /\ \A i \in 1..Len(r) : both[Len(q) + i] = r[i]
    BY ConcatFacts
<1>2. DOMAIN q = 1..Len(q) /\ DOMAIN r = 1..Len(r)
    OBVIOUS
<1> HIDE DEF both
<1>3. DOMAIN both = 1..(Len(q) + Len(r))
    BY <1>1
<1>4. ASSUME NEW i \in DOMAIN both, i \notin DOMAIN q
      PROVE  i - Len(q) \in DOMAIN r /\ both[i] = r[i - Len(q)]
  <2>1. i \in Nat /\ i - Len(q) \in 1..Len(r) /\ Len(q) + (i - Len(q)) = i
      BY <1>1, <1>2, <1>3, <1>4, SMTT(30)
  <2> QED
      BY <1>1, <1>2, <2>1, Zenon
<1>5. \A i \in DOMAIN q : i \in DOMAIN both /\ both[i] = q[i]
    BY <1>1, <1>2, <1>3, SMTT(30)
<1>6. \A i \in DOMAIN r : Len(q) + i \in DOMAIN both /\ both[Len(q) + i] = r[i]
    BY <1>1, <1>2, <1>3
<1>7. \A i \in DOMAIN both : \/ i \in DOMAIN q /\ both[i] = q[i]
                             \/ i - Len(q) \in DOMAIN r /\ both[i] = r[i - Len(q)]
    BY <1>4, <1>5, Zenon
<1> QED
    BY <1>1, <1>5, <1>6, <1>7, Zenon DEF both

\* Listed lists the elements of a finite set, each once.
LEMMA ListedOnce ==
    ASSUME NEW S, IsFiniteSet(S)
    PROVE  /\ Listed(S) \in Seq(S)
           /\ \A i, j \in DOMAIN Listed(S) : Listed(S)[i] = Listed(S)[j] => i = j
           /\ \A x \in S : \E i \in DOMAIN Listed(S) : Listed(S)[i] = x
<1> DEFINE n == Cardinality(S)
           list == Listed(S)
<1>1. n \in Nat /\ ExistsBijection(1..n, S)
    BY FS_CardinalityType
<1>2. IsFiniteSet(1..n) /\ Cardinality(1..n) = n
    BY <1>1, FS_Interval
<1>3. \E f \in [1..n -> S] : IsInjective(f)
    BY <1>1, Zenon DEF ExistsBijection, Bijection, Injection
<1>4. list \in [1..n -> S] /\ IsInjective(list)
    BY <1>3 DEF Listed
<1> HIDE DEF list, n
<1>5. list \in Injection(1..n, S)
    BY <1>4 DEF Injection
<1>6. list \in Surjection(1..n, S)
    BY <1>2, <1>5, FS_Injection, Zenon DEF n
<1>7. \A x \in S : \E i \in 1..n : list[i] = x
    BY <1>6, Zenon DEF Surjection
<1>8. DOMAIN list = 1..n /\ list \in Seq(S)
    BY <1>1, <1>4
<1>9. \A i, j \in DOMAIN list : list[i] = list[j] => i = j
    BY <1>4, Zenon DEF IsInjective
<1> QED
    BY <1>7, <1>8, <1>9, Zenon DEF list

LEMMA FirstOfFacts ==
    ASSUME NEW S, NEW q \in Seq(S), NEW n \in Nat
    PROVE  /\ FirstOf(q, n) \in Seq(S)
           /\ \A i \in DOMAIN FirstOf(q, n) : i \in DOMAIN q /\ FirstOf(q, n)[i] = q[i]
           /\ Len(q) <= n => FirstOf(q, n) = q
<1> DEFINE m == IF Len(q) < n THEN Len(q) ELSE n
<1>1. Len(q) \in Nat /\ m \in 0..Len(q) /\ DOMAIN q = 1..Len(q)
    OBVIOUS
<1>2. FirstOf(q, n) = SubSeq(q, 1, m)
    BY DEF FirstOf
<1>3. Len(q) <= n => m = Len(q)
    OBVIOUS
<1> HIDE DEF m
<1>4. /\ SubSeq(q, 1, m) \in Seq(S) /\ Len(SubSeq(q, 1, m)) = m
      /\ \A i \in 1..m : SubSeq(q, 1, m)[i] = q[i]
    BY <1>1, CutFacts, SMTT(30)
<1>5. SubSeq(q, 1, Len(q)) = q
    OBVIOUS
<1>6. DOMAIN SubSeq(q, 1, m) = 1..m
    BY <1>4
<1>7. \A i \in 1..m : i \in 1..Len(q)
    BY <1>1
<1> QED
    BY <1>1, <1>2, <1>3, <1>4, <1>5, <1>6, <1>7, Zenon

-----------------------------------------------------------------------------
(* IPP: the inductive invariant *)

AnyFormat == Formats \cup {NoFormat}
IppRequests == [names : Range(FocusGroups) \cup {{"all"}}, format : AnyFormat]
IppAnswers ==
    [names : SUBSET Attributes, format : AnyFormat, moment : Nat, leading : BOOLEAN, refused : BOOLEAN]
FactRecords == [id : Attributes, value : Nat]
SupplyRecords == [id : Markers, value : Int]
CapabilityRecords == [id : Attributes, scope : AnyFormat, value : Nat]
ObservationRecords ==
    [id : Attributes, value : Nat, sensitive : BOOLEAN, original : BOOLEAN, answer : IppAnswers]
Snapshots ==
    [single : SUBSET FactRecords, reasons : SUBSET FactRecords, supplies : SUBSET SupplyRecords,
     capabilities : Seq(CapabilityRecords), observations : Seq(ObservationRecords)]

IppTypeOK ==
    /\ reports \in [all : SUBSET Attributes, advertised : SUBSET Advertisable, formats : Seq(Formats),
                    varying : BOOLEAN, leading : BOOLEAN]
    /\ moment \in Nat
    /\ queries \in Seq(IppRequests) /\ answers \in Seq(IppAnswers)
    /\ snapshot \in Snapshots

\* The first request is for everything.
AskedInv ==
    /\ answers = <<>> =>
           /\ queries = <<Request({"all"}, NoFormat)>> /\ snapshot = NoSnapshot
           /\ discovery \in {"asking", "failed"}
    /\ discovery = "asking" => queries # <<>>
    /\ discovery \notin {"asking", "failed"} => queries = <<>>

\* FirstAnswerWins of facts, of capabilities and of the answers they are from.  Every capability
\* that an answer named is there, so that one that is not there is new.
AnsweringIn(got, name, format) == {i \in DOMAIN got : name \in got[i].names /\ got[i].format = format}

FactsInv(facts, got) ==
    \A name \in Attributes : AttributeKind[name] = "single" =>
        LET A == AnsweringIn(got, name, NoFormat)
        IN  /\ A = {} => \A e \in facts : e.id # name
            /\ A # {} => /\ \E e \in facts : e.id = name
                         /\ \A e \in facts : e.id = name => e.value = got[Earliest(A)].moment

SuppliesInv(supplies, got) ==
    LET A == AnsweringIn(got, "marker-names", NoFormat)
    IN  /\ A = {} => supplies = {}
        /\ A # {} => supplies = Supplies(got[Earliest(A)])

\* An answer that a capability is from: for the whole printer the first that named it.
SourceIn(cap, got, m) ==
    LET A == AnsweringIn(got, cap.id, cap.scope)
    IN  m \in A /\ cap.value = got[m].moment /\ (cap.scope = NoFormat => m = Earliest(A))

\* There are two answers for the format of a capability.
TwiceIn(cap, got) ==
    cap.scope # NoFormat /\ \E m, n \in AnsweringIn(got, cap.id, cap.scope) : m # n

CapabilitiesInv(caps, got) ==
    /\ \A k \in DOMAIN caps : \E m : SourceIn(caps[k], got, m)
    /\ \A j, k \in DOMAIN caps :
           caps[j].id = caps[k].id /\ caps[j].scope = caps[k].scope => j = k \/ TwiceIn(caps[k], got)
    /\ \A i \in DOMAIN got : \A name \in Named(got[i], "capability") :
           \E k \in DOMAIN caps : caps[k].id = name /\ caps[k].scope = got[i].format

FirstInv ==
    /\ FactsInv(snapshot.single, answers) /\ SuppliesInv(snapshot.supplies, answers)
    /\ CapabilitiesInv(snapshot.capabilities, answers)

\* Every attribute of every answer is among the observations.
SeenIn(seen, name) == \E j \in DOMAIN seen : seen[j].id = name

ObservedIn(seen, got) ==
    /\ \A j \in DOMAIN seen : /\ seen[j].sensitive = (seen[j].id \in Sensitive)
                              /\ \E i \in DOMAIN got : seen[j].answer = got[i]
    /\ \A i \in DOMAIN got : \A name \in got[i].names : SeenIn(seen, name)

ObservedInv == ObservedIn(snapshot.observations, answers)

\* The printer refused none of the requests without a format.
NoneRefused == \A i \in DOMAIN answers : answers[i].format = NoFormat => ~answers[i].refused

\* A group the printer has something of was seen in full, or will be asked for.
FocusInv ==
    answers # <<>> /\ ~truncated /\ NoneRefused =>
        \A i \in DOMAIN FocusGroups :
            FocusGroups[i] \cap (reports.advertised \cup reports.all) # {} =>
                \/ \A name \in FocusGroups[i] \cap Attributes : SeenIn(snapshot.observations, name)
                \/ \E k \in DOMAIN queries : queries[k].names = FocusGroups[i] /\ queries[k].format = NoFormat

IppInv == IppTypeOK /\ AskedInv /\ FirstInv /\ ObservedInv /\ FocusInv /\ RedactedHidesSensitive

-----------------------------------------------------------------------------
(* IPP: what the operators return *)

\* What the observations of an answer are.
LEMMA ObservationsFacts ==
    ASSUME NEW a \in IppAnswers
    PROVE  /\ Observations(a) \in Seq(ObservationRecords)
           /\ \A i \in DOMAIN Observations(a) :
                  /\ Observations(a)[i].sensitive = (Observations(a)[i].id \in Sensitive)
                  /\ Observations(a)[i].answer = a
           /\ \A name \in a.names : \E i \in DOMAIN Observations(a) : Observations(a)[i].id = name
<1> USE IppAssumption
<1> DEFINE s == Listed(a.names \cap Sensitive)
           o == Listed(a.names \ Sensitive)
           names == IF a.leading THEN s \o o ELSE o \o s
           made == [i \in DOMAIN names |->
                       [id |-> names[i], value |-> a.moment, sensitive |-> is_sensitive_ipp_attribute(names[i]),
                        original |-> i = 1, answer |-> a]]
<1>0. a.names \subseteq Attributes /\ a.moment \in Nat
    BY DEF IppAnswers
<1>1. IsFiniteSet(a.names \cap Sensitive) /\ IsFiniteSet(a.names \ Sensitive)
  <2>1. a.names \cap Sensitive \in SUBSET Attributes /\ a.names \ Sensitive \in SUBSET Attributes
      BY <1>0
  <2> QED
      BY <2>1, FS_Subset, Zenon
<1>2. /\ s \in Seq(a.names \cap Sensitive) /\ \A x \in a.names \cap Sensitive : \E i \in DOMAIN s : s[i] = x
      /\ o \in Seq(a.names \ Sensitive) /\ \A x \in a.names \ Sensitive : \E i \in DOMAIN o : o[i] = x
    BY <1>1, ListedOnce, Zenon
<1>3. s \in Seq(a.names) /\ o \in Seq(a.names)
    BY <1>2
<1> HIDE DEF s, o
<1>4. /\ s \o o \in Seq(a.names) /\ o \o s \in Seq(a.names)
      /\ \A i \in DOMAIN s : i \in DOMAIN (s \o o) /\ (s \o o)[i] = s[i]
      /\ \A i \in DOMAIN o : Len(s) + i \in DOMAIN (s \o o) /\ (s \o o)[Len(s) + i] = o[i]
      /\ \A i \in DOMAIN o : i \in DOMAIN (o \o s) /\ (o \o s)[i] = o[i]
      /\ \A i \in DOMAIN s : Len(o) + i \in DOMAIN (o \o s) /\ (o \o s)[Len(o) + i] = s[i]
    BY <1>3, ConcatElements, SMTT(30)
<1>5. names \in Seq(a.names)
    BY <1>4, Zenon
<1>6. \A x \in a.names : \E i \in DOMAIN names : names[i] = x
  <2> SUFFICES ASSUME NEW x \in a.names PROVE \E i \in DOMAIN names : names[i] = x
      BY Zenon
  <2>1. CASE x \in Sensitive
    <3>1. PICK i \in DOMAIN s : s[i] = x
        BY <1>2, <2>1, Zenon
    <3> QED
        BY <1>4, <3>1, Zenon
  <2>2. CASE x \notin Sensitive
    <3>1. PICK i \in DOMAIN o : o[i] = x
        BY <1>2, <2>2, Zenon
    <3> QED
        BY <1>4, <3>1, Zenon
  <2> QED
      BY <2>1, <2>2, Zenon
<1>7. Observations(a) = made
    BY Zenon DEF Observations, s, o
<1> HIDE DEF names
<1>8. Len(names) \in Nat /\ DOMAIN names = 1..Len(names) /\ \A i \in DOMAIN names : names[i] \in Attributes
    BY <1>0, <1>5, SMTT(30)
<1>9. \A i \in DOMAIN names : made[i] \in ObservationRecords
    BY <1>0, <1>8, SMTT(30) DEF ObservationRecords, is_sensitive_ipp_attribute
<1>10. made \in Seq(ObservationRecords)
  <2>1. DOMAIN made = 1..Len(names) /\ \A i \in 1..Len(names) : made[i] \in ObservationRecords
      BY <1>8, <1>9, Zenon
  <2>2. made = [i \in 1..Len(names) |-> made[i]]
      BY <1>8, Zenon
  <2> HIDE DEF made
  <2> QED
      BY <1>8, <2>1, <2>2, SMTT(30)
<1>11. \A i \in DOMAIN made : made[i].id = names[i] /\ made[i].sensitive = (made[i].id \in Sensitive)
                              /\ made[i].answer = a
    BY Zenon DEF is_sensitive_ipp_attribute
<1>12. DOMAIN made = DOMAIN names
    BY Zenon
<1> HIDE DEF made
<1>13. \A name \in a.names : \E i \in DOMAIN made : made[i].id = name
    BY <1>6, <1>11, <1>12, SMTT(30)
<1> QED
    BY <1>7, <1>10, <1>11, <1>13, Zenon

\* A list of some of the capabilities of an answer, each once.
CapabilityOf(a, name) == [id |-> name, scope |-> a.format, value |-> a.moment]
CapabilitiesOf(a, names) == {CapabilityOf(a, name) : name \in names}

LEMMA CapabilityList ==
    ASSUME NEW a \in IppAnswers, NEW chosen \in SUBSET Named(a, "capability"),
           NEW list, list = Listed(CapabilitiesOf(a, chosen))
    PROVE  /\ list \in Seq(CapabilityRecords)
           /\ \A k \in DOMAIN list : list[k].id \in chosen /\ list[k].scope = a.format /\ list[k].value = a.moment
           /\ \A j, k \in DOMAIN list : list[j].id = list[k].id => j = k
           /\ \A name \in chosen : \E k \in DOMAIN list : list[k].id = name
<1> USE IppAssumption
<1> DEFINE C == {CapabilityOf(a, name) : name \in chosen}
<1>0. a.names \subseteq Attributes /\ a.moment \in Nat /\ a.format \in AnyFormat
    BY DEF IppAnswers
<1>1. chosen \subseteq Attributes
    BY <1>0, Zenon DEF Named
<1>2. IsFiniteSet(C)
  <2> DEFINE f == [name \in chosen |-> CapabilityOf(a, name)]
  <2>1. f \in Surjection(chosen, C)
      BY Zenon DEF Surjection
  <2>2. IsFiniteSet(chosen)
      BY <1>1, FS_Subset, Zenon
  <2> HIDE DEF f, C
  <2> QED
      BY <2>1, <2>2, FS_Surjection, Zenon
<1>3. C \subseteq CapabilityRecords
    BY <1>0, <1>1, SMTT(30) DEF CapabilityOf, CapabilityRecords
<1>4. \A c \in C : c.id \in chosen /\ c.scope = a.format /\ c.value = a.moment
    BY SMTT(30) DEF CapabilityOf
<1>5. ASSUME NEW c \in C, NEW d \in C, c.id = d.id PROVE c = d
  <2>1. PICK m \in chosen : c = CapabilityOf(a, m)
      OBVIOUS
  <2>2. PICK n \in chosen : d = CapabilityOf(a, n)
      BY Zenon
  <2>3. c.id = m /\ d.id = n
      BY <2>1, <2>2, Zenon DEF CapabilityOf
  <2> QED
      BY <1>5, <2>1, <2>2, <2>3, Zenon
<1>6. \A name \in chosen : CapabilityOf(a, name) \in C /\ CapabilityOf(a, name).id = name
  <2>1. \A name \in chosen : CapabilityOf(a, name).id = name
      BY Zenon DEF CapabilityOf
  <2> QED
      BY <2>1, Zenon
<1> HIDE DEF C
<1>7. /\ list \in Seq(C)
      /\ \A i, j \in DOMAIN list : list[i] = list[j] => i = j
      /\ \A x \in C : \E i \in DOMAIN list : list[i] = x
    BY <1>2, ListedOnce, Zenon DEF C, CapabilitiesOf
<1>8. \A k \in DOMAIN list : list[k] \in C
    BY <1>7
<1>9. list \in Seq(CapabilityRecords)
    BY <1>3, <1>7
<1>10. \A j, k \in DOMAIN list : list[j].id = list[k].id => j = k
    BY <1>5, <1>7, <1>8, SMTT(30)
<1>11. ASSUME NEW name \in chosen PROVE \E k \in DOMAIN list : list[k].id = name
  <2>1. PICK k \in DOMAIN list : list[k] = CapabilityOf(a, name)
      BY <1>6, <1>7, Zenon
  <2> QED
      BY <1>6, <2>1, Zenon
<1> QED
    BY <1>4, <1>8, <1>9, <1>10, <1>11, Zenon

\* The list holds each capability of the answer once, as the answer gives it.
ListsAll(list, a) ==
    /\ list \in Seq(CapabilityRecords)
    /\ \A k \in DOMAIN list :
           list[k].id \in Named(a, "capability") /\ list[k].scope = a.format /\ list[k].value = a.moment
    /\ \A j, k \in DOMAIN list : list[j].id = list[k].id => j = k
    /\ \A name \in Named(a, "capability") : \E k \in DOMAIN list : list[k].id = name

\* The same of the capabilities of the answer that are not in target yet.
ListsNew(list, a, target) ==
    /\ list \in Seq(CapabilityRecords)
    /\ \A k \in DOMAIN list :
           /\ list[k].id \in Named(a, "capability")
           /\ list[k].scope = a.format /\ list[k].value = a.moment
           /\ \A i \in DOMAIN target : ~(target[i].id = list[k].id /\ target[i].scope = a.format)
    /\ \A j, k \in DOMAIN list : list[j].id = list[k].id => j = k
    /\ \A name \in Named(a, "capability") :
           \/ \E k \in DOMAIN list : list[k].id = name
           \/ \E k \in DOMAIN target : target[k].id = name /\ target[k].scope = a.format

\* The capabilities of an answer.
LEMMA CapabilitiesFacts ==
    ASSUME NEW a \in IppAnswers, NEW list, list = Capabilities(a)
    PROVE  ListsAll(list, a)
<1> DEFINE chosen == Named(a, "capability")
<1>1. list = Listed(CapabilitiesOf(a, chosen))
    BY Zenon DEF Capabilities, CapabilitiesOf, CapabilityOf
<1>2. chosen \in SUBSET Named(a, "capability")
    BY Zenon
<1> HIDE DEF chosen
<1>3. /\ list \in Seq(CapabilityRecords)
      /\ \A k \in DOMAIN list : list[k].id \in chosen /\ list[k].scope = a.format /\ list[k].value = a.moment
      /\ \A j, k \in DOMAIN list : list[j].id = list[k].id => j = k
      /\ \A name \in chosen : \E k \in DOMAIN list : list[k].id = name
    BY <1>1, <1>2, CapabilityList, Zenon
<1> QED
    BY <1>3, Zenon DEF chosen, ListsAll

\* The capabilities of an answer that the snapshot does not have yet.
LEMMA NewCapabilitiesFacts ==
    ASSUME NEW a \in IppAnswers, NEW target \in Seq(CapabilityRecords),
           NEW list, list = NewCapabilities(target, Capabilities(a))
    PROVE  ListsNew(list, a, target)
<1> DEFINE known(name) == \E i \in DOMAIN target : target[i].id = name /\ target[i].scope = a.format
           chosen == {name \in Named(a, "capability") : ~known(name)}
           N == {entry \in Range(Capabilities(a)) :
                     \A i \in DOMAIN target : <<target[i].id, target[i].scope>> # <<entry.id, entry.scope>>}
           caps == Capabilities(a)
<1>1. /\ \A k \in DOMAIN caps :
             caps[k] \in CapabilityRecords /\ caps[k].id \in Named(a, "capability") /\ caps[k].scope = a.format /\ caps[k].value = a.moment
      /\ \A name \in Named(a, "capability") : \E k \in DOMAIN caps : caps[k].id = name
  <2>1. ListsAll(caps, a)
      BY CapabilitiesFacts, Zenon
  <2>2. \A k \in DOMAIN caps : caps[k] \in CapabilityRecords
    <3> HIDE DEF caps
    <3> QED
        BY <2>1 DEF ListsAll
  <2> QED
      BY <2>1, <2>2, Zenon DEF ListsAll
<1> HIDE DEF caps
<1>2. \A k \in DOMAIN caps : caps[k] = CapabilityOf(a, caps[k].id)
    BY <1>1, Zenon DEF CapabilityRecords, CapabilityOf
<1>3. \A e : e \in Range(caps) <=> \E name \in Named(a, "capability") : e = CapabilityOf(a, name)
    BY <1>1, <1>2, SMTT(30) DEF Range
<1>4. \A name : CapabilityOf(a, name).id = name /\ CapabilityOf(a, name).scope = a.format
    BY Zenon DEF CapabilityOf
<1>5. N = {CapabilityOf(a, name) : name \in chosen}
    BY <1>3, <1>4, SMTT(30) DEF caps
<1>6. list = Listed(CapabilitiesOf(a, chosen))
    BY <1>5, Zenon DEF NewCapabilities, CapabilitiesOf
<1>7. chosen \in SUBSET Named(a, "capability")
    BY Zenon
<1>8. /\ list \in Seq(CapabilityRecords)
      /\ \A k \in DOMAIN list : list[k].id \in chosen /\ list[k].scope = a.format /\ list[k].value = a.moment
      /\ \A j, k \in DOMAIN list : list[j].id = list[k].id => j = k
      /\ \A name \in chosen : \E k \in DOMAIN list : list[k].id = name
  <2> HIDE DEF chosen
  <2> QED
      BY <1>6, <1>7, CapabilityList, Zenon
<1>9. ASSUME NEW name \in chosen
      PROVE  name \in Named(a, "capability") /\ \A i \in DOMAIN target : ~(target[i].id = name /\ target[i].scope = a.format)
    BY <1>9, Zenon
<1>10. \A name \in Named(a, "capability") :
           name \in chosen \/ \E i \in DOMAIN target : target[i].id = name /\ target[i].scope = a.format
    BY Zenon
<1> HIDE DEF chosen
<1>11. \A k \in DOMAIN list :
           /\ list[k].id \in Named(a, "capability")
           /\ \A i \in DOMAIN target : ~(target[i].id = list[k].id /\ target[i].scope = a.format)
    BY <1>8, <1>9, Zenon
<1>12. \A name \in Named(a, "capability") :
           \/ \E k \in DOMAIN list : list[k].id = name
           \/ \E i \in DOMAIN target : target[i].id = name /\ target[i].scope = a.format
    BY <1>8, <1>10, Zenon
<1> QED
    BY <1>8, <1>11, <1>12, Zenon DEF ListsNew

\* The list focused_query_sets builds, group by group.
Focusing(g, n, a) ==
    g = [i \in 0..n |-> IF i = 0 THEN <<>>
                        ELSE IF Focused(FocusGroups[i], a) THEN Append(g[i - 1], FocusGroups[i])
                        ELSE g[i - 1]]

LEMMA FocusingExists ==
    ASSUME NEW a, NEW L \in Nat
    PROVE  \E g : Focusing(g, L, a)
<1> DEFINE Bad == {n \in Nat : ~\E g : Focusing(g, n, a)}
           more(list, i) == IF Focused(FocusGroups[i], a) THEN Append(list, FocusGroups[i]) ELSE list
<1> SUFFICES ASSUME Bad # {} PROVE FALSE
    OBVIOUS
<1>0. \A g, n : Focusing(g, n, a) <=> g = [i \in 0..n |-> IF i = 0 THEN <<>> ELSE more(g[i - 1], i)]
    BY Zenon DEF Focusing
<1> HIDE DEF more
<1>1. PICK m \in Bad : \A k \in Bad : m <= k
    BY NatMin, Zenon
<1>2. CASE m = 0
  <2> DEFINE g == [i \in 0..0 |-> <<>>]
  <2>1. g = [i \in 0..0 |-> IF i = 0 THEN <<>> ELSE more(g[i - 1], i)]
      OBVIOUS
  <2> QED
      BY <1>0, <1>1, <1>2, <2>1, Zenon
<1>3. CASE m # 0
  <2>1. m \in Nat /\ m - 1 \in Nat /\ m - 1 \notin Bad
      BY <1>1, <1>3, SMTT(30)
  <2>2. PICK g : Focusing(g, m - 1, a)
      BY <2>1, Zenon
  <2> DEFINE f(i) == IF i = 0 THEN <<>> ELSE more(g[i - 1], i)
             h == [i \in 0..m |-> f(i)]
  <2>3. g = [i \in 0..(m - 1) |-> f(i)]
      BY <1>0, <2>2, SMTT(30)
  <2>4. \A i \in 0..(m - 1) : h[i] = g[i] /\ i \in 0..m
    <3>1. \A i \in 0..(m - 1) : g[i] = f(i)
        BY <2>3, Zenon
    <3> HIDE DEF f
    <3> QED
        BY <2>1, <3>1, SMTT(30)
  <2>5. \A i \in 0..m : h[i] = IF i = 0 THEN <<>> ELSE more(h[i - 1], i)
    <3> SUFFICES ASSUME NEW i \in 0..m PROVE h[i] = IF i = 0 THEN <<>> ELSE more(h[i - 1], i)
        BY Zenon
    <3>1. h[i] = f(i)
        BY Zenon
    <3>2. CASE i = 0
        BY <3>1, <3>2, Zenon
    <3>3. CASE i # 0
      <4>1. i - 1 \in 0..(m - 1)
          BY <2>1, <3>3
      <4>2. h[i - 1] = g[i - 1]
          BY <2>4, <4>1, Zenon
      <4>3. h[i] = more(g[i - 1], i)
          BY <3>1, <3>3, Zenon
      <4> HIDE DEF h
      <4> QED
          BY <3>3, <4>2, <4>3, Zenon
    <3> QED
        BY <3>2, <3>3, Zenon
  <2>6. h = [i \in 0..m |-> h[i]]
      BY Zenon
  <2> HIDE DEF h
  <2>7. h = [i \in 0..m |-> IF i = 0 THEN <<>> ELSE more(h[i - 1], i)]
      BY <2>5, <2>6, Zenon
  <2> QED
      BY <1>0, <1>1, <2>7, Zenon
<1> QED
    BY <1>2, <1>3, Zenon

\* A group that has to be asked for is among the groups.
LEMMA FocusedFacts ==
    ASSUME NEW a
    PROVE  /\ focused_query_sets(a) \in Seq(Range(FocusGroups))
           /\ \A i \in DOMAIN FocusGroups : Focused(FocusGroups[i], a) =>
                  \E m \in DOMAIN focused_query_sets(a) : focused_query_sets(a)[m] = FocusGroups[i]
<1> USE IppAssumption
<1> DEFINE S == Range(FocusGroups)
           L == Len(FocusGroups)
           more(list, i) == IF Focused(FocusGroups[i], a) THEN Append(list, FocusGroups[i]) ELSE list
           g == CHOOSE h : h = [i \in 0..L |-> IF i = 0 THEN <<>>
                                               ELSE IF Focused(FocusGroups[i], a) THEN Append(h[i - 1], FocusGroups[i])
                                               ELSE h[i - 1]]
           Has(n) == \A i \in 1..n : Focused(FocusGroups[i], a) => \E m \in DOMAIN g[n] : g[n][m] = FocusGroups[i]
           Good(n) == g[n] \in Seq(S) /\ Has(n)
           Bad == {n \in 0..L : ~Good(n)}
<1>0. L \in Nat /\ DOMAIN FocusGroups = 1..L /\ \A i \in 1..L : FocusGroups[i] \in S
    OBVIOUS
<1>1. focused_query_sets(a) = g[L]
    BY Zenon DEF focused_query_sets
<1>2. \A i \in 0..L : g[i] = IF i = 0 THEN <<>> ELSE more(g[i - 1], i)
  <2> HIDE DEF L
  <2>1. \E h : Focusing(h, L, a)
      BY <1>0, FocusingExists, Zenon
  <2>2. Focusing(g, L, a)
      BY <2>1, Zenon DEF Focusing
  <2> HIDE DEF g
  <2> QED
      BY <2>2, Zenon DEF Focusing
<1> HIDE DEF g, L, S
<1>3. Bad = {}
  <2> SUFFICES ASSUME Bad # {} PROVE FALSE
      BY Zenon
  <2>1. Bad \subseteq Nat
      BY <1>0, SMTT(30)
  <2>2. PICK n \in Bad : \A k \in Bad : n <= k
    <3> HIDE DEF Bad
    <3> QED
        BY <2>1, NatMin, Zenon
  <2>3. CASE n = 0
    <3>1. g[0] = <<>>
        BY <1>0, <1>2, SMTT(30)
    <3>2. Good(0)
        BY <3>1, SMTT(30)
    <3> QED
        BY <2>2, <2>3, <3>2, Zenon
  <2>4. CASE n # 0
    <3>0. n \in 0..L /\ L \in Nat
        BY <1>0, <2>2, Zenon
    <3>1. n \in 1..L /\ n - 1 \in 0..L /\ n - 1 \notin Bad
      <4> HIDE DEF Bad
      <4> QED
          BY <2>2, <2>4, <3>0, SMTT(30)
    <3>2. g[n - 1] \in Seq(S) /\ Has(n - 1)
        BY <3>1, Zenon
    <3>3. PICK list, group : list = g[n - 1] /\ group = FocusGroups[n]
        BY Zenon
    <3>4. g[n] = IF Focused(group, a) THEN Append(list, group) ELSE list
        BY <1>2, <2>4, <3>0, <3>3, Zenon
    <3>5. list \in Seq(S) /\ group \in S
        BY <1>0, <3>1, <3>2, <3>3, Zenon
    <3>6. /\ Append(list, group) \in Seq(S)
          /\ \A i \in DOMAIN list : i \in DOMAIN Append(list, group) /\ Append(list, group)[i] = list[i]
          /\ \E i \in DOMAIN Append(list, group) : Append(list, group)[i] = group
      <4>1. PICK longer : longer = Append(list, group)
          BY Zenon
      <4>2. /\ longer \in Seq(S) /\ Len(list) \in Nat /\ Len(longer) = Len(list) + 1
            /\ longer[Len(list) + 1] = group /\ \A i \in 1..Len(list) : longer[i] = list[i]
          BY <3>5, <4>1, AppendFacts, SMTT(30)
      <4>3. \A i \in DOMAIN list : i \in DOMAIN longer /\ longer[i] = list[i]
          BY <3>5, <4>2, SMTT(30)
      <4>4. Len(list) + 1 \in DOMAIN longer
          BY <4>2, SMTT(30)
      <4> QED
          BY <4>1, <4>2, <4>3, <4>4, Zenon
    <3>7. g[n] \in Seq(S) /\ \A i \in DOMAIN list : i \in DOMAIN g[n] /\ g[n][i] = list[i]
        BY <3>4, <3>5, <3>6, Zenon
    <3>8. Focused(group, a) => \E i \in DOMAIN g[n] : g[n][i] = group
        BY <3>4, <3>6, Zenon
    <3>9. ASSUME NEW i \in 1..n, Focused(FocusGroups[i], a)
          PROVE  \E m \in DOMAIN g[n] : g[n][m] = FocusGroups[i]
      <4>1. i \in 1..(n - 1) \/ i = n
          BY <3>1, SMTT(30)
      <4>2. CASE i = n
          BY <3>3, <3>8, <3>9, <4>2, Zenon
      <4>3. CASE i \in 1..(n - 1)
        <5>1. PICK m \in DOMAIN list : list[m] = FocusGroups[i]
            BY <3>2, <3>3, <3>9, <4>3, Zenon
        <5> QED
            BY <3>7, <5>1, Zenon
      <4> QED
          BY <4>1, <4>2, <4>3, Zenon
    <3>10. Good(n)
        BY <3>7, <3>9, Zenon
    <3> QED
        BY <2>2, <3>10, Zenon
  <2> QED
      BY <2>3, <2>4, Zenon
<1>4. Good(L)
    BY <1>0, <1>3, SMTT(30)
<1> QED
    BY <1>0, <1>1, <1>4, Zenon DEF S

\* The requests after the base answer: the groups, then the formats.
LEMMA FollowUpsFacts ==
    ASSUME IppTypeOK, NEW a
    PROVE  /\ FollowUps(a) \in Seq(IppRequests)
           /\ ~Truncates(a) => \A i \in DOMAIN FocusGroups : Focused(FocusGroups[i], a) =>
                  \E k \in DOMAIN FollowUps(a) :
                      FollowUps(a)[k].names = FocusGroups[i] /\ FollowUps(a)[k].format = NoFormat
<1> USE IppAssumption
<1> DEFINE F == focused_query_sets(a)
           groups == FirstOf(F, MaxFocused)
           formats == FirstOf(VaryingFormats(a), MaxFormats)
           q == [i \in DOMAIN groups |-> Request(groups[i], NoFormat)]
           r == [i \in DOMAIN formats |-> Request({"all"}, formats[i])]
<1>1. FollowUps(a) = q \o r
    BY DEF FollowUps
<1>2. /\ F \in Seq(Range(FocusGroups))
      /\ \A i \in DOMAIN FocusGroups : Focused(FocusGroups[i], a) => \E m \in DOMAIN F : F[m] = FocusGroups[i]
    BY FocusedFacts, Zenon
<1>3. ~Truncates(a) => Len(F) <= MaxFocused
  <2>1. Len(F) \in Nat
      BY <1>2, SMTT(30)
  <2> QED
      BY <2>1 DEF Truncates
<1> HIDE DEF F
<1>4. groups \in Seq(Range(FocusGroups)) /\ (Len(F) <= MaxFocused => groups = F)
    BY <1>2, FirstOfFacts, Zenon
<1>5. formats \in Seq(Formats)
  <2>1. reports.formats \in Seq(Formats) /\ <<>> \in Seq(Formats)
      BY DEF IppTypeOK
  <2>2. VaryingFormats(a) \in Seq(Formats)
      BY <2>1, Zenon DEF VaryingFormats
  <2> QED
      BY <2>2, FirstOfFacts, Zenon
<1> HIDE DEF groups, formats
<1>6. /\ q \in Seq(IppRequests) /\ DOMAIN q = DOMAIN groups
      /\ \A i \in DOMAIN q : q[i].names = groups[i] /\ q[i].format = NoFormat
  <2>1. Len(groups) \in Nat /\ DOMAIN groups = 1..Len(groups) /\ \A i \in DOMAIN groups : groups[i] \in Range(FocusGroups)
      BY <1>4
  <2>2. \A i \in DOMAIN groups : q[i] \in IppRequests
      BY <2>1, Zenon DEF Request, IppRequests, AnyFormat
  <2>3. \A i \in DOMAIN groups : q[i].names = groups[i] /\ q[i].format = NoFormat
      BY Zenon DEF Request
  <2>4. DOMAIN q = 1..Len(groups) /\ q = [i \in 1..Len(groups) |-> q[i]]
      BY <2>1, Zenon
  <2> HIDE DEF q
  <2> QED
      BY <2>1, <2>2, <2>3, <2>4, SMTT(30)
<1>7. /\ r \in Seq(IppRequests) /\ DOMAIN r = DOMAIN formats
      /\ \A i \in DOMAIN r : r[i].format = formats[i] /\ r[i].format # NoFormat
  <2>1. Len(formats) \in Nat /\ DOMAIN formats = 1..Len(formats) /\ \A i \in DOMAIN formats : formats[i] \in Formats
      BY <1>5
  <2>2. \A i \in DOMAIN formats : r[i] \in IppRequests
      BY <2>1, Zenon DEF Request, IppRequests, AnyFormat
  <2>3. \A i \in DOMAIN formats : r[i].format = formats[i] /\ r[i].format # NoFormat
      BY <2>1, Zenon DEF Request
  <2>4. DOMAIN r = 1..Len(formats) /\ r = [i \in 1..Len(formats) |-> r[i]]
      BY <2>1, Zenon
  <2> HIDE DEF r
  <2> QED
      BY <2>1, <2>2, <2>3, <2>4, SMTT(30)
<1> HIDE DEF q, r
<1>8. /\ q \o r \in Seq(IppRequests) /\ Len(q) \in Nat
      /\ \A i \in DOMAIN (q \o r) :
             \/ i \in DOMAIN q /\ (q \o r)[i] = q[i]
             \/ i - Len(q) \in DOMAIN r /\ (q \o r)[i] = r[i - Len(q)]
      /\ \A i \in DOMAIN q : i \in DOMAIN (q \o r) /\ (q \o r)[i] = q[i]
    BY <1>6, <1>7, ConcatElements, SMTT(30)
<1>9. ASSUME ~Truncates(a), NEW i \in DOMAIN FocusGroups, Focused(FocusGroups[i], a)
      PROVE  \E k \in DOMAIN (q \o r) : (q \o r)[k].names = FocusGroups[i] /\ (q \o r)[k].format = NoFormat
  <2>1. PICK m \in DOMAIN F : F[m] = FocusGroups[i]
      BY <1>2, <1>9, Zenon
  <2>2. groups = F
      BY <1>3, <1>4, <1>9, Zenon
  <2>3. m \in DOMAIN q /\ q[m].names = FocusGroups[i] /\ q[m].format = NoFormat
      BY <1>6, <2>1, <2>2, Zenon
  <2> QED
      BY <1>8, <2>3, Zenon
<1>10. PICK f : f = FollowUps(a)
    OBVIOUS
<1>11. f = q \o r
    BY <1>1, <1>10
<1>12. /\ f \in Seq(IppRequests)
       /\ ~Truncates(a) => \A i \in DOMAIN FocusGroups : Focused(FocusGroups[i], a) =>
              \E k \in DOMAIN f : f[k].names = FocusGroups[i] /\ f[k].format = NoFormat
    BY <1>8, <1>9, <1>11, Zenon
<1> QED
    BY <1>10, <1>12, Zenon

\* What another answer changes in the answers that named an attribute.
Grows(got, a, name, format) ==
    LET A == AnsweringIn(got, name, format)
        B == AnsweringIn(Append(got, a), name, format)
    IN  /\ A # {} => Earliest(A) \in A /\ B # {} /\ Earliest(B) = Earliest(A) /\ Append(got, a)[Earliest(B)] = got[Earliest(A)]
        /\ \A i \in A : i \in B /\ Append(got, a)[i] = got[i]
        /\ name \in a.names /\ a.format = format =>
               Len(got) + 1 \in B /\ Len(got) + 1 \notin A /\ Append(got, a)[Len(got) + 1] = a
        /\ ~(name \in a.names /\ a.format = format) => B = A
        /\ A = {} /\ name \in a.names /\ a.format = format => Earliest(B) = Len(got) + 1 /\ B # {} /\ Append(got, a)[Earliest(B)] = a

LEMMA AnsweringGrows ==
    ASSUME NEW got \in Seq(IppAnswers), NEW a \in IppAnswers, NEW name, NEW format
    PROVE  Grows(got, a, name, format)
<1> DEFINE n == Len(got)
           bs == Append(got, a)
           A == AnsweringIn(got, name, format)
           B == AnsweringIn(bs, name, format)
<1>1. /\ n \in Nat /\ DOMAIN got = 1..n /\ DOMAIN bs = 1..(n + 1)
      /\ bs[n + 1] = a /\ \A i \in 1..n : bs[i] = got[i]
  <2>1. /\ bs \in Seq(IppAnswers) /\ n \in Nat /\ Len(bs) = n + 1
        /\ bs[n + 1] = a /\ \A i \in 1..n : bs[i] = got[i]
      BY AppendFacts, SMTT(30)
  <2> HIDE DEF bs
  <2> QED
      BY <2>1, SMTT(30)
<1> HIDE DEF n, bs
<1>2. A = {i \in 1..n : name \in got[i].names /\ got[i].format = format}
    BY <1>1, Zenon DEF AnsweringIn
<1>3. B = {i \in 1..(n + 1) : name \in bs[i].names /\ bs[i].format = format}
    BY <1>1, Zenon DEF AnsweringIn
<1>4. \A i \in 1..(n + 1) : i \in 1..n \/ i = n + 1
    BY <1>1
<1>5. n + 1 \in 1..(n + 1) /\ \A i \in 1..n : i \in 1..(n + 1) /\ i < n + 1
    BY <1>1, SMTT(30)
<1>6. IF name \in a.names /\ a.format = format THEN B = A \cup {n + 1} ELSE B = A
  <2> HIDE DEF A, B
  <2> QED
      BY <1>1, <1>2, <1>3, <1>4, <1>5, Zenon
<1>7. A \subseteq Nat /\ A \subseteq 1..n
  <2>1. \A i \in A : i \in 1..n
      BY <1>2, Zenon
  <2> HIDE DEF A
  <2> QED
      BY <1>1, <2>1, SMTT(30)
<1> HIDE DEF A, B
<1>8. ASSUME A # {} PROVE Earliest(A) \in A /\ B # {} /\ Earliest(B) = Earliest(A) /\ bs[Earliest(B)] = got[Earliest(A)]
  <2>1. PICK i \in A : \A j \in A : i <= j
      BY <1>7, <1>8, NatMin, Zenon
  <2>2. i \in Nat /\ i \in 1..n /\ i <= n + 1
      BY <1>1, <1>7, SMTT(30)
  <2>3. i \in B /\ \A j \in B : i <= j
      BY <1>6, <2>1, <2>2, Zenon
  <2>4. \A j \in B : j \in Nat
    <3>1. n + 1 \in Nat
        BY <1>1, SMTT(30)
    <3>2. \A j \in A : j \in Nat
        BY <1>7, Zenon
    <3>3. \A j \in B : j \in A \/ j = n + 1
        BY <1>6, Zenon
    <3> QED
        BY <3>1, <3>2, <3>3, Zenon
  <2>5. Earliest(A) = i
    <3>1. Earliest(A) \in A /\ \A j \in A : Earliest(A) <= j
        BY <2>1 DEF Earliest
    <3>2. Earliest(A) <= i /\ i <= Earliest(A) /\ Earliest(A) \in Nat
        BY <1>7, <2>1, <3>1, Zenon
    <3> QED
        BY <2>2, <3>2, SMTT(30)
  <2>6. Earliest(B) = i
    <3>1. Earliest(B) \in B /\ \A j \in B : Earliest(B) <= j
        BY <2>3 DEF Earliest
    <3>2. Earliest(B) <= i /\ i <= Earliest(B) /\ Earliest(B) \in Nat
        BY <2>3, <2>4, <3>1, Zenon
    <3> QED
        BY <2>2, <3>2
  <2> QED
      BY <1>1, <2>2, <2>3, <2>5, <2>6, Zenon
<1>9. ASSUME A = {}, name \in a.names, a.format = format
      PROVE  Earliest(B) = n + 1 /\ B # {} /\ bs[Earliest(B)] = a
  <2>1. B = {n + 1}
      BY <1>6, <1>9, Zenon
  <2>2. Earliest(B) = n + 1
      BY <1>1, <2>1, SMTT(30) DEF Earliest
  <2> QED
      BY <1>1, <2>1, <2>2, Zenon
<1>10. \A i \in A : i \in B /\ bs[i] = got[i]
    BY <1>1, <1>6, <1>7, Zenon
<1>11. ASSUME name \in a.names, a.format = format PROVE n + 1 \in B /\ n + 1 \notin A /\ bs[n + 1] = a
  <2>1. n + 1 \notin 1..n
      BY <1>1
  <2> QED
      BY <1>1, <1>6, <1>7, <1>11, <2>1, Zenon
<1> QED
    BY <1>6, <1>8, <1>9, <1>10, <1>11, Zenon DEF A, B, bs, n, Grows

-----------------------------------------------------------------------------
(* IPP: one more answer *)

LEMMA FirstInvMeans == FirstInv => FirstAnswerWins
<1> SUFFICES ASSUME FirstInv PROVE FirstAnswerWins
    OBVIOUS
<1>0. \A name, format : Answering(name, format) = AnsweringIn(answers, name, format)
    BY DEF Answering, AnsweringIn
<1>1. ASSUME NEW name \in Attributes, AttributeKind[name] = "single"
      PROVE  {entry.value : entry \in {e \in snapshot.single : e.id = name}} =
                 IF Answering(name, NoFormat) = {} THEN {}
                 ELSE {answers[Earliest(Answering(name, NoFormat))].moment}
  <2> DEFINE A == AnsweringIn(answers, name, NoFormat)
             first == answers[Earliest(A)].moment
             S == snapshot.single
  <2>1. /\ A = {} => \A e \in S : e.id # name
        /\ A # {} => (\E e \in S : e.id = name) /\ \A e \in S : e.id = name => e.value = first
      BY <1>1, Zenon DEF FirstInv, FactsInv
  <2> HIDE DEF A, first, S
  <2>2. {entry.value : entry \in {e \in S : e.id = name}} = IF A = {} THEN {} ELSE {first}
      BY <2>1, Zenon
  <2> QED
      BY <1>0, <2>2, Zenon DEF A, first, S
<1>2. snapshot.supplies = IF Answering("marker-names", NoFormat) = {} THEN {}
                         ELSE Supplies(answers[Earliest(Answering("marker-names", NoFormat))])
    BY <1>0, Zenon DEF FirstInv, SuppliesInv
<1>3. ASSUME NEW i \in DOMAIN snapshot.capabilities
      PROVE  LET entry == snapshot.capabilities[i]
                 sources == Answering(entry.id, entry.scope)
             IN  /\ \E k \in sources : entry.value = answers[k].moment /\ (entry.scope = NoFormat => k = Earliest(sources))
                 /\ \A j \in DOMAIN snapshot.capabilities \ {i} :
                        <<entry.id, entry.scope>> = <<snapshot.capabilities[j].id, snapshot.capabilities[j].scope>> =>
                            entry.scope # NoFormat /\ \E k, l \in sources : k # l
  <2> DEFINE caps == snapshot.capabilities
             entry == caps[i]
             sources == Answering(entry.id, entry.scope)
  <2>1. sources = AnsweringIn(answers, entry.id, entry.scope)
      BY <1>0, Zenon
  <2>2. \E m : SourceIn(entry, answers, m)
      BY <1>3, Zenon DEF FirstInv, CapabilitiesInv
  <2>3. \E k \in sources : entry.value = answers[k].moment /\ (entry.scope = NoFormat => k = Earliest(sources))
      BY <2>1, <2>2, Zenon DEF SourceIn
  <2>4. ASSUME NEW j \in DOMAIN caps \ {i}, <<entry.id, entry.scope>> = <<caps[j].id, caps[j].scope>>
        PROVE  entry.scope # NoFormat /\ \E k, l \in sources : k # l
    <3>1. caps[j].id = entry.id /\ caps[j].scope = entry.scope /\ j \in DOMAIN caps /\ j # i
        BY <2>4
    <3>2. TwiceIn(entry, answers)
        BY <1>3, <3>1, Zenon DEF FirstInv, CapabilitiesInv
    <3> QED
        BY <2>1, <3>2, Zenon DEF TwiceIn
  <2> QED
      BY <2>3, <2>4, Zenon
<1> QED
    BY <1>1, <1>2, <1>3, Zenon DEF FirstAnswerWins

LEMMA FactsGrow ==
    ASSUME NEW got \in Seq(IppAnswers), NEW a \in IppAnswers, NEW S, NEW T, FactsInv(S, got),
           \/ a.format = NoFormat /\ T = merge_unique(S, Facts(a, "single"))
           \/ a.format # NoFormat /\ T = S
    PROVE  FactsInv(T, Append(got, a))
<1> DEFINE bs == Append(got, a)
<1> SUFFICES ASSUME NEW name \in Attributes, AttributeKind[name] = "single"
             PROVE  LET B == AnsweringIn(bs, name, NoFormat)
                    IN  /\ B = {} => \A e \in T : e.id # name
                        /\ B # {} => /\ \E e \in T : e.id = name
                                     /\ \A e \in T : e.id = name => e.value = bs[Earliest(B)].moment
    BY Zenon DEF FactsInv
<1> HIDE DEF bs
<1> DEFINE A == AnsweringIn(got, name, NoFormat)
           B == AnsweringIn(bs, name, NoFormat)
           x == got[Earliest(A)].moment
           y == bs[Earliest(B)].moment
<1>1. /\ A # {} => B # {} /\ y = x
      /\ ~(name \in a.names /\ a.format = NoFormat) => B = A
      /\ A = {} /\ name \in a.names /\ a.format = NoFormat => B # {} /\ y = a.moment
  <2>1. Grows(got, a, name, NoFormat)
      BY AnsweringGrows, Zenon
  <2> QED
      BY <2>1, Zenon DEF Grows, bs
<1>2. /\ A = {} => \A e \in S : e.id # name
      /\ A # {} => (\E e \in S : e.id = name) /\ \A e \in S : e.id = name => e.value = x
    BY Zenon DEF FactsInv
<1>3. SUFFICES /\ B = {} => \A e \in T : e.id # name
               /\ B # {} => (\E e \in T : e.id = name) /\ \A e \in T : e.id = name => e.value = y
    BY Zenon
<1> HIDE DEF A, B, x, y
<1>4. CASE a.format # NoFormat
    BY <1>1, <1>2, <1>4, Zenon
<1>5. CASE a.format = NoFormat
  <2>1. \A e : e \in T <=> e \in S \/ (e \in Facts(a, "single") /\ \A o \in S : o.id # e.id)
      BY <1>5, Zenon DEF merge_unique
  <2>2. \A e \in Facts(a, "single") : e.id \in a.names /\ e.value = a.moment
      BY SMTT(30) DEF Facts, Named
  <2>3. CASE name \notin a.names
      BY <1>1, <1>2, <2>1, <2>2, <2>3, Zenon
  <2>4. CASE name \in a.names /\ A # {}
    <3>1. PICK o \in S : o.id = name
        BY <1>2, <2>4, Zenon
    <3>2. \A e : e.id = name => (e \in T <=> e \in S)
        BY <2>1, <3>1, Zenon
    <3> QED
        BY <1>1, <1>2, <2>4, <3>1, <3>2, Zenon
  <2>5. CASE name \in a.names /\ A = {}
    <3>1. B # {} /\ y = a.moment
        BY <1>1, <1>5, <2>5, Zenon
    <3>2. \A e \in S : e.id # name
        BY <1>2, <2>5, Zenon
    <3>3. PICK new : new \in Facts(a, "single") /\ new.id = name
      <4>1. [id |-> name, value |-> a.moment] \in Facts(a, "single")
          BY <2>5, Zenon DEF Facts, Named
      <4> QED
          BY <4>1, SMTT(30)
    <3>4. new \in T
        BY <2>1, <3>2, <3>3, Zenon
    <3> QED
        BY <2>1, <2>2, <3>1, <3>2, <3>3, <3>4, Zenon
  <2> QED
      BY <2>3, <2>4, <2>5, Zenon
<1> QED
    BY <1>4, <1>5, Zenon

\* The supplies are those of the first answer that named the markers, all of them at once.
LEMMA SuppliesGrow ==
    ASSUME NEW got \in Seq(IppAnswers), NEW a \in IppAnswers, NEW S, NEW T, SuppliesInv(S, got),
           \/ a.format = NoFormat /\ T = merge_unique(S, Supplies(a))
           \/ a.format # NoFormat /\ T = S
    PROVE  SuppliesInv(T, Append(got, a))
<1> DEFINE bs == Append(got, a)
           A == AnsweringIn(got, "marker-names", NoFormat)
           B == AnsweringIn(bs, "marker-names", NoFormat)
<1>1. Grows(got, a, "marker-names", NoFormat)
    BY AnsweringGrows, Zenon
<1>2. /\ A # {} => Earliest(A) \in A /\ B # {} /\ bs[Earliest(B)] = got[Earliest(A)]
      /\ ~("marker-names" \in a.names /\ a.format = NoFormat) => B = A
      /\ A = {} /\ "marker-names" \in a.names /\ a.format = NoFormat => B # {} /\ bs[Earliest(B)] = a
    BY <1>1, Zenon DEF Grows
<1>3. A = {} => S = {}
    BY Zenon DEF SuppliesInv
<1>4. A # {} => S = Supplies(got[Earliest(A)]) /\ Earliest(A) \in A
    BY <1>2, Zenon DEF SuppliesInv
<1>5. SUFFICES /\ B = {} => T = {}
               /\ B # {} => T = Supplies(bs[Earliest(B)])
    BY Zenon DEF SuppliesInv
<1> HIDE DEF bs, B
<1>6. \A x : "marker-names" \notin x.names => Supplies(x) = {}
    BY Zenon DEF Supplies
<1>7. \A x, e : e \in Supplies(x) => e.id \in Markers
  <2> SUFFICES ASSUME NEW x, NEW e \in Supplies(x) PROVE e.id \in Markers
      OBVIOUS
  <2>1. PICK m \in IF "marker-names" \in x.names THEN Markers ELSE {} :
            e = [id |-> m, value |-> IF "marker-levels" \in x.names THEN x.moment ELSE NoLevel]
      BY Zenon DEF Supplies
  <2>2. m \in Markers /\ e.id = m
      BY <2>1, Zenon
  <2> QED
      BY <2>2, Zenon
<1>8. CASE a.format # NoFormat
    BY <1>2, <1>3, <1>4, <1>8, Zenon
<1>9. CASE a.format = NoFormat /\ A = {}
  <2>1. T = Supplies(a)
      BY <1>3, <1>9, Zenon DEF merge_unique
  <2> QED
      BY <1>2, <1>6, <1>9, <2>1, Zenon
<1>10. CASE a.format = NoFormat /\ A # {}
  <2>1. PICK x : x = got[Earliest(A)]
      OBVIOUS
  <2>2. "marker-names" \in x.names /\ S = Supplies(x)
    <3>1. Earliest(A) \in A
        BY <1>4, <1>10, Zenon
    <3> QED
        BY <1>4, <1>10, <2>1, <3>1, Zenon DEF AnsweringIn
  <2>3. ASSUME NEW m \in Markers PROVE \E o \in S : o.id = m
    <3> DEFINE o == [id |-> m, value |-> IF "marker-levels" \in x.names THEN x.moment ELSE NoLevel]
    <3>1. o \in S
        BY <2>2, Zenon DEF Supplies
    <3>2. o.id = m
        BY Zenon
    <3> QED
        BY <3>1, <3>2, Zenon
  <2>4. T = S
      BY <1>7, <1>10, <2>3, Zenon DEF merge_unique
  <2> QED
      BY <1>2, <1>10, <2>1, <2>2, <2>4, Zenon
<1> QED
    BY <1>8, <1>9, <1>10, Zenon

LEMMA SuppliesType ==
    ASSUME NEW a \in IppAnswers
    PROVE  Supplies(a) \subseteq SupplyRecords
<1>1. a.moment \in Int /\ NoLevel \in Int
    BY DEF IppAnswers, NoLevel
<1>2. ASSUME NEW e \in Supplies(a) PROVE e \in SupplyRecords
  <2>1. PICK m \in IF "marker-names" \in a.names THEN Markers ELSE {} :
            e = [id |-> m, value |-> IF "marker-levels" \in a.names THEN a.moment ELSE NoLevel]
      BY Zenon DEF Supplies
  <2>2. PICK v \in Int : v = IF "marker-levels" \in a.names THEN a.moment ELSE NoLevel
      BY <1>1, Zenon
  <2>3. m \in Markers /\ e = [id |-> m, value |-> v]
      BY <2>1, <2>2, Zenon
  <2> QED
      BY <2>2, <2>3, Zenon DEF SupplyRecords
<1> QED
    BY <1>2, Zenon

\* The capabilities that an answer adds: for the whole printer the first ones with their name.
Extends(caps, extra, got, a) ==
    /\ extra \in Seq(CapabilityRecords)
    /\ \A k \in DOMAIN extra :
           /\ extra[k].id \in Named(a, "capability")
           /\ extra[k].scope = a.format /\ extra[k].value = a.moment
           /\ a.format = NoFormat =>
                  /\ \A i \in DOMAIN caps : ~(caps[i].id = extra[k].id /\ caps[i].scope = a.format)
                  /\ AnsweringIn(got, extra[k].id, a.format) = {}
    /\ \A j, k \in DOMAIN extra : extra[j].id = extra[k].id => j = k
    /\ \A name \in Named(a, "capability") :
           \/ \E k \in DOMAIN extra : extra[k].id = name
           \/ \E k \in DOMAIN caps : caps[k].id = name /\ caps[k].scope = a.format

LEMMA CapabilitiesGrow ==
    ASSUME NEW got \in Seq(IppAnswers), NEW a \in IppAnswers,
           NEW c \in Seq(CapabilityRecords), NEW extra, Extends(c, extra, got, a),
           CapabilitiesInv(c, got)
    PROVE  CapabilitiesInv(c \o extra, Append(got, a)) /\ c \o extra \in Seq(CapabilityRecords)
<1> DEFINE d == c \o extra
           bs == Append(got, a)
<1>1. extra \in Seq(CapabilityRecords)
    BY Zenon DEF Extends
<1>2. /\ d \in Seq(CapabilityRecords) /\ Len(c) \in Nat
      /\ \A i \in DOMAIN d : \/ i \in DOMAIN c /\ d[i] = c[i]
                             \/ i - Len(c) \in DOMAIN extra /\ d[i] = extra[i - Len(c)]
      /\ \A i \in DOMAIN c : i \in DOMAIN d /\ d[i] = c[i]
      /\ \A i \in DOMAIN extra : Len(c) + i \in DOMAIN d /\ d[Len(c) + i] = extra[i]
    BY <1>1, ConcatElements, SMTT(30)
<1>3. /\ \A k \in DOMAIN c : \E m : SourceIn(c[k], got, m)
      /\ \A j, k \in DOMAIN c : c[j].id = c[k].id /\ c[j].scope = c[k].scope => j = k \/ TwiceIn(c[k], got)
      /\ \A i \in DOMAIN got : \A name \in Named(got[i], "capability") :
             \E k \in DOMAIN c : c[k].id = name /\ c[k].scope = got[i].format
    BY Zenon DEF CapabilitiesInv
<1>5. /\ \A k \in DOMAIN extra :
             /\ extra[k].id \in Named(a, "capability")
             /\ extra[k].scope = a.format /\ extra[k].value = a.moment
             /\ a.format = NoFormat =>
                    /\ \A i \in DOMAIN c : ~(c[i].id = extra[k].id /\ c[i].scope = a.format)
                    /\ AnsweringIn(got, extra[k].id, a.format) = {}
      /\ \A j, k \in DOMAIN extra : extra[j].id = extra[k].id => j = k
      /\ \A name \in Named(a, "capability") :
             \/ \E k \in DOMAIN extra : extra[k].id = name
             \/ \E k \in DOMAIN c : c[k].id = name /\ c[k].scope = a.format
    BY Zenon DEF Extends
<1>4. \A i \in DOMAIN bs : (i \in DOMAIN got /\ bs[i] = got[i]) \/ bs[i] = a
  <2>1. /\ bs \in Seq(IppAnswers) /\ Len(got) \in Nat /\ Len(bs) = Len(got) + 1
        /\ bs[Len(got) + 1] = a /\ \A i \in 1..Len(got) : bs[i] = got[i]
      BY AppendFacts, SMTT(30)
  <2> HIDE DEF bs
  <2>2. DOMAIN got = 1..Len(got) /\ DOMAIN bs = 1..(Len(got) + 1)
      BY <2>1, SMTT(30)
  <2>3. \A i \in 1..(Len(got) + 1) : i \in 1..Len(got) \/ i = Len(got) + 1
      BY <2>1, SMTT(30)
  <2> QED
      BY <2>1, <2>2, <2>3, Zenon
<1> HIDE DEF d, bs
<1>6. ASSUME NEW k \in DOMAIN d
      PROVE  /\ \E m : SourceIn(d[k], bs, m)
             /\ k \notin DOMAIN c => Len(got) + 1 \in AnsweringIn(bs, d[k].id, d[k].scope)
             /\ k \in DOMAIN c => \E m \in AnsweringIn(bs, d[k].id, d[k].scope) : m # Len(got) + 1
  <2>1. PICK name, format : name = d[k].id /\ format = d[k].scope
      OBVIOUS
  <2> DEFINE A == AnsweringIn(got, name, format)
             B == AnsweringIn(bs, name, format)
  <2>2. /\ A # {} => Earliest(B) = Earliest(A)
        /\ \A i \in A : i \in B /\ bs[i] = got[i]
        /\ name \in a.names /\ a.format = format => Len(got) + 1 \in B /\ Len(got) + 1 \notin A /\ bs[Len(got) + 1] = a
        /\ A = {} /\ name \in a.names /\ a.format = format => Earliest(B) = Len(got) + 1
    <3>1. Grows(got, a, name, format)
        BY AnsweringGrows, Zenon
    <3> QED
        BY <3>1, Zenon DEF Grows, bs
  <2>3. CASE k \in DOMAIN c /\ d[k] = c[k]
    <3>1. PICK m : m \in A /\ d[k].value = got[m].moment /\ (format = NoFormat => m = Earliest(A))
        BY <1>3, <2>1, <2>3, Zenon DEF SourceIn
    <3>2. m \in B /\ d[k].value = bs[m].moment /\ (format = NoFormat => m = Earliest(B))
        BY <2>2, <3>1, Zenon
    <3>3. m # Len(got) + 1
      <4>1. m \in 1..Len(got) /\ Len(got) \in Nat
          BY <3>1 DEF AnsweringIn
      <4> QED
          BY <4>1
    <3> QED
        BY <2>1, <2>3, <3>2, <3>3, Zenon DEF SourceIn
  <2>4. CASE k \notin DOMAIN c /\ k - Len(c) \in DOMAIN extra /\ d[k] = extra[k - Len(c)]
    <3>1. name \in a.names /\ format = a.format /\ d[k].value = a.moment /\ (format = NoFormat => A = {})
      <4>1. PICK e \in DOMAIN extra : d[k] = extra[e]
          BY <2>4, Zenon
      <4>2. /\ extra[e].id \in Named(a, "capability") /\ extra[e].scope = a.format /\ extra[e].value = a.moment
            /\ a.format = NoFormat => AnsweringIn(got, extra[e].id, a.format) = {}
          BY <1>5, Zenon
      <4>3. name = extra[e].id /\ format = a.format /\ d[k].value = a.moment
          BY <2>1, <4>1, <4>2, Zenon
      <4> QED
          BY <4>2, <4>3, Zenon DEF Named
    <3>2. PICK m : m = Len(got) + 1
        OBVIOUS
    <3>3. m \in B /\ d[k].value = bs[m].moment /\ (format = NoFormat => m = Earliest(B))
        BY <2>2, <3>1, <3>2, Zenon
    <3> QED
        BY <2>1, <2>4, <3>2, <3>3, Zenon DEF SourceIn
  <2> QED
      BY <1>2, <2>3, <2>4, Zenon
<1>7. ASSUME NEW j \in DOMAIN d, NEW k \in DOMAIN d, d[j].id = d[k].id, d[j].scope = d[k].scope
      PROVE  j = k \/ TwiceIn(d[k], bs)
  <2>1. CASE k \in DOMAIN c /\ j \in DOMAIN c
    <3>1. d[j] = c[j] /\ d[k] = c[k]
        BY <1>2, <2>1, Zenon
    <3>2. j = k \/ TwiceIn(d[k], got)
        BY <1>3, <1>7, <2>1, <3>1, Zenon
    <3>3. Grows(got, a, d[k].id, d[k].scope)
        BY AnsweringGrows, Zenon
    <3>4. \A i \in AnsweringIn(got, d[k].id, d[k].scope) : i \in AnsweringIn(bs, d[k].id, d[k].scope)
        BY <3>3, Zenon DEF Grows, bs
    <3> QED
        BY <3>2, <3>4, Zenon DEF TwiceIn
  <2>2. CASE k \notin DOMAIN c /\ j \in DOMAIN c
    <3>1. PICK m \in DOMAIN extra : d[k] = extra[m]
        BY <1>2, <2>2, Zenon
    <3>2. d[j] = c[j]
        BY <1>2, <2>2, Zenon
    <3>3. d[k].scope # NoFormat
      <4>1. /\ extra[m].scope = a.format
            /\ a.format = NoFormat => ~(c[j].id = extra[m].id /\ c[j].scope = a.format)
          BY <1>5, <2>2, Zenon
      <4> QED
          BY <1>7, <3>1, <3>2, <4>1, Zenon
    <3>4. /\ Len(got) + 1 \in AnsweringIn(bs, d[k].id, d[k].scope)
          /\ \E n \in AnsweringIn(bs, d[k].id, d[k].scope) : n # Len(got) + 1
        BY <1>6, <1>7, <2>2, Zenon
    <3> QED
        BY <3>3, <3>4, Zenon DEF TwiceIn
  <2>3. CASE k \in DOMAIN c /\ j \notin DOMAIN c
    <3>1. PICK m \in DOMAIN extra : d[j] = extra[m]
        BY <1>2, <2>3, Zenon
    <3>2. d[k] = c[k]
        BY <1>2, <2>3, Zenon
    <3>3. d[k].scope # NoFormat
      <4>1. /\ extra[m].scope = a.format
            /\ a.format = NoFormat => ~(c[k].id = extra[m].id /\ c[k].scope = a.format)
          BY <1>5, <2>3, Zenon
      <4> QED
          BY <1>7, <3>1, <3>2, <4>1, Zenon
    <3>4. /\ Len(got) + 1 \in AnsweringIn(bs, d[k].id, d[k].scope)
          /\ \E n \in AnsweringIn(bs, d[k].id, d[k].scope) : n # Len(got) + 1
        BY <1>6, <1>7, <2>3, Zenon
    <3> QED
        BY <3>3, <3>4, Zenon DEF TwiceIn
  <2>4. CASE k \notin DOMAIN c /\ j \notin DOMAIN c
    <3>1. /\ k - Len(c) \in DOMAIN extra /\ d[k] = extra[k - Len(c)]
          /\ j - Len(c) \in DOMAIN extra /\ d[j] = extra[j - Len(c)]
        BY <1>2, <2>4, Zenon
    <3>2. k - Len(c) = j - Len(c)
        BY <1>5, <1>7, <3>1, ZenonT(40)
    <3>3. j \in Int /\ k \in Int
        BY <1>2, SMTT(30)
    <3> QED
        BY <1>2, <3>2, <3>3, SMTT(30)
  <2> QED
      BY <2>1, <2>2, <2>3, <2>4, Zenon
<1>8. ASSUME NEW i \in DOMAIN bs, NEW name \in Named(bs[i], "capability")
      PROVE  \E k \in DOMAIN d : d[k].id = name /\ d[k].scope = bs[i].format
  <2>2. CASE i \in DOMAIN got /\ bs[i] = got[i]
    <3>0. name \in Named(got[i], "capability")
        BY <1>8, <2>2, Zenon
    <3>1. PICK k \in DOMAIN c : c[k].id = name /\ c[k].scope = got[i].format
        BY <1>3, <2>2, <3>0, Zenon
    <3> QED
        BY <1>2, <2>2, <3>1, Zenon
  <2>3. CASE bs[i] = a
    <3>1. CASE \E k \in DOMAIN extra : extra[k].id = name
      <4>1. PICK k \in DOMAIN extra : extra[k].id = name
          BY <3>1
      <4>2. Len(c) + k \in DOMAIN d /\ d[Len(c) + k] = extra[k] /\ extra[k].scope = a.format
          BY <1>2, <1>5, Zenon
      <4> QED
          BY <2>3, <4>1, <4>2, Zenon
    <3>2. CASE \E k \in DOMAIN c : c[k].id = name /\ c[k].scope = a.format
        BY <1>2, <2>3, <3>2, Zenon
    <3>3. name \in Named(a, "capability")
        BY <1>8, <2>3
    <3> QED
        BY <1>5, <3>1, <3>2, <3>3, Zenon
  <2> QED
      BY <1>4, <2>2, <2>3, Zenon
<1>9. CapabilitiesInv(d, bs)
    BY <1>6, <1>7, <1>8, Zenon DEF CapabilitiesInv
<1> QED
    BY <1>2, <1>9, Zenon DEF d, bs

LEMMA ObservedGrows ==
    ASSUME NEW got \in Seq(IppAnswers), NEW a \in IppAnswers,
           NEW seen \in Seq(ObservationRecords), NEW more, more = seen \o Observations(a),
           ObservedIn(seen, got)
    PROVE  /\ more \in Seq(ObservationRecords) /\ ObservedIn(more, Append(got, a))
           /\ \A name : SeenIn(seen, name) => SeenIn(more, name)
           /\ \A name \in a.names : SeenIn(more, name)
<1>1. PICK new : new = Observations(a)
    OBVIOUS
<1>2. /\ new \in Seq(ObservationRecords)
      /\ \A i \in DOMAIN new : new[i].sensitive = (new[i].id \in Sensitive) /\ new[i].answer = a
      /\ \A name \in a.names : \E i \in DOMAIN new : new[i].id = name
  <2>1. /\ Observations(a) \in Seq(ObservationRecords)
        /\ \A i \in DOMAIN Observations(a) :
               /\ Observations(a)[i].sensitive = (Observations(a)[i].id \in Sensitive)
               /\ Observations(a)[i].answer = a
        /\ \A name \in a.names : \E i \in DOMAIN Observations(a) : Observations(a)[i].id = name
      BY ObservationsFacts, Zenon
  <2> QED
      BY <1>1, <2>1, Zenon
<1>3. /\ seen \o new \in Seq(ObservationRecords) /\ Len(seen) \in Nat
      /\ \A i \in DOMAIN (seen \o new) :
             \/ i \in DOMAIN seen /\ (seen \o new)[i] = seen[i]
             \/ i - Len(seen) \in DOMAIN new /\ (seen \o new)[i] = new[i - Len(seen)]
      /\ \A i \in DOMAIN seen : i \in DOMAIN (seen \o new) /\ (seen \o new)[i] = seen[i]
      /\ \A i \in DOMAIN new : Len(seen) + i \in DOMAIN (seen \o new) /\ (seen \o new)[Len(seen) + i] = new[i]
    BY <1>2, ConcatElements, SMTT(30)
<1>4. /\ more \in Seq(ObservationRecords)
      /\ \A i \in DOMAIN more : \/ i \in DOMAIN seen /\ more[i] = seen[i]
                                \/ \E k \in DOMAIN new : more[i] = new[k]
      /\ \A i \in DOMAIN seen : \E k \in DOMAIN more : more[k] = seen[i]
      /\ \A i \in DOMAIN new : \E k \in DOMAIN more : more[k] = new[i]
  <2>1. more = seen \o new
      BY <1>1
  <2> QED
      BY <1>3, <2>1, Zenon
<1> DEFINE n == Len(got)
           bs == Append(got, a)
<1>5. /\ \A i \in DOMAIN bs : (i \in DOMAIN got /\ bs[i] = got[i]) \/ bs[i] = a
      /\ \A i \in DOMAIN got : i \in DOMAIN bs /\ bs[i] = got[i]
      /\ n + 1 \in DOMAIN bs /\ bs[n + 1] = a
  <2>1. /\ bs \in Seq(IppAnswers) /\ n \in Nat /\ Len(bs) = n + 1
        /\ bs[n + 1] = a /\ \A i \in 1..n : bs[i] = got[i]
      BY AppendFacts
  <2> HIDE DEF bs
  <2>2. DOMAIN got = 1..n /\ DOMAIN bs = 1..(n + 1)
      BY <2>1
  <2>3. n + 1 \in 1..(n + 1) /\ \A i \in 1..n : i \in 1..(n + 1)
      BY <2>1, SMTT(30)
  <2>4. \A i \in 1..(n + 1) : i \in 1..n \/ i = n + 1
      BY <2>1, SMTT(30)
  <2> QED
      BY <2>1, <2>2, <2>3, <2>4, Zenon
<1>6. \A name : SeenIn(seen, name) => SeenIn(more, name)
    BY <1>4, SMTT(30) DEF SeenIn
<1>7. \A name \in a.names : SeenIn(more, name)
  <2> SUFFICES ASSUME NEW name \in a.names PROVE SeenIn(more, name)
      BY Zenon
  <2>1. PICK i \in DOMAIN new : new[i].id = name
      BY <1>2, Zenon
  <2> QED
      BY <1>4, <2>1, Zenon DEF SeenIn
<1>8. /\ \A j \in DOMAIN seen : /\ seen[j].sensitive = (seen[j].id \in Sensitive)
                                /\ \E i \in DOMAIN got : seen[j].answer = got[i]
      /\ \A i \in DOMAIN got : \A name \in got[i].names : SeenIn(seen, name)
    BY Zenon DEF ObservedIn
<1> HIDE DEF bs, n
<1>9. ASSUME NEW j \in DOMAIN more
      PROVE  /\ more[j].sensitive = (more[j].id \in Sensitive)
             /\ \E i \in DOMAIN bs : more[j].answer = bs[i]
  <2>1. CASE j \in DOMAIN seen /\ more[j] = seen[j]
    <3>1. PICK i \in DOMAIN got : seen[j].answer = got[i]
        BY <1>8, <2>1, Zenon
    <3>2. seen[j].sensitive = (seen[j].id \in Sensitive)
        BY <1>8, <2>1, Zenon
    <3> QED
        BY <1>5, <2>1, <3>1, <3>2, Zenon
  <2>2. CASE \E k \in DOMAIN new : more[j] = new[k]
    <3>1. PICK k \in DOMAIN new : more[j] = new[k]
        BY <2>2, Zenon
    <3>2. new[k].sensitive = (new[k].id \in Sensitive) /\ new[k].answer = a
        BY <1>2, Zenon
    <3>3. bs[n + 1] = a /\ n + 1 \in DOMAIN bs
        BY <1>5, Zenon
    <3>4. \E i \in DOMAIN bs : more[j].answer = bs[i]
        BY <3>1, <3>2, <3>3, Zenon
    <3> QED
        BY <3>1, <3>2, <3>4, Zenon
  <2> QED
      BY <1>4, <2>1, <2>2, Zenon
<1>10. ASSUME NEW i \in DOMAIN bs, NEW name \in bs[i].names PROVE SeenIn(more, name)
    BY <1>5, <1>6, <1>7, <1>8, <1>10, Zenon
<1>11. ObservedIn(more, bs)
    BY <1>9, <1>10, Zenon DEF ObservedIn
<1> QED
    BY <1>4, <1>6, <1>7, <1>11, Zenon DEF bs

LEMMA AnswerType ==
    ASSUME IppTypeOK, NEW request \in IppRequests, NEW refused \in BOOLEAN, NEW a, a = AnswerTo(request, refused)
    PROVE  /\ a \in IppAnswers /\ a.format = request.format
           /\ ~a.refused /\ request.names = {"all"} => a.names = reports.all
           /\ ~a.refused /\ request.names # {"all"} => a.names = request.names \cap Attributes
<1>1. a.refused = refused /\ a.format = request.format /\ a.moment = moment /\ a.leading = reports.leading
    BY Zenon DEF AnswerTo
<1>2. /\ refused => a.names = {}
      /\ ~refused /\ request.names = {"all"} => a.names = reports.all
      /\ ~refused /\ request.names # {"all"} => a.names = request.names \cap Attributes
    BY Zenon DEF AnswerTo
<1>3. a.names \in SUBSET Attributes
    BY <1>2, Zenon DEF IppTypeOK
<1>4. a = [names |-> a.names, format |-> request.format, moment |-> moment, leading |-> reports.leading, refused |-> refused]
    BY Zenon DEF AnswerTo
<1>5. a \in IppAnswers
  <2>1. request.format \in AnyFormat
      BY Zenon DEF IppRequests
  <2>2. moment \in Nat /\ reports.leading \in BOOLEAN
      BY Zenon DEF IppTypeOK
  <2>3. PICK names : names = a.names
      OBVIOUS
  <2>4. /\ a = [names |-> names, format |-> request.format, moment |-> moment,
                leading |-> reports.leading, refused |-> refused]
        /\ names \in SUBSET Attributes
      BY <1>3, <1>4, <2>3, Zenon
  <2> QED
      BY <2>1, <2>2, <2>4 DEF IppAnswers
<1> QED
    BY <1>1, <1>2, <1>5, Zenon

\* What an answer does to the snapshot, whichever way it is merged.
Merged(a) ==
    /\ \/ /\ a.format = NoFormat
          /\ snapshot'.single = merge_unique(snapshot.single, Facts(a, "single"))
          /\ snapshot'.supplies = merge_unique(snapshot.supplies, Supplies(a))
       \/ a.format # NoFormat /\ snapshot'.single = snapshot.single /\ snapshot'.supplies = snapshot.supplies
    /\ \E extra : /\ Extends(snapshot.capabilities, extra, answers, a)
                  /\ snapshot'.capabilities = snapshot.capabilities \o extra
    /\ snapshot'.observations = snapshot.observations \o Observations(a)
    /\ snapshot'.reasons \subseteq FactRecords
    /\ snapshot' = [single |-> snapshot'.single, reasons |-> snapshot'.reasons, supplies |-> snapshot'.supplies,
                    capabilities |-> snapshot'.capabilities, observations |-> snapshot'.observations]

LEMMA FactsType ==
    ASSUME NEW a \in IppAnswers, NEW kind
    PROVE  Facts(a, kind) \subseteq FactRecords
BY SMTT(30) DEF Facts, Named, FactRecords, IppAnswers

LEMMA MergedFirst ==
    ASSUME IppInv, NEW a \in IppAnswers, a.format = NoFormat, answers = <<>>, snapshot' = normalize_ipp(a)
    PROVE  Merged(a)
<1>1. /\ snapshot.single = {} /\ snapshot.supplies = {}
      /\ snapshot.capabilities = <<>> /\ snapshot.observations = <<>>
    BY SMTT(30) DEF IppInv, AskedInv, NoSnapshot
<1>2. /\ snapshot'.single = Facts(a, "single") /\ snapshot'.reasons = Facts(a, "reasons")
      /\ snapshot'.supplies = Supplies(a)
      /\ snapshot'.capabilities = Capabilities(a) /\ snapshot'.observations = Observations(a)
      /\ snapshot' = [single |-> snapshot'.single, reasons |-> snapshot'.reasons, supplies |-> snapshot'.supplies,
                      capabilities |-> snapshot'.capabilities, observations |-> snapshot'.observations]
    BY Zenon DEF normalize_ipp
<1>3. \A S : S = merge_unique({}, S)
    BY Zenon DEF merge_unique
<1>4. PICK extra : extra = Capabilities(a)
    OBVIOUS
<1>5. ListsAll(extra, a)
    BY <1>4, CapabilitiesFacts, Zenon
<1>6. \A name, format : AnsweringIn(<<>>, name, format) = {}
  <2>1. DOMAIN <<>> = {}
      OBVIOUS
  <2> QED
      BY <2>1, Zenon DEF AnsweringIn
<1>7. Extends(<<>>, extra, <<>>, a)
  <2>1. <<>> \in Seq(CapabilityRecords) /\ DOMAIN <<>> = {}
      OBVIOUS
  <2> QED
      BY <1>5, <1>6, <2>1, Zenon DEF Extends, ListsAll
<1>8. <<>> \o extra = extra
  <2>1. extra \in Seq(CapabilityRecords)
      BY <1>5, Zenon DEF ListsAll
  <2> QED
      BY <2>1
<1>9. PICK seen : seen = Observations(a)
    OBVIOUS
<1>10. seen \in Seq(ObservationRecords)
    BY <1>9, ObservationsFacts, Zenon
<1>11. <<>> \o seen = seen
    BY <1>10
<1>12. Facts(a, "reasons") \subseteq FactRecords
    BY FactsType
<1> QED
    BY <1>1, <1>2, <1>3, <1>4, <1>7, <1>8, <1>9, <1>11, <1>12, Zenon DEF Merged

LEMMA MergedSupplement ==
    ASSUME IppInv, NEW a \in IppAnswers, a.format = NoFormat,
           snapshot' = merge_supplemental_snapshot(snapshot, normalize_ipp(a))
    PROVE  Merged(a)
<1>1. /\ snapshot'.single = merge_unique(snapshot.single, Facts(a, "single"))
      /\ snapshot'.reasons = snapshot.reasons \cup Facts(a, "reasons")
      /\ snapshot'.supplies = merge_unique(snapshot.supplies, Supplies(a))
      /\ snapshot'.capabilities =
             snapshot.capabilities \o NewCapabilities(snapshot.capabilities, Capabilities(a))
      /\ snapshot'.observations = snapshot.observations \o Observations(a)
      /\ snapshot' = [single |-> snapshot'.single, reasons |-> snapshot'.reasons, supplies |-> snapshot'.supplies,
                      capabilities |-> snapshot'.capabilities, observations |-> snapshot'.observations]
    BY Zenon DEF normalize_ipp, merge_supplemental_snapshot
<1>2. snapshot.reasons \subseteq FactRecords /\ Facts(a, "reasons") \subseteq FactRecords
  <2>1. snapshot.reasons \in SUBSET FactRecords
      BY Zenon DEF IppInv, IppTypeOK, Snapshots
  <2> QED
      BY <2>1, FactsType, Zenon
<1>3. PICK caps : caps = snapshot.capabilities
    OBVIOUS
<1>4. PICK extra : extra = NewCapabilities(caps, Capabilities(a))
    OBVIOUS
<1>5. caps \in Seq(CapabilityRecords)
    BY <1>3, Zenon DEF IppInv, IppTypeOK, Snapshots
<1>6. ListsNew(extra, a, caps)
    BY <1>4, <1>5, NewCapabilitiesFacts, Zenon
<1>7. ASSUME NEW k \in DOMAIN extra PROVE AnsweringIn(answers, extra[k].id, a.format) = {}
  <2> SUFFICES ASSUME NEW i \in AnsweringIn(answers, extra[k].id, a.format) PROVE FALSE
      OBVIOUS
  <2>1. i \in DOMAIN answers /\ extra[k].id \in answers[i].names /\ answers[i].format = a.format
      BY Zenon DEF AnsweringIn
  <2>2. extra[k].id \in Named(answers[i], "capability")
      BY <1>6, <2>1, Zenon DEF Named, ListsNew
  <2>3. \E m \in DOMAIN caps : caps[m].id = extra[k].id /\ caps[m].scope = answers[i].format
    <3>1. CapabilitiesInv(caps, answers)
        BY <1>3, Zenon DEF IppInv, FirstInv
    <3> QED
        BY <2>1, <2>2, <3>1, Zenon DEF CapabilitiesInv
  <2> QED
      BY <1>6, <2>1, <2>3, Zenon DEF ListsNew
<1>8. Extends(caps, extra, answers, a)
    BY <1>6, <1>7, Zenon DEF Extends, ListsNew
<1> QED
    BY <1>1, <1>2, <1>3, <1>4, <1>8, Zenon DEF Merged

LEMMA MergedFormat ==
    ASSUME IppInv, NEW a \in IppAnswers, a.format # NoFormat,
           snapshot' = extend_with_format(snapshot, normalize_ipp(a))
    PROVE  Merged(a)
<1>0. snapshot \in Snapshots
    BY Zenon DEF IppInv, IppTypeOK
<1>1. /\ snapshot'.single = snapshot.single /\ snapshot'.reasons = snapshot.reasons
      /\ snapshot'.supplies = snapshot.supplies
      /\ snapshot'.capabilities = snapshot.capabilities \o Capabilities(a)
      /\ snapshot'.observations = snapshot.observations \o Observations(a)
      /\ snapshot' = [single |-> snapshot'.single, reasons |-> snapshot'.reasons, supplies |-> snapshot'.supplies,
                      capabilities |-> snapshot'.capabilities, observations |-> snapshot'.observations]
    BY <1>0, Zenon DEF normalize_ipp, extend_with_format, Snapshots
<1>2. snapshot.reasons \subseteq FactRecords
    BY <1>0, Zenon DEF Snapshots
<1>3. PICK caps : caps = snapshot.capabilities
    BY Zenon
<1>4. PICK extra : extra = Capabilities(a)
    BY Zenon
<1>5. ListsAll(extra, a)
    BY <1>4, CapabilitiesFacts, Zenon
<1>6. Extends(caps, extra, answers, a)
    BY <1>5, Zenon DEF Extends, ListsAll
<1> QED
    BY <1>1, <1>2, <1>3, <1>4, <1>6, Zenon DEF Merged

\* Whichever way an answer is merged, the snapshot has the first of what the printer said.
LEMMA MergedFacts ==
    ASSUME IppInv, NEW a \in IppAnswers, answers' = Append(answers, a), Merged(a)
    PROVE  /\ FirstInv' /\ ObservedInv'
           /\ answers' \in Seq(IppAnswers)
           /\ snapshot' \in Snapshots
           /\ \A name : SeenIn(snapshot.observations, name) => SeenIn(snapshot'.observations, name)
           /\ \A name \in a.names : SeenIn(snapshot'.observations, name)
<1>1. PICK got, single, supplies, caps, seen :
          /\ got = answers /\ single = snapshot.single /\ supplies = snapshot.supplies
          /\ caps = snapshot.capabilities /\ seen = snapshot.observations
    OBVIOUS
<1>2. PICK single2, supplies2, caps2, seen2 :
          /\ single2 = snapshot'.single /\ supplies2 = snapshot'.supplies /\ caps2 = snapshot'.capabilities
          /\ seen2 = snapshot'.observations
    OBVIOUS
<1>3. /\ got \in Seq(IppAnswers) /\ single \subseteq FactRecords /\ supplies \subseteq SupplyRecords
      /\ caps \in Seq(CapabilityRecords) /\ seen \in Seq(ObservationRecords)
      /\ FactsInv(single, got) /\ SuppliesInv(supplies, got) /\ CapabilitiesInv(caps, got) /\ ObservedIn(seen, got)
    BY <1>1, Zenon DEF IppInv, IppTypeOK, Snapshots, FirstInv, ObservedInv
<1>4. /\ \/ /\ a.format = NoFormat
            /\ single2 = merge_unique(single, Facts(a, "single")) /\ supplies2 = merge_unique(supplies, Supplies(a))
         \/ a.format # NoFormat /\ single2 = single /\ supplies2 = supplies
      /\ seen2 = seen \o Observations(a)
      /\ \E extra : Extends(caps, extra, got, a) /\ caps2 = caps \o extra
    BY <1>1, <1>2, Zenon DEF Merged
<1>5. FactsInv(single2, Append(got, a))
    BY <1>3, <1>4, FactsGrow, Zenon
<1>13. SuppliesInv(supplies2, Append(got, a))
    BY <1>3, <1>4, SuppliesGrow, Zenon
<1>6. CapabilitiesInv(caps2, Append(got, a)) /\ caps2 \in Seq(CapabilityRecords)
  <2>1. PICK extra : Extends(caps, extra, got, a) /\ caps2 = caps \o extra
      BY <1>4, Zenon
  <2> QED
      BY <1>3, <2>1, CapabilitiesGrow, Zenon
<1>7. /\ seen2 \in Seq(ObservationRecords) /\ ObservedIn(seen2, Append(got, a))
      /\ \A name : SeenIn(seen, name) => SeenIn(seen2, name)
      /\ \A name \in a.names : SeenIn(seen2, name)
    BY <1>3, <1>4, ObservedGrows, Zenon
<1>8. single2 \subseteq FactRecords /\ supplies2 \subseteq SupplyRecords
    BY <1>3, <1>4, FactsType, SuppliesType, Zenon DEF merge_unique
<1>9. answers' = Append(got, a)
    BY <1>1
<1>10. answers' \in Seq(IppAnswers)
    BY <1>3, <1>9
<1>11. snapshot' \in Snapshots
  <2>1. PICK reasons2 : reasons2 = snapshot'.reasons
      OBVIOUS
  <2>2. reasons2 \subseteq FactRecords
      BY <2>1, Zenon DEF Merged
  <2>3. snapshot' = [single |-> single2, reasons |-> reasons2, supplies |-> supplies2,
                     capabilities |-> caps2, observations |-> seen2]
      BY <1>2, <2>1, Zenon DEF Merged
  <2> QED
      BY <1>6, <1>7, <1>8, <2>2, <2>3, Zenon DEF Snapshots
<1>12. FirstInv' /\ ObservedInv'
    BY <1>2, <1>5, <1>6, <1>7, <1>9, <1>13, Zenon DEF FirstInv, ObservedInv
<1> QED
    BY <1>1, <1>2, <1>7, <1>10, <1>11, <1>12, Zenon

-----------------------------------------------------------------------------
(* IPP: the steps *)

\* The answer to the first request.
LEMMA FirstAnswered ==
    ASSUME IppInv, DiscoverAnswered, answers = <<>>
    PROVE  IppInv'
<1> USE IppAssumption
<1>1. PICK refused, a :
          /\ refused \in BOOLEAN /\ a = AnswerTo(Head(queries), refused)
          /\ answers' = Append(answers, a) /\ snapshot' = normalize_ipp(a)
          /\ truncated' = Truncates(a) /\ queries' = FollowUps(a)
          /\ discovery' = IF FollowUps(a) = <<>> THEN "merged" ELSE "asking"
          /\ UNCHANGED <<reports, moment, prepared>>
    BY DEF DiscoverAnswered
<1>2. Head(queries) = Request({"all"}, NoFormat) /\ Head(queries) \in IppRequests
    BY SMTT(30) DEF IppInv, AskedInv, IppRequests, Request, AnyFormat
<1>3. a \in IppAnswers /\ a.format = NoFormat /\ (~a.refused => a.names = reports.all)
  <2>1. PICK request : request = Head(queries)
      OBVIOUS
  <2>2. request \in IppRequests /\ request.names = {"all"} /\ request.format = NoFormat
      BY <1>2, <2>1 DEF Request
  <2> QED
      BY <1>1, <2>1, <2>2, AnswerType, Zenon DEF IppInv
<1>4. /\ answers' = Append(answers, a) /\ snapshot' = normalize_ipp(a)
      /\ truncated' = Truncates(a) /\ queries' = FollowUps(a)
      /\ discovery' = IF FollowUps(a) = <<>> THEN "merged" ELSE "asking"
      /\ UNCHANGED <<reports, moment, prepared>>
    BY <1>1, Zenon
<1>5. Merged(a)
    BY <1>3, <1>4, MergedFirst, Zenon
<1>6. /\ FirstInv' /\ ObservedInv' /\ answers' \in Seq(IppAnswers)
      /\ snapshot' \in Snapshots
      /\ \A name \in a.names : SeenIn(snapshot'.observations, name)
    BY <1>3, <1>4, <1>5, MergedFacts, Zenon
<1>7. PICK rest : rest = FollowUps(a)
    OBVIOUS
<1>8. /\ rest \in Seq(IppRequests)
      /\ ~Truncates(a) => \A i \in DOMAIN FocusGroups : Focused(FocusGroups[i], a) =>
             \E k \in DOMAIN rest : rest[k].names = FocusGroups[i] /\ rest[k].format = NoFormat
  <2>1. /\ FollowUps(a) \in Seq(IppRequests)
        /\ ~Truncates(a) => \A i \in DOMAIN FocusGroups : Focused(FocusGroups[i], a) =>
               \E k \in DOMAIN FollowUps(a) :
                   FollowUps(a)[k].names = FocusGroups[i] /\ FollowUps(a)[k].format = NoFormat
      BY FollowUpsFacts, Zenon DEF IppInv
  <2> QED
      BY <1>7, <2>1, Zenon
<1>9. IppTypeOK'
    BY <1>4, <1>6, <1>7, <1>8, Zenon DEF IppInv, IppTypeOK
<1>10. answers' = <<a>>
    BY <1>4, SMTT(30)
<1>11. DOMAIN answers' = {1} /\ answers'[1] = a
    BY <1>10, SMTT(30)
<1>12. AskedInv'
    BY <1>4, <1>7, <1>10, SMTT(30) DEF AskedInv
<1>13. FocusInv'
  <2> SUFFICES ASSUME ~truncated', NoneRefused', NEW i \in DOMAIN FocusGroups,
                      FocusGroups[i] \cap (reports.advertised \cup reports.all) # {}
               PROVE  \/ \A name \in FocusGroups[i] \cap Attributes : SeenIn(snapshot'.observations, name)
                      \/ \E k \in DOMAIN rest : rest[k].names = FocusGroups[i] /\ rest[k].format = NoFormat
      BY <1>4, <1>7, Zenon DEF FocusInv
  <2>1. CASE FocusGroups[i] \subseteq a.names
      BY <1>6, <2>1, Zenon
  <2>2. CASE ~(FocusGroups[i] \subseteq a.names)
    <3>1. ~a.refused
        BY <1>3, <1>11, Zenon DEF NoneRefused
    <3>2. Focused(FocusGroups[i], a)
        BY <1>3, <2>2, <3>1, Zenon DEF Focused, Advertised
    <3> QED
        BY <1>4, <1>8, <3>2, Zenon
  <2> QED
      BY <2>1, <2>2, Zenon
<1>14. RedactedHidesSensitive'
    BY <1>4, Zenon DEF RedactedHidesSensitive
<1> QED
    BY <1>6, <1>9, <1>12, <1>13, <1>14, Zenon DEF IppInv

\* The answer to a later one.
LEMMA LaterAnswered ==
    ASSUME IppInv, DiscoverAnswered, answers # <<>>
    PROVE  IppInv'
<1> USE IppAssumption
<1>1. PICK refused, a :
          /\ refused \in BOOLEAN /\ a = AnswerTo(Head(queries), refused)
          /\ answers' = Append(answers, a) /\ truncated' = truncated /\ queries' = Tail(queries)
          /\ discovery' = IF Tail(queries) = <<>> THEN "merged" ELSE "asking"
          /\ UNCHANGED <<reports, moment, prepared>>
          /\ a.format = NoFormat => snapshot' = merge_supplemental_snapshot(snapshot, normalize_ipp(a))
          /\ a.format # NoFormat => snapshot' = extend_with_format(snapshot, normalize_ipp(a))
    BY DEF DiscoverAnswered
<1>2. PICK todo, got : todo = queries /\ got = answers
    OBVIOUS
<1>3. /\ todo \in Seq(IppRequests) /\ todo # <<>> /\ got \in Seq(IppAnswers)
    BY <1>2 DEF IppInv, IppTypeOK, AskedInv, DiscoverAnswered
<1>4. /\ Tail(todo) \in Seq(IppRequests) /\ Len(todo) \in Nat \ {0} /\ Len(Tail(todo)) = Len(todo) - 1
      /\ Head(todo) = todo[1] /\ todo[1] \in IppRequests
      /\ \A i \in 1..(Len(todo) - 1) : Tail(todo)[i] = todo[i + 1]
    BY <1>3, TailFacts, Zenon
<1>5. /\ a \in IppAnswers /\ a.format = todo[1].format
      /\ ~a.refused /\ todo[1].names # {"all"} => a.names = todo[1].names \cap Attributes
    BY <1>1, <1>2, <1>4, AnswerType, Zenon DEF IppInv
<1>6. /\ answers' = Append(answers, a) /\ truncated' = truncated /\ queries' = Tail(queries)
      /\ discovery' = IF Tail(queries) = <<>> THEN "merged" ELSE "asking"
      /\ UNCHANGED <<reports, moment, prepared>>
      /\ a.format = NoFormat => snapshot' = merge_supplemental_snapshot(snapshot, normalize_ipp(a))
      /\ a.format # NoFormat => snapshot' = extend_with_format(snapshot, normalize_ipp(a))
    BY <1>1, Zenon
<1>7. Merged(a)
  <2>1. CASE a.format = NoFormat
      BY <1>5, <1>6, <2>1, MergedSupplement, Zenon
  <2>2. CASE a.format # NoFormat
      BY <1>5, <1>6, <2>2, MergedFormat, Zenon
  <2> QED
      BY <2>1, <2>2, Zenon
<1>8. /\ FirstInv' /\ ObservedInv' /\ answers' \in Seq(IppAnswers)
      /\ snapshot' \in Snapshots
      /\ \A name : SeenIn(snapshot.observations, name) => SeenIn(snapshot'.observations, name)
      /\ \A name \in a.names : SeenIn(snapshot'.observations, name)
    BY <1>5, <1>6, <1>7, MergedFacts, Zenon
<1>9. IppTypeOK'
    BY <1>2, <1>4, <1>6, <1>8, Zenon DEF IppInv, IppTypeOK
<1>10. /\ \A j \in DOMAIN answers : j \in DOMAIN answers' /\ answers'[j] = answers[j]
       /\ Len(got) + 1 \in DOMAIN answers' /\ answers'[Len(got) + 1] = a
  <2>1. PICK more : more = Append(got, a)
      OBVIOUS
  <2>2. /\ Len(got) \in Nat /\ more \in Seq(IppAnswers) /\ Len(more) = Len(got) + 1
        /\ more[Len(got) + 1] = a /\ \A i \in 1..Len(got) : more[i] = got[i]
      BY <1>3, <1>5, <2>1, AppendFacts, SMTT(30)
  <2>3. DOMAIN got = 1..Len(got) /\ DOMAIN more = 1..(Len(got) + 1)
      BY <1>3, <2>2, SMTT(30)
  <2>4. Len(got) + 1 \in 1..(Len(got) + 1) /\ \A i \in 1..Len(got) : i \in 1..(Len(got) + 1)
      BY <2>2
  <2>5. answers' = more /\ answers = got
      BY <1>2, <1>6, <2>1, Zenon
  <2> QED
      BY <2>2, <2>3, <2>4, <2>5, Zenon
<1>11. answers' # <<>>
  <2>1. Len(Append(got, a)) = Len(got) + 1 /\ Len(got) \in Nat
      BY <1>3, <1>5, AppendFacts, Zenon
  <2> QED
      BY <1>2, <1>6, <2>1, SMTT(30)
<1>12. AskedInv'
    BY <1>6, <1>11, Zenon DEF AskedInv
<1>13. FocusInv'
  <2> SUFFICES ASSUME ~truncated', NoneRefused', NEW i \in DOMAIN FocusGroups,
                      FocusGroups[i] \cap (reports.advertised \cup reports.all) # {}
               PROVE  \/ \A name \in FocusGroups[i] \cap Attributes : SeenIn(snapshot'.observations, name)
                      \/ \E k \in DOMAIN Tail(todo) :
                             Tail(todo)[k].names = FocusGroups[i] /\ Tail(todo)[k].format = NoFormat
      BY <1>2, <1>6, Zenon DEF FocusInv
  <2>0. NoneRefused /\ (a.format = NoFormat => ~a.refused)
      BY <1>10, Zenon DEF NoneRefused
  <2>1. \/ \A name \in FocusGroups[i] \cap Attributes : SeenIn(snapshot.observations, name)
        \/ \E k \in DOMAIN todo : todo[k].names = FocusGroups[i] /\ todo[k].format = NoFormat
      BY <1>2, <1>6, <2>0, Zenon DEF IppInv, FocusInv
  <2>2. CASE \A name \in FocusGroups[i] \cap Attributes : SeenIn(snapshot.observations, name)
      BY <1>8, <2>2, Zenon
  <2>3. ASSUME NEW k \in DOMAIN todo, todo[k].names = FocusGroups[i], todo[k].format = NoFormat, k # 1
        PROVE  \E m \in DOMAIN Tail(todo) : Tail(todo)[m].names = FocusGroups[i] /\ Tail(todo)[m].format = NoFormat
    <3>1. k - 1 \in 1..(Len(todo) - 1) /\ (k - 1) + 1 = k
        BY <1>4, <2>3, SMTT(30)
    <3>2. k - 1 \in DOMAIN Tail(todo) /\ Tail(todo)[k - 1] = todo[k]
        BY <1>4, <3>1, SMTT(30)
    <3> QED
        BY <2>3, <3>2, Zenon
  <2>4. ASSUME todo[1].names = FocusGroups[i], todo[1].format = NoFormat
        PROVE  \A name \in FocusGroups[i] \cap Attributes : SeenIn(snapshot'.observations, name)
      BY <1>5, <1>8, <2>0, <2>4, Zenon
  <2> QED
      BY <2>1, <2>2, <2>3, <2>4, Zenon
<1>14. RedactedHidesSensitive'
    BY <1>6, Zenon DEF RedactedHidesSensitive
<1> QED
    BY <1>8, <1>9, <1>12, <1>13, <1>14, Zenon DEF IppInv

\* What is shown has no sensitive value, and no answer as received that has one.
Hides(shown) ==
    /\ \A entry \in shown.single : entry.id \in Sensitive => entry.value = Redacted
    /\ \A i \in DOMAIN shown.observations :
           /\ shown.observations[i].id \in Sensitive => shown.observations[i].value = Redacted
           /\ shown.observations[i].original => shown.observations[i].answer.names \cap Sensitive = {}

\* What is prepared for output, mode by mode.
LEMMA Redaction ==
    ASSUME NEW s \in Snapshots, NEW got \in Seq(IppAnswers), ObservedIn(s.observations, got),
           NEW shown \in {WithoutValues(redact(s)), RedactRaw(redact(s))}
    PROVE  Hides(shown)
<1>0. PICK single, reasons, supplies, caps, seen :
          /\ s = [single |-> single, reasons |-> reasons, supplies |-> supplies,
                  capabilities |-> caps, observations |-> seen]
          /\ single \in SUBSET FactRecords /\ seen \in Seq(ObservationRecords) /\ ObservedIn(seen, got)
  <2>1. /\ s = [single |-> s.single, reasons |-> s.reasons, supplies |-> s.supplies,
                capabilities |-> s.capabilities, observations |-> s.observations]
        /\ s.single \in SUBSET FactRecords /\ s.observations \in Seq(ObservationRecords)
      BY Zenon DEF Snapshots
  <2> QED
      BY <2>1, Zenon
<1>1. PICK r : r = redact(s)
    BY Zenon
<1>2. /\ r = [single |-> r.single, reasons |-> reasons, supplies |-> supplies,
                capabilities |-> caps, observations |-> seen]
      /\ r.single = {IF is_sensitive_ipp_attribute(entry.id) THEN [entry EXCEPT !.value = Redacted] ELSE entry
                     : entry \in single}
      /\ r.observations = seen
    BY <1>0, <1>1, Zenon DEF redact
<1>3. \A entry \in r.single : entry.id \in Sensitive => entry.value = Redacted
    BY <1>0, <1>2 DEF FactRecords, is_sensitive_ipp_attribute
<1>4. shown.single = r.single
    BY <1>1, <1>2, Zenon DEF WithoutValues, RedactRaw
<1>5. CASE shown = WithoutValues(r)
  <2>1. shown.observations =
            [i \in DOMAIN seen |-> [seen[i] EXCEPT !.value = Redacted, !.original = FALSE]]
      BY <1>2, <1>5, Zenon DEF WithoutValues
  <2>2. \A i \in DOMAIN seen : seen[i] \in ObservationRecords
      BY <1>0
  <2>3. \A i \in DOMAIN shown.observations :
            shown.observations[i].value = Redacted /\ ~shown.observations[i].original
    <3>1. ASSUME NEW o \in ObservationRecords, NEW e, e = [o EXCEPT !.value = Redacted, !.original = FALSE]
          PROVE  e.value = Redacted /\ ~e.original
        BY <3>1 DEF ObservationRecords
    <3> QED
        BY <2>1, <2>2, <3>1, Zenon
  <2> QED
      BY <1>3, <1>4, <2>3, Zenon DEF Hides
<1>6. CASE shown = RedactRaw(r)
  <2> DEFINE any == \E i \in DOMAIN seen : seen[i].sensitive
  <2>1. shown.observations =
            [i \in DOMAIN seen |-> [seen[i] EXCEPT !.value = IF seen[i].sensitive THEN Redacted ELSE @,
                                                   !.original = @ /\ ~any]]
      BY <1>2, <1>6, Zenon DEF RedactRaw
  <2>2. \A i \in DOMAIN seen : seen[i] \in ObservationRecords
      BY <1>0
  <2> HIDE DEF any
  <2>3. \A i \in DOMAIN shown.observations :
            /\ i \in DOMAIN seen /\ shown.observations[i].id = seen[i].id
            /\ shown.observations[i].answer = seen[i].answer
            /\ seen[i].sensitive => shown.observations[i].value = Redacted
            /\ shown.observations[i].original => ~any
    <3> SUFFICES ASSUME NEW i \in DOMAIN shown.observations
                 PROVE  /\ i \in DOMAIN seen /\ shown.observations[i].id = seen[i].id
                        /\ shown.observations[i].answer = seen[i].answer
                        /\ seen[i].sensitive => shown.observations[i].value = Redacted
                        /\ shown.observations[i].original => ~any
        BY Zenon
    <3>2. PICK o, e : o = seen[i] /\ e = shown.observations[i]
        BY Zenon
    <3>3. /\ i \in DOMAIN seen /\ o \in ObservationRecords
          /\ e = [o EXCEPT !.value = IF o.sensitive THEN Redacted ELSE @, !.original = @ /\ ~any]
        BY <2>1, <2>2, <3>2, Zenon
    <3>4. /\ e.id = o.id /\ e.answer = o.answer /\ (o.sensitive => e.value = Redacted)
          /\ (e.original => ~any)
        BY <3>3, Zenon DEF ObservationRecords
    <3> QED
        BY <3>2, <3>3, <3>4
  <2>4. /\ \A j \in DOMAIN seen : /\ seen[j].sensitive = (seen[j].id \in Sensitive)
                                  /\ \E i \in DOMAIN got : seen[j].answer = got[i]
        /\ \A i \in DOMAIN got : \A name \in got[i].names : SeenIn(seen, name)
      BY <1>0, Zenon DEF ObservedIn
  <2>5. ASSUME NEW j \in DOMAIN seen, ~any PROVE seen[j].answer.names \cap Sensitive = {}
    <3>1. PICK i \in DOMAIN got : seen[j].answer = got[i]
        BY <2>4, Zenon
    <3> SUFFICES ASSUME NEW name \in got[i].names, name \in Sensitive PROVE FALSE
        BY <3>1, Zenon
    <3>2. PICK k \in DOMAIN seen : seen[k].id = name
        BY <2>4, Zenon DEF SeenIn
    <3>3. seen[k].sensitive
        BY <2>4, <3>2, Zenon
    <3> QED
        BY <2>5, <3>3, Zenon DEF any
  <2> QED
      BY <1>3, <1>4, <2>3, <2>4, <2>5, Zenon DEF Hides
<1> QED
    BY <1>1, <1>5, <1>6, Zenon

LEMMA OutputPrepared ==
    ASSUME IppInv, PrepareOutput
    PROVE  IppInv'
<1>1. UNCHANGED <<reports, moment, queries, answers, snapshot, truncated>> /\ discovery = "merged"
    BY DEF PrepareOutput
<1>2. discovery' \in {"prepared", "refused"}
    BY DEF PrepareOutput
<1>3. RedactedHidesSensitive'
  <2> SUFFICES ASSUME discovery' = "prepared",
                      prepared'.may_log \/ prepared'.may_persist \/ ~prepared'.trusted
               PROVE  /\ \A entry \in prepared'.snapshot.single : entry.id \in Sensitive => entry.value = Redacted
                      /\ \A i \in DOMAIN prepared'.snapshot.observations :
                             LET seen == prepared'.snapshot.observations[i]
                             IN  /\ seen.id \in Sensitive => seen.value = Redacted
                                 /\ seen.original => seen.answer.names \cap Sensitive = {}
      BY Zenon DEF RedactedHidesSensitive, Redacted
  <2>1. PICK chosen \in {"NormalizedRedacted", "LocalRawRedacted", "LocalRawSensitive", "CloudRawAuthorized"},
             rights \in SUBSET {"raw_local", "sensitive_values", "cloud_raw"} :
             /\ Authorized(chosen, rights)
             /\ prepared' = [mode |-> chosen, trusted |-> "sensitive_values" \in rights,
                             may_log |-> chosen = "NormalizedRedacted",
                             may_persist |-> chosen \in {"NormalizedRedacted", "LocalRawRedacted"},
                             snapshot |-> CASE chosen = "NormalizedRedacted" -> WithoutValues(redact(snapshot))
                                            [] chosen = "LocalRawRedacted" -> RedactRaw(redact(snapshot))
                                            [] OTHER -> snapshot]
      BY DEF PrepareOutput
  <2>2. chosen \in {"NormalizedRedacted", "LocalRawRedacted"}
      BY <2>1, Zenon DEF Authorized
  <2>3. PICK shown : shown = prepared'.snapshot
      OBVIOUS
  <2>4. shown \in {WithoutValues(redact(snapshot)), RedactRaw(redact(snapshot))}
      BY <2>1, <2>2, <2>3, Zenon
  <2>5. PICK s, got : s = snapshot /\ got = answers
      BY Zenon
  <2>6. s \in Snapshots /\ got \in Seq(IppAnswers) /\ ObservedIn(s.observations, got)
      BY <2>5, Zenon DEF IppInv, IppTypeOK, ObservedInv
  <2>7. Hides(shown)
      BY <2>4, <2>5, <2>6, Redaction, Zenon
  <2> QED
      BY <2>3, <2>7, Zenon DEF Hides
<1>4. IppTypeOK' /\ FirstInv' /\ ObservedInv' /\ FocusInv'
    BY <1>1, Zenon DEF IppInv, IppTypeOK, FirstInv, ObservedInv, FocusInv, NoneRefused
<1>5. AskedInv'
    BY <1>1, <1>2, Zenon DEF IppInv, AskedInv
<1> QED
    BY <1>3, <1>4, <1>5, Zenon DEF IppInv

LEMMA IppInvNext == IppInv /\ [IppNext]_ipp => IppInv'
<1> SUFFICES ASSUME IppInv, [IppNext]_ipp PROVE IppInv'
    OBVIOUS
<1>1. CASE DiscoverAnswered
    BY <1>1, FirstAnswered, LaterAnswered, Zenon
<1>2. CASE DiscoverFailed
    BY <1>2, Zenon DEF IppInv, IppTypeOK, AskedInv, FirstInv, ObservedInv, FocusInv, NoneRefused,
        RedactedHidesSensitive, DiscoverFailed
<1>3. CASE PrepareOutput
    BY <1>3, OutputPrepared, Zenon
<1>4. CASE PrinterChanges
    BY <1>4, Zenon DEF IppInv, IppTypeOK, AskedInv, FirstInv, ObservedInv, FocusInv, NoneRefused,
        RedactedHidesSensitive, PrinterChanges
<1>5. CASE UNCHANGED ipp
    BY <1>5, Zenon DEF IppInv, IppTypeOK, AskedInv, FirstInv, ObservedInv, FocusInv, NoneRefused,
        RedactedHidesSensitive, ipp
<1> QED
    BY <1>1, <1>2, <1>3, <1>4, <1>5, Zenon DEF IppNext, Discover

LEMMA IppInvInit == IppInit => IppInv
<1> SUFFICES ASSUME IppInit PROVE IppInv
    OBVIOUS
<1> USE IppAssumption
<1>9. reports \in [all : SUBSET Attributes, advertised : SUBSET Advertisable, formats : Seq(Formats),
                   varying : BOOLEAN, leading : BOOLEAN]
    BY Zenon DEF IppInit
<1>10. moment = 0 /\ queries = <<Request({"all"}, NoFormat)>> /\ answers = <<>> /\ snapshot = NoSnapshot
    BY Zenon DEF IppInit
<1>11. queries \in Seq(IppRequests)
  <2>1. PICK r : r = Request({"all"}, NoFormat)
      BY Zenon
  <2>2. r \in IppRequests
      BY <2>1, Zenon DEF IppRequests, Request, AnyFormat
  <2>3. queries = <<r>>
      BY <1>10, <2>1, Zenon
  <2> QED
      BY <2>2, <2>3
<1>12. IppTypeOK
  <2>1. /\ <<>> \in Seq(IppAnswers) /\ <<>> \in Seq(CapabilityRecords) /\ <<>> \in Seq(ObservationRecords)
        /\ 0 \in Nat
      OBVIOUS
  <2>2. snapshot \in Snapshots
      BY <1>10, <2>1, Zenon DEF NoSnapshot, Snapshots
  <2> QED
      BY <1>9, <1>10, <1>11, <2>1, <2>2, Zenon DEF IppTypeOK
<1>0. DOMAIN <<>> = {}
    OBVIOUS
<1>13. AskedInv
  <2>1. \A r : DOMAIN <<r>> = {1} /\ <<r>> # <<>>
      OBVIOUS
  <2>3. discovery = "asking"
      BY Zenon DEF IppInit
  <2> QED
      BY <1>10, <2>1, <2>3, Zenon DEF AskedInv
<1>14. FirstInv /\ ObservedInv /\ FocusInv
  <2>1. /\ snapshot.single = {} /\ snapshot.supplies = {}
        /\ snapshot.capabilities = <<>> /\ snapshot.observations = <<>>
      BY <1>10, Zenon DEF NoSnapshot
  <2>2. \A name, format : AnsweringIn(<<>>, name, format) = {}
      BY <1>0, Zenon DEF AnsweringIn
  <2>3. FactsInv(snapshot.single, answers)
      BY <1>10, <2>1, <2>2, Zenon DEF FactsInv
  <2>6. SuppliesInv(snapshot.supplies, answers)
      BY <1>10, <2>1, <2>2, Zenon DEF SuppliesInv
  <2>4. CapabilitiesInv(snapshot.capabilities, answers)
      BY <1>0, <1>10, <2>1, Zenon DEF CapabilitiesInv
  <2>5. ObservedInv
      BY <1>0, <1>10, <2>1, Zenon DEF ObservedInv, ObservedIn
  <2> QED
      BY <1>10, <2>3, <2>4, <2>5, <2>6, Zenon DEF FirstInv, FocusInv
<1>15. RedactedHidesSensitive
    BY Zenon DEF RedactedHidesSensitive, IppInit
<1> QED
    BY <1>12, <1>13, <1>14, <1>15, Zenon DEF IppInv

\* Whatever the printer advertises, answers, refuses and changes meanwhile, and however many
\* formats and groups it has: every fact, supply and capability of a discovery's snapshot is the
\* one the printer gave first, each is there once (a capability more often only for a format the
\* printer listed more often), and a discovery that was not cut short, and in which the printer
\* refused none of the requests without a format, saw every attribute of the groups the printer
\* has something of.
THEOREM SnapshotsAreFaithful == IppSpec => []SnapshotIsFaithful
<1>1. IppInv => DiscoveryIsComplete
  <2> SUFFICES ASSUME IppInv, discovery \in {"merged", "prepared", "refused"}, ~truncated, NoneRefused,
                      NEW i \in DOMAIN FocusGroups,
                      FocusGroups[i] \cap (reports.advertised \cup reports.all) # {},
                      NEW name \in FocusGroups[i] \cap Attributes
               PROVE  SeenIn(snapshot.observations, name)
      BY Zenon DEF DiscoveryIsComplete, SeenIn, NoneRefused
  <2>1. queries = <<>> /\ answers # <<>>
      BY Zenon DEF IppInv, AskedInv
  <2> QED
    <3>1. \/ \A other \in FocusGroups[i] \cap Attributes : SeenIn(snapshot.observations, other)
          \/ \E k \in DOMAIN queries : queries[k].names = FocusGroups[i] /\ queries[k].format = NoFormat
        BY <2>1, Zenon DEF IppInv, FocusInv
    <3>2. DOMAIN queries = {}
        BY <2>1
    <3> QED
        BY <3>1, <3>2, Zenon
<1>2. IppInv => SnapshotIsFaithful
    BY <1>1, FirstInvMeans, Zenon DEF SnapshotIsFaithful, IppInv
<1> QED
    BY <1>2, IppInvInit, IppInvNext, PTL DEF IppSpec

\* Whatever the printer answered, what may be logged, kept or shown without the right to
\* sensitive values has none of them: not as a fact, not as a raw value and not inside the
\* bytes of a whole response, which go as soon as any observation is sensitive.
THEOREM OutputIsRedacted == IppSpec => []RedactedHidesSensitive
<1>1. IppInv => RedactedHidesSensitive
    BY DEF IppInv
<1> QED
    BY <1>1, IppInvInit, IppInvNext, PTL DEF IppSpec

=============================================================================
