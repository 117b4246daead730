------------------------- MODULE DependenciesProofs -------------------------
(***************************************************************************)
(* detect_cycles is right about every sprint: theorems about the search of  *)
(* Dependencies for every finite graph.                                     *)
(***************************************************************************)
EXTENDS MCSprintLoop, SequenceTheorems, FiniteSetTheorems, WellFoundedInduction, TLAPS

-----------------------------------------------------------------------------
(* Numbers and iteration.                                                   *)

\* Every set of numbers has a least one.
LEMMA LeastNumber ==
    ASSUME NEW T, T \subseteq Nat, T # {}
    PROVE  \E m \in T : \A k \in T : m <= k
  <1>1. PICK m \in T : \A k \in T : <<k, m>> \notin OpToRel(<, Nat)
    BY NatLessThanWellFounded, WFMin
  <1>2. ASSUME NEW k \in T  PROVE  m <= k
    <2>1. k \in Nat /\ m \in Nat
      OBVIOUS
    <2>2. ~ (k < m)
      BY <1>1, <2>1 DEF OpToRel
    <2> QED
      BY <2>1, <2>2
  <1> QED
    BY <1>2

\* What holds of zero, and of a number's successor with the number, holds of
\* every number: T is where it holds.
LEMMA Everywhere ==
    ASSUME NEW T, 0 \in T, \A n \in Nat : n \in T => n + 1 \in T
    PROVE  Nat \subseteq T
  <1> SUFFICES ASSUME Nat \ T # {}  PROVE  FALSE
    OBVIOUS
  <1>1. PICK m \in Nat \ T : \A k \in Nat \ T : m <= k
    BY LeastNumber
  <1>2. m - 1 \in Nat /\ m = (m - 1) + 1
    BY <1>1
  <1>3. m - 1 \in T
    BY <1>1, <1>2
  <1> QED
    BY <1>1, <1>2, <1>3

\* The same up to a number.
LEMMA UpTo ==
    ASSUME NEW T, NEW lo \in Nat, NEW hi \in Nat, lo \in T,
           \A n \in lo .. hi : n < hi /\ n \in T => n + 1 \in T
    PROVE  lo .. hi \subseteq T
  <1> DEFINE U == {n \in Nat : lo + n <= hi => lo + n \in T}
  <1>1. 0 \in U
    OBVIOUS
  <1>2. ASSUME NEW n \in Nat, n \in U  PROVE  n + 1 \in U
    <2> SUFFICES ASSUME lo + (n + 1) <= hi  PROVE  lo + (n + 1) \in T
      OBVIOUS
    <2>1. lo + n \in lo .. hi /\ lo + n < hi /\ lo + n \in T
      BY <1>2
    <2>2. (lo + n) + 1 \in T
      BY <2>1
    <2>3. (lo + n) + 1 = lo + (n + 1)
      OBVIOUS
    <2> QED
      BY <2>2, <2>3
  <1>3. Nat \subseteq U
    <2> HIDE DEF U
    <2> QED
      BY <1>1, <1>2, Everywhere
  <1>4. ASSUME NEW k \in lo .. hi  PROVE  k \in T
    <2>1. k - lo \in Nat /\ lo + (k - lo) = k /\ k <= hi
      OBVIOUS
    <2>2. k - lo \in U
      BY <1>3, <2>1
    <2> QED
      BY <2>1, <2>2
  <1> QED
    BY <1>4

\* g has x, and what f makes of it, of that, and so on.
Iterates(g, S, x, f) ==
    g \in [Nat -> S] /\ g[0] = x /\ \A n \in Nat : g[n + 1] = f[g[n]]

\* A function from a set to itself can be applied again and again.
LEMMA Iteration ==
    ASSUME NEW S, NEW x \in S, NEW f, f \in [S -> S]
    PROVE  \E g : Iterates(g, S, x, f)
  <1> DEFINE Upto(n) == {h \in [0 .. n -> S] :
                          h[0] = x /\ \A k \in 0 .. n : k < n => h[k + 1] = f[h[k]]}
             T       == {n \in Nat : Upto(n) # {}}
  <1>1. Nat \subseteq T
    <2>1. 0 \in T
      <3>1. [k \in 0 .. 0 |-> x] \in Upto(0)
        OBVIOUS
      <3> QED
        BY <3>1
    <2>2. ASSUME NEW n \in Nat, n \in T  PROVE  n + 1 \in T
      <3>1. PICK h : h \in Upto(n)
        BY <2>2
      <3> DEFINE more == [k \in 0 .. n + 1 |-> IF k <= n THEN h[k] ELSE f[h[n]]]
      <3>2. h \in [0 .. n -> S] /\ h[n] \in S
        BY <3>1
      <3>3. more \in [0 .. n + 1 -> S]
        BY <3>2
      <3>4. more[0] = x
        BY <3>1
      <3>5. ASSUME NEW k \in 0 .. n + 1, k < n + 1  PROVE  more[k + 1] = f[more[k]]
        <4>1. CASE k = n
          BY <4>1, <3>2
        <4>2. CASE k # n
          <5>1. k \in 0 .. n /\ k < n /\ k + 1 \in 0 .. n /\ k + 1 \in 0 .. n + 1 /\ k + 1 <= n /\ k <= n
            BY <3>5, <4>2
          <5>2. more[k + 1] = h[k + 1] /\ more[k] = h[k]
            BY <5>1
          <5> QED
            BY <3>1, <5>1, <5>2
        <4> QED
          BY <4>1, <4>2
      <3>6. more \in Upto(n + 1)
        BY <3>3, <3>4, <3>5
      <3> QED
        BY <3>6
    <2> QED
      <3> HIDE DEF T
      <3> QED
        BY <2>1, <2>2, Everywhere
  <1> DEFINE long(n) == CHOOSE h : h \in Upto(n)
             g       == [n \in Nat |-> long(n)[n]]
  <1>2. ASSUME NEW n \in Nat  PROVE  long(n) \in Upto(n)
    <2>1. \E h : h \in Upto(n)
      BY <1>1
    <2> QED
      BY <2>1
  <1>3. ASSUME NEW n \in Nat  PROVE  long(n + 1)[n] = long(n)[n]
    <2> DEFINE a == long(n)
               b == long(n + 1)
               A == {k \in 0 .. n : b[k] = a[k]}
    <2>1. a \in Upto(n) /\ b \in Upto(n + 1)
      <3> HIDE DEF Upto, long
      <3>1. n + 1 \in Nat
        OBVIOUS
      <3> QED
        BY <1>2, <3>1
    <2> HIDE DEF a, b
    <2>2. 0 \in A
      BY <2>1
    <2>3. ASSUME NEW k \in 0 .. n, k < n, k \in A  PROVE  k + 1 \in A
      <3>1. k + 1 \in 0 .. n /\ k \in 0 .. n + 1 /\ k < n + 1
        BY <2>3
      <3>2. b[k + 1] = f[b[k]] /\ a[k + 1] = f[a[k]]
        BY <2>1, <2>3, <3>1
      <3> QED
        BY <2>3, <3>1, <3>2
    <2>4. 0 .. n \subseteq A
      <3> HIDE DEF A
      <3> QED
        BY <2>2, <2>3, UpTo
    <2>5. b[n] = a[n]
      BY <2>4
    <2> QED
      BY <2>5 DEF a, b
  <1>4. g \in [Nat -> S]
    <2>1. ASSUME NEW n \in Nat  PROVE  long(n)[n] \in S
      <3>1. long(n) \in Upto(n)
        BY <1>2
      <3> HIDE DEF long
      <3> QED
        BY <3>1
    <2> QED
      BY <2>1
  <1>5. g[0] = x
    <2>1. long(0) \in Upto(0)
      BY <1>2
    <2> HIDE DEF long
    <2> QED
      BY <2>1
  <1>6. ASSUME NEW n \in Nat  PROVE  g[n + 1] = f[g[n]]
    <2>1. long(n + 1) \in Upto(n + 1) /\ long(n + 1)[n] = long(n)[n]
      <3> HIDE DEF Upto, long
      <3>1. n + 1 \in Nat
        OBVIOUS
      <3> QED
        BY <1>2, <1>3, <3>1
    <2>2. g[n + 1] = long(n + 1)[n + 1] /\ g[n] = long(n)[n]
      OBVIOUS
    <2> HIDE DEF long, g
    <2>3. long(n + 1)[n + 1] = f[long(n + 1)[n]]
      BY <2>1
    <2> QED
      BY <2>1, <2>2, <2>3
  <1> QED
    BY <1>4, <1>5, <1>6 DEF Iterates

-----------------------------------------------------------------------------
(* A cycle as it is reported.                                               *)

\* A sprint: finitely many ids, each with a list of ids.
IsGraph(graph) ==
    /\ IsFiniteSet(DOMAIN graph) /\ DOMAIN graph \subseteq Nat
    /\ graph \in [DOMAIN graph -> Seq(Nat)]

IsWalk(graph, path) ==
    \A k \in 1 .. Len(path) - 1 : Leads(graph, path[k], path[k + 1])

\* The least number of a set is in it.
LEMMA MinOf ==
    ASSUME NEW T, T \subseteq Nat, T # {}
    PROVE  Min(T) \in T /\ \A k \in T : Min(T) <= k
  <1>1. \E m \in T : \A k \in T : m <= k
    BY LeastNumber
  <1> QED
    BY <1>1 DEF Min

\* Where a sequence has an element once, the index of the element is found.
LEMMA IndexOf ==
    ASSUME NEW S, NEW s \in Seq(S), NEW i \in 1 .. Len(s)
    PROVE  /\ Index(s, s[i]) \in 1 .. Len(s) /\ s[Index(s, s[i])] = s[i]
           /\ IsInjective(s) => Index(s, s[i]) = i
  <1>1. DOMAIN s = 1 .. Len(s)
    BY LenProperties
  <1>2. Index(s, s[i]) \in DOMAIN s /\ s[Index(s, s[i])] = s[i]
    BY <1>1 DEF Index
  <1> QED
    BY <1>1, <1>2 DEF IsInjective

\* A closed walk that passes nothing twice, begun anew at its place l.
Turned(cycle, l) ==
    SubSeq(cycle, l, Len(cycle)) \o SubSeq(cycle, 1, l - 1) \o <<cycle[l]>>

LEMMA TurnedIs ==
    ASSUME NEW S, NEW cycle \in Seq(S), NEW l \in 1 .. Len(cycle)
    PROVE  LET M == Len(cycle)
               r == Turned(cycle, l)
           IN  /\ r \in Seq(S) /\ Len(r) = M + 1
               /\ \A k \in 1 .. M + 1 :
                    r[k] = cycle[IF k <= M - l + 1 THEN l + k - 1
                                 ELSE IF k <= M THEN k - (M - l + 1) ELSE l]
  <1> DEFINE M  == Len(cycle)
             a  == SubSeq(cycle, l, M)
             b  == SubSeq(cycle, 1, l - 1)
             c  == <<cycle[l]>>
             ab == a \o b
             r  == ab \o c
  <1>1. M \in Nat /\ l \in Nat /\ 1 <= l /\ l <= M /\ \A k \in 1 .. M : cycle[k] \in S
    BY ElementOfSeq, LenProperties
  <1> HIDE DEF M
  <1>2. a \in Seq(S) /\ Len(a) = M - l + 1 /\ \A k \in 1 .. M - l + 1 : a[k] = cycle[l + k - 1]
    BY <1>1, SubSeqProperties
  <1>3. b \in Seq(S) /\ Len(b) = l - 1 /\ \A k \in 1 .. l - 1 : b[k] = cycle[k]
    <2>1. /\ b \in Seq(S) /\ Len(b) = IF 1 <= l - 1 THEN l - 1 - 1 + 1 ELSE 0
          /\ \A k \in 1 .. l - 1 - 1 + 1 : b[k] = cycle[1 + k - 1]
      <3>1. \A k \in 1 .. l - 1 : cycle[k] \in S
        BY <1>1
      <3> QED
        BY <1>1, <3>1, SubSeqProperties
    <2>2. l - 1 - 1 + 1 = l - 1 /\ \A k \in 1 .. l - 1 : 1 + k - 1 = k
      BY <1>1
    <2> HIDE DEF b
    <2> QED
      BY <1>1, <2>1, <2>2
  <1>4. c \in Seq(S) /\ Len(c) = 1 /\ c[1] = cycle[l]
    BY <1>1
  <1> HIDE DEF a, b, c
  <1>5. /\ ab \in Seq(S) /\ Len(ab) = M
        /\ \A k \in 1 .. M : ab[k] = IF k <= M - l + 1 THEN a[k] ELSE b[k - (M - l + 1)]
    <2>1. /\ ab \in Seq(S) /\ Len(ab) = Len(a) + Len(b)
          /\ \A k \in 1 .. Len(a) + Len(b) :
                ab[k] = IF k <= Len(a) THEN a[k] ELSE b[k - Len(a)]
      BY <1>2, <1>3, ConcatProperties
    <2>2. Len(a) + Len(b) = M
      BY <1>1, <1>2, <1>3
    <2> QED
      BY <1>2, <2>1, <2>2
  <1> HIDE DEF ab
  <1>6. /\ r \in Seq(S) /\ Len(r) = M + 1
        /\ \A k \in 1 .. M + 1 : r[k] = IF k <= M THEN ab[k] ELSE c[k - M]
    <2>1. /\ r \in Seq(S) /\ Len(r) = Len(ab) + Len(c)
          /\ \A k \in 1 .. Len(ab) + Len(c) :
                r[k] = IF k <= Len(ab) THEN ab[k] ELSE c[k - Len(ab)]
      BY <1>4, <1>5, ConcatProperties
    <2> QED
      BY <1>4, <1>5, <2>1
  <1>7. r = Turned(cycle, l)
    BY DEF Turned, M, a, b, c, ab
  <1> HIDE DEF r
  <1>8. ASSUME NEW k \in 1 .. M + 1
        PROVE  r[k] = cycle[IF k <= M - l + 1 THEN l + k - 1
                            ELSE IF k <= M THEN k - (M - l + 1) ELSE l]
    <2>1. CASE k <= M - l + 1
      <3>1. r[k] = ab[k] /\ ab[k] = a[k] /\ a[k] = cycle[l + k - 1]
        <4>1. k \in 1 .. M /\ k \in 1 .. M - l + 1
          BY <1>1, <2>1
        <4> QED
          BY <1>2, <1>5, <1>6, <2>1, <4>1
      <3> QED
        BY <2>1, <3>1
    <2>2. CASE ~ (k <= M - l + 1) /\ k <= M
      <3>1. k \in 1 .. M /\ k - (M - l + 1) \in 1 .. l - 1
        BY <1>1, <2>2
      <3>2. r[k] = ab[k] /\ ab[k] = b[k - (M - l + 1)] /\ b[k - (M - l + 1)] = cycle[k - (M - l + 1)]
        BY <1>3, <1>5, <1>6, <2>2, <3>1
      <3> QED
        BY <2>2, <3>2
    <2>3. CASE ~ (k <= M)
      <3>1. k = M + 1 /\ k - M = 1 /\ ~ (k <= M - l + 1)
        BY <1>1, <2>3
      <3>2. r[k] = cycle[l]
        BY <1>4, <1>6, <2>3, <3>1
      <3> QED
        BY <2>3, <3>1, <3>2
    <2> QED
      BY <2>1, <2>2, <2>3
  <1> QED
    BY <1>6, <1>7, <1>8 DEF M

LEMMA TurnedIsReported ==
    ASSUME NEW graph, IsGraph(graph),
           NEW cycle \in Seq(DOMAIN graph), NEW l \in 1 .. Len(cycle),
           IsInjective(cycle), IsWalk(graph, cycle),
           Leads(graph, cycle[Len(cycle)], cycle[1]),
           cycle[l] = Min(Range(cycle))
    PROVE  /\ IsReportedCycle(graph, Turned(cycle, l))
           /\ Turned(cycle, l) \in Seq(DOMAIN graph)
           /\ Range(Turned(cycle, l)) = Range(cycle)
  <1> DEFINE M     == Len(cycle)
             r     == Turned(cycle, l)
             at(k) == IF k <= M - l + 1 THEN l + k - 1
                      ELSE IF k <= M THEN k - (M - l + 1) ELSE l
  <1>1. /\ M \in Nat /\ 1 <= l /\ l <= M /\ l \in Nat
        /\ DOMAIN cycle = 1 .. M /\ \A k \in 1 .. M : cycle[k] \in DOMAIN graph
    BY ElementOfSeq, LenProperties
  <1>2. /\ r \in Seq(DOMAIN graph) /\ Len(r) = M + 1
        /\ \A k \in 1 .. M + 1 : r[k] = cycle[at(k)]
    BY TurnedIs
  <1> HIDE DEF r, M
  <1>3. \A k \in 1 .. M + 1 : at(k) \in 1 .. M
    BY <1>1
  <1>4. DOMAIN r = 1 .. M + 1
    BY <1>2, LenProperties
  <1>5. Range(r) = Range(cycle)
    <2>1. Range(r) \subseteq Range(cycle)
      <3> HIDE DEF at
      <3> QED
        BY <1>1, <1>2, <1>3, <1>4 DEF Range
    <2>2. ASSUME NEW x \in Range(cycle)  PROVE  x \in Range(r)
      <3>1. PICK j \in 1 .. M : x = cycle[j]
        BY <1>1 DEF Range
      <3>2. PICK k \in 1 .. M + 1 : at(k) = j
        <4>1. CASE l <= j
          <5>1. j - l + 1 \in 1 .. M + 1 /\ at(j - l + 1) = j
            BY <1>1, <4>1
          <5> QED
            BY <5>1
        <4>2. CASE j < l
          <5>1. j + (M - l + 1) \in 1 .. M + 1 /\ at(j + (M - l + 1)) = j
            BY <1>1, <4>2
          <5> QED
            BY <5>1
        <4> QED
          BY <1>1, <4>1, <4>2
      <3> HIDE DEF at
      <3> QED
        BY <1>2, <1>4, <3>1, <3>2 DEF Range
    <2> QED
      BY <2>1, <2>2
  <1>6. r[1] = cycle[l] /\ r[M + 1] = cycle[l]
    <2>1. at(1) = l /\ at(M + 1) = l /\ 1 \in 1 .. M + 1 /\ M + 1 \in 1 .. M + 1
      BY <1>1
    <2> HIDE DEF at
    <2> QED
      BY <1>2, <2>1
  <1>7. IsInjective(Front(r))
    <2>1. /\ Front(r) \in Seq(DOMAIN graph) /\ Len(Front(r)) = M
          /\ \A k \in 1 .. M : Front(r)[k] = r[k]
      <3>1. \A k \in 1 .. M : r[k] \in DOMAIN graph
        BY <1>1, <1>2, ElementOfSeq
      <3>2. Front(r) = SubSeq(r, 1, M) /\ 1 \in Int /\ M \in Int
        BY <1>1, <1>2 DEF Front
      <3>3. /\ SubSeq(r, 1, M) \in Seq(DOMAIN graph)
            /\ Len(SubSeq(r, 1, M)) = IF 1 <= M THEN M - 1 + 1 ELSE 0
            /\ \A k \in 1 .. M - 1 + 1 : SubSeq(r, 1, M)[k] = r[1 + k - 1]
        BY <3>1, <3>2, SubSeqProperties
      <3>4. M - 1 + 1 = M /\ \A k \in 1 .. M : 1 + k - 1 = k
        BY <1>1
      <3> QED
        BY <1>1, <3>2, <3>3, <3>4
    <2>2. DOMAIN Front(r) = 1 .. M
      BY <2>1, LenProperties
    <2>3. ASSUME NEW j \in 1 .. M, NEW k \in 1 .. M, Front(r)[j] = Front(r)[k]
          PROVE  j = k
      <3>1. cycle[at(j)] = cycle[at(k)] /\ at(j) \in 1 .. M /\ at(k) \in 1 .. M
        <4> HIDE DEF at
        <4> QED
          BY <1>1, <1>2, <1>3, <2>1, <2>3
      <3>2. at(j) = at(k)
        <4> HIDE DEF at
        <4> QED
          BY <1>1, <3>1 DEF IsInjective
      <3> QED
        BY <1>1, <3>2
    <2> QED
      BY <2>2, <2>3 DEF IsInjective
  <1>8. ASSUME NEW k \in 1 .. M  PROVE  Leads(graph, r[k], r[k + 1])
    <2>1. k \in 1 .. M + 1 /\ k + 1 \in 1 .. M + 1
      BY <1>1
    <2>2. r[k] = cycle[at(k)] /\ r[k + 1] = cycle[at(k + 1)]
      BY <1>2, <2>1
    <2>3. \/ at(k) \in 1 .. M - 1 /\ at(k + 1) = at(k) + 1
          \/ at(k) = M /\ at(k + 1) = 1
      BY <1>1
    <2> HIDE DEF at
    <2> QED
      BY <2>2, <2>3 DEF IsWalk, M
  <1>9. Range(r) \subseteq DOMAIN graph
    BY <1>1, <1>5 DEF Range
  <1>10. Len(r) > 1 /\ Len(r) - 1 = M
    BY <1>1, <1>2
  <1>11. IsReportedCycle(graph, r)
    BY <1>2, <1>5, <1>6, <1>7, <1>8, <1>9, <1>10 DEF IsReportedCycle
  <1> QED
    BY <1>2, <1>5, <1>11 DEF r

\* What the search adds when a dependency of the last node of its path is on the
\* path: the part of the path from there on is a cycle.
LEMMA NormalizedIsReported ==
    ASSUME NEW graph, IsGraph(graph),
           NEW path \in Seq(DOMAIN graph), NEW i \in 1 .. Len(path),
           IsInjective(path), IsWalk(graph, path),
           Leads(graph, path[Len(path)], path[i])
    PROVE  /\ IsReportedCycle(graph, Normalized(path, path[i]))
           /\ Normalized(path, path[i]) \in Seq(DOMAIN graph)
           /\ path[i] \in Range(Normalized(path, path[i]))
  <1> DEFINE L     == Len(path)
             cycle == SubSeq(path, i, L)
             least == Index(cycle, Min(Range(cycle)))
  <1>1. /\ L \in Nat /\ 1 <= i /\ i <= L /\ i \in Nat /\ DOMAIN path = 1 .. L
        /\ \A k \in 1 .. L : path[k] \in DOMAIN graph
    BY ElementOfSeq, LenProperties
  <1>2. /\ cycle \in Seq(DOMAIN graph) /\ Len(cycle) = L - i + 1
        /\ \A k \in 1 .. L - i + 1 : cycle[k] = path[i + k - 1]
    BY <1>1, SubSeqProperties
  <1>3. Normalized(path, path[i]) = Turned(cycle, least)
    BY IndexOf DEF Normalized, Turned
  <1> HIDE DEF cycle, L
  <1>4. DOMAIN cycle = 1 .. L - i + 1
    BY <1>2, LenProperties
  <1>5. IsInjective(cycle)
    <2> SUFFICES ASSUME NEW j \in 1 .. L - i + 1, NEW k \in 1 .. L - i + 1,
                        cycle[j] = cycle[k]
                 PROVE  j = k
      BY <1>4 DEF IsInjective
    <2>1. i + j - 1 \in DOMAIN path /\ i + k - 1 \in DOMAIN path
      BY <1>1
    <2>2. path[i + j - 1] = path[i + k - 1]
      BY <1>2
    <2>3. i + j - 1 = i + k - 1
      BY <2>1, <2>2 DEF IsInjective
    <2> QED
      BY <1>1, <2>3
  <1>6. IsWalk(graph, cycle)
    <2> SUFFICES ASSUME NEW k \in 1 .. L - i  PROVE  Leads(graph, cycle[k], cycle[k + 1])
      BY <1>1, <1>2 DEF IsWalk
    <2>1. /\ i + k - 1 \in 1 .. L - 1 /\ (i + k - 1) + 1 = i + (k + 1) - 1
          /\ k \in 1 .. L - i + 1 /\ k + 1 \in 1 .. L - i + 1
      BY <1>1
    <2>2. Leads(graph, path[i + k - 1], path[i + (k + 1) - 1])
      BY <2>1 DEF IsWalk, L
    <2> QED
      BY <1>2, <2>1, <2>2
  <1>7. cycle[1] = path[i] /\ cycle[Len(cycle)] = path[L]
    <2>1. 1 \in 1 .. L - i + 1 /\ i + 1 - 1 = i /\ i + (L - i + 1) - 1 = L /\ L - i + 1 \in 1 .. L - i + 1
      BY <1>1
    <2> QED
      BY <1>2, <2>1
  <1>8. PICK m \in 1 .. Len(cycle) : cycle[m] = Min(Range(cycle))
    <2>1. Range(cycle) \subseteq Nat
      BY <1>2, <1>4, ElementOfSeq DEF Range, IsGraph
    <2>2. cycle[1] \in Range(cycle)
      BY <1>1, <1>4 DEF Range
    <2>3. Min(Range(cycle)) \in Range(cycle)
      BY <2>1, <2>2, MinOf
    <2> QED
      BY <1>2, <1>4, <2>3 DEF Range
  <1>9. least \in 1 .. Len(cycle) /\ cycle[least] = Min(Range(cycle))
    BY <1>2, <1>8, IndexOf
  <1> HIDE DEF least
  <1>10. Leads(graph, cycle[Len(cycle)], cycle[1])
    BY <1>7 DEF L
  <1>11. path[i] \in Range(cycle)
    BY <1>1, <1>4, <1>7 DEF Range
  <1> QED
    BY <1>2, <1>3, <1>5, <1>6, <1>9, <1>10, <1>11, TurnedIsReported

-----------------------------------------------------------------------------
(* What a search keeps to.                                                  *)

States(graph) ==
    [path : Seq(DOMAIN graph), visited : SUBSET DOMAIN graph,
     looked : [DOMAIN graph -> Nat], cycles : SUBSET Seq(DOMAIN graph)]

\* The calls that have not returned form a walk from the root, without repetition.
OnPath(graph, root, s) ==
    /\ IsInjective(s.path) /\ IsWalk(graph, s.path)
    /\ \A k \in 1 .. Len(s.path) : s.path[k] \in s.visited
    /\ root \in s.visited /\ (s.path # <<>> => s.path[1] = root)

\* A call that has returned has looked at everything, and that it returned counts
\* as a look.
Counted(graph, s) ==
    \A n \in DOMAIN graph :
        /\ n \in Range(s.path) => s.looked[n] <= Len(graph[n])
        /\ n \in s.visited \ Range(s.path) => s.looked[n] = Len(graph[n]) + 1
        /\ n \notin s.visited => s.looked[n] = 0

\* Each dependency looked at has been visited; if it is the root, the root is on
\* a cycle that is reported.
Followed(graph, root, s) ==
    \A n \in DOMAIN graph : \A k \in 1 .. Len(graph[n]) :
        k <= s.looked[n] /\ graph[n][k] \in DOMAIN graph =>
            /\ graph[n][k] \in s.visited
            /\ graph[n][k] = root => \E cycle \in s.cycles : root \in Range(cycle)

Reported(graph, s) == \A cycle \in s.cycles : IsReportedCycle(graph, cycle)

SearchInv(graph, root, s) ==
    /\ s \in States(graph)
    /\ OnPath(graph, root, s)
    /\ Counted(graph, s)
    /\ Followed(graph, root, s)
    /\ Reported(graph, s)

LEMMA BeginInv ==
    ASSUME NEW graph, IsGraph(graph), NEW root \in DOMAIN graph
    PROVE  SearchInv(graph, root, Begin(graph, root))
  <1> DEFINE s == Begin(graph, root)
  <1>1. /\ s.path = <<root>> /\ s.visited = {root} /\ s.cycles = {}
        /\ s.looked = [n \in DOMAIN graph |-> 0]
    BY DEF Begin
  <1>2. s \in States(graph)
    BY DEF Begin, States
  <1>3. Len(s.path) = 1 /\ s.path[1] = root /\ DOMAIN s.path = {1} /\ Range(s.path) = {root}
    BY <1>1 DEF Range
  <1>4. \A n \in DOMAIN graph : Len(graph[n]) \in Nat
    BY LenProperties DEF IsGraph
  <1> HIDE DEF s
  <1>5. OnPath(graph, root, s)
    BY <1>1, <1>3 DEF OnPath, IsInjective, IsWalk
  <1>6. Counted(graph, s)
    BY <1>1, <1>3, <1>4 DEF Counted
  <1>7. Followed(graph, root, s)
    BY <1>1, <1>4 DEF Followed
  <1>8. Reported(graph, s)
    BY <1>1 DEF Reported
  <1> QED
    BY <1>2, <1>5, <1>6, <1>7, <1>8 DEF SearchInv, s

\* The node whose call is under way, and what the turn makes of its count.
LEMMA LastNode ==
    ASSUME NEW graph, IsGraph(graph), NEW root \in DOMAIN graph, NEW s,
           SearchInv(graph, root, s), s.path # <<>>
    PROVE  LET node == Last(s.path)
           IN  /\ Len(s.path) \in Nat /\ Len(s.path) >= 1 /\ node = s.path[Len(s.path)]
               /\ DOMAIN s.path = 1 .. Len(s.path)
               /\ node \in DOMAIN graph /\ node \in Range(s.path) /\ node \in s.visited
               /\ s.looked[node] \in Nat /\ s.looked[node] <= Len(graph[node])
               /\ Len(graph[node]) \in Nat
               /\ \A k \in 1 .. Len(graph[node]) : graph[node][k] \in Nat
  <1>1. s.path \in Seq(DOMAIN graph) /\ s.looked \in [DOMAIN graph -> Nat]
    BY DEF SearchInv, States
  <1>2. Len(s.path) \in Nat /\ Len(s.path) >= 1 /\ DOMAIN s.path = 1 .. Len(s.path)
    BY <1>1, EmptySeq, LenProperties
  <1>3. /\ Last(s.path) = s.path[Len(s.path)] /\ Len(s.path) \in 1 .. Len(s.path)
        /\ Last(s.path) \in DOMAIN graph /\ Last(s.path) \in Range(s.path)
    BY <1>1, <1>2, ElementOfSeq DEF Last, Range
  <1>4. Last(s.path) \in s.visited
    BY <1>3 DEF SearchInv, OnPath
  <1>5. graph[Last(s.path)] \in Seq(Nat)
    BY <1>3 DEF IsGraph
  <1>6. s.looked[Last(s.path)] <= Len(graph[Last(s.path)])
    BY <1>3 DEF SearchInv, Counted
  <1> QED
    BY <1>1, <1>2, <1>3, <1>4, <1>5, <1>6, LenProperties, ElementOfSeq

\* One more dependency of the node has been looked at.
Looked(graph, s, node, u) ==
    \A n \in DOMAIN graph : u.looked[n] = IF n = node THEN s.looked[n] + 1 ELSE s.looked[n]

LEMMA Looking ==
    ASSUME NEW graph, NEW s \in States(graph), NEW node \in DOMAIN graph,
           NEW path \in Seq(DOMAIN graph), NEW visited \in SUBSET DOMAIN graph,
           NEW cycles \in SUBSET Seq(DOMAIN graph), NEW u,
           u = [path |-> path, visited |-> visited,
                looked |-> [s.looked EXCEPT ![node] = s.looked[node] + 1], cycles |-> cycles]
    PROVE  u \in States(graph) /\ Looked(graph, s, node, u)
  <1>1. s.looked \in [DOMAIN graph -> Nat]
    BY DEF States
  <1> DEFINE looked == [s.looked EXCEPT ![node] = s.looked[node] + 1]
  <1>2. /\ looked \in [DOMAIN graph -> Nat]
        /\ \A n \in DOMAIN graph : looked[n] = IF n = node THEN s.looked[n] + 1 ELSE s.looked[n]
    BY <1>1
  <1> HIDE DEF looked
  <1> QED
    BY <1>2 DEF States, Looked, looked

LEMMA FrontIs ==
    ASSUME NEW S, NEW path \in Seq(S), path # <<>>
    PROVE  /\ Front(path) \in Seq(S) /\ Len(Front(path)) = Len(path) - 1
           /\ \A k \in 1 .. Len(path) - 1 : Front(path)[k] = path[k]
  <1> DEFINE L == Len(path)
  <1>1. L \in Nat /\ L >= 1
    BY EmptySeq
  <1>2. \A k \in 1 .. L - 1 : path[k] \in S
    BY <1>1, ElementOfSeq
  <1>3. /\ SubSeq(path, 1, L - 1) \in Seq(S)
        /\ Len(SubSeq(path, 1, L - 1)) = IF 1 <= L - 1 THEN L - 1 - 1 + 1 ELSE 0
        /\ \A k \in 1 .. L - 1 - 1 + 1 : SubSeq(path, 1, L - 1)[k] = path[1 + k - 1]
    BY <1>1, <1>2, SubSeqProperties
  <1>4. L - 1 - 1 + 1 = L - 1 /\ \A k \in 1 .. L - 1 : 1 + k - 1 = k
    BY <1>1
  <1> QED
    BY <1>1, <1>3, <1>4 DEF Front

\* A call returns.
LEMMA ReturnInv ==
    ASSUME NEW graph, IsGraph(graph), NEW root \in DOMAIN graph, NEW s,
           SearchInv(graph, root, s), s.path # <<>>,
           NEW node, node = Last(s.path),
           s.looked[node] + 1 > Len(graph[node]),
           NEW u \in States(graph), Looked(graph, s, node, u),
           u.visited = s.visited, u.cycles = s.cycles, Len(u.path) = Len(s.path) - 1,
           \A k \in 1 .. Len(s.path) - 1 : u.path[k] = s.path[k]
    PROVE  SearchInv(graph, root, u)
  <1> DEFINE L == Len(s.path)
  <1>1. /\ s \in States(graph) /\ s.path \in Seq(DOMAIN graph)
        /\ s.looked \in [DOMAIN graph -> Nat]
    BY DEF SearchInv, States
  <1>2. /\ L \in Nat /\ L >= 1 /\ node = s.path[L] /\ DOMAIN s.path = 1 .. L
        /\ node \in DOMAIN graph /\ node \in s.visited
        /\ s.looked[node] \in Nat /\ s.looked[node] = Len(graph[node])
        /\ Len(graph[node]) \in Nat
    BY LastNode
  <1>3. /\ u.visited = s.visited /\ u.cycles = s.cycles
        /\ \A n \in DOMAIN graph : u.looked[n] = IF n = node THEN s.looked[n] + 1 ELSE s.looked[n]
    BY DEF Looked
  <1>4. /\ u.path \in Seq(DOMAIN graph) /\ Len(u.path) = L - 1
        /\ \A k \in 1 .. L - 1 : u.path[k] = s.path[k]
    BY DEF States
  <1>5. DOMAIN u.path = 1 .. L - 1
    BY <1>4, LenProperties
  <1>6. Range(u.path) = Range(s.path) \ {node}
    <2>1. ASSUME NEW k \in 1 .. L - 1  PROVE  s.path[k] # node
      <3>1. k \in 1 .. L /\ L \in 1 .. L /\ k # L
        BY <1>2
      <3> QED
        BY <1>2, <3>1 DEF SearchInv, OnPath, IsInjective
    <2>2. \A k \in 1 .. L : k \in 1 .. L - 1 \/ k = L
      BY <1>2
    <2>3. 1 .. L - 1 \subseteq 1 .. L
      BY <1>2
    <2>4. Range(u.path) = {s.path[k] : k \in 1 .. L - 1}
      BY <1>4, <1>5 DEF Range
    <2>5. Range(s.path) = {s.path[k] : k \in 1 .. L}
      BY <1>2 DEF Range
    <2> QED
      BY <1>2, <2>1, <2>2, <2>3, <2>4, <2>5
  <1>8. OnPath(graph, root, u)
    <2>1. OnPath(graph, root, s)
      BY DEF SearchInv
    <2>2. IsInjective(u.path)
      <3>1. \A j, k \in 1 .. L : s.path[j] = s.path[k] => j = k
        BY <1>2, <2>1 DEF OnPath, IsInjective
      <3>2. 1 .. L - 1 \subseteq 1 .. L
        BY <1>2
      <3>3. \A j, k \in 1 .. L - 1 : u.path[j] = u.path[k] => j = k
        BY <1>4, <3>1, <3>2
      <3> QED
        BY <1>5, <3>3 DEF IsInjective
    <2>3. IsWalk(graph, u.path)
      <3>1. \A k \in 1 .. L - 1 : Leads(graph, s.path[k], s.path[k + 1])
        BY <2>1 DEF OnPath, IsWalk
      <3> SUFFICES ASSUME NEW k \in 1 .. L - 1 - 1
                   PROVE  Leads(graph, u.path[k], u.path[k + 1])
        BY <1>4 DEF IsWalk
      <3>2. k \in 1 .. L - 1 /\ k + 1 \in 1 .. L - 1
        BY <1>2
      <3> QED
        BY <1>4, <3>1, <3>2
    <2>4. \A k \in 1 .. Len(u.path) : u.path[k] \in u.visited
      BY <1>2, <1>3, <1>4, <2>1 DEF OnPath
    <2>5. u.path # <<>> => u.path[1] = root
      <3> SUFFICES ASSUME u.path # <<>>  PROVE  u.path[1] = root
        OBVIOUS
      <3>1. 1 \in 1 .. L - 1
        BY <1>2, <1>4, EmptySeq
      <3> QED
        BY <1>4, <2>1, <3>1 DEF OnPath
    <2> QED
      BY <1>3, <2>1, <2>2, <2>3, <2>4, <2>5 DEF OnPath
  <1>9. Counted(graph, u)
    <2> SUFFICES ASSUME NEW n \in DOMAIN graph
                 PROVE  /\ n \in Range(u.path) => u.looked[n] <= Len(graph[n])
                        /\ n \in u.visited \ Range(u.path) => u.looked[n] = Len(graph[n]) + 1
                        /\ n \notin u.visited => u.looked[n] = 0
      BY DEF Counted
    <2>1. CASE n = node
      <3>1. u.looked[n] = Len(graph[n]) + 1
        BY <1>1, <1>2, <1>3, <2>1
      <3> QED
        BY <1>2, <1>3, <1>6, <2>1, <3>1
    <2>2. CASE n # node
      <3>1. u.looked[n] = s.looked[n]
        BY <1>1, <1>3, <2>2
      <3> QED
        BY <1>3, <1>6, <2>2, <3>1 DEF SearchInv, Counted
    <2> QED
      BY <2>1, <2>2
  <1>10. Followed(graph, root, u)
    <2> SUFFICES ASSUME NEW n \in DOMAIN graph, NEW k \in 1 .. Len(graph[n]),
                        k <= u.looked[n]
                 PROVE  k <= s.looked[n]
      BY <1>3 DEF SearchInv, Followed
    <2>1. CASE n = node
      BY <1>2, <2>1
    <2>2. CASE n # node
      BY <1>3, <2>2
    <2> QED
      BY <2>1, <2>2
  <1>11. Reported(graph, u)
    BY <1>3 DEF SearchInv, Reported
  <1> QED
    BY <1>8, <1>9, <1>10, <1>11 DEF SearchInv

\* A dependency is looked at and no call made for it: it is no issue of the sprint,
\* it closes a cycle, or it has been visited before.
LEMMA LookInv ==
    ASSUME NEW graph, IsGraph(graph), NEW root \in DOMAIN graph, NEW s,
           SearchInv(graph, root, s), s.path # <<>>,
           NEW node, node = Last(s.path), NEW k, k = s.looked[node] + 1,
           k <= Len(graph[node]),
           NEW found \in SUBSET Seq(DOMAIN graph),
           \A cycle \in found : IsReportedCycle(graph, cycle),
           NEW u \in States(graph), Looked(graph, s, node, u),
           u.path = s.path, u.visited = s.visited, u.cycles = s.cycles \cup found,
           graph[node][k] \in DOMAIN graph =>
              /\ graph[node][k] \in s.visited
              /\ graph[node][k] = root => \E cycle \in u.cycles : root \in Range(cycle)
    PROVE  SearchInv(graph, root, u)
  <1>1. /\ s \in States(graph) /\ s.path \in Seq(DOMAIN graph)
        /\ s.looked \in [DOMAIN graph -> Nat]
    BY DEF SearchInv, States
  <1>2. /\ node \in DOMAIN graph /\ node \in s.visited /\ node \in Range(s.path)
        /\ s.looked[node] \in Nat /\ k \in Nat /\ k \in 1 .. Len(graph[node])
        /\ Len(graph[node]) \in Nat
    BY LastNode
  <1>3. /\ u.path = s.path /\ u.visited = s.visited /\ u.cycles = s.cycles \cup found
        /\ \A n \in DOMAIN graph : u.looked[n] = IF n = node THEN s.looked[n] + 1 ELSE s.looked[n]
    BY DEF Looked
  <1>5. OnPath(graph, root, u)
    BY <1>3 DEF SearchInv, OnPath
  <1>6. Counted(graph, u)
    <2> SUFFICES ASSUME NEW n \in DOMAIN graph
                 PROVE  /\ n \in Range(u.path) => u.looked[n] <= Len(graph[n])
                        /\ n \in u.visited \ Range(u.path) => u.looked[n] = Len(graph[n]) + 1
                        /\ n \notin u.visited => u.looked[n] = 0
      BY DEF Counted
    <2>1. CASE n = node
      <3>1. u.looked[n] = k
        BY <1>1, <1>2, <1>3, <2>1
      <3> QED
        BY <1>2, <1>3, <2>1, <3>1
    <2>2. CASE n # node
      <3>1. u.looked[n] = s.looked[n]
        BY <1>1, <1>3, <2>2
      <3> QED
        BY <1>3, <2>2, <3>1 DEF SearchInv, Counted
    <2> QED
      BY <2>1, <2>2
  <1>7. Followed(graph, root, u)
    <2> SUFFICES ASSUME NEW n \in DOMAIN graph, NEW j \in 1 .. Len(graph[n]),
                        j <= u.looked[n], graph[n][j] \in DOMAIN graph
                 PROVE  /\ graph[n][j] \in u.visited
                        /\ graph[n][j] = root => \E cycle \in u.cycles : root \in Range(cycle)
      BY DEF Followed
    <2>1. CASE n = node /\ j = k
      BY <1>3, <2>1
    <2>2. CASE ~ (n = node /\ j = k)
      <3>1. j <= s.looked[n]
        BY <1>1, <1>2, <1>3, <2>2
      <3>2. /\ graph[n][j] \in s.visited
            /\ graph[n][j] = root => \E cycle \in s.cycles : root \in Range(cycle)
        BY <3>1 DEF SearchInv, Followed
      <3> QED
        BY <1>3, <3>2
    <2> QED
      BY <2>1, <2>2
  <1>8. Reported(graph, u)
    BY <1>3 DEF SearchInv, Reported
  <1> QED
    BY <1>5, <1>6, <1>7, <1>8 DEF SearchInv

\* The places of a path, and of one that is longer by one.
LEMMA NextPlace ==
    ASSUME NEW L \in Nat, L >= 1
    PROVE  /\ L + 1 # 0 /\ (L + 1) - 1 = L /\ 1 \in 1 .. L /\ L + 1 \in 1 .. L + 1
           /\ 1 .. L \subseteq 1 .. L + 1
           /\ \A j \in 1 .. L + 1 : j \in 1 .. L \/ j = L + 1
           /\ \A j \in 1 .. L : j # L => j \in 1 .. L - 1 /\ j + 1 \in 1 .. L
  OBVIOUS

\* A dependency is looked at for the first time.
LEMMA CallInv ==
    ASSUME NEW graph, IsGraph(graph), NEW root \in DOMAIN graph, NEW s,
           SearchInv(graph, root, s), s.path # <<>>,
           NEW node, node = Last(s.path), NEW k, k = s.looked[node] + 1,
           k <= Len(graph[node]),
           NEW dep \in DOMAIN graph, dep = graph[node][k], dep \notin s.visited,
           NEW u \in States(graph), Looked(graph, s, node, u),
           u.visited = s.visited \cup {dep}, u.cycles = s.cycles,
           Len(u.path) = Len(s.path) + 1, u.path[Len(s.path) + 1] = dep,
           \A j \in 1 .. Len(s.path) : u.path[j] = s.path[j]
    PROVE  SearchInv(graph, root, u)
  <1> DEFINE L == Len(s.path)
  <1>1. /\ s \in States(graph) /\ s.path \in Seq(DOMAIN graph)
        /\ s.looked \in [DOMAIN graph -> Nat] /\ OnPath(graph, root, s)
    BY DEF SearchInv, States
  <1>2. /\ L \in Nat /\ L >= 1 /\ node = s.path[L] /\ DOMAIN s.path = 1 .. L
        /\ node \in DOMAIN graph /\ node \in s.visited /\ node \in Range(s.path)
        /\ s.looked[node] \in Nat /\ k \in Nat /\ k \in 1 .. Len(graph[node])
        /\ Len(graph[node]) \in Nat
    BY LastNode
  <1>2a. /\ L + 1 # 0 /\ (L + 1) - 1 = L /\ 1 \in 1 .. L /\ L + 1 \in 1 .. L + 1
         /\ 1 .. L \subseteq 1 .. L + 1
         /\ \A j \in 1 .. L + 1 : j \in 1 .. L \/ j = L + 1
         /\ \A j \in 1 .. L : j # L => j \in 1 .. L - 1 /\ j + 1 \in 1 .. L
    <2> HIDE DEF L
    <2> QED
      BY <1>2, NextPlace, Zenon
  <1>3. /\ u.visited = s.visited \cup {dep} /\ u.cycles = s.cycles
        /\ \A n \in DOMAIN graph : u.looked[n] = IF n = node THEN s.looked[n] + 1 ELSE s.looked[n]
    BY DEF Looked
  <1>4. /\ u.path \in Seq(DOMAIN graph) /\ Len(u.path) = L + 1 /\ u.path # <<>>
        /\ \A j \in 1 .. L : u.path[j] = s.path[j]
        /\ u.path[L + 1] = dep
    <2>1. u.path \in Seq(DOMAIN graph) /\ L + 1 # 0
      BY <1>2a DEF States
    <2> QED
      BY <2>1, EmptySeq
  <1>5. DOMAIN u.path = 1 .. L + 1
    BY <1>4, LenProperties
  <1>6. Range(u.path) = Range(s.path) \cup {dep}
    <2>1. Range(s.path) = {s.path[j] : j \in 1 .. L}
      BY <1>2 DEF Range
    <2>2. Range(u.path) = {u.path[j] : j \in 1 .. L + 1}
      BY <1>5 DEF Range
    <2>3. \A j \in 1 .. L + 1 : j \in 1 .. L \/ j = L + 1
      BY <1>2a, Zenon
    <2>4. 1 .. L \subseteq 1 .. L + 1 /\ L + 1 \in 1 .. L + 1
      BY <1>2a, Zenon
    <2>5. ASSUME NEW x \in Range(u.path)  PROVE  x \in Range(s.path) \cup {dep}
      <3>1. PICK j \in 1 .. L + 1 : x = u.path[j]
        BY <2>2
      <3>2. CASE j \in 1 .. L
        <4>1. x = s.path[j]
          BY <1>4, <3>1, <3>2
        <4> QED
          BY <2>1, <3>2, <4>1
      <3>3. CASE j = L + 1
        BY <1>4, <3>1, <3>3
      <3> QED
        BY <2>3, <3>2, <3>3
    <2>6. ASSUME NEW x \in Range(s.path)  PROVE  x \in Range(u.path)
      <3>1. PICK j \in 1 .. L : x = s.path[j]
        BY <2>1
      <3>2. j \in 1 .. L + 1 /\ x = u.path[j]
        BY <1>4, <2>4, <3>1
      <3> QED
        BY <2>2, <3>2
    <2>7. dep \in Range(u.path)
      BY <1>4, <2>2, <2>4
    <2> QED
      BY <2>5, <2>6, <2>7
  <1>7. \A j \in 1 .. L : s.path[j] # dep
    BY <1>1 DEF OnPath
  <1>9. OnPath(graph, root, u)
    <2>1. IsInjective(u.path)
      <3> SUFFICES ASSUME NEW i \in 1 .. L + 1, NEW j \in 1 .. L + 1, u.path[i] = u.path[j]
                   PROVE  i = j
        BY <1>5 DEF IsInjective
      <3>1. i \in 1 .. L \/ i = L + 1
        BY <1>2a, Zenon
      <3>2. j \in 1 .. L \/ j = L + 1
        BY <1>2a, Zenon
      <3> QED
        BY <1>1, <1>2, <1>4, <1>7, <3>1, <3>2 DEF OnPath, IsInjective
    <2>2. IsWalk(graph, u.path)
      <3>0. Len(u.path) - 1 = L
        BY <1>2a, <1>4, Zenon
      <3> SUFFICES ASSUME NEW j \in 1 .. L  PROVE  Leads(graph, u.path[j], u.path[j + 1])
        BY <3>0 DEF IsWalk
      <3>1. CASE j = L
        <4>1. k \in DOMAIN graph[node]
          <5>1. graph[node] \in Seq(Nat)
            BY <1>2 DEF IsGraph
          <5> QED
            BY <1>2, <5>1, LenProperties
        <4>2. Leads(graph, node, dep)
          BY <4>1 DEF Leads, Range
        <4> QED
          BY <1>2, <1>4, <3>1, <4>2
      <3>2. CASE j # L
        <4>1. j \in 1 .. L - 1 /\ j + 1 \in 1 .. L
          BY <1>2a, <3>2, Zenon
        <4> QED
          BY <1>1, <1>4, <4>1 DEF OnPath, IsWalk
      <3> QED
        BY <3>1, <3>2
    <2>3. ASSUME NEW j \in 1 .. Len(u.path)  PROVE  u.path[j] \in u.visited
      <3>1. j \in 1 .. L \/ j = L + 1
        BY <1>2a, <1>4, Zenon
      <3> QED
        BY <1>1, <1>3, <1>4, <3>1 DEF OnPath
    <2>4. root \in u.visited /\ u.path[1] = root
      <3>1. 1 \in 1 .. L
        BY <1>2a, Zenon
      <3> QED
        BY <1>1, <1>3, <1>4, <3>1 DEF OnPath
    <2> QED
      BY <2>1, <2>2, <2>3, <2>4 DEF OnPath
  <1>10. Counted(graph, u)
    <2> SUFFICES ASSUME NEW n \in DOMAIN graph
                 PROVE  /\ n \in Range(u.path) => u.looked[n] <= Len(graph[n])
                        /\ n \in u.visited \ Range(u.path) => u.looked[n] = Len(graph[n]) + 1
                        /\ n \notin u.visited => u.looked[n] = 0
      BY DEF Counted
    <2>1. CASE n = node
      <3>1. u.looked[n] = k
        BY <1>1, <1>2, <1>3, <2>1
      <3> QED
        BY <1>2, <1>3, <1>6, <2>1, <3>1
    <2>2. CASE n # node
      <3>1. u.looked[n] = s.looked[n]
        BY <1>1, <1>3, <2>2
      <3>2. n = dep => s.looked[n] = 0 /\ Len(graph[n]) \in Nat
        BY LenProperties DEF SearchInv, Counted, IsGraph
      <3> QED
        BY <1>3, <1>6, <2>2, <3>1, <3>2 DEF SearchInv, Counted
    <2> QED
      BY <2>1, <2>2
  <1>11. Followed(graph, root, u)
    <2> SUFFICES ASSUME NEW n \in DOMAIN graph, NEW j \in 1 .. Len(graph[n]),
                        j <= u.looked[n], graph[n][j] \in DOMAIN graph
                 PROVE  /\ graph[n][j] \in u.visited
                        /\ graph[n][j] = root => \E cycle \in u.cycles : root \in Range(cycle)
      BY DEF Followed
    <2>1. CASE n = node /\ j = k
      BY <1>1, <1>3, <2>1 DEF OnPath
    <2>2. CASE ~ (n = node /\ j = k)
      <3>1. j <= s.looked[n]
        <4>1. CASE n = node
          <5>1. u.looked[n] = s.looked[n] + 1
            BY <1>3, <4>1
          <5>2. j <= k /\ j # k
            BY <2>2, <4>1, <5>1
          <5> QED
            BY <1>2, <4>1, <5>2
        <4>2. CASE n # node
          BY <1>1, <1>3, <4>2
        <4> QED
          BY <4>1, <4>2
      <3>2. /\ graph[n][j] \in s.visited
            /\ graph[n][j] = root => \E cycle \in s.cycles : root \in Range(cycle)
        BY <3>1 DEF SearchInv, Followed
      <3> QED
        BY <1>3, <3>2
    <2> QED
      BY <2>1, <2>2
  <1>12. Reported(graph, u)
    BY <1>3 DEF SearchInv, Reported
  <1> QED
    BY <1>9, <1>10, <1>11, <1>12 DEF SearchInv

\* Every turn keeps the invariant, and counts one more look unless the search is
\* over.
LEMMA TurnInv ==
    ASSUME NEW graph, IsGraph(graph), NEW root \in DOMAIN graph, NEW s,
           SearchInv(graph, root, s)
    PROVE  /\ SearchInv(graph, root, Turn(graph, s))
           /\ s.path = <<>> => Turn(graph, s) = s
           /\ s.path # <<>> =>
                Turn(graph, s).looked =
                    [s.looked EXCEPT ![Last(s.path)] = s.looked[Last(s.path)] + 1]
  <1>1. CASE s.path = <<>>
    BY <1>1 DEF Turn
  <1>2. CASE s.path # <<>>
    <2> DEFINE node == Last(s.path)
               k    == s.looked[node] + 1
               next == [s EXCEPT !.looked[node] = k]
               dep  == graph[node][k]
               u    == Turn(graph, s)
    <2>1. /\ s \in States(graph) /\ s.path \in Seq(DOMAIN graph)
          /\ s.looked \in [DOMAIN graph -> Nat] /\ OnPath(graph, root, s)
      BY DEF SearchInv, States
    <2>13. s.visited \in SUBSET DOMAIN graph /\ s.cycles \in SUBSET Seq(DOMAIN graph)
      BY <2>1 DEF States
    <2>2. /\ next.path = s.path /\ next.visited = s.visited /\ next.cycles = s.cycles
          /\ next.looked = [s.looked EXCEPT ![node] = k]
      BY <2>1 DEF States
    <2>3. /\ Len(s.path) \in Nat /\ Len(s.path) >= 1 /\ node = s.path[Len(s.path)]
          /\ DOMAIN s.path = 1 .. Len(s.path)
          /\ node \in DOMAIN graph
          /\ s.looked[node] \in Nat /\ k \in Nat /\ Len(graph[node]) \in Nat
      BY <1>2, LastNode
    <2>10. /\ node = Last(s.path) /\ k = s.looked[node] + 1 /\ dep = graph[node][k]
           /\ next = [s EXCEPT !.looked[node] = k]
      OBVIOUS
    <2>4. u = IF k > Len(graph[node]) THEN [next EXCEPT !.path = Front(@)]
              ELSE IF dep \in DOMAIN graph THEN FindCycleFrom(next, dep) ELSE next
      BY <1>2 DEF Turn
    <2> HIDE DEF u, node, k, dep, next
    <2>12. next \in States(graph) /\ Looked(graph, s, node, next)
      <3>1. next = [path |-> s.path, visited |-> s.visited,
                    looked |-> [s.looked EXCEPT ![node] = s.looked[node] + 1],
                    cycles |-> s.cycles]
        BY <2>1, <2>10 DEF States
      <3> QED
        BY <2>1, <2>3, <2>13, <3>1, Looking
    <2>11. k <= Len(graph[node]) \/ k > Len(graph[node])
      BY <2>3
    <2>5. CASE k > Len(graph[node])
      <3>1. u = [s EXCEPT !.looked[node] = k, !.path = Front(@)]
        BY <2>1, <2>2, <2>4, <2>5, <2>10 DEF States
      <3>3. /\ Front(s.path) \in Seq(DOMAIN graph) /\ Len(Front(s.path)) = Len(s.path) - 1
            /\ \A j \in 1 .. Len(s.path) - 1 : Front(s.path)[j] = s.path[j]
        BY <1>2, <2>1, FrontIs
      <3>4. u = [path |-> Front(s.path), visited |-> s.visited,
                 looked |-> [s.looked EXCEPT ![node] = s.looked[node] + 1], cycles |-> s.cycles]
        BY <2>1, <2>10, <3>1 DEF States
      <3>5. u \in States(graph) /\ Looked(graph, s, node, u)
        BY <2>1, <2>3, <2>13, <3>3, <3>4, Looking
      <3>6. u.path = Front(s.path) /\ u.visited = s.visited /\ u.cycles = s.cycles
        BY <3>4
      <3>2. SearchInv(graph, root, u)
        BY <1>2, <2>5, <2>10, <3>3, <3>5, <3>6, ReturnInv
      <3> QED
        BY <1>2, <2>1, <2>10, <3>1, <3>2 DEF States, u
    <2>6. CASE k <= Len(graph[node]) /\ dep \notin DOMAIN graph
      <3>1. u = next
        BY <2>3, <2>4, <2>6
      <3>4. u \in States(graph) /\ Looked(graph, s, node, u) /\ u.cycles = s.cycles \cup {}
        BY <2>2, <2>12, <3>1
      <3>3. SearchInv(graph, root, u)
        BY <1>2, <2>2, <2>3, <2>6, <2>10, <3>1, <3>4, LookInv
      <3> QED
        BY <1>2, <2>2, <2>10, <3>1, <3>3 DEF u
    <2>7. CASE k <= Len(graph[node]) /\ dep \in DOMAIN graph /\ dep \in Range(s.path)
      <3> DEFINE cycle == Normalized(s.path, dep)
      <3>1. u = [s EXCEPT !.looked[node] = k, !.cycles = @ \cup {cycle}]
        BY <2>1, <2>2, <2>3, <2>4, <2>7, <2>10 DEF FindCycleFrom, States
      <3>2. PICK i \in 1 .. Len(s.path) : dep = s.path[i]
        BY <2>3, <2>7 DEF Range
      <3>3. Leads(graph, node, dep)
        <4>1. graph[node] \in Seq(Nat) /\ k \in 1 .. Len(graph[node])
          BY <2>3, <2>7, <2>10 DEF IsGraph
        <4>2. k \in DOMAIN graph[node]
          BY <4>1, LenProperties
        <4> QED
          BY <2>10, <4>2 DEF Leads, Range
      <3>4. /\ IsReportedCycle(graph, cycle) /\ cycle \in Seq(DOMAIN graph)
            /\ dep \in Range(cycle)
        BY <2>1, <2>3, <3>2, <3>3, NormalizedIsReported DEF OnPath
      <3>5. dep \in s.visited
        BY <2>1, <3>2 DEF OnPath
      <3> HIDE DEF cycle
      <3>6. cycle \in u.cycles
        BY <2>1, <3>1 DEF States
      <3>9. {cycle} \in SUBSET Seq(DOMAIN graph) /\ \A c \in {cycle} : IsReportedCycle(graph, c)
        BY <3>4
      <3>10. dep = root => \E c \in u.cycles : root \in Range(c)
        BY <3>4, <3>6
      <3>11. u = [path |-> s.path, visited |-> s.visited,
                  looked |-> [s.looked EXCEPT ![node] = s.looked[node] + 1],
                  cycles |-> s.cycles \cup {cycle}]
        BY <2>1, <2>10, <3>1 DEF States
      <3>12. u \in States(graph) /\ Looked(graph, s, node, u)
        <4>1. s.cycles \cup {cycle} \in SUBSET Seq(DOMAIN graph)
          BY <2>13, <3>4
        <4> QED
          BY <2>1, <2>3, <2>13, <3>11, <4>1, Looking
      <3>13. /\ u.path = s.path /\ u.visited = s.visited
             /\ u.cycles = s.cycles \cup {cycle}
        BY <3>11
      <3>7. SearchInv(graph, root, u)
        BY <1>2, <2>7, <2>10, <3>5, <3>9, <3>10, <3>12, <3>13, LookInv
      <3>8. u.looked = [s.looked EXCEPT ![node] = k]
        BY <2>1, <3>1 DEF States
      <3> QED
        BY <1>2, <2>10, <3>7, <3>8 DEF u
    <2>8. CASE k <= Len(graph[node]) /\ dep \in DOMAIN graph
               /\ dep \notin Range(s.path) /\ dep \in s.visited
      <3>1. u = next
        BY <2>2, <2>3, <2>4, <2>8 DEF FindCycleFrom
      <3>2. u \in States(graph) /\ Looked(graph, s, node, u) /\ u.cycles = s.cycles \cup {}
        BY <2>2, <2>12, <3>1
      <3>3. dep # root
        <4>1. s.path[1] = root /\ 1 \in DOMAIN s.path
          BY <1>2, <2>1, <2>3 DEF OnPath
        <4> QED
          BY <2>8, <4>1 DEF Range
      <3>4. SearchInv(graph, root, u)
        BY <1>2, <2>2, <2>3, <2>8, <2>10, <3>1, <3>2, <3>3, LookInv
      <3> QED
        BY <1>2, <2>2, <2>10, <3>1, <3>4 DEF u
    <2>9. CASE k <= Len(graph[node]) /\ dep \in DOMAIN graph
               /\ dep \notin Range(s.path) /\ dep \notin s.visited
      <3>1. u = [s EXCEPT !.looked[node] = k, !.visited = @ \cup {dep},
                          !.path = Append(@, dep)]
        BY <2>1, <2>2, <2>3, <2>4, <2>9, <2>10 DEF FindCycleFrom, States
      <3>4. /\ Append(s.path, dep) \in Seq(DOMAIN graph)
            /\ Len(Append(s.path, dep)) = Len(s.path) + 1
            /\ \A j \in 1 .. Len(s.path) : Append(s.path, dep)[j] = s.path[j]
            /\ Append(s.path, dep)[Len(s.path) + 1] = dep
        BY <2>1, <2>9, AppendProperties
      <3>5. u = [path |-> Append(s.path, dep), visited |-> s.visited \cup {dep},
                 looked |-> [s.looked EXCEPT ![node] = s.looked[node] + 1], cycles |-> s.cycles]
        BY <2>1, <2>10, <3>1 DEF States
      <3>6. u \in States(graph) /\ Looked(graph, s, node, u)
        <4>1. s.visited \cup {dep} \in SUBSET DOMAIN graph
          BY <2>9, <2>13
        <4> QED
          BY <2>1, <2>3, <2>13, <3>4, <3>5, <4>1, Looking
      <3>7. /\ u.path = Append(s.path, dep) /\ u.visited = s.visited \cup {dep}
            /\ u.cycles = s.cycles
        BY <3>5
      <3>2. SearchInv(graph, root, u)
        BY <1>2, <2>3, <2>9, <2>10, <3>4, <3>6, <3>7, CallInv, ZenonT(30)
      <3>3. u.looked = [s.looked EXCEPT ![node] = k]
        BY <2>1, <3>1 DEF States
      <3> QED
        BY <1>2, <2>10, <3>2, <3>3 DEF u
    <2> QED
      BY <2>5, <2>6, <2>7, <2>8, <2>9, <2>11
  <1> QED
    BY <1>1, <1>2

-----------------------------------------------------------------------------
(* The search comes to an end.                                              *)

\* The states of a search are what its turns make of its first state.
LEMMA Searching ==
    ASSUME NEW graph, IsGraph(graph), NEW root \in DOMAIN graph
    PROVE  /\ Search(graph, root)[0] = Begin(graph, root)
           /\ \A n \in Nat : /\ Search(graph, root)[n + 1] = Turn(graph, Search(graph, root)[n])
                             /\ SearchInv(graph, root, Search(graph, root)[n])
  <1> DEFINE Kept    == {s \in States(graph) : SearchInv(graph, root, s)}
             f       == [s \in Kept |-> Turn(graph, s)]
             Step(g) == [n \in Nat |-> IF n = 0 THEN Begin(graph, root)
                                       ELSE Turn(graph, g[n - 1])]
             after   == Search(graph, root)
  <1>1. Begin(graph, root) \in Kept
    BY BeginInv DEF SearchInv
  <1>2. f \in [Kept -> Kept]
    <2>1. ASSUME NEW s \in Kept  PROVE  Turn(graph, s) \in Kept
      <3>1. SearchInv(graph, root, Turn(graph, s))
        BY TurnInv
      <3> QED
        BY <3>1 DEF SearchInv
    <2> QED
      BY <2>1
  <1>3. PICK g \in [Nat -> Kept] : g[0] = Begin(graph, root) /\ \A n \in Nat : g[n + 1] = f[g[n]]
    <2> HIDE DEF Kept, f
    <2>1. \E h : Iterates(h, Kept, Begin(graph, root), f)
      BY <1>1, <1>2, Iteration
    <2> QED
      BY <2>1 DEF Iterates
  <1>4. g = Step(g)
    <2>1. ASSUME NEW n \in Nat
          PROVE  g[n] = IF n = 0 THEN Begin(graph, root) ELSE Turn(graph, g[n - 1])
      <3>1. CASE n = 0
        BY <1>3, <3>1
      <3>2. CASE n # 0
        <4>1. n - 1 \in Nat /\ n = (n - 1) + 1
          BY <3>2
        <4>2. g[n] = f[g[n - 1]]
          BY <1>3, <4>1
        <4>3. g[n - 1] \in Kept
          BY <1>3, <4>1
        <4> QED
          BY <3>2, <4>2, <4>3
      <3> QED
        BY <3>1, <3>2
    <2> HIDE DEF Kept
    <2> QED
      BY <1>3, <2>1
  <1>5. after = CHOOSE h : h = Step(h)
    BY DEF Search
  <1>6. after = Step(after)
    <2> HIDE DEF Step, after
    <2> QED
      BY <1>4, <1>5
  <1> HIDE DEF after
  <1>7. after[0] = Begin(graph, root)
    BY <1>6
  <1>8. ASSUME NEW n \in Nat  PROVE  after[n + 1] = Turn(graph, after[n])
    <2>1. n + 1 \in Nat /\ n + 1 # 0 /\ (n + 1) - 1 = n
      OBVIOUS
    <2> QED
      BY <1>6, <2>1
  <1> DEFINE T == {n \in Nat : SearchInv(graph, root, after[n])}
  <1>9. 0 \in T
    BY <1>7, BeginInv
  <1>10. ASSUME NEW n \in Nat, n \in T  PROVE  n + 1 \in T
    <2>1. SearchInv(graph, root, after[n]) /\ after[n + 1] = Turn(graph, after[n])
      BY <1>8, <1>10
    <2>2. \A s : SearchInv(graph, root, s) => SearchInv(graph, root, Turn(graph, s))
      BY TurnInv
    <2> QED
      BY <2>1, <2>2
  <1>11. Nat \subseteq T
    <2> HIDE DEF T
    <2> QED
      BY <1>9, <1>10, Everywhere
  <1> QED
    BY <1>7, <1>8, <1>11 DEF after

LEMMA TurnsFinite ==
    ASSUME NEW graph, IsGraph(graph)
    PROVE  /\ IsFiniteSet(Turns(graph)) /\ Cardinality(Turns(graph)) \in Nat
           /\ \A n \in DOMAIN graph : /\ Len(graph[n]) \in Nat
                                      /\ \A k \in 1 .. Len(graph[n]) + 1 : <<n, k>> \in Turns(graph)
           /\ \A p \in Turns(graph) : \E n \in DOMAIN graph : \E k \in 1 .. Len(graph[n]) + 1 : p = <<n, k>>
  <1> DEFINE row(n) == {n} \X (1 .. Len(graph[n]) + 1)
             rows   == {row(n) : n \in DOMAIN graph}
             f      == [n \in DOMAIN graph |-> row(n)]
  <1>1. \A n \in DOMAIN graph : Len(graph[n]) \in Nat
    BY LenProperties DEF IsGraph
  <1>2. IsFiniteSet(rows)
    <2>1. f \in Surjection(DOMAIN graph, rows)
      <3> HIDE DEF row
      <3> QED
        BY DEF Surjection
    <2> QED
      BY <2>1, FS_Surjection DEF IsGraph
  <1>3. ASSUME NEW R \in rows  PROVE  IsFiniteSet(R)
    <2>1. PICK n \in DOMAIN graph : R = row(n)
      OBVIOUS
    <2>2. IsFiniteSet({n})
      BY FS_Singleton
    <2>3. Len(graph[n]) + 1 \in Int /\ 1 \in Int
      BY <1>1
    <2>4. IsFiniteSet(1 .. Len(graph[n]) + 1)
      BY <2>3, FS_Interval
    <2> QED
      BY <2>1, <2>2, <2>4, FS_Product
  <1>4. IsFiniteSet(UNION rows)
    <2> HIDE DEF rows
    <2> QED
      BY <1>2, <1>3, FS_UNION
  <1>5. Turns(graph) = UNION rows
    BY DEF Turns
  <1>6. ASSUME NEW n \in DOMAIN graph, NEW k \in 1 .. Len(graph[n]) + 1
        PROVE  <<n, k>> \in Turns(graph)
    <2>1. <<n, k>> \in row(n)
      OBVIOUS
    <2> QED
      BY <1>5, <2>1
  <1>7. ASSUME NEW p \in Turns(graph)
        PROVE  \E n \in DOMAIN graph : \E k \in 1 .. Len(graph[n]) + 1 : p = <<n, k>>
    <2>1. PICK n \in DOMAIN graph : p \in row(n)
      BY <1>5
    <2> QED
      BY <2>1
  <1> QED
    BY <1>1, <1>4, <1>5, <1>6, <1>7, FS_CardinalityType

\* The looks taken so far.
Slots(graph, s) == {p \in Turns(graph) : p[2] <= s.looked[p[1]]}

\* A turn takes a look that has not been taken.
LEMMA TurnTakesSlot ==
    ASSUME NEW graph, IsGraph(graph), NEW root \in DOMAIN graph, NEW s,
           SearchInv(graph, root, s), s.path # <<>>
    PROVE  /\ Cardinality(Slots(graph, s)) \in Nat
           /\ Cardinality(Slots(graph, s)) < Cardinality(Turns(graph))
           /\ Cardinality(Slots(graph, Turn(graph, s))) = Cardinality(Slots(graph, s)) + 1
  <1> DEFINE node == Last(s.path)
             k    == s.looked[node] + 1
             A    == Slots(graph, s)
             B    == Slots(graph, Turn(graph, s))
  <1>1. /\ node \in DOMAIN graph /\ s.looked[node] \in Nat
        /\ s.looked[node] <= Len(graph[node]) /\ Len(graph[node]) \in Nat
    BY LastNode
  <1>2. s.looked \in [DOMAIN graph -> Nat]
    BY DEF SearchInv, States
  <1>3. Turn(graph, s).looked = [s.looked EXCEPT ![node] = k]
    BY TurnInv
  <1>4. <<node, k>> \in Turns(graph)
    BY <1>1, TurnsFinite
  <1> HIDE DEF node
  <1>5. <<node, k>> \notin A
    BY <1>1 DEF Slots
  <1>6. B = A \cup {<<node, k>>}
    <2>1. ASSUME NEW p \in Turns(graph)
          PROVE  p \in B <=> p \in A \/ p = <<node, k>>
      <3>0. PICK n \in DOMAIN graph : \E j \in 1 .. Len(graph[n]) + 1 : p = <<n, j>>
        BY TurnsFinite
      <3>1. PICK j \in 1 .. Len(graph[n]) + 1 : p = <<n, j>>
        BY <3>0
      <3>2. Len(graph[n]) \in Nat /\ j \in Nat
        BY TurnsFinite
      <3>3. p \in A <=> j <= s.looked[n]
        BY <3>1 DEF Slots
      <3>4. p \in B <=> j <= Turn(graph, s).looked[n]
        BY <3>1 DEF Slots
      <3>5. p = <<node, k>> <=> n = node /\ j = k
        BY <3>1
      <3>6. CASE n = node
        <4>1. Turn(graph, s).looked[n] = k
          BY <1>1, <1>2, <1>3, <3>6
        <4> QED
          BY <1>1, <3>2, <3>3, <3>4, <3>5, <3>6, <4>1
      <3>7. CASE n # node
        <4>1. Turn(graph, s).looked[n] = s.looked[n]
          BY <1>2, <1>3, <3>7
        <4> QED
          BY <3>3, <3>4, <3>5, <3>7, <4>1
      <3> QED
        BY <3>6, <3>7
    <2>2. B \subseteq Turns(graph) /\ A \subseteq Turns(graph)
      BY DEF Slots
    <2> HIDE DEF A, B, k
    <2> QED
      BY <1>4, <2>1, <2>2
  <1>7. A \in SUBSET Turns(graph)
    BY DEF Slots
  <1> HIDE DEF A, B, k
  <1>8. /\ IsFiniteSet(A) /\ Cardinality(A) <= Cardinality(Turns(graph))
        /\ Cardinality(Turns(graph)) # Cardinality(A)
    BY <1>4, <1>5, <1>7, TurnsFinite, FS_Subset
  <1>9. Cardinality(B) = Cardinality(A) + 1
    BY <1>5, <1>6, <1>8, FS_AddElement
  <1>10. Cardinality(A) \in Nat /\ Cardinality(Turns(graph)) \in Nat
    BY <1>8, TurnsFinite, FS_CardinalityType
  <1> QED
    BY <1>8, <1>9, <1>10 DEF A, B

\* After as many turns as there are looks to take, every call has returned.
LEMMA SearchEnds ==
    ASSUME NEW graph, IsGraph(graph), NEW root \in DOMAIN graph
    PROVE  /\ SearchInv(graph, root, Searched(graph, root))
           /\ Searched(graph, root).path = <<>>
  <1> DEFINE after == Search(graph, root)
             N     == Cardinality(Turns(graph))
             T     == {n \in Nat : \/ after[n].path = <<>>
                                   \/ Cardinality(Slots(graph, after[n])) >= n}
  <1>1. /\ \A n \in Nat : after[n + 1] = Turn(graph, after[n]) /\ SearchInv(graph, root, after[n])
        /\ after[0] = Begin(graph, root)
    BY Searching
  <1> HIDE DEF after
  <1>2. 0 \in T
    <2>1. SearchInv(graph, root, after[0])
      BY <1>1
    <2>2. after[0].path # <<>> => Cardinality(Slots(graph, after[0])) \in Nat
      BY <2>1, TurnTakesSlot
    <2> QED
      BY <2>2
  <1>3. ASSUME NEW n \in Nat, n \in T  PROVE  n + 1 \in T
    <2>1. SearchInv(graph, root, after[n]) /\ after[n + 1] = Turn(graph, after[n])
      BY <1>1
    <2>2. CASE after[n].path = <<>>
      <3>1. \A s : SearchInv(graph, root, s) /\ s.path = <<>> => Turn(graph, s) = s
        BY TurnInv
      <3> QED
        BY <2>1, <2>2, <3>1
    <2>3. CASE after[n].path # <<>>
      <3>1. /\ Cardinality(Slots(graph, after[n])) \in Nat
            /\ Cardinality(Slots(graph, after[n + 1])) = Cardinality(Slots(graph, after[n])) + 1
        BY <2>1, <2>3, TurnTakesSlot
      <3>2. Cardinality(Slots(graph, after[n])) >= n
        BY <1>3, <2>3
      <3> QED
        BY <3>1, <3>2
    <2> QED
      BY <2>2, <2>3
  <1>4. Nat \subseteq T
    <2> HIDE DEF T
    <2> QED
      BY <1>2, <1>3, Everywhere
  <1>5. N \in Nat
    BY TurnsFinite
  <1>6. after[N].path = <<>>
    <2> SUFFICES ASSUME after[N].path # <<>>  PROVE  FALSE
      OBVIOUS
    <2>1. Cardinality(Slots(graph, after[N])) >= N
      BY <1>4, <1>5
    <2>2. SearchInv(graph, root, after[N])
      BY <1>1, <1>5
    <2>3. Cardinality(Slots(graph, after[N])) \in Nat /\ Cardinality(Slots(graph, after[N])) < N
      BY <2>2, TurnTakesSlot
    <2> QED
      BY <1>5, <2>1, <2>3
  <1> QED
    BY <1>1, <1>5, <1>6 DEF Searched, after

-----------------------------------------------------------------------------
(* What the search reports is what waits for itself.                        *)

\* Whoever is on a reported cycle waits for itself: a closed set with what one of
\* the nodes leads to has the rest of the cycle, and so all of it.
LEMMA Sound ==
    ASSUME NEW graph, IsGraph(graph), NEW cycle \in Seq(DOMAIN graph),
           IsReportedCycle(graph, cycle), NEW n \in Range(cycle)
    PROVE  n \in WaitForThemselves(Edges(graph))
  <1> DEFINE L == Len(cycle)
  <1>1. L \in Nat /\ L > 1 /\ DOMAIN cycle = 1 .. L /\ \A k \in 1 .. L : cycle[k] \in DOMAIN graph
    BY LenProperties, ElementOfSeq DEF IsReportedCycle
  <1>2. cycle[1] = cycle[L] /\ \A k \in 1 .. L - 1 : Leads(graph, cycle[k], cycle[k + 1])
    BY DEF IsReportedCycle
  <1> HIDE DEF L
  <1>3. DOMAIN Edges(graph) = DOMAIN graph /\ \A m \in DOMAIN graph : Edges(graph)[m] = Range(graph[m])
    BY DEF Edges
  <1>4. n \in DOMAIN graph
    BY <1>1 DEF Range
  <1>5. PICK j \in 1 .. L - 1 : n = cycle[j]
    <2>1. PICK i \in 1 .. L : n = cycle[i]
      BY <1>1 DEF Range
    <2>2. CASE i = L
      <3>1. 1 \in 1 .. L - 1
        BY <1>1
      <3> QED
        BY <1>2, <2>1, <2>2, <3>1
    <2>3. CASE i # L
      <3>1. i \in 1 .. L - 1
        BY <1>1, <2>3
      <3> QED
        BY <2>1, <3>1
    <2> QED
      BY <2>2, <2>3
  <1>6. ASSUME NEW S \in SUBSET DOMAIN graph, Closed(Edges(graph), S),
               Edges(graph)[n] \cap DOMAIN graph \subseteq S
        PROVE  n \in S
    <2> DEFINE T == {k \in 1 .. L : cycle[k] \in S}
    <2>1. ASSUME NEW k \in 1 .. L - 1, cycle[k] \in S \/ cycle[k] = n
          PROVE  k + 1 \in T
      <3>1. k + 1 \in 1 .. L /\ k \in 1 .. L
        BY <1>1
      <3>2. cycle[k + 1] \in Edges(graph)[cycle[k]] \cap DOMAIN graph
        BY <1>1, <1>2, <1>3, <3>1 DEF Leads
      <3>3. CASE cycle[k] = n
        BY <1>6, <3>1, <3>2, <3>3
      <3>4. CASE cycle[k] \in S
        BY <1>3, <1>6, <3>1, <3>2, <3>4 DEF Closed
      <3> QED
        BY <2>1, <3>3, <3>4
    <2>2. j + 1 \in T
      BY <1>5, <2>1
    <2>3. ASSUME NEW lo \in 1 .. L, lo \in T  PROVE  lo .. L \subseteq T
      <3>1. ASSUME NEW k \in lo .. L, k < L, k \in T  PROVE  k + 1 \in T
        <4>1. k \in 1 .. L - 1 /\ cycle[k] \in S
          BY <1>1, <3>1
        <4> QED
          BY <2>1, <4>1
      <3>2. lo \in Nat /\ L \in Nat
        BY <1>1
      <3> HIDE DEF T
      <3> QED
        BY <2>3, <3>1, <3>2, UpTo
    <2>4. j + 1 \in 1 .. L /\ L \in j + 1 .. L /\ 1 \in 1 .. L /\ j \in 1 .. L
      BY <1>1
    <2>5. L \in T
      BY <2>2, <2>3, <2>4
    <2>6. 1 \in T
      BY <1>2, <2>4, <2>5
    <2>7. j \in T
      BY <2>3, <2>4, <2>6
    <2> QED
      BY <1>5, <2>7
  <1> QED
    BY <1>3, <1>4, <1>6 DEF WaitForThemselves

\* What waits for itself is found by the search from it: otherwise what the search
\* has visited besides is closed, and has what the root waits for.
LEMMA Complete ==
    ASSUME NEW graph, IsGraph(graph), NEW root \in WaitForThemselves(Edges(graph))
    PROVE  \E cycle \in Searched(graph, root).cycles : root \in Range(cycle)
  <1> DEFINE s == Searched(graph, root)
             S == s.visited \ {root}
  <1>1. DOMAIN Edges(graph) = DOMAIN graph /\ \A m \in DOMAIN graph : Edges(graph)[m] = Range(graph[m])
    BY DEF Edges
  <1>2. root \in DOMAIN graph
    BY <1>1 DEF WaitForThemselves
  <1>3. SearchInv(graph, root, s) /\ s.path = <<>>
    BY <1>2, SearchEnds
  <1> HIDE DEF s
  <1>4. s.visited \subseteq DOMAIN graph /\ root \in s.visited
    BY <1>3 DEF SearchInv, States, OnPath
  <1> SUFFICES ASSUME ~ \E cycle \in s.cycles : root \in Range(cycle)
               PROVE  FALSE
    BY DEF s
  <1>5. ASSUME NEW n \in s.visited, NEW dep \in Range(graph[n]), dep \in DOMAIN graph
        PROVE  dep \in S
    <2>1. n \in DOMAIN graph /\ graph[n] \in Seq(Nat)
      BY <1>4 DEF IsGraph
    <2>2. PICK k \in 1 .. Len(graph[n]) : dep = graph[n][k]
      BY <2>1, LenProperties DEF Range
    <2>3. Range(s.path) = {}
      BY <1>3 DEF Range
    <2>4. s.looked[n] = Len(graph[n]) + 1 /\ Len(graph[n]) \in Nat
      BY <1>3, <2>1, <2>3, LenProperties DEF SearchInv, Counted
    <2>5. k <= s.looked[n]
      BY <2>4
    <2> QED
      BY <1>3, <1>5, <2>1, <2>2, <2>5 DEF SearchInv, Followed
  <1>6. Closed(Edges(graph), S)
    BY <1>1, <1>4, <1>5 DEF Closed
  <1>7. Edges(graph)[root] \cap DOMAIN graph \subseteq S
    BY <1>1, <1>2, <1>4, <1>5
  <1>8. S \in SUBSET DOMAIN graph
    BY <1>4
  <1>9. root \in S
    BY <1>1, <1>6, <1>7, <1>8 DEF WaitForThemselves
  <1> QED
    BY <1>9

\* detect_cycles reports, of every finite sprint with any lists of dependencies,
\* cycles only, and exactly the issues that wait for themselves are on one; each
\* of its searches comes to an end.
THEOREM Exact ==
    ASSUME NEW graph, IsGraph(graph)
    PROVE  IsExact(graph)
  <1>1. ASSUME NEW root \in DOMAIN graph
        PROVE  /\ Searched(graph, root).path = <<>>
               /\ \A cycle \in Searched(graph, root).cycles :
                    IsReportedCycle(graph, cycle) /\ cycle \in Seq(DOMAIN graph)
    BY SearchEnds DEF SearchInv, Reported, States
  <1>2. \A cycle \in DetectCycles(graph) :
            IsReportedCycle(graph, cycle) /\ cycle \in Seq(DOMAIN graph)
    BY <1>1 DEF DetectCycles
  <1>3. ASSUME NEW n \in CyclicIds(graph)  PROVE  n \in WaitForThemselves(Edges(graph))
    <2>1. PICK cycle \in DetectCycles(graph) : n \in Range(cycle)
      BY DEF CyclicIds
    <2> QED
      BY <1>2, <2>1, Sound
  <1>4. ASSUME NEW n \in WaitForThemselves(Edges(graph))  PROVE  n \in CyclicIds(graph)
    <2>1. PICK cycle \in Searched(graph, n).cycles : n \in Range(cycle)
      BY Complete
    <2>2. n \in DOMAIN graph
      BY DEF WaitForThemselves, Edges
    <2>3. cycle \in DetectCycles(graph)
      BY <2>1, <2>2 DEF DetectCycles
    <2> QED
      BY <2>1, <2>3 DEF CyclicIds
  <1>5. CyclicIds(graph) = WaitForThemselves(Edges(graph))
    BY <1>3, <1>4
  <1> QED
    BY <1>1, <1>2, <1>5 DEF IsExact

\* The sprints of the run are among them.
THEOREM Detection == Spec => []DetectionIsExact
  <1>1. DetectionIsExact
    <2> SUFFICES ASSUME NEW graph \in Graphs  PROVE  IsGraph(graph)
      BY Exact DEF DetectionIsExact
    <2>1. DOMAIN graph = 1 .. 3
      BY DEF Graphs
    <2>2. IsFiniteSet(1 .. 3) /\ 1 .. 3 \subseteq Nat
      <3>1. 1 \in Int /\ 3 \in Int
        OBVIOUS
      <3>2. IsFiniteSet(1 .. 3)
        BY <3>1, FS_Interval
      <3> QED
        BY <3>2
    <2>3. BoundedSeq(1 .. 4, 2) \subseteq Seq(Nat)
      <3>1. ASSUME NEW list \in BoundedSeq(1 .. 4, 2)  PROVE  list \in Seq(Nat)
        <4>1. PICK m \in 0 .. 2 : list \in [1 .. m -> 1 .. 4]
          BY DEF BoundedSeq, SeqOf
        <4>2. list \in [1 .. m -> Nat]
          BY <4>1
        <4> QED
          BY <4>2, SeqDef
      <3> QED
        BY <3>1
    <2>4. graph \in [1 .. 3 -> Seq(Nat)]
      BY <2>3 DEF Graphs
    <2> QED
      BY <2>1, <2>2, <2>4 DEF IsGraph
  <1> QED
    BY <1>1, PTL

=============================================================================
