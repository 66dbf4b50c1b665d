----------------------------- MODULE PoolProofs -----------------------------
(***************************************************************************)
(* Proofs about the two connection pools, for any number of users, keys    *)
(* and slots: CPGConnectionPool, CRedisClientPool and both in one model.   *)
(***************************************************************************)
EXTENDS MCPools, WordArith, FiniteSetTheorems, SequenceTheorems, TLAPS

-----------------------------------------------------------------------------
(* Lists of slots.                                                         *)

\* The place of x among the numbers of S, from 0.
Rank(S, x) == Cardinality({y \in S : y < x})

\* Ranks grow with the numbers, and there are as many as numbers.
LEMMA RankGrows ==
  ASSUME NEW S \in SUBSET Nat, IsFiniteSet(S), NEW x \in S, NEW z \in S, x < z
  PROVE  Rank(S, x) < Rank(S, z)
<1> DEFINE Below(v) == {y \in S : y < v}
<1>1. Below(x) \in SUBSET Below(z) /\ Below(z) \in SUBSET S
  <2>1. \A y \in S : y \in Nat
    OBVIOUS
  <2>2. \A y \in S : y < x => y < z
    BY <2>1
  <2> QED BY <2>2
<1>2. x \in Below(z) /\ x \notin Below(x)
  OBVIOUS
<1>3. IsFiniteSet(Below(z)) /\ IsFiniteSet(Below(x))
  BY <1>1, FS_Subset
<1>4. Cardinality(Below(x)) <= Cardinality(Below(z))
      /\ Cardinality(Below(x)) # Cardinality(Below(z))
  <2> HIDE DEF Below
  <2> QED BY <1>1, <1>2, <1>3, FS_Subset
<1>5. Cardinality(Below(x)) \in Nat /\ Cardinality(Below(z)) \in Nat
  BY <1>3, FS_CardinalityType
<1> QED BY <1>4, <1>5 DEF Rank

LEMMA RankRange ==
  ASSUME NEW S \in SUBSET Nat, IsFiniteSet(S), NEW x \in S
  PROVE  Rank(S, x) \in 0 .. Cardinality(S) - 1
<1> DEFINE Below(v) == {y \in S : y < v}
<1>1. Below(x) \in SUBSET S /\ x \notin Below(x)
  OBVIOUS
<1>2. IsFiniteSet(Below(x)) /\ Cardinality(Below(x)) <= Cardinality(S)
      /\ Cardinality(Below(x)) # Cardinality(S)
  <2> HIDE DEF Below
  <2> QED BY <1>1, FS_Subset
<1>3. Cardinality(Below(x)) \in Nat /\ Cardinality(S) \in Nat
  BY <1>2, FS_CardinalityType
<1> QED BY <1>2, <1>3 DEF Rank

LEMMA RankOnto ==
  ASSUME NEW S \in SUBSET Nat, IsFiniteSet(S), NEW k \in 0 .. Cardinality(S) - 1
  PROVE  \E x \in S : Rank(S, x) = k
<1> DEFINE n == Cardinality(S)
           r == [x \in S |-> Rank(S, x)]
<1>1. n \in Nat
  BY FS_CardinalityType
<1>2. IsFiniteSet(0 .. n - 1) /\ Cardinality(0 .. n - 1) = n
  <2>1. 0 \in Int /\ n - 1 \in Int
    BY <1>1
  <2> QED BY <1>1, <2>1, FS_Interval
<1>3. r \in [S -> 0 .. n - 1]
  BY RankRange
<1>4. \A x, z \in S : r[x] = r[z] => x = z
  <2> TAKE x \in S, z \in S
  <2> HAVE r[x] = r[z]
  <2>1. Rank(S, x) \in Int /\ Rank(S, z) \in Int
    BY <1>1, RankRange
  <2>2. ~(x < z) /\ ~(z < x)
    BY <2>1, RankGrows
  <2> QED BY <2>2
<1>5. r \in Injection(S, 0 .. n - 1)
  BY <1>3, <1>4 DEF Injection, IsInjective
<1>6. r \in Surjection(S, 0 .. n - 1)
  <2> HIDE DEF r, n
  <2> QED BY <1>2, <1>5, FS_Injection DEF n
<1>7. PICK x \in S : r[x] = k
  BY <1>6 DEF Surjection
<1> QED BY <1>7

\* A finite set of numbers has a greatest one: the one with the last rank.
LEMMA MaxExists ==
  ASSUME NEW S \in SUBSET Nat, IsFiniteSet(S), S # {}
  PROVE  \E x \in S : \A y \in S : x >= y
<1> DEFINE n == Cardinality(S)
<1>1. n \in Nat /\ n # 0
  BY FS_CardinalityType, FS_EmptySet
<1>2. PICK x \in S : Rank(S, x) = n - 1
  BY <1>1, RankOnto
<1>3. \A y \in S : ~(x < y)
  <2> TAKE y \in S
  <2>1. Rank(S, y) \in 0 .. n - 1
    BY RankRange
  <2>2. x < y => Rank(S, x) < Rank(S, y)
    BY RankGrows
  <2> QED BY <1>1, <1>2, <2>1, <2>2
<1> QED BY <1>3

\* Multiplication stays in Nat and is monotonic.
LEMMA NatTimes == \A a, b \in Nat : a * b \in Nat
  OBVIOUS

LEMMA LeTimes ==
  ASSUME NEW a \in Nat, NEW b \in Nat, NEW c \in Nat, a <= b
  PROVE  a * c <= b * c
<1>1. b * c = a * c + (b - a) * c /\ (b - a) * c >= 0
  OBVIOUS
<1> QED BY <1>1

\* Ascending lists the numbers of S, each once.
LEMMA AscendingList ==
  ASSUME NEW S \in SUBSET Nat, IsFiniteSet(S)
  PROVE  /\ Ascending(S) \in Seq(S)
         /\ Len(Ascending(S)) = Cardinality(S)
         /\ IsInjective(Ascending(S))
         /\ Range(Ascending(S)) = S
<1> DEFINE n == Cardinality(S)
           s == [i \in 1 .. n |-> CHOOSE x \in S : Rank(S, x) = i - 1]
           Grows(a) == \A i, j \in 1 .. n : i < j => a[i] < a[j]
           asc == Ascending(S)
<1>1. n \in Nat
  BY FS_CardinalityType
<1>2. \A i \in 1 .. n : s[i] \in S /\ Rank(S, s[i]) = i - 1
  <2> TAKE i \in 1 .. n
  <2>1. i - 1 \in 0 .. n - 1
    BY <1>1
  <2>2. \E x \in S : Rank(S, x) = i - 1
    BY <2>1, RankOnto
  <2> QED BY <2>2
<1>3. Grows(s)
  <2> SUFFICES ASSUME NEW i \in 1 .. n, NEW j \in 1 .. n, i < j
               PROVE  s[i] < s[j]
    OBVIOUS
  <2> HIDE DEF s
  <2>1. s[i] # s[j] /\ ~(s[j] < s[i])
    <3>1. s[j] < s[i] => Rank(S, s[j]) < Rank(S, s[i])
      BY <1>2, RankGrows
    <3> QED BY <1>1, <1>2, <3>1
  <2>2. s[i] \in Nat /\ s[j] \in Nat
    BY <1>2
  <2> QED BY <2>1, <2>2
<1>4. s \in [1 .. n -> S]
  BY <1>2
<1>5. asc \in [1 .. n -> S] /\ Grows(asc)
  <2>1. \E a \in [1 .. n -> S] : Grows(a)
    BY <1>3, <1>4
  <2>2. asc = CHOOSE a \in [1 .. n -> S] : Grows(a)
    BY DEF Ascending
  <2> HIDE DEF asc, n, Grows
  <2> QED BY <2>1, <2>2
<1> HIDE DEF asc, n, s
<1>6. asc \in Seq(S) /\ Len(asc) = n /\ DOMAIN asc = 1 .. n
  BY <1>1, <1>5
<1>7. IsInjective(asc)
  <2> SUFFICES ASSUME NEW i \in 1 .. n, NEW j \in 1 .. n, asc[i] = asc[j]
               PROVE  i = j
    BY <1>6 DEF IsInjective
  <2>1. asc[i] \in Nat /\ asc[j] \in Nat
    BY <1>5
  <2>2. ~(i < j) /\ ~(j < i)
    BY <1>5, <2>1
  <2> QED BY <1>1, <2>2
<1>8. Range(asc) = S
  <2>1. asc \in Injection(1 .. n, S)
    BY <1>5, <1>7 DEF Injection
  <2>2. Cardinality(1 .. n) = n
    BY <1>1, FS_Interval
  <2>3. asc \in Surjection(1 .. n, S)
    BY <2>1, <2>2, FS_Injection DEF n
  <2>4. \A x \in S : \E i \in 1 .. n : asc[i] = x
    BY <2>3 DEF Surjection
  <2> QED BY <1>5, <1>6, <2>4 DEF Range
<1> QED BY <1>6, <1>7, <1>8 DEF asc, n

\* Without removes the slots of S and nothing else.
LEMMA WithoutList ==
  ASSUME NEW T, NEW list \in Seq(T), NEW S
  PROVE  /\ Without(list, S) \in Seq(T)
         /\ Range(Without(list, S)) = Range(list) \ S
         /\ IsInjective(list) => IsInjective(Without(list, S))
         /\ Without(list, S) = <<>> <=> Range(list) \subseteq S
<1> DEFINE K == {i \in DOMAIN list : list[i] \notin S}
           kept == Ascending(K)
           rest == Without(list, S)
<1>1. DOMAIN list = 1 .. Len(list) /\ Len(list) \in Nat
  OBVIOUS
<1>2. K \in SUBSET Nat /\ IsFiniteSet(K)
  <2>1. K \in SUBSET (1 .. Len(list))
    BY <1>1
  <2>2. IsFiniteSet(1 .. Len(list))
    BY <1>1, FS_Interval
  <2>3. IsFiniteSet(K)
    <3> HIDE DEF K
    <3> QED BY <2>1, <2>2, FS_Subset
  <2> QED BY <1>1, <2>1, <2>3
<1>3. /\ kept \in Seq(K) /\ IsInjective(kept) /\ Range(kept) = K
  BY <1>2, AscendingList
<1>4. rest = [j \in DOMAIN kept |-> list[kept[j]]]
  BY DEF Without
<1>5. DOMAIN kept = 1 .. Len(kept) /\ Len(kept) \in Nat
  <2> HIDE DEF kept
  <2> QED BY <1>3
<1>6. \A j \in DOMAIN kept : kept[j] \in DOMAIN list /\ list[kept[j]] \notin S
  <2> HIDE DEF kept
  <2> QED BY <1>3, <1>5
<1>7. \A i \in DOMAIN list : list[i] \notin S => \E j \in DOMAIN kept : kept[j] = i
  <2> SUFFICES ASSUME NEW i \in DOMAIN list, list[i] \notin S
               PROVE  \E j \in DOMAIN kept : kept[j] = i
    OBVIOUS
  <2>1. i \in Range(kept)
    <3> HIDE DEF kept
    <3> QED BY <1>3
  <2> QED BY <2>1 DEF Range
<1> HIDE DEF kept, rest, K
<1>8. rest \in Seq(T) /\ DOMAIN rest = DOMAIN kept
  <2>1. \A j \in DOMAIN kept : list[kept[j]] \in T
    BY <1>1, <1>6
  <2> QED BY <1>4, <1>5, <2>1
<1>9. Range(rest) = Range(list) \ S
  BY <1>4, <1>6, <1>7, <1>8 DEF Range
<1>10. IsInjective(list) => IsInjective(rest)
  BY <1>3, <1>4, <1>6, <1>8 DEF IsInjective
<1>11. rest = <<>> <=> Range(list) \subseteq S
  <2>1. rest = <<>> <=> DOMAIN rest = {}
    BY <1>8
  <2>2. DOMAIN rest = {} <=> Range(rest) = {}
    BY DEF Range
  <2> QED BY <1>9, <2>1, <2>2
<1> QED BY <1>8, <1>9, <1>10, <1>11 DEF rest

\* Lists without repetitions: their ends and their concatenation.
LEMMA TailList ==
  ASSUME NEW T, NEW list \in Seq(T), list # <<>>
  PROVE  /\ Head(list) \in T /\ Head(list) \in Range(list)
         /\ Tail(list) \in Seq(T)
         /\ Range(list) = Range(Tail(list)) \cup {Head(list)}
         /\ IsInjective(list) => /\ IsInjective(Tail(list))
                                 /\ Range(Tail(list)) = Range(list) \ {Head(list)}
<1>1. /\ Len(list) \in Nat \ {0} /\ DOMAIN list = 1 .. Len(list)
      /\ Tail(list) \in Seq(T) /\ DOMAIN Tail(list) = 1 .. Len(list) - 1
      /\ \A i \in 1 .. Len(list) - 1 : Tail(list)[i] = list[i + 1]
      /\ Head(list) = list[1] /\ 1 \in DOMAIN list
  OBVIOUS
<1> DEFINE rest == Tail(list)
<1> HIDE DEF rest
<1>2. Range(list) = Range(rest) \cup {list[1]}
  <2>1. \A i \in DOMAIN list : i = 1 \/ (i - 1 \in DOMAIN rest /\ list[i] = rest[i - 1])
    BY <1>1 DEF rest
  <2>2. \A i \in DOMAIN rest : i + 1 \in DOMAIN list /\ rest[i] = list[i + 1]
    BY <1>1 DEF rest
  <2> QED BY <1>1, <2>1, <2>2 DEF Range
<1>3. IsInjective(list) => IsInjective(rest) /\ list[1] \notin Range(rest)
  <2>1. \A i \in DOMAIN rest : i + 1 \in DOMAIN list /\ rest[i] = list[i + 1] /\ i \in Nat \ {0}
    BY <1>1 DEF rest
  <2>2. IsInjective(list) => IsInjective(rest)
    BY <2>1 DEF IsInjective
  <2>3. IsInjective(list) => \A i \in DOMAIN rest : rest[i] # list[1]
    BY <1>1, <2>1 DEF IsInjective
  <2> QED BY <2>2, <2>3 DEF Range
<1>4. IsInjective(list) => Range(rest) = Range(list) \ {list[1]}
  BY <1>2, <1>3
<1> QED BY <1>1, <1>2, <1>3, <1>4 DEF rest

LEMMA JoinLists ==
  ASSUME NEW T, NEW a \in Seq(T), NEW b \in Seq(T)
  PROVE  /\ a \o b \in Seq(T)
         /\ Range(a \o b) = Range(a) \cup Range(b)
         /\ IsInjective(a) /\ IsInjective(b) /\ Range(a) \cap Range(b) = {}
              => IsInjective(a \o b)
<1> DEFINE c == a \o b
           m == Len(a)
<1>1. /\ c \in Seq(T) /\ DOMAIN c = 1 .. m + Len(b) /\ m \in Nat /\ Len(b) \in Nat
      /\ DOMAIN a = 1 .. m /\ DOMAIN b = 1 .. Len(b)
  OBVIOUS
<1>2. /\ \A i \in DOMAIN a : i \in DOMAIN c /\ c[i] = a[i]
      /\ \A i \in DOMAIN b : m + i \in DOMAIN c /\ c[m + i] = b[i]
      /\ \A i \in DOMAIN c : i \in DOMAIN a \/ i - m \in DOMAIN b
      /\ \A i \in DOMAIN c : i \notin DOMAIN a => c[i] = b[i - m]
  OBVIOUS
<1> HIDE DEF c
<1>3. Range(c) = Range(a) \cup Range(b)
  BY <1>2 DEF Range
<1>4. ASSUME IsInjective(a), IsInjective(b), Range(a) \cap Range(b) = {}
      PROVE  IsInjective(c)
  <2> SUFFICES ASSUME NEW i \in DOMAIN c, NEW j \in DOMAIN c, c[i] = c[j]
               PROVE  i = j
    BY DEF IsInjective
  <2>1. CASE i \in DOMAIN a /\ j \in DOMAIN a
    BY <1>2, <1>4, <2>1 DEF IsInjective
  <2>2. CASE i \notin DOMAIN a /\ j \notin DOMAIN a
    <3>1. i - m = j - m
      BY <1>2, <1>4, <2>2 DEF IsInjective
    <3> QED BY <1>1, <3>1
  <2>3. CASE i \in DOMAIN a /\ j \notin DOMAIN a
    <3>1. c[i] \in Range(a) /\ c[j] \in Range(b)
      BY <1>2, <2>3 DEF Range
    <3> QED BY <1>4, <3>1
  <2>4. CASE i \notin DOMAIN a /\ j \in DOMAIN a
    <3>1. c[i] \in Range(b) /\ c[j] \in Range(a)
      BY <1>2, <2>4 DEF Range
    <3> QED BY <1>4, <3>1
  <2> QED BY <2>1, <2>2, <2>3, <2>4
<1> QED BY <1>1, <1>3, <1>4 DEF c

LEMMA AppendList ==
  ASSUME NEW T, NEW a \in Seq(T), NEW x \in T
  PROVE  /\ Append(a, x) \in Seq(T) /\ Append(a, x) # <<>>
         /\ Range(Append(a, x)) = Range(a) \cup {x}
         /\ IsInjective(a) /\ x \notin Range(a) => IsInjective(Append(a, x))
<1>1. <<x>> \in Seq(T) /\ Append(a, x) = a \o <<x>> /\ Append(a, x) # <<>>
  OBVIOUS
<1>2. Range(<<x>>) = {x} /\ IsInjective(<<x>>)
  <2>1. DOMAIN <<x>> = {1} /\ <<x>>[1] = x
    OBVIOUS
  <2> QED BY <2>1 DEF Range, IsInjective
<1> DEFINE b == <<x>>
<1> HIDE DEF b
<1>3. b \in Seq(T) /\ Append(a, x) = a \o b /\ Range(b) = {x} /\ IsInjective(b)
  BY <1>1, <1>2 DEF b
<1> QED BY <1>1, <1>3, JoinLists

-----------------------------------------------------------------------------
(* CPGConnectionPool.  The inductive invariant:                            *)
(*   - the vector is as long as the calls of setMaxConnectionCnt allow;    *)
(*   - a slot some user holds is open and marked "used", and has one user; *)
(*   - the list of a URL names the idle connections to it, each once;      *)
(*   - as long as no connection broke and the pool was resized once at     *)
(*     most, m_listUseableConn names the slots without a connection, each  *)
(*     once.                                                               *)

MaxCount == Max(Counts \cup {0})

VecSize ==
  \E n \in Nat :
    /\ n >= DefaultConnectionCnt
    /\ n <= DefaultConnectionCnt + resizes * MaxCount
    /\ DOMAIN m_vecConnPool = 0 .. n - 1

InUse(i) == Open(i) /\ m_vecConnPool[i].eState = "used"

HeldInUse == \A u \in Users : pConnItem[u] # None => InUse(pConnItem[u])

OneUserEach ==
  \A u, v \in Users : u # v /\ pConnItem[u] # None => pConnItem[u] # pConnItem[v]

Clean == resizes <= 1 /\ \A i \in DOMAIN m_vecConnPool : m_vecConnPool[i] # Dangling

EmptySlots == {i \in DOMAIN m_vecConnPool : m_vecConnPool[i] = None}

EmptyListExact ==
  Clean => IsInjective(m_listUseableConn) /\ Range(m_listUseableConn) = EmptySlots

IdleTo(k) == {i \in Idle : m_vecConnPool[i].sKey = k}

Inv == TypeOK /\ VecSize /\ HeldInUse /\ OneUserEach /\ IdleListsExact /\ EmptyListExact

\* MaxCount is the greatest count.
LEMMA MaxCountBound == MaxCount \in Nat /\ \A n \in Counts : n <= MaxCount
<1> DEFINE S == Counts \cup {0}
<1>1. S \in SUBSET Nat /\ IsFiniteSet(S) /\ S # {}
  <2>1. IsFiniteSet({0})
    BY FS_Singleton
  <2>2. IsFiniteSet(S)
    BY <2>1, CountAssumption, FS_Union
  <2> QED BY <2>2, CountAssumption
<1>2. \E x \in S : \A y \in S : x >= y
  BY <1>1, MaxExists
<1>3. Max(S) \in S /\ \A y \in S : Max(S) >= y
  <2> HIDE DEF S
  <2> QED BY <1>2 DEF Max
<1> QED BY <1>1, <1>3 DEF MaxCount

LEMMA InvInit == Init => Inv
<1> SUFFICES ASSUME Init PROVE Inv
  OBVIOUS
<1> USE DEF Init
<1> DEFINE n == DefaultConnectionCnt
<1>1. n \in Nat /\ resizes \in Nat /\ ResizeLimit \in Nat /\ None \notin Nat
  BY CountAssumption, SlotAssumption
<1>2. resizes * MaxCount = 0 /\ ResizeLimit * MaxCount \in Nat /\ MaxCount \in Nat
  BY <1>1, MaxCountBound
<1>3. VecSize
  BY <1>1, <1>2 DEF VecSize
<1>4. TypeOK
  <2>1. DOMAIN m_vecConnPool \subseteq Slots
    BY <1>1, <1>2 DEF Slots, MaxCount
  <2>2. m_listUseableConn \in Seq(DOMAIN m_vecConnPool)
    BY <1>1
  <2>3. m_mapUseableConn \in [Urls -> Seq(DOMAIN m_vecConnPool)]
    OBVIOUS
  <2>4. \A i \in DOMAIN m_vecConnPool : m_vecConnPool[i] = None
    OBVIOUS
  <2>5. pConnItem \in [Users -> DOMAIN m_vecConnPool \cup {None}]
    OBVIOUS
  <2>6. sError \in [Users -> {"none", "failed", "refused"}]
    OBVIOUS
  <2>7. resizes \in 0 .. ResizeLimit
    BY <1>1
  <2>8. corrupt \in BOOLEAN
    OBVIOUS
  <2> QED BY <2>1, <2>2, <2>3, <2>4, <2>5, <2>6, <2>7, <2>8 DEF TypeOK
<1>5. HeldInUse /\ OneUserEach
  BY DEF HeldInUse, OneUserEach
<1>6. IdleListsExact
  <2>1. Idle = {}
    BY DEF Idle
  <2>2. IsInjective(<<>>) /\ Range(<<>>) = {}
    BY DEF IsInjective, Range
  <2> QED BY <2>1, <2>2 DEF IdleListsExact
<1>7. EmptyListExact
  <2>1. EmptySlots = 0 .. n - 1
    BY DEF EmptySlots
  <2>2. DOMAIN m_listUseableConn = 1 .. n
    OBVIOUS
  <2>3. IsInjective(m_listUseableConn)
    BY <1>1 DEF IsInjective
  <2>4. Range(m_listUseableConn) = 0 .. n - 1
    <3>1. \A x \in 0 .. n - 1 : x + 1 \in 1 .. n /\ m_listUseableConn[x + 1] = x
      BY <1>1
    <3>2. \A j \in 1 .. n : m_listUseableConn[j] \in 0 .. n - 1
      BY <1>1
    <3> QED BY <2>2, <3>1, <3>2 DEF Range
  <2> QED BY <2>1, <2>3, <2>4 DEF EmptyListExact
<1> QED BY <1>3, <1>4, <1>5, <1>6, <1>7 DEF Inv

\* setMaxConnectionCnt lists the first slots behind the default ones: new
\* ones at the first call.
LEMMA ResizeInv ==
  ASSUME Inv, NEW n \in Counts, setMaxConnectionCnt(n)
  PROVE  Inv'
<1> DEFINE more == IF n > DefaultConnectionCnt THEN n - DefaultConnectionCnt ELSE 0
           d == DefaultConnectionCnt
<1>1. /\ d \in Nat /\ n \in Nat /\ more \in Nat /\ more <= n
      /\ ResizeLimit \in Nat /\ None \notin Nat /\ resizes \in Nat
      /\ MaxCount \in Nat /\ more <= MaxCount
  BY CountAssumption, SlotAssumption, MaxCountBound DEF Inv, TypeOK
<1>2. PICK s \in Nat : /\ s >= d /\ s <= d + resizes * MaxCount
                       /\ DOMAIN m_vecConnPool = 0 .. s - 1
  BY DEF Inv, VecSize
<1>3. Cardinality(DOMAIN m_vecConnPool) = s
  <2>1. 0 \in Int /\ s - 1 \in Int
    OBVIOUS
  <2> QED BY <1>2, <2>1, FS_Interval
<1> DEFINE vec == m_vecConnPool
           added == Added(more)
<1>4. /\ resizes < ResizeLimit
      /\ resizes' = resizes + 1
      /\ vec' = [i \in 0 .. s + more - 1 |-> IF i < s THEN vec[i] ELSE None]
      /\ m_listUseableConn' = m_listUseableConn \o added
      /\ UNCHANGED <<m_mapUseableConn, pConnItem, sError, corrupt>>
  BY <1>3 DEF setMaxConnectionCnt
<1> HIDE DEF more
<1>5. /\ DOMAIN vec' = 0 .. s + more - 1
      /\ \A i \in 0 .. s - 1 : i \in DOMAIN vec' /\ vec'[i] = vec[i]
      /\ \A i \in s .. s + more - 1 : vec'[i] = None
      /\ DOMAIN vec \subseteq DOMAIN vec'
  BY <1>1, <1>2, <1>4
<1>6. s + more <= d + resizes' * MaxCount /\ resizes' * MaxCount <= ResizeLimit * MaxCount
  <2>1. resizes' * MaxCount = resizes * MaxCount + MaxCount
    BY <1>1, <1>4
  <2>2. resizes' <= ResizeLimit /\ resizes' \in Nat
    BY <1>1, <1>4
  <2>3. resizes' * MaxCount <= ResizeLimit * MaxCount
    <3>1. \A a, b, c \in Nat : a <= b => a * c <= b * c
      BY LeTimes
    <3> QED BY <1>1, <2>2, <3>1
  <2>4. resizes * MaxCount \in Nat /\ resizes' * MaxCount \in Nat
    BY <1>1, <2>2, NatTimes
  <2> QED BY <1>1, <1>2, <2>1, <2>3, <2>4
<1>7. VecSize'
  <2> DEFINE m == s + more
  <2>1. m \in Nat /\ m >= d /\ m <= d + resizes' * MaxCount /\ DOMAIN vec' = 0 .. m - 1
    BY <1>1, <1>2, <1>5, <1>6
  <2> HIDE DEF m
  <2> QED BY <2>1 DEF VecSize, MaxCount
<1>8. /\ added \in Seq(DOMAIN vec') /\ DOMAIN added = 1 .. more
      /\ \A i \in 1 .. more : added[i] = d + i - 1
      /\ IsInjective(added)
      /\ Range(added) = d .. d + more - 1
  <2>1. DOMAIN added = 1 .. more /\ \A i \in 1 .. more : added[i] = d + i - 1
    BY DEF Added
  <2>2. added \in Seq(DOMAIN vec')
    <3>1. \A i \in 1 .. more : d + i - 1 \in DOMAIN vec'
      BY <1>1, <1>2, <1>5
    <3> QED BY <1>1, <3>1 DEF Added
  <2>3. IsInjective(added)
    BY <1>1, <2>1 DEF IsInjective
  <2>4. Range(added) = d .. d + more - 1
    <3>1. \A x \in d .. d + more - 1 : x - d + 1 \in 1 .. more /\ added[x - d + 1] = x
      BY <1>1, <2>1
    <3>2. \A i \in 1 .. more : added[i] \in d .. d + more - 1
      BY <1>1, <2>1
    <3> QED BY <2>1, <3>1, <3>2 DEF Range
  <2> QED BY <2>1, <2>2, <2>3, <2>4
<1> HIDE DEF added
<1>9. m_listUseableConn \in Seq(DOMAIN vec')
  <2>1. m_listUseableConn \in Seq(DOMAIN vec)
    BY DEF Inv, TypeOK
  <2> QED BY <1>5, <2>1, SeqMonotonic
<1>10. TypeOK'
  <2>1. DOMAIN vec' \subseteq Slots
    <3>1. resizes' * MaxCount \in Nat /\ ResizeLimit * MaxCount \in Nat
      BY <1>1, <1>4
    <3> QED BY <1>1, <1>5, <1>6, <3>1 DEF Slots, MaxCount
  <2>2. \A i \in DOMAIN vec' : vec'[i] \in ConnItems \cup {None, Dangling}
    BY <1>1, <1>2, <1>5 DEF Inv, TypeOK
  <2>3. m_listUseableConn' \in Seq(DOMAIN vec')
    BY <1>4, <1>8, <1>9, JoinLists
  <2>4. m_mapUseableConn' \in [Urls -> Seq(DOMAIN vec')]
    <3>1. m_mapUseableConn \in [Urls -> Seq(DOMAIN vec)]
      BY DEF Inv, TypeOK
    <3> QED BY <1>4, <1>5, <3>1, SeqMonotonic
  <2>5. pConnItem' \in [Users -> DOMAIN vec' \cup {None}]
    BY <1>4, <1>5 DEF Inv, TypeOK
  <2>6. resizes' \in 0 .. ResizeLimit
    BY <1>1, <1>4
  <2> QED BY <1>4, <2>1, <2>2, <2>3, <2>4, <2>5, <2>6 DEF Inv, TypeOK, Slots
<1>11. HeldInUse' /\ OneUserEach'
  BY <1>2, <1>4, <1>5 DEF Inv, HeldInUse, OneUserEach, InUse, Open
<1>12. IdleListsExact'
  <2>1. Idle' = Idle /\ \A i \in Idle : vec'[i] = vec[i]
    BY <1>1, <1>2, <1>5 DEF Idle
  <2> QED BY <1>4, <2>1 DEF Inv, IdleListsExact
<1>13. EmptyListExact'
  <2> SUFFICES ASSUME Clean'
               PROVE  /\ IsInjective(m_listUseableConn')
                      /\ Range(m_listUseableConn') = EmptySlots'
    BY DEF EmptyListExact
  <2>1. resizes = 0 /\ Clean
    BY <1>1, <1>2, <1>4, <1>5 DEF Clean
  <2>2. s = d
    <3>1. resizes * MaxCount = 0
      BY <1>1, <2>1
    <3> QED BY <1>1, <1>2, <3>1
  <2>3. IsInjective(m_listUseableConn) /\ Range(m_listUseableConn) = EmptySlots
    BY <2>1 DEF Inv, EmptyListExact
  <2>4. EmptySlots \subseteq 0 .. d - 1 /\ EmptySlots' = EmptySlots \cup (d .. d + more - 1)
    BY <1>1, <1>2, <1>5, <2>2 DEF EmptySlots
  <2>5. Range(m_listUseableConn) \cap Range(added) = {}
    BY <1>1, <1>8, <2>3, <2>4
  <2>6. /\ IsInjective(m_listUseableConn \o added)
        /\ Range(m_listUseableConn \o added) = EmptySlots \cup Range(added)
    <3>1. PICK T : T = DOMAIN vec'
      OBVIOUS
    <3>2. m_listUseableConn \in Seq(T) /\ added \in Seq(T) /\ IsInjective(added)
      BY <1>8, <1>9, <3>1
    <3>3. Range(m_listUseableConn \o added) = Range(m_listUseableConn) \cup Range(added)
          /\ IsInjective(m_listUseableConn \o added)
      BY <2>3, <2>5, <3>2, JoinLists
    <3> QED BY <2>3, <3>3
  <2> QED BY <1>4, <1>8, <2>4, <2>6
<1> QED BY <1>7, <1>10, <1>11, <1>12, <1>13 DEF Inv

\* What the invariant says of the lists.
LEMMA ListFacts ==
  ASSUME Inv, NEW k \in Urls
  PROVE  /\ m_mapUseableConn[k] \in Seq(DOMAIN m_vecConnPool)
         /\ IsInjective(m_mapUseableConn[k])
         /\ Range(m_mapUseableConn[k]) = IdleTo(k)
  BY DEF Inv, TypeOK, IdleListsExact, IdleTo

\* A user takes a slot that is not in use; it is open and in use afterwards.
LEMMA Claimed ==
  ASSUME Inv, NEW u \in Users, NEW i \in DOMAIN m_vecConnPool, ~InUse(i),
         pConnItem[u] = None,
         DOMAIN m_vecConnPool' = DOMAIN m_vecConnPool,
         \A j \in DOMAIN m_vecConnPool : j # i => m_vecConnPool'[j] = m_vecConnPool[j],
         InUse(i)',
         pConnItem' = [pConnItem EXCEPT ![u] = i]
  PROVE  HeldInUse' /\ OneUserEach'
<1>1. \A v \in Users : pConnItem[v] # i
  BY SlotAssumption, PointerAssumption DEF Inv, HeldInUse, InUse, Open, TypeOK, VecSize
<1>2. pConnItem \in [Users -> DOMAIN m_vecConnPool \cup {None}]
  BY DEF Inv, TypeOK
<1>3. pConnItem'[u] = i /\ \A v \in Users : v # u => pConnItem'[v] = pConnItem[v]
  BY <1>2
<1>4. HeldInUse'
  BY <1>1, <1>3 DEF Inv, HeldInUse, InUse, Open
<1>5. OneUserEach'
  BY <1>1, <1>3 DEF Inv, OneUserEach
<1> QED BY <1>4, <1>5

LEMMA GetIdleInv ==
  ASSUME Inv, NEW u \in Users, NEW k \in Urls, GetIdle(u, k)
  PROVE  Inv'
<1>0. PICK i : i = Head(m_mapUseableConn[k])
  OBVIOUS
<1> DEFINE item == [sKey |-> k, eState |-> "used"]
<1>1. /\ i \in DOMAIN m_vecConnPool /\ i \in IdleTo(k)
      /\ Tail(m_mapUseableConn[k]) \in Seq(DOMAIN m_vecConnPool)
      /\ IsInjective(Tail(m_mapUseableConn[k]))
      /\ Range(Tail(m_mapUseableConn[k])) = IdleTo(k) \ {i}
  <2>1. m_mapUseableConn[k] # <<>>
    BY DEF GetIdle
  <2>2. PICK l : l = m_mapUseableConn[k]
    OBVIOUS
  <2>3. PICK T : T = DOMAIN m_vecConnPool
    OBVIOUS
  <2>4. l \in Seq(T) /\ IsInjective(l) /\ Range(l) = IdleTo(k) /\ l # <<>> /\ i = Head(l)
    BY <1>0, <2>1, <2>2, <2>3, ListFacts
  <2>5. /\ i \in T /\ i \in Range(l) /\ Tail(l) \in Seq(T) /\ IsInjective(Tail(l))
        /\ Range(Tail(l)) = Range(l) \ {i}
    BY <2>4, TailList
  <2> QED BY <2>2, <2>3, <2>4, <2>5
<1>2. m_vecConnPool[i] \in ConnItems /\ m_vecConnPool[i].sKey = k
      /\ m_vecConnPool[i].eState = "unused"
  BY <1>1 DEF IdleTo, Idle, Inv, TypeOK
<1>3. item \in ConnItems
  BY DEF ConnItems
<1>4. m_vecConnPool' = [m_vecConnPool EXCEPT ![i] = item]
  <2>1. m_vecConnPool' = [m_vecConnPool EXCEPT ![i] = [m_vecConnPool[i] EXCEPT !.eState = "used"]]
    BY <1>0 DEF GetIdle
  <2>2. [m_vecConnPool[i] EXCEPT !.eState = "used"] = item
    BY <1>2 DEF ConnItems
  <2> QED BY <2>1, <2>2
<1>5. /\ pConnItem[u] = None /\ pConnItem' = [pConnItem EXCEPT ![u] = i]
      /\ m_mapUseableConn' = [m_mapUseableConn EXCEPT ![k] = Tail(m_mapUseableConn[k])]
      /\ sError' = [sError EXCEPT ![u] = "none"]
      /\ UNCHANGED <<m_listUseableConn, resizes, corrupt>>
  BY <1>0 DEF GetIdle
<1> HIDE DEF item
<1>6. DOMAIN m_vecConnPool' = DOMAIN m_vecConnPool /\ m_vecConnPool'[i] = item
      /\ \A j \in DOMAIN m_vecConnPool : j # i => m_vecConnPool'[j] = m_vecConnPool[j]
  BY <1>1, <1>4
<1>7. item.sKey = k /\ item.eState = "used" /\ item \notin {None, Dangling}
  BY <1>3, PointerAssumption DEF item
<1>8. HeldInUse' /\ OneUserEach'
  <2>1. ~InUse(i) /\ InUse(i)'
    BY <1>1, <1>2, <1>6, <1>7 DEF InUse, Open
  <2> QED BY <1>1, <1>5, <1>6, <2>1, Claimed
<1>9. TypeOK'
  <2>1. m_mapUseableConn' \in [Urls -> Seq(DOMAIN m_vecConnPool')]
    BY <1>1, <1>5, <1>6 DEF Inv, TypeOK
  <2>2. \A j \in DOMAIN m_vecConnPool' : m_vecConnPool'[j] \in ConnItems \cup {None, Dangling}
    BY <1>3, <1>6 DEF Inv, TypeOK
  <2>3. pConnItem' \in [Users -> DOMAIN m_vecConnPool' \cup {None}]
    BY <1>1, <1>5, <1>6 DEF Inv, TypeOK
  <2>4. sError' \in [Users -> {"none", "failed", "refused"}]
    BY <1>5 DEF Inv, TypeOK
  <2> QED BY <1>5, <1>6, <2>1, <2>2, <2>3, <2>4 DEF Inv, TypeOK, Slots
<1>10. VecSize'
  BY <1>5, <1>6 DEF Inv, VecSize, MaxCount
<1>11. IdleListsExact'
  <2>1. Idle' = Idle \ {i} /\ \A j \in Idle' : m_vecConnPool'[j] = m_vecConnPool[j]
    BY <1>6, <1>7 DEF Idle
  <2>2. \A l \in Urls : IdleTo(l)' = IdleTo(l) \ {i}
    BY <2>1 DEF IdleTo
  <2>3. \A l \in Urls : l # k => IdleTo(l) = IdleTo(l) \ {i}
    BY <1>2 DEF IdleTo
  <2>4. \A l \in Urls : l # k => m_mapUseableConn'[l] = m_mapUseableConn[l]
    BY <1>5 DEF Inv, TypeOK
  <2>5. m_mapUseableConn'[k] = Tail(m_mapUseableConn[k])
    BY <1>5 DEF Inv, TypeOK
  <2>6. \A l \in Urls : /\ IsInjective(m_mapUseableConn'[l])
                        /\ Range(m_mapUseableConn'[l]) = IdleTo(l)'
    BY <1>1, <2>2, <2>3, <2>4, <2>5, ListFacts
  <2> QED BY <2>6 DEF IdleListsExact, IdleTo
<1>12. EmptyListExact'
  <2>1. EmptySlots' = EmptySlots /\ (Clean' => Clean)
    BY <1>2, <1>5, <1>6, <1>7, PointerAssumption DEF EmptySlots, Clean
  <2> QED BY <1>5, <2>1 DEF Inv, EmptyListExact
<1> QED BY <1>8, <1>9, <1>10, <1>11, <1>12 DEF Inv

LEMMA GetNewInv ==
  ASSUME Inv, NEW u \in Users, NEW k \in Urls, GetNew(u, k)
  PROVE  Inv'
<1>2. PICK i : i = Head(m_listUseableConn)
  OBVIOUS
<1> DEFINE item == [sKey |-> k, eState |-> "used"]
<1>0. m_listUseableConn \in Seq(DOMAIN m_vecConnPool)
  BY DEF Inv, TypeOK
<1>1. /\ i \in DOMAIN m_vecConnPool /\ m_vecConnPool[i] = None
      /\ Tail(m_listUseableConn) \in Seq(DOMAIN m_vecConnPool)
      /\ IsInjective(m_listUseableConn)
           => /\ IsInjective(Tail(m_listUseableConn))
              /\ Range(Tail(m_listUseableConn)) = Range(m_listUseableConn) \ {i}
  BY <1>0, <1>2, TailList DEF GetNew, SlotReady
<1>3. item \in ConnItems
  BY DEF ConnItems
<1>4. m_vecConnPool' = [m_vecConnPool EXCEPT ![i] = item]
  BY <1>2 DEF GetNew
<1>5. /\ pConnItem[u] = None /\ pConnItem' = [pConnItem EXCEPT ![u] = i]
      /\ m_listUseableConn' = Tail(m_listUseableConn)
      /\ sError' = [sError EXCEPT ![u] = "none"]
      /\ UNCHANGED <<m_mapUseableConn, resizes, corrupt>>
  BY <1>2 DEF GetNew
<1> HIDE DEF item
<1>6. DOMAIN m_vecConnPool' = DOMAIN m_vecConnPool /\ m_vecConnPool'[i] = item
      /\ \A j \in DOMAIN m_vecConnPool : j # i => m_vecConnPool'[j] = m_vecConnPool[j]
  BY <1>1, <1>4
<1>7. item.eState = "used" /\ item \notin {None, Dangling}
  BY <1>3, PointerAssumption DEF item
<1>8. HeldInUse' /\ OneUserEach'
  <2>1. ~InUse(i) /\ InUse(i)'
    BY <1>1, <1>6, <1>7 DEF InUse, Open
  <2> QED BY <1>1, <1>5, <1>6, <2>1, Claimed
<1>9. TypeOK'
  <2>1. m_mapUseableConn' \in [Urls -> Seq(DOMAIN m_vecConnPool')]
    BY <1>5, <1>6 DEF Inv, TypeOK
  <2>2. \A j \in DOMAIN m_vecConnPool' : m_vecConnPool'[j] \in ConnItems \cup {None, Dangling}
    BY <1>3, <1>6 DEF Inv, TypeOK
  <2>3. pConnItem' \in [Users -> DOMAIN m_vecConnPool' \cup {None}]
    BY <1>1, <1>5, <1>6 DEF Inv, TypeOK
  <2>4. sError' \in [Users -> {"none", "failed", "refused"}]
    BY <1>5 DEF Inv, TypeOK
  <2>5. m_listUseableConn' \in Seq(DOMAIN m_vecConnPool')
    BY <1>1, <1>5, <1>6
  <2> QED BY <1>5, <1>6, <2>1, <2>2, <2>3, <2>4, <2>5 DEF Inv, TypeOK, Slots
<1>10. VecSize'
  BY <1>5, <1>6 DEF Inv, VecSize, MaxCount
<1>11. IdleListsExact'
  <2>1. Idle' = Idle /\ \A j \in Idle : m_vecConnPool'[j] = m_vecConnPool[j]
    BY <1>1, <1>6, <1>7 DEF Idle
  <2> QED BY <1>5, <2>1 DEF Inv, IdleListsExact
<1>12. EmptyListExact'
  <2>1. EmptySlots' = EmptySlots \ {i} /\ (Clean' => Clean)
    BY <1>1, <1>5, <1>6, <1>7, PointerAssumption DEF EmptySlots, Clean
  <2> QED BY <1>1, <1>5, <2>1 DEF Inv, EmptyListExact
<1> QED BY <1>8, <1>9, <1>10, <1>11, <1>12 DEF Inv

\* A user gives its slot back.
LEMMA Released ==
  ASSUME Inv, NEW u \in Users, NEW i \in DOMAIN m_vecConnPool, pConnItem[u] = i,
         DOMAIN m_vecConnPool' = DOMAIN m_vecConnPool,
         \A j \in DOMAIN m_vecConnPool : j # i => m_vecConnPool'[j] = m_vecConnPool[j],
         pConnItem' = [pConnItem EXCEPT ![u] = None]
  PROVE  /\ HeldInUse' /\ OneUserEach'
         /\ pConnItem' \in [Users -> DOMAIN m_vecConnPool' \cup {None}]
<1>1. pConnItem \in [Users -> DOMAIN m_vecConnPool \cup {None}]
  BY DEF Inv, TypeOK
<1>2. i # None
  BY SlotAssumption DEF Inv, VecSize
<1>3. pConnItem'[u] = None /\ \A v \in Users : v # u => pConnItem'[v] = pConnItem[v]
  BY <1>1
<1>4. \A v \in Users : v # u => pConnItem[v] # i
  BY <1>2 DEF Inv, OneUserEach
<1>5. HeldInUse'
  BY <1>3, <1>4 DEF Inv, HeldInUse, InUse, Open
<1>6. OneUserEach'
  BY <1>3 DEF Inv, OneUserEach
<1> QED BY <1>1, <1>5, <1>6

\* What removeConnection does to the lists.
LEMMA UnlistFacts ==
  ASSUME Inv, NEW S
  PROVE  /\ Unlist(S) \in [Urls -> Seq(DOMAIN m_vecConnPool)]
         /\ \A k \in Urls : /\ IsInjective(Unlist(S)[k])
                            /\ Range(Unlist(S)[k]) = IdleTo(k) \ S
<1>1. \A k \in Urls : /\ Without(m_mapUseableConn[k], S) \in Seq(DOMAIN m_vecConnPool)
                      /\ IsInjective(Without(m_mapUseableConn[k], S))
                      /\ Range(Without(m_mapUseableConn[k], S)) = IdleTo(k) \ S
  BY ListFacts, WithoutList
<1> QED BY <1>1 DEF Unlist

LEMMA OfferFacts ==
  ASSUME Inv, NEW S \in SUBSET DOMAIN m_vecConnPool
  PROVE  /\ Offer(S) \in Seq(DOMAIN m_vecConnPool)
         /\ Range(Offer(S)) = Range(m_listUseableConn) \cup S
         /\ IsInjective(m_listUseableConn) /\ Range(m_listUseableConn) \cap S = {}
              => IsInjective(Offer(S))
<1>1. PICK n \in Nat : DOMAIN m_vecConnPool = 0 .. n - 1
  BY DEF Inv, VecSize
<1>2. S \in SUBSET Nat /\ IsFiniteSet(S)
  <2>1. S \in SUBSET (0 .. n - 1)
    BY <1>1
  <2>2. IsFiniteSet(0 .. n - 1)
    BY FS_Interval
  <2>3. IsFiniteSet(S)
    BY <2>1, <2>2, FS_Subset
  <2> QED BY <2>1, <2>3
<1>3. /\ Ascending(S) \in Seq(S) /\ IsInjective(Ascending(S)) /\ Range(Ascending(S)) = S
  BY <1>2, AscendingList
<1>4. Ascending(S) \in Seq(DOMAIN m_vecConnPool)
  BY <1>3, SeqMonotonic
<1>5. m_listUseableConn \in Seq(DOMAIN m_vecConnPool)
  BY DEF Inv, TypeOK
<1> QED BY <1>3, <1>4, <1>5, JoinLists DEF Offer

LEMMA ReturnUpInv ==
  ASSUME Inv, NEW u \in Users, ReturnUp(u)
  PROVE  Inv'
<1>0. PICK i : i = pConnItem[u]
  OBVIOUS
<1>1. i # None /\ InUse(i) /\ i \in DOMAIN m_vecConnPool
  BY <1>0 DEF ReturnUp, Inv, HeldInUse, InUse, Open
<1>2. m_vecConnPool[i] \in ConnItems
  BY <1>1 DEF InUse, Open, Inv, TypeOK
<1>3. PICK k \in Urls : k = m_vecConnPool[i].sKey
  BY <1>2 DEF ConnItems
<1> DEFINE item == [sKey |-> k, eState |-> "unused"]
<1>4. item \in ConnItems
  BY DEF ConnItems
<1>5. m_vecConnPool' = [m_vecConnPool EXCEPT ![i] = item]
  <2>1. m_vecConnPool' = [m_vecConnPool EXCEPT ![i] = [m_vecConnPool[i] EXCEPT !.eState = "unused"]]
    BY <1>0 DEF ReturnUp
  <2>2. [m_vecConnPool[i] EXCEPT !.eState = "unused"] = item
    BY <1>2, <1>3 DEF ConnItems
  <2> QED BY <2>1, <2>2
<1>6. /\ pConnItem' = [pConnItem EXCEPT ![u] = None]
      /\ m_mapUseableConn' = [m_mapUseableConn EXCEPT ![k] = Append(m_mapUseableConn[k], i)]
      /\ UNCHANGED <<m_listUseableConn, sError, resizes, corrupt>>
  BY <1>0, <1>3 DEF ReturnUp
<1>7. item.sKey = k /\ item.eState = "unused" /\ item \notin {None, Dangling}
  BY <1>4, PointerAssumption
<1> HIDE DEF item
<1>8. DOMAIN m_vecConnPool' = DOMAIN m_vecConnPool /\ m_vecConnPool'[i] = item
      /\ \A j \in DOMAIN m_vecConnPool : j # i => m_vecConnPool'[j] = m_vecConnPool[j]
  BY <1>1, <1>5
<1>9. /\ HeldInUse' /\ OneUserEach'
      /\ pConnItem' \in [Users -> DOMAIN m_vecConnPool' \cup {None}]
  BY <1>0, <1>1, <1>6, <1>8, Released
<1>10. i \notin Idle
  BY <1>1 DEF InUse, Idle
<1>11. /\ Append(m_mapUseableConn[k], i) \in Seq(DOMAIN m_vecConnPool)
       /\ IsInjective(Append(m_mapUseableConn[k], i))
       /\ Range(Append(m_mapUseableConn[k], i)) = IdleTo(k) \cup {i}
  <2>1. i \notin IdleTo(k)
    BY <1>10 DEF IdleTo
  <2> QED BY <1>1, <2>1, ListFacts, AppendList
<1>12. TypeOK'
  <2>1. m_mapUseableConn' \in [Urls -> Seq(DOMAIN m_vecConnPool')]
    BY <1>6, <1>8, <1>11 DEF Inv, TypeOK
  <2>2. \A j \in DOMAIN m_vecConnPool' : m_vecConnPool'[j] \in ConnItems \cup {None, Dangling}
    BY <1>4, <1>8 DEF Inv, TypeOK
  <2> QED BY <1>6, <1>8, <1>9, <2>1, <2>2 DEF Inv, TypeOK, Slots
<1>13. VecSize'
  BY <1>6, <1>8 DEF Inv, VecSize, MaxCount
<1>14. IdleListsExact'
  <2>1. Idle' = Idle \cup {i} /\ \A j \in Idle : m_vecConnPool'[j] = m_vecConnPool[j]
    BY <1>1, <1>7, <1>8, <1>10 DEF Idle
  <2>2. IdleTo(k)' = IdleTo(k) \cup {i} /\ \A l \in Urls : l # k => IdleTo(l)' = IdleTo(l)
    BY <1>7, <1>8, <2>1 DEF IdleTo
  <2>3. \A l \in Urls : l # k => m_mapUseableConn'[l] = m_mapUseableConn[l]
    BY <1>6 DEF Inv, TypeOK
  <2>4. m_mapUseableConn'[k] = Append(m_mapUseableConn[k], i)
    BY <1>6 DEF Inv, TypeOK
  <2>5. \A l \in Urls : /\ IsInjective(m_mapUseableConn'[l])
                        /\ Range(m_mapUseableConn'[l]) = IdleTo(l)'
    BY <1>11, <2>2, <2>3, <2>4, ListFacts
  <2> QED BY <2>5 DEF IdleListsExact, IdleTo
<1>15. EmptyListExact'
  <2>1. m_vecConnPool[i] \notin {None, Dangling}
    BY <1>1 DEF InUse, Open
  <2>2. EmptySlots' = EmptySlots /\ (Clean' => Clean)
    BY <1>6, <1>7, <1>8, <2>1 DEF EmptySlots, Clean
  <2> QED BY <1>6, <2>2 DEF Inv, EmptyListExact
<1> QED BY <1>9, <1>12, <1>13, <1>14, <1>15 DEF Inv

LEMMA ReturnDownInv ==
  ASSUME Inv, NEW u \in Users, ReturnDown(u)
  PROVE  Inv'
<1>0. PICK i : i = pConnItem[u]
  OBVIOUS
<1>1. i # None /\ InUse(i) /\ i \in DOMAIN m_vecConnPool
  BY <1>0 DEF ReturnDown, Inv, HeldInUse, InUse, Open
<1>2. /\ m_vecConnPool' = [m_vecConnPool EXCEPT ![i] = Dangling]
      /\ pConnItem' = [pConnItem EXCEPT ![u] = None]
      /\ m_mapUseableConn' = Unlist({i})
      /\ m_listUseableConn' = Offer({i})
      /\ UNCHANGED <<sError, resizes, corrupt>>
  BY <1>0 DEF ReturnDown
<1>3. DOMAIN m_vecConnPool' = DOMAIN m_vecConnPool /\ m_vecConnPool'[i] = Dangling
      /\ \A j \in DOMAIN m_vecConnPool : j # i => m_vecConnPool'[j] = m_vecConnPool[j]
  BY <1>1, <1>2
<1>4. /\ HeldInUse' /\ OneUserEach'
      /\ pConnItem' \in [Users -> DOMAIN m_vecConnPool' \cup {None}]
  BY <1>0, <1>1, <1>2, <1>3, Released
<1>5. TypeOK'
  <2>1. m_mapUseableConn' \in [Urls -> Seq(DOMAIN m_vecConnPool')]
    BY <1>2, <1>3, UnlistFacts
  <2>2. m_listUseableConn' \in Seq(DOMAIN m_vecConnPool')
    <3>1. {i} \in SUBSET DOMAIN m_vecConnPool
      BY <1>1
    <3> QED BY <1>2, <1>3, <3>1, OfferFacts
  <2>3. \A j \in DOMAIN m_vecConnPool' : m_vecConnPool'[j] \in ConnItems \cup {None, Dangling}
    BY <1>3 DEF Inv, TypeOK
  <2> QED BY <1>2, <1>3, <1>4, <2>1, <2>2, <2>3 DEF Inv, TypeOK, Slots
<1>6. VecSize'
  BY <1>2, <1>3 DEF Inv, VecSize, MaxCount
<1>7. IdleListsExact'
  <2>1. i \notin Idle
    BY <1>1 DEF InUse, Idle
  <2>2. Idle' = Idle /\ \A j \in Idle : m_vecConnPool'[j] = m_vecConnPool[j]
    BY <1>3, <2>1 DEF Idle
  <2>3. \A k \in Urls : IdleTo(k)' = IdleTo(k) /\ IdleTo(k) \ {i} = IdleTo(k)
    BY <2>1, <2>2 DEF IdleTo
  <2>4. \A k \in Urls : /\ IsInjective(m_mapUseableConn'[k])
                        /\ Range(m_mapUseableConn'[k]) = IdleTo(k)'
    BY <1>2, <2>3, UnlistFacts
  <2> QED BY <2>4 DEF IdleListsExact, IdleTo
<1>8. EmptyListExact'
  <2>1. ~Clean'
    BY <1>1, <1>3 DEF Clean
  <2> QED BY <2>1 DEF EmptyListExact
<1> QED BY <1>4, <1>5, <1>6, <1>7, <1>8 DEF Inv

LEMMA CheckInv ==
  ASSUME Inv, checkConnection
  PROVE  Inv'
<1>1. PICK S \in SUBSET Idle :
        /\ m_vecConnPool' = [i \in DOMAIN m_vecConnPool |->
                               IF i \in S THEN None ELSE m_vecConnPool[i]]
        /\ m_mapUseableConn' = Unlist(S)
        /\ m_listUseableConn' = Offer(S)
        /\ UNCHANGED <<pConnItem, sError, resizes, corrupt>>
  BY DEF checkConnection
<1>2. S \in SUBSET DOMAIN m_vecConnPool
  BY DEF Idle
<1>3. /\ DOMAIN m_vecConnPool' = DOMAIN m_vecConnPool
      /\ \A i \in S : m_vecConnPool'[i] = None
      /\ \A i \in DOMAIN m_vecConnPool : i \notin S => m_vecConnPool'[i] = m_vecConnPool[i]
  BY <1>1, <1>2
<1>4. HeldInUse' /\ OneUserEach'
  <2>1. \A i \in S : ~InUse(i)
    BY DEF Idle, InUse
  <2> QED BY <1>1, <1>3, <2>1 DEF Inv, HeldInUse, OneUserEach, InUse, Open
<1>5. TypeOK'
  <2>1. m_mapUseableConn' \in [Urls -> Seq(DOMAIN m_vecConnPool')]
    BY <1>1, <1>3, UnlistFacts
  <2>2. m_listUseableConn' \in Seq(DOMAIN m_vecConnPool')
    BY <1>1, <1>2, <1>3, OfferFacts
  <2>3. \A j \in DOMAIN m_vecConnPool' : m_vecConnPool'[j] \in ConnItems \cup {None, Dangling}
    BY <1>3 DEF Inv, TypeOK
  <2> QED BY <1>1, <1>3, <2>1, <2>2, <2>3 DEF Inv, TypeOK, Slots
<1>6. VecSize'
  BY <1>1, <1>3 DEF Inv, VecSize, MaxCount
<1>7. IdleListsExact'
  <2>1. Idle' = Idle \ S /\ \A j \in Idle \ S : m_vecConnPool'[j] = m_vecConnPool[j]
    BY <1>3 DEF Idle
  <2>2. \A k \in Urls : IdleTo(k)' = IdleTo(k) \ S
    BY <2>1 DEF IdleTo
  <2>3. \A k \in Urls : /\ IsInjective(m_mapUseableConn'[k])
                        /\ Range(m_mapUseableConn'[k]) = IdleTo(k)'
    BY <1>1, <2>2, UnlistFacts
  <2> QED BY <2>3 DEF IdleListsExact, IdleTo
<1>8. EmptyListExact'
  <2> SUFFICES ASSUME Clean'
               PROVE  /\ IsInjective(m_listUseableConn')
                      /\ Range(m_listUseableConn') = EmptySlots'
    BY DEF EmptyListExact
  <2>1. \A i \in S : m_vecConnPool[i] \notin {None, Dangling}
    BY DEF Idle
  <2>2. EmptySlots' = EmptySlots \cup S /\ EmptySlots \cap S = {} /\ Clean
    BY <1>1, <1>2, <1>3, <2>1 DEF EmptySlots, Clean
  <2>3. IsInjective(m_listUseableConn) /\ Range(m_listUseableConn) = EmptySlots
    BY <2>2 DEF Inv, EmptyListExact
  <2> QED BY <1>1, <1>2, <2>2, <2>3, OfferFacts
<1> QED BY <1>4, <1>5, <1>6, <1>7, <1>8 DEF Inv

\* Steps that leave the slots and the lists alone.
LEMMA SameSlotsInv ==
  ASSUME Inv,
         UNCHANGED <<m_vecConnPool, m_listUseableConn, m_mapUseableConn, pConnItem, resizes>>,
         sError' \in [Users -> {"none", "failed", "refused"}], corrupt' \in BOOLEAN
  PROVE  Inv'
<1>1. TypeOK' /\ VecSize'
  BY DEF Inv, TypeOK, VecSize, Slots, MaxCount
<1>2. HeldInUse' /\ OneUserEach'
  BY DEF Inv, HeldInUse, OneUserEach, InUse, Open
<1>3. IdleListsExact' /\ EmptyListExact'
  BY DEF Inv, IdleListsExact, EmptyListExact, Idle, EmptySlots, Clean
<1> QED BY <1>1, <1>2, <1>3 DEF Inv

LEMMA InvNext == Inv /\ [Next]_vars => Inv'
<1> SUFFICES ASSUME Inv, [Next]_vars PROVE Inv'
  OBVIOUS
<1>0. sError \in [Users -> {"none", "failed", "refused"}] /\ corrupt \in BOOLEAN
  BY DEF Inv, TypeOK
<1>1. ASSUME NEW n \in Counts, setMaxConnectionCnt(n) PROVE Inv'
  BY <1>1, ResizeInv
<1>2. ASSUME NEW u \in Users, NEW k \in Urls, GetIdle(u, k) PROVE Inv'
  BY <1>2, GetIdleInv
<1>3. ASSUME NEW u \in Users, NEW k \in Urls, GetNew(u, k) PROVE Inv'
  BY <1>3, GetNewInv
<1>4. ASSUME NEW u \in Users, NEW k \in Urls, ConnectFails(u, k) \/ Refuse(u, k) PROVE Inv'
  <2>1. sError' \in [Users -> {"none", "failed", "refused"}]
    BY <1>0, <1>4 DEF ConnectFails, Refuse
  <2>2. corrupt' \in BOOLEAN
    BY <1>0, <1>4 DEF ConnectFails, Refuse
  <2> QED BY <1>4, <2>1, <2>2, SameSlotsInv DEF ConnectFails, Refuse
<1>5. ASSUME NEW u \in Users, ReturnUp(u) PROVE Inv'
  BY <1>5, ReturnUpInv
<1>6. ASSUME NEW u \in Users, ReturnDown(u) PROVE Inv'
  BY <1>6, ReturnDownInv
<1>7. CASE checkConnection
  BY <1>7, CheckInv
<1>8. CASE checkDangling
  BY <1>0, <1>8, SameSlotsInv DEF checkDangling
<1>9. CASE UNCHANGED vars
  BY <1>0, <1>9, SameSlotsInv DEF vars
<1> QED BY <1>1, <1>2, <1>3, <1>4, <1>5, <1>6, <1>7, <1>8, <1>9 DEF Next, User

(* CPGConnectionPool's lists are exact, for any number of users, URLs and  *)
(* slots, with connections that break and counts that are set at any time. *)
THEOREM PGListsExact == Spec => [](TypeOK /\ IdleListsExact)
<1>1. Inv => TypeOK /\ IdleListsExact
  BY DEF Inv
<1> QED BY InvInit, InvNext, <1>1, PTL DEF Spec

\* A refusal is Refuse's, and the pool is full if the list is exact.
LEMMA RefusalWhenFull ==
  ASSUME Inv, [Next]_vars, Refusal, Clean
  PROVE  Full
<1>1. PICK u \in Users : sError[u] # "refused" /\ sError'[u] = "refused"
  BY DEF Refusal
<1>0. sError \in [Users -> {"none", "failed", "refused"}]
  BY DEF Inv, TypeOK
<1>2. \E v \in Users, k \in Urls : Refuse(v, k)
  <2>1. sError' # sError
    BY <1>1
  <2>2. ASSUME NEW v \in Users, NEW k \in Urls,
               GetIdle(v, k) \/ GetNew(v, k) \/ ConnectFails(v, k)
        PROVE  FALSE
    <3>1. \E r \in {"none", "failed"} : sError' = [sError EXCEPT ![v] = r]
      BY <2>2 DEF GetIdle, GetNew, ConnectFails
    <3> QED BY <1>0, <1>1, <3>1
  <2>3. ASSUME NEW v \in Users, ReturnUp(v) \/ ReturnDown(v) PROVE FALSE
    BY <2>1, <2>3 DEF ReturnUp, ReturnDown
  <2>4. ASSUME NEW n \in Counts, setMaxConnectionCnt(n) PROVE FALSE
    BY <2>1, <2>4 DEF setMaxConnectionCnt
  <2>5. ~checkConnection /\ ~checkDangling /\ ~UNCHANGED vars
    BY <2>1 DEF checkConnection, checkDangling, vars
  <2> QED BY <2>2, <2>3, <2>4, <2>5 DEF Next, User
<1>3. ~SlotReady
  BY <1>2 DEF Refuse
<1>4. Range(m_listUseableConn) = EmptySlots /\ m_listUseableConn \in Seq(DOMAIN m_vecConnPool)
  BY DEF Inv, EmptyListExact, TypeOK
<1>5. m_listUseableConn = <<>>
  <2> SUFFICES ASSUME m_listUseableConn # <<>> PROVE FALSE
    OBVIOUS
  <2>1. Head(m_listUseableConn) \in EmptySlots
    BY <1>4, TailList
  <2> QED BY <1>3, <2>1 DEF SlotReady, EmptySlots
<1>6. EmptySlots = {}
  <2>1. Range(<<>>) = {}
    BY DEF Range
  <2> QED BY <1>4, <1>5, <2>1
<1> QED BY <1>6 DEF Full, Open, EmptySlots, Clean

(* No slot is lost while no connection broke and the pool was resized once *)
(* at most: getConnection refuses only when every slot has a connection.   *)
THEOREM PGNoSlotLost == Spec => NoSlotLost
<1>1. Inv /\ [Next]_vars =>
        [Refusal /\ resizes <= 1 /\ (\A i \in DOMAIN m_vecConnPool : m_vecConnPool[i] # Dangling)
           => Full]_vars
  BY RefusalWhenFull DEF Clean
<1> QED BY InvInit, InvNext, <1>1, PTL DEF Spec, NoSlotLost

-----------------------------------------------------------------------------
(* CPGConnectionPool implements SlotPool.                                  *)

LEMMA SlotsFixed == Slots' = Slots
  BY DEF Slots

LEMMA ContentFacts ==
  ASSUME Inv
  PROVE  /\ Content \in [Slots -> Urls \cup {None}]
         /\ \A i \in Slots : Content[i] = IF Open(i) THEN m_vecConnPool[i].sKey ELSE None
<1>1. \A i \in Slots : Open(i) => m_vecConnPool[i] \in ConnItems
  BY DEF Inv, TypeOK, Open
<1> QED BY <1>1 DEF Content, ConnItems

\* The content when one slot changed.
LEMMA OneContent ==
  ASSUME Inv, NEW i \in DOMAIN m_vecConnPool, NEW x,
         DOMAIN m_vecConnPool' = DOMAIN m_vecConnPool,
         \A j \in DOMAIN m_vecConnPool : j # i => m_vecConnPool'[j] = m_vecConnPool[j],
         x = IF m_vecConnPool'[i] \in {None, Dangling} THEN None ELSE m_vecConnPool'[i].sKey
  PROVE  i \in Slots /\ Content' = [Content EXCEPT ![i] = x]
<1>1. i \in Slots
  BY DEF Inv, TypeOK
<1>2. Content' = [j \in Slots |-> IF Open(j)' THEN m_vecConnPool'[j].sKey ELSE None]
  BY SlotsFixed DEF Content
<1>3. \A j \in Slots : j # i => (IF Open(j)' THEN m_vecConnPool'[j].sKey ELSE None) = Content[j]
  BY ContentFacts DEF Open
<1>4. (IF Open(i)' THEN m_vecConnPool'[i].sKey ELSE None) = x
  BY DEF Open
<1>5. DOMAIN Content = Slots
  BY DEF Content
<1> QED BY <1>1, <1>2, <1>3, <1>4, <1>5

LEMMA GetRefines ==
  ASSUME Inv, NEW u \in Users, NEW k \in Urls, GetIdle(u, k) \/ GetNew(u, k)
  PROVE  \E i \in Slots : Pool!Get(u, k, i)
<1>1. PICK i : i = IF GetIdle(u, k) THEN Head(m_mapUseableConn[k]) ELSE Head(m_listUseableConn)
  OBVIOUS
<1>2. /\ i \in DOMAIN m_vecConnPool /\ ~InUse(i)
      /\ Open(i) => m_vecConnPool[i].sKey = k
      /\ m_vecConnPool' = [m_vecConnPool EXCEPT ![i] = [sKey |-> k, eState |-> "used"]]
  <2>1. CASE GetIdle(u, k)
    <3>1. i \in IdleTo(k) /\ i \in DOMAIN m_vecConnPool
      <4>1. m_mapUseableConn[k] # <<>>
        BY <2>1 DEF GetIdle
      <4> QED BY <1>1, <2>1, <4>1, ListFacts, TailList
    <3>2. m_vecConnPool[i] \in ConnItems /\ m_vecConnPool[i].sKey = k
          /\ m_vecConnPool[i].eState = "unused"
      BY <3>1 DEF IdleTo, Idle, Inv, TypeOK
    <3>3. m_vecConnPool' = [m_vecConnPool EXCEPT ![i] = [m_vecConnPool[i] EXCEPT !.eState = "used"]]
      BY <1>1, <2>1 DEF GetIdle
    <3>4. [m_vecConnPool[i] EXCEPT !.eState = "used"] = [sKey |-> k, eState |-> "used"]
      BY <3>2 DEF ConnItems
    <3> QED BY <3>1, <3>2, <3>3, <3>4 DEF InUse
  <2>2. CASE ~GetIdle(u, k)
    <3>1. GetNew(u, k) /\ i = Head(m_listUseableConn)
      BY <1>1, <2>2
    <3>2. m_listUseableConn \in Seq(DOMAIN m_vecConnPool) /\ m_listUseableConn # <<>>
          /\ m_vecConnPool[i] = None
      BY <3>1 DEF Inv, TypeOK, GetNew, SlotReady
    <3>3. i \in DOMAIN m_vecConnPool
      BY <3>1, <3>2, TailList
    <3> QED BY <3>1, <3>2, <3>3 DEF GetNew, InUse, Open
  <2> QED BY <2>1, <2>2
<1>3. pConnItem[u] = None /\ pConnItem' = [pConnItem EXCEPT ![u] = i]
  BY <1>1 DEF GetIdle, GetNew
<1>4. \A v \in Users : pConnItem[v] # i
  BY <1>2, SlotAssumption DEF Inv, HeldInUse, VecSize
<1>5. i \in Slots /\ Content' = [Content EXCEPT ![i] = k]
  <2>1. [sKey |-> k, eState |-> "used"] \notin {None, Dangling}
    <3>1. [sKey |-> k, eState |-> "used"] \in ConnItems
      BY DEF ConnItems
    <3> QED BY <3>1, PointerAssumption
  <2>2. m_vecConnPool'[i] = [sKey |-> k, eState |-> "used"]
    BY <1>2
  <2>3. m_vecConnPool'[i] \notin {None, Dangling} /\ m_vecConnPool'[i].sKey = k
    BY <2>1, <2>2
  <2>4. k = IF m_vecConnPool'[i] \in {None, Dangling} THEN None ELSE m_vecConnPool'[i].sKey
    BY <2>3
  <2>5. DOMAIN m_vecConnPool' = DOMAIN m_vecConnPool
        /\ \A j \in DOMAIN m_vecConnPool : j # i => m_vecConnPool'[j] = m_vecConnPool[j]
    BY <1>2
  <2> QED BY <1>2, <2>4, <2>5, OneContent
<1>6. Content[i] \in {None, k}
  BY <1>2, <1>5, ContentFacts
<1> QED BY <1>3, <1>4, <1>5, <1>6 DEF Pool!Get, Pool!NotHeld

LEMMA ReturnRefines ==
  ASSUME Inv, NEW u \in Users, ReturnUp(u) \/ ReturnDown(u)
  PROVE  Pool!Return(u)
<1>1. PICK i : i = pConnItem[u]
  OBVIOUS
<1>2. i # None /\ InUse(i) /\ i \in DOMAIN m_vecConnPool
  BY <1>1 DEF ReturnUp, ReturnDown, Inv, HeldInUse, InUse, Open
<1>3. pConnItem' = [pConnItem EXCEPT ![u] = None]
  BY DEF ReturnUp, ReturnDown
<1>4. CASE ReturnUp(u)
  <2>1. m_vecConnPool[i] \in ConnItems
    BY <1>2 DEF InUse, Open, Inv, TypeOK
  <2>2. m_vecConnPool' = [m_vecConnPool EXCEPT ![i] = [m_vecConnPool[i] EXCEPT !.eState = "unused"]]
    BY <1>1, <1>4 DEF ReturnUp
  <2>3. PICK item \in ConnItems : /\ item = [m_vecConnPool[i] EXCEPT !.eState = "unused"]
                                  /\ item.sKey = m_vecConnPool[i].sKey
    <3> DEFINE new == [m_vecConnPool[i] EXCEPT !.eState = "unused"]
    <3>1. new \in ConnItems /\ new.sKey = m_vecConnPool[i].sKey
      BY <2>1 DEF ConnItems
    <3> HIDE DEF new
    <3>2. \E item \in ConnItems : item = new /\ item.sKey = m_vecConnPool[i].sKey
      BY <3>1
    <3> QED BY <3>2 DEF new
  <2>4. item \notin {None, Dangling}
    BY PointerAssumption
  <2>5. m_vecConnPool[i].sKey = IF m_vecConnPool'[i] \in {None, Dangling} THEN None
                                ELSE m_vecConnPool'[i].sKey
    BY <1>2, <2>2, <2>3, <2>4
  <2>6. PICK k : k = m_vecConnPool[i].sKey
    OBVIOUS
  <2>7. i \in Slots /\ Content' = [Content EXCEPT ![i] = k]
    BY <1>2, <2>2, <2>5, <2>6, OneContent
  <2>8. Content[i] = k
    BY <1>2, <2>6, <2>7, ContentFacts DEF InUse
  <2>9. Content' = Content
    BY <2>7, <2>8, ContentFacts
  <2> QED BY <1>1, <1>2, <1>3, <2>9 DEF Pool!Return
<1>5. CASE ReturnDown(u)
  <2>1. m_vecConnPool' = [m_vecConnPool EXCEPT ![i] = Dangling]
    BY <1>1, <1>5 DEF ReturnDown
  <2>2. Content' = [Content EXCEPT ![i] = None]
    BY <1>2, <2>1, OneContent
  <2> QED BY <1>1, <1>2, <1>3, <2>2 DEF Pool!Return
<1> QED BY <1>4, <1>5

LEMMA CheckRefines ==
  ASSUME Inv, checkConnection
  PROVE  \E S \in SUBSET Slots : Pool!Close(S)
<1>1. PICK S \in SUBSET Idle :
        /\ m_vecConnPool' = [i \in DOMAIN m_vecConnPool |->
                               IF i \in S THEN None ELSE m_vecConnPool[i]]
        /\ UNCHANGED pConnItem
  BY DEF checkConnection
<1>2. S \in SUBSET Slots /\ S \in SUBSET DOMAIN m_vecConnPool
  BY DEF Idle, Inv, TypeOK
<1>3. \A s \in S : \A u \in Users : pConnItem[u] # s
  BY <1>2, SlotAssumption DEF Inv, HeldInUse, VecSize, InUse, Idle
<1>4. Content' = [s \in Slots |-> IF s \in S THEN None ELSE Content[s]]
  <2>1. Content' = [j \in Slots |-> IF Open(j)' THEN m_vecConnPool'[j].sKey ELSE None]
    BY SlotsFixed DEF Content
  <2>2. \A j \in Slots : (IF Open(j)' THEN m_vecConnPool'[j].sKey ELSE None)
                           = IF j \in S THEN None ELSE Content[j]
    BY <1>1, <1>2, ContentFacts DEF Open
  <2> QED BY <2>1, <2>2
<1> QED BY <1>1, <1>2, <1>3, <1>4 DEF Pool!Close, Pool!NotHeld

LEMMA ResizeRefines ==
  ASSUME Inv, NEW n \in Counts, setMaxConnectionCnt(n)
  PROVE  UNCHANGED <<pConnItem, Content>>
<1>1. PICK s \in Nat : DOMAIN m_vecConnPool = 0 .. s - 1
  BY DEF Inv, VecSize
<1>2. Cardinality(DOMAIN m_vecConnPool) = s
  <2>1. 0 \in Int /\ s - 1 \in Int
    OBVIOUS
  <2> QED BY <1>1, <2>1, FS_Interval
<1>3. PICK more \in Nat : m_vecConnPool' = [i \in 0 .. s + more - 1 |->
                                              IF i < s THEN m_vecConnPool[i] ELSE None]
  <2> DEFINE more == IF n > DefaultConnectionCnt THEN n - DefaultConnectionCnt ELSE 0
  <2>1. more \in Nat
    BY CountAssumption
  <2>2. m_vecConnPool' = [i \in 0 .. s + more - 1 |-> IF i < s THEN m_vecConnPool[i] ELSE None]
    BY <1>2 DEF setMaxConnectionCnt
  <2> HIDE DEF more
  <2> QED BY <2>1, <2>2
<1>4. Content' = [j \in Slots |-> IF Open(j)' THEN m_vecConnPool'[j].sKey ELSE None]
  BY SlotsFixed DEF Content
<1>5. \A j \in Slots : Open(j)' <=> Open(j)
  BY <1>1, <1>3 DEF Open
<1>6. \A j \in Slots : Open(j) => m_vecConnPool'[j] = m_vecConnPool[j]
  BY <1>1, <1>3 DEF Open
<1>7. Content' = Content
  BY <1>4, <1>5, <1>6 DEF Content
<1> QED BY <1>7 DEF setMaxConnectionCnt

LEMMA SameRefines ==
  ASSUME UNCHANGED <<m_vecConnPool, pConnItem>>
  PROVE  UNCHANGED <<pConnItem, Content>>
  BY SlotsFixed DEF Content, Open

LEMMA NextRefines == Inv /\ [Next]_vars => [Pool!Next]_<<pConnItem, Content>>
<1> SUFFICES ASSUME Inv, [Next]_vars PROVE [Pool!Next]_<<pConnItem, Content>>
  OBVIOUS
<1>1. ASSUME NEW n \in Counts, setMaxConnectionCnt(n) PROVE UNCHANGED <<pConnItem, Content>>
  BY <1>1, ResizeRefines
<1>2. ASSUME NEW u \in Users, NEW k \in Urls, GetIdle(u, k) \/ GetNew(u, k) PROVE Pool!Next
  BY <1>2, GetRefines DEF Pool!Next
<1>3. ASSUME NEW u \in Users, NEW k \in Urls, ConnectFails(u, k) \/ Refuse(u, k)
      PROVE  UNCHANGED <<pConnItem, Content>>
  BY <1>3, SameRefines DEF ConnectFails, Refuse
<1>4. ASSUME NEW u \in Users, ReturnUp(u) \/ ReturnDown(u) PROVE Pool!Next
  BY <1>4, ReturnRefines DEF Pool!Next
<1>5. CASE checkConnection
  BY <1>5, CheckRefines DEF Pool!Next
<1>6. CASE checkDangling
  BY <1>6, SameRefines DEF checkDangling
<1>7. CASE UNCHANGED vars
  BY <1>7, SameRefines DEF vars
<1> QED BY <1>1, <1>2, <1>3, <1>4, <1>5, <1>6, <1>7 DEF Next, User

LEMMA InitRefines == Init => Pool!Init
<1> SUFFICES ASSUME Init PROVE Pool!Init
  OBVIOUS
<1>1. \A i : ~Open(i)
  BY DEF Init, Open
<1> QED BY <1>1 DEF Init, Pool!Init, Content

(* CPGConnectionPool implements SlotPool: whatever is called in whatever   *)
(* order, connections breaking and the pool resized, two users never share *)
(* a connection, getConnection returns one to the URL it was asked for,    *)
(* and none is closed while a user has it.                                 *)
THEOREM PGRefinement == Spec => ImplementsSlotPool
  BY InvInit, InvNext, InitRefines, NextRefines, PTL
     DEF Spec, ImplementsSlotPool, Pool!Spec

-----------------------------------------------------------------------------
(* CRedisClientPool.  What its map f says of its vector v:                 *)

EmptyIn(v) == {i \in DOMAIN v : v[i] = None}

IdleIn(v, h) == {i \in DOMAIN v : v[i] # None /\ ~v[i].m_Used /\ v[i].m_Host = h}

ListOf(f, h) == IF h \in DOMAIN f THEN Range(f[h]) ELSE {}

Typed(v, f) ==
  /\ \A i \in DOMAIN v : v[i] \in Clients \cup {None}
  /\ DOMAIN f \subseteq Hosts \cup {Null}
  /\ \A h \in DOMAIN f : f[h] \in Seq(ClientSlots) /\ IsInjective(f[h])
  /\ \A h \in Hosts \cap DOMAIN f : f[h] # <<>>

Exact(v, f) ==
  /\ \A h \in Hosts : ListOf(f, h) = IdleIn(v, h)
  /\ ListOf(f, Null) \subseteq EmptyIn(v)

\* The list of "NULL" has every empty slot.
AllListed(v, f) == Null \in DOMAIN f => EmptyIn(v) = ListOf(f, Null)

\* Removing idle and empty slots from their lists.
LEMMA UnlistedMap ==
  ASSUME NEW v, NEW f, Typed(v, f), Exact(v, f), NEW S \in SUBSET DOMAIN v,
         \A i \in S : v[i] = None \/ ~v[i].m_Used,
         NEW g, g = Unlisted(f, Listed(v, S))
  PROVE  /\ Typed(v, g)
         /\ \A h \in Hosts : ListOf(g, h) = IdleIn(v, h) \ S
         /\ DOMAIN g \subseteq DOMAIN f
         /\ Null \in DOMAIN g => ListOf(g, Null) = ListOf(f, Null) \ S
<1> DEFINE L == Listed(v, S)
           W(h) == Without(f[h], L[h])
<1>1. \A h \in Hosts : L[h] = {i \in S : v[i] # None /\ v[i].m_Host = h}
  <2>1. \A h \in Hosts : h # Null
    BY ClientCountAssumption
  <2>2. \A h \in Hosts : L[h] = {i \in S : h = IF v[i] = None THEN Null ELSE v[i].m_Host}
    BY DEF Listed
  <2> QED BY <2>1, <2>2
<1>2. L[Null] = {i \in S : v[i] = None}
  <2>1. L[Null] = {i \in S : Null = IF v[i] = None THEN Null ELSE v[i].m_Host}
    BY DEF Listed
  <2>2. \A i \in S : v[i] # None => v[i].m_Host \in Hosts
    BY DEF Typed, Clients
  <2> QED BY <2>1, <2>2, ClientCountAssumption
<1> HIDE DEF L
<1>3. /\ DOMAIN g = {h \in DOMAIN f : L[h] = {} \/ W(h) # <<>>}
      /\ \A h \in DOMAIN g : g[h] = W(h)
  BY DEF Unlisted, L
<1>4. \A h \in DOMAIN f : /\ W(h) \in Seq(ClientSlots) /\ IsInjective(W(h))
                          /\ Range(W(h)) = Range(f[h]) \ L[h]
                          /\ W(h) = <<>> <=> Range(f[h]) \subseteq L[h]
  BY WithoutList DEF Typed
<1> HIDE DEF W
<1>5. Typed(v, g)
  <2>1. \A h \in Hosts \cap DOMAIN g : g[h] # <<>>
    <3> SUFFICES ASSUME NEW h \in Hosts \cap DOMAIN g, g[h] = <<>> PROVE FALSE
      OBVIOUS
    <3>1. h \in DOMAIN f /\ L[h] = {} /\ W(h) = <<>>
      BY <1>3
    <3>2. Range(f[h]) = {}
      BY <1>4, <3>1
    <3>3. f[h] # <<>> /\ f[h] \in Seq(ClientSlots)
      BY <3>1 DEF Typed
    <3>4. Head(f[h]) \in Range(f[h])
      BY <3>3, TailList
    <3> QED BY <3>2, <3>4
  <2> QED BY <1>3, <1>4, <2>1 DEF Typed
<1>6. ASSUME NEW h \in Hosts
      PROVE  ListOf(g, h) = IdleIn(v, h) \ S
  <2>1. IdleIn(v, h) \cap S \subseteq L[h]
    BY <1>1, <1>6 DEF IdleIn
  <2>2. IdleIn(v, h) = ListOf(f, h) /\ L[h] \subseteq S
    BY <1>1, <1>6 DEF Exact
  <2>3. CASE h \notin DOMAIN f
    BY <1>3, <2>2, <2>3 DEF ListOf
  <2>4. CASE h \in DOMAIN g
    <3>1. h \in DOMAIN f /\ g[h] = W(h)
      BY <1>3, <2>4
    <3>2. ListOf(g, h) = Range(f[h]) \ L[h] /\ IdleIn(v, h) = Range(f[h])
      BY <1>4, <2>2, <2>4, <3>1 DEF ListOf
    <3> QED BY <2>1, <2>2, <3>2
  <2>5. CASE h \in DOMAIN f /\ h \notin DOMAIN g
    <3>1. Range(f[h]) \subseteq L[h]
      BY <1>3, <1>4, <2>5
    <3> QED BY <2>2, <2>5, <3>1 DEF ListOf
  <2> QED BY <2>3, <2>4, <2>5
<1>7. Null \in DOMAIN g => ListOf(g, Null) = ListOf(f, Null) \ S
  <2> SUFFICES ASSUME Null \in DOMAIN g PROVE ListOf(g, Null) = ListOf(f, Null) \ S
    OBVIOUS
  <2>1. Null \in DOMAIN f /\ ListOf(g, Null) = ListOf(f, Null) \ L[Null]
    BY <1>3, <1>4 DEF ListOf
  <2>2. ListOf(f, Null) \cap S = ListOf(f, Null) \cap L[Null]
    BY <1>2 DEF Exact, EmptyIn
  <2> QED BY <2>1, <2>2
<1> QED BY <1>3, <1>5, <1>6, <1>7

\* pop_back of idle and empty slots keeps the lists exact.
LEMMA PoppedMap ==
  ASSUME NEW v, NEW f, Typed(v, f), Exact(v, f), NEW S \in SUBSET DOMAIN v,
         \A i \in S : v[i] = None \/ ~v[i].m_Used,
         NEW g, g = Unlisted(f, Listed(v, S)),
         NEW w, w = [i \in DOMAIN v \ S |-> v[i]]
  PROVE  /\ Typed(w, g) /\ Exact(w, g)
         /\ AllListed(v, f) => AllListed(w, g)
<1>1. /\ Typed(v, g)
      /\ \A h \in Hosts : ListOf(g, h) = IdleIn(v, h) \ S
      /\ DOMAIN g \subseteq DOMAIN f
      /\ Null \in DOMAIN g => ListOf(g, Null) = ListOf(f, Null) \ S
  BY UnlistedMap
<1>2. DOMAIN w = DOMAIN v \ S /\ \A i \in DOMAIN w : w[i] = v[i]
  OBVIOUS
<1>3. EmptyIn(w) = EmptyIn(v) \ S /\ \A h \in Hosts : IdleIn(w, h) = IdleIn(v, h) \ S
  BY <1>2 DEF EmptyIn, IdleIn
<1>4. Typed(w, g)
  BY <1>1, <1>2 DEF Typed
<1>5. Exact(w, g)
  <2>1. ListOf(g, Null) \subseteq EmptyIn(w)
    <3>1. CASE Null \in DOMAIN g
      BY <1>1, <1>3, <3>1 DEF Exact
    <3>2. CASE Null \notin DOMAIN g
      BY <3>2 DEF ListOf
    <3> QED BY <3>1, <3>2
  <2> QED BY <1>1, <1>3, <2>1 DEF Exact
<1>6. AllListed(v, f) => AllListed(w, g)
  BY <1>1, <1>3 DEF AllListed
<1> QED BY <1>4, <1>5, <1>6

\* The clients of the slots S are deleted, and the slots listed as empty.
Blank(v, S) == [i \in DOMAIN v |-> IF i \in S THEN None ELSE v[i]]

Joined(f, S) ==
  IF Null \in DOMAIN f THEN [f EXCEPT ![Null] = @ \o Ascending(S)] ELSE f

\* Closing idle clients keeps the lists exact.
LEMMA ClosedMap ==
  ASSUME NEW v, NEW f, Typed(v, f), Exact(v, f), NEW S \in SUBSET DOMAIN v,
         IsFiniteSet(S), S \subseteq ClientSlots,
         \A i \in S : v[i] # None /\ ~v[i].m_Used,
         NEW g, g = Unlisted(f, Listed(v, S)),
         NEW w, w = Blank(v, S), NEW e, e = Joined(g, S)
  PROVE  /\ Typed(w, e) /\ Exact(w, e)
         /\ AllListed(v, f) => AllListed(w, e)
<1>1. /\ Typed(v, g)
      /\ \A h \in Hosts : ListOf(g, h) = IdleIn(v, h) \ S
      /\ DOMAIN g \subseteq DOMAIN f
      /\ Null \in DOMAIN g => ListOf(g, Null) = ListOf(f, Null) \ S
  BY UnlistedMap
<1>2. DOMAIN w = DOMAIN v /\ (\A i \in S : w[i] = None) /\ \A i \in DOMAIN v \ S : w[i] = v[i]
  BY DEF Blank
<1>3. EmptyIn(w) = EmptyIn(v) \cup S /\ \A h \in Hosts : IdleIn(w, h) = IdleIn(v, h) \ S
  BY <1>2 DEF EmptyIn, IdleIn
<1>4. \A i \in DOMAIN w : w[i] \in Clients \cup {None}
  BY <1>2 DEF Typed
<1>5. EmptyIn(v) \cap S = {}
  BY DEF EmptyIn
<1>6. CASE Null \notin DOMAIN g
  <2>1. e = g /\ ListOf(e, Null) = {}
    BY <1>6 DEF Joined, ListOf
  <2> QED BY <1>1, <1>3, <1>4, <1>6, <2>1 DEF Typed, Exact, AllListed
<1>7. CASE Null \in DOMAIN g
  <2>1. S \in SUBSET Nat
    BY DEF ClientSlots
  <2>2. Ascending(S) \in Seq(S) /\ IsInjective(Ascending(S)) /\ Range(Ascending(S)) = S
    BY <2>1, AscendingList
  <2>3. Ascending(S) \in Seq(ClientSlots)
    BY <2>2, SeqMonotonic
  <2>4. g[Null] \in Seq(ClientSlots) /\ IsInjective(g[Null])
        /\ Range(g[Null]) = ListOf(f, Null) \ S
    BY <1>1, <1>7 DEF Typed, ListOf
  <2>5. PICK j : j = g[Null] \o Ascending(S)
    OBVIOUS
  <2>6. j \in Seq(ClientSlots) /\ IsInjective(j) /\ Range(j) = ListOf(f, Null) \cup S
    BY <2>2, <2>3, <2>4, <2>5, JoinLists
  <2>7. DOMAIN e = DOMAIN g /\ e[Null] = j /\ \A h \in DOMAIN g : h # Null => e[h] = g[h]
    BY <1>7, <2>5 DEF Joined
  <2>8. \A h \in Hosts : h # Null /\ ListOf(e, h) = ListOf(g, h)
    BY <2>7, ClientCountAssumption DEF ListOf
  <2>9. ListOf(e, Null) = ListOf(f, Null) \cup S
    BY <1>7, <2>6, <2>7 DEF ListOf
  <2>10. Typed(w, e)
    BY <1>1, <1>4, <2>6, <2>7, <2>8 DEF Typed
  <2>11. Exact(w, e)
    BY <1>1, <1>3, <2>8, <2>9 DEF Exact
  <2>12. AllListed(v, f) => AllListed(w, e)
    BY <1>1, <1>3, <1>7, <2>9 DEF AllListed
  <2> QED BY <2>10, <2>11, <2>12
<1> QED BY <1>6, <1>7

\* Where the vector is cut: not below n, behind every slot in use and
\* directly behind one if n is less.
LEMMA KeptFacts ==
  ASSUME NEW v, NEW s \in Nat, DOMAIN v = 0 .. s - 1, NEW n \in Nat, n <= s
  PROVE  /\ KeptSize(v, n) \in n .. s
         /\ \A i \in DOMAIN v : v[i] # None /\ v[i].m_Used => i < KeptSize(v, n)
         /\ KeptSize(v, n) > n => /\ KeptSize(v, n) - 1 \in DOMAIN v
                                  /\ v[KeptSize(v, n) - 1] # None
         /\ DOMAIN v \ Dropped(v, n) = 0 .. KeptSize(v, n) - 1
         /\ \A i \in Dropped(v, n) : v[i] = None \/ ~v[i].m_Used
<1> DEFINE U == {j \in DOMAIN v : v[j] # None /\ v[j].m_Used}
           M == {n} \cup {i + 1 : i \in U}
           k == KeptSize(v, n)
<1>1. M \in SUBSET (0 .. s) /\ n \in M
  OBVIOUS
<1>2. M \in SUBSET Nat /\ IsFiniteSet(M) /\ M # {}
  <2>1. IsFiniteSet(0 .. s)
    BY FS_Interval
  <2>2. IsFiniteSet(M)
    <3> HIDE DEF M
    <3> QED BY <1>1, <2>1, FS_Subset
  <2> QED BY <1>1, <2>2
<1>3. k \in M /\ \A y \in M : k >= y
  <2>1. \E x \in M : \A y \in M : x >= y
    BY <1>2, MaxExists
  <2>2. k = Max(M)
    BY DEF KeptSize
  <2> HIDE DEF M, k
  <2> QED BY <2>1, <2>2 DEF Max
<1> HIDE DEF k
<1>4. k \in n .. s
  <2>1. k \in 0 .. s /\ k >= n
    BY <1>1, <1>3
  <2> QED BY <2>1
<1>5. \A i \in DOMAIN v : v[i] # None /\ v[i].m_Used => i < k
  <2> SUFFICES ASSUME NEW i \in DOMAIN v, v[i] # None, v[i].m_Used PROVE i < k
    OBVIOUS
  <2>1. i + 1 \in M
    OBVIOUS
  <2>2. k >= i + 1
    <3> HIDE DEF M
    <3> QED BY <1>3, <2>1
  <2> QED BY <1>4, <2>2
<1>6. k > n => k - 1 \in DOMAIN v /\ v[k - 1] # None
  <2> SUFFICES ASSUME k > n PROVE k - 1 \in DOMAIN v /\ v[k - 1] # None
    OBVIOUS
  <2>1. PICK i \in U : k = i + 1
    BY <1>3, <1>4
  <2>2. k - 1 = i
    BY <2>1
  <2> QED BY <2>2
<1>7. DOMAIN v \ Dropped(v, n) = 0 .. k - 1
  BY <1>4 DEF Dropped, k
<1>8. \A i \in Dropped(v, n) : v[i] = None \/ ~v[i].m_Used
  <2> SUFFICES ASSUME NEW i \in Dropped(v, n), v[i] # None, v[i].m_Used PROVE FALSE
    OBVIOUS
  <2>1. i \in DOMAIN v /\ i >= k
    BY DEF Dropped, k
  <2>2. i < k
    BY <1>5, <2>1
  <2> QED BY <1>4, <2>1, <2>2
<1> QED BY <1>4, <1>5, <1>6, <1>7, <1>8 DEF k

(* The inductive invariant:                                                *)
(*   - the vector is at least as long as the count says, and longer only   *)
(*     if there is a client in its last slot;                              *)
(*   - a slot some user holds has a client that is marked used, and one    *)
(*     user;                                                               *)
(*   - the lists of the hosts are exact, that of "NULL" names empty slots; *)
(*   - unless the count may be 0, the list of "NULL" names all of them.    *)

MaxClients == Max(ClientCounts \cup {DefaultClientCnt})

ClientVecSize ==
  \E s \in Nat :
    /\ m_nCurClientCnt <= s /\ s <= MaxClients
    /\ DOMAIN m_VecClient = 0 .. s - 1
    /\ s > m_nCurClientCnt => m_VecClient[s - 1] # None

ClientInUse(i) ==
  i \in DOMAIN m_VecClient /\ m_VecClient[i] # None /\ m_VecClient[i].m_Used

ClientHeld == \A u \in Users : client[u] # None => ClientInUse(client[u])

RedisInv ==
  /\ RedisTypeOK
  /\ ClientVecSize
  /\ ClientHeld
  /\ NotShared
  /\ Typed(m_VecClient, m_MapUseable)
  /\ Exact(m_VecClient, m_MapUseable)
  /\ 0 \notin ClientCounts => AllListed(m_VecClient, m_MapUseable)

LEMMA MaxClientsBound ==
  /\ MaxClients \in Nat /\ MaxClients >= DefaultClientCnt
  /\ \A n \in ClientCounts : n <= MaxClients
<1> DEFINE S == ClientCounts \cup {DefaultClientCnt}
<1>1. S \in SUBSET (0 .. Word) /\ Word \in Nat /\ S # {}
  BY ClientCountAssumption
<1>2. S \in SUBSET Nat /\ IsFiniteSet(S)
  <2> HIDE DEF S
  <2>1. IsFiniteSet(0 .. Word)
    BY <1>1, FS_Interval
  <2>2. IsFiniteSet(S)
    BY <1>1, <2>1, FS_Subset
  <2>3. S \in SUBSET Nat
    BY <1>1
  <2> QED BY <2>2, <2>3
<1>3. \E x \in S : \A y \in S : x >= y
  BY <1>1, <1>2, MaxExists
<1>4. Max(S) \in S /\ \A y \in S : Max(S) >= y
  <2> HIDE DEF S
  <2> QED BY <1>3 DEF Max
<1>5. Max(S) = MaxClients
  BY DEF MaxClients
<1>6. \A y \in S : y \in Nat
  BY <1>2
<1>7. \A y \in S : y <= MaxClients /\ MaxClients \in Nat
  <2> HIDE DEF S
  <2> QED BY <1>4, <1>5, <1>6
<1> QED BY <1>7

\* Typing of the vector and the map, from the rest.
LEMMA RedisTyping ==
  ASSUME ClientVecSize, Typed(m_VecClient, m_MapUseable),
         m_nCurClientCnt \in ClientCounts \cup {DefaultClientCnt},
         client \in [Users -> ClientSlots \cup {None}],
         clientResizes \in 0 .. ResizeLimit,
         result \in [Users -> {"none", "refused", "failed", "client"}]
  PROVE  RedisTypeOK
<1>1. DOMAIN m_VecClient \subseteq ClientSlots
  BY MaxClientsBound DEF ClientVecSize, ClientSlots, MaxClients
<1> QED BY <1>1 DEF Typed, RedisTypeOK

LEMMA RedisTypingPrimed ==
  ASSUME ClientVecSize', Typed(m_VecClient', m_MapUseable'),
         m_nCurClientCnt' \in ClientCounts \cup {DefaultClientCnt},
         client' \in [Users -> ClientSlots \cup {None}],
         clientResizes' \in 0 .. ResizeLimit,
         result' \in [Users -> {"none", "refused", "failed", "client"}]
  PROVE  RedisTypeOK'
<1>1. DOMAIN m_VecClient' \subseteq ClientSlots
  BY MaxClientsBound DEF ClientVecSize, ClientSlots, MaxClients
<1> QED BY <1>1 DEF Typed, RedisTypeOK, ClientSlots

LEMMA RedisInvInit == RedisInit => RedisInv
<1> SUFFICES ASSUME RedisInit PROVE RedisInv
  OBVIOUS
<1> USE DEF RedisInit
<1> DEFINE n == DefaultClientCnt
           list == [i \in 1 .. n |-> i - 1]
<1>1. n \in Nat /\ n <= MaxClients /\ MaxClients \in Nat
  BY ClientCountAssumption, MaxClientsBound
<1>2. ClientVecSize
  BY <1>1 DEF ClientVecSize
<1>3. list \in Seq(ClientSlots) /\ IsInjective(list) /\ Range(list) = 0 .. n - 1
  <2>1. \A i \in 1 .. n : i - 1 \in ClientSlots
    BY <1>1 DEF ClientSlots, MaxClients
  <2>2. list \in Seq(ClientSlots)
    BY <1>1, <2>1
  <2>3. IsInjective(list)
    BY <1>1 DEF IsInjective
  <2>4. \A x \in 0 .. n - 1 : x + 1 \in 1 .. n /\ list[x + 1] = x
    BY <1>1
  <2>5. DOMAIN list = 1 .. n /\ \A j \in 1 .. n : list[j] \in 0 .. n - 1
    BY <1>1
  <2>6. Range(list) = 0 .. n - 1
    <3> HIDE DEF list
    <3> QED BY <2>4, <2>5 DEF Range
  <2> QED BY <2>2, <2>3, <2>6
<1>4. DOMAIN m_MapUseable = {Null} /\ m_MapUseable[Null] = list
  OBVIOUS
<1>5. DOMAIN m_VecClient = 0 .. n - 1 /\ \A i \in DOMAIN m_VecClient : m_VecClient[i] = None
  OBVIOUS
<1>6. clientResizes \in 0 .. ResizeLimit
  BY SlotAssumption
<1>7. \A u \in Users : client[u] = None
  OBVIOUS
<1>8. /\ m_nCurClientCnt \in ClientCounts \cup {DefaultClientCnt}
      /\ client \in [Users -> ClientSlots \cup {None}]
      /\ result \in [Users -> {"none", "refused", "failed", "client"}]
  OBVIOUS
<1> HIDE DEF RedisInit, list
<1>9. Typed(m_VecClient, m_MapUseable)
  BY <1>3, <1>4, <1>5, ClientCountAssumption DEF Typed
<1>10. Exact(m_VecClient, m_MapUseable) /\ AllListed(m_VecClient, m_MapUseable)
  <2>1. EmptyIn(m_VecClient) = 0 .. n - 1 /\ \A h \in Hosts : IdleIn(m_VecClient, h) = {}
    BY <1>5 DEF EmptyIn, IdleIn
  <2>2. ListOf(m_MapUseable, Null) = 0 .. n - 1 /\ \A h \in Hosts : ListOf(m_MapUseable, h) = {}
    BY <1>3, <1>4, ClientCountAssumption DEF ListOf
  <2> QED BY <2>1, <2>2 DEF Exact, AllListed
<1>11. ClientHeld /\ NotShared
  BY <1>7 DEF ClientHeld, NotShared
<1>12. RedisTypeOK
  BY <1>2, <1>6, <1>8, <1>9, RedisTyping
<1> QED BY <1>2, <1>9, <1>10, <1>11, <1>12 DEF RedisInv

\* What the invariant says of the vector.
LEMMA VecFacts ==
  ASSUME RedisInv
  PROVE  /\ \A i \in DOMAIN m_VecClient : i \in Nat /\ i \in ClientSlots /\ i # None
         /\ \A i \in DOMAIN m_VecClient : m_VecClient[i] \in Clients \cup {None}
         /\ client \in [Users -> ClientSlots \cup {None}]
         /\ m_nCurClientCnt \in Nat
<1>1. \A i \in DOMAIN m_VecClient : i \in Nat
  BY DEF RedisInv, ClientVecSize
<1>2. \A i \in DOMAIN m_VecClient : i \in ClientSlots /\ i # None
  BY <1>1, SlotAssumption DEF RedisInv, RedisTypeOK
<1>3. m_nCurClientCnt \in Nat
  BY ClientCountAssumption DEF RedisInv, RedisTypeOK
<1> QED BY <1>1, <1>2, <1>3 DEF RedisInv, Typed, RedisTypeOK

\* Marking a client used or free.
LEMMA MarkRecord ==
  ASSUME NEW B, NEW c \in [m_Host : Hosts, m_Used : B], NEW b
  PROVE  [c EXCEPT !.m_Used = b] = [m_Host |-> c.m_Host, m_Used |-> b]
  OBVIOUS

LEMMA MarkClient ==
  ASSUME NEW c \in Clients, NEW b
  PROVE  [c EXCEPT !.m_Used = b] = [m_Host |-> c.m_Host, m_Used |-> b]
  BY MarkRecord DEF Clients

LEMMA IsClient ==
  ASSUME NEW h \in Hosts, NEW b \in BOOLEAN
  PROVE  [m_Host |-> h, m_Used |-> b] \in Clients /\ [m_Host |-> h, m_Used |-> b] # None
<1>1. [m_Host |-> h, m_Used |-> b] \in Clients
  BY DEF Clients
<1> QED BY <1>1, ClientAssumption

\* The slot that getClient takes: an idle client of the host, or an empty slot
\* if the host has none.
LEMMA GetFacts ==
  ASSUME RedisInv, NEW u \in Users, NEW h \in Hosts, GetClient(u, h),
         NEW i, i = FrontSlot(h), NEW item, item = [m_Host |-> h, m_Used |-> TRUE]
  PROVE  /\ i \in DOMAIN m_VecClient /\ ~ClientInUse(i) /\ item \in Clients /\ item # None
         /\ m_VecClient' = [m_VecClient EXCEPT ![i] = item]
         /\ \/ /\ h \in DOMAIN m_MapUseable /\ i \in IdleIn(m_VecClient, h)
               /\ i = Head(m_MapUseable[h])
               /\ m_MapUseable' = IF Tail(m_MapUseable[h]) = <<>>
                                  THEN [g \in DOMAIN m_MapUseable \ {h} |-> m_MapUseable[g]]
                                  ELSE [m_MapUseable EXCEPT ![h] = Tail(m_MapUseable[h])]
            \/ /\ h \notin DOMAIN m_MapUseable /\ Null \in DOMAIN m_MapUseable
               /\ m_MapUseable[Null] # <<>> /\ i = Head(m_MapUseable[Null])
               /\ i \in EmptyIn(m_VecClient)
               /\ m_MapUseable' = [m_MapUseable EXCEPT ![Null] = Tail(m_MapUseable[Null])]
<1>1. i \in DOMAIN m_VecClient /\ ~NoList(h) /\ m_MapUseable' = TakeFront(h)
  BY DEF GetClient
<1>2. h # Null
  BY ClientCountAssumption
<1>3. item \in Clients /\ item # None
  BY IsClient
<1>4. CASE h \in DOMAIN m_MapUseable
  <2>1. ListName(h) = h
    BY <1>4 DEF ListName
  <2>2. m_MapUseable[h] # <<>> /\ m_MapUseable[h] \in Seq(ClientSlots) /\ i = Head(m_MapUseable[h])
    BY <1>4, <2>1 DEF RedisInv, Typed, FrontSlot
  <2>3. i \in IdleIn(m_VecClient, h)
    <3>1. i \in Range(m_MapUseable[h])
      BY <2>2, TailList
    <3>2. Range(m_MapUseable[h]) = IdleIn(m_VecClient, h)
      BY <1>4 DEF RedisInv, Exact, ListOf
    <3> QED BY <3>1, <3>2
  <2>4. m_VecClient[i] \in Clients /\ m_VecClient[i].m_Host = h /\ ~m_VecClient[i].m_Used
        /\ m_VecClient[i] # None
    BY <2>3, VecFacts DEF IdleIn
  <2>5. m_VecClient' = [m_VecClient EXCEPT ![i] = [m_VecClient[i] EXCEPT !.m_Used = TRUE]]
    BY <1>1, <2>4 DEF GetClient, Filled
  <2>6. [m_VecClient[i] EXCEPT !.m_Used = TRUE] = item
    BY <2>4, MarkClient
  <2>7. m_VecClient' = [m_VecClient EXCEPT ![i] = item]
    BY <2>5, <2>6
  <2>8. m_MapUseable' = IF Tail(m_MapUseable[h]) = <<>>
                        THEN [g \in DOMAIN m_MapUseable \ {h} |-> m_MapUseable[g]]
                        ELSE [m_MapUseable EXCEPT ![h] = Tail(m_MapUseable[h])]
    BY <1>1, <2>1 DEF TakeFront
  <2>9. ~ClientInUse(i)
    BY <2>4 DEF ClientInUse
  <2> QED BY <1>1, <1>3, <1>4, <2>2, <2>3, <2>7, <2>8, <2>9
<1>5. CASE h \notin DOMAIN m_MapUseable
  <2>1. ListName(h) = Null
    BY <1>5 DEF ListName
  <2>2. Null \in DOMAIN m_MapUseable /\ m_MapUseable[Null] # <<>> /\ i = Head(m_MapUseable[Null])
    BY <1>1, <2>1 DEF NoList, FrontSlot
  <2>3. i \in EmptyIn(m_VecClient)
    <3>1. m_MapUseable[Null] \in Seq(ClientSlots)
      BY <2>2 DEF RedisInv, Typed
    <3>2. i \in Range(m_MapUseable[Null])
      BY <2>2, <3>1, TailList
    <3>3. Range(m_MapUseable[Null]) \subseteq EmptyIn(m_VecClient)
      BY <2>2 DEF RedisInv, Exact, ListOf
    <3> QED BY <3>2, <3>3
  <2>4. m_VecClient' = [m_VecClient EXCEPT ![i] = item]
    BY <2>3 DEF GetClient, Filled, EmptyIn
  <2>5. m_MapUseable' = [m_MapUseable EXCEPT ![Null] = Tail(m_MapUseable[Null])]
    BY <1>1, <1>2, <2>1 DEF TakeFront
  <2>6. ~ClientInUse(i)
    BY <2>3 DEF ClientInUse, EmptyIn
  <2> QED BY <1>1, <1>3, <1>5, <2>2, <2>3, <2>4, <2>5, <2>6
<1> QED BY <1>4, <1>5

\* A slot nobody uses is taken, or a user gives its slot back.
LEMMA ClientClaimed ==
  ASSUME RedisInv, NEW u \in Users, NEW i \in DOMAIN m_VecClient, ~ClientInUse(i),
         client[u] = None,
         DOMAIN m_VecClient' = DOMAIN m_VecClient,
         \A j \in DOMAIN m_VecClient : j # i => m_VecClient'[j] = m_VecClient[j],
         ClientInUse(i)',
         client' = [client EXCEPT ![u] = i]
  PROVE  ClientHeld' /\ NotShared' /\ client' \in [Users -> ClientSlots \cup {None}]
<1>0. i # None /\ i \in ClientSlots /\ client \in [Users -> ClientSlots \cup {None}]
  BY VecFacts
<1>1. \A v \in Users : client[v] # i
  BY <1>0 DEF RedisInv, ClientHeld
<1>2. client'[u] = i /\ \A v \in Users : v # u => client'[v] = client[v]
  BY <1>0
<1>3. ClientHeld'
  BY <1>1, <1>2 DEF RedisInv, ClientHeld, ClientInUse
<1>4. NotShared'
  BY <1>1, <1>2 DEF RedisInv, NotShared
<1> QED BY <1>0, <1>3, <1>4

LEMMA ClientReleased ==
  ASSUME RedisInv, NEW u \in Users, NEW i \in DOMAIN m_VecClient, client[u] = i,
         DOMAIN m_VecClient' = DOMAIN m_VecClient,
         \A j \in DOMAIN m_VecClient : j # i => m_VecClient'[j] = m_VecClient[j],
         client' = [client EXCEPT ![u] = None]
  PROVE  ClientHeld' /\ NotShared' /\ client' \in [Users -> ClientSlots \cup {None}]
<1>0. i # None /\ client \in [Users -> ClientSlots \cup {None}]
  BY VecFacts
<1>1. \A v \in Users : v # u => client[v] # i
  BY <1>0 DEF RedisInv, NotShared
<1>2. client'[u] = None /\ \A v \in Users : v # u => client'[v] = client[v]
  BY <1>0
<1>3. ClientHeld'
  BY <1>1, <1>2 DEF RedisInv, ClientHeld, ClientInUse
<1>4. NotShared'
  BY <1>2 DEF RedisInv, NotShared
<1> QED BY <1>0, <1>3, <1>4

\* The vector keeps its length, and no slot of it loses its client.
LEMMA SameVecSize ==
  ASSUME RedisInv, DOMAIN m_VecClient' = DOMAIN m_VecClient,
         UNCHANGED m_nCurClientCnt,
         \A j \in DOMAIN m_VecClient : m_VecClient[j] # None => m_VecClient'[j] # None
  PROVE  ClientVecSize'
<1>1. PICK s \in Nat : /\ m_nCurClientCnt <= s /\ s <= MaxClients
                       /\ DOMAIN m_VecClient = 0 .. s - 1
                       /\ s > m_nCurClientCnt => m_VecClient[s - 1] # None
  BY DEF RedisInv, ClientVecSize
<1>2. s > m_nCurClientCnt => s - 1 \in DOMAIN m_VecClient
  BY <1>1, VecFacts
<1>3. s > m_nCurClientCnt => m_VecClient'[s - 1] # None
  BY <1>1, <1>2
<1> QED BY <1>1, <1>3 DEF ClientVecSize, MaxClients

LEMMA GetClientInv ==
  ASSUME RedisInv, NEW u \in Users, NEW h \in Hosts, GetClient(u, h)
  PROVE  RedisInv'
<1>1. PICK i : i = FrontSlot(h)
  OBVIOUS
<1>2. PICK item : item = [m_Host |-> h, m_Used |-> TRUE]
  OBVIOUS
<1> DEFINE v == m_VecClient
           f == m_MapUseable
<1>3. i \in DOMAIN v /\ ~ClientInUse(i) /\ item \in Clients /\ item # None
      /\ v' = [v EXCEPT ![i] = item]
  BY <1>1, <1>2, GetFacts
<1>4. DOMAIN v' = DOMAIN v /\ v'[i] = item /\ \A j \in DOMAIN v : j # i => v'[j] = v[j]
  BY <1>3
<1>5. /\ client[u] = None /\ client' = [client EXCEPT ![u] = i]
      /\ result' = [result EXCEPT ![u] = "client"]
      /\ UNCHANGED <<m_nCurClientCnt, clientResizes>>
  BY <1>1 DEF GetClient
<1>6. item.m_Used /\ item.m_Host = h
  BY <1>2
<1>7. ClientHeld' /\ NotShared' /\ client' \in [Users -> ClientSlots \cup {None}]
  <2>1. ClientInUse(i)'
    BY <1>3, <1>4, <1>6 DEF ClientInUse
  <2> QED BY <1>3, <1>4, <1>5, <2>1, ClientClaimed
<1>8. EmptyIn(v') = EmptyIn(v) \ {i} /\ \A g \in Hosts : IdleIn(v', g) = IdleIn(v, g) \ {i}
  BY <1>3, <1>4, <1>6 DEF EmptyIn, IdleIn
<1>9. ClientVecSize'
  BY <1>3, <1>4, <1>5, SameVecSize
<1>10. Typed(v', f') /\ Exact(v', f') /\ (AllListed(v, f) => AllListed(v', f'))
  <2>0. /\ \A j \in DOMAIN v' : v'[j] \in Clients \cup {None}
        /\ \A g \in Hosts : g # Null
        /\ Typed(v, f) /\ Exact(v, f)
    BY <1>3, <1>4, VecFacts, ClientCountAssumption DEF RedisInv
  <2>1. CASE h \in DOMAIN f
    <3>1. PICK l : l = Tail(f[h])
      OBVIOUS
    <3>2. f[h] \in Seq(ClientSlots) /\ f[h] # <<>> /\ IsInjective(f[h])
      BY <2>0, <2>1 DEF Typed
    <3>3. /\ i = Head(f[h]) /\ i \in IdleIn(v, h)
          /\ f' = IF l = <<>> THEN [g \in DOMAIN f \ {h} |-> f[g]] ELSE [f EXCEPT ![h] = l]
      BY <1>1, <1>2, <2>1, <3>1, GetFacts
    <3>4. l \in Seq(ClientSlots) /\ IsInjective(l) /\ Range(l) = Range(f[h]) \ {i}
      BY <3>1, <3>2, <3>3, TailList
    <3>5. l = <<>> => Range(l) = {}
      BY DEF Range
    <3>6. DOMAIN f' = IF l = <<>> THEN DOMAIN f \ {h} ELSE DOMAIN f
      BY <3>3
    <3>7. \A g \in DOMAIN f' : f'[g] = IF g = h THEN l ELSE f[g]
      BY <3>3, <3>6
    <3>8. h \in DOMAIN f' => l # <<>>
      BY <3>6
    <3>9. Typed(v', f')
      BY <2>0, <3>4, <3>6, <3>7, <3>8 DEF Typed
    <3>10. ListOf(f', h) = ListOf(f, h) \ {i} /\ \A g : g # h => ListOf(f', g) = ListOf(f, g)
      BY <2>1, <3>4, <3>5, <3>6, <3>7 DEF ListOf
    <3>11. \A g \in Hosts : g # h => i \notin IdleIn(v, g)
      BY <3>3 DEF IdleIn
    <3>12. i \notin EmptyIn(v)
      BY <3>3 DEF IdleIn, EmptyIn
    <3>13. Exact(v', f')
      <4>1. ListOf(f', h) = IdleIn(v', h)
        BY <1>8, <2>0, <3>10 DEF Exact
      <4>2. ASSUME NEW g \in Hosts, g # h PROVE ListOf(f', g) = IdleIn(v', g)
        <5>1. ListOf(f', g) = IdleIn(v, g)
          BY <2>0, <3>10, <4>2 DEF Exact
        <5>2. IdleIn(v', g) = IdleIn(v, g)
          BY <1>8, <3>11, <4>2
        <5> QED BY <5>1, <5>2
      <4>3. ListOf(f', Null) \subseteq EmptyIn(v')
        <5>1. Null # h /\ ListOf(f, Null) \subseteq EmptyIn(v)
          BY <2>0 DEF Exact
        <5>2. EmptyIn(v') = EmptyIn(v)
          BY <1>8, <3>12
        <5> QED BY <3>10, <5>1, <5>2
      <4> QED BY <4>1, <4>2, <4>3 DEF Exact
    <3>14. AllListed(v, f) => AllListed(v', f')
      BY <1>8, <2>0, <3>6, <3>10, <3>12 DEF AllListed
    <3> QED BY <3>9, <3>13, <3>14
  <2>2. CASE h \notin DOMAIN f
    <3>1. PICK l : l = Tail(f[Null])
      OBVIOUS
    <3>3. /\ Null \in DOMAIN f /\ f[Null] # <<>> /\ i = Head(f[Null]) /\ i \in EmptyIn(v)
          /\ f' = [f EXCEPT ![Null] = l]
      BY <1>1, <1>2, <2>2, <3>1, GetFacts
    <3>2. f[Null] \in Seq(ClientSlots) /\ IsInjective(f[Null])
      BY <2>0, <3>3 DEF Typed
    <3>4. l \in Seq(ClientSlots) /\ IsInjective(l) /\ Range(l) = Range(f[Null]) \ {i}
      BY <3>1, <3>2, <3>3, TailList
    <3>6. DOMAIN f' = DOMAIN f /\ \A g \in DOMAIN f' : f'[g] = IF g = Null THEN l ELSE f[g]
      BY <3>3
    <3>9. Typed(v', f')
      BY <2>0, <3>4, <3>6 DEF Typed
    <3>10. ListOf(f', Null) = ListOf(f, Null) \ {i}
           /\ \A g \in Hosts : ListOf(f', g) = ListOf(f, g)
      BY <2>0, <3>3, <3>4, <3>6 DEF ListOf
    <3>11. \A g \in Hosts : i \notin IdleIn(v, g)
      BY <3>3 DEF IdleIn, EmptyIn
    <3>13. Exact(v', f')
      BY <1>8, <2>0, <3>10, <3>11 DEF Exact
    <3>14. AllListed(v, f) => AllListed(v', f')
      BY <1>8, <3>6, <3>10 DEF AllListed
    <3> QED BY <3>9, <3>13, <3>14
  <2> QED BY <2>1, <2>2
<1>11. RedisTypeOK'
  <2>1. m_nCurClientCnt' \in ClientCounts \cup {DefaultClientCnt}
        /\ clientResizes' \in 0 .. ResizeLimit
    BY <1>5 DEF RedisInv, RedisTypeOK
  <2>2. result' \in [Users -> {"none", "refused", "failed", "client"}]
    BY <1>5 DEF RedisInv, RedisTypeOK
  <2> QED BY <1>4, <1>7, <1>9, <1>10, <2>1, <2>2, RedisTypingPrimed
<1> QED BY <1>7, <1>9, <1>10, <1>11 DEF RedisInv

LEMMA ReturnClientInv ==
  ASSUME RedisInv, NEW u \in Users, returnClient(u)
  PROVE  RedisInv'
<1> DEFINE v == m_VecClient
           f == m_MapUseable
<1>1. PICK i : i = client[u]
  OBVIOUS
<1>2. i # None /\ ClientInUse(i) /\ i \in DOMAIN v /\ v[i] \in Clients /\ i \in ClientSlots
  BY <1>1, VecFacts DEF returnClient, RedisInv, ClientHeld, ClientInUse
<1>3. PICK h \in Hosts : h = v[i].m_Host
  BY <1>2 DEF Clients
<1>4. PICK item : item = [m_Host |-> h, m_Used |-> FALSE]
  OBVIOUS
<1>5. item \in Clients /\ item # None /\ ~item.m_Used /\ item.m_Host = h
  BY <1>4, IsClient
<1>6. PICK old : old = IF h \in DOMAIN f THEN f[h] ELSE <<>>
  OBVIOUS
<1>7. PICK l : l = Append(old, i)
  OBVIOUS
<1>8. /\ v' = [v EXCEPT ![i] = item]
      /\ f' = SetList(f, h, l)
      /\ client' = [client EXCEPT ![u] = None]
      /\ UNCHANGED <<m_nCurClientCnt, result, clientResizes>>
  <2>1. v' = [v EXCEPT ![i] = [v[i] EXCEPT !.m_Used = FALSE]]
    BY <1>1 DEF returnClient
  <2>2. [v[i] EXCEPT !.m_Used = FALSE] = item
    BY <1>2, <1>3, <1>4, MarkClient
  <2>3. v' = [v EXCEPT ![i] = item]
    BY <2>1, <2>2
  <2>4. f' = SetList(f, h, l)
    BY <1>1, <1>3, <1>6, <1>7 DEF returnClient
  <2> QED BY <2>3, <2>4 DEF returnClient
<1>9. DOMAIN v' = DOMAIN v /\ v'[i] = item /\ \A j \in DOMAIN v : j # i => v'[j] = v[j]
  BY <1>2, <1>8
<1>10. ClientHeld' /\ NotShared' /\ client' \in [Users -> ClientSlots \cup {None}]
  BY <1>1, <1>2, <1>8, <1>9, ClientReleased
<1>11. ClientVecSize'
  BY <1>5, <1>8, <1>9, SameVecSize
<1>12. EmptyIn(v') = EmptyIn(v)
  BY <1>2, <1>5, <1>9 DEF EmptyIn, ClientInUse
<1>13. IdleIn(v', h) = IdleIn(v, h) \cup {i}
       /\ \A g \in Hosts : g # h => IdleIn(v', g) = IdleIn(v, g)
  BY <1>2, <1>3, <1>5, <1>9 DEF IdleIn, ClientInUse
<1>14. Typed(v', f') /\ Exact(v', f') /\ (AllListed(v, f) => AllListed(v', f'))
  <2>0. /\ \A j \in DOMAIN v' : v'[j] \in Clients \cup {None}
        /\ \A g \in Hosts : g # Null
        /\ Typed(v, f) /\ Exact(v, f)
    BY <1>5, <1>9, VecFacts, ClientCountAssumption DEF RedisInv
  <2>1. old \in Seq(ClientSlots) /\ IsInjective(old) /\ Range(old) = IdleIn(v, h)
    <3>1. CASE h \in DOMAIN f
      BY <1>6, <2>0, <3>1 DEF Typed, Exact, ListOf
    <3>2. CASE h \notin DOMAIN f
      <4>1. old = <<>> /\ IdleIn(v, h) = {}
        BY <1>6, <2>0, <3>2 DEF Exact, ListOf
      <4>2. IsInjective(<<>>) /\ Range(<<>>) = {} /\ <<>> \in Seq(ClientSlots)
        BY DEF IsInjective, Range
      <4> QED BY <4>1, <4>2
    <3> QED BY <3>1, <3>2
  <2>2. i \notin IdleIn(v, h)
    BY <1>2 DEF IdleIn, ClientInUse
  <2>3. l \in Seq(ClientSlots) /\ l # <<>> /\ IsInjective(l) /\ Range(l) = IdleIn(v, h) \cup {i}
    BY <1>2, <1>7, <2>1, <2>2, AppendList
  <2>4. DOMAIN f' = DOMAIN f \cup {h} /\ \A g \in DOMAIN f' : f'[g] = IF g = h THEN l ELSE f[g]
    BY <1>8 DEF SetList
  <2>5. Typed(v', f')
    BY <2>0, <2>3, <2>4 DEF Typed
  <2>6. ListOf(f', h) = IdleIn(v, h) \cup {i} /\ \A g : g # h => ListOf(f', g) = ListOf(f, g)
    BY <2>3, <2>4 DEF ListOf
  <2>7. Exact(v', f')
    BY <1>12, <1>13, <2>0, <2>6 DEF Exact
  <2>8. AllListed(v, f) => AllListed(v', f')
    BY <1>12, <2>0, <2>4, <2>6 DEF AllListed
  <2> QED BY <2>5, <2>7, <2>8
<1>15. RedisTypeOK'
  <2>1. m_nCurClientCnt' \in ClientCounts \cup {DefaultClientCnt}
        /\ clientResizes' \in 0 .. ResizeLimit
        /\ result' \in [Users -> {"none", "refused", "failed", "client"}]
    BY <1>8 DEF RedisInv, RedisTypeOK
  <2> QED BY <1>10, <1>11, <1>14, <2>1, RedisTypingPrimed
<1> QED BY <1>10, <1>11, <1>14, <1>15 DEF RedisInv

\* Slots are dropped from the end of the vector v, which differs from the
\* vector there is only in slots nobody uses, and their lists are in f.
LEMMA PopBackInv ==
  ASSUME RedisInv, NEW v, NEW f, Typed(v, f), Exact(v, f),
         0 \notin ClientCounts => AllListed(v, f),
         DOMAIN v = DOMAIN m_VecClient,
         \A j \in DOMAIN m_VecClient : ClientInUse(j) => v[j] = m_VecClient[j],
         NEW n \in ClientCounts \cup {DefaultClientCnt}, n <= m_nCurClientCnt,
         PopBack(v, f, n), m_nCurClientCnt' = n,
         clientResizes' \in 0 .. ResizeLimit, UNCHANGED <<client, result>>
  PROVE  RedisInv'
<1>1. PICK s \in Nat : /\ m_nCurClientCnt <= s /\ s <= MaxClients
                       /\ DOMAIN m_VecClient = 0 .. s - 1
  BY DEF RedisInv, ClientVecSize
<1>2. n \in Nat /\ n <= s
  BY <1>1, VecFacts, ClientCountAssumption
<1>3. PICK k : k = KeptSize(v, n)
  OBVIOUS
<1>4. PICK D : D = Dropped(v, n)
  OBVIOUS
<1>5. /\ k \in n .. s
      /\ \A i \in DOMAIN v : v[i] # None /\ v[i].m_Used => i < k
      /\ k > n => k - 1 \in DOMAIN v /\ v[k - 1] # None
      /\ DOMAIN v \ D = 0 .. k - 1
      /\ \A i \in D : v[i] = None \/ ~v[i].m_Used
      /\ D \in SUBSET DOMAIN v
  BY <1>1, <1>2, <1>3, <1>4, KeptFacts DEF Dropped
<1>6. /\ m_VecClient' = [i \in DOMAIN v \ D |-> v[i]]
      /\ m_MapUseable' = Unlisted(f, Listed(v, D))
  BY <1>4 DEF PopBack
<1>7. /\ Typed(m_VecClient', m_MapUseable') /\ Exact(m_VecClient', m_MapUseable')
      /\ AllListed(v, f) => AllListed(m_VecClient', m_MapUseable')
  <2>1. PICK w : w = m_VecClient'
    OBVIOUS
  <2>2. PICK g : g = m_MapUseable'
    OBVIOUS
  <2>3. Typed(w, g) /\ Exact(w, g) /\ (AllListed(v, f) => AllListed(w, g))
    BY <1>5, <1>6, <2>1, <2>2, PoppedMap
  <2> QED BY <2>1, <2>2, <2>3
<1>8. DOMAIN m_VecClient' = 0 .. k - 1 /\ \A i \in 0 .. k - 1 : m_VecClient'[i] = v[i]
  BY <1>5, <1>6
<1>9. ClientVecSize'
  <2>1. k \in Nat /\ n <= k /\ k <= MaxClients
    BY <1>1, <1>2, <1>5, MaxClientsBound
  <2>2. k > n => m_VecClient'[k - 1] # None
    <3>1. k > n => k - 1 \in 0 .. k - 1
      BY <1>2, <2>1
    <3> QED BY <1>5, <1>8, <3>1
  <2> QED BY <1>8, <2>1, <2>2 DEF ClientVecSize, MaxClients
<1>10. ClientHeld'
  <2> SUFFICES ASSUME NEW u \in Users, client[u] # None PROVE ClientInUse(client[u])'
    BY DEF ClientHeld
  <2>1. PICK i : i = client[u]
    OBVIOUS
  <2>2. ClientInUse(i)
    BY <2>1 DEF RedisInv, ClientHeld
  <2>3. i \in DOMAIN v /\ v[i] # None /\ v[i].m_Used
    BY <2>2 DEF ClientInUse
  <2>4. i \in 0 .. k - 1
    BY <1>1, <1>5, <2>3
  <2> QED BY <1>8, <2>1, <2>3, <2>4 DEF ClientInUse
<1>11. NotShared'
  BY DEF RedisInv, NotShared
<1>12. RedisTypeOK'
  <2>1. /\ client' \in [Users -> ClientSlots \cup {None}]
        /\ result' \in [Users -> {"none", "refused", "failed", "client"}]
    BY DEF RedisInv, RedisTypeOK
  <2> QED BY <1>7, <1>9, <2>1, RedisTypingPrimed
<1> QED BY <1>7, <1>9, <1>10, <1>11, <1>12 DEF RedisInv

LEMMA ShrinkInv ==
  ASSUME RedisInv, NEW n \in ClientCounts, Shrink(n)
  PROVE  RedisInv'
<1>1. PICK v : v = m_VecClient
  OBVIOUS
<1>2. PICK f : f = m_MapUseable
  OBVIOUS
<1>3. clientResizes' \in 0 .. ResizeLimit
  BY SlotAssumption DEF Shrink, Resize, RedisInv, RedisTypeOK
<1>4. n <= m_nCurClientCnt
  BY VecFacts, ClientCountAssumption DEF Shrink
<1>5. PopBack(v, f, n) /\ m_nCurClientCnt' = n /\ UNCHANGED <<client, result>>
  BY <1>1, <1>2 DEF Shrink
<1>6. Typed(v, f) /\ Exact(v, f) /\ (0 \notin ClientCounts => AllListed(v, f))
  BY <1>1, <1>2 DEF RedisInv
<1> QED BY <1>1, <1>3, <1>4, <1>5, <1>6, PopBackInv

LEMMA IdleFacts ==
  ASSUME RedisInv, NEW S \in SUBSET IdleClients
  PROVE  /\ S \in SUBSET DOMAIN m_VecClient /\ S \subseteq ClientSlots /\ IsFiniteSet(S)
         /\ \A i \in S : /\ m_VecClient[i] # None /\ ~m_VecClient[i].m_Used
                         /\ \A u \in Users : client[u] # i
<1>1. /\ S \in SUBSET DOMAIN m_VecClient
      /\ \A i \in S : m_VecClient[i] # None /\ ~m_VecClient[i].m_Used
  BY DEF IdleClients, Filled
<1>2. S \subseteq ClientSlots
  BY <1>1, VecFacts
<1>3. IsFiniteSet(S)
  <2>1. MaxClients - 1 \in Int /\ 0 \in Int
    BY MaxClientsBound
  <2>2. IsFiniteSet(ClientSlots)
    BY <2>1, FS_Interval DEF ClientSlots, MaxClients
  <2> QED BY <1>2, <2>2, FS_Subset
<1>4. \A i \in S, u \in Users : client[u] # i
  BY <1>1, VecFacts DEF RedisInv, ClientHeld, ClientInUse
<1> QED BY <1>1, <1>2, <1>3, <1>4

LEMMA CheckClientsInv ==
  ASSUME RedisInv, checkClients
  PROVE  RedisInv'
<1>1. PICK S \in SUBSET IdleClients :
        /\ PopBack(Closed(S), Emptied(S), m_nCurClientCnt)
        /\ UNCHANGED <<m_nCurClientCnt, client, result, clientResizes>>
  BY DEF checkClients
<1>2. PICK v : v = Closed(S)
  OBVIOUS
<1>3. PICK f : f = Emptied(S)
  OBVIOUS
<1>4. Typed(v, f) /\ Exact(v, f) /\ (0 \notin ClientCounts => AllListed(v, f))
  <2>1. PICK w : w = m_VecClient
    OBVIOUS
  <2>2. PICK e : e = m_MapUseable
    OBVIOUS
  <2>3. PICK g : g = Unlisted(e, Listed(w, S))
    OBVIOUS
  <2>4. v = Blank(w, S)
    BY <1>2, <2>1 DEF Closed, Blank
  <2>5. f = Joined(g, S)
    BY <1>3, <2>1, <2>2, <2>3 DEF Emptied, Joined
  <2>6. Typed(w, e) /\ Exact(w, e) /\ (0 \notin ClientCounts => AllListed(w, e))
    BY <2>1, <2>2 DEF RedisInv
  <2>7. /\ S \in SUBSET DOMAIN w /\ S \subseteq ClientSlots /\ IsFiniteSet(S)
        /\ \A i \in S : w[i] # None /\ ~w[i].m_Used
    BY <2>1, IdleFacts
  <2>8. Typed(w, e) /\ Exact(w, e) /\ IsFiniteSet(S) /\ S \subseteq ClientSlots
        /\ S \in SUBSET DOMAIN w
    BY <2>6, <2>7
  <2>9. \A i \in S : w[i] # None /\ ~w[i].m_Used
    BY <2>7
  <2>10. Typed(v, f) /\ Exact(v, f) /\ (AllListed(w, e) => AllListed(v, f))
    BY <2>3, <2>4, <2>5, <2>8, <2>9, ClosedMap
  <2> QED BY <2>6, <2>10
<1>5. /\ DOMAIN v = DOMAIN m_VecClient
      /\ \A j \in DOMAIN m_VecClient : ClientInUse(j) => v[j] = m_VecClient[j]
  BY <1>2, IdleFacts DEF Closed, ClientInUse
<1>6. PICK n : n = m_nCurClientCnt
  OBVIOUS
<1>7. n \in ClientCounts \cup {DefaultClientCnt} /\ n <= m_nCurClientCnt /\ m_nCurClientCnt' = n
      /\ clientResizes' \in 0 .. ResizeLimit
  BY <1>1, <1>6, VecFacts DEF RedisInv, RedisTypeOK
<1>8. PopBack(v, f, n)
  BY <1>1, <1>2, <1>3, <1>6
<1> QED BY <1>1, <1>4, <1>5, <1>7, <1>8, PopBackInv

\* The slots that a greater count adds to the list of "NULL", when no slot has
\* a client: all of them, if there was a slot.
LEMMA NewSlotFacts ==
  ASSUME RedisInv, NEW n \in ClientCounts, n > m_nCurClientCnt, Null \in DOMAIN m_MapUseable
  PROVE  /\ NewSlots(n) \in SUBSET (0 .. n - 1)
         /\ NewSlots(n) \cap ListOf(m_MapUseable, Null) = {}
         /\ m_nCurClientCnt > 0 =>
              m_nCurClientCnt .. n - 1 \subseteq NewSlots(n) \cup ListOf(m_MapUseable, Null)
<1> DEFINE c == m_nCurClientCnt
<1>1. n \in Nat /\ n < Word /\ Word \in Nat /\ Word > 0 /\ c \in Nat
  BY VecFacts, ClientCountAssumption
<1>2. (c - 1) % Word \in 0 .. Word - 1
  BY <1>1, DivMod
<1>3. c > 0 => (c - 1) % Word = c - 1
  BY <1>1, ModUnique
<1>4. m_MapUseable[Null] \in Seq(ClientSlots)
  BY DEF RedisInv, Typed
<1>5. \A i : Contains(m_MapUseable[Null], i) <=> i \in ListOf(m_MapUseable, Null)
  BY <1>4 DEF Contains, ListOf, Range
<1>6. NewSlots(n) = {i \in (c - 1) % Word .. n - 1 : i \notin ListOf(m_MapUseable, Null)}
  BY <1>5 DEF NewSlots
<1>7. NewSlots(n) \in SUBSET (0 .. n - 1)
  BY <1>1, <1>2, <1>6
<1>8. c > 0 => c .. n - 1 \subseteq NewSlots(n) \cup ListOf(m_MapUseable, Null)
  BY <1>1, <1>3, <1>6
<1> QED BY <1>6, <1>7, <1>8

LEMMA GrowInv ==
  ASSUME RedisInv, ~LateGrow, NEW n \in ClientCounts, Grow(n)
  PROVE  RedisInv'
<1> DEFINE c == m_nCurClientCnt
<1>1. c \in Nat /\ n \in Nat /\ n > c /\ n <= MaxClients /\ MaxClients \in Nat
  BY VecFacts, MaxClientsBound, ClientCountAssumption DEF Grow
<1>2. \A i \in DOMAIN m_VecClient : m_VecClient[i] = None
  BY DEF Grow, Filled
<1>3. DOMAIN m_VecClient = 0 .. c - 1
  <2>1. PICK s \in Nat : /\ c <= s /\ DOMAIN m_VecClient = 0 .. s - 1
                         /\ s > c => m_VecClient[s - 1] # None
    BY DEF RedisInv, ClientVecSize
  <2>2. ~(s > c)
    BY <1>1, <1>2, <2>1
  <2>3. s = c
    BY <1>1, <2>1, <2>2
  <2> QED BY <2>1, <2>3
<1>4. Size = c
  <2>1. 0 \in Int /\ c - 1 \in Int
    BY <1>1
  <2> QED BY <1>1, <1>3, <2>1, FS_Interval DEF Size
<1>5. Max({Size, n}) = n
  BY <1>1, <1>4 DEF Max
<1>6. DOMAIN m_VecClient' = 0 .. n - 1 /\ \A i \in 0 .. n - 1 : m_VecClient'[i] = None
  <2>1. m_VecClient' = [i \in 0 .. n - 1 |-> IF i < c THEN m_VecClient[i] ELSE None]
    BY <1>4, <1>5 DEF Grow
  <2> QED BY <1>1, <1>2, <1>3, <2>1
<1>7. PICK w : w = m_VecClient'
  OBVIOUS
<1>8. EmptyIn(w) = 0 .. n - 1 /\ \A h \in Hosts : IdleIn(w, h) = {}
  BY <1>6, <1>7 DEF EmptyIn, IdleIn
<1>9. EmptyIn(m_VecClient) = 0 .. c - 1 /\ \A h \in Hosts : IdleIn(m_VecClient, h) = {}
  BY <1>2, <1>3 DEF EmptyIn, IdleIn
<1>10. \A h \in Hosts : h \notin DOMAIN m_MapUseable
  <2> SUFFICES ASSUME NEW h \in Hosts, h \in DOMAIN m_MapUseable PROVE FALSE
    OBVIOUS
  <2>1. m_MapUseable[h] \in Seq(ClientSlots) /\ m_MapUseable[h] # <<>>
    BY DEF RedisInv, Typed
  <2>2. Range(m_MapUseable[h]) = {}
    BY <1>9 DEF RedisInv, Exact, ListOf
  <2> QED BY <2>1, <2>2, TailList
<1>11. ClientVecSize'
  <2>1. m_nCurClientCnt' = n
    BY DEF Grow
  <2> QED BY <1>1, <1>6, <2>1 DEF ClientVecSize, MaxClients
<1>12. ClientHeld' /\ NotShared'
  <2>1. \A u \in Users : client[u] = None
    BY <1>2 DEF RedisInv, ClientHeld, ClientInUse
  <2>2. UNCHANGED client
    BY DEF Grow
  <2> QED BY <2>1, <2>2 DEF ClientHeld, NotShared
<1>13. PICK g : g = m_MapUseable'
  OBVIOUS
<1>14. \A i \in DOMAIN w : w[i] \in Clients \cup {None}
  BY <1>6, <1>7
<1>15. Typed(w, g) /\ Exact(w, g) /\ (0 \notin ClientCounts => AllListed(w, g))
  <2>1. CASE Null \notin DOMAIN m_MapUseable
    <3>1. g = m_MapUseable
      BY <1>13, <2>1 DEF Grow
    <3>2. \A h \in Hosts \cup {Null} : h \notin DOMAIN g
      BY <1>10, <2>1, <3>1
    <3>3. Typed(w, g)
      BY <1>14, <3>1 DEF RedisInv, Typed
    <3>4. Exact(w, g) /\ AllListed(w, g)
      BY <1>8, <3>2 DEF Exact, AllListed, ListOf
    <3> QED BY <3>3, <3>4
  <2>2. CASE Null \in DOMAIN m_MapUseable
    <3>1. PICK N : N = NewSlots(n)
      OBVIOUS
    <3>2. PICK old : old = m_MapUseable[Null]
      OBVIOUS
    <3>3. PICK L : L = ListOf(m_MapUseable, Null)
      OBVIOUS
    <3>4. /\ N \in SUBSET (0 .. n - 1) /\ N \cap L = {}
          /\ c > 0 => c .. n - 1 \subseteq N \cup L
      BY <1>1, <2>2, <3>1, <3>3, NewSlotFacts
    <3>5. /\ old \in Seq(ClientSlots) /\ IsInjective(old) /\ Range(old) = L
          /\ L \subseteq 0 .. c - 1
          /\ 0 \notin ClientCounts => L = 0 .. c - 1
      BY <1>9, <2>2, <3>2, <3>3 DEF RedisInv, Typed, Exact, AllListed, ListOf
    <3>6. Ascending(N) \in Seq(ClientSlots) /\ IsInjective(Ascending(N)) /\ Range(Ascending(N)) = N
      <4>1. IsFiniteSet(0 .. n - 1)
        BY <1>1, FS_Interval
      <4>2. N \in SUBSET Nat /\ IsFiniteSet(N)
        <5>1. N \in SUBSET Nat
          BY <1>1, <3>4
        <5>2. IsFiniteSet(N)
          BY <3>4, <4>1, FS_Subset
        <5> QED BY <5>1, <5>2
      <4>3. N \subseteq ClientSlots
        BY <1>1, <3>4 DEF ClientSlots, MaxClients
      <4>4. Ascending(N) \in Seq(N) /\ IsInjective(Ascending(N)) /\ Range(Ascending(N)) = N
        BY <4>2, AscendingList
      <4>5. Ascending(N) \in Seq(ClientSlots)
        BY <4>3, <4>4, SeqMonotonic
      <4> QED BY <4>4, <4>5
    <3>7. PICK j : j = old \o Ascending(N)
      OBVIOUS
    <3>8. j \in Seq(ClientSlots) /\ IsInjective(j) /\ Range(j) = L \cup N
      <4>1. PICK a : a = Ascending(N)
        OBVIOUS
      <4>2. a \in Seq(ClientSlots) /\ IsInjective(a) /\ Range(a) = N
        BY <3>6, <4>1
      <4>3. Range(old) \cap Range(a) = {}
        BY <3>4, <3>5, <4>2
      <4>4. j = old \o a
        BY <3>7, <4>1
      <4>5. j \in Seq(ClientSlots) /\ IsInjective(j) /\ Range(j) = Range(old) \cup Range(a)
        BY <3>5, <4>2, <4>3, <4>4, JoinLists
      <4> QED BY <3>5, <4>2, <4>5
    <3>9. g = [m_MapUseable EXCEPT ![Null] = j]
      BY <1>13, <2>2, <3>1, <3>2, <3>7 DEF Grow
    <3>10. DOMAIN g = DOMAIN m_MapUseable /\ g[Null] = j
      BY <2>2, <3>9
    <3>11. DOMAIN g = {Null}
      BY <1>10, <2>2, <3>10 DEF RedisInv, Typed
    <3>12. ListOf(g, Null) = L \cup N /\ \A h \in Hosts : h \notin DOMAIN g /\ ListOf(g, h) = {}
      BY <1>10, <3>8, <3>10, <3>11 DEF ListOf
    <3>13. Typed(w, g)
      BY <1>14, <3>8, <3>10, <3>11, <3>12 DEF Typed
    <3>14. Exact(w, g)
      <4>1. L \cup N \subseteq 0 .. n - 1
        BY <1>1, <3>4, <3>5
      <4> QED BY <1>8, <3>12, <4>1 DEF Exact
    <3>15. 0 \notin ClientCounts => AllListed(w, g)
      <4> SUFFICES ASSUME 0 \notin ClientCounts PROVE L \cup N = 0 .. n - 1
        BY <1>8, <3>12 DEF AllListed
      <4>1. c > 0
        BY <1>1, ClientCountAssumption DEF RedisInv, RedisTypeOK
      <4>2. \A i \in 0 .. n - 1 : i \in 0 .. c - 1 \/ i \in c .. n - 1
        BY <1>1
      <4>3. 0 .. c - 1 \subseteq 0 .. n - 1
        BY <1>1
      <4> QED BY <3>4, <3>5, <4>1, <4>2, <4>3
    <3> QED BY <3>13, <3>14, <3>15
  <2> QED BY <2>1, <2>2
<1>16. /\ Typed(m_VecClient', m_MapUseable') /\ Exact(m_VecClient', m_MapUseable')
       /\ 0 \notin ClientCounts => AllListed(m_VecClient', m_MapUseable')
  BY <1>7, <1>13, <1>15
<1>17. RedisTypeOK'
  <2>1. /\ client' \in [Users -> ClientSlots \cup {None}]
        /\ result' \in [Users -> {"none", "refused", "failed", "client"}]
        /\ m_nCurClientCnt' \in ClientCounts \cup {DefaultClientCnt}
    BY DEF Grow, RedisInv, RedisTypeOK
  <2>2. clientResizes' \in 0 .. ResizeLimit
    BY SlotAssumption DEF Grow, Resize, RedisInv, RedisTypeOK
  <2> QED BY <1>11, <1>16, <2>1, <2>2, RedisTypingPrimed
<1> QED BY <1>11, <1>12, <1>16, <1>17 DEF RedisInv

\* Neither the vector nor the lists change.
LEMMA SameClientsInv ==
  ASSUME RedisInv, UNCHANGED <<m_VecClient, m_MapUseable, m_nCurClientCnt, client, clientResizes>>,
         result' \in [Users -> {"none", "refused", "failed", "client"}]
  PROVE  RedisInv'
<1>1. RedisTypeOK'
  BY DEF RedisInv, RedisTypeOK, ClientSlots
<1>2. ClientVecSize' /\ ClientHeld' /\ NotShared'
  BY DEF RedisInv, ClientVecSize, MaxClients, ClientHeld, ClientInUse, NotShared
<1>3. /\ Typed(m_VecClient', m_MapUseable') /\ Exact(m_VecClient', m_MapUseable')
      /\ 0 \notin ClientCounts => AllListed(m_VecClient', m_MapUseable')
  BY DEF RedisInv
<1> QED BY <1>1, <1>2, <1>3 DEF RedisInv

LEMMA RedisInvNext ==
  ASSUME ~LateGrow
  PROVE  RedisInv /\ [RedisNext]_redisVars => RedisInv'
<1> SUFFICES ASSUME RedisInv, [RedisNext]_redisVars PROVE RedisInv'
  OBVIOUS
<1>0. result \in [Users -> {"none", "refused", "failed", "client"}]
  BY DEF RedisInv, RedisTypeOK
<1>1. ASSUME NEW u \in Users, NEW h \in Hosts, RefuseClient(u, h) \/ NoNewClient(u, h)
      PROVE  RedisInv'
  BY <1>0, <1>1, SameClientsInv DEF RefuseClient, NoNewClient, Answer
<1>2. ASSUME NEW u \in Users, NEW h \in Hosts, GetClient(u, h) PROVE RedisInv'
  BY <1>2, GetClientInv
<1>3. ASSUME NEW u \in Users, returnClient(u) PROVE RedisInv'
  BY <1>3, ReturnClientInv
<1>4. CASE checkClients
  BY <1>4, CheckClientsInv
<1>5. ASSUME NEW n \in ClientCounts, Shrink(n) PROVE RedisInv'
  BY <1>5, ShrinkInv
<1>6. ASSUME NEW n \in ClientCounts, Grow(n) PROVE RedisInv'
  BY <1>6, GrowInv
<1>7. CASE UNCHANGED redisVars
  BY <1>0, <1>7, SameClientsInv DEF redisVars
<1> QED BY <1>1, <1>2, <1>3, <1>4, <1>5, <1>6, <1>7 DEF RedisNext, RedisUser

-----------------------------------------------------------------------------
LEMMA RedisInvLists == RedisInv => RedisTypeOK /\ ClientListsExact
<1> SUFFICES ASSUME RedisInv PROVE RedisTypeOK /\ ClientListsExact
  OBVIOUS
<1> DEFINE v == m_VecClient
           f == m_MapUseable
<1>1. Typed(v, f) /\ Exact(v, f) /\ RedisTypeOK
  BY DEF RedisInv
<1>2. \A h : {i \in IdleClients : v[i].m_Host = h} = IdleIn(v, h)
  BY DEF IdleClients, Filled, IdleIn
<1>3. DOMAIN v \ Filled = EmptyIn(v)
  BY DEF Filled, EmptyIn
<1>4. \A h \in Hosts \cap DOMAIN f : f[h] # <<>> /\ IsInjective(f[h])
  BY <1>1 DEF Typed
<1>5. \A h \in Hosts : {i \in IdleClients : v[i].m_Host = h} =
                         IF h \in DOMAIN f THEN Range(f[h]) ELSE {}
  BY <1>1, <1>2 DEF Exact, ListOf
<1>6. Null \in DOMAIN f => IsInjective(f[Null]) /\ Range(f[Null]) \subseteq DOMAIN v \ Filled
  BY <1>1, <1>3 DEF Typed, Exact, ListOf
<1> QED BY <1>1, <1>4, <1>5, <1>6 DEF ClientListsExact

(* The lists of CRedisClientPool are exact in every reachable state, for   *)
(* any number of users, hosts and slots and whatever counts it is given,   *)
(* as long as setClientCnt raises the count only when no client exists.    *)
(* (With clients there it does not hold: run redis_grow.)                  *)
THEOREM RedisListsExact ==
  ASSUME ~LateGrow
  PROVE  RedisSpec => [](RedisTypeOK /\ ClientListsExact)
<1>1. RedisInv /\ [RedisNext]_redisVars => RedisInv'
  BY RedisInvNext
<1> QED BY RedisInvInit, <1>1, RedisInvLists, PTL DEF RedisSpec

LEMMA ClientRefusalWhenFull ==
  ASSUME RedisInv, [RedisNext]_redisVars, 0 \notin ClientCounts,
         ClientRefusal, Null \in DOMAIN m_MapUseable
  PROVE  ClientsFull
<1>0. result \in [Users -> {"none", "refused", "failed", "client"}]
  BY DEF RedisInv, RedisTypeOK
<1>1. PICK u \in Users : result[u] # "refused" /\ result'[u] = "refused"
  BY DEF ClientRefusal
<1>2. PICK h \in Hosts : NoList(h)
  <2>1. ASSUME NEW w \in Users, NEW h \in Hosts, NoNewClient(w, h) \/ GetClient(w, h) PROVE FALSE
    <3>1. PICK r \in {"failed", "client"} : result' = [result EXCEPT ![w] = r]
      BY <2>1 DEF NoNewClient, GetClient, Answer
    <3> QED BY <1>0, <1>1, <3>1
  <2>2. ASSUME NEW w \in Users, returnClient(w) PROVE FALSE
    BY <1>1, <2>2 DEF returnClient
  <2>3. ~checkClients /\ ~UNCHANGED redisVars
    BY <1>1 DEF checkClients, redisVars
  <2>4. ASSUME NEW n \in ClientCounts, Shrink(n) \/ Grow(n) PROVE FALSE
    BY <1>1, <2>4 DEF Shrink, Grow
  <2> QED BY <2>1, <2>2, <2>3, <2>4 DEF RedisNext, RedisUser, RefuseClient
<1>3. m_MapUseable[Null] = <<>>
  BY <1>2 DEF NoList, ListName, RedisInv, Typed
<1>4. EmptyIn(m_VecClient) = {}
  <2>1. Range(<<>>) = {}
    BY DEF Range
  <2>2. EmptyIn(m_VecClient) = Range(m_MapUseable[Null])
    BY DEF RedisInv, AllListed, ListOf
  <2> QED BY <1>3, <2>1, <2>2
<1> QED BY <1>4 DEF ClientsFull, Filled, EmptyIn

(* CRedisClientPool loses no slot while it has a list of empty ones:       *)
(* getClient refuses only when every slot holds a client.  The count is    *)
(* raised only when no client exists, and is never 0: from 0 the loop of   *)
(* setClientCnt starts at the greatest unsigned number and lists no slot.  *)
THEOREM RedisNoSlotLost ==
  ASSUME ~LateGrow, 0 \notin ClientCounts
  PROVE  RedisSpec => NoClientSlotLost
<1>1. RedisInv /\ [RedisNext]_redisVars => RedisInv'
  BY RedisInvNext
<1>2. RedisInv /\ [RedisNext]_redisVars =>
        [ClientRefusal /\ Null \in DOMAIN m_MapUseable => ClientsFull]_redisVars
  BY ClientRefusalWhenFull
<1> QED BY RedisInvInit, <1>1, <1>2, PTL DEF RedisSpec, NoClientSlotLost

-----------------------------------------------------------------------------
(* CRedisClientPool implements SlotPool.                                   *)

LEMMA HostsFacts ==
  ASSUME RedisInv
  PROVE  /\ ClientHosts \in [ClientSlots -> Hosts \cup {None}]
         /\ \A i \in ClientSlots :
              ClientHosts[i] = IF i \in Filled THEN m_VecClient[i].m_Host ELSE None
<1>1. \A i \in ClientSlots : i \in Filled => m_VecClient[i].m_Host \in Hosts
  BY VecFacts DEF Filled, Clients
<1> QED BY <1>1 DEF ClientHosts

LEMMA HostsPrimed ==
  ClientHosts' = [i \in ClientSlots |-> IF i \in Filled' THEN m_VecClient'[i].m_Host ELSE None]
  BY DEF ClientHosts, ClientSlots

\* The host of slot i is set to h.
LEMMA OneHost ==
  ASSUME RedisInv, NEW i \in DOMAIN m_VecClient, NEW item, item # None,
         m_VecClient' = [m_VecClient EXCEPT ![i] = item]
  PROVE  i \in ClientSlots /\ ClientHosts' = [ClientHosts EXCEPT ![i] = item.m_Host]
<1>1. i \in ClientSlots
  BY VecFacts
<1>2. i \in Filled' /\ m_VecClient'[i] = item
  BY DEF Filled
<1>3. \A j \in ClientSlots : j # i => /\ j \in Filled' <=> j \in Filled
                                      /\ j \in Filled => m_VecClient'[j] = m_VecClient[j]
  BY DEF Filled
<1>4. DOMAIN ClientHosts = ClientSlots
  BY DEF ClientHosts
<1>5. \A j \in ClientSlots : (IF j \in Filled' THEN m_VecClient'[j].m_Host ELSE None)
                                = IF j = i THEN item.m_Host ELSE ClientHosts[j]
  <2> SUFFICES ASSUME NEW j \in ClientSlots, j # i
               PROVE  (IF j \in Filled' THEN m_VecClient'[j].m_Host ELSE None) = ClientHosts[j]
    BY <1>2
  <2>1. ClientHosts[j] = IF j \in Filled THEN m_VecClient[j].m_Host ELSE None
    BY HostsFacts
  <2>2. CASE j \in Filled
    BY <1>3, <2>1, <2>2
  <2>3. CASE j \notin Filled
    BY <1>3, <2>1, <2>3
  <2> QED BY <2>2, <2>3
<1>6. ClientHosts' = [j \in ClientSlots |-> IF j = i THEN item.m_Host ELSE ClientHosts[j]]
  BY <1>5, HostsPrimed
<1> QED BY <1>1, <1>4, <1>6

LEMMA GetClientRefines ==
  ASSUME RedisInv, NEW u \in Users, NEW h \in Hosts, GetClient(u, h)
  PROVE  \E i \in ClientSlots : ClientPool!Get(u, h, i)
<1>1. PICK i : i = FrontSlot(h)
  OBVIOUS
<1>2. PICK item : item = [m_Host |-> h, m_Used |-> TRUE]
  OBVIOUS
<1>3. /\ i \in DOMAIN m_VecClient /\ ~ClientInUse(i) /\ item # None
      /\ m_VecClient' = [m_VecClient EXCEPT ![i] = item]
      /\ i \in IdleIn(m_VecClient, h) \/ i \in EmptyIn(m_VecClient)
  BY <1>1, <1>2, GetFacts
<1>4. item.m_Host = h
  BY <1>2
<1>5. i \in ClientSlots /\ ClientHosts' = [ClientHosts EXCEPT ![i] = h]
  BY <1>3, <1>4, OneHost
<1>6. ClientHosts[i] \in {None, h}
  BY <1>3, <1>5, HostsFacts DEF Filled, IdleIn, EmptyIn
<1>7. client[u] = None /\ client' = [client EXCEPT ![u] = i]
  BY <1>1 DEF GetClient
<1>8. \A w \in Users : client[w] # i
  BY <1>3, VecFacts DEF RedisInv, ClientHeld
<1> QED BY <1>5, <1>6, <1>7, <1>8 DEF ClientPool!Get, ClientPool!NotHeld

LEMMA ReturnClientRefines ==
  ASSUME RedisInv, NEW u \in Users, returnClient(u)
  PROVE  ClientPool!Return(u)
<1>1. PICK i : i = client[u]
  OBVIOUS
<1>2. i # None /\ ClientInUse(i) /\ i \in DOMAIN m_VecClient /\ m_VecClient[i] \in Clients
  BY <1>1, VecFacts DEF returnClient, RedisInv, ClientHeld, ClientInUse
<1>3. PICK h \in Hosts : h = m_VecClient[i].m_Host
  BY <1>2 DEF Clients
<1>4. PICK item : item = [m_Host |-> h, m_Used |-> FALSE]
  OBVIOUS
<1>5. item # None /\ item.m_Host = h
  BY <1>4, IsClient
<1>6. m_VecClient' = [m_VecClient EXCEPT ![i] = item]
  <2>1. m_VecClient' = [m_VecClient EXCEPT ![i] = [m_VecClient[i] EXCEPT !.m_Used = FALSE]]
    BY <1>1 DEF returnClient
  <2>2. [m_VecClient[i] EXCEPT !.m_Used = FALSE] = item
    BY <1>2, <1>3, <1>4, MarkClient
  <2> QED BY <2>1, <2>2
<1>7. i \in ClientSlots /\ ClientHosts' = [ClientHosts EXCEPT ![i] = h]
  BY <1>2, <1>5, <1>6, OneHost
<1>8. ClientHosts[i] = h
  BY <1>2, <1>3, <1>7, HostsFacts DEF ClientInUse, Filled
<1>9. ClientHosts' = ClientHosts
  BY <1>7, <1>8, HostsFacts
<1>10. client' = [client EXCEPT ![u] = None]
  BY DEF returnClient
<1> QED BY <1>1, <1>2, <1>9, <1>10 DEF ClientPool!Return

\* The clients of slots that nobody holds are deleted, S of them before the
\* vector v, which is left, is cut.
LEMMA PopBackRefines ==
  ASSUME RedisInv, NEW S \in SUBSET DOMAIN m_VecClient,
         \A i \in S : ~ClientInUse(i),
         NEW v, DOMAIN v = DOMAIN m_VecClient, \A i \in S : v[i] = None,
         \A i \in DOMAIN m_VecClient : i \notin S => v[i] = m_VecClient[i],
         NEW f,
         NEW n \in ClientCounts \cup {DefaultClientCnt}, n <= m_nCurClientCnt,
         PopBack(v, f, n), UNCHANGED client
  PROVE  \E T \in SUBSET ClientSlots : ClientPool!Close(T)
<1>1. PICK s \in Nat : m_nCurClientCnt <= s /\ DOMAIN m_VecClient = 0 .. s - 1
  BY DEF RedisInv, ClientVecSize
<1>2. n \in Nat /\ n <= s
  BY <1>1, VecFacts, ClientCountAssumption
<1>3. PICK D : D = Dropped(v, n)
  OBVIOUS
<1>4. /\ DOMAIN v = DOMAIN m_VecClient
      /\ \A i \in S : v[i] = None
      /\ \A i \in DOMAIN m_VecClient : i \notin S => v[i] = m_VecClient[i]
  OBVIOUS
<1>5. (\A i \in D : v[i] = None \/ ~v[i].m_Used) /\ D \in SUBSET DOMAIN m_VecClient
  BY <1>1, <1>2, <1>3, <1>4, KeptFacts DEF Dropped
<1>6. m_VecClient' = [i \in DOMAIN v \ D |-> v[i]]
  BY <1>3 DEF PopBack
<1>7. PICK T : T = S \cup D
  OBVIOUS
<1>8. T \in SUBSET ClientSlots /\ T \in SUBSET DOMAIN m_VecClient
  BY <1>5, <1>7, VecFacts
<1>9. \A i \in T : ~ClientInUse(i)
  BY <1>4, <1>5, <1>7 DEF ClientInUse
<1>10. \A i \in T : \A u \in Users : client[u] # i
  BY <1>8, <1>9, VecFacts DEF RedisInv, ClientHeld
<1>11. ClientHosts' = [i \in ClientSlots |-> IF i \in T THEN None ELSE ClientHosts[i]]
  <2>1. \A i \in ClientSlots : i \in Filled' <=> i \in Filled /\ i \notin T
    BY <1>4, <1>6, <1>7 DEF Filled
  <2>2. \A i \in ClientSlots : i \in Filled /\ i \notin T => m_VecClient'[i] = m_VecClient[i]
    BY <1>4, <1>6, <1>7 DEF Filled
  <2> QED BY <2>1, <2>2, HostsPrimed, HostsFacts
<1> QED BY <1>8, <1>10, <1>11 DEF ClientPool!Close, ClientPool!NotHeld

LEMMA CheckClientsRefines ==
  ASSUME RedisInv, checkClients
  PROVE  \E T \in SUBSET ClientSlots : ClientPool!Close(T)
<1>1. PICK S \in SUBSET IdleClients :
        /\ PopBack(Closed(S), Emptied(S), m_nCurClientCnt)
        /\ UNCHANGED client
  BY DEF checkClients
<1>2. PICK v : v = Closed(S)
  OBVIOUS
<1>3. PICK f : f = Emptied(S)
  OBVIOUS
<1>4. PICK n : n = m_nCurClientCnt
  OBVIOUS
<1>5. /\ DOMAIN v = DOMAIN m_VecClient /\ \A i \in S : v[i] = None
      /\ \A i \in DOMAIN m_VecClient : i \notin S => v[i] = m_VecClient[i]
  BY <1>2, IdleFacts DEF Closed
<1>6. S \in SUBSET DOMAIN m_VecClient /\ \A i \in S : ~ClientInUse(i)
  BY IdleFacts DEF ClientInUse
<1>7. n \in ClientCounts \cup {DefaultClientCnt} /\ n <= m_nCurClientCnt
  BY <1>4, VecFacts DEF RedisInv, RedisTypeOK
<1>8. PopBack(v, f, n)
  BY <1>1, <1>2, <1>3, <1>4
<1> QED BY <1>1, <1>5, <1>6, <1>7, <1>8, PopBackRefines

LEMMA ShrinkRefines ==
  ASSUME RedisInv, NEW n \in ClientCounts, Shrink(n)
  PROVE  \E T \in SUBSET ClientSlots : ClientPool!Close(T)
<1>1. PICK v : v = m_VecClient
  OBVIOUS
<1>2. PICK f : f = m_MapUseable
  OBVIOUS
<1>3. n <= m_nCurClientCnt
  BY VecFacts, ClientCountAssumption DEF Shrink
<1>4. PopBack(v, f, n) /\ UNCHANGED client
  BY <1>1, <1>2 DEF Shrink
<1>5. PICK S : S = {}
  OBVIOUS
<1>6. S \in SUBSET DOMAIN m_VecClient /\ \A i \in S : ~ClientInUse(i) /\ v[i] = None
  BY <1>5
<1> QED BY <1>1, <1>3, <1>4, <1>6, PopBackRefines

\* The new slots have no client.
LEMMA GrowRefines ==
  ASSUME RedisInv, ~LateGrow, NEW n \in ClientCounts, Grow(n)
  PROVE  UNCHANGED <<client, ClientHosts>>
<1>1. Filled = {}
  BY DEF Grow
<1>2. \A i \in DOMAIN m_VecClient' : m_VecClient'[i] = None
  <2>1. PICK s \in Nat : DOMAIN m_VecClient = 0 .. s - 1
    BY DEF RedisInv, ClientVecSize
  <2>2. 0 \in Int /\ s - 1 \in Int
    OBVIOUS
  <2>3. Size = s
    BY <2>1, <2>2, FS_Interval DEF Size
  <2>4. m_VecClient' = [i \in 0 .. Max({Size, n}) - 1 |->
                          IF i < Size THEN m_VecClient[i] ELSE None]
    BY DEF Grow
  <2> QED BY <1>1, <2>1, <2>3, <2>4 DEF Filled
<1>3. Filled' = {}
  BY <1>2 DEF Filled
<1>4. ClientHosts' = ClientHosts
  BY <1>1, <1>3, HostsPrimed DEF ClientHosts
<1> QED BY <1>4 DEF Grow

LEMMA SameClientsRefine ==
  ASSUME UNCHANGED <<m_VecClient, client>>
  PROVE  UNCHANGED <<client, ClientHosts>>
  BY DEF ClientHosts, Filled, ClientSlots

LEMMA RedisNextRefines ==
  ASSUME ~LateGrow
  PROVE  RedisInv /\ [RedisNext]_redisVars => [ClientPool!Next]_<<client, ClientHosts>>
<1> SUFFICES ASSUME RedisInv, [RedisNext]_redisVars
             PROVE  [ClientPool!Next]_<<client, ClientHosts>>
  OBVIOUS
<1>1. ASSUME NEW u \in Users, NEW h \in Hosts, RefuseClient(u, h) \/ NoNewClient(u, h)
      PROVE  UNCHANGED <<client, ClientHosts>>
  BY <1>1, SameClientsRefine DEF RefuseClient, NoNewClient, Answer
<1>2. ASSUME NEW u \in Users, NEW h \in Hosts, GetClient(u, h) PROVE ClientPool!Next
  BY <1>2, GetClientRefines DEF ClientPool!Next
<1>3. ASSUME NEW u \in Users, returnClient(u) PROVE ClientPool!Next
  BY <1>3, ReturnClientRefines DEF ClientPool!Next
<1>4. CASE checkClients
  BY <1>4, CheckClientsRefines DEF ClientPool!Next
<1>5. ASSUME NEW n \in ClientCounts, Shrink(n) PROVE ClientPool!Next
  BY <1>5, ShrinkRefines DEF ClientPool!Next
<1>6. ASSUME NEW n \in ClientCounts, Grow(n) PROVE UNCHANGED <<client, ClientHosts>>
  BY <1>6, GrowRefines
<1>7. CASE UNCHANGED redisVars
  BY <1>7, SameClientsRefine DEF redisVars
<1> QED BY <1>1, <1>2, <1>3, <1>4, <1>5, <1>6, <1>7 DEF RedisNext, RedisUser

LEMMA RedisInitRefines == RedisInit => ClientPool!Init
<1> SUFFICES ASSUME RedisInit PROVE ClientPool!Init
  OBVIOUS
<1>1. Filled = {}
  BY DEF RedisInit, Filled
<1> QED BY <1>1 DEF RedisInit, ClientPool!Init, ClientHosts

(* CRedisClientPool implements SlotPool, as long as setClientCnt raises    *)
(* the count only when no client exists: two users never share a client,   *)
(* getClient returns one to the host it was asked for, and neither the     *)
(* ticker nor setClientCnt deletes one that a user has.                    *)
THEOREM RedisRefinement ==
  ASSUME ~LateGrow
  PROVE  RedisSpec => RedisImplementsSlotPool
<1>1. RedisInv /\ [RedisNext]_redisVars => RedisInv'
  BY RedisInvNext
<1>2. RedisInv /\ [RedisNext]_redisVars => [ClientPool!Next]_<<client, ClientHosts>>
  BY RedisNextRefines
<1> QED BY RedisInvInit, RedisInitRefines, <1>1, <1>2, PTL
        DEF RedisSpec, RedisImplementsSlotPool, ClientPool!Spec

-----------------------------------------------------------------------------
(* Both pools.                                                             *)

\* The model of both is each pool's specification, for either stutters when
\* the other one moves.
LEMMA BothPools == MCSpec => Spec /\ RedisSpec
<1>1. MCInit => Init /\ RedisInit
  BY DEF MCInit
<1>2. [MCNext]_<<vars, redisVars, which>> => [Next]_vars /\ [RedisNext]_redisVars
  BY DEF MCNext
<1> QED BY <1>1, <1>2, PTL DEF MCSpec, Spec, RedisSpec

(* The lists of both pools are exact: CPGConnectionPool's idle connections *)
(* under their URL, CRedisClientPool's idle clients under their host, and  *)
(* the empty slots under "NULL"; the latter as long as setClientCnt raises *)
(* the count only while no Redis client exists (~LateGrow).                *)
THEOREM PoolListsExact ==
  ASSUME ~LateGrow
  PROVE  MCSpec => []ListsExact
<1>1. RedisSpec => [](RedisTypeOK /\ ClientListsExact)
  BY RedisListsExact
<1> QED BY BothPools, PGListsExact, <1>1, PTL DEF ListsExact

(* Both pools implement SlotPool, CRedisClientPool as long as setClientCnt *)
(* raises the count only while no client exists (~LateGrow).               *)
THEOREM PoolRefinement ==
  ASSUME ~LateGrow
  PROVE  MCSpec => PoolsImplementSlotPool
<1>1. RedisSpec => RedisImplementsSlotPool
  BY RedisRefinement
<1> QED BY BothPools, PGRefinement, <1>1, PTL DEF PoolsImplementSlotPool
=============================================================================
