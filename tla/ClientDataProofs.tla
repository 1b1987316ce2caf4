------------------------- MODULE ClientDataProofs -------------------------
(***************************************************************************)
(* Proofs that the threads of the client do together what one would do:    *)
(* load the participants' lists, parse a file, enrich a list; and that an  *)
(* upload keeps the order.  For any files, lists, participants and threads.*)
(***************************************************************************)
EXTENDS ClientData, SequenceTheorems, FiniteSetTheorems, TLAPS

LEMMA Counts == N \in Nat \ {0} /\ K \in Nat \ {0} /\ K <= N /\ \A i \in 1 .. N : People[i] \in Users
<1>1. N \in Nat \ {0} /\ \A i \in 1 .. N : People[i] \in Users
  BY PeopleType DEF N
<1>2. Threads \in Nat \ {0}
  BY SizesType
<1>3. \E m \in {Threads, N} : \A y \in {Threads, N} : m <= y
  BY <1>1, <1>2
<1>4. K \in {Threads, N} /\ K <= N
  BY <1>3 DEF K, Min
<1>. QED  BY <1>1, <1>2, <1>4

\* Index i is one of thread w's: w, w + K, w + 2 K and so on.
Of(w, i) == \E m \in Nat : i = w + K * m

LEMMA Times ==
  ASSUME NEW k \in Nat, NEW m \in Nat, NEW d \in Nat
  PROVE  /\ k * m \in Nat /\ k * d \in Nat
         /\ k * (m + 1) = k * m + k /\ k * (m + 1 + d) = k * m + k + k * d
  OBVIOUS

\* An index is of one thread, at one place.
LEMMA OneThread ==
  ASSUME NEW k \in Nat \ {0}, NEW w \in 1 .. k, NEW v \in 1 .. k, NEW m \in Nat, NEW n \in Nat,
         w + k * m = v + k * n
  PROVE  w = v /\ m = n
<1>1. ASSUME NEW a \in 1 .. k, NEW b \in 1 .. k, NEW x \in Nat, NEW y \in Nat, x < y,
             a + k * x = b + k * y
      PROVE  FALSE
  <2>. DEFINE d == y - x - 1
  <2>1. d \in Nat /\ y = x + 1 + d
    BY <1>1
  <2>. HIDE DEF d
  <2>2. k * y = k * x + k + k * d
    BY <2>1
  <2>3. k * d \in Nat /\ k * x \in Nat
    BY <2>1
  <2>. QED  BY <1>1, <2>2, <2>3
<1>2. m = n
  BY <1>1
<1>. QED  BY <1>2

\* Every index is of some thread.
LEMMA SomeThread ==
  ASSUME NEW i \in Nat \ {0}
  PROVE  \E w \in 1 .. K : Of(w, i)
<1>. DEFINE m == (i - 1) \div K
            w == ((i - 1) % K) + 1
<1>1. K \in Nat \ {0}
  BY Counts
<1>2. i - 1 = K * m + ((i - 1) % K) /\ m \in Nat /\ ((i - 1) % K) \in 0 .. K - 1
  BY <1>1
<1>3. w \in 1 .. K /\ i = w + K * m
  BY <1>1, <1>2
<1>. QED  BY <1>2, <1>3 DEF Of
-----------------------------------------------------------------------------
(* The parallel loader.                                                    *)

\* The list of i was asked for.
Asked(i) == \E w \in 1 .. K : Of(w, i) /\ i < next[w]

\* The indexes asked for in vain, and the places in the report, of user u.
Refused(u) == {i \in 1 .. N : Asked(i) /\ People[i] = u /\ ~Good(i)}
Reports(u) == {j \in DOMAIN missing : missing[j] = u}

LoadInv ==
  job = "load" =>
    /\ next \in [1 .. K -> Nat] /\ \A w \in 1 .. K : Of(w, next[w])
    /\ DOMAIN answer = 1 .. N /\ answer = [i \in 1 .. N |-> answer[i]]
    /\ DOMAIN loaded = 1 .. N /\ loaded = [i \in 1 .. N |-> loaded[i]]
    /\ missing \in Seq(Users)
    /\ \A i \in 1 .. N : loaded[i] = IF Asked(i) /\ Good(i) THEN lists[People[i]] ELSE None
    /\ \A u \in Users : Cardinality(Reports(u)) = Cardinality(Refused(u))

LEMMA LoadInit == Init => LoadInv
  BY DEF Init, LoadInv

\* The first requests are about to be made.
LEMMA LoadBegins ==
  ASSUME next' = [w \in 1 .. K |-> w], answer' = [i \in 1 .. N |-> None], loaded' = answer',
         missing' = <<>>
  PROVE  LoadInv' /\ \A i : ~Asked(i)'
<1>1. /\ K \in Nat \ {0} /\ N \in Nat
      /\ next' \in [1 .. K -> Nat] /\ \A w \in 1 .. K : next'[w] = w
  BY Counts
<1>2. \A w \in 1 .. K : Of(w, next'[w])
  <2>1. \A w \in 1 .. K : w = w + K * 0
    BY <1>1
  <2>. QED  BY <1>1, <2>1 DEF Of
<1>3. \A i : \A w \in 1 .. K : Of(w, i) => ~(i < w)
  BY <1>1 DEF Of
<1>4. \A i : ~Asked(i)'
  BY <1>1, <1>3 DEF Asked
<1>5. \A u : Refused(u)' = {} /\ Reports(u)' = {}
  BY <1>4 DEF Refused, Reports
<1>6. missing' \in Seq(Users)
  OBVIOUS
<1>. QED  BY <1>1, <1>2, <1>4, <1>5, <1>6 DEF LoadInv

\* A thread asks for an index nobody asked for, and for no other.
LEMMA AsksOnce ==
  ASSUME next \in [1 .. K -> Nat], \A v \in 1 .. K : Of(v, next[v]), NEW w \in 1 .. K,
         NEW i, i = next[w], next' = [next EXCEPT ![w] = After(i)]
  PROVE  /\ next' \in [1 .. K -> Nat] /\ \A v \in 1 .. K : Of(v, next'[v])
         /\ i \in Nat \ {0} /\ ~Asked(i)
         /\ \A j : Asked(j)' <=> Asked(j) \/ j = i
<1>1. PICK m \in Nat : i = w + K * m
  BY DEF Of
<1>2. K \in Nat \ {0} /\ K * m \in Nat
  BY <1>1, Counts
<1>3. i \in Nat \ {0} /\ After(i) = i + K
  BY <1>1, <1>2 DEF After
<1>4. next' \in [1 .. K -> Nat] /\ next'[w] = i + K /\ \A v \in 1 .. K : v # w => next'[v] = next[v]
  BY <1>2, <1>3
<1>5. Of(w, i + K)
  <2>1. m \in Nat /\ 0 \in Nat /\ K \in Nat
    BY <1>1, <1>2
  <2>2. K * (m + 1) = K * m + K
    BY <2>1, Times
  <2>3. m + 1 \in Nat /\ i + K = w + K * (m + 1)
    BY <1>1, <1>2, <2>2
  <2>. QED  BY <2>3 DEF Of
<1>6. \A v \in 1 .. K : Of(v, next'[v])
  BY <1>4, <1>5
<1>7. ~Asked(i)
  <2>1. ASSUME NEW v \in 1 .. K, Of(v, i), i < next[v] PROVE FALSE
    <3>1. PICK n \in Nat : i = v + K * n
      BY <2>1 DEF Of
    <3>2. w + K * m = v + K * n
      BY <1>1, <3>1
    <3>3. v = w
      BY <1>2, <3>2, OneThread
    <3>. QED  BY <1>3, <2>1, <3>3
  <2>. QED  BY <2>1 DEF Asked
<1>8. ASSUME NEW j, Asked(j) PROVE Asked(j)'
  <2>1. PICK v \in 1 .. K : Of(v, j) /\ j < next[v]
    BY <1>8 DEF Asked
  <2>2. j \in Nat
    <3>1. PICK n \in Nat : j = v + K * n
      BY <2>1 DEF Of
    <3>2. K * n \in Nat
      BY <1>2
    <3>. QED  BY <3>1, <3>2
  <2>3. next[v] \in Nat /\ next'[v] \in Nat /\ next[v] <= next'[v]
    BY <1>2, <1>3, <1>4
  <2>4. j < next'[v]
    BY <2>1, <2>2, <2>3
  <2>. QED  BY <2>1, <2>4 DEF Asked
<1>9. Asked(i)'
  <2>1. i < next'[w]
    BY <1>2, <1>3, <1>4
  <2>. QED  BY <1>1, <1>2, <2>1 DEF Asked, Of
<1>10. ASSUME NEW j, Asked(j)', j # i PROVE Asked(j)
  <2>1. PICK v \in 1 .. K : Of(v, j) /\ j < next'[v]
    BY <1>10 DEF Asked
  <2>2. CASE v # w
    BY <1>4, <2>1, <2>2 DEF Asked
  <2>3. CASE v = w
    <3>1. PICK n \in Nat : j = w + K * n
      BY <2>1, <2>3 DEF Of
    <3>2. K * n \in Nat /\ K * n < K * m + K
      BY <1>1, <1>2, <1>4, <2>1, <2>3, <3>1
    <3>3. n < m
      <4>1. ASSUME n > m PROVE FALSE
        <5>1. n - m - 1 \in Nat /\ n = m + 1 + (n - m - 1)
          BY <4>1
        <5>2. ASSUME NEW d \in Nat, n = m + 1 + d PROVE FALSE
          <6>1. K * n = K * m + K + K * d /\ K * d \in Nat
            BY <1>2, <5>2, Times
          <6>. QED  BY <1>2, <3>2, <6>1
        <5>. QED  BY <5>1, <5>2
      <4>2. n # m
        BY <1>1, <1>10, <3>1
      <4>. QED  BY <4>1, <4>2
    <3>4. K * n < K * m
      <4>1. ASSUME NEW d \in Nat, m = n + 1 + d PROVE K * n < K * m
        <5>1. K * m = K * n + K + K * d /\ K * d \in Nat
          BY <1>2, <4>1, Times
        <5>. QED  BY <1>2, <3>2, <5>1
      <4>2. m - n - 1 \in Nat /\ m = n + 1 + (m - n - 1)
        BY <3>3
      <4>. QED  BY <4>1, <4>2
    <3>5. j < next[w]
      BY <1>1, <1>2, <3>1, <3>2, <3>4
    <3>. QED  BY <2>1, <2>3, <3>5 DEF Asked
  <2>. QED  BY <2>2, <2>3
<1>. QED  BY <1>3, <1>4, <1>6, <1>7, <1>8, <1>9, <1>10

\* One more report of x and one more index of x refused, or neither.
LEMMA OneMore ==
  ASSUME missing \in Seq(Users), NEW x \in Users, NEW u \in Users, missing' = Append(missing, x)
  PROVE  Cardinality(Reports(u)') = IF u = x THEN Cardinality(Reports(u)) + 1
                                    ELSE Cardinality(Reports(u))
<1>. DEFINE n == Len(missing)
<1>1. /\ n \in Nat /\ DOMAIN missing = 1 .. n /\ DOMAIN missing' = 1 .. n + 1
      /\ missing'[n + 1] = x /\ \A j \in 1 .. n : missing'[j] = missing[j]
  OBVIOUS
<1>. HIDE DEF n
<1>2. IsFiniteSet(Reports(u)) /\ n + 1 \notin Reports(u)
  <2>1. IsFiniteSet(1 .. n)
    BY <1>1, FS_Interval
  <2>2. Reports(u) \subseteq 1 .. n
    BY <1>1 DEF Reports
  <2>. QED  BY <1>1, <2>1, <2>2, FS_Subset
<1>3. Reports(u)' = IF u = x THEN Reports(u) \cup {n + 1} ELSE Reports(u)
  <2>1. 1 .. n + 1 = (1 .. n) \cup {n + 1}
    BY <1>1
  <2>2. Reports(u)' = {j \in 1 .. n + 1 : missing'[j] = u} /\ Reports(u) = {j \in 1 .. n : missing[j] = u}
    BY <1>1 DEF Reports
  <2>. QED  BY <1>1, <2>1, <2>2
<1>. QED  BY <1>2, <1>3, FS_AddElement

LEMMA LoadNextStep ==
  ASSUME LoadInv, NEW w \in 1 .. K, LoadNext(w), NEW i, i = next[w]
  PROVE  LoadInv'
<1>1. /\ job = "load" /\ job' = job /\ lists' = lists /\ i <= N
      /\ next' = [next EXCEPT ![w] = After(i)]
  BY DEF LoadNext
<1>2. /\ next \in [1 .. K -> Nat] /\ \A v \in 1 .. K : Of(v, next[v])
      /\ DOMAIN answer = 1 .. N /\ DOMAIN loaded = 1 .. N
      /\ answer = [j \in 1 .. N |-> answer[j]] /\ loaded = [j \in 1 .. N |-> loaded[j]]
      /\ missing \in Seq(Users)
      /\ \A j \in 1 .. N : loaded[j] = IF Asked(j) /\ Good(j) THEN lists[People[j]] ELSE None
      /\ \A u \in Users : Cardinality(Reports(u)) = Cardinality(Refused(u))
  BY <1>1 DEF LoadInv
<1>3. /\ next' \in [1 .. K -> Nat] /\ \A v \in 1 .. K : Of(v, next'[v])
      /\ i \in Nat \ {0} /\ ~Asked(i) /\ \A j : Asked(j)' <=> Asked(j) \/ j = i
  BY <1>1, <1>2, AsksOnce
<1>4. i \in 1 .. N /\ N \in Nat /\ People[i] \in Users
  BY <1>1, <1>3, Counts
<1>5. PICK ok \in BOOLEAN :
        /\ answer' = [answer EXCEPT ![i] = IF ok THEN "ok" ELSE "failed"]
        /\ IF ok /\ Usable(i)
           THEN loaded' = [loaded EXCEPT ![i] = lists[People[i]]] /\ UNCHANGED missing
           ELSE missing' = Append(missing, People[i]) /\ UNCHANGED loaded
  BY DEF LoadNext
<1>6. /\ DOMAIN answer' = 1 .. N /\ answer'[i] = (IF ok THEN "ok" ELSE "failed")
      /\ answer' = [j \in 1 .. N |-> answer'[j]]
      /\ \A j \in 1 .. N : j # i => answer'[j] = answer[j]
  BY <1>2, <1>4, <1>5
<1>7. \A j : Usable(j)' <=> Usable(j)
  BY <1>1 DEF Usable
<1>8. /\ Good(i)' <=> ok /\ Usable(i)
      /\ \A j \in 1 .. N : j # i => (Good(j)' <=> Good(j))
  <2>1. \A j : Good(j)' <=> answer'[j] = "ok" /\ Usable(j)
    BY <1>7, Zenon DEF Good
  <2>2. answer'[i] = "ok" <=> ok
    BY <1>6
  <2>. QED  BY <1>6, <2>1, <2>2, Zenon DEF Good
<1>9. IsFiniteSet(1 .. N) /\ \A u : IsFiniteSet(Refused(u)) /\ i \notin Refused(u)
  <2>1. IsFiniteSet(1 .. N)
    BY <1>4, FS_Interval
  <2>2. \A u : Refused(u) \subseteq 1 .. N
    BY DEF Refused
  <2>3. \A u : i \notin Refused(u)
    BY <1>3 DEF Refused
  <2>. QED  BY <2>1, <2>2, <2>3, FS_Subset
<1>10. \A u : Refused(u)' = IF People[i] = u /\ ~Good(i)' THEN Refused(u) \cup {i} ELSE Refused(u)
  <2>. TAKE u
  <2>1. \A j \in 1 .. N : j # i => (j \in Refused(u)' <=> j \in Refused(u))
    BY <1>3, <1>8, Zenon DEF Refused
  <2>2. i \in Refused(u)' <=> People[i] = u /\ ~Good(i)'
    BY <1>3, <1>4, Zenon DEF Refused
  <2>3. i \notin Refused(u) /\ Refused(u) \subseteq 1 .. N /\ Refused(u)' \subseteq 1 .. N
    BY <1>9 DEF Refused
  <2>4. CASE People[i] = u /\ ~Good(i)'
    <3>1. Refused(u)' = Refused(u) \cup {i}
      BY <1>4, <2>1, <2>2, <2>3, <2>4
    <3>. QED  BY <2>4, <3>1, Zenon
  <2>5. CASE ~(People[i] = u /\ ~Good(i)')
    <3>1. Refused(u)' = Refused(u)
      BY <1>4, <2>1, <2>2, <2>3, <2>5
    <3>. QED  BY <2>5, <3>1, Zenon
  <2>. QED  BY <2>4, <2>5
<1>11. CASE ok /\ Usable(i)
  <2>1. loaded' = [loaded EXCEPT ![i] = lists[People[i]]] /\ missing' = missing /\ Good(i)'
    BY <1>5, <1>8, <1>11
  <2>2. /\ DOMAIN loaded' = 1 .. N /\ loaded' = [j \in 1 .. N |-> loaded'[j]]
        /\ \A j \in 1 .. N : loaded'[j] = IF j = i THEN lists[People[i]] ELSE loaded[j]
    BY <1>2, <1>4, <2>1
  <2>3. \A u \in Users : Cardinality(Reports(u)') = Cardinality(Refused(u)')
    BY <1>2, <1>10, <2>1 DEF Reports
  <2>4. ASSUME NEW j \in 1 .. N
        PROVE  loaded'[j] = IF Asked(j)' /\ Good(j)' THEN lists'[People[j]] ELSE None
    <3>1. CASE j = i
      <4>1. Asked(j)' /\ Good(j)'
        BY <1>3, <2>1, <3>1, Zenon
      <4>2. loaded'[j] = lists'[People[j]]
        BY <1>1, <2>2, <3>1
      <4>. QED  BY <4>1, <4>2, Zenon
    <3>2. CASE j # i
      <4>1. (Asked(j)' /\ Good(j)') <=> (Asked(j) /\ Good(j))
        BY <1>3, <1>8, <3>2, Zenon
      <4>2. loaded'[j] = loaded[j] /\ lists' = lists
        BY <1>1, <2>2, <3>2
      <4>. QED  BY <1>2, <4>1, <4>2, Zenon
    <3>. QED  BY <3>1, <3>2
  <2>. QED  BY <1>2, <1>3, <1>6, <2>1, <2>2, <2>3, <2>4 DEF LoadInv
<1>12. CASE ~(ok /\ Usable(i))
  <2>1. loaded' = loaded /\ missing' = Append(missing, People[i]) /\ ~Good(i)'
    BY <1>5, <1>8, <1>12
  <2>2. missing' \in Seq(Users)
    BY <1>2, <1>4, <2>1
  <2>3. ASSUME NEW u \in Users PROVE Cardinality(Reports(u)') = Cardinality(Refused(u)')
    <3>1. Cardinality(Reports(u)') = IF u = People[i] THEN Cardinality(Reports(u)) + 1
                                     ELSE Cardinality(Reports(u))
      BY <1>2, <1>4, <2>1, OneMore
    <3>2. Cardinality(Refused(u)') = IF u = People[i] THEN Cardinality(Refused(u)) + 1
                                     ELSE Cardinality(Refused(u))
      BY <1>9, <1>10, <2>1, FS_AddElement
    <3>. QED  BY <1>2, <3>1, <3>2
  <2>4. ASSUME NEW j \in 1 .. N
        PROVE  loaded'[j] = IF Asked(j)' /\ Good(j)' THEN lists'[People[j]] ELSE None
    <3>1. (Asked(j)' /\ Good(j)') <=> (Asked(j) /\ Good(j))
      <4>1. CASE j = i
        BY <1>3, <2>1, <4>1, Zenon
      <4>2. CASE j # i
        BY <1>3, <1>8, <4>2, Zenon
      <4>. QED  BY <4>1, <4>2
    <3>. QED  BY <1>1, <1>2, <2>1, <3>1, Zenon
  <2>. QED  BY <1>2, <1>3, <1>6, <2>1, <2>2, <2>3, <2>4 DEF LoadInv
<1>. QED  BY <1>11, <1>12

LEMMA LoadStep == LoadInv /\ [Next]_vars => LoadInv'
<1>. SUFFICES ASSUME LoadInv, [Next]_vars PROVE LoadInv'
  OBVIOUS
<1> USE DEF parsing, loading, enriching
<1>1. ASSUME job' # "load" PROVE LoadInv'
  BY <1>1 DEF LoadInv
<1>2. CASE UNCHANGED vars
  <2>1. UNCHANGED <<job, next, answer, loaded, missing, lists>>
    BY <1>2 DEF vars
  <2>2. \A i : /\ Asked(i)' <=> Asked(i)
               /\ Good(i)' <=> Good(i)
    BY <2>1 DEF Asked, Good, Usable
  <2>3. \A u : Reports(u)' = Reports(u) /\ Refused(u)' = Refused(u)
    BY <2>1, <2>2 DEF Reports, Refused
  <2>. QED  BY <2>1, <2>2, <2>3 DEF LoadInv
<1>3. ASSUME NEW w \in 1 .. K, LoadNext(w) PROVE LoadInv'
  <2>1. PICK i : i = next[w]
    OBVIOUS
  <2>. QED  BY <1>3, <2>1, LoadNextStep
<1>4. CASE EndOwn
  BY <1>1, <1>4, LoadBegins DEF EndOwn
<1>5. CASE \/ \E k \in Sections : ParseSection(k)
           \/ \E w \in 1 .. Threads : EnrichChunk(w)
           \/ JoinParsers \/ Upload \/ LoadInTurn \/ EndLoad \/ EndFeed
           \/ \E u \in Users : StartUpload(u) \/ StartLogin(u)
  <2>1. job' # "load"
    BY <1>5 DEF ParseSection, EnrichChunk, JoinParsers, Parsed, Upload, LoadInTurn, EndLoad, EndFeed,
       StartUpload, StartLogin, Generate, BeginEnrich
  <2>. QED  BY <1>1, <2>1
<1>. QED  BY <1>2, <1>3, <1>4, <1>5 DEF Next, Work

\* loadParticipantsWithWatchLaterParallel, for any participants, also some who
\* are named twice, and any number of threads: together they ask for everybody's
\* list once, put it where it belongs or report its owner missing once, and lose
\* none to another thread.
THEOREM ThreadsLoadAsOne == Spec => []LoadedAsOne
<1>1. LoadInv => LoadedAsOne
  <2>. SUFFICES ASSUME LoadInv, Loaded PROVE LoadedAsOne
    BY DEF LoadedAsOne
  <2>1. job = "load" /\ \A w \in 1 .. K : next[w] > N
    BY DEF Loaded
  <2>2. N \in Nat /\ K \in Nat \ {0} /\ next \in [1 .. K -> Nat]
    BY <2>1, Counts DEF LoadInv
  <2>3. ASSUME NEW i \in 1 .. N PROVE Asked(i)
    <3>1. PICK w \in 1 .. K : Of(w, i)
      BY <2>2, SomeThread
    <3>2. i < next[w]
      BY <2>1, <2>2
    <3>. QED  BY <3>1, <3>2 DEF Asked
  <2>4. \A u : Refused(u) = {i \in 1 .. N : People[i] = u /\ ~Good(i)}
    BY <2>3 DEF Refused
  <2>. QED  BY <2>1, <2>3, <2>4 DEF LoadInv, LoadedAsOne, Reports
<1>. QED  BY <1>1, LoadInit, LoadStep, PTL DEF Spec
-----------------------------------------------------------------------------
(* Sets of positions, and what a sequence holds there.                     *)

\* A set of naturals that is not empty has a least one.
LEMMA Least ==
  ASSUME NEW T, T \subseteq Nat, T # {}
  PROVE  \E x \in T : \A y \in T : x <= y
<1> DEFINE Below(n) == {y \in T : y <= n}
           F == {Below(n) : n \in T}
<1>1. \A n \in T : Below(n) \in FiniteSubsetsOf(Nat)
  BY FS_BoundedSetOfNaturals DEF FiniteSubsetsOf
<1>2. F \subseteq FiniteSubsetsOf(Nat) /\ F # {}
  BY <1>1
<1>3. IsWellFoundedOn(StrictSubsetOrdering(Nat), FiniteSubsetsOf(Nat))
  BY FS_StrictSubsetOrderingWellFounded
<1>4. PICK b \in F : \A c \in F : ~ (<<c, b>> \in StrictSubsetOrdering(Nat))
  BY <1>2, <1>3, WFMin
<1>5. PICK x \in T : b = Below(x)
  BY <1>4
<1>6. ASSUME NEW y \in T PROVE x <= y
  <2>1. SUFFICES ASSUME y < x PROVE FALSE
    OBVIOUS
  <2>0. \A z \in T : z \in Nat
    OBVIOUS
  <2>2. /\ \A z \in T : z <= y => z <= x
        /\ x <= x /\ ~(x <= y)
    BY <2>0, <2>1
  <2>3. Below(y) \subseteq Below(x) /\ x \in Below(x) /\ x \notin Below(y)
    BY <2>2, Zenon
  <2>4. Below(y) \in F /\ Below(y) \subseteq Nat /\ b \subseteq Nat
    BY <1>5
  <2>. QED  BY <1>4, <1>5, <2>3, <2>4 DEF StrictSubsetOrdering
<1>. QED  BY <1>6

\* How many numbers of S are below x grows with x.
LEMMA Ranks ==
  ASSUME NEW S \in SUBSET Nat, IsFiniteSet(S)
  PROVE  LET rank(x) == Cardinality({y \in S : y < x}) IN
         /\ Cardinality(S) \in Nat
         /\ \A x \in S : rank(x) \in 0 .. Cardinality(S) - 1
         /\ \A x, y \in S : x < y => rank(x) < rank(y)
         /\ \A k \in 1 .. Cardinality(S) : \E x \in S : rank(x) = k - 1
<1>. DEFINE Below(x) == {y \in S : y < x}
            rank(x) == Cardinality(Below(x))
            n == Cardinality(S)
<1>1. n \in Nat /\ \A x : IsFiniteSet(Below(x)) /\ rank(x) \in Nat
  BY FS_CardinalityType, FS_Subset
<1>2. ASSUME NEW x \in S, NEW T \in SUBSET S, Below(x) \subseteq T, x \in T
      PROVE  rank(x) < Cardinality(T) /\ Cardinality(T) \in Nat
  <2>1. IsFiniteSet(T) /\ Cardinality(T) \in Nat
    BY FS_Subset, FS_CardinalityType
  <2>2. x \notin Below(x)
    OBVIOUS
  <2>3. rank(x) <= Cardinality(T) /\ rank(x) # Cardinality(T)
    BY <1>2, <2>1, <2>2, FS_Subset
  <2>. QED  BY <1>1, <2>1, <2>3
<1>3. \A x \in S : rank(x) \in 0 .. n - 1
  <2>1. \A x \in S : rank(x) < n
    BY <1>2
  <2>. QED  BY <1>1, <2>1
<1>4. ASSUME NEW x \in S, NEW y \in S, x < y PROVE rank(x) < rank(y)
  <2>0. \A z \in S : z \in Nat
    OBVIOUS
  <2>1. \A z \in S : z < x => z < y
    BY <1>4, <2>0
  <2>2. Below(x) \subseteq Below(y) /\ x \in Below(y)
    BY <1>4, <2>1, Zenon
  <2>. QED  BY <1>2, <2>2
<1>5. ASSUME NEW k \in 1 .. n PROVE \E x \in S : rank(x) = k - 1
  <2>. DEFINE f == [x \in S |-> rank(x)]
  <2>1. f \in Injection(S, 0 .. n - 1)
    <3>1. \A x, y \in S : rank(x) = rank(y) => x = y
      BY <1>1, <1>4
    <3>. HIDE DEF rank
    <3>. QED  BY <1>3, <3>1 DEF Injection, IsInjective
  <2>2. IsFiniteSet(0 .. n - 1) /\ Cardinality(0 .. n - 1) = n
    <3>. HIDE DEF n
    <3>. QED  BY <1>1, FS_Interval
  <2>3. f \in Surjection(S, 0 .. n - 1)
    BY <2>1, <2>2, FS_Injection
  <2>. HIDE DEF rank
  <2>4. k - 1 \in 0 .. n - 1
    BY <1>1
  <2>. QED  BY <2>3, <2>4 DEF Surjection
<1>. QED  BY <1>1, <1>3, <1>4, <1>5

\* InOrder lists a set of numbers, each once, in their order.
LEMMA InOrderLists ==
  ASSUME NEW S \in SUBSET Nat, IsFiniteSet(S), NEW o, o = InOrder(S)
  PROVE  /\ Cardinality(S) \in Nat /\ o \in [1 .. Cardinality(S) -> S]
         /\ \A k, l \in 1 .. Cardinality(S) : k < l => o[k] < o[l]
         /\ \A x \in S : \E k \in 1 .. Cardinality(S) : o[k] = x
<1>. DEFINE rank(x) == Cardinality({y \in S : y < x})
            n == Cardinality(S)
<1>1. /\ n \in Nat
      /\ \A x \in S : rank(x) \in 0 .. n - 1
      /\ \A x, y \in S : x < y => rank(x) < rank(y)
      /\ \A k \in 1 .. n : \E x \in S : rank(x) = k - 1
  BY Ranks
<1>2. o = [k \in 1 .. n |-> CHOOSE x \in S : rank(x) = k - 1]
  BY DEF InOrder
<1>. HIDE DEF rank, n
<1>3. \A k \in 1 .. n : o[k] \in S /\ rank(o[k]) = k - 1
  BY <1>1, <1>2
<1>4. o \in [1 .. n -> S]
  BY <1>2, <1>3
<1>5. ASSUME NEW k \in 1 .. n, NEW l \in 1 .. n, k < l PROVE o[k] < o[l]
  <2>1. PICK x \in S, y \in S : x = o[k] /\ y = o[l] /\ rank(x) = k - 1 /\ rank(y) = l - 1
    BY <1>3
  <2>2. x \in Nat /\ y \in Nat /\ k \in Nat /\ l \in Nat
    BY <1>1
  <2>3. ~(y < x) /\ x # y
    BY <1>1, <1>5, <2>1, <2>2
  <2>. QED  BY <2>1, <2>2, <2>3
<1>6. ASSUME NEW x \in S PROVE \E k \in 1 .. n : o[k] = x
  <2>1. PICK k \in 1 .. n : k - 1 = rank(x)
    <3>1. rank(x) + 1 \in 1 .. n /\ (rank(x) + 1) - 1 = rank(x)
      BY <1>1
    <3>. QED  BY <3>1
  <2>2. PICK y \in S : y = o[k] /\ rank(y) = k - 1
    BY <1>3
  <2>3. x \in Nat /\ y \in Nat /\ rank(x) \in Nat
    BY <1>1
  <2>4. ~(x < y) /\ ~(y < x)
    BY <1>1, <2>1, <2>2, <2>3
  <2>5. y = x
    BY <2>3, <2>4
  <2>. QED  BY <2>1, <2>2, <2>5
<1>. QED  BY <1>1, <1>4, <1>5, <1>6 DEF n

\* At keeps what its positions hold, and their order.
LEMMA AtKeeps ==
  ASSUME NEW s, NEW I \in SUBSET Nat, IsFiniteSet(I),
         NEW n, n = Cardinality(I), NEW o, o = InOrder(I)
  PROVE  /\ n \in Nat /\ o \in [1 .. n -> I]
         /\ At(s, I) = [k \in 1 .. n |-> s[o[k]]]
         /\ \A k, l \in 1 .. n : k < l => o[k] < o[l]
         /\ \A i \in I : \E k \in 1 .. n : o[k] = i
<1>1. /\ n \in Nat /\ o \in [1 .. n -> I]
      /\ \A k, l \in 1 .. n : k < l => o[k] < o[l]
      /\ \A i \in I : \E k \in 1 .. n : o[k] = i
  BY InOrderLists
<1>2. DOMAIN o = 1 .. n
  BY <1>1
<1>. QED  BY <1>1, <1>2 DEF At

\* Among the occurrences of an element there is a first one.
LEMMA FirstOccurrence ==
  ASSUME NEW s, NEW n \in Nat, DOMAIN s = 1 .. n, NEW i \in DOMAIN s
  PROVE  \E f \in DOMAIN s : /\ s[f] = s[i]
                             /\ \A j \in 1 .. f - 1 : s[j] # s[f]
<1>. DEFINE T == {j \in 1 .. n : s[j] = s[i]}
<1>1. T \subseteq Nat /\ T # {}
  OBVIOUS
<1>2. PICK f \in T : \A j \in T : f <= j
  BY <1>1, Least
<1>3. \A j \in 1 .. f - 1 : j \in 1 .. n /\ ~(f <= j)
  BY <1>2
<1>. QED  BY <1>2, <1>3

\* Unique holds the elements of a sequence, each once, by first occurrence.
LEMMA UniqueKeeps ==
  ASSUME NEW A, NEW s \in Seq(A), NEW u, u = Unique(s)
  PROVE  /\ u \in Seq(A)
         /\ IsInjective(u)
         /\ Range(u) = Range(s)
         /\ \A k, l \in DOMAIN u : k < l =>
              \E c \in DOMAIN s : s[c] = u[k] /\ \A d \in DOMAIN s : s[d] = u[l] => c < d
<1>. DEFINE I == {i \in DOMAIN s : \A j \in 1 .. i - 1 : s[j] # s[i]}
            n == Cardinality(I)
            o == InOrder(I)
<1>1. DOMAIN s = 1 .. Len(s) /\ Len(s) \in Nat /\ \A i \in DOMAIN s : s[i] \in A
  OBVIOUS
<1>2. I \in SUBSET Nat /\ IsFiniteSet(I) /\ I \subseteq DOMAIN s
  <2>1. IsFiniteSet(DOMAIN s)
    BY <1>1, FS_Interval
  <2>2. I \in SUBSET DOMAIN s
    OBVIOUS
  <2>. HIDE DEF I
  <2>. QED  BY <1>1, <2>1, <2>2, FS_Subset
<1>3. /\ n \in Nat /\ o \in [1 .. n -> I]
      /\ u = [k \in 1 .. n |-> s[o[k]]]
      /\ \A k, l \in 1 .. n : k < l => o[k] < o[l]
      /\ \A i \in I : \E k \in 1 .. n : o[k] = i
  <2>1. u = At(s, I)
    BY DEF Unique
  <2>. HIDE DEF I
  <2>. QED  BY <1>2, <2>1, AtKeeps
<1>4. \A i, j \in I : s[i] = s[j] => i = j
  BY <1>1
<1>5. \A i \in DOMAIN s : \E f \in I : s[f] = s[i]
  BY <1>1, FirstOccurrence
<1>6. \A i \in I : \A d \in DOMAIN s : s[d] = s[i] => i <= d
  BY <1>1
<1>. HIDE DEF I, n, o
<1>7. u \in Seq(A) /\ DOMAIN u = 1 .. n
  <2>1. u \in [1 .. n -> A]
    BY <1>1, <1>2, <1>3
  <2>. QED  BY <1>3, <2>1
<1>8. ASSUME NEW k \in 1 .. n, NEW l \in 1 .. n, o[k] = o[l] PROVE k = l
  <2>1. o[k] \in I /\ o[l] \in I /\ k \in Nat /\ l \in Nat
    BY <1>3
  <2>. \A i \in I : i \in Nat
    BY <1>2
  <2>2. ~(k < l) /\ ~(l < k)
    BY <1>3, <1>8, <2>1
  <2>. QED  BY <2>1, <2>2
<1>9. IsInjective(u)
  BY <1>3, <1>4, <1>7, <1>8 DEF IsInjective
<1>10. Range(u) = Range(s)
  <2>1. Range(u) = {s[i] : i \in I}
    BY <1>3, <1>7 DEF Range
  <2>2. {s[i] : i \in I} = {s[i] : i \in DOMAIN s}
    BY <1>2, <1>5
  <2>. QED  BY <2>1, <2>2 DEF Range
<1>11. ASSUME NEW k \in DOMAIN u, NEW l \in DOMAIN u, k < l
       PROVE  \E c \in DOMAIN s : s[c] = u[k] /\ \A d \in DOMAIN s : s[d] = u[l] => c < d
  <2>1. o[k] \in I /\ o[l] \in I /\ o[k] < o[l] /\ u[k] = s[o[k]] /\ u[l] = s[o[l]]
    BY <1>3, <1>7, <1>11
  <2>2. \A i \in I : i \in Nat
    BY <1>2
  <2>3. \A d \in DOMAIN s : d \in Nat
    BY <1>1
  <2>4. o[k] \in Nat /\ o[l] \in Nat
    BY <2>1, <2>2
  <2>5. ASSUME NEW d \in DOMAIN s, s[d] = u[l] PROVE o[k] < d
    <3>1. s[d] = s[o[l]]
      BY <2>1, <2>5
    <3>2. o[l] <= d
      BY <1>6, <2>1, <3>1
    <3>. QED  BY <2>1, <2>3, <2>4, <3>2
  <2>. QED  BY <1>2, <2>1, <2>5
<1>. QED  BY <1>7, <1>9, <1>10, <1>11

\* A set of numbers up to n that is not empty has a greatest one.
LEMMA Greatest ==
  ASSUME NEW n \in Nat, NEW T \in SUBSET (0 .. n), T # {}
  PROVE  \E x \in T : \A y \in T : x >= y
<1>. DEFINE R == {n - x : x \in T}
<1>1. \A x \in T : x \in 0 .. n /\ n - x \in Nat
  OBVIOUS
<1>2. R \subseteq Nat /\ R # {}
  BY <1>1, Zenon
<1>3. PICK r \in R : \A y \in R : r <= y
  BY <1>2, Least
<1>4. PICK x \in T : r = n - x
  BY <1>3
<1>5. ASSUME NEW y \in T PROVE x >= y
  <2>1. n - y \in R
    OBVIOUS
  <2>2. n - x <= n - y
    BY <1>3, <1>4, <2>1
  <2>. QED  BY <1>1, <2>2
<1>. QED  BY <1>5

\* The lesser of two numbers.
LEMMA Lesser ==
  ASSUME NEW x \in Nat, NEW y \in Nat, NEW m, m = Min({x, y})
  PROVE  m \in Nat /\ m <= x /\ m <= y /\ (m = x \/ m = y)
<1>1. \E z \in {x, y} : \A w \in {x, y} : z <= w
  OBVIOUS
<1>. QED  BY <1>1 DEF Min
-----------------------------------------------------------------------------
(* The list's parts.                                                       *)

\* The videos that lack something are of the list.
LEMMA PendingIs ==
  ASSUME NEW videos \in Seq(Video), NEW p, p = Pending(videos)
  PROVE  /\ p \in Seq(Videos)
         /\ \A j \in DOMAIN p : \E i \in DOMAIN videos : p[j] = videos[i].id
<1>. DEFINE I == {i \in DOMAIN videos : IsMetadataIncomplete(videos[i])}
            lacking == InOrder(I)
            n == Min({FeedMax, Len(lacking)})
<1>1. /\ DOMAIN videos = 1 .. Len(videos) /\ Len(videos) \in Nat
      /\ \A i \in DOMAIN videos : videos[i].id \in Videos
  <2>1. \A i \in DOMAIN videos : videos[i] \in Video
    OBVIOUS
  <2>. QED  BY <2>1 DEF Video
<1>2. I \in SUBSET Nat /\ I \in SUBSET DOMAIN videos /\ IsFiniteSet(I)
  <2>1. IsFiniteSet(DOMAIN videos)
    BY <1>1, FS_Interval
  <2>2. I \subseteq DOMAIN videos
    OBVIOUS
  <2>. HIDE DEF I
  <2>. QED  BY <1>1, <2>1, <2>2, FS_Subset
<1>3. p = [j \in 1 .. n |-> videos[lacking[j]].id]
  BY DEF Pending
<1>. HIDE DEF I
<1>4. Cardinality(I) \in Nat /\ lacking \in [1 .. Cardinality(I) -> I]
  BY <1>2, InOrderLists
<1>. HIDE DEF lacking
<1>5. Len(lacking) \in Nat /\ Len(lacking) = Cardinality(I)
  BY <1>4
<1>6. n \in Nat /\ n <= Len(lacking)
  BY <1>5, SizesType, Lesser
<1>. HIDE DEF n
<1>7. \A j \in 1 .. n : lacking[j] \in DOMAIN videos
  <2>1. \A j \in 1 .. n : j \in 1 .. Cardinality(I)
    BY <1>4, <1>5, <1>6
  <2>. QED  BY <1>2, <1>4, <2>1
<1>8. p \in [1 .. n -> Videos]
  BY <1>1, <1>3, <1>7
<1>. QED  BY <1>3, <1>6, <1>7, <1>8

LEMMA WorkersAre ==
  ASSUME NEW videos \in Seq(Video)
  PROVE  /\ Workers(videos) \in Nat /\ Workers(videos) <= Threads
         /\ Len(Pending(videos)) \in Nat
         /\ Workers(videos) <= Len(Pending(videos))
         /\ Len(Pending(videos)) > 0 => Workers(videos) > 0
<1>1. Len(Pending(videos)) \in Nat
  BY PendingIs
<1>2. Threads \in Nat \ {0}
  BY SizesType
<1>. QED  BY <1>1, <1>2, Lesser DEF Workers

\* The bounds of chunk w of n videos for W threads.
LEMMA Bounds ==
  ASSUME NEW n \in Nat, NEW W \in Nat \ {0}, NEW w \in 0 .. W
  PROVE  /\ (w * n) \div W \in 0 .. n
         /\ w = 0 => (w * n) \div W = 0
         /\ w = W => (w * n) \div W = n
<1>. DEFINE q == (w * n) \div W
<1>1. w * n \in Nat /\ W * n \in Nat
  OBVIOUS
<1>2. w * n <= W * n
  <2>1. PICK d \in Nat : W = w + d
    <3>1. W - w \in Nat /\ W = w + (W - w)
      OBVIOUS
    <3>. QED  BY <3>1
  <2>2. (w + d) * n = w * n + d * n /\ d * n \in Nat
    OBVIOUS
  <2>. QED  BY <1>1, <2>1, <2>2
<1>3. q \in Nat /\ W * q <= w * n /\ w * n < W * q + W
  BY <1>1
<1>. HIDE DEF q
<1>4. W * q \in Nat
  BY <1>3
<1>5. ~(q > n)
  <2>. SUFFICES ASSUME q > n PROVE FALSE
    OBVIOUS
  <2>1. q - n - 1 \in Nat /\ n \in Nat /\ W \in Nat /\ q = n + 1 + (q - n - 1)
    BY <1>3
  <2>2. ASSUME NEW d \in Nat, q = n + 1 + d PROVE FALSE
    <3>1. W * q = W * n + W + W * d /\ W * d \in Nat
      BY <2>1, <2>2, Times
    <3>. QED  BY <1>1, <1>2, <1>3, <3>1
  <2>. QED  BY <2>1, <2>2
<1>6. w = 0 => q = 0
  BY <1>3 DEF q
<1>7. ASSUME w = W PROVE ~(q < n)
  <2>. SUFFICES ASSUME q < n PROVE FALSE
    OBVIOUS
  <2>1. n - q - 1 \in Nat /\ q \in Nat /\ W \in Nat /\ n = q + 1 + (n - q - 1)
    BY <1>3
  <2>2. ASSUME NEW d \in Nat, n = q + 1 + d PROVE FALSE
    <3>1. W * n = W * q + W + W * d /\ W * d \in Nat
      BY <2>1, <2>2, Times
    <3>. QED  BY <1>1, <1>3, <1>4, <1>7, <3>1
  <2>. QED  BY <2>1, <2>2
<1>8. q \in 0 .. n /\ (w = W => q = n)
  BY <1>3, <1>5, <1>7
<1>. QED  BY <1>6, <1>8 DEF q

\* A part of a sequence.
LEMMA Slice ==
  ASSUME NEW S, NEW n \in Nat, NEW p \in [1 .. n -> S], NEW lo \in 0 .. n, NEW hi \in 0 .. n
  PROVE  LET c == SubSeq(p, lo + 1, hi) IN
         /\ c \in Seq(S) /\ Range(c) \subseteq Range(p)
         /\ Len(c) = IF lo <= hi THEN hi - lo ELSE 0
         /\ \A i \in DOMAIN c : lo + i \in 1 .. n /\ c[i] = p[lo + i]
         /\ \A j \in lo + 1 .. hi : p[j] \in Range(c)
<1>. DEFINE c == SubSeq(p, lo + 1, hi)
<1>1. \A j \in lo + 1 .. hi : j \in 1 .. n /\ p[j] \in S
  OBVIOUS
<1>2. lo + 1 \in Int /\ hi \in Int
  OBVIOUS
<1>3. /\ c \in Seq(S)
      /\ Len(c) = IF lo + 1 <= hi THEN hi - (lo + 1) + 1 ELSE 0
      /\ \A i \in 1 .. hi - (lo + 1) + 1 : c[i] = p[(lo + 1) + i - 1]
  BY <1>1, <1>2, SubSeqProperties
<1>. HIDE DEF c
<1>4. Len(c) = IF lo <= hi THEN hi - lo ELSE 0
  BY <1>3
<1>5. DOMAIN c = 1 .. Len(c)
  BY <1>3
<1>6. \A i \in 1 .. Len(c) : i \in 1 .. hi - (lo + 1) + 1 /\ (lo + 1) + i - 1 = lo + i
                             /\ lo + i \in 1 .. n
  BY <1>4
<1>7. \A i \in DOMAIN c : lo + i \in 1 .. n /\ c[i] = p[lo + i]
  BY <1>3, <1>5, <1>6
<1>8. \A j \in lo + 1 .. hi : j - lo \in 1 .. Len(c) /\ lo + (j - lo) = j
  BY <1>4
<1>9. \A j \in lo + 1 .. hi : p[j] \in Range(c)
  BY <1>5, <1>7, <1>8 DEF Range
<1>10. Range(c) \subseteq Range(p)
  BY <1>7 DEF Range
<1>. QED  BY <1>3, <1>4, <1>7, <1>9, <1>10, Zenon DEF c

\* A chunk holds pending videos.
LEMMA ChunkIs ==
  ASSUME list \in Seq(Video), NEW w \in 1 .. Workers(list), NEW c, c = Chunk(w),
         NEW p, p = Pending(list), NEW n, n = Len(p), NEW W, W = Workers(list),
         NEW lo, lo = ((w - 1) * n) \div W, NEW hi, hi = (w * n) \div W
  PROVE  /\ c \in Seq(Videos) /\ Range(c) \subseteq Range(p)
         /\ lo \in 0 .. n /\ hi \in 0 .. n
         /\ \A j \in lo + 1 .. hi : p[j] \in Range(c)
<1>1. p \in Seq(Videos) /\ n \in Nat /\ DOMAIN p = 1 .. n
  BY PendingIs
<1>2. W \in Nat \ {0} /\ w \in 0 .. W /\ w - 1 \in 0 .. W
  BY WorkersAre
<1>3. lo \in 0 .. n /\ hi \in 0 .. n
  BY <1>1, <1>2, Bounds
<1>4. c = SubSeq(p, lo + 1, hi)
  BY DEF Chunk
<1>5. p \in [1 .. n -> Videos]
  BY <1>1
<1>6. ASSUME NEW l \in 0 .. n, NEW h \in 0 .. n, c = SubSeq(p, l + 1, h)
      PROVE  /\ c \in Seq(Videos) /\ Range(c) \subseteq Range(p)
             /\ \A j \in l + 1 .. h : p[j] \in Range(c)
  <2>1. n \in Nat /\ p \in [1 .. n -> Videos] /\ l \in 0 .. n /\ h \in 0 .. n
    BY <1>1, <1>5
  <2>2. /\ SubSeq(p, l + 1, h) \in Seq(Videos)
        /\ Range(SubSeq(p, l + 1, h)) \subseteq Range(p)
        /\ \A j \in l + 1 .. h : p[j] \in Range(SubSeq(p, l + 1, h))
    BY <2>1, Slice, Zenon
  <2>. QED  BY <1>6, <2>2, Zenon
<1>. QED  BY <1>3, <1>4, <1>6, Zenon

\* Every pending video is in some chunk.
LEMMA ChunksCover ==
  ASSUME list \in Seq(Video), NEW v \in Range(Pending(list))
  PROVE  \E w \in 1 .. Workers(list) : v \in Range(Chunk(w))
<1>. DEFINE p == Pending(list)
            n == Len(p)
            W == Workers(list)
            End(w) == (w * n) \div W
<1>1. p \in Seq(Videos) /\ n \in Nat /\ DOMAIN p = 1 .. n
  BY PendingIs
<1>2. PICK j \in 1 .. n : v = p[j]
  BY <1>1 DEF Range
<1>3. W \in Nat \ {0}
  BY <1>1, <1>2, WorkersAre
<1>. HIDE DEF p, n, W
<1>4. /\ \A w \in 0 .. W : End(w) \in 0 .. n
      /\ End(0) = 0 /\ End(W) = n
  BY <1>1, <1>3, Bounds
<1>. HIDE DEF End
<1>5. PICK w \in 1 .. W : j <= End(w) /\ ~(j <= End(w - 1))
  <2>. DEFINE T == {w \in 1 .. W : j <= End(w)}
  <2>1. T \subseteq Nat /\ W \in T
    BY <1>1, <1>3, <1>4
  <2>2. PICK w \in T : \A y \in T : w <= y
    BY <2>1, Least
  <2>3. CASE w = 1
    <3>1. w - 1 = 0 /\ ~(j <= End(w - 1))
      BY <1>1, <1>4, <2>3
    <3>. QED  BY <2>2, <3>1
  <2>4. CASE w # 1
    <3>1. w - 1 \in 1 .. W /\ w - 1 \notin T
      BY <1>3, <2>2, <2>4
    <3>. QED  BY <2>2, <3>1
  <2>. QED  BY <2>3, <2>4
<1>6. End(w) \in 0 .. n /\ End(w - 1) \in 0 .. n
  BY <1>3, <1>4
<1>7. j \in End(w - 1) + 1 .. End(w)
  BY <1>1, <1>5, <1>6
<1>8. p[j] \in Range(Chunk(w))
  <2>1. w \in 1 .. Workers(list)
    BY <1>5 DEF W
  <2>2. \A i \in ((w - 1) * n) \div W + 1 .. (w * n) \div W : p[i] \in Range(Chunk(w))
    BY <2>1, ChunkIs DEF p, n, W
  <2>. QED  BY <1>7, <2>2 DEF End
<1>. QED  BY <1>2, <1>5, <1>8 DEF W

\* enrich keeps every video at its place.
LEMMA EnrichKeeps ==
  ASSUME NEW videos \in Seq(Video), NEW a, NEW e, e = Enrich(videos, a)
  PROVE  /\ e \in Seq(Video) /\ DOMAIN e = DOMAIN videos
         /\ \A i \in DOMAIN videos : e[i].id = videos[i].id
<1>1. /\ DOMAIN e = DOMAIN videos
      /\ \A i \in DOMAIN videos :
           e[i] = IF videos[i].id \notin a.titles THEN videos[i]
                  ELSE [id |-> videos[i].id,
                        meta |-> IF videos[i].id \in a.logos THEN Complete ELSE Partial]
  BY DEF Enrich
<1>2. \A i \in DOMAIN videos : e[i] \in Video /\ e[i].id = videos[i].id
  <2>1. \A i \in DOMAIN videos : videos[i] \in Video
    OBVIOUS
  <2>. QED  BY <1>1, <2>1 DEF Video, Missing, Partial, Complete
<1>3. Len(videos) \in Nat /\ DOMAIN videos = 1 .. Len(videos) /\ e = [i \in DOMAIN videos |-> e[i]]
  BY DEF Enrich
<1>4. e \in [1 .. Len(videos) -> Video]
  BY <1>2, <1>3
<1>. QED  BY <1>1, <1>2, <1>3, <1>4

\* What is posted is the list's head and tail, less what has no title.
LEMMA UploadedIs ==
  ASSUME list \in Seq(Video), NEW a, NEW u, u = Uploaded(a)
  PROVE  /\ u \in Seq(Video)
         /\ \A i \in DOMAIN u : u[i].meta # Missing
         /\ \E J \in SUBSET DOMAIN list : Ids(u) = At(Ids(list), J)
<1>. DEFINE h == HeadSize
            n == Len(list)
            head == SubSeq(list, 1, h)
            tail == SubSeq(list, h + 1, n)
            e == Enrich(head, a)
            all == e \o tail
            J == {i \in DOMAIN all : all[i].meta # Missing}
<1>1. n \in Nat /\ DOMAIN list = 1 .. n /\ \A i \in 1 .. n : list[i] \in Video
  OBVIOUS
<1>2. h \in 0 .. n
  <2>1. Min({UploadMax, Len(list)}) \in 0 .. n
    BY <1>1, SizesType, Lesser
  <2>. QED  BY <1>1, <2>1 DEF HeadSize
<1>3. u = At(all, J)
  BY DEF Uploaded
<1>. HIDE DEF h, n
<1>4. /\ head \in Seq(Video) /\ Len(head) = h
      /\ \A i \in 1 .. h : head[i] = list[i]
  <2>1. 1 \in Int /\ h \in Int /\ \A i \in 1 .. h : list[i] \in Video
    BY <1>1, <1>2
  <2>2. /\ head \in Seq(Video)
        /\ Len(head) = IF 1 <= h THEN h - 1 + 1 ELSE 0
        /\ \A i \in 1 .. h - 1 + 1 : head[i] = list[1 + i - 1]
    BY <2>1, SubSeqProperties
  <2>. HIDE DEF head
  <2>. QED  BY <1>1, <1>2, <2>2
<1>5. /\ tail \in Seq(Video) /\ Len(tail) = n - h
      /\ \A i \in 1 .. n - h : tail[i] = list[h + i]
  <2>1. h + 1 \in Int /\ n \in Int /\ \A i \in h + 1 .. n : list[i] \in Video
    BY <1>1, <1>2
  <2>2. /\ tail \in Seq(Video)
        /\ Len(tail) = IF h + 1 <= n THEN n - (h + 1) + 1 ELSE 0
        /\ \A i \in 1 .. n - (h + 1) + 1 : tail[i] = list[h + 1 + i - 1]
    BY <2>1, SubSeqProperties
  <2>. HIDE DEF tail
  <2>. QED  BY <1>1, <1>2, <2>2
<1>. HIDE DEF head, tail
<1>6. /\ e \in Seq(Video) /\ Len(e) = h
      /\ \A i \in 1 .. h : e[i].id = list[i].id
  <2>1. e \in Seq(Video) /\ DOMAIN e = DOMAIN head /\ \A i \in DOMAIN head : e[i].id = head[i].id
    BY <1>4, EnrichKeeps, Zenon
  <2>2. DOMAIN head = 1 .. h
    BY <1>4
  <2>. HIDE DEF e
  <2>3. Len(e) = h
    BY <1>2, <2>1, <2>2
  <2>. QED  BY <1>4, <2>1, <2>2, <2>3
<1>. HIDE DEF e
<1>7. /\ all \in Seq(Video) /\ Len(all) = h + (n - h)
      /\ \A i \in 1 .. h : all[i] = e[i]
      /\ \A i \in h + 1 .. n : all[i] = tail[i - h]
  <2>1. all \in Seq(Video) /\ Len(all) = Len(e) + Len(tail)
    BY <1>5, <1>6
  <2>2. \A i \in 1 .. Len(e) + Len(tail) : all[i] = IF i <= Len(e) THEN e[i] ELSE tail[i - Len(e)]
    BY <1>5, <1>6
  <2>. HIDE DEF all
  <2>3. Len(e) + Len(tail) = n /\ h + (n - h) = n
    BY <1>1, <1>2, <1>5, <1>6
  <2>4. \A i \in 1 .. h : i \in 1 .. n /\ i <= h
    BY <1>1, <1>2
  <2>5. \A i \in h + 1 .. n : i \in 1 .. n /\ ~(i <= h)
    BY <1>1, <1>2
  <2>. QED  BY <1>6, <2>1, <2>2, <2>3, <2>4, <2>5
<1>. HIDE DEF all
<1>8. DOMAIN all = 1 .. n /\ Len(all) = n
  BY <1>1, <1>2, <1>7
<1>9. \A i \in 1 .. n : all[i] \in Video /\ all[i].id = list[i].id
  <2>. TAKE i \in 1 .. n
  <2>1. CASE i \in 1 .. h
    BY <1>6, <1>7, <1>8, <2>1
  <2>2. CASE i \in h + 1 .. n
    <3>1. i - h \in 1 .. n - h /\ h + (i - h) = i
      BY <1>1, <1>2, <2>2
    <3>2. tail[i - h] = list[i]
      BY <1>5, <3>1
    <3>. QED  BY <1>7, <1>8, <2>2, <3>2
  <2>. QED  BY <1>1, <1>2, <2>1, <2>2
<1>10. J \in SUBSET Nat /\ J \in SUBSET (1 .. n) /\ IsFiniteSet(J)
  <2>1. IsFiniteSet(1 .. n)
    BY <1>1, FS_Interval
  <2>2. J \subseteq 1 .. n
    BY <1>8
  <2>. HIDE DEF J
  <2>3. IsFiniteSet(J)
    BY <2>1, <2>2, FS_Subset
  <2>. QED  BY <1>1, <2>2, <2>3
<1>11. \A i \in J : all[i].meta # Missing
  OBVIOUS
<1>. HIDE DEF J
<1>. DEFINE m == Cardinality(J)
            o == InOrder(J)
<1>12. /\ m \in Nat /\ o \in [1 .. m -> J]
       /\ u = [k \in 1 .. m |-> all[o[k]]]
       /\ At(Ids(list), J) = [k \in 1 .. m |-> Ids(list)[o[k]]]
  <2>1. m \in Nat /\ o \in [1 .. m -> J] /\ At(all, J) = [k \in 1 .. m |-> all[o[k]]]
    BY <1>10, AtKeeps
  <2>2. PICK ids : ids = Ids(list)
    OBVIOUS
  <2>3. At(ids, J) = [k \in 1 .. m |-> ids[o[k]]]
    BY <1>10, AtKeeps
  <2>. QED  BY <1>3, <2>1, <2>2, <2>3
<1>. HIDE DEF m, o
<1>13. DOMAIN u = 1 .. m /\ \A k \in 1 .. m : o[k] \in J /\ u[k] = all[o[k]]
  BY <1>12
<1>14. u \in [1 .. m -> Video]
  BY <1>9, <1>10, <1>12
<1>15. Ids(u) = At(Ids(list), J)
  <2>1. Ids(u) = [k \in 1 .. m |-> u[k].id]
    BY <1>13 DEF Ids
  <2>2. \A k \in 1 .. m : u[k].id = Ids(list)[o[k]]
    <3>1. \A k \in 1 .. m : o[k] \in 1 .. n
      BY <1>10, <1>13
    <3>. QED  BY <1>1, <1>9, <1>13, <3>1 DEF Ids
  <2>. QED  BY <1>12, <2>1, <2>2
<1>16. J \in SUBSET DOMAIN list
  BY <1>1, <1>10
<1>17. \A i \in DOMAIN u : u[i].meta # Missing
  BY <1>11, <1>13
<1>18. u \in Seq(Video)
  BY <1>12, <1>14
<1>. QED  BY <1>15, <1>16, <1>17, <1>18, Zenon
-----------------------------------------------------------------------------
(* What several threads find.                                              *)

\* a is in s, at the positions I, before every b.
Before(s, I, a, b) == \E i \in I : s[i] = a /\ \A j \in I : s[j] = b => i < j

\* x holds what s holds at I; where it holds something for the first time, it
\* held before only what s, too, holds before.
FirstSeen(x, s, I) ==
  /\ \A k \in DOMAIN x : \E i \in I : s[i] = x[k]
  /\ \A i \in I : \E k \in DOMAIN x : x[k] = s[i]
  /\ \A k, l \in DOMAIN x :
       k < l /\ (\A j \in DOMAIN x : j < l => x[j] # x[l]) => Before(s, I, x[k], x[l])

LEMMA AtFirstSeen ==
  ASSUME NEW A, NEW s, NEW I \in SUBSET Nat, IsFiniteSet(I), \A i \in I : s[i] \in A,
         NEW x, x = At(s, I)
  PROVE  x \in Seq(A) /\ FirstSeen(x, s, I)
<1>. DEFINE n == Cardinality(I)
            o == InOrder(I)
<1>1. /\ n \in Nat /\ o \in [1 .. n -> I]
      /\ x = [k \in 1 .. n |-> s[o[k]]]
      /\ \A k, l \in 1 .. n : k < l => o[k] < o[l]
      /\ \A i \in I : \E k \in 1 .. n : o[k] = i
  BY AtKeeps
<1>. HIDE DEF n, o
<1>2. DOMAIN x = 1 .. n /\ \A k \in 1 .. n : o[k] \in I /\ o[k] \in Nat /\ x[k] = s[o[k]]
  <2>1. \A i \in I : i \in Nat
    OBVIOUS
  <2>. QED  BY <1>1, <2>1
<1>3. x \in Seq(A)
  <2>1. x \in [1 .. n -> A]
    BY <1>1, <1>2
  <2>. QED  BY <1>1, <2>1
<1>4. /\ \A k \in DOMAIN x : \E i \in I : s[i] = x[k]
      /\ \A i \in I : \E k \in DOMAIN x : x[k] = s[i]
  BY <1>1, <1>2
<1>5. ASSUME NEW k \in DOMAIN x, NEW l \in DOMAIN x, k < l,
             \A j \in DOMAIN x : j < l => x[j] # x[l]
      PROVE  Before(s, I, x[k], x[l])
  <2>1. ASSUME NEW j \in I, s[j] = x[l] PROVE o[k] < j
    <3>1. PICK m \in 1 .. n : o[m] = j
      BY <1>1
    <3>2. x[m] = x[l] /\ m \in DOMAIN x
      BY <1>2, <2>1, <3>1
    <3>3. ~(m < l)
      BY <1>5, <3>2
    <3>4. k < m /\ k \in 1 .. n
      BY <1>1, <1>2, <1>5, <3>3
    <3>. QED  BY <1>1, <3>1, <3>4
  <2>. QED  BY <1>2, <2>1 DEF Before
<1>. QED  BY <1>3, <1>4, <1>5 DEF FirstSeen

LEMMA UniqueFirstSeen ==
  ASSUME NEW A, NEW x \in Seq(A), NEW s, NEW I, FirstSeen(x, s, I), NEW u, u = Unique(x)
  PROVE  u \in Seq(A) /\ IsInjective(u) /\ FirstSeen(u, s, I)
<1>1. /\ u \in Seq(A) /\ IsInjective(u) /\ Range(u) = Range(x)
      /\ \A k, l \in DOMAIN u : k < l =>
           \E c \in DOMAIN x : x[c] = u[k] /\ \A d \in DOMAIN x : x[d] = u[l] => c < d
  BY UniqueKeeps
<1>2. /\ \A k \in DOMAIN u : \E c \in DOMAIN x : x[c] = u[k]
      /\ \A c \in DOMAIN x : \E k \in DOMAIN u : u[k] = x[c]
  <2>1. ASSUME NEW k \in DOMAIN u PROVE \E c \in DOMAIN x : x[c] = u[k]
    <3>1. u[k] \in Range(x)
      BY <1>1, Zenon DEF Range
    <3>. QED  BY <3>1 DEF Range
  <2>2. ASSUME NEW c \in DOMAIN x PROVE \E k \in DOMAIN u : u[k] = x[c]
    <3>1. x[c] \in Range(u)
      BY <1>1, Zenon DEF Range
    <3>. QED  BY <3>1 DEF Range
  <2>. QED  BY <2>1, <2>2
<1>3. /\ \A k \in DOMAIN u : \E i \in I : s[i] = u[k]
      /\ \A i \in I : \E k \in DOMAIN u : u[k] = s[i]
  <2>1. ASSUME NEW k \in DOMAIN u PROVE \E i \in I : s[i] = u[k]
    <3>1. PICK c \in DOMAIN x : x[c] = u[k]
      BY <1>2
    <3>2. PICK i \in I : s[i] = x[c]
      BY Zenon DEF FirstSeen
    <3>. QED  BY <3>1, <3>2
  <2>2. ASSUME NEW i \in I PROVE \E k \in DOMAIN u : u[k] = s[i]
    <3>1. PICK c \in DOMAIN x : x[c] = s[i]
      BY Zenon DEF FirstSeen
    <3>2. PICK k \in DOMAIN u : u[k] = x[c]
      BY <1>2
    <3>. QED  BY <3>1, <3>2
  <2>. QED  BY <2>1, <2>2
<1>4. ASSUME NEW k \in DOMAIN u, NEW l \in DOMAIN u, k < l
      PROVE  Before(s, I, u[k], u[l])
  <2>1. PICK c \in DOMAIN x : x[c] = u[k] /\ \A d \in DOMAIN x : x[d] = u[l] => c < d
    BY <1>1, <1>4
  <2>2. DOMAIN x = 1 .. Len(x) /\ Len(x) \in Nat
    OBVIOUS
  <2>3. PICK b \in DOMAIN x : x[b] = u[l]
    BY <1>2
  <2>4. PICK d \in DOMAIN x : x[d] = x[b] /\ \A j \in 1 .. d - 1 : x[j] # x[d]
    BY <2>2, FirstOccurrence
  <2>5. c < d
    BY <2>1, <2>3, <2>4
  <2>6. \A j \in DOMAIN x : j < d => j \in 1 .. d - 1
    BY <2>2
  <2>7. Before(s, I, x[c], x[d])
    BY <2>4, <2>5, <2>6, Zenon DEF FirstSeen
  <2>. QED  BY <2>1, <2>3, <2>4, <2>7
<1>. QED  BY <1>1, <1>3, <1>4 DEF FirstSeen

\* What is found at I, and then at J, of which more lies only behind I.
LEMMA ThenFirstSeen ==
  ASSUME NEW A, NEW x \in Seq(A), NEW y \in Seq(A), NEW s,
         NEW I \in SUBSET Nat, NEW J \in SUBSET Nat,
         \A i \in I, j \in J : j \in I \/ i < j,
         FirstSeen(x, s, I), FirstSeen(y, s, J),
         NEW z, z = x \o y
  PROVE  z \in Seq(A) /\ FirstSeen(z, s, I \cup J)
<1>. DEFINE m == Len(x)
            n == Len(y)
<1>1. m \in Nat /\ n \in Nat /\ DOMAIN x = 1 .. m /\ DOMAIN y = 1 .. n
  OBVIOUS
<1>2. /\ z \in Seq(A) /\ DOMAIN z = 1 .. m + n
      /\ \A k \in 1 .. m : k \in DOMAIN z /\ z[k] = x[k]
      /\ \A k \in 1 .. n : m + k \in DOMAIN z /\ z[m + k] = y[k]
  OBVIOUS
<1>. HIDE DEF m, n
<1>3. \A k \in DOMAIN z : \/ k \in 1 .. m
                          \/ k - m \in 1 .. n /\ m + (k - m) = k
  BY <1>1, <1>2
<1>4. /\ \A k \in 1 .. m : \E i \in I : s[i] = x[k]
      /\ \A i \in I : \E k \in 1 .. m : x[k] = s[i]
      /\ \A k, l \in 1 .. m :
           k < l /\ (\A j \in 1 .. m : j < l => x[j] # x[l]) => Before(s, I, x[k], x[l])
      /\ \A k \in 1 .. n : \E i \in J : s[i] = y[k]
      /\ \A i \in J : \E k \in 1 .. n : y[k] = s[i]
      /\ \A k, l \in 1 .. n :
           k < l /\ (\A j \in 1 .. n : j < l => y[j] # y[l]) => Before(s, J, y[k], y[l])
  BY <1>1 DEF FirstSeen
<1>5. ASSUME NEW k \in DOMAIN z PROVE \E i \in I \cup J : s[i] = z[k]
  <2>1. CASE k \in 1 .. m
    <3>1. PICK i \in I : s[i] = x[k]
      BY <1>4, <2>1
    <3>. QED  BY <1>2, <2>1, <3>1
  <2>2. CASE k - m \in 1 .. n /\ m + (k - m) = k
    <3>1. PICK i \in J : s[i] = y[k - m]
      BY <1>4, <2>2
    <3>2. z[k] = y[k - m]
      BY <1>2, <2>2
    <3>. QED  BY <3>1, <3>2
  <2>. QED  BY <1>3, <2>1, <2>2
<1>6. ASSUME NEW i \in I \cup J PROVE \E k \in DOMAIN z : z[k] = s[i]
  <2>1. CASE i \in I
    <3>1. PICK k \in 1 .. m : x[k] = s[i]
      BY <1>4, <2>1
    <3>. QED  BY <1>2, <3>1
  <2>2. CASE i \in J
    <3>1. PICK k \in 1 .. n : y[k] = s[i]
      BY <1>4, <2>2
    <3>2. m + k \in DOMAIN z /\ z[m + k] = s[i]
      BY <1>2, <3>1
    <3>. QED  BY <3>2
  <2>. QED  BY <2>1, <2>2
<1>7. ASSUME NEW k \in DOMAIN z, NEW l \in DOMAIN z, k < l,
             \A j \in DOMAIN z : j < l => z[j] # z[l]
      PROVE  Before(s, I \cup J, z[k], z[l])
  <2>0. \A i \in I \cup J : i \in Nat
    OBVIOUS
  <2>1. ASSUME l \in 1 .. m PROVE Before(s, I \cup J, z[k], z[l])
    <3>0. k \in 1 .. m
      BY <1>1, <1>2, <1>7, <2>1
    <3>1. k \in 1 .. m /\ \A j \in 1 .. m : j < l => x[j] # x[l]
      BY <1>2, <1>7, <2>1, <3>0
    <3>2. Before(s, I, x[k], x[l])
      BY <1>4, <1>7, <2>1, <3>1
    <3>3. PICK i \in I : s[i] = x[k] /\ \A j \in I : s[j] = x[l] => i < j
      BY <3>2 DEF Before
    <3>4. \A j \in I \cup J : s[j] = z[l] => i < j
      BY <1>2, <2>1, <3>3
    <3>. QED  BY <1>2, <3>1, <3>3, <3>4 DEF Before
  <2>2. ASSUME l - m \in 1 .. n, m + (l - m) = l
        PROVE  Before(s, I \cup J, z[k], z[l])
    <3>1. ASSUME NEW j \in I, s[j] = z[l] PROVE FALSE
      <4>1. PICK h \in 1 .. m : x[h] = s[j]
        BY <1>4
      <4>2. h \in DOMAIN z /\ z[h] = z[l] /\ h < l
        BY <1>1, <1>2, <2>2, <3>1, <4>1
      <4>. QED  BY <1>7, <4>2
    <3>2. CASE k \in 1 .. m
      <4>1. PICK i \in I : s[i] = z[k]
        BY <1>2, <1>4, <3>2
      <4>2. \A j \in I \cup J : s[j] = z[l] => i < j
        BY <3>1, <4>1
      <4>. QED  BY <4>1, <4>2 DEF Before
    <3>3. CASE k - m \in 1 .. n /\ m + (k - m) = k
      <4>. DEFINE c == k - m
                  d == l - m
      <4>1. c \in 1 .. n /\ d \in 1 .. n /\ c < d /\ z[k] = y[c] /\ z[l] = y[d]
        BY <1>1, <1>2, <1>7, <2>2, <3>3
      <4>2. \A j \in 1 .. n : j < d => m + j \in DOMAIN z /\ m + j < l
        BY <1>1, <1>2, <2>2
      <4>. HIDE DEF c, d
      <4>3. \A j \in 1 .. n : j < d => y[j] # y[d]
        BY <1>2, <1>7, <4>1, <4>2
      <4>4. Before(s, J, y[c], y[d])
        BY <1>4, <4>1, <4>3
      <4>5. PICK i \in J : s[i] = y[c] /\ \A j \in J : s[j] = y[d] => i < j
        BY <4>4 DEF Before
      <4>6. \A j \in I \cup J : s[j] = z[l] => i < j
        BY <3>1, <4>1, <4>5
      <4>. QED  BY <4>1, <4>5, <4>6 DEF Before
    <3>. QED  BY <1>3, <3>2, <3>3
  <2>. QED  BY <1>3, <2>1, <2>2
<1>. QED  BY <1>2, <1>5, <1>6, <1>7 DEF FirstSeen

\* Without repetitions there is one way to list what s holds at I.
LEMMA OneFirstSeen ==
  ASSUME NEW A, NEW u \in Seq(A), NEW v \in Seq(A), NEW s, NEW I \in SUBSET Nat,
         IsInjective(u), IsInjective(v), FirstSeen(u, s, I), FirstSeen(v, s, I)
  PROVE  u = v
<1>. DEFINE m == Len(u)
            n == Len(v)
<1>1. m \in Nat /\ n \in Nat /\ DOMAIN u = 1 .. m /\ DOMAIN v = 1 .. n
  OBVIOUS
<1>2. u = [k \in 1 .. m |-> u[k]] /\ v = [k \in 1 .. n |-> v[k]]
  OBVIOUS
<1>. HIDE DEF m, n
<1>3. \A k, l \in 1 .. m : (u[k] = u[l] => k = l) /\ (k < l => Before(s, I, u[k], u[l]))
  <2>1. \A k, l \in 1 .. m : u[k] = u[l] => k = l
    BY <1>1 DEF IsInjective
  <2>2. \A j, l \in 1 .. m : j < l => u[j] # u[l]
    BY <1>1, <2>1
  <2>. QED  BY <1>1, <2>1, <2>2 DEF FirstSeen
<1>4. \A k, l \in 1 .. n : (v[k] = v[l] => k = l) /\ (k < l => Before(s, I, v[k], v[l]))
  <2>1. \A k, l \in 1 .. n : v[k] = v[l] => k = l
    BY <1>1 DEF IsInjective
  <2>2. \A j, l \in 1 .. n : j < l => v[j] # v[l]
    BY <1>1, <2>1
  <2>. QED  BY <1>1, <2>1, <2>2 DEF FirstSeen
<1>5. \A a, b : ~(Before(s, I, a, b) /\ Before(s, I, b, a))
  <2>1. \A i \in I : i \in Nat
    OBVIOUS
  <2>. QED  BY <2>1 DEF Before
<1>6. /\ \A k \in 1 .. m : \E l \in 1 .. n : v[l] = u[k]
      /\ \A l \in 1 .. n : \E k \in 1 .. m : u[k] = v[l]
  <2>1. /\ \A k \in 1 .. m : \E i \in I : s[i] = u[k]
        /\ \A i \in I : \E k \in 1 .. m : u[k] = s[i]
        /\ \A l \in 1 .. n : \E i \in I : s[i] = v[l]
        /\ \A i \in I : \E l \in 1 .. n : v[l] = s[i]
    BY <1>1 DEF FirstSeen
  <2>2. ASSUME NEW k \in 1 .. m PROVE \E l \in 1 .. n : v[l] = u[k]
    <3>1. PICK i \in I : s[i] = u[k]
      BY <2>1
    <3>. QED  BY <2>1, <3>1
  <2>3. ASSUME NEW l \in 1 .. n PROVE \E k \in 1 .. m : u[k] = v[l]
    <3>1. PICK i \in I : s[i] = v[l]
      BY <2>1
    <3>. QED  BY <2>1, <3>1
  <2>. QED  BY <2>2, <2>3
<1>7. \A k \in 1 .. m : k \in 1 .. n => u[k] = v[k]
  <2>. DEFINE T == {k \in 1 .. m : k \in 1 .. n /\ u[k] # v[k]}
  <2>. SUFFICES ASSUME T # {} PROVE FALSE
    OBVIOUS
  <2>1. T \subseteq Nat
    BY <1>1
  <2>2. PICK k \in T : \A j \in T : k <= j
    BY <2>1, Least
  <2>3. k \in 1 .. m /\ k \in 1 .. n /\ u[k] # v[k]
    OBVIOUS
  <2>4. \A j \in 1 .. k - 1 : u[j] = v[j] /\ j \in 1 .. m /\ j \in 1 .. n
    <3>. TAKE j \in 1 .. k - 1
    <3>1. j \in 1 .. m /\ j \in 1 .. n /\ ~(k <= j)
      BY <1>1, <2>3
    <3>. QED  BY <2>2, <3>1
  <2>. HIDE DEF T
  <2>5. PICK l \in 1 .. n : v[l] = u[k]
    BY <1>6, <2>3
  <2>6. PICK h \in 1 .. m : u[h] = v[k]
    BY <1>6, <2>3
  <2>7. k < l
    <3>1. l # k
      BY <2>3, <2>5
    <3>2. ASSUME l < k PROVE FALSE
      <4>1. l \in 1 .. k - 1
        BY <1>1, <2>3, <3>2
      <4>2. u[l] = u[k] /\ l \in 1 .. m
        BY <2>4, <2>5, <4>1
      <4>. QED  BY <1>3, <2>3, <3>1, <4>2
    <3>. QED  BY <1>1, <2>3, <3>1, <3>2
  <2>8. k < h
    <3>1. h # k
      BY <2>3, <2>6
    <3>2. ASSUME h < k PROVE FALSE
      <4>1. h \in 1 .. k - 1
        BY <1>1, <2>3, <3>2
      <4>2. v[h] = v[k] /\ h \in 1 .. n
        BY <2>4, <2>6, <4>1
      <4>. QED  BY <1>4, <2>3, <3>1, <4>2
    <3>. QED  BY <1>1, <2>3, <3>1, <3>2
  <2>9. Before(s, I, v[k], v[l]) /\ Before(s, I, u[k], u[h])
    BY <1>3, <1>4, <2>3, <2>7, <2>8
  <2>. QED  BY <1>5, <2>5, <2>6, <2>9
<1>8. ~(m < n)
  <2>. SUFFICES ASSUME m < n PROVE FALSE
    OBVIOUS
  <2>1. m + 1 \in 1 .. n
    BY <1>1
  <2>2. PICK k \in 1 .. m : u[k] = v[m + 1]
    BY <1>6, <2>1
  <2>3. k \in 1 .. n /\ k # m + 1
    BY <1>1
  <2>. QED  BY <1>4, <1>7, <2>1, <2>2, <2>3
<1>9. ~(n < m)
  <2>. SUFFICES ASSUME n < m PROVE FALSE
    OBVIOUS
  <2>1. n + 1 \in 1 .. m
    BY <1>1
  <2>2. PICK k \in 1 .. n : v[k] = u[n + 1]
    BY <1>6, <2>1
  <2>3. k \in 1 .. m /\ k # n + 1
    BY <1>1
  <2>. QED  BY <1>3, <1>7, <2>1, <2>2, <2>3
<1>10. m = n
  BY <1>1, <1>8, <1>9
<1>. QED  BY <1>2, <1>7, <1>10

\* What three threads find in parts that follow on each other and may overlap.
LEMMA ThreeParts ==
  ASSUME NEW A, NEW s, NEW n \in Nat, NEW V \in SUBSET (1 .. n),
         NEW b1 \in 0 .. n, NEW b2 \in b1 .. n, NEW a2 \in 0 .. b1, NEW a3 \in 0 .. b2,
         NEW x \in Seq(A), NEW y \in Seq(A), NEW z \in Seq(A),
         FirstSeen(x, s, V \cap (1 .. b1)), FirstSeen(y, s, V \cap (a2 + 1 .. b2)),
         FirstSeen(z, s, V \cap (a3 + 1 .. n)),
         NEW u, u = Unique(x \o y \o z)
  PROVE  u \in Seq(A) /\ IsInjective(u) /\ FirstSeen(u, s, V)
<1>. DEFINE I == V \cap (1 .. b1)
            J == V \cap (a2 + 1 .. b2)
            L == V \cap (a3 + 1 .. n)
<1>1. \A i \in V : i \in Nat /\ 1 <= i /\ i <= n
  OBVIOUS
<1>2. b1 \in Nat /\ b2 \in Nat /\ a2 \in Nat /\ a3 \in Nat /\ b1 <= b2 /\ a2 <= b1 /\ a3 <= b2 /\ b2 <= n
  OBVIOUS
<1>3. /\ \A i \in V : i \in I <=> i <= b1
      /\ \A i \in V : i \in J <=> a2 < i /\ i <= b2
      /\ \A i \in V : i \in L <=> a3 < i
      /\ I \subseteq V /\ J \subseteq V /\ L \subseteq V
  BY <1>1, <1>2
<1>. HIDE DEF I, J, L
<1>4. I \in SUBSET Nat /\ J \in SUBSET Nat /\ L \in SUBSET Nat /\ I \cup J \in SUBSET Nat
  BY <1>1, <1>3
<1>5. \A i \in I, j \in J : j \in I \/ i < j
  BY <1>1, <1>2, <1>3
<1>6. \A i \in I \cup J, j \in L : j \in I \cup J \/ i < j
  BY <1>1, <1>2, <1>3
<1>7. (I \cup J) \cup L = V
  <2>1. \A i \in V : i \in I \/ i \in J \/ i \in L
    BY <1>1, <1>2, <1>3
  <2>. QED  BY <1>3, <2>1
<1>8. x \o y \in Seq(A) /\ FirstSeen(x \o y, s, I \cup J)
  BY <1>4, <1>5, ThenFirstSeen DEF I, J
<1>9. x \o y \o z \in Seq(A) /\ FirstSeen(x \o y \o z, s, V)
  <2>1. PICK w : w = x \o y
    OBVIOUS
  <2>2. w \o z \in Seq(A) /\ FirstSeen(w \o z, s, (I \cup J) \cup L)
    BY <1>4, <1>6, <1>8, <2>1, ThenFirstSeen DEF L
  <2>. QED  BY <1>7, <2>1, <2>2
<1>. QED  BY <1>9, UniqueFirstSeen

\* Where the sections begin and end.
LEMMA Cuts ==
  ASSUME NEW n \in Nat
  PROVE  /\ SectionStart(1, n) = 0 /\ SectionStart(4, n) = n
         /\ SectionStart(2, n) \in 0 .. n /\ SectionStart(3, n) \in SectionStart(2, n) .. n
  BY DEF SectionStart

LEMMA FindIs ==
  ASSUME NEW html, NEW n \in Nat, n = Len(html), NEW S \in SUBSET (0 .. n), NEW p \in Nat,
         NEW f, f = Find(S, p, html)
  PROVE  /\ f \in 0 .. n
         /\ f = n \/ (f \in S /\ f >= p)
         /\ \A q \in S : q >= p => f <= q
<1>. DEFINE T == {q \in S : q >= p} \cup {n}
<1>1. T \subseteq Nat /\ T # {} /\ T \subseteq 0 .. n /\ n \in T
  <2>1. \A q \in S : q \in 0 .. n
    OBVIOUS
  <2>2. n \in 0 .. n /\ \A q \in 0 .. n : q \in Nat
    OBVIOUS
  <2>. QED  BY <2>1, <2>2, Zenon
<1>2. f = Min(T)
  BY DEF Find
<1>3. \A q \in T : q = n \/ (q \in S /\ q >= p)
  OBVIOUS
<1>4. \A q \in S : q >= p => q \in T
  OBVIOUS
<1>. HIDE DEF T
<1>5. f \in T /\ \A q \in T : f <= q
  <2>1. \E x \in T : \A y \in T : x <= y
    BY <1>1, Least
  <2>. QED  BY <1>2, <2>1 DEF Min
<1>. QED  BY <1>1, <1>3, <1>4, <1>5
-----------------------------------------------------------------------------
(* HTML files.                                                             *)

\* The hrefs with an end that lead to videos.
Leads(html) ==
  {i \in 1 .. Len(html) : i - 1 \in Starts(html) /\ ValueEnd(html, i - 1) < Len(html)
                          /\ html[i] \in Videos}

LEMMA StartsAre ==
  ASSUME NEW html \in Seq(Cells), NEW n, n = Len(html)
  PROVE  /\ n \in Nat /\ Starts(html) \subseteq 0 .. n - 1
         /\ \A p \in Starts(html) : ValueEnd(html, p) \in 0 .. n
<1>1. n \in Nat
  OBVIOUS
<1>2. Starts(html) \subseteq 0 .. n - 1
  BY DEF Starts
<1>3. ASSUME NEW p \in Starts(html) PROVE ValueEnd(html, p) \in 0 .. n
  <2>. DEFINE Q == {q \in 0 .. Len(html) - 1 : html[q + 1] = "quote"}
  <2>1. Q \in SUBSET (0 .. n) /\ p + 1 \in Nat
    BY <1>1, <1>2
  <2>2. ValueEnd(html, p) = Find(Q, p + 1, html)
    BY DEF ValueEnd
  <2>. HIDE DEF Q
  <2>. QED  BY <1>1, <2>1, <2>2, FindIs
<1>. QED  BY <1>1, <1>2, <1>3

\* Between two places where no href is cut, the scan finds all that lead to
\* videos.
LEMMA ScanFinds ==
  ASSUME NEW html \in Seq(Cells), WellFormed(html), NEW n, n = Len(html),
         NEW a \in 0 .. n, NEW b \in Starts(html) \cup {n}
  PROVE  Scan(html, a, b) = Unique(At(html, Leads(html) \cap (a + 1 .. b)))
<1>. DEFINE H == {p \in Starts(html) : a <= p /\ p < b /\ ValueEnd(html, p) < Len(html)
                                       /\ ValueEnd(html, p) <= b}
            I == {p + 1 : p \in {q \in H : html[q + 1] \in Videos}}
<1>1. /\ n \in Nat /\ b \in 0 .. n
      /\ \A p \in Starts(html) : p \in 0 .. n - 1 /\ ValueEnd(html, p) \in 0 .. n
  BY StartsAre
<1>2. ASSUME NEW p \in Starts(html), p < b, ValueEnd(html, p) < n PROVE ValueEnd(html, p) <= b
  <2>1. CASE b \in Starts(html)
    BY <1>1, <1>2, <2>1 DEF WellFormed
  <2>2. CASE b = n
    BY <1>1, <1>2, <2>2
  <2>. QED  BY <2>1, <2>2
<1>3. \A p \in Starts(html) : p \in H <=> a <= p /\ p < b /\ ValueEnd(html, p) < n
  BY <1>2
<1>4. H \subseteq Starts(html)
  OBVIOUS
<1>. HIDE DEF H
<1>5. ASSUME NEW i \in I PROVE i \in Leads(html) \cap (a + 1 .. b)
  <2>1. PICK p \in H : html[p + 1] \in Videos /\ i = p + 1
    OBVIOUS
  <2>2. p \in Starts(html) /\ a <= p /\ p < b /\ ValueEnd(html, p) < n /\ p \in 0 .. n - 1
    BY <1>1, <1>3, <1>4
  <2>3. i - 1 = p /\ i \in 1 .. n /\ i \in a + 1 .. b
    BY <1>1, <2>1, <2>2
  <2>. QED  BY <2>1, <2>2, <2>3 DEF Leads
<1>6. ASSUME NEW i \in Leads(html) \cap (a + 1 .. b) PROVE i \in I
  <2>1. /\ i \in 1 .. n /\ i - 1 \in Starts(html) /\ ValueEnd(html, i - 1) < n
        /\ html[i] \in Videos
    BY DEF Leads
  <2>2. a <= i - 1 /\ i - 1 < b /\ (i - 1) + 1 = i
    BY <1>1
  <2>3. i - 1 \in H
    BY <1>3, <2>1, <2>2
  <2>. QED  BY <2>1, <2>2, <2>3
<1>7. I = Leads(html) \cap (a + 1 .. b)
  BY <1>5, <1>6
<1>8. Scan(html, a, b) = Unique(At(html, I))
  BY DEF Scan, H
<1>. QED  BY <1>7, <1>8

LEMMA ScanIs ==
  ASSUME NEW html \in Seq(Cells), WellFormed(html), NEW n, n = Len(html),
         NEW a \in 0 .. n, NEW b \in Starts(html) \cup {n}, NEW x, x = Scan(html, a, b)
  PROVE  x \in Seq(Videos) /\ IsInjective(x) /\ FirstSeen(x, html, Leads(html) \cap (a + 1 .. b))
<1>. DEFINE I == Leads(html) \cap (a + 1 .. b)
<1>1. x = Unique(At(html, I))
  BY ScanFinds
<1>2. n \in Nat
  OBVIOUS
<1>3. IsFiniteSet(1 .. n)
  BY <1>2, FS_Interval
<1>4. I \subseteq 1 .. n /\ \A i \in I : html[i] \in Videos
  BY DEF Leads
<1>. HIDE DEF I
<1>5. I \in SUBSET Nat /\ IsFiniteSet(I)
  <2>1. IsFiniteSet(I)
    BY <1>3, <1>4, FS_Subset
  <2>. QED  BY <1>2, <1>4, <2>1
<1>6. PICK w : w = At(html, I)
  OBVIOUS
<1>7. w \in Seq(Videos) /\ FirstSeen(w, html, I)
  BY <1>4, <1>5, <1>6, AtFirstSeen
<1>8. x \in Seq(Videos) /\ IsInjective(x) /\ FirstSeen(x, html, I)
  BY <1>1, <1>6, <1>7, UniqueFirstSeen
<1>. QED  BY <1>8 DEF I

\* A section is widened on both sides to where no href is cut.
LEMMA RangeFinds ==
  ASSUME NEW html \in Seq(Cells), WellFormed(html), NEW n, n = Len(html),
         NEW a \in 0 .. n, NEW b \in a .. n, NEW x, x = ParseRange(html, a, b),
         NEW hi, hi = Find(Starts(html), b, html)
  PROVE  /\ x \in Seq(Videos) /\ hi \in b .. n
         /\ \E lo \in 0 .. a : FirstSeen(x, html, Leads(html) \cap (lo + 1 .. hi))
<1>. DEFINE T == {p \in Starts(html) : p <= a} \cup {0}
            lo == Max(T)
<1>1. n \in Nat /\ a \in Nat /\ b \in Nat /\ b <= n /\ Starts(html) \in SUBSET (0 .. n)
  BY StartsAre
<1>2. hi \in 0 .. n /\ hi \in Starts(html) \cup {n} /\ hi >= b
  BY <1>1, FindIs
<1>3. lo \in 0 .. a
  <2>1. T \in SUBSET (0 .. a) /\ T # {}
    BY <1>1
  <2>. HIDE DEF T
  <2>2. \E y \in T : \A z \in T : y >= z
    BY <1>1, <2>1, Greatest
  <2>3. lo \in T
    BY <2>2 DEF Max
  <2>. QED  BY <2>1, <2>3
<1>4. x = Scan(html, lo, hi)
  BY DEF ParseRange
<1>. HIDE DEF lo
<1>5. x \in Seq(Videos) /\ FirstSeen(x, html, Leads(html) \cap (lo + 1 .. hi))
  <2>1. lo \in 0 .. n
    BY <1>1, <1>3
  <2>. QED  BY <1>2, <1>4, <2>1, ScanIs
<1>6. hi \in b .. n
  BY <1>1, <1>2
<1>. QED  BY <1>3, <1>5, <1>6

LEMMA HistoryAsOne ==
  ASSUME NEW html \in Seq(Cells), WellFormed(html), NEW n, n = Len(html),
         NEW c2 \in 0 .. n, NEW c3 \in c2 .. n,
         NEW x, x = ParseRange(html, 0, c2), NEW y, y = ParseRange(html, c2, c3),
         NEW z, z = ParseRange(html, c3, n)
  PROVE  /\ x \in Seq(Videos) /\ y \in Seq(Videos) /\ z \in Seq(Videos)
         /\ Unique(x \o y \o z) = ParseHistory(html)
<1>. DEFINE V == Leads(html)
            b1 == Find(Starts(html), c2, html)
            b2 == Find(Starts(html), c3, html)
            b3 == Find(Starts(html), n, html)
<1>1. /\ n \in Nat /\ c2 \in Nat /\ c3 \in Nat /\ c2 <= c3 /\ c3 <= n
      /\ Starts(html) \in SUBSET (0 .. n)
  BY StartsAre
<1>2. PICK a1 \in 0 .. 0 : x \in Seq(Videos) /\ b1 \in c2 .. n
                           /\ FirstSeen(x, html, V \cap (a1 + 1 .. b1))
  <2>1. 0 \in 0 .. n /\ c2 \in 0 .. n
    BY <1>1
  <2>. QED  BY <2>1, RangeFinds
<1>3. PICK a2 \in 0 .. c2 : y \in Seq(Videos) /\ b2 \in c3 .. n
                            /\ FirstSeen(y, html, V \cap (a2 + 1 .. b2))
  BY RangeFinds
<1>4. PICK a3 \in 0 .. c3 : z \in Seq(Videos) /\ b3 \in n .. n
                            /\ FirstSeen(z, html, V \cap (a3 + 1 .. b3))
  <2>1. c3 \in 0 .. n /\ n \in c3 .. n
    BY <1>1
  <2>. QED  BY <2>1, RangeFinds
<1>5. b1 <= b2
  <2>1. /\ b2 = n \/ (b2 \in Starts(html) /\ b2 >= c3)
        /\ \A q \in Starts(html) : q >= c2 => b1 <= q
    BY <1>1, FindIs
  <2>. HIDE DEF b1, b2
  <2>2. \A q \in Starts(html) : q \in Nat
    BY <1>1
  <2>. QED  BY <1>1, <1>2, <1>3, <2>1, <2>2
<1>. HIDE DEF b1, b2, b3
<1>6. a1 = 0 /\ a1 + 1 = 1 /\ b3 = n
  BY <1>1, <1>2, <1>4
<1>7. b1 \in 0 .. n /\ b2 \in b1 .. n /\ a2 \in 0 .. b1 /\ a3 \in 0 .. b2
  BY <1>1, <1>2, <1>3, <1>4, <1>5
<1>8. V \in SUBSET (1 .. n)
  BY DEF Leads
<1>. HIDE DEF V
<1>9. PICK u : u = Unique(x \o y \o z)
  OBVIOUS
<1>10. u \in Seq(Videos) /\ IsInjective(u) /\ FirstSeen(u, html, V)
  <2>1. FirstSeen(x, html, V \cap (1 .. b1)) /\ FirstSeen(z, html, V \cap (a3 + 1 .. n))
    BY <1>2, <1>4, <1>6
  <2>. QED  BY <1>1, <1>2, <1>3, <1>4, <1>7, <1>8, <1>9, <2>1, ThreeParts
<1>11. PICK v : v = ParseHistory(html)
  OBVIOUS
<1>12. v \in Seq(Videos) /\ IsInjective(v) /\ FirstSeen(v, html, V)
  <2>1. 0 \in 0 .. n /\ n \in Starts(html) \cup {n} /\ v = Scan(html, 0, n)
    BY <1>1, <1>11 DEF ParseHistory
  <2>2. v \in Seq(Videos) /\ IsInjective(v) /\ FirstSeen(v, html, V \cap (0 + 1 .. n))
    BY <2>1, ScanIs DEF V
  <2>3. V \cap (0 + 1 .. n) = V
    <3>1. \A i \in V : i \in 0 + 1 .. n
      BY <1>1, <1>8
    <3>. QED  BY <3>1, Zenon
  <2>. QED  BY <2>2, <2>3
<1>13. u = v
  <2>1. V \in SUBSET Nat
    BY <1>8
  <2>. QED  BY <1>10, <1>12, <2>1, OneFirstSeen
<1>. QED  BY <1>2, <1>3, <1>4, <1>9, <1>11, <1>13
-----------------------------------------------------------------------------
(* CSV files.                                                              *)

\* What t holds at I, s holds d further.
LEMMA ShiftFirstSeen ==
  ASSUME NEW d \in Nat, NEW s, NEW t, NEW I \in SUBSET Nat, NEW J, J = {i + d : i \in I},
         \A i \in I : t[i] = s[i + d], NEW x, FirstSeen(x, t, I)
  PROVE  FirstSeen(x, s, J)
<1>1. /\ \A i \in I : i + d \in J /\ i \in Nat /\ s[i + d] = t[i]
      /\ \A j \in J : \E i \in I : j = i + d
  OBVIOUS
<1>2. ASSUME NEW a, NEW b, Before(t, I, a, b) PROVE Before(s, J, a, b)
  <2>1. PICK i \in I : t[i] = a /\ \A j \in I : t[j] = b => i < j
    BY <1>2 DEF Before
  <2>2. ASSUME NEW j \in J, s[j] = b PROVE i + d < j
    <3>1. PICK h \in I : j = h + d
      BY <1>1
    <3>2. i < h
      BY <1>1, <2>1, <2>2, <3>1
    <3>3. i \in Nat /\ h \in Nat
      BY <1>1
    <3>. QED  BY <3>1, <3>2, <3>3
  <2>. QED  BY <1>1, <2>1, <2>2 DEF Before
<1>3. ASSUME NEW k \in DOMAIN x PROVE \E j \in J : s[j] = x[k]
  <2>1. PICK i \in I : t[i] = x[k]
    BY DEF FirstSeen
  <2>. QED  BY <1>1, <2>1
<1>4. ASSUME NEW j \in J PROVE \E k \in DOMAIN x : x[k] = s[j]
  <2>1. PICK i \in I : j = i + d
    BY <1>1
  <2>2. PICK k \in DOMAIN x : x[k] = t[i]
    BY DEF FirstSeen
  <2>. QED  BY <1>1, <2>1, <2>2
<1>5. \A k, l \in DOMAIN x :
        k < l /\ (\A j \in DOMAIN x : j < l => x[j] # x[l]) => Before(s, J, x[k], x[l])
  BY <1>2 DEF FirstSeen
<1>. QED  BY <1>3, <1>4, <1>5 DEF FirstSeen

\* The lines of a file: after a header, rows.
CsvLines == {f \in Seq(Rows \cup {"header"}) : \A i \in 2 .. Len(f) : f[i] \in Rows}

\* The places of the rows that are not empty, behind the header if there is one.
Filled(lines) == {i \in DataStart(lines) + 1 .. Len(lines) : lines[i] # "empty"}

LEMMA LinesAre ==
  ASSUME NEW lines \in CsvLines, NEW d, d = DataStart(lines), NEW N0, N0 = Len(lines)
  PROVE  /\ N0 \in Nat /\ d \in {0, 1} /\ d <= N0
         /\ d = 1 <=> lines # <<>> /\ Head(lines) = "header"
         /\ Filled(lines) \in SUBSET (1 .. N0)
         /\ \A i \in d + 1 .. N0 : lines[i] \in Rows
         /\ \A i \in Filled(lines) : lines[i] \in Videos
<1>1. lines \in Seq(Rows \cup {"header"}) /\ \A i \in 2 .. N0 : lines[i] \in Rows
  BY DEF CsvLines
<1>2. N0 \in Nat /\ DOMAIN lines = 1 .. N0 /\ (lines # <<>> => N0 >= 1 /\ Head(lines) = lines[1])
  BY <1>1
<1>3. /\ d \in {0, 1} /\ d <= N0
      /\ d = 1 <=> lines # <<>> /\ Head(lines) = "header"
  BY <1>2 DEF DataStart
<1>4. \A i \in d + 1 .. N0 : lines[i] \in Rows
  <2>1. CASE d = 1
    BY <1>1, <2>1
  <2>2. CASE d = 0
    <3>1. N0 >= 1 => lines[1] \in Rows
      <4>1. N0 >= 1 => lines # <<>> /\ lines[1] \in Rows \cup {"header"}
        BY <1>1, <1>2
      <4>. QED  BY <1>2, <1>3, <2>2, <4>1
    <3>. QED  BY <1>1, <1>2, <2>2, <3>1
  <2>. QED  BY <1>3, <2>1, <2>2
<1>5. Filled(lines) \subseteq d + 1 .. N0 /\ \A i \in Filled(lines) : lines[i] # "empty"
  BY DEF Filled
<1>6. \A i \in d + 1 .. N0 : i \in 1 .. N0
  BY <1>2, <1>3
<1>. QED  BY <1>2, <1>3, <1>4, <1>5, <1>6 DEF Rows

\* The rows of a section.
LEMMA RowsAre ==
  ASSUME NEW lines \in CsvLines, NEW d, d = DataStart(lines), NEW N0, N0 = Len(lines),
         NEW a \in d .. N0, NEW b \in 0 .. N0, NEW x, x = RowsOf(lines, a, b)
  PROVE  x \in Seq(Videos) /\ FirstSeen(x, lines, Filled(lines) \cap (a + 1 .. b))
<1>. DEFINE I == {i \in a + 1 .. b : lines[i] # "empty"}
<1>1. /\ N0 \in Nat /\ d \in {0, 1} /\ d <= N0
      /\ Filled(lines) \in SUBSET (1 .. N0) /\ \A i \in Filled(lines) : lines[i] \in Videos
  BY LinesAre
<1>2. x = At(lines, I)
  BY DEF RowsOf
<1>3. \A i \in a + 1 .. b : i \in d + 1 .. N0
  BY <1>1
<1>4. I = Filled(lines) \cap (a + 1 .. b)
  BY <1>3 DEF Filled
<1>5. I \in SUBSET Nat /\ IsFiniteSet(I) /\ \A i \in I : lines[i] \in Videos
  <2>1. IsFiniteSet(1 .. N0)
    BY <1>1, FS_Interval
  <2>2. I \subseteq 1 .. N0 /\ \A i \in I : lines[i] \in Videos
    BY <1>1, <1>4
  <2>. HIDE DEF I
  <2>3. IsFiniteSet(I)
    BY <2>1, <2>2, FS_Subset
  <2>. QED  BY <1>1, <2>2, <2>3
<1>. HIDE DEF I
<1>. QED  BY <1>2, <1>4, <1>5, AtFirstSeen

\* What the parser finds, of a header and rows.
LEMMA ParsedRowsAre ==
  ASSUME NEW lines, NEW rows, NEW n \in Nat, NEW d \in Nat,
         Len(lines) = n + 1, Head(lines) = "header",
         \A i \in 1 .. n : lines[i + 1] = rows[i + d],
         NEW V, V = {i \in d + 1 .. d + n : rows[i] # "empty"},
         \A i \in V : rows[i] \in Videos,
         NEW x, x = ParseRows(lines)
  PROVE  x \in Seq(Videos) /\ FirstSeen(x, rows, V)
<1>. DEFINE parsed == ParseCsv(lines)
            t == [i \in DOMAIN parsed |-> parsed[i].value]
            I == {i \in DOMAIN parsed : parsed[i].column = "header" /\ parsed[i].value # "empty"}
<1>1. parsed = [i \in 1 .. n |-> [column |-> "header", value |-> lines[i + 1]]]
  BY DEF ParseCsv
<1>2. x = At(t, I)
  BY DEF ParseRows
<1>3. /\ t = [i \in 1 .. n |-> lines[i + 1]]
      /\ I = {i \in 1 .. n : lines[i + 1] # "empty"}
  BY <1>1
<1>. HIDE DEF parsed, t, I
<1>4. \A i \in 1 .. n : i \in Nat /\ i + d \in d + 1 .. d + n /\ t[i] = rows[i + d]
  BY <1>3
<1>5. I \subseteq 1 .. n /\ \A i \in I : i + d \in V /\ t[i] = rows[i + d] /\ t[i] \in Videos
  BY <1>3, <1>4
<1>6. V = {i + d : i \in I}
  <2>1. ASSUME NEW v \in V PROVE \E i \in I : v = i + d
    <3>1. v - d \in 1 .. n /\ (v - d) + d = v /\ rows[v] # "empty"
      OBVIOUS
    <3>. QED  BY <1>3, <3>1
  <2>. QED  BY <1>5, <2>1
<1>7. I \in SUBSET Nat /\ IsFiniteSet(I)
  <2>1. IsFiniteSet(1 .. n)
    BY FS_Interval
  <2>2. IsFiniteSet(I)
    BY <1>5, <2>1, FS_Subset
  <2>. QED  BY <1>4, <1>5, <2>2
<1>8. x \in Seq(Videos) /\ FirstSeen(x, t, I)
  BY <1>2, <1>5, <1>7, AtFirstSeen
<1>. QED  BY <1>5, <1>6, <1>7, <1>8, ShiftFirstSeen

LEMMA LaterAsOne ==
  ASSUME NEW lines \in CsvLines, NEW d, d = DataStart(lines), NEW N0, N0 = Len(lines),
         NEW c2 \in d .. N0, NEW c3 \in c2 .. N0,
         NEW x, x = RowsOf(lines, d, c2), NEW y, y = RowsOf(lines, c2, c3),
         NEW z, z = RowsOf(lines, c3, N0)
  PROVE  /\ x \in Seq(Videos) /\ y \in Seq(Videos) /\ z \in Seq(Videos)
         /\ Unique(x \o y \o z) =
              IF d = 1 THEN Unique(ParseRows(lines)) ELSE Unique(ParseRows(<<"header">> \o lines))
<1>. DEFINE V == Filled(lines)
<1>1. /\ N0 \in Nat /\ d \in {0, 1} /\ d <= N0
      /\ d = 1 <=> lines # <<>> /\ Head(lines) = "header"
      /\ V \in SUBSET (1 .. N0) /\ \A i \in V : lines[i] \in Videos
  BY LinesAre
<1>2. V = {i \in d + 1 .. N0 : lines[i] # "empty"}
  BY DEF Filled
<1>3. x \in Seq(Videos) /\ FirstSeen(x, lines, V \cap (d + 1 .. c2))
  <2>1. d \in d .. N0 /\ c2 \in 0 .. N0
    BY <1>1
  <2>. QED  BY <2>1, RowsAre
<1>4. y \in Seq(Videos) /\ FirstSeen(y, lines, V \cap (c2 + 1 .. c3))
  <2>1. c3 \in 0 .. N0
    BY <1>1
  <2>. QED  BY <2>1, RowsAre
<1>5. z \in Seq(Videos) /\ FirstSeen(z, lines, V \cap (c3 + 1 .. N0))
  <2>1. c3 \in d .. N0 /\ N0 \in 0 .. N0
    BY <1>1
  <2>. QED  BY <2>1, RowsAre
<1>. HIDE DEF V
<1>6. V \cap (d + 1 .. c2) = V \cap (1 .. c2)
  <2>1. \A i \in V : i \in d + 1 .. c2 <=> i \in 1 .. c2
    BY <1>1, <1>2
  <2>. QED  BY <2>1, Zenon
<1>7. PICK u : u = Unique(x \o y \o z)
  OBVIOUS
<1>8. u \in Seq(Videos) /\ IsInjective(u) /\ FirstSeen(u, lines, V)
  <2>1. c2 \in 0 .. N0 /\ c3 \in c2 .. N0 /\ c2 \in 0 .. c2 /\ c3 \in 0 .. c3
    BY <1>1
  <2>. QED  BY <1>1, <1>3, <1>4, <1>5, <1>6, <1>7, <2>1, ThreeParts
<1>9. PICK w : w = IF d = 1 THEN ParseRows(lines) ELSE ParseRows(<<"header">> \o lines)
  OBVIOUS
<1>10. w \in Seq(Videos) /\ FirstSeen(w, lines, V)
  <2>1. CASE d = 1
    <3>1. PICK n \in Nat : N0 = n + 1
      <4>1. N0 - 1 \in Nat /\ N0 = (N0 - 1) + 1
        BY <1>1, <2>1
      <4>. QED  BY <4>1
    <3>2. /\ d \in Nat /\ Len(lines) = n + 1 /\ Head(lines) = "header"
          /\ \A i \in 1 .. n : lines[i + 1] = lines[i + d]
      BY <1>1, <2>1, <3>1
    <3>3. V = {i \in d + 1 .. d + n : lines[i] # "empty"}
      <4>1. d + n = N0
        BY <2>1, <3>1
      <4>. QED  BY <1>2, <4>1
    <3>4. w = ParseRows(lines)
      BY <1>9, <2>1
    <3>. QED  BY <1>1, <3>1, <3>2, <3>3, <3>4, ParsedRowsAre
  <2>2. CASE d = 0
    <3>. DEFINE l == <<"header">> \o lines
    <3>1. lines \in Seq(Rows \cup {"header"})
      BY DEF CsvLines
    <3>2. /\ Len(l) = N0 + 1 /\ Head(l) = "header"
          /\ \A i \in 1 .. N0 : l[i + 1] = lines[i]
      BY <1>1, <3>1
    <3>3. w = ParseRows(l)
      BY <1>9, <2>2
    <3>. HIDE DEF l
    <3>4. d \in Nat /\ \A i \in 1 .. N0 : l[i + 1] = lines[i + d]
      BY <1>1, <2>2, <3>2
    <3>5. V = {i \in d + 1 .. d + N0 : lines[i] # "empty"}
      <4>1. d + N0 = N0
        BY <1>1, <2>2
      <4>. QED  BY <1>2, <4>1
    <3>. QED  BY <1>1, <3>2, <3>3, <3>4, <3>5, ParsedRowsAre
  <2>. QED  BY <1>1, <2>1, <2>2
<1>11. PICK v : v = Unique(w)
  OBVIOUS
<1>12. v \in Seq(Videos) /\ IsInjective(v) /\ FirstSeen(v, lines, V)
  BY <1>10, <1>11, UniqueFirstSeen
<1>13. u = v
  <2>1. V \in SUBSET Nat
    BY <1>1
  <2>. QED  BY <1>8, <1>12, <2>1, OneFirstSeen
<1>14. v = IF d = 1 THEN Unique(ParseRows(lines)) ELSE Unique(ParseRows(<<"header">> \o lines))
  BY <1>9, <1>11
<1>. QED  BY <1>3, <1>4, <1>5, <1>7, <1>13, <1>14
-----------------------------------------------------------------------------
\* Whatever the file, and wherever the sections cut it.
LEMMA SectionsAsOne ==
  ASSUME NEW f \in Files, NEW parts, \A k \in Sections : parts[k] = Section(f, k)
  PROVE  /\ \A k \in Sections : Section(f, k) \in Seq(Videos)
         /\ Merged(parts) = Whole(f)
<1>. DEFINE html == f.cells
<1>0. Sections = {1, 2, 3} /\ 1 + 1 = 2 /\ 2 + 1 = 3 /\ 3 + 1 = 4
  BY DEF Sections
<1>1. Merged(parts) = Unique(Section(f, 1) \o Section(f, 2) \o Section(f, 3))
  BY <1>0 DEF Merged
<1>2. CASE f.kind = "html"
  <2>. DEFINE n == Len(html)
              c2 == SectionStart(2, n)
              c3 == SectionStart(3, n)
  <2>1. html \in Seq(Cells) /\ WellFormed(html)
    BY <1>2, FilesType
  <2>2. n \in Nat
    BY <2>1
  <2>. HIDE DEF n
  <2>3. /\ SectionStart(1, n) = 0 /\ SectionStart(4, n) = n
        /\ c2 \in 0 .. n /\ c3 \in c2 .. n
    BY <2>2, Cuts
  <2>4. /\ Section(f, 1) = ParseRange(html, 0, c2)
        /\ Section(f, 2) = ParseRange(html, c2, c3)
        /\ Section(f, 3) = ParseRange(html, c3, n)
    BY <1>0, <1>2, <2>3 DEF Section, n
  <2>5. Whole(f) = ParseHistory(html)
    BY <1>2 DEF Whole
  <2>. HIDE DEF c2, c3
  <2>6. /\ Section(f, 1) \in Seq(Videos) /\ Section(f, 2) \in Seq(Videos)
        /\ Section(f, 3) \in Seq(Videos)
        /\ Unique(Section(f, 1) \o Section(f, 2) \o Section(f, 3)) = ParseHistory(html)
    BY <2>1, <2>3, <2>4, HistoryAsOne DEF n
  <2>. QED  BY <1>0, <1>1, <2>5, <2>6
<1>3. CASE f.kind = "csv"
  <2>. DEFINE d == DataStart(html)
              L == Len(html)
              n == L - d
              c2 == d + SectionStart(2, n)
              c3 == d + SectionStart(3, n)
  <2>1. html \in CsvLines
    BY <1>3, FilesType DEF CsvLines
  <2>2. L \in Nat /\ d \in {0, 1} /\ d <= L
    BY <2>1, LinesAre
  <2>. HIDE DEF L, d
  <2>3. n \in Nat /\ d + n = L
    BY <2>2
  <2>. HIDE DEF n
  <2>4. /\ SectionStart(1, n) = 0 /\ SectionStart(4, n) = n
        /\ SectionStart(2, n) \in 0 .. n /\ SectionStart(3, n) \in SectionStart(2, n) .. n
    BY <2>3, Cuts
  <2>5. c2 \in d .. L /\ c3 \in c2 .. L /\ d + 0 = d
    BY <2>2, <2>3, <2>4
  <2>6. /\ Section(f, 1) = RowsOf(html, d, c2)
        /\ Section(f, 2) = RowsOf(html, c2, c3)
        /\ Section(f, 3) = RowsOf(html, c3, L)
    BY <1>0, <1>3, <2>3, <2>4, <2>5 DEF Section, n, d, L
  <2>7. Whole(f) = IF d = 1 THEN Unique(ParseRows(html)) ELSE Unique(ParseRows(<<"header">> \o html))
    BY <1>3 DEF Whole, d
  <2>. HIDE DEF c2, c3
  <2>8. /\ Section(f, 1) \in Seq(Videos) /\ Section(f, 2) \in Seq(Videos)
        /\ Section(f, 3) \in Seq(Videos)
        /\ Unique(Section(f, 1) \o Section(f, 2) \o Section(f, 3)) = Whole(f)
    BY <2>1, <2>5, <2>6, <2>7, LaterAsOne DEF d, L
  <2>. QED  BY <1>0, <1>1, <2>8
<1>. QED  BY <1>2, <1>3, FilesType
-----------------------------------------------------------------------------
(* What the main thread works on.                                          *)

ListInv ==
  /\ lists \in [Users -> Seq(Video)] /\ list \in Seq(Video)
  /\ job \in {"idle", "parse", "upload", "reload", "own", "load", "feed"}
  /\ user \in Users \cup {None}
  /\ job \in {"parse", "upload"} => user \in Users
  /\ job = "upload" => IsInjective(Ids(list))

FileInv ==
  /\ file \in Files \cup {None} /\ (job = "parse" => file \in Files)
  /\ DOMAIN found = Sections
  /\ \A k \in Sections : found[k] = None \/ (job = "parse" /\ found[k] = Section(file, k))

LEMMA BareIs ==
  ASSUME NEW ids \in Seq(Videos), NEW b, b = Bare(ids)
  PROVE  b \in Seq(Video) /\ DOMAIN b = DOMAIN ids /\ Ids(b) = ids
<1>1. /\ DOMAIN b = DOMAIN ids /\ b = [i \in DOMAIN ids |-> b[i]]
      /\ \A i \in DOMAIN ids : b[i] = [id |-> ids[i], meta |-> Missing]
  BY DEF Bare
<1>2. Len(ids) \in Nat /\ DOMAIN ids = 1 .. Len(ids) /\ ids = [i \in DOMAIN ids |-> ids[i]]
      /\ \A i \in DOMAIN ids : ids[i] \in Videos
  OBVIOUS
<1>3. \A i \in DOMAIN ids : b[i] \in Video /\ b[i].id = ids[i]
  <2>. TAKE i \in DOMAIN ids
  <2>1. PICK v \in Videos : v = ids[i]
    BY <1>2
  <2>2. b[i] = [id |-> v, meta |-> Missing]
    BY <1>1, <2>1
  <2>3. b[i] \in Video /\ b[i].id = v
    BY <2>2 DEF Video, Missing
  <2>. QED  BY <2>1, <2>3
<1>4. b \in [1 .. Len(ids) -> Video]
  BY <1>1, <1>2, <1>3
<1>5. Ids(b) = [i \in DOMAIN ids |-> ids[i]]
  BY <1>1, <1>3 DEF Ids
<1>. QED  BY <1>1, <1>2, <1>4, <1>5

LEMMA CompletedIs ==
  ASSUME list \in Seq(Video), NEW c, c = Completed
  PROVE  /\ c \in Seq(Video) /\ DOMAIN c = DOMAIN list
         /\ \A i \in DOMAIN list :
              /\ c[i].id = list[i].id /\ c[i].meta >= list[i].meta
              /\ list[i].id \in enriched => c[i].meta = Complete
<1>1. /\ DOMAIN c = DOMAIN list /\ c = [i \in DOMAIN list |-> c[i]]
      /\ \A i \in DOMAIN list :
           c[i] = IF list[i].id \in enriched THEN [list[i] EXCEPT !.meta = Complete] ELSE list[i]
  BY DEF Completed
<1>2. Len(list) \in Nat /\ DOMAIN list = 1 .. Len(list) /\ \A i \in DOMAIN list : list[i] \in Video
  OBVIOUS
<1>3. \A i \in DOMAIN list : /\ c[i] \in Video
                             /\ c[i].id = list[i].id /\ c[i].meta >= list[i].meta
                             /\ list[i].id \in enriched => c[i].meta = Complete
  <2>. TAKE i \in DOMAIN list
  <2>1. PICK v \in Video : v = list[i]
    BY <1>2
  <2>2. v.id \in Videos /\ v.meta \in {0, 1, 2}
    BY DEF Video, Missing, Partial, Complete
  <2>3. CASE v.id \in enriched
    <3>1. c[i] = [v EXCEPT !.meta = 2]
      BY <1>1, <2>1, <2>3 DEF Complete
    <3>2. c[i] \in Video /\ c[i].id = v.id /\ c[i].meta = 2
      BY <3>1 DEF Video, Missing, Partial, Complete
    <3>. QED  BY <2>1, <2>2, <3>2 DEF Complete
  <2>4. CASE v.id \notin enriched
    <3>1. c[i] = v
      BY <1>1, <2>1, <2>4
    <3>. QED  BY <2>1, <2>2, <2>4, <3>1
  <2>. QED  BY <2>3, <2>4
<1>4. c \in [1 .. Len(list) -> Video]
  BY <1>1, <1>2, <1>3
<1>. QED  BY <1>1, <1>2, <1>3, <1>4

\* A feed is generated, or there is nobody to generate one for.
LEMMA GenerateIs ==
  ASSUME lists \in [Users -> Seq(Video)], NEW S \in SUBSET (1 .. N), Generate(S)
  PROVE  \/ job' = "idle" /\ UNCHANGED <<list, enriching>>
         \/ list' \in Seq(Video) /\ BeginEnrich("feed", list')
<1>1. CASE S = {}
  BY <1>1 DEF Generate
<1>2. CASE S # {}
  <2>1. PICK share \in [S -> UNION {Range(lists[People[i]]) : i \in S}] :
          /\ \A i \in S : share[i] \in Range(lists[People[i]])
          /\ BeginEnrich("feed", [j \in DOMAIN InOrder(S) |-> share[InOrder(S)[j]]])
    BY <1>2 DEF Generate
  <2>2. \A i \in S : share[i] \in Video
    <3>. TAKE i \in S
    <3>1. lists[People[i]] \in Seq(Video)
      BY Counts
    <3>2. PICK l : l = lists[People[i]]
      OBVIOUS
    <3>3. \A v \in Range(l) : v \in Video
      BY <3>1, <3>2 DEF Range
    <3>. QED  BY <2>1, <3>2, <3>3
  <2>3. S \in SUBSET Nat /\ IsFiniteSet(S)
    <3>1. N \in Nat /\ IsFiniteSet(1 .. N)
      BY Counts, FS_Interval
    <3>2. IsFiniteSet(S)
      BY <3>1, FS_Subset
    <3>. QED  BY <3>1, <3>2
  <2>4. PICK o : o = InOrder(S)
    OBVIOUS
  <2>5. PICK n : n = Cardinality(S)
    OBVIOUS
  <2>6. n \in Nat /\ o \in [1 .. n -> S]
    BY <2>3, <2>4, <2>5, InOrderLists
  <2>7. list' = [j \in 1 .. n |-> share[o[j]]]
    BY <2>1, <2>4, <2>6 DEF BeginEnrich
  <2>8. list' \in [1 .. n -> Video]
    BY <2>2, <2>6, <2>7
  <2>9. list' \in Seq(Video)
    BY <2>6, <2>8
  <2>10. BeginEnrich("feed", list')
    BY <2>1, Zenon DEF BeginEnrich
  <2>. QED  BY <2>9, <2>10
<1>. QED  BY <1>1, <1>2

LEMMA DataInit == Init => ListInv /\ FileInv
<1>. SUFFICES ASSUME Init PROVE ListInv /\ FileInv
  OBVIOUS
<1>1. /\ lists \in Lists /\ job = "idle" /\ user = None /\ file = None
      /\ found = [k \in Sections |-> None] /\ list = <<>>
  BY DEF Init
<1>2. lists \in [Users -> Seq(Video)] /\ list \in Seq(Video)
  BY <1>1, ListsType
<1>. QED  BY <1>1, <1>2 DEF ListInv, FileInv

\* The threads have parsed: the list is what is found, each video once.
LEMMA JoinedIs ==
  ASSUME ListInv, FileInv, JoinParsers
  PROVE  list' \in Seq(Video) /\ IsInjective(Ids(list'))
<1>1. /\ job = "parse" /\ file \in Files
      /\ \A k \in Sections : found[k] = Section(file, k)
  BY DEF JoinParsers, Parsed, FileInv
<1>2. found[1] \in Seq(Videos) /\ found[2] \in Seq(Videos) /\ found[3] \in Seq(Videos)
  BY <1>1, SectionsAsOne DEF Sections
<1>3. PICK s : s = found[1] \o found[2] \o found[3]
  OBVIOUS
<1>4. s \in Seq(Videos)
  BY <1>2, <1>3
<1>5. PICK u : u = Unique(s)
  OBVIOUS
<1>6. u \in Seq(Videos) /\ IsInjective(u)
  BY <1>4, <1>5, UniqueKeeps
<1>7. list' = Bare(u)
  BY <1>3, <1>5 DEF JoinParsers, Merged
<1>. QED  BY <1>6, <1>7, BareIs

LEMMA ListStep == ListInv /\ FileInv /\ [Next]_vars => ListInv'
<1>. SUFFICES ASSUME ListInv, FileInv, [Next]_vars PROVE ListInv'
  OBVIOUS
<1> USE DEF parsing, loading, enriching
<1>1. /\ lists \in [Users -> Seq(Video)] /\ list \in Seq(Video)
      /\ user \in Users \cup {None} /\ <<>> \in Seq(Video)
  BY DEF ListInv
<1>2. CASE UNCHANGED vars
  BY <1>2 DEF vars, ListInv
<1>3. ASSUME NEW u \in Users, StartUpload(u) PROVE ListInv'
  BY <1>1, <1>3 DEF StartUpload, ListInv
<1>4. ASSUME NEW u \in Users, StartLogin(u) PROVE ListInv'
  <2>1. lists[u] \in Seq(Video)
    BY <1>1
  <2>2. list' \in Seq(Video) /\ job' = "own" /\ user' = u /\ lists' = lists
    BY <1>1, <1>4, <2>1 DEF StartLogin, BeginEnrich
  <2>. QED  BY <1>1, <2>2 DEF ListInv
<1>5. CASE \E k \in Sections : ParseSection(k)
  BY <1>5 DEF ParseSection, ListInv
<1>6. CASE JoinParsers
  <2>1. list' \in Seq(Video) /\ IsInjective(Ids(list'))
    BY <1>6, JoinedIs
  <2>2. job' \in {"idle", "upload"} /\ job = "parse" /\ lists' = lists /\ user' = user
    BY <1>6 DEF JoinParsers, Parsed
  <2>3. user \in Users
    BY <2>2 DEF ListInv
  <2>. QED  BY <1>1, <2>1, <2>2, <2>3 DEF ListInv
<1>7. CASE Upload
  <2>1. PICK a : list' = Uploaded(a)
    BY <1>7 DEF Upload
  <2>2. list' \in Seq(Video)
    BY <1>1, <2>1, UploadedIs
  <2>3. /\ lists' = lists \/ lists' = [lists EXCEPT ![user] = list']
        /\ job' \in {"reload", "idle"} /\ user' = user
    BY <1>7 DEF Upload
  <2>4. lists' \in [Users -> Seq(Video)]
    BY <1>1, <2>2, <2>3
  <2>. QED  BY <1>1, <2>2, <2>3, <2>4 DEF ListInv
<1>8. CASE LoadInTurn \/ EndLoad
  <2>1. PICK S \in SUBSET (1 .. N) : Generate(S)
    <3>1. CASE LoadInTurn
      <4>1. PICK good \in SUBSET (1 .. N) : Generate({i \in good : Usable(i)})
        BY <3>1 DEF LoadInTurn
      <4>2. {i \in good : Usable(i)} \in SUBSET (1 .. N)
        OBVIOUS
      <4>. QED  BY <4>1, <4>2, Zenon
    <3>2. CASE EndLoad
      <4>1. Generate({i \in 1 .. N : loaded[i] # None})
        BY <3>2 DEF EndLoad
      <4>2. {i \in 1 .. N : loaded[i] # None} \in SUBSET (1 .. N)
        OBVIOUS
      <4>. QED  BY <4>1, <4>2, Zenon
    <3>. QED  BY <1>8, <3>1, <3>2
  <2>2. list' \in Seq(Video) /\ job' \in {"idle", "feed"}
    BY <1>1, <2>1, GenerateIs DEF BeginEnrich
  <2>3. lists' = lists /\ user' = user
    BY <1>8 DEF LoadInTurn, EndLoad
  <2>. QED  BY <1>1, <2>2, <2>3 DEF ListInv
<1>9. CASE EndOwn \/ EndFeed
  <2>1. list' = Completed /\ lists' = lists /\ user' = user /\ job' \in {"idle", "load"}
    BY <1>9 DEF EndOwn, EndFeed
  <2>2. list' \in Seq(Video)
    BY <1>1, <2>1, CompletedIs
  <2>. QED  BY <1>1, <2>1, <2>2 DEF ListInv
<1>10. CASE (\E w \in 1 .. Threads : EnrichChunk(w)) \/ (\E w \in 1 .. K : LoadNext(w))
  BY <1>10 DEF EnrichChunk, LoadNext, ListInv
<1>. QED  BY <1>2, <1>3, <1>4, <1>5, <1>6, <1>7, <1>8, <1>9, <1>10 DEF Next, Work

LEMMA FileStep == FileInv /\ [Next]_vars => FileInv'
<1>. SUFFICES ASSUME FileInv, [Next]_vars PROVE FileInv'
  OBVIOUS
<1> USE DEF parsing, loading, enriching
<1>1. CASE UNCHANGED <<file, found, job>>
  BY <1>1 DEF FileInv
<1>2. ASSUME NEW u \in Users, StartUpload(u) PROVE FileInv'
  <2>1. job = "idle" /\ job' = "parse" /\ file' \in Files /\ found' = found
    BY <1>2 DEF StartUpload
  <2>2. \A k \in Sections : found[k] = None
    BY <2>1 DEF FileInv
  <2>. QED  BY <2>1, <2>2 DEF FileInv
<1>3. ASSUME NEW k \in Sections, ParseSection(k) PROVE FileInv'
  <2>1. job = "parse" /\ job' = job /\ file' = file /\ found' = [found EXCEPT ![k] = Section(file, k)]
    BY <1>3 DEF ParseSection
  <2>2. DOMAIN found' = Sections /\ found'[k] = Section(file, k)
        /\ \A l \in Sections : l # k => found'[l] = found[l]
    BY <2>1 DEF FileInv
  <2>. QED  BY <2>1, <2>2 DEF FileInv
<1>4. CASE JoinParsers
  BY <1>4 DEF JoinParsers, FileInv
<1>5. CASE /\ job # "parse" /\ job' # "parse" /\ found' = found
           /\ file' = file \/ file' = None
  BY <1>5 DEF FileInv
<1>6. CASE \/ \E w \in 1 .. Threads : EnrichChunk(w)
           \/ \E w \in 1 .. K : LoadNext(w)
           \/ Upload \/ LoadInTurn \/ EndLoad \/ EndOwn \/ EndFeed
           \/ \E u \in Users : StartLogin(u)
  BY <1>5, <1>6 DEF EnrichChunk, LoadNext, Upload, LoadInTurn, EndLoad, Loaded, EndOwn, EndFeed,
     StartLogin, Generate, BeginEnrich
<1>. QED  BY <1>1, <1>2, <1>3, <1>4, <1>6 DEF Next, Work, vars
-----------------------------------------------------------------------------
(* The count of the requests, and the threads that enrich.                 *)

Answered == {i \in DOMAIN answer : answer[i] # None}

CountInv ==
  /\ job # "load" => answer = <<>>
  /\ job = "load" => \A i \in 1 .. N : answer[i] # None <=> Asked(i)
  /\ completed = Cardinality(Answered)
  /\ \A i \in DOMAIN loaded : loaded[i] # None => loaded[i] \in Seq(Video)
  /\ missing \in Seq(Users)

LEMMA CountInit == Init => CountInv
<1>. SUFFICES ASSUME Init PROVE CountInv
  OBVIOUS
<1>1. job = "idle" /\ answer = <<>> /\ loaded = <<>> /\ missing = <<>> /\ completed = 0
  BY DEF Init, NotLoading
<1>2. Answered = {} /\ missing \in Seq(Users)
  BY <1>1 DEF Answered
<1>. QED  BY <1>1, <1>2, FS_EmptySet DEF CountInv

LEMMA CountNextStep ==
  ASSUME ListInv, LoadInv, CountInv, NEW w \in 1 .. K, LoadNext(w), NEW i, i = next[w]
  PROVE  CountInv'
<1>1. /\ job = "load" /\ job' = job /\ lists' = lists /\ i <= N
      /\ next' = [next EXCEPT ![w] = After(i)] /\ completed' = completed + 1
  BY DEF LoadNext, Count
<1>2. /\ next \in [1 .. K -> Nat] /\ \A v \in 1 .. K : Of(v, next[v])
      /\ DOMAIN answer = 1 .. N /\ DOMAIN loaded = 1 .. N
  BY <1>1 DEF LoadInv
<1>3. i \in Nat \ {0} /\ ~Asked(i) /\ \A j : Asked(j)' <=> Asked(j) \/ j = i
  BY <1>1, <1>2, AsksOnce
<1>4. i \in 1 .. N /\ N \in Nat /\ People[i] \in Users /\ lists \in [Users -> Seq(Video)]
  BY <1>1, <1>3, Counts DEF ListInv
<1>5. PICK ok \in BOOLEAN :
        /\ answer' = [answer EXCEPT ![i] = IF ok THEN "ok" ELSE "failed"]
        /\ IF ok /\ Usable(i)
           THEN loaded' = [loaded EXCEPT ![i] = lists[People[i]]] /\ UNCHANGED missing
           ELSE missing' = Append(missing, People[i]) /\ UNCHANGED loaded
  BY DEF LoadNext
<1>6. /\ DOMAIN answer' = 1 .. N /\ answer'[i] # None
      /\ \A j \in 1 .. N : j # i => answer'[j] = answer[j]
  BY <1>2, <1>4, <1>5, VideosType
<1>7. \A j \in 1 .. N : answer'[j] # None <=> Asked(j)'
  BY <1>1, <1>3, <1>6, Zenon DEF CountInv
<1>8. completed' = Cardinality(Answered')
  <2>1. Answered' = Answered \cup {i}
    BY <1>2, <1>4, <1>6 DEF Answered
  <2>2. i \notin Answered
    BY <1>1, <1>3, <1>4 DEF Answered, CountInv
  <2>3. IsFiniteSet(Answered)
    <3>1. IsFiniteSet(1 .. N) /\ Answered \subseteq 1 .. N
      BY <1>2, <1>4, FS_Interval DEF Answered
    <3>. QED  BY <3>1, FS_Subset
  <2>4. Cardinality(Answered') = Cardinality(Answered) + 1
    BY <2>1, <2>2, <2>3, FS_AddElement
  <2>. QED  BY <1>1, <2>4 DEF CountInv
<1>9. missing \in Seq(Users) /\ \A j \in DOMAIN loaded : loaded[j] # None => loaded[j] \in Seq(Video)
  BY DEF CountInv
<1>10. missing' \in Seq(Users)
  <2>1. Append(missing, People[i]) \in Seq(Users)
    BY <1>4, <1>9
  <2>2. missing' = missing \/ missing' = Append(missing, People[i])
    BY <1>5, Zenon
  <2>. QED  BY <1>9, <2>1, <2>2, Zenon
<1>11. \A j \in DOMAIN loaded' : loaded'[j] # None => loaded'[j] \in Seq(Video)
  <2>1. lists[People[i]] \in Seq(Video)
    BY <1>4
  <2>2. CASE loaded' = loaded
    BY <1>9, <2>2, Zenon
  <2>3. CASE loaded' = [loaded EXCEPT ![i] = lists[People[i]]]
    <3>1. DOMAIN loaded' = DOMAIN loaded /\ loaded'[i] = lists[People[i]]
          /\ \A j \in DOMAIN loaded : j # i => loaded'[j] = loaded[j]
      BY <1>2, <1>4, <2>3
    <3>2. ASSUME NEW j \in DOMAIN loaded', loaded'[j] # None PROVE loaded'[j] \in Seq(Video)
      <4>1. CASE j = i
        BY <2>1, <3>1, <4>1, Zenon
      <4>2. CASE j # i
        <5>1. loaded'[j] = loaded[j] /\ j \in DOMAIN loaded
          BY <3>1, <4>2, Zenon
        <5>. QED  BY <1>9, <3>2, <5>1, Zenon
      <4>. QED  BY <4>1, <4>2
    <3>. QED  BY <3>2, Zenon
  <2>. QED  BY <1>5, <2>2, <2>3, Zenon
<1>. QED  BY <1>1, <1>7, <1>8, <1>10, <1>11 DEF CountInv

LEMMA CountStep == ListInv /\ LoadInv /\ CountInv /\ [Next]_vars => CountInv'
<1>. SUFFICES ASSUME ListInv, LoadInv, CountInv, [Next]_vars PROVE CountInv'
  OBVIOUS
<1> USE DEF parsing, loading, enriching
<1>1. CASE UNCHANGED <<answer, completed, loaded, missing>> /\ job # "load" /\ job' # "load"
  BY <1>1 DEF CountInv, Answered
<1>2. CASE UNCHANGED <<answer, completed, loaded, missing, next, job>>
  <2>1. Answered' = Answered /\ \A i : Asked(i)' <=> Asked(i)
    BY <1>2 DEF Answered, Asked
  <2>. QED  BY <1>2, <2>1 DEF CountInv
<1>3. ASSUME NEW w \in 1 .. K, LoadNext(w) PROVE CountInv'
  <2>1. PICK i : i = next[w]
    OBVIOUS
  <2>. QED  BY <1>3, <2>1, CountNextStep
<1>4. CASE EndLoad
  <2>1. job' # "load" /\ answer' = <<>> /\ loaded' = <<>> /\ missing' = <<>> /\ completed' = 0
    BY <1>4 DEF EndLoad, Generate, BeginEnrich
  <2>2. Answered' = {} /\ missing' \in Seq(Users)
    BY <2>1 DEF Answered
  <2>. QED  BY <2>1, <2>2, FS_EmptySet DEF CountInv
<1>5. CASE EndOwn /\ job' = "load"
  <2>1. /\ next' = [w \in 1 .. K |-> w]
        /\ answer' = [i \in 1 .. N |-> None] /\ loaded' = answer'
        /\ missing' = <<>> /\ completed' = 0
    BY <1>5 DEF EndOwn
  <2>2. \A i : ~Asked(i)'
    BY <2>1, LoadBegins
  <2>3. Answered' = {} /\ missing' \in Seq(Users)
    BY <2>1 DEF Answered
  <2>. QED  BY <1>5, <2>1, <2>2, <2>3, FS_EmptySet DEF CountInv
<1>6. CASE EndOwn /\ job' # "load"
  BY <1>1, <1>6 DEF EndOwn
<1>7. CASE \/ \E k \in Sections : ParseSection(k)
           \/ \E w \in 1 .. Threads : EnrichChunk(w)
           \/ JoinParsers \/ Upload \/ LoadInTurn \/ EndFeed
           \/ \E u \in Users : StartUpload(u) \/ StartLogin(u)
  BY <1>1, <1>7 DEF ParseSection, EnrichChunk, JoinParsers, Parsed, Upload, LoadInTurn, EndFeed,
     StartUpload, StartLogin, Generate, BeginEnrich
<1>. QED  BY <1>2, <1>3, <1>4, <1>5, <1>6, <1>7 DEF Next, Work, vars

\* While nobody's answer was cut short, a thread that is done has found all that
\* YouTube has of its chunk.
EnrichInv ==
  /\ todo \subseteq 1 .. Threads /\ enriched \subseteq Videos /\ whole \in BOOLEAN
  /\ job \in {"own", "feed"} => todo \subseteq 1 .. Workers(list)
  /\ job \in {"own", "feed"} /\ whole =>
       \A w \in (1 .. Workers(list)) \ todo : Range(Chunk(w)) \cap Available \subseteq enriched

\* The threads are about to start.
LEMMA EnrichBegins ==
  ASSUME NEW what, NEW videos \in Seq(Video), BeginEnrich(what, videos)
  PROVE  EnrichInv'
<1>1. list' = videos /\ todo' = 1 .. Workers(videos) /\ enriched' = {} /\ whole' = TRUE
  BY DEF BeginEnrich
<1>2. Workers(videos) \in Nat /\ Workers(videos) <= Threads /\ Threads \in Nat
  BY WorkersAre, SizesType
<1>3. Workers(list') = Workers(videos)
  BY <1>1
<1>4. todo' \subseteq 1 .. Threads /\ todo' \subseteq 1 .. Workers(list')
  BY <1>1, <1>2, <1>3
<1>5. (1 .. Workers(list')) \ todo' = {}
  BY <1>1, <1>3
<1>. QED  BY <1>1, <1>4, <1>5 DEF EnrichInv

\* A video whose title and logo came back is complete.
LEMMA FoundIsEnriched ==
  ASSUME NEW c \in Seq(Videos), NEW a, NEW v \in Range(c), v \in a.titles, v \in a.logos
  PROVE  v \in {y.id : y \in {x \in Range(Enrich(Bare(c), a)) : HasCompleteMetadata(x)}}
<1>. DEFINE e == Enrich(Bare(c), a)
<1>1. PICK i \in DOMAIN c : c[i] = v
  BY DEF Range
<1>2. PICK b : b = Bare(c)
  OBVIOUS
<1>3. DOMAIN b = DOMAIN c /\ b[i].id = v
  BY <1>1, <1>2 DEF Bare
<1>4. i \in DOMAIN e /\ e[i] = [id |-> v, meta |-> Complete]
  BY <1>2, <1>3 DEF Enrich
<1>. HIDE DEF e
<1>5. e[i].id = v /\ e[i].meta = Complete
  BY <1>4
<1>6. e[i] \in Range(e) /\ HasCompleteMetadata(e[i])
  BY <1>4, <1>5 DEF Range, HasCompleteMetadata
<1>7. v \in {y.id : y \in {x \in Range(e) : HasCompleteMetadata(x)}}
  BY <1>5, <1>6, Zenon
<1>. QED  BY <1>7 DEF e

LEMMA EnrichChunkStep ==
  ASSUME ListInv, EnrichInv, NEW w \in 1 .. Threads, EnrichChunk(w)
  PROVE  EnrichInv'
<1>1. /\ job \in {"own", "feed"} /\ job' = job /\ list' = list /\ todo' = todo \ {w} /\ w \in todo
  BY DEF EnrichChunk
<1>2. PICK a :
        /\ enriched' = enriched \cup
             {v.id : v \in {x \in Range(Enrich(Bare(Chunk(w)), a)) : HasCompleteMetadata(x)}}
        /\ whole' = (whole /\ Range(Chunk(w)) \cap Available \subseteq a.titles \cap a.logos)
  BY DEF EnrichChunk
<1>3. \A t : Chunk(t)' = Chunk(t)
  BY <1>1 DEF Chunk
<1>4. Workers(list') = Workers(list)
  BY <1>1
<1>5. PICK c : c = Chunk(w)
  OBVIOUS
<1>6. /\ todo' \subseteq 1 .. Threads /\ todo' \subseteq 1 .. Workers(list')
      /\ w \in 1 .. Workers(list)
  BY <1>1, <1>4 DEF EnrichInv
<1>7. c \in Seq(Videos)
  <2>1. list \in Seq(Video)
    BY DEF ListInv
  <2>. QED  BY <1>5, <1>6, <2>1, ChunkIs
<1>8. enriched' \subseteq Videos
  <2>2. PICK b : b = Bare(c)
    OBVIOUS
  <2>3. PICK e : e = Enrich(b, a)
    OBVIOUS
  <2>4. e \in Seq(Video)
    BY <1>7, <2>2, <2>3, BareIs, EnrichKeeps
  <2>5. \A x \in Range(e) : x.id \in Videos
    <3>1. \A x \in Range(e) : x \in Video
      BY <2>4 DEF Range
    <3>. QED  BY <3>1 DEF Video
  <2>6. enriched' = enriched \cup {v.id : v \in {x \in Range(e) : HasCompleteMetadata(x)}}
    BY <1>2, <1>5, <2>2, <2>3
  <2>. QED  BY <2>5, <2>6 DEF EnrichInv
<1>9. ASSUME whole', NEW t \in (1 .. Workers(list')) \ todo'
      PROVE  Range(Chunk(t)') \cap Available \subseteq enriched'
  <2>1. whole /\ Range(c) \cap Available \subseteq a.titles \cap a.logos
    BY <1>2, <1>5, <1>9
  <2>2. CASE t = w
    <3>2. ASSUME NEW v \in Range(c) \cap Available PROVE v \in enriched'
      <4>1. v \in a.titles /\ v \in a.logos
        BY <2>1, <3>2
      <4>2. v \in {y.id : y \in {x \in Range(Enrich(Bare(c), a)) : HasCompleteMetadata(x)}}
        BY <1>7, <4>1, FoundIsEnriched
      <4>. QED  BY <1>2, <1>5, <4>2
    <3>3. Chunk(t)' = c
      BY <1>3, <1>5, <2>2
    <3>. QED  BY <3>2, <3>3
  <2>3. CASE t # w
    <3>1. t \in (1 .. Workers(list)) \ todo
      BY <1>1, <1>4, <1>9, <2>3
    <3>2. Range(Chunk(t)) \cap Available \subseteq enriched
      BY <1>1, <2>1, <3>1 DEF EnrichInv
    <3>3. enriched \subseteq enriched'
      BY <1>2
    <3>. QED  BY <1>3, <3>2, <3>3
  <2>. QED  BY <2>2, <2>3
<1>10. whole' \in BOOLEAN
  BY <1>2
<1>. QED  BY <1>6, <1>8, <1>9, <1>10 DEF EnrichInv

LEMMA EnrichInit == Init => EnrichInv
  BY DEF Init, NotEnriching, EnrichInv

LEMMA EnrichStep == ListInv /\ EnrichInv /\ [Next]_vars => EnrichInv'
<1>. SUFFICES ASSUME ListInv, EnrichInv, [Next]_vars PROVE EnrichInv'
  OBVIOUS
<1> USE DEF parsing, loading, enriching
<1>1. /\ lists \in [Users -> Seq(Video)] /\ list \in Seq(Video) /\ <<>> \in Seq(Video)
  BY DEF ListInv
<1>2. CASE UNCHANGED enriching /\ job' \notin {"own", "feed"}
  BY <1>2 DEF EnrichInv
<1>3. CASE UNCHANGED <<enriching, job, list>>
  <2>1. Workers(list') = Workers(list) /\ \A t : Chunk(t)' = Chunk(t)
    BY <1>3 DEF Chunk
  <2>. QED  BY <1>3, <2>1 DEF EnrichInv
<1>4. ASSUME NEW w \in 1 .. Threads, EnrichChunk(w) PROVE EnrichInv'
  BY <1>4, EnrichChunkStep
<1>5. ASSUME NEW u \in Users, StartLogin(u) PROVE EnrichInv'
  <2>1. lists[u] \in Seq(Video)
    BY <1>1
  <2>. QED  BY <1>1, <1>5, <2>1, EnrichBegins DEF StartLogin
<1>6. ASSUME NEW S \in SUBSET (1 .. N), Generate(S) PROVE EnrichInv'
  BY <1>1, <1>2, <1>6, GenerateIs, EnrichBegins
<1>7. CASE LoadInTurn
  <2>1. PICK good \in SUBSET (1 .. N) : Generate({i \in good : Usable(i)})
    BY <1>7 DEF LoadInTurn
  <2>2. {i \in good : Usable(i)} \in SUBSET (1 .. N)
    OBVIOUS
  <2>. QED  BY <1>6, <2>1, <2>2, Zenon
<1>8. CASE EndLoad
  <2>1. Generate({i \in 1 .. N : loaded[i] # None})
    BY <1>8 DEF EndLoad
  <2>2. {i \in 1 .. N : loaded[i] # None} \in SUBSET (1 .. N)
    OBVIOUS
  <2>. QED  BY <1>6, <2>1, <2>2, Zenon
<1>9. CASE \E w \in 1 .. K : LoadNext(w)
  BY <1>3, <1>9 DEF LoadNext
<1>10. CASE \/ \E k \in Sections : ParseSection(k)
            \/ JoinParsers \/ Upload \/ EndOwn \/ EndFeed
            \/ \E u \in Users : StartUpload(u)
  BY <1>2, <1>10 DEF ParseSection, JoinParsers, Parsed, Upload, EndOwn, EndFeed, StartUpload
<1>. QED  BY <1>3, <1>4, <1>5, <1>7, <1>8, <1>9, <1>10 DEF Next, Work, vars
-----------------------------------------------------------------------------
DataInv == LoadInv /\ ListInv /\ FileInv /\ CountInv /\ EnrichInv

LEMMA DataHolds == Spec => []DataInv
<1>1. Init => DataInv
  BY LoadInit, DataInit, CountInit, EnrichInit DEF DataInv
<1>2. DataInv /\ [Next]_vars => DataInv'
  BY LoadStep, ListStep, FileStep, CountStep, EnrichStep DEF DataInv
<1>. QED  BY <1>1, <1>2, PTL DEF Spec

\* The types of ClientData, for any files, lists, participants and numbers; and
\* the count the main thread waits for is that of the requests that ended.
THEOREM DataTypes == Spec => []TypeOK
<1>1. DataInv => TypeOK
  <2>. SUFFICES ASSUME DataInv PROVE TypeOK
    OBVIOUS
  <2>1. ASSUME NEW k \in Sections, found[k] # None PROVE found[k] \in Seq(Videos)
    <3>1. found[k] = Section(file, k) /\ file \in Files
      BY <2>1 DEF DataInv, FileInv
    <3>2. PICK parts : parts = [l \in Sections |-> Section(file, l)]
      OBVIOUS
    <3>. QED  BY <3>1, <3>2, SectionsAsOne
  <2>. QED  BY <2>1, Zenon DEF DataInv, ListInv, FileInv, CountInv, EnrichInv, Answered, TypeOK
<1>. QED  BY <1>1, DataHolds, PTL

\* parseMultiThreaded, for every file the client reads and wherever the sections
\* cut it: the three threads find what one would, though an href at a border is
\* scanned twice.
THEOREM ThreadsParseAsOne == Spec => []ParsedAsOne
<1>1. DataInv => ParsedAsOne
  <2>. SUFFICES ASSUME DataInv, Parsed PROVE Merged(found) = Whole(file)
    BY DEF ParsedAsOne
  <2>1. file \in Files /\ \A k \in Sections : found[k] = Section(file, k)
    BY DEF Parsed, DataInv, FileInv
  <2>. QED  BY <2>1, SectionsAsOne
<1>. QED  BY <1>1, DataHolds, PTL

\* handleUploadData, for every list and answer: what is stored is the list, in
\* its order and each video once, less what has no title.
THEOREM UploadKeepsOrder == Spec => PostedAsParsed
<1>1. ASSUME DataInv, [Next]_vars, lists' # lists
      PROVE  LET ids == Ids(lists'[user])
             IN  /\ ids = At(Ids(list), {i \in DOMAIN list : list[i].id \in Range(ids)})
                 /\ IsInjective(ids)
                 /\ \A i \in DOMAIN ids : lists'[user][i].meta # Missing
  <2>1. Upload
    BY <1>1 DEF Next, Work, vars, parsing, loading, enriching, StartUpload, StartLogin, ParseSection,
       JoinParsers, EnrichChunk, LoadInTurn, LoadNext, EndLoad, EndOwn, EndFeed
  <2>2. /\ job = "upload" /\ lists' = [lists EXCEPT ![user] = list']
        /\ \E a : list' = Uploaded(a)
    BY <1>1, <2>1 DEF Upload
  <2>3. /\ user \in Users /\ IsInjective(Ids(list)) /\ list \in Seq(Video)
        /\ lists \in [Users -> Seq(Video)]
    BY <1>1, <2>2 DEF DataInv, ListInv
  <2>4. lists'[user] = list'
    BY <2>2, <2>3
  <2>5. PICK J \in SUBSET DOMAIN list :
          /\ Ids(list') = At(Ids(list), J)
          /\ \A i \in DOMAIN list' : list'[i].meta # Missing
    BY <2>2, <2>3, UploadedIs
  <2>6. PICK s : s = Ids(list)
    OBVIOUS
  <2>7. PICK t : t = At(s, J)
    OBVIOUS
  <2>8. DOMAIN s = DOMAIN list /\ \A i \in DOMAIN list : s[i] = list[i].id
    BY <2>6 DEF Ids
  <2>9. \A i, j \in DOMAIN list : s[i] = s[j] => i = j
    BY <2>3, <2>6, <2>8 DEF IsInjective
  <2>10. J \in SUBSET Nat /\ IsFiniteSet(J)
    <3>1. DOMAIN list = 1 .. Len(list) /\ Len(list) \in Nat
      BY <2>3
    <3>2. IsFiniteSet(DOMAIN list)
      BY <3>1, FS_Interval
    <3>3. IsFiniteSet(J)
      BY <3>2, FS_Subset
    <3>. QED  BY <3>1, <3>3
  <2>. DEFINE n == Cardinality(J)
              o == InOrder(J)
  <2>11. /\ n \in Nat /\ o \in [1 .. n -> J]
         /\ t = [k \in 1 .. n |-> s[o[k]]]
         /\ \A k, l \in 1 .. n : k < l => o[k] < o[l]
         /\ \A i \in J : \E k \in 1 .. n : o[k] = i
    BY <2>7, <2>10, AtKeeps
  <2>. HIDE DEF n, o
  <2>12. DOMAIN t = 1 .. n /\ \A k \in 1 .. n : o[k] \in J /\ o[k] \in DOMAIN list /\ t[k] = s[o[k]]
    BY <2>11
  <2>13. IsInjective(t)
    <3>1. \A i \in J : i \in Nat
      BY <2>10
    <3>2. ASSUME NEW k \in 1 .. n, NEW l \in 1 .. n, t[k] = t[l] PROVE k = l
      <4>1. o[k] = o[l] /\ o[k] \in Nat
        BY <2>9, <2>12, <3>1, <3>2
      <4>2. ~(k < l) /\ ~(l < k)
        BY <2>11, <4>1
      <4>. QED  BY <2>11, <4>2
    <3>. QED  BY <2>12, <3>2 DEF IsInjective
  <2>14. {i \in DOMAIN list : list[i].id \in Range(t)} = J
    <3>1. ASSUME NEW i \in J PROVE list[i].id \in Range(t)
      <4>1. PICK k \in 1 .. n : o[k] = i
        BY <2>11
      <4>. QED  BY <2>8, <2>12, <4>1 DEF Range
    <3>2. ASSUME NEW i \in DOMAIN list, list[i].id \in Range(t) PROVE i \in J
      <4>1. PICK k \in 1 .. n : t[k] = list[i].id
        BY <2>12, <3>2 DEF Range
      <4>2. s[o[k]] = s[i]
        BY <2>8, <2>12, <4>1
      <4>3. o[k] = i
        BY <2>9, <2>12, <4>2
      <4>. QED  BY <2>12, <4>3
    <3>. QED  BY <3>1, <3>2
  <2>15. DOMAIN t = DOMAIN list'
    BY <2>5, <2>6, <2>7 DEF Ids
  <2>16. Ids(lists'[user]) = t
    BY <2>4, <2>5, <2>6, <2>7
  <2>17. t = At(Ids(list), {i \in DOMAIN list : list[i].id \in Range(t)})
    BY <2>6, <2>7, <2>14
  <2>18. \A i \in DOMAIN t : lists'[user][i].meta # Missing
    BY <2>4, <2>5, <2>15
  <2>. QED  BY <2>13, <2>16, <2>17, <2>18, Zenon
<1>2. DataInv /\ [Next]_vars =>
        [lists' # lists =>
           LET ids == Ids(lists'[user])
           IN  /\ ids = At(Ids(list), {i \in DOMAIN list : list[i].id \in Range(ids)})
               /\ IsInjective(ids)
               /\ \A i \in DOMAIN ids : lists'[user][i].meta # Missing]_vars
  BY <1>1, Zenon
<1>. QED  BY <1>2, DataHolds, PTL DEF Spec, PostedAsParsed

\* enrichMissingMetadataSubsetMultithreaded, for every list and any number of
\* threads: none of the first FeedMax videos that lack something falls between
\* two chunks, no place is changed and nothing is lost.
THEOREM ThreadsEnrichAll == Spec => EnrichImproves
<1>1. ASSUME DataInv, [Next]_vars, job' # job, job \in {"own", "feed"}
      PROVE  /\ Ids(list') = Ids(list)
             /\ \A i \in DOMAIN list :
                  /\ list'[i].meta >= list[i].meta
                  /\ (whole /\ list[i].id \in Available /\ list[i].id \in Range(Pending(list))
                        => list'[i].meta = Complete)
  <2>1. EndOwn \/ EndFeed
    BY <1>1 DEF Next, Work, vars, parsing, loading, enriching, StartUpload, StartLogin, ParseSection,
       JoinParsers, Parsed, Upload, EnrichChunk, LoadInTurn, LoadNext, EndLoad, Loaded
  <2>2. list' = Completed /\ todo = {} /\ list \in Seq(Video)
    BY <1>1, <2>1 DEF EndOwn, EndFeed, DataInv, ListInv
  <2>3. PICK c : c = list'
    OBVIOUS
  <2>4. /\ DOMAIN c = DOMAIN list
        /\ \A i \in DOMAIN list : /\ c[i].id = list[i].id /\ c[i].meta >= list[i].meta
                                  /\ list[i].id \in enriched => c[i].meta = Complete
    BY <2>2, <2>3, CompletedIs
  <2>5. Ids(c) = Ids(list)
    BY <2>4 DEF Ids
  <2>6. ASSUME NEW v \in Range(Pending(list)), v \in Available, whole PROVE v \in enriched
    <3>1. PICK w \in 1 .. Workers(list) : v \in Range(Chunk(w))
      BY <2>2, ChunksCover
    <3>2. Range(Chunk(w)) \cap Available \subseteq enriched
      BY <1>1, <2>2, <2>6, <3>1 DEF DataInv, EnrichInv
    <3>. QED  BY <2>6, <3>1, <3>2
  <2>. QED  BY <2>3, <2>4, <2>5, <2>6
<1>2. DataInv /\ [Next]_vars =>
        [job' # job /\ job \in {"own", "feed"} =>
           /\ Ids(list') = Ids(list)
           /\ \A i \in DOMAIN list :
                /\ list'[i].meta >= list[i].meta
                /\ (whole /\ list[i].id \in Available /\ list[i].id \in Range(Pending(list))
                      => list'[i].meta = Complete)]_vars
  BY <1>1, Zenon
<1>. QED  BY <1>2, DataHolds, PTL DEF Spec, EnrichImproves
=============================================================================
