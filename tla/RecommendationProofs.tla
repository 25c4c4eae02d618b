------------------------ MODULE RecommendationProofs ------------------------
(***************************************************************************)
(* Proofs about RecommendationApi and BehaviorReplay.                      *)
(*                                                                         *)
(* The API: the pool is as full as it can be, an answer holds nothing      *)
(* twice and nothing unwanted, and it names truly who ranked it, for any   *)
(* posts, authors, topics, scores and exclusions, any sizes of pool and    *)
(* answer, any number of requests and of changes while they run.           *)
(*                                                                         *)
(* The histories: the label loop computes the label that is defined by     *)
(* sets, the preference vector agrees with it, a visit is counted once,    *)
(* and an old view changes no topic, for any events and any number.        *)
(*                                                                         *)
(* Where the code sorts or loops, the models count (the i-th of a source   *)
(* or a history has i - 1 before it) or recur.  The first part proves what *)
(* these give, by taking the least number for which it would fail.         *)
(***************************************************************************)
EXTENDS RecommendationApi, BehaviorReplay, FiniteSetTheorems, WellFoundedInduction, TLAPS

Candidates == [post : Posts, text : Nat]
CandidateLists == Seq(Candidates)

\* A candidate list names no post twice.
Distinct(list) ==
    \A i, j \in 1..Len(list) : list[i].post = list[j].post => i = j

-----------------------------------------------------------------------------
(* Order.                                                                  *)

\* In a strict order of a finite set every place is taken by one element.
LEMMA Places ==
    ASSUME NEW S, IsFiniteSet(S), NEW below,
           \A p \in S : below[p] \subseteq S /\ p \notin below[p],
           \A p \in S : \A q \in below[p] : below[q] \subseteq below[p],
           \A p, q \in S : p = q \/ p \in below[q] \/ q \in below[p]
    PROVE  /\ \A p \in S : Cardinality(below[p]) \in 0..Cardinality(S)-1
           /\ \A p, q \in S : Cardinality(below[p]) = Cardinality(below[q]) => p = q
           /\ \A i \in 1..Cardinality(S) : \E p \in S : Cardinality(below[p]) = i - 1
           /\ \A p \in S : \A q \in below[p] :
                Cardinality(below[q]) < Cardinality(below[p])
<1> DEFINE n == Cardinality(S)
           rank == [p \in S |-> Cardinality(below[p])]
<1>1. n \in Nat
    BY FS_CardinalityType
<1>2. \A p \in S : IsFiniteSet(below[p]) /\ Cardinality(below[p]) \in Nat
    <2> TAKE p \in S
    <2>1. below[p] \in SUBSET S
        OBVIOUS
    <2> QED
        BY <2>1, FS_Subset, FS_CardinalityType
<1>3. \A p \in S : Cardinality(below[p]) < n
    <2> TAKE p \in S
    <2>1. below[p] \in SUBSET S /\ below[p] # S
        OBVIOUS
    <2>2. Cardinality(below[p]) <= n /\ n # Cardinality(below[p])
        BY <2>1, FS_Subset
    <2> QED
        BY <1>1, <1>2, <2>2
<1>4. \A p \in S : \A q \in below[p] : Cardinality(below[q]) < Cardinality(below[p])
    <2> TAKE p \in S
    <2> TAKE q \in below[p]
    <2>1. q \in S /\ below[q] \in SUBSET below[p] /\ below[q] # below[p]
        OBVIOUS
    <2>2. Cardinality(below[q]) <= Cardinality(below[p])
          /\ Cardinality(below[p]) # Cardinality(below[q])
        BY <1>2, <2>1, FS_Subset
    <2> QED
        BY <1>2, <2>1, <2>2
<1>5. \A p, q \in S : Cardinality(below[p]) = Cardinality(below[q]) => p = q
    BY <1>2, <1>4
<1>6. rank \in Injection(S, 0..n-1)
    <2>1. rank \in [S -> 0..n-1]
        BY <1>1, <1>2, <1>3
    <2>2. \A p, q \in S : rank[p] = rank[q] => p = q
        BY <1>5
    <2> HIDE DEF rank
    <2> QED
        BY <2>1, <2>2 DEF Injection, IsInjective
<1>7. IsFiniteSet(0..n-1) /\ Cardinality(0..n-1) = n
    BY <1>1, FS_Interval
<1>8. rank \in Surjection(S, 0..n-1)
    BY <1>6, <1>7, FS_Injection
<1>9. \A i \in 1..n : \E p \in S : rank[p] = i - 1
    <2> TAKE i \in 1..n
    <2>1. i - 1 \in 0..n-1
        BY <1>1
    <2> HIDE DEF rank
    <2> QED
        BY <1>8, <2>1 DEF Surjection
<1> QED
    BY <1>1, <1>2, <1>3, <1>4, <1>5, <1>9

\* A non-empty set of naturals has a least element.
LEMMA Least ==
    ASSUME NEW S, S \subseteq Nat, S # {}
    PROVE  \E m \in S : \A n \in S : m <= n
<1>1. PICK m \in S : \A n \in S : <<n, m>> \notin OpToRel(<, Nat)
    BY NatLessThanWellFounded, WFMin
<1>2. \A n \in S : ~(n < m)
    BY <1>1 DEF OpToRel
<1> QED
    BY <1>2

-----------------------------------------------------------------------------
(* The sources.                                                            *)

\* There are finitely many posts.
LEMMA PostsAreFinite == PostCount \in Nat /\ IsFiniteSet(Posts)
<1>1. PostCount \in Nat
    BY ApiAssumption
<1>2. PostCount \in Int /\ 1 \in Int
    BY <1>1
<1> QED
    BY <1>1, <1>2, FS_Interval DEF Posts

\* A source has the posts that come first, each once and as it is now.
LEMMA TopSource ==
    ASSUME eligible \subseteq Posts, edition \in [Posts -> Nat],
           NEW set \in SUBSET Posts, NEW n \in Nat, NEW key \in [Posts -> Nat]
    PROVE  LET all == set \cap eligible
               top == Top(set, n, key) IN
           /\ IsFiniteSet(all) /\ Cardinality(all) \in Nat
           /\ top \in CandidateLists /\ Distinct(top) /\ Ids(top) \subseteq all
           /\ Len(top) = AtMost(n, Cardinality(all))
<1> DEFINE all == set \cap eligible
           below == [p \in all |-> {q \in all : Before(key, q, p)}]
           ranked(i) == CHOOSE p \in all :
                          Cardinality({q \in all : Before(key, q, p)}) = i - 1
           top == Top(set, n, key)
           size == AtMost(n, Cardinality(all))
<1>1. IsFiniteSet(all) /\ Cardinality(all) \in Nat
    BY PostsAreFinite, FS_Subset, FS_CardinalityType
<1>2. \A p, q \in all : p \in Nat /\ q \in Nat /\ key[p] \in Nat /\ key[q] \in Nat
    BY ApiAssumption DEF Posts
<1>3. /\ \A p, q \in all : Cardinality(below[p]) = Cardinality(below[q]) => p = q
      /\ \A i \in 1..Cardinality(all) : \E p \in all : Cardinality(below[p]) = i - 1
    <2>1. \A p \in all : below[p] \subseteq all /\ p \notin below[p]
        BY <1>2 DEF Before
    <2>2. \A p \in all : \A q \in below[p] : below[q] \subseteq below[p]
        BY <1>2 DEF Before
    <2>3. \A p, q \in all : p = q \/ p \in below[q] \/ q \in below[p]
        BY <1>2 DEF Before
    <2> HIDE DEF below, all
    <2> QED
        BY <1>1, <2>1, <2>2, <2>3, Places
<1>4. \A i \in 1..Cardinality(all) : ranked(i) \in all /\ Cardinality(below[ranked(i)]) = i - 1
    <2> TAKE i \in 1..Cardinality(all)
    <2>1. PICK p \in all : Cardinality({q \in all : Before(key, q, p)}) = i - 1
        BY <1>3
    <2>2. ranked(i) \in all /\ Cardinality({q \in all : Before(key, q, ranked(i))}) = i - 1
        BY <2>1
    <2> QED
        BY <2>2
<1>5. size \in Nat /\ size <= Cardinality(all)
    BY <1>1 DEF AtMost
<1>6. top = [i \in 1..size |-> [post |-> ranked(i), text |-> edition[ranked(i)]]]
    BY DEF Top
<1> HIDE DEF ranked, below, size, all
<1>7. \A i \in 1..size : ranked(i) \in all /\ Cardinality(below[ranked(i)]) = i - 1
    BY <1>1, <1>4, <1>5
<1> USE DEF all
<1>8. \A i \in 1..size : top[i] \in Candidates /\ top[i].post = ranked(i)
    BY <1>6, <1>7 DEF Candidates
<1>9. top \in CandidateLists /\ Len(top) = size
    <2>1. \A i \in 1..size : top[i] \in Candidates
        BY <1>8
    <2>2. top \in [1..size -> Candidates]
        BY <1>6, <2>1
    <2> HIDE DEF top
    <2> QED
        BY <1>5, <2>2 DEF CandidateLists
<1>10. Distinct(top)
    <2> SUFFICES ASSUME NEW i \in 1..size, NEW j \in 1..size, top[i].post = top[j].post
                 PROVE  i = j
        BY <1>9 DEF Distinct
    <2>1. ranked(i) = ranked(j)
        BY <1>8
    <2>2. i - 1 = j - 1
        BY <1>7, <2>1
    <2> QED
        BY <1>5, <2>2
<1>11. Ids(top) \subseteq all
    BY <1>7, <1>8, <1>9 DEF Ids
<1> QED
    BY <1>1, <1>9, <1>10, <1>11 DEF size

\* A list without some posts has the others, in a list as good as it was.
LEMMA WithoutPosts ==
    ASSUME NEW batch \in CandidateLists, Distinct(batch), NEW posts
    PROVE  LET rest == Without(batch, posts) IN
           rest \in CandidateLists /\ Distinct(rest) /\ Ids(rest) = Ids(batch) \ posts
<1> DEFINE kept == {i \in DOMAIN batch : batch[i].post \notin posts}
           below == [i \in kept |-> {j \in kept : j < i}]
           nth(n) == CHOOSE i \in kept : Cardinality({j \in kept : j < i}) = n - 1
           rest == Without(batch, posts)
           size == Cardinality(kept)
<1>1. Len(batch) \in Nat /\ DOMAIN batch = 1..Len(batch)
      /\ \A i \in 1..Len(batch) : batch[i] \in Candidates
    BY DEF CandidateLists
<1>2. IsFiniteSet(kept) /\ size \in Nat
    <2>1. IsFiniteSet(1..Len(batch)) /\ kept \in SUBSET (1..Len(batch))
        BY <1>1, FS_Interval
    <2> HIDE DEF kept
    <2> QED
        BY <2>1, FS_Subset, FS_CardinalityType
<1>3. \A i \in kept : i \in Nat /\ i \in 1..Len(batch) /\ batch[i].post \notin posts
    BY <1>1
<1>4. /\ \A i \in kept : Cardinality(below[i]) \in 0..size-1
      /\ \A i, j \in kept : Cardinality(below[i]) = Cardinality(below[j]) => i = j
      /\ \A n \in 1..size : \E i \in kept : Cardinality(below[i]) = n - 1
    <2>1. \A i \in kept : below[i] \subseteq kept /\ i \notin below[i]
        BY <1>3
    <2>2. \A i \in kept : \A j \in below[i] : below[j] \subseteq below[i]
        BY <1>3
    <2>3. \A i, j \in kept : i = j \/ i \in below[j] \/ j \in below[i]
        BY <1>3
    <2> HIDE DEF below, kept
    <2> QED
        BY <1>2, <2>1, <2>2, <2>3, Places
<1>5. \A n \in 1..size : nth(n) \in kept /\ Cardinality(below[nth(n)]) = n - 1
    <2> TAKE n \in 1..size
    <2>1. PICK i \in kept : Cardinality({j \in kept : j < i}) = n - 1
        BY <1>4
    <2>2. nth(n) \in kept /\ Cardinality({j \in kept : j < nth(n)}) = n - 1
        BY <2>1
    <2> QED
        BY <2>2
<1>6. rest = [n \in 1..size |-> batch[nth(n)]]
    BY DEF Without
<1> HIDE DEF nth, below, size, kept
<1>7. rest \in CandidateLists /\ Len(rest) = size
    <2>1. rest \in [1..size -> Candidates]
        BY <1>1, <1>3, <1>5, <1>6
    <2> HIDE DEF rest
    <2> QED
        BY <1>2, <2>1 DEF CandidateLists, size
<1>8. \A n \in 1..size : rest[n] = batch[nth(n)] /\ nth(n) \in kept
    BY <1>5, <1>6
<1> HIDE DEF rest
<1>9. Distinct(rest)
    <2> SUFFICES ASSUME NEW m \in 1..size, NEW n \in 1..size, rest[m].post = rest[n].post
                 PROVE  m = n
        BY <1>7 DEF Distinct
    <2>1. nth(m) = nth(n)
        BY <1>3, <1>8 DEF Distinct
    <2>2. m - 1 = n - 1
        BY <1>5, <2>1
    <2> QED
        BY <1>2, <2>2 DEF size
<1>10. Ids(rest) \subseteq Ids(batch) \ posts
    BY <1>3, <1>7, <1>8 DEF Ids
<1>11. ASSUME NEW p \in Ids(batch) \ posts PROVE p \in Ids(rest)
    <2>1. PICK i \in 1..Len(batch) : batch[i].post = p
        BY DEF Ids
    <2>2. i \in kept
        BY <1>1, <2>1 DEF kept
    <2> DEFINE n == Cardinality(below[i]) + 1
    <2>3. n \in 1..size /\ Cardinality(below[i]) = n - 1
        BY <1>2, <1>4, <2>2
    <2>4. nth(n) = i
        BY <1>4, <1>5, <2>2, <2>3
    <2> HIDE DEF n
    <2> QED
        BY <1>7, <1>8, <2>1, <2>3, <2>4 DEF Ids
<1> QED
    BY <1>7, <1>9, <1>10, <1>11 DEF rest

\* There are n indices up to n.
LEMMA IndexSet ==
    ASSUME NEW n \in Nat
    PROVE  IsFiniteSet(1..n) /\ Cardinality(1..n) = n
<1>1. 1 \in Int /\ n \in Int
    OBVIOUS
<1>2. IsFiniteSet(1..n) /\ Cardinality(1..n) = IF 1 > n THEN 0 ELSE n - 1 + 1
    BY <1>1, FS_Interval
<1> QED
    BY <1>2

\* A list without duplicates is as long as it has posts.
LEMMA DistinctLength ==
    ASSUME NEW list \in CandidateLists, Distinct(list)
    PROVE  IsFiniteSet(Ids(list)) /\ Cardinality(Ids(list)) = Len(list)
<1> DEFINE post == [i \in 1..Len(list) |-> list[i].post]
<1>1. Len(list) \in Nat
    BY DEF CandidateLists
<1>2. IsFiniteSet(1..Len(list)) /\ Cardinality(1..Len(list)) = Len(list)
    BY <1>1, IndexSet
<1>3. post \in Bijection(1..Len(list), Ids(list))
    <2>1. post \in [1..Len(list) -> Ids(list)]
        BY DEF Ids
    <2>2. \A i, j \in 1..Len(list) : post[i] = post[j] => i = j
        BY DEF Distinct
    <2>3. \A p \in Ids(list) : \E i \in 1..Len(list) : post[i] = p
        BY DEF Ids
    <2> HIDE DEF post
    <2> QED
        BY <2>1, <2>2, <2>3 DEF Bijection, Injection, Surjection, IsInjective
<1>4. ExistsBijection(1..Len(list), Ids(list))
    BY <1>3 DEF ExistsBijection
<1> QED
    BY <1>2, <1>4, FS_Bijection

\* Merging adds what is new of a source and keeps a list free of duplicates and
\* of what the caller excluded.
LEMMA MergeLists ==
    ASSUME NEW list \in CandidateLists, Distinct(list), NEW excluded,
           NEW batch \in CandidateLists, Distinct(batch)
    PROVE  LET merged == Merge(list, batch, excluded) IN
           /\ merged \in CandidateLists /\ Distinct(merged)
           /\ Ids(merged) = Ids(list) \cup (Ids(batch) \ excluded)
<1> DEFINE new == Without(batch, Ids(list) \cup excluded)
           merged == Merge(list, batch, excluded)
<1>1. new \in CandidateLists /\ Distinct(new) /\ Ids(new) = Ids(batch) \ (Ids(list) \cup excluded)
    BY WithoutPosts
<1> HIDE DEF new
<1>2. merged = list \o new
    BY DEF Merge, new
<1> HIDE DEF merged
<1>3. merged \in CandidateLists /\ Len(merged) = Len(list) + Len(new)
    BY <1>1, <1>2 DEF CandidateLists
<1>4. /\ Len(list) \in Nat /\ Len(new) \in Nat
      /\ \A i \in 1..Len(list) : merged[i] = list[i]
      /\ \A i \in Len(list)+1..Len(merged) :
            i - Len(list) \in 1..Len(new) /\ merged[i] = new[i - Len(list)]
    BY <1>1, <1>2, <1>3 DEF CandidateLists
<1>5. /\ \A i \in 1..Len(list) : merged[i].post \in Ids(list)
      /\ \A i \in Len(list)+1..Len(merged) :
            merged[i].post \in Ids(new) /\ merged[i].post \notin Ids(list)
    BY <1>1, <1>4 DEF Ids
<1>6. \A i \in 1..Len(merged) : i \in 1..Len(list) \/ i \in Len(list)+1..Len(merged)
    BY <1>3, <1>4
<1>7. Distinct(merged)
    <2> SUFFICES ASSUME NEW i \in 1..Len(merged), NEW j \in 1..Len(merged),
                        merged[i].post = merged[j].post
                 PROVE  i = j
        BY DEF Distinct
    <2>1. CASE i \in 1..Len(list) /\ j \in 1..Len(list)
        BY <1>4, <2>1 DEF Distinct
    <2>2. CASE i \in Len(list)+1..Len(merged) /\ j \in Len(list)+1..Len(merged)
        <3> DEFINE k == i - Len(list)
                   l == j - Len(list)
        <3>1. k \in 1..Len(new) /\ l \in 1..Len(new) /\ new[k].post = new[l].post
            BY <1>4, <2>2
        <3> HIDE DEF k, l
        <3>2. k = l
            BY <1>1, <3>1 DEF Distinct
        <3> QED
            BY <1>3, <1>4, <3>2 DEF k, l
    <2> QED
        BY <1>5, <1>6, <2>1, <2>2
<1>8. Ids(merged) \subseteq Ids(list) \cup Ids(new)
    BY <1>5, <1>6 DEF Ids
<1>9. Ids(list) \subseteq Ids(merged)
    <2>1. \A i \in 1..Len(list) : i \in 1..Len(merged) /\ merged[i] = list[i]
        BY <1>3, <1>4
    <2> QED
        BY <2>1 DEF Ids
<1>10. Ids(new) \subseteq Ids(merged)
    <2>1. \A i \in 1..Len(new) : Len(list) + i \in 1..Len(merged)
                                 /\ merged[Len(list) + i] = new[i]
        BY <1>3, <1>4
    <2> QED
        BY <2>1 DEF Ids
<1> QED
    BY <1>1, <1>3, <1>7, <1>8, <1>9, <1>10 DEF merged

-----------------------------------------------------------------------------
(* The reranking.                                                          *)

\* A penalty is a number, whatever was chosen before.
LEMMA PenaltyType == \A p, chosen : Penalty(p, chosen) \in Nat
<1> TAKE p, chosen
<1> DEFINE last == chosen[Len(chosen)]
           topics == {Topic[chosen[i]] : i \in 1..Len(chosen)}
           author == IF Author[p] = Author[last] THEN 8 ELSE 0
           topic == IF Topic[p] = Topic[last] THEN 5 ELSE 0
           seen == IF Topic[p] \in topics /\ Cardinality(topics) < 3 THEN 4 ELSE 0
<1>1. author \in Nat /\ topic \in Nat /\ seen \in Nat
    <2>1. author = 8 \/ author = 0
        BY Zenon
    <2>2. topic = 5 \/ topic = 0
        BY Zenon
    <2>3. seen = 4 \/ seen = 0
        BY Zenon
    <2> HIDE DEF author, topic, seen
    <2> QED
        BY <2>1, <2>2, <2>3
<1>2. Penalty(p, chosen) = IF chosen = <<>> THEN 0 ELSE author + topic + seen
    BY Zenon DEF Penalty
<1> HIDE DEF author, topic, seen
<1> QED
    BY <1>1, <1>2

\* Of the candidates that are left one precedes all.
LEMMA FirstCandidate ==
    ASSUME NEW posts \in Seq(Posts), NEW scores \in [Posts -> Nat], NEW chosen,
           NEW left \in SUBSET (1..Len(posts)), left # {}
    PROVE  \E i \in left : \A j \in left : Precedes(i, j, posts, chosen, scores)
<1> DEFINE value == [i \in left |-> scores[posts[i]] + 17 - Penalty(posts[i], chosen)]
           score == [i \in left |-> scores[posts[i]]]
           ahead(i, j) == \/ value[i] > value[j]
                          \/ value[i] = value[j] /\ score[i] > score[j]
                          \/ value[i] = value[j] /\ score[i] = score[j] /\ i < j
           below == [i \in left |-> {j \in left : ahead(j, i)}]
<1>1. Len(posts) \in Nat /\ \A i \in 1..Len(posts) : posts[i] \in Posts
    OBVIOUS
<1>2. \A i \in left : i \in Nat /\ score[i] \in Nat /\ value[i] \in Int
    <2> TAKE i \in left
    <2>1. i \in 1..Len(posts) /\ posts[i] \in Posts
        BY <1>1
    <2>2. scores[posts[i]] \in Nat /\ Penalty(posts[i], chosen) \in Nat
        BY <2>1, PenaltyType
    <2> QED
        BY <1>1, <2>1, <2>2
<1>3. \A i, j \in left : Precedes(i, j, posts, chosen, scores) <=> i = j \/ ahead(i, j)
    <2> TAKE i, j \in left
    <2>1. Precedes(i, j, posts, chosen, scores) <=>
            \/ value[i] > value[j]
            \/ value[i] = value[j] /\ score[i] > score[j]
            \/ value[i] = value[j] /\ score[i] = score[j] /\ i <= j
        BY Zenon DEF Precedes
    <2> HIDE DEF value, score
    <2> QED
        BY <1>2, <2>1
<1>4. IsFiniteSet(left) /\ Cardinality(left) \in Nat \ {0}
    <2>1. IsFiniteSet(1..Len(posts)) /\ left \in SUBSET (1..Len(posts))
        BY <1>1, IndexSet
    <2>2. IsFiniteSet(left)
        BY <2>1, FS_Subset
    <2>3. Cardinality(left) \in Nat /\ Cardinality(left) # 0
        BY <2>2, FS_CardinalityType, FS_EmptySet
    <2> QED
        BY <2>2, <2>3
<1> HIDE DEF value, score
<1>5. \E i \in left : Cardinality(below[i]) = 0
    <2>1. \A i \in left : below[i] \subseteq left /\ i \notin below[i]
        BY <1>2
    <2>2. \A i \in left : \A j \in below[i] : below[j] \subseteq below[i]
        <3> TAKE i \in left
        <3> TAKE j \in below[i]
        <3> SUFFICES ASSUME NEW k \in below[j] PROVE ahead(k, i)
            OBVIOUS
        <3>1. ahead(k, j) /\ ahead(j, i)
            OBVIOUS
        <3> QED
            BY <1>2, <3>1
    <2>3. \A i, j \in left : i = j \/ i \in below[j] \/ j \in below[i]
        BY <1>2
    <2> HIDE DEF below
    <2>4. \A n \in 1..Cardinality(left) : \E i \in left : Cardinality(below[i]) = n - 1
        <3>1. IsFiniteSet(left)
            BY <1>4
        <3> QED
            BY ONLY <3>1, <2>1, <2>2, <2>3, Places
    <2>5. 1 \in 1..Cardinality(left)
        BY <1>4
    <2>6. \E i \in left : Cardinality(below[i]) = 1 - 1
        BY <2>4, <2>5
    <2> QED
        BY <2>6
<1>6. PICK i \in left : Cardinality(below[i]) = 0
    BY <1>5
<1>7. below[i] = {}
    <2>1. below[i] \in SUBSET left
        OBVIOUS
    <2> HIDE DEF below
    <2> QED
        BY <1>4, <1>6, <2>1, FS_Subset, FS_EmptySet
<1>8. \A j \in left : ~ahead(j, i)
    BY <1>7
<1>9. \A j \in left : i = j \/ ahead(i, j)
    BY <1>2, <1>8
<1> QED
    BY <1>3, <1>9

\* f is defined by recursion over 0..last.
Recursive(f, last, start, step) ==
    f = [n \in 0..last |-> IF n = 0 THEN start ELSE step[n][f[n-1]]]

\* A definition by recursion over 0..last, whose n-th value lies in the n-th of
\* a family of sets whenever the one before lies in its own, defines a function,
\* and every such function has its values there.
LEMMA Recursion ==
    ASSUME NEW last \in Nat, NEW sets, NEW start, start \in sets[0], NEW step,
           \A n \in 1..last : \A b \in sets[n-1] : step[n][b] \in sets[n]
    PROVE  /\ \E f : Recursive(f, last, start, step)
           /\ \A f : Recursive(f, last, start, step)
                     => \A n \in 0..last : f[n] \in sets[n]
<1> DEFINE stage(f, k) == f = [n \in 0..k |-> IF n = 0 THEN start ELSE step[n][f[n-1]]]
           missing == {k \in 0..last : ~\E f : stage(f, k)}
<1>1. missing = {}
    <2> SUFFICES ASSUME missing # {} PROVE FALSE
        OBVIOUS
    <2>1. missing \subseteq Nat
        OBVIOUS
    <2>2. PICK k \in missing : \A n \in missing : k <= n
        BY <2>1, Least
    <2>3. k # 0
        <3> DEFINE g == [n \in 0..0 |-> start]
        <3>1. \A n \in 0..0 : n = 0
            OBVIOUS
        <3>2. g = [n \in 0..0 |-> IF n = 0 THEN start ELSE step[n][g[n-1]]]
            BY <3>1
        <3>3. \E f : stage(f, 0)
            BY <3>2
        <3> QED
            BY <3>3
    <2>4. k \in Nat /\ k - 1 \in 0..last /\ k - 1 \notin missing
        BY <2>2, <2>3
    <2>5. PICK g : g = [n \in 0..k-1 |-> IF n = 0 THEN start ELSE step[n][g[n-1]]]
        BY <2>4
    <2> DEFINE h == [n \in 0..k |-> IF n = k THEN step[k][g[k-1]] ELSE g[n]]
    <2>6. \A n \in 0..k-1 : h[n] = g[n]
        BY <2>4
    <2>7. \A n \in 0..k : h[n] = IF n = 0 THEN start ELSE step[n][h[n-1]]
        <3> TAKE n \in 0..k
        <3>1. CASE n = k
            <4>1. k - 1 \in 0..k-1 /\ h[k] = step[k][g[k-1]]
                BY <2>3, <2>4
            <4> QED
                BY <2>3, <2>6, <3>1, <4>1
        <3>2. CASE n # k
            <4>1. n \in 0..k-1 /\ h[n] = g[n]
                BY <2>4, <3>2
            <4>2. g[n] = IF n = 0 THEN start ELSE step[n][g[n-1]]
                BY <2>5, <4>1
            <4>3. n = 0 \/ n - 1 \in 0..k-1
                BY <2>4, <4>1
            <4> QED
                BY <2>6, <4>1, <4>2, <4>3
        <3> QED
            BY <3>1, <3>2
    <2>8. h = [n \in 0..k |-> IF n = 0 THEN start ELSE step[n][h[n-1]]]
        <3>1. h = [n \in 0..k |-> h[n]]
            OBVIOUS
        <3> HIDE DEF h
        <3> QED
            BY <2>7, <3>1
    <2> HIDE DEF h
    <2> QED
        BY <2>2, <2>8
<1>2. ASSUME NEW f, Recursive(f, last, start, step)
      PROVE  \A n \in 0..last : f[n] \in sets[n]
    <2> DEFINE bad == {n \in 0..last : f[n] \notin sets[n]}
    <2>1. f[0] = start /\ \A n \in 1..last : f[n] = step[n][f[n-1]]
        BY <1>2 DEF Recursive
    <2> SUFFICES ASSUME bad # {} PROVE FALSE
        OBVIOUS
    <2>2. bad \subseteq Nat
        OBVIOUS
    <2>3. PICK n \in bad : \A m \in bad : n <= m
        BY <2>2, Least
    <2>4. n \in 1..last /\ n - 1 \in 0..last /\ n - 1 \notin bad
        BY <2>1, <2>3
    <2>5. f[n-1] \in sets[n-1]
        BY <2>4
    <2> QED
        BY <2>1, <2>3, <2>4, <2>5
<1>3. \E f : stage(f, last)
    BY <1>1
<1> QED
    BY <1>2, <1>3 DEF Recursive

\* Orders of n of the indices up to last.
Orders(n, last) == {b \in Seq(1..last) : Len(b) = n /\ IsInjective(b)}

\* While not all indices are ordered, some are left.
LEMMA SomeIndexLeft ==
    ASSUME NEW last \in Nat, NEW n \in 1..last, NEW b \in Orders(n - 1, last)
    PROVE  (1..last) \ Range(b) # {}
<1>1. b \in Seq(1..last) /\ Len(b) = n - 1 /\ DOMAIN b = 1..n-1 /\ IsInjective(b)
      /\ n - 1 \in Nat
    BY DEF Orders
<1>2. b \in Bijection(1..n-1, Range(b))
    <2>1. b \in [1..n-1 -> Range(b)]
        BY <1>1 DEF Range
    <2>2. \A i, j \in 1..n-1 : b[i] = b[j] => i = j
        BY <1>1 DEF IsInjective
    <2>3. \A x \in Range(b) : \E i \in 1..n-1 : b[i] = x
        BY <1>1 DEF Range
    <2> QED
        BY <2>1, <2>2, <2>3 DEF Bijection, Injection, Surjection, IsInjective
<1>3. ExistsBijection(1..n-1, Range(b))
    BY <1>2 DEF ExistsBijection
<1>4. IsFiniteSet(1..n-1) /\ Cardinality(1..n-1) = n - 1
    BY <1>1, IndexSet
<1>5. Cardinality(Range(b)) = n - 1
    BY <1>3, <1>4, FS_Bijection
<1>6. Cardinality(1..last) = last
    BY IndexSet
<1>7. Range(b) \subseteq 1..last
    BY <1>1 DEF Range
<1>8. Range(b) # 1..last
    BY <1>5, <1>6
<1> QED
    BY <1>7, <1>8

\* An index that is left makes an order longer.
LEMMA LongerOrder ==
    ASSUME NEW last \in Nat, NEW n \in 1..last, NEW b \in Orders(n - 1, last),
           NEW x \in (1..last) \ Range(b)
    PROVE  Append(b, x) \in Orders(n, last)
<1>1. b \in Seq(1..last) /\ Len(b) = n - 1 /\ DOMAIN b = 1..n-1 /\ IsInjective(b)
      /\ n - 1 \in Nat
    BY DEF Orders
<1> DEFINE c == Append(b, x)
<1>2. c \in Seq(1..last) /\ Len(c) = n /\ DOMAIN c = 1..n /\ c[n] = x
      /\ \A i \in 1..n-1 : c[i] = b[i]
    BY <1>1
<1> HIDE DEF c
<1>3. \A i \in 1..n-1 : c[i] # x
    BY <1>1, <1>2 DEF Range
<1>4. \A i \in 1..n : i = n \/ i \in 1..n-1
    OBVIOUS
<1>5. \A i, j \in 1..n : c[i] = c[j] => i = j
    <2> TAKE i, j \in 1..n
    <2>1. CASE i \in 1..n-1 /\ j \in 1..n-1
        BY <1>1, <1>2, <2>1 DEF IsInjective
    <2> QED
        BY <1>2, <1>3, <1>4, <2>1
<1>6. IsInjective(c)
    BY <1>2, <1>5 DEF IsInjective
<1> QED
    BY <1>2, <1>6 DEF Orders, c

\* The reranking gives as many posts as fit, all of them candidates and none
\* twice.
LEMMA Reranking ==
    ASSUME NEW posts \in Seq(Posts), IsInjective(posts), NEW scores \in [Posts -> Nat]
    PROVE  LET answer == DiversityRerank(posts, scores) IN
           /\ IsInjective(answer) /\ Range(answer) \subseteq Range(posts)
           /\ answer \in Seq(Posts) /\ Len(answer) = AtMost(Limit, Len(posts))
<1> DEFINE total == Len(posts)
           last == AtMost(Limit, Len(posts))
           next(n, before) ==
               LET chosen == [m \in 1..n - 1 |-> posts[before[m]]]
                   left == (1..Len(posts)) \ Range(before)
               IN Append(before, CHOOSE i \in left : \A j \in left :
                                    Precedes(i, j, posts, chosen, scores))
           rule(f) == f = [n \in 0..last |-> IF n = 0 THEN <<>> ELSE next(n, f[n-1])]
           picked == CHOOSE f : rule(f)
           empty == <<>>
           sets == [n \in 0..last |-> Orders(n, total)]
           step == [n \in 1..last |-> [b \in sets[n-1] |-> next(n, b)]]
<1>1. total \in Nat /\ last \in Nat /\ last <= total
    BY ApiAssumption DEF AtMost
<1>2. DiversityRerank(posts, scores) =
        [n \in DOMAIN (picked[last]) |-> posts[picked[last][n]]]
    BY Zenon DEF DiversityRerank
<1> HIDE DEF last, total
<1>3. \A n \in 1..last : n - 1 \in 0..last /\ n \in 0..last /\ n \in 1..total
    BY <1>1
<1>4. ASSUME NEW n \in 1..last, NEW b \in Orders(n - 1, total)
      PROVE  next(n, b) \in Orders(n, total)
    <2> DEFINE chosen == [m \in 1..n - 1 |-> posts[b[m]]]
               left == (1..Len(posts)) \ Range(b)
               x == CHOOSE i \in left : \A j \in left :
                       Precedes(i, j, posts, chosen, scores)
    <2>1. left # {}
        BY <1>1, <1>3, SomeIndexLeft DEF total
    <2>2. left \in SUBSET (1..Len(posts))
        OBVIOUS
    <2> HIDE DEF chosen, left
    <2>3. \E i \in left : \A j \in left : Precedes(i, j, posts, chosen, scores)
        BY <2>1, <2>2, FirstCandidate
    <2>4. x \in left
        BY <2>3
    <2>5. next(n, b) = Append(b, x)
        BY DEF chosen, left
    <2> HIDE DEF x
    <2> QED
        BY <1>1, <1>3, <2>4, <2>5, LongerOrder DEF left, total
<1> HIDE DEF next
<1>5. empty \in sets[0]
    <2>1. <<>> \in Seq(1..total) /\ Len(<<>>) = 0
        OBVIOUS
    <2>2. IsInjective(<<>>)
        BY DEF IsInjective
    <2> QED
        BY <1>1, <2>1, <2>2 DEF Orders
<1>6. \A n \in 1..last : \A b \in sets[n-1] : step[n][b] = next(n, b) /\ step[n][b] \in sets[n]
    BY <1>3, <1>4
<1>7. \A n \in 1..last : sets[n-1] = Orders(n - 1, total)
    BY <1>3
<1> DEFINE stepped(f) == Recursive(f, last, empty, step)
<1> HIDE DEF sets, step, empty
<1>8. /\ \E f : stepped(f)
      /\ \A f : stepped(f) => \A n \in 0..last : f[n] \in sets[n]
    <2>1. \A n \in 1..last : \A b \in sets[n-1] : step[n][b] \in sets[n]
        BY <1>6
    <2>2. last \in Nat
        BY <1>1
    <2> QED
        BY ONLY <1>5, <2>1, <2>2, Recursion
<1>9. PICK g : stepped(g)
    BY <1>8
<1>10. rule(g)
    <2>1. \A n \in 0..last : g[n] \in sets[n]
        BY <1>8, <1>9
    <2>2. \A n \in 0..last : n = 0 \/ (n \in 1..last /\ n - 1 \in 0..last)
        BY <1>1
    <2>3. \A n \in 0..last : n # 0 => step[n][g[n-1]] = next(n, g[n-1])
        BY <1>6, <2>1, <2>2
    <2> QED
        BY <1>9, <2>3 DEF empty, Recursive
<1>11. rule(picked)
    BY <1>10
<1> HIDE DEF picked
<1>12. \A n \in 0..last : picked[n] \in sets[n]
    <2> DEFINE bad == {n \in 0..last : picked[n] \notin sets[n]}
    <2>1. picked[0] = <<>> /\ \A n \in 1..last : picked[n] = next(n, picked[n-1])
        BY <1>1, <1>3, <1>11
    <2> SUFFICES ASSUME bad # {} PROVE FALSE
        OBVIOUS
    <2>2. bad \subseteq Nat
        OBVIOUS
    <2>3. PICK n \in bad : \A m \in bad : n <= m
        BY <2>2, Least
    <2>4. n \in 0..last /\ picked[n] \notin sets[n] /\ n # 0
        BY <1>5, <2>1, <2>3 DEF empty
    <2>5. n \in 1..last /\ n - 1 \in 0..last /\ ~(n <= n - 1)
        BY <1>1, <2>4
    <2>6. picked[n-1] \in sets[n-1]
        BY <2>3, <2>5
    <2> QED
        BY <1>6, <2>1, <2>4, <2>5, <2>6
<1>13. PICK order \in Orders(last, total) : order = picked[last]
    BY <1>1, <1>12 DEF sets
<1> DEFINE answer == [n \in DOMAIN order |-> posts[order[n]]]
<1>14. order \in Seq(1..total) /\ Len(order) = last /\ DOMAIN order = 1..last
       /\ IsInjective(order)
    BY <1>1 DEF Orders
<1>15. \A n \in 1..last : order[n] \in 1..total /\ answer[n] = posts[order[n]]
    <2>1. \A n \in 1..last : order[n] \in 1..total
        BY <1>1, <1>14
    <2> QED
        BY <1>14, <2>1
<1>16. \A i \in 1..total : posts[i] \in Posts /\ i \in DOMAIN posts
    BY DEF total
<1>17. IsInjective(answer)
    BY <1>14, <1>15, <1>16 DEF IsInjective
<1>18. Range(answer) \subseteq Range(posts)
    BY <1>14, <1>15, <1>16 DEF Range
<1>19. answer \in Seq(Posts) /\ Len(answer) = last
    <2>1. answer \in [1..last -> Posts]
        BY <1>14, <1>15, <1>16
    <2> HIDE DEF answer
    <2> QED
        BY <1>1, <2>1
<1>20. DiversityRerank(posts, scores) = answer
    BY <1>2, <1>13
<1> HIDE DEF answer
<1> QED
    BY <1>17, <1>18, <1>19, <1>20 DEF last

-----------------------------------------------------------------------------
(* The invariant.                                                          *)

Stages == {"semantic", "follow", "topic", "recent", "backfill", "observe", "context",
           "score", "wait", "rank", "done"}
Gathering == {"semantic", "follow", "topic", "recent", "backfill"}
Versions == {"", "heuristic", "shadow", "ml"}
Known == SUBSET (Posts \X Nat)
Begun == [pc : Stages, list : CandidateLists, allowed : SUBSET Posts, steady : BOOLEAN,
          known : Known, hashes : Seq(Nat), records : BOOLEAN,
          version : Versions, answer : Seq(Posts)]
Outcomes == {"none", "running", "scored", "failed"}

ApiTypeOK ==
    /\ mode \in {"heuristic", "shadow", "ml"}
    /\ predictor \in {"none", "logistic", "nrms"}
    /\ eligible \subseteq Posts /\ edition \in [Posts -> Nat] /\ features \in Known
    /\ req \in [Requests -> {NoRequest} \cup Begun]
    /\ task \in [Requests -> Outcomes]

PostsOf(list) == [i \in 1..Len(list) |-> list[i].post]

\* While a request is under way what is eligible is among its allowed posts, and
\* while nothing is excluded or admitted it is all of them.
WorldOK(q) ==
    q.pc # "done" =>
       /\ eligible \subseteq q.allowed
       /\ q.steady => eligible = q.allowed

\* What a request has listed was eligible at some time since it began; once all
\* sources are asked the pool is as large as it can be.
ListOK(q, excluded) ==
    /\ Distinct(q.list) /\ Ids(q.list) \subseteq q.allowed \ excluded
    /\ q.pc \notin Gathering /\ q.steady =>
          Len(q.list) = AtMost(Pool, Cardinality(q.allowed \ excluded))

\* The model has a version only where its task came back with scores, and a
\* model that needs records was given them.
ScoringOK(q, outcome) ==
    /\ q.pc \in {"score", "wait"} /\ predictor = "nrms" => q.records
    /\ q.pc \in {"rank", "done"} /\ q.version = "ml" =>
          mode = "ml" /\ outcome = "scored" /\ (predictor = "nrms" => q.records)

AnswerOK(q) ==
    q.answer = IF q.pc = "done" /\ q.list # <<>>
               THEN Answer(PostsOf(q.list), q.version) ELSE <<>>

RequestOK(r) ==
    req[r] # NoRequest =>
       /\ WorldOK(req[r]) /\ ListOK(req[r], Excluded[r])
       /\ ScoringOK(req[r], task[r]) /\ AnswerOK(req[r])

ApiInv == ApiTypeOK /\ \A r \in Requests : RequestOK(r)

\* Initially no request has begun.
LEMMA ApiInitially == ApiInit => ApiInv
<1> SUFFICES ASSUME ApiInit PROVE ApiInv
    OBVIOUS
<1>1. \A r \in Requests : req[r] = NoRequest
    BY DEF ApiInit
<1>2. edition \in [Posts -> Nat] /\ features \in Known
    BY DEF ApiInit, Known
<1>3. mode \in {"heuristic", "shadow", "ml"}
    BY ApiAssumption DEF ApiInit
<1>4. ApiTypeOK
    BY <1>1, <1>2, <1>3 DEF ApiInit, ApiTypeOK, Outcomes
<1> QED
    BY <1>1, <1>4 DEF ApiInv, RequestOK

\* A request that has begun is a record of its kind.
LEMMA BegunRequest ==
    ASSUME ApiInv, NEW r \in Requests, req[r].pc # "none"
    PROVE  /\ req[r] # NoRequest /\ req[r] \in Begun
           /\ WorldOK(req[r]) /\ ListOK(req[r], Excluded[r])
           /\ ScoringOK(req[r], task[r]) /\ AnswerOK(req[r])
           /\ task[r] \in Outcomes
<1>1. req[r] # NoRequest
    BY DEF NoRequest
<1> QED
    BY <1>1 DEF ApiInv, ApiTypeOK, RequestOK

\* A request is in order after a step if its record then is.
LEMMA Settled ==
    ASSUME NEW r \in Requests, NEW q, NEW outcome, req'[r] = q, task'[r] = outcome,
           WorldOK(q)', ListOK(q, Excluded[r]), ScoringOK(q, outcome)', AnswerOK(q)
    PROVE  RequestOK(r)'
BY DEF RequestOK, WorldOK, ListOK, ScoringOK, AnswerOK

\* A step of one request that leaves it in order keeps the invariant.
LEMMA OneRequest ==
    ASSUME ApiInv, NEW r \in Requests, NEW q \in Begun, NEW outcome \in Outcomes,
           req' = [req EXCEPT ![r] = q], task' = [task EXCEPT ![r] = outcome],
           UNCHANGED <<mode, predictor, world>>,
           WorldOK(q), ListOK(q, Excluded[r]), ScoringOK(q, outcome), AnswerOK(q)
    PROVE  ApiInv'
<1>1. /\ req'[r] = q /\ task'[r] = outcome
      /\ \A s \in Requests : s # r => req'[s] = req[s] /\ task'[s] = task[s]
    BY DEF ApiInv, ApiTypeOK
<1>2. ApiTypeOK'
    BY DEF ApiInv, ApiTypeOK, world
<1>3. \A s \in Requests : RequestOK(s)'
    <2> TAKE s \in Requests
    <2>1. UNCHANGED <<mode, predictor, eligible>>
        BY DEF world
    <2>2. CASE s = r
        <3>1. WorldOK(q)' /\ ScoringOK(q, outcome)'
            BY <2>1 DEF WorldOK, ScoringOK
        <3> QED
            BY <1>1, <2>2, <3>1, Settled
    <2>3. CASE s # r
        <3>1. CASE req[s] = NoRequest
            BY <1>1, <2>3, <3>1 DEF RequestOK
        <3>2. CASE req[s] # NoRequest
            <4>1. PICK t, o : t = req[s] /\ o = task[s]
                OBVIOUS
            <4>2. WorldOK(t) /\ ListOK(t, Excluded[s]) /\ ScoringOK(t, o) /\ AnswerOK(t)
                BY <3>2, <4>1 DEF ApiInv, RequestOK
            <4>3. WorldOK(t)' /\ ScoringOK(t, o)'
                BY <2>1, <4>2 DEF WorldOK, ScoringOK
            <4>4. req'[s] = t /\ task'[s] = o
                BY <1>1, <2>3, <4>1
            <4> QED
                BY <4>2, <4>3, <4>4, Settled
        <3> QED
            BY <3>1, <3>2
    <2> QED
        BY <2>2, <2>3
<1> QED
    BY <1>2, <1>3 DEF ApiInv

\* The same where the task does not move.
LEMMA QuietRequest ==
    ASSUME ApiInv, NEW r \in Requests, NEW q \in Begun,
           req' = [req EXCEPT ![r] = q], UNCHANGED <<mode, predictor, world, task>>,
           WorldOK(q), ListOK(q, Excluded[r]), ScoringOK(q, task[r]), AnswerOK(q)
    PROVE  ApiInv'
<1>1. task[r] \in Outcomes /\ task' = [task EXCEPT ![r] = task[r]]
    BY DEF ApiInv, ApiTypeOK
<1>2. UNCHANGED <<mode, predictor, world>>
    OBVIOUS
<1> QED
    BY <1>1, <1>2, OneRequest

\* The changing world disturbs no request.
LEMMA WorldKeepsInv ==
    ASSUME ApiInv, NEW p \in Posts, Exclude(p) \/ Admit(p) \/ Edit(p) \/ Embed(p)
    PROVE  ApiInv'
<1>1. CASE Exclude(p) \/ Admit(p)
    <2>1. PICK new \in SUBSET Posts :
             /\ eligible' \subseteq eligible \cup new
             /\ req' = [r \in Requests |-> IF UnderWay(r)
                          THEN [req[r] EXCEPT !.steady = FALSE, !.allowed = @ \cup new]
                          ELSE req[r]]
             /\ eligible' \subseteq Posts
             /\ UNCHANGED <<mode, predictor, edition, features, task>>
        <3>1. CASE Exclude(p)
            <4>1. \A r \in Requests : UnderWay(r) =>
                     [req[r] EXCEPT !.steady = FALSE]
                        = [req[r] EXCEPT !.steady = FALSE, !.allowed = @ \cup {}]
                <5> TAKE r \in Requests
                <5> HAVE UnderWay(r)
                <5>1. req[r] \in Begun
                    BY DEF UnderWay, ApiInv, ApiTypeOK, NoRequest
                <5> QED
                    BY <5>1 DEF Begun
            <4>2. /\ eligible' \subseteq eligible \cup {} /\ eligible' \subseteq Posts
                  /\ UNCHANGED <<mode, predictor, edition, features, task>>
                BY <3>1 DEF Exclude, runtime, ApiInv, ApiTypeOK
            <4>3. req' = [r \in Requests |-> IF UnderWay(r)
                            THEN [req[r] EXCEPT !.steady = FALSE, !.allowed = @ \cup {}]
                            ELSE req[r]]
                BY <3>1, <4>1 DEF Exclude
            <4>4. {} \in SUBSET Posts
                OBVIOUS
            <4> QED
                BY <4>2, <4>3, <4>4
        <3>2. CASE Admit(p)
            <4>1. eligible' \subseteq eligible \cup {p} /\ eligible' \subseteq Posts
                BY <3>2 DEF Admit, ApiInv, ApiTypeOK
            <4>2. {p} \in SUBSET Posts
                OBVIOUS
            <4> QED
                BY <3>2, <4>1, <4>2 DEF Admit, runtime
        <3> QED
            BY <1>1, <3>1, <3>2
    <2> DEFINE later == [r \in Requests |-> IF UnderWay(r)
                  THEN [req[r] EXCEPT !.steady = FALSE, !.allowed = @ \cup new]
                  ELSE req[r]]
    <2>2. \A r \in Requests :
             /\ req[r] = NoRequest => later[r] = NoRequest
             /\ req[r] # NoRequest =>
                  /\ later[r] \in Begun
                  /\ \/ later[r] = req[r] /\ req[r].pc = "done"
                     \/ later[r] = [req[r] EXCEPT !.steady = FALSE,
                                                  !.allowed = @ \cup new]
        <3> TAKE r \in Requests
        <3>1. req[r] = NoRequest \/ req[r] \in Begun
            BY DEF ApiInv, ApiTypeOK
        <3> QED
            BY <2>1, <3>1 DEF UnderWay, Begun, NoRequest, Stages
    <2>3. ApiTypeOK'
        <3>1. later \in [Requests -> {NoRequest} \cup Begun]
            BY <2>2
        <3>2. req' = later
            BY <2>1
        <3> HIDE DEF later
        <3> QED
            BY <2>1, <3>1, <3>2 DEF ApiInv, ApiTypeOK
    <2>4. ASSUME NEW r \in Requests, req[r] # NoRequest
          PROVE  RequestOK(r)'
        <3>1. /\ req[r] \in Begun /\ WorldOK(req[r]) /\ ListOK(req[r], Excluded[r])
              /\ ScoringOK(req[r], task[r]) /\ AnswerOK(req[r])
            BY <2>4 DEF ApiInv, ApiTypeOK, RequestOK
        <3>2. PICK q \in Begun : q = later[r]
            BY <2>2, <2>4
        <3>3. /\ q.pc = req[r].pc /\ q.list = req[r].list
              /\ req[r].allowed \subseteq q.allowed
              /\ q.records = req[r].records /\ q.version = req[r].version
              /\ q.answer = req[r].answer
              /\ \/ q.pc = "done" /\ q.steady = req[r].steady
                    /\ q.allowed = req[r].allowed
                 \/ ~q.steady /\ q.allowed = req[r].allowed \cup new
            BY <2>2, <2>4, <3>1, <3>2 DEF Begun
        <3>4. WorldOK(q)'
            BY <2>1, <3>1, <3>3 DEF WorldOK
        <3>5. ListOK(q, Excluded[r])'
            BY <3>1, <3>3 DEF ListOK
        <3>6. ScoringOK(q, task[r])'
            BY <2>1, <3>1, <3>3 DEF ScoringOK
        <3>7. AnswerOK(q)'
            BY <3>1, <3>3 DEF AnswerOK
        <3>8. req'[r] = q /\ task'[r] = task[r]
            BY <2>1, <3>2
        <3> QED
            BY <3>4, <3>5, <3>6, <3>7, <3>8, Settled
    <2>5. ASSUME NEW r \in Requests, req[r] = NoRequest
          PROVE  RequestOK(r)'
        BY <2>1, <2>2, <2>5 DEF RequestOK
    <2> QED
        BY <2>3, <2>4, <2>5 DEF ApiInv
<1>2. CASE Edit(p) \/ Embed(p)
    <2>1. UNCHANGED <<mode, predictor, eligible, req, task>>
          /\ edition' \in [Posts -> Nat] /\ features' \in Known
        <3>1. edition \in [Posts -> Nat] /\ features \in Known
            BY DEF ApiInv, ApiTypeOK
        <3>2. edition[p] + 1 \in Nat /\ edition[p] \in Nat
            BY <3>1
        <3> QED
            BY <1>2, <3>1, <3>2 DEF Edit, Embed, runtime, Known
    <2> QED
        BY <2>1 DEF ApiInv, ApiTypeOK, RequestOK, WorldOK, ListOK, ScoringOK, AnswerOK
<1> QED
    BY <1>1, <1>2

\* So does the end of a task: the request it belongs to has no version yet.
LEMMA TaskKeepsInv ==
    ASSUME ApiInv, NEW r \in Requests, FinishTask(r)
    PROVE  ApiInv'
<1>1. /\ task[r] = "running" /\ UNCHANGED <<mode, predictor, world, req>>
      /\ task' \in [Requests -> Outcomes]
      /\ \A s \in Requests : s # r => task'[s] = task[s]
    BY DEF FinishTask, ApiInv, ApiTypeOK, Outcomes
<1>2. ApiTypeOK'
    BY <1>1 DEF ApiInv, ApiTypeOK, world
<1>3. \A s \in Requests : RequestOK(s)'
    BY <1>1 DEF ApiInv, RequestOK, WorldOK, ListOK, ScoringOK, AnswerOK, world
<1> QED
    BY <1>2, <1>3 DEF ApiInv

-----------------------------------------------------------------------------
(* Retrieval.                                                              *)

\* A request begins with nothing listed.
LEMMA BeginKeepsInv ==
    ASSUME ApiInv, NEW r \in Requests, Begin(r)
    PROVE  ApiInv'
<1> DEFINE q == [pc |-> "semantic", list |-> <<>>,
                 allowed |-> eligible, steady |-> TRUE, known |-> {}, hashes |-> <<>>,
                 records |-> FALSE, version |-> "", answer |-> <<>>]
<1>1. req' = [req EXCEPT ![r] = q] /\ UNCHANGED <<mode, predictor, world, task>>
    BY DEF Begin, runtime
<1>2. q \in Begun
    <2>1. <<>> \in CandidateLists /\ <<>> \in Seq(Nat) /\ <<>> \in Seq(Posts)
        BY DEF CandidateLists
    <2>2. eligible \in SUBSET Posts /\ {} \in Known
        BY DEF ApiInv, ApiTypeOK, Known
    <2> QED
        BY <2>1, <2>2 DEF Begun, Stages, Versions
<1>3. Distinct(<<>>) /\ Ids(<<>>) = {}
    BY DEF Distinct, Ids
<1>4. WorldOK(q) /\ ListOK(q, Excluded[r])
    BY <1>3 DEF WorldOK, ListOK, Gathering
<1>5. ScoringOK(q, task[r]) /\ AnswerOK(q)
    BY DEF ScoringOK, AnswerOK
<1> HIDE DEF q
<1> QED
    BY <1>1, <1>2, <1>4, <1>5, QuietRequest

\* The next source is asked: what it found is merged with what was listed.
LEMMA AdvanceKeepsInv ==
    ASSUME ApiInv, NEW r \in Requests, NEW from \in Gathering, NEW to \in Gathering,
           NEW found \in CandidateLists, Distinct(found), Ids(found) \subseteq eligible,
           NEW listed, req[r].pc = from => listed \in {<<>>, req[r].list},
           Advance(r, from, to, Merge(listed, found, Excluded[r]))
    PROVE  ApiInv'
<1> DEFINE list == Merge(listed, found, Excluded[r])
           q == [req[r] EXCEPT !.pc = to, !.list = list]
<1>1. /\ req[r].pc = from /\ from \notin {"none", "done"}
      /\ req' = [req EXCEPT ![r] = q] /\ UNCHANGED <<mode, predictor, world, task>>
    <2>1. req[r].pc = from /\ req' = [req EXCEPT ![r].pc = to, ![r].list = list]
          /\ UNCHANGED <<mode, predictor, world, runtime>>
        BY DEF Advance
    <2>2. [req EXCEPT ![r].pc = to, ![r].list = list] = [req EXCEPT ![r] = q]
        BY DEF ApiInv, ApiTypeOK
    <2> QED
        BY <2>1, <2>2 DEF runtime, Gathering
<1>2. /\ req[r] # NoRequest /\ req[r] \in Begun
      /\ WorldOK(req[r]) /\ ListOK(req[r], Excluded[r]) /\ AnswerOK(req[r])
    BY <1>1, BegunRequest
<1>3. listed \in CandidateLists /\ Distinct(listed)
      /\ Ids(listed) \subseteq req[r].allowed \ Excluded[r]
    <2>1. <<>> \in CandidateLists /\ Distinct(<<>>) /\ Ids(<<>>) = {}
        BY DEF CandidateLists, Distinct, Ids
    <2>2. req[r].list \in CandidateLists
        BY <1>2 DEF Begun
    <2> QED
        BY <1>1, <1>2, <2>1, <2>2 DEF ListOK
<1>4. list \in CandidateLists /\ Distinct(list)
      /\ Ids(list) = Ids(listed) \cup (Ids(found) \ Excluded[r])
    BY <1>3, MergeLists
<1> HIDE DEF list
<1>5. q \in Begun /\ q.pc = to /\ q.list = list /\ q.allowed = req[r].allowed
      /\ q.steady = req[r].steady /\ q.answer = req[r].answer
    BY <1>2, <1>4 DEF Begun, Gathering, Stages
<1> HIDE DEF q
<1>6. eligible \subseteq req[r].allowed
    BY <1>1, <1>2 DEF WorldOK
<1>7. WorldOK(q)
    BY <1>1, <1>2, <1>5 DEF WorldOK
<1>8. ListOK(q, Excluded[r])
    BY <1>3, <1>4, <1>5, <1>6 DEF ListOK
<1>9. ScoringOK(q, task[r])
    BY <1>5 DEF ScoringOK, Gathering
<1>10. AnswerOK(q)
    BY <1>1, <1>2, <1>5 DEF AnswerOK, Gathering
<1> QED
    BY <1>1, <1>5, <1>7, <1>8, <1>9, <1>10, QuietRequest

\* The newest posts of a set are a source like any other.
LEMMA NewestSource ==
    ASSUME eligible \subseteq Posts, edition \in [Posts -> Nat],
           NEW set \in SUBSET Posts, NEW n \in Nat
    PROVE  LET all == set \cap eligible
               top == Newest(set, n) IN
           /\ IsFiniteSet(all) /\ Cardinality(all) \in Nat
           /\ top \in CandidateLists /\ Distinct(top) /\ Ids(top) \subseteq all
           /\ Len(top) = AtMost(n, Cardinality(all))
<1> DEFINE key == [p \in Posts |-> p]
<1>1. key \in [Posts -> Nat]
    BY PostsAreFinite DEF Posts
<1>2. Newest(set, n) = Top(set, n, key)
    BY DEF Newest
<1> HIDE DEF key
<1> DEFINE all == set \cap eligible
           top == Top(set, n, key)
<1>3. /\ IsFiniteSet(all) /\ Cardinality(all) \in Nat
      /\ top \in CandidateLists /\ Distinct(top) /\ Ids(top) \subseteq all
      /\ Len(top) = AtMost(n, Cardinality(all))
    BY <1>1, TopSource
<1> HIDE DEF all, top
<1>4. Newest(set, n) = top
    BY <1>2 DEF top
<1> QED
    BY <1>3, <1>4 DEF all

\* The sources before the backfill, one after the other.
LEMMA SourcesKeepInv ==
    ASSUME ApiInv, NEW r \in Requests,
           FromSemantic(r) \/ FromFollowed(r) \/ FromTopics(r) \/ FromRecent(r)
    PROVE  ApiInv'
<1>1. eligible \subseteq Posts /\ edition \in [Posts -> Nat]
    BY DEF ApiInv, ApiTypeOK
<1>2. /\ OneThird \in Nat /\ RecentCount \in Nat
      /\ SemanticCount \in Nat /\ SemanticWindow \in Nat
    <2>1. Pool \in Nat /\ FeedPool \in Nat /\ SemanticWindow \in Nat
        BY ApiAssumption
    <2>2. OneThird \in Nat /\ RecentCount \in Nat
        BY <2>1 DEF OneThird, RecentCount
    <2>3. Pool \div 4 \in Nat /\ FeedPool \div 4 \in Nat
        BY <2>1
    <2> QED
        BY <2>1, <2>2, <2>3 DEF SemanticCount, AtMost
<1>3. Followed \in SUBSET Posts /\ Topical \in SUBSET Posts /\ Posts \in SUBSET Posts
    BY ApiAssumption DEF Posts
<1>4. \A set \in SUBSET Posts, n \in Nat :
         /\ Newest(set, n) \in CandidateLists /\ Distinct(Newest(set, n))
         /\ Ids(Newest(set, n)) \subseteq eligible
    BY <1>1, NewestSource
<1>5. CASE FromSemantic(r)
    <2> DEFINE window == Ids(Newest(Posts, SemanticWindow))
               embedded == {p \in window : <<p, edition[p]>> \in features}
    <2>1. PICK found \in {<<>>, Top(embedded, SemanticCount, Similarity)} :
             Advance(r, "semantic", "follow", Merge(<<>>, found, Excluded[r]))
        BY <1>5 DEF FromSemantic
    <2>2. found \in CandidateLists /\ Distinct(found) /\ Ids(found) \subseteq eligible
        <3>1. Similarity \in [Posts -> Nat] /\ embedded \in SUBSET Posts
            <4>1. window \subseteq Posts
                BY <1>1, <1>2, <1>3, <1>4
            <4> QED
                BY <4>1, ApiAssumption DEF Posts
        <3> HIDE DEF embedded
        <3>2. CASE found = <<>>
            BY <3>2 DEF CandidateLists, Distinct, Ids
        <3>3. CASE found = Top(embedded, SemanticCount, Similarity)
            BY <1>1, <1>2, <3>1, <3>3, TopSource
        <3> QED
            BY <2>1, <3>2, <3>3
    <2>3. <<>> \in {<<>>, req[r].list} /\ "semantic" \in Gathering /\ "follow" \in Gathering
        BY DEF Gathering
    <2> QED
        BY <2>1, <2>2, <2>3, AdvanceKeepsInv
<1>6. {"follow", "topic", "recent", "backfill"} \subseteq Gathering
      /\ req[r].list \in {<<>>, req[r].list}
    BY DEF Gathering
<1>7. CASE FromFollowed(r)
    BY <1>2, <1>3, <1>4, <1>6, <1>7, AdvanceKeepsInv DEF FromFollowed
<1>8. CASE FromTopics(r)
    BY <1>2, <1>3, <1>4, <1>6, <1>8, AdvanceKeepsInv DEF FromTopics
<1>9. CASE FromRecent(r)
    BY <1>2, <1>3, <1>4, <1>6, <1>9, AdvanceKeepsInv DEF FromRecent
<1> QED
    BY <1>5, <1>7, <1>8, <1>9

\* The backfill asks for enough: with what is listed and excluded it either gets
\* all posts that may be shown or as many as the pool lacks.
LEMMA BackfillSuffices ==
    ASSUME eligible \subseteq Posts, edition \in [Posts -> Nat],
           NEW excluded \in SUBSET Posts,
           NEW list \in CandidateLists, Distinct(list), Ids(list) \subseteq eligible \ excluded
    PROVE  LET batch == Newest(Posts, BackfillCount(list, excluded))
               more == Merge(list, batch, excluded)
               all == Cardinality(eligible \ excluded) IN
           /\ all \in Nat /\ Len(list) <= all
           /\ more \in CandidateLists /\ Distinct(more)
           /\ Ids(more) \subseteq eligible \ excluded
           /\ AtMost(Pool, Len(more)) = AtMost(Pool, all)
<1> DEFINE count == BackfillCount(list, excluded)
           batch == Newest(Posts, count)
           more == Merge(list, batch, excluded)
           shown == eligible \ excluded
           all == Cardinality(shown)
<1>1. IsFiniteSet(eligible) /\ IsFiniteSet(excluded) /\ IsFiniteSet(shown)
    <2>1. eligible \in SUBSET Posts /\ shown \in SUBSET Posts
        OBVIOUS
    <2> HIDE DEF shown
    <2> QED
        BY <2>1, PostsAreFinite, FS_Subset
<1>2. /\ Cardinality(eligible) \in Nat /\ Cardinality(excluded) \in Nat
      /\ all \in Nat /\ Pool \in Nat /\ Len(list) \in Nat
    BY <1>1, FS_CardinalityType, ApiAssumption DEF CandidateLists
<1>3. count = Pool + Len(list) + Cardinality(excluded) /\ count \in Nat
    BY <1>2 DEF BackfillCount
<1>4. /\ batch \in CandidateLists /\ Distinct(batch) /\ Ids(batch) \subseteq eligible
      /\ Len(batch) = AtMost(count, Cardinality(eligible))
    <2>1. Posts \in SUBSET Posts /\ Posts \cap eligible = eligible
        OBVIOUS
    <2> HIDE DEF count
    <2> QED
        BY <1>3, <2>1, NewestSource
<1> HIDE DEF count, batch
<1>5. /\ more \in CandidateLists /\ Distinct(more)
      /\ Ids(more) = Ids(list) \cup (Ids(batch) \ excluded)
    BY <1>4, MergeLists
<1> HIDE DEF more
<1>6. Ids(more) \subseteq shown /\ Ids(list) \subseteq shown
    BY <1>4, <1>5
<1>7. /\ Cardinality(Ids(list)) = Len(list) /\ Cardinality(Ids(more)) = Len(more)
      /\ IsFiniteSet(Ids(batch)) /\ Cardinality(Ids(batch)) = Len(batch)
    BY <1>4, <1>5, DistinctLength
<1>8. Len(list) <= all /\ Len(more) <= all /\ Len(more) \in Nat
    <2>1. Ids(list) \in SUBSET shown /\ Ids(more) \in SUBSET shown
        BY <1>6
    <2>2. Cardinality(Ids(list)) <= all /\ Cardinality(Ids(more)) <= all
        BY <1>1, <2>1, FS_Subset
    <2> QED
        BY <1>5, <1>7, <2>2 DEF CandidateLists
<1>9. CASE Cardinality(eligible) <= count
    <2>1. Len(batch) = Cardinality(eligible)
        BY <1>2, <1>3, <1>4, <1>9 DEF AtMost
    <2>2. Ids(batch) = eligible
        <3>1. Ids(batch) \in SUBSET eligible
            BY <1>4
        <3> QED
            BY <1>1, <1>7, <2>1, <3>1, FS_Subset
    <2>3. Ids(more) = shown
        BY <1>5, <1>6, <2>2
    <2>4. Len(more) = all
        BY <1>7, <2>3
    <2> QED
        BY <1>2, <1>5, <1>6, <1>8, <2>4 DEF more, batch, count
<1>10. CASE count < Cardinality(eligible)
    <2> DEFINE new == Ids(batch) \ excluded
    <2>1. Len(batch) = count
        BY <1>2, <1>3, <1>4, <1>10 DEF AtMost
    <2>2. Cardinality(new) = Cardinality(Ids(batch)) - Cardinality(Ids(batch) \cap excluded)
          /\ IsFiniteSet(new)
        BY <1>7, FS_Difference
    <2>3. Cardinality(Ids(batch) \cap excluded) <= Cardinality(excluded)
          /\ Cardinality(Ids(batch) \cap excluded) \in Nat
        <3>1. Ids(batch) \cap excluded \in SUBSET excluded
            OBVIOUS
        <3> QED
            BY <1>1, <3>1, FS_Subset, FS_CardinalityType
    <2>4. Cardinality(new) <= Len(more)
        <3>1. new \in SUBSET Ids(more) /\ IsFiniteSet(Ids(more))
            BY <1>5, DistinctLength
        <3> HIDE DEF new
        <3> QED
            BY <1>7, <3>1, FS_Subset
    <2>5. Pool <= Cardinality(new)
        BY <1>2, <1>3, <1>7, <2>1, <2>2, <2>3
    <2>6. Pool <= Len(more) /\ Pool <= all
        <3>1. Cardinality(new) \in Nat
            BY <2>2, FS_CardinalityType
        <3> HIDE DEF new, shown
        <3> QED
            BY <1>2, <1>8, <2>4, <2>5, <3>1
    <2>7. AtMost(Pool, Len(more)) = AtMost(Pool, all)
        BY <1>2, <1>8, <2>6 DEF AtMost
    <2> QED
        BY <1>2, <1>5, <1>6, <1>8, <2>7 DEF more, batch, count
<1> QED
    BY <1>2, <1>3, <1>9, <1>10

\* The beginning of a list is a list without duplicates of the same posts.
LEMMA CutList ==
    ASSUME NEW list \in CandidateLists, Distinct(list)
    PROVE  LET cut == SubSeq(list, 1, AtMost(Pool, Len(list))) IN
           /\ cut \in CandidateLists /\ Distinct(cut) /\ Ids(cut) \subseteq Ids(list)
           /\ Len(cut) = AtMost(Pool, Len(list))
<1> DEFINE n == AtMost(Pool, Len(list))
           cut == SubSeq(list, 1, n)
<1>1. Len(list) \in Nat /\ n \in Nat /\ n <= Len(list)
      /\ \A i \in 1..Len(list) : list[i] \in Candidates
    BY ApiAssumption DEF AtMost, CandidateLists
<1> HIDE DEF n
<1>2. Len(cut) = n /\ \A i \in 1..n : i \in 1..Len(list) /\ cut[i] = list[i]
    BY <1>1 DEF CandidateLists
<1>3. cut \in CandidateLists
    BY <1>1, <1>2 DEF CandidateLists
<1> HIDE DEF cut
<1>4. Distinct(cut) /\ Ids(cut) \subseteq Ids(list)
    BY <1>2 DEF Distinct, Ids
<1> QED
    BY <1>2, <1>3, <1>4 DEF cut, n

\* The pool is filled.
LEMMA BackfillKeepsInv ==
    ASSUME ApiInv, NEW r \in Requests, Backfill(r)
    PROVE  ApiInv'
<1> DEFINE list == req[r].list
           excluded == Excluded[r]
           batch == Newest(Posts, BackfillCount(list, excluded))
           more == IF Len(list) < Pool THEN Merge(list, batch, excluded) ELSE list
           pool == SubSeq(more, 1, AtMost(Pool, Len(more)))
           to == IF pool = <<>> THEN "done" ELSE "observe"
           version == IF pool = <<>> THEN "heuristic" ELSE ""
           q == [req[r] EXCEPT !.list = pool, !.pc = to, !.version = version]
           all == Cardinality(req[r].allowed \ excluded)
<1>1. /\ req[r].pc = "backfill" /\ req' = [req EXCEPT ![r] = q]
      /\ UNCHANGED <<mode, predictor, world, task>>
    <2>1. /\ req[r].pc = "backfill" /\ UNCHANGED <<mode, predictor, world, task>>
          /\ req' = [req EXCEPT ![r].list = pool, ![r].pc = to, ![r].version = version]
        BY Zenon DEF Backfill, runtime
    <2> HIDE DEF pool, to, version
    <2> QED
        BY <2>1 DEF ApiInv, ApiTypeOK
<1>2. /\ req[r] # NoRequest /\ req[r] \in Begun
      /\ WorldOK(req[r]) /\ ListOK(req[r], Excluded[r]) /\ AnswerOK(req[r])
    BY <1>1, BegunRequest
<1>3. /\ list \in CandidateLists /\ Distinct(list)
      /\ Ids(list) \subseteq req[r].allowed \ excluded
      /\ req[r].steady \in BOOLEAN /\ req[r].allowed \in SUBSET Posts
    BY <1>2 DEF Begun, ListOK
<1>4. eligible \subseteq Posts /\ edition \in [Posts -> Nat] /\ excluded \in SUBSET Posts
    BY ApiAssumption DEF ApiInv, ApiTypeOK, Posts
<1>5. eligible \subseteq req[r].allowed /\ (req[r].steady => eligible = req[r].allowed)
    BY <1>1, <1>2 DEF WorldOK
<1>6. Pool \in Nat /\ Len(list) \in Nat
    BY <1>3, ApiAssumption DEF CandidateLists
<1>7. more \in CandidateLists /\ Distinct(more) /\ Ids(more) \subseteq req[r].allowed \ excluded
    <2>1. batch \in CandidateLists /\ Distinct(batch) /\ Ids(batch) \subseteq eligible
        <3>1. BackfillCount(list, excluded) \in Nat
            <4>1. IsFiniteSet(excluded)
                BY <1>4, PostsAreFinite, FS_Subset
            <4>2. Cardinality(excluded) \in Nat
                BY <4>1, FS_CardinalityType
            <4> HIDE DEF list, excluded
            <4> QED
                BY <1>6, <4>2 DEF BackfillCount
        <3>2. Posts \in SUBSET Posts
            OBVIOUS
        <3> HIDE DEF list, excluded
        <3> QED
            BY <1>4, <3>1, <3>2, NewestSource
    <2> HIDE DEF batch, list, excluded
    <2>2. /\ Merge(list, batch, excluded) \in CandidateLists
          /\ Distinct(Merge(list, batch, excluded))
          /\ Ids(Merge(list, batch, excluded)) = Ids(list) \cup (Ids(batch) \ excluded)
        BY <1>3, <2>1, MergeLists
    <2> QED
        BY <1>3, <1>5, <2>1, <2>2
<1>8. req[r].steady => AtMost(Pool, Len(more)) = AtMost(Pool, all)
    <2> SUFFICES ASSUME req[r].steady PROVE AtMost(Pool, Len(more)) = AtMost(Pool, all)
        OBVIOUS
    <2>1. Ids(list) \subseteq eligible \ excluded /\ all = Cardinality(eligible \ excluded)
        BY <1>3, <1>5
    <2> HIDE DEF list, excluded, all
    <2>2. /\ all \in Nat /\ Len(list) <= all
          /\ AtMost(Pool, Len(Merge(list, batch, excluded))) = AtMost(Pool, all)
        BY <1>3, <1>4, <2>1, BackfillSuffices
    <2> HIDE DEF batch
    <2>3. CASE Len(list) < Pool
        BY <2>2, <2>3
    <2>4. CASE ~(Len(list) < Pool)
        BY <1>6, <2>2, <2>4 DEF AtMost
    <2> QED
        BY <2>3, <2>4
<1> HIDE DEF more
<1>9. /\ pool \in CandidateLists /\ Distinct(pool) /\ Ids(pool) \subseteq Ids(more)
      /\ Len(pool) = AtMost(Pool, Len(more))
    BY <1>7, CutList
<1> HIDE DEF pool
<1>10. /\ q \in Begun /\ q.pc = to /\ q.list = pool /\ q.allowed = req[r].allowed
       /\ q.steady = req[r].steady /\ q.version = version /\ q.answer = req[r].answer
    <2>1. to \in Stages /\ version \in Versions
        BY DEF Stages, Versions
    <2> HIDE DEF to, version
    <2> QED
        BY <1>2, <1>9, <2>1 DEF Begun
<1> HIDE DEF q
<1>11. WorldOK(q)
    BY <1>5, <1>10 DEF WorldOK
<1>12. ListOK(q, Excluded[r])
    <2> HIDE DEF to
    <2> QED
        BY <1>7, <1>8, <1>9, <1>10 DEF ListOK
<1>13. ScoringOK(q, task[r])
    BY <1>10 DEF ScoringOK
<1>14. AnswerOK(q)
    BY <1>1, <1>2, <1>10 DEF AnswerOK
<1> QED
    BY <1>1, <1>10, <1>11, <1>12, <1>13, <1>14, QuietRequest

-----------------------------------------------------------------------------
(* Scoring and the answer.                                                 *)

\* A step after retrieval changes nothing of a request but its stage and what it
\* knows of the model.
LEMMA LaterKeepsInv ==
    ASSUME ApiInv, NEW r \in Requests, NEW q \in Begun, NEW outcome \in Outcomes,
           req[r].pc \in {"observe", "context", "score", "wait"},
           q.pc \in {"context", "score", "wait", "rank"},
           q.list = req[r].list, q.allowed = req[r].allowed, q.steady = req[r].steady,
           q.answer = req[r].answer, ScoringOK(q, outcome),
           req' = [req EXCEPT ![r] = q], task' = [task EXCEPT ![r] = outcome],
           UNCHANGED <<mode, predictor, world>>
    PROVE  ApiInv'
<1>1. WorldOK(req[r]) /\ ListOK(req[r], Excluded[r]) /\ AnswerOK(req[r])
    BY BegunRequest
<1>2. WorldOK(q)
    BY <1>1 DEF WorldOK
<1>3. ListOK(q, Excluded[r])
    BY <1>1 DEF ListOK, Gathering
<1>4. AnswerOK(q)
    BY <1>1 DEF AnswerOK
<1> QED
    BY <1>2, <1>3, <1>4, OneRequest

\* The features that are known are the features there are.
LEMMA ObserveKeepsInv ==
    ASSUME ApiInv, NEW r \in Requests, Observe(r)
    PROVE  ApiInv'
<1> DEFINE q == [req[r] EXCEPT !.pc = "context", !.known = features]
<1>1. /\ req[r].pc = "observe" /\ UNCHANGED <<mode, predictor, world, task>>
      /\ req' = [req EXCEPT ![r] = q] /\ task' = [task EXCEPT ![r] = task[r]]
    BY DEF Observe, runtime, ApiInv, ApiTypeOK
<1>2. req[r] \in Begun /\ task[r] \in Outcomes /\ features \in Known
    BY <1>1, BegunRequest DEF ApiInv, ApiTypeOK
<1>3. /\ q \in Begun /\ q.pc = "context" /\ q.list = req[r].list /\ q.allowed = req[r].allowed
      /\ q.steady = req[r].steady /\ q.answer = req[r].answer
    BY <1>2 DEF Begun, Stages
<1> HIDE DEF q
<1>4. ScoringOK(q, task[r])
    BY <1>3 DEF ScoringOK
<1> QED
    BY <1>1, <1>2, <1>3, <1>4, LaterKeepsInv

\* Where the model needs records it is asked with them, or not at all.
LEMMA LoadKeepsInv ==
    ASSUME ApiInv, NEW r \in Requests, LoadRecords(r)
    PROVE  ApiInv'
<1> DEFINE list == req[r].list
           hashes == [i \in 1..Len(list) |-> HashOf(list[i])]
           plain == [req[r] EXCEPT !.pc = "score"]
           without == [req[r] EXCEPT !.pc = "rank", !.version = "heuristic"]
           with == [req[r] EXCEPT !.pc = "score", !.records = TRUE, !.hashes = hashes]
<1>1. /\ req[r].pc = "context" /\ UNCHANGED <<mode, predictor, world>>
      /\ task' = [task EXCEPT ![r] = task[r]]
    BY DEF LoadRecords, runtime, ApiInv, ApiTypeOK
<1>2. req[r] \in Begun /\ task[r] \in Outcomes
    BY <1>1, BegunRequest
<1>3. hashes \in Seq(Nat)
    <2>1. list \in CandidateLists
        BY <1>2 DEF Begun
    <2>2. Len(list) \in Nat /\ \A i \in 1..Len(list) : HashOf(list[i]) \in Nat
        <3>1. Len(list) \in Nat /\ \A i \in 1..Len(list) : list[i] \in Candidates
            BY <2>1 DEF CandidateLists
        <3> HIDE DEF list
        <3> QED
            BY <3>1 DEF Candidates, HashOf
    <2> QED
        BY <2>2
<1>4. PICK q : /\ req' = [req EXCEPT ![r] = q]
               /\ \/ q = plain /\ predictor # "nrms"
                  \/ q = without
                  \/ q = with
    <2> HIDE DEF hashes
    <2>1. CASE predictor # "nrms"
        BY <2>1 DEF LoadRecords, ApiInv, ApiTypeOK
    <2>2. CASE predictor = "nrms" /\ req' = [req EXCEPT ![r].pc = "rank",
                                               ![r].version = "heuristic"]
        BY <2>2 DEF ApiInv, ApiTypeOK
    <2>3. CASE predictor = "nrms" /\ req' = [req EXCEPT ![r].pc = "score", ![r].records = TRUE,
                                               ![r].hashes = hashes]
        BY <2>3 DEF ApiInv, ApiTypeOK
    <2> QED
        BY <2>1, <2>2, <2>3 DEF LoadRecords, hashes
<1>5. /\ q \in Begun /\ q.list = req[r].list /\ q.allowed = req[r].allowed
      /\ q.steady = req[r].steady /\ q.answer = req[r].answer
      /\ q.pc \in {"context", "score", "wait", "rank"}
    <2> HIDE DEF hashes
    <2> QED
        BY <1>2, <1>3, <1>4 DEF Begun, Stages, Versions
<1>6. ScoringOK(q, task[r])
    <2> HIDE DEF hashes
    <2> QED
        BY <1>2, <1>4 DEF ScoringOK, Begun
<1> QED
    BY <1>1, <1>2, <1>4, <1>5, <1>6, LaterKeepsInv

\* A request takes the slot with the records it has, or does without.
LEMMA StartKeepsInv ==
    ASSUME ApiInv, NEW r \in Requests, StartScoring(r)
    PROVE  ApiInv'
<1> DEFINE without == [req[r] EXCEPT !.pc = "rank", !.version = "heuristic"]
           with == [req[r] EXCEPT !.pc = "wait"]
<1>1. req[r].pc = "score" /\ UNCHANGED <<mode, predictor, world>>
    BY DEF StartScoring
<1>2. req[r] \in Begun /\ task[r] \in Outcomes /\ ScoringOK(req[r], task[r])
    BY <1>1, BegunRequest
<1>3. PICK q, outcome :
         /\ req' = [req EXCEPT ![r] = q] /\ task' = [task EXCEPT ![r] = outcome]
         /\ outcome \in Outcomes
         /\ q = without \/ q = with
    <2>1. CASE predictor = "none" \/ Busy
        <3>1. req' = [req EXCEPT ![r] = without] /\ task' = [task EXCEPT ![r] = task[r]]
            BY <2>1 DEF StartScoring, runtime, ApiInv, ApiTypeOK
        <3> QED
            BY <1>2, <3>1
    <2>2. CASE ~(predictor = "none" \/ Busy)
        <3>1. req' = [req EXCEPT ![r] = with] /\ task' = [task EXCEPT ![r] = "running"]
            BY <2>2 DEF StartScoring, ApiInv, ApiTypeOK
        <3>2. "running" \in Outcomes
            BY DEF Outcomes
        <3> QED
            BY <3>1, <3>2
    <2> QED
        BY <2>1, <2>2
<1>4. /\ q \in Begun /\ q.list = req[r].list /\ q.allowed = req[r].allowed
      /\ q.steady = req[r].steady /\ q.answer = req[r].answer
      /\ q.pc \in {"context", "score", "wait", "rank"}
    BY <1>2, <1>3 DEF Begun, Stages, Versions
<1>5. ScoringOK(q, outcome)
    BY <1>1, <1>2, <1>3 DEF ScoringOK, Begun
<1> QED
    BY <1>1, <1>3, <1>4, <1>5, LaterKeepsInv

\* The mode is the version only of a task that scored.
LEMMA EndKeepsInv ==
    ASSUME ApiInv, NEW r \in Requests, EndWait(r)
    PROVE  ApiInv'
<1> DEFINE version == IF task[r] = "scored" THEN mode ELSE "heuristic"
           q == [req[r] EXCEPT !.pc = "rank", !.version = version]
<1>1. /\ req[r].pc = "wait" /\ UNCHANGED <<mode, predictor, world>>
      /\ req' = [req EXCEPT ![r] = q] /\ task' = [task EXCEPT ![r] = task[r]]
    BY DEF EndWait, runtime, ApiInv, ApiTypeOK
<1>2. req[r] \in Begun /\ task[r] \in Outcomes /\ ScoringOK(req[r], task[r])
    BY <1>1, BegunRequest
<1>3. version \in Versions /\ (version = "ml" => mode = "ml" /\ task[r] = "scored")
    BY DEF ApiInv, ApiTypeOK, Versions
<1> HIDE DEF version
<1>4. /\ q \in Begun /\ q.list = req[r].list /\ q.allowed = req[r].allowed
      /\ q.steady = req[r].steady /\ q.answer = req[r].answer
      /\ q.pc = "rank" /\ q.version = version /\ q.records = req[r].records
    BY <1>2, <1>3 DEF Begun, Stages
<1> HIDE DEF q
<1>5. ScoringOK(q, task[r])
    BY <1>1, <1>2, <1>3, <1>4 DEF ScoringOK
<1> QED
    BY <1>1, <1>2, <1>4, <1>5, LaterKeepsInv

\* The posts of a list without duplicates.
LEMMA PostsOfList ==
    ASSUME NEW list \in CandidateLists, Distinct(list)
    PROVE  /\ PostsOf(list) \in Seq(Posts) /\ IsInjective(PostsOf(list))
           /\ Range(PostsOf(list)) = Ids(list) /\ Len(PostsOf(list)) = Len(list)
<1>1. Len(list) \in Nat /\ \A i \in 1..Len(list) : list[i].post \in Posts
    <2>1. Len(list) \in Nat /\ \A i \in 1..Len(list) : list[i] \in Candidates
        BY DEF CandidateLists
    <2> QED
        BY <2>1 DEF Candidates
<1>2. PostsOf(list) \in [1..Len(list) -> Posts]
    BY <1>1 DEF PostsOf
<1>3. IsInjective(PostsOf(list))
    BY DEF IsInjective, PostsOf, Distinct
<1>4. Range(PostsOf(list)) = Ids(list)
    BY DEF Range, PostsOf, Ids
<1> QED
    BY <1>1, <1>2, <1>3, <1>4

\* Scores are numbers, whoever gave them.
LEMMA ScoresType == \A version : ScoresOf(version) \in [Posts -> Nat]
BY ApiAssumption DEF ScoresOf, Posts

\* The answer is a sequence of posts.
LEMMA RespondKeepsInv ==
    ASSUME ApiInv, NEW r \in Requests, Respond(r)
    PROVE  ApiInv'
<1> DEFINE list == req[r].list
           answer == Answer(PostsOf(list), req[r].version)
           q == [req[r] EXCEPT !.pc = "done", !.answer = answer]
<1>1. /\ req[r].pc = "rank" /\ UNCHANGED <<mode, predictor, world, task>>
      /\ req' = [req EXCEPT ![r] = q]
    BY DEF Respond, runtime, ApiInv, ApiTypeOK, PostsOf
<1>2. /\ req[r] \in Begun /\ WorldOK(req[r]) /\ ListOK(req[r], Excluded[r])
      /\ ScoringOK(req[r], task[r])
    BY <1>1, BegunRequest
<1>3. list \in CandidateLists /\ Distinct(list)
    BY <1>2 DEF Begun, ListOK
<1>4. answer \in Seq(Posts) /\ (list = <<>> => answer = <<>>)
    <2>1. PostsOf(list) \in Seq(Posts) /\ IsInjective(PostsOf(list))
          /\ Len(PostsOf(list)) = Len(list)
        BY <1>3, PostsOfList
    <2>2. ScoresOf(req[r].version) \in [Posts -> Nat]
        BY ScoresType
    <2>3. answer \in Seq(Posts) /\ Len(answer) = AtMost(Limit, Len(list))
        BY <2>1, <2>2, Reranking DEF Answer
    <2>4. list = <<>> => Len(answer) = 0
        BY <2>3, ApiAssumption DEF AtMost
    <2> HIDE DEF answer
    <2> QED
        BY <2>3, <2>4
<1> HIDE DEF answer
<1>5. /\ q \in Begun /\ q.list = req[r].list /\ q.allowed = req[r].allowed
      /\ q.steady = req[r].steady /\ q.answer = answer
      /\ q.pc = "done" /\ q.version = req[r].version /\ q.records = req[r].records
    BY <1>2, <1>4 DEF Begun, Stages
<1> HIDE DEF q
<1>6. WorldOK(q)
    BY <1>2, <1>5 DEF WorldOK
<1>7. ListOK(q, Excluded[r])
    BY <1>1, <1>2, <1>5 DEF ListOK, Gathering
<1>8. ScoringOK(q, task[r])
    BY <1>1, <1>2, <1>5 DEF ScoringOK
<1>9. AnswerOK(q)
    BY <1>4, <1>5 DEF AnswerOK, answer
<1> QED
    BY <1>1, <1>5, <1>6, <1>7, <1>8, <1>9, QuietRequest

\* Every step keeps the invariant.
LEMMA ApiPreserved == ApiInv /\ [ApiNext]_apiVars => ApiInv'
<1> SUFFICES ASSUME ApiInv, [ApiNext]_apiVars PROVE ApiInv'
    OBVIOUS
<1>1. CASE UNCHANGED apiVars
    BY <1>1 DEF apiVars, world, runtime, ApiInv, ApiTypeOK, RequestOK, WorldOK, ListOK,
                ScoringOK, AnswerOK
<1>2. ASSUME NEW p \in Posts, Exclude(p) \/ Admit(p) \/ Edit(p) \/ Embed(p) PROVE ApiInv'
    BY <1>2, WorldKeepsInv
<1>3. ASSUME NEW r \in Requests, Begin(r) \/ RequestStep(r) \/ FinishTask(r)
      PROVE  ApiInv'
    BY <1>3, BeginKeepsInv, SourcesKeepInv, BackfillKeepsInv, ObserveKeepsInv,
       LoadKeepsInv, StartKeepsInv, EndKeepsInv, RespondKeepsInv, TaskKeepsInv
    DEF RequestStep
<1> QED
    BY <1>1, <1>2, <1>3 DEF ApiNext

\* The invariant holds in every reachable state.
LEMMA ApiInvariant == ApiSpec => []ApiInv
BY ApiInitially, ApiPreserved, PTL DEF ApiSpec

\* The pool is as full as the posts allow, by the count of the backfill.
LEMMA InvPoolIsFilled == ApiInv => PoolIsFilled
<1> SUFFICES ASSUME ApiInv, NEW r \in Requests, Retrieved(r), req[r].steady
             PROVE  Len(req[r].list) =
                       AtMost(Pool, Cardinality(req[r].allowed \ Excluded[r]))
    BY DEF PoolIsFilled
<1>1. req[r].pc \notin Gathering /\ req[r].pc # "none"
    BY DEF Retrieved, Gathering
<1>2. ListOK(req[r], Excluded[r])
    BY <1>1, BegunRequest
<1> QED
    BY <1>1, <1>2 DEF ListOK

\* What is answered was listed, and once.
LEMMA InvNothingUnwanted == ApiInv => NothingUnwanted
<1> SUFFICES ASSUME ApiInv, NEW r \in Requests, Answered(r)
             PROVE  /\ IsInjective(req[r].answer)
                    /\ Range(req[r].answer) \subseteq req[r].allowed \ Excluded[r]
    BY DEF NothingUnwanted
<1> DEFINE list == req[r].list
<1>1. req[r].pc = "done"
    BY DEF Answered
<1>2. req[r] \in Begun /\ ListOK(req[r], Excluded[r]) /\ AnswerOK(req[r])
    BY <1>1, BegunRequest
<1>3. list \in CandidateLists /\ Distinct(list) /\ Ids(list) \subseteq req[r].allowed \ Excluded[r]
    BY <1>2 DEF Begun, ListOK
<1>4. CASE list = <<>>
    BY <1>2, <1>4 DEF AnswerOK, IsInjective, Range
<1>5. CASE list # <<>>
    <2>1. req[r].answer = DiversityRerank(PostsOf(list), ScoresOf(req[r].version))
        BY <1>1, <1>2, <1>5 DEF AnswerOK, Answer
    <2>2. /\ PostsOf(list) \in Seq(Posts) /\ IsInjective(PostsOf(list))
          /\ Range(PostsOf(list)) = Ids(list)
        BY <1>3, PostsOfList
    <2>3. ScoresOf(req[r].version) \in [Posts -> Nat]
        BY ScoresType
    <2> HIDE DEF list
    <2>4. IsInjective(req[r].answer) /\ Range(req[r].answer) \subseteq Range(PostsOf(list))
        BY <2>1, <2>2, <2>3, Reranking
    <2> QED
        BY <1>3, <2>2, <2>4
<1> QED
    BY <1>4, <1>5

\* An answer has the order of the scores its version names.
LEMMA InvHonestVersion == ApiInv => HonestVersion
<1> SUFFICES ASSUME ApiInv, NEW r \in Requests, Answered(r), req[r].list # <<>>
             PROVE  LET posts == [i \in 1..Len(req[r].list) |-> req[r].list[i].post]
                    IN /\ req[r].version = "ml" =>
                            /\ mode = "ml" /\ task[r] = "scored"
                            /\ predictor = "nrms" => req[r].records
                       /\ req[r].version # "ml" =>
                            req[r].answer = DiversityRerank(posts, Heuristic)
    BY DEF HonestVersion
<1>1. req[r].pc = "done"
    BY DEF Answered
<1>2. ScoringOK(req[r], task[r]) /\ AnswerOK(req[r])
    BY <1>1, BegunRequest
<1>3. req[r].version # "ml" => req[r].answer = DiversityRerank(PostsOf(req[r].list), Heuristic)
    BY <1>1, <1>2 DEF AnswerOK, Answer, ScoresOf
<1> QED
    BY <1>1, <1>2, <1>3 DEF ScoringOK, PostsOf

-----------------------------------------------------------------------------
\* If no post was excluded or admitted while a request was under way, it has
\* as many as its pool holds, or all that may be shown, although sources overlap
\* and the caller has seen some already (gather_candidates).
THEOREM ApiPoolIsFilled == ApiSpec => []PoolIsFilled
BY ApiInvariant, InvPoolIsFilled, PTL

\* No answer has a post twice, one the caller excluded or one that was eligible at
\* no time since the request began (gather_candidates, diversity_rerank).
THEOREM ApiNothingUnwanted == ApiSpec => []NothingUnwanted
BY ApiInvariant, InvNothingUnwanted, PTL

\* An answer in the model's name was scored by the task of that request, with
\* records if the model needs them; any other has the order of the heuristic
\* (score_async, recommend_feed).
THEOREM ApiHonestVersion == ApiSpec => []HonestVersion
BY ApiInvariant, InvHonestVersion, PTL

(***************************************************************************)
(* The histories                                                           *)
(***************************************************************************)

\* A history is finite, its ids are unique, and an event is long if its dwell
\* time says so.
LogInv ==
    /\ IsFiniteSet(log)
    /\ \A e \in log : /\ e.id \in Nat /\ e.occurred \in Nat /\ e.ingested \in Nat
                      /\ e.dwell \in Int /\ e.destroy \in BOOLEAN
                      /\ e.long = (e.dwell >= LongRead)
    /\ \A e, f \in log : e.id = f.id => e = f

\* Storing an event keeps it so.
LEMMA ReplayInvariant == ReplaySpec => []LogInv
<1>1. ReplayInit => LogInv
    BY FS_EmptySet DEF ReplayInit, LogInv
<1>2. LogInv /\ [StoreEvent]_replayVars => LogInv'
    <2> SUFFICES ASSUME LogInv, StoreEvent PROVE LogInv'
        BY DEF replayVars, LogInv
    <2>1. PICK t \in Templates, at \in 0..MaxTime,
               id \in (1..MaxEvents) \ {e.id : e \in log} :
             log' = log \cup
               {[id |-> id, type |-> t.type, post |-> t.post, dwell |-> t.dwell,
                 impression |-> t.impression, visit |-> t.visit,
                 session |-> t.session, destroy |-> t.destroy, topics |-> t.topics,
                 occurred |-> at, ingested |-> Cardinality(log),
                 long |-> t.dwell >= LongRead]}
        BY DEF StoreEvent
    <2> DEFINE new == [id |-> id, type |-> t.type, post |-> t.post, dwell |-> t.dwell,
                       impression |-> t.impression, visit |-> t.visit,
                       session |-> t.session, destroy |-> t.destroy,
                       topics |-> t.topics, occurred |-> at,
                       ingested |-> Cardinality(log), long |-> t.dwell >= LongRead]
    <2>2. Cardinality(log) \in Nat /\ at \in Nat /\ id \in Nat
        BY FS_CardinalityType DEF LogInv
    <2>3. /\ new.id = id /\ new.occurred \in Nat /\ new.ingested \in Nat
          /\ new.dwell \in Int /\ new.destroy \in BOOLEAN
          /\ new.long = (new.dwell >= LongRead)
        BY <2>2, ReplayAssumption
    <2>4. log' = log \cup {new}
        BY <2>1
    <2>5. \A e \in log : e.id # id
        OBVIOUS
    <2> HIDE DEF new
    <2>6. IsFiniteSet(log')
        BY <2>4, FS_AddElement DEF LogInv
    <2> QED
        BY <2>2, <2>3, <2>4, <2>5, <2>6 DEF LogInv
<1> QED
    BY <1>1, <1>2, PTL DEF ReplaySpec

-----------------------------------------------------------------------------
(* The order of a history.                                                 *)

\* The first n of a sequence.
Upto(sorted, n) == {sorted[i] : i \in 1..n}

\* The i-th has i - 1 before it.
Listing(S, below, sorted) ==
    \A i \in 1..Cardinality(S) :
        sorted[i] \in S /\ Cardinality(below[sorted[i]]) = i - 1

\* The sequence reads a set one by one, each after those that come before it.
Reads(S, below, sorted) ==
    /\ Cardinality(S) \in Nat
    /\ Upto(sorted, 0) = {} /\ Upto(sorted, Cardinality(S)) = S
    /\ \A i \in 1..Cardinality(S) :
         /\ sorted[i] \in S \ Upto(sorted, i - 1)
         /\ Upto(sorted, i) = Upto(sorted, i - 1) \cup {sorted[i]}
         /\ Upto(sorted, i - 1) = below[sorted[i]]
         /\ Upto(sorted, i - 1) \subseteq S

\* In a strict order, what has i - 1 before it follows what has less.
LEMMA ReadInOrder ==
    ASSUME NEW S, IsFiniteSet(S), NEW below,
           \A p \in S : below[p] \subseteq S /\ p \notin below[p],
           \A p \in S : \A q \in below[p] : below[q] \subseteq below[p],
           \A p, q \in S : p = q \/ p \in below[q] \/ q \in below[p],
           NEW sorted, Listing(S, below, sorted)
    PROVE  Reads(S, below, sorted)
<1> DEFINE n == Cardinality(S)
<1>1. n \in Nat
    BY FS_CardinalityType
<1> USE DEF Listing
<1>2. /\ \A p \in S : Cardinality(below[p]) \in 0..n-1
      /\ \A p, q \in S : Cardinality(below[p]) = Cardinality(below[q]) => p = q
      /\ \A p \in S : \A q \in below[p] :
           Cardinality(below[q]) < Cardinality(below[p])
    BY Places
<1> HIDE DEF n
<1>3. \A i, j \in 1..n : i < j => sorted[i] \in below[sorted[j]]
    <2> TAKE i, j \in 1..n
    <2> HAVE i < j
    <2>1. /\ sorted[i] \in S /\ Cardinality(below[sorted[i]]) = i - 1
          /\ sorted[j] \in S /\ Cardinality(below[sorted[j]]) = j - 1
        BY DEF n
    <2>2. ~(j - 1 < i - 1) /\ i - 1 # j - 1
        BY <1>1
    <2>3. sorted[j] \notin below[sorted[i]] /\ sorted[i] # sorted[j]
        BY <1>2, <2>1, <2>2
    <2> QED
        BY <2>1, <2>3
<1>4. Upto(sorted, 0) = {}
    BY DEF Upto
<1>5. Upto(sorted, n) = S
    <2>1. Upto(sorted, n) \subseteq S
        BY DEF Upto, n
    <2>2. ASSUME NEW p \in S PROVE p \in Upto(sorted, n)
        <3> DEFINE i == Cardinality(below[p]) + 1
        <3>1. i \in 1..n /\ i - 1 = Cardinality(below[p])
            BY <1>1, <1>2
        <3> HIDE DEF i
        <3>2. sorted[i] \in S /\ Cardinality(below[sorted[i]]) = i - 1
            BY <3>1 DEF n
        <3>3. sorted[i] = p
            BY <1>2, <3>1, <3>2
        <3> QED
            BY <3>1, <3>3 DEF Upto
    <2> QED
        BY <2>1, <2>2
<1>6. ASSUME NEW i \in 1..n
      PROVE  /\ sorted[i] \in S \ Upto(sorted, i - 1)
             /\ Upto(sorted, i) = Upto(sorted, i - 1) \cup {sorted[i]}
             /\ Upto(sorted, i - 1) = below[sorted[i]]
             /\ Upto(sorted, i - 1) \subseteq S
    <2>1. sorted[i] \in S
        BY DEF n
    <2>2. \A j \in 1..i-1 : j \in 1..n /\ j < i
        BY <1>1
    <2>3. Upto(sorted, i - 1) = below[sorted[i]]
        <3>1. Upto(sorted, i - 1) \subseteq below[sorted[i]]
            BY <1>3, <2>2 DEF Upto
        <3>2. ASSUME NEW q \in below[sorted[i]] PROVE q \in Upto(sorted, i - 1)
            <4>1. PICK j \in 1..n : sorted[j] = q
                BY <1>5, <2>1, <3>2 DEF Upto
            <4>2. /\ Cardinality(below[q]) = j - 1
                  /\ Cardinality(below[sorted[i]]) = i - 1
                  /\ Cardinality(below[q]) < Cardinality(below[sorted[i]])
                BY <1>2, <2>1, <3>2, <4>1 DEF n
            <4>3. j \in 1..i-1
                BY <1>1, <4>2
            <4> QED
                BY <4>1, <4>3 DEF Upto
        <3> QED
            BY <3>1, <3>2
    <2>4. Upto(sorted, i) = Upto(sorted, i - 1) \cup {sorted[i]}
        <3>1. \A j : j \in 1..i <=> (j \in 1..i-1 \/ j = i)
            BY <1>1
        <3> QED
            BY <3>1, Zenon DEF Upto
    <2> QED
        BY <2>1, <2>3, <2>4
<1> QED
    BY <1>1, <1>4, <1>5, <1>6 DEF n, Reads

\* The order in which derive_label reads a history.
LEMMA LabelOrder ==
    ASSUME LogInv
    PROVE  LET sorted == InOrder(log, Earlier) IN
           /\ Cardinality(log) \in Nat
           /\ Upto(sorted, 0) = {} /\ Upto(sorted, Cardinality(log)) = log
           /\ \A i \in 1..Cardinality(log) :
                /\ sorted[i] \in log \ Upto(sorted, i - 1)
                /\ Upto(sorted, i) = Upto(sorted, i - 1) \cup {sorted[i]}
                /\ \A e \in Upto(sorted, i - 1) : e \in log /\ Earlier(e, sorted[i])
<1> DEFINE sorted == InOrder(log, Earlier)
           below == [e \in log |-> {f \in log : Earlier(f, e)}]
           n == Cardinality(log)
<1>1. IsFiniteSet(log)
    BY DEF LogInv
<1>2. \A e, f \in log : /\ e.id \in Nat /\ e.occurred \in Nat /\ e.ingested \in Nat
                        /\ f.id \in Nat /\ f.occurred \in Nat /\ f.ingested \in Nat
                        /\ e.id = f.id => e = f
    BY DEF LogInv
<1>3. /\ \A p \in log : below[p] \subseteq log /\ p \notin below[p]
      /\ \A p \in log : \A q \in below[p] : below[q] \subseteq below[p]
      /\ \A p, q \in log : p = q \/ p \in below[q] \/ q \in below[p]
    BY <1>2 DEF Earlier
<1> HIDE DEF below
<1>4. \A i \in 1..n : \E e \in log : Cardinality(below[e]) = i - 1
    BY <1>1, <1>3, Places
<1>5. \A i \in 1..n : sorted[i] \in log /\ Cardinality(below[sorted[i]]) = i - 1
    <2> TAKE i \in 1..n
    <2>1. \A e \in log : below[e] = {f \in log : Earlier(f, e)}
        BY DEF below
    <2>2. \E e \in log : Cardinality({f \in log : Earlier(f, e)}) = i - 1
        BY <1>4, <2>1
    <2>3. sorted[i] = CHOOSE e \in log : Cardinality({f \in log : Earlier(f, e)}) = i - 1
        BY DEF InOrder
    <2>4. sorted[i] \in log /\ Cardinality({f \in log : Earlier(f, sorted[i])}) = i - 1
        BY <2>2, <2>3
    <2> QED
        BY <2>1, <2>4
<1> HIDE DEF sorted
<1>6. Reads(log, below, sorted)
    <2>1. Listing(log, below, sorted)
        BY <1>5 DEF Listing
    <2> QED
        BY ONLY <1>1, <1>3, <2>1, ReadInOrder
<1>7. \A i \in 1..n : \A e \in Upto(sorted, i - 1) : e \in log /\ Earlier(e, sorted[i])
    <2> TAKE i \in 1..n
    <2>1. sorted[i] \in log /\ Upto(sorted, i - 1) = below[sorted[i]]
        BY <1>6 DEF Reads
    <2>2. below[sorted[i]] = {f \in log : Earlier(f, sorted[i])}
        BY <2>1 DEF below
    <2> QED
        BY <2>1, <2>2
<1> QED
    BY <1>6, <1>7 DEF sorted, Reads

\* The order in which build_preference_vector_v2 reads a history.
LEMMA ReplayOrder ==
    ASSUME LogInv
    PROVE  LET sorted == InOrder(log, ReplayedBefore) IN
           /\ Cardinality(log) \in Nat
           /\ Upto(sorted, 0) = {} /\ Upto(sorted, Cardinality(log)) = log
           /\ \A i \in 1..Cardinality(log) :
                /\ sorted[i] \in log \ Upto(sorted, i - 1)
                /\ Upto(sorted, i) = Upto(sorted, i - 1) \cup {sorted[i]}
                /\ Upto(sorted, i - 1) = {e \in log : ReplayedBefore(e, sorted[i])}
<1> DEFINE sorted == InOrder(log, ReplayedBefore)
           below == [e \in log |-> {f \in log : ReplayedBefore(f, e)}]
           n == Cardinality(log)
<1>1. IsFiniteSet(log)
    BY DEF LogInv
<1>2. \A e, f \in log : /\ e.id \in Nat /\ e.occurred \in Nat
                        /\ f.id \in Nat /\ f.occurred \in Nat
                        /\ e.id = f.id => e = f
    BY DEF LogInv
<1>3. /\ \A p \in log : below[p] \subseteq log /\ p \notin below[p]
      /\ \A p \in log : \A q \in below[p] : below[q] \subseteq below[p]
      /\ \A p, q \in log : p = q \/ p \in below[q] \/ q \in below[p]
    BY <1>2 DEF ReplayedBefore
<1> HIDE DEF below
<1>4. \A i \in 1..n : \E e \in log : Cardinality(below[e]) = i - 1
    BY <1>1, <1>3, Places
<1>5. \A i \in 1..n : sorted[i] \in log /\ Cardinality(below[sorted[i]]) = i - 1
    <2> TAKE i \in 1..n
    <2>1. \A e \in log : below[e] = {f \in log : ReplayedBefore(f, e)}
        BY DEF below
    <2>2. \E e \in log : Cardinality({f \in log : ReplayedBefore(f, e)}) = i - 1
        BY <1>4, <2>1
    <2>3. sorted[i] = CHOOSE e \in log :
                        Cardinality({f \in log : ReplayedBefore(f, e)}) = i - 1
        BY DEF InOrder
    <2>4. sorted[i] \in log
          /\ Cardinality({f \in log : ReplayedBefore(f, sorted[i])}) = i - 1
        BY <2>2, <2>3
    <2> QED
        BY <2>1, <2>4
<1> HIDE DEF sorted
<1>6. Reads(log, below, sorted)
    <2>1. Listing(log, below, sorted)
        BY <1>5 DEF Listing
    <2> QED
        BY ONLY <1>1, <1>3, <2>1, ReadInOrder
<1>7. \A i \in 1..n :
        Upto(sorted, i - 1) = {e \in log : ReplayedBefore(e, sorted[i])}
    BY <1>6 DEF below, Reads
<1> QED
    BY <1>6, <1>7 DEF sorted, Reads

\* Functions that begin with one value and go on alike end with one value.
LEMMA SameEnd ==
    ASSUME NEW last \in Nat, NEW f, NEW g, f[0] = g[0],
           \A n \in 1..last : f[n-1] = g[n-1] => f[n] = g[n]
    PROVE  f[last] = g[last]
<1> DEFINE bad == {n \in 0..last : f[n] # g[n]}
<1> SUFFICES ASSUME bad # {} PROVE FALSE
    OBVIOUS
<1>1. bad \subseteq Nat
    OBVIOUS
<1>2. PICK n \in bad : \A m \in bad : n <= m
    BY <1>1, Least
<1>3. n \in 1..last /\ n - 1 \in 0..last /\ n - 1 \notin bad
    BY <1>2
<1> QED
    BY <1>2, <1>3

-----------------------------------------------------------------------------
(* The label.                                                              *)

\* The reversals, one by one.
LEMMA ReversalFacts ==
    /\ DOMAIN Reverses = {"unlike", "unsave", "unshare", "unhide"}
    /\ Reverses["unlike"] = "like" /\ Reverses["unsave"] = "save"
    /\ Reverses["unshare"] = "share" /\ Reverses["unhide"] = "hide"
BY DEF Reverses

\* What the loop knows of the events it has read.
Summary(events, version) ==
    [active |-> {k \in Reversible : Active(events, k)},
     irreversible |-> Irreversible(events, version),
     visible |-> \E e \in events : e.type = "visible"]

\* A later event sets its flag, or takes back the one it reverses.
LEMMA ActiveStep ==
    ASSUME NEW P, NEW e, e \notin P, \A f \in P : Earlier(f, e) /\ ~Earlier(e, f),
           NEW k \in Reversible
    PROVE  Active(P \cup {e}, k) =
             \/ e.type = k
             \/ /\ Active(P, k)
                /\ ~(e.type \in DOMAIN Reverses /\ Reverses[e.type] = k)
<1>1. CASE e.type = k
    <2>1. e.type \notin DOMAIN Reverses
        BY <1>1, ReversalFacts DEF Reversible
    <2>2. Active(P \cup {e}, k)
        BY <1>1, <2>1 DEF Active
    <2> QED
        BY <1>1, <2>2 DEF Active
<1>2. CASE e.type \in DOMAIN Reverses /\ Reverses[e.type] = k
    <2>1. e.type # k
        BY <1>2, ReversalFacts
    <2>2. ~Active(P \cup {e}, k)
        BY <1>2, <2>1 DEF Active
    <2> QED
        BY <1>2, <2>1, <2>2 DEF Active
<1>3. CASE e.type # k /\ ~(e.type \in DOMAIN Reverses /\ Reverses[e.type] = k)
    BY <1>3 DEF Active
<1> QED
    BY <1>1, <1>2, <1>3

\* An event adds the mark of its type.
LEMMA IrreversibleStep ==
    ASSUME NEW P, NEW e, NEW version
    PROVE  LET mark == CASE e.type = "click" -> {"click"}
                         [] e.type = "comment" -> {"positive"}
                         [] e.type = "report" -> {"strong_negative"}
                         [] e.type \in {"view", "dwell"} /\ e.long ->
                              {IF version = "v2" THEN "qualified_read" ELSE "positive"}
                         [] OTHER -> {}
               viewed == IF e.type = "view" /\ version = "v1_views"
                         THEN {"positive"} ELSE {}
           IN Irreversible(P \cup {e}, version) =
                Irreversible(P, version) \cup mark \cup viewed
<1> DEFINE read == IF version = "v2" THEN "qualified_read" ELSE "positive"
           viewed(f) == IF f.type = "view" /\ version = "v1_views"
                        THEN {"positive"} ELSE {}
           mark(f) == CASE f.type = "click" -> {"click"}
                        [] f.type = "comment" -> {"positive"}
                        [] f.type = "report" -> {"strong_negative"}
                        [] f.type \in {"view", "dwell"} /\ f.long -> {read}
                        [] OTHER -> {}
<1>1. ASSUME NEW Q
      PROVE  \A x : x \in Irreversible(Q, version) <=>
                      \E f \in Q : x \in mark(f) \cup viewed(f)
    <2>1. \A x : x \in Irreversible(Q, version) <=>
            \/ x = "click" /\ \E f \in Q : f.type = "click"
            \/ x = "positive" /\ \E f \in Q : f.type = "comment"
            \/ x = "strong_negative" /\ \E f \in Q : f.type = "report"
            \/ x = read /\ \E f \in Q : f.type \in {"view", "dwell"} /\ f.long
            \/ /\ x = "positive" /\ version = "v1_views"
               /\ \E f \in Q : f.type = "view"
        BY DEF Irreversible
    <2>2. \A x, f : x \in mark(f) <=>
            \/ x = "click" /\ f.type = "click"
            \/ x = "positive" /\ f.type = "comment"
            \/ x = "strong_negative" /\ f.type = "report"
            \/ x = read /\ f.type \in {"view", "dwell"} /\ f.long
        OBVIOUS
    <2>3. \A x, f : x \in viewed(f) <=>
            x = "positive" /\ version = "v1_views" /\ f.type = "view"
        OBVIOUS
    <2> HIDE DEF mark, viewed
    <2> QED
        BY <2>1, <2>2, <2>3
<1> HIDE DEF mark, viewed
<1>2. Irreversible(P \cup {e}, version) =
        Irreversible(P, version) \cup mark(e) \cup viewed(e)
    BY <1>1
<1> QED
    BY <1>2 DEF mark, viewed

\* One turn of the loop.
LEMMA LabelStepAdds ==
    ASSUME NEW P, NEW e, e \notin P, \A f \in P : Earlier(f, e) /\ ~Earlier(e, f),
           NEW version
    PROVE  LabelStep(Summary(P, version), e, version) = Summary(P \cup {e}, version)
<1> DEFINE s == Summary(P, version)
           active == IF e.type \in Reversible THEN s.active \cup {e.type}
                     ELSE IF e.type \in DOMAIN Reverses
                     THEN s.active \ {Reverses[e.type]} ELSE s.active
<1>1. active = {k \in Reversible : Active(P \cup {e}, k)}
    <2>1. s.active = {k \in Reversible : Active(P, k)}
        BY DEF Summary
    <2>2. e.type \in Reversible => e.type \notin DOMAIN Reverses
        BY ReversalFacts DEF Reversible
    <2>3. \A k \in Reversible : Active(P \cup {e}, k) <=>
             \/ e.type = k
             \/ /\ Active(P, k)
                /\ ~(e.type \in DOMAIN Reverses /\ Reverses[e.type] = k)
        BY ActiveStep
    <2> HIDE DEF s
    <2> QED
        BY <2>1, <2>2, <2>3
<1>2. LabelStep(s, e, version).irreversible = Irreversible(P \cup {e}, version)
    BY IrreversibleStep DEF LabelStep, Summary
<1>3. (s.visible \/ e.type = "visible") = \E f \in P \cup {e} : f.type = "visible"
    BY DEF Summary
<1>4. LabelStep(s, e, version) =
        [active |-> active, irreversible |-> LabelStep(s, e, version).irreversible,
         visible |-> s.visible \/ e.type = "visible"]
    BY DEF LabelStep
<1> HIDE DEF s, active
<1> QED
    BY <1>1, <1>2, <1>3, <1>4 DEF Summary, s

\* The loop of derive_label computes the label that is defined by sets.
LEMMA LoopIsSemantic ==
    ASSUME LogInv, NEW version, NEW closed
    PROVE  DeriveLabel(log, version, closed) = Semantic(log, version, closed)
<1> DEFINE sorted == InOrder(log, Earlier)
           last == Cardinality(log)
           start == [active |-> {}, irreversible |-> {}, visible |-> FALSE]
           rule(f) == f = [n \in 0..last |-> IF n = 0 THEN start
                                  ELSE LabelStep(f[n-1], sorted[n], version)]
           after == CHOOSE f : rule(f)
           sums == [n \in 0..last |-> Summary(Upto(sorted, n), version)]
<1>1. /\ last \in Nat /\ Upto(sorted, 0) = {} /\ Upto(sorted, last) = log
      /\ \A i \in 1..last :
           /\ sorted[i] \in log \ Upto(sorted, i - 1)
           /\ Upto(sorted, i) = Upto(sorted, i - 1) \cup {sorted[i]}
           /\ \A e \in Upto(sorted, i - 1) : e \in log /\ Earlier(e, sorted[i])
    BY LabelOrder
<1>2. \A e, f \in log : Earlier(e, f) => ~Earlier(f, e)
    BY DEF LogInv, Earlier
<1>3. start = Summary({}, version)
    BY DEF Summary, Active, Irreversible
<1> HIDE DEF sorted, last, start
<1>4. \A i \in 1..last : LabelStep(Summary(Upto(sorted, i - 1), version), sorted[i], version)
                           = Summary(Upto(sorted, i), version)
    <2> TAKE i \in 1..last
    <2>1. \A e \in Upto(sorted, i - 1) : Earlier(e, sorted[i]) /\ ~Earlier(sorted[i], e)
        BY <1>1, <1>2
    <2>2. sorted[i] \notin Upto(sorted, i - 1)
        BY <1>1
    <2>3. LabelStep(Summary(Upto(sorted, i - 1), version), sorted[i], version)
            = Summary(Upto(sorted, i - 1) \cup {sorted[i]}, version)
        BY <2>1, <2>2, LabelStepAdds
    <2> QED
        BY <1>1, <2>3
<1>5. \A n \in 0..last : n = 0 \/ (n \in 1..last /\ n - 1 \in 0..last)
    BY <1>1
<1>6. rule(sums)
    <2>1. \A n \in 0..last : sums[n] = IF n = 0 THEN start
                                       ELSE LabelStep(sums[n-1], sorted[n], version)
        BY <1>1, <1>3, <1>4, <1>5
    <2>2. sums = [n \in 0..last |-> sums[n]]
        OBVIOUS
    <2> HIDE DEF sums
    <2> QED
        BY <2>1, <2>2
<1> HIDE DEF sums
<1>7. rule(after)
    BY <1>6
<1> HIDE DEF after
<1>8. after[last] = Summary(log, version)
    <2>1. after[0] = sums[0]
        BY <1>1, <1>6, <1>7
    <2>2. \A n \in 1..last : after[n-1] = sums[n-1] => after[n] = sums[n]
        BY <1>1, <1>6, <1>7
    <2>3. last \in Nat
        BY <1>1
    <2>4. after[last] = sums[last]
        BY <2>1, <2>2, <2>3, SameEnd
    <2> QED
        BY <1>1, <2>4 DEF sums
<1> DEFINE s == after[last]
           found == s.irreversible
             \cup (IF "hide" \in s.active THEN {"strong_negative"} ELSE {})
             \cup (IF {"save", "share"} \cap s.active # {}
                   THEN {"strong_positive"} ELSE {})
             \cup (IF "like" \in s.active THEN {"positive"} ELSE {})
           renamed == IF version # "v2" /\ "click" \in found
                      THEN (found \ {"click"}) \cup {"positive"} ELSE found
           candidates == IF s.visible \/ renamed = {}
                         THEN renamed \cup {IF closed THEN "negative" ELSE "exposure"}
                         ELSE renamed
<1>9. DeriveLabel(log, version, closed) = Foremost(candidates)
    BY Zenon DEF DeriveLabel, after, sorted, last, start
<1> HIDE DEF s
<1>10. /\ s.irreversible = Irreversible(log, version)
       /\ s.visible <=> \E e \in log : e.type = "visible"
       /\ \A k \in Reversible : k \in s.active <=> Active(log, k)
    BY <1>8 DEF Summary, s
<1> DEFINE all == Irreversible(log, version) \cup
                  ((IF Active(log, "hide") THEN {"strong_negative"} ELSE {})
                  \cup (IF Active(log, "save") \/ Active(log, "share")
                        THEN {"strong_positive"} ELSE {})
                  \cup (IF Active(log, "like") THEN {"positive"} ELSE {}))
           named == IF version # "v2" /\ "click" \in all
                    THEN (all \ {"click"}) \cup {"positive"} ELSE all
<1>11. found = all
    <2>1. /\ "hide" \in s.active <=> Active(log, "hide")
          /\ "save" \in s.active <=> Active(log, "save")
          /\ "share" \in s.active <=> Active(log, "share")
          /\ "like" \in s.active <=> Active(log, "like")
        BY <1>10 DEF Reversible
    <2>2. {"save", "share"} \cap s.active # {} <=>
            Active(log, "save") \/ Active(log, "share")
        BY <2>1
    <2> QED
        BY <1>10, <2>1, <2>2
<1>12. Qualifies(log, version, closed) =
         IF named = {} \/ \E e \in log : e.type = "visible"
         THEN named \cup {IF closed THEN "negative" ELSE "exposure"} ELSE named
    BY DEF Qualifies
<1> HIDE DEF found, all
<1>13. candidates = Qualifies(log, version, closed)
    BY <1>10, <1>11, <1>12
<1> QED
    BY <1>9, <1>13 DEF Semantic

\* The loop of derive_label computes the label that EngagementLabel defines, for
\* histories of any length.
THEOREM ReplayLoopComputesLabel == ReplaySpec => []LoopComputesLabel
<1>1. LogInv => LoopComputesLabel
    BY LoopIsSemantic DEF LoopComputesLabel
<1> QED
    BY <1>1, ReplayInvariant, PTL

-----------------------------------------------------------------------------
(* The topics of the views.                                                *)

\* Of two views of a post only the newer counts.
LEMMA NewerViewCounts ==
    ASSUME NEW V, NEW e, e \notin V, NEW f \in V, f.post = e.post,
           \A g \in V \cup {e} : g.occurred \in Nat, f.occurred > e.occurred
    PROVE  LatestViews(V \cup {e}) = LatestViews(V)
<1>1. e \notin LatestViews(V \cup {e})
    BY DEF LatestViews
<1>2. \A g \in LatestViews(V) : g.post = e.post => e.occurred < g.occurred
    BY DEF LatestViews
<1> QED
    BY <1>1, <1>2 DEF LatestViews

\* A record of a view that comes after a newer one of the same post changes no
\* inferred topic, whatever the views, their topics and the window are.
THEOREM ReplayOldViewsChangeNothing == ReplaySpec => OldViewsChangeNothing
<1>1. LogInv /\ LogInv' /\ [StoreEvent]_replayVars =>
        [\A e \in log' \ log :
           (\E f \in log : /\ f.type \in {"view", "dwell"} /\ f.post = e.post
                           /\ f.occurred > e.occurred)
           => RankedViewTopics(log') = RankedViewTopics(log)]_replayVars
    <2> SUFFICES ASSUME LogInv, LogInv', StoreEvent, NEW e \in log' \ log,
                        NEW f \in log, f.type \in {"view", "dwell"},
                        f.post = e.post, f.occurred > e.occurred
                 PROVE  RankedViewTopics(log') = RankedViewTopics(log)
        BY DEF replayVars
    <2> DEFINE views(es) == {g \in es : /\ g.type \in {"view", "dwell"}
                                        /\ g.occurred >= MaxTime - Window}
    <2>1. log' = log \cup {e}
        BY DEF StoreEvent
    <2>2. \A g \in log \cup {e} : g.occurred \in Nat
        BY <2>1 DEF LogInv
    <2>3. LatestViews(views(log')) = LatestViews(views(log))
        <3>1. CASE e \in views(log')
            <4>1. views(log') = views(log) \cup {e} /\ f \in views(log) /\ e \notin views(log)
                <5>1. MaxTime - Window \in Int
                    BY ReplayAssumption
                <5> QED
                    BY <2>1, <2>2, <3>1, <5>1
            <4>2. \A g \in views(log) \cup {e} : g.occurred \in Nat
                BY <2>2
            <4> HIDE DEF views
            <4> QED
                BY <4>1, <4>2, NewerViewCounts
        <3>2. CASE e \notin views(log')
            BY <2>1, <3>2
        <3> QED
            BY <3>1, <3>2
    <2> QED
        BY <2>3, Zenon DEF RankedViewTopics, views
<1> QED
    BY <1>1, ReplayInvariant, PTL DEF ReplaySpec, OldViewsChangeNothing

-----------------------------------------------------------------------------
(* The replay.                                                             *)

Visits == [session : {e.session : e \in log}, post : {e.post : e \in log},
           last : Nat, counted : BOOLEAN, viewed : BOOLEAN, longest : Int]
Replays == [active : SUBSET log, reads : SUBSET log, other : SUBSET log,
            direct : SUBSET Visits]
NoReplay == [active |-> {}, reads |-> {}, other |-> {}, direct |-> {}]

\* The visit a read belongs to, and what it is after that read.
Own(s, e) == {v \in s.direct : v.session = e.session /\ v.post = e.post}
Fresh(e) == [session |-> e.session, post |-> e.post, last |-> e.occurred,
             counted |-> FALSE, viewed |-> FALSE, longest |-> 0]
VisitOf(s, e) == IF \E v \in Own(s, e) : SameVisit(v, e)
                 THEN CHOOSE v \in Own(s, e) : SameVisit(v, e) ELSE Fresh(e)
VisitAfter(s, e) == [VisitOf(s, e) EXCEPT !.last = e.occurred,
                       !.viewed = @ \/ e.type = "view",
                       !.longest = IF e.dwell > @ THEN e.dwell ELSE @,
                       !.counted = @ \/ e.long]

\* What DirectRead does.
LEMMA DirectReadFacts ==
    ASSUME LogInv, NEW s \in Replays, NEW e \in log
    PROVE  /\ VisitOf(s, e) \in Visits /\ VisitAfter(s, e) \in Visits
           /\ VisitOf(s, e) \in {v \in Own(s, e) : SameVisit(v, e)}
              \/ (VisitOf(s, e) = Fresh(e) /\ \A v \in Own(s, e) : ~SameVisit(v, e))
           /\ DirectRead(s, e) =
                [active |-> s.active, other |-> s.other,
                 reads |-> IF e.long /\ ~VisitOf(s, e).counted
                           THEN s.reads \cup {e} ELSE s.reads,
                 direct |-> (s.direct \ Own(s, e))
                            \cup (IF e.destroy THEN {} ELSE {VisitAfter(s, e)})]
<1>1. Own(s, e) \subseteq Visits
    BY DEF Own, Replays
<1>2. Fresh(e) \in Visits
    BY DEF Fresh, Visits, LogInv
<1>3. VisitOf(s, e) \in {v \in Own(s, e) : SameVisit(v, e)}
      \/ (VisitOf(s, e) = Fresh(e) /\ \A v \in Own(s, e) : ~SameVisit(v, e))
    BY DEF VisitOf
<1>4. VisitOf(s, e) \in Visits
    BY <1>1, <1>2, <1>3
<1>5. VisitAfter(s, e) \in Visits
    <2>1. e.long \in BOOLEAN /\ e.dwell \in Int /\ e.occurred \in Nat
        <3>1. e.long = (e.dwell >= LongRead) /\ e.dwell \in Int /\ e.occurred \in Nat
            BY DEF LogInv
        <3> QED
            BY <3>1
    <2> QED
        BY <1>4, <2>1 DEF VisitAfter, Visits
<1>6. DirectRead(s, e) =
        [s EXCEPT !.reads = IF e.long /\ ~VisitOf(s, e).counted THEN @ \cup {e} ELSE @,
                  !.direct = (@ \ Own(s, e))
                             \cup (IF e.destroy THEN {} ELSE {VisitAfter(s, e)})]
    BY DEF DirectRead, VisitOf, VisitAfter, Fresh, Own
<1> QED
    BY <1>3, <1>4, <1>5, <1>6 DEF Replays

\* What an event does is decided by its type.
LEMMA ReplayCases ==
    ASSUME NEW s, NEW e
    PROVE  /\ e.type \in {"view", "dwell"} => ReplayStep(s, e) = ReadStep(s, e)
           /\ e.type \in Reversible => ReplayStep(s, e) =
                [s EXCEPT !.active = {f \in @ : f.post # e.post \/ f.type # e.type}
                                     \cup {e}]
           /\ e.type \in DOMAIN Reverses => ReplayStep(s, e) =
                [s EXCEPT !.active = {f \in @ : f.post # e.post
                                                \/ f.type # Reverses[e.type]}]
           /\ e.type \in {"click", "report", "comment"} =>
                ReplayStep(s, e) = [s EXCEPT !.other = @ \cup {e}]
           /\ e.type \in {"view", "dwell"} \/ e.type \in Reversible
              \/ e.type \in DOMAIN Reverses \/ e.type \in {"click", "report", "comment"}
              \/ ReplayStep(s, e) = s
<1>1. e.type \in {"view", "dwell"} => /\ e.type \notin Reversible
                                     /\ e.type \notin DOMAIN Reverses
                                     /\ e.type \notin {"click", "report", "comment"}
    BY ReversalFacts DEF Reversible
<1>2. e.type \in Reversible => /\ e.type \notin DOMAIN Reverses
                              /\ e.type \notin {"click", "report", "comment"}
    BY ReversalFacts DEF Reversible
<1>3. e.type \in DOMAIN Reverses => e.type \notin {"click", "report", "comment"}
    BY ReversalFacts
<1> QED
    BY <1>1, <1>2, <1>3, Zenon DEF ReplayStep

\* A read keeps everything but reads and direct visits.
LEMMA ReplayStepType ==
    ASSUME LogInv, NEW s \in Replays, NEW e \in log
    PROVE  ReplayStep(s, e) \in Replays
<1>1. e.type \in {"view", "dwell"} => ReplayStep(s, e) = ReadStep(s, e)
    BY ReplayCases
<1>2. ReadStep(s, e) \in {s, [s EXCEPT !.reads = @ \cup {e}], DirectRead(s, e)}
    BY DEF ReadStep
<1>3. DirectRead(s, e) \in Replays
    <2>1. /\ VisitAfter(s, e) \in Visits
          /\ DirectRead(s, e) =
                [active |-> s.active, other |-> s.other,
                 reads |-> IF e.long /\ ~VisitOf(s, e).counted
                           THEN s.reads \cup {e} ELSE s.reads,
                 direct |-> (s.direct \ Own(s, e))
                            \cup (IF e.destroy THEN {} ELSE {VisitAfter(s, e)})]
        BY DirectReadFacts
    <2> QED
        BY <2>1 DEF Replays
<1>4. [s EXCEPT !.reads = @ \cup {e}] \in Replays
    BY DEF Replays
<1>5. CASE e.type \in {"view", "dwell"}
    BY <1>1, <1>2, <1>3, <1>4, <1>5
<1>6. CASE e.type \notin {"view", "dwell"}
    BY <1>6, ReplayCases DEF Replays
<1> QED
    BY <1>5, <1>6

\* A set that holds 0 and the successors of what it holds holds the last.
LEMMA Induction ==
    ASSUME NEW last \in Nat, NEW good, 0 \in good,
           \A n \in 1..last : n - 1 \in good => n \in good
    PROVE  last \in good
<1> DEFINE bad == (0..last) \ good
<1> SUFFICES ASSUME last \notin good PROVE FALSE
    OBVIOUS
<1>1. bad \subseteq Nat /\ last \in bad
    OBVIOUS
<1>2. PICK n \in bad : \A m \in bad : n <= m
    BY <1>1, Least
<1>3. n \in 1..last /\ n - 1 \in 0..last /\ n - 1 \notin bad
    BY <1>2
<1> QED
    BY <1>2, <1>3

\* The steps that lead to the contributions.
LEMMA Replayed ==
    ASSUME LogInv
    PROVE  LET sorted == InOrder(log, ReplayedBefore)
               last == Cardinality(log) IN
           \E after : /\ after[0] = NoReplay /\ after[last] = Contributions(log)
                      /\ \A n \in 0..last : after[n] \in Replays
                      /\ \A n \in 1..last :
                           after[n] = ReplayStep(after[n - 1], sorted[n])
<1> DEFINE sorted == InOrder(log, ReplayedBefore)
           last == Cardinality(log)
           rule(f) == f = [n \in 0..last |-> IF n = 0 THEN NoReplay
                                  ELSE ReplayStep(f[n-1], sorted[n])]
           after == CHOOSE f : rule(f)
           sets == [n \in 0..last |-> Replays]
           step == [n \in 1..last |-> [b \in Replays |-> ReplayStep(b, sorted[n])]]
<1>1. /\ last \in Nat
      /\ \A i \in 1..last : sorted[i] \in log
    BY ReplayOrder
<1>2. Contributions(log) = after[last]
    BY Zenon DEF Contributions, NoReplay
<1> HIDE DEF sorted, last
<1>3. NoReplay \in Replays
    BY DEF NoReplay, Replays
<1>4. \A n \in 0..last : n = 0 \/ (n \in 1..last /\ n - 1 \in 0..last)
    BY <1>1
<1>5. \A n \in 1..last : \A b \in Replays :
        step[n][b] = ReplayStep(b, sorted[n]) /\ step[n][b] \in Replays
    BY <1>1, ReplayStepType
<1>6. \A n \in 1..last : sets[n-1] = Replays /\ sets[n] = Replays
    BY <1>1
<1>7. \A n \in 0..last : sets[n] = Replays
    OBVIOUS
<1> DEFINE stepped(f) == Recursive(f, last, NoReplay, step)
<1> HIDE DEF sets, step
<1>8. /\ \E f : stepped(f)
      /\ \A f : stepped(f) => \A n \in 0..last : f[n] \in sets[n]
    <2>1. \A n \in 1..last : \A b \in sets[n-1] : step[n][b] \in sets[n]
        BY <1>5, <1>6
    <2>2. last \in Nat /\ NoReplay \in sets[0]
        BY <1>1, <1>3, <1>7
    <2> QED
        BY ONLY <2>1, <2>2, Recursion
<1>9. PICK g : stepped(g)
    BY <1>8
<1>10. rule(g)
    <2>1. \A n \in 0..last : g[n] \in Replays
        BY <1>7, <1>8, <1>9
    <2>2. \A n \in 0..last : n # 0 => step[n][g[n-1]] = ReplayStep(g[n-1], sorted[n])
        BY <1>4, <1>5, <2>1
    <2> QED
        BY <1>9, <2>2 DEF Recursive
<1>11. rule(after)
    BY <1>10
<1> HIDE DEF after
<1>12. after[0] = NoReplay
       /\ \A n \in 1..last : after[n] = ReplayStep(after[n - 1], sorted[n])
    BY <1>1, <1>11
<1>13. \A n \in 0..last : after[n] = g[n]
    <2> TAKE m \in 0..last
    <2> DEFINE good == {n \in 0..last : after[n] = g[n]}
    <2>1. 0 \in good
        BY <1>1, <1>10, <1>12
    <2>2. \A n \in 1..m : n - 1 \in good => n \in good
        BY <1>1, <1>10, <1>12
    <2> HIDE DEF good
    <2>3. m \in good
        BY <2>1, <2>2, Induction
    <2> QED
        BY <2>3 DEF good
<1>14. \A n \in 0..last : after[n] \in Replays
    BY <1>7, <1>8, <1>9, <1>13
<1> QED
    BY <1>2, <1>12, <1>14 DEF sorted, last

-----------------------------------------------------------------------------
(* The vector and the label.                                               *)

\* An action on a post that was not taken back, in the order of the replay.
Standing(P, p, k) ==
    \E e \in P : /\ e.post = p /\ e.type = k
                 /\ \A f \in P : /\ f.post = p
                                 /\ f.type \in DOMAIN Reverses
                                 /\ Reverses[f.type] = k
                                 => ReplayedBefore(f, e)

\* A later event makes an action stand, or takes back the one it reverses.
LEMMA StandingStep ==
    ASSUME NEW P, NEW e, e \notin P,
           \A f \in P : ReplayedBefore(f, e) /\ ~ReplayedBefore(e, f),
           NEW p, NEW k \in Reversible
    PROVE  Standing(P \cup {e}, p, k) <=>
             \/ e.post = p /\ e.type = k
             \/ /\ Standing(P, p, k)
                /\ ~ (/\ e.post = p /\ e.type \in DOMAIN Reverses
                      /\ Reverses[e.type] = k)
<1>1. CASE e.post = p /\ e.type = k
    <2>1. e.type \notin DOMAIN Reverses
        BY <1>1, ReversalFacts DEF Reversible
    <2> QED
        BY <1>1, <2>1 DEF Standing
<1>2. CASE e.post = p /\ e.type \in DOMAIN Reverses /\ Reverses[e.type] = k
    <2>1. e.type # k
        BY <1>2, ReversalFacts
    <2> QED
        BY <1>2, <2>1 DEF Standing
<1>3. CASE /\ ~(e.post = p /\ e.type = k)
           /\ ~(e.post = p /\ e.type \in DOMAIN Reverses /\ Reverses[e.type] = k)
    BY <1>3 DEF Standing
<1> QED
    BY <1>1, <1>2, <1>3

\* What an event makes of the reads that are counted.
LEMMA ReadsStep ==
    ASSUME LogInv, NEW s \in Replays, NEW e \in log
    PROVE  LET reads == ReplayStep(s, e).reads
               long == e.type \in {"view", "dwell"} /\ e.long
               named(f) == /\ f.impression = None /\ f.visit = e.visit
                           /\ f.session = e.session /\ f.post = e.post IN
           /\ \/ reads = s.reads
              \/ /\ reads = s.reads \cup {e} /\ long
                 /\ e.impression # None =>
                      \A f \in s.reads : f.impression # e.impression
                 /\ e.impression = None /\ e.visit # None =>
                      \A f \in s.reads : ~named(f)
           /\ long /\ e.impression # None =>
                \E f \in reads : f.impression = e.impression
           /\ e.type \in {"view", "dwell"} => ReplayStep(s, e).active = s.active
<1> DEFINE named(f) == /\ f.impression = None /\ f.visit = e.visit
                       /\ f.session = e.session /\ f.post = e.post
<1>1. CASE e.type \notin {"view", "dwell"}
    <2>1. ReplayStep(s, e).reads = s.reads
        BY <1>1, ReplayCases DEF Replays
    <2> QED
        BY <1>1, <2>1
<1>2. CASE e.type \in {"view", "dwell"} /\ e.impression # None
    <2>1. ReplayStep(s, e) = IF e.long /\ ~ \E f \in s.reads : f.impression = e.impression
                             THEN [s EXCEPT !.reads = @ \cup {e}] ELSE s
        BY <1>2, ReplayCases DEF ReadStep
    <2> QED
        BY <1>2, <2>1 DEF Replays
<1>3. CASE e.type \in {"view", "dwell"} /\ e.impression = None /\ e.visit # None
    <2>1. ReplayStep(s, e) = IF e.long /\ ~ \E f \in s.reads : named(f)
                             THEN [s EXCEPT !.reads = @ \cup {e}] ELSE s
        BY <1>3, ReplayCases DEF ReadStep
    <2> QED
        BY <1>3, <2>1 DEF Replays
<1>4. CASE /\ e.type \in {"view", "dwell"} /\ e.impression = None /\ e.visit = None
           /\ e.session = None
    <2>1. ReplayStep(s, e) = IF e.long THEN [s EXCEPT !.reads = @ \cup {e}] ELSE s
        BY <1>4, ReplayCases DEF ReadStep
    <2> QED
        BY <1>4, <2>1 DEF Replays
<1>5. CASE /\ e.type \in {"view", "dwell"} /\ e.impression = None /\ e.visit = None
           /\ e.session # None
    <2>1. ReplayStep(s, e) = DirectRead(s, e)
        BY <1>5, ReplayCases DEF ReadStep
    <2>2. /\ DirectRead(s, e).active = s.active
          /\ DirectRead(s, e).reads = IF e.long /\ ~VisitOf(s, e).counted
                                      THEN s.reads \cup {e} ELSE s.reads
        BY DirectReadFacts
    <2> QED
        BY <1>5, <2>1, <2>2
<1> QED
    BY <1>1, <1>2, <1>3, <1>4, <1>5

\* What the replay of the events of P has made of them.
VectorOK(s, P) ==
    /\ \A f \in s.active : f.type \in Reversible
    /\ \A p : \A k \in Reversible :
         (\E f \in s.active : f.post = p /\ f.type = k) <=> Standing(P, p, k)
    /\ \A f \in s.reads : f \in P /\ f.type \in {"view", "dwell"} /\ f.long
    /\ \A e \in P : e.type \in {"view", "dwell"} /\ e.long /\ e.impression # None
                    => \E f \in s.reads : f.impression = e.impression
    /\ \A e, f \in s.reads : e.impression # None /\ e.impression = f.impression => e = f
    /\ \A e, f \in s.reads : /\ e.impression = None /\ f.impression = None
                             /\ e.visit # None /\ e.visit = f.visit
                             /\ e.session = f.session /\ e.post = f.post
                             => e = f

\* One event more.
LEMMA VectorStep ==
    ASSUME LogInv, NEW s \in Replays, NEW e \in log, NEW P, e \notin P,
           P = {f \in log : ReplayedBefore(f, e)}, VectorOK(s, P)
    PROVE  VectorOK(ReplayStep(s, e), P \cup {e})
<1> DEFINE t == ReplayStep(s, e)
           set(p, k) == \E f \in s.active : f.post = p /\ f.type = k
           setNow(p, k) == \E f \in t.active : f.post = p /\ f.type = k
           taken(p, k) == /\ e.post = p /\ e.type \in DOMAIN Reverses
                          /\ Reverses[e.type] = k
<1>1. \A f \in P : ReplayedBefore(f, e) /\ ~ReplayedBefore(e, f)
    BY DEF LogInv, ReplayedBefore
<1>2. ASSUME NEW p, NEW k \in Reversible
      PROVE  setNow(p, k) <=> Standing(P \cup {e}, p, k)
    <2>1. setNow(p, k) <=> (e.post = p /\ e.type = k) \/ (set(p, k) /\ ~taken(p, k))
        <3>1. CASE e.type \in {"view", "dwell"}
            <4>1. t.active = s.active
                BY <3>1, ReadsStep
            <4>2. e.type # k /\ e.type \notin DOMAIN Reverses
                BY <3>1, ReversalFacts DEF Reversible
            <4> QED
                BY <4>1, <4>2
        <3>2. CASE e.type \in Reversible
            <4>1. t.active = {f \in s.active : f.post # e.post \/ f.type # e.type}
                             \cup {e}
                BY <3>2, ReplayCases DEF Replays
            <4>2. e.type \notin DOMAIN Reverses
                BY <3>2, ReversalFacts DEF Reversible
            <4> HIDE DEF t
            <4> QED
                BY <4>1, <4>2
        <3>3. CASE e.type \in DOMAIN Reverses
            <4>1. t.active = {f \in s.active : f.post # e.post
                                               \/ f.type # Reverses[e.type]}
                BY <3>3, ReplayCases DEF Replays
            <4>2. e.type # k
                BY <3>3, ReversalFacts DEF Reversible
            <4> HIDE DEF t
            <4> QED
                BY <3>3, <4>1, <4>2
        <3>4. CASE /\ e.type \notin {"view", "dwell"} /\ e.type \notin Reversible
                   /\ e.type \notin DOMAIN Reverses
            <4>1. t.active = s.active
                BY <3>4, ReplayCases DEF Replays
            <4> QED
                BY <3>4, <4>1
        <3> QED
            BY <3>1, <3>2, <3>3, <3>4
    <2>2. set(p, k) <=> Standing(P, p, k)
        BY DEF VectorOK
    <2>3. Standing(P \cup {e}, p, k) <=> (e.post = p /\ e.type = k)
                                         \/ (Standing(P, p, k) /\ ~taken(p, k))
        BY <1>1, StandingStep
    <2> QED
        BY <2>1, <2>2, <2>3
<1>3. \A f \in t.active : f.type \in Reversible
    <2>1. /\ t.active \subseteq s.active \cup {e}
          /\ e \in t.active => e \in s.active \/ e.type \in Reversible
        <3>1. CASE e.type \in {"view", "dwell"}
            BY <3>1, ReadsStep
        <3>2. CASE e.type \notin {"view", "dwell"}
            BY <3>2, ReplayCases DEF Replays
        <3> QED
            BY <3>1, <3>2
    <2> QED
        BY <2>1 DEF VectorOK
<1> DEFINE long == e.type \in {"view", "dwell"} /\ e.long
           named(f) == /\ f.impression = None /\ f.visit = e.visit
                       /\ f.session = e.session /\ f.post = e.post
<1>4. /\ \/ t.reads = s.reads
         \/ /\ t.reads = s.reads \cup {e} /\ long
            /\ e.impression # None =>
                 \A f \in s.reads : f.impression # e.impression
            /\ e.impression = None /\ e.visit # None =>
                 \A f \in s.reads : ~named(f)
      /\ long /\ e.impression # None =>
           \E f \in t.reads : f.impression = e.impression
    BY ReadsStep
<1> HIDE DEF t
<1>5. \A f \in t.reads : f \in P \cup {e} /\ f.type \in {"view", "dwell"} /\ f.long
    BY <1>4 DEF VectorOK
<1>6. \A g \in P \cup {e} : g.type \in {"view", "dwell"} /\ g.long /\ g.impression # None
                            => \E f \in t.reads : f.impression = g.impression
    BY <1>4 DEF VectorOK
<1>7. \A g, f \in t.reads : g.impression # None /\ g.impression = f.impression => g = f
    BY <1>4 DEF VectorOK
<1>8. \A g, f \in t.reads : /\ g.impression = None /\ f.impression = None
                            /\ g.visit # None /\ g.visit = f.visit
                            /\ g.session = f.session /\ g.post = f.post
                            => g = f
    <2> SUFFICES ASSUME NEW g \in t.reads, NEW f \in t.reads,
                        g.impression = None, f.impression = None,
                        g.visit # None, g.visit = f.visit,
                        g.session = f.session, g.post = f.post
                 PROVE  g = f
        OBVIOUS
    <2>1. CASE g \in s.reads /\ f \in s.reads
        BY <2>1 DEF VectorOK
    <2>2. CASE ~(g \in s.reads /\ f \in s.reads)
        BY <1>4, <2>2
    <2> QED
        BY <2>1, <2>2
<1> QED
    BY <1>2, <1>3, <1>5, <1>6, <1>7, <1>8 DEF VectorOK, t

\* After the last event.
LEMMA VectorAtEnd == LogInv => VectorOK(Contributions(log), log)
<1> SUFFICES ASSUME LogInv PROVE VectorOK(Contributions(log), log)
    OBVIOUS
<1> DEFINE sorted == InOrder(log, ReplayedBefore)
           last == Cardinality(log)
<1>1. /\ last \in Nat /\ Upto(sorted, 0) = {} /\ Upto(sorted, last) = log
      /\ \A i \in 1..last :
           /\ sorted[i] \in log \ Upto(sorted, i - 1)
           /\ Upto(sorted, i) = Upto(sorted, i - 1) \cup {sorted[i]}
           /\ Upto(sorted, i - 1) = {e \in log : ReplayedBefore(e, sorted[i])}
    BY ReplayOrder
<1>2. PICK after : /\ after[0] = NoReplay /\ after[last] = Contributions(log)
                   /\ \A n \in 0..last : after[n] \in Replays
                   /\ \A n \in 1..last : after[n] = ReplayStep(after[n - 1], sorted[n])
    BY Replayed
<1> HIDE DEF sorted, last
<1> DEFINE good == {n \in 0..last : VectorOK(after[n], Upto(sorted, n))}
<1>3. 0 \in good
    BY <1>1, <1>2 DEF VectorOK, NoReplay, Standing
<1>4. \A n \in 1..last : n - 1 \in good => n \in good
    <2> TAKE n \in 1..last
    <2> HAVE n - 1 \in good
    <2>1. n - 1 \in 0..last /\ n \in 0..last /\ after[n - 1] \in Replays
        BY <1>1, <1>2
    <2>2. /\ sorted[n] \in log /\ sorted[n] \notin Upto(sorted, n - 1)
          /\ Upto(sorted, n - 1) = {e \in log : ReplayedBefore(e, sorted[n])}
          /\ VectorOK(after[n - 1], Upto(sorted, n - 1))
        BY <1>1
    <2>3. VectorOK(ReplayStep(after[n - 1], sorted[n]), Upto(sorted, n - 1) \cup {sorted[n]})
        BY <2>1, <2>2, VectorStep
    <2> QED
        BY <1>1, <1>2, <2>1, <2>3
<1> HIDE DEF good
<1>5. last \in good
    BY <1>1, <1>3, <1>4, Induction
<1> QED
    BY <1>1, <1>2, <1>5 DEF good

\* From what the replay has made of the events.
LEMMA VectorIsLabel == LogInv => VectorAgreesWithLabel
<1> SUFFICES ASSUME LogInv PROVE VectorAgreesWithLabel
    OBVIOUS
<1> DEFINE found == Contributions(log)
           shown(i) == {e \in log : e.impression = i}
<1>1. VectorOK(found, log)
    BY VectorAtEnd
<1> HIDE DEF found
<1>2. ASSUME NoTies, NEW p, NEW k \in Reversible
      PROVE  Standing(log, p, k) <=> Active({e \in log : e.post = p}, k)
    <2>1. ASSUME NEW e \in log, NEW f \in log, e.post = p, f.post = p, e.type = k,
                 f.type \in DOMAIN Reverses, Reverses[f.type] = k
          PROVE  ReplayedBefore(f, e) <=> Earlier(f, e)
        <3>1. e.occurred # f.occurred
            BY <1>2, <2>1, Zenon DEF NoTies
        <3> QED
            BY <3>1 DEF ReplayedBefore, Earlier
    <2> QED
        BY <2>1 DEF Standing, Active
<1>3. ASSUME NEW i, i # None
      PROVE  Cardinality({e \in found.reads : e.impression = i}) =
               IF "qualified_read" \in Qualifies(shown(i), "v2", TRUE) THEN 1 ELSE 0
    <2> DEFINE counted == {e \in found.reads : e.impression = i}
               read == \E e \in shown(i) : e.type \in {"view", "dwell"} /\ e.long
    <2>1. "qualified_read" \in Qualifies(shown(i), "v2", TRUE) <=> read
        <3>1. "qualified_read" \in Irreversible(shown(i), "v2") <=> read
            BY DEF Irreversible
        <3> QED
            BY <3>1 DEF Qualifies
    <2>2. CASE read
        <3>1. PICK e \in found.reads : e.impression = i
            BY <1>1, <1>3, <2>2 DEF VectorOK
        <3>2. counted = {e}
            BY <1>1, <1>3, <3>1 DEF VectorOK
        <3> QED
            BY <2>1, <2>2, <3>2, FS_Singleton
    <2>3. CASE ~read
        <3>1. counted = {}
            BY <1>1, <2>3 DEF VectorOK
        <3> QED
            BY <2>1, <2>3, <3>1, FS_EmptySet
    <2> QED
        BY <2>2, <2>3
<1>4. NoTies => \A p \in {e.post : e \in log}, kind \in Reversible :
            (\E e \in found.active : e.post = p /\ e.type = kind)
              <=> Active({e \in log : e.post = p}, kind)
    <2> SUFFICES ASSUME NoTies, NEW p, NEW kind \in Reversible
                 PROVE  (\E e \in found.active : e.post = p /\ e.type = kind)
                           <=> Active({e \in log : e.post = p}, kind)
        OBVIOUS
    <2>1. Standing(log, p, kind) <=> Active({e \in log : e.post = p}, kind)
        BY <1>2
    <2>2. (\E e \in found.active : e.post = p /\ e.type = kind) <=> Standing(log, p, kind)
        BY <1>1 DEF VectorOK
    <2> QED
        BY <2>1, <2>2
<1>5. \A i \in {e.impression : e \in log} \ {None} :
        Cardinality({e \in found.reads : e.impression = i}) =
          IF "qualified_read" \in Qualifies(shown(i), "v2", TRUE) THEN 1 ELSE 0
    <2> TAKE i \in {e.impression : e \in log} \ {None}
    <2> QED
        BY <1>3
<1> QED
    BY ONLY <1>4, <1>5 DEF VectorAgreesWithLabel, found

\* The preference vector holds an action exactly if the label of the post calls
\* it active, and a qualified read of an impression once if its label says so,
\* for histories of any length.
THEOREM ReplayVectorAgreesWithLabel == ReplaySpec => []VectorAgreesWithLabel
BY VectorIsLabel, ReplayInvariant, PTL

-----------------------------------------------------------------------------
(* The visits.                                                             *)

\* A read that only its session and post identify; two of one session and post;
\* those of P from c on.
Direct(e) == /\ e.type \in {"view", "dwell"} /\ e.impression = None
             /\ e.visit = None /\ e.session # None
Together(e, f) == e.session = f.session /\ e.post = f.post
Track(P, c) == {g \in P : /\ Direct(g) /\ Together(g, c)
                          /\ g = c \/ ReplayedBefore(c, g)}

\* The reader left, stayed, or destroyed the page at last.
Broken(T) ==
    \E g, h \in T :
       /\ ReplayedBefore(g, h)
       /\ ~ \E k \in T : ReplayedBefore(g, k) /\ ReplayedBefore(k, h)
       /\ \/ h.occurred - g.occurred > VisitGap
          \/ g.destroy \/ h.type = "view"
          \/ \E k \in T : h.dwell >= 0 /\ h.dwell < k.dwell /\ ReplayedBefore(k, h)
Stayed(T) ==
    \A g \in T : /\ ~g.destroy
                 /\ \/ \A h \in T : ~ReplayedBefore(g, h)
                    \/ \E h \in T : /\ ReplayedBefore(g, h)
                                    /\ h.occurred - g.occurred <= VisitGap
Closed(T) == \E l \in T : l.destroy /\ \A h \in T : h = l \/ ReplayedBefore(h, l)

Visitor(v, e) == v.session = e.session /\ v.post = e.post

\* A session has at most one visit of a post under way, whose last event is the
\* last of both, and no qualified read without being counted.
OneVisit(s) ==
    \A v, w \in s.direct : v.session = w.session /\ v.post = w.post => v = w
LastKnown(s, P) ==
    \A v \in s.direct : \E l \in P :
       /\ Direct(l) /\ Visitor(v, l) /\ v.last = l.occurred /\ ~l.destroy
       /\ \A g \in P : Direct(g) /\ Together(g, l) => g = l \/ ReplayedBefore(g, l)
ShortUncounted(s) == \A v \in s.direct : v.counted \/ v.longest < LongRead

\* The visit that is counted began with a read that is, and the reader stayed.
CountedStayed(s, P) ==
    \A v \in s.direct : v.counted =>
       \E c \in s.reads : Direct(c) /\ Visitor(v, c) /\ Stayed(Track(P, c))

\* Since a read that is counted the reader left, or its visit is under way.
OpenOrLeft(s, P) ==
    \A c \in s.reads : Direct(c) =>
       \/ Broken(Track(P, c))
       \/ Closed(Track(P, c))
       \/ \E v \in s.direct : /\ Visitor(v, c) /\ v.counted
                              /\ \E k \in Track(P, c) : v.longest <= k.dwell
ReadsLeft(s) ==
    \A c, f \in s.reads :
       Direct(c) /\ Direct(f) /\ Together(c, f) /\ ReplayedBefore(c, f) => Left(c, f)

\* A read that is not counted continues the visit of one that is.
Paused(T, f) ==
    \E g \in T \ {f} : \/ g.destroy
                       \/ \A h \in T : ReplayedBefore(g, h) =>
                            h.occurred - g.occurred > VisitGap
Continues(s, f) ==
    \E c \in s.reads : /\ Direct(c) /\ Together(c, f) /\ ReplayedBefore(c, f)
                       /\ ~Paused(Between(c, f), f)
SkippedContinue(s, P) ==
    \A f \in P : Direct(f) /\ f.long /\ f \notin s.reads => Continues(s, f)

VisitsOK(s, P) ==
    /\ OneVisit(s) /\ LastKnown(s, P) /\ ShortUncounted(s) /\ CountedStayed(s, P)
    /\ OpenOrLeft(s, P) /\ ReadsLeft(s) /\ SkippedContinue(s, P)
    /\ s.reads \subseteq P

\* The events are in a strict order.
LEMMA ReplayIsOrder ==
    ASSUME LogInv
    PROVE  /\ \A e \in log : ~ReplayedBefore(e, e)
           /\ \A e, f \in log : e = f \/ ReplayedBefore(e, f) \/ ReplayedBefore(f, e)
           /\ \A e, f \in log : ReplayedBefore(e, f) => ~ReplayedBefore(f, e)
           /\ \A e, f, g \in log :
                ReplayedBefore(e, f) /\ ReplayedBefore(f, g) => ReplayedBefore(e, g)
BY DEF LogInv, ReplayedBefore

\* The track of a read grows by the next read of its session and post.
LEMMA TrackGrows ==
    ASSUME LogInv, NEW e \in log, NEW P, P = {f \in log : ReplayedBefore(f, e)},
           Direct(e), NEW c \in P, Direct(c), Together(c, e)
    PROVE  /\ Track(P \cup {e}, c) = Track(P, c) \cup {e}
           /\ Between(c, e) = Track(P, c) \cup {e}
           /\ \A g \in Track(P, c) : /\ g \in log /\ ReplayedBefore(g, e)
                                     /\ ~ReplayedBefore(e, g) /\ g # e
           /\ c \in Track(P, c)
<1>1. /\ \A f \in P : f \in log /\ ReplayedBefore(f, e) /\ ~ReplayedBefore(e, f) /\ f # e
      /\ ~ReplayedBefore(e, e) /\ Together(e, c)
    BY ReplayIsOrder DEF Together
<1>2. Track(P \cup {e}, c) = Track(P, c) \cup {e}
    BY <1>1 DEF Track
<1>3. Between(c, e) = Track(P, c) \cup {e}
    <2>1. \A g \in log : g \in Between(c, e) <=>
            Direct(g) /\ Together(g, c) /\ (g = c \/ ReplayedBefore(c, g))
            /\ (g = e \/ ReplayedBefore(g, e))
        BY DEF Between, Direct, Together
    <2>2. Between(c, e) \subseteq log
        BY DEF Between
    <2> QED
        BY <1>1, <2>1, <2>2 DEF Track
<1>4. c \in Track(P, c)
    BY DEF Track, Together
<1> QED
    BY <1>1, <1>2, <1>3, <1>4 DEF Track

\* Others do not.
LEMMA TrackKept ==
    ASSUME NEW P, NEW e, NEW c, ~Direct(e) \/ ~Together(c, e)
    PROVE  Track(P \cup {e}, c) = Track(P, c)
BY DEF Track, Together

\* Who left has left; who destroyed the page has left with the next read.
LEMMA LeftForGood ==
    ASSUME LogInv, NEW e \in log, NEW T,
           \A g \in T : /\ g \in log /\ ReplayedBefore(g, e)
                        /\ ~ReplayedBefore(e, g) /\ g # e,
           Broken(T) \/ Closed(T)
    PROVE  Broken(T \cup {e})
<1>1. CASE Broken(T)
    <2>1. PICK g \in T, h \in T :
            /\ ReplayedBefore(g, h)
            /\ ~ \E k \in T : ReplayedBefore(g, k) /\ ReplayedBefore(k, h)
            /\ \/ h.occurred - g.occurred > VisitGap
               \/ g.destroy \/ h.type = "view"
               \/ \E k \in T : h.dwell >= 0 /\ h.dwell < k.dwell /\ ReplayedBefore(k, h)
        BY <1>1 DEF Broken
    <2>2. ~ \E k \in T \cup {e} : ReplayedBefore(g, k) /\ ReplayedBefore(k, h)
        BY <2>1
    <2>3. \/ h.occurred - g.occurred > VisitGap
          \/ g.destroy \/ h.type = "view"
          \/ \E k \in T \cup {e} : h.dwell >= 0 /\ h.dwell < k.dwell /\ ReplayedBefore(k, h)
        BY <2>1
    <2> QED
        BY <2>1, <2>2, <2>3 DEF Broken
<1>2. CASE Closed(T)
    <2>1. PICK l \in T : l.destroy /\ \A h \in T : h = l \/ ReplayedBefore(h, l)
        BY <1>2 DEF Closed
    <2>2. ~ \E k \in T \cup {e} : ReplayedBefore(l, k) /\ ReplayedBefore(k, e)
        BY <2>1, ReplayIsOrder
    <2> QED
        BY <2>1, <2>2 DEF Broken
<1> QED
    BY <1>1, <1>2

\* An event that is no direct read touches no visit.
LEMMA OtherEvent ==
    ASSUME LogInv, NEW s \in Replays, NEW e \in log, ~Direct(e)
    PROVE  /\ ReplayStep(s, e).direct = s.direct
           /\ ReplayStep(s, e).reads \in {s.reads, s.reads \cup {e}}
<1>1. CASE e.type \notin {"view", "dwell"}
    BY <1>1, ReplayCases DEF Replays
<1>2. CASE e.type \in {"view", "dwell"}
    <2>1. ReplayStep(s, e) \in {s, [s EXCEPT !.reads = @ \cup {e}]}
        BY <1>2, ReplayCases DEF ReadStep, Direct
    <2> QED
        BY <2>1 DEF Replays
<1> QED
    BY <1>1, <1>2

\* Nor what is known of the visits.
LEMMA OtherEventKeeps ==
    ASSUME LogInv, NEW s \in Replays, NEW e \in log, ~Direct(e), NEW P, P \subseteq log,
           VisitsOK(s, P)
    PROVE  VisitsOK(ReplayStep(s, e), P \cup {e})
<1> DEFINE t == ReplayStep(s, e)
<1>1. t.direct = s.direct /\ t.reads \in {s.reads, s.reads \cup {e}}
    BY OtherEvent
<1>2. \A c \in t.reads : Direct(c) => c \in s.reads
    BY <1>1
<1>3. \A c \in s.reads : c \in t.reads
    BY <1>1
<1>4. \A c : Track(P \cup {e}, c) = Track(P, c)
    BY TrackKept
<1> HIDE DEF t
<1>5. OneVisit(t) /\ ShortUncounted(t)
    BY <1>1 DEF VisitsOK, OneVisit, ShortUncounted
<1>6. LastKnown(t, P \cup {e})
    BY <1>1 DEF VisitsOK, LastKnown
<1>7. CountedStayed(t, P \cup {e})
    BY <1>1, <1>3, <1>4 DEF VisitsOK, CountedStayed
<1>8. OpenOrLeft(t, P \cup {e})
    BY <1>1, <1>2, <1>4 DEF VisitsOK, OpenOrLeft
<1>9. ReadsLeft(t)
    BY <1>2 DEF VisitsOK, ReadsLeft
<1>10. SkippedContinue(t, P \cup {e})
    BY <1>3 DEF VisitsOK, SkippedContinue, Continues
<1>11. t.reads \subseteq P \cup {e}
    BY <1>1 DEF VisitsOK
<1> QED
    BY <1>5, <1>6, <1>7, <1>8, <1>9, <1>10, <1>11 DEF VisitsOK, t

\* What a direct read does, and what its visit is then.
LEMMA DirectEvent ==
    ASSUME LogInv, NEW s \in Replays, NEW e \in log, Direct(e), OneVisit(s)
    PROVE  LET t == ReplayStep(s, e)
               v == VisitOf(s, e)
               w == VisitAfter(s, e) IN
           /\ t.reads = IF e.long /\ ~v.counted THEN s.reads \cup {e} ELSE s.reads
           /\ \A x : x \in t.direct <=> \/ x \in s.direct /\ ~Visitor(x, e)
                                        \/ ~e.destroy /\ x = w
           /\ Visitor(w, e) /\ w.last = e.occurred
           /\ w.counted = (v.counted \/ e.long)
           /\ w.longest = IF e.dwell > v.longest THEN e.dwell ELSE v.longest
           /\ v.longest \in Int
           /\ \/ v \in s.direct /\ Visitor(v, e) /\ SameVisit(v, e)
              \/ /\ ~v.counted /\ v.longest = 0
                 /\ \A x \in s.direct : Visitor(x, e) => ~SameVisit(x, e)
<1> DEFINE v == VisitOf(s, e)
<1>1. ReplayStep(s, e) = DirectRead(s, e)
    BY ReplayCases DEF ReadStep, Direct
<1>2. /\ v \in Visits
      /\ v \in {x \in Own(s, e) : SameVisit(x, e)}
         \/ (v = Fresh(e) /\ \A x \in Own(s, e) : ~SameVisit(x, e))
      /\ DirectRead(s, e) =
                [active |-> s.active, other |-> s.other,
                 reads |-> IF e.long /\ ~v.counted
                           THEN s.reads \cup {e} ELSE s.reads,
                 direct |-> (s.direct \ Own(s, e))
                            \cup (IF e.destroy THEN {} ELSE {VisitAfter(s, e)})]
    BY DirectReadFacts
<1>3. \A x : x \in Own(s, e) <=> x \in s.direct /\ Visitor(x, e)
    BY DEF Own, Visitor
<1>4. Visitor(v, e)
    BY <1>2, <1>3 DEF Fresh, Visitor
<1>5. VisitAfter(s, e) = [v EXCEPT !.last = e.occurred,
                       !.viewed = @ \/ e.type = "view",
                       !.longest = IF e.dwell > @ THEN e.dwell ELSE @,
                       !.counted = @ \/ e.long]
    BY DEF VisitAfter
<1>6. v = Fresh(e) => ~v.counted /\ v.longest = 0
    BY DEF Fresh
<1> HIDE DEF v
<1>7. /\ Visitor(VisitAfter(s, e), e) /\ VisitAfter(s, e).last = e.occurred
      /\ VisitAfter(s, e).counted = (v.counted \/ e.long)
      /\ VisitAfter(s, e).longest = IF e.dwell > v.longest THEN e.dwell ELSE v.longest
      /\ v.longest \in Int
    BY <1>2, <1>4, <1>5 DEF Visits, Visitor
<1>8. /\ ReplayStep(s, e).reads = IF e.long /\ ~v.counted THEN s.reads \cup {e} ELSE s.reads
      /\ ReplayStep(s, e).direct = (s.direct \ Own(s, e))
                            \cup (IF e.destroy THEN {} ELSE {VisitAfter(s, e)})
    BY <1>1, <1>2
<1>9. \A x : x \in ReplayStep(s, e).direct <=>
               \/ x \in s.direct /\ ~Visitor(x, e)
               \/ ~e.destroy /\ x = VisitAfter(s, e)
    BY <1>3, <1>8
<1>10. \/ v \in s.direct /\ Visitor(v, e) /\ SameVisit(v, e)
       \/ /\ ~v.counted /\ v.longest = 0
          /\ \A x \in s.direct : Visitor(x, e) => ~SameVisit(x, e)
    BY <1>2, <1>3, <1>6
<1> QED
    BY <1>7, <1>8, <1>9, <1>10 DEF v

\* A read that begins a new visit although one was under way tells that the
\* reader left.
LEMMA NewVisitBreaks ==
    ASSUME LogInv, NEW s \in Replays, NEW e \in log, NEW P,
           P = {f \in log : ReplayedBefore(f, e)}, Direct(e), LastKnown(s, P),
           NEW v \in s.direct, Visitor(v, e), ~SameVisit(v, e),
           NEW c \in P, Direct(c), Together(c, e),
           NEW k \in Track(P, c), v.longest <= k.dwell
    PROVE  Broken(Track(P, c) \cup {e})
<1> DEFINE T == Track(P, c)
<1>1. PICK l \in P :
        /\ Direct(l) /\ Visitor(v, l) /\ v.last = l.occurred /\ ~l.destroy
        /\ \A g \in P : Direct(g) /\ Together(g, l) => g = l \/ ReplayedBefore(g, l)
    BY DEF LastKnown
<1>2. Together(l, c) /\ Together(c, l)
    BY <1>1 DEF Visitor, Together
<1>3. l \in T
    BY <1>1, <1>2 DEF Track
<1>4. \A g \in T : /\ g \in log /\ ReplayedBefore(g, e)
                   /\ ~ReplayedBefore(e, g) /\ g # e
    BY TrackGrows
<1>5. \A g \in T : g = l \/ ReplayedBefore(g, l)
    <2> TAKE g \in T
    <2>1. g \in P /\ Direct(g) /\ Together(g, l)
        BY <1>2 DEF Track, Together
    <2> QED
        BY <1>1, <2>1
<1> HIDE DEF T
<1>6. ~ \E g \in T \cup {e} : ReplayedBefore(l, g) /\ ReplayedBefore(g, e)
    BY <1>3, <1>4, <1>5, ReplayIsOrder
<1>7. \/ e.occurred - l.occurred > VisitGap \/ e.type = "view"
      \/ (e.dwell >= 0 /\ e.dwell < v.longest)
    <2>1. \/ ~(e.occurred - v.last <= VisitGap)
          \/ e.type = "view" \/ (e.dwell >= 0 /\ e.dwell < v.longest)
        BY DEF SameVisit
    <2>2. e.occurred \in Nat /\ l.occurred \in Nat /\ VisitGap \in Nat
        BY <1>3, <1>4, ReplayAssumption DEF LogInv
    <2> QED
        BY <1>1, <2>1, <2>2
<1>8. e.dwell >= 0 /\ e.dwell < v.longest => e.dwell < k.dwell /\ ReplayedBefore(k, e)
    <2>1. e.dwell \in Int /\ k.dwell \in Int /\ v.longest \in Int
        BY <1>4 DEF LogInv, Replays, Visits, T
    <2> QED
        BY <1>4, <2>1 DEF T
<1>9. k \in T
    BY DEF T
<1>10. \/ e.occurred - l.occurred > VisitGap
       \/ l.destroy \/ e.type = "view"
       \/ \E m \in T \cup {e} : e.dwell >= 0 /\ e.dwell < m.dwell /\ ReplayedBefore(m, e)
    BY <1>7, <1>8, <1>9
<1>11. l \in T \cup {e} /\ e \in T \cup {e} /\ ReplayedBefore(l, e)
    BY <1>3, <1>4
<1>12. Broken(T \cup {e})
    BY ONLY <1>6, <1>10, <1>11 DEF Broken
<1> QED
    BY <1>12 DEF T

\* A read that joins a visit follows the last of those who stayed.
LEMMA StaysOn ==
    ASSUME LogInv, NEW s \in Replays, NEW e \in log, NEW P,
           P = {f \in log : ReplayedBefore(f, e)}, Direct(e), LastKnown(s, P),
           NEW v \in s.direct, Visitor(v, e), SameVisit(v, e),
           NEW c \in P, Direct(c), Together(c, e), Stayed(Track(P, c))
    PROVE  /\ ~e.destroy => Stayed(Track(P, c) \cup {e})
           /\ ~Paused(Track(P, c) \cup {e}, e)
<1> DEFINE T == Track(P, c)
<1>1. PICK l \in P :
        /\ Direct(l) /\ Visitor(v, l) /\ v.last = l.occurred /\ ~l.destroy
        /\ \A g \in P : Direct(g) /\ Together(g, l) => g = l \/ ReplayedBefore(g, l)
    BY DEF LastKnown
<1>2. Together(l, c) /\ Together(c, l)
    BY <1>1 DEF Visitor, Together
<1>3. l \in T
    BY <1>1, <1>2 DEF Track
<1>4. \A g \in T : /\ g \in log /\ ReplayedBefore(g, e)
                   /\ ~ReplayedBefore(e, g) /\ g # e
    BY TrackGrows
<1>5. \A g \in T : g = l \/ ReplayedBefore(g, l)
    <2> TAKE g \in T
    <2>1. g \in P /\ Direct(g) /\ Together(g, l)
        BY <1>2 DEF Track, Together
    <2> QED
        BY <1>1, <2>1
<1>6. e.occurred - l.occurred <= VisitGap
    BY <1>1 DEF SameVisit
<1>7. \A g \in T : ~g.destroy /\ \E h \in T \cup {e} : /\ ReplayedBefore(g, h)
                                                       /\ h.occurred - g.occurred <= VisitGap
    <2> TAKE g \in T
    <2>1. ~g.destroy /\ (\/ \A h \in T : ~ReplayedBefore(g, h)
                         \/ \E h \in T : /\ ReplayedBefore(g, h)
                                         /\ h.occurred - g.occurred <= VisitGap)
        BY DEF Stayed
    <2>2. CASE g = l
        BY <1>4, <1>6, <2>1, <2>2
    <2>3. CASE g # l
        <3>1. ReplayedBefore(g, l)
            BY <1>5, <2>3
        <3> QED
            BY <1>3, <2>1, <3>1
    <2> QED
        BY <2>2, <2>3
<1> HIDE DEF T
<1>8. \A h \in T \cup {e} : ~ReplayedBefore(e, h)
    BY <1>4, ReplayIsOrder
<1>9. ~e.destroy => Stayed(T \cup {e})
    BY <1>7, <1>8 DEF Stayed
<1>10. ~Paused(T \cup {e}, e)
    <2> SUFFICES ASSUME NEW g \in T,
                        g.destroy \/ \A h \in T \cup {e} : ReplayedBefore(g, h) =>
                                       h.occurred - g.occurred > VisitGap
                 PROVE  FALSE
        BY DEF Paused
    <2>1. PICK h \in T \cup {e} : ReplayedBefore(g, h)
                                  /\ h.occurred - g.occurred <= VisitGap
        BY <1>7
    <2>2. h.occurred \in Nat /\ g.occurred \in Nat /\ VisitGap \in Nat
        BY <1>4, ReplayAssumption DEF LogInv
    <2>3. h.occurred - g.occurred > VisitGap
        BY <1>7, <2>1
    <2> QED
        BY <2>1, <2>2, <2>3
<1> QED
    BY <1>9, <1>10 DEF T

\* A direct read keeps what is known of the visits.
LEMMA DirectEventKeeps ==
    ASSUME LogInv, NEW s \in Replays, NEW e \in log, NEW P,
           P = {f \in log : ReplayedBefore(f, e)}, Direct(e), VisitsOK(s, P)
    PROVE  VisitsOK(ReplayStep(s, e), P \cup {e})
<1> DEFINE t == ReplayStep(s, e)
           v == VisitOf(s, e)
           w == VisitAfter(s, e)
           Q == P \cup {e}
           joined == v \in s.direct /\ Visitor(v, e) /\ SameVisit(v, e)
           fresh == /\ ~v.counted /\ v.longest = 0
                    /\ \A x \in s.direct : Visitor(x, e) => ~SameVisit(x, e)
<1>1. /\ OneVisit(s) /\ LastKnown(s, P) /\ ShortUncounted(s) /\ CountedStayed(s, P)
      /\ OpenOrLeft(s, P) /\ ReadsLeft(s) /\ SkippedContinue(s, P)
      /\ s.reads \subseteq P
    BY DEF VisitsOK
<1>2. /\ t.reads = IF e.long /\ ~v.counted THEN s.reads \cup {e} ELSE s.reads
      /\ \A x : x \in t.direct <=> \/ x \in s.direct /\ ~Visitor(x, e)
                                   \/ ~e.destroy /\ x = w
      /\ Visitor(w, e) /\ w.last = e.occurred
      /\ w.counted = (v.counted \/ e.long)
      /\ w.longest = IF e.dwell > v.longest THEN e.dwell ELSE v.longest
      /\ v.longest \in Int
      /\ joined \/ fresh
    BY <1>1, DirectEvent
<1> HIDE DEF t, v, w
<1>3. /\ e.dwell \in Int /\ e.occurred \in Nat /\ LongRead \in Nat /\ LongRead > 0
      /\ e.long = (e.dwell >= LongRead) /\ e.destroy \in BOOLEAN
    BY ReplayAssumption DEF LogInv
<1>4. \A f \in P : /\ f \in log /\ ReplayedBefore(f, e) /\ ~ReplayedBefore(e, f) /\ f # e
    BY ReplayIsOrder
<1>5. ~ReplayedBefore(e, e) /\ e \notin P
    BY ReplayIsOrder
<1>6. \A c \in P : Direct(c) /\ Together(c, e) =>
        /\ Track(Q, c) = Track(P, c) \cup {e}
        /\ Between(c, e) = Track(P, c) \cup {e}
        /\ \A g \in Track(P, c) : /\ g \in log /\ ReplayedBefore(g, e)
                                  /\ ~ReplayedBefore(e, g) /\ g # e
        /\ c \in Track(P, c)
    <2> TAKE c \in P
    <2> HAVE Direct(c) /\ Together(c, e)
    <2> QED
        BY TrackGrows DEF Q
<1>7. \A c : ~Together(c, e) => Track(Q, c) = Track(P, c)
    BY TrackKept
<1>8. Track(Q, e) = {e}
    BY <1>4 DEF Track, Together
<1>9. \A x, c : Visitor(x, c) => (Visitor(x, e) <=> Together(c, e))
    BY DEF Visitor, Together
<1> HIDE DEF Q
<1>10. OneVisit(t)
    BY <1>1, <1>2 DEF OneVisit, Visitor
<1>11. LastKnown(t, Q)
    <2> SUFFICES ASSUME NEW x \in t.direct
                 PROVE  \E l \in Q :
                          /\ Direct(l) /\ Visitor(x, l) /\ x.last = l.occurred /\ ~l.destroy
                          /\ \A g \in Q : Direct(g) /\ Together(g, l) =>
                               g = l \/ ReplayedBefore(g, l)
        BY DEF LastKnown
    <2>1. CASE x \in s.direct /\ ~Visitor(x, e)
        <3>1. PICK l \in P :
                /\ Direct(l) /\ Visitor(x, l) /\ x.last = l.occurred /\ ~l.destroy
                /\ \A g \in P : Direct(g) /\ Together(g, l) =>
                     g = l \/ ReplayedBefore(g, l)
            BY <1>1, <2>1 DEF LastKnown
        <3>2. ~Together(e, l)
            BY <2>1, <3>1 DEF Visitor, Together
        <3> QED
            BY <3>1, <3>2 DEF Q
    <2>2. CASE ~e.destroy /\ x = w
        <3>1. \A g \in Q : g = e \/ ReplayedBefore(g, e)
            BY <1>4 DEF Q
        <3> QED
            BY <1>2, <2>2, <3>1 DEF Q
    <2> QED
        BY <1>2, <2>1, <2>2
<1>12. joined /\ ~v.counted => v.longest < LongRead
    BY <1>1 DEF ShortUncounted
<1>13. ~v.counted => v.longest < LongRead
    BY <1>2, <1>3, <1>12
<1>14. ShortUncounted(t)
    <2>1. w.counted \/ w.longest < LongRead
        <3> SUFFICES ASSUME ~w.counted PROVE w.longest < LongRead
            OBVIOUS
        <3>1. ~v.counted /\ ~e.long
            BY <1>2
        <3>2. ~(e.dwell >= LongRead) /\ v.longest < LongRead
            BY <1>3, <1>13, <3>1
        <3>3. w.longest \in {e.dwell, v.longest}
            BY <1>2
        <3> QED
            BY <1>2, <1>3, <3>2, <3>3
    <2> QED
        BY <1>1, <1>2, <2>1 DEF ShortUncounted
<1>15. v.counted => joined /\ \E c \in s.reads : /\ Direct(c) /\ Together(c, e)
                                                 /\ Stayed(Track(P, c))
    BY <1>1, <1>2, <1>9 DEF CountedStayed
<1>16. CountedStayed(t, Q)
    <2> SUFFICES ASSUME NEW x \in t.direct, x.counted
                 PROVE  \E c \in t.reads : Direct(c) /\ Visitor(x, c) /\ Stayed(Track(Q, c))
        BY DEF CountedStayed
    <2>1. CASE x \in s.direct /\ ~Visitor(x, e)
        <3>1. PICK c \in s.reads : Direct(c) /\ Visitor(x, c) /\ Stayed(Track(P, c))
            BY <1>1, <2>1 DEF CountedStayed
        <3>2. Track(Q, c) = Track(P, c)
            BY <1>7, <1>9, <2>1, <3>1
        <3> QED
            BY <1>2, <3>1, <3>2
    <2>2. CASE ~e.destroy /\ x = w /\ v.counted
        <3>1. PICK c \in s.reads : Direct(c) /\ Together(c, e) /\ Stayed(Track(P, c))
            BY <1>15, <2>2
        <3>2. joined /\ c \in P
            BY <1>1, <1>15, <2>2
        <3>3. Stayed(Track(P, c) \cup {e})
            BY <1>1, <2>2, <3>1, <3>2, StaysOn
        <3>4. Stayed(Track(Q, c))
            BY <1>6, <3>1, <3>2, <3>3
        <3>5. c \in t.reads /\ Visitor(x, c)
            BY <1>2, <2>2, <3>1 DEF Visitor, Together
        <3> QED
            BY <3>1, <3>4, <3>5
    <2>3. CASE ~e.destroy /\ x = w /\ ~v.counted
        <3>1. e \in t.reads /\ Visitor(x, e)
            BY <1>2, <2>3
        <3>2. Stayed(Track(Q, e))
            BY <1>5, <1>8, <2>3 DEF Stayed
        <3> QED
            BY <3>1, <3>2
    <2> QED
        BY <1>2, <2>1, <2>2, <2>3
<1>17. ASSUME NEW c \in s.reads, Direct(c), Together(c, e), ~v.counted \/ ~joined
       PROVE  Broken(Track(P, c) \cup {e})
    <2>1. c \in P
        BY <1>1
    <2>2. CASE Broken(Track(P, c)) \/ Closed(Track(P, c))
        <3>1. \A g \in Track(P, c) : /\ g \in log /\ ReplayedBefore(g, e)
                                     /\ ~ReplayedBefore(e, g) /\ g # e
            BY <1>6, <1>17, <2>1
        <3> QED
            BY <2>2, <3>1, LeftForGood
    <2>3. ASSUME NEW x \in s.direct, Visitor(x, c), x.counted,
                 NEW k \in Track(P, c), x.longest <= k.dwell
          PROVE  Broken(Track(P, c) \cup {e})
        <3>1. Visitor(x, e)
            BY <1>9, <1>17, <2>3
        <3>2. ~joined
            <4> SUFFICES ASSUME joined PROVE FALSE
                OBVIOUS
            <4>1. x = v
                BY <1>1, <3>1 DEF OneVisit, Visitor
            <4> QED
                BY <1>17, <2>3, <4>1
        <3>3. ~SameVisit(x, e)
            BY <1>2, <3>1, <3>2
        <3> QED
            BY <1>1, <1>17, <2>1, <2>3, <3>1, <3>3, NewVisitBreaks
    <2> QED
        BY <1>1, <1>17, <2>2, <2>3 DEF OpenOrLeft
<1>18. OpenOrLeft(t, Q)
    <2> SUFFICES ASSUME NEW c \in t.reads, Direct(c), ~Broken(Track(Q, c)), ~Closed(Track(Q, c))
                 PROVE  \E x \in t.direct : /\ Visitor(x, c) /\ x.counted
                                            /\ \E k \in Track(Q, c) : x.longest <= k.dwell
        BY DEF OpenOrLeft
    <2>1. CASE c \in s.reads /\ ~Together(c, e)
        <3>1. Track(Q, c) = Track(P, c)
            BY <1>7, <2>1
        <3>2. PICK x \in s.direct : /\ Visitor(x, c) /\ x.counted
                                    /\ \E k \in Track(P, c) : x.longest <= k.dwell
            BY <1>1, <2>1, <3>1 DEF OpenOrLeft
        <3>3. x \in t.direct
            BY <1>2, <1>9, <2>1, <3>2
        <3> QED
            BY <3>1, <3>2, <3>3
    <2>2. CASE c \in s.reads /\ Together(c, e)
        <3>1. c \in P /\ Track(Q, c) = Track(P, c) \cup {e}
            BY <1>1, <1>6, <2>2
        <3>2. v.counted /\ joined
            BY <1>17, <2>2, <3>1
        <3>3. \A g \in Track(P, c) : /\ g \in log /\ ReplayedBefore(g, e)
                                     /\ ~ReplayedBefore(e, g) /\ g # e
            BY <1>6, <2>2, <3>1
        <3>4. ~Broken(Track(P, c)) /\ ~Closed(Track(P, c))
            BY <3>1, <3>3, LeftForGood
        <3>5. PICK x \in s.direct : /\ Visitor(x, c) /\ x.counted
                                    /\ \E k \in Track(P, c) : x.longest <= k.dwell
            BY <1>1, <2>2, <3>4 DEF OpenOrLeft
        <3>6. x = v
            BY <1>1, <1>9, <2>2, <3>2, <3>5 DEF OneVisit, Visitor
        <3>7. ~e.destroy
            <4> SUFFICES ASSUME e.destroy PROVE FALSE
                BY <1>3
            <4>1. \A h \in Track(Q, c) : h = e \/ ReplayedBefore(h, e)
                BY <3>1, <3>3
            <4> QED
                BY <3>1, <4>1 DEF Closed
        <3>8. w \in t.direct /\ w.counted /\ Visitor(w, c)
            BY <1>2, <2>2, <3>2, <3>7 DEF Visitor, Together
        <3>9. PICK k \in Track(P, c) : v.longest <= k.dwell
            BY <3>5, <3>6
        <3>10. \E m \in Track(Q, c) : w.longest <= m.dwell
            BY <1>2, <1>3, <3>1, <3>9
        <3> QED
            BY <3>8, <3>10
    <2>3. CASE c = e /\ e.long /\ ~v.counted
        <3>1. ~e.destroy
            BY <1>3, <1>8, <2>3 DEF Closed
        <3>2. w \in t.direct /\ w.counted /\ Visitor(w, c)
            BY <1>2, <2>3, <3>1
        <3>3. w.longest <= e.dwell
            <4>1. e.dwell >= LongRead /\ v.longest < LongRead
                BY <1>3, <1>13, <2>3
            <4>2. w.longest = IF e.dwell > v.longest THEN e.dwell ELSE v.longest
                BY <1>2
            <4>3. e.dwell > v.longest
                BY <1>2, <1>3, <4>1
            <4> QED
                BY <1>3, <4>2, <4>3
        <3> QED
            BY <1>8, <2>3, <3>2, <3>3
    <2> QED
        BY <1>2, <2>1, <2>2, <2>3
<1>19. ReadsLeft(t)
    <2> SUFFICES ASSUME NEW c \in t.reads, NEW f \in t.reads, Direct(c), Direct(f),
                        Together(c, f), ReplayedBefore(c, f)
                 PROVE  Left(c, f)
        BY DEF ReadsLeft
    <2>1. CASE c \in s.reads /\ f \in s.reads
        BY <1>1, <2>1 DEF ReadsLeft
    <2>2. CASE c \in s.reads /\ f = e /\ ~v.counted
        <3>1. Broken(Track(P, c) \cup {e})
            BY <1>17, <2>2
        <3>2. Between(c, e) = Track(P, c) \cup {e}
            BY <1>1, <1>6, <2>2
        <3>3. Broken(Between(c, e))
            BY <3>1, <3>2
        <3> QED
            BY <2>2, <3>3 DEF Left, Broken
    <2>3. CASE c = e
        BY <1>1, <1>2, <1>4, <1>5, <2>3
    <2> QED
        BY <1>2, <2>1, <2>2, <2>3
<1>20. SkippedContinue(t, Q)
    <2> SUFFICES ASSUME NEW f \in Q, Direct(f), f.long, f \notin t.reads
                 PROVE  Continues(t, f)
        BY DEF SkippedContinue
    <2>1. s.reads \subseteq t.reads
        BY <1>2
    <2>2. CASE f \in P
        BY <1>1, <2>1, <2>2 DEF SkippedContinue, Continues
    <2>3. CASE f = e
        <3>1. v.counted
            BY <1>2, <2>3
        <3>2. PICK c \in s.reads : Direct(c) /\ Together(c, e) /\ Stayed(Track(P, c))
            BY <1>15, <3>1
        <3>3. joined /\ c \in P
            BY <1>1, <1>15, <3>1
        <3>4. ~Paused(Track(P, c) \cup {e}, e)
            BY <1>1, <3>2, <3>3, StaysOn
        <3>5. ~Paused(Between(c, e), e)
            BY <1>6, <3>2, <3>3, <3>4
        <3> QED
            BY <1>4, <2>1, <2>3, <3>2, <3>3, <3>5 DEF Continues
    <2> QED
        BY <2>2, <2>3 DEF Q
<1>21. t.reads \subseteq Q
    BY <1>1, <1>2 DEF Q
<1> QED
    BY <1>10, <1>11, <1>14, <1>16, <1>18, <1>19, <1>20, <1>21 DEF VisitsOK, t, Q

\* After the last event.
LEMMA VisitsAtEnd == LogInv => VisitsOK(Contributions(log), log)
<1> SUFFICES ASSUME LogInv PROVE VisitsOK(Contributions(log), log)
    OBVIOUS
<1> DEFINE sorted == InOrder(log, ReplayedBefore)
           last == Cardinality(log)
<1>1. /\ last \in Nat /\ Upto(sorted, 0) = {} /\ Upto(sorted, last) = log
      /\ \A i \in 1..last :
           /\ sorted[i] \in log \ Upto(sorted, i - 1)
           /\ Upto(sorted, i) = Upto(sorted, i - 1) \cup {sorted[i]}
           /\ Upto(sorted, i - 1) = {e \in log : ReplayedBefore(e, sorted[i])}
    BY ReplayOrder
<1>2. PICK after : /\ after[0] = NoReplay /\ after[last] = Contributions(log)
                   /\ \A n \in 0..last : after[n] \in Replays
                   /\ \A n \in 1..last : after[n] = ReplayStep(after[n - 1], sorted[n])
    BY Replayed
<1> HIDE DEF sorted, last
<1> DEFINE good == {n \in 0..last : VisitsOK(after[n], Upto(sorted, n))}
<1>3. 0 \in good
    <2>1. VisitsOK(NoReplay, {})
        BY DEF VisitsOK, NoReplay, OneVisit, LastKnown, ShortUncounted, CountedStayed,
               OpenOrLeft, ReadsLeft, SkippedContinue
    <2> QED
        BY <1>1, <1>2, <2>1
<1>4. \A n \in 1..last : n - 1 \in good => n \in good
    <2> TAKE n \in 1..last
    <2> HAVE n - 1 \in good
    <2>1. n - 1 \in 0..last /\ n \in 0..last /\ after[n - 1] \in Replays
        BY <1>1, <1>2
    <2>2. /\ sorted[n] \in log
          /\ Upto(sorted, n - 1) = {e \in log : ReplayedBefore(e, sorted[n])}
          /\ Upto(sorted, n - 1) \subseteq log
          /\ VisitsOK(after[n - 1], Upto(sorted, n - 1))
        BY <1>1
    <2>3. VisitsOK(ReplayStep(after[n - 1], sorted[n]), Upto(sorted, n - 1) \cup {sorted[n]})
        <3>1. CASE Direct(sorted[n])
            BY <2>1, <2>2, <3>1, DirectEventKeeps
        <3>2. CASE ~Direct(sorted[n])
            BY <2>1, <2>2, <3>2, OtherEventKeeps
        <3> QED
            BY <3>1, <3>2
    <2> QED
        BY <1>1, <1>2, <2>1, <2>3
<1> HIDE DEF good
<1>5. last \in good
    BY <1>1, <1>3, <1>4, Induction
<1> QED
    BY <1>1, <1>2, <1>5 DEF good

\* From what the replay has made of the visits.
LEMMA VisitsAreReads == LogInv => VisitsCountedOnce
<1> SUFFICES ASSUME LogInv PROVE VisitsCountedOnce
    OBVIOUS
<1> DEFINE reads == Contributions(log).reads
           direct == {e \in log : /\ e.type \in {"view", "dwell"} /\ e.long
                                  /\ e.impression = None /\ e.visit = None
                                  /\ e.session # None}
           pairs == {p \in direct \X direct :
                       /\ p[1].session = p[2].session /\ p[1].post = p[2].post
                       /\ ReplayedBefore(p[1], p[2])}
           paused(e, f) == \E g \in Between(e, f) \ {f} :
                             \/ g.destroy
                             \/ \A h \in Between(e, f) : ReplayedBefore(g, h) =>
                                  h.occurred - g.occurred > VisitGap
<1>1. VectorOK(Contributions(log), log) /\ VisitsOK(Contributions(log), log)
    BY VectorAtEnd, VisitsAtEnd
<1>2. \A e, f \in reads :
            /\ e.impression = None /\ f.impression = None
            /\ e.visit # None /\ e.visit = f.visit
            /\ e.session = f.session /\ e.post = f.post
            => e = f
    BY <1>1 DEF VectorOK
<1>3. ReadsLeft(Contributions(log)) /\ SkippedContinue(Contributions(log), log)
    BY <1>1 DEF VisitsOK
<1>4. \A f \in reads : f \in log /\ f.type \in {"view", "dwell"} /\ f.long
    BY <1>1 DEF VectorOK
<1>5. \A p \in pairs : p[1] \in reads /\ p[2] \in reads => Left(p[1], p[2])
    <2> TAKE p \in pairs
    <2>1. /\ p[1] \in direct /\ p[2] \in direct
          /\ Together(p[1], p[2]) /\ ReplayedBefore(p[1], p[2])
        BY DEF Together
    <2>2. Direct(p[1]) /\ Direct(p[2])
        BY <2>1 DEF Direct
    <2> QED
        BY <1>3, <2>1, <2>2 DEF ReadsLeft
<1>6. \A f \in direct \ reads :
            \E p \in pairs : /\ p[2] = f /\ p[1] \in reads
                             /\ ~ paused(p[1], f)
    <2> TAKE f \in direct \ reads
    <2>1. Direct(f) /\ f.long /\ f \in log
        BY DEF Direct
    <2>2. Continues(Contributions(log), f)
        BY <1>3, <2>1 DEF SkippedContinue
    <2>3. PICK c \in reads : /\ Direct(c) /\ Together(c, f) /\ ReplayedBefore(c, f)
                             /\ ~Paused(Between(c, f), f)
        BY <2>2 DEF Continues
    <2>4. c \in direct
        BY <1>4, <2>3 DEF Direct
    <2> DEFINE p == <<c, f>>
    <2>5. p \in pairs /\ p[1] = c /\ p[2] = f
        BY <2>3, <2>4 DEF Together
    <2>6. ~paused(c, f)
        BY <2>3 DEF Paused
    <2> HIDE DEF p, pairs
    <2> QED
        BY <2>3, <2>5, <2>6
<1> QED
    BY ONLY <1>2, <1>5, <1>6 DEF VisitsCountedOnce

\* A visit counts as one read, and a read is left out only if it continues one
\* that is counted, for histories of any length and any events.
THEOREM ReplayVisitsCountedOnce == ReplaySpec => []VisitsCountedOnce
BY VisitsAreReads, ReplayInvariant, PTL
=============================================================================
