---------------------- MODULE FeatureStoreWorkerProofs ----------------------
(***************************************************************************)
(* Proofs about the feature-store worker, for any number of workers,       *)
(* partitions, users and events, any batch size and any number of faults.  *)
(***************************************************************************)
EXTENDS FeatureStoreWorker, FiniteSetTheorems, TLAPS

-----------------------------------------------------------------------------
(* The operators on bags.                                                  *)

\* Bags are closed under the operations of the module.
LEMMA BagOps ==
    /\ EmptyBag \in Bag
    /\ \A b, c \in Bag : Plus(b, c) \in Bag
    /\ \A b \in Bag : \A S : Part(b, S) \in Bag
    /\ \A S : Once(S) \in Bag
  BY DEF EmptyBag, Bag, Plus, Part, Once

\* The events a bag holds, after each operation.
LEMMA SupportOps ==
    /\ Support(EmptyBag) = {}
    /\ \A b, c \in Bag : Support(Plus(b, c)) = Support(b) \cup Support(c)
    /\ \A b \in Bag : \A S : Support(Part(b, S)) = Support(b) \cap S
  BY DEF EmptyBag, Bag, Plus, Part, Support

\* Fetched records are a bag that holds exactly the events in the records.
LEMMA FetchedLemma ==
    ASSUME TypeOK, NEW p \in Partitions, NEW n \in Nat
    PROVE  /\ Fetched(p, n) \in Bag
           /\ \A i \in (position[p] + 1)..(position[p] + n) :
                 log[p][i] \in Events => log[p][i] \in Support(Fetched(p, n))
<1> DEFINE R == (position[p] + 1)..(position[p] + n)
           At(e) == {i \in R : log[p][i] = e}
<1>1. position[p] \in Nat
  BY DEF TypeOK
<1>2. IsFiniteSet(R)
  BY <1>1, FS_Interval
<1>3. \A e : IsFiniteSet(At(e)) /\ Cardinality(At(e)) \in Nat
  BY <1>2, FS_Subset, FS_CardinalityType
<1>4. Fetched(p, n) = [e \in Events |-> Cardinality(At(e))]
  BY DEF Fetched
<1>5. Fetched(p, n) \in Bag
  BY <1>3, <1>4 DEF Bag
<1>6. ASSUME NEW i \in R, log[p][i] \in Events
      PROVE  log[p][i] \in Support(Fetched(p, n))
  <2>1. At(log[p][i]) # {}
    BY <1>6
  <2> DEFINE c == Cardinality(At(log[p][i]))
  <2>2. c \in Nat /\ c # 0
    BY <1>3, <2>1, FS_EmptySet
  <2>3. Fetched(p, n)[log[p][i]] = c
    BY <1>4, <1>6
  <2> HIDE DEF c
  <2> QED
    BY <1>6, <2>2, <2>3 DEF Support
<1> QED
  BY <1>5, <1>6

-----------------------------------------------------------------------------
(* Type correctness.                                                       *)

\* The type of the record of a transaction.
LEMMA NoTxType ==
    NoTx \in [user : Users \cup {NoUser}, claimed : SUBSET Events,
              vec : Bag, rows : SUBSET Events]
  BY BagOps DEF NoTx

\* The worker starts in a state of the right type.
LEMMA InitType == Init => TypeOK
  BY BagOps, NoTxType, WorkerAssumption DEF Init, TypeOK, Steps

\* The start of a flush sets the worker's variables to values of their type.
LEMMA BeginFlushType ==
    ASSUME TypeOK, NEW w \in Workers, NEW b \in Bag, BeginFlush(w, b)
    PROVE  /\ buffer' \in [Workers -> Bag] /\ work' \in [Workers -> Bag]
           /\ failed' \in [Workers -> Bag]
           /\ applied' \in [Workers -> SUBSET Events]
           /\ tx' \in [Workers -> [user : Users \cup {NoUser}, claimed : SUBSET Events,
                                   vec : Bag, rows : SUBSET Events]]
           /\ wpc' \in [Workers -> Steps]
  BY BagOps, NoTxType DEF BeginFlush, TypeOK, Steps

\* So does the restart of a process.
LEMMA RestartedType ==
    ASSUME TypeOK, NEW w \in Workers, Restarted(w),
           committed' \in [Partitions -> Nat]
    PROVE  /\ buffer' \in [Workers -> Bag] /\ work' \in [Workers -> Bag]
           /\ failed' \in [Workers -> Bag]
           /\ applied' \in [Workers -> SUBSET Events]
           /\ tx' \in [Workers -> [user : Users \cup {NoUser}, claimed : SUBSET Events,
                                   vec : Bag, rows : SUBSET Events]]
           /\ wpc' \in [Workers -> Steps]
           /\ stopping' \in [Workers -> BOOLEAN]
           /\ position' \in [Partitions -> Nat]
  BY BagOps, NoTxType DEF Restarted, Resume, TypeOK, Steps

\* So do NextUser and FailUser.
LEMMA NextUserType ==
    ASSUME TypeOK, NEW w \in Workers, NEW u, NextUser(w, u)
    PROVE  /\ work' \in [Workers -> Bag]
           /\ tx' \in [Workers -> [user : Users \cup {NoUser}, claimed : SUBSET Events,
                                   vec : Bag, rows : SUBSET Events]]
           /\ wpc' \in [Workers -> Steps]
<1>1. Part(work[w], {e \in Events : UserOf[e] # u}) \in Bag
  BY BagOps DEF TypeOK
<1> QED
  BY <1>1, NoTxType DEF NextUser, TypeOK, Steps

\* Every step of Next keeps the types.
LEMMA NextType == TypeOK /\ [Next]_vars => TypeOK'
<1> SUFFICES ASSUME TypeOK, [Next]_vars PROVE TypeOK'
  OBVIOUS
<1> DEFINE Tx == [user : Users \cup {NoUser}, claimed : SUBSET Events,
                  vec : Bag, rows : SUBSET Events]
<1>1. ASSUME NEW e \in Events, RecordBehavior(e) PROVE TypeOK'
  BY <1>1 DEF RecordBehavior, workerVars, TypeOK
<1>2. ASSUME NEW e \in Events, Publish(e) PROVE TypeOK'
  <2>1. log' \in [Partitions -> Seq(Events)]
    BY <1>2, WorkerAssumption DEF Publish, TypeOK
  <2> QED
    BY <1>2, <2>1 DEF Publish, workerVars, TypeOK
<1>3. ASSUME NEW w \in Workers, Poll(w) PROVE TypeOK'
  <2>1. PICK p \in Partitions, n \in 0..BatchSize :
           /\ position' = [position EXCEPT ![p] = @ + n]
           /\ \/ /\ buffer' = [buffer EXCEPT ![w] = Plus(buffer[w], Fetched(p, n))]
                 /\ UNCHANGED <<wpc, work, failed, applied, tx>>
              \/ BeginFlush(w, Plus(buffer[w], Fetched(p, n)))
    BY <1>3 DEF Poll
  <2>2. n \in Nat
    BY WorkerAssumption
  <2>3. position' \in [Partitions -> Nat]
    BY <2>1, <2>2 DEF TypeOK
  <2>4. buffer[w] \in Bag /\ Fetched(p, n) \in Bag
    BY <2>2, FetchedLemma DEF TypeOK
  <2>5. PICK b \in Bag : b = Plus(buffer[w], Fetched(p, n))
    BY <2>4, BagOps
  <2>6. /\ buffer' \in [Workers -> Bag] /\ work' \in [Workers -> Bag]
        /\ failed' \in [Workers -> Bag] /\ applied' \in [Workers -> SUBSET Events]
        /\ tx' \in [Workers -> Tx] /\ wpc' \in [Workers -> Steps]
    <3>1. CASE BeginFlush(w, b)
      BY <3>1, BeginFlushType
    <3>2. CASE /\ buffer' = [buffer EXCEPT ![w] = b]
               /\ UNCHANGED <<wpc, work, failed, applied, tx>>
      BY <3>2 DEF TypeOK
    <3> QED
      BY <2>1, <2>5, <3>1, <3>2
  <2> QED
    BY <1>3, <2>3, <2>6 DEF Poll, TypeOK
<1>4. ASSUME NEW w \in Workers, NEW u \in Users, ClaimReceipts(w, u) PROVE TypeOK'
  <2>1. tx' \in [Workers -> Tx]
    BY <1>4 DEF ClaimReceipts, NewEvents, Support, TypeOK
  <2> QED
    BY <1>4, <2>1 DEF ClaimReceipts, TypeOK, Steps
<1>5. ASSUME NEW w \in Workers, wpc[w] = "claimed", SaveFeatures(w)
      PROVE  receipts' \subseteq Events /\ v1' \in [Users -> Bag] /\ v2' \in [Users -> SUBSET Events]
  <2>1. NewVector(w) \in Bag /\ tx[w].rows \subseteq Events /\ tx[w].claimed \subseteq Events
    BY BagOps DEF NewVector, TypeOK
  <2> QED
    BY <1>5, <2>1 DEF SaveFeatures, TypeOK
<1>6. ASSUME NEW w \in Workers, CommitFeatures(w) PROVE TypeOK'
  <2>1. receipts' \subseteq Events /\ v1' \in [Users -> Bag] /\ v2' \in [Users -> SUBSET Events]
    BY <1>5, <1>6 DEF CommitFeatures
  <2>2. work' \in [Workers -> Bag] /\ tx' \in [Workers -> Tx] /\ wpc' \in [Workers -> Steps]
    <3>1. CASE NextUser(w, tx[w].user)
      BY <3>1, NextUserType
    <3>2. CASE /\ tx' = [tx EXCEPT ![w].vec = NewVector(w)]
               /\ wpc' = [wpc EXCEPT ![w] = "refresh"]
               /\ UNCHANGED work
      <4>1. NewVector(w) \in Bag
        BY BagOps DEF NewVector, TypeOK
      <4> QED
        BY <3>2, <4>1 DEF TypeOK, Steps
    <3> QED
      BY <1>6, <3>1, <3>2 DEF CommitFeatures
  <2> QED
    BY <1>6, <2>1, <2>2 DEF CommitFeatures, TypeOK
<1>7. ASSUME NEW w \in Workers, NEW u, FailUser(w, u)
      PROVE  /\ work' \in [Workers -> Bag] /\ tx' \in [Workers -> Tx]
             /\ wpc' \in [Workers -> Steps] /\ failed' \in [Workers -> Bag]
             /\ wfaults' \in 0..MaxFaults
  <2>1. Plus(failed[w], UserEvents(w, u)) \in Bag
    BY BagOps DEF UserEvents, TypeOK
  <2>2. failed' \in [Workers -> Bag]
    BY <1>7, <2>1 DEF FailUser, TypeOK
  <2>3. wfaults' \in 0..MaxFaults
    BY <1>7, WorkerAssumption DEF FailUser, TypeOK
  <2> QED
    BY <1>7, <2>2, <2>3, NextUserType DEF FailUser
<1>8. ASSUME NEW w \in Workers, NEW u \in Users, ApplyFails(w, u) PROVE TypeOK'
  <2>1. receipts' \subseteq Events /\ v1' \in [Users -> Bag] /\ v2' \in [Users -> SUBSET Events]
    BY <1>5, <1>8 DEF ApplyFails, TypeOK
  <2>2. FailUser(w, u)
    BY <1>8 DEF ApplyFails
  <2> QED
    BY <1>7, <1>8, <2>1, <2>2 DEF ApplyFails, TypeOK
<1>9. ASSUME NEW w \in Workers, RefreshCache(w) PROVE TypeOK'
  <2>1. cache' \in [Users -> SUBSET Bag]
    BY <1>9 DEF RefreshCache, TypeOK
  <2>2. applied' \in [Workers -> SUBSET Events]
    BY <1>9 DEF RefreshCache, TypeOK
  <2> QED
    BY <1>9, <2>1, <2>2, NextUserType DEF RefreshCache, TypeOK
<1>10. ASSUME NEW w \in Workers, RefreshFails(w) PROVE TypeOK'
  <2>1. cache' \in [Users -> SUBSET Bag]
    <3>1. PICK c \in {cache[tx[w].user], {}, {tx[w].vec}} :
             cache' = [cache EXCEPT ![tx[w].user] = c]
      BY <1>10 DEF RefreshFails
    <3>2. tx[w].user \in Users => c \in SUBSET Bag
      BY DEF TypeOK
    <3> QED
      BY <3>1, <3>2 DEF TypeOK
  <2>2. FailUser(w, tx[w].user)
    BY <1>10 DEF RefreshFails
  <2> QED
    BY <1>7, <1>10, <2>1, <2>2 DEF RefreshFails, TypeOK
<1>11. ASSUME NEW w \in Workers, FinishFlush(w) PROVE TypeOK'
  <2>1. trending' \in Bag /\ wfaults' \in 0..MaxFaults
    BY <1>11, BagOps, WorkerAssumption DEF FinishFlush, UpdateTrending, TypeOK
  <2>2. /\ buffer' \in [Workers -> Bag] /\ work' \in [Workers -> Bag]
        /\ failed' \in [Workers -> Bag] /\ applied' \in [Workers -> SUBSET Events]
        /\ tx' \in [Workers -> Tx] /\ wpc' \in [Workers -> Steps]
        /\ stopping' \in [Workers -> BOOLEAN] /\ position' \in [Partitions -> Nat]
    <3>1. CASE failed[w] = EmptyBag
      BY <1>11, <3>1 DEF FinishFlush, TypeOK, Steps
    <3>2. CASE failed[w] # EmptyBag /\ ~stopping[w]
      <4>1. Plus(failed[w], buffer[w]) \in Bag
        BY BagOps DEF TypeOK
      <4>2. /\ wpc' = [wpc EXCEPT ![w] = "poll"]
            /\ buffer' = [buffer EXCEPT ![w] = Plus(failed[w], @)]
            /\ failed' = [failed EXCEPT ![w] = EmptyBag]
            /\ applied' = [applied EXCEPT ![w] = {}]
            /\ UNCHANGED <<position, work, tx, stopping>>
        BY <1>11, <3>2 DEF FinishFlush
      <4> QED
        BY <4>1, <4>2, BagOps DEF TypeOK, Steps
    <3>3. CASE failed[w] # EmptyBag /\ stopping[w]
      <4>1. Restarted(w) /\ committed' \in [Partitions -> Nat]
        BY <1>11, <3>3 DEF FinishFlush, TypeOK
      <4> QED
        BY <4>1, RestartedType
    <3> QED
      BY <3>1, <3>2, <3>3
  <2> QED
    BY <1>11, <2>1, <2>2 DEF FinishFlush, TypeOK
<1>12. ASSUME NEW w \in Workers, CommitOffsets(w) PROVE TypeOK'
  <2>1. committed' \in [Partitions -> Nat]
    BY <1>12 DEF CommitOffsets, CommitPositions, TypeOK
  <2>2. CASE stopping[w]
    BY <1>12, <2>1, <2>2, RestartedType DEF CommitOffsets, TypeOK
  <2>3. CASE ~stopping[w]
    BY <1>12, <2>1, <2>3 DEF CommitOffsets, TypeOK, Steps
  <2> QED
    BY <2>2, <2>3
<1>13. ASSUME NEW w \in Workers, Crash(w) PROVE TypeOK'
  <2>1. wfaults' \in 0..MaxFaults
    BY <1>13, WorkerAssumption DEF Crash, TypeOK
  <2> QED
    BY <1>13, <2>1, RestartedType DEF Crash, TypeOK
<1>14. ASSUME NEW w \in Workers, Cancel(w) PROVE TypeOK'
  <2>1. wfaults' \in 0..MaxFaults
    BY <1>14, WorkerAssumption DEF Cancel, TypeOK
  <2>2. PICK b \in Bag : b = buffer[w]
    BY DEF TypeOK
  <2> QED
    BY <1>14, <2>1, <2>2, BeginFlushType DEF Cancel, TypeOK
<1>15. ASSUME Rebalance PROVE TypeOK'
  <2>1. wfaults' \in 0..MaxFaults
    BY <1>15, WorkerAssumption DEF Rebalance, TypeOK
  <2> QED
    BY <1>15, <2>1 DEF Rebalance, TypeOK
<1>16. ASSUME NEW u \in Users, ExpireCache(u) PROVE TypeOK'
  BY <1>16 DEF ExpireCache, TypeOK
<1>17. CASE UNCHANGED vars
  BY <1>17 DEF vars, workerVars, TypeOK
<1> QED
  BY <1>1, <1>2, <1>3, <1>4, <1>6, <1>8, <1>9, <1>10, <1>11, <1>12, <1>13, <1>14,
     <1>15, <1>16, <1>17
     DEF Next, Environment, WorkerNext, Step

\* Type correctness of the worker.
THEOREM WorkerTypeCorrect == Spec => []TypeOK
  BY InitType, NextType, PTL DEF Spec

-----------------------------------------------------------------------------
(* At most once.                                                           *)
(*                                                                         *)
(* AppliedAtMostOnce is not inductive: a transaction that has claimed      *)
(* receipts will add its events to the vector it has read.  The invariant  *)
(* says of every open transaction that its claims are new, are nobody      *)
(* else's, and that the vector it read holds only receipted events.        *)

\* A bag is a vector of user u with receipted events of u, each at most once.
SoundVector(b, u) ==
    \A e \in Events : b[e] = 0 \/ (b[e] = 1 /\ Counted(e) /\ UserOf[e] = u)

\* Open transactions claim new events of their user, and read a sound vector.
ClaimsSound ==
    \A w \in Workers : wpc[w] = "claimed" =>
        /\ tx[w].user \in Users
        /\ tx[w].claimed \cap receipts = {}
        /\ \A e \in tx[w].claimed : UserOf[e] = tx[w].user
        /\ SoundVector(tx[w].vec, tx[w].user)

\* Two open transactions never claim the same event.
ClaimsDisjoint ==
    \A w, o \in Workers :
        w # o /\ wpc[w] = "claimed" /\ wpc[o] = "claimed" =>
            tx[w].claimed \cap tx[o].claimed = {}

OnceInv == TypeOK /\ AppliedAtMostOnce /\ ClaimsSound /\ ClaimsDisjoint

\* AppliedAtMostOnce in terms of SoundVector.
LEMMA OnceAsSound == AppliedAtMostOnce <=> \A u \in Users : SoundVector(v1[u], u)
  BY DEF AppliedAtMostOnce, SoundVector

\* A step that neither touches vectors and receipts nor opens a transaction
\* keeps the invariant.
LEMMA OnceFrame ==
    ASSUME OnceInv, TypeOK', receipts' = receipts, v1' = v1,
           \A w \in Workers : wpc'[w] = "claimed" =>
              wpc[w] = "claimed" /\ tx'[w] = tx[w]
    PROVE  OnceInv'
<1>1. \A e \in Events : Counted(e)' <=> Counted(e)
  BY DEF Counted
<1>2. AppliedAtMostOnce'
  BY <1>1 DEF OnceInv, AppliedAtMostOnce
<1>3. ClaimsSound'
  <2> SUFFICES ASSUME NEW w \in Workers, wpc'[w] = "claimed"
               PROVE  /\ tx'[w].user \in Users
                      /\ tx'[w].claimed \cap receipts' = {}
                      /\ \A e \in tx'[w].claimed : UserOf[e] = tx'[w].user
                      /\ SoundVector(tx[w].vec, tx[w].user)'
    BY DEF ClaimsSound
  <2>1. SoundVector(tx[w].vec, tx[w].user)
    BY DEF OnceInv, ClaimsSound
  <2>2. SoundVector(tx[w].vec, tx[w].user)'
    BY <1>1, <2>1 DEF SoundVector
  <2> QED
    BY <2>2 DEF OnceInv, ClaimsSound
<1>4. ClaimsDisjoint'
  BY DEF OnceInv, ClaimsDisjoint
<1> QED
  BY <1>2, <1>3, <1>4 DEF OnceInv

\* Claiming receipts keeps the invariant: what is claimed has no receipt, and
\* the INSERT waits for claims of others.
LEMMA ClaimOnce ==
    ASSUME OnceInv, TypeOK', NEW w \in Workers, NEW u \in Users, ClaimReceipts(w, u)
    PROVE  OnceInv'
<1> USE DEF ClaimReceipts
<1>1. \A e \in Events : Counted(e)' <=> Counted(e)
  BY DEF Counted
<1>2. /\ wpc'[w] = "claimed" /\ tx'[w].user = u
      /\ tx'[w].claimed = NewEvents(w, u) /\ tx'[w].vec = v1[u]
      /\ \A o \in Workers \ {w} : wpc'[o] = wpc[o] /\ tx'[o] = tx[o]
  BY DEF OnceInv, TypeOK
<1>3. /\ NewEvents(w, u) \subseteq Support(UserEvents(w, u))
      /\ NewEvents(w, u) \cap receipts = {}
      /\ \A e \in NewEvents(w, u) : UserOf[e] = u
  BY DEF NewEvents, Support, UserEvents, Part
<1>4. AppliedAtMostOnce'
  BY <1>1 DEF OnceInv, AppliedAtMostOnce
<1>5. ClaimsSound'
  <2> SUFFICES ASSUME NEW o \in Workers, wpc'[o] = "claimed"
               PROVE  /\ tx'[o].user \in Users
                      /\ tx'[o].claimed \cap receipts' = {}
                      /\ \A e \in tx'[o].claimed : UserOf[e] = tx'[o].user
                      /\ SoundVector(tx[o].vec, tx[o].user)'
    BY DEF ClaimsSound
  <2>1. CASE o = w
    <3>1. SoundVector(v1[u], u)
      BY OnceAsSound DEF OnceInv
    <3>2. SoundVector(tx[o].vec, tx[o].user)'
      BY <1>1, <1>2, <2>1, <3>1 DEF SoundVector
    <3> QED
      BY <1>2, <1>3, <2>1, <3>2
  <2>2. CASE o # w
    <3>1. SoundVector(tx[o].vec, tx[o].user)
      BY <1>2, <2>2 DEF OnceInv, ClaimsSound
    <3>2. SoundVector(tx[o].vec, tx[o].user)'
      BY <1>1, <1>2, <2>2, <3>1 DEF SoundVector
    <3> QED
      BY <1>2, <2>2, <3>2 DEF OnceInv, ClaimsSound
  <2> QED
    BY <2>1, <2>2
<1>6. ClaimsDisjoint'
  <2>1. \A o \in Workers \ {w} : wpc[o] = "claimed" =>
           tx[o].claimed \cap NewEvents(w, u) = {}
    BY <1>3
  <2> QED
    BY <1>2, <2>1 DEF OnceInv, ClaimsDisjoint
<1> QED
  BY <1>4, <1>5, <1>6 DEF OnceInv

\* Committing the transaction keeps the invariant, whether or not the worker
\* learns of it: the claimed events were in no vector and get their receipts.
LEMMA SaveOnce ==
    ASSUME OnceInv, TypeOK', NEW w \in Workers, wpc[w] = "claimed", SaveFeatures(w),
           wpc'[w] # "claimed",
           \A o \in Workers \ {w} : wpc'[o] = wpc[o] /\ tx'[o] = tx[o]
    PROVE  OnceInv'
<1> DEFINE u == tx[w].user
<1>1. /\ u \in Users /\ tx[w].claimed \cap receipts = {}
      /\ \A e \in tx[w].claimed : UserOf[e] = u
      /\ SoundVector(tx[w].vec, u)
      /\ tx[w].claimed \subseteq Events
      /\ tx[w].vec \in Bag
  BY DEF OnceInv, ClaimsSound, TypeOK
<1>2. receipts' = receipts \cup tx[w].claimed
  BY DEF SaveFeatures
<1>3. \A e \in Events : Counted(e) => Counted(e)'
  BY <1>2 DEF Counted
<1> DEFINE W == Weighted(w) \ ZeroWeight
<1>4. \A e \in W : /\ e \in Events /\ e \notin receipts /\ UserOf[e] = u
                /\ Counted(e)'
  BY <1>1, <1>2 DEF Weighted, Counted
<1>5. \A e \in Events :
         \/ NewVector(w)[e] = 0
         \/ NewVector(w)[e] = 1 /\ Counted(e)' /\ UserOf[e] = u
  <2> SUFFICES ASSUME NEW e \in Events
               PROVE  \/ NewVector(w)[e] = 0
                      \/ NewVector(w)[e] = 1 /\ Counted(e)' /\ UserOf[e] = u
    OBVIOUS
  <2>1. NewVector(w)[e] = tx[w].vec[e] + (IF e \in W THEN 1 ELSE 0)
    BY DEF NewVector, Plus, Once
  <2>2. tx[w].vec[e] = 0 \/ (tx[w].vec[e] = 1 /\ Counted(e) /\ UserOf[e] = u)
    BY <1>1 DEF SoundVector
  <2>3. CASE e \in W
    <3>1. tx[w].vec[e] = 0
      BY <1>4, <2>2, <2>3 DEF Counted
    <3> QED
      BY <1>4, <2>1, <2>3, <3>1
  <2>4. CASE e \notin W
    BY <1>3, <2>1, <2>2, <2>4
  <2> QED
    BY <2>3, <2>4
<1>6. AppliedAtMostOnce'
  <2> SUFFICES ASSUME NEW x \in Users, NEW e \in Events
               PROVE  v1'[x][e] = 0 \/ (v1'[x][e] = 1 /\ Counted(e)' /\ UserOf[e] = x)
    BY DEF AppliedAtMostOnce
  <2>1. CASE v1'[x] = v1[x]
    BY <1>3, <2>1 DEF OnceInv, AppliedAtMostOnce
  <2>2. CASE x = u /\ v1'[x] = NewVector(w)
    BY <1>5, <2>2
  <2>3. v1'[x] = v1[x] \/ (x = u /\ v1'[x] = NewVector(w))
    BY DEF SaveFeatures, OnceInv, TypeOK
  <2> QED
    BY <2>1, <2>2, <2>3
<1>7. ClaimsSound'
  <2> SUFFICES ASSUME NEW o \in Workers, wpc'[o] = "claimed"
               PROVE  /\ tx'[o].user \in Users
                      /\ tx'[o].claimed \cap receipts' = {}
                      /\ \A e \in tx'[o].claimed : UserOf[e] = tx'[o].user
                      /\ SoundVector(tx[o].vec, tx[o].user)'
    BY DEF ClaimsSound
  <2>1. o # w /\ wpc[o] = "claimed" /\ tx'[o] = tx[o]
    OBVIOUS
  <2>2. tx[o].claimed \cap tx[w].claimed = {}
    BY <2>1 DEF OnceInv, ClaimsDisjoint
  <2>3. SoundVector(tx[o].vec, tx[o].user)
    BY <2>1 DEF OnceInv, ClaimsSound
  <2>4. SoundVector(tx[o].vec, tx[o].user)'
    BY <1>3, <2>1, <2>3 DEF SoundVector
  <2> QED
    BY <1>2, <2>1, <2>2, <2>4 DEF OnceInv, ClaimsSound
<1>8. ClaimsDisjoint'
  BY DEF OnceInv, ClaimsDisjoint
<1> QED
  BY <1>6, <1>7, <1>8 DEF OnceInv

\* Every step keeps the invariant.
LEMMA OnceNext == OnceInv /\ [Next]_vars => OnceInv'
<1> SUFFICES ASSUME OnceInv, [Next]_vars PROVE OnceInv'
  OBVIOUS
<1>0. TypeOK /\ TypeOK'
  BY NextType DEF OnceInv
<1> USE <1>0
<1>1. ASSUME NEW w \in Workers, NEW u, NextUser(w, u)
      PROVE  \A o \in Workers : wpc'[o] = "claimed" =>
                 o # w /\ wpc[o] = "claimed" /\ tx'[o] = tx[o]
  BY <1>1 DEF NextUser, TypeOK
<1>2. ASSUME NEW e \in Events, RecordBehavior(e) \/ Publish(e) PROVE OnceInv'
  BY <1>2, OnceFrame DEF RecordBehavior, Publish, workerVars
<1>3. ASSUME NEW w \in Workers, Poll(w) PROVE OnceInv'
  <2>1. /\ receipts' = receipts /\ v1' = v1
        /\ \A o \in Workers : wpc'[o] = "claimed" => wpc[o] = "claimed" /\ tx'[o] = tx[o]
    BY <1>3 DEF Poll, BeginFlush, TypeOK
  <2> QED
    BY <2>1, OnceFrame
<1>4. ASSUME NEW w \in Workers, NEW u \in Users, ClaimReceipts(w, u) PROVE OnceInv'
  BY <1>4, ClaimOnce
<1>5. ASSUME NEW w \in Workers, CommitFeatures(w) PROVE OnceInv'
  <2>1. /\ wpc[w] = "claimed" /\ SaveFeatures(w) /\ wpc'[w] # "claimed"
        /\ \A o \in Workers \ {w} : wpc'[o] = wpc[o] /\ tx'[o] = tx[o]
    BY <1>5 DEF CommitFeatures, NextUser, TypeOK
  <2> QED
    BY <2>1, SaveOnce
<1>6. ASSUME NEW w \in Workers, NEW u \in Users, ApplyFails(w, u) PROVE OnceInv'
  <2>1. NextUser(w, u)
    BY <1>6 DEF ApplyFails, FailUser
  <2>2. CASE UNCHANGED <<receipts, v1, v2>>
    BY <1>1, <2>1, <2>2, OnceFrame
  <2>3. CASE wpc[w] = "claimed" /\ SaveFeatures(w)
    <3>1. /\ wpc'[w] # "claimed"
          /\ \A o \in Workers \ {w} : wpc'[o] = wpc[o] /\ tx'[o] = tx[o]
      BY <2>1 DEF NextUser, TypeOK
    <3> QED
      BY <2>3, <3>1, SaveOnce
  <2> QED
    BY <1>6, <2>2, <2>3 DEF ApplyFails
<1>7. ASSUME NEW w \in Workers, RefreshCache(w) \/ RefreshFails(w) PROVE OnceInv'
  <2>1. NextUser(w, tx[w].user) /\ receipts' = receipts /\ v1' = v1
    BY <1>7 DEF RefreshCache, RefreshFails, FailUser
  <2> QED
    BY <1>1, <2>1, OnceFrame
<1>8. ASSUME NEW w \in Workers, FinishFlush(w) PROVE OnceInv'
  <2>1. receipts' = receipts /\ v1' = v1
    BY <1>8 DEF FinishFlush
  <2>2. \A o \in Workers : wpc'[o] = "claimed" => wpc[o] = "claimed" /\ tx'[o] = tx[o]
    <3>1. CASE failed[w] = EmptyBag
      BY <1>8, <3>1 DEF FinishFlush, TypeOK
    <3>2. CASE failed[w] # EmptyBag /\ ~stopping[w]
      BY <1>8, <3>2 DEF FinishFlush, TypeOK
    <3>3. CASE failed[w] # EmptyBag /\ stopping[w]
      <4>1. Restarted(w)
        BY <1>8, <3>3 DEF FinishFlush
      <4> QED
        BY <4>1 DEF Restarted, TypeOK
    <3> QED
      BY <3>1, <3>2, <3>3
  <2> QED
    BY <2>1, <2>2, OnceFrame
<1>9. ASSUME NEW w \in Workers, CommitOffsets(w) \/ Crash(w) \/ Cancel(w) PROVE OnceInv'
  <2>1. /\ receipts' = receipts /\ v1' = v1
        /\ \A o \in Workers : wpc'[o] = "claimed" => wpc[o] = "claimed" /\ tx'[o] = tx[o]
    BY <1>9 DEF CommitOffsets, Crash, Cancel, Restarted, BeginFlush, TypeOK
  <2> QED
    BY <2>1, OnceFrame
<1>10. ASSUME Rebalance PROVE OnceInv'
  BY <1>10, OnceFrame DEF Rebalance
<1>11. ASSUME NEW u \in Users, ExpireCache(u) PROVE OnceInv'
  BY <1>11, OnceFrame DEF ExpireCache
<1>12. CASE UNCHANGED vars
  BY <1>12, OnceFrame DEF vars, workerVars
<1> QED
  BY <1>2, <1>3, <1>4, <1>5, <1>6, <1>7, <1>8, <1>9, <1>10, <1>11, <1>12
     DEF Next, Environment, WorkerNext, Step

\* The initial state satisfies the invariant.
LEMMA OnceInit == Init => OnceInv
  BY InitType DEF Init, OnceInv, AppliedAtMostOnce, ClaimsSound, ClaimsDisjoint, EmptyBag

\* Replay never double-counts: with any number of workers, redeliveries,
\* crashes, rebalances and cancellations a vector holds an event at most once,
\* with its receipt (CLAIM_RECEIPTS_SQL, _apply_for_user).
THEOREM WorkerAppliedAtMostOnce == Spec => []AppliedAtMostOnce
<1>1. OnceInv => AppliedAtMostOnce
  BY DEF OnceInv
<1> QED
  BY <1>1, OnceInit, OnceNext, PTL DEF Spec

-----------------------------------------------------------------------------
(* Nothing is lost (unless the task is cancelled).                         *)
(*                                                                         *)
(* The invariant accounts for every record between the committed offset    *)
(* and the fetch position: it has a receipt, is one that _flush drops, or  *)
(* is in the hands of the worker that owns the partition.                  *)

Held(w) == Support(buffer[w]) \cup Support(work[w]) \cup Support(failed[w])

OffsetsOrdered ==
    \A p \in Partitions : committed[p] <= position[p] /\ position[p] <= Len(log[p])

\* Outside a flush the worker holds events in the buffer only, inside one it
\* holds none there, and it commits with empty hands.
BatchPlace ==
    \A w \in Workers :
        /\ wpc[w] # "poll" => buffer[w] = EmptyBag
        /\ wpc[w] \in {"poll", "commit"} => work[w] = EmptyBag /\ failed[w] = EmptyBag

\* The events of the user at hand have receipts once the transaction commits.
TxCovers ==
    \A w \in Workers :
        /\ wpc[w] = "claimed" =>
              Support(UserEvents(w, tx[w].user)) \subseteq tx[w].claimed \cup receipts
        /\ wpc[w] = "refresh" =>
              Support(UserEvents(w, tx[w].user)) \subseteq receipts

FetchedAccountedFor ==
    \A p \in Partitions : \A i \in (committed[p] + 1)..position[p] :
        log[p][i] \in receipts \cup Skipped \cup Held(owner[p])

LossInv ==
    /\ TypeOK
    /\ OffsetsOrdered
    /\ BatchPlace
    /\ TxCovers
    /\ FetchedAccountedFor
    /\ NothingLost

\* The parts of the invariant that speak of the log survive a step in which
\* receipts and logs only grow, offsets stay, and the owner of a partition
\* lets go of an event only when the event has its receipt or is skipped.
LEMMA AccountFrame ==
    ASSUME LossInv, TypeOK', receipts \subseteq receipts',
           committed' = committed, position' = position, owner' = owner, log' = log,
           \A w \in Workers : Held(w) \subseteq Held(w)' \cup receipts' \cup Skipped
    PROVE  OffsetsOrdered' /\ FetchedAccountedFor' /\ NothingLost'
<1>1. OffsetsOrdered'
  BY DEF LossInv, OffsetsOrdered
<1>2. FetchedAccountedFor'
  <2> SUFFICES ASSUME NEW p \in Partitions, NEW i \in (committed[p] + 1)..position[p]
               PROVE  log[p][i] \in receipts' \cup Skipped \cup Held(owner[p])'
    BY DEF FetchedAccountedFor
  <2>1. log[p][i] \in receipts \cup Skipped \cup Held(owner[p]) /\ owner[p] \in Workers
    BY DEF LossInv, FetchedAccountedFor, TypeOK
  <2>2. PICK w \in Workers : w = owner[p]
    BY <2>1
  <2>3. log[p][i] \in receipts' \cup Skipped \cup Held(w)'
    BY <2>1, <2>2
  <2>4. Held(w)' = Held(owner[p])'
    BY <2>2 DEF Held
  <2> QED
    BY <2>3, <2>4
<1>3. NothingLost'
  BY DEF LossInv, NothingLost
<1> QED
  BY <1>1, <1>2, <1>3

\* Other workers are not touched by a step of w.
LEMMA OthersHeld ==
    ASSUME TypeOK, NEW w \in Workers, NEW o \in Workers \ {w},
           buffer'[o] = buffer[o], work'[o] = work[o], failed'[o] = failed[o]
    PROVE  Held(o)' = Held(o)
  BY DEF Held

\* Moving on to the next user releases exactly that user's events.
LEMMA NextUserHeld ==
    ASSUME TypeOK, NEW w \in Workers, NEW u, NextUser(w, u), buffer' = buffer
    PROVE  /\ Support(work[w]) = Support(work'[w]) \cup Support(UserEvents(w, u))
           /\ \A o \in Workers \ {w} : work'[o] = work[o] /\ wpc'[o] = wpc[o] /\ tx'[o] = tx[o]
           /\ wpc'[w] = "apply"
<1>1. work[w] \in Bag
  BY DEF TypeOK
<1>2. work'[w] = Part(work[w], {e \in Events : UserOf[e] # u})
  BY DEF NextUser, TypeOK
<1>3. /\ Support(work'[w]) = Support(work[w]) \cap {e \in Events : UserOf[e] # u}
      /\ Support(UserEvents(w, u)) = Support(work[w]) \cap {e \in Events : UserOf[e] = u}
  BY <1>1, <1>2, SupportOps DEF UserEvents
<1>4. Support(work[w]) \subseteq Events
  BY DEF Support
<1>5. \A o \in Workers \ {w} : work'[o] = work[o] /\ wpc'[o] = wpc[o] /\ tx'[o] = tx[o]
  BY DEF NextUser, TypeOK
<1>6. wpc'[w] = "apply"
  BY DEF NextUser, TypeOK
<1> QED
  BY <1>3, <1>4, <1>5, <1>6

\* The part about transactions survives a step that opens or advances none,
\* for a worker whose batch is the same.
LEMMA TxFrame ==
    ASSUME LossInv, receipts \subseteq receipts',
           \A w \in Workers : wpc'[w] \in {"claimed", "refresh"} =>
              wpc'[w] = wpc[w] /\ tx'[w] = tx[w] /\ work'[w] = work[w]
    PROVE  TxCovers'
<1> SUFFICES ASSUME NEW w \in Workers
             PROVE  /\ wpc'[w] = "claimed" =>
                          Support(UserEvents(w, tx[w].user))' \subseteq tx'[w].claimed \cup receipts'
                    /\ wpc'[w] = "refresh" =>
                          Support(UserEvents(w, tx[w].user))' \subseteq receipts'
  BY DEF TxCovers
<1>1. wpc'[w] \in {"claimed", "refresh"} =>
         Support(UserEvents(w, tx[w].user))' = Support(UserEvents(w, tx[w].user))
  BY DEF UserEvents, Support, Part
<1> QED
  BY <1>1 DEF LossInv, TxCovers

\* A record reaches the topic, however many it holds already.
Appends(e) ==
    /\ log' = [log EXCEPT ![PartitionOf[e]] = Append(@, e)]
    /\ UNCHANGED <<canonical, workerVars>>

\* Publishing appends: the records already there keep their places.
LEMMA PublishAppends ==
    ASSUME TypeOK, NEW e \in Events, Appends(e)
    PROVE  \A p \in Partitions : /\ Len(log[p]) \in Nat
                                 /\ Len(log'[p]) >= Len(log[p])
                                 /\ \A i \in 1..Len(log[p]) : log'[p][i] = log[p][i]
<1> DEFINE q == PartitionOf[e]
<1>1. q \in Partitions /\ log[q] \in Seq(Events) /\ log' = [log EXCEPT ![q] = Append(@, e)]
  BY WorkerAssumption DEF Appends, TypeOK
<1> SUFFICES ASSUME NEW p \in Partitions
             PROVE  /\ Len(log[p]) \in Nat
                    /\ Len(log'[p]) >= Len(log[p])
                    /\ \A i \in 1..Len(log[p]) : log'[p][i] = log[p][i]
  OBVIOUS
<1>2. log[p] \in Seq(Events)
  BY DEF TypeOK
<1>3. CASE p = q
  <2>1. log'[p] = Append(log[p], e)
    BY <1>1, <1>3 DEF TypeOK
  <2> QED
    BY <1>2, <2>1
<1>4. CASE p # q
  <2>1. log'[p] = log[p]
    BY <1>1, <1>4 DEF TypeOK
  <2> QED
    BY <1>2, <2>1
<1> QED
  BY <1>3, <1>4

\* So the records accounted for stay so.
LEMMA PublishLoss ==
    ASSUME LossInv, TypeOK', NEW e \in Events, Appends(e)
    PROVE  LossInv'
<1>1. \A p \in Partitions : /\ Len(log[p]) \in Nat
                            /\ Len(log'[p]) >= Len(log[p])
                            /\ \A i \in 1..Len(log[p]) : log'[p][i] = log[p][i]
  BY PublishAppends DEF LossInv
<1>2. /\ UNCHANGED workerVars
      /\ \A w \in Workers : Held(w)' = Held(w)
  BY DEF Appends, workerVars, Held
<1>3. OffsetsOrdered'
  BY <1>1, <1>2 DEF workerVars, LossInv, OffsetsOrdered, TypeOK
<1>4. BatchPlace'
  BY <1>2 DEF workerVars, LossInv, BatchPlace
<1>5. TxCovers'
  BY <1>2, TxFrame DEF workerVars
<1>6. FetchedAccountedFor'
  <2> SUFFICES ASSUME NEW p \in Partitions, NEW i \in (committed[p] + 1)..position[p]
               PROVE  log'[p][i] \in receipts \cup Skipped \cup Held(owner[p])'
    BY <1>2 DEF FetchedAccountedFor, workerVars
  <2>1. i \in 1..Len(log[p])
    BY DEF LossInv, OffsetsOrdered, TypeOK
  <2>2. log'[p][i] = log[p][i]
    BY <1>1, <2>1
  <2>3. Held(owner[p])' = Held(owner[p])
    BY <1>2 DEF Held, workerVars
  <2> QED
    BY <2>2, <2>3 DEF LossInv, FetchedAccountedFor
<1>7. NothingLost'
  <2> SUFFICES ASSUME NEW p \in Partitions, NEW i \in 1..committed[p]
               PROVE  i <= Len(log'[p]) /\ log'[p][i] \in receipts \cup Skipped
    BY <1>2 DEF NothingLost, workerVars
  <2>1. committed[p] \in Nat /\ i <= Len(log[p]) /\ log[p][i] \in receipts \cup Skipped
    BY DEF LossInv, NothingLost, TypeOK
  <2>2. i \in 1..Len(log[p])
    BY <1>1, <2>1
  <2> QED
    BY <1>1, <2>1, <2>2
<1> QED
  BY <1>3, <1>4, <1>5, <1>6, <1>7 DEF LossInv

\* A poll puts what it fetches in the buffer or in the running flush.
LEMMA PollHeld ==
    ASSUME LossInv, TypeOK', NEW w \in Workers, Poll(w)
    PROVE  /\ \A o \in Workers : Held(o) \subseteq Held(o)' \cup Skipped
           /\ \A x \in Partitions : \A i \in (position[x] + 1)..position'[x] :
                 log[x][i] \in Held(owner[x])' \cup Skipped
           /\ \A x \in Partitions : position'[x] >= position[x]
                                    /\ position'[x] <= Len(log[x])
           /\ BatchPlace' /\ TxCovers'
<1>1. PICK p \in Partitions, n \in 0..BatchSize :
         /\ n > 0 => owner[p] = w
         /\ position[p] + n <= Len(log[p])
         /\ position' = [position EXCEPT ![p] = @ + n]
         /\ \/ /\ buffer' = [buffer EXCEPT ![w] = Plus(buffer[w], Fetched(p, n))]
               /\ UNCHANGED <<wpc, work, failed, applied, tx>>
            \/ BeginFlush(w, Plus(buffer[w], Fetched(p, n)))
  BY DEF Poll
<1> DEFINE b == Plus(buffer[w], Fetched(p, n))
<1>2. n \in Nat /\ TypeOK
  BY WorkerAssumption DEF LossInv
<1>3. /\ buffer[w] \in Bag /\ Fetched(p, n) \in Bag /\ b \in Bag
      /\ Support(b) = Support(buffer[w]) \cup Support(Fetched(p, n))
  BY <1>2, FetchedLemma, BagOps, SupportOps DEF TypeOK
<1>4. wpc[w] = "poll" /\ work[w] = EmptyBag /\ failed[w] = EmptyBag
  BY DEF Poll, LossInv, BatchPlace
<1>5. Held(w) = Support(buffer[w])
  BY <1>4, SupportOps DEF Held
<1>6. \A o \in Workers \ {w} : /\ buffer'[o] = buffer[o] /\ work'[o] = work[o]
                               /\ failed'[o] = failed[o] /\ wpc'[o] = wpc[o]
                               /\ tx'[o] = tx[o]
  BY <1>1, <1>2 DEF BeginFlush, TypeOK
<1>7. /\ Support(b) \subseteq Held(w)' \cup Skipped
      /\ wpc'[w] # "poll" => buffer'[w] = EmptyBag
      /\ wpc'[w] \in {"poll", "commit"} => work'[w] = EmptyBag /\ failed'[w] = EmptyBag
      /\ wpc'[w] \notin {"claimed", "refresh"}
  <2>1. CASE /\ buffer' = [buffer EXCEPT ![w] = b]
             /\ UNCHANGED <<wpc, work, failed, applied, tx>>
    <3>1. buffer'[w] = b
      BY <1>2, <2>1 DEF TypeOK
    <3> QED
      BY <1>4, <2>1, <3>1 DEF Held
  <2>2. CASE BeginFlush(w, b)
    <3>1. /\ work'[w] = Part(b, Events \ Skipped) /\ buffer'[w] = EmptyBag
          /\ wpc'[w] = "apply"
      BY <1>2, <2>2 DEF BeginFlush, TypeOK
    <3>2. Support(work'[w]) = Support(b) \cap (Events \ Skipped)
      BY <1>3, <3>1, SupportOps
    <3>3. Support(b) \subseteq Events
      BY DEF Support
    <3> QED
      BY <3>1, <3>2, <3>3 DEF Held
  <2> QED
    BY <1>1, <2>1, <2>2
<1>8. /\ UNCHANGED <<log, owner, committed, receipts>>
      /\ \A o \in Workers \ {w} : Held(o)' = Held(o)
  BY <1>2, <1>6, OthersHeld DEF Poll
<1>9. \A x \in Partitions : position'[x] >= position[x] /\ position'[x] <= Len(log[x])
  BY <1>1, <1>2, <1>8 DEF LossInv, OffsetsOrdered, TypeOK
<1>10. BatchPlace'
  BY <1>6, <1>7 DEF LossInv, BatchPlace
<1>11. TxCovers'
  BY <1>6, <1>7, <1>8, TxFrame
<1>12. \A o \in Workers : Held(o) \subseteq Held(o)' \cup Skipped
  BY <1>3, <1>5, <1>7, <1>8
<1>13. ASSUME NEW x \in Partitions, NEW i \in (position[x] + 1)..position'[x]
       PROVE  log[x][i] \in Held(owner[x])' \cup Skipped
  <2>1. /\ x = p /\ owner[x] = w
        /\ i \in (position[p] + 1)..(position[p] + n)
        /\ i \in 1..Len(log[p])
    BY <1>1, <1>2, <1>9 DEF TypeOK
  <2>2. log[p][i] \in Events
    BY <1>2, <2>1 DEF TypeOK
  <2>3. log[p][i] \in Support(b)
    BY <1>2, <1>3, <2>1, <2>2, FetchedLemma
  <2>4. Held(w)' = Held(owner[x])'
    BY <1>8, <2>1 DEF Held
  <2> QED
    BY <1>7, <2>1, <2>3, <2>4
<1> QED
  BY <1>9, <1>10, <1>11, <1>12, <1>13

\* So a poll keeps the account.
LEMMA PollLoss ==
    ASSUME LossInv, TypeOK', NEW w \in Workers, Poll(w)
    PROVE  LossInv'
<1>1. /\ TypeOK
      /\ UNCHANGED <<log, owner, committed, receipts>>
  BY DEF LossInv, Poll
<1>2. /\ \A o \in Workers : Held(o) \subseteq Held(o)' \cup Skipped
      /\ \A x \in Partitions : \A i \in (position[x] + 1)..position'[x] :
            log[x][i] \in Held(owner[x])' \cup Skipped
      /\ \A x \in Partitions : position'[x] >= position[x]
                               /\ position'[x] <= Len(log[x])
      /\ BatchPlace' /\ TxCovers'
  BY PollHeld
<1>3. OffsetsOrdered'
  <2> SUFFICES ASSUME NEW x \in Partitions
               PROVE  committed[x] <= position'[x] /\ position'[x] <= Len(log[x])
    BY <1>1 DEF OffsetsOrdered
  <2>1. /\ committed[x] \in Nat /\ position[x] \in Nat /\ position'[x] \in Nat
        /\ committed[x] <= position[x]
    BY <1>1 DEF LossInv, OffsetsOrdered, TypeOK
  <2> QED
    BY <1>2, <2>1
<1>4. FetchedAccountedFor'
  <2> SUFFICES ASSUME NEW x \in Partitions, NEW i \in (committed[x] + 1)..position'[x]
               PROVE  log[x][i] \in receipts \cup Skipped \cup Held(owner[x])'
    BY <1>1 DEF FetchedAccountedFor
  <2>1. CASE i \in (committed[x] + 1)..position[x]
    <3>1. PICK o \in Workers : o = owner[x]
      BY <1>1 DEF TypeOK
    <3>2. Held(o)' = Held(owner[x])'
      BY <1>1, <3>1 DEF Held
    <3>3. log[x][i] \in receipts \cup Skipped \cup Held(o)
      BY <2>1, <3>1 DEF LossInv, FetchedAccountedFor
    <3> QED
      BY <1>2, <3>2, <3>3
  <2>2. CASE i \notin (committed[x] + 1)..position[x]
    <3>1. i \in (position[x] + 1)..position'[x]
      BY <1>1, <2>2 DEF TypeOK
    <3> QED
      BY <1>2, <3>1
  <2> QED
    BY <2>1, <2>2
<1>5. NothingLost'
  BY <1>1 DEF LossInv, NothingLost
<1> QED
  BY <1>2, <1>3, <1>4, <1>5 DEF LossInv

\* Claiming receipts covers the user's events: each is claimed or has one.
LEMMA ClaimLoss ==
    ASSUME LossInv, TypeOK', NEW w \in Workers, NEW u \in Users, ClaimReceipts(w, u)
    PROVE  LossInv'
<1> USE DEF ClaimReceipts
<1>1. OffsetsOrdered' /\ FetchedAccountedFor' /\ NothingLost'
  <2>1. \A o \in Workers : Held(o)' = Held(o)
    BY DEF Held
  <2> QED
    BY <2>1, AccountFrame
<1>2. BatchPlace'
  BY DEF LossInv, BatchPlace, TypeOK
<1>3. TxCovers'
  <2> SUFFICES ASSUME NEW o \in Workers
               PROVE  /\ wpc'[o] = "claimed" =>
                            Support(UserEvents(o, tx[o].user))' \subseteq tx'[o].claimed \cup receipts
                      /\ wpc'[o] = "refresh" =>
                            Support(UserEvents(o, tx[o].user))' \subseteq receipts
    BY DEF TxCovers
  <2>1. CASE o = w
    <3>1. wpc'[w] = "claimed" /\ tx'[w].user = u /\ tx'[w].claimed = NewEvents(w, u)
      BY DEF LossInv, TypeOK
    <3>2. Support(UserEvents(w, tx[w].user))' = Support(UserEvents(w, u))
      BY <3>1 DEF UserEvents, Support, Part
    <3> QED
      BY <2>1, <3>1, <3>2 DEF NewEvents
  <2>2. CASE o # w
    <3>1. wpc'[o] = wpc[o] /\ tx'[o] = tx[o]
      BY <2>2 DEF LossInv, TypeOK
    <3>2. Support(UserEvents(o, tx[o].user))' = Support(UserEvents(o, tx[o].user))
      BY <3>1 DEF UserEvents, Support, Part
    <3> QED
      BY <3>1, <3>2 DEF LossInv, TxCovers
  <2> QED
    BY <2>1, <2>2
<1> QED
  BY <1>1, <1>2, <1>3 DEF LossInv

\* Being done with a user keeps the invariant if each of the user's events is
\* among the failed ones or has its receipt.
LEMMA NextUserLoss ==
    ASSUME LossInv, TypeOK', NEW w \in Workers, NEW u, NextUser(w, u),
           wpc[w] \in {"apply", "claimed", "refresh"},
           UNCHANGED <<log, owner, position, committed, buffer>>,
           receipts \subseteq receipts',
           \A o \in Workers \ {w} : failed'[o] = failed[o],
           Support(failed[w]) \subseteq Support(failed'[w]),
           Support(UserEvents(w, u)) \subseteq Support(failed'[w]) \cup receipts'
    PROVE  LossInv'
<1>1. TypeOK
  BY DEF LossInv
<1>2. /\ Support(work[w]) = Support(work'[w]) \cup Support(UserEvents(w, u))
      /\ \A o \in Workers \ {w} : work'[o] = work[o] /\ wpc'[o] = wpc[o] /\ tx'[o] = tx[o]
      /\ wpc'[w] = "apply"
  BY <1>1, NextUserHeld
<1>3. ASSUME NEW o \in Workers PROVE Held(o) \subseteq Held(o)' \cup receipts' \cup Skipped
  <2>1. CASE o = w
    BY <1>2, <2>1 DEF Held
  <2>2. CASE o # w
    BY <1>2, <2>2 DEF Held
  <2> QED
    BY <2>1, <2>2
<1>4. OffsetsOrdered' /\ FetchedAccountedFor' /\ NothingLost'
  BY <1>3, AccountFrame
<1>5. BatchPlace'
  <2>1. buffer[w] = EmptyBag
    BY DEF LossInv, BatchPlace
  <2> QED
    BY <1>2, <2>1 DEF LossInv, BatchPlace
<1>6. TxCovers'
  BY <1>2, TxFrame
<1> QED
  BY <1>4, <1>5, <1>6 DEF LossInv

\* The commit of the transaction gives every event of the user its receipt.
LEMMA SaveCovers ==
    ASSUME LossInv, NEW w \in Workers, wpc[w] = "claimed", SaveFeatures(w)
    PROVE  /\ receipts \subseteq receipts'
           /\ Support(UserEvents(w, tx[w].user)) \subseteq receipts'
  BY DEF LossInv, TxCovers, SaveFeatures

\* Committing the features keeps the invariant.
LEMMA CommitFeaturesLoss ==
    ASSUME LossInv, TypeOK', NEW w \in Workers, CommitFeatures(w)
    PROVE  LossInv'
<1>1. /\ wpc[w] = "claimed" /\ SaveFeatures(w)
      /\ UNCHANGED <<log, owner, position, committed, buffer, failed>>
  BY DEF CommitFeatures
<1>2. /\ receipts \subseteq receipts'
      /\ Support(UserEvents(w, tx[w].user)) \subseteq receipts'
  BY <1>1, SaveCovers
<1>3. CASE tx[w].user \in Missing
  <2>1. PICK u : u = tx[w].user
    OBVIOUS
  <2>2. NextUser(w, u)
    BY <1>3, <2>1 DEF CommitFeatures, NeedsRefresh
  <2> QED
    BY <1>1, <1>2, <2>1, <2>2, NextUserLoss
<1>4. CASE tx[w].user \notin Missing
  <2>1. /\ tx' = [tx EXCEPT ![w].vec = NewVector(w)]
        /\ wpc' = [wpc EXCEPT ![w] = "refresh"]
        /\ UNCHANGED work
    BY <1>4 DEF CommitFeatures, NeedsRefresh
  <2>2. \A o \in Workers : Held(o)' = Held(o)
    BY <1>1, <2>1 DEF Held
  <2>3. OffsetsOrdered' /\ FetchedAccountedFor' /\ NothingLost'
    BY <1>1, <1>2, <2>2, AccountFrame
  <2>4. BatchPlace'
    BY <1>1, <2>1 DEF LossInv, BatchPlace, TypeOK
  <2>5. TxCovers'
    <3> SUFFICES ASSUME NEW o \in Workers
                 PROVE  /\ wpc'[o] = "claimed" =>
                              Support(UserEvents(o, tx[o].user))' \subseteq tx'[o].claimed \cup receipts'
                        /\ wpc'[o] = "refresh" =>
                              Support(UserEvents(o, tx[o].user))' \subseteq receipts'
      BY DEF TxCovers
    <3>1. tx'[o].user = tx[o].user /\ tx'[o].claimed = tx[o].claimed
      BY <2>1 DEF LossInv, TypeOK
    <3>2. Support(UserEvents(o, tx[o].user))' = Support(UserEvents(o, tx[o].user))
      BY <2>1, <3>1 DEF UserEvents, Support, Part
    <3>3. CASE o = w
      <4>1. wpc'[w] = "refresh"
        BY <2>1 DEF LossInv, TypeOK
      <4> QED
        BY <1>2, <3>2, <3>3, <4>1
    <3>4. CASE o # w
      <4>1. wpc'[o] = wpc[o]
        BY <2>1, <3>4 DEF LossInv, TypeOK
      <4> QED
        BY <1>2, <3>1, <3>2, <4>1 DEF LossInv, TxCovers
    <3> QED
      BY <3>3, <3>4
  <2> QED
    BY <2>3, <2>4, <2>5 DEF LossInv
<1> QED
  BY <1>3, <1>4

\* A failed user's events are kept for the next flush.
LEMMA FailUserLoss ==
    ASSUME LossInv, TypeOK', NEW w \in Workers, NEW u, FailUser(w, u),
           wpc[w] \in {"apply", "claimed", "refresh"},
           UNCHANGED <<log, owner, position, committed, buffer>>,
           receipts \subseteq receipts'
    PROVE  LossInv'
<1>1. TypeOK /\ NextUser(w, u)
  BY DEF LossInv, FailUser
<1>2. failed[w] \in Bag /\ UserEvents(w, u) \in Bag
  BY <1>1, BagOps DEF TypeOK, UserEvents
<1>3. /\ failed'[w] = Plus(failed[w], UserEvents(w, u))
      /\ \A o \in Workers \ {w} : failed'[o] = failed[o]
  BY <1>1 DEF FailUser, TypeOK
<1>4. Support(failed'[w]) = Support(failed[w]) \cup Support(UserEvents(w, u))
  BY <1>2, <1>3, SupportOps
<1> QED
  BY <1>1, <1>3, <1>4, NextUserLoss

\* A restarted process holds nothing, and its partitions are fetched again
\* from the committed offsets.
LEMMA RestartedLoss ==
    ASSUME LossInv, TypeOK', NEW w \in Workers, Restarted(w),
           UNCHANGED <<log, owner, receipts>>,
           \A p \in Partitions : \/ committed'[p] = committed[p]
                                 \/ owner[p] = w /\ committed'[p] = position[p],
           NothingLost'
    PROVE  LossInv'
<1>1. TypeOK
  BY DEF LossInv
<1>2. /\ buffer'[w] = EmptyBag /\ work'[w] = EmptyBag /\ failed'[w] = EmptyBag
      /\ wpc'[w] = "poll"
      /\ \A o \in Workers \ {w} : /\ buffer'[o] = buffer[o] /\ work'[o] = work[o]
                                  /\ failed'[o] = failed[o] /\ wpc'[o] = wpc[o]
                                  /\ tx'[o] = tx[o]
  BY <1>1 DEF Restarted, TypeOK
<1>3. \A p \in Partitions :
         position'[p] = IF owner[p] = w THEN committed'[p] ELSE position[p]
  BY DEF Restarted, Resume
<1>4. OffsetsOrdered'
  <2> SUFFICES ASSUME NEW p \in Partitions
               PROVE  committed'[p] <= position'[p] /\ position'[p] <= Len(log[p])
    BY DEF OffsetsOrdered
  <2>1. /\ committed[p] \in Nat /\ position[p] \in Nat /\ Len(log[p]) \in Nat
        /\ committed[p] <= position[p] /\ position[p] <= Len(log[p])
    BY <1>1 DEF LossInv, OffsetsOrdered, TypeOK
  <2> QED
    BY <1>3, <2>1
<1>5. BatchPlace'
  BY <1>2 DEF LossInv, BatchPlace
<1>6. TxCovers'
  BY <1>2, TxFrame
<1>7. FetchedAccountedFor'
  <2> SUFFICES ASSUME NEW p \in Partitions, NEW i \in (committed'[p] + 1)..position'[p]
               PROVE  log[p][i] \in receipts \cup Skipped \cup Held(owner[p])'
    BY DEF FetchedAccountedFor
  <2>1. owner[p] # w
    BY <1>3 DEF TypeOK
  <2>2. i \in (committed[p] + 1)..position[p]
    BY <1>3, <2>1
  <2>3. owner[p] \in Workers \ {w} /\ owner'[p] = owner[p]
    BY <1>1, <2>1 DEF TypeOK
  <2>4. Held(owner[p])' = Held(owner[p])
    BY <1>2, <2>3 DEF Held
  <2> QED
    BY <2>2, <2>4 DEF LossInv, FetchedAccountedFor
<1> QED
  BY <1>4, <1>5, <1>6, <1>7 DEF LossInv

\* The end of a flush: with nothing failed the worker's hands are empty, with
\* failures the failed events return to the buffer.
LEMMA FinishLoss ==
    ASSUME LossInv, TypeOK', NEW w \in Workers, FinishFlush(w)
    PROVE  LossInv'
<1>1. /\ TypeOK /\ wpc[w] = "apply" /\ work[w] = EmptyBag /\ buffer[w] = EmptyBag
      /\ UNCHANGED <<log, owner, committed, receipts>>
  BY DEF LossInv, BatchPlace, FinishFlush
<1>2. CASE failed[w] = EmptyBag
  <2>1. /\ wpc' = [wpc EXCEPT ![w] = "commit"]
        /\ UNCHANGED <<position, buffer, work, failed, applied, tx, stopping>>
    BY <1>2 DEF FinishFlush
  <2>2. \A o \in Workers : Held(o)' = Held(o)
    BY <2>1 DEF Held
  <2>3. OffsetsOrdered' /\ FetchedAccountedFor' /\ NothingLost'
    BY <1>1, <2>1, <2>2, AccountFrame
  <2>4. BatchPlace'
    BY <1>1, <1>2, <2>1 DEF LossInv, BatchPlace, TypeOK
  <2>5. \A o \in Workers : wpc'[o] \in {"claimed", "refresh"} =>
              wpc'[o] = wpc[o] /\ tx'[o] = tx[o] /\ work'[o] = work[o]
    BY <1>1, <2>1 DEF TypeOK
  <2>6. TxCovers'
    BY <1>1, <2>5, TxFrame
  <2> QED
    BY <2>3, <2>4, <2>6 DEF LossInv
<1>3. CASE failed[w] # EmptyBag /\ ~stopping[w]
  <2>1. /\ wpc' = [wpc EXCEPT ![w] = "poll"]
        /\ buffer' = [buffer EXCEPT ![w] = Plus(failed[w], @)]
        /\ failed' = [failed EXCEPT ![w] = EmptyBag]
        /\ UNCHANGED <<position, work, tx, stopping>>
    BY <1>3 DEF FinishFlush
  <2>2. /\ wpc'[w] = "poll" /\ buffer'[w] = Plus(failed[w], buffer[w])
        /\ failed'[w] = EmptyBag
        /\ \A o \in Workers \ {w} : /\ wpc'[o] = wpc[o] /\ buffer'[o] = buffer[o]
                                    /\ failed'[o] = failed[o]
    BY <1>1, <2>1 DEF TypeOK
  <2>3. Support(buffer'[w]) = Support(failed[w]) \cup Support(buffer[w])
    <3>1. failed[w] \in Bag /\ buffer[w] \in Bag
      BY <1>1 DEF TypeOK
    <3> QED
      BY <2>2, <3>1, SupportOps
  <2>4. ASSUME NEW o \in Workers PROVE Held(o) \subseteq Held(o)' \cup receipts' \cup Skipped
    <3>1. CASE o = w
      BY <2>1, <2>3, <3>1 DEF Held
    <3>2. CASE o # w
      BY <2>1, <2>2, <3>2 DEF Held
    <3> QED
      BY <3>1, <3>2
  <2>5. OffsetsOrdered' /\ FetchedAccountedFor' /\ NothingLost'
    BY <1>1, <2>1, <2>4, AccountFrame
  <2>6. BatchPlace'
    BY <1>1, <2>1, <2>2 DEF LossInv, BatchPlace
  <2>7. TxCovers'
    BY <1>1, <2>1, <2>2, TxFrame
  <2> QED
    BY <2>5, <2>6, <2>7 DEF LossInv
<1>4. CASE failed[w] # EmptyBag /\ stopping[w]
  <2>1. Restarted(w)
    BY <1>4 DEF FinishFlush
  <2>2. NothingLost'
    BY <1>1 DEF LossInv, NothingLost
  <2> QED
    BY <1>1, <2>1, <2>2, RestartedLoss
<1> QED
  BY <1>2, <1>3, <1>4

\* Offsets are committed with empty hands, so whatever was fetched from an
\* owned partition has its receipt or was skipped.
LEMMA CommitOffsetsLoss ==
    ASSUME LossInv, TypeOK', NEW w \in Workers, CommitOffsets(w)
    PROVE  LossInv'
<1>1. /\ TypeOK /\ wpc[w] = "commit"
      /\ UNCHANGED <<log, owner, receipts>>
      /\ committed' = [p \in Partitions |->
                          IF owner[p] = w THEN position[p] ELSE committed[p]]
  BY DEF LossInv, CommitOffsets, CommitPositions
<1>2. buffer[w] = EmptyBag /\ work[w] = EmptyBag /\ failed[w] = EmptyBag
  BY <1>1 DEF LossInv, BatchPlace
<1>3. Held(w) = {}
  BY <1>2, SupportOps DEF Held
<1>4. NothingLost'
  <2> SUFFICES ASSUME NEW p \in Partitions, NEW i \in 1..committed'[p]
               PROVE  i <= Len(log[p]) /\ log[p][i] \in receipts \cup Skipped
    BY <1>1 DEF NothingLost
  <2>1. committed[p] \in Nat /\ position[p] \in Nat /\ position[p] <= Len(log[p])
    BY <1>1 DEF LossInv, OffsetsOrdered, TypeOK
  <2>2. CASE i \in 1..committed[p]
    BY <2>2 DEF LossInv, NothingLost
  <2>3. CASE i \notin 1..committed[p]
    <3>1. owner[p] = w /\ i \in (committed[p] + 1)..position[p]
      BY <1>1, <2>1, <2>3
    <3>2. i <= Len(log[p])
      <4>1. Len(log[p]) \in Nat
        BY <1>1 DEF TypeOK
      <4> QED
        BY <2>1, <3>1, <4>1
    <3> QED
      BY <1>3, <3>1, <3>2 DEF LossInv, FetchedAccountedFor
  <2> QED
    BY <2>2, <2>3
<1>5. CASE stopping[w]
  <2>1. Restarted(w)
    BY <1>5 DEF CommitOffsets
  <2> QED
    BY <1>1, <1>4, <2>1, RestartedLoss
<1>6. CASE ~stopping[w]
  <2>1. /\ wpc' = [wpc EXCEPT ![w] = "poll"]
        /\ UNCHANGED <<position, buffer, work, failed, tx, stopping>>
    BY <1>6 DEF CommitOffsets
  <2>2. OffsetsOrdered'
    BY <1>1, <2>1 DEF LossInv, OffsetsOrdered, TypeOK
  <2>3. BatchPlace'
    BY <1>1, <1>2, <2>1 DEF LossInv, BatchPlace, TypeOK
  <2>4. \A o \in Workers : wpc'[o] \in {"claimed", "refresh"} =>
              wpc'[o] = wpc[o] /\ tx'[o] = tx[o] /\ work'[o] = work[o]
    BY <1>1, <2>1 DEF TypeOK
  <2>5. TxCovers'
    BY <1>1, <2>4, TxFrame
  <2>6. FetchedAccountedFor'
    <3> SUFFICES ASSUME NEW p \in Partitions, NEW i \in (committed'[p] + 1)..position[p]
                 PROVE  log[p][i] \in receipts \cup Skipped \cup Held(owner[p])'
      BY <1>1, <2>1 DEF FetchedAccountedFor
    <3>1. i \in (committed[p] + 1)..position[p]
      BY <1>1 DEF LossInv, OffsetsOrdered, TypeOK
    <3>2. Held(owner[p])' = Held(owner[p])
      BY <1>1, <2>1 DEF Held
    <3> QED
      BY <3>1, <3>2 DEF LossInv, FetchedAccountedFor
  <2> QED
    BY <1>4, <2>2, <2>3, <2>5, <2>6 DEF LossInv
<1> QED
  BY <1>5, <1>6

\* After a rebalance nothing counts as fetched.
LEMMA RebalanceLoss ==
    ASSUME LossInv, TypeOK', Rebalance
    PROVE  LossInv'
<1>1. /\ TypeOK /\ position' = committed
      /\ UNCHANGED <<log, committed, receipts, wpc, buffer, work, tx, failed>>
  BY DEF LossInv, Rebalance
<1>2. OffsetsOrdered'
  <2> SUFFICES ASSUME NEW p \in Partitions
               PROVE  committed[p] <= committed[p] /\ committed[p] <= Len(log[p])
    BY <1>1 DEF OffsetsOrdered
  <2>1. /\ committed[p] \in Nat /\ position[p] \in Nat /\ Len(log[p]) \in Nat
        /\ committed[p] <= position[p] /\ position[p] <= Len(log[p])
    BY <1>1 DEF LossInv, OffsetsOrdered, TypeOK
  <2> QED
    BY <2>1
<1>3. BatchPlace'
  BY <1>1 DEF LossInv, BatchPlace
<1>4. TxCovers'
  BY <1>1, TxFrame
<1>5. FetchedAccountedFor'
  <2> SUFFICES ASSUME NEW p \in Partitions, NEW i \in (committed[p] + 1)..committed[p]
               PROVE  FALSE
    BY <1>1 DEF FetchedAccountedFor
  <2> QED
    BY <1>1 DEF TypeOK
<1>6. NothingLost'
  BY <1>1 DEF LossInv, NothingLost
<1> QED
  BY <1>2, <1>3, <1>4, <1>5, <1>6 DEF LossInv

\* A step that leaves the log, the offsets, the receipts and the workers alone.
LEMMA IdleLoss ==
    ASSUME LossInv, TypeOK',
           UNCHANGED <<log, owner, position, committed, receipts, wpc, buffer,
                       work, tx, failed>>
    PROVE  LossInv'
<1>1. \A o \in Workers : Held(o)' = Held(o)
  BY DEF Held
<1>2. OffsetsOrdered' /\ FetchedAccountedFor' /\ NothingLost'
  BY <1>1, AccountFrame
<1>3. BatchPlace'
  BY DEF LossInv, BatchPlace
<1>4. TxCovers'
  BY TxFrame
<1> QED
  BY <1>2, <1>3, <1>4 DEF LossInv

\* Every step keeps the invariant, when tasks are not cancelled.
LEMMA LossNext == ~Cancellable /\ LossInv /\ [Next]_vars => LossInv'
<1> SUFFICES ASSUME ~Cancellable, LossInv, [Next]_vars PROVE LossInv'
  OBVIOUS
<1>1. TypeOK'
  BY NextType DEF LossInv
<1>2. ASSUME NEW e \in Events, RecordBehavior(e) PROVE LossInv'
  BY <1>1, <1>2, IdleLoss DEF RecordBehavior, workerVars
<1>3. ASSUME NEW e \in Events, Publish(e) PROVE LossInv'
  BY <1>1, <1>3, PublishLoss DEF Publish, Appends
<1>4. ASSUME NEW w \in Workers, Poll(w) PROVE LossInv'
  BY <1>1, <1>4, PollLoss
<1>5. ASSUME NEW w \in Workers, NEW u \in Users, ClaimReceipts(w, u) PROVE LossInv'
  BY <1>1, <1>5, ClaimLoss
<1>6. ASSUME NEW w \in Workers, CommitFeatures(w) PROVE LossInv'
  BY <1>1, <1>6, CommitFeaturesLoss
<1>7. ASSUME NEW w \in Workers, NEW u \in Users, ApplyFails(w, u) PROVE LossInv'
  <2>1. /\ wpc[w] \in {"apply", "claimed", "refresh"} /\ FailUser(w, u)
        /\ UNCHANGED <<log, owner, position, committed, buffer>>
    BY <1>7 DEF ApplyFails
  <2>2. receipts \subseteq receipts'
    BY <1>7 DEF ApplyFails, SaveFeatures
  <2> QED
    BY <1>1, <2>1, <2>2, FailUserLoss
<1>8. ASSUME NEW w \in Workers, RefreshCache(w) PROVE LossInv'
  <2>1. PICK u : u = tx[w].user
    OBVIOUS
  <2>2. /\ wpc[w] = "refresh" /\ NextUser(w, u)
        /\ UNCHANGED <<log, owner, position, committed, buffer, receipts, failed>>
    BY <1>8, <2>1 DEF RefreshCache
  <2>3. Support(UserEvents(w, u)) \subseteq receipts
    BY <2>1, <2>2 DEF LossInv, TxCovers
  <2> QED
    BY <1>1, <2>2, <2>3, NextUserLoss
<1>9. ASSUME NEW w \in Workers, RefreshFails(w) PROVE LossInv'
  <2>1. PICK u : u = tx[w].user
    OBVIOUS
  <2>2. /\ wpc[w] = "refresh" /\ FailUser(w, u)
        /\ UNCHANGED <<log, owner, position, committed, buffer, receipts>>
    BY <1>9, <2>1 DEF RefreshFails
  <2> QED
    BY <1>1, <2>2, FailUserLoss
<1>10. ASSUME NEW w \in Workers, FinishFlush(w) PROVE LossInv'
  BY <1>1, <1>10, FinishLoss
<1>11. ASSUME NEW w \in Workers, CommitOffsets(w) PROVE LossInv'
  BY <1>1, <1>11, CommitOffsetsLoss
<1>12. ASSUME NEW w \in Workers, Crash(w) PROVE LossInv'
  <2>1. /\ Restarted(w) /\ committed' = committed
        /\ UNCHANGED <<log, owner, receipts>>
    BY <1>12 DEF Crash
  <2>2. NothingLost'
    BY <2>1 DEF LossInv, NothingLost
  <2> QED
    BY <1>1, <2>1, <2>2, RestartedLoss
<1>13. ASSUME NEW w \in Workers, Cancel(w) PROVE LossInv'
  BY <1>13 DEF Cancel
<1>14. ASSUME Rebalance PROVE LossInv'
  BY <1>1, <1>14, RebalanceLoss
<1>15. ASSUME NEW u \in Users, ExpireCache(u) PROVE LossInv'
  BY <1>1, <1>15, IdleLoss DEF ExpireCache
<1>16. CASE UNCHANGED vars
  BY <1>1, <1>16, IdleLoss DEF vars, workerVars
<1> QED
  BY <1>2, <1>3, <1>4, <1>5, <1>6, <1>7, <1>8, <1>9, <1>10, <1>11, <1>12, <1>13,
     <1>14, <1>15, <1>16
     DEF Next, Environment, WorkerNext, Step

\* The invariant holds at the start: nothing is published, fetched or held.
LEMMA LossInit == Init => LossInv
<1> SUFFICES ASSUME Init PROVE LossInv
  OBVIOUS
<1>1. TypeOK
  BY InitType
<1>2. OffsetsOrdered /\ BatchPlace /\ TxCovers /\ FetchedAccountedFor /\ NothingLost
  BY DEF Init, OffsetsOrdered, BatchPlace, TxCovers, FetchedAccountedFor, NothingLost
<1> QED
  BY <1>1, <1>2 DEF LossInv

\* No offset is ever committed past an event that still needs work: crashes,
\* rebalances, failed users and failed COMMITs lose nothing (run and _flush,
\* "the offset is left uncommitted so the batch is retried instead of lost").
\* The hypothesis excludes task cancellation, under which the property is
\* false of the code.
THEOREM WorkerNothingLost ==
    ASSUME ~Cancellable
    PROVE  Spec => []NothingLost
<1>1. LossInv => NothingLost
  BY DEF LossInv
<1>2. LossInv /\ [Next]_vars => LossInv'
  BY LossNext
<1> QED
  BY <1>1, <1>2, LossInit, PTL DEF Spec

-----------------------------------------------------------------------------
(* Trending counts at most once.                                           *)
(*                                                                         *)
(* An event on its way to the trending set has its receipt, is on the way  *)
(* in one flush only, and has not been counted.                            *)

\* Events of a running flush that are applied and will be counted at its end.
OnTheWay(w) ==
    (IF wpc[w] \in {"apply", "claimed", "refresh"} THEN applied[w] ELSE {})
    \cup (IF wpc[w] = "refresh" THEN tx[w].claimed ELSE {})

UncountedYet ==
    \A w \in Workers : \A e \in OnTheWay(w) : e \in receipts /\ trending[e] = 0

CountedByOne ==
    \A w, o \in Workers : w # o => OnTheWay(w) \cap OnTheWay(o) = {}

TrendInv == OnceInv /\ TrendingAtMostOnce /\ UncountedYet /\ CountedByOne

\* A step that counts nothing and brings no event on its way.
LEMMA TrendFrame ==
    ASSUME TrendInv, OnceInv', receipts \subseteq receipts', trending' = trending,
           \A w \in Workers : OnTheWay(w)' \subseteq OnTheWay(w)
    PROVE  TrendInv'
<1>1. TrendingAtMostOnce'
  BY DEF TrendInv, TrendingAtMostOnce
<1>2. UncountedYet'
  BY DEF TrendInv, UncountedYet
<1>3. CountedByOne'
  <2> SUFFICES ASSUME NEW w \in Workers, NEW o \in Workers, w # o
               PROVE  OnTheWay(w)' \cap OnTheWay(o)' = {}
    BY DEF CountedByOne
  <2>1. OnTheWay(w) \cap OnTheWay(o) = {}
    BY DEF TrendInv, CountedByOne
  <2> QED
    BY <2>1
<1> QED
  BY <1>1, <1>2, <1>3 DEF TrendInv

\* A worker that the step leaves alone has the same events on their way.
LEMMA SameOnTheWay ==
    ASSUME NEW o, wpc'[o] = wpc[o], tx'[o] = tx[o], applied'[o] = applied[o]
    PROVE  OnTheWay(o)' = OnTheWay(o)
  BY DEF OnTheWay

\* The claimed events get their receipts with the commit, and were nowhere on
\* their way, nor counted, before.
LEMMA CommitTrend ==
    ASSUME TrendInv, OnceInv', NEW w \in Workers, CommitFeatures(w)
    PROVE  TrendInv'
<1>1. TypeOK /\ TypeOK' /\ wpc[w] = "claimed"
  BY DEF TrendInv, OnceInv, CommitFeatures
<1>2. /\ receipts' = receipts \cup tx[w].claimed /\ trending' = trending
      /\ applied' = applied
      /\ \A o \in Workers \ {w} : wpc'[o] = wpc[o] /\ tx'[o] = tx[o]
  BY <1>1 DEF CommitFeatures, SaveFeatures, NextUser, TypeOK
<1>3. OnTheWay(w)' \subseteq OnTheWay(w) \cup tx[w].claimed
  <2>1. \/ wpc'[w] = "apply"
        \/ wpc'[w] = "refresh" /\ tx'[w].claimed = tx[w].claimed
    BY <1>1 DEF CommitFeatures, NextUser, TypeOK
  <2> QED
    BY <1>1, <1>2, <2>1 DEF OnTheWay
<1>4. \A o \in Workers \ {w} : OnTheWay(o)' = OnTheWay(o)
  BY <1>2, SameOnTheWay
<1>5. tx[w].claimed \subseteq Events /\ tx[w].claimed \cap receipts = {}
  BY <1>1 DEF TrendInv, OnceInv, ClaimsSound, TypeOK
<1>6. \A e \in tx[w].claimed : trending[e] = 0
  BY <1>5 DEF TrendInv, TrendingAtMostOnce
<1>7. \A o \in Workers : OnTheWay(o) \subseteq receipts
  BY DEF TrendInv, UncountedYet
<1>8. UncountedYet'
  BY <1>2, <1>3, <1>4, <1>6 DEF TrendInv, UncountedYet
<1>9. CountedByOne'
  <2> SUFFICES ASSUME NEW a \in Workers, NEW b \in Workers, a # b
               PROVE  OnTheWay(a)' \cap OnTheWay(b)' = {}
    BY DEF CountedByOne
  <2>1. OnTheWay(a) \cap OnTheWay(b) = {}
    BY DEF TrendInv, CountedByOne
  <2>2. CASE a = w
    BY <1>3, <1>4, <1>5, <1>7, <2>1, <2>2
  <2>3. CASE b = w
    BY <1>3, <1>4, <1>5, <1>7, <2>1, <2>3
  <2>4. CASE a # w /\ b # w
    BY <1>4, <2>1, <2>4
  <2> QED
    BY <2>2, <2>3, <2>4
<1>10. TrendingAtMostOnce'
  BY <1>2 DEF TrendInv, TrendingAtMostOnce
<1> QED
  BY <1>8, <1>9, <1>10 DEF TrendInv

\* The end of a flush counts what it has on its way and keeps nothing there.
LEMMA FinishTrend ==
    ASSUME TrendInv, OnceInv', NEW w \in Workers, FinishFlush(w)
    PROVE  TrendInv'
<1>1. TypeOK /\ wpc[w] = "apply" /\ receipts' = receipts
  BY DEF TrendInv, OnceInv, FinishFlush
<1>2. /\ wpc'[w] \in {"commit", "poll"}
      /\ \A o \in Workers \ {w} : wpc'[o] = wpc[o] /\ tx'[o] = tx[o]
                                  /\ applied'[o] = applied[o]
  <2>1. CASE failed[w] = EmptyBag
    BY <1>1, <2>1 DEF FinishFlush, TypeOK
  <2>2. CASE failed[w] # EmptyBag /\ ~stopping[w]
    BY <1>1, <2>2 DEF FinishFlush, TypeOK
  <2>3. CASE failed[w] # EmptyBag /\ stopping[w]
    <3>1. Restarted(w)
      BY <2>3 DEF FinishFlush
    <3> QED
      BY <1>1, <3>1 DEF Restarted, TypeOK
  <2> QED
    BY <2>1, <2>2, <2>3
<1>3. /\ OnTheWay(w)' = {}
      /\ \A o \in Workers \ {w} : OnTheWay(o)' = OnTheWay(o)
  BY <1>2, SameOnTheWay DEF OnTheWay
<1>4. applied[w] \subseteq OnTheWay(w)
  BY <1>1 DEF OnTheWay
<1>5. \A e \in Events : \/ trending'[e] = trending[e]
                        \/ e \in applied[w] /\ trending'[e] = trending[e] + 1
  BY <1>1 DEF FinishFlush, UpdateTrending, Plus, Once, TypeOK, Bag
<1>6. \A e \in applied[w] : e \in receipts /\ trending[e] = 0
  BY <1>4 DEF TrendInv, UncountedYet
<1>7. TrendingAtMostOnce'
  <2> SUFFICES ASSUME NEW e \in Events
               PROVE  trending'[e] = 0 \/ (trending'[e] = 1 /\ e \in receipts)
    BY <1>1 DEF TrendingAtMostOnce
  <2>1. trending[e] = 0 \/ (trending[e] = 1 /\ e \in receipts)
    BY DEF TrendInv, TrendingAtMostOnce
  <2> QED
    BY <1>5, <1>6, <2>1
<1>8. UncountedYet'
  <2> SUFFICES ASSUME NEW o \in Workers, NEW e \in OnTheWay(o)'
               PROVE  e \in receipts /\ trending'[e] = 0
    BY <1>1 DEF UncountedYet
  <2>1. o # w /\ e \in OnTheWay(o)
    BY <1>3
  <2>2. e \notin applied[w] /\ e \in receipts /\ trending[e] = 0
    BY <1>4, <2>1 DEF TrendInv, CountedByOne, UncountedYet
  <2>3. e \in Events
    BY <1>1, <2>2 DEF TypeOK
  <2> QED
    BY <1>5, <2>2, <2>3
<1>9. CountedByOne'
  <2>1. \A a \in Workers : OnTheWay(a)' \subseteq OnTheWay(a)
    BY <1>3
  <2> SUFFICES ASSUME NEW a \in Workers, NEW b \in Workers, a # b
               PROVE  OnTheWay(a)' \cap OnTheWay(b)' = {}
    BY DEF CountedByOne
  <2>2. OnTheWay(a) \cap OnTheWay(b) = {}
    BY DEF TrendInv, CountedByOne
  <2> QED
    BY <2>1, <2>2
<1> QED
  BY <1>7, <1>8, <1>9 DEF TrendInv

\* Every step keeps the invariant.
LEMMA TrendNext == TrendInv /\ [Next]_vars => TrendInv'
<1> SUFFICES ASSUME TrendInv, [Next]_vars PROVE TrendInv'
  OBVIOUS
<1>0. TypeOK /\ TypeOK' /\ OnceInv'
  BY OnceNext DEF TrendInv, OnceInv
<1> USE <1>0
<1>1. ASSUME NEW w \in Workers, NEW u, NextUser(w, u),
             wpc[w] \in {"apply", "claimed", "refresh"}
      PROVE  /\ wpc'[w] = "apply"
             /\ \A o \in Workers \ {w} : wpc'[o] = wpc[o] /\ tx'[o] = tx[o]
  BY <1>1 DEF NextUser, TypeOK
<1>2. ASSUME NEW e \in Events, RecordBehavior(e) \/ Publish(e) PROVE TrendInv'
  <2>1. UNCHANGED workerVars
    BY <1>2 DEF RecordBehavior, Publish
  <2>2. \A o \in Workers : OnTheWay(o)' = OnTheWay(o)
    BY <2>1 DEF workerVars, OnTheWay
  <2> QED
    BY <2>1, <2>2, TrendFrame DEF workerVars
<1>3. ASSUME NEW w \in Workers, Poll(w) PROVE TrendInv'
  <2>1. UNCHANGED <<receipts, trending>> /\ wpc[w] = "poll"
    BY <1>3 DEF Poll
  <2>2. \A o \in Workers : OnTheWay(o)' \subseteq OnTheWay(o)
    BY <1>3 DEF Poll, BeginFlush, OnTheWay, TypeOK
  <2> QED
    BY <2>1, <2>2, TrendFrame
<1>4. ASSUME NEW w \in Workers, NEW u \in Users, ClaimReceipts(w, u) PROVE TrendInv'
  <2>1. UNCHANGED <<receipts, trending>>
    BY <1>4 DEF ClaimReceipts
  <2>2. \A o \in Workers : OnTheWay(o)' \subseteq OnTheWay(o)
    BY <1>4 DEF ClaimReceipts, OnTheWay, TypeOK
  <2> QED
    BY <2>1, <2>2, TrendFrame
<1>5. ASSUME NEW w \in Workers, CommitFeatures(w) PROVE TrendInv'
  BY <1>5, CommitTrend
<1>6. ASSUME NEW w \in Workers, NEW u \in Users, ApplyFails(w, u) PROVE TrendInv'
  <2>1. /\ receipts \subseteq receipts' /\ trending' = trending /\ applied' = applied
        /\ NextUser(w, u) /\ wpc[w] \in {"apply", "claimed"}
    BY <1>6 DEF ApplyFails, SaveFeatures, FailUser
  <2>2. \A o \in Workers : OnTheWay(o)' \subseteq OnTheWay(o)
    BY <1>1, <2>1 DEF OnTheWay
  <2> QED
    BY <2>1, <2>2, TrendFrame
<1>7. ASSUME NEW w \in Workers, RefreshCache(w) PROVE TrendInv'
  <2>1. PICK u : u = tx[w].user
    OBVIOUS
  <2>2. /\ UNCHANGED <<receipts, trending>> /\ NextUser(w, u) /\ wpc[w] = "refresh"
        /\ applied'[w] = applied[w] \cup tx[w].claimed
        /\ \A o \in Workers \ {w} : applied'[o] = applied[o]
    BY <1>7, <2>1 DEF RefreshCache, TypeOK
  <2>3. \A o \in Workers : OnTheWay(o)' \subseteq OnTheWay(o)
    BY <1>1, <2>2 DEF OnTheWay
  <2> QED
    BY <2>2, <2>3, TrendFrame
<1>8. ASSUME NEW w \in Workers, RefreshFails(w) PROVE TrendInv'
  <2>1. PICK u : u = tx[w].user
    OBVIOUS
  <2>2. /\ UNCHANGED <<receipts, trending, applied>> /\ NextUser(w, u)
        /\ wpc[w] = "refresh"
    BY <1>8, <2>1 DEF RefreshFails, FailUser
  <2>3. \A o \in Workers : OnTheWay(o)' \subseteq OnTheWay(o)
    BY <1>1, <2>2 DEF OnTheWay
  <2> QED
    BY <2>2, <2>3, TrendFrame
<1>9. ASSUME NEW w \in Workers, FinishFlush(w) PROVE TrendInv'
  BY <1>9, FinishTrend
<1>10. ASSUME NEW w \in Workers, CommitOffsets(w) \/ Crash(w) \/ Cancel(w)
       PROVE  TrendInv'
  <2>1. UNCHANGED <<receipts, trending>>
    BY <1>10 DEF CommitOffsets, Crash, Cancel
  <2>2. \A o \in Workers : OnTheWay(o)' \subseteq OnTheWay(o)
    BY <1>10 DEF CommitOffsets, Crash, Cancel, Restarted, BeginFlush, OnTheWay, TypeOK
  <2> QED
    BY <2>1, <2>2, TrendFrame
<1>11. ASSUME Rebalance \/ (\E u \in Users : ExpireCache(u)) \/ UNCHANGED vars
       PROVE  TrendInv'
  <2>1. UNCHANGED <<receipts, trending, wpc, tx, applied>>
    BY <1>11 DEF Rebalance, ExpireCache, vars, workerVars
  <2>2. \A o \in Workers : OnTheWay(o)' = OnTheWay(o)
    BY <2>1 DEF OnTheWay
  <2> QED
    BY <2>1, <2>2, TrendFrame
<1> QED
  BY <1>2, <1>3, <1>4, <1>5, <1>6, <1>7, <1>8, <1>9, <1>10, <1>11
     DEF Next, Environment, WorkerNext, Step

\* Nothing is on its way at the start.
LEMMA TrendInit == Init => TrendInv
<1> SUFFICES ASSUME Init PROVE TrendInv
  OBVIOUS
<1>1. \A w \in Workers : OnTheWay(w) = {}
  BY DEF Init, OnTheWay
<1>2. TrendingAtMostOnce
  BY DEF Init, TrendingAtMostOnce, EmptyBag
<1> QED
  BY <1>1, <1>2, OnceInit DEF TrendInv, UncountedYet, CountedByOne

\* The trending set counts no event twice and none without its receipt, with
\* any number of workers, however flushes fail, are redelivered or cancelled
\* (_flush, _update_trending).
THEOREM WorkerTrendingAtMostOnce == Spec => []TrendingAtMostOnce
<1>1. TrendInv => TrendingAtMostOnce
  BY DEF TrendInv
<1> QED
  BY <1>1, TrendInit, TrendNext, PTL DEF Spec

-----------------------------------------------------------------------------
(* One worker: vectors and receipts agree.                                 *)
(*                                                                         *)
(* With a second worker they may not: it can write back a vector it read   *)
(* before.  A lone worker's transaction still has the vector it read, and  *)
(* holds the vector it wrote until the cache has it.                       *)

OneWorker == \A w, o \in Workers : w = o

\* The vector of the transaction is the one in the table.
VectorAtHand ==
    \A w \in Workers :
        /\ wpc[w] \in {"claimed", "refresh"} =>
              tx[w].user \in Users /\ tx[w].vec = v1[tx[w].user]
        /\ wpc[w] = "refresh" => tx[w].user \notin Missing

MatchInv == OnceInv /\ VectorsMatchReceipts /\ VectorAtHand

\* A step that leaves vectors and receipts alone and opens no transaction.
LEMMA MatchFrame ==
    ASSUME MatchInv, OnceInv', receipts' = receipts, v1' = v1,
           \A w \in Workers : wpc'[w] \in {"claimed", "refresh"} =>
              wpc'[w] = wpc[w] /\ tx'[w] = tx[w]
    PROVE  MatchInv'
<1>1. VectorsMatchReceipts'
  BY DEF MatchInv, VectorsMatchReceipts, Counted
<1>2. VectorAtHand'
  BY DEF MatchInv, VectorAtHand
<1> QED
  BY <1>1, <1>2 DEF MatchInv

\* The commit adds to the vector exactly the events it gives receipts.
LEMMA SaveMatches ==
    ASSUME MatchInv, NEW w \in Workers, wpc[w] = "claimed", SaveFeatures(w)
    PROVE  /\ VectorsMatchReceipts'
           /\ v1'[tx[w].user] = NewVector(w) \/ tx[w].user \in Missing
<1> DEFINE u == tx[w].user
           W == Weighted(w) \ ZeroWeight
<1>1. /\ TypeOK /\ u \in Users /\ tx[w].vec = v1[u]
      /\ tx[w].claimed \cap receipts = {}
      /\ tx[w].claimed \subseteq Events
      /\ \A e \in tx[w].claimed : UserOf[e] = u
  BY DEF MatchInv, OnceInv, ClaimsSound, VectorAtHand, TypeOK
<1>2. receipts' = receipts \cup tx[w].claimed
  BY DEF SaveFeatures
<1>3. \A e \in Events : Counted(e)' <=> (Counted(e) \/ e \in W)
  BY <1>1, <1>2, WorkerAssumption DEF Counted, Weighted
<1>4. \A e \in W : e \in Events /\ UserOf[e] = u /\ ~Counted(e)
  BY <1>1 DEF Weighted, Counted
<1>5. \A e \in Events : NewVector(w)[e] = v1[u][e] + (IF e \in W THEN 1 ELSE 0)
  BY <1>1 DEF NewVector, Plus, Once
<1>6. v1[u] \in Bag
  BY <1>1 DEF TypeOK
<1>7. Weighted(w) = {} => NewVector(w) = v1[u]
  BY <1>1, <1>6 DEF NewVector, Plus, Once, Bag
<1>8. /\ v1'[u] = NewVector(w)
      /\ \A x \in Users \ {u} : v1'[x] = v1[x]
  BY <1>1, <1>7 DEF SaveFeatures, TypeOK
<1>9. VectorsMatchReceipts'
  <2> SUFFICES ASSUME NEW e \in Events
               PROVE  v1'[UserOf[e]][e] = IF Counted(e)' THEN 1 ELSE 0
    BY DEF VectorsMatchReceipts
  <2>1. v1[UserOf[e]][e] = IF Counted(e) THEN 1 ELSE 0
    BY DEF MatchInv, VectorsMatchReceipts
  <2>2. UserOf[e] \in Users
    BY WorkerAssumption
  <2>3. CASE UserOf[e] = u
    BY <1>3, <1>4, <1>5, <1>8, <2>1, <2>3
  <2>4. CASE UserOf[e] # u
    BY <1>3, <1>4, <1>8, <2>1, <2>2, <2>4
  <2> QED
    BY <2>3, <2>4
<1> QED
  BY <1>8, <1>9

\* Every step of a lone worker keeps the invariant.
LEMMA MatchNext == OneWorker /\ MatchInv /\ [Next]_vars => MatchInv'
<1> SUFFICES ASSUME OneWorker, MatchInv, [Next]_vars PROVE MatchInv'
  OBVIOUS
<1>0. TypeOK /\ TypeOK' /\ OnceInv'
  BY OnceNext DEF MatchInv, OnceInv
<1> USE <1>0
<1>1. ASSUME NEW w \in Workers, NEW u, NextUser(w, u)
      PROVE  \A o \in Workers : wpc'[o] = "apply"
  BY <1>1 DEF NextUser, OneWorker, TypeOK
<1>2. ASSUME NEW e \in Events, RecordBehavior(e) \/ Publish(e) PROVE MatchInv'
  BY <1>2, MatchFrame DEF RecordBehavior, Publish, workerVars
<1>3. ASSUME NEW w \in Workers, Poll(w) PROVE MatchInv'
  <2>1. /\ UNCHANGED <<receipts, v1>>
        /\ \A o \in Workers : wpc'[o] \in {"claimed", "refresh"} =>
              wpc'[o] = wpc[o] /\ tx'[o] = tx[o]
    BY <1>3 DEF Poll, BeginFlush, TypeOK
  <2> QED
    BY <2>1, MatchFrame
<1>4. ASSUME NEW w \in Workers, NEW u \in Users, ClaimReceipts(w, u) PROVE MatchInv'
  <2>1. UNCHANGED <<receipts, v1>>
    BY <1>4 DEF ClaimReceipts
  <2>2. VectorsMatchReceipts'
    BY <2>1 DEF MatchInv, VectorsMatchReceipts, Counted
  <2>3. wpc'[w] = "claimed" /\ tx'[w].user = u /\ tx'[w].vec = v1[u]
    BY <1>4 DEF ClaimReceipts, TypeOK
  <2>4. VectorAtHand'
    BY <2>1, <2>3 DEF OneWorker, VectorAtHand
  <2> QED
    BY <2>2, <2>4 DEF MatchInv
<1>5. ASSUME NEW w \in Workers, CommitFeatures(w) PROVE MatchInv'
  <2>1. wpc[w] = "claimed" /\ SaveFeatures(w)
    BY <1>5 DEF CommitFeatures
  <2>2. /\ VectorsMatchReceipts' /\ tx[w].user \in Users
        /\ v1'[tx[w].user] = NewVector(w) \/ tx[w].user \in Missing
    BY <2>1, SaveMatches DEF MatchInv, VectorAtHand
  <2>3. CASE tx[w].user \in Missing
    <3>1. NextUser(w, tx[w].user)
      BY <1>5, <2>3 DEF CommitFeatures, NeedsRefresh
    <3>2. wpc'[w] = "apply"
      BY <3>1 DEF NextUser, TypeOK
    <3> QED
      BY <2>2, <3>2 DEF MatchInv, VectorAtHand, OneWorker
  <2>4. CASE tx[w].user \notin Missing
    <3>1. tx' = [tx EXCEPT ![w].vec = NewVector(w)]
      BY <1>5, <2>4 DEF CommitFeatures, NeedsRefresh
    <3>2. tx'[w].user = tx[w].user /\ tx'[w].vec = NewVector(w)
      BY <3>1 DEF TypeOK
    <3> QED
      BY <2>2, <2>4, <3>2 DEF MatchInv, VectorAtHand, OneWorker
  <2> QED
    BY <2>3, <2>4
<1>6. ASSUME NEW w \in Workers, NEW u \in Users, ApplyFails(w, u) PROVE MatchInv'
  <2>1. NextUser(w, u)
    BY <1>6 DEF ApplyFails, FailUser
  <2>2. VectorAtHand'
    BY <1>1, <2>1 DEF VectorAtHand
  <2>3. CASE UNCHANGED <<receipts, v1, v2>>
    BY <1>1, <2>1, <2>3, MatchFrame
  <2>4. CASE wpc[w] = "claimed" /\ SaveFeatures(w)
    BY <2>2, <2>4, SaveMatches DEF MatchInv
  <2> QED
    BY <1>6, <2>3, <2>4 DEF ApplyFails
<1>7. ASSUME NEW w \in Workers, RefreshCache(w) \/ RefreshFails(w) PROVE MatchInv'
  <2>1. NextUser(w, tx[w].user) /\ UNCHANGED <<receipts, v1>>
    BY <1>7 DEF RefreshCache, RefreshFails, FailUser
  <2> QED
    BY <1>1, <2>1, MatchFrame
<1>8. ASSUME NEW w \in Workers, FinishFlush(w) PROVE MatchInv'
  <2>1. UNCHANGED <<receipts, v1>> /\ wpc[w] = "apply"
    BY <1>8 DEF FinishFlush
  <2>2. wpc'[w] \in {"commit", "poll"}
    <3>1. CASE failed[w] = EmptyBag
      BY <1>8, <3>1 DEF FinishFlush, TypeOK
    <3>2. CASE failed[w] # EmptyBag /\ ~stopping[w]
      BY <1>8, <3>2 DEF FinishFlush, TypeOK
    <3>3. CASE failed[w] # EmptyBag /\ stopping[w]
      BY <1>8, <3>3 DEF FinishFlush, Restarted, TypeOK
    <3> QED
      BY <3>1, <3>2, <3>3
  <2> QED
    BY <2>1, <2>2, MatchFrame DEF OneWorker
<1>9. ASSUME NEW w \in Workers, CommitOffsets(w) \/ Crash(w) \/ Cancel(w) PROVE MatchInv'
  <2>1. /\ UNCHANGED <<receipts, v1>>
        /\ \A o \in Workers : wpc'[o] \in {"claimed", "refresh"} =>
              wpc'[o] = wpc[o] /\ tx'[o] = tx[o]
    BY <1>9 DEF CommitOffsets, Crash, Cancel, Restarted, BeginFlush, TypeOK
  <2> QED
    BY <2>1, MatchFrame
<1>10. ASSUME Rebalance \/ (\E u \in Users : ExpireCache(u)) \/ UNCHANGED vars
       PROVE  MatchInv'
  BY <1>10, MatchFrame DEF Rebalance, ExpireCache, vars, workerVars
<1> QED
  BY <1>2, <1>3, <1>4, <1>5, <1>6, <1>7, <1>8, <1>9, <1>10
     DEF Next, Environment, WorkerNext, Step

\* Vectors and receipts are empty at the start.
LEMMA MatchInit == Init => MatchInv
<1> SUFFICES ASSUME Init PROVE MatchInv
  OBVIOUS
<1>1. VectorsMatchReceipts
  BY WorkerAssumption DEF Init, VectorsMatchReceipts, Counted, EmptyBag
<1>2. VectorAtHand
  BY DEF Init, VectorAtHand
<1> QED
  BY <1>1, <1>2, OnceInit DEF MatchInv

\* The vectors hold exactly the events that have receipts: no crash, failure,
\* redelivery or cancellation parts the two, as long as one worker runs
\* (_apply_for_user, one transaction for CLAIM_RECEIPTS_SQL and the upsert).
THEOREM WorkerVectorsMatchReceipts ==
    ASSUME OneWorker
    PROVE  Spec => []VectorsMatchReceipts
<1>1. MatchInv => VectorsMatchReceipts
  BY DEF MatchInv
<1>2. MatchInv /\ [Next]_vars => MatchInv'
  BY MatchNext
<1> QED
  BY <1>1, <1>2, MatchInit, PTL DEF Spec

-----------------------------------------------------------------------------
(* One worker: the cache is not older than the committed offset.           *)
(*                                                                         *)
(* The account of WorkerNothingLost is kept again, with the events whose   *)
(* effect is in the cache as well in the place of those with a receipt.    *)

\* Events with a receipt that the cached vector of their user has, if there
\* is one.
FreshEvents ==
    {e \in receipts : Counted(e) => \A v \in cache[UserOf[e]] : v[e] = 1}

FetchedFresh ==
    \A p \in Partitions : \A i \in (committed[p] + 1)..position[p] :
        log[p][i] \in FreshEvents \cup Skipped \cup Held(owner[p])

CommittedFresh ==
    \A p \in Partitions : \A i \in 1..committed[p] :
        log[p][i] \in FreshEvents \cup Skipped

FreshInv == LossInv /\ MatchInv /\ FetchedFresh /\ CommittedFresh

\* A cache that takes over no vector but the one in the table stays fresh.
LEMMA FreshGrows ==
    ASSUME MatchInv, TypeOK, receipts \subseteq receipts',
           \A u \in Users : \A v \in cache'[u] : v \in cache[u] \/ v = v1[u]
    PROVE  FreshEvents \subseteq FreshEvents'
<1> SUFFICES ASSUME NEW e \in FreshEvents, Counted(e)', NEW v \in cache'[UserOf[e]]
             PROVE  v[e] = 1
  BY DEF FreshEvents
<1>1. e \in receipts /\ e \in Events /\ UserOf[e] \in Users /\ Counted(e)
  BY WorkerAssumption DEF FreshEvents, Counted, TypeOK
<1>2. v1[UserOf[e]][e] = 1
  BY <1>1 DEF MatchInv, VectorsMatchReceipts
<1> QED
  BY <1>1, <1>2 DEF FreshEvents

\* A step that moves no offset, and lets go only of fresh events.
LEMMA FreshFrame ==
    ASSUME FreshInv, LossInv', MatchInv', FreshEvents \subseteq FreshEvents',
           UNCHANGED <<log, committed, position, owner>>,
           \A w \in Workers : Held(w) \subseteq Held(w)' \cup FreshEvents' \cup Skipped
    PROVE  FreshInv'
<1>1. CommittedFresh'
  BY DEF FreshInv, CommittedFresh
<1>2. FetchedFresh'
  <2> SUFFICES ASSUME NEW p \in Partitions, NEW i \in (committed[p] + 1)..position[p]
               PROVE  log[p][i] \in FreshEvents' \cup Skipped \cup Held(owner[p])'
    BY DEF FetchedFresh
  <2>1. PICK w \in Workers : w = owner[p]
    BY DEF FreshInv, LossInv, TypeOK
  <2>2. log[p][i] \in FreshEvents \cup Skipped \cup Held(w)
    BY <2>1 DEF FreshInv, FetchedFresh
  <2>3. Held(w)' = Held(owner[p])'
    BY <2>1 DEF Held
  <2> QED
    BY <2>2, <2>3
<1> QED
  BY <1>1, <1>2 DEF FreshInv

\* A restart forgets what was fetched and not committed.
LEMMA RestartedFresh ==
    ASSUME OneWorker, FreshInv, LossInv', MatchInv', NEW w \in Workers, Restarted(w),
           UNCHANGED <<log, owner, receipts, cache>>, CommittedFresh'
    PROVE  FreshInv'
<1>1. \A p \in Partitions : owner[p] = w /\ position'[p] = committed'[p]
                            /\ committed'[p] \in Nat
  BY DEF Restarted, Resume, OneWorker, FreshInv, LossInv, TypeOK
<1>2. FetchedFresh'
  BY <1>1 DEF FetchedFresh
<1> QED
  BY <1>2 DEF FreshInv

\* A failed user's events stay in the hands of the worker.
LEMMA FailUserHeld ==
    ASSUME TypeOK, NEW w \in Workers, NEW u, FailUser(w, u), buffer' = buffer
    PROVE  \A o \in Workers : Held(o) \subseteq Held(o)'
<1>1. NextUser(w, u)
  BY DEF FailUser
<1>2. failed[w] \in Bag /\ UserEvents(w, u) \in Bag
  BY BagOps DEF TypeOK, UserEvents
<1>3. /\ failed'[w] = Plus(failed[w], UserEvents(w, u))
      /\ \A o \in Workers \ {w} : failed'[o] = failed[o]
  BY DEF FailUser, TypeOK
<1>4. Support(failed'[w]) = Support(failed[w]) \cup Support(UserEvents(w, u))
  BY <1>2, <1>3, SupportOps
<1>5. /\ Support(work[w]) = Support(work'[w]) \cup Support(UserEvents(w, u))
      /\ \A o \in Workers \ {w} : work'[o] = work[o]
  BY <1>1, NextUserHeld
<1> SUFFICES ASSUME NEW o \in Workers PROVE Held(o) \subseteq Held(o)'
  OBVIOUS
<1>6. CASE o = w
  BY <1>4, <1>5, <1>6 DEF Held
<1>7. CASE o # w
  BY <1>3, <1>5, <1>7 DEF Held
<1> QED
  BY <1>6, <1>7

\* Events of the user the flush is done with, if they are fresh.
LEMMA NextUserFresh ==
    ASSUME FreshInv, LossInv', MatchInv', NEW w \in Workers, NEW u, NextUser(w, u),
           UNCHANGED <<log, owner, position, committed, buffer, failed>>,
           FreshEvents \subseteq FreshEvents',
           Support(UserEvents(w, u)) \subseteq FreshEvents'
    PROVE  FreshInv'
<1>1. /\ Support(work[w]) = Support(work'[w]) \cup Support(UserEvents(w, u))
      /\ \A o \in Workers \ {w} : work'[o] = work[o]
  BY NextUserHeld DEF FreshInv, LossInv
<1>2. ASSUME NEW o \in Workers
      PROVE  Held(o) \subseteq Held(o)' \cup FreshEvents' \cup Skipped
  <2>1. CASE o = w
    BY <1>1, <2>1 DEF Held
  <2>2. CASE o # w
    BY <1>1, <2>2 DEF Held
  <2> QED
    BY <2>1, <2>2
<1> QED
  BY <1>2, FreshFrame

\* What a poll brings is held, and what was committed stays fresh.
LEMMA PollFresh ==
    ASSUME FreshInv, LossInv', MatchInv', NEW w \in Workers, Poll(w)
    PROVE  FreshInv'
<1>1. UNCHANGED <<log, owner, committed, receipts, cache>>
  BY DEF Poll
<1>2. /\ \A o \in Workers : Held(o) \subseteq Held(o)' \cup Skipped
      /\ \A x \in Partitions : \A i \in (position[x] + 1)..position'[x] :
            log[x][i] \in Held(owner[x])' \cup Skipped
  BY PollHeld DEF FreshInv, LossInv
<1>3. FreshEvents' = FreshEvents
  BY <1>1 DEF FreshEvents, Counted
<1>4. CommittedFresh'
  BY <1>1, <1>3 DEF FreshInv, CommittedFresh
<1>5. FetchedFresh'
  <2> SUFFICES ASSUME NEW x \in Partitions, NEW i \in (committed[x] + 1)..position'[x]
               PROVE  log[x][i] \in FreshEvents \cup Skipped \cup Held(owner[x])'
    BY <1>1, <1>3 DEF FetchedFresh
  <2>1. CASE i \in (committed[x] + 1)..position[x]
    <3>1. PICK o \in Workers : o = owner[x]
      BY DEF FreshInv, LossInv, TypeOK
    <3>2. Held(o)' = Held(owner[x])'
      BY <1>1, <3>1 DEF Held
    <3>3. log[x][i] \in FreshEvents \cup Skipped \cup Held(o)
      BY <2>1, <3>1 DEF FreshInv, FetchedFresh
    <3> QED
      BY <1>2, <3>2, <3>3
  <2>2. CASE i \notin (committed[x] + 1)..position[x]
    <3>1. i \in (position[x] + 1)..position'[x]
      BY <1>1, <2>2 DEF FreshInv, LossInv, TypeOK
    <3> QED
      BY <1>2, <3>1
  <2> QED
    BY <2>1, <2>2
<1> QED
  BY <1>4, <1>5 DEF FreshInv

\* Publishing lies beyond the fetch positions.
LEMMA PublishFresh ==
    ASSUME FreshInv, LossInv', MatchInv', NEW e \in Events, Appends(e)
    PROVE  FreshInv'
<1>1. UNCHANGED workerVars
  BY DEF Appends
<1>2. FreshEvents' = FreshEvents /\ (\A w \in Workers : Held(w)' = Held(w))
  BY <1>1 DEF workerVars, FreshEvents, Counted, Held
<1>3. ASSUME NEW p \in Partitions, NEW i \in 1..position[p]
      PROVE  log'[p][i] = log[p][i]
  <2>1. /\ Len(log[p]) \in Nat /\ \A j \in 1..Len(log[p]) : log'[p][j] = log[p][j]
    BY PublishAppends DEF FreshInv, LossInv
  <2>2. position[p] \in Nat /\ position[p] <= Len(log[p])
    BY DEF FreshInv, LossInv, OffsetsOrdered, TypeOK
  <2> QED
    BY <2>1, <2>2
<1>4. \A p \in Partitions : committed[p] \in Nat /\ position[p] \in Nat
                            /\ committed[p] <= position[p] /\ owner[p] \in Workers
  BY DEF FreshInv, LossInv, OffsetsOrdered, TypeOK
<1>5. CommittedFresh'
  <2> SUFFICES ASSUME NEW p \in Partitions, NEW i \in 1..committed[p]
               PROVE  log'[p][i] \in FreshEvents \cup Skipped
    BY <1>1, <1>2 DEF CommittedFresh, workerVars
  <2>1. log[p][i] \in FreshEvents \cup Skipped
    BY DEF FreshInv, CommittedFresh
  <2>2. i \in 1..position[p]
    BY <1>4
  <2> QED
    BY <1>3, <2>1, <2>2
<1>6. FetchedFresh'
  <2> SUFFICES ASSUME NEW p \in Partitions, NEW i \in (committed[p] + 1)..position[p]
               PROVE  log'[p][i] \in FreshEvents \cup Skipped \cup Held(owner[p])'
    BY <1>1, <1>2 DEF FetchedFresh, workerVars
  <2>1. log[p][i] \in FreshEvents \cup Skipped \cup Held(owner[p])
    BY DEF FreshInv, FetchedFresh
  <2>2. Held(owner[p])' = Held(owner[p])
    BY <1>1 DEF Held, workerVars
  <2>3. i \in 1..position[p]
    BY <1>4
  <2> QED
    BY <1>3, <2>1, <2>2, <2>3
<1> QED
  BY <1>5, <1>6 DEF FreshInv

\* Offsets are committed with empty hands.
LEMMA CommitOffsetsFresh ==
    ASSUME OneWorker, FreshInv, LossInv', MatchInv', NEW w \in Workers, CommitOffsets(w)
    PROVE  FreshInv'
<1>1. /\ wpc[w] = "commit" /\ UNCHANGED <<log, owner, receipts, cache>>
      /\ committed' = [p \in Partitions |->
                          IF owner[p] = w THEN position[p] ELSE committed[p]]
  BY DEF CommitOffsets, CommitPositions
<1>2. buffer[w] = EmptyBag /\ work[w] = EmptyBag /\ failed[w] = EmptyBag
  BY <1>1 DEF FreshInv, LossInv, BatchPlace
<1>3. Held(w) = {}
  BY <1>2, SupportOps DEF Held
<1>4. \A p \in Partitions : /\ owner[p] = w /\ committed'[p] = position[p]
                            /\ committed[p] \in Nat /\ position[p] \in Nat
  BY <1>1 DEF OneWorker, FreshInv, LossInv, TypeOK
<1>5. FreshEvents' = FreshEvents
  BY <1>1 DEF FreshEvents, Counted
<1>6. CommittedFresh'
  <2> SUFFICES ASSUME NEW p \in Partitions, NEW i \in 1..position[p]
               PROVE  log[p][i] \in FreshEvents \cup Skipped
    BY <1>1, <1>4, <1>5 DEF CommittedFresh
  <2>1. CASE i \in 1..committed[p]
    BY <2>1 DEF FreshInv, CommittedFresh
  <2>2. CASE i \in (committed[p] + 1)..position[p]
    BY <1>3, <1>4, <2>2 DEF FreshInv, FetchedFresh
  <2> QED
    BY <1>4, <2>1, <2>2
<1>7. CASE stopping[w]
  BY <1>1, <1>6, <1>7, RestartedFresh DEF CommitOffsets
<1>8. CASE ~stopping[w]
  <2>1. position' = position
    BY <1>8 DEF CommitOffsets
  <2>2. FetchedFresh'
    BY <1>4, <2>1 DEF FetchedFresh
  <2> QED
    BY <1>6, <2>2 DEF FreshInv
<1> QED
  BY <1>7, <1>8

\* The commit of a transaction: the user's events are held until the refresh,
\* or there is nothing to refresh.
LEMMA CommitFeaturesFresh ==
    ASSUME OneWorker, FreshInv, LossInv', MatchInv', NEW w \in Workers, CommitFeatures(w)
    PROVE  FreshInv'
<1>1. /\ wpc[w] = "claimed" /\ SaveFeatures(w)
      /\ UNCHANGED <<log, owner, position, committed, buffer, failed, cache>>
  BY DEF CommitFeatures
<1>2. /\ receipts \subseteq receipts'
      /\ Support(UserEvents(w, tx[w].user)) \subseteq receipts'
  BY <1>1, SaveCovers DEF FreshInv
<1>3. FreshEvents \subseteq FreshEvents'
  BY <1>1, <1>2, FreshGrows DEF FreshInv, LossInv
<1>4. CASE tx[w].user \in Missing
  <2>1. PICK u : u = tx[w].user
    OBVIOUS
  <2>2. NextUser(w, u)
    BY <1>4, <2>1 DEF CommitFeatures, NeedsRefresh
  <2>3. \A e \in Support(UserEvents(w, u)) : UserOf[e] = u
    BY DEF UserEvents, Part, Support
  <2>4. Support(UserEvents(w, u)) \subseteq FreshEvents'
    BY <1>2, <1>4, <2>1, <2>3 DEF FreshEvents, Counted
  <2> QED
    BY <1>1, <1>3, <2>2, <2>4, NextUserFresh
<1>5. CASE tx[w].user \notin Missing
  <2>1. work' = work
    BY <1>5 DEF CommitFeatures, NeedsRefresh
  <2>2. \A o \in Workers : Held(o)' = Held(o)
    BY <1>1, <2>1 DEF Held
  <2> QED
    BY <1>1, <1>3, <2>2, FreshFrame
<1> QED
  BY <1>4, <1>5

\* The refresh makes the user's events fresh, whether it found new ones or
\* duplicates only.
LEMMA RefreshFresh ==
    ASSUME FreshInv, LossInv', MatchInv', NEW w \in Workers, RefreshCache(w)
    PROVE  FreshInv'
<1>1. PICK u : u = tx[w].user
  OBVIOUS
<1>2. /\ wpc[w] = "refresh" /\ NextUser(w, u) /\ u \in Users /\ tx[w].vec = v1[u]
      /\ UNCHANGED <<log, owner, position, committed, receipts, buffer, failed>>
      /\ TypeOK
  BY <1>1 DEF RefreshCache, FreshInv, MatchInv, VectorAtHand, LossInv
<1>3. cache'[u] = {v1[u]} /\ \A x \in Users \ {u} : cache'[x] = cache[x]
  BY <1>1, <1>2 DEF RefreshCache, TypeOK
<1>4. FreshEvents \subseteq FreshEvents'
  BY <1>2, <1>3, FreshGrows DEF FreshInv
<1>5. Support(UserEvents(w, u)) \subseteq receipts
  BY <1>1, <1>2 DEF FreshInv, LossInv, TxCovers
<1>6. \A e \in Support(UserEvents(w, u)) : e \in Events /\ UserOf[e] = u
  BY DEF UserEvents, Part, Support
<1>7. Support(UserEvents(w, u)) \subseteq FreshEvents'
  <2> SUFFICES ASSUME NEW e \in Support(UserEvents(w, u)), Counted(e)'
               PROVE  v1[u][e] = 1
    BY <1>2, <1>3, <1>5, <1>6 DEF FreshEvents
  <2>1. Counted(e)
    BY <1>2 DEF Counted
  <2> QED
    BY <1>6, <2>1 DEF FreshInv, MatchInv, VectorsMatchReceipts
<1> QED
  BY <1>2, <1>4, <1>7, NextUserFresh

\* The end of a flush: the events stay with the worker or are fetched again.
LEMMA FinishFresh ==
    ASSUME OneWorker, FreshInv, LossInv', MatchInv', NEW w \in Workers, FinishFlush(w)
    PROVE  FreshInv'
<1>1. /\ TypeOK /\ wpc[w] = "apply" /\ work[w] = EmptyBag
      /\ UNCHANGED <<log, owner, committed, receipts, cache>>
  BY DEF FreshInv, LossInv, FinishFlush
<1>2. FreshEvents' = FreshEvents
  BY <1>1 DEF FreshEvents, Counted
<1>3. CASE failed[w] = EmptyBag
  <2>1. UNCHANGED <<position, buffer, work, failed>>
    BY <1>3 DEF FinishFlush
  <2>2. \A o \in Workers : Held(o)' = Held(o)
    BY <2>1 DEF Held
  <2> QED
    BY <1>1, <1>2, <2>1, <2>2, FreshFrame
<1>4. CASE failed[w] # EmptyBag /\ ~stopping[w]
  <2>1. /\ buffer' = [buffer EXCEPT ![w] = Plus(failed[w], @)]
        /\ failed' = [failed EXCEPT ![w] = EmptyBag]
        /\ UNCHANGED <<position, work>>
    BY <1>4 DEF FinishFlush
  <2>2. buffer'[w] = Plus(failed[w], buffer[w]) /\ failed[w] \in Bag /\ buffer[w] \in Bag
    BY <1>1, <2>1 DEF TypeOK
  <2>3. Support(buffer'[w]) = Support(failed[w]) \cup Support(buffer[w])
    BY <2>2, SupportOps
  <2>4. ASSUME NEW o \in Workers PROVE Held(o) \subseteq Held(o)'
    <3>1. o = w
      BY DEF OneWorker
    <3> QED
      BY <2>1, <2>3, <3>1 DEF Held
  <2> QED
    BY <1>1, <1>2, <2>1, <2>4, FreshFrame
<1>5. CASE failed[w] # EmptyBag /\ stopping[w]
  <2>1. Restarted(w)
    BY <1>5 DEF FinishFlush
  <2>2. CommittedFresh'
    BY <1>1, <1>2 DEF FreshInv, CommittedFresh
  <2> QED
    BY <1>1, <2>1, <2>2, RestartedFresh
<1> QED
  BY <1>3, <1>4, <1>5

\* Every step of a lone worker that is not cancelled keeps the invariant.
LEMMA FreshNext == OneWorker /\ ~Cancellable /\ FreshInv /\ [Next]_vars => FreshInv'
<1> SUFFICES ASSUME OneWorker, ~Cancellable, FreshInv, [Next]_vars PROVE FreshInv'
  OBVIOUS
<1>0. LossInv' /\ MatchInv' /\ TypeOK /\ TypeOK'
  BY LossNext, MatchNext DEF FreshInv, LossInv
<1> USE <1>0
<1>1. ASSUME UNCHANGED <<log, owner, position, committed, receipts, cache, buffer,
                         work, failed>>
      PROVE  FreshInv'
  <2>1. /\ FreshEvents' = FreshEvents
        /\ \A o \in Workers : Held(o)' = Held(o)
    BY <1>1 DEF FreshEvents, Counted, Held
  <2> QED
    BY <1>1, <2>1, FreshFrame
<1>2. ASSUME NEW e \in Events, RecordBehavior(e) PROVE FreshInv'
  BY <1>1, <1>2 DEF RecordBehavior, workerVars
<1>3. ASSUME NEW e \in Events, Publish(e) PROVE FreshInv'
  BY <1>3, PublishFresh DEF Publish, Appends
<1>4. ASSUME NEW w \in Workers, Poll(w) PROVE FreshInv'
  BY <1>4, PollFresh
<1>5. ASSUME NEW w \in Workers, NEW u \in Users, ClaimReceipts(w, u) PROVE FreshInv'
  BY <1>1, <1>5 DEF ClaimReceipts
<1>6. ASSUME NEW w \in Workers, CommitFeatures(w) PROVE FreshInv'
  BY <1>6, CommitFeaturesFresh
<1>7. ASSUME NEW w \in Workers, NEW u \in Users, ApplyFails(w, u) PROVE FreshInv'
  <2>1. /\ FailUser(w, u) /\ receipts \subseteq receipts'
        /\ UNCHANGED <<log, owner, position, committed, buffer, cache>>
    BY <1>7 DEF ApplyFails, SaveFeatures
  <2>2. FreshEvents \subseteq FreshEvents'
    BY <2>1, FreshGrows DEF FreshInv
  <2>3. \A o \in Workers : Held(o) \subseteq Held(o)'
    BY <2>1, FailUserHeld
  <2> QED
    BY <2>1, <2>2, <2>3, FreshFrame
<1>8. ASSUME NEW w \in Workers, RefreshCache(w) PROVE FreshInv'
  BY <1>8, RefreshFresh
<1>9. ASSUME NEW w \in Workers, RefreshFails(w) PROVE FreshInv'
  <2>1. PICK u : u = tx[w].user
    OBVIOUS
  <2>2. /\ FailUser(w, u) /\ u \in Users /\ tx[w].vec = v1[u]
        /\ UNCHANGED <<log, owner, position, committed, buffer, receipts>>
    BY <1>9, <2>1 DEF RefreshFails, FreshInv, MatchInv, VectorAtHand
  <2>3. /\ \A v \in cache'[u] : v \in cache[u] \/ v = v1[u]
        /\ \A x \in Users \ {u} : cache'[x] = cache[x]
    BY <1>9, <2>1, <2>2 DEF RefreshFails, TypeOK
  <2>4. FreshEvents \subseteq FreshEvents'
    BY <2>2, <2>3, FreshGrows DEF FreshInv
  <2>5. \A o \in Workers : Held(o) \subseteq Held(o)'
    BY <2>2, FailUserHeld
  <2> QED
    BY <2>2, <2>4, <2>5, FreshFrame
<1>10. ASSUME NEW w \in Workers, FinishFlush(w) PROVE FreshInv'
  BY <1>10, FinishFresh
<1>11. ASSUME NEW w \in Workers, CommitOffsets(w) PROVE FreshInv'
  BY <1>11, CommitOffsetsFresh
<1>12. ASSUME NEW w \in Workers, Crash(w) PROVE FreshInv'
  <2>1. Restarted(w) /\ UNCHANGED <<log, owner, committed, receipts, cache>>
    BY <1>12 DEF Crash
  <2>2. CommittedFresh'
    BY <2>1 DEF FreshInv, CommittedFresh, FreshEvents, Counted
  <2> QED
    BY <2>1, <2>2, RestartedFresh
<1>13. ASSUME NEW w \in Workers, Cancel(w) PROVE FreshInv'
  BY <1>13 DEF Cancel
<1>14. ASSUME Rebalance PROVE FreshInv'
  <2>1. position' = committed /\ UNCHANGED <<log, committed, receipts, cache>>
    BY <1>14 DEF Rebalance
  <2>2. CommittedFresh'
    BY <2>1 DEF FreshInv, CommittedFresh, FreshEvents, Counted
  <2>3. FetchedFresh'
    BY <2>1 DEF FetchedFresh, TypeOK
  <2> QED
    BY <2>2, <2>3 DEF FreshInv
<1>15. ASSUME NEW u \in Users, ExpireCache(u) PROVE FreshInv'
  <2>1. /\ UNCHANGED <<log, owner, position, committed, receipts, buffer, work, failed>>
        /\ \A x \in Users : cache'[x] \subseteq cache[x]
    BY <1>15 DEF ExpireCache, TypeOK
  <2>2. FreshEvents \subseteq FreshEvents'
    BY <2>1, FreshGrows DEF FreshInv
  <2>3. \A o \in Workers : Held(o)' = Held(o)
    BY <2>1 DEF Held
  <2> QED
    BY <2>1, <2>2, <2>3, FreshFrame
<1>16. CASE UNCHANGED vars
  BY <1>1, <1>16 DEF vars, workerVars
<1> QED
  BY <1>2, <1>3, <1>4, <1>5, <1>6, <1>7, <1>8, <1>9, <1>10, <1>11, <1>12, <1>13,
     <1>14, <1>15, <1>16
     DEF Next, Environment, WorkerNext, Step

\* Nothing is committed or fetched at the start.
LEMMA FreshInit == Init => FreshInv
<1> SUFFICES ASSUME Init PROVE FreshInv
  OBVIOUS
<1>1. FetchedFresh /\ CommittedFresh
  BY DEF Init, FetchedFresh, CommittedFresh
<1> QED
  BY <1>1, LossInit, MatchInit DEF FreshInv

\* Below the committed offset the cache has every event: a crash or a Redis
\* failure after the commit is repaired by the redelivery, although it finds
\* only duplicates (_apply_for_user refreshes whenever the user exists).  The
\* hypotheses exclude a second worker, whose older vector may be cached last,
\* and task cancellation.
THEOREM WorkerCacheReflectsCommitted ==
    ASSUME OneWorker, ~Cancellable
    PROVE  Spec => []CacheReflectsCommitted
<1>1. FreshInv => CacheReflectsCommitted
  BY DEF FreshInv, CommittedFresh, CacheReflectsCommitted, FreshEvents
<1>2. FreshInv /\ [Next]_vars => FreshInv'
  BY FreshNext
<1> QED
  BY <1>1, <1>2, FreshInit, PTL DEF Spec

-----------------------------------------------------------------------------
(* What a worker holds it has from the topic.                              *)

Published == {e \in Events : \E p \in Partitions : \E i \in 1..Len(log[p]) : log[p][i] = e}

OnlyPublished ==
    /\ receipts \subseteq Published
    /\ \A w \in Workers : /\ Held(w) \subseteq Published
                          /\ wpc[w] = "claimed" => tx[w].claimed \subseteq Published

PublishedInv == LossInv /\ OnlyPublished

\* A bag of fetched records holds nothing else.
LEMMA FetchedOnly ==
    ASSUME TypeOK, NEW p \in Partitions, NEW n \in Nat,
           position[p] + n <= Len(log[p])
    PROVE  Support(Fetched(p, n)) \subseteq Published
<1> DEFINE At(e) == {i \in (position[p] + 1)..(position[p] + n) : log[p][i] = e}
<1> SUFFICES ASSUME NEW e \in Support(Fetched(p, n)) PROVE e \in Published
  OBVIOUS
<1>1. e \in Events /\ Cardinality(At(e)) > 0
  BY DEF Support, Fetched
<1>2. At(e) # {}
  <2>1. PICK S : S = At(e)
    OBVIOUS
  <2>2. position[p] \in Nat
    BY DEF TypeOK
  <2>3. IsFiniteSet(S)
    <3>1. IsFiniteSet((position[p] + 1)..(position[p] + n))
      BY <2>2, FS_Interval
    <3>2. S \subseteq (position[p] + 1)..(position[p] + n)
      BY <2>1
    <3> QED
      BY <3>1, <3>2, FS_Subset
  <2>4. Cardinality(S) > 0
    BY <1>1, <2>1, Zenon
  <2>5. S # {}
    BY <2>3, <2>4, FS_EmptySet
  <2> QED
    BY <2>1, <2>5
<1>3. PICK i \in (position[p] + 1)..(position[p] + n) : log[p][i] = e
  BY <1>2
<1>4. position[p] \in Nat /\ Len(log[p]) \in Nat
  BY DEF TypeOK
<1>5. i \in 1..Len(log[p])
  BY <1>4
<1> QED
  BY <1>1, <1>3, <1>5 DEF Published

\* A step that takes events from the hands of workers only.
LEMMA PublishedFrame ==
    ASSUME OnlyPublished, Published \subseteq Published',
           receipts' \subseteq receipts \cup Published,
           \A w \in Workers :
              /\ Held(w)' \subseteq Held(w) \cup Published
              /\ wpc'[w] = "claimed" =>
                    \/ wpc[w] = "claimed" /\ tx'[w] = tx[w]
                    \/ tx'[w].claimed \subseteq Published
    PROVE  OnlyPublished'
<1>1. receipts' \subseteq Published'
  BY DEF OnlyPublished
<1>2. \A w \in Workers : /\ Held(w)' \subseteq Published'
                         /\ wpc'[w] = "claimed" => tx'[w].claimed \subseteq Published'
  BY DEF OnlyPublished
<1> QED
  BY <1>1, <1>2 DEF OnlyPublished

\* The records of the topic stay.
LEMMA AppendsPublished ==
    ASSUME TypeOK, NEW e \in Events, Appends(e)
    PROVE  Published \subseteq Published'
<1> SUFFICES ASSUME NEW x \in Published PROVE x \in Published'
  OBVIOUS
<1>1. PICK p \in Partitions : \E i \in 1..Len(log[p]) : log[p][i] = x
  BY DEF Published
<1>2. PICK i \in 1..Len(log[p]) : log[p][i] = x
  BY <1>1
<1>3. /\ Len(log[p]) \in Nat /\ Len(log'[p]) \in Nat /\ Len(log'[p]) >= Len(log[p])
      /\ log'[p][i] = log[p][i]
  <2>1. log'[p] \in Seq(Events)
    BY WorkerAssumption DEF Appends, TypeOK
  <2> QED
    BY <2>1, PublishAppends
<1>4. i \in 1..Len(log'[p]) /\ log'[p][i] = x
  BY <1>2, <1>3
<1> QED
  BY <1>4 DEF Published

\* Every step of a worker that is not cancelled keeps to the topic.
LEMMA PublishedNext == ~Cancellable /\ PublishedInv /\ [Next]_vars => PublishedInv'
<1> SUFFICES ASSUME ~Cancellable, PublishedInv, [Next]_vars PROVE PublishedInv'
  OBVIOUS
<1>0. /\ LossInv /\ LossInv' /\ TypeOK /\ OnlyPublished
      /\ \A w \in Workers : Held(w) \subseteq Published
  BY LossNext DEF PublishedInv, LossInv, OnlyPublished
<1>1. log' = log => Published' = Published
  BY DEF Published
<1>2. ASSUME log' = log, receipts' = receipts,
             \A w \in Workers :
                /\ Held(w)' \subseteq Held(w) \cup Published
                /\ wpc'[w] = "claimed" => wpc[w] = "claimed" /\ tx'[w] = tx[w]
      PROVE  OnlyPublished'
  BY <1>0, <1>1, <1>2, PublishedFrame
<1>3. ASSUME NEW e \in Events, RecordBehavior(e) PROVE OnlyPublished'
  BY <1>2, <1>3 DEF RecordBehavior, workerVars, Held
<1>4. ASSUME NEW e \in Events, Publish(e) PROVE OnlyPublished'
  <2>1. Appends(e)
    BY <1>4 DEF Publish, Appends
  <2>2. /\ UNCHANGED <<receipts, wpc, tx>>
        /\ \A w \in Workers : Held(w)' = Held(w)
    BY <2>1 DEF Appends, workerVars, Held
  <2> QED
    BY <1>0, <2>1, <2>2, AppendsPublished, PublishedFrame
<1>5. ASSUME NEW w \in Workers, Poll(w) PROVE OnlyPublished'
  <2>1. PICK p \in Partitions, n \in 0..BatchSize :
           /\ position[p] + n <= Len(log[p])
           /\ \/ /\ buffer' = [buffer EXCEPT ![w] = Plus(buffer[w], Fetched(p, n))]
                 /\ UNCHANGED <<wpc, work, failed, applied, tx>>
              \/ BeginFlush(w, Plus(buffer[w], Fetched(p, n)))
    BY <1>5 DEF Poll
  <2>2. PICK b : b = Plus(buffer[w], Fetched(p, n))
    OBVIOUS
  <2>3. n \in Nat /\ buffer[w] \in Bag /\ Fetched(p, n) \in Bag
    BY <1>0, FetchedLemma, WorkerAssumption DEF TypeOK
  <2>4. b \in Bag /\ Support(b) = Support(buffer[w]) \cup Support(Fetched(p, n))
    BY <2>2, <2>3, BagOps, SupportOps
  <2>5. Support(b) \subseteq Published
    BY <1>0, <2>1, <2>3, <2>4, FetchedOnly DEF Held
  <2>6. /\ log' = log /\ receipts' = receipts
        /\ \A o \in Workers \ {w} : /\ buffer'[o] = buffer[o] /\ work'[o] = work[o]
                                    /\ failed'[o] = failed[o] /\ wpc'[o] = wpc[o]
                                    /\ tx'[o] = tx[o]
    BY <1>0, <1>5, <2>1 DEF Poll, BeginFlush, TypeOK
  <2>7. Held(w)' \subseteq Held(w) \cup Published /\ wpc'[w] # "claimed"
    <3>1. CASE /\ buffer' = [buffer EXCEPT ![w] = b]
               /\ UNCHANGED <<wpc, work, failed, applied, tx>>
      <4>1. buffer'[w] = b
        BY <1>0, <3>1 DEF TypeOK
      <4> QED
        BY <1>5, <2>5, <3>1, <4>1 DEF Held, Poll
    <3>2. CASE BeginFlush(w, b)
      <4>1. /\ buffer'[w] = EmptyBag /\ failed'[w] = EmptyBag
            /\ work'[w] = Part(b, Events \ Skipped) /\ wpc'[w] = "apply"
        BY <1>0, <3>2 DEF BeginFlush, TypeOK
      <4>2. Support(work'[w]) \subseteq Support(b) /\ Support(EmptyBag) = {}
        BY <2>4, <4>1, SupportOps
      <4> QED
        BY <2>5, <4>1, <4>2 DEF Held
    <3> QED
      BY <2>1, <2>2, <3>1, <3>2
  <2>8. \A o \in Workers \ {w} : Held(o)' = Held(o)
    BY <2>6 DEF Held
  <2> QED
    BY <1>2, <2>6, <2>7, <2>8
<1>6. ASSUME NEW w \in Workers, NEW u \in Users, ClaimReceipts(w, u) PROVE OnlyPublished'
  <2>1. UNCHANGED <<log, receipts, buffer, work, failed>>
    BY <1>6 DEF ClaimReceipts
  <2>2. \A o \in Workers : Held(o)' = Held(o)
    BY <2>1 DEF Held
  <2>3. /\ tx'[w].claimed = NewEvents(w, u)
        /\ \A o \in Workers \ {w} : wpc'[o] = wpc[o] /\ tx'[o] = tx[o]
    BY <1>0, <1>6 DEF ClaimReceipts, TypeOK
  <2>4. NewEvents(w, u) \subseteq Support(work[w])
    <3>1. work[w] \in Bag
      BY <1>0 DEF TypeOK
    <3> QED
      BY <3>1, SupportOps DEF NewEvents, UserEvents
  <2>5. tx'[w].claimed \subseteq Published
    BY <1>0, <2>3, <2>4 DEF Held
  <2> QED
    BY <1>0, <1>1, <2>1, <2>2, <2>3, <2>5, PublishedFrame
<1>7. ASSUME NEW w \in Workers, NEW u, NextUser(w, u), buffer' = buffer,
             Support(failed'[w]) \subseteq Held(w),
             \A o \in Workers \ {w} : failed'[o] = failed[o],
             log' = log, receipts' \subseteq receipts \cup Published
      PROVE  OnlyPublished'
  <2>1. /\ Support(work'[w]) \subseteq Support(work[w])
        /\ \A o \in Workers \ {w} : work'[o] = work[o] /\ wpc'[o] = wpc[o] /\ tx'[o] = tx[o]
        /\ wpc'[w] = "apply"
    BY <1>0, <1>7, NextUserHeld
  <2>2. \A o \in Workers : Held(o)' \subseteq Held(o)
    <3> SUFFICES ASSUME NEW o \in Workers PROVE Held(o)' \subseteq Held(o)
      OBVIOUS
    <3>1. CASE o = w
      BY <1>7, <2>1, <3>1 DEF Held
    <3>2. CASE o # w
      BY <1>7, <2>1, <3>2 DEF Held
    <3> QED
      BY <3>1, <3>2
  <2> QED
    BY <1>0, <1>1, <1>7, <2>1, <2>2, PublishedFrame
<1>8. ASSUME NEW w \in Workers, NEW u, FailUser(w, u), buffer' = buffer, log' = log,
             receipts' \subseteq receipts \cup Published
      PROVE  OnlyPublished'
  <2>1. NextUser(w, u) /\ failed' = [failed EXCEPT ![w] = Plus(@, UserEvents(w, u))]
    BY <1>8 DEF FailUser
  <2>2. failed[w] \in Bag /\ UserEvents(w, u) \in Bag /\ work[w] \in Bag
    BY <1>0, BagOps DEF TypeOK, UserEvents
  <2>3. /\ failed'[w] = Plus(failed[w], UserEvents(w, u))
        /\ \A o \in Workers \ {w} : failed'[o] = failed[o]
    BY <1>0, <2>1 DEF TypeOK
  <2>4. Support(UserEvents(w, u)) \subseteq Support(work[w])
    BY <2>2, SupportOps DEF UserEvents
  <2>5. Support(failed'[w]) \subseteq Held(w)
    BY <2>2, <2>3, <2>4, SupportOps DEF Held
  <2> QED
    BY <1>7, <1>8, <2>1, <2>3, <2>5
<1>9. ASSUME NEW w \in Workers, wpc[w] = "claimed", SaveFeatures(w)
      PROVE  receipts' \subseteq receipts \cup Published
  BY <1>0, <1>9 DEF SaveFeatures, OnlyPublished
<1>10. ASSUME NEW w \in Workers, CommitFeatures(w) PROVE OnlyPublished'
  <2>1. /\ wpc[w] = "claimed" /\ SaveFeatures(w)
        /\ UNCHANGED <<log, buffer, failed>>
    BY <1>10 DEF CommitFeatures
  <2>2. receipts' \subseteq receipts \cup Published
    BY <1>9, <2>1
  <2>3. CASE NeedsRefresh(w)
    <3>1. /\ tx' = [tx EXCEPT ![w].vec = NewVector(w)]
          /\ wpc' = [wpc EXCEPT ![w] = "refresh"]
          /\ work' = work
      BY <1>10, <2>3 DEF CommitFeatures
    <3>2. /\ wpc'[w] = "refresh"
          /\ \A o \in Workers \ {w} : wpc'[o] = wpc[o] /\ tx'[o] = tx[o]
      BY <1>0, <3>1 DEF TypeOK
    <3>3. \A o \in Workers : Held(o)' = Held(o)
      BY <2>1, <3>1 DEF Held
    <3> QED
      BY <1>0, <1>1, <2>1, <2>2, <3>2, <3>3, PublishedFrame
  <2>4. CASE ~NeedsRefresh(w)
    <3>1. NextUser(w, tx[w].user)
      BY <1>10, <2>4 DEF CommitFeatures
    <3>2. Support(failed'[w]) \subseteq Held(w)
      BY <2>1 DEF Held
    <3> QED
      BY <1>7, <2>1, <2>2, <3>1, <3>2
  <2> QED
    BY <2>3, <2>4
<1>11. ASSUME NEW w \in Workers, NEW u \in Users, ApplyFails(w, u) PROVE OnlyPublished'
  <2>1. FailUser(w, u) /\ UNCHANGED <<log, buffer>>
    BY <1>11 DEF ApplyFails
  <2>2. receipts' \subseteq receipts \cup Published
    BY <1>9, <1>11 DEF ApplyFails
  <2> QED
    BY <1>8, <2>1, <2>2
<1>12. ASSUME NEW w \in Workers, RefreshCache(w) PROVE OnlyPublished'
  <2>1. /\ NextUser(w, tx[w].user)
        /\ UNCHANGED <<log, buffer, receipts, failed>>
    BY <1>12 DEF RefreshCache
  <2>2. Support(failed'[w]) \subseteq Held(w)
    BY <2>1 DEF Held
  <2> QED
    BY <1>7, <2>1, <2>2
<1>13. ASSUME NEW w \in Workers, RefreshFails(w) PROVE OnlyPublished'
  <2>1. FailUser(w, tx[w].user) /\ UNCHANGED <<log, buffer, receipts>>
    BY <1>13 DEF RefreshFails
  <2> QED
    BY <1>8, <2>1
<1>14. ASSUME NEW w \in Workers, Restarted(w), log' = log, receipts' = receipts
       PROVE  OnlyPublished'
  <2>1. /\ buffer'[w] = EmptyBag /\ work'[w] = EmptyBag /\ failed'[w] = EmptyBag
        /\ wpc'[w] = "poll"
        /\ \A o \in Workers \ {w} : /\ buffer'[o] = buffer[o] /\ work'[o] = work[o]
                                    /\ failed'[o] = failed[o] /\ wpc'[o] = wpc[o]
                                    /\ tx'[o] = tx[o]
    BY <1>0, <1>14 DEF Restarted, TypeOK
  <2>2. Held(w)' \subseteq Held(w)
    BY <2>1, SupportOps DEF Held
  <2>3. \A o \in Workers \ {w} : Held(o)' = Held(o)
    BY <2>1 DEF Held
  <2> QED
    BY <1>2, <1>14, <2>1, <2>2, <2>3
<1>15. ASSUME NEW w \in Workers, FinishFlush(w) PROVE OnlyPublished'
  <2>1. UNCHANGED <<log, receipts>> /\ wpc[w] = "apply"
    BY <1>15 DEF FinishFlush
  <2>2. CASE failed[w] = EmptyBag
    <3>1. /\ wpc' = [wpc EXCEPT ![w] = "commit"]
          /\ UNCHANGED <<buffer, work, failed, tx>>
      BY <1>15, <2>2 DEF FinishFlush
    <3>2. \A o \in Workers : /\ Held(o)' = Held(o) /\ tx'[o] = tx[o]
                             /\ wpc'[o] = wpc[o] \/ wpc'[o] = "commit"
      BY <1>0, <3>1 DEF Held, TypeOK
    <3> QED
      BY <1>2, <2>1, <3>2
  <2>3. CASE failed[w] # EmptyBag /\ ~stopping[w]
    <3>1. /\ wpc' = [wpc EXCEPT ![w] = "poll"]
          /\ buffer' = [buffer EXCEPT ![w] = Plus(failed[w], @)]
          /\ failed' = [failed EXCEPT ![w] = EmptyBag]
          /\ UNCHANGED <<work, tx>>
      BY <1>15, <2>3 DEF FinishFlush
    <3>2. /\ wpc'[w] = "poll" /\ buffer'[w] = Plus(failed[w], buffer[w])
          /\ failed'[w] = EmptyBag
          /\ \A o \in Workers \ {w} : /\ wpc'[o] = wpc[o] /\ buffer'[o] = buffer[o]
                                      /\ failed'[o] = failed[o]
      BY <1>0, <3>1 DEF TypeOK
    <3>3. /\ Support(buffer'[w]) = Support(failed[w]) \cup Support(buffer[w])
          /\ Support(EmptyBag) = {}
      <4>1. failed[w] \in Bag /\ buffer[w] \in Bag
        BY <1>0 DEF TypeOK
      <4> QED
        BY <3>2, <4>1, SupportOps
    <3>4. Held(w)' \subseteq Held(w)
      BY <3>1, <3>2, <3>3 DEF Held
    <3>5. \A o \in Workers \ {w} : Held(o)' = Held(o)
      BY <3>1, <3>2 DEF Held
    <3> QED
      BY <1>2, <2>1, <3>1, <3>2, <3>4, <3>5
  <2>4. CASE failed[w] # EmptyBag /\ stopping[w]
    BY <1>14, <1>15, <2>1, <2>4 DEF FinishFlush
  <2> QED
    BY <2>2, <2>3, <2>4
<1>16. ASSUME NEW w \in Workers, CommitOffsets(w) PROVE OnlyPublished'
  <2>1. UNCHANGED <<log, receipts>>
    BY <1>16 DEF CommitOffsets
  <2>2. CASE stopping[w]
    BY <1>14, <1>16, <2>1, <2>2 DEF CommitOffsets
  <2>3. CASE ~stopping[w]
    <3>1. /\ wpc' = [wpc EXCEPT ![w] = "poll"]
          /\ UNCHANGED <<buffer, work, failed, tx>>
      BY <1>16, <2>3 DEF CommitOffsets
    <3>2. \A o \in Workers : /\ Held(o)' = Held(o) /\ tx'[o] = tx[o]
                             /\ wpc'[o] = wpc[o] \/ wpc'[o] = "poll"
      BY <1>0, <3>1 DEF Held, TypeOK
    <3> QED
      BY <1>2, <2>1, <3>2
  <2> QED
    BY <2>2, <2>3
<1>17. ASSUME NEW w \in Workers, Crash(w) PROVE OnlyPublished'
  BY <1>14, <1>17 DEF Crash
<1>18. ASSUME NEW w \in Workers, Cancel(w) PROVE OnlyPublished'
  BY <1>18 DEF Cancel
<1>19. ASSUME Rebalance PROVE OnlyPublished'
  <2>1. /\ UNCHANGED <<log, receipts, wpc, tx>>
        /\ \A w \in Workers : Held(w)' = Held(w)
    BY <1>19 DEF Rebalance, Held
  <2> QED
    BY <1>2, <2>1
<1>20. ASSUME NEW u \in Users, ExpireCache(u) PROVE OnlyPublished'
  <2>1. /\ UNCHANGED <<log, receipts, wpc, tx>>
        /\ \A w \in Workers : Held(w)' = Held(w)
    BY <1>20 DEF ExpireCache, Held
  <2> QED
    BY <1>2, <2>1
<1>21. ASSUME UNCHANGED vars PROVE OnlyPublished'
  <2>1. /\ UNCHANGED <<log, receipts, wpc, tx>>
        /\ \A w \in Workers : Held(w)' = Held(w)
    BY <1>21 DEF vars, workerVars, Held
  <2> QED
    BY <1>2, <2>1
<1>22. OnlyPublished'
  BY <1>3, <1>4, <1>5, <1>6, <1>10, <1>11, <1>12, <1>13, <1>15, <1>16, <1>17, <1>18,
     <1>19, <1>20, <1>21
     DEF Next, Environment, WorkerNext, Step
<1> QED
  BY <1>0, <1>22 DEF PublishedInv

\* Nothing is fetched at the start.
LEMMA PublishedInit == Init => PublishedInv
<1> SUFFICES ASSUME Init PROVE OnlyPublished
  BY LossInit DEF PublishedInv
<1>1. \A w \in Workers : Held(w) = {}
  <2>1. \A w \in Workers :
           buffer[w] = EmptyBag /\ work[w] = EmptyBag /\ failed[w] = EmptyBag
    BY DEF Init
  <2> QED
    BY <2>1, SupportOps DEF Held
<1>2. receipts = {} /\ \A w \in Workers : wpc[w] = "poll"
  BY DEF Init
<1> QED
  BY <1>1, <1>2 DEF OnlyPublished

-----------------------------------------------------------------------------
(* What a system that publishes by other means needs of a worker.          *)

\* A record that reaches the topic disturbs none of the invariants, whatever
\* the bound on the length of the log.
LEMMA AppendsQuiet ==
    ASSUME NEW e \in Events, Appends(e), PublishedInv
    PROVE  PublishedInv'
<1>1. TypeOK /\ LossInv /\ OnlyPublished
  BY DEF PublishedInv, LossInv
<1>2. TypeOK'
  <2>1. log' \in [Partitions -> Seq(Events)]
    BY <1>1, WorkerAssumption DEF Appends, TypeOK
  <2> QED
    BY <1>1, <2>1 DEF Appends, workerVars, TypeOK
<1>3. LossInv'
  BY <1>1, <1>2, PublishLoss
<1>4. UNCHANGED <<receipts, wpc, tx>> /\ \A w \in Workers : Held(w)' = Held(w)
  BY DEF Appends, workerVars, Held
<1>5. OnlyPublished'
  BY <1>1, <1>4, AppendsPublished, PublishedFrame
<1> QED
  BY <1>3, <1>5 DEF PublishedInv

\* Nor does it touch a vector.
LEMMA AppendsMatch ==
    ASSUME NEW e \in Events, Appends(e), PublishedInv', MatchInv
    PROVE  MatchInv'
<1>1. TypeOK' /\ OnceInv
  BY DEF PublishedInv, LossInv, MatchInv
<1>2. UNCHANGED <<receipts, v1, wpc, tx>>
  BY DEF Appends, workerVars
<1>3. OnceInv'
  BY <1>1, <1>2, OnceFrame
<1> QED
  BY <1>2, <1>3, MatchFrame

\* The topic and the behaviour rows are not the worker's.
LEMMA WorkerLeaves == WorkerNext => UNCHANGED <<log, canonical>>
<1> SUFFICES ASSUME WorkerNext PROVE UNCHANGED <<log, canonical>>
  OBVIOUS
<1>1. ASSUME NEW w \in Workers, Step(w) PROVE UNCHANGED <<log, canonical>>
  BY <1>1 DEF Step, Poll, ClaimReceipts, CommitFeatures, RefreshCache, FinishFlush,
              CommitOffsets
<1>2. ASSUME NEW w \in Workers, RefreshFails(w) \/ Crash(w) \/ Cancel(w)
      PROVE  UNCHANGED <<log, canonical>>
  BY <1>2 DEF RefreshFails, Crash, Cancel
<1>3. ASSUME NEW w \in Workers, NEW u \in Users, ApplyFails(w, u)
      PROVE  UNCHANGED <<log, canonical>>
  BY <1>3 DEF ApplyFails
<1>4. ASSUME Rebalance \/ \E u \in Users : ExpireCache(u)
      PROVE  UNCHANGED <<log, canonical>>
  BY <1>4 DEF Rebalance, ExpireCache
<1> QED
  BY <1>1, <1>2, <1>3, <1>4 DEF WorkerNext

\* The vectors after some events of u are added, each once.
Added(u, S) ==
    v1' = [v1 EXCEPT ![u] = [e \in Events |-> @[e] + (IF e \in S THEN 1 ELSE 0)]]

\* The commit of a lone worker adds published events its vector lacks.
LEMMA SaveAdds ==
    ASSUME OneWorker, MatchInv, PublishedInv, NEW w \in Workers, wpc[w] = "claimed",
           SaveFeatures(w)
    PROVE  \/ v1' = v1
           \/ \E u \in Users, S \in SUBSET Published :
                 /\ S # {} /\ Added(u, S)
                 /\ \A e \in S : UserOf[e] = u /\ v1[u][e] = 0
<1>1. PICK u, S : u = tx[w].user /\ S = Weighted(w) \ ZeroWeight
  OBVIOUS
<1>2. /\ TypeOK /\ u \in Users /\ tx[w].vec = v1[u]
      /\ tx[w].claimed \cap receipts = {}
      /\ \A e \in tx[w].claimed : UserOf[e] = u
  BY <1>1 DEF MatchInv, OnceInv, ClaimsSound, VectorAtHand
<1>3. S \subseteq tx[w].claimed /\ S \subseteq Published
  BY <1>1 DEF Weighted, PublishedInv, OnlyPublished
<1>4. \A e \in S : e \in Events /\ UserOf[e] = u /\ v1[u][e] = 0
  <2>1. \A e \in S : e \in Events /\ UserOf[e] = u /\ ~Counted(e)
    BY <1>2, <1>3 DEF Published, Counted
  <2> QED
    BY <2>1 DEF MatchInv, VectorsMatchReceipts
<1>5. v1[u] \in Bag
  BY <1>2 DEF TypeOK
<1>6. NewVector(w) = [e \in Events |-> v1[u][e] + (IF e \in S THEN 1 ELSE 0)]
  BY <1>1, <1>2 DEF NewVector, Plus, Once
<1>7. CASE Weighted(w) = {}
  BY <1>7 DEF SaveFeatures
<1>8. CASE Weighted(w) # {}
  <2>1. v1' = [v1 EXCEPT ![u] = NewVector(w)]
    BY <1>1, <1>8 DEF SaveFeatures
  <2>2. Added(u, S)
    BY <1>6, <2>1 DEF Added
  <2>3. CASE S = {}
    <3>1. NewVector(w) = v1[u]
      BY <1>5, <1>6, <2>3 DEF Bag
    <3> QED
      BY <1>2, <2>1, <3>1 DEF TypeOK
  <2>4. CASE S # {}
    BY <1>2, <1>3, <1>4, <2>2, <2>4
  <2> QED
    BY <2>3, <2>4
<1> QED
  BY <1>7, <1>8

\* No other step of a lone worker touches the vectors.
LEMMA WorkerAdds ==
    ASSUME OneWorker, MatchInv, PublishedInv, WorkerNext
    PROVE  \/ v1' = v1
           \/ \E u \in Users, S \in SUBSET Published :
                 /\ S # {} /\ Added(u, S)
                 /\ \A e \in S : UserOf[e] = u /\ v1[u][e] = 0
<1>1. ASSUME NEW w \in Workers, CommitFeatures(w)
      PROVE  wpc[w] = "claimed" /\ SaveFeatures(w)
  BY <1>1 DEF CommitFeatures
<1>2. ASSUME NEW w \in Workers, NEW u \in Users, ApplyFails(w, u)
      PROVE  v1' = v1 \/ (wpc[w] = "claimed" /\ SaveFeatures(w))
  BY <1>2 DEF ApplyFails
<1>3. ASSUME NEW w \in Workers,
             \/ Poll(w) \/ (\E u \in Users : ClaimReceipts(w, u)) \/ RefreshCache(w)
             \/ FinishFlush(w) \/ CommitOffsets(w) \/ RefreshFails(w) \/ Crash(w)
             \/ Cancel(w)
      PROVE  v1' = v1
  BY <1>3 DEF Poll, ClaimReceipts, RefreshCache, FinishFlush, CommitOffsets,
              RefreshFails, Crash, Cancel
<1>4. ASSUME Rebalance \/ \E u \in Users : ExpireCache(u) PROVE v1' = v1
  BY <1>4 DEF Rebalance, ExpireCache
<1> QED
  BY <1>1, <1>2, <1>3, <1>4, SaveAdds DEF WorkerNext, Step
=============================================================================
