------------------------- MODULE PreferencesProofs -------------------------
(***************************************************************************)
(* Proofs about Preferences, for any number of workers, calls, rows and    *)
(* failures: what is stored about a user follows the events that have      *)
(* their receipts, and what is cached and answered follows what is stored. *)
(***************************************************************************)
EXTENDS Preferences, FiniteSetTheorems, TLAPS

-----------------------------------------------------------------------------
(* Types.  The record of a task has the fields its kind needs.             *)

Pre(r) == r.pc \in {"vectors", "views", "prefs", "commit", "upsert"}
Post(r) == r.pc \in {"delete", "set", "setv1", "setv2", "pref", "again"}

Base == {"kind", "events", "locks", "stale", "pc"}

\* What ReadViews has added.
ViewsRead(r) == {"topics", "at"} \subseteq DOMAIN r /\ r.at \in 0..hour

ApplyOK(r) ==
    /\ Base \cup {"v1", "v2", "held"} \subseteq DOMAIN r
    /\ r.pc \in {"vectors", "views", "prefs", "commit", "delete", "set", "setv1",
                 "setv2", "again"}
    /\ r.events \subseteq Rows
    /\ r.v1 \in Int /\ r.v2 \in Nat \cup {None}
    /\ Pre(r) /\ Weighs(r.events) => r.v2 \in Nat
    /\ r.pc = "vectors" => Weighs(r.events)
    /\ r.pc \in {"views", "prefs"} => r.events \cap Views # {}
    /\ r.pc \in {"prefs", "commit"} /\ r.events \cap Views # {} => ViewsRead(r)

DueOK(r) ==
    /\ Base \subseteq DOMAIN r
    /\ r.pc \in {"views", "prefs", "commit", "delete"}
    /\ r.events = {}
    /\ r.pc \in {"prefs", "commit"} => ViewsRead(r)

ReplayOK(r) ==
    /\ Base \cup {"v2"} \subseteq DOMAIN r
    /\ r.pc \in {"upsert", "delete"}
    /\ r.events = {}
    /\ r.v2 \in Nat

RebuildOK(r) ==
    /\ Base \cup {"v1", "held"} \subseteq DOMAIN r
    /\ r.pc \in {"upsert", "pref"}
    /\ r.events = {}
    /\ r.v1 \in Int

TaskOK(r) ==
    \/ r = NoTask
    \/ r.kind = "apply" /\ ApplyOK(r)
    \/ r.kind = "due" /\ DueOK(r)
    \/ r.kind = "replay" /\ ReplayOK(r)
    \/ r.kind = "rebuild" /\ RebuildOK(r)

ReadFields == {"pc", "schema", "source", "value", "v1s", "v2s"}

ReadOK ==
    \/ reading \in {NoRead, Settled}
    \/ /\ ReadFields \subseteq DOMAIN reading
       /\ reading.pc \in {"v2", "v1", "pref", "row2", "row1", "done"}

BehaviorOK ==
    /\ behavior \in Seq([kind : Kinds, at : 0..MaxHour])
    /\ hour \in 0..MaxHour
    /\ \A i \in Rows : behavior[i].at <= hour

StoredOK ==
    /\ counted \subseteq Rows
    /\ vector1 \in Int \cup {None}
    /\ vector2 \in Nat \cup {None}
    /\ recent \in Nat \cup {None}

KeysOK ==
    /\ {"v2", "v1", "pref"} \subseteq DOMAIN keys

TasksOK == DOMAIN task = Tasks /\ \A t \in Tasks : TaskOK(task[t])

PrefTypeOK == BehaviorOK /\ StoredOK /\ KeysOK /\ TasksOK /\ ReadOK

-----------------------------------------------------------------------------
(* Rows and what they add up to.                                           *)

\* What a row is does not change while rows are added.
LEMMA RowsStay ==
    ASSUME BehaviorOK, BehaviorOK', \/ behavior' = behavior
                        \/ \E r : behavior' = Append(behavior, r)
    PROVE  /\ Rows \subseteq Rows'
           /\ \A i \in Rows : behavior'[i] = behavior[i]
           /\ \A ks : OfKind(ks)' \cap Rows = OfKind(ks)
<1>1. behavior \in Seq([kind : Kinds, at : 0..MaxHour])
  BY DEF BehaviorOK
<1>2. Rows \subseteq Rows' /\ \A i \in Rows : behavior'[i] = behavior[i]
  BY <1>1 DEF Rows
<1> QED
  BY <1>2 DEF OfKind

\* How many rows of some kinds there are in a set.
Count(S, ks) == Cardinality(S \cap OfKind(ks))

\* Counts are numbers, and those of disjoint sets add up.
LEMMA CountFacts ==
    ASSUME BehaviorOK, NEW ks
    PROVE  /\ \A S \in SUBSET Rows : Count(S, ks) \in Nat
           /\ \A S, T \in SUBSET Rows :
                 S \cap T = {} => Count(S \cup T, ks) = Count(S, ks) + Count(T, ks)
<1>1. IsFiniteSet(Rows)
  <2>1. Len(behavior) \in Int
    BY DEF BehaviorOK
  <2> QED
    BY <2>1, FS_Interval DEF Rows
<1>2. ASSUME NEW S \in SUBSET Rows
      PROVE  IsFiniteSet(S \cap OfKind(ks)) /\ Cardinality(S \cap OfKind(ks)) \in Nat
  BY <1>1, FS_Subset, FS_CardinalityType
<1>3. ASSUME NEW S \in SUBSET Rows, NEW T \in SUBSET Rows, S \cap T = {}
      PROVE  Count(S \cup T, ks) = Count(S, ks) + Count(T, ks)
  <2>1. PICK A, B : A = S \cap OfKind(ks) /\ B = T \cap OfKind(ks)
    OBVIOUS
  <2>2. (S \cup T) \cap OfKind(ks) = A \cup B /\ A \cap B = {}
    BY <1>3, <2>1
  <2>3. /\ IsFiniteSet(A) /\ Cardinality(A) \in Nat
        /\ IsFiniteSet(B) /\ Cardinality(B) \in Nat
    BY <1>2, <2>1
  <2>4. Cardinality(A \cup B) = Cardinality(A) + Cardinality(B) - Cardinality(A \cap B)
    BY <2>3, FS_Union
  <2>5. Cardinality(A \cap B) = 0
    BY <2>2, FS_EmptySet, Zenon
  <2>6. Cardinality(A \cup B) = Cardinality(A) + Cardinality(B)
    BY <2>3, <2>4, <2>5
  <2>7. /\ Count(S \cup T, ks) = Cardinality(A \cup B)
        /\ Count(S, ks) = Cardinality(A) /\ Count(T, ks) = Cardinality(B)
    BY <2>1, <2>2, Zenon DEF Count
  <2> QED
    BY <2>6, <2>7
<1> QED
  BY <1>2, <1>3 DEF Count

\* Totals are integers, views count for nothing, and totals of disjoint sets
\* add up.
LEMMA TotalFacts ==
    ASSUME BehaviorOK
    PROVE  /\ \A S \in SUBSET Rows : Total(S) \in Int
           /\ \A S \in SUBSET Rows : ~Weighs(S) => Total(S) = 0
           /\ \A S, T \in SUBSET Rows :
                 S \cap T = {} => Total(S \cup T) = Total(S) + Total(T)
<1> DEFINE up == {"like", "read"}
           down == {"unlike"}
<1>1. \A S : Total(S) = Count(S, up) - Count(S, down)
  BY DEF Total, Count
<1> HIDE DEF up, down
<1>2. \A S \in SUBSET Rows : Count(S, up) \in Nat /\ Count(S, down) \in Nat
  BY CountFacts
<1>3. ASSUME NEW S \in SUBSET Rows PROVE Total(S) \in Int
  BY <1>1, <1>2
<1>4. ASSUME NEW S \in SUBSET Rows, ~Weighs(S) PROVE Total(S) = 0
  <2>1. S \cap OfKind(up) = {} /\ S \cap OfKind(down) = {}
    BY <1>4 DEF Weighs, OfKind, up, down
  <2>2. Count(S, up) = 0 /\ Count(S, down) = 0
    BY <2>1, FS_EmptySet, Zenon DEF Count
  <2> QED
    BY <1>1, <2>2
<1>5. ASSUME NEW S \in SUBSET Rows, NEW T \in SUBSET Rows, S \cap T = {}
      PROVE  Total(S \cup T) = Total(S) + Total(T)
  <2>1. /\ Count(S \cup T, up) = Count(S, up) + Count(T, up)
        /\ Count(S \cup T, down) = Count(S, down) + Count(T, down)
    BY <1>5, CountFacts
  <2>2. /\ Count(S, up) \in Nat /\ Count(S, down) \in Nat
        /\ Count(T, up) \in Nat /\ Count(T, down) \in Nat
    BY <1>2
  <2> QED
    BY <1>1, <2>1, <2>2
<1> QED
  BY <1>3, <1>4, <1>5

\* Totals of disjoint sets add up,
LEMMA TotalAdds ==
    BehaviorOK => \A S, T \in SUBSET Rows :
                     S \cap T = {} => Total(S \cup T) = Total(S) + Total(T)
  BY TotalFacts

\* and so they do in the state after a step.
LEMMA TotalAddsNext ==
    (BehaviorOK => \A S, T \in SUBSET Rows :
                      S \cap T = {} => Total(S \cup T) = Total(S) + Total(T))'
  BY TotalAdds, PTL

\* The total of some rows stays the same while rows are added.
LEMMA TotalStays ==
    ASSUME BehaviorOK, BehaviorOK', NEW S, S \subseteq Rows,
           \/ behavior' = behavior
           \/ \E r : behavior' = Append(behavior, r)
    PROVE  Total(S)' = Total(S)
<1>1. PICK T : T = S
  OBVIOUS
<1>2. \A ks : T \cap OfKind(ks)' = T \cap OfKind(ks)
  BY <1>1, RowsStay
<1> QED
  BY <1>1, <1>2 DEF Total

-----------------------------------------------------------------------------
(* Type correctness.                                                       *)

\* A record that fits its task still does when rows are added and time passes.
LEMMA TaskOKStays ==
    ASSUME BehaviorOK, BehaviorOK', hour <= hour',
           \/ behavior' = behavior
           \/ \E r : behavior' = Append(behavior, r),
           NEW q, TaskOK(q)
    PROVE  TaskOK(q)'
<1>1. PICK r : r = q
  OBVIOUS
<1>2. Rows \subseteq Rows' /\ \A ks : OfKind(ks)' \cap Rows = OfKind(ks)
  BY RowsStay
<1>3. \A S \in SUBSET Rows : /\ Weighs(S)' <=> Weighs(S)
                             /\ S \cap Views' = S \cap Views
  BY <1>2 DEF Weighs, Views
<1>4. ViewsRead(r) => ViewsRead(r)'
  BY DEF ViewsRead, BehaviorOK
<1>5. ApplyOK(r) => ApplyOK(r)'
  <2> SUFFICES ASSUME ApplyOK(r) PROVE ApplyOK(r)'
    OBVIOUS
  <2>1. r.events \in SUBSET Rows
    BY DEF ApplyOK
  <2> QED
    BY <1>2, <1>3, <1>4, <2>1 DEF ApplyOK, Pre
<1>6. DueOK(r) => DueOK(r)'
  BY <1>4 DEF DueOK
<1>7. /\ ReplayOK(r) => ReplayOK(r)'
      /\ RebuildOK(r) => RebuildOK(r)'
  BY DEF ReplayOK, RebuildOK
<1> QED
  BY <1>1, <1>5, <1>6, <1>7 DEF TaskOK, NoTask

\* A step of one task.
LEMMA OneTask ==
    ASSUME TasksOK, UNCHANGED <<behavior, hour>>, NEW t \in Tasks, NEW q,
           task' = [task EXCEPT ![t] = q], TaskOK(q)
    PROVE  TasksOK'
<1>1. \A r : TaskOK(r)' <=> TaskOK(r)
  BY DEF TaskOK, NoTask, ApplyOK, DueOK, ReplayOK, RebuildOK, ViewsRead, Weighs, Views,
         OfKind, Rows
<1>2. DOMAIN task' = Tasks /\ task'[t] = q /\ \A o \in Tasks \ {t} : task'[o] = task[o]
  BY DEF TasksOK
<1> QED
  BY <1>1, <1>2 DEF TasksOK

\* The records a task can have when it starts.
LEMMA StartOK ==
    ASSUME PrefTypeOK, PreferencesAssumption, NEW t \in Tasks
    PROVE  /\ \A S \in SUBSET (Rows \ counted) : Claim(t, S) => TasksOK'
           /\ Due(t) => TasksOK'
           /\ RebuildV2(t) => TasksOK'
           /\ Aggregate(t) => TasksOK'
<1>0. BehaviorOK /\ StoredOK /\ TasksOK /\ Len(behavior) \in Nat
  BY DEF PrefTypeOK, BehaviorOK
<1>1. ASSUME NEW S \in SUBSET (Rows \ counted), Claim(t, S) PROVE TasksOK'
  <2>1. PICK w, v, u, pc, h :
           /\ w = Weight(vector1) + Total(S)
           /\ h = [held EXCEPT !.events = @ \cup S]
           /\ v = IF Weighs(S) THEN Len(behavior) ELSE vector2
           /\ pc = IF Weighs(S) THEN "vectors" ELSE "views"
           /\ u = [kind |-> "apply", events |-> S, locks |-> {}, stale |-> {},
                   pc |-> pc, v1 |-> w, held |-> h, v2 |-> v]
    OBVIOUS
  <2>2. w \in Int
    <3>1. Total(S) \in Int
      BY <1>0, TotalFacts
    <3>2. Weight(vector1) \in Int
      BY <1>0, PreferencesAssumption DEF StoredOK, Weight
    <3> QED
      BY <2>1, <3>1, <3>2
  <2>3. v \in Nat \cup {None} /\ (Weighs(S) => v \in Nat)
    BY <1>0, <2>1 DEF StoredOK
  <2>4. ~Weighs(S) => S \cap Views # {}
    <3>1. S # {}
      BY <1>1 DEF Claim
    <3> QED
      BY <3>1 DEF Weighs, Views, OfKind
  <2>5. ApplyOK(u)
    BY <2>1, <2>2, <2>3, <2>4 DEF ApplyOK, Base, Pre
  <2>6. TaskOK(u)
    BY <2>1, <2>5 DEF TaskOK
  <2>7. task' = [task EXCEPT ![t] = u] /\ UNCHANGED <<behavior, hour>>
    BY <1>1, <2>1 DEF Claim, StartTask
  <2> QED
    BY <1>0, <2>6, <2>7, OneTask
<1>2. ASSUME Due(t) PROVE TasksOK'
  <2>1. PICK u : u = [kind |-> "due", events |-> {}, locks |-> {"recent"},
                      stale |-> {}, pc |-> "views"]
    OBVIOUS
  <2>2. TaskOK(u)
    BY <2>1 DEF TaskOK, DueOK, Base
  <2> QED
    BY <1>0, <1>2, <2>1, <2>2, OneTask DEF Due, StartTask
<1>3. ASSUME RebuildV2(t) PROVE TasksOK'
  <2>1. PICK u : u = [kind |-> "replay", events |-> {}, locks |-> {}, stale |-> {},
                      pc |-> "upsert", v2 |-> Len(behavior)]
    OBVIOUS
  <2>2. TaskOK(u)
    BY <1>0, <2>1 DEF TaskOK, ReplayOK, Base
  <2> QED
    BY <1>0, <1>3, <2>1, <2>2, OneTask DEF RebuildV2, StartTask
<1>4. ASSUME Aggregate(t) PROVE TasksOK'
  <2>1. PICK u : u = [kind |-> "rebuild", events |-> {}, locks |-> {}, stale |-> {},
                      pc |-> "upsert", v1 |-> IF liked THEN 1 ELSE 0,
                      held |-> [likes |-> LikeRows, events |-> {}, before |-> counted]]
    OBVIOUS
  <2>2. TaskOK(u)
    BY <2>1 DEF TaskOK, RebuildOK, Base
  <2> QED
    BY <1>0, <1>4, <2>1, <2>2, OneTask DEF Aggregate, StartTask
<1> QED
  BY <1>1, <1>2, <1>3, <1>4

\* A task that is at a step is one that can be.
LEMMA AtKind ==
    ASSUME TasksOK, NEW t \in Tasks
    PROVE  /\ task[t].pc \in {"vectors", "set", "setv1", "setv2", "again"} =>
                 task[t].kind = "apply"
           /\ At(t, "views") \/ At(t, "prefs") => task[t].kind \in {"apply", "due"}
           /\ At(t, "delete") => task[t].kind \in {"apply", "due", "replay"}
           /\ At(t, "pref") => task[t].kind = "rebuild"
           /\ task[t] = NoTask <=> task[t].pc = "idle"
           /\ task[t] # NoTask => /\ Base \subseteq DOMAIN task[t]
                                  /\ Pre(task[t]) \/ Post(task[t])
           /\ task[t].kind = "apply" /\ task[t] # NoTask => ApplyOK(task[t])
           /\ task[t].kind = "due" /\ task[t] # NoTask => DueOK(task[t])
           /\ task[t].kind = "replay" /\ task[t] # NoTask => ReplayOK(task[t])
           /\ task[t].kind = "rebuild" /\ task[t] # NoTask => RebuildOK(task[t])
<1>1. TaskOK(task[t])
  BY DEF TasksOK
<1>2. NoTask.pc = "idle"
  BY DEF NoTask
<1> QED
  BY <1>1, <1>2 DEF TaskOK, At, ApplyOK, DueOK, ReplayOK, RebuildOK, Base, Pre, Post

\* What the steps of a task leave alone.
Alike(r, q) ==
    /\ q.kind = r.kind /\ q.events = r.events /\ q.stale = r.stale
    /\ r.kind = "apply" => q.v1 = r.v1 /\ q.v2 = r.v2 /\ q.held = r.held

\* Steps within a transaction.
LEMMA WorkOK ==
    ASSUME PrefTypeOK, PreferencesAssumption, NEW t \in Tasks,
           SaveVectors(t) \/ ReadViews(t) \/ UpdatePrefs(t)
    PROVE  /\ TasksOK'
           /\ task[t].kind \in {"apply", "due"} /\ Alike(task[t], task'[t])
           /\ Pre(task[t]) /\ Pre(task'[t])
           /\ \A o \in Tasks \ {t} : task'[o] = task[o]
           /\ UNCHANGED <<behavior, liked, hour, stored, keys, reading, torn, held>>
<1>0. BehaviorOK /\ StoredOK /\ TasksOK /\ DOMAIN task = Tasks
  BY DEF PrefTypeOK, TasksOK
<1>1. CASE SaveVectors(t)
  <2>1. PICK u : u = [task[t] EXCEPT !.locks = {"v1"},
                         !.pc = IF task[t].events \cap Views # {} THEN "views" ELSE "commit"]
    OBVIOUS
  <2>2. At(t, "vectors") /\ task' = [task EXCEPT ![t] = u]
        /\ UNCHANGED <<behavior, liked, hour, stored, keys, reading, torn, held>>
    BY <1>1, <2>1 DEF SaveVectors, Continue
  <2>3. task[t].kind = "apply" /\ ApplyOK(task[t]) /\ task[t].pc = "vectors"
    BY <1>0, <2>2, AtKind DEF At, NoTask
  <2>4. /\ DOMAIN u = DOMAIN task[t] /\ Alike(task[t], u)
        /\ u.pc \in {"views", "commit"} /\ (u.pc = "views" <=> u.events \cap Views # {})
        /\ u.pc = "commit" => u.events \cap Views = {}
    BY <2>1, <2>3 DEF ApplyOK, Base, Alike
  <2>5. ApplyOK(u) /\ u.kind = "apply"
    BY <2>3, <2>4 DEF ApplyOK, Alike, Pre
  <2>6. TaskOK(u)
    BY <2>5 DEF TaskOK
  <2> QED
    BY <1>0, <2>2, <2>3, <2>4, <2>6, OneTask DEF Pre
<1>2. CASE ReadViews(t)
  <2>1. PICK u : u = [k \in DOMAIN task[t] \cup {"topics", "at"} |->
                        CASE k = "topics" -> Evidence(hour)
                          [] k = "at" -> hour
                          [] k = "pc" -> "prefs"
                          [] OTHER -> task[t][k]]
    OBVIOUS
  <2>2. At(t, "views") /\ task' = [task EXCEPT ![t] = u]
        /\ UNCHANGED <<behavior, liked, hour, stored, keys, reading, torn, held>>
    BY <1>2, <2>1 DEF ReadViews, Continue
  <2>3. /\ task[t].pc = "views" /\ Base \subseteq DOMAIN task[t]
        /\ \/ task[t].kind = "apply" /\ ApplyOK(task[t])
           \/ task[t].kind = "due" /\ DueOK(task[t])
    BY <1>0, <2>2, AtKind DEF At, NoTask
  <2>4. /\ DOMAIN u = DOMAIN task[t] \cup {"topics", "at"} /\ u.pc = "prefs" /\ u.at = hour
        /\ u.kind = task[t].kind /\ u.events = task[t].events /\ u.stale = task[t].stale
    BY <2>1, <2>3 DEF Base
  <2>5. task[t].kind = "apply" => /\ u.v1 = task[t].v1 /\ u.v2 = task[t].v2
                                   /\ u.held = task[t].held
    BY <2>1, <2>3 DEF ApplyOK
  <2>6. ViewsRead(u)
    BY <1>0, <2>4 DEF ViewsRead, BehaviorOK
  <2>7. TaskOK(u)
    BY <2>3, <2>4, <2>5, <2>6 DEF TaskOK, ApplyOK, DueOK, Pre
  <2> QED
    BY <1>0, <2>2, <2>3, <2>4, <2>5, <2>7, OneTask DEF Pre, Alike
<1>3. CASE UpdatePrefs(t)
  <2>1. PICK u : u = [task[t] EXCEPT !.pc = "commit",
                         !.locks = IF task[t].topics # topicPrefs THEN @ \cup {"users"} ELSE @]
    OBVIOUS
  <2>2. At(t, "prefs") /\ task' = [task EXCEPT ![t] = u]
        /\ UNCHANGED <<behavior, liked, hour, stored, keys, reading, torn, held>>
    BY <1>3, <2>1 DEF UpdatePrefs, Continue
  <2>3. /\ task[t].pc = "prefs" /\ Base \subseteq DOMAIN task[t]
        /\ \/ task[t].kind = "apply" /\ ApplyOK(task[t])
           \/ task[t].kind = "due" /\ DueOK(task[t])
    BY <1>0, <2>2, AtKind DEF At, NoTask
  <2>4. ViewsRead(task[t])
    BY <2>3 DEF ApplyOK, DueOK
  <2>5. /\ DOMAIN u = DOMAIN task[t] /\ u.pc = "commit" /\ u.at = task[t].at
        /\ u.kind = task[t].kind /\ u.events = task[t].events /\ u.stale = task[t].stale
    BY <2>1, <2>3, <2>4 DEF Base, ViewsRead
  <2>6. task[t].kind = "apply" => /\ u.v1 = task[t].v1 /\ u.v2 = task[t].v2
                                   /\ u.held = task[t].held
    BY <2>1, <2>3 DEF ApplyOK
  <2>7. ViewsRead(u)
    BY <2>4, <2>5 DEF ViewsRead
  <2>8. TaskOK(u)
    BY <2>3, <2>5, <2>6, <2>7 DEF TaskOK, ApplyOK, DueOK, Pre
  <2> QED
    BY <1>0, <2>2, <2>3, <2>5, <2>6, <2>8, OneTask DEF Pre, Alike
<1> QED
  BY <1>1, <1>2, <1>3

\* What a commit leaves of the records of the tasks: its own goes on, and the
\* others have read what is old now.
Committed(t, what, pc) ==
    /\ task'[t].pc = pc /\ task'[t].stale = task[t].stale \ what
    /\ task'[t].kind = task[t].kind /\ task'[t].events = task[t].events
    /\ task[t].kind = "apply" => task'[t].v1 = task[t].v1 /\ task'[t].v2 = task[t].v2
    /\ task[t].kind = "rebuild" => task'[t].v1 = task[t].v1
    /\ \A o \in Tasks \ {t} :
          \/ task[o] = NoTask /\ task'[o] = NoTask
          \/ /\ task[o] # NoTask
             /\ task'[o] = [task[o] EXCEPT !.stale = @ \cup what]

\* Only the field changes.
LEMMA StaleOnly ==
    ASSUME NEW r, NEW what, Base \subseteq DOMAIN r
    PROVE  LET q == [r EXCEPT !.stale = @ \cup what] IN
           /\ DOMAIN q = DOMAIN r
           /\ q.stale = r.stale \cup what
           /\ \A k \in DOMAIN r \ {"stale"} : q[k] = r[k]
  BY DEF Base

\* The types of tasks after a commit.
LEMMA CommitOK ==
    ASSUME PrefTypeOK, NEW t \in Tasks, NEW what, NEW repaired, NEW pc,
           Commit(t, what, repaired, pc), Pre(task[t]),
           \/ pc = "delete" /\ task[t].kind \in {"apply", "due", "replay"}
           \/ pc = "pref" /\ task[t].kind = "rebuild"
    PROVE  TasksOK' /\ Committed(t, what, pc)
<1>0. TasksOK /\ DOMAIN task = Tasks /\ UNCHANGED <<behavior, hour>>
  BY DEF PrefTypeOK, TasksOK, Commit
<1>1. \A r : TaskOK(r)' <=> TaskOK(r)
  BY <1>0 DEF TaskOK, NoTask, ApplyOK, DueOK, ReplayOK, RebuildOK, ViewsRead, Weighs,
              Views, OfKind, Rows
<1>2. /\ DOMAIN task' = Tasks
      /\ task'[t] = [task[t] EXCEPT !.pc = pc, !.locks = {}, !.stale = @ \ what]
      /\ \A o \in Tasks \ {t} :
            task'[o] = IF task[o] = NoTask THEN NoTask
                       ELSE [task[o] EXCEPT !.stale = @ \cup what]
  BY DEF Commit
<1>3. task[t] # NoTask /\ TaskOK(task[t]) /\ Base \subseteq DOMAIN task[t]
  BY <1>0, AtKind DEF TasksOK, Pre
<1>4. PICK u : u = task'[t]
  OBVIOUS
<1>5. /\ DOMAIN u = DOMAIN task[t]
      /\ u.pc = pc /\ u.stale = task[t].stale \ what
      /\ \A k \in DOMAIN task[t] \ {"pc", "locks", "stale"} : u[k] = task[t][k]
  BY <1>2, <1>3, <1>4 DEF Base
<1>6. u.kind = task[t].kind /\ u.events = task[t].events
  BY <1>3, <1>5 DEF Base
<1>7. /\ task[t].kind = "apply" => ApplyOK(task[t]) /\ u.v1 = task[t].v1 /\ u.v2 = task[t].v2
      /\ task[t].kind = "due" => DueOK(task[t])
      /\ task[t].kind = "replay" => ReplayOK(task[t]) /\ u.v2 = task[t].v2
      /\ task[t].kind = "rebuild" => RebuildOK(task[t]) /\ u.v1 = task[t].v1
  BY <1>0, <1>3, <1>5, AtKind DEF ApplyOK, ReplayOK, RebuildOK
<1>8. TaskOK(u)
  BY <1>5, <1>6, <1>7 DEF TaskOK, ApplyOK, DueOK, ReplayOK, RebuildOK, Pre
<1>9. ASSUME NEW o \in Tasks \ {t}, task[o] # NoTask PROVE TaskOK(task'[o])
  <2>1. PICK q : q = [task[o] EXCEPT !.stale = @ \cup what]
    OBVIOUS
  <2>2. /\ Base \subseteq DOMAIN task[o] /\ TaskOK(task[o])
    BY <1>0, <1>9, AtKind DEF TasksOK
  <2>3. /\ DOMAIN q = DOMAIN task[o]
        /\ \A k \in DOMAIN q \ {"stale"} : q[k] = task[o][k]
    BY <2>1, <2>2, StaleOnly
  <2>4. q.kind = task[o].kind /\ q.events = task[o].events /\ q.pc = task[o].pc
    BY <2>2, <2>3 DEF Base
  <2>5. /\ task[o].kind = "apply" => ApplyOK(q)
        /\ task[o].kind = "due" => DueOK(q)
        /\ task[o].kind = "replay" => ReplayOK(q)
        /\ task[o].kind = "rebuild" => RebuildOK(q)
    <3>1. ViewsRead(task[o]) => ViewsRead(q)
      BY <2>3 DEF ViewsRead
    <3>2. task[o].kind = "apply" => ApplyOK(q)
      BY <1>0, <1>9, <2>3, <2>4, <3>1, AtKind DEF ApplyOK, Pre
    <3>3. task[o].kind = "due" => DueOK(q)
      BY <1>0, <1>9, <2>3, <2>4, <3>1, AtKind DEF DueOK
    <3>4. task[o].kind = "replay" => ReplayOK(q)
      BY <1>0, <1>9, <2>3, <2>4, AtKind DEF ReplayOK
    <3>5. task[o].kind = "rebuild" => RebuildOK(q)
      BY <1>0, <1>9, <2>3, <2>4, AtKind DEF RebuildOK
    <3> QED
      BY <3>2, <3>3, <3>4, <3>5
  <2>6. task[o].kind \in {"apply", "due", "replay", "rebuild"}
    BY <1>9, <2>2 DEF TaskOK
  <2>7. TaskOK(q)
    BY <2>4, <2>5, <2>6 DEF TaskOK
  <2> QED
    BY <1>2, <1>9, <2>1, <2>7
<1>10. TasksOK'
  <2>1. \A o \in Tasks : TaskOK(task'[o])
    BY <1>2, <1>4, <1>8, <1>9 DEF TaskOK
  <2> QED
    BY <1>1, <1>2, <2>1 DEF TasksOK
<1> QED
  BY <1>2, <1>4, <1>5, <1>6, <1>7, <1>10 DEF Committed

\* Redis commands and failures end a task or leave it past its transaction,
\* and change nothing that is stored but, after a failed refresh, its time.
LEMMA AfterOK ==
    ASSUME PrefTypeOK, PreferencesAssumption, NEW t \in Tasks,
           \/ DeleteKeys(t) \/ SetKeys(t) \/ Reread(t) \/ SetPref(t)
           \/ Fail(t) \/ BreakDeadlock(t)
    PROVE  /\ TasksOK'
           /\ \/ task'[t] = NoTask
              \/ /\ Post(task[t]) /\ Post(task'[t])
                 /\ task[t].kind = "apply" /\ task'[t].kind = "apply"
                 /\ task'[t].events = task[t].events
           /\ \A o \in Tasks \ {t} : task'[o] = task[o]
           /\ UNCHANGED <<behavior, liked, hour, counted, vector1, vector2, topicPrefs,
                          reading, held>>
           /\ recent' \in {recent, hour}
           /\ \A x \in {"v1", "v2", "topics"} : x \in torn' <=> x \in torn
<1>0. BehaviorOK /\ StoredOK /\ TasksOK /\ DOMAIN task = Tasks
  BY DEF PrefTypeOK, TasksOK
<1>1. TaskOK(NoTask)
  BY DEF TaskOK
<1>2. ASSUME task' = [task EXCEPT ![t] = NoTask], UNCHANGED <<behavior, hour>>
      PROVE  TasksOK' /\ task'[t] = NoTask /\ \A o \in Tasks \ {t} : task'[o] = task[o]
  BY <1>0, <1>1, <1>2, OneTask
<1>3. ASSUME NEW u, task' = [task EXCEPT ![t] = u], UNCHANGED <<behavior, hour>>,
             task[t].kind = "apply", ApplyOK(task[t]), Post(task[t]), Post(u),
             u.kind = "apply", u.events = task[t].events, ApplyOK(u)
      PROVE  /\ TasksOK' /\ \A o \in Tasks \ {t} : task'[o] = task[o]
             /\ Post(task[t]) /\ Post(task'[t])
             /\ task[t].kind = "apply" /\ task'[t].kind = "apply"
             /\ task'[t].events = task[t].events
  <2>1. TaskOK(u)
    BY <1>3 DEF TaskOK
  <2> QED
    BY <1>0, <1>3, <2>1, OneTask
<1>4. CASE DeleteKeys(t)
  <2>1. /\ At(t, "delete") /\ torn' = torn \ {"keys", "shadow"}
        /\ task' = [task EXCEPT ![t] = IF task[t].kind = "apply"
                                       THEN [@ EXCEPT !.pc = "set"] ELSE NoTask]
        /\ UNCHANGED <<behavior, liked, hour, stored, reading, held>>
    BY <1>4 DEF DeleteKeys
  <2>2. CASE task[t].kind = "apply"
    <3>1. PICK u : u = [task[t] EXCEPT !.pc = "set"]
      OBVIOUS
    <3>2. ApplyOK(task[t]) /\ task[t].pc = "delete"
      BY <1>0, <2>1, <2>2, AtKind DEF At, NoTask
    <3>3. ApplyOK(u) /\ u.kind = "apply" /\ Post(u) /\ u.events = task[t].events
      BY <2>2, <3>1, <3>2 DEF ApplyOK, Base, Post, Pre
    <3>4. task' = [task EXCEPT ![t] = u]
      BY <2>1, <2>2, <3>1
    <3> QED
      BY <1>3, <2>1, <2>2, <3>2, <3>3, <3>4 DEF stored, Post
  <2>3. CASE task[t].kind # "apply"
    BY <1>2, <2>1, <2>3 DEF stored
  <2> QED
    BY <2>2, <2>3
<1>5. CASE SetKeys(t)
  <2>1. /\ UNCHANGED <<behavior, liked, hour, stored, reading, held>>
        /\ torn' = torn \/ torn' = torn \cup {"keys"}
    BY <1>5 DEF SetKeys, SetKey
  <2>2. \/ task' = [task EXCEPT ![t] = NoTask]
        \/ \E pc \in {"setv1", "setv2"} : /\ task' = [task EXCEPT ![t].pc = pc]
                                          /\ task[t].pc \in {"set", "setv1"}
    BY <1>5 DEF SetKeys, At
  <2>3. ASSUME NEW pc \in {"setv1", "setv2"}, task' = [task EXCEPT ![t].pc = pc],
               task[t].pc \in {"set", "setv1"}
        PROVE  /\ TasksOK' /\ \A o \in Tasks \ {t} : task'[o] = task[o]
               /\ Post(task[t]) /\ Post(task'[t])
               /\ task[t].kind = "apply" /\ task'[t].kind = "apply"
               /\ task'[t].events = task[t].events
    <3>1. PICK u : u = [task[t] EXCEPT !.pc = pc]
      OBVIOUS
    <3>2. task[t].kind = "apply" /\ ApplyOK(task[t]) /\ Post(task[t])
      BY <1>0, <2>3, AtKind DEF NoTask, Post
    <3>3. ApplyOK(u) /\ u.kind = "apply" /\ Post(u) /\ u.events = task[t].events
      BY <2>3, <3>1, <3>2 DEF ApplyOK, Base, Post, Pre
    <3>4. task' = [task EXCEPT ![t] = u]
      BY <2>3, <3>1
    <3> QED
      BY <1>3, <2>1, <3>2, <3>3, <3>4
  <2> QED
    BY <1>2, <2>1, <2>2, <2>3 DEF stored
<1>6. CASE Reread(t)
  <2>1. PICK u : u = [task[t] EXCEPT !.pc = "delete", !.stale = {},
                                     !.v1 = Weight(vector1), !.v2 = vector2]
    OBVIOUS
  <2>2. /\ task' = [task EXCEPT ![t] = u] /\ At(t, "again") /\ UNCHANGED torn
        /\ UNCHANGED <<behavior, liked, hour, stored, reading, held>>
    BY <1>6, <2>1 DEF Reread, Continue
  <2>3. task[t].kind = "apply" /\ ApplyOK(task[t]) /\ task[t].pc = "again"
    BY <1>0, <2>2, AtKind DEF At, NoTask
  <2>4. Weight(vector1) \in Int /\ vector2 \in Nat \cup {None}
    BY <1>0, PreferencesAssumption DEF StoredOK, Weight
  <2>5. ApplyOK(u) /\ u.kind = "apply" /\ Post(u) /\ u.events = task[t].events
    BY <2>1, <2>3, <2>4 DEF ApplyOK, Base, Post, Pre
  <2> QED
    BY <1>3, <2>2, <2>3, <2>5 DEF stored, Post
<1>7. CASE SetPref(t)
  BY <1>2, <1>7 DEF SetPref, stored
<1>8. CASE Fail(t)
  <2>1. task[t] # NoTask
    BY <1>8 DEF Fail
  <2>2. CASE Post(task[t]) /\ task[t].kind = "apply"
    <3>1. PICK u : u = [task[t] EXCEPT !.pc = "again"]
      OBVIOUS
    <3>2. /\ task' = [task EXCEPT ![t] = u]
          /\ UNCHANGED <<behavior, liked, hour, stored, reading, held, torn>>
      BY <1>8, <2>2, <3>1 DEF Fail, Post, Refreshing, stored
    <3>3. ApplyOK(task[t])
      BY <1>0, <2>1, <2>2, AtKind
    <3>4. ApplyOK(u) /\ u.kind = "apply" /\ Post(u) /\ u.events = task[t].events
      BY <2>2, <3>1, <3>3 DEF ApplyOK, Base, Post, Pre
    <3> QED
      BY <1>3, <2>2, <3>2, <3>3, <3>4 DEF stored
  <2>3. CASE ~(Post(task[t]) /\ task[t].kind = "apply")
    <3>1. /\ task' = [task EXCEPT ![t] = NoTask]
          /\ recent' \in {recent, hour}
          /\ torn' = torn \/ torn' = torn \cup {"keys"}
          /\ UNCHANGED <<behavior, liked, hour, counted, vector1, vector2, topicPrefs,
                         reading, held>>
      BY <1>8, <2>3 DEF Fail, Refreshing, Post
    <3> QED
      BY <1>2, <3>1
  <2> QED
    BY <2>2, <2>3
<1>9. CASE BreakDeadlock(t)
  <2>1. Continue(t, NoTask)
    BY <1>9 DEF BreakDeadlock
  <2> QED
    BY <1>2, <2>1 DEF Continue, stored
<1> QED
  BY <1>4, <1>5, <1>6, <1>7, <1>8, <1>9

-----------------------------------------------------------------------------
\* The four commits, and what they write.
LEMMA CommitKinds ==
    ASSUME PrefTypeOK, NEW t \in Tasks
    PROVE  /\ CommitApply(t) =>
                LET what == (IF Weighs(task[t].events) THEN {"v1", "v2"} ELSE {})
                              \cup (IF task[t].events \cap Views # {} THEN {"topics"} ELSE {})
                IN /\ task[t].kind = "apply" /\ task[t].pc = "commit" /\ ApplyOK(task[t])
                   /\ Commit(t, what, what \ {"v1"}, "delete")
                   /\ TasksOK' /\ Committed(t, what, "delete")
           /\ CommitDue(t) =>
                /\ task[t].kind = "due" /\ task[t].pc = "commit" /\ DueOK(task[t])
                /\ Commit(t, {"topics"}, {"topics"}, "delete")
                /\ TasksOK' /\ Committed(t, {"topics"}, "delete")
           /\ CommitReplay(t) =>
                /\ task[t].kind = "replay" /\ task[t].pc = "upsert" /\ ReplayOK(task[t])
                /\ Commit(t, {"v2"}, {"v2"}, "delete")
                /\ TasksOK' /\ Committed(t, {"v2"}, "delete")
           /\ UpsertUserVector(t) =>
                /\ task[t].kind = "rebuild" /\ task[t].pc = "upsert" /\ RebuildOK(task[t])
                /\ Commit(t, {"v1"}, {"v1"}, "pref")
                /\ TasksOK' /\ Committed(t, {"v1"}, "pref")
<1>0. TasksOK /\ NoTask.pc = "idle"
  BY DEF PrefTypeOK, NoTask
<1>1. ASSUME CommitApply(t)
      PROVE  LET what == (IF Weighs(task[t].events) THEN {"v1", "v2"} ELSE {})
                           \cup (IF task[t].events \cap Views # {} THEN {"topics"} ELSE {})
             IN /\ task[t].kind = "apply" /\ task[t].pc = "commit" /\ ApplyOK(task[t])
                /\ Commit(t, what, what \ {"v1"}, "delete")
                /\ TasksOK' /\ Committed(t, what, "delete")
  <2>1. PICK what :
           what = (IF Weighs(task[t].events) THEN {"v1", "v2"} ELSE {})
                     \cup (IF task[t].events \cap Views # {} THEN {"topics"} ELSE {})
    OBVIOUS
  <2>2. /\ task[t].kind = "apply" /\ task[t].pc = "commit"
        /\ Commit(t, what, what \ {"v1"}, "delete")
    BY <1>1, <2>1 DEF CommitApply, At
  <2>3. ApplyOK(task[t])
    BY <1>0, <2>2, AtKind
  <2>4. TasksOK' /\ Committed(t, what, "delete")
    BY <2>2, CommitOK DEF Pre
  <2> QED
    BY <2>1, <2>2, <2>3, <2>4
<1>2. ASSUME CommitDue(t)
      PROVE  /\ task[t].kind = "due" /\ task[t].pc = "commit" /\ DueOK(task[t])
             /\ Commit(t, {"topics"}, {"topics"}, "delete")
             /\ TasksOK' /\ Committed(t, {"topics"}, "delete")
  <2>1. /\ task[t].kind = "due" /\ task[t].pc = "commit"
        /\ Commit(t, {"topics"}, {"topics"}, "delete")
    BY <1>2 DEF CommitDue, At
  <2> QED
    BY <1>0, <2>1, AtKind, CommitOK DEF Pre
<1>3. ASSUME CommitReplay(t)
      PROVE  /\ task[t].kind = "replay" /\ task[t].pc = "upsert" /\ ReplayOK(task[t])
             /\ Commit(t, {"v2"}, {"v2"}, "delete")
             /\ TasksOK' /\ Committed(t, {"v2"}, "delete")
  <2>1. /\ task[t].kind = "replay" /\ task[t].pc = "upsert"
        /\ Commit(t, {"v2"}, {"v2"}, "delete")
    BY <1>3 DEF CommitReplay, At
  <2> QED
    BY <1>0, <2>1, AtKind, CommitOK DEF Pre
<1>4. ASSUME UpsertUserVector(t)
      PROVE  /\ task[t].kind = "rebuild" /\ task[t].pc = "upsert" /\ RebuildOK(task[t])
             /\ Commit(t, {"v1"}, {"v1"}, "pref")
             /\ TasksOK' /\ Committed(t, {"v1"}, "pref")
  <2>1. /\ task[t].kind = "rebuild" /\ task[t].pc = "upsert"
        /\ Commit(t, {"v1"}, {"v1"}, "pref")
    BY <1>4 DEF UpsertUserVector, At
  <2> QED
    BY <1>0, <2>1, AtKind, CommitOK DEF Pre
<1> QED
  BY <1>1, <1>2, <1>3, <1>4

\* What is stored after a commit.
LEMMA CommitStored ==
    ASSUME PrefTypeOK, PreferencesAssumption, NEW t \in Tasks,
           \/ CommitApply(t) \/ CommitDue(t) \/ CommitReplay(t) \/ UpsertUserVector(t)
    PROVE  StoredOK' /\ TasksOK' /\ ReadOK' /\ UNCHANGED <<behavior, liked, hour, keys>>
<1>0. BehaviorOK /\ StoredOK /\ ReadOK /\ Never \in Nat
  BY PreferencesAssumption DEF PrefTypeOK, Never
<1>1. ASSUME SaveTopics(t), ViewsRead(task[t]) PROVE recent' \in Nat \cup {None}
  <2>1. task[t].at \in Nat
    BY <1>0, <1>1 DEF ViewsRead, BehaviorOK
  <2> QED
    BY <1>0, <1>1, <2>1 DEF SaveTopics, Schedule
<1>2. ASSUME NEW what, NEW repaired, NEW pc, Commit(t, what, repaired, pc)
      PROVE  ReadOK' /\ UNCHANGED <<behavior, liked, hour, keys>>
  BY <1>0, <1>2 DEF ReadOK, Commit, ReadFields, NoRead, Settled
<1>3. CASE CommitApply(t)
  <2>1. /\ task[t].kind = "apply" /\ task[t].pc = "commit" /\ ApplyOK(task[t])
        /\ TasksOK'
    BY <1>3, CommitKinds
  <2>2. ReadOK' /\ UNCHANGED <<behavior, liked, hour, keys>>
    BY <1>2, <1>3, CommitKinds
  <2>3. counted' \subseteq Rows
    BY <1>0, <1>3, <2>1 DEF CommitApply, ApplyOK, StoredOK
  <2>4. vector1' \in Int \cup {None} /\ vector2' \in Nat \cup {None}
    BY <1>0, <1>3, <2>1 DEF CommitApply, ApplyOK, StoredOK, SaveV2, Pre
  <2>5. recent' \in Nat \cup {None}
    <3>1. CASE task[t].events \cap Views # {}
      BY <1>1, <1>3, <2>1, <3>1 DEF CommitApply, ApplyOK
    <3>2. CASE task[t].events \cap Views = {}
      BY <1>0, <1>3, <3>2 DEF CommitApply, StoredOK
    <3> QED
      BY <3>1, <3>2
  <2> QED
    BY <2>1, <2>2, <2>3, <2>4, <2>5 DEF StoredOK, Rows
<1>4. CASE CommitDue(t)
  <2>1. DueOK(task[t]) /\ task[t].pc = "commit" /\ TasksOK'
    BY <1>4, CommitKinds
  <2>2. ReadOK' /\ UNCHANGED <<behavior, liked, hour, keys>>
    BY <1>2, <1>4, CommitKinds
  <2>3. recent' \in Nat \cup {None}
    BY <1>1, <1>4, <2>1 DEF CommitDue, DueOK
  <2> QED
    BY <1>0, <1>4, <2>1, <2>2, <2>3 DEF StoredOK, Rows, CommitDue
<1>5. CASE CommitReplay(t)
  <2>1. ReplayOK(task[t]) /\ TasksOK'
    BY <1>5, CommitKinds
  <2>2. ReadOK' /\ UNCHANGED <<behavior, liked, hour, keys>>
    BY <1>2, <1>5, CommitKinds
  <2>3. vector2' \in Nat
    BY <1>5, <2>1 DEF CommitReplay, SaveV2, ReplayOK
  <2> QED
    BY <1>0, <1>5, <2>1, <2>2, <2>3 DEF StoredOK, Rows, CommitReplay
<1>6. CASE UpsertUserVector(t)
  <2>1. RebuildOK(task[t]) /\ TasksOK'
    BY <1>6, CommitKinds
  <2>2. ReadOK' /\ UNCHANGED <<behavior, liked, hour, keys>>
    BY <1>2, <1>6, CommitKinds
  <2>3. vector1' \in Int
    BY <1>6, <2>1 DEF UpsertUserVector, Rebuilt, RebuildOK
  <2> QED
    BY <1>0, <1>6, <2>1, <2>2, <2>3 DEF StoredOK, Rows, UpsertUserVector
<1> QED
  BY <1>3, <1>4, <1>5, <1>6

\* Recording a row.
LEMMA RecordOK ==
    ASSUME PrefTypeOK, PreferencesAssumption, NEW kind \in Kinds, Record(kind)
    PROVE  PrefTypeOK'
<1>0. BehaviorOK /\ StoredOK /\ KeysOK /\ TasksOK /\ ReadOK
  BY DEF PrefTypeOK
<1>1. PICK r : r = [kind |-> kind,
                    at |-> IF kind \in {"view", "read"} THEN hour ELSE 0]
  OBVIOUS
<1>2. /\ behavior' = Append(behavior, r) /\ r \in [kind : Kinds, at : 0..MaxHour]
      /\ r.at <= hour
      /\ UNCHANGED <<hour, stored, keys, task, reading>>
  BY <1>0, <1>1 DEF Record, BehaviorOK
<1>3. /\ behavior \in Seq([kind : Kinds, at : 0..MaxHour])
      /\ Len(behavior') = Len(behavior) + 1 /\ Len(behavior) \in Nat
      /\ behavior' \in Seq([kind : Kinds, at : 0..MaxHour])
      /\ behavior'[Len(behavior) + 1] = r
      /\ \A i \in 1..Len(behavior) : behavior'[i] = behavior[i]
  BY <1>0, <1>2 DEF BehaviorOK
<1>4. BehaviorOK'
  <2>1. ASSUME NEW i \in 1..Len(behavior') PROVE behavior'[i].at <= hour
    <3>1. CASE i \in 1..Len(behavior)
      BY <1>0, <1>3, <3>1 DEF BehaviorOK, Rows
    <3>2. CASE i = Len(behavior) + 1
      BY <1>0, <1>2, <1>3, <3>2 DEF BehaviorOK
    <3> QED
      BY <1>3, <3>1, <3>2
  <2> QED
    BY <1>0, <1>2, <1>3, <2>1 DEF BehaviorOK, Rows
<1>5. \A q : TaskOK(q) => TaskOK(q)'
  <2>1. hour <= hour'
    BY <1>0, <1>2 DEF BehaviorOK
  <2> QED
    BY <1>0, <1>2, <1>4, <2>1, TaskOKStays
<1>6. TasksOK'
  BY <1>0, <1>2, <1>5 DEF TasksOK
<1>7. StoredOK'
  <2>1. Rows \subseteq Rows'
    BY <1>3 DEF Rows
  <2> QED
    BY <1>0, <1>2, <2>1 DEF StoredOK, stored
<1> QED
  BY <1>0, <1>2, <1>4, <1>6, <1>7 DEF PrefTypeOK, KeysOK, ReadOK

\* Time passes.
LEMMA PassHourOK ==
    ASSUME PrefTypeOK, PreferencesAssumption, PassHour
    PROVE  PrefTypeOK'
<1>0. BehaviorOK /\ StoredOK /\ KeysOK /\ TasksOK /\ ReadOK
  BY DEF PrefTypeOK
<1>1. /\ hour' = hour + 1 /\ hour < MaxHour
      /\ UNCHANGED <<behavior, stored, keys, task, reading>>
  BY DEF PassHour
<1>2. hour \in Nat /\ (hour + 1) \in 0..MaxHour
  BY <1>0, <1>1, PreferencesAssumption DEF BehaviorOK
<1>3. BehaviorOK'
  <2>1. ASSUME NEW i \in Rows PROVE behavior[i].at <= hour + 1
    <3>1. behavior[i] \in [kind : Kinds, at : 0..MaxHour]
      <4>0. PICK R : R = [kind : Kinds, at : 0..MaxHour]
        OBVIOUS
      <4>1. behavior \in Seq(R) /\ i \in 1..Len(behavior)
        BY <1>0, <4>0 DEF BehaviorOK, Rows
      <4>2. behavior[i] \in R
        BY <4>1
      <4> QED
        BY <4>0, <4>2
    <3>2. behavior[i].at \in Nat /\ behavior[i].at <= hour
      BY <1>0, <3>1 DEF BehaviorOK
    <3> QED
      BY <1>2, <3>2
  <2> QED
    BY <1>0, <1>1, <1>2, <2>1 DEF BehaviorOK, Rows
<1>4. \A q : TaskOK(q) => TaskOK(q)'
  <2>1. hour <= hour'
    BY <1>1, <1>2
  <2> QED
    BY <1>0, <1>1, <1>3, <2>1, TaskOKStays
<1>5. TasksOK'
  BY <1>0, <1>1, <1>4 DEF TasksOK
<1>6. StoredOK'
  BY <1>0, <1>1 DEF StoredOK, stored, Rows
<1> QED
  BY <1>0, <1>1, <1>3, <1>5, <1>6 DEF PrefTypeOK, KeysOK, ReadOK

\* The steps of a reader.
LEMMA ReaderOK ==
    ASSUME PrefTypeOK, ReadOn \/ \E schema \in {"v1", "v2"} : StartRead(schema)
    PROVE  /\ PrefTypeOK'
           /\ UNCHANGED <<behavior, liked, hour, stored, keys, task, torn, held>>
<1>0. BehaviorOK /\ StoredOK /\ KeysOK /\ TasksOK /\ ReadOK
  BY DEF PrefTypeOK
<1>1. UNCHANGED <<behavior, liked, hour, stored, keys, task, torn, held>>
  BY DEF ReadOn, StartRead
<1>2. ReadOK'
  <2>1. CASE ReadOn
    <3>1. /\ reading # NoRead /\ ReadFields \subseteq DOMAIN reading
          /\ reading.pc \in {"v2", "v1", "pref", "row2", "row1"}
      BY <1>0, <2>1 DEF ReadOn, ReadOK, Settled
    <3>2. ASSUME NEW q, \/ \E pc \in {"v2", "v1", "pref", "row2", "row1", "done"} :
                              q = [reading EXCEPT !.pc = pc]
                        \/ \E source, value : q = Answer(source, value)
          PROVE  ReadFields \subseteq DOMAIN q
                 /\ q.pc \in {"v2", "v1", "pref", "row2", "row1", "done"}
      BY <3>1, <3>2 DEF ReadFields, Answer
    <3>3. \/ \E pc \in {"v2", "v1", "pref", "row2", "row1", "done"} :
                reading' = [reading EXCEPT !.pc = pc]
          \/ \E source, value : reading' = Answer(source, value)
      BY <2>1, <3>1 DEF ReadOn
    <3> QED
      BY <3>2, <3>3 DEF ReadOK
  <2>2. ASSUME NEW schema \in {"v1", "v2"}, StartRead(schema) PROVE ReadOK'
    BY <2>2 DEF StartRead, ReadOK, ReadFields
  <2> QED
    BY <2>1, <2>2
<1>3. TasksOK'
  BY <1>0, <1>1
     DEF TasksOK, TaskOK, NoTask, ApplyOK, DueOK, ReplayOK, RebuildOK, ViewsRead,
         Weighs, Views, OfKind, Rows
<1> QED
  BY <1>0, <1>1, <1>2, <1>3
     DEF PrefTypeOK, BehaviorOK, StoredOK, KeysOK, stored, Rows

\* Keys keep their names.
LEMMA KeysStay ==
    ASSUME KeysOK, NEW t \in Tasks,
           \/ DeleteKeys(t) \/ SetKeys(t) \/ Reread(t) \/ SetPref(t)
           \/ Fail(t) \/ BreakDeadlock(t)
    PROVE  KeysOK'
  BY DEF KeysOK, DeleteKeys, SetKeys, Reread, SetPref, Fail, BreakDeadlock, SetKey,
         Continue, Invalidated, NoKeys

\* A key that expires leaves the types alone.
LEMMA ExpireOK ==
    ASSUME PrefTypeOK, NEW k \in {"v2", "v1", "pref"}, ExpireKey(k)
    PROVE  PrefTypeOK'
<1>0. BehaviorOK /\ StoredOK /\ KeysOK /\ TasksOK /\ ReadOK
  BY DEF PrefTypeOK
<1>1. /\ keys' = [keys EXCEPT ![k] = None]
      /\ UNCHANGED <<behavior, hour, counted, vector1, vector2, recent, task, reading>>
  BY DEF ExpireKey, stored
<1>2. KeysOK'
  BY <1>0, <1>1 DEF KeysOK
<1>3. BehaviorOK' /\ StoredOK' /\ ReadOK'
  BY <1>0, <1>1 DEF BehaviorOK, StoredOK, ReadOK, Rows
<1>4. TasksOK'
  BY <1>0, <1>1
     DEF TasksOK, TaskOK, NoTask, ApplyOK, DueOK, ReplayOK, RebuildOK, ViewsRead,
         Weighs, Views, OfKind, Rows
<1> QED
  BY <1>2, <1>3, <1>4 DEF PrefTypeOK

\* Every step of a task that starts, goes on or ends keeps the types.
LEMMA TaskStepOK ==
    ASSUME PrefTypeOK, PreferencesAssumption, NEW t \in Tasks,
           \/ \E S \in SUBSET (Rows \ counted) : Claim(t, S)
           \/ SaveVectors(t) \/ ReadViews(t) \/ UpdatePrefs(t) \/ CommitApply(t)
           \/ DeleteKeys(t) \/ SetKeys(t) \/ Reread(t)
           \/ Due(t) \/ CommitDue(t)
           \/ Backfill(t) \/ ReplayUser(t) \/ CommitReplay(t)
           \/ Aggregate(t) \/ UpsertUserVector(t) \/ SetPref(t)
           \/ Fail(t) \/ BreakDeadlock(t)
    PROVE  PrefTypeOK'
<1>0. BehaviorOK /\ StoredOK /\ KeysOK /\ TasksOK /\ ReadOK /\ hour \in Nat
  BY DEF PrefTypeOK, BehaviorOK
<1>1. ASSUME UNCHANGED <<behavior, hour>>, TasksOK', KeysOK', ReadOK', StoredOK'
      PROVE  PrefTypeOK'
  BY <1>0, <1>1 DEF PrefTypeOK, BehaviorOK, Rows
<1>2. CASE \/ \E S \in SUBSET (Rows \ counted) : Claim(t, S)
           \/ Due(t) \/ RebuildV2(t) \/ Aggregate(t)
  <2>1. TasksOK'
    BY <1>2, StartOK
  <2>2. UNCHANGED <<behavior, liked, hour, stored, keys, reading>>
    BY <1>2 DEF Claim, Due, RebuildV2, Aggregate, StartTask
  <2> QED
    BY <1>0, <1>1, <2>1, <2>2 DEF KeysOK, ReadOK, StoredOK, Rows, stored
<1>3. CASE SaveVectors(t) \/ ReadViews(t) \/ UpdatePrefs(t)
  <2>1. TasksOK' /\ UNCHANGED <<behavior, liked, hour, stored, keys, reading>>
    BY <1>3, WorkOK
  <2> QED
    BY <1>0, <1>1, <2>1 DEF KeysOK, ReadOK, StoredOK, Rows, stored
<1>4. CASE CommitApply(t) \/ CommitDue(t) \/ CommitReplay(t) \/ UpsertUserVector(t)
  <2>1. StoredOK' /\ TasksOK' /\ ReadOK' /\ UNCHANGED <<behavior, liked, hour, keys>>
    BY <1>4, CommitStored
  <2> QED
    BY <1>0, <1>1, <2>1 DEF KeysOK
<1>5. CASE \/ DeleteKeys(t) \/ SetKeys(t) \/ Reread(t) \/ SetPref(t)
           \/ Fail(t) \/ BreakDeadlock(t)
  <2>1. /\ TasksOK' /\ recent' \in {recent, hour}
        /\ UNCHANGED <<behavior, hour, counted, vector1, vector2, reading>>
    BY <1>5, AfterOK
  <2>2. KeysOK'
    BY <1>0, <1>5, KeysStay
  <2> QED
    BY <1>0, <1>1, <2>1, <2>2 DEF ReadOK, StoredOK, Rows
<1> QED
  BY <1>2, <1>3, <1>4, <1>5 DEF Backfill, ReplayUser

\* The commits, told alike: what was read and saved, and who is late.
Saves(t, what, pc) ==
    /\ what \subseteq {"v1", "v2", "topics"}
    /\ Pre(task[t]) /\ Committed(t, what, pc)
    /\ counted' = counted \cup task[t].events
    /\ Weighs(task[t].events) => {"v1", "v2"} \subseteq what
    /\ task[t].events \cap Views # {} => "topics" \in what
    /\ \A x \in what : x \in task[t].stale => x \in torn'
    /\ \A x \in torn : x \in torn' \/ x \in what
    /\ "v1" \in torn => "v1" \in torn' \/ task[t].kind = "rebuild"
    /\ \A x \in {"keys", "shadow"} : x \in torn' <=> x \in torn
    /\ IF "v1" \in what
       THEN /\ vector1' = task[t].v1 /\ held' = task[t].held
            /\ \/ task[t].kind = "rebuild" /\ pc = "pref"
               \/ task[t].kind = "apply" /\ Weighs(task[t].events) /\ pc = "delete"
       ELSE /\ vector1' = vector1 /\ held' = held
            /\ task[t].kind # "rebuild" /\ pc = "delete"
    /\ IF "v2" \in what
       THEN /\ vector2' = task[t].v2
            /\ \/ task[t].kind = "replay"
               \/ task[t].kind = "apply" /\ Weighs(task[t].events)
       ELSE vector2' = vector2 /\ task[t].kind # "replay"
    /\ IF "topics" \in what
       THEN /\ SaveTopics(t) /\ task[t].pc = "commit"
            /\ \/ task[t].kind = "due"
               \/ task[t].kind = "apply" /\ task[t].events \cap Views # {}
       ELSE UNCHANGED <<topicPrefs, recent>>
    /\ reading' = IF reading.pc \in {"idle", "done"} THEN reading
                  ELSE [reading EXCEPT !.v1s = @ \cup {Weight(vector1')},
                                       !.v2s = @ \cup {vector2'}]

\* Each of the four commits is one of them.
LEMMA CommitSaves ==
    ASSUME PrefTypeOK, PreferencesAssumption, NEW t \in Tasks,
           \/ CommitApply(t) \/ CommitDue(t) \/ CommitReplay(t) \/ UpsertUserVector(t)
    PROVE  \E what, pc : Saves(t, what, pc)
<1>0. \A S : Weighs(S) => S # {}
  BY DEF Weighs
<1>1. CASE CommitApply(t)
  <2>1. PICK what :
           what = (IF Weighs(task[t].events) THEN {"v1", "v2"} ELSE {})
                     \cup (IF task[t].events \cap Views # {} THEN {"topics"} ELSE {})
    OBVIOUS
  <2>2. /\ task[t].kind = "apply" /\ task[t].pc = "commit"
        /\ Commit(t, what, what \ {"v1"}, "delete") /\ Committed(t, what, "delete")
    BY <1>1, <2>1, CommitKinds
  <2>3. /\ torn' = (torn \ (what \ {"v1"})) \cup (task[t].stale \cap what)
        /\ reading' = IF reading.pc \in {"idle", "done"} THEN reading
                      ELSE [reading EXCEPT !.v1s = @ \cup {Weight(vector1')},
                                           !.v2s = @ \cup {vector2'}]
    BY <2>2 DEF Commit
  <2>4. /\ counted' = counted \cup task[t].events
        /\ IF Weighs(task[t].events)
           THEN vector1' = task[t].v1 /\ vector2' = task[t].v2 /\ held' = task[t].held
           ELSE UNCHANGED <<vector1, vector2, held>>
        /\ IF task[t].events \cap Views # {} THEN SaveTopics(t)
           ELSE UNCHANGED <<topicPrefs, recent>>
    BY <1>1 DEF CommitApply, SaveV2
  <2>5. /\ "v1" \in what <=> Weighs(task[t].events)
        /\ "v2" \in what <=> Weighs(task[t].events)
        /\ "topics" \in what <=> task[t].events \cap Views # {}
        /\ what \subseteq {"v1", "v2", "topics"}
    BY <2>1
  <2>6. Pre(task[t])
    BY <2>2 DEF Pre
  <2> QED
    BY <2>2, <2>3, <2>4, <2>5, <2>6 DEF Saves
<1>2. CASE CommitDue(t)
  <2>1. /\ task[t].kind = "due" /\ task[t].pc = "commit" /\ task[t].events = {}
        /\ Commit(t, {"topics"}, {"topics"}, "delete") /\ Committed(t, {"topics"}, "delete")
    BY <1>2, CommitKinds DEF DueOK
  <2>2. /\ torn' = (torn \ {"topics"}) \cup (task[t].stale \cap {"topics"})
        /\ reading' = IF reading.pc \in {"idle", "done"} THEN reading
                      ELSE [reading EXCEPT !.v1s = @ \cup {Weight(vector1')},
                                           !.v2s = @ \cup {vector2'}]
    BY <2>1 DEF Commit
  <2>3. SaveTopics(t) /\ UNCHANGED <<counted, vector1, vector2, held>> /\ Pre(task[t])
    BY <1>2, <2>1 DEF CommitDue, Pre
  <2> QED
    BY <1>0, <2>1, <2>2, <2>3 DEF Saves
<1>3. CASE CommitReplay(t)
  <2>1. /\ task[t].kind = "replay" /\ task[t].pc = "upsert" /\ task[t].events = {}
        /\ Commit(t, {"v2"}, {"v2"}, "delete") /\ Committed(t, {"v2"}, "delete")
    BY <1>3, CommitKinds DEF ReplayOK
  <2>2. /\ torn' = (torn \ {"v2"}) \cup (task[t].stale \cap {"v2"})
        /\ reading' = IF reading.pc \in {"idle", "done"} THEN reading
                      ELSE [reading EXCEPT !.v1s = @ \cup {Weight(vector1')},
                                           !.v2s = @ \cup {vector2'}]
    BY <2>1 DEF Commit
  <2>3. /\ vector2' = task[t].v2 /\ Pre(task[t])
        /\ UNCHANGED <<counted, vector1, topicPrefs, recent, held>>
    BY <1>3, <2>1 DEF CommitReplay, SaveV2, Pre
  <2> QED
    BY <1>0, <2>1, <2>2, <2>3 DEF Saves
<1>4. CASE UpsertUserVector(t)
  <2>1. /\ task[t].kind = "rebuild" /\ task[t].pc = "upsert" /\ task[t].events = {}
        /\ Commit(t, {"v1"}, {"v1"}, "pref") /\ Committed(t, {"v1"}, "pref")
    BY <1>4, CommitKinds DEF RebuildOK
  <2>2. /\ torn' = (torn \ {"v1"}) \cup (task[t].stale \cap {"v1"})
        /\ reading' = IF reading.pc \in {"idle", "done"} THEN reading
                      ELSE [reading EXCEPT !.v1s = @ \cup {Weight(vector1')},
                                           !.v2s = @ \cup {vector2'}]
    BY <2>1 DEF Commit
  <2>3. /\ vector1' = task[t].v1 /\ Pre(task[t])
        /\ held' = task[t].held
        /\ UNCHANGED <<counted, vector2, topicPrefs, recent>>
    BY <1>4, <2>1 DEF UpsertUserVector, Rebuilt, Pre
  <2> QED
    BY <1>0, <2>1, <2>2, <2>3 DEF Saves
<1> QED
  BY <1>1, <1>2, <1>3, <1>4

-----------------------------------------------------------------------------
\* The types hold initially,
LEMMA PrefTypeInit == PreferencesAssumption /\ PrefInit => PrefTypeOK
<1> SUFFICES ASSUME PreferencesAssumption, PrefInit PROVE PrefTypeOK
  OBVIOUS
<1>1. BehaviorOK
  BY PreferencesAssumption DEF PrefInit, BehaviorOK, PreferencesAssumption, Rows
<1>2. StoredOK
  BY DEF PrefInit, StoredOK
<1>3. KeysOK
  BY DEF PrefInit, KeysOK, NoKeys
<1>4. TasksOK
  BY DEF PrefInit, TasksOK, TaskOK
<1>5. ReadOK
  BY DEF PrefInit, ReadOK
<1> QED
  BY <1>1, <1>2, <1>3, <1>4, <1>5 DEF PrefTypeOK

\* and nothing that stays the same breaks them.
LEMMA PrefTypeQuiet ==
    ASSUME PrefTypeOK, UNCHANGED prefVars
    PROVE  PrefTypeOK'
<1>0. BehaviorOK /\ StoredOK /\ KeysOK /\ TasksOK /\ ReadOK
  BY DEF PrefTypeOK
<1>1. UNCHANGED <<behavior, hour, counted, vector1, vector2, recent, keys, task, reading>>
  BY DEF prefVars, stored
<1>2. BehaviorOK' /\ StoredOK' /\ KeysOK' /\ ReadOK'
  BY <1>0, <1>1 DEF BehaviorOK, StoredOK, KeysOK, ReadOK, Rows
<1>3. TasksOK'
  BY <1>0, <1>1
     DEF TasksOK, TaskOK, NoTask, ApplyOK, DueOK, ReplayOK, RebuildOK, ViewsRead,
         Weighs, Views, OfKind, Rows
<1> QED
  BY <1>2, <1>3 DEF PrefTypeOK

\* Every step keeps the types.
LEMMA PrefTypeNext == PrefTypeOK /\ [PrefNext]_prefVars => PrefTypeOK'
  BY PreferencesAssumption, RecordOK, PassHourOK, ReaderOK, ExpireOK,
     TaskStepOK, PrefTypeQuiet
     DEF PrefNext, AtRest

\* Whatever users, workers, calls of the API and failures do, every value that
\* is stored, cached, held by a task or read is of its type.
THEOREM PreferencesTypeCorrect == PrefSpec => []PrefTypeOK
  BY PreferencesAssumption, PrefTypeInit, PrefTypeNext, PTL DEF PrefSpec

-----------------------------------------------------------------------------
(* What a step does to a task, by its effect: it starts it, goes on within *)
(* the transaction, commits, or is past the commit.                        *)

\* A task at work keeps what the vectors are computed from.
AtWork(r, q) ==
    /\ Pre(r) /\ Pre(q) /\ Alike(r, q)
    /\ r.kind \in {"replay", "rebuild"} => q = r

\* The fields of a task that starts.
Started(r) ==
    /\ r.stale = {}
    /\ \/ r.kind = "due" /\ r.events = {}
       \/ /\ r.kind = "apply" /\ r.events # {} /\ r.events \subseteq Rows \ counted
          /\ \A o \in Tasks : r.events \cap task[o].events = {}
          /\ r.v1 = Weight(vector1) + Total(r.events)
          /\ r.v2 = IF Weighs(r.events) THEN Len(behavior) ELSE vector2
          /\ r.held = [held EXCEPT !.events = @ \cup r.events]
       \/ r.kind = "replay" /\ r.events = {} /\ r.v2 = Len(behavior)
       \/ /\ r.kind = "rebuild" /\ r.events = {}
          /\ r.v1 = IF liked THEN 1 ELSE 0
          /\ r.held = [likes |-> LikeRows, events |-> {}, before |-> counted]

\* One task starts, works or is past its commit; the others wait.
Turn(t) ==
    /\ TasksOK'
    /\ \A o \in Tasks \ {t} : task'[o] = task[o]
    /\ UNCHANGED <<behavior, liked, hour, counted, vector1, vector2, topicPrefs, held>>
    /\ \A x \in {"v1", "v2", "topics"} : x \in torn' <=> x \in torn
    /\ \/ /\ task[t] = NoTask /\ Started(task'[t]) /\ task'[t].pc # "commit"
          /\ task'[t].pc # "prefs" /\ Pre(task'[t])
          /\ UNCHANGED <<keys, recent, torn, reading>>
       \/ /\ AtWork(task[t], task'[t])
          /\ SaveVectors(t) \/ ReadViews(t) \/ UpdatePrefs(t)
          /\ UNCHANGED <<keys, recent, torn, reading>>
       \/ /\ task'[t] = NoTask
             \/ /\ Post(task[t]) /\ Post(task'[t])
                /\ task[t].kind = "apply" /\ task'[t].kind = "apply"
                /\ task'[t].events = task[t].events
          /\ DeleteKeys(t) \/ SetKeys(t) \/ Reread(t) \/ SetPref(t)
             \/ Fail(t) \/ BreakDeadlock(t)
          /\ recent' \in {recent, hour} /\ UNCHANGED reading

\* Every step of a task but its commit is a turn of it.
LEMMA Turns ==
    ASSUME PrefTypeOK, PreferencesAssumption, NEW t \in Tasks,
           \/ \E S \in SUBSET (Rows \ counted) : Claim(t, S)
           \/ SaveVectors(t) \/ ReadViews(t) \/ UpdatePrefs(t)
           \/ DeleteKeys(t) \/ SetKeys(t) \/ Reread(t)
           \/ Due(t) \/ Backfill(t) \/ ReplayUser(t) \/ Aggregate(t) \/ SetPref(t)
           \/ Fail(t) \/ BreakDeadlock(t)
    PROVE  Turn(t)
<1>0. TasksOK /\ DOMAIN task = Tasks
  BY DEF PrefTypeOK, TasksOK
<1>1. CASE \/ \E S \in SUBSET (Rows \ counted) : Claim(t, S)
           \/ Due(t) \/ RebuildV2(t) \/ Aggregate(t)
  <2>1. TasksOK'
    BY <1>1, StartOK
  <2>2. ASSUME NEW u, StartTask(t, u), Started(u), u.pc \in {"vectors", "views", "upsert"}
        PROVE  Turn(t)
    <3>1. /\ task[t] = NoTask /\ task' = [task EXCEPT ![t] = u]
          /\ UNCHANGED <<behavior, liked, hour, stored, keys, reading, torn, held>>
      BY <2>2 DEF StartTask
    <3>2. task'[t] = u /\ \A o \in Tasks \ {t} : task'[o] = task[o]
      BY <1>0, <3>1
    <3> QED
      BY <2>1, <2>2, <3>1, <3>2 DEF Turn, stored, Pre
  <2>3. ASSUME NEW S \in SUBSET (Rows \ counted), Claim(t, S) PROVE Turn(t)
    <3>1. PICK u : u = [kind |-> "apply", events |-> S, locks |-> {}, stale |-> {},
                        pc |-> IF Weighs(S) THEN "vectors" ELSE "views",
                        v1 |-> Weight(vector1) + Total(S),
                        held |-> [held EXCEPT !.events = @ \cup S],
                        v2 |-> IF Weighs(S) THEN Len(behavior) ELSE vector2]
      OBVIOUS
    <3>2. S # {} /\ (\A o \in Tasks : S \cap task[o].events = {}) /\ StartTask(t, u)
      BY <2>3, <3>1 DEF Claim
    <3>3. /\ u.kind = "apply" /\ u.events = S /\ u.stale = {}
          /\ u.v1 = Weight(vector1) + Total(S)
          /\ u.held = [held EXCEPT !.events = @ \cup u.events]
          /\ u.v2 = IF Weighs(S) THEN Len(behavior) ELSE vector2
          /\ u.pc \in {"vectors", "views"}
      BY <3>1
    <3> QED
      BY <2>2, <3>2, <3>3 DEF Started
  <2>4. ASSUME Due(t) PROVE Turn(t)
    <3>1. PICK u : u = [kind |-> "due", events |-> {}, locks |-> {"recent"},
                        stale |-> {}, pc |-> "views"]
      OBVIOUS
    <3> QED
      BY <2>2, <2>4, <3>1 DEF Due, Started
  <2>5. ASSUME RebuildV2(t) PROVE Turn(t)
    <3>1. PICK u : u = [kind |-> "replay", events |-> {}, locks |-> {}, stale |-> {},
                        pc |-> "upsert", v2 |-> Len(behavior)]
      OBVIOUS
    <3> QED
      BY <2>2, <2>5, <3>1 DEF RebuildV2, Started
  <2>6. ASSUME Aggregate(t) PROVE Turn(t)
    <3>1. PICK u : u = [kind |-> "rebuild", events |-> {}, locks |-> {}, stale |-> {},
                        pc |-> "upsert", v1 |-> IF liked THEN 1 ELSE 0,
                        held |-> [likes |-> LikeRows, events |-> {}, before |-> counted]]
      OBVIOUS
    <3> QED
      BY <2>2, <2>6, <3>1 DEF Aggregate, Started
  <2> QED
    BY <1>1, <2>3, <2>4, <2>5, <2>6
<1>2. CASE SaveVectors(t) \/ ReadViews(t) \/ UpdatePrefs(t)
  BY <1>2, WorkOK DEF Turn, AtWork, stored
<1>3. CASE \/ DeleteKeys(t) \/ SetKeys(t) \/ Reread(t) \/ SetPref(t)
           \/ Fail(t) \/ BreakDeadlock(t)
  BY <1>3, AfterOK DEF Turn
<1> QED
  BY <1>1, <1>2, <1>3 DEF Backfill, ReplayUser

\* A key expires.
Expiry == \E k \in {"v2", "v1", "pref"} : ExpireKey(k)

\* Every step is a turn of a task, a commit, or leaves all tasks and what is
\* stored alone.
LEMMA StepKinds ==
    ASSUME PrefTypeOK, [PrefNext]_prefVars
    PROVE  /\ PrefTypeOK'
           /\ \/ \E t \in Tasks : Turn(t)
              \/ \E t \in Tasks : \E what, pc :
                    Saves(t, what, pc) /\ UNCHANGED <<behavior, liked, hour, keys>>
              \/ Expiry /\ UNCHANGED <<behavior, liked, hour, stored, task, reading, torn, held>>
              \/ /\ UNCHANGED <<stored, keys, task, torn, held>>
                 /\ \/ /\ \E kind \in Kinds : Record(kind)
                       /\ UNCHANGED <<hour, reading>>
                    \/ PassHour /\ UNCHANGED <<behavior, liked, reading>>
                    \/ /\ ReadOn \/ (\E schema \in {"v1", "v2"} : StartRead(schema))
                       /\ UNCHANGED <<behavior, liked, hour>>
                    \/ UNCHANGED prefVars
<1>1. PrefTypeOK'
  BY PrefTypeNext
<1>2. ASSUME NEW kind \in Kinds, Record(kind)
      PROVE  UNCHANGED <<stored, keys, task, torn, held, hour, reading>>
  BY <1>2 DEF Record
<1>3. ASSUME PassHour
      PROVE  UNCHANGED <<stored, keys, task, torn, held, behavior, liked, reading>>
  BY <1>3 DEF PassHour
<1>4. ASSUME ReadOn \/ \E schema \in {"v1", "v2"} : StartRead(schema)
      PROVE  UNCHANGED <<stored, keys, task, torn, held, behavior, liked, hour>>
  BY <1>4, ReaderOK
<1>5. ASSUME NEW t \in Tasks,
             \/ CommitApply(t) \/ CommitDue(t) \/ CommitReplay(t) \/ UpsertUserVector(t)
      PROVE  \E what, pc :
                Saves(t, what, pc) /\ UNCHANGED <<behavior, liked, hour, keys>>
  BY <1>5, PreferencesAssumption, CommitSaves, CommitStored
<1>6. ASSUME UNCHANGED prefVars PROVE UNCHANGED <<stored, keys, task, torn, held>>
  BY <1>6 DEF prefVars
<1>7. ASSUME Expiry
      PROVE  UNCHANGED <<behavior, liked, hour, stored, task, reading, torn, held>>
  BY <1>7 DEF Expiry, ExpireKey
<1> QED
  BY <1>1, <1>2, <1>3, <1>4, <1>5, <1>6, <1>7, PreferencesAssumption, Turns
     DEF PrefNext, AtRest, Expiry

-----------------------------------------------------------------------------
(* The v2 vector is not behind the events that have receipts.              *)
(*                                                                         *)
(* A task that will save a v2 vector has read every row that was counted   *)
(* by then, unless somebody else has saved one since it started.           *)

Seen == OfKind({"view"})

V2Read(r) ==
    /\ Pre(r) /\ "v2" \notin r.stale
    /\ r.kind = "replay" \/ (r.kind = "apply" /\ Weighs(r.events))
    => r.v2 \in Nat /\ \A i \in (counted \cup r.events) \ Seen : i <= r.v2

ReplayInv ==
    /\ PrefTypeOK
    /\ ReplayNotBehind
    /\ \A t \in Tasks : V2Read(task[t])

\* Which rows are views, and what weighs, stays as rows are added.
LEMMA SeenStays ==
    ASSUME BehaviorOK, BehaviorOK', \/ behavior' = behavior
                        \/ \E r : behavior' = Append(behavior, r)
    PROVE  /\ \A S \in SUBSET Rows : S \ Seen' = S \ Seen
           /\ \A S \in SUBSET Rows : Weighs(S)' <=> Weighs(S)
           /\ \A S \in SUBSET Rows : ~Weighs(S) <=> S \subseteq Seen
  BY RowsStay DEF Seen, Weighs

\* A step that leaves the counted rows and the vector alone, and starts no
\* task that would save one.
LEMMA ReplayFrame ==
    ASSUME ReplayInv, PrefTypeOK', \/ behavior' = behavior
                                   \/ \E r : behavior' = Append(behavior, r),
           UNCHANGED <<counted, vector2>>, "v2" \in torn => "v2" \in torn',
           \A o \in Tasks : \/ task'[o] = task[o]
                            \/ ~Pre(task'[o])
                            \/ AtWork(task[o], task'[o])
                            \/ V2Read(task[o])'
    PROVE  ReplayInv'
<1>0. /\ PrefTypeOK /\ BehaviorOK /\ BehaviorOK' /\ StoredOK /\ TasksOK /\ TasksOK'
      /\ counted \in SUBSET Rows /\ ReplayNotBehind
  BY DEF ReplayInv, PrefTypeOK, StoredOK
<1>1. /\ \A S \in SUBSET Rows : S \ Seen' = S \ Seen
      /\ \A S \in SUBSET Rows : Weighs(S)' <=> Weighs(S)
  BY <1>0, SeenStays
<1>2. ReplayNotBehind'
  BY <1>0, <1>1 DEF ReplayNotBehind, Seen
<1>3. ASSUME NEW o \in Tasks, \/ task'[o] = task[o]
                              \/ AtWork(task[o], task'[o])
      PROVE  V2Read(task[o])'
  <2>1. task[o] = NoTask \/ TaskOK(task[o])
    BY <1>0 DEF TasksOK
  <2>2. task[o].events \in SUBSET Rows
    BY <2>1 DEF TaskOK, NoTask, ApplyOK, DueOK, ReplayOK, RebuildOK
  <2>3. PICK q : q = task'[o]
    OBVIOUS
  <2>4. /\ Pre(q) <=> Pre(task[o])
        /\ q.kind = task[o].kind /\ q.events = task[o].events /\ q.stale = task[o].stale
        /\ q.kind \in {"apply", "replay"} => q.v2 = task[o].v2
    BY <1>3, <2>3 DEF AtWork, Alike
  <2>5. V2Read(task[o])
    BY DEF ReplayInv
  <2>6. (counted' \cup q.events) \ Seen' = (counted \cup task[o].events) \ Seen
    <3>1. counted \cup task[o].events \in SUBSET Rows
      BY <1>0, <2>2
    <3> QED
      BY <1>1, <2>4, <3>1
  <2>7. Weighs(q.events)' <=> Weighs(task[o].events)
    BY <1>1, <2>2, <2>4
  <2>8. V2Read(q)'
    BY <2>4, <2>5, <2>6, <2>7 DEF V2Read, Pre
  <2> QED
    BY <2>3, <2>8
<1>4. \A o \in Tasks : V2Read(task[o])'
  <2>1. ASSUME NEW o \in Tasks, ~Pre(task'[o]) PROVE V2Read(task[o])'
    BY <2>1 DEF V2Read, Pre
  <2> QED
    BY <1>3, <2>1
<1> QED
  BY <1>2, <1>4 DEF ReplayInv

\* A task that saves a v2 vector has read all rows when it starts.
LEMMA ReplayTurn ==
    ASSUME ReplayInv, PrefTypeOK', NEW t \in Tasks, Turn(t)
    PROVE  ReplayInv'
<1>0. BehaviorOK /\ StoredOK /\ TasksOK' /\ Len(behavior) \in Nat
  BY DEF ReplayInv, PrefTypeOK, BehaviorOK
<1>1. ASSUME Started(task'[t]) PROVE V2Read(task[t])'
  <2>1. PICK q : q = task'[t]
    OBVIOUS
  <2>2. /\ UNCHANGED <<behavior, counted>> /\ counted \subseteq Rows
    BY <1>0 DEF Turn, StoredOK
  <2>3. q.kind = "apply" => q.events \subseteq Rows /\ (Weighs(q.events) => q.v2 = Len(behavior))
    BY <1>1, <2>1 DEF Started
  <2>4. q.kind = "replay" => q.events = {} /\ q.v2 = Len(behavior)
    BY <1>1, <2>1 DEF Started
  <2>5. \A i \in Rows : i <= Len(behavior)
    BY <1>0 DEF Rows
  <2>6. V2Read(q)
    BY <1>0, <2>2, <2>3, <2>4, <2>5 DEF V2Read
  <2> QED
    BY <2>1, <2>2, <2>6 DEF V2Read, Weighs, Seen, OfKind, Rows
<1>2. ~Pre(task'[t]) \/ AtWork(task[t], task'[t]) \/ V2Read(task[t])'
  BY <1>1 DEF Turn, Pre, Post, NoTask
<1>3. /\ \A o \in Tasks : \/ task'[o] = task[o]
                          \/ ~Pre(task'[o])
                          \/ AtWork(task[o], task'[o])
                          \/ V2Read(task[o])'
      /\ UNCHANGED <<behavior, counted, vector2>>
      /\ "v2" \in torn => "v2" \in torn'
  BY <1>2 DEF Turn
<1> QED
  BY <1>3, ReplayFrame

\* A commit saves a vector that has seen every counted row, or counts rows
\* that weigh nothing.
LEMMA ReplayCommit ==
    ASSUME ReplayInv, PrefTypeOK', NEW t \in Tasks, NEW what, NEW pc, Saves(t, what, pc),
           UNCHANGED <<behavior, hour>>
    PROVE  ReplayInv'
<1>0. /\ BehaviorOK /\ StoredOK /\ TasksOK /\ counted \subseteq Rows
      /\ ReplayNotBehind /\ \A o \in Tasks : V2Read(task[o])
  BY DEF ReplayInv, PrefTypeOK, StoredOK
<1>1. /\ Seen' = Seen /\ \A S : Weighs(S)' <=> Weighs(S)
  BY DEF Seen, Weighs, OfKind, Rows
<1>2. task[t].events \in SUBSET Rows
  BY <1>0 DEF TasksOK, TaskOK, NoTask, ApplyOK, DueOK, ReplayOK, RebuildOK
<1>3. /\ Pre(task[t]) /\ Committed(t, what, pc)
      /\ counted' = counted \cup task[t].events
      /\ Weighs(task[t].events) => "v2" \in what
      /\ "v2" \in what /\ "v2" \in task[t].stale => "v2" \in torn'
      /\ "v2" \in torn => "v2" \in torn' \/ "v2" \in what
      /\ "v2" \in what => /\ vector2' = task[t].v2
                          /\ \/ task[t].kind = "replay"
                             \/ task[t].kind = "apply" /\ Weighs(task[t].events)
      /\ "v2" \notin what => vector2' = vector2
  BY DEF Saves
<1>4. ReplayNotBehind'
  <2>1. CASE "v2" \in what /\ "v2" \in task[t].stale
    BY <1>3, <2>1 DEF ReplayNotBehind
  <2>2. CASE "v2" \in what /\ "v2" \notin task[t].stale
    <3>1. task[t].v2 \in Nat /\ \A i \in (counted \cup task[t].events) \ Seen : i <= task[t].v2
      BY <1>0, <1>3, <2>2 DEF V2Read
    <3>2. vector2' # None /\ \A i \in counted' \ Seen' : i <= vector2'
      BY <1>1, <1>3, <2>2, <3>1, PreferencesAssumption
    <3> QED
      BY <3>2 DEF ReplayNotBehind, Seen
  <2>3. CASE "v2" \notin what
    <3>1. task[t].events \subseteq Seen
      BY <1>0, <1>2, <1>3, <2>3 DEF Weighs, Seen
    <3>2. counted' \ Seen' = counted \ Seen
      BY <1>1, <1>3, <3>1
    <3> QED
      BY <1>0, <1>3, <2>3, <3>2 DEF ReplayNotBehind, Seen
  <2> QED
    BY <2>1, <2>2, <2>3
<1>5. ASSUME NEW o \in Tasks PROVE V2Read(task[o])'
  <2>1. CASE o = t
    <3>1. ~Pre(task'[t])
      BY <1>3 DEF Saves, Committed, Pre
    <3> QED
      BY <2>1, <3>1 DEF V2Read, Pre
  <2>2. CASE o # t /\ task[o] = NoTask
    <3>1. task'[o] = NoTask
      BY <1>3, <2>2 DEF Committed, NoTask
    <3> QED
      BY <3>1 DEF V2Read, Pre, NoTask
  <2>3. CASE o # t /\ task[o] # NoTask
    <3>1. PICK q : q = task'[o]
      OBVIOUS
    <3>2. q = [task[o] EXCEPT !.stale = @ \cup what] /\ Base \subseteq DOMAIN task[o]
      BY <1>0, <1>3, <2>3, <3>1, AtKind DEF Committed
    <3>3. /\ DOMAIN q = DOMAIN task[o] /\ q.stale = task[o].stale \cup what
          /\ \A k \in DOMAIN task[o] \ {"stale"} : q[k] = task[o][k]
      BY <3>2, StaleOnly
    <3>4. /\ q.pc = task[o].pc /\ q.kind = task[o].kind /\ q.events = task[o].events
      BY <3>2, <3>3 DEF Base
    <3>5. q.kind \in {"apply", "replay"} => q.v2 = task[o].v2
      BY <1>0, <2>3, <3>3, <3>4, AtKind DEF ApplyOK, ReplayOK
    <3>6. V2Read(q)'
      <4>1. CASE "v2" \in what
        BY <3>3, <4>1 DEF V2Read, Pre
      <4>2. CASE "v2" \notin what
        <5>1. task[t].events \subseteq Seen
          BY <1>0, <1>2, <1>3, <4>2 DEF Weighs, Seen
        <5>2. (counted' \cup q.events) \ Seen' = (counted \cup task[o].events) \ Seen
          BY <1>1, <1>3, <3>4, <5>1
        <5>3. V2Read(task[o])
          BY <1>0
        <5> QED
          BY <1>1, <3>3, <3>4, <3>5, <4>2, <5>2, <5>3 DEF V2Read, Pre
      <4> QED
        BY <4>1, <4>2
    <3> QED
      BY <3>1, <3>6
  <2> QED
    BY <2>1, <2>2, <2>3
<1> QED
  BY <1>4, <1>5 DEF ReplayInv

\* No step leaves the v2 vector behind,
LEMMA ReplayNext == ReplayInv /\ [PrefNext]_prefVars => ReplayInv'
<1> SUFFICES ASSUME ReplayInv, [PrefNext]_prefVars PROVE ReplayInv'
  OBVIOUS
<1>1. PrefTypeOK /\ PrefTypeOK'
  BY StepKinds DEF ReplayInv
<1>2. ASSUME UNCHANGED <<stored, task, torn>>,
             \/ behavior' = behavior
             \/ \E r : behavior' = Append(behavior, r)
      PROVE  ReplayInv'
  BY <1>1, <1>2, ReplayFrame DEF stored
<1>3. ASSUME NEW kind \in Kinds, Record(kind) PROVE \E r : behavior' = Append(behavior, r)
  BY <1>3 DEF Record
<1>4. ASSUME UNCHANGED prefVars PROVE behavior' = behavior
  BY <1>4 DEF prefVars
<1> QED
  BY <1>1, <1>2, <1>3, <1>4, StepKinds, ReplayTurn, ReplayCommit

\* and at first nothing is counted.
LEMMA ReplayInit == PrefInit => ReplayInv
<1> SUFFICES ASSUME PrefInit PROVE ReplayInv
  OBVIOUS
<1>1. PrefTypeOK
  BY PreferencesAssumption, PrefTypeInit
<1>2. ReplayNotBehind
  BY DEF PrefInit, ReplayNotBehind
<1>3. \A t \in Tasks : V2Read(task[t])
  BY DEF PrefInit, V2Read, Pre, NoTask
<1> QED
  BY <1>1, <1>2, <1>3 DEF ReplayInv

\* No event with a receipt is missing from the v2 vector, however workers,
\* backfills and replays of any number overlap and fail, but where a task wrote
\* what it had read before somebody else's commit (_backfill_v2, replay_user).
THEOREM PreferencesReplayNotBehind == PrefSpec => []ReplayNotBehind
<1>1. ReplayInv => ReplayNotBehind
  BY DEF ReplayInv
<1> QED
  BY <1>1, ReplayInit, ReplayNext, PTL DEF PrefSpec

-----------------------------------------------------------------------------
(* The v1 vector counts each event once.                                   *)
(*                                                                         *)
(* A v1 vector that is stored, or that a task is going to store, is the    *)
(* sum of the rows held with it; a worker adds its events to those counted *)
(* before; and the rows held are all there are, unless somebody has saved  *)
(* a vector since the task read.                                           *)

LikeTotal == Total(LikeRows) = IF liked THEN 1 ELSE 0

HeldOK(h) == h \in [likes : SUBSET Rows, events : SUBSET Rows, before : SUBSET Rows]

SumOf(v, h) ==
    /\ HeldOK(h)
    /\ v = Total(h.likes) + Total(h.events)
    /\ h.likes \subseteq LikeRows
    /\ h.before \subseteq counted
    /\ h.events \cap h.before = {}

NoneMissing(h) ==
    /\ (counted \ Seen) \ h.before \subseteq h.events
    /\ h.before \cap LikeRows \subseteq h.likes

V1Read(r) ==
    Pre(r) /\ r.kind \in {"apply", "rebuild"} =>
        /\ SumOf(r.v1, r.held)
        /\ r.events \subseteq r.held.events
        /\ r.held.events \ r.events \subseteq counted
        /\ \/ "v1" \in r.stale
           \/ r.kind = "apply" /\ "v1" \in torn
           \/ NoneMissing(r.held)

CountInv ==
    /\ PrefTypeOK
    /\ SumOf(Weight(vector1), held)
    /\ held.events \subseteq counted
    /\ "v1" \in torn \/ NoneMissing(held)
    /\ LikeTotal
    /\ \A t \in Tasks : V1Read(task[t])

\* The events of a task are rows.
LEMMA EventsAreRows ==
    ASSUME TasksOK
    PROVE  \A t \in Tasks : task[t].events \in SUBSET Rows
  BY DEF TasksOK, TaskOK, NoTask, ApplyOK, DueOK, ReplayOK, RebuildOK

\* A sum stays one of the same rows as rows are added and counted.
LEMMA SumStays ==
    ASSUME BehaviorOK, BehaviorOK', counted \subseteq Rows, counted \subseteq counted',
           \/ behavior' = behavior
           \/ \E r : behavior' = Append(behavior, r),
           NEW v, NEW h, SumOf(v, h)
    PROVE  SumOf(v, h)'
<1>1. /\ h.likes \in SUBSET Rows /\ h.events \in SUBSET Rows /\ HeldOK(h)
  BY DEF SumOf, HeldOK
<1>2. /\ Total(h.likes)' = Total(h.likes) /\ Total(h.events)' = Total(h.events)
  BY <1>1, TotalStays
<1>3. Rows \subseteq Rows' /\ LikeRows' \cap Rows = LikeRows
  BY RowsStay DEF LikeRows
<1>4. HeldOK(h)'
  BY <1>1, <1>3 DEF HeldOK
<1> QED
  BY <1>1, <1>2, <1>3, <1>4 DEF SumOf

\* None is missing as long as what is counted is added or weighs nothing.
LEMMA NoneMissingStays ==
    ASSUME BehaviorOK, BehaviorOK', counted \subseteq Rows,
           \/ behavior' = behavior
           \/ \E r : behavior' = Append(behavior, r),
           NEW h, HeldOK(h), NoneMissing(h),
           counted' \subseteq counted \cup Seen \cup h.events
    PROVE  NoneMissing(h)'
<1>1. LikeRows' \cap Rows = LikeRows /\ Seen' \cap Rows = Seen
  BY RowsStay DEF LikeRows, Seen
<1>2. h.before \subseteq Rows
  BY DEF HeldOK
<1> QED
  BY <1>1, <1>2 DEF NoneMissing

\* A task that looks on while another commits has read something old.
LEMMA Bystander ==
    ASSUME TasksOK, NEW t \in Tasks, NEW what, NEW pc, Committed(t, what, pc),
           NEW o \in Tasks \ {t}, task[o] # NoTask
    PROVE  LET r == task[o]
               q == task'[o]
           IN /\ q.pc = r.pc /\ q.kind = r.kind /\ q.events = r.events /\ q.locks = r.locks
              /\ q.stale = r.stale \cup what
              /\ r.kind \in {"apply", "rebuild"} => q.v1 = r.v1
              /\ r.kind \in {"apply", "replay"} => q.v2 = r.v2
              /\ r.kind \in {"apply", "rebuild"} => q.held = r.held
              /\ {"topics", "at"} \subseteq DOMAIN r => q.topics = r.topics /\ q.at = r.at
<1>1. PICK r, q : r = task[o] /\ q = task'[o]
  OBVIOUS
<1>2. q = [r EXCEPT !.stale = @ \cup what] /\ Base \subseteq DOMAIN r
  BY <1>1, AtKind DEF Committed
<1>3. /\ DOMAIN q = DOMAIN r /\ q.stale = r.stale \cup what
      /\ \A k \in DOMAIN r \ {"stale"} : q[k] = r[k]
  BY <1>2, StaleOnly
<1>4. q.pc = r.pc /\ q.kind = r.kind /\ q.events = r.events /\ q.locks = r.locks
  BY <1>2, <1>3 DEF Base
<1>5. /\ r.kind = "apply" => ApplyOK(r)
      /\ r.kind = "replay" => ReplayOK(r)
      /\ r.kind = "rebuild" => RebuildOK(r)
  BY <1>1, AtKind
<1>6. /\ r.kind \in {"apply", "rebuild"} => q.v1 = r.v1
      /\ r.kind \in {"apply", "replay"} => q.v2 = r.v2
      /\ r.kind \in {"apply", "rebuild"} => q.held = r.held
      /\ {"topics", "at"} \subseteq DOMAIN r => q.topics = r.topics /\ q.at = r.at
  BY <1>3, <1>5 DEF ApplyOK, ReplayOK, RebuildOK
<1> QED
  BY <1>1, <1>3, <1>4, <1>6

\* The interactions agree with the rows of the like as the user goes on.
LEMMA LikeRecord ==
    ASSUME BehaviorOK, BehaviorOK', LikeTotal, NEW kind \in Kinds, Record(kind)
    PROVE  LikeTotal'
<1>1. PICK r, n :
         /\ r = [kind |-> kind, at |-> IF kind \in {"view", "read"} THEN hour ELSE 0]
         /\ n = Len(behavior) + 1
  OBVIOUS
<1>2. behavior' = Append(behavior, r) /\ behavior \in Seq([kind : Kinds, at : 0..MaxHour])
  BY <1>1 DEF Record, BehaviorOK
<1>3. /\ Rows' = Rows \cup {n} /\ n \notin Rows
      /\ behavior'[n].kind = kind /\ \A i \in Rows : behavior'[i] = behavior[i]
  BY <1>1, <1>2 DEF Rows
<1>4. PICK L : L = LikeRows
  OBVIOUS
<1>5. L \in SUBSET Rows /\ Total(L)' = Total(L) /\ L \in SUBSET Rows' /\ {n} \in SUBSET Rows'
  BY <1>2, <1>3, <1>4, TotalStays DEF LikeRows, OfKind
<1>6. CASE kind \notin {"like", "unlike"}
  <2>1. LikeRows' = L
    BY <1>3, <1>4, <1>6 DEF LikeRows, OfKind
  <2>2. Total(LikeRows)' = Total(L)'
    BY <2>1, Zenon DEF Total
  <2>3. liked' = liked
    BY <1>6 DEF Record
  <2> QED
    BY <1>4, <1>5, <2>2, <2>3 DEF LikeTotal
<1>7. CASE kind \in {"like", "unlike"}
  <2>1. PICK M, N : M = L \cup {n} /\ N = {n}
    OBVIOUS
  <2>2. LikeRows' = M /\ L \cap N = {} /\ N \in SUBSET Rows' /\ M = L \cup N
    BY <1>3, <1>4, <1>5, <1>7, <2>1 DEF LikeRows, OfKind
  <2>3. Total(L \cup N)' = Total(L)' + Total(N)'
    BY <1>5, <2>2, TotalAddsNext
  <2>4. Total(LikeRows)' = Total(L \cup N)'
    BY <2>2, Zenon DEF Total
  <2>5. Total(N)' = IF kind = "like" THEN 1 ELSE -1
    <3>1. /\ kind = "like" => N \cap OfKind({"like", "read"})' = {n}
                              /\ N \cap OfKind({"unlike"})' = {}
          /\ kind = "unlike" => N \cap OfKind({"like", "read"})' = {}
                              /\ N \cap OfKind({"unlike"})' = {n}
      BY <1>3, <2>1 DEF OfKind
    <3>2. Cardinality({n}) = 1 /\ Cardinality({}) = 0
      BY FS_EmptySet, FS_Singleton, Zenon
    <3>3. CASE kind = "like"
      <4>1. /\ Cardinality(N \cap OfKind({"like", "read"})') = 1
            /\ Cardinality(N \cap OfKind({"unlike"})') = 0
        BY <3>1, <3>2, <3>3, Zenon
      <4> QED
        BY <3>3, <4>1 DEF Total
    <3>4. CASE kind = "unlike"
      <4>1. /\ Cardinality(N \cap OfKind({"like", "read"})') = 0
            /\ Cardinality(N \cap OfKind({"unlike"})') = 1
        BY <3>1, <3>2, <3>4, Zenon
      <4> QED
        BY <3>4, <4>1 DEF Total
    <3> QED
      BY <1>7, <3>3, <3>4
  <2>6. /\ kind = "like" => ~liked /\ liked' = TRUE
        /\ kind = "unlike" => liked /\ liked' = FALSE
    BY DEF Record
  <2> QED
    BY <1>4, <1>5, <1>7, <2>3, <2>4, <2>5, <2>6 DEF LikeTotal
<1> QED
  BY <1>6, <1>7

\* They agree as long as the user does nothing.
LEMMA LikeStays ==
    ASSUME LikeTotal, UNCHANGED <<behavior, liked>>
    PROVE  LikeTotal'
<1>1. Total(LikeRows)' = Total(LikeRows)
  BY Zenon DEF Total, LikeRows, OfKind, Rows
<1> QED
  BY <1>1 DEF LikeTotal

\* A step that leaves the counted rows and the vector alone, and starts no
\* task that would save one.
LEMMA CountFrame ==
    ASSUME CountInv, PrefTypeOK', LikeTotal',
           \/ behavior' = behavior
           \/ \E r : behavior' = Append(behavior, r),
           UNCHANGED <<counted, vector1, held>>, "v1" \in torn => "v1" \in torn',
           \A o \in Tasks : \/ task'[o] = task[o]
                            \/ ~Pre(task'[o])
                            \/ AtWork(task[o], task'[o])
                            \/ V1Read(task[o])'
    PROVE  CountInv'
<1>0. BehaviorOK /\ BehaviorOK' /\ counted \subseteq Rows
  BY DEF CountInv, PrefTypeOK, StoredOK
<1>1. ASSUME NEW v, NEW h, SumOf(v, h) PROVE SumOf(v, h)'
  BY <1>0, <1>1, SumStays
<1>2. ASSUME NEW h, HeldOK(h), NoneMissing(h) PROVE NoneMissing(h)'
  BY <1>0, <1>2, NoneMissingStays
<1>3. SumOf(Weight(vector1), held)' /\ held'.events \subseteq counted'
      /\ ("v1" \in torn' \/ NoneMissing(held)')
  <2>1. PICK v, h : v = Weight(vector1) /\ h = held
    OBVIOUS
  <2>2. v = Weight(vector1)' /\ h = held'
    BY <2>1 DEF Weight
  <2>3. /\ SumOf(v, h) /\ HeldOK(h) /\ h.events \subseteq counted
        /\ "v1" \in torn \/ NoneMissing(h)
    BY <2>1 DEF CountInv, SumOf
  <2>4. SumOf(v, h)' /\ ("v1" \in torn' \/ NoneMissing(h)')
    BY <1>1, <1>2, <2>3
  <2> QED
    BY <2>2, <2>3, <2>4 DEF SumOf, HeldOK, NoneMissing
<1>4. ASSUME NEW o \in Tasks, task'[o] = task[o] \/ AtWork(task[o], task'[o])
      PROVE  V1Read(task[o])'
  <2>1. PICK r, q : r = task[o] /\ q = task'[o]
    OBVIOUS
  <2>2. /\ Pre(q) <=> Pre(r)
        /\ q.kind = r.kind /\ q.events = r.events /\ q.stale = r.stale
        /\ q.kind \in {"apply", "rebuild"} => q.v1 = r.v1 /\ q.held = r.held
    BY <1>4, <2>1 DEF AtWork, Alike
  <2>3. V1Read(r)
    BY <2>1 DEF CountInv
  <2>4. V1Read(q)'
    <3>1. SUFFICES ASSUME Pre(r), r.kind \in {"apply", "rebuild"} PROVE V1Read(q)'
      BY <2>2 DEF V1Read, Pre
    <3>2. PICK v, h : v = r.v1 /\ h = r.held
      OBVIOUS
    <3>3. /\ SumOf(v, h) /\ HeldOK(h) /\ r.events \subseteq h.events
          /\ h.events \ r.events \subseteq counted
          /\ \/ "v1" \in r.stale
             \/ r.kind = "apply" /\ "v1" \in torn
             \/ NoneMissing(h)
      BY <2>3, <3>1, <3>2 DEF V1Read, SumOf
    <3>4. SumOf(v, h)' /\ (NoneMissing(h) => NoneMissing(h)')
      BY <1>1, <1>2, <3>3
    <3> QED
      BY <2>2, <3>1, <3>2, <3>3, <3>4 DEF V1Read
  <2> QED
    BY <2>1, <2>4
<1>5. \A o \in Tasks : V1Read(task[o])'
  <2>1. ASSUME NEW o \in Tasks, ~Pre(task'[o]) PROVE V1Read(task[o])'
    BY <2>1 DEF V1Read, Pre
  <2> QED
    BY <1>4, <2>1
<1> QED
  BY <1>3, <1>5 DEF CountInv

\* A worker adds its events to what is stored when it starts; a rebuild has the
\* sum of the likes.
LEMMA CountStart ==
    ASSUME CountInv, NEW q, Started(q)
    PROVE  V1Read(q)
<1>0. /\ BehaviorOK /\ counted \subseteq Rows /\ SumOf(Weight(vector1), held)
      /\ held.events \subseteq counted /\ LikeTotal
      /\ "v1" \in torn \/ NoneMissing(held)
  BY DEF CountInv, PrefTypeOK, StoredOK
<1>1. CASE q.kind = "apply"
  <2>1. /\ q.events \subseteq Rows \ counted /\ q.stale = {}
        /\ q.v1 = Weight(vector1) + Total(q.events)
        /\ q.held = [held EXCEPT !.events = @ \cup q.events]
    BY <1>1 DEF Started
  <2>2. PICK S, E, L, h : S = q.events /\ E = held.events /\ L = held.likes /\ h = q.held
    OBVIOUS
  <2>3. /\ E \in SUBSET Rows /\ L \in SUBSET Rows /\ S \in SUBSET Rows /\ S \cap E = {}
        /\ held.before \subseteq counted /\ L \subseteq LikeRows /\ E \cap held.before = {}
        /\ Weight(vector1) = Total(L) + Total(E)
    BY <1>0, <2>1, <2>2 DEF SumOf, HeldOK
  <2>4. h.likes = L /\ h.events = E \cup S /\ h.before = held.before /\ HeldOK(h)
    BY <1>0, <2>1, <2>2, <2>3 DEF SumOf, HeldOK
  <2>5. Total(E \cup S) = Total(E) + Total(S)
    BY <1>0, <2>3, TotalAdds
  <2>6. Total(E) \in Int /\ Total(L) \in Int /\ Total(S) \in Int
    BY <1>0, <2>3, TotalFacts
  <2>7. q.v1 = Total(L) + Total(E \cup S)
    <3>1. q.v1 = Weight(vector1) + Total(S)
      BY <2>1, <2>2
    <3> QED
      BY <2>3, <2>5, <2>6, <3>1
  <2>8. SumOf(q.v1, h)
    BY <2>1, <2>2, <2>3, <2>4, <2>7 DEF SumOf
  <2>9. NoneMissing(held) => NoneMissing(h)
    BY <2>2, <2>4 DEF NoneMissing
  <2> QED
    BY <1>0, <1>1, <2>2, <2>4, <2>8, <2>9 DEF V1Read
<1>2. CASE q.kind = "rebuild"
  <2>1. /\ q.events = {} /\ q.v1 = IF liked THEN 1 ELSE 0
        /\ q.held = [likes |-> LikeRows, events |-> {}, before |-> counted]
    BY <1>2 DEF Started
  <2>2. LikeRows \in SUBSET Rows /\ Total({}) = 0
    BY <1>0, TotalFacts DEF LikeRows, OfKind, Weighs
  <2>3. q.v1 \in Int /\ q.v1 = Total(LikeRows)
    BY <1>0, <2>1 DEF LikeTotal
  <2>4. q.v1 = Total(LikeRows) + Total({})
    BY <2>2, <2>3
  <2>5. SumOf(q.v1, q.held)
    BY <1>0, <2>1, <2>2, <2>4 DEF SumOf, HeldOK
  <2> QED
    BY <1>2, <2>1, <2>5 DEF V1Read, NoneMissing
<1> QED
  BY <1>1, <1>2 DEF V1Read

\* So a turn of a task leaves every sum as it should be.
LEMMA CountTurn ==
    ASSUME CountInv, PrefTypeOK', NEW t \in Tasks, Turn(t)
    PROVE  CountInv'
<1>0. BehaviorOK /\ BehaviorOK' /\ counted \subseteq Rows /\ LikeTotal
  BY DEF CountInv, PrefTypeOK, StoredOK
<1>1. /\ UNCHANGED <<behavior, liked, counted, vector1, held>>
      /\ "v1" \in torn' <=> "v1" \in torn
  BY DEF Turn
<1>2. ASSUME Started(task'[t]) PROVE V1Read(task[t])'
  <2>1. PICK q : q = task'[t]
    OBVIOUS
  <2>2. V1Read(q)
    BY <1>2, <2>1, CountStart
  <2>3. V1Read(q)'
    <3>1. PICK v, h : v = q.v1 /\ h = q.held
      OBVIOUS
    <3>2. SumOf(v, h) => SumOf(v, h)'
      BY <1>0, <1>1, SumStays
    <3>3. NoneMissing(h) => NoneMissing(h)'
      BY <1>1 DEF NoneMissing, Seen, LikeRows, OfKind, Rows
    <3> QED
      BY <1>1, <2>2, <3>1, <3>2, <3>3 DEF V1Read, Pre
  <2> QED
    BY <2>1, <2>3
<1>3. ~Pre(task'[t]) \/ AtWork(task[t], task'[t]) \/ V1Read(task[t])'
  BY <1>2 DEF Turn, Pre, Post, NoTask
<1>4. \A o \in Tasks : \/ task'[o] = task[o]
                       \/ ~Pre(task'[o])
                       \/ AtWork(task[o], task'[o])
                       \/ V1Read(task[o])'
  BY <1>3 DEF Turn
<1>5. LikeTotal'
  BY <1>0, <1>1, LikeStays
<1> QED
  BY <1>1, <1>4, <1>5, CountFrame

\* A commit stores the sum its task has made, and those who have read the
\* vector before are too late.
LEMMA CountCommit ==
    ASSUME CountInv, PrefTypeOK', NEW t \in Tasks, NEW what, NEW pc, Saves(t, what, pc),
           UNCHANGED <<behavior, liked, hour>>
    PROVE  CountInv'
<1>0. /\ BehaviorOK /\ BehaviorOK' /\ TasksOK /\ counted \subseteq Rows /\ LikeTotal
      /\ SumOf(Weight(vector1), held) /\ held.events \subseteq counted
      /\ "v1" \in torn \/ NoneMissing(held)
      /\ \A o \in Tasks : V1Read(task[o])
  BY DEF CountInv, PrefTypeOK, StoredOK
<1>1. PICK e, r : e = task[t].events /\ r = task[t]
  OBVIOUS
<1>2. /\ Pre(r) /\ r.events = e /\ Committed(t, what, pc)
      /\ counted' = counted \cup e
      /\ Weighs(e) => "v1" \in what
      /\ "v1" \in what /\ "v1" \in r.stale => "v1" \in torn'
      /\ "v1" \in torn => "v1" \in torn' \/ r.kind = "rebuild"
      /\ IF "v1" \in what
         THEN vector1' = r.v1 /\ held' = r.held /\ r.kind \in {"rebuild", "apply"}
         ELSE vector1' = vector1 /\ held' = held /\ r.kind # "rebuild"
      /\ e \in SUBSET Rows /\ V1Read(r)
      /\ r.kind \in {"rebuild", "apply"} => r.v1 \in Int
  <2>1. r.kind = "rebuild" => r.v1 \in Int
    BY <1>0, <1>1, AtKind DEF Saves, Pre, RebuildOK, NoTask
  <2>2. r.kind = "apply" => r.v1 \in Int
    BY <1>0, <1>1, AtKind DEF Saves, Pre, ApplyOK, NoTask
  <2>3. e \in SUBSET Rows
    BY <1>0, <1>1, EventsAreRows
  <2> QED
    BY <1>0, <1>1, <2>1, <2>2, <2>3 DEF Saves
<1>3. ~Weighs(e) => counted' \subseteq counted \cup Seen
  BY <1>0, <1>2, SeenStays
<1>4. ASSUME NEW v, NEW h, SumOf(v, h) PROVE SumOf(v, h)'
  BY <1>0, <1>2, <1>4, SumStays
<1>5. ASSUME NEW h, HeldOK(h), NoneMissing(h), e \subseteq h.events \/ ~Weighs(e)
      PROVE  NoneMissing(h)'
  <2>1. counted' \subseteq counted \cup Seen \cup h.events
    BY <1>2, <1>3, <1>5
  <2> QED
    BY <1>0, <1>5, <2>1, NoneMissingStays
<1>6. SumOf(Weight(vector1), held)' /\ held'.events \subseteq counted'
      /\ ("v1" \in torn' \/ NoneMissing(held)')
  <2>1. PICK v, h : v = Weight(vector1') /\ h = held'
    OBVIOUS
  <2>2. /\ SumOf(v, h) /\ h.events \subseteq counted'
        /\ "v1" \in torn' \/ (NoneMissing(h) /\ (e \subseteq h.events \/ ~Weighs(e)))
    <3>1. CASE "v1" \in what
      <4>1. v = r.v1 /\ h = r.held
        BY <1>2, <2>1, <3>1, PreferencesAssumption DEF Weight
      <4>2. /\ SumOf(v, h) /\ e \subseteq h.events /\ h.events \ e \subseteq counted
            /\ "v1" \in r.stale \/ (r.kind = "apply" /\ "v1" \in torn) \/ NoneMissing(h)
        BY <1>2, <3>1, <4>1 DEF V1Read
      <4> QED
        BY <1>2, <3>1, <4>2
    <3>2. CASE "v1" \notin what
      <4>1. v = Weight(vector1) /\ h = held
        BY <1>2, <2>1, <3>2
      <4> QED
        BY <1>0, <1>2, <3>2, <4>1
    <3> QED
      BY <3>1, <3>2
  <2>3. SumOf(v, h)' /\ ("v1" \in torn' \/ NoneMissing(h)')
    BY <1>4, <1>5, <2>2 DEF SumOf
  <2>4. v = Weight(vector1)' /\ h = held'
    BY <2>1 DEF Weight
  <2> QED
    BY <2>2, <2>3, <2>4 DEF SumOf, HeldOK, NoneMissing
<1>7. ASSUME NEW o \in Tasks PROVE V1Read(task[o])'
  <2>1. CASE o = t
    <3>1. ~Pre(task'[t])
      BY DEF Saves, Committed, Pre
    <3> QED
      BY <2>1, <3>1 DEF V1Read, Pre
  <2>2. CASE o # t /\ task[o] = NoTask
    <3>1. task'[o] = NoTask
      BY <1>2, <2>2 DEF Committed, NoTask
    <3> QED
      BY <3>1 DEF V1Read, Pre, NoTask
  <2>3. CASE o # t /\ task[o] # NoTask
    <3>1. PICK u, q : u = task[o] /\ q = task'[o]
      OBVIOUS
    <3>2. /\ q.pc = u.pc /\ q.kind = u.kind /\ q.events = u.events
          /\ q.stale = u.stale \cup what
          /\ u.kind \in {"apply", "rebuild"} => q.v1 = u.v1 /\ q.held = u.held
      BY <1>0, <1>2, <2>3, <3>1, Bystander
    <3>3. V1Read(q)'
      <4>1. SUFFICES ASSUME Pre(u), u.kind \in {"apply", "rebuild"} PROVE V1Read(q)'
        BY <3>2 DEF V1Read, Pre
      <4>2. PICK v, h : v = u.v1 /\ h = u.held
        OBVIOUS
      <4>3. /\ SumOf(v, h) /\ HeldOK(h) /\ u.events \subseteq h.events
            /\ h.events \ u.events \subseteq counted
            /\ \/ "v1" \in u.stale
               \/ u.kind = "apply" /\ "v1" \in torn
               \/ NoneMissing(h)
        BY <1>0, <3>1, <4>1, <4>2 DEF V1Read, SumOf
      <4>4. SumOf(v, h)' /\ (NoneMissing(h) /\ ~Weighs(e) => NoneMissing(h)')
        BY <1>4, <1>5, <4>3
      <4>5. \/ "v1" \in q.stale
            \/ q.kind = "apply" /\ "v1" \in torn'
            \/ NoneMissing(h)'
        <5>1. CASE "v1" \in what
          BY <3>2, <5>1
        <5>2. CASE "v1" \notin what
          BY <1>2, <3>2, <4>3, <4>4, <5>2
        <5> QED
          BY <5>1, <5>2
      <4>6. q.v1 = v /\ q.held = h /\ q.events = u.events /\ counted \subseteq counted'
        BY <1>2, <3>2, <4>1, <4>2
      <4> QED
        BY <4>3, <4>4, <4>5, <4>6 DEF V1Read
    <3> QED
      BY <3>1, <3>3
  <2> QED
    BY <2>1, <2>2, <2>3
<1>8. LikeTotal'
  BY <1>0, LikeStays
<1> QED
  BY <1>6, <1>7, <1>8 DEF CountInv

\* No step counts an event twice or drops one,
LEMMA CountNext == CountInv /\ [PrefNext]_prefVars => CountInv'
<1> SUFFICES ASSUME CountInv, [PrefNext]_prefVars PROVE CountInv'
  OBVIOUS
<1>1. PrefTypeOK /\ PrefTypeOK' /\ BehaviorOK /\ BehaviorOK' /\ LikeTotal
  BY StepKinds DEF CountInv, PrefTypeOK
<1>2. ASSUME UNCHANGED <<stored, task, torn, held>>,
             \/ behavior' = behavior
             \/ \E r : behavior' = Append(behavior, r),
             LikeTotal'
      PROVE  CountInv'
  BY <1>1, <1>2, CountFrame DEF stored
<1>3. ASSUME NEW kind \in Kinds, Record(kind)
      PROVE  LikeTotal' /\ \E r : behavior' = Append(behavior, r)
  BY <1>1, <1>3, LikeRecord DEF Record
<1>4. ASSUME UNCHANGED prefVars PROVE UNCHANGED <<behavior, liked>>
  BY <1>4 DEF prefVars
<1>5. ASSUME UNCHANGED <<behavior, liked>> PROVE LikeTotal'
  BY <1>1, <1>5, LikeStays
<1> QED
  BY <1>1, <1>2, <1>3, <1>4, <1>5, StepKinds, CountTurn, CountCommit

\* and at first there is nothing to count.
LEMMA CountInit == PrefInit => CountInv
<1> SUFFICES ASSUME PrefInit PROVE CountInv
  OBVIOUS
<1>1. PrefTypeOK /\ BehaviorOK
  BY PreferencesAssumption, PrefTypeInit DEF PrefTypeOK
<1>2. Rows = {} /\ LikeRows = {}
  BY DEF PrefInit, Rows, LikeRows, OfKind
<1>3. Total({}) = 0
  BY <1>1, TotalFacts DEF Weighs
<1>4. Total(LikeRows) = 0
  BY <1>2, <1>3, Zenon
<1>5. LikeTotal /\ NoneMissing(held) /\ held.events \subseteq counted
  BY <1>4 DEF PrefInit, LikeTotal, NoneMissing, NothingHeld
<1>6. SumOf(Weight(vector1), held)
  <2>1. held = [likes |-> {}, events |-> {}, before |-> {}] /\ Weight(vector1) = 0
    BY DEF PrefInit, NothingHeld, Weight
  <2> QED
    BY <1>3, <2>1 DEF SumOf, HeldOK
<1>7. \A t \in Tasks : V1Read(task[t])
  BY DEF PrefInit, V1Read, Pre, NoTask
<1> QED
  BY <1>1, <1>5, <1>6, <1>7 DEF CountInv

\* However many workers and rebuilds cross and fail, the v1 vector is a sum of
\* rows each added by one worker at most, and once more at most by the last
\* rebuild_features if it is of the like.  That no counted row is missing from
\* it is proved where no task has saved what it had read before another's
\* commit, and but for the reads rebuild_features forgets (_apply_for_user,
\* rebuild_features).
THEOREM PreferencesInteractionsCountedOnce == PrefSpec => []InteractionsCountedOnce
<1>1. CountInv => InteractionsCountedOnce
  BY DEF CountInv, InteractionsCountedOnce, SumOf, NoneMissing, Seen
<1> QED
  BY <1>1, CountInit, CountNext, PTL DEF PrefSpec

-----------------------------------------------------------------------------
(* The topics of views that were applied are served.                       *)
(*                                                                         *)
(* A refresh that has read the views has the topic of every view that was  *)
(* counted and is still in the window, its own included, unless another    *)
(* was saved since; and it leaves users alone only if that has the topics. *)

Refreshes(r) == r.kind = "due" \/ (r.kind = "apply" /\ r.events \cap Views # {})

TopicsRead(r) ==
    r.pc \in {"prefs", "commit"} /\ "topics" \notin r.stale /\ Refreshes(r) =>
        /\ (counted \cup r.events) \cap Evidence(hour) \subseteq r.topics
        /\ r.pc = "commit" /\ "users" \notin r.locks => r.topics = topicPrefs

TopicsInv ==
    /\ PrefTypeOK
    /\ TopicsFollowViews
    /\ \A t \in Tasks : TopicsRead(task[t])

\* Old views only leave the window.
LEMMA EvidenceShrinks ==
    ASSUME BehaviorOK, BehaviorOK', hour <= hour',
           \/ behavior' = behavior
           \/ \E r : behavior' = Append(behavior, r)
    PROVE  /\ Rows \cap Evidence(hour)' \subseteq Evidence(hour)
           /\ Rows \cap Views' = Views
<1>1. /\ Rows \subseteq Rows'
      /\ \A i \in Rows : behavior'[i] = behavior[i]
      /\ Rows \cap Views' = Views
  BY RowsStay DEF Views
<1>2. ASSUME NEW i \in Rows PROVE behavior[i].at \in Int /\ behavior[i].at <= hour
  <2>1. PICK R : R = [kind : Kinds, at : 0..MaxHour]
    OBVIOUS
  <2>2. behavior \in Seq(R) /\ i \in 1..Len(behavior)
    BY <2>1 DEF BehaviorOK, Rows
  <2>3. behavior[i] \in R
    BY <2>2
  <2> QED
    BY <2>1, <2>3 DEF BehaviorOK
<1>3. hour \in Int /\ hour' \in Int /\ Window \in Int
  BY PreferencesAssumption DEF BehaviorOK
<1> QED
  BY <1>1, <1>2, <1>3 DEF Evidence

\* A step that counts nothing, and serves what was served.
LEMMA TopicsFrame ==
    ASSUME TopicsInv, PrefTypeOK', hour <= hour',
           \/ behavior' = behavior
           \/ \E r : behavior' = Append(behavior, r),
           UNCHANGED <<counted, topicPrefs>>, Served \subseteq Served',
           "topics" \in torn => "topics" \in torn',
           \A o \in Tasks : \/ task'[o] = task[o]
                            \/ TopicsRead(task[o])'
    PROVE  TopicsInv'
<1>0. /\ BehaviorOK /\ BehaviorOK' /\ TasksOK /\ counted \subseteq Rows
      /\ TopicsFollowViews
  BY DEF TopicsInv, PrefTypeOK, StoredOK
<1>1. /\ Rows \cap Evidence(hour)' \subseteq Evidence(hour)
      /\ Rows \cap Views' = Views
  BY <1>0, EvidenceShrinks
<1>2. TopicsFollowViews'
  BY <1>0, <1>1 DEF TopicsFollowViews
<1>3. ASSUME NEW o \in Tasks, task'[o] = task[o] PROVE TopicsRead(task[o])'
  <2>1. PICK r : r = task[o]
    OBVIOUS
  <2>2. TopicsRead(r) /\ r.events \in SUBSET Rows
    BY <1>0, <2>1, EventsAreRows DEF TopicsInv
  <2>3. Refreshes(r)' <=> Refreshes(r)
    BY <1>1, <2>2 DEF Refreshes
  <2>4. ((counted \cup r.events) \cap Evidence(hour))'
           \subseteq (counted \cup r.events) \cap Evidence(hour)
    BY <1>0, <1>1, <2>2
  <2>5. TopicsRead(r)'
    BY <2>2, <2>3, <2>4 DEF TopicsRead
  <2> QED
    BY <1>3, <2>1, <2>5
<1> QED
  BY <1>2, <1>3 DEF TopicsInv

\* A refresh reads the views, then the topics of the user.
LEMMA TopicsTurn ==
    ASSUME TopicsInv, PrefTypeOK', NEW t \in Tasks, Turn(t)
    PROVE  TopicsInv'
<1>0. /\ PrefTypeOK /\ BehaviorOK /\ StoredOK /\ TasksOK /\ DOMAIN task = Tasks
      /\ \A o \in Tasks : TopicsRead(task[o])
  BY DEF TopicsInv, PrefTypeOK, TasksOK
<1>1. UNCHANGED <<behavior, hour, counted, topicPrefs>>
  BY DEF Turn
<1>2. /\ \A r : Refreshes(r)' <=> Refreshes(r)
      /\ Evidence(hour)' = Evidence(hour)
  BY <1>1 DEF Refreshes, Views, OfKind, Rows, Evidence
<1>3. ASSUME task'[t].pc \notin {"prefs", "commit"} PROVE TopicsRead(task[t])'
  BY <1>3 DEF TopicsRead
<1>4. ASSUME SaveVectors(t) PROVE TopicsRead(task[t])'
  <2>1. PICK q : q = [task[t] EXCEPT !.locks = {"v1"},
                         !.pc = IF task[t].events \cap Views # {} THEN "views" ELSE "commit"]
    OBVIOUS
  <2>2. task[t].kind = "apply" /\ Base \subseteq DOMAIN task[t] /\ task'[t] = q
    BY <1>0, <1>4, <2>1, AtKind DEF SaveVectors, At, Continue, NoTask
  <2>3. q.pc # "views" => q.kind = "apply" /\ q.events \cap Views = {}
    BY <2>1, <2>2 DEF Base
  <2>4. q.pc \in {"views", "commit"}
    BY <2>1, <2>2 DEF Base
  <2>5. TopicsRead(q)'
    BY <1>2, <2>3, <2>4 DEF TopicsRead, Refreshes
  <2> QED
    BY <2>2, <2>5
<1>5. ASSUME ReadViews(t) PROVE TopicsRead(task[t])'
  <2>1. PICK q : q = [k \in DOMAIN task[t] \cup {"topics", "at"} |->
                        CASE k = "topics" -> Evidence(hour)
                          [] k = "at" -> hour
                          [] k = "pc" -> "prefs"
                          [] OTHER -> task[t][k]]
    OBVIOUS
  <2>2. Base \subseteq DOMAIN task[t] /\ task'[t] = q
    BY <1>0, <1>5, <2>1, AtKind DEF ReadViews, At, Continue, NoTask
  <2>3. q.pc = "prefs" /\ q.topics = Evidence(hour)
    BY <2>1, <2>2 DEF Base
  <2>4. TopicsRead(q)'
    BY <1>2, <2>3 DEF TopicsRead
  <2> QED
    BY <2>2, <2>4
<1>6. ASSUME UpdatePrefs(t) PROVE TopicsRead(task[t])'
  <2>1. PICK r, q : r = task[t] /\
                    q = [r EXCEPT !.pc = "commit",
                           !.locks = IF r.topics # topicPrefs THEN @ \cup {"users"} ELSE @]
    OBVIOUS
  <2>2. r.pc = "prefs" /\ task'[t] = q
    BY <1>0, <1>6, <2>1 DEF UpdatePrefs, At, Continue
  <2>3. Base \subseteq DOMAIN r /\ (r.kind = "apply" => ApplyOK(r))
        /\ r.kind \in {"apply", "due"} /\ (r.kind = "due" => DueOK(r))
    BY <1>0, <2>1, <2>2, AtKind DEF At, NoTask
  <2>4. "topics" \in DOMAIN r
    BY <2>2, <2>3 DEF ApplyOK, DueOK, ViewsRead
  <2>5. /\ q.pc = "commit" /\ q.kind = r.kind /\ q.events = r.events /\ q.topics = r.topics
        /\ q.stale = r.stale
        /\ q.topics # topicPrefs => "users" \in q.locks
    BY <2>1, <2>3, <2>4 DEF Base
  <2>6. TopicsRead(r)
    BY <1>0, <2>1
  <2>7. TopicsRead(q)'
    BY <1>1, <1>2, <2>2, <2>5, <2>6 DEF TopicsRead, Refreshes
  <2> QED
    BY <2>2, <2>7
<1>7. TopicsRead(task[t])'
  <2>1. CASE Started(task'[t]) /\ task'[t].pc \notin {"prefs", "commit"}
    BY <1>3, <2>1
  <2>2. CASE task'[t] = NoTask \/ Post(task'[t])
    BY <1>3, <2>2 DEF Post, NoTask
  <2> QED
    BY <1>4, <1>5, <1>6, <2>1, <2>2 DEF Turn
<1>8. Served \subseteq Served'
  <2>1. hour # None /\ hour # Never
    BY <1>0, PreferencesAssumption DEF BehaviorOK, Never
  <2>2. recent' \in {recent, hour} /\ topicPrefs' = topicPrefs
    BY DEF Turn
  <2> QED
    BY <2>1, <2>2 DEF Served, Never
<1>9. \A o \in Tasks : task'[o] = task[o] \/ TopicsRead(task[o])'
  BY <1>7 DEF Turn
<1>10. hour <= hour' /\ ("topics" \in torn => "topics" \in torn')
  BY <1>0, <1>1 DEF Turn, BehaviorOK
<1> QED
  BY <1>1, <1>8, <1>9, <1>10, TopicsFrame

\* A commit of a refresh serves what it has read, and is scheduled again while
\* there is something to serve.
LEMMA TopicsCommit ==
    ASSUME TopicsInv, PrefTypeOK', NEW t \in Tasks, NEW what, NEW pc, Saves(t, what, pc),
           UNCHANGED <<behavior, liked, hour>>
    PROVE  TopicsInv'
<1>0. /\ BehaviorOK /\ TasksOK /\ counted \subseteq Rows /\ TopicsFollowViews
      /\ \A o \in Tasks : TopicsRead(task[o])
  BY DEF TopicsInv, PrefTypeOK, StoredOK
<1>1. /\ \A r : Refreshes(r)' <=> Refreshes(r)
      /\ Evidence(hour)' = Evidence(hour) /\ Evidence(hour) \subseteq Views
  BY DEF Refreshes, Views, OfKind, Rows, Evidence
<1>2. PICK r : r = task[t]
  OBVIOUS
<1>3. /\ Pre(r) /\ Committed(t, what, pc) /\ TopicsRead(r)
      /\ counted' = counted \cup r.events
      /\ r.events \cap Views # {} => "topics" \in what
      /\ "topics" \in what /\ "topics" \in r.stale => "topics" \in torn'
      /\ "topics" \in torn => "topics" \in torn' \/ "topics" \in what
      /\ IF "topics" \in what
         THEN SaveTopics(t) /\ r.pc = "commit" /\ Refreshes(r)
         ELSE UNCHANGED <<topicPrefs, recent>>
  BY <1>0, <1>2 DEF Saves, Refreshes
<1>4. TopicsFollowViews'
  <2>1. CASE "topics" \in what /\ "topics" \in r.stale
    BY <1>3, <2>1 DEF TopicsFollowViews
  <2>2. CASE "topics" \in what /\ "topics" \notin r.stale
    <3>1. (counted \cup r.events) \cap Evidence(hour) \subseteq r.topics
      BY <1>3, <2>2 DEF TopicsRead
    <3>2. topicPrefs' = r.topics /\ recent' = IF r.topics # {} THEN r.at + 1 ELSE Never
      BY <1>2, <1>3, <2>2 DEF TopicsRead, SaveTopics, Schedule
    <3>3. r.at \in 0..hour
      <4>1. (r.kind = "apply" => ApplyOK(r)) /\ (r.kind = "due" => DueOK(r))
        BY <1>0, <1>2, <1>3, <2>2, AtKind DEF NoTask
      <4> QED
        BY <1>3, <2>2, <4>1 DEF Refreshes, ApplyOK, DueOK, ViewsRead
    <3>4. r.topics # {} => recent' # None /\ recent' # Never
      BY <1>0, <3>2, <3>3, PreferencesAssumption DEF BehaviorOK, Never
    <3>5. r.topics \subseteq Served'
      BY <3>2, <3>4 DEF Served, Never
    <3> QED
      BY <1>1, <1>3, <3>1, <3>5 DEF TopicsFollowViews
  <2>3. CASE "topics" \notin what
    <3>1. counted' \cap Evidence(hour)' = counted \cap Evidence(hour)
      BY <1>1, <1>3, <2>3
    <3>2. Served' = Served
      BY <1>3, <2>3 DEF Served, Never
    <3> QED
      BY <1>0, <1>3, <2>3, <3>1, <3>2 DEF TopicsFollowViews
  <2> QED
    BY <2>1, <2>2, <2>3
<1>5. ASSUME NEW o \in Tasks PROVE TopicsRead(task[o])'
  <2>1. CASE o = t
    <3>1. task'[t].pc \notin {"prefs", "commit"}
      BY <1>3 DEF Saves, Committed
    <3> QED
      BY <2>1, <3>1 DEF TopicsRead
  <2>2. CASE o # t /\ task[o] = NoTask
    <3>1. task'[o] = NoTask
      BY <1>3, <2>2 DEF Committed, NoTask
    <3> QED
      BY <3>1 DEF TopicsRead, NoTask
  <2>3. CASE o # t /\ task[o] # NoTask
    <3>1. PICK u, q : u = task[o] /\ q = task'[o]
      OBVIOUS
    <3>2. /\ q.pc = u.pc /\ q.kind = u.kind /\ q.events = u.events /\ q.locks = u.locks
          /\ q.stale = u.stale \cup what
          /\ {"topics", "at"} \subseteq DOMAIN u => q.topics = u.topics
      BY <1>0, <1>3, <2>3, <3>1, Bystander
    <3>3. u.pc \in {"prefs", "commit"} /\ Refreshes(u) => q.topics = u.topics
      <4>1. (u.kind = "apply" => ApplyOK(u)) /\ (u.kind = "due" => DueOK(u))
        BY <1>0, <2>3, <3>1, AtKind
      <4> QED
        BY <3>2, <4>1 DEF Refreshes, ApplyOK, DueOK, ViewsRead
    <3>4. TopicsRead(u)
      BY <1>0, <3>1
    <3>5. TopicsRead(q)'
      <4>1. CASE "topics" \in what
        BY <3>2, <4>1 DEF TopicsRead
      <4>2. CASE "topics" \notin what
        <5>1. ((counted \cup q.events) \cap Evidence(hour))'
                = (counted \cup u.events) \cap Evidence(hour)
          BY <1>1, <1>3, <3>2, <4>2
        <5>2. Refreshes(q)' <=> Refreshes(u)
          BY <1>1, <3>2 DEF Refreshes
        <5> QED
          BY <1>3, <3>2, <3>3, <3>4, <4>2, <5>1, <5>2 DEF TopicsRead
      <4> QED
        BY <4>1, <4>2
    <3> QED
      BY <3>1, <3>5
  <2> QED
    BY <2>1, <2>2, <2>3
<1> QED
  BY <1>4, <1>5 DEF TopicsInv

\* No step takes away a topic whose view is in the window,
LEMMA TopicsNext == TopicsInv /\ [PrefNext]_prefVars => TopicsInv'
<1> SUFFICES ASSUME TopicsInv, [PrefNext]_prefVars PROVE TopicsInv'
  OBVIOUS
<1>1. PrefTypeOK /\ PrefTypeOK' /\ BehaviorOK
  BY StepKinds DEF TopicsInv, PrefTypeOK
<1>2. ASSUME UNCHANGED <<stored, task, torn, held>>,
             \/ behavior' = behavior
             \/ \E r : behavior' = Append(behavior, r),
             hour' \in {hour, hour + 1}
      PROVE  TopicsInv'
  <2>1. Served' = Served
    BY <1>2 DEF Served, stored, Never
  <2>2. hour <= hour'
    BY <1>1, <1>2 DEF BehaviorOK
  <2> QED
    BY <1>1, <1>2, <2>1, <2>2, TopicsFrame DEF stored
<1>3. ASSUME NEW kind \in Kinds, Record(kind) PROVE \E r : behavior' = Append(behavior, r)
  BY <1>3 DEF Record
<1>4. ASSUME PassHour PROVE hour' = hour + 1
  BY <1>4 DEF PassHour
<1>5. ASSUME UNCHANGED prefVars PROVE UNCHANGED <<behavior, hour>>
  BY <1>5 DEF prefVars
<1> QED
  BY <1>1, <1>2, <1>3, <1>4, <1>5, StepKinds, TopicsTurn, TopicsCommit

\* and at first no view is counted.
LEMMA TopicsInit == PrefInit => TopicsInv
<1> SUFFICES ASSUME PrefInit PROVE TopicsInv
  OBVIOUS
<1>1. PrefTypeOK
  BY PreferencesAssumption, PrefTypeInit
<1> QED
  BY <1>1 DEF PrefInit, TopicsInv, TopicsFollowViews, TopicsRead, NoTask

\* The topic of a view that was applied is served while the view is in the
\* window, whatever refreshes come due, run or fail, and however time passes,
\* but where two of them crossed (_refresh_recent_topics_for_user,
\* _refresh_due_recent_topics).
THEOREM PreferencesTopicsFollowViews == PrefSpec => []TopicsFollowViews
<1>1. TopicsInv => TopicsFollowViews
  BY DEF TopicsInv
<1> QED
  BY <1>1, TopicsInit, TopicsNext, PTL DEF PrefSpec

-----------------------------------------------------------------------------
(* The keys follow the rows.                                               *)
(*                                                                         *)
(* A key that differs from its row has a task that will see to it: a       *)
(* worker that has not set it again yet, a replay before it deletes the    *)
(* keys, or a rebuild before it sets pref.  A task that is about to set    *)
(* keys holds the rows, or knows that somebody else has saved.             *)

KeyNames == {"v2", "v1", "pref"}

SeesTo(r, k) ==
    \/ r.kind \in {"apply", "replay"} /\ r.pc \in {"delete", "again"}
    \/ r.kind = "apply" /\ k = "pref" /\ r.pc = "set"
    \/ r.kind = "apply" /\ k = "v1" /\ r.pc \in {"set", "setv1"}
    \/ r.kind = "apply" /\ k = "v2" /\ r.pc \in {"set", "setv1", "setv2"} /\ r.v2 # None
    \/ r.kind = "rebuild" /\ r.pc = "pref" /\ k \in {"pref", "v1"}

RowOf(k) == IF k = "v2" THEN vector2 ELSE Weight(vector1)

Follows(k) ==
    \/ "keys" \in torn
    \/ \E t \in Tasks : SeesTo(task[t], k)
    \/ keys[k] \in {None, RowOf(k)}
    \/ k = "v1" /\ "shadow" \in torn

HasRows(r) ==
    /\ r.kind = "apply" /\ \/ r.pc \in {"delete", "set", "setv1", "setv2"}
                           \/ Pre(r) /\ ~Weighs(r.events)
         => /\ "v1" \notin r.stale => r.v1 = Weight(vector1)
            /\ "v2" \notin r.stale => r.v2 = vector2
    /\ r.kind = "rebuild" /\ r.pc = "pref" /\ "v1" \notin r.stale
         => r.v1 = Weight(vector1)

KeyInv ==
    /\ PrefTypeOK
    /\ \A k \in KeyNames : Follows(k)
    /\ \A t \in Tasks : HasRows(task[t])

\* A worker goes on to its next command.
GoesOn(r, q, pc) ==
    /\ q.kind = "apply" /\ q.pc = pc /\ q.stale = r.stale
    /\ q.v1 = r.v1 /\ q.v2 = r.v2

\* What a vector that was overtaken leaves behind.
Overtaken(r, what) == IF what \in r.stale THEN {"keys"} ELSE {}

\* What a task past its commit does to the keys.
Ended(t) ==
    LET r == task[t]
        q == task'[t]
    IN \/ /\ r.pc = "delete"
          /\ keys' = NoKeys
          /\ IF r.kind = "apply" THEN GoesOn(r, q, "set") ELSE q = NoTask
       \/ /\ r.pc = "set" /\ r.kind = "apply" /\ GoesOn(r, q, "setv1")
          /\ keys' = [keys EXCEPT !.pref = r.v1]
          /\ torn' = torn \cup Overtaken(r, "v1")
       \/ /\ r.pc = "setv1" /\ r.kind = "apply"
          /\ IF r.v2 = None THEN q = NoTask ELSE GoesOn(r, q, "setv2")
          /\ keys' = [keys EXCEPT !.v1 = r.v1]
          /\ torn' = torn \cup Overtaken(r, "v1")
       \/ /\ r.pc = "setv2" /\ r.kind = "apply" /\ q = NoTask
          /\ keys' = [keys EXCEPT !.v2 = r.v2]
          /\ torn' = torn \cup Overtaken(r, "v2")
       \/ /\ r.pc = "again" /\ r.kind = "apply"
          /\ q.kind = "apply" /\ q.pc = "delete" /\ q.stale = {}
          /\ q.v1 = Weight(vector1) /\ q.v2 = vector2
          /\ UNCHANGED <<keys, torn>>
       \/ /\ r.pc = "pref" /\ r.kind = "rebuild" /\ q = NoTask
          /\ keys' = [keys EXCEPT !.pref = r.v1]
          /\ torn' = torn \cup Overtaken(r, "v1")
                       \cup (IF keys.v1 \notin {None, r.v1} THEN {"shadow"} ELSE {})
       \/ /\ Post(r) /\ r.kind = "apply" /\ q.kind = "apply" /\ q.pc = "again"
          /\ UNCHANGED <<keys, torn>>
       \/ /\ q = NoTask /\ UNCHANGED keys
          /\ torn' \in {torn, torn \cup {"keys"}}
          /\ Post(r) /\ r.kind # "due" => "keys" \in torn'

\* Redis commands and failures do one of these.
LEMMA Endings ==
    ASSUME PrefTypeOK, NEW t \in Tasks,
           \/ DeleteKeys(t) \/ SetKeys(t) \/ Reread(t) \/ SetPref(t)
           \/ Fail(t) \/ BreakDeadlock(t)
    PROVE  Ended(t)
<1>0. TasksOK /\ DOMAIN task = Tasks
  BY DEF PrefTypeOK, TasksOK
<1>1. ASSUME NEW q, task' = [task EXCEPT ![t] = q] PROVE task'[t] = q
  BY <1>0, <1>1
<1>2. ASSUME NEW pc, task' = [task EXCEPT ![t] = [@ EXCEPT !.pc = pc]],
             task[t].kind = "apply", task[t] # NoTask
      PROVE  GoesOn(task[t], task'[t], pc)
  <2>1. PICK q : q = [task[t] EXCEPT !.pc = pc]
    OBVIOUS
  <2>2. task'[t] = q
    BY <1>0, <1>2, <2>1
  <2>3. ApplyOK(task[t])
    BY <1>0, <1>2, AtKind
  <2> QED
    BY <1>2, <2>1, <2>2, <2>3 DEF ApplyOK, Base, GoesOn
<1>3. CASE DeleteKeys(t)
  <2>1. /\ task[t].pc = "delete" /\ keys' = NoKeys
        /\ task' = [task EXCEPT ![t] = IF task[t].kind = "apply"
                                       THEN [@ EXCEPT !.pc = "set"] ELSE NoTask]
    BY <1>3 DEF DeleteKeys, At, Invalidated
  <2>2. CASE task[t].kind = "apply"
    <3>1. GoesOn(task[t], task'[t], "set")
      <4>1. task[t] # NoTask
        BY <2>1 DEF NoTask
      <4>2. task' = [task EXCEPT ![t] = [@ EXCEPT !.pc = "set"]]
        BY <2>1, <2>2
      <4> QED
        BY <1>2, <2>2, <4>1, <4>2
    <3> QED
      BY <2>1, <2>2, <3>1 DEF Ended
  <2>3. CASE task[t].kind # "apply"
    BY <1>0, <2>1, <2>3 DEF Ended
  <2> QED
    BY <2>2, <2>3
<1>4. CASE SetKeys(t)
  <2>1. CASE task[t].pc = "set"
    <3>1. /\ keys' = [keys EXCEPT !.pref = task[t].v1]
          /\ torn' = torn \cup Overtaken(task[t], "v1")
          /\ task' = [task EXCEPT ![t] = [@ EXCEPT !.pc = "setv1"]]
      BY <1>4, <2>1 DEF SetKeys, SetKey, At, Overtaken
    <3>2. task[t].kind = "apply" /\ task[t] # NoTask
      BY <1>0, <2>1, AtKind DEF NoTask
    <3>3. GoesOn(task[t], task'[t], "setv1")
      BY <1>2, <3>1, <3>2
    <3> QED
      BY <2>1, <3>1, <3>2, <3>3 DEF Ended
  <2>2. CASE task[t].pc = "setv1"
    <3>1. /\ keys' = [keys EXCEPT !.v1 = task[t].v1]
          /\ torn' = torn \cup Overtaken(task[t], "v1")
          /\ task' = IF task[t].v2 = None THEN [task EXCEPT ![t] = NoTask]
                     ELSE [task EXCEPT ![t] = [@ EXCEPT !.pc = "setv2"]]
      BY <1>4, <2>2 DEF SetKeys, SetKey, At, Overtaken
    <3>2. task[t].kind = "apply" /\ task[t] # NoTask
      BY <1>0, <2>2, AtKind DEF NoTask
    <3>3. task[t].v2 # None => GoesOn(task[t], task'[t], "setv2")
      BY <1>2, <3>1, <3>2
    <3>4. task[t].v2 = None => task'[t] = NoTask
      BY <1>0, <3>1
    <3> QED
      BY <2>2, <3>1, <3>2, <3>3, <3>4 DEF Ended
  <2>3. CASE task[t].pc = "setv2"
    <3>1. /\ keys' = [keys EXCEPT !.v2 = task[t].v2]
          /\ torn' = torn \cup Overtaken(task[t], "v2")
          /\ task' = [task EXCEPT ![t] = NoTask]
      BY <1>4, <2>3 DEF SetKeys, SetKey, At, Overtaken
    <3>2. task[t].kind = "apply"
      BY <1>0, <2>3, AtKind
    <3> QED
      BY <1>0, <2>3, <3>1, <3>2 DEF Ended
  <2> QED
    BY <1>4, <2>1, <2>2, <2>3 DEF SetKeys, At
<1>5. CASE Reread(t)
  <2>1. PICK q : q = [task[t] EXCEPT !.pc = "delete", !.stale = {},
                                     !.v1 = Weight(vector1), !.v2 = vector2]
    OBVIOUS
  <2>2. /\ task[t].pc = "again" /\ task[t].kind = "apply" /\ ApplyOK(task[t])
        /\ task'[t] = q /\ UNCHANGED <<keys, torn>>
    BY <1>0, <1>5, <2>1, AtKind DEF Reread, At, Continue, NoTask
  <2>3. /\ q.kind = "apply" /\ q.pc = "delete" /\ q.stale = {}
        /\ q.v1 = Weight(vector1) /\ q.v2 = vector2
    BY <2>1, <2>2 DEF ApplyOK, Base
  <2> QED
    BY <2>2, <2>3 DEF Ended
<1>6. CASE SetPref(t)
  <2>1. task[t].pc = "pref" /\ task[t].kind = "rebuild"
    BY <1>0, <1>6, AtKind DEF SetPref, At
  <2> QED
    BY <1>0, <1>6, <2>1 DEF SetPref, Ended, Overtaken
<1>7. CASE Fail(t)
  <2>1. CASE Post(task[t]) /\ task[t].kind = "apply"
    <3>1. /\ task' = [task EXCEPT ![t] = [@ EXCEPT !.pc = "again"]]
          /\ UNCHANGED <<keys, torn>> /\ task[t] # NoTask
      BY <1>7, <2>1 DEF Fail, Refreshing, Post
    <3>2. GoesOn(task[t], task'[t], "again")
      BY <1>2, <2>1, <3>1
    <3> QED
      BY <2>1, <3>1, <3>2 DEF Ended, GoesOn
  <2>2. CASE ~(Post(task[t]) /\ task[t].kind = "apply")
    <3>1. /\ task' = [task EXCEPT ![t] = NoTask] /\ UNCHANGED keys
          /\ torn' = torn \cup (IF Post(task[t]) /\ task[t].kind # "due"
                                THEN {"keys"} ELSE {})
      BY <1>7, <2>2 DEF Fail, Refreshing, Post
    <3> QED
      BY <1>0, <3>1 DEF Ended
  <2> QED
    BY <2>1, <2>2
<1>8. CASE BreakDeadlock(t)
  <2>1. task' = [task EXCEPT ![t] = NoTask] /\ UNCHANGED <<keys, torn>>
    BY <1>8 DEF BreakDeadlock, Continue
  <2>2. ~Post(task[t])
    BY <1>8 DEF BreakDeadlock, At, Post
  <2> QED
    BY <1>0, <2>1, <2>2 DEF Ended
<1> QED
  BY <1>3, <1>4, <1>5, <1>6, <1>7, <1>8

\* A worker whose events weigh nothing starts with the rows.
LEMMA StartedHasRows ==
    ASSUME PrefTypeOK, NEW q, Started(q), Pre(q)
    PROVE  HasRows(q)
<1>0. BehaviorOK /\ Weight(vector1) \in Int
  BY PreferencesAssumption DEF PrefTypeOK, StoredOK, Weight
<1>1. q.kind = "apply" /\ ~Weighs(q.events) => q.v1 = Weight(vector1) /\ q.v2 = vector2
  <2>1. q.kind = "apply" => /\ q.events \in SUBSET Rows
                            /\ q.v1 = Weight(vector1) + Total(q.events)
                            /\ q.v2 = IF Weighs(q.events) THEN Len(behavior) ELSE vector2
    BY DEF Started
  <2>2. q.kind = "apply" /\ ~Weighs(q.events) => Total(q.events) = 0
    BY <1>0, <2>1, TotalFacts
  <2> QED
    BY <1>0, <2>1, <2>2
<1> QED
  BY <1>1 DEF HasRows, Pre

\* A task that starts, works or sees to the keys.
LEMMA KeyTurn ==
    ASSUME KeyInv, PrefTypeOK', NEW t \in Tasks, Turn(t)
    PROVE  KeyInv'
<1>0. /\ PrefTypeOK /\ TasksOK /\ KeysOK
      /\ \A k \in KeyNames : Follows(k)
      /\ \A o \in Tasks : HasRows(task[o])
  BY DEF KeyInv, PrefTypeOK
<1>1. /\ UNCHANGED <<behavior, vector1, vector2>>
      /\ \A o \in Tasks \ {t} : task'[o] = task[o]
  BY DEF Turn
<1>2. \A r : HasRows(r)' <=> HasRows(r)
  BY <1>1 DEF HasRows, Weighs, OfKind, Rows, Weight, Pre
<1>3. \A k : RowOf(k)' = RowOf(k)
  BY <1>1 DEF RowOf, Weight
<1>4. ASSUME HasRows(task'[t]), \A k \in KeyNames : Follows(k)' PROVE KeyInv'
  <2>1. \A o \in Tasks : HasRows(task'[o])
    BY <1>0, <1>1, <1>4
  <2> QED
    BY <1>2, <1>4, <2>1 DEF KeyInv
<1>5. PICK r, q : r = task[t] /\ q = task'[t]
  OBVIOUS
<1>6. ASSUME NEW k \in KeyNames,
             \/ "keys" \in torn'
             \/ SeesTo(q, k)
             \/ keys'[k] \in {None, RowOf(k)}
             \/ k = "v1" /\ "shadow" \in torn'
             \/ keys'[k] = keys[k] /\ torn \subseteq torn' /\ ~SeesTo(r, k)
      PROVE  Follows(k)'
  <2>1. CASE keys'[k] = keys[k] /\ torn \subseteq torn' /\ ~SeesTo(r, k)
    <3>1. ASSUME NEW o \in Tasks, SeesTo(task[o], k) PROVE SeesTo(task'[o], k)
      BY <1>1, <1>5, <2>1, <3>1
    <3> QED
      BY <1>0, <1>3, <2>1, <3>1 DEF Follows, SeesTo
  <2>2. CASE SeesTo(q, k)
    BY <1>5, <2>2 DEF Follows, SeesTo
  <2> QED
    BY <1>3, <1>6, <2>1, <2>2 DEF Follows
<1>7. HasRows(NoTask) /\ HasRows(r)
  <2>1. HasRows(NoTask)
    BY DEF HasRows, NoTask, Pre
  <2> QED
    BY <1>0, <1>5, <2>1
<1>8. CASE r = NoTask /\ Started(q) /\ Pre(q) /\ UNCHANGED <<keys, torn>>
  <2>1. HasRows(q)
    BY <1>0, <1>8, StartedHasRows
  <2>2. \A k : ~SeesTo(r, k)
    BY <1>8 DEF SeesTo, NoTask
  <2> QED
    BY <1>4, <1>5, <1>6, <1>8, <2>1, <2>2
<1>9. CASE AtWork(r, q) /\ UNCHANGED <<keys, torn>>
  <2>1. HasRows(q)
    BY <1>7, <1>9 DEF AtWork, Alike, HasRows, Pre
  <2>2. \A k : ~SeesTo(r, k)
    BY <1>9 DEF AtWork, SeesTo, Pre
  <2> QED
    BY <1>4, <1>5, <1>6, <1>9, <2>1, <2>2
<1>10. CASE Ended(t)
  <2>1. keys.v1 = keys["v1"] /\ {"v2", "v1", "pref"} \subseteq DOMAIN keys
    BY <1>0 DEF KeysOK
  <2>2. ASSUME r.pc = "delete", keys' = NoKeys,
               IF r.kind = "apply" THEN GoesOn(r, q, "set") ELSE q = NoTask
        PROVE  KeyInv'
    <3>1. HasRows(q)
      BY <1>7, <2>2 DEF HasRows, GoesOn, Pre
    <3>2. \A k \in KeyNames : keys'[k] = None
      BY <2>2 DEF NoKeys, KeyNames
    <3> QED
      BY <1>4, <1>5, <1>6, <3>1, <3>2
  <2>3. ASSUME r.pc = "set", r.kind = "apply", GoesOn(r, q, "setv1"),
               keys' = [keys EXCEPT !.pref = r.v1],
               torn' = torn \cup Overtaken(r, "v1")
        PROVE  KeyInv'
    <3>1. HasRows(q)
      BY <1>7, <2>3 DEF HasRows, GoesOn, Pre
    <3>2. Follows("pref")'
      <4>1. "keys" \in torn' \/ r.v1 = RowOf("pref")
        BY <1>7, <2>3 DEF Overtaken, HasRows, RowOf
      <4>2. keys'["pref"] = r.v1
        BY <2>1, <2>3
      <4> QED
        BY <1>6, <4>1, <4>2 DEF KeyNames
    <3>3. Follows("v1")'
      <4>1. SeesTo(q, "v1")
        BY <2>3 DEF SeesTo, GoesOn
      <4> QED
        BY <1>6, <4>1 DEF KeyNames
    <3>4. Follows("v2")'
      <4>1. keys'["v2"] = keys["v2"] /\ torn \subseteq torn'
        BY <2>1, <2>3
      <4>2. SeesTo(r, "v2") => SeesTo(q, "v2")
        BY <2>3 DEF SeesTo, GoesOn
      <4> QED
        BY <1>6, <4>1, <4>2 DEF KeyNames
    <3> QED
      BY <1>4, <1>5, <3>1, <3>2, <3>3, <3>4 DEF KeyNames
  <2>4. ASSUME r.pc = "setv1", r.kind = "apply",
               IF r.v2 = None THEN q = NoTask ELSE GoesOn(r, q, "setv2"),
               keys' = [keys EXCEPT !.v1 = r.v1],
               torn' = torn \cup Overtaken(r, "v1")
        PROVE  KeyInv'
    <3>1. HasRows(q)
      BY <1>7, <2>4 DEF HasRows, GoesOn, Pre
    <3>2. Follows("v1")'
      <4>1. "keys" \in torn' \/ r.v1 = RowOf("v1")
        BY <1>7, <2>4 DEF Overtaken, HasRows, RowOf
      <4>2. keys'["v1"] = r.v1
        BY <2>1, <2>4
      <4> QED
        BY <1>6, <4>1, <4>2 DEF KeyNames
    <3>3. Follows("pref")'
      <4>1. keys'["pref"] = keys["pref"] /\ torn \subseteq torn'
        BY <2>1, <2>4
      <4>2. ~SeesTo(r, "pref")
        BY <2>4 DEF SeesTo
      <4> QED
        BY <1>6, <4>1, <4>2 DEF KeyNames
    <3>4. Follows("v2")'
      <4>1. keys'["v2"] = keys["v2"] /\ torn \subseteq torn'
        BY <2>1, <2>4
      <4>2. SeesTo(r, "v2") => SeesTo(q, "v2")
        BY <2>4 DEF SeesTo, GoesOn
      <4> QED
        BY <1>6, <4>1, <4>2 DEF KeyNames
    <3> QED
      BY <1>4, <1>5, <3>1, <3>2, <3>3, <3>4 DEF KeyNames
  <2>5. ASSUME r.pc = "setv2", r.kind = "apply", q = NoTask,
               keys' = [keys EXCEPT !.v2 = r.v2],
               torn' = torn \cup Overtaken(r, "v2")
        PROVE  KeyInv'
    <3>1. Follows("v2")'
      <4>1. "keys" \in torn' \/ r.v2 = RowOf("v2")
        BY <1>7, <2>5 DEF Overtaken, HasRows, RowOf
      <4>2. keys'["v2"] = r.v2
        BY <2>1, <2>5
      <4> QED
        BY <1>6, <4>1, <4>2 DEF KeyNames
    <3>2. ASSUME NEW k \in {"v1", "pref"} PROVE Follows(k)'
      <4>1. keys'[k] = keys[k] /\ torn \subseteq torn'
        BY <2>1, <2>5
      <4>2. ~SeesTo(r, k)
        BY <2>5 DEF SeesTo
      <4> QED
        BY <1>6, <4>1, <4>2 DEF KeyNames
    <3> QED
      BY <1>4, <1>5, <1>7, <2>5, <3>1, <3>2 DEF KeyNames
  <2>6. ASSUME r.pc = "again", r.kind = "apply",
               q.kind = "apply", q.pc = "delete", q.stale = {},
               q.v1 = Weight(vector1), q.v2 = vector2
        PROVE  KeyInv'
    <3>1. HasRows(q) /\ \A k : SeesTo(q, k)
      BY <2>6 DEF HasRows, Pre, SeesTo
    <3> QED
      BY <1>4, <1>5, <1>6, <3>1
  <2>7. ASSUME r.pc = "pref", r.kind = "rebuild", q = NoTask,
               keys' = [keys EXCEPT !.pref = r.v1],
               torn' = torn \cup Overtaken(r, "v1")
                          \cup (IF keys.v1 \notin {None, r.v1} THEN {"shadow"} ELSE {})
        PROVE  KeyInv'
    <3>1. "keys" \in torn' \/ r.v1 = Weight(vector1)
      BY <1>7, <2>7 DEF Overtaken, HasRows
    <3>2. /\ keys'["pref"] = r.v1 /\ keys'["v1"] = keys["v1"] /\ keys'["v2"] = keys["v2"]
          /\ torn \subseteq torn' /\ ("shadow" \in torn' \/ keys["v1"] \in {None, r.v1})
      BY <2>1, <2>7
    <3>3. Follows("pref")' /\ Follows("v1")'
      BY <1>6, <3>1, <3>2 DEF KeyNames, RowOf
    <3>4. Follows("v2")'
      <4>1. ~SeesTo(r, "v2")
        BY <2>7 DEF SeesTo
      <4> QED
        BY <1>6, <3>2, <4>1 DEF KeyNames
    <3> QED
      BY <1>4, <1>5, <1>7, <2>7, <3>3, <3>4 DEF KeyNames
  <2>8. ASSUME q.kind = "apply", q.pc = "again"
        PROVE  KeyInv'
    <3>1. HasRows(q) /\ \A k : SeesTo(q, k)
      BY <2>8 DEF HasRows, Pre, SeesTo
    <3> QED
      BY <1>4, <1>5, <1>6, <3>1
  <2>9. ASSUME q = NoTask, UNCHANGED keys, torn' \in {torn, torn \cup {"keys"}},
               Post(r) /\ r.kind # "due" => "keys" \in torn'
        PROVE  KeyInv'
    <3>1. torn \subseteq torn' /\ \A k : SeesTo(r, k) => "keys" \in torn'
      BY <2>9 DEF SeesTo, Post
    <3> QED
      BY <1>4, <1>5, <1>6, <1>7, <2>9, <3>1
  <2> QED
    BY <1>5, <1>10, <2>2, <2>3, <2>4, <2>5, <2>6, <2>7, <2>8, <2>9 DEF Ended
<1> QED
  BY <1>0, <1>5, <1>8, <1>9, <1>10, Endings DEF Turn

\* A task that has committed sees to the keys, and those that hold the rows
\* which it wrote know of it.
LEMMA KeyCommit ==
    ASSUME KeyInv, PrefTypeOK', NEW t \in Tasks, NEW what, NEW pc, Saves(t, what, pc),
           UNCHANGED <<behavior, liked, hour, keys>>
    PROVE  KeyInv'
<1>0. /\ PrefTypeOK /\ TasksOK /\ \A k \in KeyNames : Follows(k)
      /\ \A o \in Tasks : HasRows(task[o])
  BY DEF KeyInv, PrefTypeOK
<1>1. PICK r, q : r = task[t] /\ q = task'[t]
  OBVIOUS
<1>2. /\ Pre(r) /\ Committed(t, what, pc) /\ HasRows(r)
      /\ Weighs(r.events) => {"v1", "v2"} \subseteq what
      /\ \A x \in {"keys", "shadow"} : x \in torn' <=> x \in torn
      /\ IF "v1" \in what
         THEN /\ vector1' = r.v1
              /\ \/ r.kind = "rebuild" /\ pc = "pref"
                 \/ r.kind = "apply" /\ Weighs(r.events) /\ pc = "delete"
         ELSE vector1' = vector1 /\ r.kind # "rebuild" /\ pc = "delete"
      /\ IF "v2" \in what
         THEN /\ vector2' = r.v2
              /\ \/ r.kind = "replay"
                 \/ r.kind = "apply" /\ Weighs(r.events)
         ELSE vector2' = vector2 /\ r.kind # "replay"
  BY <1>0, <1>1 DEF Saves
<1>3. /\ q.pc = pc /\ q.stale = r.stale \ what /\ q.kind = r.kind /\ q.events = r.events
      /\ r.kind = "apply" => q.v1 = r.v1 /\ q.v2 = r.v2
      /\ r.kind = "rebuild" => q.v1 = r.v1
  BY <1>1, <1>2 DEF Committed
<1>4. /\ r.kind \in {"apply", "rebuild"} => r.v1 \in Int
      /\ r.kind \in {"apply", "due", "replay", "rebuild"}
  BY <1>0, <1>1, <1>2, AtKind DEF Pre, NoTask, ApplyOK, RebuildOK, TasksOK, TaskOK
<1>5. \A S : Weighs(S)' <=> Weighs(S)
  BY DEF Weighs, OfKind, Rows
<1>6. HasRows(q)'
  <2>1. CASE r.kind = "apply" /\ Weighs(r.events)
    <3>1. q.pc = "delete" /\ Weight(vector1)' = q.v1 /\ vector2' = q.v2
      BY <1>2, <1>3, <1>4, <2>1, PreferencesAssumption DEF Weight
    <3> QED
      BY <1>3, <2>1, <3>1 DEF HasRows, Pre
  <2>2. CASE r.kind = "apply" /\ ~Weighs(r.events)
    <3>1. /\ "v1" \notin what /\ "v2" \notin what /\ q.pc = "delete"
          /\ vector1' = vector1 /\ vector2' = vector2
      BY <1>2, <1>3, <2>2
    <3>2. /\ "v1" \notin q.stale => q.v1 = Weight(vector1)
          /\ "v2" \notin q.stale => q.v2 = vector2
      BY <1>2, <1>3, <2>2, <3>1 DEF HasRows
    <3> QED
      BY <1>3, <2>2, <3>1, <3>2 DEF HasRows, Pre, Weight
  <2>3. CASE r.kind = "rebuild"
    <3>1. q.v1 = Weight(vector1)'
      BY <1>2, <1>3, <1>4, <2>3, PreferencesAssumption DEF Weight
    <3> QED
      BY <1>3, <2>3, <3>1 DEF HasRows
  <2>4. CASE r.kind \in {"due", "replay"}
    BY <1>3, <2>4 DEF HasRows
  <2> QED
    BY <1>4, <2>1, <2>2, <2>3, <2>4
<1>7. ASSUME NEW o \in Tasks \ {t}, task[o] # NoTask
      PROVE  /\ HasRows(task[o])'
             /\ Post(task'[o]) <=> Post(task[o])
             /\ task'[o].kind = task[o].kind
  <2>1. PICK u, w : u = task[o] /\ w = task'[o]
    OBVIOUS
  <2>2. /\ w.pc = u.pc /\ w.kind = u.kind /\ w.events = u.events
        /\ w.stale = u.stale \cup what
        /\ u.kind \in {"apply", "rebuild"} => w.v1 = u.v1
        /\ u.kind \in {"apply", "replay"} => w.v2 = u.v2
    BY <1>0, <1>2, <1>7, <2>1, Bystander
  <2>3. HasRows(u)
    BY <1>0, <2>1
  <2>4. /\ "v1" \notin w.stale => "v1" \notin u.stale /\ Weight(vector1)' = Weight(vector1)
        /\ "v2" \notin w.stale => "v2" \notin u.stale /\ vector2' = vector2
    BY <1>2, <2>2 DEF Weight
  <2>5. HasRows(w)'
    BY <1>5, <2>2, <2>3, <2>4 DEF HasRows, Pre
  <2> QED
    BY <2>1, <2>2, <2>5 DEF Post
<1>8. \A o \in Tasks : HasRows(task[o])'
  <2>1. ASSUME NEW o \in Tasks \ {t}, task[o] = NoTask PROVE HasRows(task[o])'
    <3>1. task'[o] = NoTask
      BY <1>2, <2>1 DEF Committed
    <3> QED
      BY <3>1 DEF HasRows, NoTask, Pre
  <2>2. HasRows(task[t])'
    BY <1>1, <1>6
  <2> QED
    BY <1>7, <2>1, <2>2
<1>9. ASSUME NEW k \in KeyNames, ~SeesTo(q, k) PROVE Follows(k)'
  <2>1. RowOf(k)' = RowOf(k)
    <3>1. CASE k = "v2"
      <4>1. r.kind \notin {"apply", "replay"}
        BY <1>2, <1>3, <1>9 DEF SeesTo
      <4> QED
        BY <1>2, <3>1, <4>1 DEF RowOf
    <3>2. CASE k # "v2"
      <4>1. k \in {"v1", "pref"}
        BY <3>2 DEF KeyNames
      <4>2. "v1" \notin what
        BY <1>2, <1>3, <1>9, <4>1 DEF SeesTo
      <4> QED
        BY <1>2, <3>2, <4>2 DEF RowOf, Weight
    <3> QED
      BY <3>1, <3>2
  <2>2. ASSUME NEW o \in Tasks, SeesTo(task[o], k) PROVE SeesTo(task'[o], k)
    <3>1. o # t /\ task[o] # NoTask
      BY <1>1, <1>2, <2>2 DEF SeesTo, Pre, NoTask
    <3>2. PICK u, w : u = task[o] /\ w = task'[o]
      OBVIOUS
    <3>3. /\ w.pc = u.pc /\ w.kind = u.kind
          /\ u.kind \in {"apply", "replay"} => w.v2 = u.v2
      BY <1>0, <1>2, <3>1, <3>2, Bystander
    <3>4. SeesTo(w, k)
      BY <2>2, <3>2, <3>3 DEF SeesTo
    <3> QED
      BY <3>2, <3>4
  <2> QED
    BY <1>0, <1>2, <2>1, <2>2 DEF Follows, SeesTo
<1>10. ASSUME NEW k \in KeyNames, SeesTo(q, k) PROVE Follows(k)'
  BY <1>1, <1>10 DEF Follows, SeesTo
<1> QED
  BY <1>8, <1>9, <1>10 DEF KeyInv

\* A step that changes none of it.
LEMMA KeyFrame ==
    ASSUME KeyInv, PrefTypeOK', UNCHANGED <<stored, keys, task, torn>>,
           \/ behavior' = behavior
           \/ \E r : behavior' = Append(behavior, r)
    PROVE  KeyInv'
<1>0. BehaviorOK /\ BehaviorOK' /\ TasksOK
  BY DEF KeyInv, PrefTypeOK
<1>1. UNCHANGED <<vector1, vector2, keys, torn>> /\ task' = task
  BY DEF stored
<1>2. ASSUME NEW k \in KeyNames PROVE Follows(k)'
  BY <1>1, <1>2 DEF KeyInv, Follows, SeesTo, RowOf, Weight
<1>3. ASSUME NEW o \in Tasks PROVE HasRows(task[o])'
  <2>1. PICK r : r = task[o]
    OBVIOUS
  <2>2. HasRows(r) /\ (Weighs(r.events)' <=> Weighs(r.events))
    BY <1>0, <2>1, EventsAreRows, SeenStays DEF KeyInv
  <2>3. HasRows(r)'
    BY <1>1, <2>2 DEF HasRows, Weight, Pre
  <2> QED
    BY <1>1, <2>1, <2>3
<1> QED
  BY <1>2, <1>3 DEF KeyInv

\* No step leaves a key that nobody will see to,
LEMMA KeyNext == KeyInv /\ [PrefNext]_prefVars => KeyInv'
<1> SUFFICES ASSUME KeyInv, [PrefNext]_prefVars PROVE KeyInv'
  OBVIOUS
<1>1. PrefTypeOK /\ PrefTypeOK'
  BY StepKinds DEF KeyInv
<1>2. ASSUME NEW kind \in Kinds, Record(kind) PROVE \E r : behavior' = Append(behavior, r)
  BY <1>2 DEF Record
<1>3. ASSUME UNCHANGED prefVars PROVE behavior' = behavior
  BY <1>3 DEF prefVars
<1>4. ASSUME Expiry, UNCHANGED <<behavior, stored, task, torn>> PROVE KeyInv'
  <2>1. PICK e \in KeyNames : keys' = [keys EXCEPT ![e] = None]
    BY <1>4 DEF Expiry, ExpireKey, KeyNames
  <2>2. ASSUME NEW k \in KeyNames PROVE Follows(k)'
    <3>1. Follows(k) /\ keys'[k] \in {keys[k], None}
      BY <2>1 DEF KeyInv, PrefTypeOK, KeysOK, KeyNames
    <3>2. UNCHANGED <<task, torn, vector1, vector2>>
      BY <1>4 DEF stored
    <3> QED
      BY <3>1, <3>2 DEF Follows, SeesTo, RowOf, Weight
  <2>3. \A o \in Tasks : HasRows(task[o])'
    BY <1>4 DEF KeyInv, HasRows, Weighs, OfKind, Rows, Weight, Pre, stored
  <2> QED
    BY <1>1, <2>2, <2>3 DEF KeyInv
<1> QED
  BY <1>1, <1>2, <1>3, <1>4, StepKinds, KeyTurn, KeyCommit, KeyFrame DEF stored

\* and at first there are no keys.
LEMMA KeyInit == PrefInit => KeyInv
<1> SUFFICES ASSUME PrefInit PROVE KeyInv
  OBVIOUS
<1>1. PrefTypeOK
  BY PreferencesAssumption, PrefTypeInit
<1>2. \A k \in KeyNames : Follows(k)
  BY DEF PrefInit, Follows, KeyNames, NoKeys
<1>3. \A t \in Tasks : HasRows(task[t])
  BY DEF PrefInit, HasRows, Pre, NoTask
<1> QED
  BY <1>1, <1>2, <1>3 DEF KeyInv

\* When no task is between its commit and its keys, every key that is there
\* has the vector of its row, however workers, replays and rebuilds overlapped,
\* unless one of them was overtaken or died before it reached its keys
\* (_refresh_preference_cache, rebuild_features).
THEOREM PreferencesKeysFollowRows == PrefSpec => []KeysFollowRows
<1>1. KeyInv => KeysFollowRows
  BY DEF KeyInv, Follows, KeyNames, SeesTo, RowOf, Refreshing, KeysFollowRows
<1> QED
  BY <1>1, KeyInit, KeyNext, PTL DEF PrefSpec

-----------------------------------------------------------------------------
(* Answers are current.                                                    *)
(*                                                                         *)
(* While a read is under way that started with good keys, the rows, what   *)
(* the keys have and what a task may still put in them are vectors that    *)
(* have been stored since it started.                                      *)

Answering == reading.pc \notin {"idle", "done"}

WasStored(r) ==
    /\ r.kind = "apply" /\ \/ r.pc \in {"delete", "set", "setv1", "setv2"}
                           \/ Pre(r) /\ ~Weighs(r.events)
         => r.v1 \in reading.v1s /\ r.v2 \in reading.v2s
    /\ r.kind = "rebuild" /\ r.pc = "pref" => r.v1 \in reading.v1s

KeysWereStored ==
    /\ keys.v2 \in reading.v2s \cup {None}
    /\ keys.v1 \in reading.v1s \cup {None}
    /\ keys.pref \in reading.v1s \cup {None}

RowsWereStored == Weight(vector1) \in reading.v1s /\ vector2 \in reading.v2s

AnswerInv ==
    /\ KeyInv
    /\ AnswersAreCurrent
    /\ Answering => /\ RowsWereStored
                    /\ KeysWereStored
                    /\ \A t \in Tasks : WasStored(task[t])

\* What a task does while a read is under way.
LEMMA AnswerTurn ==
    ASSUME AnswerInv, KeyInv', NEW t \in Tasks, Turn(t)
    PROVE  AnswerInv'
<1>0. PrefTypeOK /\ PrefTypeOK' /\ TasksOK /\ KeysOK
  BY DEF AnswerInv, KeyInv, PrefTypeOK
<1>1. /\ UNCHANGED <<behavior, vector1, vector2, reading>>
      /\ \A o \in Tasks \ {t} : task'[o] = task[o]
  BY DEF Turn
<1>2. \A r : WasStored(r)' <=> WasStored(r)
  BY <1>1 DEF WasStored, Weighs, OfKind, Rows, Pre
<1>3. AnswersAreCurrent' /\ (Answering' <=> Answering)
  BY <1>1 DEF AnswerInv, AnswersAreCurrent, Answering
<1>4. ASSUME Answering PROVE KeysWereStored' /\ WasStored(task'[t])
  <2>1. /\ RowsWereStored /\ KeysWereStored
        /\ \A o \in Tasks : WasStored(task[o])
    BY <1>4 DEF AnswerInv
  <2>2. ASSUME UNCHANGED keys PROVE KeysWereStored'
    BY <1>1, <2>1, <2>2 DEF KeysWereStored
  <2>3. WasStored(NoTask)
    BY DEF WasStored, NoTask, Pre
  <2>4. PICK r, q : r = task[t] /\ q = task'[t]
    OBVIOUS
  <2>5. WasStored(r)
    BY <2>1, <2>4
  <2>6. ASSUME Started(q), Pre(q), UNCHANGED keys PROVE KeysWereStored' /\ WasStored(q)
    <3>1. HasRows(q) /\ q.stale = {}
      BY <1>0, <2>6, StartedHasRows DEF Started
    <3>2. q.kind = "apply" /\ ~Weighs(q.events) => q.v1 = Weight(vector1) /\ q.v2 = vector2
      BY <2>6, <3>1 DEF HasRows
    <3>3. WasStored(q)
      BY <2>1, <2>6, <3>2 DEF WasStored, RowsWereStored, Pre
    <3> QED
      BY <2>2, <2>6, <3>3
  <2>7. ASSUME AtWork(r, q), UNCHANGED keys PROVE KeysWereStored' /\ WasStored(q)
    <3>1. WasStored(q)
      BY <2>5, <2>7 DEF AtWork, Alike, WasStored, Pre
    <3> QED
      BY <2>2, <2>7, <3>1
  <2>8. ASSUME Ended(t) PROVE KeysWereStored' /\ WasStored(q)
    <3>1. ASSUME r.pc = "delete", keys' = NoKeys,
                 IF r.kind = "apply" THEN GoesOn(r, q, "set") ELSE q = NoTask
          PROVE  KeysWereStored' /\ WasStored(q)
      <4>1. WasStored(q)
        BY <2>3, <2>5, <3>1 DEF WasStored, GoesOn, Pre
      <4> QED
        BY <3>1, <4>1 DEF KeysWereStored, NoKeys
    <3>2. ASSUME r.kind = "apply", r.pc \in {"set", "setv1", "setv2"},
                 \/ keys' = [keys EXCEPT !.pref = r.v1]
                 \/ keys' = [keys EXCEPT !.v1 = r.v1]
                 \/ keys' = [keys EXCEPT !.v2 = r.v2],
                 q = NoTask \/ GoesOn(r, q, "setv1") \/ GoesOn(r, q, "setv2")
          PROVE  KeysWereStored' /\ WasStored(q)
      <4>1. r.v1 \in reading.v1s /\ r.v2 \in reading.v2s
        BY <2>5, <3>2 DEF WasStored
      <4>2. /\ keys'.v1 \in {keys.v1, r.v1} /\ keys'.pref \in {keys.pref, r.v1}
            /\ keys'.v2 \in {keys.v2, r.v2}
        BY <1>0, <3>2 DEF KeysOK
      <4>3. WasStored(q)
        BY <2>3, <3>2, <4>1 DEF WasStored, GoesOn, Pre
      <4> QED
        BY <1>1, <2>1, <4>1, <4>2, <4>3 DEF KeysWereStored
    <3>3. ASSUME q.kind = "apply", q.pc = "delete", UNCHANGED keys,
                 q.v1 = Weight(vector1), q.v2 = vector2
          PROVE  KeysWereStored' /\ WasStored(q)
      <4>1. WasStored(q)
        BY <2>1, <3>3 DEF WasStored, RowsWereStored
      <4> QED
        BY <2>2, <3>3, <4>1
    <3>4. ASSUME r.pc = "pref", r.kind = "rebuild", q = NoTask,
                 keys' = [keys EXCEPT !.pref = r.v1]
          PROVE  KeysWereStored' /\ WasStored(q)
      <4>1. r.v1 \in reading.v1s
        BY <2>5, <3>4 DEF WasStored
      <4>2. keys'.pref = r.v1 /\ keys'.v1 = keys.v1 /\ keys'.v2 = keys.v2
        BY <1>0, <3>4 DEF KeysOK
      <4> QED
        BY <1>1, <2>1, <2>3, <3>4, <4>1, <4>2 DEF KeysWereStored
    <3>5. ASSUME q = NoTask \/ (q.kind = "apply" /\ q.pc = "again"), UNCHANGED keys
          PROVE  KeysWereStored' /\ WasStored(q)
      <4>1. WasStored(q)
        BY <2>3, <3>5 DEF WasStored, Pre
      <4> QED
        BY <2>2, <3>5, <4>1
    <3> QED
      BY <2>4, <2>8, <3>1, <3>2, <3>3, <3>4, <3>5 DEF Ended
  <2> QED
    BY <1>0, <2>4, <2>6, <2>7, <2>8, Endings DEF Turn
<1>5. ASSUME Answering PROVE RowsWereStored' /\ \A o \in Tasks : WasStored(task[o])'
  <2>1. \A o \in Tasks : WasStored(task'[o])
    BY <1>1, <1>4, <1>5 DEF AnswerInv
  <2> QED
    BY <1>1, <1>2, <1>5, <2>1 DEF AnswerInv, RowsWereStored, Weight
<1> QED
  BY <1>3, <1>4, <1>5 DEF AnswerInv

\* A commit stores the vector that its task will put in the keys.
LEMMA AnswerCommit ==
    ASSUME AnswerInv, KeyInv', NEW t \in Tasks, NEW what, NEW pc, Saves(t, what, pc),
           UNCHANGED <<behavior, liked, hour, keys>>
    PROVE  AnswerInv'
<1>0. PrefTypeOK /\ PrefTypeOK' /\ TasksOK /\ ReadOK
  BY DEF AnswerInv, KeyInv, PrefTypeOK
<1>1. reading' = IF reading.pc \in {"idle", "done"} THEN reading
                 ELSE [reading EXCEPT !.v1s = @ \cup {Weight(vector1')},
                                      !.v2s = @ \cup {vector2'}]
  BY DEF Saves
<1>2. CASE reading.pc \in {"idle", "done"}
  BY <1>1, <1>2 DEF AnswerInv, AnswersAreCurrent, Answering
<1>3. CASE reading.pc \notin {"idle", "done"}
  <2>1. /\ reading'.pc = reading.pc
        /\ reading'.v1s = reading.v1s \cup {Weight(vector1')}
        /\ reading'.v2s = reading.v2s \cup {vector2'}
    <3>1. ReadFields \subseteq DOMAIN reading
      BY <1>0, <1>3 DEF ReadOK, NoRead, Settled
    <3> QED
      BY <1>1, <1>3, <3>1 DEF ReadFields
  <2>2. AnswersAreCurrent' /\ (Answering' <=> Answering)
    BY <1>3, <2>1 DEF AnswersAreCurrent, Answering
  <2>3. ASSUME Answering
        PROVE  /\ RowsWereStored' /\ KeysWereStored'
               /\ \A o \in Tasks : WasStored(task[o])'
    <3>1. KeysWereStored /\ \A o \in Tasks : WasStored(task[o])
      BY <2>3 DEF AnswerInv
    <3>2. RowsWereStored' /\ KeysWereStored'
      BY <2>1, <3>1 DEF RowsWereStored, KeysWereStored, Weight
    <3>3. PICK r, q : r = task[t] /\ q = task'[t]
      OBVIOUS
    <3>4. /\ Pre(r) /\ Committed(t, what, pc) /\ WasStored(r)
          /\ Weighs(r.events) => {"v1", "v2"} \subseteq what
          /\ "v1" \in what => vector1' = r.v1
          /\ "v2" \in what => vector2' = r.v2
          /\ r.kind = "rebuild" => "v1" \in what
      BY <3>1, <3>3 DEF Saves
    <3>5. /\ q.pc = pc /\ q.kind = r.kind /\ q.events = r.events
          /\ r.kind = "apply" => q.v1 = r.v1 /\ q.v2 = r.v2
          /\ r.kind = "rebuild" => q.v1 = r.v1
          /\ r.kind \in {"apply", "rebuild"} => r.v1 \in Int
          /\ ~Pre(q)
      BY <1>0, <3>3, <3>4, AtKind
         DEF Committed, Saves, Pre, NoTask, ApplyOK, RebuildOK
    <3>6. \A S : Weighs(S)' <=> Weighs(S)
      BY DEF Weighs, OfKind, Rows
    <3>7. WasStored(q)'
      <4>1. r.kind \in {"apply", "rebuild"} /\ "v1" \in what => q.v1 \in reading'.v1s
        BY <2>1, <3>4, <3>5, PreferencesAssumption DEF Weight
      <4>2. r.kind = "apply" /\ "v2" \in what => q.v2 \in reading'.v2s
        BY <2>1, <3>4, <3>5
      <4>3. r.kind = "apply" /\ ~Weighs(r.events)
              => q.v1 \in reading'.v1s /\ q.v2 \in reading'.v2s
        BY <2>1, <3>4, <3>5 DEF WasStored
      <4> QED
        BY <3>4, <3>5, <4>1, <4>2, <4>3 DEF WasStored
    <3>8. ASSUME NEW o \in Tasks \ {t}, task[o] # NoTask PROVE WasStored(task[o])'
      <4>1. PICK u, w : u = task[o] /\ w = task'[o]
        OBVIOUS
      <4>2. /\ w.pc = u.pc /\ w.kind = u.kind /\ w.events = u.events
            /\ u.kind \in {"apply", "rebuild"} => w.v1 = u.v1
            /\ u.kind \in {"apply", "replay"} => w.v2 = u.v2
        BY <1>0, <3>4, <3>8, <4>1, Bystander
      <4>3. WasStored(u)
        BY <3>1, <4>1
      <4>4. WasStored(w)'
        BY <2>1, <3>6, <4>2, <4>3 DEF WasStored, Pre
      <4> QED
        BY <4>1, <4>4
    <3>9. ASSUME NEW o \in Tasks \ {t}, task[o] = NoTask PROVE WasStored(task[o])'
      <4>1. task'[o] = NoTask
        BY <3>4, <3>9 DEF Committed
      <4> QED
        BY <4>1 DEF WasStored, NoTask, Pre
    <3>10. WasStored(task[t])'
      BY <3>3, <3>7
    <3> QED
      BY <3>2, <3>8, <3>9, <3>10
  <2> QED
    BY <2>2, <2>3 DEF AnswerInv
<1> QED
  BY <1>2, <1>3

\* A read that starts with good keys finds no task that holds anything else.
LEMMA AnswerStart ==
    ASSUME AnswerInv, KeyInv', NEW schema \in {"v1", "v2"}, StartRead(schema)
    PROVE  AnswerInv'
<1>0. TasksOK
  BY DEF AnswerInv, KeyInv, PrefTypeOK
<1>1. /\ UNCHANGED <<behavior, stored, keys, task>>
      /\ \/ reading' = Settled
         \/ /\ reading'.source = "none" /\ reading'.pc # "done" /\ GoodKeys
            /\ reading'.v1s = {Weight(vector1)} /\ reading'.v2s = {vector2}
  BY DEF StartRead
<1>2. AnswersAreCurrent'
  BY <1>1 DEF AnswersAreCurrent, Settled
<1>3. ASSUME Answering'
      PROVE  RowsWereStored' /\ KeysWereStored' /\ \A t \in Tasks : WasStored(task[t])'
  <2>1. GoodKeys /\ reading'.v1s = {Weight(vector1)} /\ reading'.v2s = {vector2}
    BY <1>1, <1>3 DEF Answering, Settled
  <2>2. RowsWereStored' /\ KeysWereStored'
    BY <1>1, <2>1 DEF RowsWereStored, KeysWereStored, GoodKeys, Current, stored, Weight
  <2>3. ASSUME NEW t \in Tasks PROVE WasStored(task[t])'
    <3>1. PICK r : r = task[t]
      OBVIOUS
    <3>2. r = NoTask \/ (r.stale = {} /\ ~Post(r))
      BY <2>1, <3>1 DEF GoodKeys, Refreshing, Post
    <3>3. HasRows(r)
      BY <3>1 DEF AnswerInv, KeyInv
    <3>4. WasStored(r)'
      <4>1. CASE r = NoTask
        BY <4>1 DEF WasStored, NoTask, Pre
      <4>2. CASE r.stale = {} /\ ~Post(r)
        <5>1. r.kind = "apply" /\ Pre(r) /\ ~Weighs(r.events)
                => r.v1 = Weight(vector1) /\ r.v2 = vector2
          BY <3>3, <4>2 DEF HasRows
        <5>2. Weighs(r.events)' <=> Weighs(r.events)
          BY <1>1 DEF Weighs, OfKind, Rows
        <5> QED
          BY <1>1, <2>1, <4>2, <5>1, <5>2 DEF WasStored, Post, Pre
      <4> QED
        BY <3>2, <4>1, <4>2
    <3> QED
      BY <1>1, <3>1, <3>4
  <2> QED
    BY <2>2, <2>3
<1> QED
  BY <1>2, <1>3 DEF AnswerInv

\* A read goes on, or answers with what a key or a row has.
LEMMA AnswerRead ==
    ASSUME AnswerInv, KeyInv', ReadOn
    PROVE  AnswerInv'
<1>0. ReadOK
  BY DEF AnswerInv, KeyInv, PrefTypeOK
<1>1. /\ ReadFields \subseteq DOMAIN reading /\ reading # NoRead
      /\ reading.pc \in {"v2", "v1", "pref", "row2", "row1"}
      /\ UNCHANGED <<behavior, stored, keys, task>>
  BY <1>0 DEF ReadOn, ReadOK, Settled
<1>2. CASE \E pc : reading' = [reading EXCEPT !.pc = pc] /\ pc \notin {"idle", "done"}
  <2>1. /\ reading'.pc \notin {"idle", "done"}
        /\ reading'.v1s = reading.v1s /\ reading'.v2s = reading.v2s
    BY <1>1, <1>2 DEF ReadFields
  <2>2. AnswersAreCurrent' /\ (Answering' => Answering)
    BY <1>1, <2>1 DEF AnswersAreCurrent, Answering
  <2>3. \A r : WasStored(r)' <=> WasStored(r)
    BY <1>1, <2>1 DEF WasStored, Weighs, OfKind, Rows, Pre
  <2>4. /\ RowsWereStored => RowsWereStored'
        /\ KeysWereStored => KeysWereStored'
        /\ \A t \in Tasks : WasStored(task[t])' <=> WasStored(task[t])
    BY <1>1, <2>1, <2>3 DEF RowsWereStored, KeysWereStored, Weight, stored
  <2> QED
    BY <2>2, <2>4 DEF AnswerInv
<1>3. ASSUME NEW source, NEW value, reading' = Answer(source, value),
             \/ source = "v2" /\ value = keys.v2 /\ value # None
             \/ source = "v1" /\ value \in {keys.v1, keys.pref} /\ value # None
             \/ source = "v2" /\ value = vector2
             \/ source = "v1" /\ value = Weight(vector1)
      PROVE  AnswerInv'
  <2>1. /\ reading'.pc = "done" /\ reading'.source = source /\ reading'.value = value
        /\ reading'.v1s = reading.v1s /\ reading'.v2s = reading.v2s
    BY <1>1, <1>3 DEF Answer, ReadFields
  <2>2. RowsWereStored /\ KeysWereStored
    BY <1>1 DEF AnswerInv, Answering
  <2>3. /\ source = "v1" => value \in reading.v1s
        /\ source = "v2" => value \in reading.v2s
    BY <1>3, <2>2 DEF RowsWereStored, KeysWereStored
  <2> QED
    BY <2>1, <2>3 DEF AnswerInv, AnswersAreCurrent, Answering
<1>4. \/ \E pc : reading' = [reading EXCEPT !.pc = pc] /\ pc \notin {"idle", "done"}
      \/ \E source, value :
            /\ reading' = Answer(source, value)
            /\ \/ source = "v2" /\ value = keys.v2 /\ value # None
               \/ source = "v1" /\ value \in {keys.v1, keys.pref} /\ value # None
               \/ source = "v2" /\ value = vector2
               \/ source = "v1" /\ value = Weight(vector1)
  <2>1. CASE reading.pc = "v2"
    BY <2>1 DEF ReadOn
  <2>2. CASE reading.pc = "v1"
    BY <2>2 DEF ReadOn
  <2>3. CASE reading.pc = "pref"
    BY <2>3 DEF ReadOn
  <2>4. CASE reading.pc = "row2"
    BY <2>4 DEF ReadOn
  <2>5. CASE reading.pc = "row1"
    BY <2>5 DEF ReadOn
  <2> QED
    BY <1>1, <2>1, <2>2, <2>3, <2>4, <2>5
<1> QED
  BY <1>2, <1>3, <1>4

\* A step that the read does not see.
LEMMA AnswerFrame ==
    ASSUME AnswerInv, KeyInv', UNCHANGED <<stored, keys, task, reading>>,
           \/ behavior' = behavior
           \/ \E r : behavior' = Append(behavior, r)
    PROVE  AnswerInv'
<1>0. BehaviorOK /\ BehaviorOK' /\ TasksOK
  BY DEF AnswerInv, KeyInv, PrefTypeOK
<1>1. UNCHANGED <<vector1, vector2, keys, reading>> /\ task' = task
  BY DEF stored
<1>2. \A t \in Tasks : WasStored(task[t]) => WasStored(task[t])'
  <2> SUFFICES ASSUME NEW t \in Tasks, WasStored(task[t]) PROVE WasStored(task[t])'
    OBVIOUS
  <2>1. PICK r : r = task[t]
    OBVIOUS
  <2>2. Weighs(r.events)' <=> Weighs(r.events)
    BY <1>0, <2>1, EventsAreRows, SeenStays
  <2>3. WasStored(r)'
    BY <1>1, <2>1, <2>2 DEF WasStored, Pre
  <2> QED
    BY <1>1, <2>1, <2>3
<1> QED
  BY <1>1, <1>2
     DEF AnswerInv, AnswersAreCurrent, Answering, RowsWereStored, KeysWereStored, Weight

\* No step lets a read that is under way see anything else,
LEMMA AnswerNext == AnswerInv /\ [PrefNext]_prefVars => AnswerInv'
<1> SUFFICES ASSUME AnswerInv, [PrefNext]_prefVars PROVE AnswerInv'
  OBVIOUS
<1>1. PrefTypeOK /\ KeyInv'
  BY KeyNext DEF AnswerInv, KeyInv
<1>2. ASSUME NEW kind \in Kinds, Record(kind) PROVE \E r : behavior' = Append(behavior, r)
  BY <1>2 DEF Record
<1>3. ASSUME UNCHANGED prefVars PROVE UNCHANGED <<behavior, reading>>
  BY <1>3 DEF prefVars
<1>4. ASSUME Expiry, UNCHANGED <<behavior, stored, task, reading>> PROVE AnswerInv'
  <2>1. /\ keys'.v2 \in {keys.v2, None} /\ keys'.v1 \in {keys.v1, None}
        /\ keys'.pref \in {keys.pref, None}
    BY <1>1, <1>4 DEF Expiry, ExpireKey, PrefTypeOK, KeysOK
  <2>2. KeysWereStored => KeysWereStored'
    BY <1>4, <2>1 DEF KeysWereStored
  <2>3. \A t \in Tasks : WasStored(task[t])' <=> WasStored(task[t])
    BY <1>4 DEF WasStored, Weighs, OfKind, Rows, Pre
  <2> QED
    BY <1>1, <1>4, <2>2, <2>3
       DEF AnswerInv, AnswersAreCurrent, Answering, RowsWereStored, Weight, stored
<1> QED
  BY <1>1, <1>2, <1>3, <1>4, StepKinds, AnswerTurn, AnswerCommit, AnswerStart, AnswerRead,
     AnswerFrame

\* and at first there is none.
LEMMA AnswerInit == PrefInit => AnswerInv
<1> SUFFICES ASSUME PrefInit PROVE AnswerInv
  OBVIOUS
<1>1. KeyInv
  BY KeyInit
<1> QED
  BY <1>1 DEF PrefInit, AnswerInv, AnswersAreCurrent, Answering, NoRead

\* A read that starts while keys and rows agree and no refresh is under way
\* answers with a vector that was stored at some time during the read, however
\* commits, deletions and settings of keys fall between its commands
\* (fetch_user_vector).
THEOREM PreferencesAnswersAreCurrent == PrefSpec => []AnswersAreCurrent
<1>1. AnswerInv => AnswersAreCurrent
  BY DEF AnswerInv
<1> QED
  BY <1>1, AnswerInit, AnswerNext, PTL DEF PrefSpec
=============================================================================
