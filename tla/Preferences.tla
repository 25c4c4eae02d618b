---------------------------- MODULE Preferences ----------------------------
(***************************************************************************)
(* What is stored about the preferences of one user, and how it is read.   *)
(* Workers apply events, refresh the recent topics that are due and replay *)
(* the v2 vector (feature_store_worker/app/main.py, rebuild_v2.py); the    *)
(* API rebuilds the v1 vector from the interactions (rebuild_features) and *)
(* looks a vector up (fetch_user_vector).  Each is a transaction followed  *)
(* by Redis commands, and several run at the same time.                    *)
(*                                                                         *)
(* A like weighs 1, an unlike -1, a qualified read 1; the v1 vector is the *)
(* sum, the v2 vector the number of behaviour rows it was replayed from,   *)
(* and every view is of a topic of its own.  How receipts and offsets make *)
(* delivery safe is the subject of FeatureStoreWorker.                     *)
(***************************************************************************)
EXTENDS Integers, Sequences, FiniteSets

CONSTANTS
    Tasks,            \* workers, calls of the API
    Kinds,            \* view_observed, qualified_read, liked, unliked
    Window,           \* WINDOW_DAYS, in units of the refresh interval
    ReplaceExisting,  \* --replace-existing-vectors
    None,             \* no row, no key
    MaxRows,          \* bound on the behaviour of the user
    MaxHour,          \* bound on time
    MaxTasks,         \* bound on calls and transactions
    MaxMisses         \* bound on failures and expired keys

ASSUME PreferencesAssumption ==
    /\ Kinds \subseteq {"view", "read", "like", "unlike"}
    /\ {Window, MaxRows, MaxHour, MaxTasks, MaxMisses} \subseteq Nat
    /\ ReplaceExisting \in BOOLEAN
    /\ None \notin Int

VARIABLES
    behavior,    \* behavior_events, each with the event that announces it
    liked,       \* whether the interactions row of the like exists
    hour,        \* time
    counted,     \* rows whose event has its receipt
    vector1,     \* user_preference_vectors
    vector2,     \* user_preference_vectors_v2
    topicPrefs,  \* users.topic_prefs
    recent,      \* next_refresh_at of user_recent_topic_preferences
    keys,        \* pref:v2, pref:v1 and pref in Redis
    task,        \* the transaction each task is in
    reading,     \* one call of fetch_user_vector
    torn,        \* what was written from a reading that was out of date
    held,        \* the rows the v1 vector is the sum of
    starts, misses

stored == <<counted, vector1, vector2, topicPrefs, recent>>
prefVars == <<behavior, liked, hour, stored, keys, task, reading, torn, held,
              starts, misses>>

Never == MaxHour + 2    \* 'infinity'::timestamptz
Rows == 1..Len(behavior)
OfKind(ks) == {i \in Rows : behavior[i].kind \in ks}
Views == OfKind({"view", "read"})
LikeRows == OfKind({"like", "unlike"})
NoTask == [pc |-> "idle", events |-> {}, locks |-> {}, stale |-> {}]
NoRead == [pc |-> "idle"]
Settled == [pc |-> "done", source |-> "none"]

\* `likes' are the rows of the like behind the interactions rebuild_features
\* has summed up, `events' those workers have added since, and `before' those
\* that had their receipts when it read.
NothingHeld == [likes |-> {}, events |-> {}, before |-> {}]

\* The sum apply_topic_delta makes of the WEIGHTS of some rows, up to their size.
Total(rows) == Cardinality(rows \cap OfKind({"like", "read"}))
                 - Cardinality(rows \cap OfKind({"unlike"}))
Weight(v) == IF v = None THEN 0 ELSE v

NoKeys == [v2 |-> None, v1 |-> None, pref |-> None]

PrefInit ==
    /\ behavior = <<>> /\ liked = FALSE /\ hour = 0
    /\ counted = {} /\ vector1 = None /\ vector2 = None
    /\ topicPrefs = {} /\ recent = None
    /\ keys = NoKeys
    /\ task = [t \in Tasks |-> NoTask]
    /\ reading = NoRead
    /\ torn = {} /\ held = NothingHeld
    /\ starts = 0 /\ misses = 0

\* The user does something; the row and its event are committed together.  The
\* age of a row matters for views only.
Record(kind) ==
    /\ Len(behavior) < MaxRows
    /\ kind = "like" => ~liked
    /\ kind = "unlike" => liked
    /\ behavior' = Append(behavior, [kind |-> kind,
                                     at |-> IF kind \in {"view", "read"} THEN hour ELSE 0])
    /\ liked' = IF kind = "like" THEN TRUE
                ELSE IF kind = "unlike" THEN FALSE ELSE liked
    /\ UNCHANGED <<hour, stored, keys, task, reading, torn, held, starts, misses>>

PassHour ==
    /\ hour < MaxHour
    /\ hour' = hour + 1
    /\ UNCHANGED <<behavior, liked, stored, keys, task, reading, torn, held,
                   starts, misses>>

(***************************************************************************)
(* Transactions: locks are held to the end, and a commit that writes       *)
(* `what' leaves those who have read it with an old value.                 *)
(***************************************************************************)

StartTask(t, fields) ==
    /\ task[t] = NoTask
    /\ starts < MaxTasks
    /\ starts' = starts + 1
    /\ task' = [task EXCEPT ![t] = fields]
    /\ UNCHANGED <<behavior, liked, hour, stored, keys, reading, torn, held,
                   misses>>

At(t, pc) == task[t].pc = pc
Free(t, lock) == \A o \in Tasks \ {t} : lock \notin task[o].locks

Continue(t, fields) ==
    /\ task' = [task EXCEPT ![t] = fields]
    /\ UNCHANGED <<behavior, liked, hour, stored, keys, reading, torn, held,
                   starts, misses>>

\* `repaired' is what this commit sets right if it read the present state.
Commit(t, what, repaired, pc) ==
    /\ torn' = (torn \ repaired) \cup (task[t].stale \cap what)
    /\ task' = [o \in Tasks |->
         IF o = t THEN [task[t] EXCEPT !.pc = pc, !.locks = {}, !.stale = @ \ what]
         ELSE IF task[o] = NoTask THEN NoTask
         ELSE [task[o] EXCEPT !.stale = @ \cup what]]
    /\ reading' = IF reading.pc \in {"idle", "done"} THEN reading
                  ELSE [reading EXCEPT !.v1s = @ \cup {Weight(vector1')},
                                       !.v2s = @ \cup {vector2'}]
    /\ UNCHANGED <<behavior, liked, hour, keys, starts, misses>>

(***************************************************************************)
(* _apply_for_user                                                         *)
(***************************************************************************)

Weighs(S) == S \ OfKind({"view"}) # {}

\* The receipts are claimed, waiting for those another transaction claims,
\* and the vectors and the behaviour are read.
Claim(t, S) ==
    /\ S # {}
    /\ \A o \in Tasks : S \cap task[o].events = {}
    /\ StartTask(t, [kind |-> "apply", events |-> S, locks |-> {}, stale |-> {},
                 pc |-> IF Weighs(S) THEN "vectors" ELSE "views",
                 v1 |-> Weight(vector1) + Total(S),
                 held |-> [held EXCEPT !.events = @ \cup S],
                 v2 |-> IF Weighs(S) THEN Len(behavior) ELSE vector2])

SaveVectors(t) ==
    /\ At(t, "vectors")
    /\ Free(t, "v1")
    /\ Continue(t, [task[t] EXCEPT
         !.locks = {"v1"},
         !.pc = IF task[t].events \cap Views # {} THEN "views" ELSE "commit"])

\* Views of the last weeks: what ranked_view_topics ranks.
Evidence(now) == {i \in Views : behavior[i].at \in (now - Window)..now}

\* _refresh_recent_topics_for_user, with the clock of the worker
ReadViews(t) ==
    /\ At(t, "views")
    /\ Continue(t, [k \in DOMAIN task[t] \cup {"topics", "at"} |->
         CASE k = "topics" -> Evidence(hour)
           [] k = "at" -> hour
           [] k = "pc" -> "prefs"
           [] OTHER -> task[t][k]])

\* UPDATE users ... WHERE topic_prefs IS DISTINCT FROM: no lock if not.
UpdatePrefs(t) ==
    /\ At(t, "prefs")
    /\ task[t].topics # topicPrefs => Free(t, "users")
    /\ Continue(t, [task[t] EXCEPT
         !.pc = "commit",
         !.locks = IF task[t].topics # topicPrefs THEN @ \cup {"users"} ELSE @])

\* The refresh never comes due while there are topics.
MUT_Schedule(t) == IF task[t].topics = {} THEN task[t].at + 1 ELSE Never

Schedule(t) == IF task[t].topics # {} THEN task[t].at + 1 ELSE Never

SaveTopics(t) ==
    /\ topicPrefs' = IF "users" \in task[t].locks THEN task[t].topics ELSE topicPrefs
    /\ recent' = Schedule(t)

\* The replayed vector does not replace the one of an earlier event.
MUT_SaveV2(t) == IF vector2 = None THEN task[t].v2 ELSE vector2

SaveV2(t) == task[t].v2

\* The end of the transaction of an event, its upsert of
\* user_recent_topic_preferences included.
CommitApply(t) ==
    LET weighs == Weighs(task[t].events)
        views == task[t].events \cap Views # {}
        what == (IF weighs THEN {"v1", "v2"} ELSE {})
                  \cup (IF views THEN {"topics"} ELSE {})
    IN
    /\ At(t, "commit") /\ task[t].kind = "apply"
    /\ counted' = counted \cup task[t].events
    /\ IF weighs
       THEN vector1' = task[t].v1 /\ vector2' = SaveV2(t) /\ held' = task[t].held
       ELSE UNCHANGED <<vector1, vector2, held>>
    /\ IF views THEN Free(t, "recent") /\ SaveTopics(t)
                ELSE UNCHANGED <<topicPrefs, recent>>
    /\ Commit(t, what, what \ {"v1"}, "delete")

(***************************************************************************)
(* Redis                                                                   *)
(***************************************************************************)

\* Between the commit and the last Redis command.
Refreshing(t) ==
    task[t].pc \in {"delete", "set", "setv1", "setv2", "pref", "again"}

\* A task that has been overtaken puts an old vector in a key.
SetKey(t, ks, what) ==
    /\ keys' = ks
    /\ torn' = torn \cup (IF what \in task[t].stale THEN {"keys"} ELSE {})
    /\ UNCHANGED <<behavior, liked, hour, stored, reading, held, starts, misses>>

\* The keys of the first schema only.
MUT_Invalidated == [keys EXCEPT !.v1 = None, !.pref = None]

\* preference_cache_keys: all of them.
Invalidated == NoKeys

\* redis.delete(*preference_cache_keys(user_id)): the first half of
\* _refresh_preference_cache, all there is for the other tasks.
DeleteKeys(t) ==
    /\ At(t, "delete")
    /\ keys' = Invalidated
    /\ torn' = torn \ {"keys", "shadow"}
    /\ task' = [task EXCEPT ![t] = IF task[t].kind = "apply"
                                   THEN [@ EXCEPT !.pc = "set"] ELSE NoTask]
    /\ UNCHANGED <<behavior, liked, hour, stored, reading, held, starts, misses>>

\* The second half, one SETEX after the other; pref:v2 only if there is a
\* vector for it.
SetKeys(t) ==
    \/ /\ At(t, "set")
       /\ SetKey(t, [keys EXCEPT !.pref = task[t].v1], "v1")
       /\ task' = [task EXCEPT ![t].pc = "setv1"]
    \/ /\ At(t, "setv1")
       /\ SetKey(t, [keys EXCEPT !.v1 = task[t].v1], "v1")
       /\ task' = IF task[t].v2 = None THEN [task EXCEPT ![t] = NoTask]
                                       ELSE [task EXCEPT ![t].pc = "setv2"]
    \/ /\ At(t, "setv2")
       /\ SetKey(t, [keys EXCEPT !.v2 = task[t].v2], "v2")
       /\ task' = [task EXCEPT ![t] = NoTask]

\* A key reaches its time to live.
ExpireKey(k) ==
    /\ keys[k] # None
    /\ misses < MaxMisses /\ misses' = misses + 1
    /\ keys' = [keys EXCEPT ![k] = None]
    /\ UNCHANGED <<behavior, liked, hour, stored, task, reading, torn, held, starts>>

\* The replay adds the events to the cached vector again.
MUT_Reread(t) ==
    /\ At(t, "again")
    /\ Continue(t, [task[t] EXCEPT !.pc = "delete", !.stale = {}, !.v2 = vector2,
                                   !.v1 = Weight(vector1) + Total(task[t].events)])

\* A replay finds no event to apply, reads the vectors and refreshes the keys.
Reread(t) ==
    /\ At(t, "again")
    /\ Continue(t, [task[t] EXCEPT !.pc = "delete", !.stale = {},
                                   !.v1 = Weight(vector1), !.v2 = vector2])

(***************************************************************************)
(* _refresh_due_recent_topics                                              *)
(***************************************************************************)

Due(t) ==
    /\ recent # None /\ recent <= hour
    /\ Free(t, "recent")
    /\ StartTask(t, [kind |-> "due", events |-> {}, locks |-> {"recent"},
                 stale |-> {}, pc |-> "views"])

CommitDue(t) ==
    /\ At(t, "commit") /\ task[t].kind = "due"
    /\ SaveTopics(t)
    /\ UNCHANGED <<counted, vector1, vector2, held>>
    /\ Commit(t, {"topics"}, {"topics"}, "delete")

(***************************************************************************)
(* replay_user, _backfill_v2                                               *)
(***************************************************************************)

\* _rebuild_v2_for_user: the behaviour is read.
RebuildV2(t) ==
    /\ behavior # <<>>
    /\ StartTask(t, [kind |-> "replay", events |-> {}, locks |-> {}, stale |-> {},
                 pc |-> "upsert", v2 |-> Len(behavior)])

\* On start, for a user who has no vector yet.
Backfill(t) == vector2 = None /\ RebuildV2(t)

\* By hand, with leave to replace a vector.
ReplayUser(t) == (vector2 = None \/ ReplaceExisting) /\ RebuildV2(t)

CommitReplay(t) ==
    /\ At(t, "upsert") /\ task[t].kind = "replay"
    /\ Free(t, "v1")
    /\ vector2' = SaveV2(t)
    /\ UNCHANGED <<counted, vector1, topicPrefs, recent, held>>
    /\ Commit(t, {"v2"}, {"v2"}, "delete")

(***************************************************************************)
(* rebuild_features                                                        *)
(***************************************************************************)

\* aggregate_topic_weights
Aggregate(t) ==
    /\ StartTask(t, [kind |-> "rebuild", events |-> {}, locks |-> {}, stale |-> {},
                 pc |-> "upsert", v1 |-> IF liked THEN 1 ELSE 0,
                 held |-> [likes |-> LikeRows, events |-> {}, before |-> counted]])

\* The interactions are added to what is there.
MUT_Rebuilt(t) == Weight(vector1) + task[t].v1

Rebuilt(t) == task[t].v1

UpsertUserVector(t) ==
    /\ At(t, "upsert") /\ task[t].kind = "rebuild"
    /\ Free(t, "v1")
    /\ vector1' = Rebuilt(t)
    /\ held' = task[t].held
    /\ UNCHANGED <<counted, vector2, topicPrefs, recent>>
    /\ Commit(t, {"v1"}, {"v1"}, "pref")

\* Only pref:{user} is set; pref:v1 is read before it.
SetPref(t) ==
    /\ At(t, "pref")
    /\ keys' = [keys EXCEPT !.pref = task[t].v1]
    /\ torn' = torn \cup (IF "v1" \in task[t].stale THEN {"keys"} ELSE {})
                    \cup (IF keys.v1 \notin {None, task[t].v1} THEN {"shadow"} ELSE {})
    /\ task' = [task EXCEPT ![t] = NoTask]
    /\ UNCHANGED <<behavior, liked, hour, stored, reading, held, starts, misses>>

(***************************************************************************)
(* Failures                                                                *)
(***************************************************************************)

\* A statement or a Redis command fails, or the process dies.  Up to the
\* commit the transaction is undone.  After it an event is delivered again; a
\* due refresh is scheduled again unless the worker died; and a replay or a
\* rebuild leaves keys with the vector it replaced.
Fail(t) ==
    /\ task[t] # NoTask
    /\ misses < MaxMisses
    /\ misses' = misses + 1
    /\ LET after == Refreshing(t) IN
       IF after /\ task[t].kind = "apply"
       THEN /\ task' = [task EXCEPT ![t].pc = "again"]
            /\ UNCHANGED <<recent, torn>>
       ELSE /\ task' = [task EXCEPT ![t] = NoTask]
            /\ recent' \in {recent} \cup (IF after /\ task[t].kind = "due"
                                          THEN {hour} ELSE {})
            /\ torn' = torn \cup (IF after /\ task[t].kind # "due"
                                  THEN {"keys"} ELSE {})
    /\ UNCHANGED <<behavior, liked, hour, counted, vector1, vector2, topicPrefs, keys,
                   reading, held, starts>>

\* An event holds the row of users and waits for that of the due refresh,
\* which waits for the row of users: PostgreSQL rolls one of them back.
BreakDeadlock(t) ==
    \E e, d \in Tasks :
        /\ t \in {e, d}
        /\ At(e, "commit") /\ task[e].kind = "apply" /\ "users" \in task[e].locks
        /\ At(d, "prefs") /\ task[d].kind = "due" /\ task[d].topics # topicPrefs
        /\ Continue(t, NoTask)

(***************************************************************************)
(* fetch_user_vector                                                       *)
(***************************************************************************)

Current(ks) == /\ ks.v2 \in {None, vector2}
               /\ {ks.v1, ks.pref} \subseteq {None, Weight(vector1)}

Answer(source, value) ==
    [reading EXCEPT !.pc = "done", !.source = source, !.value = value]

\* The keys are right, and no task is going to make them wrong.
GoodKeys == /\ Current(keys)
            /\ \A t \in Tasks : task[t] = NoTask
                                 \/ (task[t].stale = {} /\ ~Refreshing(t))

\* Recent topics, if the user has a row for them, are the answer.  A read that
\* starts with other keys than good ones is not followed: it changes nothing.
StartRead(schema) ==
    /\ reading = NoRead
    /\ starts < MaxTasks
    /\ starts' = starts + 1
    /\ reading' = IF recent # None \/ ~GoodKeys THEN Settled
                  ELSE [pc |-> schema, schema |-> schema, source |-> "none", value |-> None,
                        v1s |-> {Weight(vector1)}, v2s |-> {vector2}]
    /\ UNCHANGED <<behavior, liked, hour, stored, keys, task, torn, held, misses>>

\* One GET or SELECT after the other, until one has something.
ReadOn ==
    /\ reading # NoRead /\ reading.pc # "done"
    /\ reading' =
         CASE reading.pc = "v2" /\ keys.v2 # None -> Answer("v2", keys.v2)
           [] reading.pc = "v2" /\ keys.v2 = None -> [reading EXCEPT !.pc = "v1"]
           [] reading.pc = "v1" /\ keys.v1 # None -> Answer("v1", keys.v1)
           [] reading.pc = "v1" /\ keys.v1 = None -> [reading EXCEPT !.pc = "pref"]
           [] reading.pc = "pref" /\ keys.pref # None -> Answer("v1", keys.pref)
           [] reading.pc = "pref" /\ keys.pref = None ->
                [reading EXCEPT !.pc = IF reading.schema = "v2" THEN "row2" ELSE "row1"]
           [] reading.pc = "row2" /\ vector2 # None -> Answer("v2", vector2)
           [] reading.pc = "row2" /\ vector2 = None -> [reading EXCEPT !.pc = "row1"]
           [] reading.pc = "row1" -> Answer("v1", Weight(vector1))
    /\ UNCHANGED <<behavior, liked, hour, stored, keys, task, torn, held, starts,
                   misses>>

\* The bounds are reached and nothing is under way.
AtRest ==
    /\ \A t \in Tasks : task[t] = NoTask
    /\ UNCHANGED prefVars

PrefNext ==
    \/ \E kind \in Kinds : Record(kind)
    \/ PassHour
    \/ \E t \in Tasks :
         \/ \E S \in SUBSET (Rows \ counted) : Claim(t, S)
         \/ SaveVectors(t) \/ ReadViews(t) \/ UpdatePrefs(t) \/ CommitApply(t)
         \/ DeleteKeys(t) \/ SetKeys(t) \/ Reread(t)
         \/ Due(t) \/ CommitDue(t)
         \/ Backfill(t) \/ ReplayUser(t) \/ CommitReplay(t)
         \/ Aggregate(t) \/ UpsertUserVector(t) \/ SetPref(t)
         \/ Fail(t) \/ BreakDeadlock(t)
    \/ \E k \in {"v2", "v1", "pref"} : ExpireKey(k)
    \/ \E schema \in {"v1", "v2"} : StartRead(schema)
    \/ ReadOn
    \/ AtRest

PrefSpec == PrefInit /\ [][PrefNext]_prefVars

(***************************************************************************)
(* Properties                                                              *)
(***************************************************************************)

\* The v2 vector was replayed from every event that has its receipt: no
\* replay, backfill or other worker leaves an older one behind, unless it
\* read the behaviour before and wrote after somebody else's commit.
ReplayNotBehind ==
    \/ "v2" \in torn
    \/ \A i \in counted \ OfKind({"view"}) : vector2 # None /\ i <= vector2

\* However workers and rebuild_features cross, the v1 vector is a sum of rows
\* each added by one worker at most, and of rows of the like each added once
\* more at most, by the last rebuild_features: so a like is counted twice only
\* if its event was still on its way when rebuild_features read.  Nothing that
\* has its receipt is missing, but the reads rebuild_features forgets, unless a
\* task has saved what it had read before another's commit.
InteractionsCountedOnce ==
    /\ Weight(vector1) = Total(held.likes) + Total(held.events)
    /\ held.likes \subseteq LikeRows
    /\ held.events \subseteq counted \ held.before
    /\ \/ "v1" \in torn
       \/ /\ (counted \ OfKind({"view"})) \ held.before \subseteq held.events
          /\ held.before \cap LikeRows \subseteq held.likes

Served == IF recent \in {None, Never} THEN {} ELSE topicPrefs

\* The topic of a view that was applied is served as long as the view is in
\* the window, whatever refreshes come after, unless two of them crossed.
TopicsFollowViews ==
    \/ "topics" \in torn
    \/ counted \cap Evidence(hour) \subseteq Served

\* Between refreshes each key is missing or has the vector of the row, unless
\* a refresh was overtaken, a task died before its own, or pref:v1 hides what
\* rebuild_features put in pref.
KeysFollowRows ==
    \/ "keys" \in torn
    \/ \E t \in Tasks : Refreshing(t)
    \/ /\ keys.v2 \in {None, vector2}
       /\ keys.pref \in {None, Weight(vector1)}
       /\ "shadow" \in torn \/ keys.v1 \in {None, Weight(vector1)}

\* A read that starts with good keys answers with a vector that was stored at
\* some time during the read, however refreshes move between its commands.
AnswersAreCurrent ==
    reading.pc = "done" =>
        /\ reading.source = "v1" => reading.value \in reading.v1s
        /\ reading.source = "v2" => reading.value \in reading.v2s
=============================================================================
