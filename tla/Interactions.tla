---------------------------- MODULE Interactions ----------------------------
(***************************************************************************)
(* The mutations of the interaction service                                *)
(* (backend/services/interaction-service/src/handlers.rs and repo.rs):     *)
(* like, save, share and hide with their reversals, reports, comments and  *)
(* the counters kept on the post.                                          *)
(*                                                                         *)
(* Every request is one READ COMMITTED transaction.  Its start fixes       *)
(* NOW(), which becomes occurred_at of the behavior_events row; its body   *)
(* runs later.  The body of a toggle, a report or a new comment begins     *)
(* with the statement that takes the decisive row lock, so it is one step; *)
(* delete_comment reads the comment without a lock, so it is two.          *)
(***************************************************************************)
EXTENDS Integers, FiniteSets

CONSTANTS
    Users,
    Posts,
    Comments,    \* comment ids
    Admins,      \* users with UserRole::Admin
    Types,       \* interaction types of the toggles requested
    Requests,    \* requests the replicas work on at a time
    NoComment,   \* parent_comment_id of a top-level comment
    MaxStarts    \* bound on the transactions started

ASSUME InteractionsAssumption ==
    /\ Admins \subseteq Users
    /\ Types \subseteq {"like", "save", "share", "hide"}
    /\ NoComment \notin Comments
    /\ MaxStarts \in Nat

\* counter_column: the types that have a counter; hide has none.
Counted == {"like", "save", "share"}
Toggles == Counted \cup {"hide"}

\* event_type of the behavior_events row of a DELETE.
Reversal == [like |-> "unlike", save |-> "unsave", share |-> "unshare",
             hide |-> "unhide"]

VARIABLES
    rows,      \* interactions: <<user, post, type>>
    count,     \* like_count, save_count, share_count, comment_count of a post
    comments,  \* comments: post, author, parent and is_deleted of each row
    reports,   \* reports: reporter, post and how many of them are pending/done
    history,   \* behavior_events with source canonical_api, and their envelopes
    req,       \* the transaction of each request
    clock      \* NOW(): transactions are ordered by their start

vars == <<rows, count, comments, reports, history, req, clock>>

Idle == [kind |-> "idle"]

Ops ==
    [kind : {"toggle"}, user : Users, post : Posts, type : Types,
     method : {"POST", "DELETE"}, at : 1..MaxStarts]
    \cup
    [kind : {"report"}, user : Users, post : Posts, at : 1..MaxStarts]
    \cup
    [kind : {"comment"}, user : Users, post : Posts,
     parent : Comments \cup {NoComment}, at : 1..MaxStarts]
    \cup
    [kind : {"delete", "deleting"}, user : Users, comment : Comments,
     at : 1..MaxStarts]

Init ==
    /\ rows = {}
    /\ count = [p \in Posts |-> [t \in Counted \cup {"comment"} |-> 0]]
    /\ comments = << >>
    /\ reports = [k \in Users \X Posts |-> [pending |-> FALSE, filed |-> 0]]
    /\ history = {}
    /\ req = [r \in Requests |-> Idle]
    /\ clock = 0

-----------------------------------------------------------------------------
(* Transactions.                                                           *)

\* db.begin(): the request passed its checks and the transaction starts now.
Begin(r) ==
    /\ req[r] = Idle
    /\ clock < MaxStarts
    /\ clock' = clock + 1
    /\ \E op \in Ops :
          /\ op.at = clock'
          /\ op.kind # "deleting"
          /\ req' = [req EXCEPT ![r] = op]
    /\ UNCHANGED <<rows, count, comments, reports, history>>

\* tx.commit(), or the rollback when a statement or the connection fails.
Done(r) == req' = [req EXCEPT ![r] = Idle] /\ UNCHANGED clock

Abort(r) ==
    /\ req[r] # Idle
    /\ Done(r)
    /\ UNCHANGED <<rows, count, comments, reports, history>>

\* bump_counter is relative: UPDATE posts SET c = c + delta.
BumpCounter(p, col, delta) == count' = [count EXCEPT ![p][col] = @ + delta]

\* One event per user, post and action, as ON CONFLICT DO NOTHING on them would
\* keep.
MUT_RecordEvent(op, p, action) ==
    history' = history \cup
        {e \in {[at |-> op.at, done |-> clock, user |-> op.user, post |-> p,
                 action |-> action]} :
            \A o \in history : o.user # e.user \/ o.post # p \/ o.action # action}

\* insert_canonical_behavior_event and enqueue_outbox_events: the same id in
\* both tables, occurred_at being the start of the transaction.  `done' is the
\* time of the commit, which the row does not keep.
RecordEvent(op, p, action) ==
    history' = history \cup
        {[at |-> op.at, done |-> clock, user |-> op.user, post |-> p,
          action |-> action]}

-----------------------------------------------------------------------------
(* toggle_post                                                             *)

\* What the request is counted as, changed or not.
MUT_Changed(op) == TRUE

\* INSERT ... ON CONFLICT DO NOTHING or DELETE: rows_affected() = 1.
Changed(op) ==
    (op.method = "POST") <=> (<<op.user, op.post, op.type>> \notin rows)

\* A POST that finds the row, or a DELETE that does not, changes nothing.
Toggle(r) ==
    LET op == req[r]
        row == <<op.user, op.post, op.type>>
        added == op.method = "POST"
    IN
    /\ op.kind = "toggle"
    /\ IF Changed(op)
       THEN /\ rows' = IF added THEN rows \cup {row} ELSE rows \ {row}
            /\ IF op.type \in Counted
               THEN BumpCounter(op.post, op.type, IF added THEN 1 ELSE -1)
               ELSE UNCHANGED count
            /\ RecordEvent(op, op.post, IF added THEN op.type ELSE Reversal[op.type])
       ELSE UNCHANGED <<rows, count, history>>
    /\ Done(r)
    /\ UNCHANGED <<comments, reports>>

-----------------------------------------------------------------------------
(* report_post                                                             *)

\* insert_report: one pending report per user and post, else 409 and rollback.
InsertReport(op) ==
    /\ ~reports[<<op.user, op.post>>].pending
    /\ reports' = [reports EXCEPT ![<<op.user, op.post>>] =
                      [pending |-> TRUE, filed |-> @.filed + 1]]

Report(r) ==
    LET op == req[r] IN
    /\ op.kind = "report"
    /\ InsertReport(op)
    /\ rows' = rows \cup {<<op.user, op.post, "report">>}
    /\ RecordEvent(op, op.post, "report")
    /\ Done(r)
    /\ UNCHANGED <<count, comments>>

\* The moderation service resolves the reports of a user on a post.
ResolveReport(u, p) ==
    /\ reports[<<u, p>>].pending
    /\ reports' = [reports EXCEPT ![<<u, p>>].pending = FALSE]
    /\ UNCHANGED <<rows, count, comments, history, req, clock>>

-----------------------------------------------------------------------------
(* Comments.                                                               *)

\* insert_comment: the parent is a top-level comment of the post.  A deleted
\* parent is not refused.
ParentOK(op) ==
    \/ op.parent = NoComment
    \/ /\ op.parent \in DOMAIN comments
       /\ comments[op.parent].post = op.post
       /\ comments[op.parent].parent = NoComment

\* Replies are counted as well.
MUT_BumpComment(op) == BumpCounter(op.post, "comment", 1)

\* Only top-level comments are counted.
BumpComment(op) ==
    IF op.parent = NoComment THEN BumpCounter(op.post, "comment", 1)
    ELSE UNCHANGED count

CreateComment(r, c) ==
    LET op == req[r] IN
    /\ op.kind = "comment"
    /\ c \notin DOMAIN comments
    /\ ParentOK(op)
    /\ comments' = [d \in DOMAIN comments \cup {c} |->
                       IF d = c
                       THEN [post |-> op.post, author |-> op.user,
                             parent |-> op.parent, deleted |-> FALSE]
                       ELSE comments[d]]
    /\ BumpComment(op)
    /\ RecordEvent(op, op.post, "comment")
    /\ Done(r)
    /\ UNCHANGED <<rows, reports>>

\* soft_delete_comment reads the row, without locking it.  A comment that is
\* already deleted is no error and skips the check of the author.
ReadComment(r) ==
    LET op == req[r] IN
    /\ op.kind = "delete"
    /\ op.comment \in DOMAIN comments
    /\ \/ comments[op.comment].deleted
       \/ op.user \in Admins \cup {comments[op.comment].author}
    /\ req' = [req EXCEPT ![r].kind = "deleting"]
    /\ UNCHANGED <<rows, count, comments, reports, history, clock>>

\* UPDATE, and the counter goes down whenever the comment was top-level.
DeleteComment(r) ==
    LET op == req[r]
        c == op.comment
    IN
    /\ op.kind = "deleting"
    /\ comments' = [comments EXCEPT ![c].deleted = TRUE]
    /\ IF comments[c].parent = NoComment
       THEN BumpCounter(comments[c].post, "comment", -1)
       ELSE UNCHANGED count
    /\ Done(r)
    /\ UNCHANGED <<rows, reports, history>>

-----------------------------------------------------------------------------
Next ==
    \/ \E r \in Requests :
          \/ Begin(r) \/ Abort(r) \/ Toggle(r) \/ Report(r)
          \/ ReadComment(r) \/ DeleteComment(r)
          \/ \E c \in Comments : CreateComment(r, c)
    \/ \E u \in Users, p \in Posts : ResolveReport(u, p)

Spec == Init /\ [][Next]_vars

-----------------------------------------------------------------------------
(* Properties.                                                             *)

\* The counters shown on a post are the rows behind them, whatever requests
\* cross: two likes at once count once, an unlike of nothing counts nothing
\* (toggle_post bumps only if a row changed).
CountersMatchRows ==
    \A p \in Posts : \A t \in Counted :
        count[p][t] = Cardinality({u \in Users : <<u, p, t>> \in rows})

\* The events of an action of a user on a post.
Events(u, p, a) == {e \in history : e.user = u /\ e.post = p /\ e.action = a}

Live(p) ==
    {c \in DOMAIN comments :
        comments[c].post = p /\ comments[c].parent = NoComment
        /\ ~comments[c].deleted}

\* The comment counter never shows more than the comments a reader can see,
\* whatever comments are added and deleted at the same time.
CommentCountNeverHigh == \A p \in Posts : count[p]["comment"] <= Cardinality(Live(p))

\* Two transactions that both had begun when the first of them committed.
Concurrent(e, o) == e # o /\ e.at <= o.done /\ o.at <= e.done

\* Ordered by occurred_at, the history of a user on a post ends with the action
\* exactly when the row exists: what build_preference_vector_v2 computes when
\* "reversal events remove active state".  occurred_at is the start of the
\* transaction, so an unlike that starts before the like it undoes is replayed
\* before it; only requests that overlap can go wrong in this way.
ReplayMatchesRows ==
    \A u \in Users, p \in Posts, t \in Toggles :
        LET acts == Events(u, p, t)
            undone == Events(u, p, Reversal[t])
        IN \/ (\E e \in acts : \A o \in undone : o.at < e.at) <=> (<<u, p, t>> \in rows)
           \/ \E e, o \in acts \cup undone : Concurrent(e, o)
=============================================================================
