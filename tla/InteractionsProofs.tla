------------------------- MODULE InteractionsProofs -------------------------
(***************************************************************************)
(* Proofs about the mutations of the interaction service, for any number   *)
(* of users, posts, comments and requests at a time.                       *)
(*                                                                         *)
(* Each of the three properties needs more than itself: that the sets the  *)
(* counters count are finite, that a transaction that is deleting found    *)
(* its comment, and, for the history, that no two transactions have the    *)
(* same start and that an event is recorded after its start.               *)
(***************************************************************************)
EXTENDS Interactions, FiniteSetTheorems, TLAPS

Columns == Counted \cup {"comment"}
CommentRows == [post : Posts, author : Users, parent : Comments \cup {NoComment},
                deleted : BOOLEAN]

TypeOK ==
    /\ count \in [Posts -> [Columns -> Int]]
    /\ comments \in [DOMAIN comments -> CommentRows]
    /\ req \in [Requests -> {Idle} \cup Ops]
    /\ clock \in Nat

\* The second statement of delete_comment has found the comment.
DeletesKnown ==
    \A r \in Requests : req[r].kind = "deleting" => req[r].comment \in DOMAIN comments

\* The starts of the transactions under way are past and all different.
StartsDiffer ==
    /\ \A r \in Requests : req[r] # Idle => req[r].at \in Nat /\ req[r].at <= clock
    /\ \A r, s \in Requests :
          r # s /\ req[r] # Idle /\ req[s] # Idle => req[r].at # req[s].at

\* An event is recorded by a transaction that is over, at its commit.
HistoryIsPast ==
    \A e \in history :
       /\ e.at \in Nat /\ e.done \in Nat /\ e.at <= e.done /\ e.done <= clock
       /\ \A r \in Requests : req[r] # Idle => req[r].at # e.at

\* The users whose interaction of a type is stored for a post.
UsersOf(p, t) == {u \in Users : <<u, p, t>> \in rows}

CountersInv ==
    \A p \in Posts : \A t \in Counted :
        IsFiniteSet(UsersOf(p, t)) /\ count[p][t] = Cardinality(UsersOf(p, t))

CommentsInv ==
    \A p \in Posts :
        IsFiniteSet(Live(p)) /\ count[p]["comment"] <= Cardinality(Live(p))

RequestInv == TypeOK /\ DeletesKnown /\ StartsDiffer /\ HistoryIsPast

\* The fields of a request, by what it is for.
LEMMA OpFields ==
    ASSUME TypeOK, NEW r \in Requests, req[r] # Idle
    PROVE  /\ req[r] \in Ops /\ req[r].at \in Nat
           /\ req[r].kind \in {"toggle", "report", "comment", "delete", "deleting"}
           /\ req[r].kind = "toggle" =>
                 /\ req[r].user \in Users /\ req[r].post \in Posts
                 /\ req[r].type \in Types /\ req[r].type \in Toggles
                 /\ req[r].method \in {"POST", "DELETE"}
           /\ req[r].kind = "comment" =>
                 /\ req[r].user \in Users /\ req[r].post \in Posts
                 /\ req[r].parent \in Comments \cup {NoComment}
           /\ req[r].kind = "report" => req[r].user \in Users /\ req[r].post \in Posts
           /\ req[r].kind \in {"delete", "deleting"} => req[r].comment \in Comments
<1>1. req[r] \in Ops
  BY DEF TypeOK
<1>2. \A i \in 1..MaxStarts : i \in Nat
  BY InteractionsAssumption
<1> QED
  BY <1>1, <1>2, InteractionsAssumption DEF Ops, Toggles, Counted

\* What RecordEvent and Done leave of the requests and the history.
LEMMA CommitRequest ==
    ASSUME RequestInv, NEW r \in Requests, req[r] # Idle, Done(r),
           \/ history' = history
           \/ \E p, a : RecordEvent(req[r], p, a)
    PROVE  /\ StartsDiffer' /\ HistoryIsPast'
           /\ req' \in [Requests -> {Idle} \cup Ops]
           /\ \A s \in Requests : req'[s] # Idle => s # r /\ req'[s] = req[s]
           /\ clock' = clock
<1>1. /\ req' = [req EXCEPT ![r] = Idle] /\ clock' = clock
      /\ req \in [Requests -> {Idle} \cup Ops] /\ clock \in Nat
  BY DEF Done, RequestInv, TypeOK
<1>2. \A s \in Requests : req'[s] # Idle => s # r /\ req'[s] = req[s]
  BY <1>1
<1>3. StartsDiffer'
  BY <1>1, <1>2 DEF RequestInv, StartsDiffer
<1>4. HistoryIsPast'
  <2> SUFFICES ASSUME NEW e \in history'
               PROVE  /\ e.at \in Nat /\ e.done \in Nat /\ e.at <= e.done /\ e.done <= clock
                      /\ \A s \in Requests : req'[s] # Idle => req'[s].at # e.at
    BY <1>1 DEF HistoryIsPast
  <2>1. CASE e \in history
    BY <1>2, <2>1 DEF RequestInv, HistoryIsPast
  <2>2. CASE e \notin history
    <3>1. PICK p, a : e = [at |-> req[r].at, done |-> clock, user |-> req[r].user,
                           post |-> p, action |-> a]
      BY <2>2 DEF RecordEvent
    <3>2. e.at = req[r].at /\ e.done = clock
      BY <3>1
    <3>3. req[r].at \in Nat /\ req[r].at <= clock
      BY DEF RequestInv, StartsDiffer
    <3> QED
      BY <1>1, <1>2, <3>2, <3>3 DEF RequestInv, StartsDiffer
  <2> QED
    BY <2>1, <2>2
<1>5. req' \in [Requests -> {Idle} \cup Ops]
  BY <1>1
<1> QED
  BY <1>1, <1>2, <1>3, <1>4, <1>5

\* One counter of a post moves, and no other.
LEMMA BumpLemma ==
    ASSUME count \in [Posts -> [Columns -> Int]], NEW p \in Posts, NEW col \in Columns,
           NEW delta \in Int, BumpCounter(p, col, delta)
    PROVE  /\ count' \in [Posts -> [Columns -> Int]]
           /\ count'[p][col] = count[p][col] + delta
           /\ \A q \in Posts, c \in Columns :
                 q # p \/ c # col => count'[q][c] = count[q][c]
  BY DEF BumpCounter

\* A service without any request holds nothing.
LEMMA RequestInit == Init => RequestInv
<1> SUFFICES ASSUME Init PROVE RequestInv
  OBVIOUS
<1>1. TypeOK
  <2>1. comments \in [DOMAIN comments -> CommentRows]
    BY DEF Init
  <2> QED
    BY <2>1 DEF Init, TypeOK, Columns
<1>2. DeletesKnown
  BY DEF Init, DeletesKnown, Idle
<1>3. StartsDiffer /\ HistoryIsPast
  BY DEF Init, StartsDiffer, HistoryIsPast
<1> QED
  BY <1>1, <1>2, <1>3 DEF RequestInv

-----------------------------------------------------------------------------
(* Every request: its type, its start and its place in the history.        *)

\* A transaction that starts has the latest start.
LEMMA RequestBegin ==
    ASSUME RequestInv, NEW r \in Requests, Begin(r)
    PROVE  RequestInv'
<1>1. PICK op \in Ops : /\ op.at = clock' /\ op.kind # "deleting"
                        /\ req' = [req EXCEPT ![r] = op]
  BY DEF Begin
<1>2. /\ clock \in Nat /\ clock' = clock + 1 /\ req \in [Requests -> {Idle} \cup Ops]
      /\ comments' = comments /\ count' = count /\ history' = history
  BY DEF Begin, RequestInv, TypeOK
<1>3. TypeOK'
  BY <1>1, <1>2 DEF RequestInv, TypeOK
<1>4. DeletesKnown'
  BY <1>1, <1>2 DEF RequestInv, DeletesKnown
<1>5. /\ req'[r].at = clock + 1
      /\ \A s \in Requests : s # r => req'[s] = req[s]
  BY <1>1, <1>2
<1>6. StartsDiffer'
  BY <1>2, <1>5 DEF RequestInv, StartsDiffer
<1>7. HistoryIsPast'
  BY <1>2, <1>5 DEF RequestInv, HistoryIsPast
<1> QED
  BY <1>3, <1>4, <1>6, <1>7 DEF RequestInv

\* The end of a transaction, whatever it wrote to the comments.
LEMMA RequestEnd ==
    ASSUME RequestInv, NEW r \in Requests, req[r] # Idle, Done(r),
           \/ history' = history
           \/ \E p, a : RecordEvent(req[r], p, a),
           (count \in [Posts -> [Columns -> Int]])',
           (comments \in [DOMAIN comments -> CommentRows])',
           DOMAIN comments \subseteq DOMAIN comments'
    PROVE  RequestInv'
<1>1. /\ StartsDiffer' /\ HistoryIsPast'
      /\ req' \in [Requests -> {Idle} \cup Ops]
      /\ \A s \in Requests : req'[s] # Idle => s # r /\ req'[s] = req[s]
      /\ clock' = clock
  BY CommitRequest
<1>2. TypeOK'
  BY <1>1 DEF RequestInv, TypeOK
<1>3. Idle.kind # "deleting"
  BY DEF Idle
<1>4. DeletesKnown'
  BY <1>1, <1>3 DEF RequestInv, DeletesKnown
<1> QED
  BY <1>1, <1>2, <1>4 DEF RequestInv

\* A request that is for something is not idle.
LEMMA Busy ==
    ASSUME NEW r \in Requests,
           req[r].kind \in {"toggle", "report", "comment", "delete", "deleting"}
    PROVE  req[r] # Idle
  BY DEF Idle

\* What a toggle does, spelt out.
LEMMA ToggleFacts ==
    ASSUME RequestInv, NEW r \in Requests, Toggle(r),
           NEW op, op = req[r]
    PROVE  /\ op.user \in Users /\ op.post \in Posts /\ op.type \in Toggles
           /\ op.at \in Nat
           /\ \/ rows' = rows /\ count' = count /\ history' = history
              \/ /\ op.method = "POST" /\ <<op.user, op.post, op.type>> \notin rows
                 /\ rows' = rows \cup {<<op.user, op.post, op.type>>}
                 /\ \/ op.type \in Counted /\ BumpCounter(op.post, op.type, 1)
                    \/ op.type \notin Counted /\ count' = count
                 /\ RecordEvent(op, op.post, op.type)
              \/ /\ op.method = "DELETE" /\ <<op.user, op.post, op.type>> \in rows
                 /\ rows' = rows \ {<<op.user, op.post, op.type>>}
                 /\ \/ op.type \in Counted /\ BumpCounter(op.post, op.type, -1)
                    \/ op.type \notin Counted /\ count' = count
                 /\ RecordEvent(op, op.post, Reversal[op.type])
<1>1. op.kind = "toggle" /\ req[r] # Idle
  BY DEF Toggle, Idle
<1>2. /\ op.user \in Users /\ op.post \in Posts /\ op.type \in Toggles
      /\ op.method \in {"POST", "DELETE"} /\ op.at \in Nat
  BY <1>1, OpFields DEF RequestInv
<1>3. CASE ~Changed(op)
  BY <1>2, <1>3 DEF Toggle
<1>4. CASE Changed(op) /\ op.method = "POST"
  BY <1>2, <1>4 DEF Toggle, Changed
<1>5. CASE Changed(op) /\ op.method = "DELETE"
  BY <1>2, <1>5 DEF Toggle, Changed
<1> QED
  BY <1>2, <1>3, <1>4, <1>5

\* Every step keeps the types, the comments of the deletes under way, the
\* starts apart and the history in the past.
LEMMA RequestNext == RequestInv /\ [Next]_vars => RequestInv'
<1> SUFFICES ASSUME RequestInv, [Next]_vars PROVE RequestInv'
  OBVIOUS
<1>0. /\ count \in [Posts -> [Columns -> Int]]
      /\ comments \in [DOMAIN comments -> CommentRows]
      /\ req \in [Requests -> {Idle} \cup Ops]
  BY DEF RequestInv, TypeOK
<1>1. ASSUME NEW r \in Requests, Begin(r) PROVE RequestInv'
  BY <1>1, RequestBegin
<1>2. ASSUME NEW r \in Requests, Abort(r) PROVE RequestInv'
  <2>1. /\ req[r] # Idle /\ Done(r) /\ count' = count /\ comments' = comments
        /\ history' = history
    BY <1>2 DEF Abort
  <2> QED
    BY <1>0, <2>1, RequestEnd
<1>3. ASSUME NEW r \in Requests, Toggle(r) PROVE RequestInv'
  <2>1. Done(r) /\ comments' = comments /\ req[r] # Idle
    BY <1>3, Busy DEF Toggle
  <2> DEFINE op == req[r]
  <2>2. \/ history' = history
        \/ \E p, a : RecordEvent(op, p, a)
    BY <1>3, ToggleFacts
  <2>3. count' \in [Posts -> [Columns -> Int]]
    <3>1. \/ count' = count
          \/ \E p \in Posts, c \in Columns, d \in Int : BumpCounter(p, c, d)
      <4>1. 1 \in Int /\ -1 \in Int /\ \A c \in Counted : c \in Columns
        BY DEF Columns
      <4> QED
        BY <1>3, <4>1, ToggleFacts
    <3> QED
      BY <1>0, <3>1, BumpLemma
  <2> QED
    BY <1>0, <2>1, <2>2, <2>3, RequestEnd
<1>4. ASSUME NEW r \in Requests, Report(r) PROVE RequestInv'
  <2>1. /\ req[r] # Idle /\ Done(r) /\ count' = count /\ comments' = comments
        /\ RecordEvent(req[r], req[r].post, "report")
    BY <1>4, Busy DEF Report
  <2> QED
    BY <1>0, <2>1, RequestEnd
<1>5. ASSUME NEW r \in Requests, ReadComment(r) PROVE RequestInv'
  <2>1. /\ req[r].kind = "delete" /\ req[r].comment \in DOMAIN comments
        /\ req' = [req EXCEPT ![r].kind = "deleting"]
        /\ clock' = clock /\ comments' = comments /\ count' = count /\ history' = history
    BY <1>5 DEF ReadComment
  <2>2. req[r] # Idle
    BY <2>1, Busy
  <2>3. req[r] \in [kind : {"delete", "deleting"}, user : Users, comment : Comments,
                    at : 1..MaxStarts]
    BY <1>0, <2>1, <2>2 DEF Ops
  <2>4. [req[r] EXCEPT !.kind = "deleting"]
            \in [kind : {"delete", "deleting"}, user : Users, comment : Comments,
                 at : 1..MaxStarts]
    BY <2>3
  <2>5. /\ req'[r] = [req[r] EXCEPT !.kind = "deleting"]
        /\ \A s \in Requests : s # r => req'[s] = req[s]
        /\ req' \in [Requests -> {Idle} \cup Ops]
    <3>1. req' = [req EXCEPT ![r] = [req[r] EXCEPT !.kind = "deleting"]]
      BY <2>1
    <3>2. [req[r] EXCEPT !.kind = "deleting"] \in {Idle} \cup Ops
      BY <2>4 DEF Ops
    <3> QED
      BY <1>0, <3>1, <3>2
  <2>6. /\ req'[r].at = req[r].at /\ req'[r].comment = req[r].comment
    BY <2>3, <2>5
  <2>7. TypeOK'
    BY <2>1, <2>5 DEF RequestInv, TypeOK
  <2>8. DeletesKnown'
    BY <2>1, <2>5, <2>6 DEF RequestInv, DeletesKnown
  <2>9. StartsDiffer'
    <3>1. \A s \in Requests : req'[s] # Idle => req[s] # Idle /\ req'[s].at = req[s].at
      BY <2>2, <2>5, <2>6
    <3> QED
      BY <2>1, <3>1 DEF RequestInv, StartsDiffer
  <2>10. HistoryIsPast'
    <3>1. \A s \in Requests : req'[s] # Idle => req[s] # Idle /\ req'[s].at = req[s].at
      BY <2>2, <2>5, <2>6
    <3> QED
      BY <2>1, <3>1 DEF RequestInv, HistoryIsPast
  <2> QED
    BY <2>7, <2>8, <2>9, <2>10 DEF RequestInv
<1>6. ASSUME NEW r \in Requests, DeleteComment(r) PROVE RequestInv'
  <2> DEFINE c == req[r].comment
  <2>1. /\ req[r].kind = "deleting" /\ Done(r) /\ history' = history
        /\ comments' = [comments EXCEPT ![c].deleted = TRUE]
        /\ \/ BumpCounter(comments[c].post, "comment", -1)
           \/ count' = count
    BY <1>6 DEF DeleteComment
  <2>2. req[r] # Idle
    BY <2>1, Busy
  <2>3. c \in DOMAIN comments
    BY <2>1 DEF RequestInv, DeletesKnown
  <2>4. comments[c] \in CommentRows
    BY <1>0, <2>3
  <2>5. [comments[c] EXCEPT !.deleted = TRUE] \in CommentRows
    BY <2>4 DEF CommentRows
  <2>6. comments' = [comments EXCEPT ![c] = [comments[c] EXCEPT !.deleted = TRUE]]
    BY <2>1
  <2>7. /\ DOMAIN comments' = DOMAIN comments
        /\ comments' \in [DOMAIN comments -> CommentRows]
    BY <1>0, <2>5, <2>6
  <2>8. count' \in [Posts -> [Columns -> Int]]
    <3>1. comments[c].post \in Posts /\ "comment" \in Columns /\ -1 \in Int
      BY <2>4 DEF CommentRows, Columns
    <3> QED
      BY <1>0, <2>1, <3>1, BumpLemma
  <2> QED
    BY <2>1, <2>2, <2>7, <2>8, RequestEnd
<1>7. ASSUME NEW r \in Requests, NEW c \in Comments, CreateComment(r, c)
      PROVE  RequestInv'
  <2> DEFINE op == req[r]
             new == [post |-> op.post, author |-> op.user, parent |-> op.parent,
                     deleted |-> FALSE]
  <2>1. /\ op.kind = "comment" /\ Done(r)
        /\ comments' = [d \in DOMAIN comments \cup {c} |->
                           IF d = c THEN new ELSE comments[d]]
        /\ \/ BumpCounter(op.post, "comment", 1)
           \/ count' = count
        /\ RecordEvent(op, op.post, "comment")
    BY <1>7 DEF CreateComment, BumpComment
  <2>2. op # Idle
    BY <2>1, Busy
  <2>3. op.user \in Users /\ op.post \in Posts /\ op.parent \in Comments \cup {NoComment}
    BY <2>1, <2>2, OpFields DEF RequestInv
  <2>4. new \in CommentRows
    BY <2>3 DEF CommentRows
  <2>5. /\ DOMAIN comments' = DOMAIN comments \cup {c}
        /\ comments' \in [DOMAIN comments \cup {c} -> CommentRows]
    BY <1>0, <2>1, <2>4
  <2>6. count' \in [Posts -> [Columns -> Int]]
    <3>1. "comment" \in Columns /\ 1 \in Int
      BY DEF Columns
    <3> QED
      BY <1>0, <2>1, <2>3, <3>1, BumpLemma
  <2> QED
    BY <2>1, <2>2, <2>5, <2>6, RequestEnd
<1>8. ASSUME NEW u \in Users, NEW p \in Posts, ResolveReport(u, p) PROVE RequestInv'
  BY <1>8 DEF ResolveReport, RequestInv, TypeOK, DeletesKnown, StartsDiffer, HistoryIsPast
<1>9. CASE UNCHANGED vars
  BY <1>9 DEF vars, RequestInv, TypeOK, DeletesKnown, StartsDiffer, HistoryIsPast
<1> QED
  BY <1>1, <1>2, <1>3, <1>4, <1>5, <1>6, <1>7, <1>8, <1>9 DEF Next

-----------------------------------------------------------------------------
(* The counters of a post.                                                 *)

\* A finite set with one element more, which it lacked.
LEMMA OneMore ==
    ASSUME NEW S, NEW T, NEW x, IsFiniteSet(S), x \notin S, T = S \cup {x}
    PROVE  IsFiniteSet(T) /\ Cardinality(T) = Cardinality(S) + 1 /\ Cardinality(S) \in Nat
<1>1. IsFiniteSet(S \cup {x}) /\ Cardinality(S \cup {x}) = Cardinality(S) + 1
  BY FS_AddElement
<1> QED
  BY <1>1, FS_CardinalityType

\* The same set with an element taken away, which it may have lacked.
LEMMA OneLess ==
    ASSUME NEW S, NEW T, NEW x, IsFiniteSet(S), T = S \ {x}
    PROVE  /\ IsFiniteSet(T) /\ Cardinality(S) \in Nat /\ Cardinality(T) \in Nat
           /\ Cardinality(T) = Cardinality(S) - (IF x \in S THEN 1 ELSE 0)
<1>1. /\ IsFiniteSet(S \ {x})
      /\ Cardinality(S \ {x})
           = IF x \in S THEN Cardinality(S) - 1 ELSE Cardinality(S)
  BY FS_RemoveElement
<1>2. T = S \ {x} /\ Cardinality(S) \in Nat /\ Cardinality(S \ {x}) \in Nat
  BY <1>1, FS_CardinalityType
<1> QED
  BY <1>1, <1>2

\* A step that leaves the counters and the rows of the counted types leaves
\* CountersInv.
LEMMA CountersFrame ==
    ASSUME CountersInv,
           \A p \in Posts, t \in Counted :
               count'[p][t] = count[p][t] /\ UsersOf(p, t)' = UsersOf(p, t)
    PROVE  CountersInv'
  BY DEF CountersInv

\* A toggle moves the counter of its type by the row it adds or removes.
LEMMA CountersToggle ==
    ASSUME RequestInv, CountersInv, NEW r \in Requests, Toggle(r)
    PROVE  CountersInv'
<1>1. PICK op : op = req[r]
  OBVIOUS
<1> DEFINE u0 == op.user  p0 == op.post  t0 == op.type  row == <<u0, p0, t0>>
<1>2. u0 \in Users /\ p0 \in Posts /\ t0 \in Toggles
  BY <1>1, ToggleFacts
<1>3. count \in [Posts -> [Columns -> Int]]
  BY DEF RequestInv, TypeOK
<1>4. CASE rows' = rows /\ count' = count
  BY <1>4, CountersFrame DEF UsersOf
<1>5. ASSUME t0 \notin Counted, count' = count,
             rows' = rows \cup {row} \/ rows' = rows \ {row}
      PROVE  CountersInv'
  <2>1. \A p \in Posts, t \in Counted : UsersOf(p, t)' = UsersOf(p, t)
    BY <1>5 DEF UsersOf
  <2> QED
    BY <1>5, <2>1, CountersFrame
<1>6. ASSUME t0 \in Counted, row \notin rows, rows' = rows \cup {row},
             BumpCounter(p0, t0, 1)
      PROVE  CountersInv'
  <2>1. t0 \in Columns /\ 1 \in Int /\ \A t \in Counted : t \in Columns
    BY <1>6 DEF Columns
  <2>2. /\ count'[p0][t0] = count[p0][t0] + 1
        /\ \A q \in Posts, t \in Counted :
              q # p0 \/ t # t0 => count'[q][t] = count[q][t]
    BY <1>2, <1>3, <1>6, <2>1, BumpLemma
  <2>3. /\ UsersOf(p0, t0)' = UsersOf(p0, t0) \cup {u0}
        /\ u0 \notin UsersOf(p0, t0)
    BY <1>2, <1>6 DEF UsersOf
  <2>4. \A q \in Posts, t \in Counted :
           q # p0 \/ t # t0 => UsersOf(q, t)' = UsersOf(q, t)
    BY <1>6 DEF UsersOf
  <2>5. /\ IsFiniteSet(UsersOf(p0, t0))
        /\ count[p0][t0] = Cardinality(UsersOf(p0, t0))
    BY <1>2, <1>6 DEF CountersInv
  <2>6. /\ IsFiniteSet(UsersOf(p0, t0)')
        /\ count'[p0][t0] = Cardinality(UsersOf(p0, t0)')
    BY <2>2, <2>3, <2>5, OneMore
  <2> QED
    BY <2>2, <2>4, <2>6 DEF CountersInv
<1>7. ASSUME t0 \in Counted, row \in rows, rows' = rows \ {row},
             BumpCounter(p0, t0, -1)
      PROVE  CountersInv'
  <2>1. t0 \in Columns /\ -1 \in Int /\ \A t \in Counted : t \in Columns
    BY <1>7 DEF Columns
  <2>2. /\ count'[p0][t0] = count[p0][t0] - 1
        /\ \A q \in Posts, t \in Counted :
              q # p0 \/ t # t0 => count'[q][t] = count[q][t]
    BY <1>2, <1>3, <1>7, <2>1, BumpLemma
  <2>3. /\ UsersOf(p0, t0)' = UsersOf(p0, t0) \ {u0}
        /\ u0 \in UsersOf(p0, t0)
    BY <1>2, <1>7 DEF UsersOf
  <2>4. \A q \in Posts, t \in Counted :
           q # p0 \/ t # t0 => UsersOf(q, t)' = UsersOf(q, t)
    BY <1>7 DEF UsersOf
  <2>5. /\ IsFiniteSet(UsersOf(p0, t0))
        /\ count[p0][t0] = Cardinality(UsersOf(p0, t0))
    BY <1>2, <1>7 DEF CountersInv
  <2>6. /\ IsFiniteSet(UsersOf(p0, t0)')
        /\ count'[p0][t0] = Cardinality(UsersOf(p0, t0)')
    BY <2>2, <2>3, <2>5, OneLess
  <2> QED
    BY <2>2, <2>4, <2>6 DEF CountersInv
<1> QED
  BY <1>1, <1>2, <1>4, <1>5, <1>6, <1>7, ToggleFacts

\* Every step keeps the counters with their rows.
LEMMA CountersNext == RequestInv /\ CountersInv /\ [Next]_vars => CountersInv'
<1> SUFFICES ASSUME RequestInv, CountersInv, [Next]_vars PROVE CountersInv'
  OBVIOUS
<1>0. /\ count \in [Posts -> [Columns -> Int]]
      /\ comments \in [DOMAIN comments -> CommentRows]
  BY DEF RequestInv, TypeOK
<1>1. ASSUME rows' = rows, count' = count PROVE CountersInv'
  BY <1>1, CountersFrame DEF UsersOf
<1>2. ASSUME NEW p \in Posts, NEW d \in Int, rows' = rows, BumpCounter(p, "comment", d)
      PROVE  CountersInv'
  <2>1. "comment" \in Columns /\ \A t \in Counted : t \in Columns /\ t # "comment"
    BY DEF Columns, Counted
  <2>2. \A q \in Posts, t \in Counted : count'[q][t] = count[q][t]
    BY <1>0, <1>2, <2>1, BumpLemma
  <2> QED
    BY <1>2, <2>2, CountersFrame DEF UsersOf
<1>3. ASSUME NEW r \in Requests, Begin(r) PROVE CountersInv'
  BY <1>1, <1>3 DEF Begin
<1>4. ASSUME NEW r \in Requests, Abort(r) PROVE CountersInv'
  BY <1>1, <1>4 DEF Abort
<1>5. ASSUME NEW r \in Requests, Toggle(r) PROVE CountersInv'
  BY <1>5, CountersToggle
<1>6. ASSUME NEW r \in Requests, Report(r) PROVE CountersInv'
  <2>1. \A t \in Counted : t # "report"
    BY DEF Counted
  <2>2. /\ count' = count
        /\ rows' = rows \cup {<<req[r].user, req[r].post, "report">>}
    BY <1>6 DEF Report
  <2>3. \A p \in Posts, t \in Counted : UsersOf(p, t)' = UsersOf(p, t)
    BY <2>1, <2>2 DEF UsersOf
  <2> QED
    BY <2>2, <2>3, CountersFrame
<1>7. ASSUME NEW r \in Requests, ReadComment(r) PROVE CountersInv'
  BY <1>1, <1>7 DEF ReadComment
<1>8. ASSUME NEW r \in Requests, DeleteComment(r) PROVE CountersInv'
  <2>1. /\ req[r].kind = "deleting" /\ rows' = rows
        /\ \/ BumpCounter(comments[req[r].comment].post, "comment", -1)
           \/ count' = count
    BY <1>8 DEF DeleteComment
  <2>2. req[r].comment \in DOMAIN comments
    BY <2>1 DEF RequestInv, DeletesKnown
  <2>3. comments[req[r].comment].post \in Posts /\ -1 \in Int
    BY <1>0, <2>2 DEF CommentRows
  <2> QED
    BY <1>1, <1>2, <2>1, <2>3
<1>9. ASSUME NEW r \in Requests, NEW c \in Comments, CreateComment(r, c)
      PROVE  CountersInv'
  <2>1. /\ req[r].kind = "comment" /\ rows' = rows
        /\ \/ BumpCounter(req[r].post, "comment", 1)
           \/ count' = count
    BY <1>9 DEF CreateComment, BumpComment
  <2>2. req[r].post \in Posts /\ 1 \in Int
    BY <2>1, Busy, OpFields DEF RequestInv
  <2> QED
    BY <1>1, <1>2, <2>1, <2>2
<1>10. ASSUME NEW u \in Users, NEW p \in Posts, ResolveReport(u, p) PROVE CountersInv'
  BY <1>1, <1>10 DEF ResolveReport
<1>11. CASE UNCHANGED vars
  BY <1>1, <1>11 DEF vars
<1> QED
  BY <1>3, <1>4, <1>5, <1>6, <1>7, <1>8, <1>9, <1>10, <1>11 DEF Next

\* The counters shown on a post are the rows behind them, however many
\* requests cross: a toggle counts exactly the row it added or removed.
THEOREM InteractionsCountersMatchRows == Spec => []CountersMatchRows
<1>1. Init => CountersInv
  <2>1. ASSUME Init, NEW p \in Posts, NEW t \in Counted
        PROVE  UsersOf(p, t) = {} /\ count[p][t] = 0
    BY <2>1 DEF Init, UsersOf
  <2> QED
    BY <2>1, FS_EmptySet DEF CountersInv
<1>2. CountersInv => CountersMatchRows
  BY DEF CountersInv, CountersMatchRows, UsersOf
<1> QED
  BY <1>1, <1>2, RequestInit, RequestNext, CountersNext, PTL DEF Spec

-----------------------------------------------------------------------------
(* The comment counter.                                                    *)

\* A new top-level comment is one more on both sides, a reply on neither.
LEMMA CommentsCreate ==
    ASSUME RequestInv, CommentsInv, NEW r \in Requests, NEW c \in Comments,
           CreateComment(r, c)
    PROVE  CommentsInv'
<1>a. PICK op, new, p0 :
         /\ op = req[r] /\ p0 = op.post
         /\ new = [post |-> p0, author |-> op.user, parent |-> op.parent,
                    deleted |-> FALSE]
  OBVIOUS
<1>0. count \in [Posts -> [Columns -> Int]]
  BY DEF RequestInv, TypeOK
<1>1. /\ op.kind = "comment" /\ c \notin DOMAIN comments
      /\ comments' = [d \in DOMAIN comments \cup {c} |->
                         IF d = c THEN new ELSE comments[d]]
  BY <1>a DEF CreateComment
<1>2. p0 \in Posts
  BY <1>a, <1>1, Busy, OpFields DEF RequestInv
<1>3. /\ DOMAIN comments' = DOMAIN comments \cup {c}
      /\ comments'[c] = new
      /\ \A d \in DOMAIN comments : comments'[d] = comments[d]
  BY <1>1
<1>4. \A q \in Posts : q # p0 => Live(q)' = Live(q)
  BY <1>1, <1>3, <1>a DEF Live
<1>5. CASE op.parent = NoComment
  <2>1. BumpCounter(p0, "comment", 1)
    BY <1>5, <1>a DEF CreateComment, BumpComment
  <2>2. /\ count'[p0]["comment"] = count[p0]["comment"] + 1
        /\ \A q \in Posts : q # p0 => count'[q]["comment"] = count[q]["comment"]
    <3>1. "comment" \in Columns /\ 1 \in Int
      BY DEF Columns
    <3> QED
      BY <1>0, <1>2, <2>1, <3>1, BumpLemma
  <2>3. Live(p0)' = Live(p0) \cup {c} /\ c \notin Live(p0)
    BY <1>1, <1>3, <1>5, <1>a DEF Live
  <2>4. /\ IsFiniteSet(Live(p0)) /\ count[p0]["comment"] \in Int
        /\ count[p0]["comment"] <= Cardinality(Live(p0))
    BY <1>0, <1>2 DEF CommentsInv, Columns
  <2>5. /\ IsFiniteSet(Live(p0)')
        /\ Cardinality(Live(p0)') = Cardinality(Live(p0)) + 1
        /\ Cardinality(Live(p0)) \in Nat
    BY <2>3, <2>4, OneMore
  <2>6. count'[p0]["comment"] <= Cardinality(Live(p0)')
    BY <2>2, <2>4, <2>5
  <2> QED
    BY <1>4, <2>2, <2>5, <2>6 DEF CommentsInv
<1>6. CASE op.parent # NoComment
  <2>1. count' = count
    BY <1>6, <1>a DEF CreateComment, BumpComment
  <2>2. Live(p0)' = Live(p0)
    BY <1>1, <1>3, <1>6, <1>a DEF Live
  <2> QED
    BY <1>4, <2>1, <2>2 DEF CommentsInv
<1> QED
  BY <1>5, <1>6

\* A delete of a top-level comment takes one off the counter and at most one
\* off what can be seen: two deletes that cross take two off the counter.
LEMMA CommentsDelete ==
    ASSUME RequestInv, CommentsInv, NEW r \in Requests, DeleteComment(r)
    PROVE  CommentsInv'
<1>a. PICK c, p0 : c = req[r].comment /\ p0 = comments[c].post
  OBVIOUS
<1>0. /\ count \in [Posts -> [Columns -> Int]]
      /\ comments \in [DOMAIN comments -> CommentRows]
  BY DEF RequestInv, TypeOK
<1>1. /\ req[r].kind = "deleting"
      /\ comments' = [comments EXCEPT ![c].deleted = TRUE]
  BY <1>a DEF DeleteComment
<1>2. c \in DOMAIN comments
  BY <1>1, <1>a DEF RequestInv, DeletesKnown
<1>3. comments[c] \in CommentRows /\ p0 \in Posts
  BY <1>0, <1>2, <1>a DEF CommentRows
<1>4. /\ DOMAIN comments' = DOMAIN comments
      /\ comments'[c] = [comments[c] EXCEPT !.deleted = TRUE]
      /\ \A d \in DOMAIN comments : d # c => comments'[d] = comments[d]
  <2>1. comments' = [comments EXCEPT ![c] = [comments[c] EXCEPT !.deleted = TRUE]]
    BY <1>1
  <2> QED
    BY <1>0, <1>2, <2>1
<1>5. /\ comments'[c].post = p0 /\ comments'[c].parent = comments[c].parent
      /\ comments'[c].deleted = TRUE
  BY <1>3, <1>4, <1>a DEF CommentRows
<1>6. \A q \in Posts : q # p0 => Live(q)' = Live(q)
  BY <1>2, <1>4, <1>5, <1>a DEF Live
<1>7. CASE comments[c].parent = NoComment
  <2>1. BumpCounter(p0, "comment", -1)
    BY <1>7, <1>a DEF DeleteComment
  <2>2. /\ count'[p0]["comment"] = count[p0]["comment"] - 1
        /\ \A q \in Posts : q # p0 => count'[q]["comment"] = count[q]["comment"]
    <3>1. "comment" \in Columns /\ -1 \in Int
      BY DEF Columns
    <3> QED
      BY <1>0, <1>3, <2>1, <3>1, BumpLemma
  <2>3. Live(p0)' = Live(p0) \ {c}
    BY <1>2, <1>4, <1>5, <1>a DEF Live
  <2>4. /\ IsFiniteSet(Live(p0)) /\ count[p0]["comment"] \in Int
        /\ count[p0]["comment"] <= Cardinality(Live(p0))
    BY <1>0, <1>3 DEF CommentsInv, Columns
  <2>5. /\ IsFiniteSet(Live(p0)')
        /\ Cardinality(Live(p0)') >= Cardinality(Live(p0)) - 1
        /\ Cardinality(Live(p0)) \in Nat /\ Cardinality(Live(p0)') \in Nat
    <3>1. /\ IsFiniteSet(Live(p0)')
          /\ Cardinality(Live(p0)) \in Nat /\ Cardinality(Live(p0)') \in Nat
          /\ Cardinality(Live(p0)')
               = Cardinality(Live(p0)) - (IF c \in Live(p0) THEN 1 ELSE 0)
      BY <2>3, <2>4, OneLess
    <3> QED
      BY <3>1
  <2>6. count'[p0]["comment"] <= Cardinality(Live(p0)')
    BY <2>2, <2>4, <2>5
  <2> QED
    BY <1>6, <2>2, <2>5, <2>6 DEF CommentsInv
<1>8. CASE comments[c].parent # NoComment
  <2>1. count' = count
    BY <1>8, <1>a DEF DeleteComment
  <2>2. Live(p0)' = Live(p0)
    BY <1>2, <1>4, <1>5, <1>8, <1>a DEF Live
  <2> QED
    BY <1>6, <2>1, <2>2 DEF CommentsInv
<1> QED
  BY <1>7, <1>8

\* A step that leaves the comments and their counter leaves CommentsInv.
LEMMA CommentsFrame ==
    ASSUME CommentsInv, comments' = comments,
           \A p \in Posts : count'[p]["comment"] = count[p]["comment"]
    PROVE  CommentsInv'
  BY DEF CommentsInv, Live

\* Every step keeps the comment counter at or below what can be seen.
LEMMA CommentsNext == RequestInv /\ CommentsInv /\ [Next]_vars => CommentsInv'
<1> SUFFICES ASSUME RequestInv, CommentsInv, [Next]_vars PROVE CommentsInv'
  OBVIOUS
<1>1. ASSUME NEW r \in Requests, Begin(r) PROVE CommentsInv'
  BY <1>1, CommentsFrame DEF Begin
<1>2. ASSUME NEW r \in Requests, Abort(r) PROVE CommentsInv'
  BY <1>2, CommentsFrame DEF Abort
<1>3. ASSUME NEW r \in Requests, Toggle(r) PROVE CommentsInv'
  <2>1. PICK op : op = req[r]
    OBVIOUS
  <2>2. op.post \in Posts /\ comments' = comments
    BY <1>3, <2>1, ToggleFacts DEF Toggle
  <2>3. \/ count' = count
        \/ \E t \in Counted, d \in Int : BumpCounter(op.post, t, d)
    <3>1. 1 \in Int /\ -1 \in Int
      OBVIOUS
    <3> QED
      BY <1>3, <2>1, <3>1, ToggleFacts
  <2>4. \A p \in Posts : count'[p]["comment"] = count[p]["comment"]
    <3>1. "comment" \in Columns /\ \A t \in Counted : t \in Columns /\ t # "comment"
      BY DEF Columns, Counted
    <3>2. count \in [Posts -> [Columns -> Int]]
      BY DEF RequestInv, TypeOK
    <3> QED
      BY <2>2, <2>3, <3>1, <3>2, BumpLemma
  <2> QED
    BY <2>2, <2>4, CommentsFrame
<1>4. ASSUME NEW r \in Requests, Report(r) PROVE CommentsInv'
  BY <1>4, CommentsFrame DEF Report
<1>5. ASSUME NEW r \in Requests, ReadComment(r) PROVE CommentsInv'
  BY <1>5, CommentsFrame DEF ReadComment
<1>6. ASSUME NEW r \in Requests, DeleteComment(r) PROVE CommentsInv'
  BY <1>6, CommentsDelete
<1>7. ASSUME NEW r \in Requests, NEW c \in Comments, CreateComment(r, c)
      PROVE  CommentsInv'
  BY <1>7, CommentsCreate
<1>8. ASSUME NEW u \in Users, NEW p \in Posts, ResolveReport(u, p) PROVE CommentsInv'
  BY <1>8, CommentsFrame DEF ResolveReport
<1>9. CASE UNCHANGED vars
  BY <1>9, CommentsFrame DEF vars
<1> QED
  BY <1>1, <1>2, <1>3, <1>4, <1>5, <1>6, <1>7, <1>8, <1>9 DEF Next

\* The comment counter of a post never shows more than the comments a reader
\* can see: what delete_comment read before its UPDATE can only be too old in
\* the other direction.
THEOREM InteractionsCommentCountNeverHigh == Spec => []CommentCountNeverHigh
<1>1. Init => CommentsInv
  <2>1. ASSUME Init, NEW p \in Posts PROVE Live(p) = {} /\ count[p]["comment"] = 0
    BY <2>1 DEF Init, Live
  <2> QED
    BY <2>1, FS_EmptySet DEF CommentsInv
<1>2. CommentsInv => CommentCountNeverHigh
  BY DEF CommentsInv, CommentCountNeverHigh
<1> QED
  BY <1>1, <1>2, RequestInit, RequestNext, CommentsNext, PTL DEF Spec

-----------------------------------------------------------------------------
(* The history of a user on a post.                                        *)

\* A reversal undoes one toggle and is no action of its own.
LEMMA Reversals ==
    /\ \A t \in Toggles : /\ Reversal[t] \notin Toggles
                          /\ t \notin {"report", "comment"}
                          /\ Reversal[t] \notin {"report", "comment"}
    /\ \A t, s \in Toggles : Reversal[t] = Reversal[s] => t = s
<1>1. /\ Reversal["like"] = "unlike" /\ Reversal["save"] = "unsave"
      /\ Reversal["share"] = "unshare" /\ Reversal["hide"] = "unhide"
  BY DEF Reversal
<1>2. \A t \in Toggles : t = "like" \/ t = "save" \/ t = "share" \/ t = "hide"
  BY DEF Toggles, Counted
<1>3. \A t \in Toggles : /\ Reversal[t] \notin Toggles
                         /\ Reversal[t] \notin {"report", "comment"}
  <2>1. \A t \in Toggles : Reversal[t] \in {"unlike", "unsave", "unshare", "unhide"}
    BY <1>1, <1>2
  <2>2. \A a \in {"unlike", "unsave", "unshare", "unhide"} :
           /\ a # "like" /\ a # "save" /\ a # "share" /\ a # "hide"
           /\ a # "report" /\ a # "comment"
    OBVIOUS
  <2> QED
    BY <1>2, <2>1, <2>2
<1>4. \A t \in Toggles : t \notin {"report", "comment"}
  BY <1>2
<1>5. \A t, s \in Toggles : Reversal[t] = Reversal[s] => t = s
  BY <1>1, <1>2
<1> QED
  BY <1>3, <1>4, <1>5

\* What ReplayMatchesRows says of one user, post and type.
Replayed(u, p, t) ==
    \/ (\E e \in Events(u, p, t) : \A o \in Events(u, p, Reversal[t]) : o.at < e.at)
         <=> (<<u, p, t>> \in rows)
    \/ \E e, o \in Events(u, p, t) \cup Events(u, p, Reversal[t]) : Concurrent(e, o)

\* The action of one request says nothing of the other users, posts and types.
LEMMA ReplayedFrame ==
    ASSUME NEW u, NEW p, NEW t, Replayed(u, p, t),
           Events(u, p, t)' = Events(u, p, t),
           Events(u, p, Reversal[t])' = Events(u, p, Reversal[t]),
           (<<u, p, t>> \in rows') <=> (<<u, p, t>> \in rows)
    PROVE  Replayed(u, p, t)'
  BY DEF Replayed, Concurrent

\* A step that leaves the rows and the history leaves what they say.
LEMMA ReplayQuiet ==
    ASSUME ReplayMatchesRows, rows' = rows, history' = history
    PROVE  ReplayMatchesRows'
<1>1. SUFFICES ASSUME NEW u \in Users, NEW p \in Posts, NEW t \in Toggles
               PROVE  Replayed(u, p, t)'
  BY DEF ReplayMatchesRows, Replayed
<1>2. Replayed(u, p, t)
  BY DEF ReplayMatchesRows, Replayed
<1>3. /\ Events(u, p, t)' = Events(u, p, t)
      /\ Events(u, p, Reversal[t])' = Events(u, p, Reversal[t])
  BY DEF Events
<1> QED
  BY <1>2, <1>3, ReplayedFrame

\* The event of a toggle that changed its row is the latest of the user, the
\* post and the type, or it overlaps the transaction of an earlier one.
LEMMA ReplayToggle ==
    ASSUME RequestInv, NEW r \in Requests, Toggle(r), ReplayMatchesRows
    PROVE  ReplayMatchesRows'
<1>1. PICK op : op = req[r]
  OBVIOUS
<1>2. PICK u0, p0, t0 : u0 = op.user /\ p0 = op.post /\ t0 = op.type
  OBVIOUS
<1>3. u0 \in Users /\ p0 \in Posts /\ t0 \in Toggles /\ op.at \in Nat
  BY <1>1, <1>2, ToggleFacts
<1>4. op # Idle
  BY <1>1, Busy DEF Toggle
<1>5. clock \in Nat /\ op.at <= clock
  BY <1>1, <1>4 DEF RequestInv, TypeOK, StartsDiffer
<1>6. \A e \in history : /\ e.at \in Nat /\ e.done \in Nat /\ e.at <= e.done
                         /\ e.done <= clock /\ e.at # op.at
  BY <1>1, <1>4 DEF RequestInv, HistoryIsPast
<1>7. CASE rows' = rows /\ history' = history
  BY <1>7, ReplayQuiet
<1>8. ASSUME NEW a, a = t0 \/ a = Reversal[t0], RecordEvent(op, p0, a),
             a = t0 => rows' = rows \cup {<<u0, p0, t0>>},
             a # t0 => rows' = rows \ {<<u0, p0, t0>>}
      PROVE  ReplayMatchesRows'
  <2>1. PICK n : n = [at |-> op.at, done |-> clock, user |-> u0, post |-> p0,
                      action |-> a]
    OBVIOUS
  <2>2. /\ n.at = op.at /\ n.done = clock /\ n.user = u0 /\ n.post = p0
        /\ n.action = a
        /\ history' = history \cup {n}
    BY <1>2, <1>8, <2>1 DEF RecordEvent
  <2>3. SUFFICES ASSUME NEW u \in Users, NEW p \in Posts, NEW t \in Toggles
                 PROVE  Replayed(u, p, t)'
    BY DEF ReplayMatchesRows, Replayed
  <2>4. Replayed(u, p, t)
    BY DEF ReplayMatchesRows, Replayed
  <2>5. CASE <<u, p, t>> # <<u0, p0, t0>>
    <3>1. u = u0 /\ p = p0 => t # t0
      BY <2>5
    <3>2. u = u0 /\ p = p0 => a # t /\ a # Reversal[t]
      BY <1>3, <1>8, <3>1, Reversals
    <3>3. Events(u, p, t)' = Events(u, p, t)
      BY <2>2, <3>2 DEF Events
    <3>4. Events(u, p, Reversal[t])' = Events(u, p, Reversal[t])
      BY <2>2, <3>2 DEF Events
    <3>5. (<<u, p, t>> \in rows') <=> (<<u, p, t>> \in rows)
      BY <1>8, <2>5
    <3> QED
      BY <2>4, <3>3, <3>4, <3>5, ReplayedFrame
  <2>6. CASE u = u0 /\ p = p0 /\ t = t0
    <3>1. PICK acts, undone : /\ acts = Events(u0, p0, t0)
                              /\ undone = Events(u0, p0, Reversal[t0])
      OBVIOUS
    <3>2. acts \subseteq history /\ undone \subseteq history
      BY <3>1 DEF Events
    <3>3. t0 # Reversal[t0]
      BY <1>3, Reversals
    <3>4. CASE \E e \in acts \cup undone : e.done >= op.at
      <4>1. PICK e \in acts \cup undone : e.done >= op.at
        BY <3>4
      <4>2. Concurrent(e, n)
        BY <1>5, <1>6, <2>2, <3>2, <4>1 DEF Concurrent
      <4>3. /\ e \in Events(u0, p0, t0)' \cup Events(u0, p0, Reversal[t0])'
            /\ n \in Events(u0, p0, t0)' \cup Events(u0, p0, Reversal[t0])'
        BY <1>8, <2>2, <3>1, <4>1 DEF Events
      <4> QED
        BY <2>6, <4>2, <4>3 DEF Replayed, Concurrent
    <3>5. CASE \A e \in acts \cup undone : e.done < op.at
      <4>1. \A e \in acts \cup undone : e.at < n.at
        BY <1>3, <1>6, <2>2, <3>2, <3>5
      <4>2. CASE a = t0
        <5>1. n \in Events(u0, p0, t0)'
          BY <2>2, <4>2 DEF Events
        <5>2. Events(u0, p0, Reversal[t0])' = undone
          BY <2>2, <3>1, <3>3, <4>2 DEF Events
        <5>3. <<u0, p0, t0>> \in rows'
          BY <1>8, <4>2
        <5> QED
          BY <2>6, <4>1, <5>1, <5>2, <5>3 DEF Replayed
      <4>3. CASE a = Reversal[t0]
        <5>1. n \in Events(u0, p0, Reversal[t0])'
          BY <2>2, <4>3 DEF Events
        <5>2. Events(u0, p0, t0)' = acts
          BY <2>2, <3>1, <3>3, <4>3 DEF Events
        <5>3. <<u0, p0, t0>> \notin rows'
          BY <1>8, <3>3, <4>3
        <5>4. \A e \in acts : ~(n.at < e.at)
          BY <1>3, <1>6, <2>2, <3>2, <4>1
        <5> QED
          BY <2>6, <5>1, <5>2, <5>3, <5>4 DEF Replayed
      <4> QED
        BY <1>8, <4>2, <4>3
    <3>6. \A e \in acts \cup undone : e.done >= op.at \/ e.done < op.at
      BY <1>3, <1>6, <3>2
    <3> QED
      BY <3>4, <3>5, <3>6
  <2> QED
    BY <2>5, <2>6
<1>9. t0 # Reversal[t0]
  BY <1>3, Reversals
<1> QED
  BY <1>1, <1>2, <1>7, <1>8, <1>9, ToggleFacts

\* A report or a comment is no action of a toggle and no reversal of one.
LEMMA ReplayOther ==
    ASSUME ReplayMatchesRows, NEW r \in Requests, NEW p0, NEW a \in {"report", "comment"},
           RecordEvent(req[r], p0, a),
           rows' = rows \/ \E u, p : rows' = rows \cup {<<u, p, "report">>}
    PROVE  ReplayMatchesRows'
<1>1. SUFFICES ASSUME NEW u \in Users, NEW p \in Posts, NEW t \in Toggles
               PROVE  Replayed(u, p, t)'
  BY DEF ReplayMatchesRows, Replayed
<1>2. t # a /\ Reversal[t] # a /\ t # "report"
  BY Reversals
<1>3. \A e : e \in history' /\ e.action # a => e \in history
  BY DEF RecordEvent
<1>4. history \subseteq history'
  BY DEF RecordEvent
<1>5. /\ Events(u, p, t)' = Events(u, p, t)
      /\ Events(u, p, Reversal[t])' = Events(u, p, Reversal[t])
  BY <1>2, <1>3, <1>4 DEF Events
<1>6. (<<u, p, t>> \in rows') <=> (<<u, p, t>> \in rows)
  BY <1>2
<1>7. Replayed(u, p, t)
  BY DEF ReplayMatchesRows, Replayed
<1> QED
  BY <1>5, <1>6, <1>7, ReplayedFrame

\* Every step keeps what the history says of the rows.
LEMMA ReplayNext == RequestInv /\ ReplayMatchesRows /\ [Next]_vars => ReplayMatchesRows'
<1> SUFFICES ASSUME RequestInv, ReplayMatchesRows, [Next]_vars
             PROVE  ReplayMatchesRows'
  OBVIOUS
<1>1. ASSUME rows' = rows, history' = history PROVE ReplayMatchesRows'
  BY <1>1, ReplayQuiet
<1>2. ASSUME NEW r \in Requests, Begin(r) PROVE ReplayMatchesRows'
  BY <1>1, <1>2 DEF Begin
<1>3. ASSUME NEW r \in Requests, Abort(r) PROVE ReplayMatchesRows'
  BY <1>1, <1>3 DEF Abort
<1>4. ASSUME NEW r \in Requests, Toggle(r) PROVE ReplayMatchesRows'
  BY <1>4, ReplayToggle
<1>5. ASSUME NEW r \in Requests, Report(r) PROVE ReplayMatchesRows'
  <2>1. /\ RecordEvent(req[r], req[r].post, "report")
        /\ rows' = rows \cup {<<req[r].user, req[r].post, "report">>}
    BY <1>5 DEF Report
  <2> QED
    BY <2>1, ReplayOther
<1>6. ASSUME NEW r \in Requests, ReadComment(r) PROVE ReplayMatchesRows'
  BY <1>1, <1>6 DEF ReadComment
<1>7. ASSUME NEW r \in Requests, DeleteComment(r) PROVE ReplayMatchesRows'
  BY <1>1, <1>7 DEF DeleteComment
<1>8. ASSUME NEW r \in Requests, NEW c \in Comments, CreateComment(r, c)
      PROVE  ReplayMatchesRows'
  <2>1. RecordEvent(req[r], req[r].post, "comment") /\ rows' = rows
    BY <1>8 DEF CreateComment
  <2> QED
    BY <2>1, ReplayOther
<1>9. ASSUME NEW u \in Users, NEW p \in Posts, ResolveReport(u, p)
      PROVE  ReplayMatchesRows'
  BY <1>1, <1>9 DEF ResolveReport
<1>10. CASE UNCHANGED vars
  BY <1>1, <1>10 DEF vars
<1> QED
  BY <1>2, <1>3, <1>4, <1>5, <1>6, <1>7, <1>8, <1>9, <1>10 DEF Next

\* Replayed in the order of occurred_at, the history of a user on a post ends
\* with the action exactly when its row is stored, unless two of the requests
\* overlapped: the only way in which the start of a transaction, used as the
\* time of its event, can mislead build_preference_vector_v2.
THEOREM InteractionsReplayMatchesRows == Spec => []ReplayMatchesRows
<1>1. Init => ReplayMatchesRows
  <2>1. ASSUME Init, NEW u, NEW p, NEW a
        PROVE  \A e : e \notin Events(u, p, a)
    BY <2>1 DEF Init, Events
  <2>2. ASSUME Init, NEW u, NEW p, NEW t PROVE <<u, p, t>> \notin rows
    BY <2>2 DEF Init
  <2> QED
    BY <2>1, <2>2 DEF ReplayMatchesRows
<1> QED
  BY <1>1, RequestInit, RequestNext, ReplayNext, PTL DEF Spec
=============================================================================
