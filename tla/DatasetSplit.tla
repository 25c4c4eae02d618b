---------------------------- MODULE DatasetSplit ----------------------------
(***************************************************************************)
(* The chronological splits of ai_pipeline/build_dataset.py: _split_rows   *)
(* of dataset v1 and _split_ranking_rows of dataset v2.  A dataset is the  *)
(* sequence of the times of its requests, in the order of those times, and *)
(* grows by one request at a time.                                         *)
(***************************************************************************)
EXTENDS Integers, Sequences

CONSTANTS
    MaxRequests,        \* bound on the dataset
    TrainPercent,       \* train_fraction
    ValidationPercent   \* validation_fraction

ASSUME SplitAssumption ==
    /\ MaxRequests \in Nat
    /\ TrainPercent \in 1..99 /\ ValidationPercent \in 1..99
    /\ TrainPercent + ValidationPercent < 100

VARIABLE times     \* the times of the requests, rising
splitVars == <<times>>

SplitInit == times = <<>>

\* Only whether two times are equal matters.
ServeRequest ==
    /\ Len(times) < MaxRequests
    /\ \E gap \in {0, 1} :
         times' = Append(times, IF times = <<>> THEN 1
                                ELSE times[Len(times)] + gap)

SplitSpec == SplitInit /\ [][ServeRequest]_splitVars

\* Python's round, of a number of hundredths: half to even.
Round(hundredths) ==
    LET whole == hundredths \div 100
        rest == hundredths % 100
    IN IF rest > 50 \/ (rest = 50 /\ whole % 2 = 1) THEN whole + 1 ELSE whole

AtLeast(low, n) == IF n < low THEN low ELSE n

\* The number of test and validation requests, before boundaries move.  The
\* test fraction, 1 - train - validation in floating point, is a little more
\* than the decimal one: its halves go up.
TestCount(n) == AtLeast(1, (n * (100 - TrainPercent - ValidationPercent) + 50) \div 100)

ValidationCount(n) ==
    LET wanted == IF n >= 3 THEN AtLeast(1, Round(n * ValidationPercent)) ELSE 0
    IN IF TestCount(n) + wanted >= n THEN AtLeast(0, n - TestCount(n) - 1) ELSE wanted

\* A boundary lies after the b-th request.  Nearest boundaries that part no two
\* requests of one time.
Clean(b) == b <= 0 \/ b >= Len(times) \/ times[b] # times[b + 1]

Down(b) == CHOOSE c \in 0..b : Clean(c) /\ \A d \in c + 1..b : ~Clean(d)
Up(b) == CHOOSE c \in b..Len(times) : Clean(c) /\ \A d \in b..c - 1 : ~Clean(d)

\* _split_rows: boundaries only move down, validation not below train.
SplitV1 ==
    LET n == Len(times)
        train == Down(n - ValidationCount(n) - TestCount(n))
        cut == n - TestCount(n)
        low == CHOOSE c \in train..cut :
                 /\ c = train \/ Clean(c)
                 /\ \A d \in c + 1..cut : ~Clean(d)
    IN IF n <= 1 THEN [train |-> n, validation |-> n]
       ELSE [train |-> train, validation |-> low]

\* _snap_split_boundary: down or up, rather with both sides populated, then
\* with the preferred side populated, then the nearer, then the lower.
Snap(b, left) ==
    LET low == Down(b)
        high == Up(b)
        sides(c) == (IF c > 0 THEN 1 ELSE 0) + (IF c < Len(times) THEN 1 ELSE 0)
        wanted(c) == IF left THEN c > 0 ELSE c < Len(times)
    IN IF b <= 0 THEN 0
       ELSE IF sides(low) # sides(high)
       THEN IF sides(low) > sides(high) THEN low ELSE high
       ELSE IF wanted(low) # wanted(high)
       THEN IF wanted(low) THEN low ELSE high
       ELSE IF b - low <= high - b THEN low ELSE high

\* The snapping of the validation boundary is forgotten.
MUT_SplitV2 ==
    LET n == Len(times)
        train == Snap(n - ValidationCount(n) - TestCount(n), TRUE)
    IN IF n <= 1 THEN [train |-> n, validation |-> n]
       ELSE [train |-> train, validation |-> AtLeast(train, n - TestCount(n))]

\* _split_ranking_rows
SplitV2 ==
    LET n == Len(times)
        train == Snap(n - ValidationCount(n) - TestCount(n), TRUE)
        validation == Snap(n - TestCount(n), FALSE)
    IN IF n <= 1 THEN [train |-> n, validation |-> n]
       ELSE [train |-> train, validation |-> AtLeast(train, validation)]

(***************************************************************************)
(* Properties                                                              *)
(***************************************************************************)

\* No request of a later split is as old as one of an earlier split, so nothing
\* that is tuned or tested on was known at training time; and no split is given
\* up for it: dataset v1 always keeps a test split, and requests of two times at
\* least leave dataset v2 something to train on and something to test on.
NothingFromTheFuture ==
    /\ \A s \in {SplitV1, SplitV2} :
         /\ 0 <= s.train /\ s.train <= s.validation /\ s.validation <= Len(times)
         /\ Clean(s.train) /\ Clean(s.validation)
    /\ Len(times) >= 2 => SplitV1.validation < Len(times)
    /\ Len(times) >= 2 /\ times[1] # times[Len(times)] =>
         SplitV2.train > 0 /\ SplitV2.validation < Len(times)
=============================================================================
