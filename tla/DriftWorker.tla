------------------------------ MODULE DriftWorker ------------------------------
(***************************************************************************)
(* clock_drift_worker.py: a thread that fits a drift to the samples of     *)
(* minutes, which takes too long for the thread that receives them.  Its   *)
(* queue holds one request; a request that finds it full throws the old    *)
(* one out, in three calls that the worker can come between.               *)
(***************************************************************************)
EXTENDS Integers, Sequences, FiniteSetsExt

CONSTANT None

Requests == [number : Nat, epoch : Nat, at : Nat, long : BOOLEAN]
Stop == [number |-> None]       \* the item that ends the thread

\* None is no number, no request and not what ends the thread.
ASSUME NoneAssumption == None \notin Nat \cup Requests \cup {Stop}

VARIABLES
    queue,          \* _requests: None, a request, or Stop
    calls,          \* submit and close calls in progress: what is put, and the next step
    taken,          \* the request that is being fitted
    results,        \* _results
    submitted,      \* _submitted_generation
    completed,      \* _completed_generation
    closed,         \* _closed
    ended,          \* the thread has returned
    broken          \* a call has raised queue.Full

workerVars == <<queue, calls, taken, results, submitted, completed, closed, ended, broken>>

FreshWorker ==
    /\ queue = None /\ calls = {} /\ taken = None /\ results = <<>>
    /\ submitted = 0 /\ completed = 0 /\ closed = FALSE /\ ended = FALSE /\ broken = FALSE

NewWorker ==
    /\ queue' = None /\ calls' = {} /\ taken' = None /\ results' = <<>>
    /\ submitted' = 0 /\ completed' = 0 /\ closed' = FALSE /\ ended' = FALSE /\ broken' = FALSE

Pending == completed < submitted

-----------------------------------------------------------------------------
(* Calls.                                                                  *)

\* Mutant: a submission takes the number of the one before it.
SubmitSameNumber(request) ==
    /\ results' = <<>>
    /\ submitted' = Max({1, submitted})
    /\ calls' = calls \cup {[put |-> [request EXCEPT !.number = Max({1, submitted})],
                             step |-> "put"]}
    /\ UNCHANGED <<queue, taken, completed, closed, ended, broken>>

\* poll_results, then submit up to the queue.
Submit(request) ==
    /\ results' = <<>>
    /\ submitted' = submitted + 1
    /\ calls' = calls \cup {[put |-> [request EXCEPT !.number = submitted + 1], step |-> "put"]}
    /\ UNCHANGED <<queue, taken, completed, closed, ended, broken>>

Poll ==
    /\ results' = <<>>
    /\ UNCHANGED <<queue, calls, taken, submitted, completed, closed, ended, broken>>

\* Mutant: a close that leaves it to the flag.
CloseBeginFlagOnly ==
    /\ ~closed /\ closed' = TRUE
    /\ UNCHANGED <<queue, calls, taken, results, submitted, completed, ended, broken>>

\* close, up to the queue.
CloseBegin ==
    /\ ~closed /\ closed' = TRUE
    /\ calls' = calls \cup {[put |-> Stop, step |-> "put"]}
    /\ UNCHANGED <<queue, taken, results, submitted, completed, ended, broken>>

Moved(c, step) == (calls \ {c}) \cup {[c EXCEPT !.step = step]}

\* put_nowait: the first time a full queue is no error.
Put(c) ==
    /\ c.step \in {"put", "again"}
    /\ IF queue = None
       THEN queue' = c.put /\ calls' = calls \ {c} /\ UNCHANGED broken
       ELSE /\ UNCHANGED queue
            /\ calls' = IF c.step = "put" THEN Moved(c, "evict") ELSE calls \ {c}
            /\ broken' = (broken \/ c.step = "again")
    /\ UNCHANGED <<taken, results, submitted, completed, closed, ended>>

\* get_nowait: the worker may have been faster.
Evict(c) ==
    /\ c.step = "evict"
    /\ queue' = None /\ calls' = Moved(c, "again")
    /\ UNCHANGED <<taken, results, submitted, completed, closed, ended, broken>>

CallStep == \E c \in calls : Put(c) \/ Evict(c)

-----------------------------------------------------------------------------
(* The thread.                                                             *)

Take ==
    /\ ~ended /\ taken = None /\ queue # None
    /\ queue' = None
    /\ IF queue = Stop THEN ended' = TRUE /\ UNCHANGED taken
       ELSE taken' = queue /\ UNCHANGED ended
    /\ UNCHANGED <<calls, results, submitted, completed, closed, broken>>

\* The solver returns a fit, or nothing when it fails.
Solve(fit) ==
    /\ taken # None
    /\ results' = Append(results, [number |-> taken.number, epoch |-> taken.epoch,
                                   at |-> taken.at, long |-> taken.long, fit |-> fit])
    /\ completed' = Max({completed, taken.number}) /\ taken' = None
    /\ UNCHANGED <<queue, calls, submitted, closed, ended, broken>>

-----------------------------------------------------------------------------
Number(item) == IF item = None THEN None ELSE item.number

Mail == INSTANCE Mailbox WITH
    Nobody <- None, waiting <- Number(queue), hand <- Number(taken),
    answers <- [i \in DOMAIN results |-> results[i].number]
=============================================================================
