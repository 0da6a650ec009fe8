------------------------------- MODULE Estimator -------------------------------
(***************************************************************************)
(* The estimators of clock offset and drift (clock_estimator.py, and       *)
(* clock_estimator_hybrid.py, which differs from it in the numbers of a    *)
(* fit; clock_estimator_v3.py), the facade that exchanges one for another  *)
(* (clock_strategy.py) and the worker that fits the drift.                 *)
(*                                                                         *)
(* A sample is the time of its source clock, whether its target clock went *)
(* back, and whether it fits the transform in use.  What the numbers come  *)
(* to is chosen: a drift fit is within the bounds of a lock or "weak"      *)
(* (uncertain, without consensus, or none at all), an offset fit is "none" *)
(* (too few candidates), "poor" or "good".                                 *)
(***************************************************************************)
EXTENDS DriftWorker, SequencesExt

CONSTANTS
    Rollback,       \* CLOCK_ROLLBACK_RESET_US
    DriftUpdate,    \* DRIFT_UPDATE_US
    LockSpan,       \* MIN_LOCK_SPAN_US
    JumpCount,      \* CLOCK_JUMP_CONSECUTIVE_SAMPLES
    Confirm,        \* LOCK_CONFIRM_UPDATES
    MinSamples,     \* MIN_OFFSET_SAMPLES and MIN_CONSENSUS_SAMPLES
    MaxTime, MaxEpoch, MaxRevision      \* bounds of the model

ASSUME EstimatorAssumption ==
    /\ {Rollback, DriftUpdate, LockSpan} \subseteq Nat
    /\ {JumpCount, Confirm, MinSamples, MaxTime, MaxEpoch, MaxRevision} \subseteq Nat \ {0}
    /\ None \notin [updated : BOOLEAN]

Strategies == {"v3", "v4"}
Qualities == {"weak", "lock"}
Outcomes == {"none", "poor", "good"}

VARIABLES
    e,              \* the estimator
    base,           \* _revision_base of the facade
    adding          \* an _add_sample that has submitted a request: was the drift updated?

vars == <<e, base, adding, workerVars>>

\* The bounds of the model on a step.
Bounded == e'.rev + base' <= MaxRevision /\ e'.epoch <= MaxEpoch

NoTransform(epoch, rev) == [usable |-> FALSE, locked |-> FALSE, epoch |-> epoch, rev |-> rev]
NoFit == [quality |-> "weak", epoch |-> None]

Fresh(strategy, epoch, rev) ==
    [strategy |-> strategy, epoch |-> epoch, rev |-> rev,
     transform |-> NoTransform(epoch, rev),
     state |-> "acquiring", shown |-> rev,      \* of the snapshot
     fit |-> NoFit, long |-> FALSE,             \* _joint_fit; do its samples span LockSpan?
     healthy |-> 0, bad |-> 0, count |-> 0,
     first |-> None, newest |-> None, requestAt |-> None, fitAt |-> None]

\* _reset_locked
ResetOf(x) == Fresh(x.strategy, x.epoch + 1, x.rev + 1)

Min2(a, b) == IF a < b THEN a ELSE b
Max2(a, b) == IF a > b THEN a ELSE b

\* _append_model_sample_locked; the window is longer than a run of the model.
Appended(x, t) ==
    [x EXCEPT !.count = Min2(MinSamples, @ + 1),
              !.first = IF @ = None THEN t ELSE Min2(@, t),
              !.newest = IF @ = None THEN t ELSE Max2(@, t)]

RolledBack(x, s) == x.newest # None /\ (s.back \/ s.t < x.newest - Rollback)

\* A V3 estimator guards what is usable, the others what is locked.
Guarded(x) == IF x.strategy = "v3" THEN x.transform.usable ELSE x.transform.locked

\* The samples of a jump follow each other by less than the model's unit of time.
Restarted(x, t) ==
    [Appended(ResetOf(x), t) EXCEPT !.count = Min2(MinSamples, JumpCount)]

\* _add_sample up to the fits: the estimator and whether the sample is used for them.
Sampled(s) ==
    LET x == IF RolledBack(e, s) THEN ResetOf(e) ELSE e
    IN  IF ~Guarded(x) \/ s.fits
        THEN [used |-> TRUE, e |-> Appended([x EXCEPT !.bad = 0], s.t)]
        ELSE IF x.bad + 1 < JumpCount
             THEN [used |-> FALSE, e |-> [x EXCEPT !.bad = @ + 1]]
             ELSE [used |-> TRUE, e |-> Restarted(x, s.t)]

Long(x) == x.newest - x.first >= LockSpan
DriftDue(x, last) == last # None => x.newest - last >= DriftUpdate

-----------------------------------------------------------------------------
(* The V4 estimator.                                                       *)

\* Mutant: fits of an earlier epoch count.
ConsumedOfAnyEpoch(x) ==
    FoldLeft(LAMBDA y, r : [y EXCEPT !.fit = [quality |-> r.fit, epoch |-> r.epoch],
                                     !.long = r.long, !.fitAt = r.at],
             x, results)

\* _consume_drift_results_locked; Updates says if one of them counts.
Counts(x, r) == r.epoch = x.epoch /\ (x.fitAt = None \/ r.at >= x.fitAt)
Consumed(x) ==
    FoldLeft(LAMBDA y, r :
                 IF Counts(y, r)
                 THEN [y EXCEPT !.fit = [quality |-> r.fit, epoch |-> r.epoch],
                                !.long = r.long, !.fitAt = r.at]
                 ELSE y,
             x, results)
Updates(x) == \E i \in DOMAIN results : Counts(x, results[i])

Eligible(x) == x.fit.quality = "lock" /\ x.long

\* _drift_state_locked
Streak(x, updated) ==
    IF ~updated THEN x ELSE [x EXCEPT !.healthy = IF Eligible(x) THEN Min2(Confirm, @ + 1) ELSE 0]
DriftLocked(x) == Eligible(x) /\ x.healthy >= Confirm

Published(x, locked) ==
    [x EXCEPT !.rev = @ + 1,
              !.transform = [usable |-> TRUE, locked |-> locked,
                             epoch |-> x.epoch, rev |-> x.rev + 1]]

\* Mutant: a transform that is not locked is published in holdover as well.
OffsetFittedNoHoldover(x, updated, outcome) ==
    LET y == Streak(x, updated)
        locked == outcome = "good" /\ DriftLocked(y)
        z == IF outcome = "good" THEN Published(y, locked) ELSE y
        state == IF locked THEN "locked" ELSE IF outcome = "good" THEN "provisional" ELSE "acquiring"
    IN  IF outcome = "none" THEN y ELSE [z EXCEPT !.state = state, !.shown = z.transform.rev]

\* _fit_offset_locked
OffsetFitted(x, updated, outcome) ==
    LET y == Streak(x, updated)
        locked == outcome = "good" /\ DriftLocked(y)
        holding == y.transform.locked /\ ~locked
        z == IF outcome = "good" /\ ~holding THEN Published(y, locked) ELSE y
        state == IF holding THEN "degraded"
                 ELSE IF locked THEN "locked"
                 ELSE IF outcome = "good" THEN "provisional" ELSE "acquiring"
    IN  IF outcome = "none" THEN y ELSE [z EXCEPT !.state = state, !.shown = z.transform.rev]

CanFit(x, outcome) == outcome # "none" => x.count >= MinSamples

Request(x) == [number |-> 0, epoch |-> x.epoch, at |-> x.newest, long |-> Long(x)]

\* _add_sample of an estimator with a background worker, up to the submission.
AddV4(s) ==
    LET sampled == Sampled(s)
        consumed == Consumed(sampled.e)
    IN  /\ e.strategy = "v4"
        /\ \/ ~sampled.used /\ e' = sampled.e /\ UNCHANGED <<adding, workerVars>>
           \/ /\ sampled.used /\ DriftDue(consumed, consumed.requestAt)
              /\ e' = [consumed EXCEPT !.requestAt = consumed.newest,
                                       !.long = Long(consumed)]
              /\ adding' = [updated |-> Updates(sampled.e)]
              /\ Submit(Request(consumed))
           \/ /\ sampled.used /\ ~DriftDue(consumed, consumed.requestAt)
              /\ \E outcome \in Outcomes :
                    /\ CanFit(consumed, outcome)
                    /\ e' = OffsetFitted(consumed, Updates(sampled.e), outcome)
              /\ Poll /\ UNCHANGED adding
        /\ UNCHANGED base

\* The rest of it; the lock has been held, only the worker could move.
AddEnd ==
    /\ adding # None /\ calls = {}
    /\ \E outcome \in Outcomes :
          /\ CanFit(e, outcome)
          /\ e' = OffsetFitted(Consumed(e), Updates(e) \/ adding.updated, outcome)
    /\ adding' = None
    /\ Poll /\ UNCHANGED base /\ Bounded

-----------------------------------------------------------------------------
(* The V3 estimator fits both in line.                                     *)

\* _fit_drift_locked and _fit_offset_locked.
\* admitted: accepted, over a long enough span, and close to the transform in use.
FittedV3(x, updated, outcome, admitted) ==
    LET y == IF ~updated THEN x
             ELSE [x EXCEPT !.healthy = IF admitted THEN Min2(Confirm, @ + 1) ELSE 0]
        confirmed == y.healthy >= Confirm
        held == y.state \in {"locked", "degraded"}
        state == IF held /\ ~updated THEN y.state
                 ELSE IF held /\ (~admitted \/ (y.state = "degraded" /\ ~confirmed)) THEN "degraded"
                 ELSE IF held \/ (admitted /\ confirmed) THEN "locked"
                 ELSE IF outcome = "good" THEN "provisional" ELSE "acquiring"
        publishes == state = "provisional" \/ (state = "locked" /\ (updated \/ ~held))
        z == IF publishes THEN Published(y, state = "locked") ELSE y
    IN  [z EXCEPT !.state = state, !.shown = z.transform.rev]

AddV3(s) ==
    LET sampled == Sampled(s)
        x == sampled.e
        due == DriftDue(x, x.fitAt)
    IN  /\ e.strategy = "v3"
        /\ \/ ~sampled.used /\ e' = x
           \/ /\ sampled.used
              /\ \E outcome \in {"poor", "good"}, admitted \in BOOLEAN :
                    /\ CanFit(x, IF outcome = "good" THEN "good" ELSE "none")
                    /\ admitted => outcome = "good" /\ Long(x)
                    /\ e' = FittedV3([x EXCEPT !.fitAt = IF due THEN x.newest ELSE @],
                                     due, outcome, admitted)
        /\ UNCHANGED <<base, adding, workerVars>>

-----------------------------------------------------------------------------
Free == adding = None /\ calls = {}

\* No samples come after Close: the receiver ends the session of the clock client first.
Add(s) == Free /\ ~closed /\ (AddV3(s) \/ AddV4(s)) /\ Bounded

Reset == Free /\ ~closed /\ e' = ResetOf(e) /\ UNCHANGED <<base, adding, workerVars>> /\ Bounded

\* switch_strategy and restart_estimation: a new estimator with a worker of its own,
\* in the epoch of the old one.  The old worker is closed, as in Close.
ReplaceBy(strategy) ==
    /\ Free /\ ~closed
    /\ e' = Fresh(strategy, e.epoch, 0)
    /\ base' = base + e.transform.rev + 1
    /\ NewWorker /\ UNCHANGED adding /\ Bounded

\* Mutant: a close that does not wait for the lock of the facade.
CloseUnlocked == CloseBegin /\ UNCHANGED <<e, base, adding>>

Close == Free /\ CloseBegin /\ UNCHANGED <<e, base, adding>>

WorkerStep ==
    /\ CallStep \/ Take \/ \E q \in Qualities : Solve(q)
    /\ UNCHANGED <<e, base, adding>>

Init ==
    /\ \E strategy \in Strategies : e = Fresh(strategy, 1, 0)
    /\ base = 0 /\ adding = None /\ FreshWorker

Samples == [t : 1..MaxTime, back : BOOLEAN, fits : BOOLEAN]

Next ==
    \/ \E s \in Samples : Add(s)
    \/ AddEnd
    \/ Reset
    \/ \E strategy \in Strategies : ReplaceBy(strategy)
    \/ Close
    \/ WorkerStep

\* The worker's thread is scheduled, its solver ends, and calls are not abandoned.
Fairness ==
    /\ WF_vars(CallStep /\ UNCHANGED <<e, base, adding>>)
    /\ WF_vars(Take /\ UNCHANGED <<e, base, adding>>)
    /\ WF_vars(\E q \in Qualities : Solve(q) /\ UNCHANGED <<e, base, adding>>)

Spec == Init /\ [][Next]_vars /\ Fairness

(* Properties.                                                             *)

\* Every variable has its type; the jump counter stays below its limit.
TypeOK ==
    /\ e.strategy \in Strategies /\ e.epoch \in 1..MaxEpoch /\ e.rev \in 0..MaxRevision
    /\ e.transform \in [usable : BOOLEAN, locked : BOOLEAN, epoch : 1..MaxEpoch,
                        rev : 0..MaxRevision]
    /\ e.state \in {"acquiring", "provisional", "locked", "degraded"}
    /\ e.shown \in 0..MaxRevision /\ e.long \in BOOLEAN
    /\ e.fit \in [quality : Qualities, epoch : (1..MaxEpoch) \cup {None}]
    /\ e.healthy \in 0..Confirm /\ e.bad \in 0..(JumpCount - 1) /\ e.count \in 0..MinSamples
    /\ {e.first, e.newest, e.requestAt, e.fitAt} \subseteq (1..MaxTime) \cup {None}
    /\ base \in 0..MaxRevision
    /\ adding = None \/ adding \in [updated : BOOLEAN]
    /\ Cardinality(calls) <= 1 /\ Len(results) <= submitted /\ completed <= submitted

\* The drift in use was fitted to samples of the present epoch: a fit that was under
\* way at a reset of the clock is not taken for one of the new epoch.
FitOfThisEpoch == e.fit.epoch \in {None, e.epoch} /\ e.transform.epoch = e.epoch

\* The state that is displayed and the transform that is used for mapping agree:
\* locked or in holdover exactly when the transform is locked, provisional only with
\* a usable one, and the revision shown is the transform's.
StateNamesTransform ==
    /\ e.state \in {"locked", "degraded"} <=> e.transform.locked
    /\ e.state = "provisional" => e.transform.usable
    /\ e.transform.locked => e.transform.usable
    /\ e.shown = e.transform.rev

\* What a reader of the estimator finds whenever it holds the lock.
FitSound == TypeOK /\ FitOfThisEpoch /\ StateNamesTransform

\* No submission and no close raises queue.Full.
NeverFull == ~broken

\* A transform that was locked is followed, within its epoch, by locked transforms
\* only: fits that are worse leave it in holdover.
LockIsKept ==
    [][e.transform.locked /\ e'.epoch = e.epoch /\ base' = base => e'.transform.locked]_vars

\* A consumer that compares revisions sees every change of the transform, across
\* resets, changes of strategy and reconnects.
Revision == base + e.transform.rev
RevisionNamesTransform ==
    [][/\ Revision' >= Revision
       /\ e'.transform # e.transform => Revision' > Revision]_vars

\* What is mapped with a transform, and what is cached from it, follows it.
TransformsFollow == LockIsKept /\ RevisionNamesTransform

\* What was submitted is fitted, or what followed it is.
PendingEnds == Pending ~> (~Pending \/ closed)

\* The thread of an estimator that was closed ends.
WorkerEnds == closed ~> ended

\* The worker answers, and ends when it is told to.
WorkerServes == PendingEnds /\ WorkerEnds

\* What the worker promises to the estimator.
IsAMailbox == Mail!MailSpec

================================================================================
