---------------------------- MODULE EstimatorProofs ----------------------------
(***************************************************************************)
(* What the estimators keep and how their worker serves them, for any      *)
(* limits of a lock, any times of the samples and any interleaving of the  *)
(* worker's thread with the calls that reach its queue.                    *)
(***************************************************************************)
EXTENDS Estimator, FoldLemmas, SequenceTheorems

-----------------------------------------------------------------------------
(* The worker.                                                             *)

Asked == {r \in Requests : r.at \in 1..MaxTime}
Answers == [number : Nat, epoch : Nat, at : 1..MaxTime, long : BOOLEAN, fit : Qualities]
Calls == [put : Asked \cup {Stop}, step : {"put", "evict", "again"}]

WorkerTypes ==
    /\ queue \in Asked \cup {Stop, None} /\ taken \in Asked \cup {None}
    /\ results \in Seq(Answers)
    /\ submitted \in Nat /\ completed \in Nat /\ completed <= submitted

\* The lock of the estimator lets one call at a time reach the queue, and what it
\* has thrown out has left room: the worker only takes.
OneCall ==
    \/ calls = {}
    \/ \E c \in Calls : calls = {c} /\ (c.step = "again" => queue = None)

\* A request that is not yet in the queue has the greatest number.
NumbersGrow ==
    /\ queue \in Asked => queue.number <= submitted
    /\ taken \in Asked => taken.number <= submitted
    /\ \A c \in calls : c.put \in Asked =>
          /\ c.put.number = submitted
          /\ queue \in Asked => queue.number < submitted
          /\ taken \in Asked => taken.number < submitted
          /\ \A i \in DOMAIN results : results[i].number < submitted

\* No request is answered twice.
InHand == IF taken \in Asked THEN 1 ELSE 0
Waiting == IF queue \in Asked THEN 1 ELSE 0
Coming == IF \E c \in calls : c.put \in Asked THEN 1 ELSE 0
EachOnce == Len(results) + InHand + Waiting + Coming <= submitted

WorkerInv == WorkerTypes /\ OneCall /\ NumbersGrow /\ EachOnce /\ ~broken

\* None, the end and the requests are told apart.
LEMMA ItemFacts == None \notin Asked /\ Stop \notin Asked /\ Stop # None /\ None \notin Nat
<1>1. None \notin Nat \cup Requests \cup {Stop}
  BY NoneAssumption
<1>2. \A r \in Requests : r.number \in Nat
  BY DEF Requests
<1>3. QED
  BY <1>1, <1>2 DEF Asked, Stop

LEMMA MaxOfTwo ==
  ASSUME NEW a \in Nat, NEW b \in Nat
  PROVE  Max({a, b}) \in Nat /\ Max({a, b}) \in {a, b}
<1>1. \E x \in {a, b} : \A y \in {a, b} : x >= y
  OBVIOUS
<1>2. QED
  BY <1>1 DEF Max

\* A worker that begins.
LEMMA FreshEstablishes == FreshWorker => WorkerInv
<1> SUFFICES ASSUME FreshWorker PROVE WorkerInv
  OBVIOUS
<1>1. queue = None /\ calls = {} /\ taken = None /\ results = <<>> /\ submitted = 0
      /\ completed = 0 /\ broken = FALSE
  BY DEF FreshWorker
<1>2. WorkerTypes
  BY <1>1 DEF WorkerTypes
<1>3. QED
  BY <1>1, <1>2, ItemFacts DEF WorkerInv, OneCall, NumbersGrow, EachOnce, InHand, Waiting, Coming

LEMMA NewPreserves == NewWorker => WorkerInv'
<1> SUFFICES ASSUME NewWorker PROVE WorkerInv'
  OBVIOUS
<1>1. queue' = None /\ calls' = {} /\ taken' = None /\ results' = <<>> /\ submitted' = 0
      /\ completed' = 0 /\ broken' = FALSE
  BY DEF NewWorker
<1>2. WorkerTypes'
  BY <1>1 DEF WorkerTypes
<1>3. QED
  BY <1>1, <1>2, ItemFacts DEF WorkerInv, OneCall, NumbersGrow, EachOnce, InHand, Waiting, Coming

\* A request is made when no other call is under way.
LEMMA SubmitPreserves ==
  ASSUME WorkerInv, calls = {}, NEW r \in Asked, Submit(r)
  PROVE  WorkerInv'
<1> DEFINE put == [r EXCEPT !.number = submitted + 1]
           c == [put |-> put, step |-> "put"]
<1>1. /\ calls' = {c} /\ results' = <<>> /\ submitted' = submitted + 1
      /\ UNCHANGED <<queue, taken, completed, closed, ended, broken>>
  BY DEF Submit
<1>2. submitted \in Nat
  BY DEF WorkerInv, WorkerTypes
<1>3. put \in Asked /\ put.number = submitted + 1
  BY <1>2 DEF Asked, Requests
<1> HIDE DEF put
<1>4. c \in Calls
  BY <1>3 DEF Calls
<1>5. WorkerTypes'
  BY <1>1 DEF WorkerInv, WorkerTypes
<1>6. OneCall'
  BY <1>1, <1>4 DEF OneCall
<1>7. NumbersGrow'
  <2>1. queue \in Asked => queue.number \in Nat /\ queue.number <= submitted
    BY DEF WorkerInv, NumbersGrow, Asked, Requests
  <2>2. taken \in Asked => taken.number \in Nat /\ taken.number <= submitted
    BY DEF WorkerInv, NumbersGrow, Asked, Requests
  <2>3. QED
    BY <1>1, <1>2, <1>3, <2>1, <2>2 DEF NumbersGrow
<1>8. EachOnce'
  <2>1. Len(results) \in Nat /\ Len(results') = 0 /\ submitted' = submitted + 1
    BY <1>1, LenProperties DEF WorkerInv, WorkerTypes
  <2>2. /\ InHand \in {0, 1} /\ Waiting \in {0, 1} /\ Coming = 0
        /\ InHand' = InHand /\ Waiting' = Waiting /\ Coming' \in {0, 1}
    BY <1>1 DEF InHand, Waiting, Coming
  <2>3. QED
    <3>1. Len(results) + InHand + Waiting + Coming <= submitted
      BY DEF WorkerInv, EachOnce
    <3>2. Len(results') + InHand' + Waiting' + Coming' <= submitted'
      <4> HIDE DEF EachOnce
      <4>1. InHand + Waiting <= submitted
        BY <1>2, <2>1, <2>2, <3>1
      <4>2. InHand' + Waiting' + Coming' <= submitted + 1
        <5>1. CASE Coming' = 0
          BY <1>2, <2>2, <4>1, <5>1
        <5>2. CASE Coming' = 1
          BY <1>2, <2>2, <4>1, <5>2
        <5>3. QED
          BY <2>2, <5>1, <5>2
      <4>3. QED
        BY <2>1, <2>2, <4>2
    <3>3. QED
      BY <3>2 DEF EachOnce
<1>9. QED
  BY <1>1, <1>5, <1>6, <1>7, <1>8 DEF WorkerInv

LEMMA PollPreserves ==
  ASSUME WorkerInv, Poll
  PROVE  WorkerInv'
<1>1. results' = <<>> /\ UNCHANGED <<queue, calls, taken, submitted, completed, closed, ended, broken>>
  BY DEF Poll
<1>2. Len(results) \in Nat /\ Len(results') = 0 /\ submitted \in Nat
  BY <1>1, LenProperties DEF WorkerInv, WorkerTypes
<1>3. WorkerTypes' /\ OneCall' /\ NumbersGrow'
  BY <1>1 DEF WorkerInv, WorkerTypes, OneCall, NumbersGrow
<1>4. EachOnce'
  <2>1. /\ InHand \in {0, 1} /\ Waiting \in {0, 1} /\ Coming \in {0, 1}
        /\ InHand' = InHand /\ Waiting' = Waiting /\ Coming' = Coming
    BY <1>1 DEF InHand, Waiting, Coming
  <2>2. QED
    BY <1>1, <1>2, <2>1 DEF WorkerInv, EachOnce
<1>5. QED
  BY <1>1, <1>3, <1>4 DEF WorkerInv

LEMMA ClosePreserves ==
  ASSUME WorkerInv, calls = {}, CloseBegin
  PROVE  WorkerInv'
<1> DEFINE c == [put |-> Stop, step |-> "put"]
<1>1. calls' = {c} /\ UNCHANGED <<queue, taken, results, submitted, completed, ended, broken>>
  BY DEF CloseBegin
<1>2. c \in Calls /\ c.put \notin Asked
  BY ItemFacts DEF Calls
<1>3. WorkerTypes' /\ OneCall' /\ NumbersGrow'
  BY <1>1, <1>2 DEF WorkerInv, WorkerTypes, OneCall, NumbersGrow
<1>4. EachOnce'
  BY <1>1, <1>2 DEF WorkerInv, EachOnce, InHand, Waiting, Coming
<1>5. QED
  BY <1>1, <1>3, <1>4 DEF WorkerInv

LEMMA CallPreserves ==
  ASSUME WorkerInv, CallStep
  PROVE  WorkerInv'
<1>1. PICK c \in Calls : calls = {c} /\ (c.step = "again" => queue = None)
  BY DEF WorkerInv, OneCall, CallStep
<1>2. Put(c) \/ Evict(c)
  BY <1>1 DEF CallStep
<1>3. UNCHANGED <<taken, results, submitted, completed>>
  BY <1>2 DEF Put, Evict
<1>4. \A step \in {"evict", "again"} :
         [c EXCEPT !.step = step] \in Calls /\ [c EXCEPT !.step = step].put = c.put
         /\ [c EXCEPT !.step = step].step = step /\ Moved(c, step) = {[c EXCEPT !.step = step]}
  BY <1>1 DEF Calls, Moved
<1>5. c.put \in Asked \cup {Stop} /\ c.put # None
  BY ItemFacts DEF Calls
<1>6. Len(results) \in Nat /\ submitted \in Nat
  BY LenProperties DEF WorkerInv, WorkerTypes
<1>7. CASE queue = None /\ queue' = c.put /\ calls' = {} /\ UNCHANGED broken
  <2>1. WorkerTypes' /\ OneCall'
    BY <1>3, <1>5, <1>7 DEF WorkerInv, WorkerTypes, OneCall
  <2>2. NumbersGrow'
    BY <1>1, <1>3, <1>5, <1>6, <1>7 DEF WorkerInv, NumbersGrow
  <2>3. EachOnce'
    <3>1. /\ InHand \in {0, 1} /\ Waiting = 0 /\ Coming \in {0, 1}
          /\ InHand' = InHand /\ Waiting' = Coming /\ Coming' = 0
      BY <1>1, <1>3, <1>5, <1>7, ItemFacts DEF InHand, Waiting, Coming
    <3>2. QED
      BY <1>3, <1>6, <3>1 DEF WorkerInv, EachOnce
  <2>4. QED
    BY <1>7, <2>1, <2>2, <2>3 DEF WorkerInv
<1>8. CASE UNCHANGED queue /\ ~broken' /\ calls' = {[c EXCEPT !.step = "evict"]}
  <2>1. WorkerTypes' /\ OneCall'
    BY <1>3, <1>4, <1>8 DEF WorkerInv, WorkerTypes, OneCall
  <2>2. NumbersGrow'
    BY <1>1, <1>3, <1>4, <1>6, <1>8 DEF WorkerInv, NumbersGrow
  <2>3. EachOnce'
    BY <1>1, <1>3, <1>4, <1>6, <1>8 DEF WorkerInv, EachOnce, InHand, Waiting, Coming
  <2>4. QED
    BY <1>8, <2>1, <2>2, <2>3 DEF WorkerInv
<1>9. CASE queue' = None /\ calls' = {[c EXCEPT !.step = "again"]} /\ UNCHANGED broken
  <2>1. WorkerTypes' /\ OneCall'
    BY <1>3, <1>4, <1>9 DEF WorkerInv, WorkerTypes, OneCall
  <2>2. NumbersGrow'
    BY <1>1, <1>3, <1>4, <1>6, <1>9, ItemFacts DEF WorkerInv, NumbersGrow
  <2>3. EachOnce'
    <3>1. /\ InHand \in {0, 1} /\ Waiting \in {0, 1} /\ Coming \in {0, 1}
          /\ InHand' = InHand /\ Waiting' = 0 /\ Coming' = Coming
      BY <1>1, <1>3, <1>4, <1>9, ItemFacts DEF InHand, Waiting, Coming
    <3>2. QED
      BY <1>3, <1>6, <3>1 DEF WorkerInv, EachOnce
  <2>4. QED
    BY <1>9, <2>1, <2>2, <2>3 DEF WorkerInv
<1>10. CASE Put(c)
  <2>1. CASE queue = None
    <3>1. calls \ {c} = {}
      BY <1>1
    <3>2. QED
      BY <1>7, <1>10, <2>1, <3>1 DEF Put
  <2>2. CASE queue # None
    <3>1. c.step = "put" /\ ~broken
      BY <1>1, <1>10, <2>2 DEF Put, WorkerInv
    <3>2. UNCHANGED queue /\ ~broken' /\ calls' = {[c EXCEPT !.step = "evict"]}
      BY <1>4, <1>10, <2>2, <3>1 DEF Put
    <3>3. QED
      BY <1>8, <3>2
  <2>3. QED
    BY <2>1, <2>2
<1>11. CASE Evict(c)
  <2>1. c.step = "evict" /\ queue' = None /\ calls' = {[c EXCEPT !.step = "again"]}
    BY <1>4, <1>11 DEF Evict
  <2>2. UNCHANGED broken
    BY <1>11 DEF Evict
  <2>3. QED
    BY <1>9, <2>1, <2>2
<1>12. QED
  BY <1>2, <1>10, <1>11

LEMMA TakePreserves ==
  ASSUME WorkerInv, Take
  PROVE  WorkerInv'
<1>1. /\ taken = None /\ queue \in Asked \cup {Stop} /\ queue' = None
      /\ taken' = IF queue = Stop THEN None ELSE queue
      /\ UNCHANGED <<calls, results, submitted, completed, closed, broken>>
  BY DEF Take, WorkerInv, WorkerTypes
<1>2. Len(results) \in Nat /\ submitted \in Nat
  BY LenProperties DEF WorkerInv, WorkerTypes
<1>3. WorkerTypes' /\ OneCall'
  BY <1>1 DEF WorkerInv, WorkerTypes, OneCall
<1>4. NumbersGrow'
  BY <1>1, ItemFacts DEF WorkerInv, NumbersGrow
<1>5. EachOnce'
  <2>1. /\ InHand = 0 /\ Waiting \in {0, 1} /\ Coming \in {0, 1}
        /\ InHand' = Waiting /\ Waiting' = 0 /\ Coming' = Coming
    BY <1>1, ItemFacts DEF InHand, Waiting, Coming
  <2>2. QED
    BY <1>1, <1>2, <2>1 DEF WorkerInv, EachOnce
<1>6. QED
  BY <1>1, <1>3, <1>4, <1>5 DEF WorkerInv

LEMMA SolvePreserves ==
  ASSUME WorkerInv, NEW q \in Qualities, Solve(q)
  PROVE  WorkerInv'
<1> DEFINE answer == [number |-> taken.number, epoch |-> taken.epoch, at |-> taken.at,
                      long |-> taken.long, fit |-> q]
<1>1. /\ taken \in Asked /\ taken' = None
      /\ results' = Append(results, answer) /\ completed' = Max({completed, taken.number})
      /\ UNCHANGED <<queue, calls, submitted, closed, ended, broken>>
  BY DEF Solve, WorkerInv, WorkerTypes
<1>2. answer \in Answers /\ answer.number = taken.number /\ taken.number \in Nat
  BY <1>1 DEF Answers, Asked, Requests
<1> HIDE DEF answer
<1>3. /\ results \in Seq(Answers) /\ Len(results) \in Nat /\ submitted \in Nat
      /\ completed \in Nat /\ completed <= submitted /\ taken.number <= submitted
  BY <1>1, LenProperties DEF WorkerInv, WorkerTypes, NumbersGrow
<1>4. /\ results' \in Seq(Answers) /\ Len(results') = Len(results) + 1
      /\ DOMAIN results' = 1..(Len(results) + 1) /\ DOMAIN results = 1..Len(results)
      /\ \A i \in DOMAIN results' :
            results'[i] = IF i = Len(results) + 1 THEN answer ELSE results[i]
  BY <1>1, <1>2, <1>3, AppendProperties, LenProperties
<1>5. WorkerTypes' /\ OneCall'
  BY <1>1, <1>2, <1>3, <1>4, MaxOfTwo DEF WorkerInv, WorkerTypes, OneCall
<1>6. NumbersGrow'
  <2>1. ASSUME NEW c \in calls, c.put \in Asked, NEW i \in DOMAIN results'
        PROVE  results'[i].number < submitted
    <3>1. CASE i = Len(results) + 1
      BY <1>1, <1>2, <1>4, <2>1, <3>1 DEF WorkerInv, NumbersGrow
    <3>2. CASE i # Len(results) + 1
      <4>1. i \in DOMAIN results
        BY <1>3, <1>4, <3>2
      <4>2. QED
        BY <1>4, <2>1, <3>2, <4>1 DEF WorkerInv, NumbersGrow
    <3>3. QED
      BY <3>1, <3>2
  <2>2. QED
    BY <1>1, <2>1, ItemFacts DEF WorkerInv, NumbersGrow
<1>7. EachOnce'
  <2>1. /\ InHand = 1 /\ Waiting \in {0, 1} /\ Coming \in {0, 1}
        /\ InHand' = 0 /\ Waiting' = Waiting /\ Coming' = Coming
    BY <1>1, ItemFacts DEF InHand, Waiting, Coming
  <2>2. QED
    BY <1>1, <1>3, <1>4, <2>1 DEF WorkerInv, EachOnce
<1>8. QED
  BY <1>1, <1>5, <1>6, <1>7 DEF WorkerInv

-----------------------------------------------------------------------------
(* The worker is a mailbox.                                                *)

mailNumbers == [i \in DOMAIN results |-> results[i].number]

LEMMA NumberFacts ==
  /\ Number(None) = None /\ Number(Stop) = None
  /\ \A r \in Asked : Number(r) = r.number /\ r.number \in Nat /\ r.number # None
BY ItemFacts DEF Number, Stop, Asked, Requests

\* A step that leaves what waits, what is in hand and the answers.
LEMMA MailStutters ==
  ASSUME Number(queue)' = Number(queue), Number(taken)' = Number(taken), results' = results
  PROVE  UNCHANGED Mail!mailVars
BY DEF Mail!mailVars

LEMMA CallIsMail ==
  ASSUME WorkerInv, CallStep
  PROVE  [Mail!MailNext]_(Mail!mailVars)
<1>1. PICK c \in Calls : calls = {c} /\ (c.step = "again" => queue = None)
  BY DEF WorkerInv, OneCall, CallStep
<1>2. Put(c) \/ Evict(c)
  BY <1>1 DEF CallStep
<1>3. UNCHANGED <<taken, results>>
  BY <1>2 DEF Put, Evict
<1>4. queue \in Asked \cup {Stop, None}
  BY DEF WorkerInv, WorkerTypes
<1>5. CASE queue' = queue
  BY <1>3, <1>5, MailStutters DEF Number
<1>6. CASE queue' = None
  <2>1. CASE queue \in Asked
    <3>1. Mail!Drop
      BY <1>3, <1>6, <2>1, NumberFacts DEF Mail!Drop
    <3>2. QED
      BY <3>1 DEF Mail!MailNext
  <2>2. CASE queue \notin Asked
    <3>1. Number(queue') = Number(queue)
      BY <1>4, <1>6, <2>2, NumberFacts
    <3>2. QED
      BY <1>3, <3>1, MailStutters DEF Number
  <2>3. QED
    BY <2>1, <2>2
<1>7. CASE queue = None /\ queue' = c.put
  <2>1. CASE c.put \in Asked
    <3>1. /\ taken \in Asked => taken.number < c.put.number
          /\ \A i \in DOMAIN results : results[i].number < c.put.number
          /\ taken \in Asked \cup {None}
      BY <1>1, <2>1 DEF WorkerInv, WorkerTypes, NumbersGrow
    <3>2. Number(queue) = None /\ Number(queue') = c.put.number /\ c.put.number \in Nat
      BY <1>7, <2>1, NumberFacts
    <3>3. Number(taken) # None => taken \in Asked /\ Number(taken) = taken.number
      BY <3>1, NumberFacts
    <3>4. /\ Number(taken) # None => Number(taken) \in Nat /\ c.put.number > Number(taken)
          /\ \A i \in DOMAIN mailNumbers :
                mailNumbers[i] \in Nat /\ c.put.number > mailNumbers[i]
      <4>1. \A i \in DOMAIN results : results[i].number \in Nat
        <5>1. \A i \in DOMAIN results : results[i] \in Answers
          BY ElementOfSeq, LenProperties DEF WorkerInv, WorkerTypes
        <5>2. QED
          BY <5>1 DEF Answers
      <4>2. QED
        BY <3>1, <3>2, <3>3, <4>1, NumberFacts DEF mailNumbers
    <3>5. Mail!Later(c.put.number)
      BY <3>2, <3>4 DEF Mail!Later, mailNumbers
    <3>6. Mail!Post
      BY <1>3, <3>2, <3>5 DEF Mail!Post, Number
    <3>7. QED
      BY <3>6 DEF Mail!MailNext
  <2>2. CASE c.put = Stop
    <3>1. Number(queue') = Number(queue)
      BY <1>7, <2>2, NumberFacts
    <3>2. QED
      BY <1>3, <3>1, MailStutters DEF Number
  <2>3. QED
    BY <2>1, <2>2 DEF Calls
<1>8. QED
  BY <1>1, <1>2, <1>5, <1>6, <1>7 DEF Put, Evict

LEMMA TakeIsMail ==
  ASSUME WorkerInv, Take
  PROVE  [Mail!MailNext]_(Mail!mailVars)
<1>1. taken = None /\ queue \in Asked \cup {Stop} /\ queue' = None /\ UNCHANGED results
  BY DEF Take, WorkerInv, WorkerTypes
<1>2. CASE queue = Stop
  <2>1. Number(queue') = Number(queue) /\ Number(taken') = Number(taken)
    BY <1>1, <1>2, NumberFacts DEF Take
  <2>2. QED
    BY <1>1, <2>1, MailStutters DEF Number
<1>3. CASE queue \in Asked
  <2>1. taken' = queue
    BY <1>3, ItemFacts DEF Take
  <2>2. Mail!Begin
    BY <1>1, <1>3, <2>1, NumberFacts DEF Mail!Begin
  <2>3. QED
    BY <2>2 DEF Mail!MailNext
<1>4. QED
  BY <1>1, <1>2, <1>3

LEMMA SolveIsMail ==
  ASSUME WorkerInv, NEW q \in Qualities, Solve(q)
  PROVE  [Mail!MailNext]_(Mail!mailVars)
<1> DEFINE answer == [number |-> taken.number, epoch |-> taken.epoch, at |-> taken.at,
                      long |-> taken.long, fit |-> q]
<1>1. /\ taken \in Asked /\ taken' = None /\ UNCHANGED queue
      /\ results' = Append(results, answer) /\ results \in Seq(Answers)
  BY DEF Solve, WorkerInv, WorkerTypes
<1>2. answer \in Answers /\ answer.number = taken.number
  BY <1>1 DEF Answers, Asked, Requests
<1> HIDE DEF answer
<1>3. mailNumbers' = Append(mailNumbers, taken.number)
  <2>1. /\ DOMAIN results' = 1..(Len(results) + 1) /\ DOMAIN results = 1..Len(results)
        /\ \A i \in DOMAIN results' :
              results'[i] = IF i = Len(results) + 1 THEN answer ELSE results[i]
        /\ Len(results) \in Nat
    BY <1>1, <1>2, AppendProperties, LenProperties
  <2>2. mailNumbers \in Seq(Nat) /\ Len(mailNumbers) = Len(results) /\ taken.number \in Nat
    <3>1. \A i \in DOMAIN results : results[i].number \in Nat
      <4>1. \A i \in DOMAIN results : results[i] \in Answers
        BY <1>1, <2>1, ElementOfSeq
      <4>2. QED
        BY <4>1 DEF Answers
    <3>2. QED
      BY <1>1, <2>1, <3>1 DEF mailNumbers, Asked, Requests
  <2>3. \A i \in 1..(Len(results) + 1) :
           mailNumbers'[i] = IF i = Len(results) + 1 THEN taken.number ELSE mailNumbers[i]
    BY <1>2, <2>1 DEF mailNumbers
  <2>4. mailNumbers' = [i \in 1..(Len(results) + 1) |-> mailNumbers'[i]]
    BY <2>1 DEF mailNumbers
  <2>5. Append(mailNumbers, taken.number) =
          [i \in 1..(Len(results) + 1) |->
              IF i = Len(results) + 1 THEN taken.number ELSE mailNumbers[i]]
    BY <2>2, AppendProperties, LenProperties
  <2>6. QED
    BY <2>3, <2>4, <2>5
<1>4. Mail!Answer
  BY <1>1, <1>3, NumberFacts DEF Mail!Answer, mailNumbers
<1>5. QED
  BY <1>4 DEF Mail!MailNext

\* The estimator takes the answers, before it asks again or instead of that.
LEMMA CollectIsMail ==
  ASSUME results' = <<>>, UNCHANGED <<queue, taken>>
  PROVE  [Mail!MailNext]_(Mail!mailVars)
<1>1. Mail!Collect
  BY DEF Mail!Collect, Number
<1>2. QED
  BY <1>1 DEF Mail!MailNext

-----------------------------------------------------------------------------
(* The estimator.                                                          *)

Times == (1..MaxTime) \cup {None}

Estimators ==
    [strategy : Strategies, epoch : Nat \ {0}, rev : Nat,
     transform : [usable : BOOLEAN, locked : BOOLEAN, epoch : Nat \ {0}, rev : Nat],
     state : {"acquiring", "provisional", "locked", "degraded"}, shown : Nat,
     fit : [quality : Qualities, epoch : (Nat \ {0}) \cup {None}], long : BOOLEAN,
     healthy : 0..Confirm, bad : 0..(JumpCount - 1), count : 0..MinSamples,
     first : Times, newest : Times, requestAt : Times, fitAt : Times]

\* The fit, the transform and the displayed state of an estimator belong together.
Sound(x) ==
    /\ x \in Estimators
    /\ x.fit.epoch \in {None, x.epoch}
    /\ x.transform.epoch = x.epoch /\ x.transform.rev = x.rev /\ x.shown = x.rev
    /\ x.state \in {"locked", "degraded"} <=> x.transform.locked
    /\ x.state = "provisional" => x.transform.usable
    /\ x.transform.locked => x.transform.usable

\* What may become of an estimator: a lock ends with its epoch only, and another
\* transform has a greater revision.
Follows(x, y) ==
    /\ y.epoch >= x.epoch /\ y.strategy = x.strategy
    /\ y.epoch = x.epoch /\ x.transform.locked => y.transform.locked
    /\ y.rev >= x.rev
    /\ y.transform # x.transform => y.rev > x.rev

LEMMA Bounds ==
  /\ JumpCount \in Nat \ {0} /\ Confirm \in Nat \ {0} /\ MinSamples \in Nat \ {0}
  /\ MaxTime \in Nat \ {0} /\ MaxEpoch \in Nat \ {0} /\ MaxRevision \in Nat \ {0}
BY EstimatorAssumption

LEMMA FollowsIsTransitive ==
  ASSUME NEW x, NEW y, NEW z, Sound(x), Sound(y), Sound(z), Follows(x, y), Follows(y, z)
  PROVE  Follows(x, z)
<1>1. \A w \in {x, y, z} : w.epoch \in Nat /\ w.rev \in Nat
  BY DEF Sound, Estimators
<1>2. QED
  BY <1>1 DEF Follows

LEMMA FreshSound ==
  ASSUME NEW strategy \in Strategies, NEW epoch \in Nat \ {0}, NEW rev \in Nat
  PROVE  Sound(Fresh(strategy, epoch, rev))
<1> DEFINE x == Fresh(strategy, epoch, rev)
<1>1. x \in Estimators
  BY Bounds DEF Fresh, Estimators, NoTransform, NoFit, Times, Qualities
<1>2. QED
  BY <1>1 DEF Sound, Fresh, NoTransform, NoFit

LEMMA ResetSound ==
  ASSUME NEW x, Sound(x)
  PROVE  Sound(ResetOf(x)) /\ Follows(x, ResetOf(x))
<1>1. x.strategy \in Strategies /\ x.epoch + 1 \in Nat \ {0} /\ x.rev + 1 \in Nat
  BY DEF Sound, Estimators
<1>2. Sound(ResetOf(x))
  BY <1>1, FreshSound DEF ResetOf
<1>3. /\ ResetOf(x).epoch = x.epoch + 1 /\ ResetOf(x).rev = x.rev + 1
      /\ ResetOf(x).strategy = x.strategy
  BY DEF ResetOf, Fresh
<1>4. x.epoch \in Nat /\ x.rev \in Nat
  BY DEF Sound, Estimators
<1>5. QED
  BY <1>2, <1>3, <1>4 DEF Follows

\* Fields that neither the fit, nor the transform, nor the state depend on.
LEMMA SameSound ==
  ASSUME NEW x, Sound(x), NEW y \in Estimators,
         y.strategy = x.strategy, y.epoch = x.epoch, y.rev = x.rev, y.state = x.state,
         y.transform = x.transform, y.shown = x.shown, y.fit.epoch \in {None, x.epoch}
  PROVE  Sound(y) /\ Follows(x, y)
<1>1. x.epoch \in Nat /\ x.rev \in Nat
  BY DEF Sound, Estimators
<1>2. QED
  BY <1>1 DEF Sound, Follows

LEMMA AppendedSound ==
  ASSUME NEW x, Sound(x), NEW t \in 1..MaxTime
  PROVE  /\ Sound(Appended(x, t)) /\ Follows(x, Appended(x, t))
         /\ Appended(x, t).newest \in 1..MaxTime
<1> DEFINE y == Appended(x, t)
           newest == IF x.newest = None THEN t ELSE Max2(x.newest, t)
           first == IF x.first = None THEN t ELSE Min2(x.first, t)
           count == Min2(MinSamples, x.count + 1)
<1>1. x \in Estimators
  BY DEF Sound
<1>2. newest \in 1..MaxTime /\ first \in 1..MaxTime
  <2>1. x.newest \in Times /\ x.first \in Times
    BY <1>1 DEF Estimators
  <2>2. QED
    BY <2>1 DEF Times, Min2, Max2
<1>3. count \in 0..MinSamples
  <2>1. x.count \in 0..MinSamples
    BY <1>1 DEF Estimators
  <2>2. QED
    BY <2>1, Bounds DEF Min2
<1>4. y = [x EXCEPT !.count = count, !.first = first, !.newest = newest]
  BY DEF Appended
<1> HIDE DEF y, newest, first, count
<1>5. /\ y \in Estimators /\ y.newest = newest
      /\ y.strategy = x.strategy /\ y.epoch = x.epoch /\ y.rev = x.rev /\ y.state = x.state
      /\ y.transform = x.transform /\ y.shown = x.shown /\ y.fit = x.fit
  BY <1>1, <1>2, <1>3, <1>4 DEF Estimators, Times
<1>6. QED
  BY <1>2, <1>5, SameSound DEF Sound, y

\* _add_sample up to the fits.
LEMMA SampledSound ==
  ASSUME Sound(e), NEW s \in Samples
  PROVE  /\ Sound(Sampled(s).e) /\ Follows(e, Sampled(s).e)
         /\ Sampled(s).used \in BOOLEAN
         /\ Sampled(s).used => Sampled(s).e.newest \in 1..MaxTime
<1> DEFINE x == IF RolledBack(e, s) THEN ResetOf(e) ELSE e
<1>1. Sound(x) /\ Follows(e, x) /\ s.t \in 1..MaxTime
  <2>1. e.epoch \in Nat /\ e.rev \in Nat
    BY DEF Sound, Estimators
  <2>2. Follows(e, e)
    BY <2>1 DEF Follows
  <2>3. QED
    BY <2>2, ResetSound DEF Samples
<1>2. x \in Estimators /\ x.bad \in 0..(JumpCount - 1)
  BY <1>1 DEF Sound, Estimators
<1> HIDE DEF x
<1>3. \A n \in 0..(JumpCount - 1) :
        Sound([x EXCEPT !.bad = n]) /\ Follows(e, [x EXCEPT !.bad = n])
  <2> TAKE n \in 0..(JumpCount - 1)
  <2> DEFINE y == [x EXCEPT !.bad = n]
  <2>1. /\ y \in Estimators
        /\ y.strategy = x.strategy /\ y.epoch = x.epoch /\ y.rev = x.rev /\ y.state = x.state
        /\ y.transform = x.transform /\ y.shown = x.shown /\ y.fit = x.fit
    BY <1>2 DEF Estimators
  <2> HIDE DEF y
  <2>2. Sound(y) /\ Follows(x, y)
    BY <1>1, <2>1, SameSound DEF Sound
  <2>3. QED
    BY <1>1, <2>2, FollowsIsTransitive DEF y
<1>4. CASE ~Guarded(x) \/ s.fits
  <2> DEFINE y == [x EXCEPT !.bad = 0]
  <2>1. Sampled(s) = [used |-> TRUE, e |-> Appended(y, s.t)]
    BY <1>4 DEF Sampled, x
  <2>2. Sound(y) /\ Follows(e, y)
    <3>1. 0 \in 0..(JumpCount - 1)
      BY Bounds
    <3>2. QED
      BY <1>3, <3>1
  <2> HIDE DEF y
  <2>3. QED
    BY <1>1, <2>1, <2>2, AppendedSound, FollowsIsTransitive
<1>5. CASE ~(~Guarded(x) \/ s.fits) /\ x.bad + 1 < JumpCount
  <2>1. Sampled(s) = [used |-> FALSE, e |-> [x EXCEPT !.bad = x.bad + 1]]
    BY <1>5 DEF Sampled, x
  <2>2. x.bad + 1 \in 0..(JumpCount - 1)
    BY <1>2, <1>5, Bounds
  <2>3. QED
    BY <1>3, <2>1, <2>2
<1>6. CASE ~(~Guarded(x) \/ s.fits) /\ ~(x.bad + 1 < JumpCount)
  <2> DEFINE y == Appended(ResetOf(x), s.t)
             z == Restarted(x, s.t)
  <2>1. Sampled(s) = [used |-> TRUE, e |-> z]
    BY <1>6 DEF Sampled, x
  <2>2. Sound(ResetOf(x)) /\ Follows(x, ResetOf(x))
    BY <1>1, ResetSound
  <2>3. Sound(y) /\ Follows(e, y) /\ y.newest \in 1..MaxTime
    BY <1>1, <2>2, AppendedSound, FollowsIsTransitive
  <2>4. z = [y EXCEPT !.count = Min2(MinSamples, JumpCount)]
    BY DEF Restarted
  <2> HIDE DEF y, z
  <2>5. Min2(MinSamples, JumpCount) \in 0..MinSamples /\ y \in Estimators
    BY <2>3, Bounds DEF Min2, Sound
  <2>6. /\ z \in Estimators /\ z.newest = y.newest
        /\ z.strategy = y.strategy /\ z.epoch = y.epoch /\ z.rev = y.rev /\ z.state = y.state
        /\ z.transform = y.transform /\ z.shown = y.shown /\ z.fit = y.fit
    BY <2>4, <2>5 DEF Estimators
  <2>7. Sound(z) /\ Follows(y, z)
    BY <2>3, <2>6, SameSound DEF Sound
  <2>8. QED
    BY <2>1, <2>3, <2>6, <2>7, FollowsIsTransitive
<1>7. QED
  BY <1>4, <1>5, <1>6

-----------------------------------------------------------------------------
(* The fits.                                                               *)

\* What an estimator may be when it has consumed results: the fit, how long its
\* samples were and when it was asked for are those it had or those of a result.
Fitted(x) ==
    {y \in Estimators : /\ y = [x EXCEPT !.fit = y.fit, !.long = y.long, !.fitAt = y.fitAt]
                        /\ y.fit = x.fit \/ y.fit.epoch = x.epoch}

LEMMA FittedSound ==
  ASSUME NEW x, Sound(x), NEW y \in Fitted(x)
  PROVE  Sound(y) /\ Follows(x, y) /\ y.newest = x.newest
<1>1. /\ x \in Estimators /\ x.fit.epoch \in {None, x.epoch}
      /\ y \in Estimators /\ y = [x EXCEPT !.fit = y.fit, !.long = y.long, !.fitAt = y.fitAt]
      /\ y.fit = x.fit \/ y.fit.epoch = x.epoch
  BY DEF Sound, Fitted
<1>2. /\ y.newest = x.newest /\ y.strategy = x.strategy /\ y.epoch = x.epoch
      /\ y.rev = x.rev /\ y.state = x.state /\ y.transform = x.transform /\ y.shown = x.shown
  BY <1>1 DEF Estimators
<1>3. QED
  BY <1>1, <1>2, SameSound

\* _consume_drift_results_locked, for one result.
Step(y, r) ==
    IF Counts(y, r)
    THEN [y EXCEPT !.fit = [quality |-> r.fit, epoch |-> r.epoch], !.long = r.long, !.fitAt = r.at]
    ELSE y

LEMMA StepFits ==
  ASSUME NEW x, Sound(x), NEW y \in Fitted(x), NEW r \in Answers
  PROVE  Step(y, r) \in Fitted(x)
<1>1. /\ x \in Estimators /\ y \in Estimators /\ x.epoch \in Nat \ {0}
      /\ y = [x EXCEPT !.fit = y.fit, !.long = y.long, !.fitAt = y.fitAt]
  BY DEF Sound, Fitted, Estimators
<1>2. y.epoch = x.epoch
  BY <1>1 DEF Estimators
<1> DEFINE g == [quality |-> r.fit, epoch |-> r.epoch]
           z == [y EXCEPT !.fit = g, !.long = r.long, !.fitAt = r.at]
<1>4. CASE Counts(y, r)
  <2>1. /\ g \in [quality : Qualities, epoch : (Nat \ {0}) \cup {None}] /\ g.epoch = x.epoch
        /\ r.long \in BOOLEAN /\ r.at \in Times
    BY <1>1, <1>2, <1>4 DEF Counts, Answers, Times
  <2>2. Step(y, r) = z
    BY <1>4 DEF Step
  <2> HIDE DEF g
  <2>3. z \in Estimators /\ z.fit = g /\ z.long = r.long /\ z.fitAt = r.at
    BY <1>1, <2>1 DEF Estimators
  <2>4. z = [x EXCEPT !.fit = z.fit, !.long = z.long, !.fitAt = z.fitAt]
    BY <1>1, <2>3 DEF Estimators
  <2> HIDE DEF z
  <2>5. QED
    BY <2>1, <2>2, <2>3, <2>4 DEF Fitted
<1>5. CASE ~Counts(y, r)
  BY <1>5 DEF Step
<1>6. QED
  BY <1>4, <1>5

\* A fit that is taken over is of the epoch of the estimator, however many results
\* of earlier epochs come before or after it.
LEMMA ConsumedFits ==
  ASSUME NEW x, Sound(x), results \in Seq(Answers)
  PROVE  Consumed(x) \in Fitted(x)
<1> DEFINE D == DOMAIN results
           pick == [s \in SUBSET D |-> Max(s)]
           Made(f, s) == IF s = {} THEN x ELSE Step(f[s \ {Max(s)}], results[Max(s)])
           Eqn(f) == f = [s \in SUBSET D |-> Made(f, s)]
<1>1. D = 1..Len(results) /\ Len(results) \in Nat /\ IsFiniteSet(D)
  BY LenProperties, FS_Interval
<1>2. \A i \in D : results[i] \in Answers
  BY <1>1, ElementOfSeq
<1>3. \A s \in SUBSET D : s # {} => Max(s) \in s
  <2> SUFFICES ASSUME NEW s \in SUBSET D, s # {} PROVE Max(s) \in s
    OBVIOUS
  <2>1. IsFiniteSet(s)
    BY <1>1, FS_Subset
  <2>2. \E n \in s : \A m \in s : n >= m
    BY <1>1, <2>1, GreatestExists
  <2>3. QED
    BY <2>2 DEF Max
<1>4. x \in Fitted(x)
  <2>1. x \in Estimators
    BY DEF Sound
  <2>2. x = [x EXCEPT !.fit = x.fit, !.long = x.long, !.fitAt = x.fitAt]
    BY <2>1 DEF Estimators
  <2>3. QED
    BY <2>1, <2>2 DEF Fitted
<1>5. Consumed(x) = (CHOOSE f : Eqn(f))[D]
  BY DEF Consumed, FoldLeft, MapThenFoldSet, Step
<1>6. \E f : Eqn(f)
  <2> DEFINE op == [p \in D \X Fitted(x) |-> Step(p[2], results[p[1]])]
  <2>1. op \in [D \X Fitted(x) -> Fitted(x)]
    <3>1. \A p \in D \X Fitted(x) : Step(p[2], results[p[1]]) \in Fitted(x)
      BY <1>2, StepFits
    <3>2. QED
      BY <3>1
  <2>2. Picks(pick, D)
    BY <1>3 DEF Picks
  <2> HIDE DEF D, pick, op
  <2>3. PICK f \in [SUBSET D -> Fitted(x)] : IsFold(f, op, x, pick, D)
    BY <1>1, <1>4, <2>1, <2>2, FoldExists
  <2>4. \A s \in SUBSET D : f[s] = Made(f, s)
    <3> USE DEF IsFold
    <3> SUFFICES ASSUME NEW s \in SUBSET D, s # {} PROVE f[s] = Made(f, s)
      BY <2>3
    <3>1. pick[s] = Max(s) /\ Max(s) \in D
      BY <1>3 DEF pick
    <3>2. f[s \ {Max(s)}] \in Fitted(x)
      BY <2>3
    <3>3. op[<<Max(s), f[s \ {Max(s)}]>>] = Step(f[s \ {Max(s)}], results[Max(s)])
      BY <3>1, <3>2 DEF op
    <3>4. QED
      BY <2>3, <3>1, <3>3
  <2> HIDE DEF Made
  <2>5. Eqn(f)
    BY <2>3, <2>4
  <2>6. QED
    BY <2>5
<1> HIDE DEF D, pick, Eqn
<1>7. PICK f : Eqn(f) /\ Consumed(x) = f[D]
  BY <1>5, <1>6
<1> DEFINE T == {s \in SUBSET D : f[s] \in Fitted(x)}
<1>8. \A s \in SUBSET D : f[s] = Made(f, s)
  <2> HIDE DEF Made
  <2>1. QED
    BY <1>7 DEF Eqn
<1>9. {} \in T
  BY <1>4, <1>8
<1>10. ASSUME NEW s \in SUBSET D, s # {}, s \ {pick[s]} \in T
       PROVE  s \in T
  <2>1. pick[s] = Max(s) /\ Max(s) \in D
    BY <1>3, <1>10 DEF pick
  <2>2. f[s] = Step(f[s \ {Max(s)}], results[Max(s)])
    BY <1>8, <1>10
  <2>3. QED
    BY <1>2, <1>10, <2>1, <2>2, StepFits
<1> HIDE DEF T
<1>11. Picks(pick, D) /\ Inherited(T, pick, D)
  BY <1>3, <1>9, <1>10 DEF pick, Picks, Inherited
<1>12. SUBSET D \subseteq T
  BY <1>1, <1>11, SubsetInduction
<1>13. QED
  BY <1>7, <1>12 DEF T

LEMMA ConsumedSound ==
  ASSUME NEW x, Sound(x), results \in Seq(Answers)
  PROVE  /\ Sound(Consumed(x)) /\ Follows(x, Consumed(x))
         /\ Consumed(x).newest = x.newest
BY ConsumedFits, FittedSound

LEMMA PublishedSound ==
  ASSUME NEW x, Sound(x), NEW locked \in BOOLEAN
  PROVE  /\ Published(x, locked) \in Estimators
         /\ Published(x, locked).fit = x.fit /\ Published(x, locked).epoch = x.epoch
         /\ Published(x, locked).strategy = x.strategy
         /\ Published(x, locked).transform.usable
         /\ Published(x, locked).transform.locked = locked
         /\ Published(x, locked).transform.epoch = x.epoch
         /\ Published(x, locked).transform.rev = x.rev + 1
         /\ Published(x, locked).rev = x.rev + 1
<1> DEFINE t == [usable |-> TRUE, locked |-> locked, epoch |-> x.epoch, rev |-> x.rev + 1]
           y == [x EXCEPT !.rev = x.rev + 1, !.transform = t]
<1>1. x \in Estimators /\ x.epoch \in Nat \ {0} /\ x.rev + 1 \in Nat
  BY DEF Sound, Estimators
<1>2. Published(x, locked) = y
  BY DEF Published
<1>3. t \in [usable : BOOLEAN, locked : BOOLEAN, epoch : Nat \ {0}, rev : Nat]
  BY <1>1
<1>4. t.usable /\ t.locked = locked /\ t.epoch = x.epoch /\ t.rev = x.rev + 1
  OBVIOUS
<1> HIDE DEF t
<1>5. /\ y \in Estimators /\ y.fit = x.fit /\ y.epoch = x.epoch /\ y.strategy = x.strategy
      /\ y.transform = t /\ y.rev = x.rev + 1
  BY <1>1, <1>3 DEF Estimators
<1> HIDE DEF y
<1>6. QED
  BY <1>2, <1>4, <1>5

\* What a fit of the offset leaves in place, it leaves as it was; what it publishes
\* agrees with the state that is displayed.
LEMMA StateSound ==
  ASSUME NEW x, Sound(x), NEW z \in Estimators, NEW locked \in BOOLEAN,
         NEW state \in {"acquiring", "provisional", "locked", "degraded"},
         z = x \/ z = Published(x, locked),
         state \in {"locked", "degraded"} <=> z.transform.locked,
         state = "provisional" => z.transform.usable,
         x.transform.locked => z.transform.locked
  PROVE  LET y == [z EXCEPT !.state = state, !.shown = z.transform.rev]
         IN  Sound(y) /\ Follows(x, y)
<1> DEFINE y == [z EXCEPT !.state = state, !.shown = z.transform.rev]
<1>1. /\ z.fit = x.fit /\ z.epoch = x.epoch /\ z.strategy = x.strategy
      /\ z.transform.epoch = z.epoch /\ z.transform.rev = z.rev
      /\ z.transform.locked => z.transform.usable
      /\ z.rev >= x.rev /\ (z.transform # x.transform => z.rev > x.rev)
  <2>1. x.rev \in Nat
    BY DEF Sound, Estimators
  <2>2. CASE z = x
    BY <2>1, <2>2 DEF Sound
  <2>3. CASE z = Published(x, locked)
    <3>1. /\ z.fit = x.fit /\ z.epoch = x.epoch /\ z.strategy = x.strategy
          /\ z.transform.usable /\ z.transform.epoch = x.epoch
          /\ z.transform.rev = x.rev + 1 /\ z.rev = x.rev + 1
      BY <2>3, PublishedSound
    <3>2. QED
      BY <2>1, <3>1
  <2>4. QED
    BY <2>2, <2>3
<1>2. /\ y \in Estimators /\ y.state = state /\ y.shown = z.transform.rev
      /\ y.fit = z.fit /\ y.epoch = z.epoch /\ y.strategy = z.strategy
      /\ y.transform = z.transform /\ y.rev = z.rev
  BY DEF Estimators
<1> HIDE DEF y
<1>3. x.epoch \in Nat
  BY DEF Sound, Estimators
<1>4. QED
  BY <1>1, <1>2, <1>3 DEF Sound, Follows, y

\* The streak of healthy fits is no part of what belongs together.
LEMMA HealthySound ==
  ASSUME NEW x, Sound(x), NEW n \in 0..Confirm
  PROVE  LET y == [x EXCEPT !.healthy = n]
         IN  /\ Sound(y) /\ Follows(x, y) /\ y.state = x.state /\ y.transform = x.transform
             /\ y.newest = x.newest
<1> DEFINE y == [x EXCEPT !.healthy = n]
<1>1. /\ y \in Estimators /\ y.newest = x.newest /\ y.fit = x.fit
      /\ y.strategy = x.strategy /\ y.epoch = x.epoch /\ y.rev = x.rev /\ y.state = x.state
      /\ y.transform = x.transform /\ y.shown = x.shown
  BY DEF Sound, Estimators
<1> HIDE DEF y
<1>2. Sound(y) /\ Follows(x, y)
  BY <1>1, SameSound DEF Sound
<1>3. QED
  BY <1>1, <1>2 DEF y

LEMMA StreakSound ==
  ASSUME NEW x, Sound(x), NEW updated \in BOOLEAN
  PROVE  LET y == Streak(x, updated)
         IN  /\ Sound(y) /\ Follows(x, y) /\ y.state = x.state /\ y.transform = x.transform
<1>1. x.healthy \in 0..Confirm /\ x.epoch \in Nat /\ x.rev \in Nat
  BY DEF Sound, Estimators
<1>2. 0 \in 0..Confirm /\ Min2(Confirm, x.healthy + 1) \in 0..Confirm
  BY <1>1, Bounds DEF Min2
<1>3. CASE ~updated
  BY <1>1, <1>3 DEF Streak, Follows
<1>4. CASE updated
  <2> DEFINE n == IF Eligible(x) THEN Min2(Confirm, x.healthy + 1) ELSE 0
  <2>1. Streak(x, updated) = [x EXCEPT !.healthy = n] /\ n \in 0..Confirm
    BY <1>2, <1>4 DEF Streak
  <2> HIDE DEF n
  <2>2. QED
    BY <2>1, HealthySound
<1>5. QED
  BY <1>3, <1>4

\* _fit_offset_locked: a fit that is worse leaves a locked transform in holdover.
LEMMA OffsetFittedSound ==
  ASSUME NEW x, Sound(x), NEW updated \in BOOLEAN, NEW outcome \in Outcomes
  PROVE  Sound(OffsetFitted(x, updated, outcome)) /\ Follows(x, OffsetFitted(x, updated, outcome))
<1> DEFINE y == Streak(x, updated)
           locked == outcome = "good" /\ DriftLocked(y)
           holding == y.transform.locked /\ ~locked
           z == IF outcome = "good" /\ ~holding THEN Published(y, locked) ELSE y
           state == IF holding THEN "degraded"
                    ELSE IF locked THEN "locked"
                    ELSE IF outcome = "good" THEN "provisional" ELSE "acquiring"
<1>1. OffsetFitted(x, updated, outcome) =
        IF outcome = "none" THEN y ELSE [z EXCEPT !.state = state, !.shown = z.transform.rev]
  BY DEF OffsetFitted
<1>2. Sound(y) /\ Follows(x, y)
  BY StreakSound
<1> HIDE DEF y
<1>3. locked \in BOOLEAN /\ (locked => outcome = "good") /\ (holding <=> y.transform.locked /\ ~locked)
  OBVIOUS
<1> HIDE DEF locked, holding
<1>4. /\ Published(y, locked) \in Estimators
      /\ Published(y, locked).transform.locked = locked
      /\ Published(y, locked).transform.usable
  BY <1>2, <1>3, PublishedSound
<1>5. z \in Estimators /\ (z = y \/ z = Published(y, locked))
  BY <1>2, <1>4 DEF Sound
<1>6. /\ state \in {"acquiring", "provisional", "locked", "degraded"}
      /\ state \in {"locked", "degraded"} <=> z.transform.locked
      /\ state = "provisional" => z.transform.usable
      /\ y.transform.locked => z.transform.locked
  <2>1. CASE holding
    BY <1>3, <2>1
  <2>2. CASE ~holding /\ outcome = "good"
    BY <1>3, <1>4, <2>2
  <2>3. CASE ~holding /\ outcome # "good"
    BY <1>3, <2>3
  <2>4. QED
    BY <2>1, <2>2, <2>3
<1> HIDE DEF z, state
<1>7. CASE outcome = "none"
  BY <1>1, <1>2, <1>7
<1>8. CASE outcome # "none"
  <2> DEFINE w == [z EXCEPT !.state = state, !.shown = z.transform.rev]
  <2>1. Sound(w) /\ Follows(y, w)
    BY <1>2, <1>3, <1>5, <1>6, StateSound
  <2>2. QED
    BY <1>1, <1>2, <1>8, <2>1, FollowsIsTransitive
<1>9. QED
  BY <1>7, <1>8

\* _fit_drift_locked and _fit_offset_locked of V3: only an admitted fit replaces a
\* locked transform.
LEMMA FittedV3Sound ==
  ASSUME NEW x, Sound(x), NEW updated \in BOOLEAN, NEW outcome \in {"poor", "good"},
         NEW admitted \in BOOLEAN
  PROVE  /\ Sound(FittedV3(x, updated, outcome, admitted))
         /\ Follows(x, FittedV3(x, updated, outcome, admitted))
<1> DEFINE y == IF ~updated THEN x
                ELSE [x EXCEPT !.healthy = IF admitted THEN Min2(Confirm, @ + 1) ELSE 0]
           confirmed == y.healthy >= Confirm
           held == y.state \in {"locked", "degraded"}
           state == IF held /\ ~updated THEN y.state
                    ELSE IF held /\ (~admitted \/ (y.state = "degraded" /\ ~confirmed)) THEN "degraded"
                    ELSE IF held \/ (admitted /\ confirmed) THEN "locked"
                    ELSE IF outcome = "good" THEN "provisional" ELSE "acquiring"
           publishes == state = "provisional" \/ (state = "locked" /\ (updated \/ ~held))
           z == IF publishes THEN Published(y, state = "locked") ELSE y
<1>1. FittedV3(x, updated, outcome, admitted) = [z EXCEPT !.state = state, !.shown = z.transform.rev]
  BY DEF FittedV3
<1>2. Sound(y) /\ Follows(x, y)
  <2>1. x.healthy \in 0..Confirm /\ x.epoch \in Nat /\ x.rev \in Nat
    BY DEF Sound, Estimators
  <2> DEFINE n == IF admitted THEN Min2(Confirm, x.healthy + 1) ELSE 0
  <2>2. n \in 0..Confirm
    BY <2>1, Bounds DEF Min2
  <2>3. CASE ~updated
    BY <2>1, <2>3 DEF Follows
  <2>4. CASE updated
    <3>1. y = [x EXCEPT !.healthy = n]
      BY <2>4
    <3> HIDE DEF y, n
    <3>2. QED
      BY <2>2, <3>1, HealthySound
  <2>5. QED
    BY <2>3, <2>4
<1> HIDE DEF y
<1>3. y.state \in {"acquiring", "provisional", "locked", "degraded"}
      /\ (held <=> y.transform.locked) /\ (y.state = "provisional" => y.transform.usable)
  BY <1>2 DEF Sound, Estimators
<1> HIDE DEF confirmed
<1>4. state \in {"acquiring", "provisional", "locked", "degraded"}
  BY <1>3
<1>5. \A b \in BOOLEAN : /\ Published(y, b) \in Estimators
                         /\ Published(y, b).transform.locked = b
                         /\ Published(y, b).transform.usable
  BY <1>2, PublishedSound
<1>6. z \in Estimators /\ (z = y \/ z = Published(y, state = "locked"))
  <2>1. (state = "locked") \in BOOLEAN
    OBVIOUS
  <2> HIDE DEF state
  <2>2. QED
    BY <1>2, <1>5, <2>1 DEF Sound
<1>7. /\ state \in {"locked", "degraded"} <=> z.transform.locked
      /\ state = "provisional" => z.transform.usable
      /\ y.transform.locked => z.transform.locked
  <2>1. CASE state = "provisional"
    <3>1. ~held
      BY <2>1
    <3>2. z.transform.locked = FALSE /\ z.transform.usable
      <4>1. (state = "locked") = FALSE /\ z = Published(y, state = "locked")
        BY <2>1
      <4> HIDE DEF state, z
      <4>2. QED
        BY <1>5, <4>1
    <3>3. QED
      BY <1>3, <2>1, <3>1, <3>2
  <2>2. CASE state = "locked" /\ (updated \/ ~held)
    <3>1. z.transform.locked = TRUE
      <4>1. (state = "locked") = TRUE /\ z = Published(y, state = "locked")
        BY <2>2
      <4> HIDE DEF state, z
      <4>2. QED
        BY <1>5, <4>1
    <3>2. QED
      BY <2>2, <3>1
  <2>3. CASE ~publishes
    <3>1. z = y /\ (state \in {"locked", "degraded"} <=> held)
      BY <2>3
    <3>2. QED
      BY <1>3, <2>3, <3>1
  <2>4. QED
    BY <2>1, <2>2, <2>3
<1> HIDE DEF z, state
<1>8. (state = "locked") \in BOOLEAN
  OBVIOUS
<1> DEFINE w == [z EXCEPT !.state = state, !.shown = z.transform.rev]
<1>9. Sound(w) /\ Follows(y, w)
  BY <1>2, <1>4, <1>6, <1>7, <1>8, StateSound
<1>10. QED
  BY <1>1, <1>2, <1>9, FollowsIsTransitive

-----------------------------------------------------------------------------
(* The inductive invariant.                                                *)

EstimatorInv ==
    /\ Sound(e) /\ e.epoch <= MaxEpoch /\ e.rev <= MaxRevision
    /\ base \in 0..MaxRevision
    /\ adding \in {None} \cup [updated : BOOLEAN]

\* A step of the estimator keeps the transform's promises, a new one begins after it.
Lasting ==
    \/ base' = base /\ Follows(e, e')
    \/ base' > base /\ Revision' > Revision /\ e'.rev >= 0

Inv == EstimatorInv /\ WorkerInv

\* What every step is shown to do.
StepOK == Inv' /\ Lasting /\ [Mail!MailNext]_(Mail!mailVars)

LEMMA BoundedSound ==
  ASSUME EstimatorInv, Sound(e'), Follows(e, e'), Bounded, UNCHANGED base,
         adding' \in {None} \cup [updated : BOOLEAN]
  PROVE  EstimatorInv' /\ Lasting
<1>1. e'.rev \in Nat /\ base \in Nat /\ MaxRevision \in Nat
  BY Bounds DEF EstimatorInv, Sound, Estimators
<1>2. e'.rev <= MaxRevision /\ e'.epoch <= MaxEpoch
  BY <1>1 DEF Bounded
<1>3. Sound(e)'
  BY DEF Sound, Estimators, Times
<1>4. QED
  BY <1>2, <1>3 DEF EstimatorInv, Lasting

LEMMA InitEstablishes == Init => Inv /\ Mail!MailInit
<1> SUFFICES ASSUME Init PROVE Inv /\ Mail!MailInit
  OBVIOUS
<1>1. PICK strategy \in Strategies : e = Fresh(strategy, 1, 0)
  BY DEF Init
<1>2. Sound(e) /\ e.epoch = 1 /\ e.rev = 0
  <2>1. e.epoch = 1 /\ e.rev = 0
    BY <1>1 DEF Fresh
  <2>2. QED
    BY <1>1, <2>1, FreshSound
<1>3. EstimatorInv
  BY <1>2, Bounds DEF Init, EstimatorInv
<1>4. WorkerInv
  BY FreshEstablishes DEF Init
<1>5. queue = None /\ taken = None /\ results = <<>>
  BY DEF Init, FreshWorker
<1>6. Mail!MailInit
  BY <1>5, NumberFacts DEF Mail!MailInit
<1>7. QED
  BY <1>3, <1>4, <1>6 DEF Inv

\* A sample that is added to a V3 estimator.
LEMMA AddV3Steps ==
  ASSUME Inv, NEW s \in Samples, AddV3(s), Bounded
  PROVE  StepOK
<1> DEFINE x == Sampled(s).e
           due == DriftDue(x, x.fitAt)
           y == [x EXCEPT !.fitAt = IF due THEN x.newest ELSE @]
<1>1. Sound(x) /\ Follows(e, x)
  BY SampledSound DEF Inv, EstimatorInv
<1>2. UNCHANGED <<base, adding, workerVars>>
  BY DEF AddV3
<1>3. Sound(e') /\ Follows(e, e')
  <2>1. CASE e' = x
    BY <1>1, <2>1
  <2>2. CASE \E outcome \in {"poor", "good"}, admitted \in BOOLEAN :
               e' = FittedV3(y, due, outcome, admitted)
    <3>1. Sound(y) /\ Follows(e, y)
      <4> DEFINE a == IF due THEN x.newest ELSE x.fitAt
      <4>1. x \in Estimators /\ a \in Times
        BY <1>1 DEF Sound, Estimators
      <4>2. y = [x EXCEPT !.fitAt = a]
        OBVIOUS
      <4> HIDE DEF x, y, a
      <4>3. /\ y \in Estimators /\ y.fit = x.fit
            /\ y.strategy = x.strategy /\ y.epoch = x.epoch /\ y.rev = x.rev
            /\ y.state = x.state /\ y.transform = x.transform /\ y.shown = x.shown
        BY <4>1, <4>2 DEF Estimators
      <4>4. Sound(y) /\ Follows(x, y)
        BY <1>1, <4>3, SameSound DEF Sound
      <4>5. QED
        BY <1>1, <4>4, FollowsIsTransitive DEF Inv, EstimatorInv
    <3>2. due \in BOOLEAN
      BY DEF DriftDue
    <3> HIDE DEF y, due
    <3>3. QED
      BY <1>1, <2>2, <3>1, <3>2, FittedV3Sound, FollowsIsTransitive DEF Inv, EstimatorInv
  <2>3. QED
    BY <2>1, <2>2 DEF AddV3
<1>4. EstimatorInv' /\ Lasting
  BY <1>2, <1>3, BoundedSound DEF Inv, EstimatorInv
<1>5. WorkerInv' /\ UNCHANGED Mail!mailVars
  BY <1>2 DEF workerVars, Inv, WorkerInv, WorkerTypes, OneCall, NumbersGrow, EachOnce, InHand,
        Waiting, Coming, Mail!mailVars, Number
<1>6. QED
  BY <1>4, <1>5 DEF StepOK, Inv

\* A sample that is added to a V4 estimator: with a request for a fit of the drift,
\* or all at once.
LEMMA AddV4Steps ==
  ASSUME Inv, calls = {}, NEW s \in Samples, AddV4(s), Bounded
  PROVE  StepOK
<1> DEFINE sampled == Sampled(s)
           x == Consumed(sampled.e)
<1>1. Sound(sampled.e) /\ Follows(e, sampled.e)
      /\ (sampled.used => sampled.e.newest \in 1..MaxTime)
  BY SampledSound DEF Inv, EstimatorInv
<1>2. Sound(x) /\ Follows(e, x) /\ (sampled.used => x.newest \in 1..MaxTime)
  <2>1. Sound(x) /\ Follows(sampled.e, x) /\ x.newest = sampled.e.newest
    BY <1>1, ConsumedSound DEF Inv, WorkerInv, WorkerTypes
  <2>2. QED
    BY <1>1, <2>1, FollowsIsTransitive DEF Inv, EstimatorInv
<1>3. UNCHANGED base
  BY DEF AddV4
<1>4. CASE ~sampled.used /\ e' = sampled.e /\ UNCHANGED <<adding, workerVars>>
  <2>1. EstimatorInv' /\ Lasting
    BY <1>1, <1>3, <1>4, BoundedSound DEF Inv, EstimatorInv
  <2>2. WorkerInv' /\ UNCHANGED Mail!mailVars
    BY <1>4 DEF workerVars, Inv, WorkerInv, WorkerTypes, OneCall, NumbersGrow, EachOnce,
          InHand, Waiting, Coming, Mail!mailVars, Number
  <2>3. QED
    BY <2>1, <2>2 DEF StepOK, Inv
<1>5. CASE /\ sampled.used
           /\ e' = [x EXCEPT !.requestAt = x.newest, !.long = Long(x)]
           /\ adding' = [updated |-> Updates(sampled.e)]
           /\ Submit(Request(x))
  <2>1. Sound(e') /\ Follows(e, e')
    <3>1. x \in Estimators /\ x.newest \in Times /\ Long(x) \in BOOLEAN
      BY <1>2 DEF Sound, Estimators, Long
    <3> HIDE DEF x
    <3>2. /\ e' \in Estimators /\ e'.fit = x.fit
          /\ e'.strategy = x.strategy /\ e'.epoch = x.epoch /\ e'.rev = x.rev
          /\ e'.state = x.state /\ e'.transform = x.transform /\ e'.shown = x.shown
      BY <1>5, <3>1 DEF Estimators
    <3>3. Sound(e') /\ Follows(x, e')
      BY <1>2, <3>2, SameSound DEF Sound
    <3>4. QED
      BY <1>2, <3>3, FollowsIsTransitive DEF Inv, EstimatorInv
  <2>2. adding' \in [updated : BOOLEAN]
    <3>1. Updates(sampled.e) \in BOOLEAN
      BY DEF Updates
    <3>2. QED
      BY <1>5, <3>1
  <2>3. EstimatorInv' /\ Lasting
    BY <1>3, <2>1, <2>2, BoundedSound DEF Inv
  <2>4. Request(x) \in Asked
    <3>1. x.epoch \in Nat /\ x.newest \in 1..MaxTime /\ Long(x) \in BOOLEAN
      BY <1>2, <1>5 DEF Sound, Estimators, Long
    <3>2. QED
      BY <3>1, Bounds DEF Request, Asked, Requests
  <2>5. WorkerInv'
    BY <1>5, <2>4, SubmitPreserves DEF Inv
  <2>6. [Mail!MailNext]_(Mail!mailVars)
    BY <1>5, CollectIsMail DEF Submit
  <2>7. QED
    BY <2>3, <2>5, <2>6 DEF StepOK, Inv
<1>6. CASE /\ \E outcome \in Outcomes : e' = OffsetFitted(x, Updates(sampled.e), outcome)
           /\ Poll /\ UNCHANGED adding
  <2>1. Updates(sampled.e) \in BOOLEAN
    BY DEF Updates
  <2> HIDE DEF x, sampled
  <2>2. Sound(e') /\ Follows(x, e')
    BY <1>2, <1>6, <2>1, OffsetFittedSound
  <2>3. Follows(e, e')
    BY <1>2, <2>2, FollowsIsTransitive DEF Inv, EstimatorInv
  <2>4. EstimatorInv' /\ Lasting
    BY <1>3, <1>6, <2>2, <2>3, BoundedSound DEF Inv, EstimatorInv
  <2>5. WorkerInv' /\ [Mail!MailNext]_(Mail!mailVars)
    BY <1>6, PollPreserves, CollectIsMail DEF Inv, Poll
  <2>6. QED
    BY <2>4, <2>5 DEF StepOK, Inv
<1>7. QED
  BY <1>4, <1>5, <1>6 DEF AddV4

\* The rest of a call that has asked for a fit.
LEMMA AddEndSteps ==
  ASSUME Inv, AddEnd
  PROVE  StepOK
<1> DEFINE x == Consumed(e)
           updated == Updates(e) \/ adding.updated
<1>1. Sound(x) /\ Follows(e, x)
  BY ConsumedSound DEF Inv, EstimatorInv, WorkerInv, WorkerTypes
<1>2. updated \in BOOLEAN
  OBVIOUS
<1>3. /\ \E outcome \in Outcomes : e' = OffsetFitted(x, updated, outcome)
      /\ adding' = None /\ Poll /\ UNCHANGED base /\ Bounded
  BY DEF AddEnd
<1> HIDE DEF x, updated
<1>4. Sound(e') /\ Follows(x, e')
  BY <1>1, <1>2, <1>3, OffsetFittedSound
<1>5. Follows(e, e')
  BY <1>1, <1>4, FollowsIsTransitive DEF Inv, EstimatorInv
<1>6. EstimatorInv' /\ Lasting
  BY <1>3, <1>4, <1>5, BoundedSound DEF Inv, EstimatorInv
<1>7. WorkerInv' /\ [Mail!MailNext]_(Mail!mailVars)
  BY <1>3, PollPreserves, CollectIsMail DEF Inv, Poll
<1>8. QED
  BY <1>6, <1>7 DEF StepOK, Inv

LEMMA ResetSteps ==
  ASSUME Inv, Reset
  PROVE  StepOK
<1>1. e' = ResetOf(e) /\ UNCHANGED <<base, adding, workerVars>> /\ Bounded
  BY DEF Reset
<1>2. Sound(e') /\ Follows(e, e')
  BY <1>1, ResetSound DEF Inv, EstimatorInv
<1>3. EstimatorInv' /\ Lasting
  BY <1>1, <1>2, BoundedSound DEF Inv, EstimatorInv
<1>4. WorkerInv' /\ UNCHANGED Mail!mailVars
  BY <1>1 DEF workerVars, Inv, WorkerInv, WorkerTypes, OneCall, NumbersGrow, EachOnce,
        InHand, Waiting, Coming, Mail!mailVars, Number
<1>5. QED
  BY <1>3, <1>4 DEF StepOK, Inv

\* Another estimator, whose revisions go on from those of the old one.
LEMMA ReplaceSteps ==
  ASSUME Inv, NEW strategy \in Strategies, ReplaceBy(strategy)
  PROVE  StepOK
<1>1. /\ e' = Fresh(strategy, e.epoch, 0) /\ base' = base + e.transform.rev + 1
      /\ NewWorker /\ UNCHANGED adding /\ Bounded
  BY DEF ReplaceBy
<1>2. /\ e.epoch \in Nat \ {0} /\ e.epoch <= MaxEpoch /\ e.transform.rev \in Nat
      /\ base \in Nat /\ MaxRevision \in Nat
  BY Bounds DEF Inv, EstimatorInv, Sound, Estimators
<1>3. Sound(e') /\ e'.epoch = e.epoch /\ e'.rev = 0 /\ e'.transform.rev = 0
  <2>1. e'.epoch = e.epoch /\ e'.rev = 0 /\ e'.transform.rev = 0
    BY <1>1 DEF Fresh, NoTransform
  <2>2. QED
    BY <1>1, <1>2, <2>1, FreshSound
<1>4. base' \in 0..MaxRevision
  BY <1>1, <1>2, <1>3 DEF Bounded
<1>5. Sound(e)'
  BY <1>3 DEF Sound, Estimators, Times
<1>6. EstimatorInv'
  BY <1>1, <1>2, <1>3, <1>4, <1>5 DEF Inv, EstimatorInv
<1>7. Lasting
  BY <1>1, <1>2, <1>3 DEF Lasting, Revision
<1>8. WorkerInv'
  BY <1>1, NewPreserves
<1>9. Mail!Replace
  <2>1. queue' = None /\ taken' = None /\ results' = <<>>
    BY <1>1 DEF NewWorker
  <2>2. QED
    BY <2>1 DEF Mail!Replace, Number
<1>10. QED
  BY <1>6, <1>7, <1>8, <1>9 DEF StepOK, Inv, Mail!MailNext

LEMMA WorkerSteps ==
  ASSUME Inv, (Free /\ CloseBegin) \/ CallStep \/ Take \/ (\E q \in Qualities : Solve(q)),
         UNCHANGED <<e, base, adding>>
  PROVE  StepOK
<1>1. EstimatorInv' /\ Lasting
  <2>1. e.epoch \in Nat /\ e.rev \in Nat
    BY DEF Inv, EstimatorInv, Sound, Estimators
  <2>2. Follows(e, e')
    BY <2>1 DEF Follows
  <2>3. Sound(e)'
    BY DEF Sound, Estimators, Times, Inv, EstimatorInv
  <2>4. QED
    BY <2>2, <2>3 DEF Inv, EstimatorInv, Lasting
<1>2. CASE Free /\ CloseBegin
  <2>1. WorkerInv'
    BY <1>2, ClosePreserves DEF Inv, Free
  <2>2. UNCHANGED Mail!mailVars
    BY <1>2, MailStutters DEF CloseBegin, Number
  <2>3. QED
    BY <1>1, <2>1, <2>2 DEF StepOK, Inv
<1>3. CASE CallStep
  BY <1>1, <1>3, CallPreserves, CallIsMail DEF StepOK, Inv
<1>4. CASE Take
  BY <1>1, <1>4, TakePreserves, TakeIsMail DEF StepOK, Inv
<1>5. CASE \E q \in Qualities : Solve(q)
  BY <1>1, <1>5, SolvePreserves, SolveIsMail DEF StepOK, Inv
<1>6. QED
  BY <1>2, <1>3, <1>4, <1>5

LEMMA NextSteps == Inv /\ Next => StepOK
<1> SUFFICES ASSUME Inv, Next PROVE StepOK
  OBVIOUS
<1>1. CASE \E s \in Samples : Add(s)
  BY <1>1, AddV3Steps, AddV4Steps DEF Add, Free
<1>2. CASE AddEnd
  BY <1>2, AddEndSteps
<1>3. CASE Reset
  BY <1>3, ResetSteps
<1>4. CASE \E strategy \in Strategies : ReplaceBy(strategy)
  BY <1>4, ReplaceSteps
<1>5. CASE Close
  BY <1>5, WorkerSteps DEF Close
<1>6. CASE WorkerStep
  BY <1>6, WorkerSteps DEF WorkerStep
<1>7. QED
  BY <1>1, <1>2, <1>3, <1>4, <1>5, <1>6 DEF Next

LEMMA Inductive == Inv /\ [Next]_vars => Inv' /\ [Mail!MailNext]_(Mail!mailVars)
<1> SUFFICES ASSUME Inv, [Next]_vars PROVE Inv' /\ [Mail!MailNext]_(Mail!mailVars)
  OBVIOUS
<1>1. CASE Next
  BY <1>1, NextSteps DEF StepOK
<1>2. CASE UNCHANGED vars
  <2>1. EstimatorInv'
    BY <1>2 DEF vars, Inv, EstimatorInv, Sound, Estimators, Times
  <2>2. WorkerInv' /\ UNCHANGED Mail!mailVars
    BY <1>2 DEF vars, workerVars, Inv, WorkerInv, WorkerTypes, OneCall, NumbersGrow, EachOnce,
          InHand, Waiting, Coming, Mail!mailVars, Number
  <2>3. QED
    BY <2>1, <2>2 DEF Inv
<1>3. QED
  BY <1>1, <1>2

LEMMA Invariance == Spec => []Inv
<1>1. Init => Inv
  BY InitEstablishes
<1>2. Inv /\ [Next]_vars => Inv'
  BY Inductive
<1>3. QED
  BY <1>1, <1>2, PTL DEF Spec

-----------------------------------------------------------------------------
(* What follows from it.                                                   *)

\* Whatever the worker's thread does between the three calls of a submission, the
\* item that is put finds room: the lock lets one call at a time reach the queue.
THEOREM QueueIsNeverFull == Spec => []NeverFull
<1>1. Inv => NeverFull
  BY DEF Inv, WorkerInv, NeverFull
<1>2. QED
  BY <1>1, Invariance, PTL

\* Whoever holds the lock finds types, fit, transform and displayed state that belong
\* together; a fit of an epoch that has ended is not taken over.
THEOREM EstimatorIsSound == Spec => []FitSound
<1>1. Inv => FitSound
  <2> SUFFICES ASSUME Inv PROVE FitSound
    OBVIOUS
  <2>1. Sound(e) /\ e \in Estimators
    BY DEF Inv, EstimatorInv, Sound
  <2>2. FitOfThisEpoch /\ StateNamesTransform
    BY <2>1 DEF Sound, FitOfThisEpoch, StateNamesTransform
  <2>3. Cardinality(calls) <= 1
    <3>1. calls = {} \/ \E c : calls = {c}
      BY DEF Inv, WorkerInv, OneCall
    <3>2. CASE calls = {}
      BY <3>2, FS_EmptySet
    <3>3. CASE \E c : calls = {c}
      <4>1. Cardinality(calls) = 1
        BY <3>3, FS_Singleton
      <4>2. QED
        BY <4>1
    <3>4. QED
      BY <3>1, <3>2, <3>3
  <2>4. Len(results) <= submitted /\ completed <= submitted
    <3>1. InHand \in Nat /\ Waiting \in Nat /\ Coming \in Nat
      BY DEF InHand, Waiting, Coming
    <3>2. Len(results) \in Nat /\ submitted \in Nat /\ completed <= submitted
      BY LenProperties DEF Inv, WorkerInv, WorkerTypes
    <3>3. Len(results) + InHand + Waiting + Coming <= submitted
      BY DEF Inv, WorkerInv, EachOnce
    <3>4. QED
      BY <3>1, <3>2, <3>3
  <2>5. /\ e.epoch \in 1..MaxEpoch /\ e.rev \in 0..MaxRevision
        /\ e.transform.epoch = e.epoch /\ e.transform.rev = e.rev /\ e.shown = e.rev
        /\ e.fit.epoch \in {None, e.epoch}
        /\ MaxEpoch \in Nat /\ MaxRevision \in Nat
    BY <2>1, Bounds DEF Inv, EstimatorInv, Sound, Estimators
  <2>6. e.transform \in [usable : BOOLEAN, locked : BOOLEAN, epoch : 1..MaxEpoch,
                         rev : 0..MaxRevision]
    BY <2>1, <2>5 DEF Estimators
  <2>7. e.fit \in [quality : Qualities, epoch : (1..MaxEpoch) \cup {None}]
    BY <2>1, <2>5 DEF Estimators
  <2>8. TypeOK
    BY <2>1, <2>3, <2>4, <2>5, <2>6, <2>7 DEF TypeOK, Inv, EstimatorInv, Estimators, Times
  <2>9. QED
    BY <2>2, <2>8 DEF FitSound
<1>2. QED
  BY <1>1, Invariance, PTL

\* A locked transform is given up with its epoch only, and every other transform has a
\* greater revision, across resets and changes of strategy.
THEOREM TransformsAreFollowed == Spec => TransformsFollow
<1>1. Inv /\ [Next]_vars =>
        /\ [e.transform.locked /\ e'.epoch = e.epoch /\ base' = base => e'.transform.locked]_vars
        /\ [/\ Revision' >= Revision
            /\ e'.transform # e.transform => Revision' > Revision]_vars
  <2> SUFFICES ASSUME Inv, Next
               PROVE  /\ e.transform.locked /\ e'.epoch = e.epoch /\ base' = base
                            => e'.transform.locked
                      /\ Revision' >= Revision
                      /\ e'.transform # e.transform => Revision' > Revision
    OBVIOUS
  <2>1. Lasting /\ Inv'
    BY NextSteps DEF StepOK
  <2>2. /\ e.transform.rev = e.rev /\ e'.transform.rev = e'.rev
        /\ e.rev \in Nat /\ e'.rev \in Nat /\ base \in Nat /\ base' \in Nat
    BY <2>1, Bounds DEF Inv, EstimatorInv, Sound, Estimators
  <2>3. CASE base' = base /\ Follows(e, e')
    BY <2>2, <2>3 DEF Follows, Revision
  <2>4. CASE base' > base /\ Revision' > Revision
    <3>1. Revision \in Nat /\ Revision' \in Nat
      BY <2>2 DEF Revision
    <3>2. QED
      BY <2>2, <2>4, <3>1
  <2>5. QED
    BY <2>1, <2>3, <2>4 DEF Lasting
<1>2. QED
  BY <1>1, Invariance, PTL DEF Spec, TransformsFollow, LockIsKept, RevisionNamesTransform

\* The worker, its queue and the calls that reach it implement the mailbox.
THEOREM WorkerIsAMailbox == Spec => IsAMailbox
<1>1. Init => Mail!MailInit
  BY InitEstablishes
<1>2. Inv /\ [Next]_vars => [Mail!MailNext]_(Mail!mailVars)
  BY Inductive
<1>3. QED
  BY <1>1, <1>2, Invariance, PTL DEF Spec, IsAMailbox, Mail!MailSpec
=============================================================================
