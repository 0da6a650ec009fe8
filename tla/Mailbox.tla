-------------------------------- MODULE Mailbox --------------------------------
(***************************************************************************)
(* What a background worker promises to those who post work to it: the     *)
(* work posted last is what is waiting, one piece of work is in hand, and  *)
(* answers are given in the order in which the work was posted, at most    *)
(* one for each.                                                           *)
(***************************************************************************)
EXTENDS Integers, Sequences

CONSTANT Nobody     \* nothing waits, nothing is in hand

VARIABLES
    waiting,        \* the number of the work that waits
    hand,           \* the number of the work in hand
    answers         \* numbers of the answers that nobody has taken yet

mailVars == <<waiting, hand, answers>>

MailInit == waiting = Nobody /\ hand = Nobody /\ answers = <<>>

Later(n) ==
    /\ waiting # Nobody => n > waiting
    /\ hand # Nobody => n > hand
    /\ \A i \in DOMAIN answers : n > answers[i]

\* Work replaces what waits; what waits can be dropped before its successor comes.
Post == /\ waiting' \in Nat /\ Later(waiting') /\ UNCHANGED <<hand, answers>>
Drop == waiting # Nobody /\ waiting' = Nobody /\ UNCHANGED <<hand, answers>>
Begin == /\ waiting # Nobody /\ hand = Nobody
         /\ hand' = waiting /\ waiting' = Nobody /\ UNCHANGED answers
Answer == /\ hand # Nobody /\ answers' = Append(answers, hand)
          /\ hand' = Nobody /\ UNCHANGED waiting
Collect == answers' = <<>> /\ UNCHANGED <<waiting, hand>>

\* Another worker takes the place of this one.
Replace == waiting' = Nobody /\ hand' = Nobody /\ answers' = <<>>

MailNext == Post \/ Drop \/ Begin \/ Answer \/ Collect \/ Replace

MailSpec == MailInit /\ [][MailNext]_mailVars
=============================================================================
