---------------------------- MODULE RemoteCalls -----------------------------
(***************************************************************************)
(* What a relay session promises those who call send_request: a call is    *)
(* sent once, is taken on by the provider at most once, is answered at     *)
(* most once and only then, and what send_request comes to, which does not *)
(* change any more, is that answer or an exception.  A call that raised    *)
(* may have been taken on all the same, or be so later.                    *)
(***************************************************************************)
EXTENDS Naturals

CONSTANT Requests

VARIABLES asked,    \* asked[r]: how often r was sent
          taken,    \* taken[r]: how often the provider took r on
          answers,  \* answers[r][a]: how often it gave the answer a to r
          result    \* result[r]: what the call came to

Answers == {"response", "error"}
Unanswered == [a \in Answers |-> 0]

Init ==
  /\ asked = [r \in Requests |-> 0]
  /\ taken = [r \in Requests |-> 0]
  /\ answers = [r \in Requests |-> Unanswered]
  /\ result = [r \in Requests |-> "none"]

Raised(r) == [result EXCEPT ![r] = "raised"]

\* The call is sent; it may raise at once.
Ask(r) ==
  /\ asked[r] = 0 /\ result[r] = "none"
  /\ asked' = [asked EXCEPT ![r] = 1]
  /\ result' \in {result, Raised(r)}
  /\ UNCHANGED <<taken, answers>>

TakeOn(r) ==
  /\ asked[r] = 1 /\ taken[r] = 0
  /\ taken' = [taken EXCEPT ![r] = 1]
  /\ UNCHANGED <<asked, answers, result>>

Answer(r, a) ==
  /\ taken[r] = 1 /\ answers[r] = Unanswered
  /\ answers' = [answers EXCEPT ![r] = [Unanswered EXCEPT ![a] = 1]]
  /\ UNCHANGED <<asked, taken, result>>

\* The call raises, sent or not, or returns the answer to it.
Return(r) ==
  /\ result[r] = "none"
  /\ \/ result' = Raised(r)
     \/ \E a \in Answers : answers[r][a] = 1 /\ result' = [result EXCEPT ![r] = a]
  /\ UNCHANGED <<asked, taken, answers>>

Next == \E r \in Requests : Ask(r) \/ TakeOn(r) \/ Return(r) \/ \E a \in Answers : Answer(r, a)

Spec == Init /\ [][Next]_<<asked, taken, answers, result>>
=============================================================================
