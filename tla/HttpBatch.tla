------------------------------ MODULE HttpBatch ------------------------------
(***************************************************************************)
(* What http::multiGet, multiPost and multiPostForm promise their callers: *)
(* each request of the batch is answered once, by its own answer or by an  *)
(* error, and the call returns the answers or throws when one failed, but  *)
(* not before every request has been dealt with.                           *)
(***************************************************************************)
EXTENDS Integers

VARIABLES size,     \* number of requests
          answers,  \* request -> Unanswered, Failed or the request it answers
          outcome   \* "pending", "returned" or "thrown"

batchVars == <<size, answers, outcome>>

Unanswered == 0
Failed == -1

BatchInit ==
    /\ size \in Nat
    /\ answers = [i \in 1 .. size |-> Unanswered]
    /\ outcome = "pending"

Answer(i) ==
    /\ outcome = "pending"
    /\ answers[i] = Unanswered
    /\ answers' \in {[answers EXCEPT ![i] = a] : a \in {i, Failed}}
    /\ UNCHANGED <<size, outcome>>

Finish ==
    /\ outcome = "pending"
    /\ \A i \in 1 .. size : answers[i] # Unanswered
    /\ outcome' = IF \E i \in 1 .. size : answers[i] = Failed
                    THEN "thrown" ELSE "returned"
    /\ UNCHANGED <<size, answers>>

BatchNext == (\E i \in 1 .. size : Answer(i)) \/ Finish

BatchSpec == BatchInit /\ [][BatchNext]_batchVars
=============================================================================
