---------------------------- MODULE RenderService ----------------------------
(***************************************************************************)
(* What the brokers promise to the handlers, with no queue and no worker:  *)
(* a request that a broker has accepted stays pending there until one      *)
(* answer goes out for its metatile, and then all the requests that wait   *)
(* for that metatile are settled together.  Interactive requests get one   *)
(* answer, ever; the others (bulk, dirty) are settled silently.  The       *)
(* operator may clear a broker, which forgets what is pending there.       *)
(***************************************************************************)
EXTENDS Naturals

CONSTANTS
  Brokers,
  Requests,
  Interactive,  \* the requests whose sender waits for an answer
  key           \* key[r]: the metatile that request r asks for

VARIABLES
  pending,      \* pending[b]: accepted by broker b and not settled
  answers,      \* answers[r]: how many answers were sent for r
  closed        \* settled without an answer

serviceVars == <<pending, answers, closed>>

ServiceInit ==
  /\ pending = [b \in Brokers |-> {}]
  /\ answers = [r \in Requests |-> 0]
  /\ closed = {}

Known(r) == (\E b \in Brokers : r \in pending[b]) \/ answers[r] > 0 \/ r \in closed

Accept(b, r) ==
  /\ ~Known(r)
  /\ pending' = [pending EXCEPT ![b] = @ \cup {r}]
  /\ UNCHANGED <<answers, closed>>

Settle(b, k) ==
  LET S == {r \in pending[b] : key[r] = k}
  IN  /\ S # {}
      /\ pending' = [pending EXCEPT ![b] = @ \ S]
      /\ answers' = [r \in Requests |-> IF r \in S \cap Interactive THEN 1 ELSE answers[r]]
      /\ closed' = closed \cup (S \ Interactive)

Forget(b) ==
  /\ pending' = [pending EXCEPT ![b] = {}]
  /\ closed' = closed \cup pending[b]
  /\ UNCHANGED answers

ServiceNext ==
  \E b \in Brokers :
     \/ \E r \in Requests : Accept(b, r)
     \/ \E k \in {key[r] : r \in Requests} : Settle(b, k)
     \/ Forget(b)

ServiceSpec == ServiceInit /\ [][ServiceNext]_serviceVars
=============================================================================
