------------------------------ MODULE Requests ------------------------------
(***************************************************************************)
(* The API requests one detector process has in flight.  A request is a    *)
(* goroutine; its record says which operation it is in, at which step, and *)
(* what it has read so far.                                                *)
(***************************************************************************)
EXTENDS Naturals

CONSTANTS
  Req,      \* the requests that can be in flight together
  None,     \* no value: a NULL column, a nil client, no cluster ID
  MaxOps    \* bound: operations begun in a run

ASSUME RequestsAssumption == MaxOps \in Nat

VARIABLES
  req,   \* request -> [op, step, ...]
  ops    \* operations begun

NoOp == [op |-> "none", step |-> "none"]

RequestsInit == req = [r \in Req |-> NoOp] /\ ops = 0

In(r, op, step) == req[r].op = op /\ req[r].step = step

Budget == ops < MaxOps /\ ops' = ops + 1

\* A request takes any record that is free: they are all alike.
Begin(r, x) ==
  /\ \E q \in Req : req[q] = NoOp
  /\ r = CHOOSE q \in Req : req[q] = NoOp
  /\ Budget /\ req' = [req EXCEPT ![r] = x]

To(r, step) == req' = [req EXCEPT ![r] = [@ EXCEPT !.step = step]]

Reply(r) == req' = [req EXCEPT ![r] = NoOp]

Put(f, k, v) == [x \in DOMAIN f \cup {k} |-> IF x = k THEN v ELSE f[x]]
Without(f, k) == [x \in DOMAIN f \ {k} |-> f[x]]
Nothing == [x \in {} |-> None]
=============================================================================
