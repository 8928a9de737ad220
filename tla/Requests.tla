------------------------------- MODULE Requests -------------------------------
(***************************************************************************)
(* What the models of the smaller services share: goroutines that serve    *)
(* one request each, and a bound on the requests that come.                *)
(***************************************************************************)
EXTENDS Naturals

CONSTANTS Handlers,    \* goroutines: at most this many requests overlap
          MaxRequests, \* bound on the number of requests
          None         \* no value: a NULL, a row that does not exist

Maybe(S) == S \cup {None}

VARIABLE left \* requests still to come

NextRequest == left > 0 /\ left' = left - 1

ASSUME RequestsAssumption == MaxRequests \in Nat

=============================================================================
