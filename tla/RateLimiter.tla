---------------------------- MODULE RateLimiter -----------------------------
(***************************************************************************)
(* The token bucket of each user (internal/ratelimit), which the gateways   *)
(* ask before they handle a request.  Rate tokens are added in Minute ticks *)
(* of the clock; a bucket counts in parts of 1/Minute token, so that        *)
(* nothing is rounded.                                                      *)
(***************************************************************************)
EXTENDS Integers, Functions

CONSTANTS
  Users,
  RequestsPerMinute, BurstSize,  \* Config
  Minute,                        \* ticks of a minute
  LastTime                       \* bound: the clock stops there

VARIABLES
  time,
  bucket,   \* the bucket of each user; made by the first request
  allowed   \* history: requests of each user let through at each time

vars == <<time, bucket, allowed>>

Times == 0..LastTime

Burst == IF BurstSize > 0 THEN BurstSize ELSE IF RequestsPerMinute > 0 THEN RequestsPerMinute ELSE 1

NoBucket == [tokens |-> -1, lastFill |-> 0]

Init ==
  /\ time = 0
  /\ bucket = [u \in Users |-> NoBucket]
  /\ allowed = [u \in Users |-> [t \in Times |-> 0]]

Tick == time < LastTime /\ time' = time + 1 /\ UNCHANGED <<bucket, allowed>>

\* Mutant: the bucket holds whatever is added to it.
RefilledUncapped(u) ==
  IF bucket[u] = NoBucket THEN Burst * Minute
  ELSE bucket[u].tokens + (time - bucket[u].lastFill) * RequestsPerMinute

\* The bucket at this time, full at the first request.
Refilled(u) ==
  LET filled == bucket[u].tokens + (time - bucket[u].lastFill) * RequestsPerMinute IN
    IF bucket[u] = NoBucket \/ filled > Burst * Minute THEN Burst * Minute ELSE filled

Allow(u) ==
  /\ RequestsPerMinute > 0
  /\ LET ok == Refilled(u) >= Minute IN
       /\ bucket' = [bucket EXCEPT ![u] = [tokens |-> Refilled(u) - (IF ok THEN Minute ELSE 0),
                                           lastFill |-> time]]
       /\ allowed' = [allowed EXCEPT ![u][time] = IF ok THEN @ + 1 ELSE @]
  /\ UNCHANGED time

Next == Tick \/ \E u \in Users : Allow(u)

Spec == Init /\ [][Next]_vars

-----------------------------------------------------------------------------

\* One more request of u fits into every period that ends now: the burst, and
\* what the rate adds in the period.
Fits(u) ==
  \A t \in 0..time :
    (SumFunctionOnSet(allowed[u], t..time) + 1) * Minute <= Burst * Minute + (time - t) * RequestsPerMinute

\* The lazily filled bucket lets a request through exactly when it fits into every
\* period before it, however requests, refusals and pauses of this user and of the
\* others alternate: no period exceeds burst and rate, and no request is refused
\* that would not exceed them.
LimitIsExact ==
  [][\A u \in Users : bucket'[u] # bucket[u] =>
       (allowed'[u] # allowed[u]) = Fits(u)]_vars

=============================================================================
