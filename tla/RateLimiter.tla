---------------------------- MODULE RateLimiter ----------------------------
(***************************************************************************)
(* The api-gateway's rate limiter (internal/middleware/ratelimit.go), for  *)
(* the requests of one tenant: the bucket the map has for it, the buckets  *)
(* requests still hold, and the clean-up that drops a bucket not seen for  *)
(* ten minutes.  A request takes the map's lock to look a bucket up and to *)
(* insert one; lastSeen it writes without the lock, so the clean-up may    *)
(* come between any two of its steps.                                      *)
(***************************************************************************)
EXTENDS Integers, Sequences, FiniteSets

CONSTANTS
  Threads,     \* requests served together
  Burst,
  MaxBuckets,  \* bound: buckets made
  MaxRefills   \* bound: tokens that drip in within a period

ASSUME LimitAssumption == Burst \in Nat /\ MaxBuckets \in Nat /\ MaxRefills \in Nat

VARIABLES
  mapped,    \* the bucket in the map, 0 for none
  buckets,   \* tokens and lastSeen of each
  request,   \* where the requests stand, and the bucket they hold
  admitted,  \* history: requests let through in this period
  refilled,  \* history: tokens that dripped in, in this period
  dropped    \* history: buckets dropped while they mattered, in this period

limitVars == <<mapped, buckets, request, admitted, refilled, dropped>>

Bucket == [tokens : 0..Burst, seen : {"never", "lately", "long ago"}]

LimitInit ==
  /\ mapped = 0 /\ buckets = <<>>
  /\ request = [r \in Threads |-> [at |-> "new", bucket |-> 0]]
  /\ admitted = 0 /\ refilled = 0 /\ dropped = 0

LimitTypeOK ==
  /\ mapped \in 0..Len(buckets)
  /\ buckets \in Seq(Bucket) /\ Len(buckets) <= MaxBuckets
  /\ request \in [Threads -> [at : {"new", "insert", "touch", "allow"},
                              bucket : 0..Len(buckets)]]
  /\ admitted \in Nat /\ refilled \in 0..MaxRefills /\ dropped \in 0..MaxBuckets

Holds(r, b) == request' = [request EXCEPT ![r] = [at |-> "touch", bucket |-> b]]

LookUp(r) ==
  /\ request[r].at = "new"
  /\ IF mapped # 0 THEN Holds(r, mapped)
                   ELSE request' = [request EXCEPT ![r].at = "insert"]
  /\ UNCHANGED <<mapped, buckets, admitted, refilled, dropped>>

NewBucket(r) ==
  /\ Len(buckets) < MaxBuckets
  /\ buckets' = Append(buckets, [tokens |-> Burst, seen |-> "never"])
  /\ mapped' = Len(buckets) + 1
  /\ Holds(r, Len(buckets) + 1)

\* Mutant: does not look again under the lock.
InsertUnchecked(r) ==
  /\ request[r].at = "insert"
  /\ NewBucket(r)
  /\ UNCHANGED <<admitted, refilled, dropped>>

\* Another request may have inserted one in the meantime.
Insert(r) ==
  /\ request[r].at = "insert"
  /\ \/ mapped # 0 /\ Holds(r, mapped) /\ UNCHANGED <<mapped, buckets>>
     \/ mapped = 0 /\ NewBucket(r)
  /\ UNCHANGED <<admitted, refilled, dropped>>

Touch(r) ==
  /\ request[r].at = "touch"
  /\ buckets' = [buckets EXCEPT ![request[r].bucket].seen = "lately"]
  /\ request' = [request EXCEPT ![r].at = "allow"]
  /\ UNCHANGED <<mapped, admitted, refilled, dropped>>

\* A request without a token is answered with 429.
Allow(r) ==
  /\ request[r].at = "allow"
  /\ LET b == request[r].bucket IN
       \/ /\ buckets[b].tokens > 0
          /\ buckets' = [buckets EXCEPT ![b].tokens = @ - 1]
          /\ admitted' = admitted + 1
       \/ buckets[b].tokens = 0 /\ UNCHANGED <<buckets, admitted>>
  /\ request' = [request EXCEPT ![r] = [at |-> "new", bucket |-> 0]]
  /\ UNCHANGED <<mapped, refilled, dropped>>

Drip(b) ==
  /\ b \in DOMAIN buckets /\ buckets[b].tokens < Burst /\ refilled < MaxRefills
  /\ buckets' = [buckets EXCEPT ![b].tokens = @ + 1]
  /\ refilled' = refilled + 1
  /\ UNCHANGED <<mapped, request, admitted, dropped>>

InUse(b) == \E r \in Threads : request[r].bucket = b

\* Dropping it gives the tenant more than it had.
Matters(b) == InUse(b) \/ buckets[b].tokens < Burst

\* Ten minutes in which the bucket was not seen fill every bucket, as they do at
\* the default rate (at less than Burst tokens in ten minutes they would not);
\* a period of the count begins.
TenMinutesPass ==
  /\ buckets # <<>>
  /\ buckets' = [b \in DOMAIN buckets |->
                  [tokens |-> Burst,
                   seen |-> IF buckets[b].seen = "lately" THEN "long ago" ELSE buckets[b].seen]]
  /\ admitted' = 0 /\ refilled' = 0
  /\ dropped' = Cardinality({b \in DOMAIN buckets : b # mapped /\ InUse(b)})
  /\ UNCHANGED <<mapped, request>>

\* A bucket that was never seen has a lastSeen of the year 1.
CleanUp ==
  /\ mapped # 0 /\ buckets[mapped].seen # "lately"
  /\ mapped' = 0
  /\ dropped' = IF Matters(mapped) THEN dropped + 1 ELSE dropped
  /\ UNCHANGED <<buckets, request, admitted, refilled>>

LimitNext ==
  \/ \E r \in Threads : LookUp(r) \/ Insert(r) \/ Touch(r) \/ Allow(r)
  \/ \E b \in 1..MaxBuckets : Drip(b)
  \/ TenMinutesPass
  \/ CleanUp

\* The limiter on its own.
LimitSpec == LimitInit /\ [][LimitNext]_limitVars

-----------------------------------------------------------------------------
\* A tenant gets the burst and the rate of one bucket, however its requests
\* race to create it.  What the clean-up gives away is granted, not excluded:
\* one burst more for each time it drops a bucket that a request holds, or
\* that one has used ten minutes after it touched it.
OneBurst == admitted <= Burst * (1 + dropped) + refilled
=============================================================================
