------------------------------ MODULE Limiters ------------------------------
(***************************************************************************)
(* The limiters that count over time: the token buckets of API keys and of *)
(* tenants (ratelimit.rs), and the windows that bound failed logins        *)
(* (login_limiter.rs).  Each call is one lock; a login checks, verifies a  *)
(* password in another task and records the outcome only then.             *)
(* One tick is the time in which a bucket gains one token; buckets are     *)
(* refilled lazily, from their age.  Windows end by themselves.            *)
(***************************************************************************)
EXTENDS Naturals, FiniteSets, FiniteSetsExt

CONSTANTS
    KeyIds,             \* API keys, whose buckets are swept when they are idle
    TenantIds,          \* tenants, whose buckets are not
    Capacity,           \* tokens of a full bucket: requests_per_minute, when it is not 0
    IdleTtl,            \* IDLE_BUCKET_TTL in ticks; longer ages are not told apart
    MaxTicks,           \* bound on the clock
    Usernames,          \* normalized user names
    Attempts,           \* login requests that run at the same time
    UserLimit,          \* USER_LIMIT
    GlobalLimit,        \* GLOBAL_LIMIT
    Nobody

ASSUME LimitersAssumption ==
    /\ Capacity \in Nat \ {0} /\ IdleTtl \in Nat /\ MaxTicks \in Nat
    /\ UserLimit \in Nat \ {0} /\ GlobalLimit \in Nat \ {0}
    /\ KeyIds \cap TenantIds = {} /\ Nobody \notin Usernames /\ IsFiniteSet(Attempts)

VARIABLES
    map,                \* per id: its bucket, tokens and age, and whether there is one
    clock,              \* ticks so far
    passed, evicted,    \* per id: requests its buckets let through; it was evicted
    users, global,      \* failures in the window of a user, and of all; 0 without an active one
    attempt             \* per login: the user name it verifies, Nobody when it is not running

Ids        == KeyIds \cup TenantIds
bucketVars  == <<map, clock, passed, evicted>>
loginVars   == <<users, global, attempt>>
limiterVars == <<bucketVars, loginVars>>

(* the one that is made when there is none is full *)
NoBucket == [there |-> FALSE, tokens |-> Capacity, age |-> 0]

LimitersInit ==
    /\ map = [i \in Ids |-> NoBucket]
    /\ clock = 0 /\ passed = [i \in Ids |-> 0] /\ evicted = {}
    /\ users = [u \in Usernames |-> 0] /\ global = 0
    /\ attempt = [a \in Attempts |-> Nobody]

-----------------------------------------------------------------------------
(* token buckets *)

Refilled(b) == Min({b.tokens + b.age, Capacity})

(* what sweep does not retain *)
Idle(b) == b.there /\ b.age >= IdleTtl /\ Refilled(b) >= Capacity

(* take the bucket or make a full one, refill it, spend a token if there is one *)
Spent(i) ==
    LET has == Refilled(map[i]) IN
    [map EXCEPT ![i] = [there |-> TRUE, age |-> 0, tokens |-> IF has >= 1 THEN has - 1 ELSE has]]

CountPassed(i) == passed' = [passed EXCEPT ![i] = IF Refilled(map[i]) >= 1 THEN @ + 1 ELSE @]

(* RateLimiter::try_acquire, which sweeps its map every now and then *)
TryAcquire(i) ==
    /\ i \in KeyIds /\ CountPassed(i)
    /\ \/ map' = Spent(i)
       \/ map' = [j \in Ids |-> IF j \in KeyIds /\ Idle(Spent(i)[j]) THEN NoBucket ELSE Spent(i)[j]]
    /\ UNCHANGED <<clock, evicted, loginVars>>

(* TenantRateLimiter::try_acquire: a tenant whose requests_per_minute is 0 now is not
   limited, and no bucket is looked at *)
TenantTryAcquire(i) ==
    /\ i \in TenantIds
    /\ \/ UNCHANGED <<map, passed>>
       \/ CountPassed(i) /\ map' = Spent(i)
    /\ UNCHANGED <<clock, evicted, loginVars>>

(* the clock of the lazy refill *)
Tick ==
    /\ clock < MaxTicks /\ clock' = clock + 1
    /\ map' = [i \in Ids |-> [map[i] EXCEPT !.age = IF map[i].there THEN Min({@ + 1, IdleTtl}) ELSE 0]]
    /\ UNCHANGED <<passed, evicted, loginVars>>

(* evict, when a key or a tenant is deleted; a request that was authenticated before makes
   a new bucket, which is why an id may have a second one *)
EvictBucket(i) ==
    /\ i \notin evicted /\ evicted' = evicted \cup {i}
    /\ map' = [map EXCEPT ![i] = NoBucket]
    /\ UNCHANGED <<clock, passed, loginVars>>

-----------------------------------------------------------------------------
(* logins *)

Idling(a) == attempt[a] = Nobody
Finish(a) == attempt' = [attempt EXCEPT ![a] = Nobody]

(* mutant of Blocked: one more *)
BlockedAbove(count, limit) == count > limit

Blocked(count, limit) == count >= limit

(* LoginLimiter::check *)
Check(a, u) ==
    /\ Idling(a)
    /\ ~Blocked(global, GlobalLimit) /\ ~Blocked(users[u], UserLimit)
    /\ attempt' = [attempt EXCEPT ![a] = u]
    /\ UNCHANGED <<users, global, bucketVars>>

(* record_failure: in the window of the user and in that of all, new ones if they ended *)
RecordFailure(a) ==
    /\ ~Idling(a)
    /\ users' = [users EXCEPT ![attempt[a]] = @ + 1]
    /\ global' = global + 1
    /\ Finish(a) /\ UNCHANGED bucketVars

(* record_success forgets the window of the user, not the one of all *)
RecordSuccess(a) ==
    /\ ~Idling(a)
    /\ users' = [users EXCEPT ![attempt[a]] = 0]
    /\ Finish(a) /\ UNCHANGED <<global, bucketVars>>

(* the client leaves, or the session cannot be made: nothing is recorded *)
Abandon(a) ==
    /\ ~Idling(a)
    /\ Finish(a) /\ UNCHANGED <<users, global, bucketVars>>

UserWindowEnds(u) ==
    /\ users[u] > 0 /\ users' = [users EXCEPT ![u] = 0]
    /\ UNCHANGED <<global, attempt, bucketVars>>

GlobalWindowEnds ==
    /\ global > 0 /\ global' = 0
    /\ UNCHANGED <<users, attempt, bucketVars>>

BucketStep == Tick \/ \E i \in Ids : TryAcquire(i) \/ TenantTryAcquire(i) \/ EvictBucket(i)

LoginStep ==
    \/ \E a \in Attempts :
          \/ \E u \in Usernames : Check(a, u)
          \/ RecordFailure(a) \/ RecordSuccess(a) \/ Abandon(a)
    \/ \E u \in Usernames : UserWindowEnds(u)
    \/ GlobalWindowEnds

LimitersSpec == LimitersInit /\ [][BucketStep \/ LoginStep]_limiterVars

-----------------------------------------------------------------------------
(* A bucket never lets more through than its capacity and the time allow, however lazily it
   is refilled, whenever idle buckets are swept; once its key or tenant is deleted, the
   requests that were under way share one more (ratelimit.rs). *)
RateBound ==
    \A i \in Ids :
        passed[i] <= clock + (IF i \in evicted THEN 2 * Capacity ELSE Capacity)

(* How far a window of failed logins goes beyond its limit.  Attempts that run at the same
   time all pass check before any of them is recorded, so the limit that login_limiter.rs
   states is exceeded: by at most one failure less than there are attempts at once, for one
   user as for all. *)
GuessBound ==
    LET running(S) == Cardinality({a \in Attempts : attempt[a] \in S})
        most(limit) == limit - 1 + Cardinality(Attempts)
    IN  /\ \A u \in Usernames : users[u] + running({u}) <= most(UserLimit)
        /\ global + running(Usernames) <= most(GlobalLimit)

(* The buckets of keys and tenants keep to their limit, and the login windows go beyond
   theirs by no more than the logins that ran at the same time, which the entry bounds
   (ratelimit.rs, login_limiter.rs). *)
OvershootIsBounded == RateBound /\ GuessBound
=============================================================================
