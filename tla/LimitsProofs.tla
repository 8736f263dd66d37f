---------------------------- MODULE LimitsProofs ----------------------------
(***************************************************************************)
(* Proofs about Limiters and Entry, for every set of keys, tenants, users, *)
(* concurrent logins and connections and for every limit: how much the     *)
(* limiters let through at most, and that the entry loses no permit,       *)
(* ticket or slot and gives none back twice.                               *)
(***************************************************************************)
EXTENDS Entry, Limiters, FiniteSetTheorems, TLAPS

(* Two subsets of a finite set that differ in x at most: how their sizes differ. *)
LEMMA CountOne ==
    ASSUME NEW S, IsFiniteSet(S), NEW A \in SUBSET S, NEW B \in SUBSET S, NEW x \in S,
           A \ {x} = B \ {x}
    PROVE  /\ Cardinality(A) \in Nat /\ Cardinality(B) \in Nat /\ Cardinality(S) \in Nat
           /\ Cardinality(A) - (IF x \in A THEN 1 ELSE 0) = Cardinality(B) - (IF x \in B THEN 1 ELSE 0)
           /\ Cardinality(A) <= Cardinality(S) /\ Cardinality(B) <= Cardinality(S)
           /\ x \notin A => Cardinality(A) < Cardinality(S)
  <1>1. IsFiniteSet(A) /\ IsFiniteSet(B) /\ Cardinality(A) <= Cardinality(S) /\ Cardinality(B) <= Cardinality(S)
    BY FS_Subset
  <1>2. Cardinality(A) \in Nat /\ Cardinality(B) \in Nat /\ Cardinality(S) \in Nat
    BY <1>1, FS_CardinalityType
  <1>3. Cardinality(A \ {x}) = IF x \in A THEN Cardinality(A) - 1 ELSE Cardinality(A)
    BY <1>1, FS_RemoveElement
  <1>4. Cardinality(B \ {x}) = IF x \in B THEN Cardinality(B) - 1 ELSE Cardinality(B)
    BY <1>1, FS_RemoveElement
  <1>5. x \notin A => Cardinality(A) # Cardinality(S)
    <2> SUFFICES ASSUME x \notin A, Cardinality(S) = Cardinality(A) PROVE FALSE
      OBVIOUS
    <2>1. S = A
      BY FS_Subset
    <2> QED
      BY <2>1
  <1> QED
    BY <1>1, <1>2, <1>3, <1>4, <1>5

-----------------------------------------------------------------------------
(* Limiters *)

(* What a bucket would hold if it were refilled now. *)
LEMMA RefilledIs ==
    ASSUME NEW b, b.tokens \in Nat, b.age \in Nat
    PROVE  /\ Refilled(b) \in Nat /\ Refilled(b) <= Capacity
           /\ Refilled(b) = IF b.tokens + b.age <= Capacity THEN b.tokens + b.age ELSE Capacity
  <1> DEFINE t == b.tokens + b.age
             S == {t, Capacity}
  <1>1. t \in Nat /\ Capacity \in Nat
    BY LimitersAssumption
  <1>2. \E m \in S : \A y \in S : m <= y
    BY <1>1
  <1>3. Min(S) \in S /\ \A y \in S : Min(S) <= y
    BY <1>2 DEF Min
  <1>4. Refilled(b) = Min(S)
    BY DEF Refilled
  <1> QED
    BY <1>1, <1>3, <1>4

Bound(i) == IF i \in evicted THEN 2 * Capacity ELSE Capacity

Bucket == [there : BOOLEAN, tokens : Nat, age : Nat]

(* What was let through and what a bucket would still let through, together, are at most
   what it began with and what time has added; an eviction adds one full bucket. *)
BucketInv ==
    /\ map \in [Ids -> Bucket]
    /\ clock \in Nat /\ passed \in [Ids -> Nat]
    /\ \A i \in Ids : passed[i] + Refilled(map[i]) <= clock + Bound(i)

Running(S) == {a \in Attempts : attempt[a] \in S}

LoginTypeOK ==
    /\ users \in [Usernames -> Nat] /\ global \in Nat
    /\ attempt \in [Attempts -> Usernames \cup {Nobody}]

UserBound(u) == users[u] + Cardinality(Running({u})) <= UserLimit - 1 + Cardinality(Attempts)
AllBound     == global + Cardinality(Running(Usernames)) <= GlobalLimit - 1 + Cardinality(Attempts)

LoginInv ==
    /\ LoginTypeOK
    /\ \A u \in Usernames : UserBound(u)
    /\ AllBound

(* A full bucket, as the one that is not there is. *)
LEMMA NoBucketFull == NoBucket \in Bucket /\ Refilled(NoBucket) = Capacity
  <1>1. NoBucket \in Bucket
    BY LimitersAssumption DEF NoBucket, Bucket
  <1> QED
    BY <1>1, RefilledIs, LimitersAssumption DEF NoBucket, Bucket

(* Every step of the buckets preserves BucketInv. *)
LEMMA BucketNext == BucketInv /\ (BucketStep \/ UNCHANGED bucketVars) => BucketInv'
  <1> SUFFICES ASSUME BucketInv, BucketStep \/ UNCHANGED bucketVars PROVE BucketInv'
    OBVIOUS
  <1>a. \A i \in Ids : map[i] \in Bucket /\ passed[i] \in Nat /\ Bound(i) \in Nat
    BY LimitersAssumption DEF BucketInv, Bound
  <1>b. \A b \in Bucket : Refilled(b) \in Nat /\ Refilled(b) <= Capacity
    BY RefilledIs DEF Bucket
  <1>1. CASE UNCHANGED bucketVars
    BY <1>1 DEF bucketVars, BucketInv, Bound, Refilled
  <1>2. CASE Tick
    <2>1. /\ clock' = clock + 1 /\ UNCHANGED <<passed, evicted>> /\ clock \in Nat
          /\ map' = [i \in Ids |-> [map[i] EXCEPT !.age = IF map[i].there THEN Min({@ + 1, IdleTtl}) ELSE 0]]
      BY <1>2 DEF Tick, BucketInv
    <2>2. ASSUME NEW i \in Ids
          PROVE  map'[i] \in Bucket /\ Refilled(map'[i]) <= Refilled(map[i]) + 1
      <3> DEFINE old == map[i]  new == map'[i]
      <3>1. old \in Bucket
        BY <1>a
      <3>2. Min({old.age + 1, IdleTtl}) \in Nat /\ Min({old.age + 1, IdleTtl}) <= old.age + 1
        <4> DEFINE S == {old.age + 1, IdleTtl}
        <4>1. old.age + 1 \in Nat /\ IdleTtl \in Nat
          BY <3>1, LimitersAssumption DEF Bucket
        <4>2. \E m \in S : \A y \in S : m <= y
          BY <4>1
        <4>3. Min(S) \in S /\ \A y \in S : Min(S) <= y
          BY <4>2 DEF Min
        <4> QED
          BY <4>1, <4>3
      <3>3. new = [old EXCEPT !.age = IF old.there THEN Min({@ + 1, IdleTtl}) ELSE 0]
        BY <2>1
      <3>4. new \in Bucket /\ new.tokens = old.tokens /\ new.age <= old.age + 1
        BY <3>1, <3>2, <3>3 DEF Bucket
      <3> HIDE DEF old, new
      <3>5. /\ Refilled(new) = IF new.tokens + new.age <= Capacity THEN new.tokens + new.age ELSE Capacity
            /\ Refilled(old) = IF old.tokens + old.age <= Capacity THEN old.tokens + old.age ELSE Capacity
        BY <3>1, <3>4, RefilledIs DEF Bucket
      <3>6. new \in Bucket /\ Refilled(new) <= Refilled(old) + 1
        BY <3>1, <3>4, <3>5, LimitersAssumption DEF Bucket
      <3> QED
        BY <3>6 DEF old, new
    <2>3. map' \in [Ids -> Bucket]
      BY <2>1, <2>2
    <2>4. ASSUME NEW i \in Ids PROVE passed'[i] + Refilled(map'[i]) <= clock' + Bound(i)'
      <3>1. Bound(i)' = Bound(i) /\ passed'[i] = passed[i]
        BY <2>1 DEF Bound
      <3>2. Refilled(map'[i]) \in Nat /\ Refilled(map[i]) \in Nat
        BY <1>a, <1>b, <2>2
      <3>3. passed[i] + Refilled(map[i]) <= clock + Bound(i)
        BY DEF BucketInv
      <3> QED
        BY <1>a, <2>1, <2>2, <3>1, <3>2, <3>3
    <2>5. clock' \in Nat /\ passed' \in [Ids -> Nat]
      BY <2>1 DEF BucketInv
    <2> QED
      BY <2>3, <2>4, <2>5 DEF BucketInv, Refilled
  <1>3. ASSUME NEW i \in Ids, TryAcquire(i) \/ TenantTryAcquire(i), ~UNCHANGED bucketVars PROVE BucketInv'
    <2> DEFINE has == Refilled(map[i])
               mine == [there |-> TRUE, age |-> 0, tokens |-> IF has >= 1 THEN has - 1 ELSE has]
               new == [map EXCEPT ![i] = mine]
    <2>1. has \in Nat /\ has <= Capacity
      BY <1>a, <1>b
    <2>2. mine \in Bucket /\ Refilled(mine) = IF has >= 1 THEN has - 1 ELSE has
      <3> HIDE DEF has
      <3>1. mine \in Bucket
        BY <2>1 DEF Bucket
      <3> QED
        BY <2>1, <3>1, RefilledIs, LimitersAssumption DEF Bucket
    <2>3. /\ UNCHANGED <<clock, evicted>>
          /\ passed' = [passed EXCEPT ![i] = IF has >= 1 THEN @ + 1 ELSE @]
          /\ \/ map' = new
             \/ map' = [j \in Ids |-> IF j \in KeyIds /\ Idle(new[j]) THEN NoBucket ELSE new[j]]
      BY <1>3 DEF TryAcquire, TenantTryAcquire, Spent, CountPassed, bucketVars
    <2>4. passed' \in [Ids -> Nat] /\ clock \in Nat
      BY <2>3 DEF BucketInv
    <2>5. ASSUME NEW j \in Ids PROVE new[j] \in Bucket /\ passed'[j] + Refilled(new[j]) <= clock + Bound(j)
      <3>1. passed[j] + Refilled(map[j]) <= clock + Bound(j)
        BY DEF BucketInv
      <3>2. CASE j = i
        <4>1. new[j] = mine /\ passed'[j] = IF has >= 1 THEN passed[j] + 1 ELSE passed[j]
          BY <2>3, <3>2 DEF BucketInv
        <4> QED
          BY <1>a, <2>1, <2>2, <3>1, <3>2, <4>1
      <3>3. CASE j # i
        <4>1. new[j] = map[j] /\ passed'[j] = passed[j]
          BY <2>3, <3>3 DEF BucketInv
        <4> QED
          BY <1>a, <3>1, <4>1
      <3> QED
        BY <3>2, <3>3
    <2>6. ASSUME NEW j \in Ids
          PROVE  map'[j] \in Bucket /\ Refilled(map'[j]) <= Refilled(new[j])
      <3> HIDE DEF new
      <3>1. CASE map'[j] = new[j]
        BY <1>b, <2>5, <3>1
      <3>2. CASE map'[j] = NoBucket /\ Idle(new[j])
        BY <1>b, <2>5, <3>2, NoBucketFull, LimitersAssumption DEF Idle
      <3> QED
        BY <2>3, <3>1, <3>2
    <2>7. map' \in [Ids -> Bucket]
      <3>1. map' = [j \in Ids |-> map'[j]]
        BY <2>3 DEF BucketInv
      <3> QED
        BY <2>6, <3>1
    <2>8. ASSUME NEW j \in Ids PROVE passed'[j] + Refilled(map'[j]) <= clock' + Bound(j)'
      <3>1. Bound(j)' = Bound(j) /\ clock' = clock
        BY <2>3 DEF Bound
      <3> HIDE DEF new
      <3>2. Refilled(map'[j]) \in Nat /\ Refilled(new[j]) \in Nat
        BY <1>b, <2>5, <2>6
      <3> QED
        BY <1>a, <2>4, <2>5, <2>6, <3>1, <3>2
    <2> QED
      BY <2>3, <2>4, <2>7, <2>8 DEF BucketInv, Refilled
  <1>4. ASSUME NEW i \in Ids, EvictBucket(i) PROVE BucketInv'
    <2>1. /\ i \notin evicted /\ evicted' = evicted \cup {i} /\ UNCHANGED <<clock, passed>>
          /\ map' = [map EXCEPT ![i] = NoBucket]
      BY <1>4 DEF EvictBucket
    <2>2. map' \in [Ids -> Bucket]
      BY <2>1, NoBucketFull DEF BucketInv
    <2>3. ASSUME NEW j \in Ids PROVE passed'[j] + Refilled(map'[j]) <= clock' + Bound(j)'
      <3>1. passed[j] + Refilled(map[j]) <= clock + Bound(j) /\ clock \in Nat
        BY DEF BucketInv
      <3>2. CASE j = i
        <4>1. map'[j] = NoBucket
          BY <2>1, <3>2 DEF BucketInv
        <4>2. Bound(j) = Capacity /\ Bound(j)' = 2 * Capacity
          BY <2>1, <3>2 DEF Bound
        <4>3. Refilled(map[j]) \in Nat
          BY <1>a, <1>b
        <4> QED
          BY <1>a, <2>1, <3>1, <4>1, <4>2, <4>3, NoBucketFull, LimitersAssumption
      <3>3. CASE j # i
        BY <1>a, <2>1, <3>1, <3>3 DEF Bound, BucketInv
      <3> QED
        BY <3>2, <3>3
    <2> QED
      BY <2>1, <2>2, <2>3 DEF BucketInv, Refilled
  <1> QED
    BY <1>1, <1>2, <1>3, <1>4 DEF BucketStep

Is(x, S) == IF x \in S THEN 1 ELSE 0

(* Login a becomes v: how the number of those that run changes. *)
Changes(a, v, S) ==
    /\ Cardinality(Running(S)) \in Nat /\ Cardinality(Running(S)') \in Nat
    /\ Cardinality(Attempts) \in Nat
    /\ Cardinality(Running(S)) - Is(attempt[a], S) = Cardinality(Running(S)') - Is(v, S)
    /\ Cardinality(Running(S)) <= Cardinality(Attempts)
    /\ Cardinality(Running(S)') <= Cardinality(Attempts)
    /\ attempt[a] \notin S => Cardinality(Running(S)) < Cardinality(Attempts)

(* Counting the logins that run: a step that changes one of them. *)
LEMMA RunningChanges ==
    ASSUME LoginTypeOK, NEW a \in Attempts, NEW v \in Usernames \cup {Nobody},
           attempt' = [attempt EXCEPT ![a] = v], NEW S
    PROVE  Changes(a, v, S)
  <1> DEFINE A == Running(S)
             B == {b \in Attempts : attempt'[b] \in S}
  <1>1. Running(S)' = B
    BY DEF Running
  <1>2. A \in SUBSET Attempts /\ B \in SUBSET Attempts /\ A \ {a} = B \ {a}
    BY DEF Running, LoginTypeOK
  <1>3. (a \in A <=> attempt[a] \in S) /\ (a \in B <=> v \in S)
    BY DEF Running, LoginTypeOK
  <1>4. IsFiniteSet(Attempts)
    BY LimitersAssumption
  <1> HIDE DEF A, B
  <1>5. /\ Cardinality(A) \in Nat /\ Cardinality(B) \in Nat /\ Cardinality(Attempts) \in Nat
        /\ Cardinality(A) - (IF a \in A THEN 1 ELSE 0) = Cardinality(B) - (IF a \in B THEN 1 ELSE 0)
        /\ Cardinality(A) <= Cardinality(Attempts) /\ Cardinality(B) <= Cardinality(Attempts)
        /\ a \notin A => Cardinality(A) < Cardinality(Attempts)
    BY <1>2, <1>4, CountOne
  <1> QED
    BY <1>1, <1>3, <1>5 DEF A, Changes, Is

(* However many logins run, their number is at most that of all. *)
LEMMA RunningBound ==
    ASSUME NEW S
    PROVE  /\ Cardinality(Running(S)) \in Nat /\ Cardinality(Attempts) \in Nat
           /\ Cardinality(Running(S)) <= Cardinality(Attempts)
  <1>1. Running(S) \in SUBSET Attempts
    BY DEF Running
  <1> QED
    BY <1>1, LimitersAssumption, FS_Subset, FS_CardinalityType

(* Every step of the logins preserves LoginInv. *)
LEMMA LoginNext == LoginInv /\ (LoginStep \/ UNCHANGED loginVars) => LoginInv'
  <1> SUFFICES ASSUME LoginInv, LoginStep \/ UNCHANGED loginVars PROVE LoginInv'
    OBVIOUS
  <1>a. LoginTypeOK
    BY DEF LoginInv
  <1>b. UserLimit \in Nat \ {0} /\ GlobalLimit \in Nat \ {0} /\ Nobody \notin Usernames
    BY LimitersAssumption
  <1>c. \A u \in Usernames : UserBound(u)
    BY DEF LoginInv
  <1>d. AllBound
    BY DEF LoginInv
  <1>1. CASE UNCHANGED loginVars
    BY <1>1 DEF loginVars, LoginInv, LoginTypeOK, UserBound, AllBound, Running
  <1>2. ASSUME NEW a \in Attempts, NEW u \in Usernames, Check(a, u) PROVE LoginInv'
    <2>1. /\ attempt[a] = Nobody /\ attempt' = [attempt EXCEPT ![a] = u] /\ UNCHANGED <<users, global>>
          /\ global < GlobalLimit /\ users[u] < UserLimit
      BY <1>a, <1>2, <1>b DEF Check, Idling, Blocked, LoginTypeOK
    <2>2. LoginTypeOK'
      BY <1>a, <2>1 DEF LoginTypeOK
    <2>3. ASSUME NEW v \in Usernames PROVE UserBound(v)'
      <3>1. Changes(a, u, {v})
        BY <1>a, <2>1, RunningChanges
      <3>2. users[v] \in Nat /\ users'[v] = users[v] /\ UserBound(v)
        BY <1>a, <1>c, <2>1 DEF LoginTypeOK
      <3> QED
        BY <1>b, <2>1, <3>1, <3>2 DEF UserBound, Changes, Is
    <2>4. AllBound'
      <3>1. Changes(a, u, Usernames)
        BY <1>a, <2>1, RunningChanges
      <3>2. global \in Nat
        BY <1>a DEF LoginTypeOK
      <3> QED
        BY <1>b, <2>1, <3>1, <3>2 DEF AllBound, Changes, Is
    <2> QED
      BY <2>2, <2>3, <2>4 DEF LoginInv
  <1>3. ASSUME NEW a \in Attempts, RecordFailure(a) PROVE LoginInv'
    <2>1. /\ attempt[a] \in Usernames /\ attempt' = [attempt EXCEPT ![a] = Nobody]
          /\ users' = [users EXCEPT ![attempt[a]] = @ + 1] /\ global' = global + 1
      BY <1>a, <1>3 DEF RecordFailure, Idling, Finish, LoginTypeOK
    <2>2. LoginTypeOK'
      BY <1>a, <2>1 DEF LoginTypeOK
    <2>3. ASSUME NEW v \in Usernames PROVE UserBound(v)'
      <3>1. Changes(a, Nobody, {v})
        BY <1>a, <2>1, RunningChanges
      <3>2. users[v] \in Nat /\ users'[v] = users[v] + Is(attempt[a], {v}) /\ UserBound(v)
        BY <1>a, <1>c, <2>1 DEF LoginTypeOK, Is
      <3> QED
        BY <1>b, <3>1, <3>2 DEF UserBound, Changes, Is
    <2>4. AllBound'
      <3>1. Changes(a, Nobody, Usernames)
        BY <1>a, <2>1, RunningChanges
      <3>2. global \in Nat
        BY <1>a DEF LoginTypeOK
      <3> QED
        BY <1>b, <1>d, <2>1, <3>1, <3>2 DEF AllBound, Changes, Is
    <2> QED
      BY <2>2, <2>3, <2>4 DEF LoginInv
  <1>4. ASSUME NEW a \in Attempts, RecordSuccess(a) \/ Abandon(a) PROVE LoginInv'
    <2>1. /\ attempt[a] \in Usernames /\ attempt' = [attempt EXCEPT ![a] = Nobody]
          /\ users' = [users EXCEPT ![attempt[a]] = 0] \/ users' = users
          /\ global' = global
      BY <1>a, <1>4 DEF RecordSuccess, Abandon, Idling, Finish, LoginTypeOK
    <2>2. LoginTypeOK'
      BY <1>a, <2>1 DEF LoginTypeOK
    <2>3. ASSUME NEW v \in Usernames PROVE UserBound(v)'
      <3>1. users'[v] \in Nat /\ users'[v] <= users[v] /\ users[v] \in Nat
        BY <1>a, <2>1 DEF LoginTypeOK
      <3>2. Changes(a, Nobody, {v})
        BY <1>a, <2>1, RunningChanges
      <3> QED
        BY <1>b, <1>c, <3>1, <3>2 DEF UserBound, Changes, Is
    <2>4. AllBound'
      <3>1. Changes(a, Nobody, Usernames)
        BY <1>a, <2>1, RunningChanges
      <3>2. global \in Nat
        BY <1>a DEF LoginTypeOK
      <3> QED
        BY <1>b, <1>d, <2>1, <3>1, <3>2 DEF AllBound, Changes, Is
    <2> QED
      BY <2>2, <2>3, <2>4 DEF LoginInv
  <1>5. ASSUME NEW u \in Usernames, UserWindowEnds(u) PROVE LoginInv'
    <2>1. /\ UNCHANGED <<global, attempt>> /\ users' = [users EXCEPT ![u] = 0]
      BY <1>5 DEF UserWindowEnds
    <2>2. LoginTypeOK'
      BY <1>a, <2>1 DEF LoginTypeOK
    <2>3. ASSUME NEW v \in Usernames PROVE UserBound(v)'
      <3>1. users'[v] \in Nat /\ users'[v] <= users[v] /\ users[v] \in Nat
        BY <1>a, <2>1 DEF LoginTypeOK
      <3>2. Running({v})' = Running({v})
        BY <2>1 DEF Running
      <3> QED
        BY <1>b, <1>c, <3>1, <3>2, RunningBound DEF UserBound
    <2>4. AllBound'
      BY <1>d, <2>1 DEF AllBound, Running
    <2> QED
      BY <2>2, <2>3, <2>4 DEF LoginInv
  <1>6. CASE GlobalWindowEnds
    <2>1. /\ UNCHANGED <<users, attempt>> /\ global' = 0
      BY <1>6 DEF GlobalWindowEnds
    <2>2. LoginTypeOK'
      BY <1>a, <2>1 DEF LoginTypeOK
    <2>3. \A v \in Usernames : UserBound(v)'
      BY <1>c, <2>1 DEF UserBound, Running
    <2>4. Running(Usernames)' = Running(Usernames)
      BY <2>1 DEF Running
    <2>5. AllBound'
      BY <1>b, <2>1, <2>4, RunningBound DEF AllBound
    <2> QED
      BY <2>2, <2>3, <2>5 DEF LoginInv
  <1> QED
    BY <1>1, <1>2, <1>3, <1>4, <1>5, <1>6 DEF LoginStep

(* Both invariants hold before the first request. *)
LEMMA LimitersInitInv == LimitersInit => BucketInv /\ LoginInv
  <1> SUFFICES ASSUME LimitersInit PROVE BucketInv /\ LoginInv
    OBVIOUS
  <1>1. BucketInv
    BY NoBucketFull, LimitersAssumption DEF LimitersInit, BucketInv, Bound
  <1>2. LoginTypeOK
    BY DEF LimitersInit, LoginTypeOK
  <1>3. \A u \in Usernames : UserBound(u)
    BY RunningBound, LimitersAssumption DEF LimitersInit, UserBound
  <1>4. AllBound
    BY RunningBound, LimitersAssumption DEF LimitersInit, AllBound
  <1> QED
    BY <1>1, <1>2, <1>3, <1>4 DEF LoginInv

(* No bucket lets more through than its capacity and the time allow, and no
   window of failed logins, of one user or of all, exceeds its limit by more than the
   logins that ran at the same time: for every set of keys, tenants and users, every
   number of concurrent logins and every limit (ratelimit.rs, login_limiter.rs). *)
THEOREM LimitersBound == LimitersSpec => []OvershootIsBounded
  <1>1. ASSUME BucketInv, LoginInv PROVE OvershootIsBounded
    <2>1. RateBound
      <3> SUFFICES ASSUME NEW i \in Ids PROVE passed[i] <= clock + Bound(i)
        BY DEF RateBound, Bound
      <3>1. /\ passed[i] + Refilled(map[i]) <= clock + Bound(i)
            /\ passed[i] \in Nat /\ clock \in Nat /\ map[i].tokens \in Nat /\ map[i].age \in Nat
        BY <1>1 DEF BucketInv, Bucket
      <3>2. Refilled(map[i]) \in Nat /\ Bound(i) \in Nat
        BY <3>1, RefilledIs, LimitersAssumption DEF Bound
      <3> QED
        BY <3>1, <3>2
    <2>2. GuessBound
      BY <1>1 DEF LoginInv, UserBound, AllBound, Running, GuessBound
    <2> QED
      BY <2>1, <2>2 DEF OvershootIsBounded
  <1>2. BucketInv /\ LoginInv /\ [BucketStep \/ LoginStep]_limiterVars => (BucketInv /\ LoginInv)'
    <2> SUFFICES ASSUME BucketInv, LoginInv, [BucketStep \/ LoginStep]_limiterVars
                 PROVE  BucketInv' /\ LoginInv'
      OBVIOUS
    <2>1. CASE BucketStep
      <3>1. UNCHANGED loginVars
        BY <2>1 DEF BucketStep, Tick, TryAcquire, TenantTryAcquire, EvictBucket
      <3> QED
        BY <2>1, <3>1, BucketNext, LoginNext
    <2>2. CASE LoginStep
      <3>1. UNCHANGED bucketVars
        BY <2>2 DEF LoginStep, Check, RecordFailure, RecordSuccess, Abandon, UserWindowEnds,
                    GlobalWindowEnds
      <3> QED
        BY <2>2, <3>1, BucketNext, LoginNext
    <2>3. CASE UNCHANGED limiterVars
      <3>1. UNCHANGED bucketVars /\ UNCHANGED loginVars
        BY <2>3 DEF limiterVars
      <3> QED
        BY <3>1, BucketNext, LoginNext
    <2> QED
      BY <2>1, <2>2, <2>3
  <1> QED
    BY <1>1, <1>2, LimitersInitInv, PTL DEF LimitersSpec

-----------------------------------------------------------------------------
(* Entry *)

Before == {"none", "handshake", "head", "done"}
InWork == {"json", "auth", "enter", "count", "body", "work"}
After  == {"respond", "stream"}
Stages == Before \cup InWork \cup After \cup {"handle"}

ConnRecords ==
    [at : Stages, ticket : Classes \cup {None}, slot : Counters \cup {None}, found : Counters \cup {None}]

EntryTypeOK ==
    /\ loop \in {"acquire", "accept", "backoff", "stopped"} /\ permits \in Int
    /\ conn \in [Conns -> ConnRecords]
    /\ gated_limit \in GatedLimits
    /\ entered \in [Classes -> Int] /\ active \in Int
    /\ counter \in Counters \cup {None}
    /\ counts \in [Counters -> Int] /\ relays \in [Counters -> Nat]
    /\ metrics \in [seen : Nat, count : Int, recorded : Int, aborted : Int]

(* What a connection can hold where it is. *)
Holds(r) ==
    /\ r.at \in Before => r.ticket = None
    /\ r.at = "handle" => r.ticket # None
    /\ r.at \in InWork => r.ticket = "Gated"
    /\ r.at \notin {"body", "work"} => r.slot = None
    /\ r.found # None <=> r.at = "count"

One(p) == IF p THEN 1 ELSE 0

IsLive(r) == r.at \notin {"none", "done"}
IsBusy(r) == r.at \in InWork \cup {"handle"} /\ r.ticket # "Scrape"

Live      == {c \in Conns : IsLive(conn[c])}
Busy      == {c \in Conns : IsBusy(conn[c])}
Having(k) == {c \in Conns : conn[c].ticket = k}
Taking(n) == {c \in Conns : conn[c].slot = n}

(* SlotsAreExact, with its sets named *)
PermitsExact == permits + Cardinality(Live) + One(loop = "accept") = Permits
TicketsExact == \A k \in Classes : entered[k] = Cardinality(Having(k))
ActiveExact  == active = entered["Gated"] + entered["Probe"]
SlotsExact   == \A n \in Counters : counts[n] = relays[n] + Cardinality(Taking(n))
Accounted    == metrics.count = metrics.recorded + metrics.aborted + Cardinality(Busy)
InLimits ==
    /\ \A k \in Classes : Limit(k) # 0 => entered[k] <= Limit(k)
    /\ \A n \in Counters : \E limit \in TenantLimits \cup {0} : counts[n] <= limit

EntryInv ==
    /\ EntryTypeOK
    /\ \A c \in Conns : Holds(conn[c])
    /\ PermitsExact /\ TicketsExact /\ ActiveExact /\ SlotsExact /\ Accounted
    /\ InLimits

(* Connection c becomes r: how the size of a set of connections changes. *)
LEMMA OneConn ==
    ASSUME EntryTypeOK, NEW c \in Conns, NEW r \in ConnRecords, conn' = [conn EXCEPT ![c] = r]
    PROVE  /\ Cardinality(Live) \in Nat /\ Cardinality(Live') \in Nat
           /\ Cardinality(Live') = Cardinality(Live) - One(IsLive(conn[c])) + One(IsLive(r))
           /\ Cardinality(Busy) \in Nat /\ Cardinality(Busy') \in Nat
           /\ Cardinality(Busy') = Cardinality(Busy) - One(IsBusy(conn[c])) + One(IsBusy(r))
           /\ \A k \in Classes :
                /\ Cardinality(Having(k)) \in Nat /\ Cardinality(Having(k)') \in Nat
                /\ Cardinality(Having(k)') = Cardinality(Having(k)) - One(conn[c].ticket = k) + One(r.ticket = k)
           /\ \A n \in Counters :
                /\ Cardinality(Taking(n)) \in Nat /\ Cardinality(Taking(n)') \in Nat
                /\ Cardinality(Taking(n)') = Cardinality(Taking(n)) - One(conn[c].slot = n) + One(r.slot = n)
  <1>a. IsFiniteSet(Conns)
    BY EntryAssumption
  <1>b. \A d \in Conns : conn'[d] = IF d = c THEN r ELSE conn[d]
    BY DEF EntryTypeOK
  <1>c. ASSUME NEW A \in SUBSET Conns, NEW B \in SUBSET Conns, A \ {c} = B \ {c}
        PROVE  /\ Cardinality(A) \in Nat /\ Cardinality(B) \in Nat
               /\ Cardinality(B) = Cardinality(A) - One(c \in A) + One(c \in B)
    BY <1>a, <1>c, CountOne DEF One
  <1>1. /\ Cardinality(Live) \in Nat /\ Cardinality(Live') \in Nat
        /\ Cardinality(Live') = Cardinality(Live) - One(IsLive(conn[c])) + One(IsLive(r))
    <2>1. /\ Live \in SUBSET Conns /\ Live' \in SUBSET Conns /\ Live \ {c} = Live' \ {c}
          /\ (c \in Live <=> IsLive(conn[c])) /\ (c \in Live' <=> IsLive(r))
      BY <1>b DEF Live, IsLive
    <2> QED
      BY <1>c, <2>1 DEF One
  <1>2. /\ Cardinality(Busy) \in Nat /\ Cardinality(Busy') \in Nat
        /\ Cardinality(Busy') = Cardinality(Busy) - One(IsBusy(conn[c])) + One(IsBusy(r))
    <2>1. /\ Busy \in SUBSET Conns /\ Busy' \in SUBSET Conns /\ Busy \ {c} = Busy' \ {c}
          /\ (c \in Busy <=> IsBusy(conn[c])) /\ (c \in Busy' <=> IsBusy(r))
      BY <1>b DEF Busy, IsBusy
    <2> QED
      BY <1>c, <2>1 DEF One
  <1>3. ASSUME NEW k \in Classes
        PROVE  /\ Cardinality(Having(k)) \in Nat /\ Cardinality(Having(k)') \in Nat
               /\ Cardinality(Having(k)') = Cardinality(Having(k)) - One(conn[c].ticket = k) + One(r.ticket = k)
    <2>1. /\ Having(k) \in SUBSET Conns /\ Having(k)' \in SUBSET Conns /\ Having(k) \ {c} = Having(k)' \ {c}
          /\ (c \in Having(k) <=> conn[c].ticket = k) /\ (c \in Having(k)' <=> r.ticket = k)
      BY <1>b DEF Having
    <2> QED
      BY <1>c, <2>1 DEF One
  <1>4. ASSUME NEW n \in Counters
        PROVE  /\ Cardinality(Taking(n)) \in Nat /\ Cardinality(Taking(n)') \in Nat
               /\ Cardinality(Taking(n)') = Cardinality(Taking(n)) - One(conn[c].slot = n) + One(r.slot = n)
    <2>1. /\ Taking(n) \in SUBSET Conns /\ Taking(n)' \in SUBSET Conns /\ Taking(n) \ {c} = Taking(n)' \ {c}
          /\ (c \in Taking(n) <=> conn[c].slot = n) /\ (c \in Taking(n)' <=> r.slot = n)
      BY <1>b DEF Taking
    <2> QED
      BY <1>c, <2>1 DEF One
  <1> QED
    BY <1>1, <1>2, <1>3, <1>4

-----------------------------------------------------------------------------
(* What a step in which connection c becomes r owes to each of the counters. *)

PermitStep(c, r) ==
    /\ permits' \in Int /\ loop' \in {"acquire", "accept", "backoff", "stopped"}
    /\ permits' + One(loop' = "accept") + One(IsLive(r))
          = permits + One(loop = "accept") + One(IsLive(conn[c]))

TicketStep(c, r) ==
    /\ entered' \in [Classes -> Int] /\ active' \in Int /\ gated_limit' = gated_limit
    /\ \A k \in Classes : entered'[k] = entered[k] - One(conn[c].ticket = k) + One(r.ticket = k)
    /\ active' = entered'["Gated"] + entered'["Probe"]
    /\ \A k \in Classes : Limit(k) # 0 => entered'[k] <= Limit(k)

SlotStep(c, r) ==
    /\ counts' \in [Counters -> Int] /\ relays' \in [Counters -> Nat]
    /\ \A n \in Counters :
          counts'[n] - relays'[n] = counts[n] - relays[n] - One(conn[c].slot = n) + One(r.slot = n)
    /\ \A n \in Counters : \E limit \in TenantLimits \cup {0} : counts'[n] <= limit

MetricStep(c, r) ==
    /\ metrics' \in [seen : Nat, count : Int, recorded : Int, aborted : Int]
    /\ metrics'.count - metrics'.recorded - metrics'.aborted
          = metrics.count - metrics.recorded - metrics.aborted - One(IsBusy(conn[c])) + One(IsBusy(r))

(* A step that owes nothing to any of them keeps them exact. *)
LEMMA Balanced ==
    ASSUME EntryInv, NEW c \in Conns, NEW r \in ConnRecords, conn' = [conn EXCEPT ![c] = r],
           Holds(r), PermitStep(c, r), TicketStep(c, r), SlotStep(c, r), MetricStep(c, r),
           counter' \in Counters \cup {None}
    PROVE  EntryInv'
  <1>a. EntryTypeOK
    BY DEF EntryInv
  <1>1. EntryTypeOK'
    BY <1>a DEF EntryTypeOK, PermitStep, TicketStep, SlotStep, MetricStep
  <1>2. \A d \in Conns : Holds(conn[d])'
    BY <1>a DEF EntryTypeOK, EntryInv, Holds
  <1>3. PermitsExact'
    <2>1. Cardinality(Live) \in Nat /\ Cardinality(Live') \in Nat /\ permits \in Int /\ permits' \in Int
      BY <1>a, <1>1, OneConn DEF EntryTypeOK
    <2>2. Cardinality(Live') = Cardinality(Live) - One(IsLive(conn[c])) + One(IsLive(r))
      BY <1>a, OneConn
    <2>3. permits + Cardinality(Live) + One(loop = "accept") = Permits
      BY DEF EntryInv, PermitsExact
    <2>4. permits' + One(loop' = "accept") + One(IsLive(r)) = permits + One(loop = "accept") + One(IsLive(conn[c]))
      BY DEF PermitStep
    <2>5. permits' + Cardinality(Live') + One(loop' = "accept") = Permits
      <3>1. /\ One(loop = "accept") \in Int /\ One(loop' = "accept") \in Int
            /\ One(IsLive(conn[c])) \in Int /\ One(IsLive(r)) \in Int
        BY DEF One
      <3> QED
        BY <2>1, <2>2, <2>3, <2>4, <3>1
    <2> QED
      BY <2>5 DEF PermitsExact, One, Permits
  <1>4. TicketsExact'
    <2> SUFFICES ASSUME NEW k \in Classes PROVE entered'[k] = Cardinality(Having(k)')
      BY DEF TicketsExact
    <2>1. Cardinality(Having(k)') = Cardinality(Having(k)) - One(conn[c].ticket = k) + One(r.ticket = k)
      BY <1>a, OneConn
    <2>2. entered[k] = Cardinality(Having(k))
      BY DEF EntryInv, TicketsExact
    <2>3. entered'[k] = entered[k] - One(conn[c].ticket = k) + One(r.ticket = k)
      BY DEF TicketStep
    <2> QED
      BY <2>1, <2>2, <2>3
  <1>5. ActiveExact'
    BY DEF ActiveExact, TicketStep
  <1>6. SlotsExact'
    <2> SUFFICES ASSUME NEW n \in Counters PROVE counts'[n] = relays'[n] + Cardinality(Taking(n)')
      BY DEF SlotsExact
    <2>1. /\ Cardinality(Taking(n)) \in Nat /\ Cardinality(Taking(n)') \in Nat
          /\ Cardinality(Taking(n)') = Cardinality(Taking(n)) - One(conn[c].slot = n) + One(r.slot = n)
      BY <1>a, OneConn
    <2>2. counts[n] = relays[n] + Cardinality(Taking(n))
      BY DEF EntryInv, SlotsExact
    <2>3. counts'[n] - relays'[n] = counts[n] - relays[n] - One(conn[c].slot = n) + One(r.slot = n)
      BY DEF SlotStep
    <2>4. counts[n] \in Int /\ counts'[n] \in Int /\ relays[n] \in Int /\ relays'[n] \in Int
      BY <1>a, <1>1 DEF EntryTypeOK
    <2> QED
      BY <2>1, <2>2, <2>3, <2>4 DEF One
  <1>7. Accounted'
    <2>1. /\ Cardinality(Busy) \in Nat /\ Cardinality(Busy') \in Nat
          /\ Cardinality(Busy') = Cardinality(Busy) - One(IsBusy(conn[c])) + One(IsBusy(r))
      BY <1>a, OneConn
    <2>2. metrics.count = metrics.recorded + metrics.aborted + Cardinality(Busy)
      BY DEF EntryInv, Accounted
    <2>3. metrics'.count - metrics'.recorded - metrics'.aborted
            = metrics.count - metrics.recorded - metrics.aborted - One(IsBusy(conn[c])) + One(IsBusy(r))
      BY DEF MetricStep
    <2>4. /\ metrics.count \in Int /\ metrics.recorded \in Int /\ metrics.aborted \in Int
          /\ metrics'.count \in Int /\ metrics'.recorded \in Int /\ metrics'.aborted \in Int
      BY <1>a, <1>1 DEF EntryTypeOK
    <2>5. metrics'.count = metrics'.recorded + metrics'.aborted + Cardinality(Busy')
      BY <2>1, <2>2, <2>3, <2>4 DEF One
    <2> QED
      BY <2>5 DEF Accounted
  <1>8. InLimits'
    <2>1. \A k \in Classes : Limit(k)' = Limit(k)
      BY DEF TicketStep, Limit
    <2> QED
      BY <2>1 DEF TicketStep, SlotStep, InLimits
  <1> QED
    BY <1>1, <1>2, <1>3, <1>4, <1>5, <1>6, <1>7, <1>8 DEF EntryInv

(* The types of what a connection holds. *)
LEMMA ConnType ==
    ASSUME EntryInv, NEW c \in Conns
    PROVE  /\ conn[c] \in ConnRecords /\ Holds(conn[c])
           /\ conn[c].at \in Stages /\ conn[c].ticket \in Classes \cup {None}
           /\ conn[c].slot \in Counters \cup {None} /\ conn[c].found \in Counters \cup {None}
  BY DEF EntryInv, EntryTypeOK, ConnRecords

(* The limit of a class is a number. *)
LEMMA LimitType == ASSUME EntryInv PROVE \A k \in Classes : Limit(k) \in Nat
  BY EntryAssumption DEF EntryInv, EntryTypeOK, Limit, Classes

(* A step that leaves the accept loop and its permits alone. *)
LEMMA PermitsKept ==
    ASSUME EntryInv, NEW c \in Conns, NEW r, UNCHANGED entryVars, IsLive(r) <=> IsLive(conn[c])
    PROVE  PermitStep(c, r)
  <1>1. permits' = permits /\ loop' = loop
    BY DEF entryVars
  <1>2. One(IsLive(r)) = One(IsLive(conn[c])) /\ One(loop' = "accept") = One(loop = "accept")
    BY <1>1 DEF One
  <1> QED
    BY <1>1, <1>2 DEF EntryInv, EntryTypeOK, PermitStep

(* A step that leaves the tickets alone. *)
LEMMA TicketsKept ==
    ASSUME EntryInv, NEW c \in Conns, NEW r, UNCHANGED ticketVars, r.ticket = conn[c].ticket
    PROVE  TicketStep(c, r)
  <1>1. entered' = entered /\ active' = active /\ gated_limit' = gated_limit
    BY DEF ticketVars
  <1>2. \A k \in Classes : entered[k] \in Int
    BY DEF EntryInv, EntryTypeOK
  <1>3. \A k \in Classes : entered'[k] = entered[k] - One(conn[c].ticket = k) + One(r.ticket = k)
    BY <1>1, <1>2 DEF One
  <1> QED
    BY <1>1, <1>3 DEF EntryInv, EntryTypeOK, TicketStep, ActiveExact, InLimits

(* Drop for Admission. *)
LEMMA TicketDropped ==
    ASSUME EntryInv, NEW c \in Conns, NEW r, DropTicket(c), UNCHANGED gated_limit, r.ticket = None
    PROVE  TicketStep(c, r)
  <1> DEFINE t == conn[c].ticket
  <1>1. /\ entered' = [k \in Classes |-> IF k = t THEN entered[k] - 1 ELSE entered[k]]
        /\ active' = active - (IF t \in {"Gated", "Probe"} THEN 1 ELSE 0)
    BY DEF DropTicket
  <1>2. /\ \A k \in Classes : entered[k] \in Int
        /\ active \in Int /\ active = entered["Gated"] + entered["Probe"]
        /\ \A k \in Classes : Limit(k) # 0 => entered[k] <= Limit(k)
    BY DEF EntryInv, EntryTypeOK, ActiveExact, InLimits
  <1>3. entered' \in [Classes -> Int] /\ active' \in Int
    BY <1>1, <1>2
  <1>4. \A k \in Classes : entered'[k] = entered[k] - One(t = k) + One(r.ticket = k)
    BY <1>1, <1>2, EntryAssumption DEF One
  <1>5. active' = entered'["Gated"] + entered'["Probe"]
    BY <1>1, <1>2 DEF Classes
  <1>6. \A k \in Classes : Limit(k) # 0 => entered'[k] <= Limit(k)
    BY <1>1, <1>2, LimitType
  <1> QED
    BY <1>3, <1>4, <1>5, <1>6 DEF TicketStep

(* A step that leaves the slots alone. *)
LEMMA SlotsKept ==
    ASSUME EntryInv, NEW c \in Conns, NEW r, UNCHANGED <<counts, relays>>, r.slot = conn[c].slot
    PROVE  SlotStep(c, r)
  <1>1. \A n \in Counters : counts[n] \in Int /\ relays[n] \in Int
    BY DEF EntryInv, EntryTypeOK
  <1>2. \A n \in Counters :
            counts'[n] - relays'[n] = counts[n] - relays[n] - One(conn[c].slot = n) + One(r.slot = n)
    BY <1>1 DEF One
  <1> QED
    BY <1>2 DEF EntryInv, EntryTypeOK, SlotStep, InLimits

(* A count that does not grow stays within a limit. *)
LEMMA StaysLimited ==
    ASSUME EntryInv, NEW n \in Counters, NEW m \in Int, m <= counts[n]
    PROVE  \E limit \in TenantLimits \cup {0} : m <= limit
  <1>1. PICK limit \in TenantLimits \cup {0} : counts[n] <= limit
    BY DEF EntryInv, InLimits
  <1>2. limit \in Int /\ counts[n] \in Int
    BY EntryAssumption DEF EntryInv, EntryTypeOK
  <1>3. m <= limit
    BY <1>1, <1>2
  <1> QED
    BY <1>3

(* Drop for TenantSlot. *)
LEMMA SlotDropped ==
    ASSUME EntryInv, NEW c \in Conns, NEW r, DropSlot(c), UNCHANGED relays, r.slot = None
    PROVE  SlotStep(c, r)
  <1>1. counts' = [n \in Counters |-> IF n = conn[c].slot THEN counts[n] - 1 ELSE counts[n]]
    BY DEF DropSlot
  <1>2. \A n \in Counters : counts[n] \in Int /\ relays[n] \in Int
    BY DEF EntryInv, EntryTypeOK
  <1>3. counts' \in [Counters -> Int] /\ relays' \in [Counters -> Nat]
    BY <1>1, <1>2 DEF EntryInv, EntryTypeOK
  <1>4. \A n \in Counters :
            counts'[n] - relays'[n] = counts[n] - relays[n] - One(conn[c].slot = n) + One(r.slot = n)
    BY <1>1, <1>2, EntryAssumption DEF One
  <1>5. ASSUME NEW n \in Counters PROVE \E limit \in TenantLimits \cup {0} : counts'[n] <= limit
    <2>1. counts'[n] \in Int /\ counts'[n] <= counts[n]
      BY <1>1, <1>2
    <2> QED
      BY <2>1, StaysLimited
  <1> QED
    BY <1>3, <1>4, <1>5 DEF SlotStep

(* The handler is between its admission and its answer, as Handling says. *)
LEMMA HandlingIsBusy == \A c \in Conns : Handling(c) <=> IsBusy(conn[c])
  BY DEF Handling, IsBusy, InWork

(* A step that leaves the metrics alone. *)
LEMMA MetricsKept ==
    ASSUME EntryInv, NEW c \in Conns, NEW r, UNCHANGED metrics, IsBusy(r) <=> IsBusy(conn[c])
    PROVE  MetricStep(c, r)
  <1>1. One(IsBusy(r)) = One(IsBusy(conn[c])) /\ One(IsBusy(r)) \in Int
    BY DEF One
  <1>2. /\ metrics \in [seen : Nat, count : Int, recorded : Int, aborted : Int]
        /\ metrics.count \in Int /\ metrics.recorded \in Int /\ metrics.aborted \in Int
    BY DEF EntryInv, EntryTypeOK
  <1> QED
    BY <1>1, <1>2 DEF MetricStep

(* The handler answered or was dropped: it is recorded once. *)
LEMMA MetricRecorded ==
    ASSUME EntryInv, NEW c \in Conns, NEW r, RecordStatus(c) \/ RecordAborted(c), ~IsBusy(r)
    PROVE  MetricStep(c, r)
  <1> DEFINE w == One(IsBusy(conn[c]))
  <1>1. One(IsBusy(r)) = 0 /\ w \in Int /\ (IF Handling(c) THEN 1 ELSE 0) = w
    BY HandlingIsBusy DEF One
  <1>2. /\ metrics \in [seen : Nat, count : Int, recorded : Int, aborted : Int]
        /\ metrics.count \in Int /\ metrics.recorded \in Int /\ metrics.aborted \in Int
    BY DEF EntryInv, EntryTypeOK
  <1>3. \/ metrics' = [metrics EXCEPT !.recorded = @ + w]
        \/ metrics' = [metrics EXCEPT !.aborted = @ + w]
    BY <1>1 DEF RecordStatus, RecordAborted
  <1> HIDE DEF w
  <1>4. /\ metrics' \in [seen : Nat, count : Int, recorded : Int, aborted : Int]
        /\ metrics'.count - metrics'.recorded - metrics'.aborted
              = metrics.count - metrics.recorded - metrics.aborted - w
    BY <1>1, <1>2, <1>3
  <1>5. metrics.count - metrics.recorded - metrics.aborted - w + One(IsBusy(r))
          = metrics.count - metrics.recorded - metrics.aborted - w
    BY <1>1, <1>2
  <1> QED
    BY <1>4, <1>5 DEF MetricStep, w

-----------------------------------------------------------------------------
(* The handler goes on, with what it holds. *)
LEMMA GotoInv ==
    ASSUME EntryInv, NEW c \in Conns, NEW stage, Goto(c, stage),
           \/ conn[c].at = "handshake" /\ stage = "head"
           \/ conn[c].at = "json" /\ stage = "handle"
           \/ conn[c].at = "auth" /\ stage = "enter"
           \/ conn[c].at = "enter" /\ stage = "body"
           \/ conn[c].at = "body" /\ stage = "work"
    PROVE  EntryInv'
  <1> DEFINE r == [conn[c] EXCEPT !.at = stage]
  <1>a. conn[c] \in ConnRecords /\ Holds(conn[c])
    BY ConnType
  <1>1. /\ conn' = [conn EXCEPT ![c] = r]
        /\ UNCHANGED <<entryVars, ticketVars, counts, relays, counter, metrics>>
    BY DEF Goto, tenantVars
  <1>b. r \in ConnRecords /\ r.at = stage /\ r.ticket = conn[c].ticket /\ r.slot = conn[c].slot
    BY <1>a DEF ConnRecords, Stages, Before, InWork
  <1>2. r \in ConnRecords /\ Holds(r) /\ r.ticket = conn[c].ticket /\ r.slot = conn[c].slot
    <2>1. r.found = conn[c].found
      BY <1>a DEF ConnRecords
    <2> QED
      BY <1>a, <1>b, <2>1, EntryAssumption DEF Holds, Before, InWork, Classes
  <1>3. IsLive(r) <=> IsLive(conn[c])
    BY <1>a DEF IsLive, ConnRecords
  <1>4. IsBusy(r) <=> IsBusy(conn[c])
    BY <1>a DEF IsBusy, InWork, ConnRecords
  <1> HIDE DEF r
  <1>5. PermitStep(c, r) /\ TicketStep(c, r) /\ SlotStep(c, r) /\ MetricStep(c, r)
    BY <1>1, <1>2, <1>3, <1>4, PermitsKept, TicketsKept, SlotsKept, MetricsKept
  <1>6. counter' \in Counters \cup {None}
    BY <1>1 DEF EntryInv, EntryTypeOK
  <1> QED
    BY <1>1, <1>2, <1>5, <1>6, Balanced

(* An early return of prepare, or an error answer. *)
LEMMA RefuseInv ==
    ASSUME EntryInv, NEW c \in Conns, Refuse(c), conn[c].at \in InWork
    PROVE  EntryInv'
  <1> DEFINE r == [conn[c] EXCEPT !.at = "respond", !.slot = None, !.found = None]
  <1>a. conn[c] \in ConnRecords /\ Holds(conn[c])
    BY ConnType
  <1>1. /\ conn' = [conn EXCEPT ![c] = r]
        /\ UNCHANGED <<entryVars, ticketVars, relays, counter>>
        /\ DropSlot(c) /\ RecordStatus(c)
    BY DEF Refuse
  <1>2. r \in ConnRecords /\ Holds(r) /\ r.ticket = conn[c].ticket /\ r.slot = None
    BY <1>a DEF ConnRecords, Holds, Stages, Before, InWork, After
  <1>3. (IsLive(r) <=> IsLive(conn[c])) /\ ~IsBusy(r)
    BY <1>a DEF IsLive, IsBusy, InWork, ConnRecords
  <1> HIDE DEF r
  <1>5. PermitStep(c, r) /\ TicketStep(c, r) /\ SlotStep(c, r) /\ MetricStep(c, r)
    BY <1>1, <1>2, <1>3, PermitsKept, TicketsKept, SlotDropped, MetricRecorded
  <1>6. counter' \in Counters \cup {None}
    BY <1>1 DEF EntryInv, EntryTypeOK
  <1> QED
    BY <1>1, <1>2, <1>5, <1>6, Balanced

(* The task of a connection ends and drops what it holds. *)
LEMMA EndInv ==
    ASSUME EntryInv, NEW c \in Conns, End(c), IsLive(conn[c])
    PROVE  EntryInv'
  <1>1. /\ conn' = [conn EXCEPT ![c] = Gone]
        /\ DropSlot(c) /\ DropTicket(c) /\ RecordAborted(c)
        /\ permits' = permits + 1 /\ UNCHANGED <<loop, gated_limit, counter, relays>>
    BY DEF End
  <1>2. /\ Gone \in ConnRecords /\ Holds(Gone) /\ ~IsLive(Gone) /\ ~IsBusy(Gone)
        /\ Gone.ticket = None /\ Gone.slot = None
    BY DEF Gone, NoConn, ConnRecords, Holds, Stages, Before, InWork, After, IsLive, IsBusy
  <1>3. PermitStep(c, Gone)
    <2>1. permits \in Int /\ loop \in {"acquire", "accept", "backoff", "stopped"}
      BY DEF EntryInv, EntryTypeOK
    <2>2. permits' = permits + 1 /\ loop' = loop
      BY <1>1
    <2>3. permits' + One(loop' = "accept") = permits + One(loop = "accept") + 1
      BY <2>1, <2>2 DEF One
    <2>4. permits' + One(loop' = "accept") + One(IsLive(Gone))
            = permits + One(loop = "accept") + One(IsLive(conn[c]))
      BY <1>2, <2>1, <2>2, <2>3 DEF One
    <2>5. permits' \in Int /\ loop' \in {"acquire", "accept", "backoff", "stopped"}
      BY <2>1, <2>2
    <2> QED
      BY <2>4, <2>5, Zenon DEF PermitStep
  <1>4. TicketStep(c, Gone) /\ SlotStep(c, Gone) /\ MetricStep(c, Gone)
    BY <1>1, <1>2, TicketDropped, SlotDropped, MetricRecorded
  <1>5. counter' \in Counters \cup {None}
    BY <1>1 DEF EntryInv, EntryTypeOK
  <1> QED
    BY <1>1, <1>2, <1>3, <1>4, <1>5, Balanced

(* The permit goes from the loop to the task of the connection. *)
LEMMA AcceptInv == ASSUME EntryInv, NEW c \in Conns, Accept(c) PROVE EntryInv'
  <1> DEFINE r == [conn[c] EXCEPT !.at = IF Tls THEN "handshake" ELSE "head"]
  <1>a. conn[c] \in ConnRecords /\ Holds(conn[c])
    BY ConnType
  <1>1. /\ conn' = [conn EXCEPT ![c] = r] /\ conn[c].at = "none"
        /\ loop = "accept" /\ loop' = "acquire"
        /\ UNCHANGED <<permits, ticketVars, counts, relays, counter, metrics>>
    BY DEF Accept, tenantVars
  <1>2. r \in ConnRecords /\ Holds(r) /\ r.ticket = conn[c].ticket /\ r.slot = conn[c].slot
    BY <1>a, <1>1 DEF ConnRecords, Holds, Stages, Before, InWork, After
  <1>3. IsLive(r) /\ ~IsLive(conn[c])
    BY <1>a, <1>1 DEF IsLive, ConnRecords
  <1>4. IsBusy(r) <=> IsBusy(conn[c])
    BY <1>a, <1>1 DEF IsBusy, InWork, ConnRecords
  <1> HIDE DEF r
  <1>5. TicketStep(c, r) /\ SlotStep(c, r) /\ MetricStep(c, r)
    BY <1>1, <1>2, <1>4, TicketsKept, SlotsKept, MetricsKept
  <1>6. PermitStep(c, r)
    <2>1. permits \in Int
      BY DEF EntryInv, EntryTypeOK
    <2>2. /\ One(IsLive(r)) = 1 /\ One(IsLive(conn[c])) = 0
          /\ One(loop = "accept") = 1 /\ One(loop' = "accept") = 0
      BY <1>1, <1>3 DEF One
    <2> QED
      BY <1>1, <2>1, <2>2 DEF PermitStep
  <1>7. counter' \in Counters \cup {None}
    BY <1>1 DEF EntryInv, EntryTypeOK
  <1> QED
    BY <1>1, <1>2, <1>5, <1>6, <1>7, Balanced

(* The counters of requests after one that is counted x times and recorded y times. *)
LEMMA MetricsAfter ==
    ASSUME NEW m \in [seen : Nat, count : Int, recorded : Int, aborted : Int], NEW x \in Int, NEW y \in Int,
           NEW new, new = [m EXCEPT !.seen = @ + 1, !.count = @ + x, !.recorded = @ + y]
    PROVE  /\ new \in [seen : Nat, count : Int, recorded : Int, aborted : Int]
           /\ new.count = m.count + x /\ new.recorded = m.recorded + y /\ new.aborted = m.aborted
  <1>1. new = [seen |-> m.seen + 1, count |-> m.count + x, recorded |-> m.recorded + y, aborted |-> m.aborted]
    OBVIOUS
  <1> QED
    BY <1>1

(* The same, for one that is not recorded yet. *)
LEMMA MetricsCounted ==
    ASSUME NEW m \in [seen : Nat, count : Int, recorded : Int, aborted : Int], NEW x \in Int,
           NEW new, new = [m EXCEPT !.seen = @ + 1, !.count = @ + x]
    PROVE  /\ new \in [seen : Nat, count : Int, recorded : Int, aborted : Int]
           /\ new.count = m.count + x /\ new.recorded = m.recorded /\ new.aborted = m.aborted
  <1>1. new = [seen |-> m.seen + 1, count |-> m.count + x, recorded |-> m.recorded, aborted |-> m.aborted]
    OBVIOUS
  <1> QED
    BY <1>1

(* admission_middleware: the ticket and the first count of a request, or the refusal. *)
LEMMA RequestInv == ASSUME EntryInv, NEW c \in Conns, NEW k \in Classes, Request(c, k) PROVE EntryInv'
  <1> DEFINE counted == IF k = "Scrape" THEN 0 ELSE 1
  <1>a. conn[c] \in ConnRecords /\ Holds(conn[c]) /\ conn[c].at = "head" /\ conn[c].ticket = None
    BY ConnType DEF Request, Holds, Before
  <1>b. counter' \in Counters \cup {None} /\ UNCHANGED <<entryVars, gated_limit, counts, relays>>
    BY DEF Request, tenantVars, EntryInv, EntryTypeOK
  <1>c. /\ metrics \in [seen : Nat, count : Int, recorded : Int, aborted : Int]
        /\ metrics.count \in Int /\ metrics.recorded \in Int /\ metrics.aborted \in Int
        /\ metrics.seen \in Nat /\ counted \in Int
    BY DEF EntryInv, EntryTypeOK
  <1>d. ~IsBusy(conn[c]) /\ IsLive(conn[c])
    BY <1>a DEF IsBusy, InWork, IsLive
  <1>1. CASE /\ conn' = [conn EXCEPT ![c].at = "respond"] /\ UNCHANGED <<entered, active>>
             /\ metrics' = [metrics EXCEPT !.seen = @ + 1, !.count = @ + counted, !.recorded = @ + counted]
    <2> DEFINE r == [conn[c] EXCEPT !.at = "respond"]
    <2>1. r \in ConnRecords /\ Holds(r) /\ r.ticket = conn[c].ticket /\ r.slot = conn[c].slot
      BY <1>a DEF ConnRecords, Holds, Stages, Before, InWork, After
    <2>2. IsLive(r) /\ ~IsBusy(r)
      BY <1>a DEF IsLive, IsBusy, InWork, ConnRecords
    <2>3. conn' = [conn EXCEPT ![c] = r]
      BY <1>1
    <2> HIDE DEF r
    <2>4. PermitStep(c, r) /\ TicketStep(c, r) /\ SlotStep(c, r)
      BY <1>b, <1>d, <1>1, <2>1, <2>2, PermitsKept, TicketsKept, SlotsKept DEF ticketVars
    <2>5. MetricStep(c, r)
      <3>1. One(IsBusy(r)) = 0 /\ One(IsBusy(conn[c])) = 0
        BY <1>d, <2>2 DEF One
      <3>a. metrics' = [metrics EXCEPT !.seen = @ + 1, !.count = @ + counted, !.recorded = @ + counted]
        BY <1>1
      <3> HIDE DEF counted
      <3>2. /\ metrics' \in [seen : Nat, count : Int, recorded : Int, aborted : Int]
            /\ metrics'.count = metrics.count + counted
            /\ metrics'.recorded = metrics.recorded + counted /\ metrics'.aborted = metrics.aborted
        BY <1>c, <3>a, MetricsAfter
      <3> QED
        BY <1>c, <3>1, <3>2 DEF MetricStep
    <2> QED
      BY <1>b, <2>1, <2>3, <2>4, <2>5, Balanced
  <1>2. ASSUME NEW stage \in {"handle"} \cup (IF k = "Gated" THEN {"auth", "json"} ELSE {}),
               conn' = [conn EXCEPT ![c].at = stage, ![c].ticket = k],
               HasRoom(k), entered' = [entered EXCEPT ![k] = @ + 1], active' = active + counted,
               metrics' = [metrics EXCEPT !.seen = @ + 1, !.count = @ + counted]
        PROVE  EntryInv'
    <2> DEFINE r == [conn[c] EXCEPT !.at = stage, !.ticket = k]
    <2>1. r \in ConnRecords /\ Holds(r) /\ r.ticket = k /\ r.slot = conn[c].slot
      BY <1>a, <1>2, EntryAssumption DEF ConnRecords, Holds, Stages, Before, InWork, After
    <2>2. IsLive(r) /\ (IsBusy(r) <=> k # "Scrape")
      BY <1>a, <1>2 DEF IsLive, IsBusy, InWork, ConnRecords
    <2>3. conn' = [conn EXCEPT ![c] = r]
      BY <1>2 DEF EntryInv, EntryTypeOK
    <2> HIDE DEF r
    <2>4. PermitStep(c, r) /\ SlotStep(c, r)
      BY <1>b, <1>d, <2>1, <2>2, PermitsKept, SlotsKept
    <2>5. MetricStep(c, r)
      <3>1. One(IsBusy(r)) = counted /\ One(IsBusy(conn[c])) = 0
        BY <1>d, <2>2 DEF One
      <3>a. metrics' = [metrics EXCEPT !.seen = @ + 1, !.count = @ + counted]
        BY <1>2
      <3> HIDE DEF counted
      <3>2. /\ metrics' \in [seen : Nat, count : Int, recorded : Int, aborted : Int]
            /\ metrics'.count = metrics.count + counted
            /\ metrics'.recorded = metrics.recorded /\ metrics'.aborted = metrics.aborted
        BY <1>c, <3>a, MetricsCounted
      <3> QED
        BY <1>c, <3>1, <3>2 DEF MetricStep
    <2>6. TicketStep(c, r)
      <3>1. /\ entered \in [Classes -> Int] /\ \A j \in Classes : entered[j] \in Int
            /\ active \in Int /\ active = entered["Gated"] + entered["Probe"]
            /\ \A j \in Classes : Limit(j) # 0 => entered[j] <= Limit(j)
        BY DEF EntryInv, EntryTypeOK, ActiveExact, InLimits
      <3>2. entered' \in [Classes -> Int] /\ active' \in Int
        BY <1>2, <3>1
      <3>3. \A j \in Classes : entered'[j] = entered[j] - One(conn[c].ticket = j) + One(r.ticket = j)
        BY <1>a, <1>2, <2>1, <3>1, EntryAssumption DEF One
      <3>4. active' = entered'["Gated"] + entered'["Probe"]
        BY <1>2, <3>1 DEF Classes
      <3>5. \A j \in Classes : Limit(j) # 0 => entered'[j] <= Limit(j)
        BY <1>2, <3>1, LimitType DEF HasRoom
      <3> QED
        BY <1>b, <3>2, <3>3, <3>4, <3>5 DEF TicketStep
    <2> QED
      BY <1>b, <2>1, <2>3, <2>4, <2>5, <2>6, Balanced
  <1> QED
    BY <1>1, <1>2 DEF Request

(* A handler that is not proxied answers. *)
LEMMA AnswerInv == ASSUME EntryInv, NEW c \in Conns, Answer(c) PROVE EntryInv'
  <1> DEFINE r == [conn[c] EXCEPT !.at = "respond"]
  <1>a. conn[c] \in ConnRecords /\ Holds(conn[c]) /\ conn[c].at = "handle"
    BY ConnType DEF Answer
  <1>1. /\ conn' = [conn EXCEPT ![c] = r] /\ RecordStatus(c)
        /\ UNCHANGED <<entryVars, ticketVars, counts, relays, counter>>
    BY DEF Answer, tenantVars
  <1>2. r \in ConnRecords /\ Holds(r) /\ r.ticket = conn[c].ticket /\ r.slot = conn[c].slot
    BY <1>a DEF ConnRecords, Holds, Stages, Before, InWork, After
  <1>3. (IsLive(r) <=> IsLive(conn[c])) /\ ~IsBusy(r)
    BY <1>a DEF IsLive, IsBusy, InWork, ConnRecords
  <1> HIDE DEF r
  <1>4. PermitStep(c, r) /\ TicketStep(c, r) /\ SlotStep(c, r) /\ MetricStep(c, r)
    BY <1>1, <1>2, <1>3, PermitsKept, TicketsKept, SlotsKept, MetricRecorded
  <1>5. counter' \in Counters \cup {None}
    BY <1>1 DEF EntryInv, EntryTypeOK
  <1> QED
    BY <1>1, <1>2, <1>4, <1>5, Balanced

(* try_enter looks its counter up, or makes one. *)
LEMMA TryEnterInv == ASSUME EntryInv, NEW c \in Conns, TryEnter(c) PROVE EntryInv'
  <1>a. conn[c] \in ConnRecords /\ Holds(conn[c]) /\ conn[c].at = "enter"
    BY ConnType DEF TryEnter
  <1>1. CASE Goto(c, "body")
    BY <1>a, <1>1, GotoInv
  <1>2. ASSUME NEW mine, mine = (IF counter # None THEN counter ELSE IF tenant = "deleted" THEN 2 ELSE 1),
               counter' = mine, conn' = [conn EXCEPT ![c].at = "count", ![c].found = mine],
               UNCHANGED <<entryVars, ticketVars, tenant, counts, relays, phase, metrics>>
        PROVE  EntryInv'
    <2> DEFINE r == [conn[c] EXCEPT !.at = "count", !.found = mine]
    <2>1. mine \in Counters
      BY <1>2 DEF EntryInv, EntryTypeOK, Counters
    <2>2. r \in ConnRecords /\ Holds(r) /\ r.ticket = conn[c].ticket /\ r.slot = conn[c].slot
      BY <1>a, <2>1, EntryAssumption DEF ConnRecords, Holds, Stages, Before, InWork, After
    <2>3. (IsLive(r) <=> IsLive(conn[c])) /\ (IsBusy(r) <=> IsBusy(conn[c]))
      BY <1>a DEF IsLive, IsBusy, InWork, ConnRecords
    <2>4. conn' = [conn EXCEPT ![c] = r]
      BY <1>2 DEF EntryInv, EntryTypeOK
    <2> HIDE DEF r
    <2>5. PermitStep(c, r) /\ TicketStep(c, r) /\ SlotStep(c, r) /\ MetricStep(c, r)
      BY <1>2, <2>2, <2>3, PermitsKept, TicketsKept, SlotsKept, MetricsKept
    <2>6. counter' \in Counters \cup {None}
      BY <1>2, <2>1
    <2> QED
      BY <2>2, <2>4, <2>5, <2>6, Balanced
  <1> QED
    BY <1>1, <1>2 DEF TryEnter

(* ... and takes a slot of it, or refuses. *)
LEMMA FetchUpdateInv == ASSUME EntryInv, NEW c \in Conns, FetchUpdate(c) PROVE EntryInv'
  <1>a. /\ conn[c] \in ConnRecords /\ Holds(conn[c]) /\ conn[c].at = "count" /\ conn[c].slot = None
        /\ conn[c].found \in Counters
    BY ConnType DEF FetchUpdate, Holds
  <1>1. CASE Refuse(c)
    BY <1>a, <1>1, RefuseInv DEF InWork
  <1>2. ASSUME NEW limit \in TenantLimits \ {0}, counts[conn[c].found] < limit,
               counts' = [counts EXCEPT ![conn[c].found] = @ + 1],
               conn' = [conn EXCEPT ![c].at = "body", ![c].slot = conn[c].found, ![c].found = None],
               UNCHANGED <<entryVars, ticketVars, tenant, counter, relays, phase, metrics>>
        PROVE  EntryInv'
    <2> DEFINE r == [conn[c] EXCEPT !.at = "body", !.slot = conn[c].found, !.found = None]
               f == conn[c].found
    <2>1. r \in ConnRecords /\ Holds(r) /\ r.ticket = conn[c].ticket /\ r.slot = f
      BY <1>a, EntryAssumption DEF ConnRecords, Holds, Stages, Before, InWork, After
    <2>2. (IsLive(r) <=> IsLive(conn[c])) /\ (IsBusy(r) <=> IsBusy(conn[c]))
      BY <1>a DEF IsLive, IsBusy, InWork, ConnRecords
    <2>3. conn' = [conn EXCEPT ![c] = r]
      BY <1>2 DEF EntryInv, EntryTypeOK
    <2> HIDE DEF r
    <2>4. PermitStep(c, r) /\ TicketStep(c, r) /\ MetricStep(c, r)
      BY <1>2, <2>1, <2>2, PermitsKept, TicketsKept, MetricsKept
    <2>5. SlotStep(c, r)
      <3>1. counts \in [Counters -> Int] /\ \A n \in Counters : counts[n] \in Int /\ relays[n] \in Int
        BY DEF EntryInv, EntryTypeOK
      <3>2. counts' \in [Counters -> Int] /\ relays' \in [Counters -> Nat]
        BY <1>a, <1>2, <3>1 DEF EntryInv, EntryTypeOK
      <3>3. \A n \in Counters :
              counts'[n] - relays'[n] = counts[n] - relays[n] - One(conn[c].slot = n) + One(r.slot = n)
        BY <1>a, <1>2, <2>1, <3>1, EntryAssumption DEF One
      <3>4. ASSUME NEW n \in Counters PROVE \E most \in TenantLimits \cup {0} : counts'[n] <= most
        <4>1. CASE n = f
          <5>1. counts'[n] = counts[n] + 1 /\ counts[n] < limit /\ limit \in Nat /\ limit \in TenantLimits
            BY <1>a, <1>2, <3>1, <4>1, EntryAssumption
          <5>2. counts'[n] <= limit
            BY <3>1, <5>1
          <5> QED
            BY <5>1, <5>2
        <4>2. CASE n # f
          <5>1. counts'[n] = counts[n]
            BY <1>2, <3>1, <4>2
          <5> QED
            BY <3>1, <5>1, StaysLimited
        <4> QED
          BY <4>1, <4>2
      <3> QED
        BY <3>2, <3>3, <3>4 DEF SlotStep
    <2>6. counter' \in Counters \cup {None}
      BY <1>2 DEF EntryInv, EntryTypeOK
    <2> QED
      BY <2>1, <2>3, <2>4, <2>5, <2>6, Balanced
  <1> QED
    BY <1>1, <1>2 DEF FetchUpdate

(* The slot moves to the forwarding task. *)
LEMMA ForwardedInv == ASSUME EntryInv, NEW c \in Conns, Forwarded(c) PROVE EntryInv'
  <1> DEFINE r == [conn[c] EXCEPT !.at = "stream", !.slot = None]
  <1>a. conn[c] \in ConnRecords /\ Holds(conn[c]) /\ conn[c].at = "work"
    BY ConnType DEF Forwarded
  <1>1. /\ conn' = [conn EXCEPT ![c] = r] /\ RecordStatus(c)
        /\ relays' = [n \in Counters |-> IF n = conn[c].slot THEN relays[n] + 1 ELSE relays[n]]
        /\ UNCHANGED <<entryVars, ticketVars, counts, counter>>
    BY DEF Forwarded, EntryInv, EntryTypeOK
  <1>2. r \in ConnRecords /\ Holds(r) /\ r.ticket = conn[c].ticket /\ r.slot = None
    BY <1>a DEF ConnRecords, Holds, Stages, Before, InWork, After
  <1>3. (IsLive(r) <=> IsLive(conn[c])) /\ ~IsBusy(r)
    BY <1>a DEF IsLive, IsBusy, InWork, ConnRecords
  <1> HIDE DEF r
  <1>4. PermitStep(c, r) /\ TicketStep(c, r) /\ MetricStep(c, r)
    BY <1>1, <1>2, <1>3, PermitsKept, TicketsKept, MetricRecorded
  <1>5. SlotStep(c, r)
    <2>1. \A n \in Counters : counts[n] \in Int /\ relays[n] \in Nat
      BY DEF EntryInv, EntryTypeOK
    <2>2. counts' \in [Counters -> Int] /\ relays' \in [Counters -> Nat]
      BY <1>1, <2>1 DEF EntryInv, EntryTypeOK
    <2>3. \A n \in Counters :
            counts'[n] - relays'[n] = counts[n] - relays[n] - One(conn[c].slot = n) + One(r.slot = n)
      BY <1>1, <1>2, <2>1, EntryAssumption DEF One
    <2> QED
      BY <1>1, <2>2, <2>3 DEF SlotStep, EntryInv, InLimits
  <1>6. counter' \in Counters \cup {None}
    BY <1>1 DEF EntryInv, EntryTypeOK
  <1> QED
    BY <1>1, <1>2, <1>4, <1>5, <1>6, Balanced

(* The response has ended, its ticket with it; the connection is kept. *)
LEMMA BodyEndsInv == ASSUME EntryInv, NEW c \in Conns, BodyEnds(c) PROVE EntryInv'
  <1> DEFINE r == [conn[c] EXCEPT !.at = "head", !.ticket = None]
  <1>a. conn[c] \in ConnRecords /\ Holds(conn[c]) /\ conn[c].at \in {"respond", "stream"}
    BY ConnType DEF BodyEnds
  <1>1. /\ conn' = [conn EXCEPT ![c] = r] /\ DropTicket(c)
        /\ UNCHANGED <<entryVars, gated_limit, counts, relays, counter, metrics>>
    BY DEF BodyEnds, tenantVars, EntryInv, EntryTypeOK
  <1>2. r \in ConnRecords /\ Holds(r) /\ r.ticket = None /\ r.slot = conn[c].slot
    BY <1>a DEF ConnRecords, Holds, Stages, Before, InWork, After
  <1>3. (IsLive(r) <=> IsLive(conn[c])) /\ (IsBusy(r) <=> IsBusy(conn[c]))
    BY <1>a DEF IsLive, IsBusy, InWork, ConnRecords
  <1> HIDE DEF r
  <1>4. PermitStep(c, r) /\ TicketStep(c, r) /\ SlotStep(c, r) /\ MetricStep(c, r)
    BY <1>1, <1>2, <1>3, PermitsKept, TicketDropped, SlotsKept, MetricsKept
  <1>5. counter' \in Counters \cup {None}
    BY <1>1 DEF EntryInv, EntryTypeOK
  <1> QED
    BY <1>1, <1>2, <1>4, <1>5, Balanced

(* A step that touches no connection and no metric, neither tickets nor slots. *)
LEMMA LoopInv ==
    ASSUME EntryInv, UNCHANGED <<ticketVars, counts, relays, conn, metrics>>,
           counter' \in Counters \cup {None},
           permits' \in Int, loop' \in {"acquire", "accept", "backoff", "stopped"},
           permits' + One(loop' = "accept") = permits + One(loop = "accept")
    PROVE  EntryInv'
  <1>1. EntryTypeOK'
    BY DEF EntryInv, EntryTypeOK, ticketVars
  <1>2. Live' = Live /\ Busy' = Busy
    BY DEF Live, Busy
  <1>3. \A k : Having(k)' = Having(k)
    BY DEF Having
  <1>4. \A n : Taking(n)' = Taking(n)
    BY DEF Taking
  <1>5. PermitsExact'
    <2>1. Cardinality(Live) \in Nat
      <3>1. Live \in SUBSET Conns
        BY DEF Live
      <3> QED
        BY <3>1, EntryAssumption, FS_Subset, FS_CardinalityType
    <2>2. One(loop = "accept") \in Int /\ One(loop' = "accept") \in Int /\ permits \in Int
      BY DEF One, EntryInv, EntryTypeOK
    <2>3. permits + Cardinality(Live) + One(loop = "accept") = Permits
      BY DEF EntryInv, PermitsExact
    <2>4. permits' + Cardinality(Live) + One(loop' = "accept") = Permits
      BY <2>1, <2>2, <2>3
    <2> QED
      BY <1>2, <2>4 DEF PermitsExact, One, Permits
  <1>6. TicketsExact' /\ SlotsExact' /\ ActiveExact' /\ Accounted'
    BY <1>2, <1>3, <1>4 DEF EntryInv, TicketsExact, SlotsExact, ActiveExact, Accounted, ticketVars
  <1>7. InLimits' /\ \A c \in Conns : Holds(conn[c])'
    BY DEF EntryInv, InLimits, Limit, Holds, ticketVars
  <1> QED
    BY <1>1, <1>5, <1>6, <1>7 DEF EntryInv

(* A forwarding task ends and drops its slot. *)
LEMMA RelayInv == ASSUME EntryInv, NEW n \in Counters, RelayEnds(n) PROVE EntryInv'
  <1>1. /\ relays' = [relays EXCEPT ![n] = @ - 1] /\ counts' = [counts EXCEPT ![n] = @ - 1] /\ relays[n] > 0
        /\ UNCHANGED <<permits, loop, ticketVars, counter, conn, metrics>>
    BY DEF RelayEnds, entryVars
  <1>2. /\ counts \in [Counters -> Int] /\ relays \in [Counters -> Nat]
        /\ \A m \in Counters : counts[m] \in Int /\ relays[m] \in Nat
    BY DEF EntryInv, EntryTypeOK
  <1>3. counts' \in [Counters -> Int] /\ relays' \in [Counters -> Nat]
    BY <1>1, <1>2
  <1>4. EntryTypeOK'
    BY <1>1, <1>3 DEF EntryInv, EntryTypeOK, ticketVars
  <1>5. Live' = Live /\ Busy' = Busy /\ \A m : Having(m)' = Having(m) /\ Taking(m)' = Taking(m)
    BY <1>1 DEF Live, Busy, Having, Taking
  <1>6. PermitsExact'
    BY <1>1, <1>5 DEF EntryInv, PermitsExact, One, Permits
  <1>7. TicketsExact' /\ ActiveExact' /\ Accounted'
    BY <1>1, <1>5 DEF EntryInv, TicketsExact, ActiveExact, Accounted, ticketVars
  <1>8. ASSUME NEW m \in Counters PROVE counts'[m] = relays'[m] + Cardinality(Taking(m)')
    <2>1. counts[m] = relays[m] + Cardinality(Taking(m)) /\ Taking(m)' = Taking(m)
      BY <1>5 DEF EntryInv, SlotsExact
    <2>2. Cardinality(Taking(m)) \in Nat
      <3>1. Taking(m) \in SUBSET Conns
        BY DEF Taking
      <3> QED
        BY <3>1, EntryAssumption, FS_Subset, FS_CardinalityType
    <2> QED
      BY <1>1, <1>2, <2>1, <2>2
  <1>9. ASSUME NEW m \in Counters PROVE \E limit \in TenantLimits \cup {0} : counts'[m] <= limit
    <2>1. counts'[m] \in Int /\ counts'[m] <= counts[m]
      BY <1>1, <1>2
    <2> QED
      BY <2>1, StaysLimited
  <1>10. \A k \in Classes : Limit(k)' # 0 => entered'[k] <= Limit(k)'
    BY <1>1 DEF EntryInv, InLimits, Limit, ticketVars
  <1>11. \A c \in Conns : Holds(conn[c])'
    BY <1>1 DEF EntryInv, Holds
  <1> QED
    BY <1>4, <1>6, <1>7, <1>8, <1>9, <1>10, <1>11 DEF EntryInv, SlotsExact, InLimits

-----------------------------------------------------------------------------
(* Nothing is held before the first connection. *)
LEMMA EntryInit == Init => EntryInv
  <1> SUFFICES ASSUME Init PROVE EntryInv
    OBVIOUS
  <1>1. /\ loop = "acquire" /\ permits = Permits /\ conn = [c \in Conns |-> NoConn]
        /\ gated_limit \in GatedLimits /\ entered = [k \in Classes |-> 0] /\ active = 0 /\ counter = None
        /\ counts = [n \in Counters |-> 0] /\ relays = [n \in Counters |-> 0]
        /\ metrics = [seen |-> 0, count |-> 0, recorded |-> 0, aborted |-> 0]
    BY DEF Init
  <1>2. Permits \in Int
    BY EntryAssumption, FS_CardinalityType DEF Permits
  <1>3. NoConn \in ConnRecords /\ Holds(NoConn) /\ ~IsLive(NoConn) /\ ~IsBusy(NoConn)
    BY DEF NoConn, ConnRecords, Holds, Stages, Before, InWork, After, IsLive, IsBusy
  <1>4. EntryTypeOK
    BY <1>1, <1>2, <1>3 DEF EntryTypeOK
  <1>5. Live = {} /\ Busy = {}
    BY <1>1, <1>3 DEF Live, Busy
  <1>6. (\A k \in Classes : Having(k) = {}) /\ (\A n \in Counters : Taking(n) = {})
    BY <1>1, EntryAssumption DEF Having, Taking, NoConn
  <1>7. PermitsExact
    BY <1>1, <1>2, <1>5, FS_EmptySet DEF PermitsExact, One
  <1>8. TicketsExact /\ ActiveExact /\ SlotsExact
    BY <1>1, <1>6, FS_EmptySet DEF TicketsExact, ActiveExact, SlotsExact, Classes
  <1>9. Accounted
    BY <1>1, <1>5, FS_EmptySet DEF Accounted
  <1>10. InLimits
    <2>1. \A k \in Classes : Limit(k) \in Nat
      BY <1>1, EntryAssumption DEF Limit, Classes
    <2> QED
      BY <1>1, <2>1 DEF InLimits
  <1> QED
    BY <1>1, <1>3, <1>4, <1>7, <1>8, <1>9, <1>10 DEF EntryInv

(* Every step preserves EntryInv. *)
LEMMA EntryNext == EntryInv /\ [Next]_vars => EntryInv'
  <1> SUFFICES ASSUME EntryInv, [Next]_vars PROVE EntryInv'
    OBVIOUS
  <1>a. permits \in Int /\ loop \in {"acquire", "accept", "backoff", "stopped"} /\ counter \in Counters \cup {None}
    BY DEF EntryInv, EntryTypeOK
  <1>1. CASE AcquireConnection \/ AcceptFails \/ BackoffEnds \/ StopAccepting
    <2>1. UNCHANGED <<ticketVars, counts, relays, conn, metrics, counter>>
      BY <1>1 DEF AcquireConnection, AcceptFails, BackoffEnds, StopAccepting, tenantVars
    <2>2. /\ permits' \in Int /\ loop' \in {"acquire", "accept", "backoff", "stopped"}
          /\ permits' + One(loop' = "accept") = permits + One(loop = "accept")
      BY <1>a, <1>1 DEF AcquireConnection, AcceptFails, BackoffEnds, StopAccepting, One
    <2> QED
      BY <1>a, <2>1, <2>2, LoopInv
  <1>2. ASSUME NEW c \in Conns, Handshake(c) \/ JsonArrives(c) \/ BodyArrives(c) \/ Authenticate(c) \/ AttemptsFail(c)
        PROVE  EntryInv'
    BY <1>2, GotoInv, RefuseInv DEF Handshake, JsonArrives, BodyArrives, Authenticate, AttemptsFail, InWork
  <1>3. ASSUME NEW c \in Conns, Stall(c) \/ Disconnect(c) PROVE EntryInv'
    <2>1. CASE conn[c].at = "body" /\ Refuse(c)
      BY <2>1, RefuseInv DEF InWork
    <2>2. CASE IsLive(conn[c]) /\ End(c)
      BY <2>2, EndInv
    <2> QED
      BY <1>3, <2>1, <2>2 DEF Stall, Disconnect, IsLive
  <1>4. ASSUME NEW c \in Conns,
               \/ Accept(c) \/ Answer(c) \/ TryEnter(c) \/ FetchUpdate(c) \/ Forwarded(c) \/ BodyEnds(c)
               \/ \E k \in Classes : Request(c, k)
        PROVE  EntryInv'
    BY <1>4, AcceptInv, AnswerInv, TryEnterInv, FetchUpdateInv, ForwardedInv, BodyEndsInv, RequestInv
  <1>5. CASE \E n \in Counters : RelayEnds(n)
    BY <1>5, RelayInv
  <1>6. CASE (\E s \in {"enabled", "disabled", "deleting"} : SetTenant(s)) \/ Evict \/ Advance \/ UNCHANGED vars
    <2>1. UNCHANGED <<ticketVars, counts, relays, conn, metrics, permits, loop>>
      BY <1>6 DEF SetTenant, Evict, Advance, vars, entryVars, tenantVars
    <2>2. counter' \in Counters \cup {None}
      BY <1>a, <1>6 DEF SetTenant, Evict, Advance, vars, tenantVars
    <2> QED
      BY <1>a, <2>1, <2>2, LoopInv
  <1> QED
    BY <1>1, <1>2, <1>3, <1>4, <1>5, <1>6 DEF Next, GatewayStep

(* The permits, the tickets, the slots of tenants and the counters of requests are exact in
   every state, and no limit is exceeded: for every number of connections, every limit,
   with and without TLS, through every refusal, hang-up, stall and deletion of the tenant
   (entry.rs, admission.rs, tenant_limits.rs, prepare.rs, observability.rs). *)
THEOREM SlotsStayExact == Spec => []SlotsAreExact
  <1>1. ASSUME EntryInv PROVE SlotsAreExact
    <2>1. Live = {c \in Conns : conn[c].at \notin {"none", "done"}} /\ Busy = {c \in Conns : Handling(c)}
      BY HandlingIsBusy DEF Live, IsLive, Busy
    <2>2. RequestsAreAccounted
      BY <1>1, <2>1 DEF EntryInv, Accounted, RequestsAreAccounted
    <2>3. permits + Cardinality({c \in Conns : conn[c].at \notin {"none", "done"}})
             + (IF loop = "accept" THEN 1 ELSE 0) = Permits
      BY <1>1, <2>1 DEF EntryInv, PermitsExact, One
    <2>4. \A k \in Classes : entered[k] = Cardinality({c \in Conns : conn[c].ticket = k})
      BY <1>1 DEF EntryInv, TicketsExact, Having
    <2>5. \A n \in Counters : counts[n] = relays[n] + Cardinality({c \in Conns : conn[c].slot = n})
      BY <1>1 DEF EntryInv, SlotsExact, Taking
    <2> QED
      BY <1>1, <2>2, <2>3, <2>4, <2>5 DEF EntryInv, ActiveExact, InLimits, SlotsAreExact
  <1> QED
    BY <1>1, EntryInit, EntryNext, PTL DEF Spec
=============================================================================
