------------------------------ MODULE KeyStore ------------------------------
(***************************************************************************)
(* API keys (storage/keys.rs, storage/verified.rs): the records in memory  *)
(* in front of the database, the cache of verified keys with its           *)
(* single-flight slots, and what administrators do to keys: create, revoke *)
(* and, with the user that owns them, disable.  One step is what the code  *)
(* does under one lock, so argon2 runs between two steps.  Only keys that  *)
(* exist have a record under sha256(token); any other token is refused by  *)
(* the first look-up.  A database is configured; a step on it may fail.    *)
(***************************************************************************)
EXTENDS Integers, FiniteSets

CONSTANTS
    Keys,           \* keys by their lookup; generate_id_key never repeats one
    Owned,          \* those created for the one user of the model
    Verifiers,      \* tasks that run authorize_record
    Admins,         \* tasks of the admin API
    Slots,          \* identities of single-flight slots
    MaxEntries,     \* largest verified_cache_max considered
    None

ASSUME KeyAssumption ==
    /\ IsFiniteSet(Keys) /\ Owned \subseteq Keys
    /\ MaxEntries \in Nat
    /\ None \notin Keys \cup Verifiers \cup Slots

VARIABLES
    runtime,        \* per key: its record in memory, NoRec when there is none
    api_keys,       \* per key: its row in the database
    max_entries, entries,   \* the cache: at most max_entries verified records
    inflight, holder,       \* slot of a lookup; who locks a slot
    ver,            \* per verifier: where it is, its key, what it read, its slot, its result
    adm,            \* per administrator: where it is, its key, the ids it collected
    minted,         \* keys whose row was ever inserted
    revoked         \* keys a delete or disable was called for and has taken out of memory

cacheVars == <<entries, inflight, holder, ver>>
keyVars   == <<runtime, api_keys, adm, minted, revoked>>
vars      == <<keyVars, cacheVars, max_entries>>

(* cred_version: bump_cred_generation gives every published record a number of its own,
   load_keys gives each row 1.  A key is published once in its life, so the cache, which
   compares the versions of one key, can tell apart these two and nothing more. *)
Loaded      == 1
Published   == 2

NoRec       == [enabled |-> FALSE, cred_version |-> 0]
Rec(on, n)  == [enabled |-> on, cred_version |-> n]
Exists(k)   == runtime[k] # NoRec
NoEntries   == [k \in {} |-> [cred_version |-> 0, live |-> TRUE]]

IdleVer == [at |-> "idle", key |-> None, version |-> 0, slot |-> None, ok |-> FALSE, late |-> FALSE]
IdleAdm == [at |-> "idle", key |-> None, ids |-> {}]

Init ==
    /\ runtime = [k \in Keys |-> NoRec] /\ api_keys = [k \in Keys |-> "absent"]
    /\ max_entries \in 0 .. MaxEntries /\ entries = NoEntries
    /\ inflight = [k \in Keys |-> None] /\ holder = [s \in Slots |-> None]
    /\ ver = [v \in Verifiers |-> IdleVer] /\ adm = [a \in Admins |-> IdleAdm]
    /\ minted = {} /\ revoked = {}

-----------------------------------------------------------------------------
(* verify_or_cached *)

KeyOf(v)   == ver[v].key
Move(v, s) == ver' = [ver EXCEPT ![v].at = s]

(* mutant of Load: the record is not asked whether it is enabled *)
LoadUnchecked(v, k, then, refused) ==
    LET r == runtime[k] IN
    ver' = IF Exists(k)
           THEN [ver EXCEPT ![v].at = then, ![v].key = k, ![v].version = r.cred_version,
                            ![v].late = IF ver[v].at = "idle" THEN k \in revoked ELSE @]
           ELSE [ver EXCEPT ![v].at = refused]

(* load_record: the current record, which has to be enabled; `then' is the next place *)
Load(v, k, then, refused) ==
    LET r == runtime[k] IN
    ver' = IF r.enabled
           THEN [ver EXCEPT ![v].at = then, ![v].key = k, ![v].version = r.cred_version,
                            ![v].late = IF ver[v].at = "idle" THEN k \in revoked ELSE @]
           ELSE [ver EXCEPT ![v].at = refused]

(* a caller comes with the token of k and reads its record; a key that is gone or
   disabled is refused at once *)
Begin(v, k) ==
    /\ ver[v].at = "idle"
    /\ Load(v, k, IF max_entries = 0 THEN "bare" ELSE "peek", "idle")
    /\ UNCHANGED <<keyVars, max_entries, entries, inflight, holder>>

(* the cache is off: argon2 every time, and no single flight *)
BareProbe(v) ==
    /\ ver[v].at = "bare"
    /\ \E ok \in BOOLEAN : ver' = [ver EXCEPT ![v].at = "return", ![v].ok = ok]
    /\ UNCHANGED <<keyVars, max_entries, entries, inflight, holder>>

IsCached(v) ==
    LET k == KeyOf(v) IN
    k \in DOMAIN entries /\ entries[k].cred_version = ver[v].version /\ entries[k].live

Peek(v) ==
    /\ ver[v].at = "peek"
    /\ ver' = IF IsCached(v) THEN [ver EXCEPT ![v].at = "return", ![v].ok = TRUE]
                             ELSE [ver EXCEPT ![v].at = "flight", ![v].version = 0]
    /\ UNCHANGED <<keyVars, max_entries, entries, inflight, holder>>

FreeSlots == {s \in Slots : /\ holder[s] = None
                            /\ \A k \in Keys : inflight[k] # s
                            /\ \A v \in Verifiers : ver[v].slot # s}

(* flight: the slot of the lookup, or a new one, which nobody else knows *)
Flight(v) ==
    /\ ver[v].at = "flight"
    /\ \/ inflight[KeyOf(v)] # None
       \/ FreeSlots # {}
    /\ LET s == IF inflight[KeyOf(v)] # None THEN inflight[KeyOf(v)]
                ELSE CHOOSE f \in FreeSlots : TRUE
       IN  /\ inflight' = [inflight EXCEPT ![KeyOf(v)] = s]
           /\ ver' = [ver EXCEPT ![v].at = "lock", ![v].slot = s]
    /\ UNCHANGED <<keyVars, max_entries, entries, holder>>

(* mutant of Lock: a slot that was given up meanwhile is used all the same *)
LockAnySlot(v) ==
    /\ ver[v].at = "lock" /\ holder[ver[v].slot] = None
    /\ holder' = [holder EXCEPT ![ver[v].slot] = v]
    /\ Move(v, "recheck")
    /\ UNCHANGED <<keyVars, max_entries, entries, inflight>>

(* The lock of the slot, then is_current: while waiting, the slot may have been given up,
   and the loop starts again.  One step: only the holder of the lock makes a slot stop
   being current, and one that is not current never is again. *)
Lock(v) ==
    /\ ver[v].at = "lock" /\ holder[ver[v].slot] = None
    /\ \/ /\ inflight[KeyOf(v)] = ver[v].slot
          /\ holder' = [holder EXCEPT ![ver[v].slot] = v]
          /\ Move(v, "recheck")
       \/ /\ inflight[KeyOf(v)] # ver[v].slot
          /\ ver' = [ver EXCEPT ![v].at = "flight", ![v].slot = None]
          /\ UNCHANGED holder
    /\ UNCHANGED <<keyVars, max_entries, entries, inflight>>

Recheck(v) ==
    /\ ver[v].at = "recheck"
    /\ Load(v, KeyOf(v), "repeek", "cleanup")
    /\ UNCHANGED <<keyVars, max_entries, entries, inflight, holder>>

Repeek(v) ==
    /\ ver[v].at = "repeek"
    /\ ver' = IF IsCached(v) THEN [ver EXCEPT ![v].at = "cleanup", ![v].ok = TRUE]
                             ELSE [ver EXCEPT ![v].at = "probe"]
    /\ UNCHANGED <<keyVars, max_entries, entries, inflight, holder>>

(* argon2; a wrong token and a panic both leave through the guard *)
Probe(v) ==
    /\ ver[v].at = "probe"
    /\ \E s \in {"put", "cleanup"} : Move(v, s)
    /\ UNCHANGED <<keyVars, max_entries, entries, inflight, holder>>

(* a full cache gives up its oldest entry; which one that is stays open *)
Put(v) ==
    /\ ver[v].at = "put"
    /\ LET k == KeyOf(v)
           full == Cardinality(DOMAIN entries) >= max_entries /\ k \notin DOMAIN entries IN
       \E out \in SUBSET DOMAIN entries :
          /\ Cardinality(out) = IF full THEN 1 ELSE 0
          /\ entries' = [x \in (DOMAIN entries \ out) \cup {k} |->
                            IF x = k THEN [cred_version |-> ver[v].version, live |-> TRUE]
                                     ELSE entries[x]]
    /\ ver' = [ver EXCEPT ![v].at = "cleanup", ![v].ok = TRUE]
    /\ UNCHANGED <<keyVars, max_entries, inflight, holder>>

(* Drop for FlightGuard comes before the lock is released: remove_if_current *)
Cleanup(v) ==
    /\ ver[v].at = "cleanup"
    /\ inflight' = [inflight EXCEPT ![KeyOf(v)] = IF @ = ver[v].slot THEN None ELSE @]
    /\ Move(v, "unlock")
    /\ UNCHANGED <<keyVars, max_entries, entries, holder>>

(* mutant of Unlock: a refused verification keeps its slot locked *)
UnlockWhenOk(v) ==
    /\ ver[v].at = "unlock"
    /\ holder' = IF ver[v].ok THEN [holder EXCEPT ![ver[v].slot] = None] ELSE holder
    /\ ver' = [ver EXCEPT ![v].at = "return", ![v].slot = None]
    /\ UNCHANGED <<keyVars, max_entries, entries, inflight>>

Unlock(v) ==
    /\ ver[v].at = "unlock"
    /\ holder' = [holder EXCEPT ![ver[v].slot] = None]
    /\ ver' = [ver EXCEPT ![v].at = "return", ![v].slot = None]
    /\ UNCHANGED <<keyVars, max_entries, entries, inflight>>

Return(v) ==
    /\ ver[v].at = "return"
    /\ ver' = [ver EXCEPT ![v] = IdleVer]
    /\ UNCHANGED <<keyVars, max_entries, entries, inflight, holder>>

(* verified_at + ttl passes *)
Expire(k) ==
    /\ k \in DOMAIN entries /\ entries[k].live
    /\ entries' = [entries EXCEPT ![k].live = FALSE]
    /\ UNCHANGED <<keyVars, max_entries, inflight, holder, ver>>

-----------------------------------------------------------------------------
(* create_in, delete and disable_keys_for_owner, which update_user and delete_user call.
   A call that the database refuses, or that has nothing to do, changes nothing here. *)

Without(ks) == [x \in DOMAIN entries \ ks |-> entries[x]]
Step(a, s)  == adm' = [adm EXCEPT ![a].at = s]
Done(a)     == adm' = [adm EXCEPT ![a] = IdleAdm]

(* create_in up to the row; a collision draws another id *)
CreateInsert(a, k) ==
    /\ adm[a].at = "idle" /\ k \notin minted
    /\ api_keys' = [api_keys EXCEPT ![k] = "enabled"]
    /\ minted' = minted \cup {k}
    /\ adm' = [adm EXCEPT ![a] = [IdleAdm EXCEPT !.at = "publish", !.key = k]]
    /\ UNCHANGED <<runtime, revoked, cacheVars, max_entries>>

(* bump_cred_generation, then the record *)
CreatePublish(a) ==
    /\ adm[a].at = "publish"
    /\ runtime' = [runtime EXCEPT ![adm[a].key] = Rec(TRUE, Published)]
    /\ Done(a)
    /\ UNCHANGED <<api_keys, minted, revoked, cacheVars, max_entries>>

(* mutant of DeleteRow: a failure is taken for success *)
DeleteRowUnchecked(a, k) ==
    /\ adm[a].at = "idle" /\ Exists(k)
    /\ api_keys' \in {api_keys, [api_keys EXCEPT ![k] = "absent"]}
    /\ adm' = [adm EXCEPT ![a] = [IdleAdm EXCEPT !.at = "forget", !.key = k]]
    /\ UNCHANGED <<runtime, minted, revoked, cacheVars, max_entries>>

(* delete: the database first *)
DeleteRow(a, k) ==
    /\ adm[a].at = "idle" /\ Exists(k)
    /\ api_keys' = [api_keys EXCEPT ![k] = "absent"]
    /\ adm' = [adm EXCEPT ![a] = [IdleAdm EXCEPT !.at = "forget", !.key = k]]
    /\ UNCHANGED <<runtime, minted, revoked, cacheVars, max_entries>>

(* of two deletes of one key only one removes it and goes on *)
DeleteForget(a) ==
    /\ adm[a].at = "forget"
    /\ \/ /\ Exists(adm[a].key)
          /\ runtime' = [runtime EXCEPT ![adm[a].key] = NoRec]
          /\ revoked' = revoked \cup {adm[a].key}
          /\ Step(a, "invalidate")
       \/ /\ ~Exists(adm[a].key)
          /\ Done(a)
          /\ UNCHANGED <<runtime, revoked>>
    /\ UNCHANGED <<api_keys, minted, cacheVars, max_entries>>

DeleteInvalidate(a) ==
    /\ adm[a].at = "invalidate"
    /\ entries' = Without({adm[a].key})
    /\ Done(a)
    /\ UNCHANGED <<runtime, api_keys, minted, revoked, inflight, holder, ver, max_entries>>

DisableCollect(a) ==
    /\ adm[a].at = "idle"
    /\ \E k \in Owned : runtime[k].enabled
    /\ adm' = [adm EXCEPT ![a] = [IdleAdm EXCEPT !.at = "update",
                                                !.ids = {k \in Owned : runtime[k].enabled}]]
    /\ UNCHANGED <<runtime, api_keys, minted, revoked, cacheVars, max_entries>>

(* one transaction over the collected ids *)
DisableRows(a) ==
    /\ adm[a].at = "update"
    /\ \/ /\ api_keys' = [k \in Keys |-> IF k \in adm[a].ids /\ api_keys[k] # "absent"
                                         THEN "disabled" ELSE api_keys[k]]
          /\ Step(a, "switch")
       \/ Done(a) /\ UNCHANGED api_keys
    /\ UNCHANGED <<runtime, minted, revoked, cacheVars, max_entries>>

(* every key of the owner that is in memory by now, collected or not *)
DisableRecords(a) ==
    /\ adm[a].at = "switch"
    /\ runtime' = [k \in Keys |-> IF k \in Owned /\ Exists(k)
                                  THEN Rec(FALSE, runtime[k].cred_version) ELSE runtime[k]]
    /\ revoked' = revoked \cup adm[a].ids
    /\ Step(a, "purge")
    /\ UNCHANGED <<api_keys, minted, cacheVars, max_entries>>

(* invalidate_by_id for one id after the other *)
DisableInvalidate(a) ==
    /\ adm[a].at = "purge"
    /\ \E k \in adm[a].ids :
          /\ entries' = Without({k})
          /\ IF adm[a].ids = {k} THEN Done(a) ELSE adm' = [adm EXCEPT ![a].ids = @ \ {k}]
    /\ UNCHANGED <<runtime, api_keys, minted, revoked, inflight, holder, ver, max_entries>>

(* the process dies at any point and starts again with what load_keys reads *)
Restart ==
    /\ runtime' = [k \in Keys |-> IF api_keys[k] = "absent" THEN NoRec
                                  ELSE Rec(api_keys[k] = "enabled", Loaded)]
    /\ entries' = NoEntries
    /\ inflight' = [k \in Keys |-> None] /\ holder' = [s \in Slots |-> None]
    /\ ver' = [v \in Verifiers |-> IdleVer] /\ adm' = [a \in Admins |-> IdleAdm]
    /\ UNCHANGED <<api_keys, minted, revoked, max_entries>>

-----------------------------------------------------------------------------
VerifyStep(v) ==
    \/ BareProbe(v) \/ Peek(v) \/ Flight(v) \/ Lock(v) \/ Recheck(v) \/ Repeek(v)
    \/ Probe(v) \/ Put(v) \/ Cleanup(v) \/ Unlock(v) \/ Return(v)

AdminStep(a) ==
    \/ \E k \in Keys : CreateInsert(a, k) \/ DeleteRow(a, k)
    \/ CreatePublish(a) \/ DeleteForget(a) \/ DeleteInvalidate(a)
    \/ DisableCollect(a) \/ DisableRows(a) \/ DisableRecords(a) \/ DisableInvalidate(a)

Next ==
    \/ \E v \in Verifiers : VerifyStep(v) \/ \E k \in Keys : Begin(v, k)
    \/ \E a \in Admins : AdminStep(a)
    \/ \E k \in Keys : Expire(k)
    \/ Restart

Spec == Init /\ [][Next]_vars

(* the tasks of the verifiers are scheduled *)
FairSpec == Spec /\ \A v \in Verifiers : WF_vars(VerifyStep(v))

-----------------------------------------------------------------------------
InFlight == {"recheck", "repeek", "probe", "put", "cleanup"}

VerState == [at : {"idle", "bare", "peek", "flight", "lock", "unlock", "return"} \cup InFlight,
             key : Keys \cup {None}, version : 0 .. Published, slot : Slots \cup {None},
             ok : BOOLEAN, late : BOOLEAN]
AdmState == [at : {"idle", "publish", "forget", "invalidate", "update", "switch", "purge"},
             key : Keys \cup {None}, ids : SUBSET Keys]

TypeOK ==
    /\ runtime \in [Keys -> [enabled : BOOLEAN, cred_version : 0 .. Published]]
    /\ api_keys \in [Keys -> {"absent", "enabled", "disabled"}]
    /\ max_entries \in 0 .. MaxEntries
    /\ DOMAIN entries \subseteq Keys /\ Cardinality(DOMAIN entries) <= max_entries
    /\ \A k \in DOMAIN entries : entries[k] \in [cred_version : 0 .. Published, live : BOOLEAN]
    /\ inflight \in [Keys -> Slots \cup {None}] /\ holder \in [Slots -> Verifiers \cup {None}]
    /\ ver \in [Verifiers -> VerState] /\ adm \in [Admins -> AdmState]
    /\ minted \subseteq Keys /\ revoked \subseteq Keys

(* A verification that begins after a delete or a disable took the key out of memory
   never succeeds: not by the cache, into which a slower verification may put the key
   after it was invalidated, nor after a crash and a restart (delete: database first). *)
RevokedStaysRevoked == \A v \in Verifiers : ver[v].ok => ~ver[v].late

(* argon2, 19 MiB each, runs at most once per key at a time, however callers that come,
   wait and leave take over each other's slot (verified.rs, FlightGuard, is_current). *)
OneProbePerKey ==
    \A v, w \in Verifiers :
        ver[v].at = "probe" /\ ver[w].at = "probe" /\ KeyOf(v) = KeyOf(w) => v = w

(* Verification ends unless callers keep getting in front of it: nobody waits for a slot
   that is never released (FlightGuard, early returns and panics included). *)
NobodyWaitsForever ==
    \A v \in Verifiers : [](ver[v].at = "lock" => <>(ver[v].at # "lock"))

(* README.md: "disabling or deleting a user ... disables the API keys it owns".  What is
   disabled in memory is so in the database too, or a restart would bring it back. *)
DisabledStaysDisabled ==
    \A k \in Keys : Exists(k) /\ ~runtime[k].enabled => api_keys[k] # "enabled"
=============================================================================
