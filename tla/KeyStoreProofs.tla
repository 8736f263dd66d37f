--------------------------- MODULE KeyStoreProofs ---------------------------
(* Proofs about KeyStore, for any number of keys, verifiers, administrators and slots. *)
EXTENDS KeyStore, TLAPS

GoodVer ==
    {r \in VerState : /\ r.at # "idle" => r.key \in Keys
                      /\ r.at \in {"lock", "unlock"} \cup InFlight => r.slot \in Slots}
GoodAdm ==
    {r \in AdmState : r.at \in {"publish", "forget", "invalidate"} => r.key \in Keys}

(* the part of the type invariant that the arguments below use *)
VerShape  == ver \in [Verifiers -> GoodVer]
AdmShape  == adm \in [Admins -> GoodAdm]
SlotShape == inflight \in [Keys -> Slots \cup {None}] /\ holder \in [Slots -> Verifiers \cup {None}]
KeyShape  ==
    /\ runtime \in [Keys -> [enabled : BOOLEAN, cred_version : 0 .. Published]]
    /\ api_keys \in [Keys -> {"absent", "enabled", "disabled"}]
    /\ minted \subseteq Keys /\ revoked \subseteq Keys
Shape     == VerShape /\ AdmShape /\ SlotShape /\ KeyShape

(* who is in flight owns the slot, and the slot is the current one of its key *)
FlightInv ==
    \A v \in Verifiers :
        /\ ver[v].at \in {"unlock"} \cup InFlight => holder[ver[v].slot] = v
        /\ ver[v].at \in InFlight => inflight[ver[v].key] = ver[v].slot

Pending(a, k) == adm[a].at = "publish" /\ adm[a].key = k
Settled(k)    == k \in minted /\ \A a \in Admins : ~Pending(a, k)

(* a key is published once, and what a delete or disable has dealt with so far stays so *)
RevokeInv ==
    /\ \A k \in Keys : Exists(k) => Settled(k)
    /\ \A k \in Keys : api_keys[k] # "absent" => k \in minted
    /\ \A a \in Admins : adm[a].at = "publish" => adm[a].key \in minted
    /\ \A a, b \in Admins : \A k \in Keys : Pending(a, k) /\ Pending(b, k) => a = b
    /\ \A a \in Admins : adm[a].at = "forget" =>
          api_keys[adm[a].key] = "absent" /\ Settled(adm[a].key)
    /\ \A a \in Admins : adm[a].at \in {"update", "switch"} =>
          \A k \in adm[a].ids : k \in Owned /\ Settled(k)
    /\ \A a \in Admins : adm[a].at = "switch" =>
          \A k \in adm[a].ids : api_keys[k] # "enabled"
    /\ \A k \in revoked : ~runtime[k].enabled /\ api_keys[k] # "enabled" /\ Settled(k)

(* nobody gets past the first look-up with a revoked key *)
NobodyLate == \A v \in Verifiers : ~ver[v].late

-----------------------------------------------------------------------------
(* Idle callers and administrators have the shape of their kind. *)
LEMMA IdleIsGood == IdleVer \in GoodVer /\ IdleAdm \in GoodAdm
BY DEF IdleVer, IdleAdm, GoodVer, GoodAdm, VerState, AdmState, InFlight, Published

(* The initial states have the shape. *)
LEMMA ShapeInit == Init => Shape
<1> SUFFICES ASSUME Init PROVE Shape
    OBVIOUS
<1>1. VerShape /\ AdmShape BY IdleIsGood DEF Init, VerShape, AdmShape
<1>2. SlotShape BY DEF Init, SlotShape
<1>3. KeyShape BY DEF Init, KeyShape, NoRec, Published
<1> QED BY <1>1, <1>2, <1>3 DEF Shape

(* Every step keeps the shape of the callers of verify_or_cached. *)
LEMMA VerShapeNext == Shape /\ [Next]_vars => VerShape'
<1> SUFFICES ASSUME Shape, [Next]_vars PROVE VerShape'
    OBVIOUS
<1> USE DEF Shape
<1>0. ASSUME NEW v \in Verifiers, NEW r \in GoodVer, ver' = [ver EXCEPT ![v] = r] PROVE VerShape'
    BY <1>0 DEF VerShape
<1>1. ASSUME NEW v \in Verifiers, NEW k \in Keys, NEW then \in {"bare", "peek", "repeek"},
             NEW refused \in {"idle", "cleanup"}, Load(v, k, then, refused),
             \/ ver[v].at = "idle" /\ refused = "idle" /\ then # "repeek"
             \/ ver[v].at = "recheck"
      PROVE  VerShape'
    <2> DEFINE l  == IF ver[v].at = "idle" THEN k \in revoked ELSE ver[v].late
               r1 == [ver[v] EXCEPT !.at = then, !.key = k, !.version = runtime[k].cred_version,
                                    !.late = l]
               r2 == [ver[v] EXCEPT !.at = refused]
    <2>1. ver[v] \in GoodVer BY DEF VerShape
    <2>2. l \in BOOLEAN
        <3>1. ver[v].late \in BOOLEAN BY <2>1 DEF GoodVer, VerState
        <3>2. (k \in revoked) \in BOOLEAN OBVIOUS
        <3> QED BY <3>1, <3>2, Zenon
    <2>3. ver' = [ver EXCEPT ![v] = r1] \/ ver' = [ver EXCEPT ![v] = r2]
        BY <1>1 DEF Load
    <2> HIDE DEF l
    <2>4. runtime[k].cred_version \in 0 .. Published BY DEF KeyShape, Published
    <2>5. r1 \in GoodVer
        <3>1. r1 \in VerState BY <2>1, <2>2, <2>4 DEF GoodVer, VerState, InFlight
        <3>2. r1.at = then /\ r1.key = k /\ r1.slot = ver[v].slot BY <2>1 DEF GoodVer, VerState
        <3>3. then = "repeek" => ver[v].slot \in Slots BY <1>1, <2>1 DEF GoodVer, InFlight
        <3> QED BY <3>1, <3>2, <3>3 DEF GoodVer, InFlight
    <2>6. r2 \in GoodVer BY <1>1, <2>1 DEF GoodVer, VerState, InFlight
    <2> QED BY <1>0, <2>3, <2>5, <2>6
<1>2. ASSUME NEW v \in Verifiers, VerifyStep(v) PROVE VerShape'
    <2>0. ver[v] \in GoodVer BY DEF VerShape
    <2>1. CASE BareProbe(v)
        <3>1. PICK ok \in BOOLEAN : ver' = [ver EXCEPT ![v] = [ver[v] EXCEPT !.at = "return", !.ok = ok]]
            BY <2>1 DEF BareProbe
        <3>2. [ver[v] EXCEPT !.at = "return", !.ok = ok] \in GoodVer
            BY <2>0, <2>1 DEF BareProbe, GoodVer, VerState, InFlight
        <3> QED BY <1>0, <3>1, <3>2
    <2>2. CASE Peek(v)
        <3>1. \/ ver' = [ver EXCEPT ![v] = [ver[v] EXCEPT !.at = "return", !.ok = TRUE]]
              \/ ver' = [ver EXCEPT ![v] = [ver[v] EXCEPT !.at = "flight", !.version = 0]]
            BY <2>2 DEF Peek
        <3>2. /\ [ver[v] EXCEPT !.at = "return", !.ok = TRUE] \in GoodVer
              /\ [ver[v] EXCEPT !.at = "flight", !.version = 0] \in GoodVer
            <4>1. 0 \in 0 .. Published BY DEF Published
            <4> QED BY <2>0, <2>2, <4>1 DEF Peek, GoodVer, VerState, InFlight
        <3> QED BY <1>0, <3>1, <3>2
    <2>3. CASE Flight(v)
        <3> DEFINE s == IF inflight[KeyOf(v)] # None THEN inflight[KeyOf(v)]
                        ELSE CHOOSE f \in FreeSlots : TRUE
        <3>1. s \in Slots
            BY <2>0, <2>3 DEF Flight, FreeSlots, KeyOf, SlotShape, GoodVer
        <3>2. ver' = [ver EXCEPT ![v] = [ver[v] EXCEPT !.at = "lock", !.slot = s]]
            BY <2>3 DEF Flight
        <3> HIDE DEF s
        <3>3. [ver[v] EXCEPT !.at = "lock", !.slot = s] \in GoodVer
            BY <2>0, <2>3, <3>1 DEF Flight, GoodVer, VerState, InFlight
        <3> QED BY <1>0, <3>2, <3>3
    <2>4. CASE Lock(v)
        <3>1. \/ ver' = [ver EXCEPT ![v] = [ver[v] EXCEPT !.at = "recheck"]]
              \/ ver' = [ver EXCEPT ![v] = [ver[v] EXCEPT !.at = "flight", !.slot = None]]
            BY <2>4 DEF Lock, Move
        <3>2. /\ [ver[v] EXCEPT !.at = "recheck"] \in GoodVer
              /\ [ver[v] EXCEPT !.at = "flight", !.slot = None] \in GoodVer
            BY <2>0, <2>4 DEF Lock, GoodVer, VerState, InFlight
        <3> QED BY <1>0, <3>1, <3>2
    <2>5. CASE Recheck(v)
        <3>1. KeyOf(v) \in Keys BY <2>0, <2>5 DEF Recheck, KeyOf, GoodVer
        <3> QED BY <1>1, <2>5, <3>1 DEF Recheck
    <2>6. CASE Repeek(v)
        <3>1. \/ ver' = [ver EXCEPT ![v] = [ver[v] EXCEPT !.at = "cleanup", !.ok = TRUE]]
              \/ ver' = [ver EXCEPT ![v] = [ver[v] EXCEPT !.at = "probe"]]
            BY <2>6 DEF Repeek
        <3>2. /\ [ver[v] EXCEPT !.at = "cleanup", !.ok = TRUE] \in GoodVer
              /\ [ver[v] EXCEPT !.at = "probe"] \in GoodVer
            BY <2>0, <2>6 DEF Repeek, GoodVer, VerState, InFlight
        <3> QED BY <1>0, <3>1, <3>2
    <2>7. CASE Probe(v)
        <3>1. PICK s \in {"put", "cleanup"} : ver' = [ver EXCEPT ![v] = [ver[v] EXCEPT !.at = s]]
            BY <2>7 DEF Probe, Move
        <3>2. [ver[v] EXCEPT !.at = s] \in GoodVer
            BY <2>0, <2>7 DEF Probe, GoodVer, VerState, InFlight
        <3> QED BY <1>0, <3>1, <3>2
    <2>8. CASE Put(v)
        <3>1. [ver[v] EXCEPT !.at = "cleanup", !.ok = TRUE] \in GoodVer
            BY <2>0, <2>8 DEF Put, GoodVer, VerState, InFlight
        <3>2. ver' = [ver EXCEPT ![v].at = "cleanup", ![v].ok = TRUE] BY <2>8 DEF Put
        <3> QED BY <1>0, <3>1, <3>2
    <2>9. CASE Cleanup(v)
        <3>1. [ver[v] EXCEPT !.at = "unlock"] \in GoodVer
            BY <2>0, <2>9 DEF Cleanup, GoodVer, VerState, InFlight
        <3> QED BY <1>0, <2>9, <3>1 DEF Cleanup, Move
    <2>10. CASE Unlock(v)
        <3>1. [ver[v] EXCEPT !.at = "return", !.slot = None] \in GoodVer
            BY <2>0, <2>10 DEF Unlock, GoodVer, VerState, InFlight
        <3> QED BY <1>0, <2>10, <3>1 DEF Unlock
    <2>11. CASE Return(v) BY <1>0, <2>11, IdleIsGood DEF Return
    <2> QED BY <1>2, <2>1, <2>2, <2>3, <2>4, <2>5, <2>6, <2>7, <2>8, <2>9, <2>10, <2>11
            DEF VerifyStep
<1>3. ASSUME NEW v \in Verifiers, NEW k \in Keys, Begin(v, k) PROVE VerShape'
    BY <1>1, <1>3 DEF Begin
<1>4. ASSUME NEW a \in Admins, AdminStep(a) PROVE VerShape'
    BY <1>4 DEF AdminStep, CreateInsert, DeleteRow, CreatePublish, DeleteForget, DeleteInvalidate,
                DisableCollect, DisableRows, DisableRecords, DisableInvalidate, cacheVars, VerShape
<1>5. CASE \E k \in Keys : Expire(k) BY <1>5 DEF Expire, VerShape
<1>6. CASE Restart BY <1>6, IdleIsGood DEF Restart, VerShape
<1>7. CASE UNCHANGED vars BY <1>7 DEF vars, cacheVars, VerShape
<1> QED BY <1>2, <1>3, <1>4, <1>5, <1>6, <1>7 DEF Next

(* ... of the administrators, *)
LEMMA AdmShapeNext == Shape /\ [Next]_vars => AdmShape'
<1> SUFFICES ASSUME Shape, [Next]_vars PROVE AdmShape'
    OBVIOUS
<1> USE DEF Shape
<1>0. ASSUME NEW a \in Admins, NEW r \in GoodAdm, adm' = [adm EXCEPT ![a] = r] PROVE AdmShape'
    BY <1>0 DEF AdmShape
<1>1. ASSUME NEW a \in Admins, Done(a) PROVE AdmShape'
    BY <1>0, <1>1, IdleIsGood DEF Done
<1>2. ASSUME NEW a \in Admins, NEW s \in {"switch", "purge", "invalidate"}, Step(a, s),
             s = "invalidate" => adm[a].at = "forget"
      PROVE  AdmShape'
    <2>1. adm[a] \in GoodAdm BY DEF AdmShape
    <2>2. [adm[a] EXCEPT !.at = s] \in GoodAdm BY <1>2, <2>1 DEF GoodAdm, AdmState
    <2> QED BY <1>0, <1>2, <2>2 DEF Step
<1>3. ASSUME NEW a \in Admins, AdminStep(a) PROVE AdmShape'
    <2>0. adm[a] \in GoodAdm BY DEF AdmShape
    <2>1. ASSUME NEW k \in Keys, NEW s \in {"publish", "forget"},
                 adm' = [adm EXCEPT ![a] = [IdleAdm EXCEPT !.at = s, !.key = k]]
          PROVE  AdmShape'
        <3>1. [IdleAdm EXCEPT !.at = s, !.key = k] \in GoodAdm
            BY IdleIsGood DEF GoodAdm, AdmState
        <3> QED BY <1>0, <2>1, <3>1
    <2>2. CASE \E k \in Keys : CreateInsert(a, k) \/ DeleteRow(a, k)
        BY <2>1, <2>2 DEF CreateInsert, DeleteRow
    <2>3. CASE CreatePublish(a) \/ DeleteInvalidate(a)
        BY <1>1, <2>3 DEF CreatePublish, DeleteInvalidate
    <2>4. CASE DeleteForget(a) BY <1>1, <1>2, <2>4 DEF DeleteForget
    <2>5. CASE DisableCollect(a)
        <3> DEFINE c == {k \in Owned : runtime[k].enabled}
        <3>1. c \subseteq Keys BY KeyAssumption
        <3>2. adm' = [adm EXCEPT ![a] = [IdleAdm EXCEPT !.at = "update", !.ids = c]]
            BY <2>5 DEF DisableCollect
        <3> HIDE DEF c
        <3>3. [IdleAdm EXCEPT !.at = "update", !.ids = c] \in GoodAdm
            BY <3>1, IdleIsGood DEF GoodAdm, AdmState
        <3> QED BY <1>0, <3>2, <3>3
    <2>6. CASE DisableRows(a) BY <1>1, <1>2, <2>6 DEF DisableRows
    <2>7. CASE DisableRecords(a) BY <1>2, <2>7 DEF DisableRecords
    <2>8. CASE DisableInvalidate(a)
        <3>1. ASSUME NEW k \in adm[a].ids PROVE [adm[a] EXCEPT !.ids = @ \ {k}] \in GoodAdm
            BY <2>0 DEF GoodAdm, AdmState
        <3> QED BY <1>0, <1>1, <2>8, <3>1 DEF DisableInvalidate
    <2> QED BY <1>3, <2>2, <2>3, <2>4, <2>5, <2>6, <2>7, <2>8 DEF AdminStep
<1>4. ASSUME NEW v \in Verifiers, VerifyStep(v) \/ \E k \in Keys : Begin(v, k) PROVE AdmShape'
    BY <1>4 DEF VerifyStep, BareProbe, Peek, Flight, Lock, Recheck, Repeek, Probe, Put, Cleanup,
                Unlock, Return, Begin, keyVars, AdmShape
<1>5. CASE \E k \in Keys : Expire(k) BY <1>5 DEF Expire, keyVars, AdmShape
<1>6. CASE Restart BY <1>6, IdleIsGood DEF Restart, AdmShape
<1>7. CASE UNCHANGED vars BY <1>7 DEF vars, keyVars, AdmShape
<1> QED BY <1>3, <1>4, <1>5, <1>6, <1>7 DEF Next

(* ... of the single-flight slots, *)
LEMMA SlotShapeNext == Shape /\ [Next]_vars => SlotShape'
<1> SUFFICES ASSUME Shape, [Next]_vars PROVE SlotShape'
    OBVIOUS
<1> USE DEF Shape, SlotShape
<1>1. ASSUME NEW v \in Verifiers, VerifyStep(v) PROVE SlotShape'
    <2>0. ver[v] \in GoodVer BY DEF VerShape
    <2>1. CASE Flight(v)
        <3> DEFINE s == IF inflight[KeyOf(v)] # None THEN inflight[KeyOf(v)]
                        ELSE CHOOSE f \in FreeSlots : TRUE
        <3>1. KeyOf(v) \in Keys BY <2>0, <2>1 DEF Flight, KeyOf, GoodVer
        <3>2. s \in Slots BY <2>1, <3>1 DEF Flight, FreeSlots
        <3>3. inflight' = [inflight EXCEPT ![KeyOf(v)] = s] /\ UNCHANGED holder
            BY <2>1 DEF Flight
        <3> HIDE DEF s
        <3> QED BY <3>1, <3>2, <3>3
    <2>2. CASE Lock(v) BY <2>2 DEF Lock
    <2>3. CASE Cleanup(v) BY <2>3 DEF Cleanup
    <2>4. CASE Unlock(v) BY <2>4 DEF Unlock
    <2>5. CASE BareProbe(v) \/ Peek(v) \/ Recheck(v) \/ Repeek(v) \/ Probe(v) \/ Put(v) \/ Return(v)
        BY <2>5 DEF BareProbe, Peek, Recheck, Repeek, Probe, Put, Return
    <2> QED BY <1>1, <2>1, <2>2, <2>3, <2>4, <2>5 DEF VerifyStep
<1>2. ASSUME NEW v \in Verifiers, NEW k \in Keys, Begin(v, k) PROVE SlotShape'
    BY <1>2 DEF Begin
<1>3. ASSUME NEW a \in Admins, AdminStep(a) PROVE SlotShape'
    BY <1>3 DEF AdminStep, CreateInsert, DeleteRow, CreatePublish, DeleteForget, DeleteInvalidate,
                DisableCollect, DisableRows, DisableRecords, DisableInvalidate, cacheVars
<1>4. CASE \E k \in Keys : Expire(k) BY <1>4 DEF Expire
<1>5. CASE Restart BY <1>5 DEF Restart
<1>6. CASE UNCHANGED vars BY <1>6 DEF vars, cacheVars
<1> QED BY <1>1, <1>2, <1>3, <1>4, <1>5, <1>6 DEF Next

(* ... of keys, rows and records, *)
LEMMA KeyShapeNext == Shape /\ [Next]_vars => KeyShape'
<1> SUFFICES ASSUME Shape, [Next]_vars PROVE KeyShape'
    OBVIOUS
<1> USE DEF Shape, KeyShape
<1>1. ASSUME NEW v \in Verifiers, VerifyStep(v) \/ \E k \in Keys : Begin(v, k) PROVE KeyShape'
    BY <1>1 DEF VerifyStep, BareProbe, Peek, Flight, Lock, Recheck, Repeek, Probe, Put, Cleanup,
                Unlock, Return, Begin, keyVars
<1>2. ASSUME NEW a \in Admins, AdminStep(a) PROVE KeyShape'
    <2>0. adm[a] \in GoodAdm BY DEF AdmShape
    <2>1. CASE \E k \in Keys : CreateInsert(a, k) \/ DeleteRow(a, k)
        BY <2>1 DEF CreateInsert, DeleteRow
    <2>2. CASE CreatePublish(a) BY <2>0, <2>2 DEF CreatePublish, Rec, Published, GoodAdm
    <2>3. CASE DeleteForget(a)
        <3>1. adm[a].key \in Keys BY <2>0, <2>3 DEF DeleteForget, GoodAdm
        <3>2. NoRec \in [enabled : BOOLEAN, cred_version : 0 .. Published] BY DEF NoRec, Published
        <3> QED BY <2>3, <3>1, <3>2 DEF DeleteForget
    <2>4. CASE DeleteInvalidate(a) \/ DisableCollect(a) \/ DisableInvalidate(a)
        BY <2>4 DEF DeleteInvalidate, DisableCollect, DisableInvalidate
    <2>5. CASE DisableRows(a) BY <2>5 DEF DisableRows
    <2>6. CASE DisableRecords(a)
        <3>1. adm[a].ids \subseteq Keys BY <2>0 DEF GoodAdm, AdmState
        <3> QED BY <2>6, <3>1 DEF DisableRecords, Rec, Published
    <2> QED BY <1>2, <2>1, <2>2, <2>3, <2>4, <2>5, <2>6 DEF AdminStep
<1>3. CASE \E k \in Keys : Expire(k) BY <1>3 DEF Expire, keyVars
<1>4. CASE Restart
    <2>1. ASSUME NEW k \in Keys PROVE Rec(api_keys[k] = "enabled", Loaded) \in
                                       [enabled : BOOLEAN, cred_version : 0 .. Published]
        <3>1. (api_keys[k] = "enabled") \in BOOLEAN BY Zenon
        <3>2. Loaded \in 0 .. Published BY DEF Loaded, Published
        <3> QED BY <3>1, <3>2, Zenon DEF Rec
    <2>2. NoRec \in [enabled : BOOLEAN, cred_version : 0 .. Published] BY DEF NoRec, Published
    <2>3. runtime' = [k \in Keys |-> IF api_keys[k] = "absent" THEN NoRec
                                     ELSE Rec(api_keys[k] = "enabled", Loaded)]
        BY <1>4 DEF Restart
    <2>4. runtime' \in [Keys -> [enabled : BOOLEAN, cred_version : 0 .. Published]]
        BY <2>1, <2>2, <2>3, Zenon
    <2> QED BY <1>4, <2>4 DEF Restart
<1>5. CASE UNCHANGED vars BY <1>5 DEF vars, keyVars
<1> QED BY <1>1, <1>2, <1>3, <1>4, <1>5 DEF Next

(* ... and so of the whole state. *)
LEMMA ShapeNext == Shape /\ [Next]_vars => Shape'
BY VerShapeNext, AdmShapeNext, SlotShapeNext, KeyShapeNext DEF Shape

-----------------------------------------------------------------------------
(* One flight at a time *)

(* Every step preserves FlightInv: a slot stops being current only in the hands of its holder. *)
LEMMA FlightNext == Shape /\ FlightInv /\ [Next]_vars => FlightInv'
<1> SUFFICES ASSUME Shape, FlightInv, [Next]_vars PROVE FlightInv'
    OBVIOUS
<1>0. \A w \in Verifiers :
        /\ ver[w] \in VerState
        /\ ver[w].at # "idle" => ver[w].key \in Keys
        /\ ver[w].at \in {"lock", "unlock"} \cup InFlight => ver[w].slot \in Slots
    BY DEF Shape, VerShape, GoodVer
<1> USE DEF Shape, VerShape, SlotShape, FlightInv, InFlight
<1>1. ASSUME NEW v \in Verifiers, VerifyStep(v) PROVE FlightInv'
    <2>1. CASE BareProbe(v) BY <1>0, <2>1 DEF BareProbe, VerState
    <2>2. CASE Peek(v) BY <1>0, <2>2 DEF Peek, VerState
    <2>3. CASE Flight(v)
        <3> DEFINE s == IF inflight[KeyOf(v)] # None THEN inflight[KeyOf(v)]
                        ELSE CHOOSE f \in FreeSlots : TRUE
        <3>1. /\ inflight' = [inflight EXCEPT ![KeyOf(v)] = s]
              /\ ver' = [ver EXCEPT ![v].at = "lock", ![v].slot = s]
              /\ UNCHANGED holder
            BY <2>3 DEF Flight
        <3>2. inflight[KeyOf(v)] # None => s = inflight[KeyOf(v)]
            OBVIOUS
        <3>3. KeyOf(v) \in Keys /\ None \notin Slots BY <1>0, <2>3, KeyAssumption DEF Flight, KeyOf
        <3> HIDE DEF s
        <3> QED BY <1>0, <3>1, <3>2, <3>3 DEF VerState
    <2>4. CASE Lock(v) BY <1>0, <2>4, KeyAssumption DEF Lock, Move, KeyOf, VerState
    <2>5. CASE Recheck(v) BY <1>0, <2>5 DEF Recheck, Load, KeyOf, VerState
    <2>6. CASE Repeek(v) BY <1>0, <2>6 DEF Repeek, VerState
    <2>7. CASE Probe(v) BY <1>0, <2>7 DEF Probe, Move, VerState
    <2>8. CASE Put(v)
        <3>1. ver' = [ver EXCEPT ![v].at = "cleanup", ![v].ok = TRUE] /\ UNCHANGED <<inflight, holder>>
            BY <2>8 DEF Put
        <3> QED BY <1>0, <2>8, <3>1 DEF Put, VerState
    <2>9. CASE Cleanup(v) BY <1>0, <2>9 DEF Cleanup, Move, KeyOf, VerState
    <2>10. CASE Unlock(v) BY <1>0, <2>10 DEF Unlock, VerState
    <2>11. CASE Return(v) BY <1>0, <2>11 DEF Return, IdleVer, VerState
    <2> QED BY <1>1, <2>1, <2>2, <2>3, <2>4, <2>5, <2>6, <2>7, <2>8, <2>9, <2>10, <2>11
            DEF VerifyStep
<1>2. ASSUME NEW v \in Verifiers, NEW k \in Keys, Begin(v, k) PROVE FlightInv'
    BY <1>0, <1>2 DEF Begin, Load, VerState
<1>3. ASSUME NEW a \in Admins, AdminStep(a) PROVE FlightInv'
    BY <1>3 DEF AdminStep, CreateInsert, DeleteRow, CreatePublish, DeleteForget, DeleteInvalidate,
                DisableCollect, DisableRows, DisableRecords, DisableInvalidate, cacheVars
<1>4. CASE \E k \in Keys : Expire(k) BY <1>4 DEF Expire
<1>5. CASE Restart BY <1>5 DEF Restart, IdleVer
<1>6. CASE UNCHANGED vars BY <1>6 DEF vars, cacheVars
<1> QED BY <1>1, <1>2, <1>3, <1>4, <1>5, <1>6 DEF Next

(* argon2 runs at most once per key at a time, for any number of callers that come, wait
   and leave (verified.rs, FlightGuard and is_current). *)
THEOREM OneFlight == Spec => []OneProbePerKey
<1>1. Init => Shape /\ FlightInv
    BY ShapeInit DEF Init, FlightInv, InFlight, IdleVer
<1>2. Shape /\ FlightInv /\ [Next]_vars => Shape' /\ FlightInv'
    BY ShapeNext, FlightNext
<1>3. FlightInv => OneProbePerKey
    BY DEF FlightInv, OneProbePerKey, InFlight, KeyOf
<1> QED BY <1>1, <1>2, <1>3, PTL DEF Spec

-----------------------------------------------------------------------------
(* Revocation *)

(* Every step preserves RevokeInv: no row, creation or disable brings a revoked key back. *)
LEMMA RevokeNext == Shape /\ RevokeInv /\ [Next]_vars => RevokeInv'
<1> SUFFICES ASSUME Shape, RevokeInv, [Next]_vars PROVE RevokeInv'
    OBVIOUS
<1>0. \A b \in Admins : adm[b] \in AdmState
    BY DEF Shape, AdmShape, GoodAdm
<1> USE DEF Shape, AdmShape, KeyShape, RevokeInv, Pending, Settled, Exists
<1>1. ASSUME NEW v \in Verifiers, VerifyStep(v) \/ \E k \in Keys : Begin(v, k) PROVE RevokeInv'
    <2>1. UNCHANGED keyVars
        BY <1>1 DEF VerifyStep, BareProbe, Peek, Flight, Lock, Recheck, Repeek, Probe, Put, Cleanup,
                    Unlock, Return, Begin
    <2> QED BY <2>1 DEF keyVars
<1>2. ASSUME NEW a \in Admins, minted' = minted, adm'[a].at # "publish",
             \A b \in Admins : b # a => adm'[b] = adm[b],
             \A k \in Keys : runtime'[k] # NoRec => runtime[k] # NoRec,
             \A k \in Keys : /\ api_keys'[k] # "absent" => api_keys[k] # "absent"
                             /\ api_keys'[k] = "enabled" => api_keys[k] = "enabled",
             adm'[a].at # "forget",
             adm'[a].at \in {"update", "switch"} => \A k \in adm'[a].ids : k \in Owned /\ Settled(k),
             adm'[a].at = "switch" => \A k \in adm'[a].ids : api_keys'[k] # "enabled",
             revoked' \subseteq Keys,
             \A k \in revoked' : ~runtime'[k].enabled /\ api_keys'[k] # "enabled" /\ Settled(k)
      PROVE  RevokeInv'
    <2>1. \A b \in Admins : \A k \in Keys : Pending(b, k)' => Pending(b, k)
        BY <1>2
    <2>2. \A k \in Keys : Settled(k) => Settled(k)'
        BY <1>2, <2>1
    <2>3. \A k \in Keys : Exists(k)' => Settled(k)'
        BY <1>2, <2>2
    <2>4. \A k \in Keys : api_keys'[k] # "absent" => k \in minted'
        BY <1>2
    <2>5. /\ \A b \in Admins : adm'[b].at = "publish" => adm'[b].key \in minted'
          /\ \A b, c \in Admins : \A k \in Keys : Pending(b, k)' /\ Pending(c, k)' => b = c
        BY <1>2, <2>1
    <2>6. \A b \in Admins : adm'[b].at = "forget" =>
             api_keys'[adm'[b].key] = "absent" /\ Settled(adm[b].key)'
        <3> SUFFICES ASSUME NEW b \in Admins, adm'[b].at = "forget"
                     PROVE  api_keys'[adm'[b].key] = "absent" /\ Settled(adm[b].key)'
            OBVIOUS
        <3>1. adm'[b] = adm[b] /\ adm[b].key \in Keys BY <1>2 DEF GoodAdm
        <3>2. api_keys[adm[b].key] = "absent" /\ Settled(adm[b].key) BY <3>1
        <3>3. \A c \in Admins : ~Pending(c, adm[b].key)' BY <2>1, <3>1, <3>2
        <3> QED BY <1>2, <3>1, <3>2, <3>3
    <2>7. \A b \in Admins : adm'[b].at \in {"update", "switch"} =>
             \A k \in adm'[b].ids : k \in Owned /\ Settled(k)'
        <3> SUFFICES ASSUME NEW b \in Admins, adm'[b].at \in {"update", "switch"}, NEW k \in adm'[b].ids
                     PROVE  k \in Owned /\ Settled(k)'
            OBVIOUS
        <3>1. k \in Owned /\ k \in Keys /\ Settled(k) BY KeyAssumption, <1>2
        <3> QED BY <1>2, <2>2, <3>1
    <2>8. \A b \in Admins : adm'[b].at = "switch" => \A k \in adm'[b].ids : api_keys'[k] # "enabled"
        BY <1>0, <1>2 DEF AdmState
    <2>9. \A k \in revoked' : ~runtime'[k].enabled /\ api_keys'[k] # "enabled" /\ Settled(k)'
        BY <1>2, <2>2
    <2> QED BY <2>3, <2>4, <2>5, <2>6, <2>7, <2>8, <2>9
<1>3. \A k \in revoked : k \in Keys /\ ~runtime[k].enabled /\ api_keys[k] # "enabled" /\ Settled(k)
    OBVIOUS
<1>4. \A b \in Admins : adm[b].at \in {"update", "switch"} =>
         \A k \in adm[b].ids : k \in Owned /\ k \in Keys /\ Settled(k)
    BY KeyAssumption
<1>5. \A b \in Admins : adm[b].at = "switch" => \A k \in adm[b].ids : api_keys[k] # "enabled"
    OBVIOUS
<1>6. ASSUME NEW a \in Admins, AdminStep(a) PROVE RevokeInv'
    <2>1. ASSUME NEW k \in Keys, CreateInsert(a, k) PROVE RevokeInv'
        BY <1>0, <2>1 DEF CreateInsert, IdleAdm, AdmState
    <2>2. ASSUME NEW k \in Keys, DeleteRow(a, k) PROVE RevokeInv'
        BY <1>0, <2>2 DEF DeleteRow, IdleAdm, AdmState
    <2>3. CASE CreatePublish(a) BY <1>0, <2>3 DEF CreatePublish, Done, IdleAdm, Rec, AdmState
    <2>4. CASE DeleteForget(a)
        <3>1. minted' = minted /\ \A b \in Admins : b # a => adm'[b] = adm[b]
            BY <1>0, <2>4 DEF DeleteForget, Done, Step, IdleAdm
        <3>2. adm[a].key \in Keys /\ Settled(adm[a].key) /\ api_keys[adm[a].key] = "absent"
            BY <2>4 DEF DeleteForget, GoodAdm
        <3>3. adm'[a].at \in {"idle", "invalidate"}
            BY <1>0, <2>4 DEF DeleteForget, Done, Step, IdleAdm, AdmState
        <3>4. revoked' \subseteq revoked \cup {adm[a].key} /\ UNCHANGED api_keys
            BY <2>4 DEF DeleteForget
        <3>5. \A k \in Keys : runtime'[k] = runtime[k] \/ runtime'[k] = NoRec
            BY <2>4 DEF DeleteForget
        <3>6. adm[a].key \in revoked' => runtime'[adm[a].key] = NoRec \/ adm[a].key \in revoked
            BY <2>4, <3>2 DEF DeleteForget
        <3>7. \A k \in revoked' : ~runtime'[k].enabled /\ api_keys'[k] # "enabled" /\ Settled(k)
            BY <3>2, <3>4, <3>5, <3>6 DEF NoRec
        <3> QED BY <1>2, <3>1, <3>2, <3>3, <3>4, <3>5, <3>7
    <2>5. CASE DeleteInvalidate(a) BY <1>0, <2>5 DEF DeleteInvalidate, Done, IdleAdm, AdmState
    <2>6. CASE DisableCollect(a)
        <3>1. minted' = minted /\ \A b \in Admins : b # a => adm'[b] = adm[b]
            BY <1>0, <2>6 DEF DisableCollect, IdleAdm
        <3>2. adm'[a].at = "update" /\ \A k \in adm'[a].ids : k \in Owned /\ k \in Keys /\ runtime[k].enabled
            BY <2>6, KeyAssumption DEF DisableCollect, IdleAdm
        <3>3. \A k \in adm'[a].ids : Settled(k)
            BY <3>2 DEF NoRec
        <3>4. UNCHANGED <<runtime, api_keys, revoked>> BY <2>6 DEF DisableCollect
        <3> QED BY <1>2, <3>1, <3>2, <3>3, <3>4
    <2>7. CASE DisableRows(a)
        <3>1. minted' = minted /\ \A b \in Admins : b # a => adm'[b] = adm[b]
            BY <1>0, <2>7 DEF DisableRows, Done, Step, IdleAdm
        <3>2. \A k \in Keys : /\ api_keys'[k] # "absent" => api_keys[k] # "absent"
                              /\ api_keys'[k] = "enabled" => api_keys[k] = "enabled"
            BY <2>7 DEF DisableRows
        <3>3. \/ adm'[a].at = "idle"
              \/ /\ adm'[a].at = "switch" /\ adm'[a].ids = adm[a].ids
                 /\ \A k \in adm[a].ids : api_keys'[k] # "enabled"
            BY <1>0, <2>7 DEF DisableRows, Done, Step, IdleAdm, AdmState
        <3>4. adm[a].at = "update" /\ UNCHANGED <<runtime, revoked>> BY <2>7 DEF DisableRows
        <3> HIDE DEF RevokeInv, Pending, Settled, Shape
        <3>5. \A k \in revoked' : ~runtime'[k].enabled /\ api_keys'[k] # "enabled" /\ Settled(k)
            BY <1>3, <3>2, <3>4
        <3>6. \A k \in adm[a].ids : k \in Owned /\ Settled(k) BY <1>4, <3>4
        <3>7. revoked' \subseteq Keys BY <1>3, <3>4
        <3> QED BY <1>2, <3>1, <3>2, <3>3, <3>4, <3>5, <3>6, <3>7
    <2>8. CASE DisableRecords(a)
        <3>1. minted' = minted /\ \A b \in Admins : b # a => adm'[b] = adm[b]
            BY <1>0, <2>8 DEF DisableRecords, Step
        <3>2. \A k \in Keys : /\ runtime'[k] # NoRec => runtime[k] # NoRec
                              /\ runtime'[k].enabled => runtime[k].enabled
            BY <2>8 DEF DisableRecords, Rec
        <3>3. adm'[a].at = "purge" /\ adm[a].at = "switch"
            BY <1>0, <2>8 DEF DisableRecords, Step, AdmState
        <3>4. adm[a].ids \subseteq Keys BY <1>0 DEF AdmState
        <3>5. UNCHANGED api_keys /\ revoked' = revoked \cup adm[a].ids BY <2>8 DEF DisableRecords
        <3>6. \A k \in Owned : ~runtime'[k].enabled
            BY <2>8, KeyAssumption DEF DisableRecords, Rec, NoRec
        <3> HIDE DEF RevokeInv, Pending, Settled, Shape
        <3>7. \A k \in revoked' : ~runtime'[k].enabled /\ api_keys'[k] # "enabled" /\ Settled(k)
            BY <1>3, <1>4, <1>5, <3>2, <3>3, <3>5, <3>6
        <3>8. revoked' \subseteq Keys BY <1>3, <3>4, <3>5
        <3> QED BY <1>2, <3>1, <3>2, <3>3, <3>5, <3>7, <3>8
    <2>9. CASE DisableInvalidate(a)
        <3>1. minted' = minted /\ \A b \in Admins : b # a => adm'[b] = adm[b]
            BY <1>0, <2>9 DEF DisableInvalidate, Done, IdleAdm
        <3>2. adm'[a].at \in {"idle", "purge"}
            BY <1>0, <2>9 DEF DisableInvalidate, Done, IdleAdm, AdmState
        <3>3. UNCHANGED <<runtime, api_keys, revoked>> BY <2>9 DEF DisableInvalidate
        <3> QED BY <1>2, <3>1, <3>2, <3>3
    <2> QED BY <1>6, <2>1, <2>2, <2>3, <2>4, <2>5, <2>6, <2>7, <2>8, <2>9 DEF AdminStep
<1>7. CASE \E k \in Keys : Expire(k) BY <1>7 DEF Expire, keyVars
<1>8. CASE Restart BY <1>8 DEF Restart, Rec, NoRec, IdleAdm
<1>9. CASE UNCHANGED vars BY <1>9 DEF vars, keyVars
<1> QED BY <1>1, <1>6, <1>7, <1>8, <1>9 DEF Next

(* No step lets a caller pass its first look-up with a revoked key. *)
LEMMA LateNext == Shape /\ RevokeInv /\ NobodyLate /\ [Next]_vars => NobodyLate'
<1> SUFFICES ASSUME Shape, RevokeInv, NobodyLate, [Next]_vars PROVE NobodyLate'
    OBVIOUS
<1>0. \A w \in Verifiers : ver[w] \in VerState /\ (ver[w].at # "idle" => ver[w].key \in Keys)
    BY DEF Shape, VerShape, GoodVer
<1> USE DEF Shape, VerShape, NobodyLate
<1>1. ASSUME NEW v \in Verifiers, NEW k \in Keys, NEW then, NEW refused, Load(v, k, then, refused)
      PROVE  NobodyLate'
    <2>1. k \in revoked => ~runtime[k].enabled BY DEF RevokeInv
    <2> QED BY <1>0, <1>1, <2>1 DEF Load, VerState
<1>2. ASSUME NEW v \in Verifiers, VerifyStep(v) PROVE NobodyLate'
    <2>1. CASE BareProbe(v) BY <1>0, <2>1 DEF BareProbe, VerState
    <2>2. CASE Peek(v) BY <1>0, <2>2 DEF Peek, VerState
    <2>3. CASE Flight(v) BY <1>0, <2>3 DEF Flight, VerState
    <2>4. CASE Lock(v) BY <1>0, <2>4 DEF Lock, Move, VerState
    <2>5. CASE Recheck(v) BY <1>0, <1>1, <2>5 DEF Recheck, KeyOf
    <2>6. CASE Repeek(v) BY <1>0, <2>6 DEF Repeek, VerState
    <2>7. CASE Probe(v) BY <1>0, <2>7 DEF Probe, Move, VerState
    <2>8. CASE Put(v)
        <3>1. ver' = [ver EXCEPT ![v].at = "cleanup", ![v].ok = TRUE] BY <2>8 DEF Put
        <3> QED BY <1>0, <3>1 DEF VerState
    <2>9. CASE Cleanup(v) BY <1>0, <2>9 DEF Cleanup, Move, VerState
    <2>10. CASE Unlock(v) BY <1>0, <2>10 DEF Unlock, VerState
    <2>11. CASE Return(v) BY <1>0, <2>11 DEF Return, IdleVer, VerState
    <2> QED BY <1>2, <2>1, <2>2, <2>3, <2>4, <2>5, <2>6, <2>7, <2>8, <2>9, <2>10, <2>11
            DEF VerifyStep
<1>3. ASSUME NEW v \in Verifiers, NEW k \in Keys, Begin(v, k) PROVE NobodyLate'
    BY <1>1, <1>3 DEF Begin
<1>4. ASSUME NEW a \in Admins, AdminStep(a) PROVE NobodyLate'
    BY <1>4 DEF AdminStep, CreateInsert, DeleteRow, CreatePublish, DeleteForget, DeleteInvalidate,
                DisableCollect, DisableRows, DisableRecords, DisableInvalidate, cacheVars
<1>5. CASE \E k \in Keys : Expire(k) BY <1>5 DEF Expire
<1>6. CASE Restart BY <1>6 DEF Restart, IdleVer
<1>7. CASE UNCHANGED vars BY <1>7 DEF vars, cacheVars
<1> QED BY <1>2, <1>3, <1>4, <1>5, <1>6, <1>7 DEF Next

(* A verification that begins after a delete or a disable took the key out of memory never
   succeeds, with any number of administrators at work and a crash between any two steps
   (keys.rs: the database first; verified.rs: the record before the cache). *)
THEOREM RevocationHolds == Spec => []RevokedStaysRevoked
<1>1. Init => Shape /\ RevokeInv /\ NobodyLate
    BY ShapeInit DEF Init, RevokeInv, NobodyLate, Pending, Exists, IdleVer, IdleAdm
<1>2. Shape /\ RevokeInv /\ NobodyLate /\ [Next]_vars => Shape' /\ RevokeInv' /\ NobodyLate'
    BY ShapeNext, RevokeNext, LateNext
<1>3. NobodyLate => RevokedStaysRevoked
    BY DEF NobodyLate, RevokedStaysRevoked
<1> QED BY <1>1, <1>2, <1>3, PTL DEF Spec
=============================================================================
