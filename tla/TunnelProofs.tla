---------------------------- MODULE TunnelProofs ----------------------------
(***************************************************************************)
(* What is proved about the two ends of a tunnel.                          *)
(*                                                                         *)
(* AnsweringIsKept (TunnelHealth), for every set of requests and every     *)
(* threshold.  While the last response head is recent no new verdict of    *)
(* silence is reached, so strikes counted since then can only come from    *)
(* the verdicts that were under way: strikes plus waiting verdicts never   *)
(* exceed `early'.                                                         *)
(*                                                                         *)
(* FramesAreWhole (FrameReader), for every stream of frames, header length *)
(* and read size.  What is in the buffer followed by what is still on the  *)
(* wire is always the frames that were not returned yet, laid end to end.  *)
(***************************************************************************)
EXTENDS TunnelHealth, FrameReader, FiniteSetTheorems, WellFoundedInduction, SequenceTheorems, TLAPS


(* verdicts of silence that wait for the lock *)
Waiting == {r \in Requests : req[r] = "HeadTimeout"}

StrikesBelow == listed => \A c \in Causes : strikes[c] < TUNNEL_TIMEOUTS_BEFORE_EVICT

WaitingBounded ==
    listed /\ lastHead = "window" => strikes["HeadTimeout"] + Cardinality(Waiting) <= early

IInv == TypeOK /\ StrikesBelow /\ WaitingBounded /\ AnsweringIsKept

(* The verdicts under way are finitely many. *)
LEMMA SetsAreFinite ==
    /\ IsFiniteSet(Judged) /\ IsFiniteSet(Waiting)
    /\ Cardinality(Judged) \in Nat /\ Cardinality(Waiting) \in Nat
    /\ Cardinality(Waiting) <= Cardinality(Judged)
    /\ Cardinality(Judged) <= Cardinality(Requests)
    /\ Cardinality(Requests) \in Nat
<1>1. IsFiniteSet(Requests) BY HealthAssumption
<1>2. Judged \in SUBSET Requests /\ Waiting \in SUBSET Judged
  BY DEF Judged, Waiting, Causes
<1>3. IsFiniteSet(Judged) /\ Cardinality(Judged) <= Cardinality(Requests)
  BY <1>1, <1>2, FS_Subset
<1>4. IsFiniteSet(Waiting) /\ Cardinality(Waiting) <= Cardinality(Judged)
  BY <1>2, <1>3, FS_Subset
<1> QED BY <1>1, <1>3, <1>4, FS_CardinalityType

(* Initially there are no strikes and no verdicts. *)
LEMMA InitHolds == Init => IInv
<1> SUFFICES ASSUME Init PROVE IInv OBVIOUS
<1>1. early \in 0 .. Cardinality(Requests)
  BY SetsAreFinite DEF Init
<1>2. strikes \in [Causes -> 0 .. TUNNEL_TIMEOUTS_BEFORE_EVICT]
  BY HealthAssumption DEF Init
<1>3. req \in [Requests -> {"idle", "setup", "head"} \cup Causes]
  BY DEF Init
<1>4. listed \in BOOLEAN /\ fresh \in BOOLEAN /\ beaten \in BOOLEAN /\ stuck \in BOOLEAN
  BY DEF Init
<1>5. lastHead \in Ages /\ by \in Causes \cup {"none"} /\ (listed <=> by = "none")
  BY DEF Init, Ages
<1>6. TypeOK
  BY <1>1, <1>2, <1>3, <1>4, <1>5, Zenon DEF TypeOK
<1> QED BY <1>6, HealthAssumption DEF Init, IInv, StrikesBelow, WaitingBounded, AnsweringIsKept, Causes

(* Every step keeps the types and a listed entry's strikes below the threshold. *)
LEMMA TypeStep == IInv /\ [Next]_vars => TypeOK' /\ StrikesBelow'
<1> SUFFICES ASSUME IInv, [Next]_vars PROVE TypeOK' /\ StrikesBelow' OBVIOUS
<1> USE HealthAssumption DEF IInv, TypeOK, StrikesBelow, Causes, Ages
<1>1. ASSUME NEW r \in Requests, Begin(r) \/ Sent(r) \/ SetupFails(r) \/ HeadEnds(r) \/ HeadTimeout(r)
      PROVE TypeOK' /\ StrikesBelow'
  BY <1>1 DEF Begin, Sent, SetupFails, HeadEnds, HeadTimeout, Goto
<1>2. ASSUME NEW r \in Requests, HeadOk(r) PROVE TypeOK' /\ StrikesBelow'
  <2>1. early' \in 0 .. Cardinality(Requests)
    BY <1>2, SetsAreFinite DEF HeadOk
  <2> QED BY <1>2, <2>1 DEF HeadOk, Goto
<1>3. ASSUME NEW r \in Requests, Strike(r) PROVE TypeOK' /\ StrikesBelow'
  <2>1. strikes' \in [Causes -> 0 .. TUNNEL_TIMEOUTS_BEFORE_EVICT] /\ StrikesBelow'
    BY <1>3 DEF Strike
  <2>2. req' \in [Requests -> {"idle", "setup", "head"} \cup Causes]
    BY <1>3 DEF Strike, Goto
  <2>3. listed' \in BOOLEAN /\ by' \in Causes \cup {"none"} /\ (listed' <=> by' = "none")
    <3>1. CASE UNCHANGED <<listed, by>> BY <3>1
    <3>2. CASE listed' = FALSE /\ by' = req[r] /\ req[r] \in Causes BY <3>2
    <3> QED BY <1>3, <3>1, <3>2 DEF Strike
  <2>4. UNCHANGED <<lastHead, fresh, beaten, early, stuck>>
    BY <1>3 DEF Strike
  <2> QED BY <2>1, <2>2, <2>3, <2>4
<1>4. CASE Heartbeat \/ GoStale \/ HeadAges \/ GetsStuck
  <2>1. UNCHANGED <<listed, strikes, req, by, early>>
    BY <1>4 DEF Heartbeat, GoStale, HeadAges, GetsStuck
  <2>2. fresh' \in BOOLEAN /\ beaten' \in BOOLEAN /\ stuck' \in BOOLEAN
    BY <1>4, Zenon DEF Heartbeat, GoStale, HeadAges, GetsStuck
  <2>3. lastHead' \in Ages
    BY <1>4 DEF Heartbeat, GoStale, HeadAges, GetsStuck
  <2> QED BY <2>1, <2>2, <2>3
<1>5. CASE UNCHANGED vars
  BY <1>5 DEF vars
<1> QED BY <1>1, <1>2, <1>3, <1>4, <1>5 DEF Next

(* Every step keeps strikes and waiting verdicts within early. *)
LEMMA EvidenceStep == IInv /\ [Next]_vars => WaitingBounded' /\ AnsweringIsKept'
<1> DEFINE Goal == WaitingBounded' /\ AnsweringIsKept'
<1> SUFFICES ASSUME IInv, [Next]_vars PROVE Goal OBVIOUS
<1>0. req \in [Requests -> {"idle", "setup", "head"} \cup Causes] BY DEF IInv, TypeOK
<1>1. ASSUME NEW r \in Requests, Begin(r) \/ Sent(r) \/ SetupFails(r) \/ HeadEnds(r)
      PROVE Goal
  <2>1. Waiting' = Waiting
    BY <1>0, <1>1 DEF Begin, Sent, SetupFails, HeadEnds, Goto, Waiting, Causes
  <2> QED BY <1>1, <2>1 DEF IInv, WaitingBounded, AnsweringIsKept, Begin, Sent, SetupFails, HeadEnds
<1>2. ASSUME NEW r \in Requests, HeadTimeout(r) PROVE Goal
  <2>1. CASE lastHead = "window"
    <3>1. Waiting' = Waiting
      BY <1>0, <1>2, <2>1 DEF HeadTimeout, HeadTimeoutIsFatal, Goto, Waiting, Causes
    <3> QED BY <1>2, <3>1 DEF IInv, WaitingBounded, AnsweringIsKept, HeadTimeout
  <2>2. CASE lastHead # "window"
    BY <1>2, <2>2 DEF IInv, WaitingBounded, AnsweringIsKept, HeadTimeout
  <2> QED BY <2>1, <2>2
<1>3. ASSUME NEW r \in Requests, HeadOk(r) PROVE Goal
  <2>1. Waiting' = Waiting
    BY <1>0, <1>3 DEF HeadOk, Goto, Waiting, Causes
  <2>2. CASE listed
    <3>1. strikes'["HeadTimeout"] = 0 /\ early' = Cardinality(Judged) /\ listed' /\ by' = by
      BY <1>3, <2>2 DEF HeadOk, Causes
    <3>2. by = "none" BY <2>2 DEF IInv, TypeOK
    <3> QED BY <2>1, <3>1, <3>2, SetsAreFinite DEF WaitingBounded, AnsweringIsKept
  <2>3. CASE ~listed
    BY <1>3, <2>3 DEF HeadOk, IInv, WaitingBounded, AnsweringIsKept
  <2> QED BY <2>2, <2>3
<1>4. ASSUME NEW r \in Requests, Strike(r) PROVE Goal
  <2>1. CASE ~listed
    BY <1>4, <2>1 DEF Strike, IInv, WaitingBounded, AnsweringIsKept
  <2>2. CASE listed /\ req[r] # "HeadTimeout"
    <3>1. Waiting' = Waiting
      BY <1>0, <1>4, <2>2 DEF Strike, Goto, Waiting, Causes
    <3>2. strikes'["HeadTimeout"] = strikes["HeadTimeout"] /\ by' # "HeadTimeout"
      BY <1>4, <2>2 DEF Strike, IInv, TypeOK, Causes
    <3>3. early' = early /\ lastHead' = lastHead BY <1>4 DEF Strike
    <3> QED BY <2>2, <3>1, <3>2, <3>3 DEF IInv, WaitingBounded, AnsweringIsKept
  <2>3. CASE listed /\ req[r] = "HeadTimeout"
    <3>1. Waiting' = Waiting \ {r} /\ r \in Waiting
      BY <1>0, <1>4, <2>3 DEF Strike, Goto, Waiting, Causes
    <3>2. Cardinality(Waiting') = Cardinality(Waiting) - 1 /\ Cardinality(Waiting) >= 1
      <4>1. Cardinality(Waiting \ {r}) = Cardinality(Waiting) - 1 /\ IsFiniteSet(Waiting \ {r})
        BY <3>1, SetsAreFinite, FS_RemoveElement
      <4>2. Cardinality(Waiting \ {r}) \in Nat BY <4>1, FS_CardinalityType
      <4> QED BY <3>1, <4>1, <4>2, SetsAreFinite
    <3>3. /\ strikes'["HeadTimeout"] = strikes["HeadTimeout"] + 1
          /\ early' = early /\ lastHead' = lastHead
          /\ ~listed' => strikes["HeadTimeout"] + 1 >= TUNNEL_TIMEOUTS_BEFORE_EVICT
          /\ listed' => by' = "none"
      BY <1>4, <2>3, HealthAssumption DEF Strike, IInv, TypeOK, Causes
    <3>4. strikes["HeadTimeout"] \in Nat /\ early \in Nat /\ TUNNEL_TIMEOUTS_BEFORE_EVICT \in Nat
      BY SetsAreFinite, HealthAssumption DEF IInv, TypeOK, Causes
    <3>5. lastHead = "window" => strikes["HeadTimeout"] + Cardinality(Waiting) <= early
      BY <2>3 DEF IInv, WaitingBounded
    <3>6. WaitingBounded'
      BY <3>2, <3>3, <3>4, <3>5, SetsAreFinite DEF WaitingBounded
    <3>7. AnsweringIsKept'
      BY <3>2, <3>3, <3>4, <3>5, SetsAreFinite DEF AnsweringIsKept
    <3> QED BY <3>6, <3>7
  <2> QED BY <2>1, <2>2, <2>3
<1>5. CASE Heartbeat \/ GoStale \/ GetsStuck
  BY <1>5 DEF Heartbeat, GoStale, GetsStuck, IInv, WaitingBounded, AnsweringIsKept, Waiting
<1>6. CASE HeadAges
  BY <1>6 DEF HeadAges, IInv, WaitingBounded, AnsweringIsKept
<1>7. CASE UNCHANGED vars
  BY <1>7 DEF vars, IInv, WaitingBounded, AnsweringIsKept, Waiting
<1> QED BY <1>1, <1>2, <1>3, <1>4, <1>5, <1>6, <1>7 DEF Next

(* An agent that answered recently loses its entry for silence only through verdicts
   that were under way when it answered, at least as many as the threshold
   (Entry::head_timeout_is_fatal, Registry::evict, note_tunnel_op_ok). *)
THEOREM AnsweringAgentIsKept == Spec => []AnsweringIsKept
<1>1. IInv /\ [Next]_vars => IInv' BY TypeStep, EvidenceStep DEF IInv
<1>2. IInv => AnsweringIsKept BY DEF IInv
<1> QED BY InitHolds, <1>1, <1>2, PTL DEF Spec

-----------------------------------------------------------------------------
(* Every non-empty set of natural numbers has a least one: induction, as the provers can use it. *)
LEMMA LeastNumber ==
    ASSUME NEW T, T \subseteq Nat, T # {}
    PROVE  \E m \in T : \A k \in T : m <= k
  <1> DEFINE R == {ss \in Nat \X Nat : ss[1] < ss[2]}
  <1>1. OpToRel(<, Nat) = R
    BY DEF OpToRel
  <1>2. IsWellFoundedOn(R, Nat)
    BY <1>1, NatLessThanWellFounded
  <1>3. \A a, b \in Nat : a < b => <<a, b>> \in R
    OBVIOUS
  <1> HIDE DEF R
  <1>4. PICK m \in T : \A k \in T : ~(<<k, m>> \in R)
    BY <1>2, WFMin
  <1>5. \A k \in T : ~(k < m)
    BY <1>3, <1>4
  <1> QED
    BY <1>5

-----------------------------------------------------------------------------
Byte == [frame : Nat, place : Nat]
FrameRec == [kind : {"frame", "noise"}, len : Nat]

ByteAt(i, p) == [frame |-> i, place |-> p]

Size(frames, i) == HeaderLen + frames[i].len

(* the byte after b *)
Following(frames, b) ==
    IF b.place < Size(frames, b.frame) THEN ByteAt(b.frame, b.place + 1) ELSE ByteAt(b.frame + 1, 1)

(* s holds the frames k .. n of a stream, one after the other *)
Laid(s, frames, k, n) ==
    /\ s \in Seq(Byte)
    /\ IF k > n THEN s = <<>> ELSE s # <<>> /\ s[1] = ByteAt(k, 1) /\ s[Len(s)] = ByteAt(n, Size(frames, n))
    /\ \A p \in 1 .. Len(s) : s[p].frame \in k .. n /\ s[p].place \in 1 .. Size(frames, s[p].frame)
    /\ \A p \in 1 .. Len(s) : p < Len(s) => s[p + 1] = Following(frames, s[p])

(* A frame is at least its header. *)
LEMMA Sizes ==
    ASSUME NEW frames \in Seq(FrameRec), NEW i \in 1 .. Len(frames)
    PROVE  Size(frames, i) \in Nat /\ Size(frames, i) >= HeaderLen /\ HeaderLen >= 1 /\ HeaderLen \in Nat
           /\ frames[i].len \in Nat
  <1>1. frames[i] \in FrameRec
    OBVIOUS
  <1> QED
    BY <1>1, ReaderAssumption DEF FrameRec, Size

(* What is behind the first z bytes of a piece, *)
LEMMA Behind ==
    ASSUME NEW s \in Seq(Byte), NEW z \in Nat, z <= Len(s), NEW t, t = SubSeq(s, z + 1, Len(s))
    PROVE  t \in Seq(Byte) /\ Len(t) = Len(s) - z /\ \A p \in 1 .. Len(t) : t[p] = s[z + p]
  OBVIOUS

(* ... the first z bytes themselves, *)
LEMMA Beginning ==
    ASSUME NEW s \in Seq(Byte), NEW z \in Nat, z <= Len(s), NEW t, t = SubSeq(s, 1, z)
    PROVE  t \in Seq(Byte) /\ Len(t) = z /\ \A p \in 1 .. z : t[p] = s[p]
  OBVIOUS

(* ... and two pieces put together. *)
LEMMA Joined ==
    ASSUME NEW s \in Seq(Byte), NEW t \in Seq(Byte), NEW u, u = s \o t
    PROVE  /\ u \in Seq(Byte) /\ Len(u) = Len(s) + Len(t)
           /\ \A p \in 1 .. Len(u) : u[p] = IF p <= Len(s) THEN s[p] ELSE t[p - Len(s)]
  OBVIOUS

(* Two pieces with the same bytes are the same. *)
LEMMA SameBytes ==
    ASSUME NEW s \in Seq(Byte), NEW t \in Seq(Byte), Len(s) = Len(t), \A p \in 1 .. Len(s) : s[p] = t[p]
    PROVE  s = t
  OBVIOUS

(* The bytes of the first frame come first and in order. *)
LEMMA FirstFrame ==
    ASSUME NEW frames \in Seq(FrameRec), NEW k \in 1 .. Len(frames), NEW n \in 1 .. Len(frames),
           k <= n, NEW s, Laid(s, frames, k, n)
    PROVE  /\ Size(frames, k) <= Len(s)
           /\ \A p \in 1 .. Size(frames, k) : s[p] = ByteAt(k, p)
           /\ Size(frames, k) = Len(s) => k = n
           /\ Size(frames, k) < Len(s) => k < n /\ s[Size(frames, k) + 1] = ByteAt(k + 1, 1)
  <1>a. Size(frames, k) \in Nat /\ Size(frames, k) >= 1
    BY Sizes
  <1>b. s \in Seq(Byte) /\ Len(s) \in Nat /\ s # <<>> /\ Len(s) >= 1
    BY DEF Laid
  <1>1. \A p \in Nat : p \in 1 .. Len(s) /\ p <= Size(frames, k) => s[p] = ByteAt(k, p)
    <2> DEFINE T == {p \in Nat : p \in 1 .. Len(s) /\ p <= Size(frames, k) /\ s[p] # ByteAt(k, p)}
    <2> SUFFICES ASSUME T # {} PROVE FALSE
      OBVIOUS
    <2>1. PICK m \in T : \A q \in T : m <= q
      BY LeastNumber
    <2>2. m # 1
      BY <2>1 DEF Laid
    <2>3. /\ m - 1 \in 1 .. Len(s) /\ m - 1 < Size(frames, k) /\ m - 1 < Len(s)
          /\ m - 1 \in Nat /\ ~(m <= m - 1) /\ (m - 1) + 1 = m
      BY <1>a, <1>b, <2>1, <2>2
    <2>4. s[m - 1] = ByteAt(k, m - 1)
      <3>1. m - 1 \notin T
        BY <2>1, <2>3
      <3> QED
        BY <1>a, <2>3, <3>1
    <2>5. s[(m - 1) + 1] = Following(frames, s[m - 1])
      BY <2>3 DEF Laid
    <2>6. Following(frames, ByteAt(k, m - 1)) = ByteAt(k, (m - 1) + 1)
      BY <2>3 DEF Following, ByteAt
    <2> QED
      BY <2>1, <2>4, <2>5, <2>6
  <1>2. Size(frames, k) <= Len(s) /\ (Size(frames, k) = Len(s) => k = n)
    <2>1. s[Len(s)] = ByteAt(n, Size(frames, n))
      BY DEF Laid
    <2>2. Len(s) <= Size(frames, k) => s[Len(s)] = ByteAt(k, Len(s))
      BY <1>b, <1>1
    <2> QED
      BY <1>a, <1>b, <2>1, <2>2 DEF ByteAt
  <1>3. ASSUME Size(frames, k) < Len(s) PROVE k < n /\ s[Size(frames, k) + 1] = ByteAt(k + 1, 1)
    <2>1. s[Size(frames, k)] = ByteAt(k, Size(frames, k))
      BY <1>a, <1>b, <1>3, <1>1
    <2>2. s[Size(frames, k) + 1] = Following(frames, ByteAt(k, Size(frames, k)))
      BY <1>a, <1>3, <2>1 DEF Laid
    <2>3. s[Size(frames, k) + 1] = ByteAt(k + 1, 1)
      BY <1>a, <2>2 DEF Following, ByteAt
    <2>4. s[Size(frames, k) + 1].frame \in k .. n
      BY <1>a, <1>b, <1>3 DEF Laid
    <2> QED
      BY <2>3, <2>4 DEF ByteAt
  <1> QED
    BY <1>a, <1>b, <1>1, <1>2, <1>3

(* Without them the frames after it are left. *)
LEMMA RestLaid ==
    ASSUME NEW frames \in Seq(FrameRec), NEW k \in 1 .. Len(frames), NEW n \in 1 .. Len(frames),
           k <= n, NEW s, Laid(s, frames, k, n)
    PROVE  Laid(SubSeq(s, Size(frames, k) + 1, Len(s)), frames, k + 1, n)
  <1>a. PICK z \in Nat : z = Size(frames, k) /\ z >= 1
    BY Sizes
  <1>b. s \in Seq(Byte) /\ Len(s) \in Nat
    BY DEF Laid
  <1>c. /\ z <= Len(s) /\ (z = Len(s) => k = n)
        /\ z < Len(s) => k < n /\ s[z + 1] = ByteAt(k + 1, 1)
    BY <1>a, FirstFrame
  <1>d. PICK t : t = SubSeq(s, z + 1, Len(s))
    OBVIOUS
  <1>e. t \in Seq(Byte) /\ Len(t) = Len(s) - z /\ \A p \in 1 .. Len(t) : t[p] = s[z + p]
    BY <1>b, <1>c, <1>d
  <1>1. \A p \in Nat : p \in z + 1 .. Len(s) => s[p].frame >= k + 1
    <2> DEFINE T == {p \in Nat : p \in z + 1 .. Len(s) /\ ~(s[p].frame >= k + 1)}
    <2> SUFFICES ASSUME T # {} PROVE FALSE
      OBVIOUS
    <2>1. PICK m \in T : \A q \in T : m <= q
      BY LeastNumber
    <2>2. m # z + 1
      BY <1>b, <1>c, <2>1 DEF ByteAt
    <2>3. /\ m - 1 \in z + 1 .. Len(s) /\ m - 1 \in 1 .. Len(s) /\ m - 1 < Len(s)
          /\ (m - 1) + 1 = m
      BY <1>a, <1>b, <2>1, <2>2
    <2>4. s[m - 1].frame >= k + 1
      BY <2>1, <2>3
    <2>5. s[(m - 1) + 1] = Following(frames, s[m - 1]) /\ s[m - 1].frame \in k .. n
      BY <2>3 DEF Laid
    <2>6. Following(frames, s[m - 1]).frame >= s[m - 1].frame
      BY <2>5 DEF Following, ByteAt
    <2>7. s[m].frame >= k + 1
      BY <2>3, <2>4, <2>5, <2>6 DEF Following, ByteAt
    <2> QED
      BY <2>1, <2>7
  <1>2. \A p \in 1 .. Len(t) : t[p].frame \in k + 1 .. n /\ t[p].place \in 1 .. Size(frames, t[p].frame)
    <2> SUFFICES ASSUME NEW p \in 1 .. Len(t)
                 PROVE  t[p].frame \in k + 1 .. n /\ t[p].place \in 1 .. Size(frames, t[p].frame)
      OBVIOUS
    <2>1. z + p \in 1 .. Len(s) /\ z + p \in z + 1 .. Len(s) /\ t[p] = s[z + p]
      <3>1. Len(t) = Len(s) - z /\ z <= Len(s)
        BY <1>c, <1>e
      <3>2. z + p \in 1 .. Len(s) /\ z + p \in z + 1 .. Len(s)
        BY <1>a, <1>b, <3>1
      <3> QED
        BY <1>e, <3>2
    <2>2. s[z + p].frame \in k .. n /\ s[z + p].place \in 1 .. Size(frames, s[z + p].frame) /\ s[z + p].frame >= k + 1
      BY <1>1, <2>1 DEF Laid
    <2> QED
      BY <2>1, <2>2
  <1>3. \A p \in 1 .. Len(t) : p < Len(t) => t[p + 1] = Following(frames, t[p])
    <2> SUFFICES ASSUME NEW p \in 1 .. Len(t), p < Len(t) PROVE t[p + 1] = Following(frames, t[p])
      OBVIOUS
    <2>1. /\ z + p \in 1 .. Len(s) /\ z + p < Len(s) /\ p + 1 \in 1 .. Len(t)
          /\ z + (p + 1) = (z + p) + 1
      <3>1. Len(t) = Len(s) - z /\ z <= Len(s)
        BY <1>c, <1>e
      <3> QED
        BY <1>a, <1>b, <3>1
    <2>2. t[p] = s[z + p] /\ t[p + 1] = s[(z + p) + 1]
      BY <1>e, <2>1
    <2>3. \A q \in 1 .. Len(s) : q < Len(s) => s[q + 1] = Following(frames, s[q])
      BY DEF Laid
    <2> QED
      BY <2>1, <2>2, <2>3
  <1>4. IF k + 1 > n THEN t = <<>> ELSE t # <<>> /\ t[1] = ByteAt(k + 1, 1) /\ t[Len(t)] = ByteAt(n, Size(frames, n))
    <2>1. CASE z = Len(s)
      BY <1>c, <1>e, <2>1
    <2>2. CASE z < Len(s)
      <3>0. Len(t) >= 1 /\ 1 \in 1 .. Len(t) /\ Len(t) \in 1 .. Len(t) /\ z + Len(t) = Len(s)
        BY <1>b, <1>e, <2>2
      <3>1. Len(t) >= 1 /\ t[1] = s[z + 1] /\ t[Len(t)] = s[Len(s)]
        BY <1>e, <3>0
      <3>2. s[Len(s)] = ByteAt(n, Size(frames, n))
        BY DEF Laid
      <3> QED
        BY <1>c, <1>e, <2>2, <3>1, <3>2
    <2> QED
      BY <1>c, <2>1, <2>2
  <1>5. Laid(t, frames, k + 1, n)
    BY <1>e, <1>2, <1>3, <1>4 DEF Laid
  <1> QED
    BY <1>a, <1>d, <1>5

(* Every frame is there. *)
LEMMA AllThere ==
    ASSUME NEW frames \in Seq(FrameRec), NEW k \in 1 .. Len(frames), NEW n \in 1 .. Len(frames),
           k <= n, NEW s, Laid(s, frames, k, n), NEW i \in k .. n
    PROVE  \E p \in 1 .. Len(s) : s[p].frame = i
  <1>b. s \in Seq(Byte) /\ Len(s) \in Nat /\ Len(s) >= 1 /\ s[1] = ByteAt(k, 1) /\ s[Len(s)] = ByteAt(n, Size(frames, n))
    BY DEF Laid
  <1> DEFINE T == {p \in Nat : p \in 1 .. Len(s) /\ s[p].frame >= i}
  <1>1. Len(s) \in T
    BY <1>b DEF ByteAt
  <1>2. PICK q \in T : \A p \in T : q <= p
    BY <1>1, LeastNumber
  <1>3. CASE q = 1
    BY <1>b, <1>2, <1>3 DEF ByteAt
  <1>4. CASE q # 1
    <2>1. q - 1 \in 1 .. Len(s) /\ q - 1 < Len(s)
      BY <1>b, <1>2, <1>4
    <2>2. s[q - 1].frame < i /\ s[q - 1].frame \in k .. n
      BY <1>2, <2>1 DEF Laid
    <2>3. s[(q - 1) + 1] = Following(frames, s[q - 1])
      BY <2>1 DEF Laid
    <2>4. s[q].frame <= s[q - 1].frame + 1 /\ s[q].frame \in Nat
      BY <1>2, <2>2, <2>3 DEF Following, ByteAt
    <2> QED
      BY <1>2, <2>2, <2>4
  <1> QED
    BY <1>3, <1>4

(* write_frame lays out one frame ... *)
LEMMA OneFrame ==
    ASSUME NEW frames \in Seq(FrameRec), NEW i \in 1 .. Len(frames)
    PROVE  Laid(FrameBytes(frames, i), frames, i, i)
  <1>a. PICK z \in Nat : z = Size(frames, i) /\ z >= 1
    BY Sizes
  <1>b. PICK s : s = FrameBytes(frames, i)
    OBVIOUS
  <1>1. s = [p \in 1 .. z |-> ByteAt(i, p)]
    BY <1>a, <1>b DEF FrameBytes, Size, ByteAt
  <1>2. s \in Seq(Byte) /\ Len(s) = z /\ \A p \in 1 .. z : s[p] = ByteAt(i, p)
    <2>1. \A p \in 1 .. z : ByteAt(i, p) \in Byte
      BY <1>a DEF Byte, ByteAt
    <2>2. s \in [1 .. z -> Byte] /\ \A p \in 1 .. z : s[p] = ByteAt(i, p)
      BY <1>1, <2>1
    <2> QED
      BY <1>a, <2>2
  <1>3. s # <<>> /\ s[1] = ByteAt(i, 1) /\ s[Len(s)] = ByteAt(i, Size(frames, i))
    BY <1>a, <1>2
  <1>4. \A p \in 1 .. Len(s) : s[p].frame \in i .. i /\ s[p].place \in 1 .. Size(frames, s[p].frame)
    BY <1>a, <1>2 DEF ByteAt
  <1>5. \A p \in 1 .. Len(s) : p < Len(s) => s[p + 1] = Following(frames, s[p])
    <2> SUFFICES ASSUME NEW p \in 1 .. Len(s), p < Len(s) PROVE s[p + 1] = Following(frames, s[p])
      OBVIOUS
    <2>1. s[p] = ByteAt(i, p) /\ s[p + 1] = ByteAt(i, p + 1) /\ p < Size(frames, i)
      BY <1>a, <1>2
    <2> QED
      BY <2>1 DEF Following, ByteAt
  <1> QED
    BY <1>b, <1>2, <1>3, <1>4, <1>5 DEF Laid

(* ... and the next one behind it. *)
LEMMA NextFrame ==
    ASSUME NEW frames \in Seq(FrameRec), NEW i \in 1 .. Len(frames), i < Len(frames),
           NEW s, Laid(s, frames, 1, i)
    PROVE  Laid(s \o FrameBytes(frames, i + 1), frames, 1, i + 1)
  <1>a. PICK t : t = FrameBytes(frames, i + 1)
    OBVIOUS
  <1>b. i + 1 \in 1 .. Len(frames) /\ Laid(t, frames, i + 1, i + 1)
    BY <1>a, OneFrame
  <1>c. PICK u : u = s \o t
    OBVIOUS
  <1>d. /\ s \in Seq(Byte) /\ s # <<>> /\ Len(s) \in Nat /\ Len(s) >= 1
        /\ t \in Seq(Byte) /\ t # <<>> /\ Len(t) \in Nat /\ Len(t) >= 1
    BY <1>b DEF Laid
  <1>e. /\ u \in Seq(Byte) /\ Len(u) = Len(s) + Len(t)
        /\ \A p \in 1 .. Len(s) : u[p] = s[p]
        /\ \A p \in Len(s) + 1 .. Len(u) : u[p] = t[p - Len(s)]
    BY <1>c, <1>d
  <1>f. s[1] = ByteAt(1, 1) /\ s[Len(s)] = ByteAt(i, Size(frames, i))
    BY DEF Laid
  <1>g. t[1] = ByteAt(i + 1, 1) /\ t[Len(t)] = ByteAt(i + 1, Size(frames, i + 1))
    BY <1>b DEF Laid
  <1>1. u # <<>> /\ u[1] = ByteAt(1, 1) /\ u[Len(u)] = ByteAt(i + 1, Size(frames, i + 1))
    <2>1. 1 \in 1 .. Len(s) /\ Len(u) \in Len(s) + 1 .. Len(u) /\ Len(u) - Len(s) = Len(t) /\ Len(u) >= 1
      BY <1>d, <1>e
    <2> QED
      BY <1>e, <1>f, <1>g, <2>1
  <1>2. ASSUME NEW p \in 1 .. Len(u)
        PROVE  u[p].frame \in 1 .. i + 1 /\ u[p].place \in 1 .. Size(frames, u[p].frame)
    <2>1. CASE p \in 1 .. Len(s)
      <3>1. s[p].frame \in 1 .. i /\ s[p].place \in 1 .. Size(frames, s[p].frame)
        BY <2>1 DEF Laid
      <3> QED
        BY <1>e, <2>1, <3>1
    <2>2. CASE p \in Len(s) + 1 .. Len(u)
      <3>1. p - Len(s) \in 1 .. Len(t)
        BY <1>d, <1>e, <2>2
      <3>2. t[p - Len(s)].frame \in i + 1 .. i + 1 /\ t[p - Len(s)].place \in 1 .. Size(frames, t[p - Len(s)].frame)
        BY <1>b, <3>1 DEF Laid
      <3> QED
        BY <1>e, <2>2, <3>2
    <2> QED
      BY <1>d, <1>e, <2>1, <2>2
  <1>3. ASSUME NEW p \in 1 .. Len(u), p < Len(u) PROVE u[p + 1] = Following(frames, u[p])
    <2>1. CASE p < Len(s)
      <3>1. p \in 1 .. Len(s) /\ p + 1 \in 1 .. Len(s)
        BY <1>d, <2>1
      <3>2. s[p + 1] = Following(frames, s[p])
        BY <2>1, <3>1 DEF Laid
      <3> QED
        BY <1>e, <3>1, <3>2
    <2>2. CASE p = Len(s)
      <3>1. p \in 1 .. Len(s) /\ p + 1 \in Len(s) + 1 .. Len(u) /\ (p + 1) - Len(s) = 1
        BY <1>d, <1>e, <2>2
      <3>2. u[p] = ByteAt(i, Size(frames, i)) /\ u[p + 1] = ByteAt(i + 1, 1)
        BY <1>e, <1>f, <1>g, <2>2, <3>1
      <3>3. Size(frames, i) \in Nat
        BY Sizes
      <3> QED
        BY <3>2, <3>3 DEF Following, ByteAt
    <2>3. CASE p > Len(s)
      <3>1. /\ p \in Len(s) + 1 .. Len(u) /\ p + 1 \in Len(s) + 1 .. Len(u)
            /\ p - Len(s) \in 1 .. Len(t) /\ p - Len(s) < Len(t) /\ (p + 1) - Len(s) = (p - Len(s)) + 1
        BY <1>d, <1>e, <1>3, <2>3
      <3>2. t[(p - Len(s)) + 1] = Following(frames, t[p - Len(s)])
        BY <1>b, <3>1 DEF Laid
      <3> QED
        BY <1>e, <3>1, <3>2
    <2> QED
      BY <1>d, <2>1, <2>2, <2>3
  <1>4. Laid(u, frames, 1, i + 1)
    BY <1>e, <1>1, <1>2, <1>3 DEF Laid
  <1> QED
    BY <1>a, <1>c, <1>4

(* The function FlattenSeq is defined by exists. *)
Flattens(f, seqs, n) == f = [i \in 1 .. n |-> IF i = 1 THEN seqs[i] ELSE f[i - 1] \o seqs[i]]

(* FlattenSeq is the last value of a function that appends one sequence after the other. *)
LEMMA FlattenDefined ==
    ASSUME NEW seqs, Len(seqs) \in Nat, Len(seqs) # 0
    PROVE  \E f : Flattens(f, seqs, Len(seqs)) /\ FlattenSeq(seqs) = f[Len(seqs)]
  <1>1. \A n \in Nat : \E f : Flattens(f, seqs, n)
    <2> DEFINE T == {n \in Nat : ~ \E f : Flattens(f, seqs, n)}
    <2> SUFFICES ASSUME T # {} PROVE FALSE
      OBVIOUS
    <2>1. PICK m \in T : \A k \in T : m <= k
      BY LeastNumber
    <2>2. m # 0
      <3>1. Flattens([i \in 1 .. 0 |-> seqs[i]], seqs, 0)
        BY DEF Flattens
      <3> QED
        BY <2>1, <3>1
    <2>3. PICK f : Flattens(f, seqs, m - 1)
      BY <2>1, <2>2
    <2> DEFINE g == [i \in 1 .. m |-> IF i = 1 THEN seqs[1] ELSE f[i - 1] \o seqs[i]]
    <2>4. ASSUME NEW i \in 1 .. m, i # m PROVE g[i] = f[i]
      <3>1. i \in 1 .. m - 1
        BY <2>1, <2>2, <2>4
      <3>2. f[i] = IF i = 1 THEN seqs[i] ELSE f[i - 1] \o seqs[i]
        BY <2>3, <3>1 DEF Flattens
      <3> QED
        BY <3>2
    <2>5. \A i \in 1 .. m : i # 1 => g[i - 1] = f[i - 1]
      BY <2>1, <2>4
    <2>6. \A i \in 1 .. m : g[i] = IF i = 1 THEN seqs[i] ELSE g[i - 1] \o seqs[i]
      BY <2>5
    <2>7. Flattens(g, seqs, m)
      BY <2>6 DEF Flattens
    <2> QED
      BY <2>1, <2>7
  <1> DEFINE g == CHOOSE f : f = [i \in 1 .. Len(seqs) |-> IF i = 1 THEN seqs[i] ELSE f[i - 1] \o seqs[i]]
  <1>2. \E f : f = [i \in 1 .. Len(seqs) |-> IF i = 1 THEN seqs[i] ELSE f[i - 1] \o seqs[i]]
    BY <1>1 DEF Flattens
  <1>3. g = [i \in 1 .. Len(seqs) |-> IF i = 1 THEN seqs[i] ELSE g[i - 1] \o seqs[i]]
    BY <1>2
  <1>4. FlattenSeq(seqs) = g[Len(seqs)]
    BY DEF FlattenSeq
  <1> QED
    BY <1>3, <1>4 DEF Flattens

(* What peers put on the wire are the frames of the stream, one after the other. *)
LEMMA WireLaid ==
    ASSUME NEW frames \in Seq(FrameRec)
    PROVE  Laid(FlattenSeq([i \in DOMAIN frames |-> FrameBytes(frames, i)]), frames, 1, Len(frames))
  <1>a. PICK seqs : seqs = [i \in DOMAIN frames |-> FrameBytes(frames, i)]
    OBVIOUS
  <1>b. /\ Len(frames) \in Nat /\ DOMAIN frames = 1 .. Len(frames) /\ Len(seqs) = Len(frames)
        /\ \A i \in 1 .. Len(frames) : seqs[i] = FrameBytes(frames, i)
    BY <1>a
  <1>1. CASE Len(frames) = 0
    <2>1. seqs = <<>> /\ FlattenSeq(seqs) = seqs
      BY <1>a, <1>b, <1>1 DEF FlattenSeq
    <2>2. FlattenSeq(seqs) = <<>> /\ 1 > Len(frames)
      BY <1>1, <2>1
    <2>3. Laid(<<>>, frames, 1, Len(frames))
      BY <2>2 DEF Laid
    <2> QED
      BY <1>a, <2>2, <2>3
  <1>2. CASE Len(frames) # 0
    <2>1. PICK f : Flattens(f, seqs, Len(frames)) /\ FlattenSeq(seqs) = f[Len(frames)]
      BY <1>b, <1>2, FlattenDefined
    <2>2. \A i \in Nat : i \in 1 .. Len(frames) => Laid(f[i], frames, 1, i)
      <3> DEFINE T == {i \in Nat : i \in 1 .. Len(frames) /\ ~Laid(f[i], frames, 1, i)}
      <3> SUFFICES ASSUME T # {} PROVE FALSE
        OBVIOUS
      <3>1. PICK m \in T : \A k \in T : m <= k
        BY LeastNumber
      <3>2. CASE m = 1
        <4>1. f[1] = FrameBytes(frames, 1)
          BY <1>b, <1>2, <2>1 DEF Flattens
        <4> QED
          BY <1>b, <1>2, <3>1, <3>2, <4>1, OneFrame
      <3>3. CASE m # 1
        <4>1. m - 1 \in 1 .. Len(frames) /\ m - 1 \in Nat /\ m - 1 < Len(frames) /\ (m - 1) + 1 = m /\ ~(m <= m - 1)
          BY <1>b, <3>1, <3>3
        <4>2. Laid(f[m - 1], frames, 1, m - 1)
          <5>1. m - 1 \notin T
            BY <3>1, <4>1
          <5> QED
            BY <4>1, <5>1
        <4>3. Laid(f[m - 1] \o FrameBytes(frames, (m - 1) + 1), frames, 1, (m - 1) + 1)
          BY <4>1, <4>2, NextFrame
        <4>4. f[m] = f[m - 1] \o FrameBytes(frames, m)
          BY <1>b, <2>1, <3>1, <3>3 DEF Flattens
        <4> QED
          BY <3>1, <4>1, <4>3, <4>4
      <3> QED
        BY <3>2, <3>3
    <2>3. Len(frames) \in 1 .. Len(frames)
      BY <1>b, <1>2
    <2> QED
      BY <1>a, <1>b, <2>1, <2>2, <2>3
  <1> QED
    BY <1>1, <1>2

-----------------------------------------------------------------------------
Current == Len(got) + 1

Bad(i) == sending[i].kind # "frame" \/ sending[i].len > MaxFrame

(* The reader knows how much it wants only for the frame it is at. *)
WantSound(w, b, k) ==
    \/ w = NoWant
    \/ /\ k <= Len(sending) /\ w = Size(sending, k) /\ sending[k].len <= MaxFrame
       /\ HeaderLen <= Len(b)

ReaderInv ==
    /\ sending \in Seq(FrameRec) /\ buf \in Seq(Byte) /\ wire \in Seq(Byte) /\ cut \in Nat
    /\ got \in Seq(Nat) /\ Len(got) <= Len(sending) /\ \A i \in 1 .. Len(got) : got[i] = i
    /\ Laid(buf \o wire, sending, Current, Len(sending))
    /\ WantSound(want, buf, Current)
    /\ reader = "reading" => Len(buf) < IF want = NoWant THEN HeaderLen ELSE want
    /\ reader = "end" => buf = <<>>
    /\ reader = "early eof" => buf # <<>> /\ Current <= Len(sending) /\ Len(buf) < Size(sending, Current)
    /\ reader = "error" => Current <= Len(sending) /\ Bad(Current)

(* Bytes that come before others in a stream are the first ones of the frame it is at. *)
LEMMA Prefix ==
    ASSUME sending \in Seq(FrameRec), NEW b \in Seq(Byte), NEW r \in Seq(Byte), NEW k \in Nat, k >= 1,
           Laid(b \o r, sending, k, Len(sending))
    PROVE  /\ b # <<>> => k <= Len(sending)
           /\ k <= Len(sending) =>
                 /\ Size(sending, k) <= Len(b) + Len(r)
                 /\ \A p \in 1 .. Len(b) : p <= Size(sending, k) => b[p] = ByteAt(k, p)
  <1>a. /\ Len(b) \in Nat /\ Len(r) \in Nat /\ Len(b \o r) = Len(b) + Len(r) /\ Len(sending) \in Nat
        /\ \A p \in 1 .. Len(b) : (b \o r)[p] = b[p]
    OBVIOUS
  <1>1. ASSUME b # <<>> PROVE k <= Len(sending)
    <2>1. Len(b \o r) # 0
      BY <1>a, <1>1
    <2>2. b \o r # <<>>
      BY <2>1
    <2> QED
      BY <1>a, <2>2 DEF Laid
  <1>2. ASSUME k <= Len(sending)
        PROVE  /\ Size(sending, k) <= Len(b) + Len(r)
               /\ \A p \in 1 .. Len(b) : p <= Size(sending, k) => b[p] = ByteAt(k, p)
    <2>1. k \in 1 .. Len(sending) /\ Len(sending) \in 1 .. Len(sending)
      BY <1>a, <1>2
    <2>2. /\ Size(sending, k) <= Len(b \o r)
          /\ \A p \in 1 .. Size(sending, k) : (b \o r)[p] = ByteAt(k, p)
      <3>1. PICK frames, c : frames = sending /\ c = b \o r
        OBVIOUS
      <3>2. /\ frames \in Seq(FrameRec) /\ Laid(c, frames, k, Len(frames))
            /\ k \in 1 .. Len(frames) /\ Len(frames) \in 1 .. Len(frames) /\ k <= Len(frames)
        BY <1>2, <2>1, <3>1
      <3>3. Size(frames, k) <= Len(c) /\ \A p \in 1 .. Size(frames, k) : c[p] = ByteAt(k, p)
        BY <3>2, FirstFrame
      <3> QED
        BY <3>1, <3>3
    <2>3. Size(sending, k) \in Nat
      BY <2>1, Sizes
    <2> QED
      BY <1>a, <2>2, <2>3
  <1> QED
    BY <1>1, <1>2

(* take_frame waits for more, ends with an error that is one, or returns the frame the reader
   is at and leaves the bytes behind it. *)
LEMMA TakeFrameFacts ==
    ASSUME sending \in Seq(FrameRec), NEW b \in Seq(Byte), NEW r \in Seq(Byte), NEW k \in Nat, k >= 1,
           Laid(b \o r, sending, k, Len(sending)), NEW w, WantSound(w, b, k),
           NEW x, x = TakeFrame(b, w)
    PROVE  \/ /\ x.reader = "reading" /\ x.out = <<>> /\ x.buf = b /\ WantSound(x.want, b, k)
              /\ Len(b) < IF x.want = NoWant THEN HeaderLen ELSE x.want
           \/ /\ x.reader = "error" /\ x.out = <<>> /\ x.buf = b /\ WantSound(x.want, b, k)
              /\ k <= Len(sending) /\ Bad(k)
           \/ /\ x.reader = "idle" /\ x.out = <<k>> /\ x.want = NoWant /\ x.buf \in Seq(Byte)
              /\ k <= Len(sending) /\ Laid(x.buf \o r, sending, k + 1, Len(sending))
  <1>a. /\ Len(b) \in Nat /\ Len(r) \in Nat /\ Len(sending) \in Nat /\ HeaderLen \in Nat /\ HeaderLen >= 1
        /\ MaxFrame \in Nat /\ NoWant \notin Nat
    BY ReaderAssumption
  <1>1. CASE w = NoWant /\ Len(b) < HeaderLen
    BY <1>1 DEF TakeFrame, WantSound
  <1>2. CASE ~(w = NoWant /\ Len(b) < HeaderLen)
    <2>a. HeaderLen <= Len(b)
      BY <1>a, <1>2 DEF WantSound
    <2>b. b # <<>>
      BY <1>a, <2>a
    <2>c. k <= Len(sending) /\ k \in 1 .. Len(sending)
      BY <1>a, <2>b, Prefix
    <2>d. PICK z \in Nat : z = Size(sending, k) /\ z >= HeaderLen /\ z = HeaderLen + sending[k].len /\ sending[k].len \in Nat
      BY <2>c, Sizes DEF Size
    <2>e. z <= Len(b) + Len(r) /\ \A p \in 1 .. Len(b) : p <= z => b[p] = ByteAt(k, p)
      BY <2>c, <2>d, Prefix
    <2>f. b[1] = ByteAt(k, 1) /\ b[1].frame = k
      BY <1>a, <2>a, <2>d, <2>e DEF ByteAt
    <2>g. HeaderOf(b) = sending[k].len
      <3>1. \A p \in 1 .. HeaderLen : b[p] = [frame |-> b[1].frame, place |-> p]
        BY <1>a, <2>a, <2>d, <2>e, <2>f DEF ByteAt
      <3> QED
        BY <2>f, <3>1 DEF HeaderOf
    <2>1. CASE w = NoWant /\ HeaderOf(b) > MaxFrame
      <3>1. x = [buf |-> b, want |-> NoWant, reader |-> "error", out |-> <<>>]
        BY <1>2, <2>1 DEF TakeFrame
      <3> QED
        BY <2>1, <2>c, <2>g, <3>1 DEF WantSound, Bad
    <2>2. CASE ~(w = NoWant /\ HeaderOf(b) > MaxFrame)
      <3>a. sending[k].len <= MaxFrame /\ WantSound(z, b, k) /\ z # NoWant
        BY <1>a, <2>2, <2>a, <2>c, <2>d, <2>g DEF WantSound
      <3>b. (IF w # NoWant THEN w ELSE HeaderLen + HeaderOf(b)) = z
        BY <2>d, <2>g DEF WantSound
      <3>1. CASE Len(b) < z
        <4>1. x = [buf |-> b, want |-> z, reader |-> "reading", out |-> <<>>]
          BY <1>2, <2>2, <3>1, <3>b DEF TakeFrame
        <4> QED
          BY <3>1, <3>a, <4>1
      <3>2. CASE Len(b) >= z /\ ~Decodes(SubSeq(b, 1, z))
        <4>1. x = [buf |-> b, want |-> z, reader |-> "error", out |-> <<>>]
          BY <1>a, <1>2, <2>2, <2>d, <3>2, <3>b DEF TakeFrame
        <4>2. PICK s : s = SubSeq(b, 1, z)
          OBVIOUS
        <4>0. z <= Len(b)
          BY <1>a, <2>d, <3>2
        <4>3. s \in Seq(Byte) /\ Len(s) = z /\ \A p \in 1 .. z : s[p] = b[p]
          BY <4>0, <4>2, Beginning
        <4>4. s[1].frame = k
          <5>1. 1 \in 1 .. z
            BY <1>a, <2>d
          <5> QED
            BY <2>f, <4>3, <5>1
        <4>5. \A p \in DOMAIN s : s[p] = [frame |-> s[1].frame, place |-> p]
          <5>1. DOMAIN s = 1 .. z
            BY <4>3
          <5>2. \A p \in 1 .. z : p \in 1 .. Len(b) /\ p <= z
            BY <1>a, <4>0
          <5> QED
            BY <2>e, <4>3, <4>4, <5>1, <5>2 DEF ByteAt
        <4>6. sending[k].kind # "frame"
          BY <2>d, <3>2, <4>2, <4>3, <4>4, <4>5 DEF Decodes
        <4> QED
          BY <2>c, <3>a, <4>1, <4>6 DEF Bad
      <3>3. CASE Len(b) >= z /\ Decodes(SubSeq(b, 1, z))
        <4>1. x = [buf |-> SubSeq(b, z + 1, Len(b)), want |-> NoWant, reader |-> "idle", out |-> <<b[1].frame>>]
          <5>1. ~(Len(b) < z)
            BY <1>a, <2>d, <3>3
          <5> QED
            BY <1>2, <2>2, <3>3, <3>b, <5>1 DEF TakeFrame
        <4>2. PICK s : s = SubSeq(b, z + 1, Len(b))
          OBVIOUS
        <4>0. z <= Len(b)
          BY <1>a, <2>d, <3>3
        <4>3. s \in Seq(Byte) /\ Len(s) = Len(b) - z /\ \A p \in 1 .. Len(s) : s[p] = b[z + p]
          BY <4>0, <4>2, Behind
        <4>4. s \o r = SubSeq(b \o r, z + 1, Len(b \o r))
          <5>1. PICK u, v, c : u = s \o r /\ c = b \o r /\ v = SubSeq(c, z + 1, Len(c))
            OBVIOUS
          <5>2. /\ c \in Seq(Byte) /\ Len(c) = Len(b) + Len(r)
                /\ \A p \in 1 .. Len(c) : c[p] = IF p <= Len(b) THEN b[p] ELSE r[p - Len(b)]
            BY <5>1, Joined
          <5>0. z <= Len(c)
            BY <1>a, <4>0, <5>2
          <5>3. v \in Seq(Byte) /\ Len(v) = Len(c) - z /\ \A p \in 1 .. Len(v) : v[p] = c[z + p]
            BY <5>0, <5>1, <5>2, Behind
          <5>4. /\ u \in Seq(Byte) /\ Len(u) = Len(s) + Len(r)
                /\ \A p \in 1 .. Len(u) : u[p] = IF p <= Len(s) THEN s[p] ELSE r[p - Len(s)]
            <6>1. s \in Seq(Byte) /\ u = s \o r
              BY <4>3, <5>1
            <6> QED
              BY <6>1, Joined
          <5>5. Len(u) = Len(v) /\ Len(u) \in Nat /\ Len(u) = (Len(b) + Len(r)) - z /\ Len(s) \in Nat
            <6>1. Len(s) = Len(b) - z /\ Len(u) = Len(s) + Len(r) /\ Len(v) = Len(c) - z /\ Len(c) = Len(b) + Len(r)
              BY <4>3, <5>2, <5>3, <5>4
            <6> QED
              BY <1>a, <4>0, <6>1
          <5>6. ASSUME NEW p \in 1 .. Len(u) PROVE u[p] = v[p]
            <6>0. p \in Nat /\ p >= 1 /\ p <= (Len(b) + Len(r)) - z
              BY <5>5, <5>6
            <6>4. z + p \in 1 .. Len(c) /\ p \in 1 .. Len(v)
              <7>1. Len(c) = Len(b) + Len(r)
                BY <5>2
              <7> QED
                BY <1>a, <5>5, <6>0, <7>1
            <6>1. z + p \in 1 .. Len(c) /\ v[p] = c[z + p]
              BY <5>3, <6>4
            <6>2. CASE p <= Len(s)
              <7>1. z + p <= Len(b) /\ p \in 1 .. Len(s)
                BY <1>a, <4>3, <5>5, <6>0, <6>2
              <7> QED
                BY <4>3, <5>2, <5>4, <5>6, <6>1, <6>2, <7>1
            <6>3. CASE ~(p <= Len(s))
              <7>1. ~(z + p <= Len(b)) /\ (z + p) - Len(b) = p - Len(s)
                BY <1>a, <4>3, <5>5, <6>0, <6>3
              <7> QED
                BY <5>2, <5>4, <5>6, <6>1, <6>3, <7>1
            <6> QED
              BY <6>2, <6>3
          <5>7. u = v
            BY <5>3, <5>4, <5>5, <5>6, SameBytes
          <5> QED
            BY <5>1, <5>7
        <4>5. Laid(s \o r, sending, k + 1, Len(sending))
          <5>1. Len(sending) \in 1 .. Len(sending)
            BY <1>a, <2>c
          <5> QED
            BY <2>c, <2>d, <4>4, <5>1, RestLaid
        <4>6. x.buf = s /\ x.out = <<k>> /\ x.want = NoWant /\ x.reader = "idle"
          BY <2>f, <4>1, <4>2
        <4> QED
          BY <2>c, <4>3, <4>5, <4>6
      <3> QED
        BY <1>a, <2>d, <3>1, <3>2, <3>3
    <2> QED
      BY <2>1, <2>2
  <1> QED
    BY <1>1, <1>2

(* take_frame keeps the invariant, whatever came from the wire before it. *)
LEMMA Took ==
    ASSUME ReaderInv, NEW b \in Seq(Byte), sending' = sending, cut' = cut, wire' \in Seq(Byte),
           b \o wire' = buf \o wire, WantSound(want, b, Current), Take(b)
    PROVE  ReaderInv'
  <1>a. PICK k, r, w, x, c : /\ k = Current /\ r = wire' /\ w = want /\ x = TakeFrame(b, w)
                             /\ c = buf \o wire
    OBVIOUS
  <1>b. /\ sending \in Seq(FrameRec) /\ got \in Seq(Nat) /\ Len(got) \in Nat /\ Len(sending) \in Nat
        /\ Len(got) <= Len(sending) /\ \A i \in 1 .. Len(got) : got[i] = i
        /\ k = Len(got) + 1 /\ k \in Nat /\ k >= 1 /\ cut \in Nat /\ r \in Seq(Byte)
    <2>1. /\ sending \in Seq(FrameRec) /\ got \in Seq(Nat) /\ Len(got) <= Len(sending) /\ cut \in Nat
          /\ \A i \in 1 .. Len(got) : got[i] = i
      BY DEF ReaderInv
    <2>2. Len(got) \in Nat /\ Len(sending) \in Nat
      BY <2>1
    <2>3. k = Len(got) + 1 /\ k \in Nat /\ k >= 1
      BY <1>a, <2>2 DEF Current
    <2> QED
      BY <1>a, <2>1, <2>2, <2>3
  <1>c. Laid(b \o r, sending, k, Len(sending)) /\ WantSound(w, b, k)
    BY <1>a DEF ReaderInv
  <1>d. /\ buf' = x.buf /\ want' = x.want /\ reader' = x.reader /\ got' = got \o x.out
    BY <1>a DEF Take
  <1>e. \/ /\ x.reader = "reading" /\ x.out = <<>> /\ x.buf = b /\ WantSound(x.want, b, k)
           /\ Len(b) < IF x.want = NoWant THEN HeaderLen ELSE x.want
        \/ /\ x.reader = "error" /\ x.out = <<>> /\ x.buf = b /\ WantSound(x.want, b, k)
           /\ k <= Len(sending) /\ Bad(k)
        \/ /\ x.reader = "idle" /\ x.out = <<k>> /\ x.want = NoWant /\ x.buf \in Seq(Byte)
           /\ k <= Len(sending) /\ Laid(x.buf \o r, sending, k + 1, Len(sending))
    BY <1>a, <1>b, <1>c, TakeFrameFacts
  <1>g. wire' = r
    BY <1>a
  <1>1. CASE x.out = <<>> /\ x.buf = b /\ WantSound(x.want, b, k)
             /\ (x.reader = "reading" => Len(b) < IF x.want = NoWant THEN HeaderLen ELSE x.want)
             /\ (x.reader # "reading" => x.reader = "error" /\ k <= Len(sending) /\ Bad(k))
    <2>1. got' = got /\ Current' = k /\ buf' = b
      BY <1>b, <1>d, <1>1 DEF Current
    <2>2. Laid(buf' \o wire', sending', Current', Len(sending)')
      BY <1>c, <1>g, <2>1
    <2>3. WantSound(want, buf, Current)'
      BY <1>d, <1>1, <2>1 DEF WantSound, Size
    <2>4. reader' = "reading" => Len(buf') < IF want' = NoWant THEN HeaderLen ELSE want'
      BY <1>d, <1>1, <2>1
    <2>5. reader' # "reading" => reader' = "error" /\ Current' <= Len(sending') /\ Bad(Current)'
      BY <1>d, <1>1, <2>1 DEF Bad
    <2> QED
      BY <1>b, <1>g, <2>1, <2>2, <2>3, <2>4, <2>5 DEF ReaderInv
  <1>2. CASE /\ x.reader = "idle" /\ x.out = <<k>> /\ x.want = NoWant /\ x.buf \in Seq(Byte)
             /\ k <= Len(sending) /\ Laid(x.buf \o r, sending, k + 1, Len(sending))
    <2>1. got' = Append(got, k)
      BY <1>b, <1>d, <1>2
    <2>2. got' \in Seq(Nat) /\ Len(got') = k /\ Current' = k + 1 /\ \A i \in 1 .. Len(got') : got'[i] = i
      BY <1>b, <2>1 DEF Current
    <2>3. Laid(buf' \o wire', sending', Current', Len(sending)')
      BY <1>d, <1>g, <1>2, <2>2
    <2>4. WantSound(want, buf, Current)'
      BY <1>d, <1>2 DEF WantSound
    <2>5. reader' = "idle" /\ buf' \in Seq(Byte) /\ Len(got') <= Len(sending')
      BY <1>d, <1>2, <2>2
    <2> QED
      BY <1>b, <1>g, <2>2, <2>3, <2>4, <2>5 DEF ReaderInv
  <1> QED
    BY <1>e, <1>1, <1>2

(* next() takes what is in the buffer already. *)
LEMMA CallKeeps ==
    ASSUME ReaderInv, CallNext
    PROVE  ReaderInv'
  <1>1. /\ sending' = sending /\ cut' = cut /\ wire' = wire /\ buf \in Seq(Byte) /\ wire' \in Seq(Byte)
        /\ Take(buf) /\ WantSound(want, buf, Current)
    BY DEF CallNext, ReaderInv
  <1> QED
    BY <1>1, Took

(* A read moves bytes from the wire to the buffer. *)
LEMMA ReadKeeps ==
    ASSUME ReaderInv, NEW n \in 1 .. MaxChunk, ReadBytes(n)
    PROVE  ReaderInv'
  <1>a. /\ buf \in Seq(Byte) /\ wire \in Seq(Byte) /\ cut \in Nat /\ n \in Nat /\ n <= Len(wire) - cut
        /\ Len(wire) \in Nat /\ Len(buf) \in Nat
    BY ReaderAssumption DEF ReaderInv, ReadBytes
  <1>b. n <= Len(wire)
    BY <1>a
  <1>c. PICK h, r, b : h = SubSeq(wire, 1, n) /\ r = SubSeq(wire, n + 1, Len(wire)) /\ b = buf \o h
    OBVIOUS
  <1>d. h \in Seq(Byte) /\ Len(h) = n /\ \A p \in 1 .. n : h[p] = wire[p]
    BY <1>a, <1>b, <1>c, Beginning
  <1>e. r \in Seq(Byte) /\ Len(r) = Len(wire) - n /\ \A p \in 1 .. Len(r) : r[p] = wire[n + p]
    BY <1>a, <1>b, <1>c, Behind
  <1>f. b \in Seq(Byte) /\ Len(b) = Len(buf) + Len(h)
    BY <1>a, <1>c, <1>d, Joined
  <1>g. h \o r = wire
    <2>1. SubSeq(wire, 1, n) \o SubSeq(wire, n + 1, Len(wire)) = SubSeq(wire, 1, Len(wire))
      <3>1. 1 \in 1 .. Len(wire) + 1 /\ n \in 0 .. Len(wire) /\ n \in 1 - 1 .. Len(wire) /\ Len(wire) \in n .. Len(wire)
        BY <1>a, <1>b
      <3> QED
        BY <1>a, <3>1, ConcatAdjacentSubSeq
    <2>2. SubSeq(wire, 1, Len(wire)) = wire
      BY <1>a
    <2> QED
      BY <1>c, <2>1, <2>2
  <1>h. b \o r = buf \o wire
    <2>1. buf \in Seq(Byte) /\ h \in Seq(Byte) /\ r \in Seq(Byte)
      BY <1>a, <1>d, <1>e
    <2>2. (buf \o h) \o r = buf \o (h \o r)
      BY <2>1, ConcatAssociative
    <2> QED
      BY <1>c, <1>g, <2>2
  <1>i. WantSound(want, b, Current)
    <2>1. WantSound(want, buf, Current)
      BY DEF ReaderInv
    <2>2. HeaderLen <= Len(buf) => HeaderLen <= Len(b)
      BY <1>a, <1>d, <1>f, ReaderAssumption
    <2> QED
      BY <2>1, <2>2 DEF WantSound
  <1>j. /\ sending' = sending /\ cut' = cut /\ wire' = r /\ Take(b)
    BY <1>c DEF ReadBytes
  <1> QED
    BY <1>e, <1>f, <1>h, <1>i, <1>j, Took

(* The stream ended, or the call was dropped: the bytes stay where they are. *)
LEMMA EndKeeps ==
    ASSUME ReaderInv, ReadEnd
    PROVE  ReaderInv'
  <1>a. /\ sending' = sending /\ cut' = cut /\ wire' = wire /\ buf' = buf /\ want' = want /\ got' = got
        /\ reader = "reading" /\ reader' = IF buf = <<>> /\ want = NoWant THEN "end" ELSE "early eof"
    BY DEF ReadEnd
  <1>b. Current' = Current /\ WantSound(want, buf, Current)'
    BY <1>a DEF ReaderInv, Current, WantSound, Size
  <1>c. Laid(buf \o wire, sending, Current, Len(sending))'
    BY <1>a, <1>b DEF ReaderInv, Laid, Following, Size
  <1>1. CASE buf = <<>> /\ want = NoWant
    <2>1. reader' = "end" /\ buf' = <<>>
      BY <1>a, <1>1
    <2> QED
      BY <1>a, <1>b, <1>c, <2>1 DEF ReaderInv
  <1>2. CASE ~(buf = <<>> /\ want = NoWant)
    <2>1. reader' = "early eof"
      BY <1>a, <1>2
    <2>a. PICK k, c : k = Current /\ c = Len(buf)
      OBVIOUS
    <2>b. /\ sending \in Seq(FrameRec) /\ buf \in Seq(Byte) /\ wire \in Seq(Byte)
          /\ WantSound(want, buf, k) /\ Laid(buf \o wire, sending, k, Len(sending))
          /\ c < IF want = NoWant THEN HeaderLen ELSE want
      BY <1>a, <2>a DEF ReaderInv
    <2>c. c \in Nat /\ HeaderLen \in Nat /\ HeaderLen >= 1 /\ k \in Nat /\ k >= 1
      <3>1. got \in Seq(Nat)
        BY DEF ReaderInv
      <3> QED
        BY <2>a, <2>b, <3>1, ReaderAssumption DEF Current
    <2>2. buf # <<>>
      <3>1. CASE want = NoWant
        BY <1>2, <3>1
      <3>2. CASE want # NoWant
        <4>1. HeaderLen <= c
          BY <2>a, <2>b, <3>2 DEF WantSound
        <4>2. c # 0
          BY <2>c, <4>1
        <4> QED
          BY <2>a, <4>2
      <3> QED
        BY <3>1, <3>2
    <2>3. k <= Len(sending) /\ k \in 1 .. Len(sending)
      <3>1. Len(sending) \in Nat
        BY <2>b
      <3> QED
        BY <2>b, <2>c, <2>2, <3>1, Prefix
    <2>4. c < Size(sending, k)
      <3>1. Size(sending, k) \in Nat /\ Size(sending, k) >= HeaderLen
        BY <2>b, <2>3, Sizes
      <3>2. CASE want = NoWant
        BY <2>b, <2>c, <3>1, <3>2
      <3>3. CASE want # NoWant
        BY <2>b, <3>3 DEF WantSound
      <3> QED
        BY <3>2, <3>3
    <2>5. buf' # <<>> /\ Current' <= Len(sending') /\ Len(buf') < Size(sending', Current')
      BY <1>a, <1>b, <2>a, <2>2, <2>3, <2>4
    <2> QED
      BY <1>a, <1>b, <1>c, <2>1, <2>5 DEF ReaderInv, Size
  <1> QED
    BY <1>1, <1>2

(* A call that was dropped, or no step: the reader keeps what it has. *)
LEMMA IdleKeeps ==
    ASSUME ReaderInv, sending' = sending, cut' = cut, wire' = wire, buf' = buf, want' = want, got' = got,
           reader' \in {"idle", reader}
    PROVE  ReaderInv'
  <1>b. Current' = Current /\ WantSound(want, buf, Current)'
    BY DEF ReaderInv, Current, WantSound, Size
  <1>c. Laid(buf \o wire, sending, Current, Len(sending))'
    BY <1>b DEF ReaderInv, Laid, Following, Size
  <1>1. CASE reader' = "idle"
    BY <1>b, <1>c, <1>1 DEF ReaderInv
  <1>2. CASE reader' = reader
    <2>1. /\ reader' = "early eof" => buf' # <<>> /\ Current' <= Len(sending') /\ (Len(buf) < Size(sending, Current))'
          /\ reader' = "error" => Current' <= Len(sending') /\ Bad(Current)'
      BY <1>b, <1>2 DEF ReaderInv, Bad, Size
    <2>2. /\ reader' = "reading" => Len(buf') < IF want' = NoWant THEN HeaderLen ELSE want'
          /\ reader' = "end" => buf' = <<>>
      BY <1>2 DEF ReaderInv
    <2> QED
      BY <1>b, <1>c, <2>1, <2>2 DEF ReaderInv
  <1> QED
    BY <1>1, <1>2

(* Initially the whole stream is on the wire. *)
LEMMA ReaderStart == ReaderInit => ReaderInv
  <1> SUFFICES ASSUME ReaderInit PROVE ReaderInv
    OBVIOUS
  <1>1. sending \in Seq(FrameRec)
    BY ReaderAssumption DEF ReaderInit, FrameRec
  <1>2. Laid(wire, sending, 1, Len(sending)) /\ wire \in Seq(Byte)
    BY <1>1, WireLaid DEF ReaderInit, Laid
  <1>3. buf = <<>> /\ buf \o wire = wire /\ got = <<>> /\ Current = 1 /\ want = NoWant /\ reader = "idle"
    <2>1. buf = <<>> /\ got = <<>> /\ want = NoWant /\ reader = "idle"
      BY DEF ReaderInit
    <2> QED
      BY <1>2, <2>1 DEF Current
  <1>4. Laid(buf \o wire, sending, Current, Len(sending)) /\ WantSound(want, buf, Current)
    BY <1>2, <1>3 DEF WantSound
  <1>5. cut \in Nat
    <2>1. Len(wire) \in Nat
      BY <1>2
    <2> QED
      BY <2>1 DEF ReaderInit
  <1>6. got \in Seq(Nat) /\ Len(got) <= Len(sending) /\ \A i \in 1 .. Len(got) : got[i] = i
    BY <1>1, <1>3
  <1> QED
    BY <1>1, <1>2, <1>3, <1>4, <1>5, <1>6 DEF ReaderInv

(* Every step preserves ReaderInv. *)
LEMMA ReaderKeeps == ReaderInv /\ [ReaderNext]_readerVars => ReaderInv'
  <1> SUFFICES ASSUME ReaderInv, [ReaderNext]_readerVars PROVE ReaderInv'
    OBVIOUS
  <1>1. CASE CallNext
    BY <1>1, CallKeeps
  <1>2. CASE \E n \in 1 .. MaxChunk : ReadBytes(n)
    BY <1>2, ReadKeeps
  <1>3. CASE ReadEnd
    BY <1>3, EndKeeps
  <1>4. CASE Cancel
    BY <1>4, IdleKeeps DEF Cancel
  <1>5. CASE UNCHANGED readerVars
    BY <1>5, IdleKeeps DEF readerVars
  <1> QED
    BY <1>1, <1>2, <1>3, <1>4, <1>5 DEF ReaderNext

(* ReaderInv says that the frames are whole. *)
LEMMA ReaderInvEnough == ReaderInv => FramesAreWhole
  <1> SUFFICES ASSUME ReaderInv PROVE FramesAreWhole
    OBVIOUS
  <1>a. /\ sending \in Seq(FrameRec) /\ buf \in Seq(Byte) /\ wire \in Seq(Byte) /\ got \in Seq(Nat)
        /\ Len(got) <= Len(sending) /\ \A i \in 1 .. Len(got) : got[i] = i
    BY DEF ReaderInv
  <1>b. /\ Len(got) \in Nat /\ Len(sending) \in Nat /\ Len(wire) \in Nat /\ Len(buf) \in Nat
        /\ DOMAIN sending = 1 .. Len(sending)
    BY <1>a
  <1>c. PICK k \in Nat : k = Len(got) + 1 /\ k = Current /\ k >= 1
    BY <1>b DEF Current
  <1>d. Laid(buf \o wire, sending, k, Len(sending))
    BY <1>c DEF ReaderInv
  <1>1. got = [i \in 1 .. Len(got) |-> i]
    BY <1>a
  <1>2. ASSUME reader = "end"
        PROVE  /\ buf = <<>> /\ (wire = <<>> \/ wire[1].place = 1)
               /\ {i \in DOMAIN sending : \E p \in 1 .. Len(wire) : wire[p].frame = i}
                     = (Len(got) + 1) .. Len(sending)
    <2>1. buf = <<>> /\ buf \o wire = wire
      <3>1. buf = <<>>
        BY <1>2 DEF ReaderInv
      <3> QED
        BY <1>a, <3>1
    <2>2. Laid(wire, sending, k, Len(sending))
      BY <1>d, <2>1
    <2>3. wire = <<>> \/ wire[1].place = 1
      BY <2>2 DEF Laid, ByteAt
    <2>4. ASSUME NEW i \in 1 .. Len(sending), NEW p \in 1 .. Len(wire), wire[p].frame = i
          PROVE  i \in k .. Len(sending)
      BY <2>2, <2>4 DEF Laid
    <2>5. ASSUME NEW i \in k .. Len(sending) PROVE i \in 1 .. Len(sending) /\ \E p \in 1 .. Len(wire) : wire[p].frame = i
      <3>1. k \in 1 .. Len(sending) /\ Len(sending) \in 1 .. Len(sending) /\ k <= Len(sending) /\ i \in 1 .. Len(sending)
        BY <1>b, <1>c, <2>5
      <3> QED
        BY <1>a, <2>2, <2>5, <3>1, AllThere
    <2> QED
      BY <1>b, <1>c, <2>1, <2>3, <2>4, <2>5
  <1>3. ASSUME reader = "early eof"
        PROVE  wire # <<>> /\ wire[1].place # 1
    <2>1. buf # <<>> /\ k <= Len(sending) /\ Len(buf) < Size(sending, k)
      BY <1>c, <1>3 DEF ReaderInv
    <2>2. k \in 1 .. Len(sending) /\ Len(sending) \in 1 .. Len(sending)
      BY <1>b, <1>c, <2>1
    <2>3. PICK c, z, frames : c = buf \o wire /\ z = Size(sending, k) /\ frames = sending
      OBVIOUS
    <2>4. z \in Nat /\ z <= Len(c) /\ \A p \in 1 .. z : c[p] = ByteAt(k, p)
      <3>1. /\ frames \in Seq(FrameRec) /\ Laid(c, frames, k, Len(frames)) /\ z = Size(frames, k)
            /\ k \in 1 .. Len(frames) /\ Len(frames) \in 1 .. Len(frames) /\ k <= Len(frames)
        BY <1>a, <1>d, <2>1, <2>2, <2>3
      <3> QED
        BY <3>1, FirstFrame, Sizes
    <2>5. /\ c \in Seq(Byte) /\ Len(c) = Len(buf) + Len(wire)
          /\ \A p \in 1 .. Len(c) : c[p] = IF p <= Len(buf) THEN buf[p] ELSE wire[p - Len(buf)]
      BY <1>a, <2>3, Joined
    <2>6. Len(buf) # 0 /\ Len(wire) # 0 /\ Len(buf) + 1 \in 1 .. z /\ Len(buf) + 1 \in 1 .. Len(c)
      <3>1. Len(buf) # 0
        BY <1>a, <2>1
      <3>2. Len(buf) < z /\ z \in Nat /\ z <= Len(c) /\ Len(c) = Len(buf) + Len(wire)
        BY <2>1, <2>3, <2>4, <2>5
      <3> QED
        BY <1>b, <3>1, <3>2
    <2>7. wire[1] = ByteAt(k, Len(buf) + 1)
      <3>1. c[Len(buf) + 1] = wire[(Len(buf) + 1) - Len(buf)] /\ (Len(buf) + 1) - Len(buf) = 1
        BY <1>b, <2>5, <2>6
      <3> QED
        BY <2>4, <2>6, <3>1
    <2> QED
      BY <1>b, <2>6, <2>7 DEF ByteAt
  <1>4. ASSUME reader = "error" PROVE Len(got) < Len(sending) /\ Bad(Len(got) + 1)
    BY <1>b, <1>c, <1>4 DEF ReaderInv
  <1> QED
    BY <1>a, <1>1, <1>2, <1>3, <1>4 DEF FramesAreWhole, Bad

(* However the bytes arrive and however often next() is dropped at its await, the frames come
   out whole, once and in order, for every stream, header length and read size. *)
THEOREM FramesComeOutWhole == ReaderSpec => []FramesAreWhole
  <1>1. ReaderInv => FramesAreWhole
    BY ReaderInvEnough
  <1>2. ReaderInit => ReaderInv
    BY ReaderStart
  <1>3. ReaderInv /\ [ReaderNext]_readerVars => ReaderInv'
    BY ReaderKeeps
  <1> QED
    BY <1>1, <1>2, <1>3, PTL DEF ReaderSpec
=============================================================================
