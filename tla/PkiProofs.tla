------------------------------ MODULE PkiProofs ------------------------------
(***************************************************************************)
(* Proofs about Pki, for every set of pairs, server names and concurrent   *)
(* administrators, wherever a statement fails or the process dies: a       *)
(* revoked certificate is refused, what was answered stays true, and the   *)
(* next start can load what is on disk.                                    *)
(***************************************************************************)
EXTENDS Pki, TLAPS

Creating    == {"insert", "add_ca", "serve", "name", "resolvable", "delete", "rmdir"}
Building    == {"rebuild", "swap"}
Revoking    == {"unserve", "remove_ca", "ban", "unname", "revoke_row"}
Downloading == {"consume", "rmkey"}

RowType == [status : {"absent", "waiting", "connected", "revoked"}, downloaded : BOOLEAN]
AdmType ==
    [at : {"idle"} \cup Creating \cup Building \cup Revoking \cup Downloading,
     op : {None, "create", "revoke", "download"}, pair : Pairs \cup {None}, built : SUBSET Pairs]

PkiTypeOK ==
    /\ rows \in [Pairs -> RowType] /\ files \in [Pairs -> {"none", "part", "whole"}]
    /\ key \in [Pairs -> BOOLEAN]
    /\ certs \in [Names -> Pairs \cup {None}] /\ pairs_by_server \in [Names -> Pairs \cup {None}]
    /\ roots \subseteq Pairs /\ inner \subseteq Pairs /\ revoked \subseteq Pairs
    /\ adm \in [Admins -> AdmType] /\ marking \in Pairs \cup {None}

(* Which operation a task is in follows from where it is. *)
TaskShape(m) ==
    /\ m.at = "idle" => m = IdleAdm
    /\ m.at # "idle" => m.pair \in Pairs
    /\ m.at \in Creating => m.op = "create"
    /\ m.at \in Building => m.op \in {"create", "revoke"}
    /\ m.at \in Revoking => m.op = "revoke"
    /\ m.at \in Downloading => m.op = "download"
    /\ m.at # "swap" => m.built = {}

Creates(a, p) == adm[a].op = "create" /\ adm[a].pair = p

(* Nothing knows p yet but the task that creates it. *)
Young(p) ==
    /\ rows[p] = NoRow
    /\ p \notin roots /\ p \notin inner
    /\ \A a \in Admins : p \notin adm[a].built /\ (adm[a].pair = p => adm[a].op = "create")
    /\ \A op \in {"create", "revoke", "download"} : <<op, p>> \notin answered

(* Nothing has the CA of p, and nothing is going to add it. *)
Out(p) ==
    /\ p \notin roots /\ p \notin inner
    /\ \A a \in Admins : p \notin adm[a].built /\ ~(adm[a].pair = p /\ adm[a].at \in {"insert", "add_ca"})

(* What a task knows of its pair where it is. *)
TaskSound(m) ==
    m.at # "idle" =>
        /\ m.pair \in minted
        /\ m.op = "create" /\ m.at # "rmdir" => files[m.pair] = "whole"
        /\ m.op = "create" /\ m.at \in {"add_ca", "rebuild", "swap", "serve", "name", "resolvable"}
              => rows[m.pair] # NoRow
        /\ m.at = "insert" => Young(m.pair)
        /\ m.at = "rmdir" => rows[m.pair] = NoRow \/ m.pair \in stranded
        /\ m.at \in {"unname", "revoke_row"} => m.pair \in revoked
        /\ m.at = "rmkey" => rows[m.pair] = NoRow \/ rows[m.pair].downloaded

OneCreator ==
    \A a, b \in Admins : adm[a].pair \in Pairs /\ adm[a].op = "create" /\ Creates(b, adm[a].pair) => a = b

RowSound(p) ==
    /\ p \notin minted => Young(p)
    /\ rows[p].status = "absent" => rows[p] = NoRow
    /\ rows[p] # NoRow => files[p] = "whole" \/ p \in stranded

AnswerSound(p) ==
    /\ <<"create", p>> \in answered =>
          rows[p] # NoRow /\ files[p] = "whole" /\ \A a \in Admins : ~Creates(a, p)
    /\ <<"revoke", p>> \in answered =>
          rows[p].status \in {"absent", "revoked"} /\ (p \in revoked \/ Out(p))
    /\ <<"download", p>> \in answered => (rows[p] = NoRow \/ rows[p].downloaded) /\ ~key[p]

PkiInv ==
    /\ PkiTypeOK
    /\ \A a \in Admins : TaskShape(adm[a]) /\ TaskSound(adm[a])
    /\ OneCreator
    /\ \A p \in Pairs : RowSound(p) /\ AnswerSound(p)
    /\ up = "refused" => stranded # {}

(* What the invariant says of a task that is under way and of its pair: nothing else is
   about to insert that pair. *)
LEMMA TaskFacts ==
    ASSUME PkiInv, NEW a \in Admins, adm[a].at # "idle"
    PROVE  /\ adm[a] \in AdmType /\ TaskShape(adm[a]) /\ TaskSound(adm[a])
           /\ adm[a].pair \in Pairs /\ adm[a].pair \in minted
           /\ \A b \in Admins : b # a => ~(adm[b].at = "insert" /\ adm[b].pair = adm[a].pair)
           /\ adm[a].op = "create" => \A b \in Admins : b # a => ~Creates(b, adm[a].pair)
  <1>1. adm[a] \in AdmType /\ TaskShape(adm[a]) /\ TaskSound(adm[a])
    BY DEF PkiInv, PkiTypeOK
  <1>2. adm[a].pair \in Pairs /\ adm[a].pair \in minted
    BY <1>1 DEF TaskShape, TaskSound
  <1>3. adm[a].op = "create" => \A b \in Admins : b # a => ~Creates(b, adm[a].pair)
    BY <1>2 DEF PkiInv, OneCreator, Creates
  <1>4. ASSUME NEW b \in Admins, b # a, adm[b].at = "insert", adm[b].pair = adm[a].pair PROVE FALSE
    <2>1. TaskShape(adm[b]) /\ TaskSound(adm[b])
      BY DEF PkiInv
    <2>2. Young(adm[b].pair) /\ adm[b].op = "create"
      BY <1>4, <2>1 DEF TaskSound, TaskShape, Creating
    <2>3. adm[a].op = "create"
      BY <1>4, <2>2 DEF Young
    <2> QED
      BY <1>3, <1>4, <2>2, <2>3 DEF Creates
  <1> QED
    BY <1>1, <1>2, <1>3, <1>4

(* A task that goes on, and changes at most the resolver and the verifier: the rows, the
   files, the keys and the answers stay, and no CA is added but that of its own pair. *)
LEMMA Proceeds ==
    ASSUME PkiInv, NEW a \in Admins, NEW m \in AdmType, adm[a].at \notin {"idle", "insert"},
           adm' = [adm EXCEPT ![a] = m], TaskShape(m),
           m = IdleAdm \/ (m.at \notin {"idle", "insert", "add_ca"}
                             /\ m.pair = adm[a].pair /\ m.op = adm[a].op),
           TaskSound(m)',
           UNCHANGED <<rows, files, key, minted, answered, stranded, marking, up>>,
           certs' \in [Names -> Pairs \cup {None}], pairs_by_server' \in [Names -> Pairs \cup {None}],
           revoked' \subseteq Pairs, revoked \subseteq revoked',
           roots' \subseteq roots \cup (IF adm[a].at = "add_ca" THEN {adm[a].pair} ELSE {}),
           inner' \subseteq inner \cup adm[a].built,
           m.built \subseteq roots
    PROVE  PkiInv'
  <1> DEFINE p == adm[a].pair
  <1>a. /\ adm[a] \in AdmType /\ TaskShape(adm[a]) /\ TaskSound(adm[a]) /\ p \in Pairs /\ p \in minted
        /\ \A b \in Admins : b # a => ~(adm[b].at = "insert" /\ adm[b].pair = p)
        /\ adm[a].op = "create" => \A b \in Admins : b # a => ~Creates(b, p)
    BY TaskFacts
  <1>b. adm[a].built \subseteq Pairs /\ roots \subseteq Pairs /\ inner \subseteq Pairs
    BY <1>a DEF AdmType, PkiInv, PkiTypeOK
  <1>c. \A b \in Admins : adm'[b] = IF b = a THEN m ELSE adm[b]
    BY DEF PkiInv, PkiTypeOK
  <1>d. None \notin Pairs /\ IdleAdm.pair = None /\ IdleAdm.at = "idle"
    BY PkiAssumption DEF IdleAdm
  <1>1. PkiTypeOK'
    BY <1>b, <1>a DEF PkiInv, PkiTypeOK
  <1>2. ASSUME NEW q \in Pairs, Young(q), q # p PROVE Young(q)'
    <2>1. q \notin roots' /\ q \notin inner' /\ rows'[q] = NoRow
      BY <1>2 DEF Young
    <2>2. ASSUME NEW b \in Admins PROVE q \notin adm'[b].built /\ (adm'[b].pair = q => adm'[b].op = "create")
      BY <1>2, <1>c, <1>d DEF Young
    <2> QED
      BY <1>2, <2>1, <2>2 DEF Young
  <1>3. ASSUME NEW b \in Admins PROVE TaskShape(adm[b])' /\ TaskSound(adm[b])'
    <2>1. CASE b = a
      BY <1>c, <2>1 DEF TaskShape, TaskSound
    <2>2. CASE b # a
      <3>1. adm'[b] = adm[b] /\ TaskShape(adm[b]) /\ TaskSound(adm[b])
        BY <1>c, <2>2 DEF PkiInv
      <3>2. adm[b].at = "insert" => adm[b].pair # p /\ adm[b].pair \in Pairs
        BY <1>a, <2>2, <3>1 DEF TaskShape
      <3>3. adm[b].at = "insert" => Young(adm[b].pair)'
        BY <1>2, <3>1, <3>2 DEF TaskSound
      <3>4. TaskSound(adm[b])'
        BY <3>1, <3>3 DEF TaskSound
      <3> QED
        BY <3>1, <3>4 DEF TaskShape
    <2> QED
      BY <2>1, <2>2
  <1>4. OneCreator'
    BY <1>a, <1>c, <1>d DEF PkiInv, OneCreator, Creates
  <1>5. ASSUME NEW q \in Pairs PROVE RowSound(q)' /\ AnswerSound(q)'
    <2>1. RowSound(q) /\ AnswerSound(q)
      BY DEF PkiInv
    <2>2. RowSound(q)'
      BY <1>a, <1>2, <2>1 DEF RowSound
    <2>3. ASSUME q \notin revoked, Out(q) PROVE Out(q)'
      <3>1. q \notin roots' /\ q \notin inner'
        BY <2>3 DEF Out
      <3>2. ASSUME NEW b \in Admins
            PROVE  q \notin adm'[b].built /\ ~(adm'[b].pair = q /\ adm'[b].at \in {"insert", "add_ca"})
        BY <1>c, <1>d, <2>3 DEF Out
      <3> QED
        BY <3>1, <3>2 DEF Out
    <2>4. \A b \in Admins : Creates(b, q)' => Creates(b, q)
      BY <1>c, <1>d DEF Creates
    <2>5. AnswerSound(q)'
      BY <2>1, <2>3, <2>4 DEF AnswerSound
    <2> QED
      BY <2>2, <2>5
  <1>6. up' = "refused" => stranded' # {}
    BY DEF PkiInv
  <1> QED
    BY <1>1, <1>3, <1>4, <1>5, <1>6 DEF PkiInv

(* A step of a task that changes the row, the files, the key or the answers of its own pair
   and of no other: that pair is all there is to look at. *)
LEMMA OwnPair ==
    ASSUME PkiInv, NEW a \in Admins, NEW m \in AdmType, NEW p, p = adm[a].pair, adm[a].at # "idle",
           adm' = [adm EXCEPT ![a] = m], TaskShape(m), m.built = {},
           m = IdleAdm \/ (m.at # "idle" /\ m.pair = p /\ m.op = adm[a].op),
           TaskSound(m)',
           UNCHANGED <<liveVars, minted, marking, up>>, stranded \subseteq stranded',
           rows' \in [Pairs -> RowType], files' \in [Pairs -> {"none", "part", "whole"}],
           key' \in [Pairs -> BOOLEAN],
           \A q \in Pairs \ {p} :
              /\ rows'[q] = rows[q] /\ files'[q] = files[q] /\ key'[q] = key[q]
              /\ \A op \in {"create", "revoke", "download"} : <<op, q>> \in answered' => <<op, q>> \in answered,
           \A b \in Admins \ {a} : adm[b].pair = p /\ adm[b].at # "idle" => TaskSound(adm[b])',
           RowSound(p)', AnswerSound(p)'
    PROVE  PkiInv'
  <1>a. /\ adm[a] \in AdmType /\ p \in Pairs /\ p \in minted
        /\ adm[a].op = "create" => \A b \in Admins : b # a => ~Creates(b, p)
    BY TaskFacts
  <1>b. UNCHANGED <<certs, pairs_by_server, roots, inner, revoked>>
    BY DEF liveVars
  <1>c. \A b \in Admins : adm'[b] = IF b = a THEN m ELSE adm[b]
    BY DEF PkiInv, PkiTypeOK
  <1>d. None \notin Pairs /\ IdleAdm.pair = None /\ IdleAdm.at = "idle"
    BY PkiAssumption DEF IdleAdm
  <1>1. PkiTypeOK'
    BY <1>b DEF PkiInv, PkiTypeOK
  <1>2. ASSUME NEW q \in Pairs, Young(q), q # p PROVE Young(q)'
    <2>1. q \notin roots' /\ q \notin inner' /\ rows'[q] = NoRow
      BY <1>2, <1>b DEF Young
    <2>2. ASSUME NEW b \in Admins PROVE q \notin adm'[b].built /\ (adm'[b].pair = q => adm'[b].op = "create")
      BY <1>2, <1>c, <1>d DEF Young
    <2>3. \A op \in {"create", "revoke", "download"} : <<op, q>> \notin answered'
      BY <1>2 DEF Young
    <2> QED
      BY <2>1, <2>2, <2>3 DEF Young
  <1>3. ASSUME NEW b \in Admins PROVE TaskShape(adm[b])' /\ TaskSound(adm[b])'
    <2>1. CASE b = a
      BY <1>c, <2>1 DEF TaskShape, TaskSound
    <2>2. CASE b # a
      <3>1. adm'[b] = adm[b] /\ TaskShape(adm[b]) /\ TaskSound(adm[b])
        BY <1>c, <2>2 DEF PkiInv
      <3>2. CASE adm[b].at = "idle"
        BY <3>1, <3>2 DEF TaskSound, TaskShape
      <3>3. CASE adm[b].at # "idle" /\ adm[b].pair = p
        BY <2>2, <3>1, <3>3 DEF TaskShape
      <3>4. CASE adm[b].at # "idle" /\ adm[b].pair # p
        <4>1. adm[b].pair \in Pairs
          BY <3>1, <3>4 DEF TaskShape
        <4>2. adm[b].at = "insert" => Young(adm[b].pair)'
          BY <1>2, <3>1, <3>4, <4>1 DEF TaskSound
        <4>3. rows'[adm[b].pair] = rows[adm[b].pair] /\ files'[adm[b].pair] = files[adm[b].pair]
          BY <3>4, <4>1
        <4>4. TaskSound(adm[b])'
          BY <1>b, <3>1, <3>4, <4>2, <4>3 DEF TaskSound
        <4> QED
          BY <3>1, <4>4 DEF TaskShape
      <3> QED
        BY <3>2, <3>3, <3>4
    <2> QED
      BY <2>1, <2>2
  <1>4. OneCreator'
    BY <1>a, <1>c, <1>d DEF PkiInv, OneCreator, Creates
  <1>5. ASSUME NEW q \in Pairs PROVE RowSound(q)' /\ AnswerSound(q)'
    <2>1. RowSound(q) /\ AnswerSound(q)
      BY DEF PkiInv
    <2>2. CASE q = p
      BY <2>2 DEF RowSound, AnswerSound
    <2>3. CASE q # p
      <3>1. RowSound(q)'
        BY <1>2, <2>1, <2>3 DEF RowSound
      <3>2. Out(q) => Out(q)'
        BY <1>b, <1>c, <1>d, <2>3 DEF Out
      <3>3. \A b \in Admins : Creates(b, q)' => Creates(b, q)
        BY <1>c, <1>d DEF Creates
      <3>4. AnswerSound(q)'
        BY <1>b, <2>1, <2>3, <3>2, <3>3 DEF AnswerSound
      <3> QED
        BY <3>1, <3>4
    <2> QED
      BY <2>2, <2>3
  <1>6. up' = "refused" => stranded' # {}
    BY DEF PkiInv
  <1> QED
    BY <1>1, <1>3, <1>4, <1>5, <1>6 DEF PkiInv

-----------------------------------------------------------------------------
(* A task that goes on to its next lock or statement, with the same pair. *)
LEMMA GoesOn ==
    ASSUME PkiInv, NEW a \in Admins, NEW s, Goto(a, s),
           \/ adm[a].at = "add_ca" /\ s = "rebuild"
           \/ adm[a].at = "serve" /\ s = "name"
           \/ adm[a].at = "name" /\ s = "resolvable"
           \/ adm[a].at = "resolvable" /\ s = "delete"
           \/ adm[a].at = "rebuild" /\ adm[a].op = "create" /\ s = "delete"
           \/ adm[a].at = "unserve" /\ s = "remove_ca"
           \/ adm[a].at = "remove_ca" /\ s = "rebuild"
           \/ adm[a].at = "ban" /\ s = "unname" /\ adm[a].pair \in revoked'
           \/ adm[a].at = "unname" /\ s = "revoke_row",
           UNCHANGED <<rows, files, key, minted, answered, stranded, marking, up, inner>>,
           certs' \in [Names -> Pairs \cup {None}], pairs_by_server' \in [Names -> Pairs \cup {None}],
           revoked' \subseteq Pairs, revoked \subseteq revoked',
           roots' \subseteq roots \cup (IF adm[a].at = "add_ca" THEN {adm[a].pair} ELSE {})
    PROVE  PkiInv'
  <1>1. adm[a] \in AdmType /\ TaskShape(adm[a]) /\ TaskSound(adm[a]) /\ adm[a].at \notin {"idle", "insert", "swap"}
    BY TaskFacts
  <1>2. PICK m \in AdmType : /\ m.at = s /\ m.pair = adm[a].pair /\ m.op = adm[a].op /\ m.built = {}
                             /\ adm' = [adm EXCEPT ![a] = m]
    <2> DEFINE m == [adm[a] EXCEPT !.at = s]
    <2>1. m \in AdmType /\ m.at = s /\ m.pair = adm[a].pair /\ m.op = adm[a].op /\ m.built = {}
      BY <1>1 DEF AdmType, TaskShape, Creating, Building, Revoking, Downloading
    <2>2. adm' = [adm EXCEPT ![a] = m]
      BY DEF Goto
    <2> HIDE DEF m
    <2> QED
      BY <2>1, <2>2
  <1>4. TaskShape(m)
    BY <1>1, <1>2 DEF TaskShape, Creating, Building, Revoking, Downloading
  <1>5. TaskSound(m)'
    BY <1>1, <1>2 DEF TaskSound, TaskShape, Creating, Building, Revoking
  <1>6. s \notin {"idle", "insert", "add_ca"}
    OBVIOUS
  <1> QED
    BY <1>1, <1>2, <1>4, <1>5, <1>6, Proceeds

(* A task that fails: nothing is left of it. *)
LEMMA GivesUp ==
    ASSUME PkiInv, NEW a \in Admins, Fail(a), adm[a].at \notin {"idle", "insert"},
           UNCHANGED <<rows, files, key, minted, answered, stranded, marking, up, liveVars>>
    PROVE  PkiInv'
  <1>1. IdleAdm \in AdmType /\ TaskShape(IdleAdm) /\ TaskSound(IdleAdm)' /\ IdleAdm.built \subseteq roots
    BY DEF IdleAdm, AdmType, TaskShape, TaskSound, Creating, Building, Revoking, Downloading
  <1>2. adm' = [adm EXCEPT ![a] = IdleAdm]
    BY DEF Fail
  <1>3. UNCHANGED <<certs, pairs_by_server, roots, inner, revoked>>
    BY DEF liveVars
  <1>4. /\ certs' \in [Names -> Pairs \cup {None}] /\ pairs_by_server' \in [Names -> Pairs \cup {None}]
        /\ revoked' \subseteq Pairs
    BY <1>3 DEF PkiInv, PkiTypeOK
  <1> QED
    BY <1>1, <1>2, <1>3, <1>4, Proceeds

(* The steps of a creation and of a revocation between their statements. *)
LEMMA LocksInv ==
    ASSUME PkiInv, NEW a \in Admins,
           AddRoot(a) \/ Serve(a) \/ NameIt(a) \/ Unserve(a) \/ RemoveRoot(a) \/ Ban(a) \/ Unname(a)
    PROVE  PkiInv'
  <1>a. adm[a].at # "idle" => adm[a].pair \in Pairs
    BY TaskFacts
  <1>b. /\ certs \in [Names -> Pairs \cup {None}] /\ pairs_by_server \in [Names -> Pairs \cup {None}]
        /\ revoked \subseteq Pairs
    BY DEF PkiInv, PkiTypeOK
  <1>1. UNCHANGED <<rows, files, key, minted, answered, stranded, marking, up, inner>>
    BY DEF AddRoot, Serve, NameIt, Unserve, RemoveRoot, Ban, Unname, diskVars, ghosts
  <1>2. CASE AddRoot(a)
    BY <1>b, <1>1, <1>2, GoesOn DEF AddRoot, MyPair
  <1>3. CASE Serve(a)
    <2>1. certs' \in [Names -> Pairs \cup {None}] /\ UNCHANGED <<pairs_by_server, revoked, roots>>
      BY <1>a, <1>b, <1>3 DEF Serve, MyPair, MyName
    <2> QED
      BY <1>b, <1>1, <1>3, <2>1, GoesOn DEF Serve
  <1>4. CASE NameIt(a)
    <2>1. pairs_by_server' \in [Names -> Pairs \cup {None}] /\ UNCHANGED <<certs, revoked, roots>>
      BY <1>a, <1>b, <1>4 DEF NameIt, MyPair, MyName
    <2> QED
      BY <1>b, <1>1, <1>4, <2>1, GoesOn DEF NameIt
  <1>5. CASE Unserve(a)
    <2>1. certs' \in [Names -> Pairs \cup {None}] /\ UNCHANGED <<pairs_by_server, revoked, roots>>
      BY <1>b, <1>5 DEF Unserve, MyName
    <2> QED
      BY <1>b, <1>1, <1>5, <2>1, GoesOn DEF Unserve
  <1>6. CASE RemoveRoot(a)
    BY <1>b, <1>1, <1>6, GoesOn DEF RemoveRoot, MyPair
  <1>7. CASE Ban(a)
    <2>1. /\ revoked' = revoked \cup {adm[a].pair} /\ adm[a].pair \in Pairs
          /\ UNCHANGED <<certs, pairs_by_server, roots>>
      BY <1>a, <1>7 DEF Ban, MyPair
    <2> QED
      BY <1>b, <1>1, <1>7, <2>1, GoesOn DEF Ban
  <1>8. CASE Unname(a)
    <2>1. pairs_by_server' \in [Names -> Pairs \cup {None}] /\ UNCHANGED <<certs, revoked, roots>>
      BY <1>b, <1>8 DEF Unname, MyName
    <2> QED
      BY <1>b, <1>1, <1>8, <2>1, GoesOn DEF Unname
  <1> QED
    BY <1>2, <1>3, <1>4, <1>5, <1>6, <1>7, <1>8

(* A new verifier is built, from the CAs there are. *)
LEMMA RebuildInv == ASSUME PkiInv, NEW a \in Admins, Rebuild(a) PROVE PkiInv'
  <1>a. /\ adm[a] \in AdmType /\ TaskShape(adm[a]) /\ TaskSound(adm[a]) /\ adm[a].at = "rebuild"
        /\ roots \subseteq Pairs
    BY TaskFacts DEF Rebuild, PkiInv, PkiTypeOK
  <1>b. /\ UNCHANGED <<rows, files, key, minted, answered, stranded, marking, up, liveVars>>
        /\ UNCHANGED <<certs, pairs_by_server, roots, inner, revoked>>
    BY DEF Rebuild, diskVars, ghosts, liveVars
  <1>c. /\ certs' \in [Names -> Pairs \cup {None}] /\ pairs_by_server' \in [Names -> Pairs \cup {None}]
        /\ revoked' \subseteq Pairs
    BY <1>b DEF PkiInv, PkiTypeOK
  <1>1. CASE adm' = [adm EXCEPT ![a].at = "swap", ![a].built = roots]
    <2>1. PICK m \in AdmType : /\ m.at = "swap" /\ m.pair = adm[a].pair /\ m.op = adm[a].op /\ m.built = roots
                               /\ adm' = [adm EXCEPT ![a] = m]
      <3> DEFINE m == [adm[a] EXCEPT !.at = "swap", !.built = roots]
      <3>1. m \in AdmType /\ m.at = "swap" /\ m.pair = adm[a].pair /\ m.op = adm[a].op /\ m.built = roots
        BY <1>a DEF AdmType, Building
      <3>2. adm' = [adm EXCEPT ![a] = m]
        BY <1>1 DEF PkiInv, PkiTypeOK
      <3> HIDE DEF m
      <3> QED
        BY <3>1, <3>2
    <2>3. TaskShape(m)
      BY <1>a, <2>1 DEF TaskShape, Creating, Building, Revoking, Downloading
    <2>4. TaskSound(m)'
      BY <1>a, <1>b, <2>1 DEF TaskSound
    <2> QED
      BY <1>a, <1>b, <1>c, <2>1, <2>3, <2>4, Proceeds
  <1>2. CASE adm[a].op = "create" /\ Goto(a, "delete")
    BY <1>a, <1>b, <1>c, <1>2, GoesOn
  <1>3. CASE Fail(a)
    BY <1>a, <1>b, <1>3, GivesUp
  <1> QED
    BY <1>1, <1>2, <1>3 DEF Rebuild

(* ... and takes the place of the old one. *)
LEMMA SwapInv == ASSUME PkiInv, NEW a \in Admins, Swap(a) PROVE PkiInv'
  <1>a. adm[a] \in AdmType /\ TaskShape(adm[a]) /\ TaskSound(adm[a]) /\ adm[a].at = "swap"
    BY TaskFacts DEF Swap
  <1>b. /\ UNCHANGED <<rows, files, key, minted, answered, stranded, marking, up>>
        /\ UNCHANGED <<certs, pairs_by_server, roots, revoked>> /\ inner' = adm[a].built
    BY DEF Swap, diskVars, ghosts
  <1>c. /\ certs' \in [Names -> Pairs \cup {None}] /\ pairs_by_server' \in [Names -> Pairs \cup {None}]
        /\ revoked' \subseteq Pairs
    BY <1>b DEF PkiInv, PkiTypeOK
  <1>1. PICK m \in AdmType : /\ m.pair = adm[a].pair /\ m.op = adm[a].op /\ m.built = {}
                             /\ (adm[a].op = "create" /\ m.at = "serve") \/ (adm[a].op # "create" /\ m.at = "ban")
                             /\ adm' = [adm EXCEPT ![a] = m]
    <2> DEFINE m == [adm[a] EXCEPT !.at = IF adm[a].op = "create" THEN "serve" ELSE "ban", !.built = {}]
    <2>1. /\ m \in AdmType /\ m.pair = adm[a].pair /\ m.op = adm[a].op /\ m.built = {}
          /\ (adm[a].op = "create" /\ m.at = "serve") \/ (adm[a].op # "create" /\ m.at = "ban")
      BY <1>a DEF AdmType, Creating, Revoking
    <2>2. adm' = [adm EXCEPT ![a] = m]
      BY DEF Swap, PkiInv, PkiTypeOK
    <2> HIDE DEF m
    <2> QED
      BY <2>1, <2>2
  <1>3. TaskShape(m)
    BY <1>a, <1>1 DEF TaskShape, Creating, Building, Revoking, Downloading
  <1>4. TaskSound(m)'
    BY <1>a, <1>b, <1>1 DEF TaskSound
  <1> QED
    BY <1>a, <1>b, <1>c, <1>1, <1>3, <1>4, Proceeds

-----------------------------------------------------------------------------
(* A task that is over is sound, and so is one that has not begun. *)
LEMMA IdleFacts ==
    /\ IdleAdm \in AdmType /\ TaskShape(IdleAdm) /\ TaskSound(IdleAdm)' /\ IdleAdm.built = {}
    /\ IdleAdm.at = "idle" /\ IdleAdm.pair = None
  BY DEF IdleAdm, AdmType, TaskShape, TaskSound, Creating, Building, Revoking, Downloading

(* The other tasks on the pair of a: its creator, unless that is a, and revocations and
   downloads.  What they rely on when a changes the row or the files. *)
LEMMA OthersKept ==
    ASSUME PkiInv, NEW a \in Admins, NEW b \in Admins, NEW p, p = adm[a].pair, adm[a].at # "idle", b # a,
           adm[b].pair = p, adm[b].at # "idle", adm'[b] = adm[b],
           UNCHANGED <<minted, revoked>>, stranded \subseteq stranded',
           \/ adm[a].op = "create"
           \/ files'[p] = files[p] /\ (rows[p] # NoRow => rows'[p] # NoRow),
           rows[p] = NoRow => rows'[p] = NoRow,
           rows[p].downloaded => rows'[p] = NoRow \/ rows'[p].downloaded
    PROVE  TaskSound(adm[b])'
  <1>1. /\ TaskShape(adm[b]) /\ TaskSound(adm[b]) /\ p \in Pairs /\ p \in minted
        /\ adm[b].at # "insert"
        /\ adm[a].op = "create" => adm[b].op # "create"
    BY TaskFacts DEF Creates, PkiInv
  <1>2. adm[b].at = "rmdir" => adm[b].op = "create"
    BY <1>1 DEF TaskShape, Creating
  <1> QED
    BY <1>1, <1>2 DEF TaskSound

(* The row of a new pair: no other task and no answer is about it. *)
LEMMA InsertInv == ASSUME PkiInv, NEW a \in Admins, Insert(a) PROVE PkiInv'
  <1>p. PICK p : p = adm[a].pair
    OBVIOUS
  <1>a. /\ adm[a] \in AdmType /\ TaskShape(adm[a]) /\ TaskSound(adm[a]) /\ adm[a].at = "insert"
        /\ p \in Pairs /\ p \in minted
        /\ \A b \in Admins : b # a => ~Creates(b, p)
    BY <1>p, TaskFacts DEF Insert, TaskShape, Creating
  <1>b. /\ Young(p) /\ files[p] = "whole" /\ adm[a].op = "create" /\ adm[a].built = {}
    BY <1>a, <1>p DEF TaskSound, TaskShape, Creating
  <1>c. /\ UNCHANGED <<files, key, minted, answered, stranded, marking, up, liveVars>>
        /\ UNCHANGED <<roots, inner, revoked>>
        /\ rows \in [Pairs -> RowType] /\ files' \in [Pairs -> {"none", "part", "whole"}]
        /\ key' \in [Pairs -> BOOLEAN]
    BY DEF Insert, ghosts, liveVars, PkiInv, PkiTypeOK
  <1>d. \A b \in Admins \ {a} : adm[b].pair # p
    BY <1>a, <1>b DEF Young, Creates
  <1>e. \A op \in {"create", "revoke", "download"} : <<op, p>> \notin answered'
    BY <1>b, <1>c DEF Young
  <1>f. AnswerSound(p)'
    BY <1>e DEF AnswerSound
  <1>1. CASE rows' = [rows EXCEPT ![p] = [NoRow EXCEPT !.status = "waiting"]] /\ Goto(a, "add_ca")
    <2>1. PICK m \in AdmType : /\ m.at = "add_ca" /\ m.pair = p /\ m.op = "create" /\ m.built = {}
                               /\ adm' = [adm EXCEPT ![a] = m]
      <3> DEFINE m == [adm[a] EXCEPT !.at = "add_ca"]
      <3>1. m \in AdmType /\ m.at = "add_ca" /\ m.pair = p /\ m.op = "create" /\ m.built = {}
        BY <1>a, <1>b, <1>p DEF AdmType, Creating
      <3>2. adm' = [adm EXCEPT ![a] = m]
        BY <1>1 DEF Goto
      <3> HIDE DEF m
      <3> QED
        BY <3>1, <3>2
    <2>2. TaskShape(m)
      BY <1>a, <2>1 DEF TaskShape, Creating, Building, Revoking, Downloading
    <2>3. rows' \in [Pairs -> RowType] /\ rows'[p] # NoRow /\ \A q \in Pairs \ {p} : rows'[q] = rows[q]
      BY <1>a, <1>c, <1>1 DEF RowType, NoRow
    <2>4. TaskSound(m)'
      BY <1>a, <1>b, <1>c, <2>1, <2>3 DEF TaskSound
    <2>5. RowSound(p)'
      <3>1. rows'[p].status = "waiting"
        BY <1>a, <1>c, <1>1 DEF NoRow
      <3> QED
        BY <1>a, <1>b, <1>c, <3>1 DEF RowSound
    <2> QED
      BY <1>a, <1>b, <1>c, <1>d, <1>f, <1>p, <2>1, <2>2, <2>3, <2>4, <2>5, OwnPair
  <1>2. CASE rows' = rows /\ Goto(a, "rmdir")
    <2>1. PICK m \in AdmType : /\ m.at = "rmdir" /\ m.pair = p /\ m.op = "create" /\ m.built = {}
                               /\ adm' = [adm EXCEPT ![a] = m]
      <3> DEFINE m == [adm[a] EXCEPT !.at = "rmdir"]
      <3>1. m \in AdmType /\ m.at = "rmdir" /\ m.pair = p /\ m.op = "create" /\ m.built = {}
        BY <1>a, <1>b, <1>p DEF AdmType, Creating
      <3>2. adm' = [adm EXCEPT ![a] = m]
        BY <1>2 DEF Goto
      <3> HIDE DEF m
      <3> QED
        BY <3>1, <3>2
    <2>2. TaskShape(m)
      BY <1>a, <2>1 DEF TaskShape, Creating, Building, Revoking, Downloading
    <2>3. rows' \in [Pairs -> RowType] /\ rows'[p] = NoRow
      BY <1>b, <1>c, <1>2 DEF Young
    <2>4. TaskSound(m)'
      BY <1>a, <1>c, <2>1, <2>3 DEF TaskSound
    <2>5. RowSound(p)'
      BY <1>a, <1>c, <2>3 DEF RowSound
    <2> QED
      BY <1>a, <1>b, <1>c, <1>d, <1>f, <1>p, <1>2, <2>1, <2>2, <2>3, <2>4, <2>5, OwnPair
  <1> QED
    BY <1>p, <1>1, <1>2 DEF Insert, MyPair

(* The record of a task that goes on to stage s. *)
LEMMA NextStage ==
    ASSUME PkiInv, NEW a \in Admins, adm[a].at \notin {"idle", "swap"},
           NEW s \in Creating \cup Revoking \cup Downloading, Goto(a, s)
    PROVE  \E m \in AdmType : /\ m.at = s /\ m.pair = adm[a].pair /\ m.op = adm[a].op /\ m.built = {}
                              /\ adm' = [adm EXCEPT ![a] = m]
  <1> DEFINE m == [adm[a] EXCEPT !.at = s]
  <1>1. adm[a] \in AdmType /\ TaskShape(adm[a])
    BY TaskFacts
  <1>2. m \in AdmType /\ m.at = s /\ m.pair = adm[a].pair /\ m.op = adm[a].op /\ m.built = {}
    BY <1>1 DEF AdmType, TaskShape
  <1>3. adm' = [adm EXCEPT ![a] = m]
    BY DEF Goto
  <1> HIDE DEF m
  <1> QED
    BY <1>2, <1>3

(* An answer is about the operation and the pair of the task. *)
LEMMA AnswerIs ==
    ASSUME NEW a \in Admins, Answer(a), NEW p, p = adm[a].pair, NEW op, op = adm[a].op
    PROVE  /\ adm' = [adm EXCEPT ![a] = IdleAdm]
           /\ \A o, q : <<o, q>> \in answered' <=> (<<o, q>> \in answered \/ (o = op /\ q = p))
  BY DEF Answer, Fail

(* A creation is answered while its row and its files are there. *)
LEMMA ResolvableInv == ASSUME PkiInv, NEW a \in Admins, Resolvable(a) PROVE PkiInv'
  <1>p. PICK p : p = adm[a].pair
    OBVIOUS
  <1>a. /\ adm[a] \in AdmType /\ TaskShape(adm[a]) /\ TaskSound(adm[a]) /\ adm[a].at = "resolvable"
        /\ p \in Pairs /\ p \in minted
    BY <1>p, TaskFacts DEF Resolvable
  <1>b. adm[a].op = "create" /\ rows[p] # NoRow /\ files[p] = "whole"
    BY <1>a, <1>p DEF TaskShape, TaskSound, Creating
  <1>c. /\ UNCHANGED <<rows, files, key, minted, stranded, marking, up, liveVars>>
        /\ UNCHANGED <<certs, pairs_by_server, roots, inner, revoked>>
        /\ rows \in [Pairs -> RowType] /\ files \in [Pairs -> {"none", "part", "whole"}]
        /\ key \in [Pairs -> BOOLEAN] /\ revoked \subseteq Pairs
        /\ certs \in [Names -> Pairs \cup {None}] /\ pairs_by_server \in [Names -> Pairs \cup {None}]
    BY DEF Resolvable, diskVars, liveVars, PkiInv, PkiTypeOK
  <1>1. CASE Answer(a)
    <2>1. /\ adm' = [adm EXCEPT ![a] = IdleAdm]
          /\ \A o, q : <<o, q>> \in answered' <=> (<<o, q>> \in answered \/ (o = "create" /\ q = p))
      BY <1>b, <1>p, <1>1, AnswerIs
    <2>2. \A b \in Admins : ~Creates(b, p)'
      <3>1. \A b \in Admins : b # a => ~Creates(b, p)
        BY <1>a, <1>b, <1>p, TaskFacts
      <3>2. \A b \in Admins : adm'[b] = IF b = a THEN IdleAdm ELSE adm[b]
        BY <2>1 DEF PkiInv, PkiTypeOK
      <3> QED
        BY <1>a, <3>1, <3>2, IdleFacts, PkiAssumption DEF Creates
    <2>3. RowSound(p) /\ AnswerSound(p)
      BY <1>a DEF PkiInv
    <2>4. RowSound(p)'
      BY <1>a, <1>c, <2>3 DEF RowSound
    <2>5. AnswerSound(p)'
      <3>1. Out(p) => Out(p)'
        BY <1>a, <1>c, <2>1, IdleFacts, PkiAssumption DEF Out, PkiInv, PkiTypeOK
      <3> QED
        BY <1>b, <1>c, <2>1, <2>2, <2>3, <3>1 DEF AnswerSound
    <2>6. \A b \in Admins \ {a} : adm[b].pair = p /\ adm[b].at # "idle" => TaskSound(adm[b])'
      <3> SUFFICES ASSUME NEW b \in Admins \ {a}, adm[b].pair = p, adm[b].at # "idle" PROVE TaskSound(adm[b])'
        OBVIOUS
      <3>1. adm'[b] = adm[b]
        BY <2>1 DEF PkiInv, PkiTypeOK
      <3> QED
        BY <1>a, <1>b, <1>c, <1>p, <3>1, OthersKept
    <2> QED
      BY <1>a, <1>c, <1>p, <2>1, <2>4, <2>5, <2>6, IdleFacts, OwnPair
  <1>2. CASE Goto(a, "delete") /\ UNCHANGED answered
    BY <1>a, <1>c, <1>2, GoesOn
  <1> QED
    BY <1>1, <1>2 DEF Resolvable

(* A creation that failed takes back its row: it was not answered. *)
LEMMA DeleteRowInv == ASSUME PkiInv, NEW a \in Admins, DeleteRow(a) PROVE PkiInv'
  <1>p. PICK p : p = adm[a].pair
    OBVIOUS
  <1>a. /\ adm[a] \in AdmType /\ TaskShape(adm[a]) /\ TaskSound(adm[a]) /\ adm[a].at = "delete"
        /\ p \in Pairs /\ p \in minted
    BY <1>p, TaskFacts DEF DeleteRow
  <1>b. adm[a].op = "create" /\ files[p] = "whole"
    BY <1>a, <1>p DEF TaskShape, TaskSound, Creating
  <1>c. /\ UNCHANGED <<files, key, minted, answered, marking, up, liveVars>> /\ UNCHANGED <<roots, inner, revoked>>
        /\ rows \in [Pairs -> RowType] /\ files' \in [Pairs -> {"none", "part", "whole"}]
        /\ key' \in [Pairs -> BOOLEAN]
    BY DEF DeleteRow, liveVars, PkiInv, PkiTypeOK
  <1>d. /\ stranded \subseteq stranded'
        /\ rows'[p] = NoRow \/ (p \in stranded' /\ rows' = rows)
        /\ rows' \in [Pairs -> RowType]
        /\ \A q \in Pairs \ {p} : rows'[q] = rows[q]
    <2>1. CASE rows' = [rows EXCEPT ![p] = NoRow] /\ stranded' = stranded
      <3>1. NoRow \in RowType
        BY DEF NoRow, RowType
      <3> QED
        BY <1>a, <1>c, <2>1, <3>1
    <2>2. CASE rows' = rows /\ stranded' = stranded \cup {p}
      BY <1>c, <2>2
    <2> QED
      BY <1>p, <2>1, <2>2 DEF DeleteRow, MyPair
  <1>1. PICK m \in AdmType : /\ m.at = "rmdir" /\ m.pair = p /\ m.op = "create" /\ m.built = {}
                             /\ adm' = [adm EXCEPT ![a] = m]
    BY <1>a, <1>b, <1>p, NextStage DEF DeleteRow, Creating
  <1>2. TaskShape(m)
    BY <1>a, <1>1 DEF TaskShape, Creating, Building, Revoking, Downloading
  <1>3. TaskSound(m)'
    BY <1>a, <1>c, <1>d, <1>1 DEF TaskSound
  <1>4. RowSound(p) /\ AnswerSound(p) /\ <<"create", p>> \notin answered
    BY <1>a, <1>b, <1>p DEF PkiInv, AnswerSound, Creates
  <1>5. RowSound(p)'
    BY <1>a, <1>b, <1>c, <1>d, <1>4 DEF RowSound, NoRow
  <1>6. AnswerSound(p)'
    <2>1. \A b \in Admins : adm'[b] = IF b = a THEN m ELSE adm[b]
      BY <1>1 DEF PkiInv, PkiTypeOK
    <2>2. Out(p) => Out(p)'
      BY <1>c, <1>1, <2>1 DEF Out
    <2>3. rows'[p] = rows[p] \/ (rows'[p].status = "absent" /\ rows'[p] = NoRow)
      BY <1>d DEF NoRow
    <2> QED
      BY <1>c, <1>4, <2>2, <2>3 DEF AnswerSound
  <1>7. \A b \in Admins \ {a} : adm[b].pair = p /\ adm[b].at # "idle" => TaskSound(adm[b])'
    <2> SUFFICES ASSUME NEW b \in Admins \ {a}, adm[b].pair = p, adm[b].at # "idle" PROVE TaskSound(adm[b])'
      OBVIOUS
    <2>1. adm'[b] = adm[b]
      BY <1>1 DEF PkiInv, PkiTypeOK
    <2> QED
      BY <1>a, <1>b, <1>c, <1>d, <1>p, <2>1, OthersKept
  <1> QED
    BY <1>a, <1>b, <1>c, <1>d, <1>p, <1>1, <1>2, <1>3, <1>5, <1>6, <1>7, OwnPair

(* ... and its files. *)
LEMMA RemoveFilesInv == ASSUME PkiInv, NEW a \in Admins, RemoveFiles(a) PROVE PkiInv'
  <1>p. PICK p : p = adm[a].pair
    OBVIOUS
  <1>a. /\ adm[a] \in AdmType /\ TaskShape(adm[a]) /\ TaskSound(adm[a]) /\ adm[a].at = "rmdir"
        /\ p \in Pairs /\ p \in minted
    BY <1>p, TaskFacts DEF RemoveFiles
  <1>b. adm[a].op = "create" /\ (rows[p] = NoRow \/ p \in stranded)
    BY <1>a, <1>p DEF TaskShape, TaskSound, Creating
  <1>c. /\ UNCHANGED <<rows, minted, answered, stranded, marking, up, liveVars>> /\ UNCHANGED <<roots, inner, revoked>>
        /\ rows' \in [Pairs -> RowType]
        /\ files' \in {files, [files EXCEPT ![p] = "part"], [files EXCEPT ![p] = "none"]}
        /\ key' \in {key, [key EXCEPT ![p] = FALSE]}
        /\ adm' = [adm EXCEPT ![a] = IdleAdm]
    BY <1>p DEF RemoveFiles, MyPair, Fail, ghosts, liveVars, PkiInv, PkiTypeOK
  <1>d. /\ files' \in [Pairs -> {"none", "part", "whole"}] /\ key' \in [Pairs -> BOOLEAN] /\ (key'[p] => key[p])
        /\ \A q \in Pairs \ {p} : files'[q] = files[q] /\ key'[q] = key[q]
    BY <1>a, <1>c DEF PkiInv, PkiTypeOK
  <1>4. RowSound(p) /\ AnswerSound(p) /\ <<"create", p>> \notin answered
    BY <1>a, <1>b, <1>p DEF PkiInv, AnswerSound, Creates
  <1>5. RowSound(p)'
    BY <1>a, <1>b, <1>c, <1>4 DEF RowSound
  <1>6. AnswerSound(p)'
    <2>1. \A b \in Admins : adm'[b] = IF b = a THEN IdleAdm ELSE adm[b]
      BY <1>c DEF PkiInv, PkiTypeOK
    <2>2. Out(p) => Out(p)'
      BY <1>a, <1>c, <2>1, IdleFacts, PkiAssumption DEF Out
    <2> QED
      BY <1>c, <1>d, <1>4, <2>2 DEF AnswerSound
  <1>7. \A b \in Admins \ {a} : adm[b].pair = p /\ adm[b].at # "idle" => TaskSound(adm[b])'
    <2> SUFFICES ASSUME NEW b \in Admins \ {a}, adm[b].pair = p, adm[b].at # "idle" PROVE TaskSound(adm[b])'
      OBVIOUS
    <2>1. adm'[b] = adm[b]
      BY <1>c DEF PkiInv, PkiTypeOK
    <2> QED
      BY <1>a, <1>b, <1>c, <1>p, <2>1, OthersKept
  <1> QED
    BY <1>a, <1>c, <1>d, <1>p, <1>5, <1>6, <1>7, IdleFacts, OwnPair

(* What the row of p may become without disturbing anyone: it is there as long as it was,
   and stays revoked, and downloaded. *)
RowKept(p) ==
    /\ rows' \in [Pairs -> RowType] /\ \A q \in Pairs \ {p} : rows'[q] = rows[q]
    /\ rows'[p] = NoRow <=> rows[p] = NoRow
    /\ rows'[p].status = "absent" => rows[p].status = "absent"
    /\ rows[p].status \in {"absent", "revoked"} => rows'[p].status \in {"absent", "revoked"}
    /\ rows[p].downloaded => rows'[p].downloaded

(* A task that changes its row so and ends, or goes on: all that was known of the pair
   still is. *)
LEMMA RowChanges ==
    ASSUME PkiInv, NEW a \in Admins, NEW m \in AdmType, NEW p, p = adm[a].pair,
           adm[a].at \in Revoking \cup Downloading,
           adm' = [adm EXCEPT ![a] = m], TaskShape(m), m.built = {},
           m = IdleAdm \/ (m.at \notin {"idle", "insert", "add_ca"} /\ m.pair = p /\ m.op = adm[a].op),
           TaskSound(m)', RowKept(p),
           UNCHANGED <<files, minted, stranded, marking, up, liveVars>>,
           key' \in [Pairs -> BOOLEAN], key'[p] => key[p], \A q \in Pairs \ {p} : key'[q] = key[q],
           \A o, q : <<o, q>> \in answered' =>
              \/ <<o, q>> \in answered
              \/ /\ q = p /\ o = "revoke" /\ rows'[p].status \in {"absent", "revoked"} /\ p \in revoked
              \/ /\ q = p /\ o = "download" /\ (rows'[p] = NoRow \/ rows'[p].downloaded) /\ ~key'[p]
    PROVE  PkiInv'
  <1>a. /\ adm[a] \in AdmType /\ TaskShape(adm[a]) /\ TaskSound(adm[a]) /\ adm[a].at # "idle"
        /\ p \in Pairs /\ p \in minted
    BY TaskFacts DEF Revoking, Downloading
  <1>b. UNCHANGED <<roots, inner, revoked>> /\ files' \in [Pairs -> {"none", "part", "whole"}]
    BY DEF liveVars, PkiInv, PkiTypeOK
  <1>c. \A b \in Admins : adm'[b] = IF b = a THEN m ELSE adm[b]
    BY DEF PkiInv, PkiTypeOK
  <1>1. RowSound(p) /\ AnswerSound(p)
    BY <1>a DEF PkiInv
  <1>2. RowSound(p)'
    BY <1>a, <1>1 DEF RowSound, RowKept
  <1>3. AnswerSound(p)'
    <2>1. Out(p) => Out(p)'
      BY <1>a, <1>b, <1>c, IdleFacts, PkiAssumption DEF Out
    <2>2. \A b \in Admins : Creates(b, p)' => Creates(b, p)
      BY <1>a, <1>c, IdleFacts, PkiAssumption DEF Creates
    <2>3. <<"create", p>> \in answered' => rows'[p] # NoRow /\ files'[p] = "whole" /\ \A b \in Admins : ~Creates(b, p)'
      BY <1>1, <2>2 DEF AnswerSound, RowKept
    <2>4. <<"revoke", p>> \in answered' =>
            rows'[p].status \in {"absent", "revoked"} /\ (p \in revoked' \/ Out(p)')
      BY <1>b, <1>1, <2>1 DEF AnswerSound, RowKept
    <2>5. <<"download", p>> \in answered' => (rows'[p] = NoRow \/ rows'[p].downloaded) /\ ~key'[p]
      BY <1>a, <1>1 DEF AnswerSound, RowKept
    <2> QED
      BY <2>3, <2>4, <2>5 DEF AnswerSound
  <1>4. \A b \in Admins \ {a} : adm[b].pair = p /\ adm[b].at # "idle" => TaskSound(adm[b])'
    <2> SUFFICES ASSUME NEW b \in Admins \ {a}, adm[b].pair = p, adm[b].at # "idle" PROVE TaskSound(adm[b])'
      OBVIOUS
    <2>1. adm'[b] = adm[b]
      BY <1>c
    <2> QED
      BY <1>a, <1>b, <2>1, OthersKept DEF RowKept
  <1>5. \A q \in Pairs \ {p} :
           /\ rows'[q] = rows[q] /\ files'[q] = files[q] /\ key'[q] = key[q]
           /\ \A op \in {"create", "revoke", "download"} : <<op, q>> \in answered' => <<op, q>> \in answered
    BY DEF RowKept
  <1>6. rows' \in [Pairs -> RowType]
    BY DEF RowKept
  <1> QED
    BY <1>a, <1>b, <1>2, <1>3, <1>4, <1>5, <1>6, OwnPair

(* A row that does not change is kept. *)
LEMMA SameRow == ASSUME PkiInv, UNCHANGED rows, NEW p PROVE RowKept(p)
  BY DEF PkiInv, PkiTypeOK, RowKept

(* The row is revoked last, when the verifier refuses the certificate already. *)
LEMMA RevokeRowInv == ASSUME PkiInv, NEW a \in Admins, RevokeRow(a) PROVE PkiInv'
  <1>p. PICK p : p = adm[a].pair
    OBVIOUS
  <1>a. /\ adm[a] \in AdmType /\ TaskShape(adm[a]) /\ TaskSound(adm[a]) /\ adm[a].at = "revoke_row"
        /\ p \in Pairs /\ p \in minted
    BY <1>p, TaskFacts DEF RevokeRow
  <1>b. adm[a].op = "revoke" /\ p \in revoked
    BY <1>a, <1>p DEF TaskShape, TaskSound, Revoking
  <1>c. /\ UNCHANGED <<files, key, minted, stranded, marking, up, liveVars>>
        /\ rows \in [Pairs -> RowType] /\ key \in [Pairs -> BOOLEAN]
    BY DEF RevokeRow, PkiInv, PkiTypeOK
  <1>1. CASE /\ rows' = [rows EXCEPT ![p].status = IF @ = "absent" THEN @ ELSE "revoked"]
             /\ Answer(a)
    <2>1. /\ adm' = [adm EXCEPT ![a] = IdleAdm]
          /\ \A o, q : <<o, q>> \in answered' <=> (<<o, q>> \in answered \/ (o = "revoke" /\ q = p))
      BY <1>b, <1>p, <1>1, AnswerIs
    <2>2. rows[p].status = "absent" => rows[p] = NoRow
      BY <1>a DEF PkiInv, RowSound
    <2>3. RowKept(p) /\ rows'[p].status \in {"absent", "revoked"}
      <3>1. rows[p] \in RowType
        BY <1>a, <1>c
      <3>2. rows'[p] = [rows[p] EXCEPT !.status = IF @ = "absent" THEN @ ELSE "revoked"]
        BY <1>a, <1>c, <1>1
      <3>3. /\ rows'[p] \in RowType /\ rows'[p].downloaded = rows[p].downloaded
            /\ rows'[p].status = IF rows[p].status = "absent" THEN "absent" ELSE "revoked"
        BY <3>1, <3>2 DEF RowType
      <3>4. rows'[p] = NoRow <=> rows[p] = NoRow
        BY <2>2, <3>1, <3>2, <3>3 DEF NoRow, RowType
      <3>5. rows' \in [Pairs -> RowType] /\ \A q \in Pairs \ {p} : rows'[q] = rows[q]
        BY <1>a, <1>c, <1>1, <3>2, <3>3
      <3> QED
        BY <3>3, <3>4, <3>5 DEF RowKept
    <2> QED
      BY <1>a, <1>b, <1>c, <1>p, <2>1, <2>3, IdleFacts, RowChanges DEF Revoking
  <1>2. CASE Fail(a) /\ UNCHANGED <<rows, answered>>
    BY <1>a, <1>c, <1>2, GivesUp
  <1> QED
    BY <1>p, <1>1, <1>2 DEF RevokeRow, MyPair

(* A download marks the row consumed before it removes the key. *)
LEMMA ConsumeInv == ASSUME PkiInv, NEW a \in Admins, Consume(a) PROVE PkiInv'
  <1>p. PICK p : p = adm[a].pair
    OBVIOUS
  <1>a. /\ adm[a] \in AdmType /\ TaskShape(adm[a]) /\ TaskSound(adm[a]) /\ adm[a].at = "consume"
        /\ p \in Pairs /\ p \in minted
    BY <1>p, TaskFacts DEF Consume
  <1>b. adm[a].op = "download"
    BY <1>a DEF TaskShape, Downloading
  <1>c. /\ UNCHANGED <<files, key, minted, answered, stranded, marking, up, liveVars>>
        /\ rows \in [Pairs -> RowType] /\ key \in [Pairs -> BOOLEAN]
    BY DEF Consume, ghosts, PkiInv, PkiTypeOK
  <1>1. CASE rows' = [rows EXCEPT ![p].downloaded = rows[p] # NoRow] /\ Goto(a, "rmkey")
    <2>1. PICK m \in AdmType : /\ m.at = "rmkey" /\ m.pair = p /\ m.op = "download" /\ m.built = {}
                               /\ adm' = [adm EXCEPT ![a] = m]
      BY <1>a, <1>b, <1>p, <1>1, NextStage DEF Downloading
    <2>2. TaskShape(m)
      BY <1>a, <2>1 DEF TaskShape, Creating, Building, Revoking, Downloading
    <2>3. RowKept(p) /\ (rows'[p] = NoRow \/ rows'[p].downloaded)
      <3>1. rows[p] \in RowType
        BY <1>a, <1>c
      <3>2. rows'[p] = [rows[p] EXCEPT !.downloaded = rows[p] # NoRow]
        BY <1>a, <1>c, <1>1
      <3>3. CASE rows[p] = NoRow
        <4>1. rows'[p] = [NoRow EXCEPT !.downloaded = FALSE]
          BY <3>2, <3>3
        <4>2. rows'[p] = NoRow
          BY <4>1 DEF NoRow
        <4>3. rows' \in [Pairs -> RowType] /\ \A q \in Pairs \ {p} : rows'[q] = rows[q]
          BY <1>a, <1>c, <1>1, <3>1, <3>2, <3>3, <4>2
        <4> QED
          BY <3>3, <4>2, <4>3 DEF RowKept
      <3>4. CASE rows[p] # NoRow
        <4>1. rows'[p] \in RowType /\ rows'[p].downloaded /\ rows'[p].status = rows[p].status
          BY <3>1, <3>2, <3>4 DEF RowType
        <4>2. rows' \in [Pairs -> RowType] /\ \A q \in Pairs \ {p} : rows'[q] = rows[q]
          BY <1>a, <1>c, <1>1, <3>2, <4>1
        <4>3. rows'[p] # NoRow
          BY <4>1 DEF NoRow
        <4> QED
          BY <3>4, <4>1, <4>2, <4>3 DEF RowKept
      <3> QED
        BY <3>3, <3>4
    <2>4. TaskSound(m)'
      BY <1>a, <1>c, <2>1, <2>3 DEF TaskSound
    <2> QED
      BY <1>a, <1>b, <1>c, <1>p, <2>1, <2>2, <2>3, <2>4, RowChanges DEF Downloading
  <1>2. CASE Fail(a) /\ UNCHANGED rows
    BY <1>a, <1>c, <1>2, GivesUp
  <1> QED
    BY <1>p, <1>1, <1>2 DEF Consume, MyPair

(* The bundle is handed out when the key is gone. *)
LEMMA RemoveKeyInv == ASSUME PkiInv, NEW a \in Admins, RemoveKey(a) PROVE PkiInv'
  <1>p. PICK p : p = adm[a].pair
    OBVIOUS
  <1>a. /\ adm[a] \in AdmType /\ TaskShape(adm[a]) /\ TaskSound(adm[a]) /\ adm[a].at = "rmkey"
        /\ p \in Pairs /\ p \in minted
    BY <1>p, TaskFacts DEF RemoveKey
  <1>b. adm[a].op = "download" /\ (rows[p] = NoRow \/ rows[p].downloaded)
    BY <1>a, <1>p DEF TaskShape, TaskSound, Downloading
  <1>c. UNCHANGED <<rows, files, minted, stranded, marking, up, liveVars>> /\ key \in [Pairs -> BOOLEAN]
    BY DEF RemoveKey, PkiInv, PkiTypeOK
  <1>1. CASE key' = [key EXCEPT ![p] = FALSE] /\ Answer(a)
    <2>1. /\ adm' = [adm EXCEPT ![a] = IdleAdm]
          /\ \A o, q : <<o, q>> \in answered' <=> (<<o, q>> \in answered \/ (o = "download" /\ q = p))
      BY <1>b, <1>p, <1>1, AnswerIs
    <2>2. key' \in [Pairs -> BOOLEAN] /\ ~key'[p] /\ \A q \in Pairs \ {p} : key'[q] = key[q]
      BY <1>a, <1>c, <1>1
    <2>3. RowKept(p) /\ rows'[p] = rows[p]
      BY <1>c, SameRow
    <2> QED
      BY <1>a, <1>b, <1>c, <1>p, <2>1, <2>2, <2>3, IdleFacts, RowChanges DEF Downloading
  <1>2. CASE Fail(a) /\ UNCHANGED <<key, answered>>
    BY <1>a, <1>c, <1>2, GivesUp
  <1> QED
    BY <1>p, <1>1, <1>2 DEF RemoveKey, MyPair

-----------------------------------------------------------------------------
(* A revocation or a download begins, of a pair that has a row: nobody is still going to
   insert that row, and nobody creates the pair anew. *)
LEMMA TakesUp ==
    ASSUME PkiInv, NEW a \in Admins, NEW p \in Pairs, NEW m \in AdmType,
           adm[a].at = "idle", rows[p].status # "absent", adm' = [adm EXCEPT ![a] = m],
           m.pair = p, m.built = {},
           (m.at = "unserve" /\ m.op = "revoke") \/ (m.at = "consume" /\ m.op = "download"),
           UNCHANGED <<rows, files, key, minted, answered, stranded, marking, up, liveVars>>
    PROVE  PkiInv'
  <1>a. rows[p] # NoRow /\ p \in minted
    <2>1. RowSound(p)
      BY DEF PkiInv
    <2> QED
      BY <2>1 DEF RowSound, Young, NoRow
  <1>b. UNCHANGED <<certs, pairs_by_server, roots, inner, revoked>>
    BY DEF liveVars
  <1>c. \A b \in Admins : adm'[b] = IF b = a THEN m ELSE adm[b]
    BY DEF PkiInv, PkiTypeOK
  <1>1. PkiTypeOK'
    BY <1>b DEF PkiInv, PkiTypeOK
  <1>2. ASSUME NEW q \in Pairs, Young(q) PROVE Young(q)'
    <2>1. q # p
      BY <1>a, <1>2 DEF Young
    <2> QED
      BY <1>2, <1>b, <1>c, <2>1 DEF Young
  <1>3. ASSUME NEW b \in Admins PROVE TaskShape(adm[b])' /\ TaskSound(adm[b])'
    <2>1. CASE b = a
      <3>1. TaskShape(m) /\ TaskSound(m)'
        BY <1>a DEF TaskShape, TaskSound, Creating, Building, Revoking, Downloading
      <3> QED
        BY <1>c, <2>1, <3>1 DEF TaskShape, TaskSound
    <2>2. CASE b # a
      <3>1. adm'[b] = adm[b] /\ TaskShape(adm[b]) /\ TaskSound(adm[b])
        BY <1>c, <2>2 DEF PkiInv
      <3>2. adm[b].at = "insert" => Young(adm[b].pair)'
        BY <1>2, <3>1 DEF TaskSound, TaskShape
      <3>3. TaskSound(adm[b])'
        BY <1>b, <3>1, <3>2 DEF TaskSound
      <3> QED
        BY <3>1, <3>3 DEF TaskShape
    <2> QED
      BY <2>1, <2>2
  <1>4. OneCreator'
    BY <1>c DEF PkiInv, OneCreator, Creates
  <1>5. ASSUME NEW q \in Pairs PROVE RowSound(q)' /\ AnswerSound(q)'
    <2>1. RowSound(q) /\ AnswerSound(q)
      BY DEF PkiInv
    <2>2. RowSound(q)'
      BY <1>2, <2>1 DEF RowSound
    <2>3. Out(q) => Out(q)'
      BY <1>b, <1>c DEF Out
    <2>4. \A b \in Admins : Creates(b, q)' => Creates(b, q)
      BY <1>c DEF Creates
    <2>5. AnswerSound(q)'
      BY <1>b, <2>1, <2>3, <2>4 DEF AnswerSound
    <2> QED
      BY <2>2, <2>5
  <1>6. up' = "refused" => stranded' # {}
    BY DEF PkiInv
  <1> QED
    BY <1>1, <1>3, <1>4, <1>5, <1>6 DEF PkiInv

(* revoke and download look at the row and the files first. *)
LEMMA ChecksInv ==
    ASSUME PkiInv, NEW a \in Admins, NEW p \in Pairs, RevokeCheck(a, p) \/ DownloadCheck(a, p)
    PROVE  PkiInv'
  <1>1. /\ adm[a].at = "idle" /\ rows[p].status # "absent"
        /\ UNCHANGED <<rows, files, key, minted, answered, stranded, marking, up, liveVars>>
    BY DEF RevokeCheck, DownloadCheck, Begin, Active, diskVars, ghosts
  <1>2. CASE RevokeCheck(a, p)
    <2>1. PICK m \in AdmType : /\ m.at = "unserve" /\ m.op = "revoke" /\ m.pair = p /\ m.built = {}
                               /\ adm' = [adm EXCEPT ![a] = m]
      <3> DEFINE m == [IdleAdm EXCEPT !.at = "unserve", !.op = "revoke", !.pair = p]
      <3>1. m \in AdmType /\ m.at = "unserve" /\ m.op = "revoke" /\ m.pair = p /\ m.built = {}
        BY IdleFacts DEF AdmType, Revoking
      <3>2. adm' = [adm EXCEPT ![a] = m]
        BY <1>2 DEF RevokeCheck
      <3> HIDE DEF m
      <3> QED
        BY <3>1, <3>2
    <2> QED
      BY <1>1, <2>1, TakesUp
  <1>3. CASE DownloadCheck(a, p)
    <2>1. PICK m \in AdmType : /\ m.at = "consume" /\ m.op = "download" /\ m.pair = p /\ m.built = {}
                               /\ adm' = [adm EXCEPT ![a] = m]
      <3> DEFINE m == [IdleAdm EXCEPT !.at = "consume", !.op = "download", !.pair = p]
      <3>1. m \in AdmType /\ m.at = "consume" /\ m.op = "download" /\ m.pair = p /\ m.built = {}
        BY IdleFacts DEF AdmType, Downloading
      <3>2. adm' = [adm EXCEPT ![a] = m]
        BY <1>3 DEF DownloadCheck
      <3> HIDE DEF m
      <3> QED
        BY <3>1, <3>2
    <2> QED
      BY <1>1, <2>1, TakesUp
  <1> QED
    BY <1>2, <1>3

(* A creation begins, with an id that nobody has: whatever becomes of its files, no other
   pair changes, and no task has this one. *)
LEMMA GenerateInv == ASSUME PkiInv, NEW a \in Admins, NEW p \in Pairs, Generate(a, p) PROVE PkiInv'
  <1>a. /\ adm[a].at = "idle" /\ p \notin minted /\ minted' = minted \cup {p}
        /\ UNCHANGED <<rows, answered, stranded, marking, up, liveVars>>
        /\ UNCHANGED <<certs, pairs_by_server, roots, inner, revoked>>
    BY DEF Generate, Begin, liveVars
  <1>b. /\ files \in [Pairs -> {"none", "part", "whole"}] /\ key \in [Pairs -> BOOLEAN]
        /\ rows \in [Pairs -> RowType] /\ adm \in [Admins -> AdmType]
    BY DEF PkiInv, PkiTypeOK
  <1>c. Young(p)
    BY <1>a DEF PkiInv, RowSound
  <1>d. \A b \in Admins : adm[b].pair # p
    <2> SUFFICES ASSUME NEW b \in Admins, adm[b].pair = p PROVE FALSE
      OBVIOUS
    <2>1. TaskShape(adm[b]) /\ TaskSound(adm[b])
      BY DEF PkiInv
    <2>2. adm[b].at # "idle"
      BY <2>1, IdleFacts, PkiAssumption DEF TaskShape
    <2> QED
      BY <1>a, <2>1, <2>2 DEF TaskSound
  <1>e. /\ files' \in [Pairs -> {"none", "part", "whole"}] /\ key' \in [Pairs -> BOOLEAN]
        /\ \A q \in Pairs \ {p} : files'[q] = files[q] /\ key'[q] = key[q]
    BY <1>b DEF Generate
  <1>f. PICK m \in AdmType : /\ adm' = [adm EXCEPT ![a] = m]
                             /\ m = IdleAdm \/ (m.at = "insert" /\ m.op = "create" /\ m.pair = p /\ files'[p] = "whole")
                             /\ m.built = {}
    <2>1. CASE adm' = adm
      <3>1. adm[a] = IdleAdm
        BY <1>a DEF PkiInv, TaskShape
      <3>2. adm' = [adm EXCEPT ![a] = IdleAdm]
        BY <1>b, <2>1, <3>1
      <3> QED
        BY <3>2, IdleFacts
    <2>2. CASE /\ adm' = [adm EXCEPT ![a] = [IdleAdm EXCEPT !.at = "insert", !.op = "create", !.pair = p]]
               /\ files' = [files EXCEPT ![p] = "whole"]
      <3> DEFINE m == [IdleAdm EXCEPT !.at = "insert", !.op = "create", !.pair = p]
      <3>1. m \in AdmType /\ m.at = "insert" /\ m.op = "create" /\ m.pair = p /\ m.built = {}
        BY IdleFacts DEF AdmType, Creating
      <3>2. adm' = [adm EXCEPT ![a] = m] /\ files'[p] = "whole"
        BY <1>b, <2>2
      <3> HIDE DEF m
      <3> QED
        BY <3>1, <3>2
    <2> QED
      BY <2>1, <2>2 DEF Generate
  <1>g. \A b \in Admins : adm'[b] = IF b = a THEN m ELSE adm[b]
    BY <1>b, <1>f
  <1>h. None \notin Pairs /\ IdleAdm.pair = None /\ IdleAdm.at = "idle"
    BY IdleFacts, PkiAssumption
  <1>1. PkiTypeOK'
    BY <1>a, <1>b, <1>e, <1>f DEF PkiInv, PkiTypeOK
  <1>2. ASSUME NEW q \in Pairs, Young(q) PROVE Young(q)'
    <2>1. \A b \in Admins : q \notin adm'[b].built /\ (adm'[b].pair = q => adm'[b].op = "create")
      BY <1>2, <1>f, <1>g, <1>h DEF Young
    <2> QED
      BY <1>a, <1>2, <2>1 DEF Young
  <1>3. ASSUME NEW b \in Admins PROVE TaskShape(adm[b])' /\ TaskSound(adm[b])'
    <2>1. CASE b = a
      <3>1. TaskShape(m) /\ TaskSound(m)'
        <4>1. CASE m = IdleAdm
          BY <4>1, IdleFacts
        <4>2. CASE m.at = "insert" /\ m.op = "create" /\ m.pair = p /\ files'[p] = "whole"
          <5>1. TaskShape(m)
            BY <1>f, <4>2 DEF TaskShape, Creating, Building, Revoking, Downloading
          <5>2. Young(p)' /\ p \in minted'
            BY <1>a, <1>c, <1>2
          <5> QED
            BY <4>2, <5>1, <5>2 DEF TaskSound
        <4> QED
          BY <1>f, <4>1, <4>2
      <3> QED
        BY <1>g, <2>1, <3>1 DEF TaskShape, TaskSound
    <2>2. CASE b # a
      <3>1. adm'[b] = adm[b] /\ TaskShape(adm[b]) /\ TaskSound(adm[b]) /\ adm[b].pair # p
        BY <1>d, <1>g, <2>2 DEF PkiInv
      <3>2. adm[b].at = "insert" => Young(adm[b].pair)'
        BY <1>2, <3>1 DEF TaskSound, TaskShape
      <3>3. adm[b].at # "idle" => adm[b].pair \in Pairs /\ files'[adm[b].pair] = files[adm[b].pair]
        BY <1>e, <3>1 DEF TaskShape
      <3>4. TaskSound(adm[b])'
        BY <1>a, <3>1, <3>2, <3>3 DEF TaskSound
      <3> QED
        BY <3>1, <3>4 DEF TaskShape
    <2> QED
      BY <2>1, <2>2
  <1>4. OneCreator'
    BY <1>d, <1>f, <1>g, <1>h DEF PkiInv, OneCreator, Creates
  <1>5. ASSUME NEW q \in Pairs PROVE RowSound(q)' /\ AnswerSound(q)'
    <2>1. RowSound(q) /\ AnswerSound(q)
      BY DEF PkiInv
    <2>2. CASE q = p
      <3>1. rows'[p] = NoRow /\ Young(p)' /\ p \in minted'
        BY <1>a, <1>c, <1>2 DEF Young
      <3> QED
        BY <2>2, <3>1 DEF RowSound, AnswerSound, Young
    <2>3. CASE q # p
      <3>1. RowSound(q)'
        BY <1>a, <1>e, <1>2, <2>1, <2>3 DEF RowSound
      <3>2. Out(q) => Out(q)'
        BY <1>a, <1>f, <1>g, <1>h, <2>3 DEF Out
      <3>3. \A b \in Admins : Creates(b, q)' => Creates(b, q)
        BY <1>f, <1>g, <1>h, <2>3 DEF Creates
      <3>4. AnswerSound(q)'
        BY <1>a, <1>e, <2>1, <2>3, <3>2, <3>3 DEF AnswerSound
      <3> QED
        BY <3>1, <3>4
    <2> QED
      BY <2>2, <2>3
  <1>6. up' = "refused" => stranded' # {}
    BY <1>a DEF PkiInv
  <1> QED
    BY <1>1, <1>3, <1>4, <1>5, <1>6 DEF PkiInv

-----------------------------------------------------------------------------
(* A connection is let in, or a certificate expires: nothing of the invariant is about
   what these change, but for the type of marking. *)
LEMMA EntryInv ==
    ASSUME PkiInv, NEW p \in Pairs, NEW n \in Names, Connect(p, n) \/ Expire(p)
    PROVE  PkiInv'
  <1>1. /\ UNCHANGED <<rows, files, key, liveVars, minted, answered, stranded, adm, up>>
        /\ UNCHANGED <<certs, pairs_by_server, roots, inner, revoked>>
    BY DEF Connect, Expire, diskVars, liveVars, ghosts
  <1>2. marking' \in Pairs \cup {None}
    BY DEF PkiInv, PkiTypeOK, Connect, Expire
  <1>3. PkiTypeOK'
    BY <1>1, <1>2 DEF PkiInv, PkiTypeOK
  <1>4. \A q \in Pairs : (Young(q)' <=> Young(q)) /\ (Out(q)' <=> Out(q))
    BY <1>1 DEF Young, Out
  <1>5. ASSUME NEW a \in Admins PROVE TaskShape(adm[a])' /\ TaskSound(adm[a])'
    <2>1. TaskShape(adm[a]) /\ TaskSound(adm[a])
      BY DEF PkiInv
    <2>2. adm[a].at = "insert" => Young(adm[a].pair)'
      BY <1>1, <1>4, <2>1 DEF TaskSound, TaskShape
    <2> QED
      BY <1>1, <2>1, <2>2 DEF TaskShape, TaskSound
  <1>6. OneCreator'
    BY <1>1 DEF PkiInv, OneCreator, Creates
  <1>7. ASSUME NEW q \in Pairs PROVE RowSound(q)' /\ AnswerSound(q)'
    <2>1. RowSound(q) /\ AnswerSound(q)
      BY DEF PkiInv
    <2> QED
      BY <1>1, <1>4, <2>1 DEF RowSound, AnswerSound, Creates
  <1>8. up' = "refused" => stranded' # {}
    BY <1>1 DEF PkiInv
  <1> QED
    BY <1>3, <1>5, <1>6, <1>7, <1>8 DEF PkiInv

(* The connection is recorded, perhaps long after: a row that is gone or revoked by now
   stays so. *)
LEMMA MarkInv == ASSUME PkiInv, Mark PROVE PkiInv'
  <1>p. PICK p \in Pairs : p = marking
    BY DEF Mark, PkiInv, PkiTypeOK
  <1>a. /\ UNCHANGED <<files, key, liveVars, minted, answered, stranded, adm, up>> /\ marking' = None
        /\ UNCHANGED <<certs, pairs_by_server, roots, inner, revoked>>
    BY DEF Mark, liveVars, ghosts
  <1>b. rows \in [Pairs -> RowType] /\ rows[p] \in RowType
    BY DEF PkiInv, PkiTypeOK
  <1>c. rows' = [rows EXCEPT ![p].status = IF @ \in {"waiting", "connected"} THEN "connected" ELSE @]
    BY <1>p DEF Mark
  <1>d. rows'[p] = [rows[p] EXCEPT !.status = IF @ \in {"waiting", "connected"} THEN "connected" ELSE @]
    BY <1>b, <1>c
  <1>e. /\ rows'[p] \in RowType /\ rows'[p].downloaded = rows[p].downloaded
        /\ rows'[p].status = IF rows[p].status \in {"waiting", "connected"} THEN "connected" ELSE rows[p].status
    BY <1>b, <1>d DEF RowType
  <1>f. rows' \in [Pairs -> RowType] /\ \A q \in Pairs : q # p => rows'[q] = rows[q]
    BY <1>b, <1>c, <1>d, <1>e
  <1>1. ASSUME NEW q \in Pairs
        PROVE  /\ rows'[q].downloaded = rows[q].downloaded
               /\ rows'[q].status \in {"absent", "revoked"} <=> rows[q].status \in {"absent", "revoked"}
               /\ rows'[q].status = "absent" <=> rows[q].status = "absent"
               /\ rows'[q] = NoRow <=> rows[q] = NoRow
    <2>1. CASE q # p
      BY <1>f, <2>1
    <2>2. CASE q = p
      <3>1. \A r \in RowType : r = NoRow <=> r.status = "absent" /\ ~r.downloaded
        BY DEF RowType, NoRow
      <3>2. /\ rows'[p] = NoRow <=> rows'[p].status = "absent" /\ ~rows'[p].downloaded
            /\ rows[p] = NoRow <=> rows[p].status = "absent" /\ ~rows[p].downloaded
        BY <1>b, <1>e, <3>1
      <3>3. /\ rows'[p].status \in {"absent", "revoked"} <=> rows[p].status \in {"absent", "revoked"}
            /\ rows'[p].status = "absent" <=> rows[p].status = "absent"
        BY <1>b, <1>e DEF RowType
      <3> QED
        BY <1>e, <2>2, <3>1, <3>2, <3>3
    <2> QED
      BY <2>1, <2>2
  <1>2. PkiTypeOK'
    BY <1>a, <1>f DEF PkiInv, PkiTypeOK
  <1>3. \A q \in Pairs : (Young(q)' <=> Young(q)) /\ (Out(q)' <=> Out(q))
    BY <1>a, <1>1 DEF Young, Out
  <1>4. ASSUME NEW a \in Admins PROVE TaskShape(adm[a])' /\ TaskSound(adm[a])'
    <2>1. TaskShape(adm[a]) /\ TaskSound(adm[a])
      BY DEF PkiInv
    <2>2. adm[a].at = "insert" => Young(adm[a].pair)'
      BY <1>a, <1>3, <2>1 DEF TaskSound, TaskShape
    <2>3. adm[a].at # "idle" =>
             /\ rows'[adm[a].pair] = NoRow <=> rows[adm[a].pair] = NoRow
             /\ rows'[adm[a].pair].downloaded = rows[adm[a].pair].downloaded
      BY <1>1, <2>1 DEF TaskShape
    <2>4. TaskSound(adm[a])'
      BY <1>a, <2>1, <2>2, <2>3 DEF TaskSound
    <2> QED
      BY <1>a, <2>1, <2>4 DEF TaskShape
  <1>5. OneCreator'
    BY <1>a DEF PkiInv, OneCreator, Creates
  <1>6. ASSUME NEW q \in Pairs PROVE RowSound(q)' /\ AnswerSound(q)'
    <2>1. RowSound(q) /\ AnswerSound(q)
      BY DEF PkiInv
    <2> QED
      BY <1>a, <1>1, <1>3, <2>1 DEF RowSound, AnswerSound, Creates
  <1>7. up' = "refused" => stranded' # {}
    BY <1>a DEF PkiInv
  <1> QED
    BY <1>2, <1>4, <1>5, <1>6, <1>7 DEF PkiInv

(* The process dies wherever its tasks are.  The next one loads the active rows: the CA of
   a revoked pair is not among them, so forgetting the refused certificates does no harm. *)
LEMMA RestartInv == ASSUME PkiInv, Restart PROVE PkiInv'
  <1> DEFINE load == {p \in Pairs : Active(p)}
  <1>a. /\ UNCHANGED <<rows, files, key, minted, answered, stranded>>
        /\ adm' = [a \in Admins |-> IdleAdm] /\ marking' = None /\ revoked' = {}
        /\ roots' = load /\ inner' = load
        /\ up' = IF \A p \in load : files[p] = "whole" THEN "running" ELSE "refused"
    BY DEF Restart, diskVars, ghosts
  <1>b. certs' \in [Names -> Pairs \cup {None}] /\ pairs_by_server' \in [Names -> Pairs \cup {None}]
    <2>1. PICK last \in [Names -> load \cup {None}] : certs' = last /\ pairs_by_server' = last
      BY DEF Restart
    <2> QED
      BY <2>1
  <1>c. \A a \in Admins : adm'[a] = IdleAdm
    BY <1>a
  <1>d. None \notin Pairs /\ IdleAdm.pair = None /\ IdleAdm.built = {} /\ IdleAdm.at = "idle"
    BY IdleFacts, PkiAssumption
  <1>1. PkiTypeOK'
    BY <1>a, <1>b, IdleFacts DEF PkiInv, PkiTypeOK
  <1>2. ASSUME NEW p \in Pairs, rows[p].status \in {"absent", "revoked"} PROVE Out(p)'
    <2>1. p \notin load
      BY <1>2 DEF Active
    <2> QED
      BY <1>a, <1>c, <1>d, <2>1 DEF Out
  <1>3. ASSUME NEW p \in Pairs, Young(p) PROVE Young(p)'
    <2>1. p \notin load
      BY <1>3 DEF Young, Active, NoRow
    <2> QED
      BY <1>a, <1>c, <1>d, <1>3, <2>1 DEF Young
  <1>4. ASSUME NEW a \in Admins PROVE TaskShape(adm[a])' /\ TaskSound(adm[a])'
    BY <1>c, IdleFacts DEF TaskShape, TaskSound
  <1>5. OneCreator'
    BY <1>c, <1>d DEF OneCreator, Creates
  <1>6. ASSUME NEW p \in Pairs PROVE RowSound(p)' /\ AnswerSound(p)'
    <2>1. RowSound(p) /\ AnswerSound(p)
      BY DEF PkiInv
    <2>2. \A a \in Admins : ~Creates(a, p)'
      BY <1>c, <1>d DEF Creates
    <2> QED
      BY <1>a, <1>2, <1>3, <2>1, <2>2 DEF RowSound, AnswerSound
  <1>7. ASSUME up' = "refused" PROVE stranded' # {}
    <2>1. PICK p \in Pairs : Active(p) /\ files[p] # "whole"
      BY <1>a, <1>7
    <2>2. rows[p] # NoRow /\ RowSound(p)
      BY <2>1 DEF Active, NoRow, PkiInv
    <2>3. p \in stranded
      BY <2>1, <2>2 DEF RowSound
    <2> QED
      BY <1>a, <2>3
  <1> QED
    BY <1>1, <1>4, <1>5, <1>6, <1>7 DEF PkiInv

-----------------------------------------------------------------------------
(* The invariant holds of an empty table ... *)
LEMMA PkiStart == Init => PkiInv
  <1> SUFFICES ASSUME Init PROVE PkiInv
    OBVIOUS
  <1>1. \A p \in Pairs : rows[p] = NoRow
    BY DEF Init
  <1>2. \A a \in Admins : adm[a] = IdleAdm
    BY DEF Init
  <1>3. None \notin Pairs /\ IdleAdm \in AdmType /\ IdleAdm = [at |-> "idle", op |-> None, pair |-> None, built |-> {}]
    BY IdleFacts, PkiAssumption DEF IdleAdm
  <1>4. NoRow \in RowType
    BY DEF NoRow, RowType
  <1>5. PkiTypeOK
    BY <1>3, <1>4 DEF Init, PkiTypeOK
  <1>6. \A p \in Pairs : Young(p)
    BY <1>1, <1>2, <1>3 DEF Init, Young
  <1>7. \A a \in Admins : TaskShape(adm[a]) /\ TaskSound(adm[a])
    BY <1>2, <1>3 DEF TaskShape, TaskSound, Creating, Building, Revoking, Downloading
  <1>8. OneCreator
    BY <1>2, <1>3 DEF OneCreator, Creates
  <1>9. \A p \in Pairs : RowSound(p) /\ AnswerSound(p)
    BY <1>1, <1>6 DEF Init, RowSound, AnswerSound
  <1> QED
    BY <1>5, <1>7, <1>8, <1>9 DEF PkiInv, Init

(* What PkiInv speaks of changes only in steps of Next. *)
LEMMA PkiStutter == ASSUME PkiInv, UNCHANGED vars PROVE PkiInv'
  BY DEF vars, diskVars, liveVars, ghosts, PkiInv, PkiTypeOK, TaskShape, TaskSound, OneCreator, Creates,
         RowSound, AnswerSound, Young, Out

(* ... every step keeps it ... *)
LEMMA PkiStep == PkiInv /\ [Next]_vars => PkiInv'
  <1> SUFFICES ASSUME PkiInv, [Next]_vars PROVE PkiInv'
    OBVIOUS
  <1>1. ASSUME NEW a \in Admins, AdminStep(a) PROVE PkiInv'
    <2>1. CASE \E p \in Pairs : Generate(a, p) \/ RevokeCheck(a, p) \/ DownloadCheck(a, p)
      BY <2>1, GenerateInv, ChecksInv
    <2>2. CASE AddRoot(a) \/ Serve(a) \/ NameIt(a) \/ Unserve(a) \/ RemoveRoot(a) \/ Ban(a) \/ Unname(a)
      BY <2>2, LocksInv
    <2>3. CASE Insert(a) \/ Rebuild(a) \/ Swap(a) \/ Resolvable(a)
      BY <2>3, InsertInv, RebuildInv, SwapInv, ResolvableInv
    <2>4. CASE DeleteRow(a) \/ RemoveFiles(a) \/ RevokeRow(a) \/ Consume(a) \/ RemoveKey(a)
      BY <2>4, DeleteRowInv, RemoveFilesInv, RevokeRowInv, ConsumeInv, RemoveKeyInv
    <2> QED
      BY <1>1, <2>1, <2>2, <2>3, <2>4 DEF AdminStep
  <1>2. ASSUME NEW p \in Pairs, NEW n \in Names, Connect(p, n) PROVE PkiInv'
    BY <1>2, EntryInv
  <1>3. ASSUME NEW p \in Pairs, Expire(p) PROVE PkiInv'
    BY <1>3, PkiAssumption, EntryInv
  <1> QED
    BY <1>1, <1>2, <1>3, MarkInv, RestartInv, PkiStutter DEF Next

(* ... and so it holds of every state. *)
LEMMA PkiInvariant == Spec => []PkiInv
  BY PkiStart, PkiStep, PTL DEF Spec

(* RevokedIsRefused for every number of pairs and of administrators' tasks: a certificate
   whose revocation was answered is refused, whatever verifier a creation that runs at the
   same time puts back (tls.rs add_ca, remove_ca), and after a restart, which forgets the
   set of refused certificates but reads the row that says revoked. *)
THEOREM RevokedStaysRefused == Spec => []RevokedIsRefused
  <1>1. PkiInv => RevokedIsRefused
    BY DEF PkiInv, AnswerSound, Out, RevokedIsRefused, Accepts
  <1> QED
    BY <1>1, PkiInvariant, PTL

(* StartLoads wherever creations, revocations and downloads die (service.rs load_active_pairs):
   a row is inserted after its files are whole and deleted before they are removed, so only
   the row whose DELETE failed can keep the gateway from starting. *)
THEOREM DiskStaysLoadable == Spec => []StartLoads
  <1>1. PkiInv => StartLoads
    BY DEF PkiInv, StartLoads
  <1> QED
    BY <1>1, PkiInvariant, PTL

(* AnsweredIsTrue: no interleaving of tasks, no late mark_connected, no failure and no
   restart takes back what create_pair, revoke or download answered (service.rs,
   storage/pki.rs). *)
THEOREM AnswersStayTrue == Spec => []AnsweredIsTrue
  <1>1. PkiInv => AnsweredIsTrue
    BY DEF PkiInv, AnswerSound, AnsweredIsTrue
  <1> QED
    BY <1>1, PkiInvariant, PTL
=============================================================================
