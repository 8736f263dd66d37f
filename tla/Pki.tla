-------------------------------- MODULE Pki --------------------------------
(***************************************************************************)
(* Credential pairs (pki/, storage/pki.rs, http/admin_pki): each pair has a *)
(* CA of its own, a server half that the tunnel entry serves by SNI and a  *)
(* client half that an agent downloads.  A pair lives in four places - its *)
(* files, its row, the resolver and the client verifier - that no lock     *)
(* holds together, so one step here is one lock, one statement or one      *)
(* change of the file system.  Certificates are the pairs they belong to:  *)
(* random_id and the generated keys never repeat.                          *)
(***************************************************************************)
EXTENDS Naturals, FiniteSets

CONSTANTS
    Pairs,          \* pairs by id
    Names,          \* server names
    ServerName,     \* per pair: the server_name its creator asks for
    Admins,         \* blocking tasks of the admin API
    MaxOps,         \* bound on the operations of administrators
    MaxFaults,      \* bound on failing statements and file operations
    None

ASSUME PkiAssumption ==
    /\ MaxOps \in Nat /\ MaxFaults \in Nat
    /\ ServerName \in [Pairs -> Names]
    /\ None \notin Pairs \cup Names

VARIABLES
    rows,           \* pki_credentials: status and downloaded_at of a pair, "absent" without a row
    files, key,     \* directory of a pair: none, part or whole of it; client.key is there
    certs, pairs_by_server,     \* per server name: whose certificate is served; whose name it is
    roots, inner, revoked,      \* PkiClientVerifier: CAs, the CAs the verifier was built from, refused
    expired,        \* pairs whose client_not_after has passed
    adm,            \* where each administrator's task is
    marking,        \* pair whose connection the accept loop is about to record
    up,             \* "running", or "refused" when PkiService::new failed
    ops, faults,    \* how many there were
    minted,         \* ids that were drawn
    answered,       \* <<operation, pair>> that were answered with success
    stranded        \* pairs whose failed creation could not delete their row

diskVars == <<rows, files, key, expired>>
liveVars == <<certs, pairs_by_server, roots, inner, revoked>>
ghosts   == <<minted, answered, stranded>>
vars     == <<diskVars, liveVars, ghosts, adm, marking, up, ops, faults>>

NoRow    == [status |-> "absent", downloaded |-> FALSE]
IdleAdm  == [at |-> "idle", op |-> None, pair |-> None, built |-> {}]

Init ==
    /\ rows = [p \in Pairs |-> NoRow]
    /\ files = [p \in Pairs |-> "none"] /\ key = [p \in Pairs |-> FALSE]
    /\ certs = [n \in Names |-> None] /\ pairs_by_server = [n \in Names |-> None]
    /\ roots = {} /\ inner = {} /\ revoked = {} /\ expired = {}
    /\ adm = [a \in Admins |-> IdleAdm] /\ marking = None
    /\ up = "running" /\ ops = 0 /\ faults = 0 /\ minted = {} /\ answered = {} /\ stranded = {}

(* active_records: waiting or connected, and not past client_not_after *)
Active(p) == rows[p].status \in {"waiting", "connected"} /\ p \notin expired

Goto(a, s) == adm' = [adm EXCEPT ![a].at = s]
Fail(a)    == adm' = [adm EXCEPT ![a] = IdleAdm]
Answer(a)  == Fail(a) /\ answered' = answered \cup {<<adm[a].op, adm[a].pair>>}
Begin(a)   == up = "running" /\ adm[a].at = "idle" /\ ops < MaxOps /\ ops' = ops + 1
Fault      == faults < MaxFaults /\ faults' = faults + 1
MyPair(a)  == adm[a].pair
MyName(a)  == ServerName[adm[a].pair]

-----------------------------------------------------------------------------
(* create_pair *)

(* The names are well formed and no active pair uses them.  Then generate_pair, whose id is
   new, and write_pair, in a directory nobody knows of yet: when a file fails, the
   directory is removed if it can be. *)
Generate(a, p) ==
    /\ Begin(a)
    /\ p \notin minted /\ minted' = minted \cup {p}
    /\ ~ \E q \in Pairs : Active(q) /\ ServerName[q] = ServerName[p]
    /\ \/ /\ files' = [files EXCEPT ![p] = "whole"]
          /\ key' = [key EXCEPT ![p] = TRUE]
          /\ adm' = [adm EXCEPT ![a] = [IdleAdm EXCEPT !.at = "insert", !.op = "create", !.pair = p]]
          /\ UNCHANGED faults
       \/ /\ Fault
          /\ files' \in {files, [files EXCEPT ![p] = "part"]}
          /\ UNCHANGED <<key, adm>>
    /\ UNCHANGED <<rows, expired, liveVars, answered, stranded, marking, up>>

(* the files are read back and the row is inserted; either may fail *)
Insert(a) ==
    /\ adm[a].at = "insert"
    /\ \/ /\ rows' = [rows EXCEPT ![MyPair(a)] = [NoRow EXCEPT !.status = "waiting"]]
          /\ Goto(a, "add_ca") /\ UNCHANGED faults
       \/ Fault /\ Goto(a, "rmdir") /\ UNCHANGED rows
    /\ UNCHANGED <<files, key, expired, liveVars, ghosts, marking, up, ops>>

(* add_ca: the CA of a new pair is never among the roots yet *)
AddRoot(a) ==
    /\ adm[a].at = "add_ca"
    /\ roots' = roots \cup {MyPair(a)}
    /\ Goto(a, "rebuild")
    /\ UNCHANGED <<diskVars, ghosts, certs, pairs_by_server, inner, revoked, marking, up, ops, faults>>

(* the read lock under which both add_ca and remove_ca build a new verifier *)
Rebuild(a) ==
    /\ adm[a].at = "rebuild"
    /\ \/ adm' = [adm EXCEPT ![a].at = "swap", ![a].built = roots] /\ UNCHANGED faults
       \/ Fault /\ IF adm[a].op = "create" THEN Goto(a, "delete") ELSE Fail(a)
    /\ UNCHANGED <<diskVars, liveVars, ghosts, marking, up, ops>>

Swap(a) ==
    /\ adm[a].at = "swap"
    /\ inner' = adm[a].built
    /\ adm' = [adm EXCEPT ![a].at = IF adm[a].op = "create" THEN "serve" ELSE "ban",
                          ![a].built = {}]
    /\ UNCHANGED <<diskVars, ghosts, certs, pairs_by_server, roots, revoked, marking, up, ops, faults>>

Serve(a) ==
    /\ adm[a].at = "serve"
    /\ certs' = [certs EXCEPT ![MyName(a)] = MyPair(a)]
    /\ Goto(a, "name")
    /\ UNCHANGED <<diskVars, ghosts, pairs_by_server, roots, inner, revoked, marking, up, ops, faults>>

NameIt(a) ==
    /\ adm[a].at = "name"
    /\ pairs_by_server' = [pairs_by_server EXCEPT ![MyName(a)] = MyPair(a)]
    /\ Goto(a, "resolvable")
    /\ UNCHANGED <<diskVars, ghosts, certs, roots, inner, revoked, marking, up, ops, faults>>

(* has_server: a revocation may have taken the name away again *)
Resolvable(a) ==
    /\ adm[a].at = "resolvable"
    /\ IF certs[MyName(a)] # None THEN Answer(a) ELSE Goto(a, "delete") /\ UNCHANGED answered
    /\ UNCHANGED <<diskVars, liveVars, minted, stranded, marking, up, ops, faults>>

(* mutant of DeleteRow: a creation that failed removes its files only *)
DeleteRowSkipped(a) ==
    /\ adm[a].at = "delete"
    /\ Goto(a, "rmdir")
    /\ UNCHANGED <<diskVars, ghosts, liveVars, marking, up, ops, faults>>

(* a creation that failed takes its row back; the error of the DELETE is ignored *)
DeleteRow(a) ==
    /\ adm[a].at = "delete"
    /\ \/ rows' = [rows EXCEPT ![MyPair(a)] = NoRow] /\ UNCHANGED <<stranded, faults>>
       \/ Fault /\ stranded' = stranded \cup {MyPair(a)} /\ UNCHANGED rows
    /\ Goto(a, "rmdir")
    /\ UNCHANGED <<files, key, expired, minted, answered, liveVars, marking, up, ops>>

(* remove_pair: an error of remove_dir_all, which may have removed some of it, is ignored *)
RemoveFiles(a) ==
    /\ adm[a].at = "rmdir"
    /\ \/ /\ files' = [files EXCEPT ![MyPair(a)] = "none"]
          /\ key' = [key EXCEPT ![MyPair(a)] = FALSE]
          /\ UNCHANGED faults
       \/ /\ Fault
          /\ files' \in {files, [files EXCEPT ![MyPair(a)] = "part"]}
          /\ key' \in {key, [key EXCEPT ![MyPair(a)] = FALSE]}
    /\ Fail(a)
    /\ UNCHANGED <<rows, expired, liveVars, ghosts, marking, up, ops>>

-----------------------------------------------------------------------------
(* revoke *)

RevokeCheck(a, p) ==
    /\ Begin(a)
    /\ rows[p].status \notin {"absent", "revoked"} /\ files[p] = "whole"
    /\ adm' = [adm EXCEPT ![a] = [IdleAdm EXCEPT !.at = "unserve", !.op = "revoke", !.pair = p]]
    /\ UNCHANGED <<diskVars, liveVars, ghosts, marking, up, faults>>

(* by server name, whosever certificate it serves by now *)
Unserve(a) ==
    /\ adm[a].at = "unserve"
    /\ certs' = [certs EXCEPT ![MyName(a)] = None]
    /\ Goto(a, "remove_ca")
    /\ UNCHANGED <<diskVars, ghosts, pairs_by_server, roots, inner, revoked, marking, up, ops, faults>>

RemoveRoot(a) ==
    /\ adm[a].at = "remove_ca"
    /\ roots' = roots \ {MyPair(a)}
    /\ Goto(a, "rebuild")
    /\ UNCHANGED <<diskVars, ghosts, certs, pairs_by_server, inner, revoked, marking, up, ops, faults>>

(* mutant of Ban: only the CA is withdrawn *)
BanByCaOnly(a) ==
    /\ adm[a].at = "ban"
    /\ Goto(a, "unname")
    /\ UNCHANGED <<diskVars, ghosts, liveVars, marking, up, ops, faults>>

Ban(a) ==
    /\ adm[a].at = "ban"
    /\ revoked' = revoked \cup {MyPair(a)}
    /\ Goto(a, "unname")
    /\ UNCHANGED <<diskVars, ghosts, certs, pairs_by_server, roots, inner, marking, up, ops, faults>>

Unname(a) ==
    /\ adm[a].at = "unname"
    /\ pairs_by_server' = [pairs_by_server EXCEPT ![MyName(a)] = None]
    /\ Goto(a, "revoke_row")
    /\ UNCHANGED <<diskVars, ghosts, certs, roots, inner, revoked, marking, up, ops, faults>>

(* the row last; a row that is gone or revoked by now is success as well *)
RevokeRow(a) ==
    /\ adm[a].at = "revoke_row"
    /\ \/ /\ rows' = [rows EXCEPT ![MyPair(a)].status = IF @ = "absent" THEN @ ELSE "revoked"]
          /\ Answer(a) /\ UNCHANGED faults
       \/ Fault /\ Fail(a) /\ UNCHANGED <<rows, answered>>
    /\ UNCHANGED <<files, key, expired, minted, stranded, liveVars, marking, up, ops>>

-----------------------------------------------------------------------------
(* download *)

(* revoked, expired and consumed are refused, and so is a pair without client.key *)
DownloadCheck(a, p) ==
    /\ Begin(a)
    /\ Active(p) /\ ~rows[p].downloaded /\ key[p] /\ files[p] = "whole"
    /\ adm' = [adm EXCEPT ![a] = [IdleAdm EXCEPT !.at = "consume", !.op = "download", !.pair = p]]
    /\ UNCHANGED <<diskVars, liveVars, ghosts, marking, up, faults>>

Consume(a) ==
    /\ adm[a].at = "consume"
    /\ \/ /\ rows' = [rows EXCEPT ![MyPair(a)].downloaded = rows[MyPair(a)] # NoRow]
          /\ Goto(a, "rmkey") /\ UNCHANGED faults
       \/ Fault /\ Fail(a) /\ UNCHANGED rows
    /\ UNCHANGED <<files, key, expired, liveVars, ghosts, marking, up, ops>>

(* only when client.key is gone is the bundle handed out *)
RemoveKey(a) ==
    /\ adm[a].at = "rmkey"
    /\ \/ key' = [key EXCEPT ![MyPair(a)] = FALSE] /\ Answer(a) /\ UNCHANGED faults
       \/ Fault /\ Fail(a) /\ UNCHANGED <<key, answered>>
    /\ UNCHANGED <<rows, files, expired, liveVars, minted, stranded, marking, up, ops>>

-----------------------------------------------------------------------------
(* the tunnel entry *)

(* verify_client_cert: the refused certificates, then the verifier, which knows the CAs it
   was built from, and the time *)
Accepts(p) == p \notin revoked /\ p \in inner \ expired

(* A client with the certificate of p is let in under the server name n.  mark_connected
   looks up whose name that is; the row is updated a step later. *)
Connect(p, n) ==
    /\ up = "running" /\ marking = None
    /\ Accepts(p) /\ certs[n] # None /\ pairs_by_server[n] # None
    /\ marking' = pairs_by_server[n]
    /\ UNCHANGED <<diskVars, liveVars, ghosts, adm, up, ops, faults>>

(* mutant of Mark: the status is not part of the condition *)
MarkAnyRow ==
    /\ marking # None
    /\ rows' = [rows EXCEPT ![marking].status = IF @ = "absent" THEN @ ELSE "connected"]
    /\ marking' = None
    /\ UNCHANGED <<files, key, expired, liveVars, ghosts, adm, up, ops, faults>>

(* WHERE status IN ('waiting','connected'): the pair may be revoked by now *)
Mark ==
    /\ marking # None
    /\ rows' = [rows EXCEPT ![marking].status =
                    IF @ \in {"waiting", "connected"} THEN "connected" ELSE @]
    /\ marking' = None
    /\ UNCHANGED <<files, key, expired, liveVars, ghosts, adm, up, ops, faults>>

-----------------------------------------------------------------------------
(* client_not_after passes; that of a revoked pair makes no difference *)
Expire(p) ==
    /\ Active(p)
    /\ expired' = expired \cup {p}
    /\ UNCHANGED <<rows, files, key, liveVars, ghosts, adm, marking, up, ops, faults>>

(* The process dies and starts again.  load_active_pairs reads the files of every active
   row, one after the other; one that cannot be read makes PkiService::new fail. *)
Restart ==
    LET load == {p \in Pairs : Active(p)} IN
    /\ adm' = [a \in Admins |-> IdleAdm] /\ marking' = None
    /\ revoked' = {}
    /\ \E last \in [Names -> load \cup {None}] :
          /\ \A n \in Names : LET mine == {p \in load : ServerName[p] = n} IN
                IF mine = {} THEN last[n] = None ELSE last[n] \in mine
          /\ certs' = last /\ pairs_by_server' = last
    /\ roots' = load /\ inner' = load
    /\ up' = IF \A p \in load : files[p] = "whole" THEN "running" ELSE "refused"
    /\ UNCHANGED <<diskVars, ghosts, ops, faults>>

AdminStep(a) ==
    \/ \E p \in Pairs : Generate(a, p) \/ RevokeCheck(a, p) \/ DownloadCheck(a, p)
    \/ Insert(a) \/ AddRoot(a) \/ Rebuild(a) \/ Swap(a)
    \/ Serve(a) \/ NameIt(a) \/ Resolvable(a) \/ DeleteRow(a) \/ RemoveFiles(a)
    \/ Unserve(a) \/ RemoveRoot(a) \/ Ban(a) \/ Unname(a) \/ RevokeRow(a)
    \/ Consume(a) \/ RemoveKey(a)

Next ==
    \/ \E a \in Admins : AdminStep(a)
    \/ \E p \in Pairs, n \in Names : Connect(p, n)
    \/ Mark
    \/ \E p \in Pairs : Expire(p)
    \/ Restart

Spec == Init /\ [][Next]_vars

-----------------------------------------------------------------------------
(* A client certificate whose revocation was answered with success is not accepted: not
   when a creation that runs at the same time puts a verifier built from an older set of
   CAs back, nor when the connection of an agent is recorded late, nor after a restart,
   which forgets the refused certificates (tls.rs add_ca, remove_ca, revoke). *)
RevokedIsRefused == \A p \in Pairs : <<"revoke", p>> \in answered => ~Accepts(p)

(* A crash at any point of a creation, a revocation or a download leaves a set of rows
   that the next start can load: no active row without its files.  The exception is the
   row a failed creation could not delete (service.rs:174, an ignored error). *)
StartLoads == up = "refused" => stranded # {}

(* What an administrator was told stays so, whatever runs at the same time and however
   often the process dies: a created pair keeps its row, a revoked one is not active, a
   downloaded one is consumed and its client.key is gone. *)
AnsweredIsTrue ==
    \A p \in Pairs :
        /\ <<"create", p>> \in answered => rows[p] # NoRow /\ files[p] = "whole"
        /\ <<"revoke", p>> \in answered => rows[p].status \in {"absent", "revoked"}
        /\ <<"download", p>> \in answered => (rows[p] = NoRow \/ rows[p].downloaded) /\ ~key[p]
=============================================================================
