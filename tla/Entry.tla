------------------------------- MODULE Entry -------------------------------
(***************************************************************************)
(* The public entry (http/entry.rs), the admission of a request            *)
(* (http/admission.rs, metrics/admission.rs) and the preparation of a      *)
(* proxied one (proxy/prepare.rs, tenant_limits.rs): what a request holds  *)
(* on its way - the permit of its connection, the ticket of its route      *)
(* class, the slot of its tenant - and every way of giving it back.  The   *)
(* ticket lives until the response body has ended, the slot moves to the   *)
(* forwarding task (module RequestPath) and ends with that.  Around it the *)
(* request is counted once, with a status or as aborted                    *)
(* (http/observability.rs).  Rates and logins are limited in Limiters.     *)
(***************************************************************************)
EXTENDS Naturals, FiniteSets

CONSTANTS
    Conns,              \* connections clients make
    MaxConnections,     \* max_connections, 0 without a limit
    GatedLimits,        \* values of max_concurrent_requests, 0 without a limit
    ProbeLimit,         \* MAX_CONCURRENT_PROBES
    ScrapeLimit,        \* MAX_CONCURRENT_SCRAPES
    TenantLimits,       \* values a tenant's max_concurrent_requests takes, 0 without a limit
    Tls,                \* the entry speaks https
    MaxRequests,        \* bound on the requests of all connections
    None

Classes  == {"Gated", "Probe", "Scrape"}
Counters == 1 .. 2      \* a tenant is deleted once: its counter, and one made after that

ASSUME EntryAssumption ==
    /\ MaxConnections \in Nat /\ ProbeLimit \in Nat \ {0} /\ ScrapeLimit \in Nat \ {0}
    /\ GatedLimits \subseteq Nat /\ TenantLimits \subseteq Nat
    /\ Tls \in BOOLEAN /\ MaxRequests \in Nat
    /\ IsFiniteSet(Conns)
    /\ None \notin Conns /\ None \notin Classes /\ None \notin Counters

VARIABLES
    loop,               \* serve_entry: "acquire", "accept", "backoff" or "stopped"
    permits,            \* free permits of the connection limiter
    conn,               \* per connection: where it is, the ticket and the slot it holds, the
                        \* counter it is about to enter
    gated_limit,        \* max_concurrent_requests of this gateway
    entered, active,    \* active_gated, active_probe and active_scrape; active
    tenant,             \* "enabled", "disabled", "deleting" or "deleted"
    counter,            \* the counter in the TenantLimiter's map, None without an entry
    counts,             \* per counter: its value, also when it is no longer in the map
    relays,             \* per counter: forwarding tasks that hold a slot of it
    phase,              \* "running", "draining", "closed" when the controller is dropped
    metrics             \* requests seen at all; request_count, the statuses recorded, aborted

entryVars  == <<loop, permits>>
ticketVars == <<entered, active, gated_limit>>
tenantVars == <<tenant, counter, counts, relays>>
vars       == <<entryVars, ticketVars, tenantVars, conn, phase, metrics>>

NoConn == [at |-> "none", ticket |-> None, slot |-> None, found |-> None]
Gone   == [NoConn EXCEPT !.at = "done"]

(* connection_limiter: more permits than there are connections stand for MAX_PERMITS *)
Permits == IF MaxConnections = 0 THEN Cardinality(Conns) + 1 ELSE MaxConnections

Init ==
    /\ loop = "acquire" /\ permits = Permits
    /\ conn = [c \in Conns |-> NoConn]
    /\ gated_limit \in GatedLimits
    /\ entered = [k \in Classes |-> 0] /\ active = 0
    /\ tenant = "enabled" /\ counter = None
    /\ counts = [n \in Counters |-> 0] /\ relays = counts
    /\ phase = "running"
    /\ metrics = [seen |-> 0, count |-> 0, recorded |-> 0, aborted |-> 0]

-----------------------------------------------------------------------------
(* the accept loop *)

AcquireConnection ==
    /\ loop = "acquire" /\ permits > 0
    /\ loop' = "accept" /\ permits' = permits - 1
    /\ UNCHANGED <<ticketVars, tenantVars, conn, phase, metrics>>

(* the permit goes to the task of the connection *)
Accept(c) ==
    /\ loop = "accept" /\ conn[c].at = "none"
    /\ conn' = [conn EXCEPT ![c].at = IF Tls THEN "handshake" ELSE "head"]
    /\ loop' = "acquire"
    /\ UNCHANGED <<permits, ticketVars, tenantVars, phase, metrics>>

AcceptFails ==
    /\ loop = "accept"
    /\ permits' = permits + 1 /\ loop' = "backoff"
    /\ UNCHANGED <<ticketVars, tenantVars, conn, phase, metrics>>

BackoffEnds ==
    /\ loop = "backoff"
    /\ loop' = "acquire"
    /\ UNCHANGED <<permits, ticketVars, tenantVars, conn, phase, metrics>>

(* shutdown.changed() interrupts every wait of the loop; its connections are detached *)
StopAccepting ==
    /\ phase # "running" /\ loop # "stopped"
    /\ permits' = permits + (IF loop = "accept" THEN 1 ELSE 0)
    /\ loop' = "stopped"
    /\ UNCHANGED <<ticketVars, tenantVars, conn, phase, metrics>>

-----------------------------------------------------------------------------
(* what a connection gives back *)

(* Drop for TenantSlot *)
DropSlot(c) ==
    counts' = [n \in Counters |-> IF n = conn[c].slot THEN counts[n] - 1 ELSE counts[n]]

(* Drop for Admission; a scrape is not counted among the active requests *)
DropTicket(c) ==
    /\ entered' = [k \in Classes |-> IF k = conn[c].ticket THEN entered[k] - 1 ELSE entered[k]]
    /\ active' = active - (IF conn[c].ticket \in {"Gated", "Probe"} THEN 1 ELSE 0)

(* the handler of c is between its admission and its answer; /metrics is not counted *)
Handling(c) ==
    conn[c].at \in {"json", "handle", "auth", "enter", "count", "body", "work"} /\ conn[c].ticket # "Scrape"

(* Drop for AbortGuard: no status was recorded *)
RecordAborted(c) == metrics' = [metrics EXCEPT !.aborted = @ + (IF Handling(c) THEN 1 ELSE 0)]

(* request_id_middleware, after the handler returned *)
RecordStatus(c) == metrics' = [metrics EXCEPT !.recorded = @ + (IF Handling(c) THEN 1 ELSE 0)]

(* the task ends and drops the handler or the body it was polling *)
End(c) ==
    /\ DropSlot(c) /\ DropTicket(c) /\ RecordAborted(c)
    /\ permits' = permits + 1
    /\ conn' = [conn EXCEPT ![c] = Gone]
    /\ UNCHANGED <<loop, gated_limit, tenant, counter, relays, phase>>

(* mutant of Refuse: an early return keeps the slot *)
RefuseKeepsSlot(c) ==
    /\ RecordStatus(c)
    /\ conn' = [conn EXCEPT ![c].at = "respond", ![c].slot = None, ![c].found = None]
    /\ UNCHANGED <<entryVars, ticketVars, tenant, counter, counts, relays, phase>>

(* an early return of prepare, or an error answer of the attempts *)
Refuse(c) ==
    /\ DropSlot(c) /\ RecordStatus(c)
    /\ conn' = [conn EXCEPT ![c].at = "respond", ![c].slot = None, ![c].found = None]
    /\ UNCHANGED <<entryVars, ticketVars, tenant, counter, relays, phase>>

Goto(c, stage) ==
    /\ conn' = [conn EXCEPT ![c].at = stage]
    /\ UNCHANGED <<entryVars, ticketVars, tenantVars, phase, metrics>>

-----------------------------------------------------------------------------
(* a request on its connection *)

Handshake(c) == conn[c].at = "handshake" /\ Goto(c, "head")

Limit(k) ==
    CASE k = "Gated" -> gated_limit
      [] k = "Probe" -> ProbeLimit
      [] k = "Scrape" -> ScrapeLimit

HasRoom(k) == Limit(k) = 0 \/ entered[k] < Limit(k)

(* admission_middleware: 429 without a ticket, counted and recorded; or a ticket.  Of the
   gated routes, the proxied ones go on to prepare; the others have a handler that answers
   by itself, as probes and scrapes do, many of them after they have read a JSON body (login,
   bootstrap, a new password, what the administrators create or change). *)
Request(c, k) ==
    LET counted == IF k = "Scrape" THEN 0 ELSE 1 IN
    /\ conn[c].at = "head" /\ metrics.seen < MaxRequests
    /\ \/ /\ ~HasRoom(k)
          /\ conn' = [conn EXCEPT ![c].at = "respond"]
          /\ metrics' = [metrics EXCEPT !.seen = @ + 1, !.count = @ + counted, !.recorded = @ + counted]
          /\ UNCHANGED <<entered, active>>
       \/ /\ HasRoom(k)
          /\ entered' = [entered EXCEPT ![k] = @ + 1] /\ active' = active + counted
          /\ metrics' = [metrics EXCEPT !.seen = @ + 1, !.count = @ + counted]
          /\ \E stage \in {"handle"} \cup (IF k = "Gated" THEN {"auth", "json"} ELSE {}) :
                conn' = [conn EXCEPT ![c].at = stage, ![c].ticket = k]
    /\ UNCHANGED <<entryVars, gated_limit, tenantVars, phase>>

(* The Json extractor in front of a handler: the body is whole, or it is not what the handler
   takes.  No timer bounds this wait, only the client ends it. *)
JsonArrives(c) == conn[c].at = "json" /\ (Goto(c, "handle") \/ Refuse(c))

(* a handler that is not proxied, and has its body if it takes one, returns its answer *)
Answer(c) ==
    /\ conn[c].at = "handle"
    /\ RecordStatus(c)
    /\ conn' = [conn EXCEPT ![c].at = "respond"]
    /\ UNCHANGED <<entryVars, ticketVars, tenantVars, phase>>

(* authenticate, and prepare's own look at the tenant *)
Authenticate(c) ==
    /\ conn[c].at = "auth"
    /\ \/ tenant = "enabled" /\ Goto(c, "enter")
       \/ Refuse(c)

(* TenantLimiter::try_enter with the limit of the record that was read.  The counter is
   looked up or made under the lock of the map ... *)
TryEnter(c) ==
    /\ conn[c].at = "enter"
    /\ \/ 0 \in TenantLimits /\ Goto(c, "body")
       \/ LET mine == IF counter # None THEN counter ELSE IF tenant = "deleted" THEN 2 ELSE 1 IN
          /\ TenantLimits # {0}
          /\ counter' = mine
          /\ conn' = [conn EXCEPT ![c].at = "count", ![c].found = mine]
          /\ UNCHANGED <<entryVars, ticketVars, tenant, counts, relays, phase, metrics>>

(* ... and counts afterwards, when it may have been taken out of the map *)
FetchUpdate(c) ==
    /\ conn[c].at = "count"
    /\ \E limit \in TenantLimits \ {0} :
          \/ /\ counts[conn[c].found] < limit
             /\ counts' = [counts EXCEPT ![conn[c].found] = @ + 1]
             /\ conn' = [conn EXCEPT ![c].at = "body", ![c].slot = conn[c].found, ![c].found = None]
             /\ UNCHANGED <<entryVars, ticketVars, tenant, counter, relays, phase, metrics>>
          \/ counts[conn[c].found] >= limit /\ Refuse(c)

(* read_body_with_stall: the body is whole, and it is a request; or it is refused (a path
   that cannot be forwarded, too large, broken off, not JSON with a model) *)
BodyArrives(c) == conn[c].at = "body" /\ (Goto(c, "work") \/ Refuse(c))

(* the attempts and the head, in module RequestPath: the slot moves to the forwarding task *)
Forwarded(c) ==
    /\ conn[c].at = "work"
    /\ relays' = [n \in Counters |-> IF n = conn[c].slot THEN relays[n] + 1 ELSE relays[n]]
    /\ RecordStatus(c)
    /\ conn' = [conn EXCEPT ![c].at = "stream", ![c].slot = None]
    /\ UNCHANGED <<entryVars, ticketVars, tenant, counter, counts, phase>>

AttemptsFail(c) == conn[c].at = "work" /\ Refuse(c)

(* the body of the response has ended and was written; the connection is kept alive *)
BodyEnds(c) ==
    /\ conn[c].at \in {"respond", "stream"}
    /\ DropTicket(c)
    /\ conn' = [conn EXCEPT ![c].at = "head", ![c].ticket = None]
    /\ UNCHANGED <<entryVars, gated_limit, tenantVars, phase, metrics>>

(* mutant of Stall: nothing bounds the handshake *)
StallAfterHandshake(c) ==
    \/ conn[c].at = "body" /\ Refuse(c)
    \/ conn[c].at \in {"head", "respond", "stream"} /\ End(c)

(* A client that is silent for client_stall: the timeout around the handshake, the one of
   hyper around the head of a request, the one around each piece of the body of a proxied
   request (read_body_with_stall; no other body has one), WriteStall. *)
Stall(c) ==
    \/ conn[c].at = "body" /\ Refuse(c)
    \/ conn[c].at \in {"handshake", "head", "respond", "stream"} /\ End(c)

(* The client hangs up, the handshake or the protocol fails, or the gateway is dropped. *)
Disconnect(c) == conn[c].at \notin {"none", "done"} /\ End(c)

(* a forwarding task ends and drops its slot *)
RelayEnds(n) ==
    /\ relays[n] > 0
    /\ relays' = [relays EXCEPT ![n] = @ - 1]
    /\ counts' = [counts EXCEPT ![n] = @ - 1]
    /\ UNCHANGED <<entryVars, ticketVars, tenant, counter, conn, phase, metrics>>

-----------------------------------------------------------------------------
(* an administrator disables the tenant, enables it again, deletes it *)
SetTenant(s) ==
    /\ tenant \in {"enabled", "disabled"} /\ s # tenant
    /\ tenant' = s
    /\ UNCHANGED <<entryVars, ticketVars, counter, counts, relays, conn, phase, metrics>>

(* TenantLimiter::evict, after the record is gone; slots that are held keep their counter *)
Evict ==
    /\ tenant = "deleting"
    /\ tenant' = "deleted" /\ counter' = None
    /\ UNCHANGED <<entryVars, ticketVars, counts, relays, conn, phase, metrics>>

Advance ==
    /\ phase # "closed"
    /\ phase' = IF phase = "running" THEN "draining" ELSE "closed"
    /\ UNCHANGED <<entryVars, ticketVars, tenantVars, conn, metrics>>

GatewayStep(c) ==
    \/ Answer(c) \/ Authenticate(c) \/ TryEnter(c) \/ FetchUpdate(c) \/ Forwarded(c) \/ AttemptsFail(c)

Next ==
    \/ AcquireConnection \/ AcceptFails \/ BackoffEnds \/ StopAccepting
    \/ \E c \in Conns :
          \/ Accept(c) \/ Handshake(c) \/ (\E k \in Classes : Request(c, k)) \/ BodyArrives(c) \/ JsonArrives(c)
          \/ GatewayStep(c) \/ BodyEnds(c) \/ Stall(c) \/ Disconnect(c)
    \/ \E n \in Counters : RelayEnds(n)
    \/ \E s \in {"enabled", "disabled", "deleting"} : SetTenant(s)
    \/ Evict \/ Advance

(* The loop's task and the handlers run, and the timers fire; what waits for the client
   without a timer ("json") has no fairness.  Forwarding tasks end
   (RequestPath!TaskEnds) and with them the responses, so that a connection that is not
   hung up by its client is left alone by it at last. *)
Fairness ==
    /\ WF_vars(AcquireConnection) /\ WF_vars(BackoffEnds) /\ WF_vars(StopAccepting)
    /\ \A c \in Conns : WF_vars(Stall(c)) /\ WF_vars(GatewayStep(c))
    /\ \A n \in Counters : WF_vars(RelayEnds(n))

Spec == Init /\ [][Next]_vars /\ Fairness

-----------------------------------------------------------------------------
(* The identity the operators use to find requests that leaked: what was counted is what
   has a recorded status, what was aborted before, and the handlers that still run - once
   each, whether a request is refused at the gate, answered, forwarded, or dropped by a
   hang-up at any point (observability.rs, metrics/mod.rs, README). *)
RequestsAreAccounted ==
    metrics.count = metrics.recorded + metrics.aborted + Cardinality({c \in Conns : Handling(c)})

(* Nothing is lost and nothing is given back twice: the free permits, the tickets of each
   class and the value of each tenant counter are what the connections and forwarding
   tasks that live leave of them, through every early return, hang-up, failed accept, and
   the deletion of the tenant while its requests run; so no limit is ever exceeded, and
   the counters of requests add up (entry.rs, admission.rs, tenant_limits.rs, prepare.rs). *)
SlotsAreExact ==
    /\ RequestsAreAccounted
    /\ permits + Cardinality({c \in Conns : conn[c].at \notin {"none", "done"}})
             + (IF loop = "accept" THEN 1 ELSE 0) = Permits
    /\ \A k \in Classes :
          /\ entered[k] = Cardinality({c \in Conns : conn[c].ticket = k})
          /\ Limit(k) # 0 => entered[k] <= Limit(k)
    /\ active = entered["Gated"] + entered["Probe"]
    /\ \A n \in Counters :
          /\ counts[n] = relays[n] + Cardinality({c \in Conns : conn[c].slot = n})
          /\ \E limit \in TenantLimits \cup {0} : counts[n] <= limit

(* The connections whose client owes a handler its JSON body. *)
Owing == {c \in Conns : conn[c].at = "json"}

(* Clients that stay silent in the handshake, the head, the body of a proxied request or
   while a response is written cannot keep the entry from accepting: unless every permit
   is held by a client that owes a handler its JSON body, it always comes back to accept,
   until it is told to stop (serve_entry acquires its permit before it accepts; the stall
   timers return it). *)
EntryListens == []<>(loop \in {"accept", "stopped"} \/ Cardinality(Owing) = Permits)

(* Every wait for a client has an upper bound, the reading of a request's body among them,
   so that none of them holds its connection for ever (DESIGN.md 157-161, io_stall.rs 31):
   the entry always comes back to accept.  The Json extractors have none. *)
SilentClientsCannotClose == []<>(loop \in {"accept", "stopped"})
=============================================================================
