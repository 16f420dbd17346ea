----------------------------- MODULE Federation -----------------------------
(***************************************************************************)
(* Requests this server sends to other servers: finding out where a server *)
(* name lives (service/resolver: the cached destinations, the cached       *)
(* address overrides, .well-known, SRV and address lookups) and executing  *)
(* a request there (service/federation/execute.rs).  A slot is a task of   *)
(* this server working on one request of its `work` at a time.  Anything   *)
(* that must ask another server goes to pc "exec" with the pc to come back *)
(* to in `back`, and finds "ok" or "fail" in `res` when it is back.        *)
(*                                                                         *)
(* Ports and host headers are part of the name a destination stands for.   *)
(* The lookups, the connection and the other server are external: they may *)
(* fail while `left.faults` lasts, and the records may change (Move).      *)
(***************************************************************************)
EXTENDS Integers, Sequences, FiniteSets

CONSTANTS
    Slots,          \* tasks
    Names,          \* server names and host names
    Literals,       \* the names that are IP addresses (their own address)
    Denied,         \* the literals outside the permitted ranges
    Ported,         \* the names that carry a port
    Ours,           \* this server's name
    Forbidden,      \* the names the moderation configuration refuses
    Worlds,         \* sequence of [Names -> [wk, srv, ip]]: what lookups say
    None            \* no name, no address

\* There is a world, and what records point to are names.
ASSUME WorldsAssumption ==
    /\ Len(Worlds) \in Nat \ {0}
    /\ \A i \in 1 .. Len(Worlds) : \A n \in Names : {Worlds[i][n].wk, Worlds[i][n].srv} \subseteq Names \cup {None}

VARIABLES
    slot,           \* slot[s]: what task s is doing
    dests,          \* table servername_destination
    overrides,      \* table servername_override
    era,            \* the world that lookups and servers are in now
    left            \* what the environment may still do

fedVars == <<dests, overrides, era>>

World == Worlds[era]

Earlier(a, b) == IF a < b THEN a ELSE b

\* Where a host is, and where a server is, if everything is looked up in w.
AtHost(w, h) == IF h \in Literals THEN h
                ELSE IF h \in Ported \/ w[h].srv = None THEN w[h].ip
                ELSE w[w[h].srv].ip

Home(w, n) == IF n \in Literals \cup Ported \/ w[n].wk = None THEN AtHost(w, n)
              ELSE AtHost(w, w[n].wk)

-----------------------------------------------------------------------------
(* Tasks *)

Start(work) == [work |-> work, job |-> None, pc |-> "done", back |-> "done", res |-> "ok",
                to |-> None, from |-> 0, name |-> None, tgt |-> None, poor |-> FALSE,
                addr |-> None,
                plan |-> <<>>, miss |-> {}, ask |-> {}, docs |-> {}, row |-> None,
                seen |-> {}, bad |-> FALSE,
                key |-> None, keys |-> {}, mxcs |-> {}]

\* q with the fields that r names changed.
Update(q, r) == [f \in DOMAIN q |-> IF f \in DOMAIN r THEN r[f] ELSE q[f]]

\* Task s changes the fields that r names.
Set(s, r) == slot' = [slot EXCEPT ![s] = Update(@, r)]

At(s, pc) == slot[s].pc = pc

\* A request ends with r; nothing of it is kept but the answer.
Finish(s, r) ==
    slot' = [slot EXCEPT ![s] = Update(Start(@.work), [job |-> @.job, res |-> r, seen |-> @.seen])]

\* The next request of the task's work, as r sets it up.
Take(s, r) ==
    slot' = [slot EXCEPT ![s] =
                Update(Update(Start(Tail(@.work)), [job |-> Head(@.work)]), r)]

HasWork(s, ops) == At(s, "done") /\ slot[s].work # <<>> /\ Head(slot[s].work).op \in ops

Spend(f) == left[f] > 0 /\ left' = [left EXCEPT ![f] = @ - 1]

-----------------------------------------------------------------------------
(* The resolver's tables.  A row carries the era of the oldest information *)
(* it was made from, and whether it is poor: a .well-known request failed, *)
(* or the tables were cleared, while it was being made.                    *)

NoRow == [to |-> None, ip |-> None, valid |-> FALSE, era |-> 0, poor |-> FALSE]

\* Without the expiry check: any row counts.
has_override_Expired(n) == overrides[n].era # 0

has_override(n) == overrides[n].valid

-----------------------------------------------------------------------------
(* Execution *)

\* The end of execute_on: back to the caller.
Return(s, r) == Set(s, [pc |-> slot[s].back, res |-> r, from |-> 0, name |-> None,
                        tgt |-> None, poor |-> FALSE, addr |-> None, to |-> None])

is_remote_server_forbidden(n) == n \in Forbidden \ {Ours}

\* validate_dest and validate_ip: neither this server nor an address out of range.
validate_dest(n) == n # Ours /\ n \notin Denied

get_destination(n) == dests[n].valid

\* resolve_actual_dest: a literal is its own destination, a name with a port is looked up
\* as it is, any other may be delegated.
resolve_actual_dest(s, n) ==
    IF ~validate_dest(n) THEN Return(s, "fail")
    ELSE Set(s, IF n \in Literals THEN [pc |-> "store", from |-> era, name |-> n]
                ELSE IF n \in Ported THEN [pc |-> "ip", from |-> era, name |-> n, tgt |-> n]
                ELSE [pc |-> "wk", from |-> era])

\* lookup_actual_dest: a valid cached destination is used, otherwise the name is resolved.
\* The guard `_dedup` is a future nobody awaits: it locks nothing.
lookup_actual_dest(s, n) ==
    IF get_destination(n)
    THEN Set(s, [pc |-> "connect", name |-> dests[n].to, poor |-> dests[n].poor,
                 from |-> Earlier(era, dests[n].era)])
    ELSE resolve_actual_dest(s, n)

\* execute_on, to the destination, a server name.
ExecuteOn(s) ==
    /\ At(s, "exec") /\ slot[s].to \in Names
    /\ IF is_remote_server_forbidden(slot[s].to) THEN Return(s, "fail")
       ELSE lookup_actual_dest(s, slot[s].to)
    /\ UNCHANGED <<fedVars, left>>

\* actual_dest_3: where a delegated name is looked up.
Delegated(d) == IF d \in Literals THEN [pc |-> "store", name |-> d]
                ELSE IF d \in Ported THEN [pc |-> "ip", name |-> d, tgt |-> d]
                ELSE [pc |-> "srv", name |-> d]

\* request_well_known: any failure of the request is taken for "no delegation".
RequestWellKnown(s) ==
    /\ At(s, "wk")
    /\ LET wk == World[slot[s].to].wk
           undelegated(poor) == Set(s, [pc |-> "srv", name |-> slot[s].to, poor |-> poor]) IN
       \/ wk # None /\ Set(s, Delegated(wk)) /\ UNCHANGED left
       \/ wk = None /\ undelegated(FALSE) /\ UNCHANGED left
       \/ wk # None /\ undelegated(TRUE) /\ Spend("faults")
    /\ UNCHANGED fedVars

\* handle_resolve_error: a failed lookup fails the request.
ResolveError(s) == Return(s, "fail") /\ Spend("faults")

\* query_srv_record: no record is an answer, a failed lookup is an error.
QuerySrv(s) ==
    /\ At(s, "srv")
    /\ \/ LET t == World[slot[s].name].srv IN
          Set(s, [pc |-> "ip", tgt |-> IF t = None THEN slot[s].name ELSE t])
          /\ UNCHANGED left
       \/ ResolveError(s)
    /\ UNCHANGED fedVars

\* The information a task rests on gets as old as the valid override it keeps.
Aged(s, n) == IF overrides[n].valid THEN Earlier(slot[s].from, overrides[n].era)
              ELSE slot[s].from

\* conditional_query_and_cache_override: a present override is kept, whatever the target
\* is now; otherwise the target's addresses are looked up and stored.
QueryOverride(s) ==
    /\ At(s, "ip")
    /\ LET n == slot[s].name
           ip == World[slot[s].tgt].ip IN
       IF has_override(n)
       THEN Set(s, [pc |-> "store", from |-> Aged(s, n)]) /\ UNCHANGED <<overrides, left>>
       ELSE \/ /\ Set(s, [pc |-> "store"])
               /\ overrides' = IF ip = None THEN overrides
                               ELSE [overrides EXCEPT ![n] =
                                        [to |-> slot[s].tgt, ip |-> ip, valid |-> TRUE,
                                         era |-> slot[s].from, poor |-> FALSE]]
               /\ UNCHANGED left
            \/ ResolveError(s) /\ UNCHANGED overrides
    /\ UNCHANGED <<dests, era>>

\* The end of lookup_actual_dest (set_destination); then into_http_request and sign_request.
SetDestination(s) ==
    /\ At(s, "store")
    /\ dests' = [dests EXCEPT ![slot[s].to] =
                    [to |-> slot[s].name, ip |-> None, valid |-> TRUE,
                     era |-> slot[s].from, poor |-> slot[s].poor]]
    /\ Set(s, [pc |-> "connect", tgt |-> None])
    /\ UNCHANGED <<overrides, era, left>>

\* hooked_resolve: the address the connection goes to.
HookedResolve(n) ==
    IF n \in Literals THEN n
    ELSE IF overrides[n].valid THEN overrides[n].ip
    ELSE IF overrides[n].to \notin {None, n} THEN World[overrides[n].to].ip
    ELSE World[n].ip

\* prepare and perform up to the connection.
Perform(s) ==
    /\ At(s, "connect")
    /\ LET n == slot[s].name IN
       IF n \in Denied \/ HookedResolve(n) = None THEN Return(s, "fail")
       ELSE Set(s, [pc |-> "sent", addr |-> HookedResolve(n),
                    from |-> IF n \in Literals THEN slot[s].from ELSE Aged(s, n)])
    /\ UNCHANGED <<fedVars, left>>

\* handle_response or handle_error.
Response(s) ==
    /\ At(s, "sent")
    /\ \/ slot[s].addr = Home(World, slot[s].to) /\ Return(s, "ok") /\ UNCHANGED left
       \/ slot[s].addr # Home(World, slot[s].to) /\ Return(s, "fail") /\ UNCHANGED left
       \/ Return(s, "fail") /\ Spend("faults")
    /\ UNCHANGED fedVars

FedStep(s) == \/ ExecuteOn(s) \/ RequestWellKnown(s) \/ QuerySrv(s) \/ QueryOverride(s)
              \/ SetDestination(s) \/ Perform(s) \/ Response(s)

-----------------------------------------------------------------------------
(* The environment *)

Resolving == {"wk", "srv", "ip", "store", "connect"}

\* CachedDest::valid and CachedOverride::valid turn false with time: rows live for hours
\* (default_expire), so none expires while a request is being resolved.
Expire ==
    /\ \A s \in Slots : slot[s].pc \notin Resolving
    /\ \/ \E n \in Names : dests[n].valid /\ dests' = [dests EXCEPT ![n].valid = FALSE]
                           /\ UNCHANGED overrides
       \/ \E n \in Names : overrides[n].valid
                           /\ overrides' = [overrides EXCEPT ![n].valid = FALSE]
                           /\ UNCHANGED dests
    /\ Spend("expiries")
    /\ UNCHANGED <<slot, era>>

\* The operator clears the resolver's tables, also of the rows a request in flight relies on.
ClearCache ==
    /\ dests' = [n \in Names |-> NoRow] /\ overrides' = [n \in Names |-> NoRow]
    /\ \E n \in Names : dests[n] # NoRow
    /\ slot' = [s \in Slots |-> IF slot[s].pc \in Resolving THEN Update(slot[s], [poor |-> TRUE])
                                ELSE slot[s]]
    /\ Spend("expiries")
    /\ UNCHANGED era

\* A server moves, or changes the keys it publishes.
Move == era < Len(Worlds) /\ era' = era + 1 /\ Spend("moves")
        /\ UNCHANGED <<slot, dests, overrides>>

FedEnv == Expire \/ ClearCache \/ Move

FedInit == era = 1 /\ dests = [n \in Names |-> NoRow] /\ overrides = [n \in Names |-> NoRow]

-----------------------------------------------------------------------------
\* A request that rests on nothing older than the present, whatever lies in the two caches,
\* goes to where its server is now (a server whose .well-known could not be read, tables
\* cleared under the request and a server without an address set aside):
\* lookup_actual_dest, has_override and hooked_resolve never keep using a row after it has
\* expired.
ReachesHome ==
    \A s \in Slots :
        At(s, "sent") /\ slot[s].from = era /\ ~slot[s].poor /\ Home(World, slot[s].to) # None
        => slot[s].addr = Home(World, slot[s].to)
=============================================================================
