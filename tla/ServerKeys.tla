----------------------------- MODULE ServerKeys -----------------------------
(***************************************************************************)
(* The signing keys of other servers (service/server_keys): an event is    *)
(* verified with the keys of the servers that signed it, taken from the    *)
(* table server_signingkeys or asked for, from the server itself and from  *)
(* the trusted servers (notaries), and every key document received is      *)
(* merged into the table by a read and a later write.                      *)
(*                                                                         *)
(* A job "verify" is validate_and_add_event_id of one event; a job "join"  *)
(* is what a join does with the events of a send_join response: acquire    *)
(* all the keys first, then verify without fetching.  `need` is the set of *)
(* <<server, key id>> pairs the event or the events are signed with.       *)
(***************************************************************************)
EXTENDS Federation

CONSTANTS
    Published,      \* Published[era][server]: the [cur, old] keys the server publishes
    Notaries,       \* sequence of trusted servers
    NotaryHas,      \* NotaryHas[notary][server]: the keys the notary hands out
    NotaryFirst,    \* query_trusted_key_servers_first
    NotaryOnly,     \* only_query_trusted_key_servers
    FirstOnJoin,    \* query_trusted_key_servers_first_on_join
    BatchSize       \* trusted_server_batch_size

VARIABLE keys       \* table server_signingkeys: server -> [cur, old] key ids

NoKeys == [cur |-> {}, old |-> {}]

\* verify_keys_for and verify_key_exists: the current and the old keys of a document.
merge_old_keys(d) == d.cur \cup d.old

\* The old keys forgotten.
extract_key_Current(d) == d.cur

\* extract_key and key_exists.
extract_key(d) == d.cur \cup d.old

Stored(n) == n[2] \in merge_old_keys(keys[n[1]])

Origins(need) == {n[1] : n \in need}

Verifying(s) == slot[s].job.op = "verify"

\* The key get_verify_key is after.
Current(s) == CHOOSE n \in slot[s].miss : TRUE

-----------------------------------------------------------------------------
(* get_event_keys and get_verify_key *)

\* Who is asked for one key, in order; "origin" is the server whose key it is.
Sources == LET origin == IF NotaryOnly THEN <<>> ELSE <<"origin">> IN
           IF NotaryFirst THEN Notaries \o origin ELSE origin \o Notaries

\* One key of the event after the other, from the table if it is there; then
\* ruma::signatures::verify_event, which fails if a key is not in the map.
GetVerifyKey(s) ==
    /\ At(s, "need")
    /\ IF slot[s].miss = {}
       THEN Finish(s, IF slot[s].bad THEN "rejected" ELSE "verified")
       ELSE LET n == CHOOSE n \in slot[s].miss : TRUE IN
            IF Stored(n) THEN Set(s, [miss |-> slot[s].miss \ {n}, seen |-> slot[s].seen \cup {n}])
            ELSE Set(s, [pc |-> "ask", plan |-> Sources])
    /\ UNCHANGED <<fedVars, keys, left>>

\* get_verify_key_from_origin and get_verify_key_from_notaries: the next one is asked; when
\* nobody is left the key is missing from the map.
AskKey(s) ==
    /\ At(s, "ask")
    /\ IF slot[s].plan = <<>>
       THEN Set(s, [pc |-> "need", bad |-> TRUE, miss |-> slot[s].miss \ {Current(s)}])
       ELSE LET who == Head(slot[s].plan) IN
            Set(s, [pc |-> "exec", back |-> "keysresp", ask |-> {Current(s)[1]},
                    to |-> IF who = "origin" THEN Current(s)[1] ELSE who])
    /\ UNCHANGED <<fedVars, keys, left>>

-----------------------------------------------------------------------------
(* acquire_events_pubkeys *)

\* The stages of acquire_pubkeys.
Stages == LET origins == IF NotaryOnly THEN <<>> ELSE <<"origins">> IN
          IF NotaryFirst \/ FirstOnJoin THEN Notaries \o origins ELSE origins \o Notaries

\* acquire_locals: the keys that are not in the table.
AcquireLocals(s) ==
    /\ At(s, "locals")
    /\ LET miss == {n \in slot[s].job.need : ~Stored(n)} IN
       Set(s, [miss |-> miss, seen |-> slot[s].job.need \ miss, plan |-> Stages,
               pc |-> IF miss = {} THEN "check" ELSE "stage"])
    /\ UNCHANGED <<fedVars, keys, left>>

\* The next notary, or the origins, for what is still missing.
AcquireStage(s) ==
    /\ At(s, "stage")
    /\ Set(s, IF slot[s].plan = <<>> \/ slot[s].miss = {}
              THEN [pc |-> "check", plan |-> <<>>, ask |-> {}]
              ELSE [pc |-> "batch", ask |-> Origins(slot[s].miss)])
    /\ UNCHANGED <<fedVars, keys, left>>

\* batch_notary_request, one request for each batch of servers, or acquire_origin, the
\* requests to the origins being answered in any order.
AcquireBatch(s) ==
    /\ At(s, "batch")
    /\ LET who == Head(slot[s].plan)
           size == IF who = "origins" THEN 1
                   ELSE Earlier(BatchSize, Cardinality(slot[s].ask)) IN
       \E b \in SUBSET slot[s].ask :
        /\ Cardinality(b) = size
        /\ Set(s, [pc |-> "exec", back |-> "keysresp", row |-> b,
                   to |-> IF who = "origins" THEN CHOOSE o \in b : TRUE ELSE who])
    /\ UNCHANGED <<fedVars, keys, left>>

-----------------------------------------------------------------------------
(* What comes back *)

\* The documents `who` hands out for the servers in b; a server's own answer is dropped
\* when it names another server.
Documents(who, b) ==
    LET doc(o) == IF who \in {"origin", "origins"} THEN Published[era][o]
                  ELSE NotaryHas[who][o] IN
    {[of |-> o, keys |-> doc(o)] : o \in {o \in b : doc(o) # NoKeys}}

\* The request is over: the documents are taken; when a batch of a notary fails, all of
\* the notary's documents are lost.
KeysResponse(s) ==
    /\ At(s, "keysresp")
    /\ LET who == Head(slot[s].plan)
           b == IF Verifying(s) THEN slot[s].ask ELSE slot[s].row
           more == IF Verifying(s) THEN {} ELSE slot[s].ask \ b
           \* every other way to go on leaves this notary or finishes this origin
           onto == IF more = {} \/ who = "origins" THEN "addread" ELSE "batch" IN
       IF slot[s].res = "ok"
       THEN Set(s, [pc |-> onto, row |-> None, ask |-> more,
                    docs |-> slot[s].docs \cup Documents(who, b)])
       ELSE Set(s, [pc |-> "addread", row |-> None, docs |-> {},
                    ask |-> IF who = "origins" THEN more ELSE {}])
    /\ UNCHANGED <<fedVars, keys, left>>

\* add_signing_keys reads the row of the document's server ...
AddRead(s) ==
    /\ At(s, "addread") /\ slot[s].docs # {}
    /\ LET d == CHOOSE d \in slot[s].docs : TRUE IN Set(s, [pc |-> "addwrite", row |-> keys[d.of]])
    /\ UNCHANGED <<fedVars, keys, left>>

\* ... and writes it back with the document's keys added; then the keys that were missing
\* are looked for in the document.
AddWrite(s) ==
    /\ At(s, "addwrite")
    /\ LET d == CHOOSE d \in slot[s].docs : TRUE
           among == IF Verifying(s) THEN {Current(s)} ELSE slot[s].miss
           got == {n \in among : n[1] = d.of /\ n[2] \in extract_key(d.keys)}
           has == {n \in among : n[1] = d.of /\ n[2] \in d.keys.cur \cup d.keys.old} IN
       /\ keys' = [keys EXCEPT ![d.of] = [cur |-> slot[s].row.cur \cup d.keys.cur,
                                         old |-> slot[s].row.old \cup d.keys.old]]
       /\ Set(s, [docs |-> slot[s].docs \ {d}, miss |-> slot[s].miss \ got, row |-> None,
                  seen |-> slot[s].seen \cup has,
                  pc |-> IF Verifying(s) /\ got # {} THEN "need" ELSE "addread"])
    /\ UNCHANGED <<fedVars, left>>

\* All documents are in the table: on to the next origin, notary or source.
AddDone(s) ==
    /\ At(s, "addread") /\ slot[s].docs = {}
    /\ Set(s, IF ~Verifying(s) /\ slot[s].ask # {} THEN [pc |-> "batch"]
              ELSE [pc |-> IF Verifying(s) THEN "ask" ELSE "stage", ask |-> {},
                    plan |-> Tail(slot[s].plan)])
    /\ UNCHANGED <<fedVars, keys, left>>

-----------------------------------------------------------------------------
\* validate_and_add_event_id_no_fetch: required_keys_exist, then verify_event.
CheckRequired(s) ==
    /\ At(s, "check")
    /\ IF \A n \in slot[s].job.need : Stored(n)
       THEN Set(s, [pc |-> "need", miss |-> slot[s].job.need, seen |-> {},
                    job |-> [slot[s].job EXCEPT !.op = "verify"]])
       ELSE Finish(s, "dropped")
    /\ UNCHANGED <<fedVars, keys, left>>

\* validate_and_add_event_id, or the events of a join.
BeginKeys(s) ==
    /\ HasWork(s, {"verify", "join"})
    /\ LET j == Head(slot[s].work) IN
       Take(s, IF j.op = "verify" THEN [pc |-> "need", miss |-> j.need] ELSE [pc |-> "locals"])
    /\ UNCHANGED <<fedVars, keys, left>>

KeyStep(s) == \/ BeginKeys(s) \/ GetVerifyKey(s) \/ AskKey(s)
              \/ AcquireLocals(s) \/ AcquireStage(s) \/ AcquireBatch(s)
              \/ KeysResponse(s) \/ AddRead(s) \/ AddWrite(s) \/ AddDone(s)
              \/ CheckRequired(s)

KeyInit == keys = [n \in Names |-> NoKeys]

-----------------------------------------------------------------------------
\* The merge of a key document into the table is a read and a later write ("Not atomic, but
\* this is not critical", server_keys/mod.rs): another task's keys may be lost from the
\* table, but no event that is verified with fetching is rejected for it: a rejected event
\* has a key that the task found neither in the table nor in any document it received,
\* among the current and the old ones.
RejectedOnlyUnknown ==
    \A s \in Slots : At(s, "done") /\ slot[s].res = "rejected"
                     => \E n \in slot[s].job.need : n \notin slot[s].seen
=============================================================================
