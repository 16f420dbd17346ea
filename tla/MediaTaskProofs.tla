-------------------------- MODULE MediaTaskProofs ---------------------------
(***************************************************************************)
(* The tasks of the media repository and of the signing keys, each by      *)
(* itself, and the resolver they share: where a task is and what it holds  *)
(* at every step, and what the tables of the resolver say.  For any number *)
(* of tasks, any requests and any faults, crashes and restarts.            *)
(***************************************************************************)
EXTENDS MediaServer, TLAPS

(* Where a task is.                                                        *)
Out == {"exec", "wk", "srv", "ip", "store", "connect", "sent"}
GetPcs == {"search", "thumb", "thumborig", "read", "generate", "miss", "fetch", "fetched",
           "fetchedlegacy", "location", "unauth"}
KeyPcs == {"need", "ask", "locals", "stage", "batch", "keysresp", "addread", "addwrite", "check"}
PreviewPcs == {"prev", "prevlock", "prevask", "prevset", "prevdel"}
StorePcs == {"meta", "create", "write"}
DeletePcs == {"rm", "rm2", "rmrows"}

Gets == {"get", "legacyget", "fedget", "adminget", "thumb", "legacythumb", "fedthumb",
         "adminthumb"}

Fields == {"work", "job", "pc", "back", "res", "to", "from", "name", "tgt", "poor", "addr",
           "plan", "miss", "ask", "docs", "row", "seen", "bad", "key", "keys", "mxcs"}

InGet(q) == q.pc \in GetPcs \/ (q.pc \in Out /\ q.back # "keysresp")
InKeys(q) == q.pc \in KeyPcs \/ (q.pc \in Out /\ q.back = "keysresp")

(* A task is where its request takes it.                                   *)
Control(q) ==
  /\ DOMAIN q = Fields /\ q.work \in Seq(Requests)
  /\ q.pc \in Out => q.back \in {"fetched", "fetchedlegacy", "unauth", "keysresp"}
  /\ InGet(q) => q.job.op \in Gets /\ Valid(q.job) /\ ~ q.bad
  /\ q.pc \in {"thumb", "thumborig", "generate"} => q.job.op \in {"thumb", "legacythumb", "fedthumb"}
  /\ q.pc \in PreviewPcs \ {"prevdel"} => q.job.op = "preview" /\ Valid(q.job)
  /\ q.pc \in {"prev", "prevlock", "prevask", "meta", "create"} => ~ q.bad
  /\ q.pc \in StorePcs => q.job.op \in Gets \cup {"upload", "preview"} /\ Valid(q.job)
  /\ InKeys(q) => "op" \in DOMAIN q.job /\ "need" \in DOMAIN q.job

(* The keys a task stores or deletes are keys of its media.                *)
Holds(q) ==
  /\ q.pc = "generate" => q.key \in Keys /\ q.key[1] = q.job.mxc
  /\ q.pc \in StorePcs => q.key \in Keys /\ q.key[1] = q.job.mxc
  /\ q.pc \in DeletePcs => q.keys \subseteq Keys /\ \A k \in q.keys : k[1] = q.tgt
  /\ q.pc \in {"rm2", "rmrows"} => q.key \in q.keys

(* What is known of the keys of an event that is being verified.           *)
Verdict(q) ==
  /\ q.pc = "done" /\ q.res = "rejected" => \E n \in q.job.need : n \notin q.seen
  /\ InKeys(q) =>
       /\ q.pc \in {"need", "ask"} => q.job.op = "verify"
       /\ q.pc \in {"locals", "stage", "batch", "check"} => q.job.op # "verify"
       /\ q.job.op # "verify" => ~ q.bad
       /\ q.job.op = "verify" =>
            /\ q.miss \subseteq q.job.need /\ q.miss \cap q.seen = {}
            /\ q.bad => \E n \in q.job.need : n \notin q.miss /\ n \notin q.seen
            /\ q.pc # "need" => q.miss # {}

Local(q) == Control(q) /\ Holds(q) /\ Verdict(q)

(* A step of task s alone.                                                 *)
Alone(s) == slot' = [t \in Slots |-> slot'[t]] /\ \A t \in Slots : t # s => slot'[t] = slot[t]

LocalInv == slot = [t \in Slots |-> slot[t]] /\ \A s \in Slots : Local(slot[s])

LEMMA Updated ==
  ASSUME NEW q, DOMAIN q = Fields, NEW r, NEW p, p = Update(q, r)
  PROVE  /\ DOMAIN p = Fields
         /\ \A f \in Fields : p[f] = IF f \in DOMAIN r THEN r[f] ELSE q[f]
  BY Zenon DEF Update

LEMMA SetStep ==
  ASSUME LocalInv, NEW s \in Slots, NEW r, Set(s, r)
  PROVE  Alone(s) /\ slot'[s] = Update(slot[s], r)
  BY Zenon DEF Set, Alone, LocalInv

LEMMA Started ==
  ASSUME NEW work \in Seq(Requests), NEW q, q = Start(work)
  PROVE  Local(q) /\ q.pc = "done"
  BY Zenon DEF Start, Local, Control, Holds, Verdict, InGet, InKeys, Out, GetPcs, KeyPcs, PreviewPcs,
     StorePcs, DeletePcs, Fields

LEMMA FinishStep ==
  ASSUME LocalInv, NEW s \in Slots, NEW res, Finish(s, res),
         res = "rejected" => \E n \in slot[s].job.need : n \notin slot[s].seen
  PROVE  Alone(s) /\ Local(slot'[s]) /\ slot'[s].pc = "done"
<1> DEFINE r == [job |-> slot[s].job, res |-> res, seen |-> slot[s].seen]
<1>1. PICK q : q = Start(slot[s].work)
  BY Zenon
<1>2. Alone(s) /\ slot'[s] = Update(q, r)
  BY Zenon, <1>1 DEF Finish, Alone, LocalInv
<1>3. Control(q) /\ q.pc = "done"
  BY Zenon, <1>1, Started DEF LocalInv, Local, Control
<1>4. PICK n : n = Update(q, r)
  BY Zenon
<1>5. /\ DOMAIN n = Fields /\ n.work = q.work /\ n.pc = "done" /\ n.res = res
      /\ n.job = slot[s].job /\ n.seen = slot[s].seen
  BY Zenon, <1>3, <1>4 DEF Update, Control, Fields
<1>6. Local(n)
  BY Zenon, <1>3, <1>5 DEF Local, Control, Holds, Verdict, InGet, InKeys, Out, GetPcs, KeyPcs,
     PreviewPcs, StorePcs, DeletePcs
<1> QED BY Zenon, <1>2, <1>4, <1>5, <1>6

-----------------------------------------------------------------------------
(* The steps of a request to another server.                               *)

LEMMA TravelStep ==
  ASSUME LocalInv, NEW s \in Slots, slot[s].pc \in Out, NEW r, Set(s, r),
         DOMAIN r \subseteq {"pc", "res", "from", "name", "tgt", "poor", "addr", "to"},
         "pc" \in DOMAIN r, r.pc \in Out \cup {slot[s].back}
  PROVE  Alone(s) /\ Local(slot'[s]) /\ slot'[s].pc \in Out \cup {slot[s].back}
<1>1. PICK q : q = slot[s]
  BY Zenon
<1>2. PICK n : n = Update(q, r)
  BY Zenon
<1>3. Local(q) /\ q.pc \in Out
  BY Zenon, <1>1 DEF LocalInv
<1>4. DOMAIN n = Fields /\ \A f \in Fields : n[f] = IF f \in DOMAIN r THEN r[f] ELSE q[f]
  BY <1>2, <1>3, Updated DEF Local, Control
<1>5. /\ n.work = q.work /\ n.job = q.job /\ n.back = q.back /\ n.bad = q.bad /\ n.key = q.key
      /\ n.keys = q.keys /\ n.miss = q.miss /\ n.seen = q.seen /\ n.pc \in Out \cup {q.back}
  BY <1>1, <1>4 DEF Fields
<1>6. Control(n)
  BY Zenon, <1>3, <1>4, <1>5 DEF Local, Control, InGet, InKeys, Out, GetPcs, KeyPcs, PreviewPcs, StorePcs
<1>7. Holds(n)
  BY Zenon, <1>3, <1>5 DEF Local, Control, Holds, Out, StorePcs, DeletePcs
<1>8. Verdict(n)
  BY Zenon, <1>3, <1>5 DEF Local, Control, Verdict, InKeys, Out, KeyPcs
<1> QED BY Zenon, <1>1, <1>2, <1>5, <1>6, <1>7, <1>8, SetStep DEF Local

LEMMA ReturnStep ==
  ASSUME LocalInv, NEW s \in Slots, slot[s].pc \in Out, NEW res, Return(s, res)
  PROVE  Alone(s) /\ Local(slot'[s]) /\ slot'[s].pc \in Out \cup {slot[s].back}
<1>1. PICK r : r = [pc |-> slot[s].back, res |-> res, from |-> 0, name |-> None,
                    tgt |-> None, poor |-> FALSE, addr |-> None, to |-> None]
  BY Zenon
<1>2. Set(s, r)
  BY Zenon, <1>1 DEF Return
<1>3. /\ DOMAIN r \subseteq {"pc", "res", "from", "name", "tgt", "poor", "addr", "to"}
      /\ "pc" \in DOMAIN r /\ r.pc = slot[s].back
  BY Zenon, <1>1
<1> QED BY Zenon, <1>2, <1>3, TravelStep

Going(r) ==
  /\ DOMAIN r \subseteq {"pc", "from", "name", "tgt", "poor", "addr"}
  /\ "pc" \in DOMAIN r /\ r.pc \in Out

LEMMA FedLocal ==
  ASSUME LocalInv, NEW s \in Slots, FedStep(s)
  PROVE  /\ Alone(s) /\ Local(slot'[s])
         /\ slot[s].pc \in Out /\ slot'[s].pc \in Out \cup {slot[s].back}
<1>1. slot[s].pc \in Out
  BY Zenon DEF FedStep, ExecuteOn, RequestWellKnown, QuerySrv, QueryOverride, SetDestination, Perform,
     Response, At, Out
<1>2. (\E res : Return(s, res)) \/ (\E r : Set(s, r) /\ Going(r))
  <2>1. CASE ExecuteOn(s)
    <3>1. CASE Return(s, "fail")
      BY Zenon, <3>1
    <3>2. CASE ~ Return(s, "fail")
      <4>1. PICK n : lookup_actual_dest(s, n)
        BY Zenon, <2>1, <3>2 DEF ExecuteOn
      <4>2. \/ \E name, poor, from :
                 Set(s, [pc |-> "connect", name |-> name, poor |-> poor, from |-> from])
            \/ \E from : Set(s, [pc |-> "store", from |-> from, name |-> n])
            \/ \E from : Set(s, [pc |-> "ip", from |-> from, name |-> n, tgt |-> n])
            \/ \E from : Set(s, [pc |-> "wk", from |-> from])
        <5>1. \/ Set(s, [pc |-> "connect", name |-> dests[n].to, poor |-> dests[n].poor,
                         from |-> Earlier(era, dests[n].era)])
              \/ resolve_actual_dest(s, n)
          BY Zenon, <4>1 DEF lookup_actual_dest
        <5>2. resolve_actual_dest(s, n) =>
              \/ Set(s, [pc |-> "store", from |-> era, name |-> n])
              \/ Set(s, [pc |-> "ip", from |-> era, name |-> n, tgt |-> n])
              \/ Set(s, [pc |-> "wk", from |-> era])
          BY Zenon, <3>2 DEF resolve_actual_dest
        <5> QED BY <5>1, <5>2, Zenon
      <4>3. ASSUME NEW name, NEW poor, NEW from
            PROVE  /\ Going([pc |-> "connect", name |-> name, poor |-> poor, from |-> from])
                   /\ Going([pc |-> "store", from |-> from, name |-> name])
                   /\ Going([pc |-> "ip", from |-> from, name |-> name, tgt |-> name])
                   /\ Going([pc |-> "wk", from |-> from])
        BY Zenon DEF Going, Out
      <4> QED BY <4>2, <4>3, Zenon
    <3> QED BY Zenon, <3>1, <3>2
  <2>2. CASE RequestWellKnown(s)
    <3>1. (\E d : Set(s, Delegated(d)))
          \/ (\E name, poor : Set(s, [pc |-> "srv", name |-> name, poor |-> poor]))
      BY Zenon, <2>2 DEF RequestWellKnown
    <3>2. ASSUME NEW d, NEW name, NEW poor
          PROVE  Going(Delegated(d)) /\ Going([pc |-> "srv", name |-> name, poor |-> poor])
      BY Zenon DEF Delegated, Going, Out
    <3> QED BY <3>1, <3>2, Zenon
  <2>3. CASE QuerySrv(s)
    <3>1. (\E t : Set(s, [pc |-> "ip", tgt |-> t])) \/ Return(s, "fail")
      BY Zenon, <2>3 DEF QuerySrv, ResolveError
    <3>2. ASSUME NEW t PROVE Going([pc |-> "ip", tgt |-> t])
      BY Zenon DEF Going, Out
    <3> QED BY <3>1, <3>2, Zenon
  <2>4. CASE QueryOverride(s)
    <3>1. \/ (\E from : Set(s, [pc |-> "store", from |-> from]))
          \/ Set(s, [pc |-> "store"]) \/ Return(s, "fail")
      BY Zenon, <2>4 DEF QueryOverride, ResolveError
    <3>2. ASSUME NEW from
          PROVE  Going([pc |-> "store", from |-> from]) /\ Going([pc |-> "store"])
      BY Zenon DEF Going, Out
    <3> QED BY <3>1, <3>2, Zenon
  <2>5. CASE SetDestination(s)
    <3>1. Set(s, [pc |-> "connect", tgt |-> None])
      BY Zenon, <2>5 DEF SetDestination
    <3>2. Going([pc |-> "connect", tgt |-> None])
      BY Zenon DEF Going, Out
    <3> QED BY <3>1, <3>2, Zenon
  <2>6. CASE Perform(s)
    <3>1. \/ Return(s, "fail")
          \/ \E addr, from : Set(s, [pc |-> "sent", addr |-> addr, from |-> from])
      BY Zenon, <2>6 DEF Perform
    <3>2. ASSUME NEW addr, NEW from PROVE Going([pc |-> "sent", addr |-> addr, from |-> from])
      BY Zenon DEF Going, Out
    <3> QED BY <3>1, <3>2, Zenon
  <2>7. CASE Response(s)
    BY Zenon, <2>7 DEF Response
  <2> QED BY Zenon, <2>1, <2>2, <2>3, <2>4, <2>5, <2>6, <2>7 DEF FedStep
<1> QED BY Zenon, <1>1, <1>2, ReturnStep, TravelStep DEF Going

-----------------------------------------------------------------------------
(* The steps of the verification of an event.                              *)

LEMMA KeyChange ==
  ASSUME LocalInv, NEW s \in Slots, NEW r, Set(s, r), "work" \notin DOMAIN r,
         NEW n, n = Update(slot[s], r),
         n.pc \in KeyPcs \/ (n.pc = "exec" /\ n.back = "keysresp"),
         "op" \in DOMAIN n.job, "need" \in DOMAIN n.job, Verdict(n)
  PROVE  Alone(s) /\ Local(slot'[s]) /\ slot'[s].pc \in KeyPcs \cup {"exec"}
<1>1. DOMAIN n = Fields /\ n.work = slot[s].work
  <2>1. DOMAIN n = Fields /\ \A f \in Fields : n[f] = IF f \in DOMAIN r THEN r[f] ELSE slot[s][f]
    BY Updated DEF LocalInv, Local, Control
  <2> QED BY Zenon, <2>1 DEF Fields
<1>2. Control(n)
  BY Zenon, <1>1 DEF LocalInv, Local, Control, InGet, InKeys, Out, GetPcs, KeyPcs, PreviewPcs, StorePcs
<1>3. Holds(n)
  BY Zenon DEF Holds, KeyPcs, StorePcs, DeletePcs
<1> QED BY Zenon, <1>2, <1>3, SetStep DEF Local

LEMMA GetVerifyKeyLocal ==
  ASSUME LocalInv, NEW s \in Slots, GetVerifyKey(s)
  PROVE  Alone(s) /\ Local(slot'[s]) /\ slot'[s].pc \in KeyPcs \cup {"exec", "done"}
<1>1. PICK q : q = slot[s]
  BY Zenon
<1>2. /\ q.pc = "need" /\ Control(q) /\ InKeys(q) /\ q.job.op = "verify"
      /\ q.miss \subseteq q.job.need /\ q.miss \cap q.seen = {}
      /\ q.bad => \E m \in q.job.need : m \notin q.miss /\ m \notin q.seen
  BY Zenon, <1>1 DEF GetVerifyKey, At, LocalInv, Local, Verdict, InKeys, KeyPcs
<1>3. CASE q.miss = {}
  <2>1. Finish(s, IF q.bad THEN "rejected" ELSE "verified")
    BY Zenon, <1>1, <1>3 DEF GetVerifyKey
  <2> QED BY Zenon, <1>1, <1>2, <2>1, FinishStep
<1>4. CASE q.miss # {}
  <2>1. PICK m : m = CHOOSE x \in q.miss : TRUE
    BY Zenon
  <2>2. m \in q.miss
    BY Zenon, <1>4, <2>1
  <2>3. PICK r : /\ Set(s, r)
                 /\ r = IF Stored(m) THEN [miss |-> q.miss \ {m}, seen |-> q.seen \cup {m}]
                        ELSE [pc |-> "ask", plan |-> Sources]
    BY Zenon, <1>1, <1>4, <2>1 DEF GetVerifyKey
  <2>4. PICK n : n = Update(q, r)
    BY Zenon
  <2>5. DOMAIN n = Fields /\ \A f \in Fields : n[f] = IF f \in DOMAIN r THEN r[f] ELSE q[f]
    BY <1>2, <2>4, Updated DEF Control
  <2>6. /\ n.job = q.job /\ n.bad = q.bad
        /\ \/ n.pc = "need" /\ n.miss = q.miss \ {m} /\ n.seen = q.seen \cup {m}
           \/ n.pc = "ask" /\ n.miss = q.miss /\ n.seen = q.seen
    <3>1. CASE Stored(m)
      BY Zenon, <1>2, <2>3, <2>5, <3>1 DEF Fields
    <3>2. CASE ~ Stored(m)
      BY Zenon, <1>2, <2>3, <2>5, <3>2 DEF Fields
    <3> QED BY Zenon, <3>1, <3>2
  <2>7. Verdict(n)
    BY Zenon, <1>2, <1>4, <2>2, <2>6 DEF Verdict, InKeys, KeyPcs
  <2>8. "work" \notin DOMAIN r
    BY Zenon, <2>3
  <2>9. "op" \in DOMAIN n.job /\ "need" \in DOMAIN n.job /\ n.pc \in KeyPcs
    BY Zenon, <1>2, <2>6 DEF Control, KeyPcs
  <2> QED BY Zenon, <1>1, <2>3, <2>4, <2>7, <2>8, <2>9, KeyChange
<1> QED BY Zenon, <1>3, <1>4

LEMMA CurrentMissing ==
  ASSUME NEW s, slot[s].miss # {}
  PROVE  Current(s) \in slot[s].miss
  BY Zenon DEF Current

LEMMA AskKeyLocal ==
  ASSUME LocalInv, NEW s \in Slots, AskKey(s)
  PROVE  Alone(s) /\ Local(slot'[s]) /\ slot'[s].pc \in KeyPcs \cup {"exec"}
<1>1. PICK q : q = slot[s]
  BY Zenon
<1>2. /\ q.pc = "ask" /\ Control(q) /\ InKeys(q) /\ q.job.op = "verify" /\ q.miss # {}
      /\ q.miss \subseteq q.job.need /\ q.miss \cap q.seen = {}
      /\ q.bad => \E m \in q.job.need : m \notin q.miss /\ m \notin q.seen
  BY Zenon, <1>1 DEF AskKey, At, LocalInv, Local, Verdict, InKeys, KeyPcs
<1>3. PICK m : m = Current(s) /\ m \in q.miss
  BY Zenon, <1>1, <1>2, CurrentMissing
<1>4. PICK to, r :
        /\ Set(s, r)
        /\ \/ r = [pc |-> "need", bad |-> TRUE, miss |-> q.miss \ {m}]
           \/ r = [pc |-> "exec", back |-> "keysresp", ask |-> {m[1]}, to |-> to]
  BY Zenon, <1>1, <1>3 DEF AskKey
<1>5. PICK n : n = Update(q, r)
  BY Zenon
<1>6. DOMAIN n = Fields /\ \A f \in Fields : n[f] = IF f \in DOMAIN r THEN r[f] ELSE q[f]
  BY <1>2, <1>5, Updated DEF Control
<1>7. /\ n.job = q.job /\ n.seen = q.seen
      /\ \/ n.pc = "need" /\ n.bad = TRUE /\ n.miss = q.miss \ {m}
         \/ n.pc = "exec" /\ n.back = "keysresp" /\ n.miss = q.miss /\ n.bad = q.bad
  BY <1>4, <1>6 DEF Fields
<1>8. Verdict(n)
  <2>1. CASE n.pc = "need"
    BY Zenon, <1>2, <1>3, <1>7, <2>1 DEF Verdict
  <2>2. CASE n.pc = "exec"
    BY Zenon, <1>2, <1>7, <2>2 DEF Verdict
  <2> QED BY Zenon, <1>7, <2>1, <2>2
<1>9. "work" \notin DOMAIN r
  BY <1>4
<1>10. /\ "op" \in DOMAIN n.job /\ "need" \in DOMAIN n.job
       /\ n.pc \in KeyPcs \/ (n.pc = "exec" /\ n.back = "keysresp")
  BY Zenon, <1>2, <1>7 DEF Control, KeyPcs
<1> QED BY Zenon, <1>1, <1>4, <1>5, <1>8, <1>9, <1>10, KeyChange

(* The steps of a join that look for keys.                                 *)
LEMMA AcquireLocal ==
  ASSUME LocalInv, NEW s \in Slots, AcquireLocals(s) \/ AcquireStage(s) \/ AcquireBatch(s)
  PROVE  Alone(s) /\ Local(slot'[s]) /\ slot'[s].pc \in KeyPcs \cup {"exec"}
<1>1. PICK q : q = slot[s]
  BY Zenon
<1>2. q.pc \in {"locals", "stage", "batch"} /\ Control(q) /\ InKeys(q) /\ q.job.op # "verify" /\ ~ q.bad
  BY Zenon, <1>1 DEF AcquireLocals, AcquireStage, AcquireBatch, At, LocalInv, Local, Verdict, InKeys, KeyPcs
<1>3. PICK a, b, c, d, r :
        /\ Set(s, r)
        /\ \/ a \in {"check", "stage"} /\ r = [miss |-> b, seen |-> c, plan |-> d, pc |-> a]
           \/ r = [pc |-> "check", plan |-> << >>, ask |-> {}]
           \/ r = [pc |-> "batch", ask |-> b]
           \/ r = [pc |-> "exec", back |-> "keysresp", row |-> b, to |-> c]
  <2>1. CASE AcquireLocals(s)
    <3>1. PICK miss : Set(s, [miss |-> miss, seen |-> slot[s].job.need \ miss, plan |-> Stages,
                              pc |-> IF miss = {} THEN "check" ELSE "stage"])
      BY Zenon, <2>1 DEF AcquireLocals
    <3>2. PICK a : a = IF miss = {} THEN "check" ELSE "stage"
      BY Zenon
    <3>3. a \in {"check", "stage"}
      BY Zenon, <3>2
    <3> QED BY Zenon, <3>1, <3>2, <3>3
  <2>2. CASE AcquireStage(s)
    BY Zenon, <2>2 DEF AcquireStage
  <2>3. CASE AcquireBatch(s)
    BY <2>3, Zenon DEF AcquireBatch
  <2> QED BY Zenon, <2>1, <2>2, <2>3
<1>4. PICK n : n = Update(q, r)
  BY Zenon
<1>5. DOMAIN n = Fields /\ \A f \in Fields : n[f] = IF f \in DOMAIN r THEN r[f] ELSE q[f]
  BY <1>2, <1>4, Updated DEF Control
<1>6. /\ n.job = q.job /\ n.bad = q.bad
      /\ n.pc \in {"check", "stage", "batch"} \/ (n.pc = "exec" /\ n.back = "keysresp")
  BY <1>3, <1>5 DEF Fields
<1>7. Verdict(n)
  BY Zenon, <1>2, <1>6 DEF Verdict
<1>8. "work" \notin DOMAIN r
  BY <1>3
<1>9. /\ "op" \in DOMAIN n.job /\ "need" \in DOMAIN n.job
      /\ n.pc \in KeyPcs \/ (n.pc = "exec" /\ n.back = "keysresp")
  BY Zenon, <1>2, <1>6 DEF Control, KeyPcs
<1> QED BY Zenon, <1>1, <1>3, <1>4, <1>7, <1>8, <1>9, KeyChange

(* What comes back, whoever asked.                                         *)
LEMMA ResponseLocal ==
  ASSUME LocalInv, NEW s \in Slots, KeysResponse(s) \/ AddRead(s) \/ AddDone(s)
  PROVE  Alone(s) /\ Local(slot'[s]) /\ slot'[s].pc \in KeyPcs \cup {"exec"}
<1>1. PICK q : q = slot[s]
  BY Zenon
<1>2. /\ q.pc \in {"keysresp", "addread"} /\ Control(q) /\ InKeys(q) /\ Verdict(q)
  BY Zenon, <1>1 DEF KeysResponse, AddRead, AddDone, At, LocalInv, Local, InKeys, KeyPcs
<1>3. PICK a, b, c, r :
        /\ Set(s, r)
        /\ \/ a \in {"addread", "batch"} /\ (a = "batch" => q.job.op # "verify")
              /\ r = [pc |-> a, row |-> None, ask |-> b, docs |-> c]
           \/ r = [pc |-> "addwrite", row |-> b]
           \/ r = [pc |-> "batch"] /\ q.job.op # "verify"
           \/ a = (IF q.job.op = "verify" THEN "ask" ELSE "stage")
              /\ r = [pc |-> a, ask |-> {}, plan |-> b]
  <2>1. CASE KeysResponse(s)
    <3> DEFINE who == Head(slot[s].plan)
               some == IF Verifying(s) THEN slot[s].ask ELSE slot[s].row
               more == IF Verifying(s) THEN {} ELSE slot[s].ask \ some
               onto == IF more = {} \/ who = "origins" THEN "addread" ELSE "batch"
    <3>1. \/ Set(s, [pc |-> onto, row |-> None, ask |-> more,
                     docs |-> slot[s].docs \cup Documents(who, some)])
          \/ Set(s, [pc |-> "addread", row |-> None, docs |-> {},
                     ask |-> IF who = "origins" THEN more ELSE {}])
      BY Zenon, <2>1 DEF KeysResponse
    <3>2. onto \in {"addread", "batch"} /\ (onto = "batch" => q.job.op # "verify")
      BY Zenon, <1>1 DEF Verifying
    <3> HIDE DEF who, some, more, onto
    <3>3. CASE Set(s, [pc |-> onto, row |-> None, ask |-> more,
                     docs |-> slot[s].docs \cup Documents(who, some)])
      BY <3>2, <3>3, Zenon
    <3>4. PICK ask : ask = IF who = "origins" THEN more ELSE {}
      BY Zenon
    <3>5. CASE Set(s, [pc |-> "addread", row |-> None, docs |-> {}, ask |-> ask])
      <4>1. [pc |-> "addread", row |-> None, docs |-> {}, ask |-> ask]
            = [pc |-> "addread", row |-> None, ask |-> ask, docs |-> {}]
        BY Zenon
      <4> QED BY Zenon, <3>5, <4>1
    <3> QED BY Zenon, <3>1, <3>3, <3>4, <3>5
  <2>2. CASE AddRead(s)
    BY <2>2, Zenon DEF AddRead
  <2>3. CASE AddDone(s)
    <3>1. PICK a : a = IF Verifying(s) THEN "ask" ELSE "stage"
      BY Zenon
    <3>2. \/ Set(s, [pc |-> "batch"]) /\ ~ Verifying(s)
          \/ Set(s, [pc |-> a, ask |-> {}, plan |-> Tail(slot[s].plan)])
      BY Zenon, <2>3, <3>1 DEF AddDone
    <3>3. Verifying(s) <=> q.job.op = "verify"
      BY Zenon, <1>1 DEF Verifying
    <3> QED BY Zenon, <3>1, <3>2, <3>3
  <2> QED BY Zenon, <2>1, <2>2, <2>3
<1>4. PICK n : n = Update(q, r)
  BY Zenon
<1>5. DOMAIN n = Fields /\ \A f \in Fields : n[f] = IF f \in DOMAIN r THEN r[f] ELSE q[f]
  BY <1>2, <1>4, Updated DEF Control
<1>6. /\ n.job = q.job /\ n.bad = q.bad /\ n.miss = q.miss /\ n.seen = q.seen
      /\ n.pc \in {"addread", "addwrite", "batch", "ask", "stage"}
      /\ n.pc \in {"batch", "stage"} => q.job.op # "verify"
      /\ n.pc = "ask" => q.job.op = "verify"
  BY <1>3, <1>5 DEF Fields
<1>7. Verdict(n)
  BY Zenon, <1>2, <1>6 DEF Verdict, InKeys, KeyPcs
<1>8. "work" \notin DOMAIN r
  BY <1>3
<1>9. "op" \in DOMAIN n.job /\ "need" \in DOMAIN n.job /\ n.pc \in KeyPcs
  BY Zenon, <1>2, <1>6 DEF Control, KeyPcs
<1> QED BY Zenon, <1>1, <1>3, <1>4, <1>7, <1>8, <1>9, KeyChange

LEMMA AddWriteLocal ==
  ASSUME LocalInv, NEW s \in Slots, AddWrite(s)
  PROVE  Alone(s) /\ Local(slot'[s]) /\ slot'[s].pc \in KeyPcs \cup {"exec"}
<1>1. PICK q : q = slot[s]
  BY Zenon
<1>2. q.pc = "addwrite" /\ Control(q) /\ InKeys(q) /\ Verdict(q)
  BY Zenon, <1>1 DEF AddWrite, At, LocalInv, Local, InKeys, KeyPcs
<1>3. PICK d, got, pc, r :
        /\ Set(s, r) /\ r = [docs |-> q.docs \ {d}, miss |-> q.miss \ got, row |-> None,
                             seen |-> q.seen \cup got, pc |-> pc]
        /\ q.job.op = "verify" => got \subseteq {Current(s)}
        /\ pc = IF q.job.op = "verify" /\ got # {} THEN "need" ELSE "addread"
  <2> DEFINE d == CHOOSE d \in slot[s].docs : TRUE
             among == IF Verifying(s) THEN {Current(s)} ELSE slot[s].miss
             got == {n \in among : n[1] = d.of /\ n[2] \in extract_key(d.keys)}
             has == {n \in among : n[1] = d.of /\ n[2] \in d.keys.cur \cup d.keys.old}
             pc == IF Verifying(s) /\ got # {} THEN "need" ELSE "addread"
  <2>1. Set(s, [docs |-> slot[s].docs \ {d}, miss |-> slot[s].miss \ got, row |-> None,
                seen |-> slot[s].seen \cup has, pc |-> pc])
    BY Zenon DEF AddWrite
  <2>2. has = got
    BY Zenon DEF extract_key
  <2>3. q.job.op = "verify" => got \subseteq {Current(s)}
    BY Zenon, <1>1 DEF Verifying
  <2>4. pc = IF q.job.op = "verify" /\ got # {} THEN "need" ELSE "addread"
    BY Zenon, <1>1 DEF Verifying
  <2> HIDE DEF d, got, has, pc
  <2> QED BY Zenon, <1>1, <2>1, <2>2, <2>3, <2>4
<1>4. PICK n : n = Update(q, r)
  BY Zenon
<1>5. DOMAIN n = Fields /\ \A f \in Fields : n[f] = IF f \in DOMAIN r THEN r[f] ELSE q[f]
  BY <1>2, <1>4, Updated DEF Control
<1>6. /\ n.job = q.job /\ n.bad = q.bad /\ n.miss = q.miss \ got /\ n.seen = q.seen \cup got
      /\ n.pc = pc
  BY Zenon, <1>3, <1>5 DEF Fields
<1>7. Verdict(n)
  <2>1. CASE q.job.op # "verify"
    BY Zenon, <1>2, <1>3, <1>6, <2>1 DEF Verdict
  <2>2. CASE q.job.op = "verify"
    <3>1. /\ q.miss # {} /\ q.miss \subseteq q.job.need /\ q.miss \cap q.seen = {}
          /\ q.bad => \E m \in q.job.need : m \notin q.miss /\ m \notin q.seen
      BY Zenon, <1>2, <2>2 DEF Verdict
    <3>2. got \subseteq q.miss
      BY Zenon, <1>1, <1>3, <2>2, <3>1, CurrentMissing
    <3>3. /\ n.miss \subseteq n.job.need /\ n.miss \cap n.seen = {}
          /\ n.bad => \E m \in n.job.need : m \notin n.miss /\ m \notin n.seen
      BY Zenon, <1>6, <3>1, <3>2
    <3>4. n.pc # "need" => n.miss # {}
      BY Zenon, <1>3, <1>6, <2>2, <3>1
    <3>5. n.pc \in {"need", "addread"}
      BY Zenon, <1>3, <1>6
    <3> QED BY Zenon, <1>6, <2>2, <3>3, <3>4, <3>5 DEF Verdict
  <2> QED BY Zenon, <2>1, <2>2
<1>8. "work" \notin DOMAIN r
  BY Zenon, <1>3
<1>9. "op" \in DOMAIN n.job /\ "need" \in DOMAIN n.job /\ n.pc \in KeyPcs
  BY Zenon, <1>2, <1>3, <1>6 DEF Control, KeyPcs
<1> QED BY Zenon, <1>1, <1>3, <1>4, <1>7, <1>8, <1>9, KeyChange

LEMMA CheckLocal ==
  ASSUME LocalInv, NEW s \in Slots, CheckRequired(s)
  PROVE  Alone(s) /\ Local(slot'[s]) /\ slot'[s].pc \in KeyPcs \cup {"exec", "done"}
<1>1. CASE Finish(s, "dropped")
  BY Zenon, <1>1, FinishStep
<1>2. ASSUME NEW r, Set(s, r),
             r = [pc |-> "need", miss |-> slot[s].job.need, seen |-> {},
                  job |-> [slot[s].job EXCEPT !.op = "verify"]]
      PROVE  Alone(s) /\ Local(slot'[s]) /\ slot'[s].pc \in KeyPcs
  <2>1. PICK q : q = slot[s]
    BY Zenon
  <2>2. q.pc = "check" /\ Control(q) /\ InKeys(q) /\ Verdict(q) /\ ~ q.bad
    BY Zenon, <2>1 DEF CheckRequired, At, LocalInv, Local, Verdict, InKeys, KeyPcs
  <2>3. PICK n : n = Update(q, r)
    BY Zenon
  <2>4. DOMAIN n = Fields /\ \A f \in Fields : n[f] = IF f \in DOMAIN r THEN r[f] ELSE q[f]
    BY <2>2, <2>3, Updated DEF Control
  <2>5. PICK job : job = [q.job EXCEPT !.op = "verify"]
    BY Zenon
  <2>6. job.op = "verify" /\ job.need = q.job.need /\ "op" \in DOMAIN job /\ "need" \in DOMAIN job
    BY Zenon, <2>2, <2>5 DEF Control
  <2>7. n.pc = "need" /\ n.miss = q.job.need /\ n.seen = {} /\ n.job = job /\ n.bad = q.bad
    BY Zenon, <1>2, <2>1, <2>4, <2>5 DEF Fields
  <2>8. Verdict(n)
    BY Zenon, <2>2, <2>6, <2>7 DEF Verdict
  <2>9. "work" \notin DOMAIN r
    BY Zenon, <1>2
  <2>10. n.pc \in KeyPcs
    BY Zenon, <2>7 DEF KeyPcs
  <2>11. Alone(s) /\ Local(slot'[s]) /\ slot'[s] = n
    BY Zenon, <1>2, <2>1, <2>3, <2>6, <2>7, <2>8, <2>9, <2>10, KeyChange, SetStep
  <2> QED BY Zenon, <2>10, <2>11
<1> QED BY Zenon, <1>1, <1>2 DEF CheckRequired

(* A request is taken up.                                                  *)
LEMMA TakeStep ==
  ASSUME LocalInv, NEW s \in Slots, slot[s].work # << >>, NEW r, Take(s, r),
         "work" \notin DOMAIN r, "job" \notin DOMAIN r, "bad" \notin DOMAIN r
  PROVE  /\ Alone(s) /\ DOMAIN slot'[s] = Fields
         /\ slot'[s].work \in Seq(Requests) /\ slot'[s].job = Head(slot[s].work)
         /\ Head(slot[s].work) \in Requests /\ Valid(slot'[s].job) /\ ~ slot'[s].bad
         /\ \A f \in Fields : f \in DOMAIN r => slot'[s][f] = r[f]
         /\ "miss" \notin DOMAIN r => slot'[s].miss = {}
         /\ "seen" \notin DOMAIN r => slot'[s].seen = {}
         /\ "res" \notin DOMAIN r => slot'[s].res = "ok"
<1>1. PICK work, job : work = Tail(slot[s].work) /\ job = Head(slot[s].work)
  BY Zenon
<1>2. work \in Seq(Requests) /\ job \in Requests /\ Valid(job)
  BY <1>1, WorksAssumption DEF LocalInv, Local, Control
<1>3. PICK q : q = Start(work)
  BY Zenon
<1>4. /\ DOMAIN q = Fields /\ q.work = work /\ q.bad = FALSE /\ q.miss = {} /\ q.seen = {}
      /\ q.res = "ok"
  BY Zenon, <1>3 DEF Start, Fields
<1>5. PICK p : p = Update(q, [job |-> job])
  BY Zenon
<1>6. /\ DOMAIN p = Fields /\ p.work = work /\ p.bad = FALSE /\ p.miss = {} /\ p.seen = {}
      /\ p.res = "ok" /\ p.job = job
  BY Zenon, <1>4, <1>5 DEF Update, Fields
<1>7. PICK n : n = Update(p, r)
  BY Zenon
<1>8. DOMAIN n = Fields /\ \A f \in Fields : n[f] = IF f \in DOMAIN r THEN r[f] ELSE p[f]
  BY <1>6, <1>7, Updated
<1>9. Alone(s) /\ slot'[s] = n
  BY Zenon, <1>1, <1>3, <1>5, <1>7 DEF Take, Alone, LocalInv
<1>10. /\ n.work = work /\ n.job = job /\ n.bad = FALSE
       /\ "miss" \notin DOMAIN r => n.miss = {}
       /\ "seen" \notin DOMAIN r => n.seen = {}
       /\ "res" \notin DOMAIN r => n.res = "ok"
  BY Zenon, <1>6, <1>8 DEF Fields
<1> QED BY Zenon, <1>1, <1>2, <1>8, <1>9, <1>10

LEMMA BeginKeysLocal ==
  ASSUME LocalInv, NEW s \in Slots, BeginKeys(s)
  PROVE  Alone(s) /\ Local(slot'[s]) /\ slot'[s].pc \in KeyPcs
<1>1. PICK j : j = Head(slot[s].work)
  BY Zenon
<1>2. slot[s].work # << >> /\ j.op \in {"verify", "join"}
  BY Zenon, <1>1 DEF BeginKeys, HasWork
<1>3. PICK r : /\ Take(s, r)
               /\ r = IF j.op = "verify" THEN [pc |-> "need", miss |-> j.need] ELSE [pc |-> "locals"]
  BY Zenon, <1>1 DEF BeginKeys
<1>4. /\ "work" \notin DOMAIN r /\ "job" \notin DOMAIN r /\ "bad" \notin DOMAIN r
      /\ "seen" \notin DOMAIN r /\ "pc" \in DOMAIN r
      /\ j.op = "verify" => r.pc = "need" /\ "miss" \in DOMAIN r /\ r.miss = j.need
      /\ j.op # "verify" => r.pc = "locals"
  BY Zenon, <1>3
<1>5. PICK n : n = slot'[s]
  BY Zenon
<1>6. /\ Alone(s) /\ DOMAIN n = Fields /\ n.work \in Seq(Requests) /\ n.job = j /\ Valid(j)
      /\ ~ n.bad /\ n.seen = {} /\ \A f \in Fields : f \in DOMAIN r => n[f] = r[f]
  BY <1>1, <1>2, <1>3, <1>4, <1>5, TakeStep
<1>7. /\ n.pc = r.pc
      /\ j.op = "verify" => n.miss = j.need
  BY Zenon, <1>4, <1>6 DEF Fields
<1>8. Control(n) /\ Holds(n)
  BY Zenon, <1>4, <1>6, <1>7 DEF Control, Holds, Valid, InGet, InKeys, Out, GetPcs, KeyPcs, PreviewPcs,
     StorePcs, DeletePcs
<1>9. Verdict(n)
  BY Zenon, <1>4, <1>6, <1>7 DEF Verdict
<1> QED BY Zenon, <1>4, <1>5, <1>6, <1>7, <1>8, <1>9 DEF Local, KeyPcs

LEMMA KeyLocal ==
  ASSUME LocalInv, NEW s \in Slots, KeyStep(s)
  PROVE  /\ Alone(s) /\ Local(slot'[s]) /\ slot'[s].pc \in KeyPcs \cup {"exec", "done"}
         /\ slot[s].pc \in KeyPcs \cup {"done"}
<1>1. slot[s].pc \in KeyPcs \cup {"done"}
  BY Zenon DEF KeyStep, BeginKeys, GetVerifyKey, AskKey, AcquireLocals, AcquireStage, AcquireBatch,
     KeysResponse, AddRead, AddWrite, AddDone, CheckRequired, HasWork, At, KeyPcs
<1>2. Alone(s) /\ Local(slot'[s]) /\ slot'[s].pc \in KeyPcs \cup {"exec", "done"}
  BY Zenon, GetVerifyKeyLocal, AskKeyLocal, AcquireLocal, ResponseLocal, AddWriteLocal, CheckLocal,
     BeginKeysLocal DEF KeyStep
<1> QED BY Zenon, <1>1, <1>2

-----------------------------------------------------------------------------
(* The steps of a download or a thumbnail, up to what it stores.           *)

LEMMA GetChange ==
  ASSUME LocalInv, NEW s \in Slots, slot[s].pc \in GetPcs, NEW r, Set(s, r),
         DOMAIN r \subseteq {"pc", "key", "ask", "back", "to"},
         NEW n, n = Update(slot[s], r), n.pc \in GetPcs \cup {"exec", "meta"},
         n.pc = "exec" => n.back \in {"fetched", "fetchedlegacy", "unauth"},
         n.pc \in {"thumb", "thumborig", "generate"} =>
            slot[s].job.op \in {"thumb", "legacythumb", "fedthumb"},
         n.pc \in {"generate", "meta"} => n.key \in Keys /\ n.key[1] = slot[s].job.mxc
  PROVE  /\ Alone(s) /\ Local(slot'[s]) /\ slot'[s].pc \in GetPcs \cup {"exec", "meta"}
         /\ slot'[s].job.op \in Gets
<1>1. PICK q : q = slot[s]
  BY Zenon
<1>2. q.pc \in GetPcs /\ Control(q)
  BY Zenon, <1>1 DEF LocalInv, Local
<1>3. q.job.op \in Gets /\ Valid(q.job) /\ ~ q.bad /\ q.work \in Seq(Requests)
  BY Zenon, <1>2 DEF Control, InGet
<1>4. DOMAIN n = Fields /\ \A f \in Fields : n[f] = IF f \in DOMAIN r THEN r[f] ELSE q[f]
  BY <1>1, <1>2, Updated DEF Control
<1>5. n.job = q.job /\ n.bad = q.bad /\ n.work = q.work
  BY <1>4 DEF Fields
<1>6. Control(n)
  BY Zenon, <1>1, <1>3, <1>4, <1>5 DEF Control, InGet, InKeys, Out, GetPcs, KeyPcs, PreviewPcs, StorePcs
<1>7. Holds(n)
  BY Zenon, <1>1, <1>5 DEF Holds, GetPcs, StorePcs, DeletePcs
<1>8. Verdict(n)
  BY Zenon DEF Verdict, InKeys, Out, GetPcs, KeyPcs
<1> QED BY ZenonT(40), <1>1, <1>3, <1>5, <1>6, <1>7, <1>8, SetStep DEF Local

LEMMA KeyOf ==
  ASSUME NEW m \in Mxcs, NEW d \in {"orig"} \cup {Normalized[x] : x \in Dims} \cup Dims, NEW kind \in Kinds
  PROVE  <<m, d, kind>> \in Keys /\ <<m, d, kind>>[1] = m
  BY Zenon DEF Keys

LEMMA GetFacts ==
  ASSUME LocalInv, NEW s \in Slots, slot[s].pc \in GetPcs
  PROVE  /\ slot[s].job.op \in Gets /\ Mxc(s) \in Mxcs /\ Mxc(s) = slot[s].job.mxc
         /\ slot[s].job.op \in {"thumb", "legacythumb", "fedthumb", "adminthumb"} =>
              slot[s].job.dim \in Dims
         /\ slot[s].pc \in {"thumb", "thumborig", "generate"} =>
              slot[s].job.op \in {"thumb", "legacythumb", "fedthumb"}
         /\ slot[s].pc = "generate" => slot[s].key \in Keys /\ slot[s].key[1] = Mxc(s)
  BY Zenon DEF LocalInv, Local, Control, Holds, InGet, Gets, Valid, Mxc

LEMMA FirstKey ==
  ASSUME NEW m \in Mxcs
  PROVE  First(m, "orig") \in Keys /\ First(m, "orig")[1] = m
  BY Zenon DEF First, Keys, Kinds

Read(s) ==
  /\ Alone(s) /\ Local(slot'[s]) /\ slot'[s].pc \in GetPcs \cup {"exec", "meta", "done"}
  /\ slot'[s].pc = "meta" => slot'[s].job.op \in Gets

LEMMA SearchLocal ==
  ASSUME LocalInv, NEW s \in Slots, Search(s) \/ SearchThumbnail(s) \/ SearchOriginal(s)
  PROVE  Read(s)
<1>1. slot[s].pc \in GetPcs
  BY Zenon DEF Search, SearchThumbnail, SearchOriginal, At, GetPcs
<1>2. PICK k, r :
        /\ Set(s, r)
        /\ \/ r = [pc |-> "miss"] \/ r = [pc |-> "read", key |-> k]
           \/ r = [pc |-> "thumborig"] /\ slot[s].pc = "thumb"
           \/ /\ r = [pc |-> "generate", key |-> k]
              /\ slot[s].pc = "thumborig" /\ k = First(Mxc(s), "orig")
  BY Zenon DEF Search, SearchThumbnail, SearchOriginal, At
<1>3. PICK n : n = Update(slot[s], r)
  BY Zenon
<1>4. DOMAIN slot[s] = Fields
  BY Zenon DEF LocalInv, Local, Control
<1>5. \A f \in Fields : n[f] = IF f \in DOMAIN r THEN r[f] ELSE slot[s][f]
  BY <1>3, <1>4, Updated
<1>6. /\ n.pc \in {"miss", "read", "thumborig", "generate"}
      /\ n.pc = "thumborig" => slot[s].pc = "thumb"
      /\ n.pc = "generate" => n.key = First(Mxc(s), "orig") /\ slot[s].pc = "thumborig"
  BY <1>2, <1>5 DEF Fields
<1>7. DOMAIN r \subseteq {"pc", "key", "ask", "back", "to"}
  BY <1>2
<1>8. n.pc = "generate" => n.key \in Keys /\ n.key[1] = slot[s].job.mxc
  BY Zenon, <1>1, <1>6, GetFacts, FirstKey
<1>9. n.pc \in {"thumb", "thumborig", "generate"} =>
            slot[s].job.op \in {"thumb", "legacythumb", "fedthumb"}
  BY Zenon, <1>1, <1>6, GetFacts
<1>10. n.pc \in GetPcs
  BY Zenon, <1>6 DEF GetPcs
<1>11. n.pc # "exec" /\ n.pc # "meta"
  BY Zenon, <1>6
<1> QED BY Zenon, <1>1, <1>2, <1>3, <1>7, <1>8, <1>9, <1>10, <1>11, GetChange DEF Read

LEMMA StoreLocal ==
  ASSUME LocalInv, NEW s \in Slots, slot[s].pc \in GetPcs, NEW kind \in Kinds, NEW users,
         StoreFile(s, kind, users)
  PROVE  Read(s)
<1>1. PICK d : d = IF Thumbnail(s) THEN slot[s].job.dim ELSE "orig"
  BY Zenon
<1>2. d \in Dims \cup {"orig"}
  BY Zenon, <1>1, GetFacts DEF Thumbnail
<1>3. PICK k : k = <<Mxc(s), d, kind>>
  BY Zenon
<1>4. k \in Keys /\ k[1] = slot[s].job.mxc
  BY Zenon, <1>2, <1>3, KeyOf, GetFacts
<1>5. PICK r : r = [pc |-> "meta", ask |-> users, key |-> k]
  BY Zenon
<1>6. Set(s, r)
  BY Zenon, <1>1, <1>3, <1>5 DEF StoreFile
<1>7. PICK n : n = Update(slot[s], r)
  BY Zenon
<1>8. DOMAIN slot[s] = Fields
  BY Zenon DEF LocalInv, Local, Control
<1>9. \A f \in Fields : n[f] = IF f \in DOMAIN r THEN r[f] ELSE slot[s][f]
  BY <1>7, <1>8, Updated
<1>10. n.pc = "meta" /\ n.key = k /\ DOMAIN r \subseteq {"pc", "key", "ask", "back", "to"}
  BY Zenon, <1>5, <1>9 DEF Fields
<1> QED BY Zenon, <1>4, <1>6, <1>7, <1>10, GetChange DEF Read

LEMMA AskLocal ==
  ASSUME LocalInv, NEW s \in Slots, slot[s].pc \in GetPcs,
         NEW back \in {"fetched", "fetchedlegacy", "unauth"}, AskServer(s, back)
  PROVE  Read(s)
<1>1. PICK r : r = [pc |-> "exec", back |-> back, to |-> ServerOf[Mxc(s)]]
  BY Zenon
<1>2. Set(s, r)
  BY Zenon, <1>1 DEF AskServer
<1>3. PICK n : n = Update(slot[s], r)
  BY Zenon
<1>4. DOMAIN slot[s] = Fields
  BY Zenon DEF LocalInv, Local, Control
<1>5. \A f \in Fields : n[f] = IF f \in DOMAIN r THEN r[f] ELSE slot[s][f]
  BY <1>3, <1>4, Updated
<1>6. n.pc = "exec" /\ n.back = back /\ DOMAIN r \subseteq {"pc", "key", "ask", "back", "to"}
  BY Zenon, <1>1, <1>5 DEF Fields
<1> QED BY Zenon, <1>2, <1>3, <1>6, GetChange DEF Read

LEMMA PlainLocal ==
  ASSUME LocalInv, NEW s \in Slots, slot[s].pc \in GetPcs,
         NEW p \in {"fetch", "location"}, Set(s, [pc |-> p])
  PROVE  Read(s)
<1>1. PICK r : r = [pc |-> p]
  BY Zenon
<1>2. PICK n : n = Update(slot[s], r)
  BY Zenon
<1>3. DOMAIN slot[s] = Fields
  BY Zenon DEF LocalInv, Local, Control
<1>4. \A f \in Fields : n[f] = IF f \in DOMAIN r THEN r[f] ELSE slot[s][f]
  BY <1>2, <1>3, Updated
<1>5. n.pc = p /\ DOMAIN r \subseteq {"pc", "key", "ask", "back", "to"}
  BY Zenon, <1>1, <1>4 DEF Fields
<1>6. n.pc \in GetPcs /\ n.pc \notin {"exec", "meta", "thumb", "thumborig", "generate"}
  BY Zenon, <1>5 DEF GetPcs
<1> QED BY Zenon, <1>1, <1>2, <1>5, <1>6, GetChange DEF Read

LEMMA FinishRead ==
  ASSUME LocalInv, NEW s \in Slots, NEW res, res # "rejected", Finish(s, res)
  PROVE  Read(s)
  BY Zenon, FinishStep DEF Read

LEMMA GenerateLocal ==
  ASSUME LocalInv, NEW s \in Slots, Generate(s)
  PROVE  Read(s)
<1>1. slot[s].pc = "generate" /\ slot[s].pc \in GetPcs
  BY Zenon DEF Generate, At, GetPcs
<1>2. PICK k : k = slot[s].key
  BY Zenon
<1>3. CASE \E res : res # "rejected" /\ Finish(s, res)
  BY Zenon, <1>3, FinishRead
<1>4. CASE Set(s, [pc |-> "meta", key |-> <<k[1], Normalized[slot[s].job.dim], k[3]>>])
  <2>1. PICK key : key = <<k[1], Normalized[slot[s].job.dim], k[3]>>
    BY Zenon
  <2>2. k \in Keys /\ k[1] = Mxc(s) /\ k[1] \in Mxcs /\ slot[s].job.dim \in Dims
    BY Zenon, <1>1, <1>2, GetFacts
  <2>3. k[3] \in Kinds
    BY Zenon, <2>2 DEF Keys
  <2>4. key \in Keys /\ key[1] = slot[s].job.mxc
    BY Zenon, <1>1, <2>1, <2>2, <2>3, KeyOf, GetFacts
  <2>5. PICK r : r = [pc |-> "meta", key |-> key]
    BY Zenon
  <2>6. Set(s, r)
    BY Zenon, <1>4, <2>1, <2>5
  <2>7. PICK n : n = Update(slot[s], r)
    BY Zenon
  <2>8. DOMAIN slot[s] = Fields
    BY Zenon DEF LocalInv, Local, Control
  <2>9. \A f \in Fields : n[f] = IF f \in DOMAIN r THEN r[f] ELSE slot[s][f]
    BY <2>7, <2>8, Updated
  <2>10. n.pc = "meta" /\ n.key = key /\ DOMAIN r \subseteq {"pc", "key", "ask", "back", "to"}
    BY Zenon, <2>5, <2>9 DEF Fields
  <2> QED BY Zenon, <1>1, <2>4, <2>6, <2>7, <2>10, GetChange DEF Read
<1> QED BY Zenon, <1>2, <1>3, <1>4 DEF Generate

LEMMA ReadLocal ==
  ASSUME LocalInv, NEW s \in Slots,
         \/ Search(s) \/ SearchThumbnail(s) \/ SearchOriginal(s) \/ ReadFile(s) \/ Generate(s)
         \/ Missed(s) \/ FetchRemote(s) \/ FetchRemoteLegacy(s)
         \/ Fetched(s) \/ FetchedLegacy(s) \/ Location(s) \/ Unauthenticated(s)
  PROVE  Read(s) /\ slot[s].pc \in GetPcs /\ UNCHANGED mediaVars
<1>1. slot[s].pc \in GetPcs
  BY Zenon DEF Search, SearchThumbnail, SearchOriginal, ReadFile, Generate, Missed, FetchRemote,
     FetchRemoteLegacy, Fetched, FetchedLegacy, Location, Unauthenticated, At, GetPcs
<1>2. UNCHANGED mediaVars
  BY Zenon DEF Search, SearchThumbnail, SearchOriginal, ReadFile, Generate, Missed, FetchRemote,
     FetchRemoteLegacy, Fetched, FetchedLegacy, Location, Unauthenticated, reading
<1>3. \/ Search(s) \/ SearchThumbnail(s) \/ SearchOriginal(s) \/ Generate(s)
      \/ \E res : res # "rejected" /\ Finish(s, res)
      \/ \E p \in {"fetch", "location"} : Set(s, [pc |-> p])
      \/ \E back \in {"fetched", "fetchedlegacy", "unauth"} : AskServer(s, back)
      \/ \E kind \in Kinds : \E users : StoreFile(s, kind, users)
  <2>1. CASE ReadFile(s)
    <3>1. PICK res : res = IF new[slot[s].key] \in {"part", "whole"} THEN new[slot[s].key] ELSE "ioerr"
      BY Zenon
    <3>2. res # "rejected" /\ Finish(s, res)
      BY Zenon, <2>1, <3>1 DEF ReadFile
    <3> QED BY Zenon, <3>2
  <2>2. CASE Missed(s) \/ FetchRemote(s) \/ FetchRemoteLegacy(s)
    BY Zenon, <2>2 DEF Missed, FetchRemote, FetchRemoteLegacy
  <2>3. CASE Fetched(s) \/ Location(s)
    BY Zenon, <2>3 DEF Fetched, Location, Kinds
  <2>4. CASE FetchedLegacy(s) \/ Unauthenticated(s)
    <3>1. PICK kind : kind = IF Thumbnail(s) THEN "bare" ELSE "named"
      BY Zenon
    <3>2. kind \in Kinds /\ "named" \in Kinds
      BY Zenon, <3>1 DEF Kinds
    <3>3. \/ Finish(s, "fail") \/ StoreFile(s, kind, {})
          \/ StoreFile(s, "named", slot[s].job.user)
      BY Zenon, <2>4, <3>1 DEF FetchedLegacy, Unauthenticated
    <3> QED BY Zenon, <3>2, <3>3
  <2> QED BY Zenon, <2>1, <2>2, <2>3, <2>4
<1> QED BY Zenon, <1>1, <1>2, <1>3, SearchLocal, GenerateLocal, FinishRead, PlainLocal, AskLocal, StoreLocal

-----------------------------------------------------------------------------
(* The steps that store.                                                   *)

LEMMA StoreChange ==
  ASSUME LocalInv, NEW s \in Slots, slot[s].pc \in StorePcs, NEW r, Set(s, r),
         \/ slot[s].pc = "meta" /\ r = [pc |-> "create", ask |-> {}]
         \/ slot[s].pc = "create" /\ r = [pc |-> "write"]
         \/ slot[s].pc = "write" /\ slot[s].job.op = "preview" /\ r = [pc |-> "prevset", key |-> None]
  PROVE  /\ Alone(s) /\ Local(slot'[s]) /\ slot'[s].job = slot[s].job
         /\ slot'[s].pc = r.pc /\ slot'[s].bad = slot[s].bad
         /\ slot'[s].pc # "prevset" => slot'[s].key = slot[s].key
<1>1. PICK q : q = slot[s]
  BY Zenon
<1>2. Local(q) /\ q.pc \in StorePcs
  BY Zenon, <1>1 DEF LocalInv
<1>3. PICK n : n = Update(q, r)
  BY Zenon
<1>4. DOMAIN n = Fields /\ \A f \in Fields : n[f] = IF f \in DOMAIN r THEN r[f] ELSE q[f]
  BY <1>2, <1>3, Updated DEF Local, Control
<1>5. /\ n.work = q.work /\ n.job = q.job /\ n.bad = q.bad /\ n.pc = r.pc
      /\ n.pc # "prevset" => n.key = q.key
      /\ \/ q.pc = "meta" /\ n.pc = "create"
         \/ q.pc = "create" /\ n.pc = "write"
         \/ q.pc = "write" /\ n.pc = "prevset" /\ q.job.op = "preview"
  BY <1>1, <1>4 DEF Fields
<1>6. Control(n)
  BY Zenon, <1>2, <1>4, <1>5 DEF Local, Control, InGet, InKeys, Out, GetPcs, KeyPcs, PreviewPcs, StorePcs
<1>7. Holds(n)
  BY Zenon, <1>2, <1>5 DEF Local, Holds, StorePcs, DeletePcs
<1>8. Verdict(n)
  BY Zenon, <1>5 DEF Verdict, InKeys, Out, KeyPcs
<1> QED BY Zenon, <1>1, <1>3, <1>5, <1>6, <1>7, <1>8, SetStep DEF Local

-----------------------------------------------------------------------------
(* The steps that delete; a task that writes may lose the name it writes.  *)

LEMMA DeleteChange ==
  ASSUME LocalInv, NEW s \in Slots, slot[s].pc \in DeletePcs \cup {"del"},
         NEW r, NEW n, n = Update(slot[s], r),
         DOMAIN r \subseteq {"pc", "key", "keys", "tgt", "name", "mxcs"},
         n.pc \in DeletePcs \cup {"del"}, Holds(n)
  PROVE  Local(n)
<1>1. DOMAIN n = Fields /\ \A f \in Fields : n[f] = IF f \in DOMAIN r THEN r[f] ELSE slot[s][f]
  BY Updated DEF LocalInv, Local, Control
<1>2. n.work = slot[s].work
  BY <1>1 DEF Fields
<1>3. Control(n)
  BY Zenon, <1>1, <1>2 DEF LocalInv, Local, Control, InGet, InKeys, Out, GetPcs, KeyPcs, PreviewPcs,
     StorePcs, DeletePcs
<1>4. Verdict(n)
  BY Zenon DEF Verdict, InKeys, Out, KeyPcs, DeletePcs
<1> QED BY Zenon, <1>3, <1>4 DEF Local

LEMMA WriterLoses ==
  ASSUME NEW q, Local(q), q.pc = "write", NEW n, n = Update(q, [bad |-> TRUE])
  PROVE  /\ Local(n) /\ n.pc = q.pc /\ n.job = q.job /\ n.key = q.key
<1>1. /\ DOMAIN n = Fields /\ n.work = q.work /\ n.pc = q.pc /\ n.job = q.job /\ n.key = q.key
      /\ n.keys = q.keys /\ n.tgt = q.tgt
  BY Zenon DEF Update, Local, Control, Fields
<1>2. Control(n)
  BY Zenon, <1>1 DEF Local, Control, InGet, InKeys, Out, GetPcs, KeyPcs, PreviewPcs, StorePcs
<1>3. Holds(n)
  BY Zenon, <1>1 DEF Local, Holds
<1>4. Verdict(n)
  BY Zenon, <1>1 DEF Verdict, InKeys, Out, KeyPcs
<1> QED BY Zenon, <1>1, <1>2, <1>3, <1>4 DEF Local

(* What the others are, after a step of s that may cut off a writer of k.  *)
Cut(s, k) ==
  /\ slot' = [t \in Slots |-> slot'[t]]
  /\ \A t \in Slots : t # s =>
       /\ Local(slot'[t]) /\ slot'[t].pc = slot[t].pc /\ slot'[t].job = slot[t].job
       /\ slot[t].pc \in StorePcs => slot'[t].key = slot[t].key
       /\ slot'[t] = slot[t] \/ (slot[t].pc = "write" /\ slot[t].key = k)

LEMMA UnlinkedStep ==
  ASSUME LocalInv, NEW s \in Slots, NEW k, NEW r, Unlinked(s, k, r)
  PROVE  Cut(s, k) /\ slot'[s] = Update(slot[s], r)
<1>1. slot' = [t \in Slots |-> slot'[t]] /\ slot'[s] = Update(slot[s], r)
  BY Zenon DEF Unlinked
<1>2. ASSUME NEW t \in Slots, t # s
      PROVE  /\ Local(slot'[t]) /\ slot'[t].pc = slot[t].pc /\ slot'[t].job = slot[t].job
             /\ slot'[t].key = slot[t].key
             /\ slot'[t] = slot[t] \/ (slot[t].pc = "write" /\ slot[t].key = k)
  <2>1. CASE slot[t].pc = "write" /\ slot[t].key = k
    <3>1. slot'[t] = Update(slot[t], [bad |-> TRUE])
      BY Zenon, <1>2, <2>1 DEF Unlinked
    <3> QED BY Zenon, <2>1, <3>1, WriterLoses DEF LocalInv
  <2>2. CASE ~ (slot[t].pc = "write" /\ slot[t].key = k)
    <3>1. slot'[t] = slot[t]
      BY Zenon, <1>2, <2>2 DEF Unlinked
    <3> QED BY Zenon, <3>1 DEF LocalInv
  <2> QED BY Zenon, <2>1, <2>2
<1> QED BY Zenon, <1>1, <1>2 DEF Cut

LEMMA AloneCut ==
  ASSUME LocalInv, NEW s \in Slots, Alone(s), NEW k
  PROVE  Cut(s, k)
  BY Zenon DEF Alone, Cut, LocalInv

-----------------------------------------------------------------------------
(* Requests begin, and previews.                                           *)

LEMMA BeginLocal ==
  ASSUME LocalInv, NEW s \in Slots, BeginMedia(s)
  PROVE  /\ Alone(s) /\ Local(slot'[s]) /\ slot[s].pc = "done" /\ UNCHANGED mediaVars
         /\ slot'[s].pc \in GetPcs \cup {"meta", "prev", "prevdel", "del", "done"}
         /\ slot'[s].pc = "meta" => slot'[s].job.op = "upload"
<1>1. /\ slot[s].pc = "done" /\ slot[s].work # << >> /\ UNCHANGED mediaVars
  BY Zenon DEF BeginMedia, CreateContent, GetContent, GetContentLegacy, GetContentFederation,
     GetContentThumbnail, GetContentThumbnailLegacy, GetContentThumbnailFederation, GetRemote,
     GetMediaPreview, DeleteUrlPreview, DeleteFromUser, DeleteWithinTimeframe, DeleteFromServer,
     DeleteCommand, DeleteList, DeleteAll, Begins, HasWork, At, reading
<1>2. PICK j : j = Head(slot[s].work)
  BY Zenon
<1>3. PICK listed, r :
        /\ Take(s, r)
        /\ \/ r = [pc |-> "meta", key |-> <<j.mxc, "orig", "named">>, ask |-> j.user] /\ j.op = "upload"
           \/ r = [pc |-> "search"] /\ j.op \in {"get", "legacyget", "fedget"}
           \/ r = [pc |-> "thumb"] /\ j.op \in {"thumb", "legacythumb", "fedthumb"}
           \/ r = [pc |-> "fetch"] /\ j.op \in {"adminget", "adminthumb"}
           \/ r = [pc |-> "prev"] /\ j.op = "preview"
           \/ r = [pc |-> "prevdel"]
           \/ r = [pc |-> "done", res |-> "fail"]
           \/ r = [pc |-> "del", mxcs |-> listed]
  <2>1. CASE \E listed : DeleteAll(s, listed)
    BY Zenon, <2>1 DEF DeleteAll
  <2>2. CASE ~ \E listed : DeleteAll(s, listed)
    BY Zenon, <1>2, <2>2 DEF BeginMedia, CreateContent, GetContent, GetContentLegacy, GetContentFederation,
     GetContentThumbnail, GetContentThumbnailLegacy, GetContentThumbnailFederation, GetRemote,
     GetMediaPreview, DeleteUrlPreview, DeleteFromUser, DeleteWithinTimeframe, DeleteFromServer,
     DeleteCommand, DeleteList, Begins, HasWork, Job
  <2> QED BY Zenon, <2>1, <2>2
<1>4. /\ "work" \notin DOMAIN r /\ "job" \notin DOMAIN r /\ "bad" \notin DOMAIN r
      /\ "pc" \in DOMAIN r
      /\ r.pc = "done" => r.res = "fail" /\ "res" \in DOMAIN r
      /\ r.pc = "meta" => "key" \in DOMAIN r
  BY <1>3
<1>5. PICK n : n = slot'[s]
  BY Zenon
<1>6. /\ Alone(s) /\ DOMAIN n = Fields /\ n.work \in Seq(Requests) /\ n.job = j /\ Valid(j)
      /\ ~ n.bad /\ n.pc = r.pc /\ (r.pc = "done" => n.res = "fail") /\ (r.pc = "meta" => n.key = r.key)
  <2>0. Take(s, r)
    BY Zenon, <1>3
  <2>1. /\ Alone(s) /\ DOMAIN n = Fields /\ n.work \in Seq(Requests) /\ n.job = j /\ Valid(j) /\ ~ n.bad
        /\ \A f \in Fields : f \in DOMAIN r => n[f] = r[f]
    <3>1. "work" \notin DOMAIN r /\ "job" \notin DOMAIN r /\ "bad" \notin DOMAIN r
      BY Zenon, <1>4
    <3>2. /\ Alone(s) /\ DOMAIN slot'[s] = Fields
          /\ slot'[s].work \in Seq(Requests) /\ slot'[s].job = Head(slot[s].work)
          /\ Valid(slot'[s].job) /\ ~ slot'[s].bad
          /\ \A f \in Fields : f \in DOMAIN r => slot'[s][f] = r[f]
      BY Zenon, <2>0, <1>1, <3>1, TakeStep
    <3> QED BY <3>2, <1>2, <1>5
  <2>2. {"pc", "res", "key"} \subseteq Fields
    BY DEF Fields
  <2>3. (r.pc = "done" => "res" \in DOMAIN r) /\ (r.pc = "meta" => "key" \in DOMAIN r) /\ "pc" \in DOMAIN r
    BY Zenon, <1>4
  <2> QED BY Zenon, <1>4, <2>1, <2>2, <2>3
<1>7. Control(n) /\ Verdict(n)
  <2>1. /\ n.pc \in {"meta", "search", "thumb", "fetch", "prev", "prevdel", "done", "del"}
        /\ n.pc = "meta" => j.op = "upload"
        /\ n.pc \in GetPcs => j.op \in Gets
        /\ n.pc = "thumb" => j.op \in {"thumb", "legacythumb", "fedthumb"}
        /\ n.pc = "prev" => j.op = "preview"
    BY <1>3, <1>6 DEF GetPcs, Gets
  <2>2. Control(n)
    BY Zenon, <1>6, <2>1 DEF Control, InGet, InKeys, Out, GetPcs, KeyPcs, PreviewPcs, StorePcs
  <2>3. Verdict(n)
    BY Zenon, <1>6, <2>1 DEF Verdict, InKeys, Out, KeyPcs
  <2> QED BY Zenon, <2>2, <2>3
<1>8. Holds(n)
  <2>1. n.pc \in StorePcs => n.key \in Keys /\ n.key[1] = n.job.mxc
    <3>1. CASE j.op = "upload" /\ r.pc = "meta"
      <4>1. j.mxc \in Mxcs /\ n.key = <<j.mxc, "orig", "named">>
        BY <1>3, <1>6, <3>1 DEF Valid
      <4>2. <<j.mxc, "orig", "named">> \in Keys /\ <<j.mxc, "orig", "named">>[1] = j.mxc
        BY Zenon, <4>1, KeyOf DEF Kinds
      <4> QED BY Zenon, <1>6, <4>1, <4>2
    <3>2. CASE r.pc # "meta"
      BY <1>3, <1>6, <3>2 DEF StorePcs
    <3> QED BY <1>3, <3>1, <3>2
  <2> QED BY <1>3, <1>6, <2>1 DEF Holds, DeletePcs
<1> QED BY <1>1, <1>3, <1>5, <1>6, <1>7, <1>8 DEF Local, GetPcs

LEMMA PreviewChange ==
  ASSUME LocalInv, NEW s \in Slots, slot[s].pc \in PreviewPcs \ {"prevdel"}, NEW r, Set(s, r),
         \/ slot[s].pc = "prev" /\ r = [pc |-> "prevlock"]
         \/ slot[s].pc = "prevlock" /\ r = [pc |-> "prevask"]
         \/ slot[s].pc = "prevask" /\ r = [pc |-> "prevset"]
         \/ slot[s].pc = "prevask" /\ r = [pc |-> "meta", key |-> <<Mxc(s), "orig", "bare">>]
  PROVE  /\ Alone(s) /\ Local(slot'[s]) /\ slot'[s].job = slot[s].job /\ slot'[s].pc = r.pc
<1>1. PICK q : q = slot[s]
  BY Zenon
<1>2. Local(q) /\ q.pc \in PreviewPcs \ {"prevdel"}
  BY Zenon, <1>1 DEF LocalInv
<1>3. PICK n : n = Update(q, r)
  BY Zenon
<1>4. DOMAIN n = Fields /\ \A f \in Fields : n[f] = IF f \in DOMAIN r THEN r[f] ELSE q[f]
  BY SMTT(30), <1>2, <1>3, Updated DEF Local, Control
<1>5. /\ n.work = q.work /\ n.job = q.job /\ n.bad = q.bad /\ n.pc = r.pc
      /\ n.pc = "meta" => n.key = <<q.job.mxc, "orig", "bare">>
      /\ \/ q.pc = "prev" /\ n.pc = "prevlock"
         \/ q.pc = "prevlock" /\ n.pc = "prevask"
         \/ q.pc = "prevask" /\ n.pc \in {"prevset", "meta"}
  BY <1>1, <1>4 DEF Fields, Mxc
<1>6. Control(n)
  BY Zenon, <1>2, <1>4, <1>5 DEF Local, Control, InGet, InKeys, Out, GetPcs, KeyPcs, PreviewPcs, StorePcs
<1>7. Holds(n)
  <2>1. q.job.mxc \in Mxcs
    BY Zenon, <1>2 DEF Local, Control, Valid
  <2>2. <<q.job.mxc, "orig", "bare">> \in Keys /\ <<q.job.mxc, "orig", "bare">>[1] = q.job.mxc
    BY Zenon, <2>1, KeyOf DEF Kinds
  <2> QED BY Zenon, <1>5, <2>2 DEF Holds, StorePcs, DeletePcs
<1>8. Verdict(n)
  BY Zenon, <1>5 DEF Verdict, InKeys, Out, KeyPcs
<1> QED BY Zenon, <1>1, <1>3, <1>5, <1>6, <1>7, <1>8, SetStep DEF Local

-----------------------------------------------------------------------------
(* The resolver.  A row of the present era is right in the present world,  *)
(* and so is what a task has resolved in it; a host is good when a present *)
(* row tells where it is, valid or not.                                    *)

Target(h) == IF h \in Ported \/ World[h].srv = None THEN h ELSE World[h].srv

Good(h) == h \in Literals \/ AtHost(World, h) = None \/ overrides[h].era = era

Tables ==
  /\ era \in 1 .. Len(Worlds)
  /\ dests = [n \in Names |-> dests[n]] /\ overrides = [n \in Names |-> overrides[n]]
  /\ \A n \in Names : overrides[n].era \in 0 .. era /\ dests[n].era \in 0 .. era

RowsRight == \A n \in Names : overrides[n].era = era =>
                overrides[n].to = Target(n) /\ overrides[n].ip = AtHost(World, n)

DestsRight == \A n \in Names : dests[n].valid =>
                /\ dests[n].to \in Names
                /\ dests[n].era = era /\ ~ dests[n].poor =>
                     AtHost(World, dests[n].to) = Home(World, n) /\ Good(dests[n].to)

Named(q) ==
  /\ q.pc \in Resolving \cup {"sent"} => q.to \in Names /\ q.from \in 0 .. era
  /\ q.pc \in {"srv", "ip", "store", "connect"} => q.name \in Names
  /\ q.pc = "wk" => q.to \notin Literals \cup Ported
  /\ q.pc = "srv" => q.name \notin Literals \cup Ported
  /\ q.pc = "ip" => q.name \notin Literals

Resolved(q) ==
  /\ q.pc \in {"srv", "ip", "store", "connect"} /\ ~ q.poor => AtHost(World, q.name) = Home(World, q.to)
  /\ q.pc = "ip" => q.tgt = Target(q.name)
  /\ q.pc \in {"store", "connect"} /\ ~ q.poor => Good(q.name)
  /\ q.pc = "sent" /\ ~ q.poor /\ Home(World, q.to) # None => q.addr = Home(World, q.to)

TasksRight == \A s \in Slots : Named(slot[s]) /\ (slot[s].from = era => Resolved(slot[s]))

(* A present row that has expired is looked up again in the present only.  *)
Renewed == \A n \in Names : overrides[n].era = era /\ ~ overrides[n].valid =>
              \A s \in Slots : slot[s].pc \in {"wk", "srv", "ip"} => slot[s].from = era

FedInv == Tables /\ RowsRight /\ DestsRight /\ TasksRight /\ Renewed

(* A step on one task that leaves the tables alone.                        *)
LEMMA FedTask ==
  ASSUME FedInv, NEW s \in Slots, UNCHANGED fedVars,
         \A t \in Slots : t # s /\ slot'[t].pc \in Resolving \cup {"sent"} => slot'[t] = slot[t],
         Named(slot'[s]), slot'[s].from = era => Resolved(slot'[s]),
         slot'[s].pc \in {"wk", "srv", "ip"} =>
            \/ slot'[s].from = era
            \/ slot[s].pc \in {"wk", "srv", "ip"} /\ slot'[s].from = slot[s].from
  PROVE  FedInv'
<1>1. era' = era /\ dests' = dests /\ overrides' = overrides
  BY Zenon DEF fedVars
<1>2. Tables' /\ RowsRight' /\ DestsRight'
  BY Zenon, <1>1 DEF FedInv, Tables, RowsRight, DestsRight, Good, Target, World
<1>3. TasksRight'
  <2> SUFFICES ASSUME NEW t \in Slots
               PROVE  Named(slot'[t]) /\ (slot'[t].from = era => Resolved(slot'[t]))
    BY Zenon, <1>1 DEF TasksRight, Named, Resolved, Good, Target, World
  <2>1. CASE t = s
    BY Zenon, <2>1
  <2>2. CASE t # s /\ slot'[t].pc \in Resolving \cup {"sent"}
    BY Zenon, <2>2 DEF FedInv, TasksRight
  <2>3. CASE slot'[t].pc \notin Resolving \cup {"sent"}
    BY Zenon, <2>3 DEF Named, Resolved, Resolving
  <2> QED BY Zenon, <2>1, <2>2, <2>3
<1>4. Renewed'
  <2> SUFFICES ASSUME NEW n \in Names, overrides[n].era = era, ~ overrides[n].valid,
                      NEW t \in Slots, slot'[t].pc \in {"wk", "srv", "ip"}
               PROVE  slot'[t].from = era
    BY Zenon, <1>1 DEF Renewed
  <2>1. slot[t].pc \in {"wk", "srv", "ip"} => slot[t].from = era
    BY Zenon DEF FedInv, Renewed
  <2> QED BY Zenon, <2>1 DEF Resolving
<1> QED BY Zenon, <1>2, <1>3, <1>4 DEF FedInv

LEMMA FedQuiet ==
  ASSUME FedInv, UNCHANGED fedVars,
         \A t \in Slots : slot'[t].pc \in Resolving \cup {"sent"} => slot'[t] = slot[t]
  PROVE  FedInv'
<1>1. era' = era /\ dests' = dests /\ overrides' = overrides
  BY Zenon DEF fedVars
<1>2. Tables' /\ RowsRight' /\ DestsRight'
  BY Zenon, <1>1 DEF FedInv, Tables, RowsRight, DestsRight, Good, Target, World
<1>3. TasksRight'
  <2> SUFFICES ASSUME NEW t \in Slots
               PROVE  Named(slot'[t]) /\ (slot'[t].from = era => Resolved(slot'[t]))
    BY Zenon, <1>1 DEF TasksRight, Named, Resolved, Good, Target, World
  <2>1. CASE slot'[t].pc \in Resolving \cup {"sent"}
    BY Zenon, <2>1 DEF FedInv, TasksRight
  <2>2. CASE slot'[t].pc \notin Resolving \cup {"sent"}
    BY Zenon, <2>2 DEF Named, Resolved, Resolving
  <2> QED BY Zenon, <2>1, <2>2
<1>4. Renewed'
  BY Zenon, <1>1 DEF FedInv, Renewed, Resolving
<1> QED BY Zenon, <1>2, <1>3, <1>4 DEF FedInv

LEMMA AtTarget ==
  ASSUME NEW h, h \notin Literals
  PROVE  AtHost(World, h) = World[Target(h)].ip
  BY Zenon DEF AtHost, Target

LEMMA WorldNames ==
  ASSUME FedInv, NEW h \in Names
  PROVE  {World[h].wk, World[h].srv} \subseteq Names \cup {None}
  BY Zenon, WorldsAssumption DEF FedInv, Tables, World

(* The new fields of a task on its way, and those it keeps.                *)
LEMMA FedFields ==
  ASSUME LocalInv, NEW s \in Slots, NEW r, Set(s, r)
  PROVE  /\ Alone(s)
         /\ \A f \in Fields : slot'[s][f] = IF f \in DOMAIN r THEN r[f] ELSE slot[s][f]
<1>1. Alone(s) /\ slot'[s] = Update(slot[s], r)
  BY Zenon, SetStep
<1>2. DOMAIN slot[s] = Fields
  BY Zenon DEF LocalInv, Local, Control
<1> QED BY <1>1, <1>2, Updated

LEMMA ReturnFed ==
  ASSUME LocalInv, FedInv, NEW s \in Slots, slot[s].pc \in Out, NEW res, Return(s, res), UNCHANGED fedVars
  PROVE  FedInv'
<1>1. PICK r : r = [pc |-> slot[s].back, res |-> res, from |-> 0, name |-> None,
                    tgt |-> None, poor |-> FALSE, addr |-> None, to |-> None]
  BY Zenon
<1>2. Set(s, r)
  BY Zenon, <1>1 DEF Return
<1>3. slot'[s].pc = slot[s].back /\ Alone(s)
  BY <1>1, <1>2, FedFields DEF Fields
<1>4. slot[s].back \notin Resolving \cup {"sent"}
  BY Zenon DEF LocalInv, Local, Control, Resolving
<1> QED BY Zenon, <1>3, <1>4, FedQuiet DEF Alone

LEMMA ExecuteOnFed ==
  ASSUME LocalInv, FedInv, NEW s \in Slots, ExecuteOn(s)
  PROVE  FedInv'
<1>1. PICK h : h = slot[s].to
  BY Zenon
<1>2. slot[s].pc = "exec" /\ slot[s].pc \in Out /\ h \in Names /\ UNCHANGED fedVars
  BY Zenon, <1>1 DEF ExecuteOn, At, Out
<1>3. CASE \E res : Return(s, res)
  BY Zenon, <1>2, <1>3, ReturnFed
<1>4. CASE ~ \E res : Return(s, res)
  <2>1. PICK r : /\ Set(s, r)
                 /\ \/ /\ dests[h].valid
                       /\ r = [pc |-> "connect", name |-> dests[h].to, poor |-> dests[h].poor,
                               from |-> Earlier(era, dests[h].era)]
                    \/ h \in Literals /\ r = [pc |-> "store", from |-> era, name |-> h]
                    \/ h \notin Literals /\ h \in Ported /\ r = [pc |-> "ip", from |-> era, name |-> h, tgt |-> h]
                    \/ h \notin Literals \cup Ported /\ r = [pc |-> "wk", from |-> era]
    BY Zenon, <1>1, <1>4 DEF ExecuteOn, lookup_actual_dest, get_destination, resolve_actual_dest
  <2>2. PICK n : n = slot'[s]
    BY Zenon
  <2>3. Alone(s) /\ \A f \in Fields : n[f] = IF f \in DOMAIN r THEN r[f] ELSE slot[s][f]
    BY Zenon, <2>1, <2>2, FedFields
  <2>4. n.to = h /\ n.pc = r.pc /\ n.from = r.from
    BY Zenon, <1>1, <2>1, <2>3 DEF Fields
  <2>5. era \in Nat /\ era # 0 /\ dests[h].era \in 0 .. era
    BY <1>2 DEF FedInv, Tables
  <2>6. Named(n) /\ (n.from = era => Resolved(n)) /\ (n.pc \in {"wk", "srv", "ip"} => n.from = era)
    <3>1. CASE /\ dests[h].valid
               /\ r = [pc |-> "connect", name |-> dests[h].to, poor |-> dests[h].poor,
                       from |-> Earlier(era, dests[h].era)]
      <4>1. n.name = dests[h].to /\ n.poor = dests[h].poor /\ n.pc = "connect" /\ n.from = dests[h].era
        BY <2>3, <2>4, <2>5, <3>1 DEF Fields, Earlier
      <4>2. /\ dests[h].to \in Names
            /\ dests[h].era = era /\ ~ dests[h].poor =>
                 AtHost(World, dests[h].to) = Home(World, h) /\ Good(dests[h].to)
        BY Zenon, <1>2, <3>1 DEF FedInv, DestsRight
      <4>3. Named(n)
        BY Zenon, <1>2, <2>4, <2>5, <4>1, <4>2 DEF Named, Resolving
      <4>4. n.from = era => Resolved(n)
        BY Zenon, <2>4, <4>1, <4>2 DEF Resolved
      <4> QED BY Zenon, <4>1, <4>3, <4>4
    <3>2. CASE h \in Literals /\ r = [pc |-> "store", from |-> era, name |-> h]
      <4>1. n.name = h /\ n.pc = "store" /\ n.from = era
        BY Zenon, <2>3, <2>4, <3>2 DEF Fields
      <4>2. Named(n)
        BY <1>2, <2>4, <2>5, <4>1 DEF Named, Resolving
      <4>3. Resolved(n)
        BY Zenon, <2>4, <3>2, <4>1 DEF Resolved, AtHost, Home, Good
      <4> QED BY Zenon, <4>1, <4>2, <4>3
    <3>3. CASE h \notin Literals /\ h \in Ported /\ r = [pc |-> "ip", from |-> era, name |-> h, tgt |-> h]
      <4>1. n.name = h /\ n.pc = "ip" /\ n.from = era /\ n.tgt = h
        BY Zenon, <2>3, <2>4, <3>3 DEF Fields
      <4>2. Named(n)
        BY <1>2, <2>4, <2>5, <3>3, <4>1 DEF Named, Resolving
      <4>3. Resolved(n)
        BY Zenon, <2>4, <3>3, <4>1 DEF Resolved, AtHost, Home, Target
      <4> QED BY Zenon, <4>1, <4>2, <4>3
    <3>4. CASE h \notin Literals \cup Ported /\ r = [pc |-> "wk", from |-> era]
      <4>1. n.pc = "wk" /\ n.from = era
        BY Zenon, <2>3, <2>4, <3>4 DEF Fields
      <4> QED BY <1>2, <2>4, <2>5, <3>4, <4>1 DEF Named, Resolved, Resolving
    <3> QED BY Zenon, <2>1, <3>1, <3>2, <3>3, <3>4
  <2> QED BY Zenon, <1>2, <2>2, <2>3, <2>6, FedTask DEF Alone
<1> QED BY Zenon, <1>3, <1>4

LEMMA WellKnownFed ==
  ASSUME LocalInv, FedInv, NEW s \in Slots, RequestWellKnown(s)
  PROVE  FedInv'
<1>1. PICK h, d : h = slot[s].to /\ d = World[h].wk
  BY Zenon
<1>2. slot[s].pc = "wk" /\ UNCHANGED fedVars
  BY Zenon DEF RequestWellKnown, At
<1>3. h \in Names /\ h \notin Literals \cup Ported /\ slot[s].from \in 0 .. era
  BY Zenon, <1>1, <1>2 DEF FedInv, TasksRight, Named, Resolving
<1>4. d # None => d \in Names
  BY Zenon, <1>1, <1>3, WorldNames
<1>5. PICK r : /\ Set(s, r)
               /\ \/ d # None /\ d \in Literals /\ r = [pc |-> "store", name |-> d]
                  \/ d # None /\ d \notin Literals /\ d \in Ported /\ r = [pc |-> "ip", name |-> d, tgt |-> d]
                  \/ d # None /\ d \notin Literals \cup Ported /\ r = [pc |-> "srv", name |-> d]
                  \/ d = None /\ r = [pc |-> "srv", name |-> h, poor |-> FALSE]
                  \/ r = [pc |-> "srv", name |-> h, poor |-> TRUE]
  BY Zenon, <1>1 DEF RequestWellKnown, Delegated
<1>6. PICK n : n = slot'[s]
  BY Zenon
<1>7. Alone(s) /\ \A f \in Fields : n[f] = IF f \in DOMAIN r THEN r[f] ELSE slot[s][f]
  BY ZenonT(40), <1>5, <1>6, FedFields
<1>8. /\ n.to = h /\ n.pc = r.pc /\ n.name = r.name /\ n.from = slot[s].from
      /\ n.pc = "ip" => n.tgt = d
      /\ n.poor = IF "poor" \in DOMAIN r THEN r.poor ELSE slot[s].poor
  BY SMTT(30), <1>1, <1>5, <1>7 DEF Fields
<1>9. Named(n)
  BY SMTT(30), <1>3, <1>4, <1>5, <1>8 DEF Named, Resolving
<1>10. Resolved(n)
  <2>1. CASE d # None /\ r.name = d /\ r.pc \in {"store", "ip", "srv"}
    <3>1. Home(World, h) = AtHost(World, d)
      BY Zenon, <1>1, <1>3, <2>1 DEF Home
    <3>0. (r.pc = "ip" => d \in Ported) /\ (r.pc = "store" => d \in Literals)
      BY <1>5
    <3>2. n.pc = "ip" => d = Target(d)
      BY Zenon, <1>8, <3>0 DEF Target
    <3>3. n.pc = "store" => Good(d)
      BY Zenon, <1>8, <3>0 DEF Good
    <3> QED BY Zenon, <1>8, <2>1, <3>1, <3>2, <3>3 DEF Resolved
  <2>2. CASE d = None /\ r = [pc |-> "srv", name |-> h, poor |-> FALSE]
    BY Zenon, <1>1, <1>3, <1>8, <2>2 DEF Resolved, Home
  <2>3. CASE r = [pc |-> "srv", name |-> h, poor |-> TRUE]
    BY Zenon, <1>8, <2>3 DEF Resolved
  <2> QED BY <1>5, <2>1, <2>2, <2>3
<1> QED BY Zenon, <1>2, <1>6, <1>7, <1>8, <1>9, <1>10, FedTask DEF Alone

LEMMA QuerySrvFed ==
  ASSUME LocalInv, FedInv, NEW s \in Slots, QuerySrv(s)
  PROVE  FedInv'
<1>1. PICK h, t : h = slot[s].name /\ t = World[h].srv
  BY Zenon
<1>2. slot[s].pc = "srv" /\ slot[s].pc \in Out /\ UNCHANGED fedVars
  BY Zenon DEF QuerySrv, At, Out
<1>3. CASE \E res : Return(s, res)
  BY Zenon, <1>2, <1>3, ReturnFed
<1>4. CASE Set(s, [pc |-> "ip", tgt |-> IF t = None THEN h ELSE t])
  <2>1. PICK r : r = [pc |-> "ip", tgt |-> IF t = None THEN h ELSE t]
    BY Zenon
  <2>2. PICK n : n = slot'[s]
    BY Zenon
  <2>3. Alone(s) /\ \A f \in Fields : n[f] = IF f \in DOMAIN r THEN r[f] ELSE slot[s][f]
    BY <1>4, <2>1, <2>2, FedFields
  <2>4. /\ n.to = slot[s].to /\ n.pc = "ip" /\ n.name = h /\ n.from = slot[s].from
        /\ n.poor = slot[s].poor /\ n.tgt = IF t = None THEN h ELSE t
    BY Zenon, <1>1, <2>1, <2>3 DEF Fields
  <2>5. Named(slot[s]) /\ (slot[s].from = era => Resolved(slot[s]))
    BY Zenon DEF FedInv, TasksRight
  <2>6. Named(n)
    BY Zenon, <1>1, <1>2, <2>4, <2>5 DEF Named, Resolving
  <2>7. n.from = era => Resolved(n)
    BY Zenon, <1>1, <1>2, <2>4, <2>5 DEF Resolved, Target, Named
  <2> QED BY Zenon, <1>2, <2>2, <2>3, <2>4, <2>6, <2>7, FedTask DEF Alone
<1> QED BY Zenon, <1>1, <1>3, <1>4 DEF QuerySrv, ResolveError

LEMMA QueryOverrideFed ==
  ASSUME LocalInv, FedInv, NEW s \in Slots, QueryOverride(s)
  PROVE  FedInv'
<1>1. PICK h, ip : h = slot[s].name /\ ip = World[slot[s].tgt].ip
  BY Zenon
<1>2. slot[s].pc = "ip" /\ slot[s].pc \in Out /\ UNCHANGED <<dests, era>>
  BY Zenon DEF QueryOverride, At, Out
<1>3. Named(slot[s]) /\ (slot[s].from = era => Resolved(slot[s]))
  BY Zenon DEF FedInv, TasksRight
<1>4. h \in Names /\ h \notin Literals /\ slot[s].from \in 0 .. era /\ slot[s].to \in Names
  BY Zenon, <1>1, <1>2, <1>3 DEF Named, Resolving
<1>5. slot[s].from = era => slot[s].tgt = Target(h) /\ ip = AtHost(World, h)
  BY Zenon, <1>1, <1>2, <1>3, <1>4, AtTarget DEF Resolved
<1>6. era \in Nat /\ era # 0 /\ overrides[h].era \in 0 .. era
  BY <1>4 DEF FedInv, Tables
<1>7. CASE has_override(h) /\ Set(s, [pc |-> "store", from |-> Aged(s, h)]) /\ UNCHANGED overrides
  <2>1. PICK r : r = [pc |-> "store", from |-> Aged(s, h)]
    BY Zenon
  <2>2. PICK n : n = slot'[s]
    BY Zenon
  <2>3. Alone(s) /\ \A f \in Fields : n[f] = IF f \in DOMAIN r THEN r[f] ELSE slot[s][f]
    BY ZenonT(40), <1>7, <2>1, <2>2, FedFields
  <2>4. /\ n.to = slot[s].to /\ n.pc = "store" /\ n.name = h /\ n.from = Aged(s, h) /\ n.poor = slot[s].poor
    BY Zenon, <1>1, <2>1, <2>3 DEF Fields
  <2>5. /\ Aged(s, h) \in 0 .. era
        /\ Aged(s, h) = era => slot[s].from = era /\ overrides[h].era = era
    BY <1>4, <1>6, <1>7 DEF Aged, Earlier, has_override
  <2>6. Named(n)
    BY Zenon, <1>4, <2>4, <2>5 DEF Named, Resolving
  <2>7. n.from = era => Resolved(n)
    BY Zenon, <1>1, <1>2, <1>3, <2>4, <2>5 DEF Resolved, Good
  <2> QED BY Zenon, <1>2, <1>7, <2>2, <2>3, <2>4, <2>6, <2>7, FedTask DEF Alone, fedVars
<1>8. CASE (\E res : Return(s, res)) /\ UNCHANGED overrides
  BY Zenon, <1>2, <1>8, ReturnFed DEF fedVars
<1>9. CASE /\ ~ has_override(h) /\ Set(s, [pc |-> "store"])
           /\ overrides' = IF ip = None THEN overrides
                           ELSE [overrides EXCEPT ![h] = [to |-> slot[s].tgt, ip |-> ip, valid |-> TRUE,
                                                          era |-> slot[s].from, poor |-> FALSE]]
  <2>1. PICK r : r = [pc |-> "store"]
    BY Zenon
  <2>2. PICK n : n = slot'[s]
    BY Zenon
  <2>3. Alone(s) /\ \A f \in Fields : n[f] = IF f \in DOMAIN r THEN r[f] ELSE slot[s][f]
    BY Zenon, <1>9, <2>1, <2>2, FedFields
  <2>4. /\ n.to = slot[s].to /\ n.pc = "store" /\ n.name = h /\ n.from = slot[s].from /\ n.poor = slot[s].poor
    BY Zenon, <1>1, <2>1, <2>3 DEF Fields
  <2>5. \A t \in Slots : t # s => slot'[t] = slot[t]
    BY Zenon, <2>3 DEF Alone
  <2>6. /\ overrides' = [x \in Names |-> overrides'[x]]
        /\ \A x \in Names : x # h => overrides'[x] = overrides[x]
        /\ ip = None => overrides' = overrides
        /\ ip # None => /\ overrides'[h].to = slot[s].tgt /\ overrides'[h].ip = ip
                        /\ overrides'[h].valid = TRUE /\ overrides'[h].era = slot[s].from
    BY Zenon, <1>4, <1>9 DEF FedInv, Tables
  <2>7. overrides[h].era = era => slot[s].from = era
    BY Zenon, <1>2, <1>4, <1>9 DEF FedInv, Renewed, has_override
  <2>8. \A x \in Names : overrides[x].era = era => overrides'[x].era = era
    BY Zenon, <2>6, <2>7
  <2>9. World' = World
    BY Zenon, <1>2 DEF World
  <2>10. \A x : Target(x)' = Target(x)
    BY Zenon, <2>9 DEF Target
  <2>11. \A x \in Names : Good(x) => Good(x)'
    BY Zenon, <1>2, <2>8, <2>9 DEF Good
  <2>12. Tables'
    BY Zenon, <1>2, <1>4, <2>6 DEF FedInv, Tables
  <2>13. RowsRight'
    <3> SUFFICES ASSUME NEW x \in Names, overrides'[x].era = era
                 PROVE  overrides'[x].to = Target(x) /\ overrides'[x].ip = AtHost(World, x)
      BY Zenon, <1>2, <2>9, <2>10 DEF RowsRight
    <3>1. CASE x # h \/ ip = None
      BY Zenon, <2>6, <3>1 DEF FedInv, RowsRight
    <3>2. CASE x = h /\ ip # None
      BY Zenon, <1>5, <2>6, <3>2
    <3> QED BY Zenon, <3>1, <3>2
  <2>14. DestsRight'
    BY Zenon, <1>2, <2>9, <2>11 DEF FedInv, DestsRight
  <2>15. TasksRight'
    <3>1. Named(n) /\ (n.from = era => (Resolved(slot[s]))')
      <4>1. Named(n)
        BY Zenon, <1>4, <2>4 DEF Named, Resolving
      <4>2. ASSUME n.from = era
            PROVE  (Resolved(slot[s]))'
        <5>1. Good(h)'
          BY Zenon, <1>2, <1>5, <2>4, <2>6, <2>9, <4>2 DEF Good
        <5>2. ~ n.poor => AtHost(World, h) = Home(World, n.to)
          BY Zenon, <1>1, <1>2, <1>3, <2>4, <4>2 DEF Resolved
        <5> QED BY Zenon, <2>2, <2>4, <2>9, <5>1, <5>2 DEF Resolved
      <4> QED BY Zenon, <4>1, <4>2
    <3>2. ASSUME NEW t \in Slots, t # s
          PROVE  Named(slot[t])' /\ (slot'[t].from = era => (Resolved(slot[t]))')
      <4>1. Named(slot[t]) /\ (slot[t].from = era => Resolved(slot[t]))
        BY Zenon DEF FedInv, TasksRight
      <4>2. Named(slot[t])'
        BY Zenon, <1>2, <2>5, <3>2, <4>1 DEF Named
      <4>3. ASSUME slot'[t].from = era
            PROVE  (Resolved(slot[t]))'
        <5>1. Resolved(slot[t]) /\ slot'[t] = slot[t]
          BY Zenon, <2>5, <3>2, <4>1, <4>3
        <5>2. slot[t].pc \in {"store", "connect"} => slot[t].name \in Names
          BY Zenon, <4>1 DEF Named
        <5> QED BY Zenon, <2>9, <2>10, <2>11, <5>1, <5>2 DEF Resolved
      <4> QED BY Zenon, <4>2, <4>3
    <3>3. Named(slot[s])'
      BY Zenon, <1>2, <2>2, <3>1 DEF Named
    <3> QED BY Zenon, <1>2, <2>2, <3>1, <3>2, <3>3 DEF TasksRight
  <2>16. Renewed'
    <3> SUFFICES ASSUME NEW x \in Names, overrides'[x].era = era, ~ overrides'[x].valid,
                        NEW t \in Slots, slot'[t].pc \in {"wk", "srv", "ip"}
                 PROVE  slot'[t].from = era
      BY Zenon, <1>2 DEF Renewed
    <3>1. t # s /\ slot'[t] = slot[t]
      BY Zenon, <2>2, <2>4, <2>5
    <3>2. overrides'[x] = overrides[x]
      BY Zenon, <2>6
    <3> QED BY Zenon, <3>1, <3>2 DEF FedInv, Renewed
  <2> QED BY Zenon, <2>12, <2>13, <2>14, <2>15, <2>16 DEF FedInv
<1> QED BY Zenon, <1>1, <1>7, <1>8, <1>9 DEF QueryOverride, ResolveError

LEMMA SetDestinationFed ==
  ASSUME LocalInv, FedInv, NEW s \in Slots, SetDestination(s)
  PROVE  FedInv'
<1>1. PICK q : q = slot[s]
  BY Zenon
<1>2. q.pc = "store" /\ UNCHANGED <<overrides, era>>
  BY Zenon, <1>1 DEF SetDestination, At
<1>3. Named(q) /\ (q.from = era => Resolved(q))
  BY Zenon, <1>1 DEF FedInv, TasksRight
<1>4. q.to \in Names /\ q.name \in Names /\ q.from \in 0 .. era
  BY Zenon, <1>2, <1>3 DEF Named, Resolving
<1>5. PICK r : r = [pc |-> "connect", tgt |-> None] /\ Set(s, r)
  BY ZenonT(40) DEF SetDestination
<1>6. PICK n : n = slot'[s]
  BY Zenon
<1>7. Alone(s) /\ \A f \in Fields : n[f] = IF f \in DOMAIN r THEN r[f] ELSE q[f]
  BY <1>1, <1>5, <1>6, FedFields
<1>8. n.to = q.to /\ n.pc = "connect" /\ n.name = q.name /\ n.from = q.from /\ n.poor = q.poor
  BY Zenon, <1>5, <1>7 DEF Fields
<1>9. /\ dests' = [x \in Names |-> dests'[x]]
      /\ \A x \in Names : x # q.to => dests'[x] = dests[x]
      /\ dests'[q.to].to = q.name /\ dests'[q.to].era = q.from /\ dests'[q.to].poor = q.poor
  BY Zenon, <1>1, <1>4 DEF SetDestination, FedInv, Tables
<1>10. World' = World
  BY Zenon, <1>2 DEF World
<1>11. \A x : Target(x)' = Target(x) /\ (Good(x)' <=> Good(x))
  BY Zenon, <1>2, <1>10 DEF Target, Good
<1>12. Tables' /\ RowsRight'
  BY Zenon, <1>2, <1>4, <1>9, <1>10, <1>11 DEF FedInv, Tables, RowsRight
<1>13. DestsRight'
  <2> SUFFICES ASSUME NEW x \in Names, dests'[x].valid
               PROVE  /\ dests'[x].to \in Names
                      /\ dests'[x].era = era /\ ~ dests'[x].poor =>
                           AtHost(World, dests'[x].to) = Home(World, x) /\ Good(dests'[x].to)
    BY Zenon, <1>2, <1>10, <1>11 DEF DestsRight
  <2>1. CASE x = q.to
    BY Zenon, <1>2, <1>3, <1>4, <1>9, <2>1 DEF Resolved
  <2>2. CASE x # q.to
    BY Zenon, <1>9, <2>2 DEF FedInv, DestsRight
  <2> QED BY Zenon, <2>1, <2>2
<1>14. \A t \in Slots : t # s => slot'[t] = slot[t]
  BY Zenon, <1>7 DEF Alone
<1>15. TasksRight'
  <2> SUFFICES ASSUME NEW t \in Slots
               PROVE  Named(slot'[t]) /\ (slot'[t].from = era => Resolved(slot'[t]))
    BY Zenon, <1>2, <1>10, <1>11 DEF TasksRight, Named, Resolved
  <2>1. CASE t = s
    <3>1. Named(n)
      BY Zenon, <1>4, <1>8 DEF Named, Resolving
    <3>2. n.from = era => Resolved(n)
      BY Zenon, <1>2, <1>3, <1>8 DEF Resolved
    <3> QED BY Zenon, <1>6, <2>1, <3>1, <3>2
  <2>2. CASE t # s
    BY Zenon, <1>14, <2>2 DEF FedInv, TasksRight
  <2> QED BY Zenon, <2>1, <2>2
<1>16. Renewed'
  BY Zenon, <1>2, <1>6, <1>8, <1>14 DEF FedInv, Renewed
<1> QED BY Zenon, <1>12, <1>13, <1>15, <1>16 DEF FedInv

LEMMA PerformFed ==
  ASSUME LocalInv, FedInv, NEW s \in Slots, Perform(s)
  PROVE  FedInv'
<1>1. PICK h : h = slot[s].name
  BY Zenon
<1>2. slot[s].pc = "connect" /\ slot[s].pc \in Out /\ UNCHANGED fedVars
  BY Zenon DEF Perform, At, Out
<1>3. CASE \E res : Return(s, res)
  BY Zenon, <1>2, <1>3, ReturnFed
<1>4. CASE Set(s, [pc |-> "sent", addr |-> HookedResolve(h),
                   from |-> IF h \in Literals THEN slot[s].from ELSE Aged(s, h)])
  <2>1. PICK r : r = [pc |-> "sent", addr |-> HookedResolve(h),
                      from |-> IF h \in Literals THEN slot[s].from ELSE Aged(s, h)]
    BY Zenon
  <2>2. PICK n : n = slot'[s]
    BY Zenon
  <2>3. Alone(s) /\ \A f \in Fields : n[f] = IF f \in DOMAIN r THEN r[f] ELSE slot[s][f]
    BY <1>4, <2>1, <2>2, FedFields
  <2>4. /\ n.to = slot[s].to /\ n.pc = "sent" /\ n.poor = slot[s].poor /\ n.addr = HookedResolve(h)
        /\ n.from = IF h \in Literals THEN slot[s].from ELSE Aged(s, h)
    BY Zenon, <2>1, <2>3 DEF Fields
  <2>5. Named(slot[s]) /\ (slot[s].from = era => Resolved(slot[s]))
    BY Zenon DEF FedInv, TasksRight
  <2>6. h \in Names /\ slot[s].to \in Names /\ slot[s].from \in 0 .. era
    BY Zenon, <1>1, <1>2, <2>5 DEF Named, Resolving
  <2>7. era \in Nat /\ overrides[h].era \in 0 .. era
    BY SMTT(30), <2>6 DEF FedInv, Tables
  <2>8. n.from \in 0 .. era /\ (n.from = era => slot[s].from = era)
    BY <2>4, <2>6, <2>7 DEF Aged, Earlier
  <2>9. Named(n)
    BY Zenon, <2>4, <2>6, <2>8 DEF Named
  <2>10. ASSUME n.from = era, ~ n.poor, Home(World, n.to) # None
         PROVE  n.addr = Home(World, n.to)
    <3>1. AtHost(World, h) = Home(World, n.to) /\ Good(h)
      BY Zenon, <1>1, <1>2, <2>4, <2>5, <2>8, <2>10 DEF Resolved
    <3>2. CASE h \in Literals
      BY Zenon, <2>4, <3>1, <3>2 DEF AtHost, HookedResolve
    <3>3. CASE h \notin Literals
      <4>1. overrides[h].to = Target(h) /\ overrides[h].ip = AtHost(World, h)
        BY Zenon, <2>6, <2>10, <3>1, <3>3 DEF Good, FedInv, RowsRight
      <4>2. AtHost(World, h) = World[Target(h)].ip
        BY Zenon, <3>3, AtTarget
      <4>3. CASE overrides[h].valid
        BY ZenonT(40), <2>4, <3>1, <3>3, <4>1, <4>3 DEF HookedResolve
      <4>4. CASE ~ overrides[h].valid
        <5>1. Target(h) \in {None, h} => Target(h) = h
          BY Zenon DEF Target
        <5> QED BY SMTT(30), <2>4, <3>1, <3>3, <4>1, <4>2, <4>4, <5>1 DEF HookedResolve
      <4> QED BY Zenon, <4>3, <4>4
    <3> QED BY Zenon, <3>2, <3>3
  <2>11. n.from = era => Resolved(n)
    BY Zenon, <2>4, <2>10 DEF Resolved
  <2> QED BY Zenon, <1>2, <2>2, <2>3, <2>4, <2>9, <2>11, FedTask DEF Alone
<1> QED BY Zenon, <1>1, <1>3, <1>4 DEF Perform

LEMMA FedStepInv ==
  ASSUME LocalInv, FedInv, NEW s \in Slots, FedStep(s)
  PROVE  FedInv'
<1>1. CASE Response(s)
  <2>1. slot[s].pc \in Out /\ UNCHANGED fedVars
    BY Zenon, <1>1 DEF Response, At, Out
  <2>2. \E res : Return(s, res)
    BY Zenon, <1>1 DEF Response
  <2> QED BY Zenon, <2>1, <2>2, ReturnFed
<1> QED BY Zenon, <1>1, ExecuteOnFed, WellKnownFed, QuerySrvFed, QueryOverrideFed, SetDestinationFed,
       PerformFed DEF FedStep

-----------------------------------------------------------------------------
(* The steps that no request takes.                                        *)

(* The environment.                                                        *)

LEMMA PoorLocal ==
  ASSUME NEW q, Local(q), NEW n, n = Update(q, [poor |-> TRUE])
  PROVE  /\ Local(n) /\ n.pc = q.pc /\ n.job = q.job
         /\ n.poor = TRUE /\ n.to = q.to /\ n.from = q.from /\ n.name = q.name /\ n.tgt = q.tgt
<1>1. DOMAIN q = Fields
  BY Zenon DEF Local, Control
<1>2. DOMAIN n = Fields /\ n.poor = TRUE /\ \A f \in Fields \ {"poor"} : n[f] = q[f]
  BY Zenon, <1>1 DEF Update, Fields
<1>3. /\ n.pc = q.pc /\ n.job = q.job /\ n.work = q.work /\ n.back = q.back /\ n.bad = q.bad
      /\ n.key = q.key /\ n.keys = q.keys /\ n.tgt = q.tgt /\ n.res = q.res /\ n.seen = q.seen
      /\ n.miss = q.miss /\ n.to = q.to /\ n.from = q.from /\ n.name = q.name
  BY Zenon, <1>2 DEF Fields
<1>4. Control(n)
  BY Zenon, <1>2, <1>3 DEF Local, Control, InGet, InKeys
<1>5. Holds(n) /\ Verdict(n)
  BY Zenon, <1>3 DEF Local, Holds, Verdict, InKeys
<1> QED BY Zenon, <1>2, <1>3, <1>4, <1>5 DEF Local

LEMMA ExpireFed ==
  ASSUME FedInv, Expire
  PROVE  FedInv'
<1>1. /\ slot' = slot /\ era' = era /\ World' = World
      /\ \A s \in Slots : slot[s].pc \notin {"wk", "srv", "ip", "store", "connect"}
  BY Zenon DEF Expire, World, Resolving
<1>2. /\ dests' = [n \in Names |-> dests'[n]] /\ overrides' = [n \in Names |-> overrides'[n]]
      /\ \A n \in Names :
           /\ dests'[n].to = dests[n].to /\ dests'[n].era = dests[n].era /\ dests'[n].poor = dests[n].poor
           /\ dests'[n].valid => dests[n].valid
           /\ overrides'[n].to = overrides[n].to /\ overrides'[n].era = overrides[n].era
           /\ overrides'[n].ip = overrides[n].ip
  <2>1. CASE /\ \E n \in Names : dests' = [dests EXCEPT ![n].valid = FALSE]
             /\ UNCHANGED overrides
    <3>1. PICK n \in Names : dests' = [dests EXCEPT ![n].valid = FALSE]
      BY Zenon, <2>1
    <3>2. \A x \in Names : dests'[x] = IF x = n THEN [dests[x] EXCEPT !.valid = FALSE] ELSE dests[x]
      BY Zenon, <3>1 DEF FedInv, Tables
    <3>3. dests' = [x \in Names |-> dests'[x]]
      BY Zenon, <3>1 DEF FedInv, Tables
    <3> QED BY <2>1, <3>2, <3>3 DEF FedInv, Tables
  <2>2. CASE /\ \E n \in Names : overrides' = [overrides EXCEPT ![n].valid = FALSE]
             /\ UNCHANGED dests
    <3>1. PICK n \in Names : overrides' = [overrides EXCEPT ![n].valid = FALSE]
      BY Zenon, <2>2
    <3>2. \A x \in Names : overrides'[x] = IF x = n THEN [overrides[x] EXCEPT !.valid = FALSE] ELSE overrides[x]
      BY Zenon, <3>1 DEF FedInv, Tables
    <3>3. overrides' = [x \in Names |-> overrides'[x]]
      BY Zenon, <3>1 DEF FedInv, Tables
    <3> QED BY <2>2, <3>2, <3>3 DEF FedInv, Tables
  <2> QED BY Zenon, <2>1, <2>2 DEF Expire
<1>3. \A n \in Names : Target(n)' = Target(n) /\ (Good(n)' <=> Good(n))
  BY Zenon, <1>1, <1>2 DEF Target, Good
<1>4. Tables' /\ RowsRight' /\ Renewed'
  BY SMTT(30), <1>1, <1>2, <1>3 DEF FedInv, Tables, RowsRight, Renewed
<1>5. DestsRight'
  BY <1>1, <1>2, <1>3 DEF FedInv, DestsRight
<1>6. TasksRight'
  <2> SUFFICES ASSUME NEW t \in Slots
               PROVE  Named(slot[t])' /\ (slot[t].from = era => (Resolved(slot[t]))')
    BY Zenon, <1>1 DEF TasksRight
  <2>1. Named(slot[t]) /\ (slot[t].from = era => Resolved(slot[t]))
    BY Zenon DEF FedInv, TasksRight
  <2> QED BY Zenon, <1>1, <2>1 DEF Named, Resolved
<1> QED BY Zenon, <1>4, <1>5, <1>6 DEF FedInv

LEMMA MoveFed ==
  ASSUME FedInv, Move
  PROVE  FedInv'
<1>1. slot' = slot /\ dests' = dests /\ overrides' = overrides /\ era' = era + 1 /\ era' \in 1 .. Len(Worlds)
  BY WorldsAssumption DEF Move, FedInv, Tables
<1>2. era \in Nat /\ \A n \in Names : overrides[n].era \in 0 .. era /\ dests[n].era \in 0 .. era
  BY WorldsAssumption DEF FedInv, Tables
<1>3. Tables' /\ RowsRight' /\ Renewed'
  BY SMTT(30), <1>1, <1>2 DEF FedInv, Tables, RowsRight, Renewed
<1>4. DestsRight'
  BY <1>1, <1>2 DEF FedInv, DestsRight
<1>5. TasksRight'
  <2> SUFFICES ASSUME NEW t \in Slots
               PROVE  Named(slot[t])' /\ (slot[t].from = era' => (Resolved(slot[t]))')
    BY Zenon, <1>1 DEF TasksRight
  <2>1. Named(slot[t])
    BY Zenon DEF FedInv, TasksRight
  <2>2. Named(slot[t])'
    BY SMTT(30), <1>1, <1>2, <2>1 DEF Named
  <2>3. slot[t].pc \in Resolving \cup {"sent"} => slot[t].from # era'
    BY <1>1, <1>2, <2>1 DEF Named
  <2>4. slot[t].from = era' => (Resolved(slot[t]))'
    BY Zenon, <1>1, <2>3 DEF Resolved, Resolving
  <2> QED BY Zenon, <2>2, <2>4
<1> QED BY Zenon, <1>3, <1>4, <1>5 DEF FedInv
=============================================================================
