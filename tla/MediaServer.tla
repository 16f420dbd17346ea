----------------------------- MODULE MediaServer ----------------------------
(***************************************************************************)
(* The media repository, the signing keys of other servers and the         *)
(* resolver, composed: the tasks' requests go from one to the other.       *)
(***************************************************************************)
EXTENDS Media, ServerKeys

CONSTANT Works      \* the cases: [works: Slots -> requests, left, init]

Requests == UNION {{c.works[s][i] : i \in DOMAIN c.works[s]} : c \in Works, s \in Slots}

\* A request names what its handler uses.
Valid(q) ==
    /\ DOMAIN q = {"op", "mxc", "dim", "user", "url", "need"}
    /\ q.op \in {"upload", "preview", "get", "legacyget", "fedget", "adminget",
                 "thumb", "legacythumb", "fedthumb", "adminthumb"} => q.mxc \in Mxcs
    /\ q.op \in {"thumb", "legacythumb", "fedthumb", "adminthumb"} => q.dim \in Dims
    /\ q.op = "preview" => q.url \in Urls

ASSUME WorksAssumption ==
    /\ None \notin Slots
    /\ \A q \in Requests : Valid(q)
    /\ \A c \in Works : c.stored \subseteq Mxcs /\ \A s \in Slots : c.works[s] \in Seq(Requests)

vars == <<slot, left, fedVars, keys, mediaVars>>

\* The media directory at the start of a case: what is stored, under which names.
InitMedia(c) ==
    /\ rows = {<<m, "orig", "named">> : m \in c.stored}
    /\ owners = {<<m, "alice">> : m \in {m \in c.stored : ServerOf[m] = Ours}}
    /\ migrated = (c.files # "legacy")
    /\ new = [k \in Keys |-> IF k \in rows /\ c.files = "new" THEN "whole" ELSE "absent"]
    /\ old = [k \in Keys |-> IF k \in rows /\ c.files # "new" THEN "file" ELSE "none"]
    /\ compat \in c.compat
    /\ previews = {} /\ previewing = [u \in Urls |-> None]
    /\ phase = "start" /\ todo = {} /\ torn = {} /\ raced = {}

Init == \E c \in Works :
          /\ slot = [s \in Slots |-> Start(c.works[s])]
          /\ left = c.left
          /\ FedInit /\ KeyInit /\ InitMedia(c)

Task(s) == phase = "up" /\ (\/ FedStep(s) /\ UNCHANGED <<keys, mediaVars>>
                            \/ KeyStep(s) /\ UNCHANGED mediaVars
                            \/ MediaStep(s) /\ UNCHANGED keys)

Env == \/ FedEnv /\ UNCHANGED <<keys, mediaVars>>
       \/ Crash /\ UNCHANGED keys

Next == \/ \E s \in Slots : Task(s)
        \/ StartStep /\ UNCHANGED keys
        \/ Env

Spec == Init /\ [][Next]_vars
=============================================================================
