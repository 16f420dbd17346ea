---------------------------- MODULE MediaProofs -----------------------------
(***************************************************************************)
(* The media repository: rows and files, previews, and the theorems about  *)
(* media, signing keys and the resolver together.                          *)
(***************************************************************************)
EXTENDS MediaTaskProofs

(* The rows and the files.  A row without its file has a task that will    *)
(* write the file or remove the row; a file without a row, of a media that *)
(* was never created and deleted at once, has a task that will remove it.  *)

Owes(q, k) == q.key = k /\ (q.pc \in {"create", "rm2", "rmrows"} \/ (q.pc = "write" /\ ~ q.bad))

Kept == \A k \in rows : \/ k \in torn \/ new[k] \in {"whole", "loop"} \/ old[k] = "file"
                        \/ \E s \in Slots : Owes(slot[s], k)

Stores(q, m) == q.pc \in {"create", "write"} /\ q.key[1] = m
Deletes(q, m) == q.pc \in DeletePcs /\ q.tgt = m

Apart == \A s, t \in Slots : \A m \in Mxcs \ raced : ~ (Stores(slot[s], m) /\ Deletes(slot[t], m))

StoredRow == \A s \in Slots : \A m \in Mxcs \ raced : Stores(slot[s], m) => slot[s].key \in rows

DeletesAll == \A s \in Slots : \A m \in Mxcs \ raced : Deletes(slot[s], m) => KeysOf(m) \subseteq slot[s].keys

Removed(q) ==
  /\ q.pc = "rmrows" => new[q.key] = "absent" /\ old[q.key] = "none"
  /\ q.pc = "rm2" /\ q.name = "new" => old[q.key] = "none"
  /\ q.pc = "rm2" /\ q.name # "new" => new[q.key] = "absent"

RemovedAll == \A s \in Slots : \A m \in Mxcs \ raced : Deletes(slot[s], m) => Removed(slot[s])

WillRemove(q, k) == Deletes(q, k[1]) /\ k \in q.keys /\ ~ (q.pc = "rmrows" /\ q.key = k)

Orphaned == \A k \in Keys \ rows :
               k[1] \in raced \/ (new[k] = "absent" /\ old[k] = "none") \/ \E s \in Slots : WillRemove(slot[s], k)

Directory ==
  /\ new = [k \in Keys |-> new[k]] /\ old = [k \in Keys |-> old[k]]
  /\ rows \subseteq Keys
  /\ phase # "up" => todo \subseteq rows /\ \A s \in Slots : slot[s].pc = "done"

FilesInv == Directory /\ Kept /\ Apart /\ StoredRow /\ DeletesAll /\ RemovedAll /\ Orphaned

(* Who previews a URL holds its lock, and no preview is stored then.       *)
PreviewInv ==
  /\ previewing = [u \in Urls |-> previewing[u]]
  /\ \A s \in Slots : Asking(s) => Url(s) \in Urls /\ previewing[Url(s)] = s /\ Url(s) \notin previews



(* A step that neither touches the directory nor begins or ends a store or *)
(* a deletion.                                                             *)
Critical == {"create", "write"} \cup DeletePcs

LEMMA QuietAll ==
  ASSUME LocalInv, FilesInv, UNCHANGED <<rows, new, old, phase, todo, torn, raced>>,
         phase # "up" => \A t \in Slots : slot'[t].pc = slot[t].pc,
         \A t \in Slots : slot[t].pc \in Critical \/ slot'[t].pc \in Critical => slot'[t] = slot[t]
  PROVE  FilesInv'
<1>1. Directory'
  BY Zenon DEF FilesInv, Directory
<1>2. \A t \in Slots : slot[t].pc \in Critical \/ slot'[t].pc \in Critical => slot'[t] = slot[t]
  BY Zenon
<1>3. Kept'
  <2> SUFFICES ASSUME NEW k \in rows, NEW t \in Slots, Owes(slot[t], k)
               PROVE  Owes(slot'[t], k)
    BY Zenon DEF FilesInv, Kept
  <2> QED BY Zenon, <1>2 DEF Owes, Critical, DeletePcs
<1>4. Apart'
  BY <1>2 DEF FilesInv, Apart, Stores, Deletes, Critical
<1>5. StoredRow'
  BY Zenon, <1>2 DEF FilesInv, StoredRow, Stores, Critical
<1>6. DeletesAll'
  BY Zenon, <1>2 DEF FilesInv, DeletesAll, Deletes, Critical, KeysOf
<1>7. RemovedAll'
  BY Zenon, <1>2 DEF FilesInv, RemovedAll, Deletes, Removed, Critical
<1>8. Orphaned'
  <2> SUFFICES ASSUME NEW k \in Keys \ rows, NEW t \in Slots, WillRemove(slot[t], k)
               PROVE  WillRemove(slot'[t], k)
    BY Zenon DEF FilesInv, Orphaned
  <2> QED BY Zenon, <1>2 DEF WillRemove, Deletes, Critical
<1> QED BY Zenon, <1>1, <1>3, <1>4, <1>5, <1>6, <1>7, <1>8 DEF FilesInv

LEMMA Quiet ==
  ASSUME LocalInv, FilesInv, phase = "up", NEW s \in Slots, Alone(s),
         UNCHANGED <<rows, new, old, phase, todo, torn, raced>>,
         slot[s].pc \notin Critical, slot'[s].pc \notin Critical
  PROVE  FilesInv'
<1>1. \A t \in Slots : slot[t].pc \in Critical \/ slot'[t].pc \in Critical => slot'[t] = slot[t]
  BY Zenon DEF Alone
<1> QED BY Zenon, <1>1, QuietAll

-----------------------------------------------------------------------------
(* Steps on the directory.                                                 *)

LEMMA CreateMetadataFiles ==
  ASSUME LocalInv, FilesInv, phase = "up", NEW s \in Slots, CreateMetadata(s)
  PROVE  /\ FilesInv' /\ Alone(s) /\ Local(slot'[s]) /\ slot'[s].job = slot[s].job
         /\ slot'[s].pc = "create"
<1>1. /\ Alone(s) /\ Local(slot'[s]) /\ slot'[s].job = slot[s].job /\ slot'[s].pc = "create"
      /\ slot'[s].key = slot[s].key
  <2>1. PICK r : r = [pc |-> "create", ask |-> {}]
    BY Zenon
  <2>2. Set(s, r) /\ slot[s].pc = "meta" /\ slot[s].pc \in StorePcs /\ r.pc = "create"
    BY Zenon, <2>1 DEF CreateMetadata, At, StorePcs
  <2> QED BY Zenon, <2>1, <2>2, StoreChange
<1>2. PICK k : k = slot[s].key
  BY Zenon
<1>3. PICK m : m = Mxc(s)
  BY Zenon
<1>4. slot[s].pc = "meta" /\ k \in Keys /\ k[1] = m
  BY Zenon, <1>2, <1>3 DEF CreateMetadata, At, LocalInv, Local, Holds, StorePcs, Mxc
<1>5. /\ rows' = rows \cup {k} /\ raced \subseteq raced' /\ UNCHANGED <<new, old, phase, todo, torn>>
      /\ m \notin raced' => \A t \in Slots : ~ Deletes(slot[t], m)
  BY Zenon, <1>2, <1>3 DEF CreateMetadata, Meet, Deleting, Deletes, DeletePcs, files
<1>6. /\ \A t \in Slots : slot[t].pc \in Critical => slot'[t] = slot[t]
      /\ \A t \in Slots : slot'[t].pc \in DeletePcs => slot'[t] = slot[t]
      /\ \A t \in Slots : slot'[t].pc \in Critical => slot'[t] = slot[t] \/ t = s
  BY Zenon, <1>1, <1>4 DEF Alone, Critical, DeletePcs
<1>7. Directory'
  BY Zenon, <1>4, <1>5 DEF FilesInv, Directory
<1>8. Kept'
  <2>1. ASSUME NEW l \in rows, NEW t \in Slots, Owes(slot[t], l)
        PROVE  Owes(slot'[t], l)
    BY Zenon, <1>6, <2>1 DEF Owes, Critical, DeletePcs
  <2>2. Owes(slot'[s], k)
    BY Zenon, <1>1, <1>2 DEF Owes
  <2> QED BY Zenon, <1>5, <2>1, <2>2 DEF FilesInv, Kept
<1>9. Apart'
  <2> SUFFICES ASSUME NEW t \in Slots, NEW u \in Slots, NEW x \in Mxcs \ raced',
                      Stores(slot'[t], x), Deletes(slot'[u], x)
               PROVE  FALSE
    BY Zenon DEF Apart
  <2>1. Deletes(slot[u], x)
    BY Zenon, <1>6 DEF Deletes
  <2>2. CASE t = s
    BY Zenon, <1>1, <1>2, <1>4, <1>5, <2>1, <2>2 DEF Stores
  <2>3. CASE t # s
    BY Zenon, <1>1, <1>5, <2>1, <2>3 DEF FilesInv, Apart, Alone
  <2> QED BY Zenon, <2>2, <2>3
<1>10. StoredRow'
  BY Zenon, <1>1, <1>2, <1>5, <1>6 DEF FilesInv, StoredRow, Stores, Critical
<1>11. DeletesAll'
  <2> SUFFICES ASSUME NEW t \in Slots, NEW x \in Mxcs \ raced', Deletes(slot'[t], x),
                      NEW l \in rows', l[1] = x
               PROVE  l \in slot'[t].keys
    BY Zenon DEF DeletesAll, KeysOf
  <2>1. slot'[t] = slot[t] /\ Deletes(slot[t], x) /\ x \notin raced
    BY Zenon, <1>5, <1>6 DEF Deletes
  <2>2. l \in rows
    BY Zenon, <1>4, <1>5, <2>1
  <2> QED BY Zenon, <2>1, <2>2 DEF FilesInv, DeletesAll, KeysOf
<1>12. RemovedAll'
  BY <1>5, <1>6 DEF FilesInv, RemovedAll, Deletes, Removed
<1>13. Orphaned'
  <2> SUFFICES ASSUME NEW l \in Keys \ rows, NEW t \in Slots, WillRemove(slot[t], l)
               PROVE  WillRemove(slot'[t], l)
    BY Zenon, <1>5 DEF FilesInv, Orphaned
  <2> QED BY Zenon, <1>6 DEF WillRemove, Deletes, Critical
<1> QED BY Zenon, <1>1, <1>7, <1>8, <1>9, <1>10, <1>11, <1>12, <1>13 DEF FilesInv

LEMMA StoreFiles ==
  ASSUME LocalInv, FilesInv, phase = "up", NEW s \in Slots, slot[s].pc \in {"create", "write"},
         Alone(s), UNCHANGED <<rows, phase, todo, raced>>, NEW k, k = slot[s].key,
         new' = [l \in Keys |-> new'[l]], old' = [l \in Keys |-> old'[l]],
         \A l \in Keys : l # k => new'[l] = new[l] /\ old'[l] = old[l] /\ (l \in torn => l \in torn'),
         slot'[s].pc \notin DeletePcs,
         slot'[s].pc \in {"create", "write"} => slot'[s].key = k,
         \/ k \in torn' \/ new'[k] = "whole" \/ Owes(slot'[s], k)
         \/ slot[s].bad /\ slot[s].pc = "write" /\ UNCHANGED <<new, old, torn>>
  PROVE  FilesInv'
<1>1. k \in Keys /\ k[1] \in Mxcs
  BY Zenon DEF LocalInv, Local, Holds, StorePcs, Keys
<1>2. /\ \A t \in Slots : slot'[t].pc \in DeletePcs => slot'[t] = slot[t]
      /\ \A t \in Slots : slot[t].pc \in DeletePcs => slot'[t] = slot[t]
      /\ \A t \in Slots : t # s => slot'[t] = slot[t]
  BY Zenon DEF Alone, DeletePcs
<1>3. ASSUME NEW m \in Mxcs \ raced, k[1] = m
      PROVE  k \in rows /\ \A t \in Slots : ~ Deletes(slot[t], m)
  <2>1. Stores(slot[s], m)
    BY Zenon, <1>3 DEF Stores
  <2> QED BY Zenon, <1>3, <2>1 DEF FilesInv, Apart, StoredRow
<1>4. Directory'
  BY Zenon DEF FilesInv, Directory
<1>5. Kept'
  <2> SUFFICES ASSUME NEW l \in rows
               PROVE  \/ l \in torn' \/ new'[l] \in {"whole", "loop"} \/ old'[l] = "file"
                      \/ \E t \in Slots : Owes(slot'[t], l)
    BY Zenon DEF Kept
  <2>1. l \in Keys
    BY Zenon DEF FilesInv, Directory
  <2>2. \/ l \in torn \/ new[l] \in {"whole", "loop"} \/ old[l] = "file"
        \/ \E t \in Slots : Owes(slot[t], l)
    BY Zenon DEF FilesInv, Kept
  <2>3. CASE l # k
    <3>1. \A t \in Slots : Owes(slot[t], l) => Owes(slot'[t], l)
      BY Zenon, <1>2, <2>3 DEF Owes
    <3> QED BY Zenon, <2>1, <2>2, <2>3, <3>1
  <2>4. CASE l = k /\ (k \in torn' \/ new'[k] = "whole" \/ Owes(slot'[s], k))
    BY Zenon, <2>4
  <2>5. CASE slot[s].bad /\ slot[s].pc = "write" /\ UNCHANGED <<new, old, torn>>
    <3>1. \A t \in Slots : Owes(slot[t], l) => Owes(slot'[t], l)
      BY Zenon, <1>2, <2>5 DEF Owes
    <3> QED BY Zenon, <2>2, <2>5, <3>1
  <2> QED BY Zenon, <2>3, <2>4, <2>5
<1>6. \A t \in Slots : \A m \in Mxcs : Stores(slot'[t], m) => Stores(slot[t], m) /\ slot'[t].key = slot[t].key
  BY Zenon, <1>2 DEF Stores
<1>7. Apart'
  BY <1>2, <1>6 DEF FilesInv, Apart, Deletes
<1>8. StoredRow'
  BY Zenon, <1>6 DEF FilesInv, StoredRow
<1>9. DeletesAll'
  BY <1>2 DEF FilesInv, DeletesAll, Deletes, KeysOf
<1>10. RemovedAll'
  <2> SUFFICES ASSUME NEW t \in Slots, NEW m \in Mxcs \ raced, Deletes(slot'[t], m)
               PROVE  Removed(slot[t])'
    BY Zenon DEF RemovedAll, Deletes, Removed
  <2>1. slot'[t] = slot[t] /\ Deletes(slot[t], m) /\ k[1] # m
    BY Zenon, <1>2, <1>3 DEF Deletes
  <2>2. Removed(slot[t])
    BY Zenon, <2>1 DEF FilesInv, RemovedAll
  <2>3. slot[t].pc \in {"rm2", "rmrows"} => slot[t].key \in Keys /\ slot[t].key[1] = m
    BY Zenon, <2>1 DEF LocalInv, Local, Holds, Deletes, DeletePcs
  <2> QED BY Zenon, <2>1, <2>2, <2>3 DEF Removed
<1>11. Orphaned'
  <2> SUFFICES ASSUME NEW l \in Keys \ rows, l[1] \notin raced
               PROVE  (new'[l] = "absent" /\ old'[l] = "none") \/ \E t \in Slots : WillRemove(slot'[t], l)
    BY Zenon DEF Orphaned
  <2>1. l # k
    BY Zenon, <1>1, <1>3
  <2>2. \A t \in Slots : WillRemove(slot[t], l) => WillRemove(slot'[t], l)
    BY Zenon, <1>2 DEF WillRemove, Deletes
  <2> QED BY Zenon, <2>1, <2>2 DEF FilesInv, Orphaned
<1> QED BY Zenon, <1>4, <1>5, <1>7, <1>8, <1>9, <1>10, <1>11 DEF FilesInv

StoreEnd(s) ==
  /\ Alone(s) /\ Local(slot'[s]) /\ previews' = previews
  /\ \/ slot'[s].pc \in {"write", "prevset"} /\ slot'[s].job = slot[s].job /\ previewing' = previewing
     \/ slot'[s].pc = "done" /\ (previewing' = previewing \/ Unlock(s))

LEMMA CreateFileFiles ==
  ASSUME LocalInv, FilesInv, phase = "up", NEW s \in Slots, CreateFile(s)
  PROVE  FilesInv' /\ StoreEnd(s)
<1>1. PICK k : k = slot[s].key
  BY Zenon
<1>2. slot[s].pc = "create" /\ k \in Keys /\ ~ slot[s].bad
  BY Zenon, <1>1 DEF CreateFile, At, LocalInv, Local, Control, Holds, StorePcs
<1>3. UNCHANGED <<rows, phase, todo, raced, previews>>
  BY Zenon DEF CreateFile
<1>4. CASE /\ new' = [new EXCEPT ![k] = "part"]
           /\ old' = [old EXCEPT ![k] = IF compat /\ @ = "none" THEN "link" ELSE @]
           /\ Set(s, [pc |-> "write"])
           /\ UNCHANGED <<left, torn, previewing>>
  <2>1. PICK r : r = [pc |-> "write"]
    BY Zenon
  <2>2. Set(s, r) /\ slot[s].pc \in StorePcs /\ r.pc = "write"
    BY Zenon, <1>2, <1>4, <2>1 DEF StorePcs
  <2>3. /\ Alone(s) /\ Local(slot'[s]) /\ slot'[s].job = slot[s].job
        /\ slot'[s].pc = "write" /\ slot'[s].bad = slot[s].bad /\ slot'[s].key = k
    BY Zenon, <1>1, <1>2, <2>1, <2>2, StoreChange
  <2>4. /\ new' = [l \in Keys |-> new'[l]] /\ old' = [l \in Keys |-> old'[l]]
        /\ \A l \in Keys : l # k => new'[l] = new[l] /\ old'[l] = old[l]
    BY Zenon, <1>4 DEF FilesInv, Directory
  <2>5. Owes(slot'[s], k) /\ slot'[s].pc \notin DeletePcs
    BY Zenon, <1>2, <2>3 DEF Owes, DeletePcs
  <2>6. FilesInv'
    BY ZenonT(40), <1>1, <1>2, <1>3, <1>4, <2>3, <2>4, <2>5, StoreFiles
  <2> QED BY Zenon, <1>3, <1>4, <2>3, <2>6 DEF StoreEnd
<1>5. CASE torn' = torn \cup {k} /\ Finish(s, "ioerr") /\ Unlock(s) /\ UNCHANGED files
  <2>1. Alone(s) /\ Local(slot'[s]) /\ slot'[s].pc = "done"
    BY Zenon, <1>5, FinishStep
  <2>2. /\ new' = [l \in Keys |-> new'[l]] /\ old' = [l \in Keys |-> old'[l]]
        /\ \A l \in Keys : l # k => new'[l] = new[l] /\ old'[l] = old[l] /\ (l \in torn => l \in torn')
    BY Zenon, <1>5 DEF FilesInv, Directory, files
  <2>3. FilesInv'
    BY <1>1, <1>2, <1>3, <1>5, <2>1, <2>2, StoreFiles DEF DeletePcs
  <2> QED BY Zenon, <1>3, <1>5, <2>1, <2>3 DEF StoreEnd
<1> QED BY Zenon, <1>1, <1>4, <1>5 DEF CreateFile

LEMMA WriteFileFiles ==
  ASSUME LocalInv, FilesInv, phase = "up", NEW s \in Slots, WriteFile(s)
  PROVE  FilesInv' /\ StoreEnd(s)
<1>1. PICK k : k = slot[s].key
  BY Zenon
<1>2. slot[s].pc = "write" /\ k \in Keys
  BY Zenon, <1>1 DEF WriteFile, At, LocalInv, Local, Holds, StorePcs
<1>3. UNCHANGED <<rows, phase, todo, raced, previews, old>>
  BY Zenon DEF WriteFile
<1>4. CASE /\ new' = IF slot[s].bad THEN new ELSE [new EXCEPT ![k] = "whole"]
           /\ torn' = IF slot[s].bad THEN torn ELSE torn \ {k}
           /\ IF slot[s].job.op = "preview" THEN Set(s, [pc |-> "prevset", key |-> None])
              ELSE Finish(s, "whole")
           /\ UNCHANGED <<left, previewing>>
  <2>1. /\ Alone(s) /\ Local(slot'[s])
        /\ \/ slot'[s].pc = "prevset" /\ slot'[s].job = slot[s].job
           \/ slot'[s].pc = "done"
    <3>1. CASE slot[s].job.op = "preview"
      <4>1. PICK r : r = [pc |-> "prevset", key |-> None]
        BY Zenon
      <4>2. Set(s, r) /\ slot[s].pc \in StorePcs /\ r.pc = "prevset"
        BY Zenon, <1>2, <1>4, <3>1, <4>1 DEF StorePcs
      <4> QED BY Zenon, <1>2, <3>1, <4>1, <4>2, StoreChange
    <3>2. CASE slot[s].job.op # "preview"
      BY Zenon, <1>4, <3>2, FinishStep
    <3> QED BY Zenon, <3>1, <3>2
  <2>2. /\ new' = [l \in Keys |-> new'[l]] /\ old' = [l \in Keys |-> old'[l]]
        /\ \A l \in Keys : l # k => new'[l] = new[l] /\ old'[l] = old[l] /\ (l \in torn => l \in torn')
    BY Zenon, <1>3, <1>4 DEF FilesInv, Directory
  <2>3. new'[k] = "whole" \/ (slot[s].bad /\ UNCHANGED <<new, old, torn>>)
    BY Zenon, <1>2, <1>3, <1>4 DEF FilesInv, Directory
  <2>4. slot'[s].pc \notin DeletePcs \cup {"create", "write"}
    BY Zenon, <2>1 DEF DeletePcs
  <2>5. FilesInv'
    BY SMTT(30), <1>1, <1>2, <1>3, <2>1, <2>2, <2>3, <2>4, StoreFiles
  <2> QED BY Zenon, <1>3, <1>4, <2>1, <2>5 DEF StoreEnd
<1>5. CASE torn' = torn \cup {k} /\ Finish(s, "ioerr") /\ Unlock(s) /\ UNCHANGED new
  <2>1. Alone(s) /\ Local(slot'[s]) /\ slot'[s].pc = "done"
    BY Zenon, <1>5, FinishStep
  <2>2. /\ new' = [l \in Keys |-> new'[l]] /\ old' = [l \in Keys |-> old'[l]]
        /\ \A l \in Keys : l # k => new'[l] = new[l] /\ old'[l] = old[l] /\ (l \in torn => l \in torn')
    BY Zenon, <1>3, <1>5 DEF FilesInv, Directory
  <2>3. FilesInv'
    BY Zenon, <1>1, <1>2, <1>3, <1>5, <2>1, <2>2, StoreFiles DEF DeletePcs
  <2> QED BY Zenon, <1>3, <1>5, <2>1, <2>3 DEF StoreEnd
<1> QED BY Zenon, <1>1, <1>4, <1>5 DEF WriteFile

(* What a step of a deletion leaves to the other tasks.                    *)
DeleteEnd(s) ==
  /\ \E k : Cut(s, k)
  /\ Local(slot'[s]) /\ slot'[s].pc \in DeletePcs \cup {"del", "done"}
  /\ UNCHANGED <<previews, previewing>>

LEMMA DeleteBegins ==
  ASSUME LocalInv, FilesInv, phase = "up", NEW s \in Slots, slot[s].pc = "del",
         NEW m, NEW rest, KeysOf(m) # {},
         Set(s, [mxcs |-> rest, pc |-> "rm", tgt |-> m, keys |-> KeysOf(m)]),
         Meet(m, Creating(m)), UNCHANGED <<rows, files, phase, todo, torn>>
  PROVE  FilesInv' /\ Alone(s) /\ Local(slot'[s]) /\ slot'[s].pc = "rm"
<1>1. PICK r : r = [mxcs |-> rest, pc |-> "rm", tgt |-> m, keys |-> KeysOf(m)]
  BY Zenon
<1>2. PICK n : n = Update(slot[s], r)
  BY Zenon
<1>3. Alone(s) /\ slot'[s] = n
  BY Zenon, <1>1, <1>2, SetStep
<1>4. DOMAIN slot[s] = Fields
  BY Zenon DEF LocalInv, Local, Control
<1>5. DOMAIN n = Fields /\ \A f \in Fields : n[f] = IF f \in DOMAIN r THEN r[f] ELSE slot[s][f]
  BY <1>2, <1>4, Updated
<1>6. n.pc = "rm" /\ n.tgt = m /\ n.keys = KeysOf(m)
  BY Zenon, <1>1, <1>5 DEF Fields
<1>7. Local(n)
  <2>1. KeysOf(m) \subseteq Keys /\ \A k \in KeysOf(m) : k[1] = m
    BY Zenon DEF FilesInv, Directory, KeysOf
  <2>2. Holds(n)
    BY Zenon, <1>6, <2>1 DEF Holds, StorePcs
  <2>3. DOMAIN r \subseteq {"pc", "key", "keys", "tgt", "name", "mxcs"}
    BY Zenon, <1>1
  <2> QED BY Zenon, <1>2, <1>6, <2>2, <2>3, DeleteChange DEF DeletePcs
<1>8. /\ raced \subseteq raced' /\ UNCHANGED <<new, old>>
      /\ m \notin raced' => \A t \in Slots : ~ Stores(slot[t], m)
  BY Zenon DEF Meet, Creating, Stores, files
<1>9. /\ \A t \in Slots : slot[t].pc \in Critical => slot'[t] = slot[t]
      /\ \A t \in Slots : t # s => slot'[t] = slot[t]
  BY Zenon, <1>3 DEF Alone, Critical, DeletePcs
<1>10. Directory'
  BY Zenon, <1>8 DEF FilesInv, Directory
<1>11. Kept'
  <2> SUFFICES ASSUME NEW l \in rows, NEW t \in Slots, Owes(slot[t], l)
               PROVE  Owes(slot'[t], l)
    BY Zenon, <1>8 DEF FilesInv, Kept
  <2> QED BY Zenon, <1>9 DEF Owes, Critical, DeletePcs
<1>12. \A t \in Slots : \A x \in Mxcs : Stores(slot'[t], x) => slot'[t] = slot[t] /\ Stores(slot[t], x)
  BY Zenon, <1>3, <1>6, <1>9 DEF Stores
<1>13. Apart'
  <2> SUFFICES ASSUME NEW t \in Slots, NEW u \in Slots, NEW x \in Mxcs \ raced',
                      Stores(slot'[t], x), Deletes(slot'[u], x)
               PROVE  FALSE
    BY Zenon DEF Apart
  <2>1. Stores(slot[t], x) /\ x # m /\ x \notin raced
    BY Zenon, <1>8, <1>12
  <2>2. u # s
    BY Zenon, <1>3, <1>6, <2>1 DEF Deletes
  <2> QED BY Zenon, <1>9, <2>1, <2>2 DEF FilesInv, Apart
<1>14. StoredRow'
  BY Zenon, <1>8, <1>12 DEF FilesInv, StoredRow
<1>15. DeletesAll'
  <2> SUFFICES ASSUME NEW t \in Slots, NEW x \in Mxcs \ raced', Deletes(slot'[t], x)
               PROVE  KeysOf(x) \subseteq slot'[t].keys
    BY Zenon DEF DeletesAll, KeysOf
  <2>1. CASE t = s
    BY Zenon, <1>3, <1>6, <2>1 DEF Deletes
  <2>2. CASE t # s
    BY Zenon, <1>8, <1>9, <2>2 DEF FilesInv, DeletesAll
  <2> QED BY Zenon, <2>1, <2>2
<1>16. RemovedAll'
  <2> SUFFICES ASSUME NEW t \in Slots, NEW x \in Mxcs \ raced', Deletes(slot'[t], x)
               PROVE  Removed(slot[t])'
    BY Zenon DEF RemovedAll
  <2>1. CASE t = s
    BY Zenon, <1>3, <1>6, <2>1 DEF Removed
  <2>2. CASE t # s
    BY <1>8, <1>9, <2>2 DEF FilesInv, RemovedAll, Removed
  <2> QED BY Zenon, <2>1, <2>2
<1>17. Orphaned'
  <2> SUFFICES ASSUME NEW l \in Keys \ rows, NEW t \in Slots, WillRemove(slot[t], l)
               PROVE  WillRemove(slot'[t], l)
    BY Zenon, <1>8 DEF FilesInv, Orphaned
  <2> QED BY Zenon, <1>9 DEF WillRemove, Deletes, Critical
<1> QED BY Zenon, <1>3, <1>6, <1>7, <1>10, <1>11, <1>13, <1>14, <1>15, <1>16, <1>17 DEF FilesInv

LEMMA DeleteFiles ==
  ASSUME LocalInv, FilesInv, phase = "up", NEW s \in Slots, Delete(s)
  PROVE  FilesInv' /\ DeleteEnd(s)
<1>1. /\ slot[s].pc = "del" /\ UNCHANGED <<rows, files, torn, others>>
      /\ UNCHANGED <<new, old, phase, todo, previews, previewing>>
  BY Zenon DEF Delete, At, files, others
<1>2. CASE Finish(s, "ok") /\ UNCHANGED raced
  <2>1. Alone(s) /\ Local(slot'[s]) /\ slot'[s].pc = "done"
    BY Zenon, <1>2, FinishStep
  <2>2. FilesInv'
    BY Zenon, <1>1, <1>2, <2>1, Quiet DEF Critical, DeletePcs
  <2> QED BY Zenon, <1>1, <2>1, <2>2, AloneCut DEF DeleteEnd
<1>3. ASSUME NEW m, NEW rest, Set(s, [mxcs |-> rest]), Meet(m, {})
      PROVE  FilesInv' /\ DeleteEnd(s)
  <2>1. PICK r : r = [mxcs |-> rest]
    BY Zenon
  <2>2. PICK n : n = Update(slot[s], r)
    BY Zenon
  <2>3. Alone(s) /\ slot'[s] = n
    BY Zenon, <1>3, <2>1, <2>2, SetStep
  <2>4. n.pc = "del"
    BY Zenon, <1>1, <2>1, <2>2 DEF LocalInv, Local, Control, Update, Fields
  <2>5. Local(n)
    <3>1. Holds(n)
      BY Zenon, <2>4 DEF Holds, StorePcs, DeletePcs
    <3>2. DOMAIN r \subseteq {"pc", "key", "keys", "tgt", "name", "mxcs"}
      BY Zenon, <2>1
    <3> QED BY Zenon, <1>1, <2>2, <2>4, <3>1, <3>2, DeleteChange
  <2>6. FilesInv'
    <3>1. raced' = raced
      BY Zenon, <1>3 DEF Meet
    <3> QED BY Zenon, <1>1, <2>3, <2>4, <3>1, Quiet DEF Critical, DeletePcs
  <2> QED BY Zenon, <1>1, <2>3, <2>4, <2>5, <2>6, AloneCut DEF DeleteEnd
<1>4. ASSUME NEW m, NEW rest, KeysOf(m) # {}, Meet(m, Creating(m)),
             Set(s, [mxcs |-> rest, pc |-> "rm", tgt |-> m, keys |-> KeysOf(m)])
      PROVE  FilesInv' /\ DeleteEnd(s)
  <2>1. FilesInv' /\ Alone(s) /\ Local(slot'[s]) /\ slot'[s].pc = "rm"
    BY Zenon, <1>1, <1>4, DeleteBegins
  <2> QED BY Zenon, <1>1, <2>1, AloneCut DEF DeleteEnd, DeletePcs
<1>5. CASE slot[s].mxcs # {}
  <2>1. PICK m \in slot[s].mxcs :
          /\ LET rest == slot[s].mxcs \ {m} IN
             Set(s, IF KeysOf(m) = {} THEN [mxcs |-> rest]
                    ELSE [mxcs |-> rest, pc |-> "rm", tgt |-> m, keys |-> KeysOf(m)])
          /\ Meet(m, IF KeysOf(m) = {} THEN {} ELSE Creating(m))
    BY Zenon, <1>5 DEF Delete
  <2>2. CASE KeysOf(m) = {}
    BY Zenon, <1>3, <2>1, <2>2
  <2>3. CASE KeysOf(m) # {}
    BY Zenon, <1>4, <2>1, <2>3
  <2> QED BY Zenon, <2>2, <2>3
<1> QED BY Zenon, <1>2, <1>5 DEF Delete

LEMMA RemoveFiles ==
  ASSUME LocalInv, FilesInv, phase = "up", NEW s \in Slots, slot[s].pc \in {"rm", "rm2"},
         NEW k \in slot[s].keys, slot[s].pc = "rm2" => slot[s].key = k,
         Cut(s, k), UNCHANGED <<rows, phase, todo, torn, raced>>,
         new' = [l \in Keys |-> new'[l]], old' = [l \in Keys |-> old'[l]],
         \A l \in Keys : l # k => new'[l] = new[l] /\ old'[l] = old[l],
         new'[k] \in {new[k], "absent"}, old'[k] \in {old[k], "none"},
         slot'[s].pc \in {"rm2", "rmrows"}, slot'[s].key = k, slot'[s].keys = slot[s].keys,
         slot'[s].tgt = slot[s].tgt,
         slot[s].tgt \in Mxcs \ raced => Removed(slot[s])'
  PROVE  FilesInv'
<1>1. k \in Keys /\ k[1] = slot[s].tgt /\ k[1] \in Mxcs
  BY Zenon DEF LocalInv, Local, Holds, DeletePcs, Keys
<1>2. \A t \in Slots : t # s =>
        /\ slot'[t].pc = slot[t].pc
        /\ slot[t].pc \in DeletePcs => slot'[t] = slot[t]
        /\ slot[t].pc \in {"create", "write"} => slot'[t].key = slot[t].key
        /\ slot'[t] = slot[t] \/ (slot[t].pc = "write" /\ slot[t].key = k)
  BY Zenon DEF Cut, DeletePcs, StorePcs
<1>3. Directory'
  BY Zenon DEF FilesInv, Directory
<1>4. Kept'
  <2> SUFFICES ASSUME NEW l \in rows
               PROVE  \/ l \in torn \/ new'[l] \in {"whole", "loop"} \/ old'[l] = "file"
                      \/ \E t \in Slots : Owes(slot'[t], l)
    BY Zenon DEF Kept
  <2>1. CASE l = k
    BY Zenon, <2>1 DEF Owes
  <2>2. CASE l # k
    <3>1. \A t \in Slots : Owes(slot[t], l) => Owes(slot'[t], l)
      BY Zenon, <1>2, <2>2 DEF Owes
    <3>2. l \in Keys
      BY Zenon DEF FilesInv, Directory
    <3> QED BY Zenon, <2>2, <3>1, <3>2 DEF FilesInv, Kept
  <2> QED BY Zenon, <2>1, <2>2
<1>5. \A t \in Slots : \A x \in Mxcs : Stores(slot'[t], x) => Stores(slot[t], x) /\ slot'[t].key = slot[t].key
  BY Zenon, <1>2 DEF Stores
<1>6. \A t \in Slots : \A x \in Mxcs : Deletes(slot'[t], x) => Deletes(slot[t], x) /\ slot'[t].keys = slot[t].keys
  BY Zenon, <1>2 DEF Deletes, DeletePcs
<1>7. Apart'
  BY Zenon, <1>5, <1>6 DEF FilesInv, Apart
<1>8. StoredRow'
  BY Zenon, <1>5 DEF FilesInv, StoredRow
<1>9. DeletesAll'
  BY Zenon, <1>6 DEF FilesInv, DeletesAll, KeysOf
<1>10. RemovedAll'
  <2> SUFFICES ASSUME NEW t \in Slots, NEW x \in Mxcs \ raced, Deletes(slot'[t], x)
               PROVE  Removed(slot[t])'
    BY Zenon DEF RemovedAll
  <2>1. CASE t = s
    BY ZenonT(40), <2>1 DEF Deletes
  <2>2. CASE t # s
    <3>1. slot'[t] = slot[t] /\ Deletes(slot[t], x)
      BY Zenon, <1>2, <2>2 DEF Deletes
    <3>2. Removed(slot[t])
      BY Zenon, <3>1 DEF FilesInv, RemovedAll
    <3>3. slot[t].pc \in {"rm2", "rmrows"} => slot[t].key \in Keys
      BY Zenon DEF LocalInv, Local, Holds, DeletePcs
    <3> QED BY SMTT(30), <3>1, <3>2, <3>3 DEF Removed
  <2> QED BY Zenon, <2>1, <2>2
<1>11. Orphaned'
  <2> SUFFICES ASSUME NEW l \in Keys \ rows, l[1] \notin raced
               PROVE  (new'[l] = "absent" /\ old'[l] = "none") \/ \E t \in Slots : WillRemove(slot'[t], l)
    BY Zenon DEF Orphaned
  <2>1. (new[l] = "absent" /\ old[l] = "none") \/ \E t \in Slots : WillRemove(slot[t], l)
    BY Zenon DEF FilesInv, Orphaned
  <2>2. ASSUME NEW t \in Slots, t # s, WillRemove(slot[t], l)
        PROVE  WillRemove(slot'[t], l)
    BY Zenon, <1>2, <2>2 DEF WillRemove, Deletes
  <2>3. CASE l # k
    <3>1. WillRemove(slot[s], l) => WillRemove(slot'[s], l)
      BY Zenon, <2>3 DEF WillRemove, Deletes, DeletePcs
    <3> QED BY Zenon, <2>1, <2>2, <2>3, <3>1
  <2>4. CASE l = k /\ slot'[s].pc = "rmrows"
    BY Zenon, <1>1, <2>4 DEF Removed
  <2>5. CASE l = k /\ slot'[s].pc = "rm2"
    <3>1. WillRemove(slot'[s], k)
      BY Zenon, <1>1, <2>5 DEF WillRemove, Deletes, DeletePcs
    <3> QED BY Zenon, <2>5, <3>1
  <2> QED BY Zenon, <2>3, <2>4, <2>5
<1> QED BY Zenon, <1>3, <1>4, <1>7, <1>8, <1>9, <1>10, <1>11 DEF FilesInv

(* The fields of the task that removes the files of k.                     *)
LEMMA RemoverLocal ==
  ASSUME LocalInv, NEW s \in Slots, slot[s].pc \in {"rm", "rm2"}, NEW k \in slot[s].keys,
         NEW pc \in {"rm2", "rmrows"}, NEW name, NEW r, NEW n, n = Update(slot[s], r),
         \/ r = [pc |-> pc, key |-> k, name |-> name]
         \/ r = [pc |-> pc, name |-> name] /\ slot[s].key = k
  PROVE  /\ Local(n) /\ n.pc = pc /\ n.key = k /\ n.keys = slot[s].keys /\ n.tgt = slot[s].tgt
         /\ n.name = name
<1>1. DOMAIN slot[s] = Fields /\ Holds(slot[s])
  BY Zenon DEF LocalInv, Local, Control
<1>2. DOMAIN n = Fields /\ \A f \in Fields : n[f] = IF f \in DOMAIN r THEN r[f] ELSE slot[s][f]
  BY SMTT(30), <1>1, Updated
<1>3. n.pc = pc /\ n.key = k /\ n.keys = slot[s].keys /\ n.tgt = slot[s].tgt /\ n.name = name
  BY <1>2 DEF Fields
<1>4. Holds(n)
  BY Zenon, <1>1, <1>3 DEF Holds, StorePcs, DeletePcs
<1>5. DOMAIN r \subseteq {"pc", "key", "keys", "tgt", "name", "mxcs"}
  OBVIOUS
<1>6. Local(n)
  BY Zenon, <1>3, <1>4, <1>5, DeleteChange DEF DeletePcs
<1> QED BY Zenon, <1>3, <1>6

LEMMA RemoveFirstFiles ==
  ASSUME LocalInv, FilesInv, phase = "up", NEW s \in Slots, RemoveFirst(s)
  PROVE  FilesInv' /\ DeleteEnd(s)
<1>1. PICK k \in slot[s].keys :
        \/ /\ new' = [new EXCEPT ![k] = "absent"]
           /\ Unlinked(s, k, [pc |-> "rm2", key |-> k, name |-> "old"])
           /\ UNCHANGED old
        \/ /\ old' = [old EXCEPT ![k] = "none"]
           /\ Set(s, [pc |-> "rm2", key |-> k, name |-> "new"])
           /\ UNCHANGED new
  BY Zenon DEF RemoveFirst
<1>2. slot[s].pc = "rm" /\ UNCHANGED <<rows, phase, todo, torn, raced, previews, previewing>> /\ k \in Keys
  BY Zenon DEF RemoveFirst, At, others, LocalInv, Local, Holds, DeletePcs
<1>3. PICK name, r, n :
        /\ r = [pc |-> "rm2", key |-> k, name |-> name] /\ n = Update(slot[s], r)
        /\ Cut(s, k) /\ slot'[s] = n
        /\ \/ name = "old" /\ new' = [new EXCEPT ![k] = "absent"] /\ UNCHANGED old
           \/ name = "new" /\ old' = [old EXCEPT ![k] = "none"] /\ UNCHANGED new
  <2>1. CASE /\ new' = [new EXCEPT ![k] = "absent"]
             /\ Unlinked(s, k, [pc |-> "rm2", key |-> k, name |-> "old"])
             /\ UNCHANGED old
    BY Zenon, <2>1, UnlinkedStep
  <2>2. CASE /\ old' = [old EXCEPT ![k] = "none"]
             /\ Set(s, [pc |-> "rm2", key |-> k, name |-> "new"])
             /\ UNCHANGED new
    BY Zenon, <2>2, SetStep, AloneCut
  <2> QED BY Zenon, <1>1, <2>1, <2>2
<1>4. /\ Local(n) /\ n.pc = "rm2" /\ n.key = k /\ n.keys = slot[s].keys /\ n.tgt = slot[s].tgt
      /\ n.name = name
  BY <1>2, <1>3, RemoverLocal
<1>5. /\ new' = [l \in Keys |-> new'[l]] /\ old' = [l \in Keys |-> old'[l]]
      /\ \A l \in Keys : l # k => new'[l] = new[l] /\ old'[l] = old[l]
      /\ new'[k] \in {new[k], "absent"} /\ old'[k] \in {old[k], "none"}
      /\ name = "new" => old'[k] = "none"
      /\ name # "new" => new'[k] = "absent"
  BY Zenon, <1>2, <1>3 DEF FilesInv, Directory
<1>6. Removed(slot[s])'
  BY Zenon, <1>3, <1>4, <1>5 DEF Removed
<1>7. FilesInv'
  BY SMTT(30), <1>2, <1>3, <1>4, <1>5, <1>6, RemoveFiles
<1> QED BY Zenon, <1>2, <1>3, <1>4, <1>7 DEF DeleteEnd, DeletePcs

LEMMA RemoveSecondFiles ==
  ASSUME LocalInv, FilesInv, phase = "up", NEW s \in Slots, RemoveSecond(s)
  PROVE  FilesInv' /\ DeleteEnd(s)
<1>1. PICK k : k = slot[s].key
  BY Zenon
<1>2. /\ slot[s].pc = "rm2" /\ UNCHANGED <<rows, phase, todo, torn, raced, previews, previewing>>
      /\ k \in slot[s].keys /\ k \in Keys
  BY Zenon, <1>1 DEF RemoveSecond, At, others, LocalInv, Local, Holds, DeletePcs
<1>3. PICK r, n :
        /\ r = [pc |-> "rmrows", name |-> None] /\ n = Update(slot[s], r)
        /\ Cut(s, k) /\ slot'[s] = n
        /\ \/ slot[s].name = "new" /\ new' = [new EXCEPT ![k] = "absent"] /\ UNCHANGED old
           \/ slot[s].name # "new" /\ old' = [old EXCEPT ![k] = "none"] /\ UNCHANGED new
  <2>1. CASE slot[s].name = "new"
    BY Zenon, <1>1, <2>1, UnlinkedStep DEF RemoveSecond
  <2>2. CASE slot[s].name # "new"
    BY Zenon, <1>1, <2>2, SetStep, AloneCut DEF RemoveSecond
  <2> QED BY Zenon, <2>1, <2>2
<1>4. /\ Local(n) /\ n.pc = "rmrows" /\ n.key = k /\ n.keys = slot[s].keys /\ n.tgt = slot[s].tgt
  BY <1>1, <1>2, <1>3, RemoverLocal
<1>5. /\ new' = [l \in Keys |-> new'[l]] /\ old' = [l \in Keys |-> old'[l]]
      /\ \A l \in Keys : l # k => new'[l] = new[l] /\ old'[l] = old[l]
      /\ new'[k] \in {new[k], "absent"} /\ old'[k] \in {old[k], "none"}
  BY Zenon, <1>2, <1>3 DEF FilesInv, Directory
<1>6. ASSUME slot[s].tgt \in Mxcs \ raced
      PROVE  Removed(slot[s])'
  <2>1. Removed(slot[s])
    BY Zenon, <1>2, <1>6 DEF FilesInv, RemovedAll, Deletes, DeletePcs
  <2>2. new'[k] = "absent" /\ old'[k] = "none"
    BY Zenon, <1>1, <1>2, <1>3, <2>1 DEF Removed, FilesInv, Directory
  <2> QED BY Zenon, <1>3, <1>4, <2>2 DEF Removed
<1>7. FilesInv'
  BY ZenonT(40), <1>1, <1>2, <1>3, <1>4, <1>5, <1>6, RemoveFiles
<1> QED BY Zenon, <1>2, <1>3, <1>4, <1>7 DEF DeleteEnd, DeletePcs

LEMMA DeleteRowsFiles ==
  ASSUME LocalInv, FilesInv, phase = "up", NEW s \in Slots, DeleteRows(s)
  PROVE  FilesInv' /\ DeleteEnd(s)
<1>1. PICK q : q = slot[s]
  BY Zenon
<1>2. PICK m, rest : m = q.tgt /\ rest = q.keys \ {q.key}
  BY Zenon
<1>3. PICK r : /\ Set(s, r)
               /\ \/ rest = {} /\ r = [pc |-> "del", keys |-> {}, key |-> None, tgt |-> None]
                  \/ rest # {} /\ r = [pc |-> "rm", keys |-> rest, key |-> None]
  BY Zenon, <1>1, <1>2 DEF DeleteRows
<1>4. /\ q.pc = "rmrows" /\ rows' = rows \ KeysOf(m)
      /\ UNCHANGED <<new, old, phase, todo, torn, raced, previews, previewing>>
  BY Zenon, <1>1, <1>2 DEF DeleteRows, At, files
<1>5. /\ q.keys \subseteq Keys /\ (\A k \in q.keys : k[1] = m) /\ q.key \in q.keys /\ m \in Mxcs
      /\ DOMAIN q = Fields
  BY Zenon, <1>1, <1>2, <1>4 DEF LocalInv, Local, Control, Holds, DeletePcs, Keys
<1>6. PICK n : n = Update(q, r)
  BY Zenon
<1>7. Alone(s) /\ slot'[s] = n
  BY Zenon, <1>1, <1>3, <1>6, SetStep
<1>8. DOMAIN n = Fields /\ \A f \in Fields : n[f] = IF f \in DOMAIN r THEN r[f] ELSE q[f]
  BY SMTT(30), <1>5, <1>6, Updated
<1>9. \/ rest = {} /\ n.pc = "del"
      \/ rest # {} /\ n.pc = "rm" /\ n.keys = rest /\ n.tgt = m
  BY <1>2, <1>3, <1>8 DEF Fields
<1>10. Local(n)
  <2>1. Holds(n)
    BY Zenon, <1>2, <1>5, <1>9 DEF Holds, StorePcs, DeletePcs
  <2>2. DOMAIN r \subseteq {"pc", "key", "keys", "tgt", "name", "mxcs"}
    BY <1>3
  <2> QED BY Zenon, <1>1, <1>4, <1>6, <1>9, <2>1, <2>2, DeleteChange DEF DeletePcs
<1>11. \A t \in Slots : t # s => slot'[t] = slot[t]
  BY Zenon, <1>7 DEF Alone
<1>12. \A l : l \in rows' => l \in rows /\ l[1] # m
  BY Zenon, <1>4 DEF KeysOf
<1>13. Directory'
  BY Zenon, <1>4, <1>12 DEF FilesInv, Directory
<1>14. Kept'
  <2> SUFFICES ASSUME NEW l \in rows', NEW t \in Slots, Owes(slot[t], l)
               PROVE  Owes(slot'[t], l)
    BY Zenon, <1>4, <1>12 DEF FilesInv, Kept
  <2>1. t # s
    BY Zenon, <1>1, <1>4, <1>5, <1>12 DEF Owes
  <2> QED BY Zenon, <1>11, <2>1
<1>15. \A t \in Slots : \A x \in Mxcs : Stores(slot'[t], x) => Stores(slot[t], x) /\ t # s /\ slot'[t] = slot[t]
  BY Zenon, <1>7, <1>9, <1>11 DEF Stores
<1>16. \A t \in Slots : \A x \in Mxcs : Deletes(slot'[t], x) => Deletes(slot[t], x)
  BY Zenon, <1>1, <1>2, <1>4, <1>7, <1>9, <1>11 DEF Deletes, DeletePcs
<1>17. Apart'
  BY Zenon, <1>4, <1>15, <1>16 DEF FilesInv, Apart
<1>18. StoredRow'
  <2> SUFFICES ASSUME NEW t \in Slots, NEW x \in Mxcs \ raced, Stores(slot'[t], x)
               PROVE  slot'[t].key \in rows'
    BY Zenon, <1>4 DEF StoredRow
  <2>1. Stores(slot[t], x) /\ slot'[t] = slot[t] /\ slot[t].key \in rows
    BY Zenon, <1>15 DEF FilesInv, StoredRow
  <2>2. Deletes(slot[s], m)
    BY Zenon, <1>1, <1>2, <1>4 DEF Deletes, DeletePcs
  <2>3. x # m
    BY Zenon, <2>1, <2>2 DEF FilesInv, Apart
  <2> QED BY Zenon, <1>4, <2>1, <2>3 DEF KeysOf, Stores
<1>19. DeletesAll'
  <2> SUFFICES ASSUME NEW t \in Slots, NEW x \in Mxcs \ raced, Deletes(slot'[t], x),
                      NEW l \in rows', l[1] = x
               PROVE  l \in slot'[t].keys
    BY Zenon, <1>4 DEF DeletesAll, KeysOf
  <2>1. t # s
    BY Zenon, <1>7, <1>9, <1>12 DEF Deletes, DeletePcs
  <2> QED BY Zenon, <1>11, <1>12, <2>1 DEF FilesInv, DeletesAll, KeysOf
<1>20. RemovedAll'
  <2> SUFFICES ASSUME NEW t \in Slots, NEW x \in Mxcs \ raced, Deletes(slot'[t], x)
               PROVE  Removed(slot[t])'
    BY Zenon, <1>4 DEF RemovedAll
  <2>1. CASE t = s
    BY Zenon, <1>7, <1>9, <2>1 DEF Removed, Deletes, DeletePcs
  <2>2. CASE t # s
    BY Zenon, <1>4, <1>11, <2>2 DEF FilesInv, RemovedAll, Removed
  <2> QED BY Zenon, <2>1, <2>2
<1>21. Orphaned'
  <2> SUFFICES ASSUME NEW l \in Keys \ rows', l[1] \notin raced
               PROVE  (new[l] = "absent" /\ old[l] = "none") \/ \E t \in Slots : WillRemove(slot'[t], l)
    BY Zenon, <1>4 DEF Orphaned
  <2>1. ASSUME l \in q.keys, l # q.key, l[1] = m
        PROVE  WillRemove(slot'[s], l)
    BY Zenon, <1>2, <1>7, <1>9, <2>1 DEF WillRemove, Deletes, DeletePcs
  <2>2. CASE l \in rows
    <3>1. l[1] = m /\ m \notin raced
      BY Zenon, <1>4, <2>2 DEF KeysOf
    <3>2. Deletes(slot[s], m)
      BY Zenon, <1>1, <1>2, <1>4 DEF Deletes, DeletePcs
    <3>3. l \in q.keys /\ Removed(q)
      BY Zenon, <1>1, <1>5, <2>2, <3>1, <3>2 DEF FilesInv, DeletesAll, RemovedAll, KeysOf
    <3> QED BY Zenon, <1>4, <2>1, <3>1, <3>3 DEF Removed
  <2>3. CASE l \notin rows
    <3>1. (new[l] = "absent" /\ old[l] = "none") \/ \E t \in Slots : WillRemove(slot[t], l)
      BY Zenon, <2>3 DEF FilesInv, Orphaned
    <3>2. ASSUME NEW t \in Slots, WillRemove(slot[t], l)
          PROVE  WillRemove(slot'[t], l)
      <4>1. CASE t = s
        BY Zenon, <1>1, <1>2, <1>4, <2>1, <3>2, <4>1 DEF WillRemove, Deletes
      <4>2. CASE t # s
        BY Zenon, <1>11, <3>2, <4>2
      <4> QED BY Zenon, <4>1, <4>2
    <3> QED BY Zenon, <3>1, <3>2
  <2> QED BY Zenon, <2>2, <2>3
<1> QED BY Zenon, <1>4, <1>7, <1>9, <1>10, <1>13, <1>14, <1>17, <1>18, <1>19, <1>20, <1>21, AloneCut
       DEF FilesInv, DeleteEnd, DeletePcs

-----------------------------------------------------------------------------
(* Crash and start: no task is in the middle of anything.                  *)

Resting ==
  /\ \A s \in Slots : slot[s].pc = "done"
  /\ \A k \in rows : k \in torn \/ new[k] \in {"whole", "loop"} \/ old[k] = "file"
  /\ \A k \in Keys \ rows : k[1] \in raced \/ (new[k] = "absent" /\ old[k] = "none")

LEMMA AtRest ==
  ASSUME Directory, Resting
  PROVE  FilesInv
  BY Zenon DEF Resting, FilesInv, Kept, Apart, StoredRow, DeletesAll, RemovedAll, Orphaned, Stores, Deletes,
     DeletePcs

LEMMA ComesToRest ==
  ASSUME FilesInv, \A s \in Slots : slot[s].pc = "done"
  PROVE  Resting
<1>1. \A s \in Slots : \A k : ~ Owes(slot[s], k) /\ ~ WillRemove(slot[s], k)
  BY Zenon DEF Owes, WillRemove, Deletes, DeletePcs
<1> QED BY Zenon, <1>1 DEF Resting, FilesInv, Kept, Orphaned

LEMMA CrashStep ==
  ASSUME LocalInv, FilesInv, Crash
  PROVE  LocalInv' /\ FilesInv' /\ PreviewInv'
<1>1. \A s \in Slots : Local(slot'[s]) /\ slot'[s].pc = "done"
  <2> SUFFICES ASSUME NEW s \in Slots
               PROVE  Local(slot'[s]) /\ slot'[s].pc = "done"
    BY Zenon
  <2>1. PICK q : q = Start(slot[s].work)
    BY Zenon
  <2>2. slot[s].work \in Seq(Requests) /\ slot'[s] = q
    BY Zenon, <2>1 DEF Crash, LocalInv, Local, Control
  <2> QED BY Zenon, <2>1, <2>2, Started
<1>2. LocalInv'
  <2>1. slot' = [s \in Slots |-> slot'[s]]
    BY Zenon DEF Crash
  <2> QED BY Zenon, <1>1, <2>1 DEF LocalInv
<1>3. UNCHANGED <<rows, new, old, previews>> /\ todo' = {} /\ torn \subseteq torn' /\ raced \subseteq raced'
  BY Zenon DEF Crash, files
<1>4. Directory'
  BY Zenon, <1>1, <1>3 DEF FilesInv, Directory
<1>5. Resting'
  <2>1. ASSUME NEW k \in rows, NEW s \in Slots, Owes(slot[s], k)
        PROVE  k \in torn'
    BY Zenon, <2>1 DEF Owes, Crash
  <2>2. ASSUME NEW k \in Keys, NEW s \in Slots, WillRemove(slot[s], k)
        PROVE  k[1] \in raced'
    <3>1. k[1] \in Mxcs
      BY Zenon, <2>2 DEF Keys
    <3>2. s \in Deleting(k[1])
      BY Zenon, <2>2 DEF WillRemove, Deletes, DeletePcs, Deleting
    <3> QED BY Zenon, <3>1, <3>2 DEF Crash
  <2> QED BY Zenon, <1>1, <1>3, <2>1, <2>2 DEF Resting, FilesInv, Kept, Orphaned
<1>6. FilesInv'
  BY <1>4, <1>5, AtRest, PTL
<1>7. PreviewInv'
  <2>1. previewing' = [u \in Urls |-> previewing'[u]]
    BY Zenon DEF Crash
  <2>2. \A s \in Slots : ~ Asking(s)'
    BY Zenon, <1>1 DEF Asking
  <2> QED BY Zenon, <2>1, <2>2 DEF PreviewInv
<1> QED BY Zenon, <1>2, <1>6, <1>7

LEMMA StartFiles ==
  ASSUME LocalInv, FilesInv, StartStep
  PROVE  FilesInv'
<1>1. phase # "up" /\ UNCHANGED <<slot, torn, raced>>
  BY Zenon DEF StartStep, Startup, Migrate, MigrateDone, Checkup, CheckupDone, starting
<1>2. Directory /\ Resting /\ todo \subseteq rows
  BY Zenon, <1>1, ComesToRest DEF FilesInv, Directory
<1>3. Directory' /\ Resting'
  <2>1. CASE Startup \/ MigrateDone \/ CheckupDone
    <3>1. UNCHANGED <<rows, new, old>> /\ (todo' = todo \/ todo' = rows)
      BY Zenon, <2>1 DEF Startup, MigrateDone, CheckupDone, files
    <3> QED BY Zenon, <1>1, <1>2, <3>1 DEF Directory, Resting
  <2>2. ASSUME NEW k \in todo, todo' = todo \ {k}, rows' \in {rows, rows \ {k}},
               new' = [l \in Keys |-> new'[l]], old' = [l \in Keys |-> old'[l]],
               \A l \in Keys : l # k => new'[l] = new[l] /\ old'[l] = old[l],
               k \in rows' => k \in torn \/ new'[k] \in {"whole", "loop"} \/ old'[k] = "file",
               k \notin rows' => new'[k] = "absent" /\ old'[k] = "none"
        PROVE  Directory' /\ Resting'
    <3>1. rows' \subseteq rows /\ \A l : l # k => (l \in rows' <=> l \in rows)
      BY Zenon, <2>2
    <3>2. Directory'
      BY Zenon, <1>1, <1>2, <2>2, <3>1 DEF Directory, Resting
    <3>3. Resting'
      BY Zenon, <1>1, <1>2, <2>2, <3>1 DEF Directory, Resting
    <3> QED BY Zenon, <3>2, <3>3
  <2>3. CASE Migrate
    <3>1. PICK k \in todo :
            /\ todo' = todo \ {k}
            /\ new' = IF OldExists(k) THEN [new EXCEPT ![k] = Renamed(k)] ELSE new
            /\ old' = IF OldExists(k) THEN [old EXCEPT ![k] = IF compat THEN "link" ELSE "none"]
                      ELSE old
      BY Zenon, <2>3 DEF Migrate
    <3>2. k \in rows /\ k \in Keys /\ rows' = rows
      BY Zenon, <1>2, <2>3 DEF Directory, Migrate
    <3>3. /\ new' = [l \in Keys |-> new'[l]] /\ old' = [l \in Keys |-> old'[l]]
          /\ \A l \in Keys : l # k => new'[l] = new[l] /\ old'[l] = old[l]
      BY Zenon, <1>2, <3>1 DEF Directory
    <3>4. k \in torn \/ new'[k] \in {"whole", "loop"} \/ old'[k] = "file"
      BY Zenon, <1>2, <3>1, <3>2 DEF Directory, Resting, Renamed
    <3> QED BY Zenon, <2>2, <3>1, <3>2, <3>3, <3>4
  <2>4. CASE Checkup
    <3>1. PICK k \in todo : todo' = todo \ {k} /\ HandleMediaCheck(k)
      BY Zenon, <2>4 DEF Checkup
    <3>2. k \in rows /\ k \in Keys
      BY Zenon, <1>2 DEF Directory
    <3>3. rows' \in {rows, rows \ {k}} /\ (k \notin rows' => old[k] = "none" /\ new[k] = "absent")
      BY Zenon, <3>1, <3>2 DEF HandleMediaCheck, Pruned
    <3>4. /\ new' = [l \in Keys |-> new'[l]] /\ old' = [l \in Keys |-> old'[l]]
          /\ \A l \in Keys : l # k => new'[l] = new[l] /\ old'[l] = old[l]
          /\ new'[k] = IF Repairs(k) /\ new[k] = "absent" THEN Renamed(k) ELSE new[k]
          /\ old'[k] = IF Repairs(k) THEN "link" ELSE IF ~compat /\ old[k] = "link" THEN "none" ELSE old[k]
      BY Zenon, <1>2, <3>1, <3>2 DEF Directory, HandleMediaCheck
    <3>5. k \in rows' => k \in torn \/ new'[k] \in {"whole", "loop"} \/ old'[k] = "file"
      BY Zenon, <1>2, <3>2, <3>4 DEF Resting, Renamed, Repairs
    <3>6. k \notin rows' => new'[k] = "absent" /\ old'[k] = "none"
      BY Zenon, <3>3, <3>4 DEF Repairs
    <3> QED BY Zenon, <2>2, <3>1, <3>3, <3>4, <3>5, <3>6
  <2> QED BY Zenon, <2>1, <2>3, <2>4 DEF StartStep
<1> QED BY <1>3, AtRest, PTL

(* The lock of a preview.                                                  *)

LEMMA PreviewStep ==
  ASSUME LocalInv, PreviewInv, NEW s \in Slots,
         \A t \in Slots : t # s => slot'[t].pc = slot[t].pc /\ slot'[t].job = slot[t].job,
         Asking(s)' => Asking(s) /\ slot'[s].job = slot[s].job /\ previewing' = previewing,
         previewing' = previewing \/ Unlock(s),
         \/ previews' \subseteq previews
         \/ Asking(s) /\ ~ Asking(s)' /\ previews' = previews \cup {Url(s)}
  PROVE  PreviewInv'
<1>1. previewing' = [u \in Urls |-> previewing'[u]]
  BY Zenon DEF PreviewInv, Unlock
<1>2. ASSUME NEW t \in Slots, Asking(t)'
      PROVE  Url(t)' \in Urls /\ previewing'[Url(t)'] = t /\ Url(t)' \notin previews'
  <2>1. Asking(t) /\ Url(t)' = Url(t)
    BY Zenon, <1>2 DEF Asking, Url
  <2>2. Url(t) \in Urls /\ previewing[Url(t)] = t /\ Url(t) \notin previews
    BY Zenon, <2>1 DEF PreviewInv
  <2>3. previewing'[Url(t)] = t
    <3>1. CASE t = s
      BY Zenon, <1>2, <2>2, <3>1
    <3>2. CASE t # s
      BY Zenon, <2>2, <3>2 DEF Unlock
    <3> QED BY Zenon, <3>1, <3>2
  <2>4. Url(t) \notin previews'
    <3>1. CASE previews' \subseteq previews
      BY Zenon, <2>2, <3>1
    <3>2. CASE Asking(s) /\ ~ Asking(s)' /\ previews' = previews \cup {Url(s)}
      <4>1. t # s /\ previewing[Url(s)] = s
        BY Zenon, <1>2, <3>2 DEF PreviewInv
      <4> QED BY Zenon, <2>2, <3>2, <4>1
    <3> QED BY Zenon, <3>1, <3>2
  <2> QED BY Zenon, <2>1, <2>2, <2>3, <2>4
<1> QED BY Zenon, <1>1, <1>2 DEF PreviewInv

LEMMA Unasked ==
  ASSUME LocalInv, PreviewInv, NEW s \in Slots,
         \A t \in Slots : t # s => slot'[t].pc = slot[t].pc /\ slot'[t].job = slot[t].job,
         slot'[s].pc \notin {"prevask", "prevset", "create", "write"},
         slot'[s].pc = "meta" => slot'[s].job.op # "preview",
         previewing' = previewing \/ Unlock(s), previews' \subseteq previews
  PROVE  PreviewInv'
<1>1. ~ Asking(s)'
  BY Zenon DEF Asking
<1> QED BY Zenon, <1>1, PreviewStep

LEMMA AskingUrl ==
  ASSUME LocalInv, NEW s \in Slots, slot[s].pc \in PreviewPcs \ {"prevdel"}
  PROVE  slot[s].job.op = "preview" /\ Url(s) \in Urls
  BY Zenon DEF LocalInv, Local, Control, Valid, Url

LEMMA GetPreviewInv ==
  ASSUME LocalInv, PreviewInv, NEW s \in Slots,
         GetPreview(s) \/ LockPreview(s) \/ RequestPreview(s) \/ SetPreview(s) \/ RemovePreview(s)
  PROVE  /\ PreviewInv' /\ Alone(s) /\ Local(slot'[s]) /\ UNCHANGED previewOnly
         /\ slot[s].pc \in PreviewPcs /\ slot'[s].pc \in PreviewPcs \cup {"meta", "done"}
<1>1. slot[s].pc \in PreviewPcs /\ UNCHANGED previewOnly
  BY Zenon DEF GetPreview, LockPreview, RequestPreview, SetPreview, RemovePreview, At, PreviewPcs, reading,
     mediaVars, previewOnly
<1>2. ASSUME Alone(s)
      PROVE  \A t \in Slots : t # s => slot'[t].pc = slot[t].pc /\ slot'[t].job = slot[t].job
  BY Zenon, <1>2 DEF Alone
<1>3. ASSUME NEW res, res # "rejected", Finish(s, res), previewing' = previewing \/ Unlock(s),
             previews' \subseteq previews
      PROVE  PreviewInv' /\ Alone(s) /\ Local(slot'[s]) /\ slot'[s].pc = "done"
  <2>1. Alone(s) /\ Local(slot'[s]) /\ slot'[s].pc = "done"
    BY Zenon, <1>3, FinishStep
  <2> QED BY Zenon, <1>2, <1>3, <2>1, Unasked
<1>4. CASE GetPreview(s)
  <2>1. CASE Finish(s, "ok")
    BY Zenon, <1>1, <1>3, <1>4, <2>1 DEF GetPreview, reading, mediaVars
  <2>2. CASE Set(s, [pc |-> "prevlock"])
    <3>1. PICK r : r = [pc |-> "prevlock"]
      BY Zenon
    <3>2. Set(s, r) /\ slot[s].pc = "prev" /\ r.pc = "prevlock" /\ slot[s].pc \in PreviewPcs \ {"prevdel"}
      BY Zenon, <1>4, <2>2, <3>1 DEF GetPreview, At, PreviewPcs
    <3>3. Alone(s) /\ Local(slot'[s]) /\ slot'[s].pc = "prevlock"
      BY Zenon, <3>1, <3>2, PreviewChange
    <3>4. UNCHANGED <<previewing, previews>>
      BY Zenon, <1>4 DEF GetPreview, reading, mediaVars
    <3> QED BY Zenon, <1>1, <1>2, <3>3, <3>4, Unasked DEF PreviewPcs
  <2> QED BY Zenon, <1>4, <2>1, <2>2 DEF GetPreview
<1>5. CASE LockPreview(s)
  <2>1. CASE Finish(s, "ok") /\ UNCHANGED previewing
    BY Zenon, <1>1, <1>3, <1>5, <2>1 DEF LockPreview
  <2>2. CASE /\ Url(s) \notin previews /\ Set(s, [pc |-> "prevask"])
             /\ previewing' = [previewing EXCEPT ![Url(s)] = s]
    <3>1. PICK r : r = [pc |-> "prevask"]
      BY Zenon
    <3>2. Set(s, r) /\ slot[s].pc = "prevlock" /\ r.pc = "prevask" /\ slot[s].pc \in PreviewPcs \ {"prevdel"}
      BY Zenon, <1>5, <2>2, <3>1 DEF LockPreview, At, PreviewPcs
    <3>3. Alone(s) /\ Local(slot'[s]) /\ slot'[s].pc = "prevask" /\ slot'[s].job = slot[s].job
      BY Zenon, <3>1, <3>2, PreviewChange
    <3>4. previews' = previews /\ previewing[Url(s)] = None /\ Url(s) \in Urls
      BY Zenon, <1>5, <3>2, AskingUrl DEF LockPreview
    <3>5. \A t \in Slots : t # s => (Asking(t)' <=> Asking(t)) /\ Url(t)' = Url(t)
      BY Zenon, <1>2, <3>3 DEF Asking, Url
    <3>6. Url(s)' = Url(s)
      BY Zenon, <3>3 DEF Url
    <3>7. ASSUME NEW t \in Slots, t # s, Asking(t)
          PROVE  Url(t) # Url(s)
      BY Zenon, <3>4, <3>7, WorksAssumption DEF PreviewInv
    <3>8. PreviewInv'
      BY Zenon, <2>2, <3>4, <3>5, <3>6, <3>7 DEF PreviewInv
    <3> QED BY Zenon, <1>1, <3>3, <3>8 DEF PreviewPcs
  <2> QED BY Zenon, <1>5, <2>1, <2>2 DEF LockPreview
<1>6. CASE RequestPreview(s)
  <2>1. CASE Finish(s, "fail") /\ Unlock(s)
    BY Zenon, <1>1, <1>3, <1>6, <2>1 DEF RequestPreview
  <2>2. CASE (DownloadHtml(s) \/ DownloadMedia(s)) /\ UNCHANGED <<left, previewing>>
    <3>1. PICK r : /\ Set(s, r)
                   /\ r = [pc |-> "prevset"] \/ r = [pc |-> "meta", key |-> <<Mxc(s), "orig", "bare">>]
      BY Zenon, <2>2 DEF DownloadHtml, DownloadMedia
    <3>2. slot[s].pc = "prevask" /\ r.pc \in {"prevset", "meta"} /\ slot[s].pc \in PreviewPcs \ {"prevdel"}
      BY <1>6, <3>1 DEF RequestPreview, At, PreviewPcs
    <3>3. Alone(s) /\ Local(slot'[s]) /\ slot'[s].pc \in {"prevset", "meta"} /\ slot'[s].job = slot[s].job
      BY Zenon, <3>1, <3>2, PreviewChange
    <3>4. Asking(s) /\ previews' = previews /\ previewing' = previewing
      BY Zenon, <1>6, <2>2, <3>2 DEF Asking, RequestPreview
    <3>5. PreviewInv'
      BY Zenon, <1>2, <3>3, <3>4, PreviewStep
    <3> QED BY Zenon, <1>1, <3>3, <3>5 DEF PreviewPcs
  <2> QED BY Zenon, <1>6, <2>1, <2>2 DEF RequestPreview
<1>7. CASE SetPreview(s)
  <2>1. Alone(s) /\ Local(slot'[s]) /\ slot'[s].pc = "done"
    BY Zenon, <1>7, FinishStep DEF SetPreview
  <2>2. Asking(s) /\ ~ Asking(s)' /\ previews' = previews \cup {Url(s)} /\ Unlock(s)
    BY Zenon, <1>7, <2>1 DEF SetPreview, Asking, At
  <2>3. PreviewInv'
    BY Zenon, <1>2, <2>1, <2>2, PreviewStep
  <2> QED BY Zenon, <1>1, <2>1, <2>3
<1>8. CASE RemovePreview(s)
  BY Zenon, <1>1, <1>3, <1>8 DEF RemovePreview
<1> QED BY SMTT(30), <1>4, <1>5, <1>6, <1>7, <1>8

-----------------------------------------------------------------------------
(* The tables of the resolver are cleared.                                 *)

LEMMA ClearCacheStep ==
  ASSUME LocalInv, FilesInv, PreviewInv, FedInv, ClearCache, UNCHANGED mediaVars
  PROVE  LocalInv' /\ FilesInv' /\ PreviewInv' /\ FedInv'
<1>1. ASSUME NEW t \in Slots
      PROVE  /\ Local(slot'[t]) /\ slot'[t].pc = slot[t].pc /\ slot'[t].job = slot[t].job
             /\ slot[t].pc \notin Resolving => slot'[t] = slot[t]
             /\ slot[t].pc \in Resolving => slot'[t].poor
             /\ slot'[t].to = slot[t].to /\ slot'[t].from = slot[t].from
             /\ slot'[t].name = slot[t].name /\ slot'[t].tgt = slot[t].tgt
  <2>1. CASE slot[t].pc \in Resolving
    <3>1. slot'[t] = Update(slot[t], [poor |-> TRUE])
      BY Zenon, <2>1 DEF ClearCache
    <3> QED BY ZenonT(40), <2>1, <3>1, PoorLocal DEF LocalInv
  <2>2. CASE slot[t].pc \notin Resolving
    <3>1. slot'[t] = slot[t]
      BY Zenon, <2>2 DEF ClearCache
    <3> QED BY Zenon, <2>2, <3>1 DEF LocalInv
  <2> QED BY Zenon, <2>1, <2>2
<1>2. LocalInv'
  <2>1. slot' = [t \in Slots |-> slot'[t]]
    BY Zenon DEF ClearCache
  <2> QED BY Zenon, <1>1, <2>1 DEF LocalInv
<1>3. FilesInv'
  <2>1. UNCHANGED <<rows, new, old, phase, todo, torn, raced>>
    BY Zenon DEF mediaVars, files
  <2>2. \A t \in Slots : slot[t].pc \in Critical \/ slot'[t].pc \in Critical => slot'[t] = slot[t]
    BY Zenon, <1>1 DEF Critical, DeletePcs, Resolving
  <2> QED BY Zenon, <1>1, <2>1, <2>2, QuietAll
<1>4. PreviewInv'
  <2>1. \A t \in Slots : (Asking(t)' <=> Asking(t)) /\ Url(t)' = Url(t)
    BY Zenon, <1>1 DEF Asking, Url
  <2>2. UNCHANGED <<previews, previewing>>
    BY Zenon DEF mediaVars
  <2> QED BY Zenon, <2>1, <2>2 DEF PreviewInv
<1>5. FedInv'
  <2>1. /\ era' = era /\ World' = World
        /\ dests' = [n \in Names |-> NoRow] /\ overrides' = [n \in Names |-> NoRow]
    BY Zenon DEF ClearCache, World
  <2>2. era \in Nat /\ era # 0 /\ era \in 1 .. Len(Worlds)
    BY WorldsAssumption DEF FedInv, Tables
  <2>3. \A n \in Names : overrides'[n].era = 0 /\ dests'[n].era = 0 /\ dests'[n].valid = FALSE
    BY Zenon, <2>1 DEF NoRow
  <2>4. Tables' /\ RowsRight' /\ DestsRight' /\ Renewed'
    BY <2>1, <2>2, <2>3 DEF Tables, RowsRight, DestsRight, Renewed
  <2>5. ASSUME NEW t \in Slots
        PROVE  Named(slot[t])' /\ (slot'[t].from = era => (Resolved(slot[t]))')
    <3>1. Named(slot[t]) /\ (slot[t].from = era => Resolved(slot[t]))
      BY Zenon DEF FedInv, TasksRight
    <3>2. Named(slot[t])'
      BY Zenon, <1>1, <2>1, <3>1 DEF Named
    <3>3. Target(slot[t].name)' = Target(slot[t].name)
      BY Zenon, <1>1, <2>1 DEF Target
    <3>4. slot[t].pc \in {"srv", "ip", "store", "connect"} => slot'[t].poor
      BY Zenon, <1>1 DEF Resolving
    <3>5. slot[t].pc = "sent" => slot'[t] = slot[t]
      BY Zenon, <1>1 DEF Resolving
    <3>6. slot'[t].from = era => (Resolved(slot[t]))'
      BY Zenon, <1>1, <2>1, <3>1, <3>3, <3>4, <3>5 DEF Resolved
    <3> QED BY Zenon, <3>2, <3>6
  <2>6. TasksRight'
    BY Zenon, <2>1, <2>5 DEF TasksRight
  <2> QED BY Zenon, <2>4, <2>6 DEF FedInv
<1> QED BY Zenon, <1>2, <1>3, <1>4, <1>5

-----------------------------------------------------------------------------
(* All steps.                                                              *)

IInv == LocalInv /\ FilesInv /\ PreviewInv /\ FedInv

LEMMA AloneInv ==
  ASSUME LocalInv, NEW s \in Slots, Alone(s), Local(slot'[s])
  PROVE  LocalInv'
  BY Zenon DEF LocalInv, Alone

(* A step of one task that is no store, deletion or preview.               *)
LEMMA PlainStep ==
  ASSUME IInv, phase = "up", NEW s \in Slots, Alone(s), Local(slot'[s]), UNCHANGED mediaVars,
         slot[s].pc \notin Critical,
         slot'[s].pc \notin Critical \cup {"prevask", "prevset"},
         slot'[s].pc = "meta" => slot'[s].job.op # "preview"
  PROVE  LocalInv' /\ FilesInv' /\ PreviewInv'
<1>1. LocalInv'
  BY Zenon, AloneInv DEF IInv
<1>2. UNCHANGED <<rows, new, old, phase, todo, torn, raced, previews, previewing>>
  BY Zenon DEF mediaVars, files
<1>3. FilesInv'
  BY Zenon, <1>2, Quiet DEF IInv
<1>4. \A t \in Slots : t # s => slot'[t].pc = slot[t].pc /\ slot'[t].job = slot[t].job
  BY Zenon DEF Alone
<1>5. PreviewInv'
  BY Zenon, <1>2, <1>4, Unasked DEF IInv, Critical
<1> QED BY Zenon, <1>1, <1>3, <1>5

(* No step but the resolver's takes a task on its way, or changes tables.  *)
LEMMA AloneFed ==
  ASSUME FedInv, NEW s \in Slots, Alone(s), UNCHANGED fedVars, slot'[s].pc \notin Resolving \cup {"sent"}
  PROVE  FedInv'
<1>1. \A t \in Slots : slot'[t].pc \in Resolving \cup {"sent"} => slot'[t] = slot[t]
  BY Zenon DEF Alone
<1> QED BY Zenon, <1>1, FedQuiet

LEMMA FedTaskStep ==
  ASSUME IInv, phase = "up", NEW s \in Slots, FedStep(s), UNCHANGED mediaVars
  PROVE  IInv'
<1>1. /\ Alone(s) /\ Local(slot'[s])
      /\ slot[s].pc \in Out /\ slot'[s].pc \in Out \cup {slot[s].back}
  BY Zenon, FedLocal DEF IInv
<1>2. slot[s].back \in {"fetched", "fetchedlegacy", "unauth", "keysresp"}
  BY Zenon, <1>1 DEF IInv, LocalInv, Local, Control
<1>3. LocalInv' /\ FilesInv' /\ PreviewInv'
  BY Zenon, <1>1, <1>2, PlainStep DEF Out, Critical, DeletePcs
<1> QED BY Zenon, <1>3, FedStepInv DEF IInv

LEMMA KeyTaskStep ==
  ASSUME IInv, phase = "up", NEW s \in Slots, KeyStep(s), UNCHANGED mediaVars
  PROVE  IInv'
<1>1. /\ Alone(s) /\ Local(slot'[s]) /\ slot'[s].pc \in KeyPcs \cup {"exec", "done"}
      /\ slot[s].pc \in KeyPcs \cup {"done"}
  BY Zenon, KeyLocal DEF IInv
<1>2. LocalInv' /\ FilesInv' /\ PreviewInv'
  BY Zenon, <1>1, PlainStep DEF KeyPcs, Critical, DeletePcs
<1>3. UNCHANGED fedVars
  BY Zenon DEF KeyStep, BeginKeys, GetVerifyKey, AskKey, AcquireLocals, AcquireStage, AcquireBatch,
     KeysResponse, AddRead, AddWrite, AddDone, CheckRequired
<1>4. FedInv'
  BY Zenon, <1>1, <1>3, AloneFed DEF IInv, KeyPcs, Resolving
<1> QED BY Zenon, <1>2, <1>4 DEF IInv

LEMMA MediaFed ==
  ASSUME NEW s, MediaStep(s)
  PROVE  UNCHANGED fedVars
<1>1. CASE BeginMedia(s)
  BY Zenon, <1>1 DEF BeginMedia, CreateContent, GetContent, GetContentLegacy, GetContentFederation,
     GetContentThumbnail, GetContentThumbnailLegacy, GetContentThumbnailFederation, GetRemote,
     GetMediaPreview, DeleteUrlPreview, DeleteFromUser, DeleteWithinTimeframe, DeleteFromServer,
     DeleteCommand, DeleteList, DeleteAll, Begins, reading
<1>2. CASE CreateMetadata(s) \/ CreateFile(s) \/ WriteFile(s) \/ Delete(s) \/ RemoveFirst(s)
           \/ RemoveSecond(s) \/ DeleteRows(s)
  BY Zenon, <1>2 DEF CreateMetadata, CreateFile, WriteFile, Delete, RemoveFirst, RemoveSecond, DeleteRows
<1>3. CASE Search(s) \/ SearchThumbnail(s) \/ SearchOriginal(s) \/ ReadFile(s) \/ Generate(s)
           \/ Missed(s) \/ FetchRemote(s) \/ FetchRemoteLegacy(s)
           \/ Fetched(s) \/ FetchedLegacy(s) \/ Location(s) \/ Unauthenticated(s)
  BY Zenon, <1>3 DEF Search, SearchThumbnail, SearchOriginal, ReadFile, Generate, Missed, FetchRemote,
     FetchRemoteLegacy, Fetched, FetchedLegacy, Location, Unauthenticated, reading
<1>4. CASE GetPreview(s) \/ LockPreview(s) \/ RequestPreview(s) \/ SetPreview(s) \/ RemovePreview(s)
  BY Zenon, <1>4 DEF GetPreview, LockPreview, RequestPreview, SetPreview, RemovePreview, reading, previewOnly
<1> QED BY Zenon, <1>1, <1>2, <1>3, <1>4 DEF MediaStep

LEMMA MediaTaskStep ==
  ASSUME IInv, phase = "up", NEW s \in Slots, MediaStep(s)
  PROVE  IInv'
<1>1. UNCHANGED fedVars
  BY Zenon, MediaFed
<1>2. ASSUME Alone(s), Local(slot'[s]), FilesInv', PreviewInv', slot'[s].pc \notin Resolving \cup {"sent"}
      PROVE  IInv'
  BY Zenon, <1>1, <1>2, AloneInv, AloneFed DEF IInv
<1>3. ASSUME Alone(s)
      PROVE  \A t \in Slots : t # s => slot'[t].pc = slot[t].pc /\ slot'[t].job = slot[t].job
  BY Zenon, <1>3 DEF Alone
<1>4. CASE BeginMedia(s)
  <2>1. /\ Alone(s) /\ Local(slot'[s]) /\ slot[s].pc = "done" /\ UNCHANGED mediaVars
        /\ slot'[s].pc \in GetPcs \cup {"meta", "prev", "prevdel", "del", "done"}
        /\ slot'[s].pc = "meta" => slot'[s].job.op = "upload"
    BY Zenon, <1>4, BeginLocal DEF IInv
  <2>2. FilesInv' /\ PreviewInv'
    BY Zenon, <2>1, PlainStep DEF GetPcs, Critical, DeletePcs
  <2> QED BY Zenon, <1>2, <2>1, <2>2 DEF GetPcs, Resolving
<1>5. CASE Search(s) \/ SearchThumbnail(s) \/ SearchOriginal(s) \/ ReadFile(s) \/ Generate(s)
           \/ Missed(s) \/ FetchRemote(s) \/ FetchRemoteLegacy(s)
           \/ Fetched(s) \/ FetchedLegacy(s) \/ Location(s) \/ Unauthenticated(s)
  <2>1. Read(s) /\ slot[s].pc \in GetPcs /\ UNCHANGED mediaVars
    BY Zenon, <1>5, ReadLocal DEF IInv
  <2>2. FilesInv' /\ PreviewInv'
    BY <2>1, PlainStep DEF Read, GetPcs, Gets, Critical, DeletePcs
  <2> QED BY Zenon, <1>2, <2>1, <2>2 DEF Read, GetPcs, Resolving
<1>6. CASE CreateMetadata(s)
  <2>1. /\ FilesInv' /\ Alone(s) /\ Local(slot'[s]) /\ slot'[s].job = slot[s].job
        /\ slot'[s].pc = "create"
    BY Zenon, <1>6, CreateMetadataFiles DEF IInv
  <2>2. slot[s].pc = "meta" /\ UNCHANGED <<previews, previewing>>
    BY Zenon, <1>6 DEF CreateMetadata, At
  <2>3. Asking(s)' => Asking(s)
    BY Zenon, <2>1, <2>2 DEF Asking
  <2>4. PreviewInv'
    BY Zenon, <1>3, <2>1, <2>2, <2>3, PreviewStep DEF IInv
  <2> QED BY Zenon, <1>2, <2>1, <2>4 DEF Resolving
<1>7. CASE CreateFile(s) \/ WriteFile(s)
  <2>1. FilesInv' /\ StoreEnd(s)
    BY Zenon, <1>7, CreateFileFiles, WriteFileFiles DEF IInv
  <2>2. slot[s].pc \in {"create", "write"}
    BY Zenon, <1>7 DEF CreateFile, WriteFile, At
  <2>3. PreviewInv'
    <3>1. CASE slot'[s].pc \in {"write", "prevset"} /\ slot'[s].job = slot[s].job /\ previewing' = previewing
      <4>1. slot'[s].pc = "prevset" => slot'[s].job.op = "preview"
        BY Zenon, <2>1 DEF StoreEnd, Local, Control, PreviewPcs
      <4>2. Asking(s)' => Asking(s)
        BY Zenon, <2>2, <3>1, <4>1 DEF Asking
      <4> QED BY Zenon, <1>3, <2>1, <3>1, <4>2, PreviewStep DEF StoreEnd, IInv
    <3>2. CASE slot'[s].pc = "done" /\ (previewing' = previewing \/ Unlock(s))
      BY Zenon, <1>3, <2>1, <3>2, Unasked DEF StoreEnd, IInv
    <3> QED BY Zenon, <2>1, <3>1, <3>2 DEF StoreEnd
  <2> QED BY Zenon, <1>2, <2>1, <2>3 DEF StoreEnd, Resolving
<1>8. CASE Delete(s) \/ RemoveFirst(s) \/ RemoveSecond(s) \/ DeleteRows(s)
  <2>1. FilesInv' /\ DeleteEnd(s)
    BY Zenon, <1>8, DeleteFiles, RemoveFirstFiles, RemoveSecondFiles, DeleteRowsFiles DEF IInv
  <2>2. PICK k : Cut(s, k)
    BY Zenon, <2>1 DEF DeleteEnd
  <2>3. LocalInv'
    BY Zenon, <2>1, <2>2 DEF DeleteEnd, Cut, LocalInv
  <2>4. PreviewInv'
    BY Zenon, <2>1, <2>2, Unasked DEF DeleteEnd, Cut, DeletePcs, IInv
  <2>5. \A t \in Slots : slot'[t].pc \in Resolving \cup {"sent"} => slot'[t] = slot[t]
    BY Zenon, <2>1, <2>2 DEF DeleteEnd, Cut, DeletePcs, Resolving
  <2>6. FedInv'
    BY Zenon, <1>1, <2>5, FedQuiet DEF IInv
  <2> QED BY Zenon, <2>1, <2>3, <2>4, <2>6 DEF IInv
<1>9. CASE GetPreview(s) \/ LockPreview(s) \/ RequestPreview(s) \/ SetPreview(s) \/ RemovePreview(s)
  <2>1. /\ PreviewInv' /\ Alone(s) /\ Local(slot'[s]) /\ UNCHANGED previewOnly
        /\ slot[s].pc \in PreviewPcs /\ slot'[s].pc \in PreviewPcs \cup {"meta", "done"}
    BY Zenon, <1>9, GetPreviewInv DEF IInv
  <2>2. FilesInv'
    BY Zenon, <2>1, Quiet DEF IInv, previewOnly, files, PreviewPcs, Critical, DeletePcs
  <2> QED BY Zenon, <1>2, <2>1, <2>2 DEF PreviewPcs, Resolving
<1> QED BY Zenon, <1>4, <1>5, <1>6, <1>7, <1>8, <1>9 DEF MediaStep

LEMMA InitIInv ==
  ASSUME Init
  PROVE  IInv
<1>1. PICK c \in Works : /\ slot = [s \in Slots |-> Start(c.works[s])]
                         /\ FedInit /\ InitMedia(c)
  BY Zenon DEF Init
<1>2. \A s \in Slots : Local(slot[s]) /\ slot[s].pc = "done"
  <2> SUFFICES ASSUME NEW s \in Slots
               PROVE  Local(slot[s]) /\ slot[s].pc = "done"
    BY Zenon
  <2>1. PICK q : q = Start(c.works[s])
    BY Zenon
  <2>2. c.works[s] \in Seq(Requests) /\ slot[s] = q
    BY Zenon, <1>1, <2>1, WorksAssumption
  <2> QED BY Zenon, <2>1, <2>2, Started
<1>3. LocalInv
  BY Zenon, <1>1, <1>2 DEF LocalInv
<1>4. Directory
  <2>1. c.stored \subseteq Mxcs
    BY Zenon, WorksAssumption
  <2>2. rows \subseteq Keys
    <3> SUFFICES ASSUME NEW m \in c.stored
                 PROVE  <<m, "orig", "named">> \in Keys
      BY Zenon, <1>1 DEF InitMedia
    <3> QED BY Zenon, <2>1, KeyOf DEF Kinds
  <2> QED BY Zenon, <1>1, <1>2, <2>2 DEF InitMedia, Directory
<1>5. FilesInv
  <2>1. \A k \in rows : new[k] = "whole" \/ old[k] = "file"
    BY Zenon, <1>1, <1>4 DEF InitMedia, Directory
  <2>2. \A k \in Keys \ rows : new[k] = "absent" /\ old[k] = "none"
    BY Zenon, <1>1 DEF InitMedia
  <2>3. Resting
    BY Zenon, <1>2, <2>1, <2>2 DEF Resting
  <2> QED BY Zenon, <1>4, <2>3, AtRest
<1>6. PreviewInv
  <2>1. \A s \in Slots : ~ Asking(s)
    BY Zenon, <1>2 DEF Asking
  <2> QED BY Zenon, <1>1, <2>1 DEF InitMedia, PreviewInv
<1>7. FedInv
  <2>1. era = 1 /\ era \in 1 .. Len(Worlds)
    BY <1>1, WorldsAssumption DEF FedInit
  <2>2. \A n \in Names : overrides[n].era = 0 /\ dests[n].era = 0 /\ dests[n].valid = FALSE
    BY Zenon, <1>1 DEF FedInit, NoRow
  <2>3. Tables
    BY SMTT(30), <1>1, <2>1, <2>2 DEF Tables, FedInit
  <2>4. RowsRight /\ DestsRight /\ Renewed
    BY <2>1, <2>2 DEF RowsRight, DestsRight, Renewed
  <2>5. TasksRight
    BY Zenon, <1>2 DEF TasksRight, Named, Resolved, Resolving
  <2> QED BY Zenon, <2>3, <2>4, <2>5 DEF FedInv
<1> QED BY Zenon, <1>3, <1>5, <1>6, <1>7 DEF IInv

LEMMA NextIInv ==
  ASSUME IInv, [Next]_vars
  PROVE  IInv'
<1>1. ASSUME slot' = slot, UNCHANGED mediaVars
      PROVE  LocalInv' /\ FilesInv' /\ PreviewInv'
  <2>1. UNCHANGED <<rows, new, old, phase, todo, torn, raced, previews, previewing>>
    BY Zenon, <1>1 DEF mediaVars, files
  <2>2. LocalInv'
    BY Zenon, <1>1 DEF IInv, LocalInv
  <2>3. FilesInv'
    BY Zenon, <1>1, <2>1, QuietAll DEF IInv
  <2>4. PreviewInv'
    BY Zenon, <1>1, <2>1 DEF IInv, PreviewInv, Asking, Url
  <2> QED BY Zenon, <2>2, <2>3, <2>4
<1>2. CASE UNCHANGED vars
  <2>1. slot' = slot /\ UNCHANGED mediaVars /\ UNCHANGED fedVars
    BY Zenon, <1>2 DEF vars
  <2>2. FedInv'
    BY Zenon, <2>1, FedQuiet DEF IInv
  <2> QED BY Zenon, <1>1, <2>1, <2>2 DEF IInv
<1>3. ASSUME NEW s \in Slots, Task(s)
      PROVE  IInv'
  BY Zenon, <1>3, FedTaskStep, KeyTaskStep, MediaTaskStep DEF Task
<1>4. CASE StartStep
  <2>1. slot' = slot /\ UNCHANGED <<fedVars, previews, previewing>>
    BY Zenon, <1>4 DEF StartStep, Startup, Migrate, MigrateDone, Checkup, CheckupDone, starting
  <2>2. FilesInv'
    BY Zenon, <1>4, StartFiles DEF IInv
  <2>3. LocalInv' /\ PreviewInv'
    BY Zenon, <2>1 DEF IInv, LocalInv, PreviewInv, Asking, Url
  <2>4. FedInv'
    BY Zenon, <2>1, FedQuiet DEF IInv
  <2> QED BY Zenon, <2>2, <2>3, <2>4 DEF IInv
<1>5. CASE FedEnv /\ UNCHANGED mediaVars
  <2>1. CASE ClearCache
    BY Zenon, <1>5, <2>1, ClearCacheStep DEF IInv
  <2>2. CASE Expire \/ Move
    <3>1. slot' = slot
      BY Zenon, <2>2 DEF Expire, Move
    <3>2. FedInv'
      BY Zenon, <2>2, ExpireFed, MoveFed DEF IInv
    <3> QED BY Zenon, <1>1, <1>5, <3>1, <3>2 DEF IInv
  <2> QED BY Zenon, <1>5, <2>1, <2>2 DEF FedEnv
<1>6. CASE Crash
  <2>1. LocalInv' /\ FilesInv' /\ PreviewInv'
    BY Zenon, <1>6, CrashStep DEF IInv
  <2>2. \A s \in Slots : slot'[s].pc = "done"
    <3> SUFFICES ASSUME NEW s \in Slots PROVE slot'[s].pc = "done"
      BY Zenon
    <3> QED BY Zenon, <1>6 DEF Crash, Start
  <2>3. FedInv'
    BY Zenon, <1>6, <2>2, FedQuiet DEF IInv, Crash, Resolving
  <2> QED BY Zenon, <2>1, <2>3 DEF IInv
<1> QED BY Zenon, <1>2, <1>3, <1>4, <1>5, <1>6 DEF Next, Env

(* The inductive invariant: where each task is and what it holds, who will *)
(* bring each row and its file together again, who holds the lock of a     *)
(* preview, and what the resolver's tables say of the present.             *)
THEOREM Invariance == Spec => []IInv
<1>1. Init => IInv
  BY Zenon, InitIInv
<1>2. IInv /\ [Next]_vars => IInv'
  BY Zenon, NextIInv
<1> QED BY <1>1, <1>2, PTL DEF Spec

(* Whatever tasks store and delete, and wherever crashes and restarts come *)
(* in between, the rows of the database and the files of the directory     *)
(* agree (service/media): no row is left without its file, and no file     *)
(* without a row, but for the interrupted and the overlapping ones.        *)
THEOREM FilesAgreeCorrect == Spec => []FilesAgree
<1>1. IInv => FilesAgree
  <2> SUFFICES ASSUME IInv PROVE FilesAgree
    BY Zenon
  <2>1. RowsHaveFiles
    <3> SUFFICES ASSUME NEW k \in rows, NEW s \in Slots, Owes(slot[s], k)
                 PROVE  Creating(k[1]) \cup Deleting(k[1]) # {}
      BY Zenon DEF RowsHaveFiles, IInv, FilesInv, Kept
    <3>1. Holds(slot[s])
      BY Zenon DEF IInv, LocalInv, Local
    <3> QED BY Zenon, <3>1 DEF Owes, Holds, Creating, Deleting, DeletePcs
  <2>2. NoOrphans
    <3> SUFFICES ASSUME NEW k \in Keys \ rows, NEW s \in Slots, WillRemove(slot[s], k)
                 PROVE  Deleting(k[1]) # {}
      BY Zenon DEF NoOrphans, IInv, FilesInv, Orphaned
    <3> QED BY Zenon DEF WillRemove, Deletes, DeletePcs, Deleting
  <2> QED BY Zenon, <2>1, <2>2 DEF FilesAgree
<1> QED BY <1>1, Invariance, PTL

(* At most one task requests a URL, and none requests a URL whose preview  *)
(* is stored (get_url_preview and its mutex).                              *)
THEOREM OnePreviewCorrect == Spec => []OnePreview
<1>1. IInv => OnePreview
  BY Zenon DEF IInv, PreviewInv, OnePreview
<1> QED BY <1>1, Invariance, PTL

(* However many tasks merge key documents into the table at once, an event *)
(* that is verified with fetching is rejected only for a key that nobody   *)
(* handed out (get_verify_key, add_signing_keys).                          *)
THEOREM RejectedOnlyUnknownCorrect == Spec => []RejectedOnlyUnknown
<1>1. IInv => RejectedOnlyUnknown
  BY Zenon DEF IInv, LocalInv, Local, Verdict, RejectedOnlyUnknown, At
<1> QED BY <1>1, Invariance, PTL

(* A request that rests on nothing older than the present goes to where    *)
(* its server is now, whatever expires, moves or is cleared, in any world  *)
(* of delegations and records (lookup_actual_dest, hooked_resolve).        *)
THEOREM ReachesHomeCorrect == Spec => []ReachesHome
<1>1. IInv => ReachesHome
  BY Zenon DEF IInv, FedInv, TasksRight, Resolved, ReachesHome, At
<1> QED BY <1>1, Invariance, PTL

LEMMA ContentStep ==
  ASSUME IInv, Next, NEW k \in Keys, Has(k), ~ Has(k)'
  PROVE  \/ \E s \in Slots : slot[s].pc \in {"rm", "rm2"} /\ slot[s].tgt = k[1]
         \/ \E s \in Slots : slot[s].pc = "create" /\ slot[s].key = k
         \/ Relinks(k)
<1>1. ~ UNCHANGED files
  BY Zenon DEF Has, files
<1>2. /\ new = [l \in Keys |-> new[l]] /\ old = [l \in Keys |-> old[l]]
      /\ rows \subseteq Keys /\ (phase # "up" => todo \subseteq rows)
  BY Zenon DEF IInv, FilesInv, Directory
<1>3. ASSUME NEW s \in Slots, MediaStep(s)
      PROVE  \/ slot[s].pc \in {"rm", "rm2"} /\ slot[s].tgt = k[1]
             \/ slot[s].pc = "create" /\ slot[s].key = k
  <2>1. CreateFile(s) \/ WriteFile(s) \/ RemoveFirst(s) \/ RemoveSecond(s)
    <3>1. CASE BeginMedia(s)
      BY Zenon, <1>1, <3>1, BeginLocal DEF IInv, mediaVars
    <3>2. CASE Search(s) \/ SearchThumbnail(s) \/ SearchOriginal(s) \/ ReadFile(s) \/ Generate(s)
               \/ Missed(s) \/ FetchRemote(s) \/ FetchRemoteLegacy(s)
               \/ Fetched(s) \/ FetchedLegacy(s) \/ Location(s) \/ Unauthenticated(s)
      BY Zenon, <1>1, <3>2, ReadLocal DEF IInv, mediaVars
    <3>3. CASE GetPreview(s) \/ LockPreview(s) \/ RequestPreview(s) \/ SetPreview(s) \/ RemovePreview(s)
      BY Zenon, <1>1, <3>3, GetPreviewInv DEF IInv, previewOnly
    <3>4. CASE CreateMetadata(s) \/ Delete(s) \/ DeleteRows(s)
      BY Zenon, <1>1, <3>4 DEF CreateMetadata, Delete, DeleteRows
    <3> QED BY Zenon, <1>3, <3>1, <3>2, <3>3, <3>4 DEF MediaStep
  <2>2. PICK q : q = slot[s] /\ Holds(q)
    BY Zenon DEF IInv, LocalInv, Local
  <2>3. CASE CreateFile(s)
    <3>1. q.pc = "create" /\ \A l \in Keys : l # q.key => new'[l] = new[l] /\ old'[l] = old[l]
      BY Zenon, <1>2, <2>2, <2>3 DEF CreateFile, At, files
    <3> QED BY Zenon, <2>2, <3>1 DEF Has
  <2>4. CASE WriteFile(s)
    <3>1. old' = old /\ \A l \in Keys : new'[l] = new[l] \/ new'[l] = "whole"
      BY Zenon, <1>2, <2>4 DEF WriteFile
    <3> QED BY Zenon, <3>1 DEF Has
  <2>5. CASE RemoveFirst(s)
    <3>1. PICK x \in q.keys : \A l \in Keys : l # x => new'[l] = new[l] /\ old'[l] = old[l]
      BY Zenon, <1>2, <2>2, <2>5 DEF RemoveFirst
    <3>2. q.pc = "rm"
      BY Zenon, <2>2, <2>5 DEF RemoveFirst, At
    <3> QED BY Zenon, <2>2, <3>1, <3>2 DEF Has, Holds, DeletePcs
  <2>6. CASE RemoveSecond(s)
    <3>1. q.pc = "rm2" /\ \A l \in Keys : l # q.key => new'[l] = new[l] /\ old'[l] = old[l]
      BY Zenon, <1>2, <2>2, <2>6 DEF RemoveSecond, At
    <3> QED BY Zenon, <2>2, <3>1 DEF Has, Holds, DeletePcs
  <2> QED BY Zenon, <2>1, <2>3, <2>4, <2>5, <2>6
<1>4. ASSUME NEW s \in Slots, Task(s)
      PROVE  MediaStep(s)
  BY Zenon, <1>1, <1>4 DEF Task, mediaVars
<1>5. CASE Migrate
  <2>1. PICK x \in todo :
          /\ new' = IF OldExists(x) THEN [new EXCEPT ![x] = Renamed(x)] ELSE new
          /\ old' = IF OldExists(x) THEN [old EXCEPT ![x] = IF compat THEN "link" ELSE "none"] ELSE old
    BY Zenon, <1>5 DEF Migrate
  <2>2. OldExists(x) /\ x = k /\ phase = "migrate"
    BY Zenon, <1>2, <1>5, <2>1 DEF Has, Migrate
  <2>3. new'[k] = Renamed(k)
    BY Zenon, <1>2, <2>1, <2>2
  <2> QED BY Zenon, <2>2, <2>3 DEF Has, Renamed, OldExists, Relinks
<1>6. CASE Checkup
  <2>1. PICK x \in todo : HandleMediaCheck(x)
    BY Zenon, <1>6 DEF Checkup
  <2>2. /\ \A l \in Keys : l # x => new'[l] = new[l] /\ old'[l] = old[l]
        /\ x = k => new'[k] = IF Repairs(k) /\ new[k] = "absent" THEN Renamed(k) ELSE new[k]
        /\ x = k => old'[k] = IF Repairs(k) THEN "link" ELSE IF ~compat /\ old[k] = "link" THEN "none" ELSE old[k]
    BY Zenon, <1>2, <2>1 DEF HandleMediaCheck
  <2> QED BY Zenon, <2>2 DEF Has, Renamed, Repairs
<1>7. ~ (Startup \/ MigrateDone \/ CheckupDone \/ Env)
  BY Zenon, <1>1 DEF Startup, MigrateDone, CheckupDone, Env, Crash, mediaVars
<1> QED BY Zenon, <1>3, <1>4, <1>5, <1>6, <1>7 DEF Next, StartStep

(* Content is lost only by a deletion, by a store that writes it again, or *)
(* by a migration that runs a second time with links (remove_media_file,   *)
(* create_media_file, migrate_sha256_media, handle_media_check).           *)
THEOREM ContentKeptCorrect == Spec => ContentKept
<1>1. IInv /\ [Next]_vars =>
        [\A k \in Keys : Has(k) /\ ~Has(k)' =>
            \/ \E s \in Slots : slot[s].pc \in {"rm", "rm2"} /\ slot[s].tgt = k[1]
            \/ \E s \in Slots : slot[s].pc = "create" /\ slot[s].key = k
            \/ Relinks(k)]_<<new, old>>
  <2>1. IInv /\ Next => \A k \in Keys : Has(k) /\ ~Has(k)' =>
            \/ \E s \in Slots : slot[s].pc \in {"rm", "rm2"} /\ slot[s].tgt = k[1]
            \/ \E s \in Slots : slot[s].pc = "create" /\ slot[s].key = k
            \/ Relinks(k)
    BY Zenon, ContentStep
  <2>2. UNCHANGED vars => UNCHANGED <<new, old>>
    BY Zenon DEF vars, mediaVars, files
  <2> QED BY Zenon, <2>1, <2>2
<1> QED BY <1>1, Invariance, PTL DEF Spec, ContentKept
=============================================================================
