--------------------------- MODULE SendingProofs ----------------------------
(***************************************************************************)
(* Proofs about the outbound queue, for any number of destinations,        *)
(* workers, rows, failures and restarts: the types, and what the           *)
(* operations on the tables do to the rows; a destination has one          *)
(* transaction in flight at most, and the active rows are those of that    *)
(* transaction; no message is lost; the range of EDUs that is selected and *)
(* the size of a transaction are bounded.                                  *)
(***************************************************************************)
EXTENDS Sending, FiniteSetTheorems, SequenceTheorems, WellFoundedInduction, TLAPS

----------------------------------------------------------------------------
(* Sequences.                                                              *)

(* Removing one element of a sequence leaves a sequence, one shorter.      *)
LEMMA WithoutProperties ==
  ASSUME NEW S, NEW q \in Seq(S), NEW i \in DOMAIN q
  PROVE  /\ Without(q, i) \in Seq(S)
         /\ Len(Without(q, i)) = Len(q) - 1
<1>1. i \in 1 .. Len(q) /\ Len(q) \in Nat
  BY Zenon, LenProperties
<1>2. /\ SubSeq(q, 1, i - 1) \in Seq(S)
      /\ Len(SubSeq(q, 1, i - 1)) = i - 1
  BY <1>1, SubSeqProperties
<1>3. /\ SubSeq(q, i + 1, Len(q)) \in Seq(S)
      /\ Len(SubSeq(q, i + 1, Len(q))) = Len(q) - i
  BY <1>1, SubSeqProperties
<1>4. /\ SubSeq(q, 1, i - 1) \o SubSeq(q, i + 1, Len(q)) \in Seq(S)
      /\ Len(SubSeq(q, 1, i - 1) \o SubSeq(q, i + 1, Len(q))) = (i - 1) + (Len(q) - i)
  BY <1>2, <1>3, ConcatProperties
<1>5. (i - 1) + (Len(q) - i) = Len(q) - 1
  BY <1>1
<1>6. QED
  BY <1>4, <1>5, Zenon DEF Without

(* A finite set can be listed.                                             *)
LEMMA ListingType ==
  ASSUME NEW S, IsFiniteSet(S)
  PROVE  Listing(S) \in Seq(S)
<1>1. Cardinality(S) \in Nat /\ ExistsBijection(1 .. Cardinality(S), S)
  BY Zenon, FS_CardinalityType
<1>2. \E f \in [1 .. Cardinality(S) -> S] : IsInjective(f)
  BY Zenon, <1>1 DEF ExistsBijection, Bijection, Injection, IsInjective
<1>3. Listing(S) \in [1 .. Cardinality(S) -> S]
  BY Zenon, <1>2 DEF Listing
<1>4. QED
  BY Zenon, <1>1, <1>3, SeqDef

----------------------------------------------------------------------------
(* Tables.                                                                 *)

LEMMA TableOps ==
  ASSUME NEW b \in Tables, NEW d \in Dests, NEW S \in SUBSET Rows
  PROVE  /\ mark_as_active(b, d, S) \in Tables
         /\ MarkSteps(b, d, S) \subseteq Tables
         /\ delete_all_active_requests_for(b, d) \in Tables
         /\ DeleteActiveSteps(b, d) \subseteq Tables
         /\ delete_all_requests_for(b, d) \in Tables
         /\ DeleteAllSteps(b, d) \subseteq Tables
<1>1. \A T \in SUBSET Rows : mark_as_active(b, d, T) \in Tables
  BY Zenon DEF mark_as_active, Tables
<1>2. \A T, U \in SUBSET Rows :
        [b EXCEPT !.active[d] = @ \cup T, !.queued[d] = @ \ U] \in Tables
  BY Zenon DEF Tables
<1>3. \A k : UpTo(S, k) \in SUBSET Rows /\ Below(S, k) \in SUBSET Rows
  BY Zenon DEF UpTo, Below
<1>4. \A T \in SUBSET Rows : [b EXCEPT !.active[d] = T] \in Tables
  BY Zenon DEF Tables
<1>5. \A T \in SUBSET Rows : [b EXCEPT !.active[d] = {}, !.queued[d] = T] \in Tables
  BY Zenon DEF Tables
<1>6. b.active[d] \in SUBSET Rows /\ b.queued[d] \in SUBSET Rows
  BY Zenon DEF Tables
<1>7. MarkSteps(b, d, S) \subseteq Tables
  <2>1. {[b EXCEPT !.active[d] = @ \cup UpTo(S, k), !.queued[d] = @ \ Below(S, k)] : k \in S}
          \subseteq Tables
    <3>1. \A k \in S : [b EXCEPT !.active[d] = @ \cup UpTo(S, k),
                                  !.queued[d] = @ \ Below(S, k)] \in Tables
      BY <1>2, <1>3, Zenon
    <3>2. QED
      BY <3>1, Zenon
  <2>2. {mark_as_active(b, d, UpTo(S, k)) : k \in S} \subseteq Tables
    BY <1>1, <1>3, Zenon
  <2>3. QED
    BY <2>1, <2>2, Zenon DEF MarkSteps
<1>8. DeleteActiveSteps(b, d) \subseteq Tables
  BY Zenon, <1>4, <1>6 DEF DeleteActiveSteps
<1>9. delete_all_active_requests_for(b, d) \in Tables
  BY Zenon, <1>4 DEF delete_all_active_requests_for
<1>10. delete_all_requests_for(b, d) \in Tables
  BY <1>5, Zenon DEF delete_all_requests_for
<1>11. DeleteAllSteps(b, d) \subseteq Tables
  BY <1>5, <1>6, <1>8, Zenon DEF DeleteAllSteps
<1>12. QED
  BY Zenon, <1>1, <1>7, <1>8, <1>9, <1>10, <1>11

LEMMA MoreTableOps ==
  ASSUME NEW b \in Tables
  PROVE  /\ \A ds \in SUBSET Dests, r \in Rows : Queued(b, ds, r) \in Tables
         /\ \A n \in 0 .. MaxCount : [b EXCEPT !.count = n] \in Tables
         /\ \A d \in Dests, n \in 0 .. MaxCount : [b EXCEPT !.educount[d] = n] \in Tables
         /\ \A f \in [Dests -> SUBSET Rows] : [b EXCEPT !.active = f] \in Tables
BY Zenon DEF Queued, Tables

LEMMA CommitType ==
  ASSUME TypeOK, NEW final \in Tables, NEW mids \in SUBSET Tables, Commit(final, mids)
  PROVE  /\ db' \in Tables
         /\ disk' \in Tables
         /\ stored' \in [Dests -> SUBSET Rows]
<1>1. disk' \in Tables /\ db' \in Tables
  BY Zenon DEF Commit, TypeOK
<1>2. \A d \in Dests : disk'.queued[d] \in SUBSET Rows /\ disk'.active[d] \in SUBSET Rows
  BY Zenon, <1>1 DEF Tables
<1>3. QED
  BY Zenon, <1>1, <1>2 DEF Commit, TypeOK

LEMMA DispatchType ==
  ASSUME TypeOK, NEW ds \in SUBSET Dests, IsFiniteSet(ds), NEW row \in Rows \cup {Flush},
         dispatch(ds, row)
  PROVE  channel' \in [Shards -> Seq(Msgs)]
<1> DEFINE M(s) == {[dest |-> d, row |-> row] : d \in {e \in ds : ShardOf[e] = s}}
<1>1. ASSUME NEW s \in Shards
      PROVE  channel[s] \o Listing(M(s)) \in Seq(Msgs)
  <2>1. IsFiniteSet({e \in ds : ShardOf[e] = s})
    BY Zenon, FS_Subset
  <2>2. IsFiniteSet(M(s))
    <3> DEFINE D == {e \in ds : ShardOf[e] = s}
               f == [e \in D |-> [dest |-> e, row |-> row]]
    <3>1. f \in Surjection(D, M(s))
      BY Zenon DEF Surjection
    <3>2. QED
      BY Zenon, <2>1, <3>1, FS_Surjection DEF ExistsSurjection
  <2>3. M(s) \in SUBSET Msgs
    BY DEF Msgs
  <2>4. Listing(M(s)) \in Seq(M(s))
    BY Zenon, <2>2, ListingType
  <2>5. Listing(M(s)) \in Seq(Msgs)
    BY Zenon, <2>3, <2>4, SeqMonotonic
  <2>6. channel[s] \in Seq(Msgs)
    BY Zenon DEF TypeOK
  <2>7. QED
    BY Zenon, <2>5, <2>6, ConcatProperties
<1>2. \A s \in Shards : channel[s] \in Seq(Msgs)
  BY Zenon DEF TypeOK
<1>3. QED
  BY Zenon, <1>1, <1>2 DEF dispatch

----------------------------------------------------------------------------
(* Type correctness.                                                       *)

LEMMA StatusTypes ==
  /\ Vacant \in Statuses /\ Running \in Statuses
  /\ \A n \in 0 .. MaxTries : Failed(n) \in Statuses /\ Retrying(n) \in Statuses
  /\ \A st \in Statuses : AfterError(st) \in Statuses
BY SendingAssumption DEF Statuses, Vacant, Running, Failed, Retrying, AfterError

LEMMA FuturesTypes ==
  ASSUME TypeOK, NEW d \in Dests
  PROVE  /\ \A f \in Futures : Append(futures[d], f) \in Seq(Futures)
         /\ \A f \in Futures : [futures EXCEPT ![d] = Append(@, f)] \in [Dests -> Seq(Futures)]
         /\ \A i \in DOMAIN futures[d] : Pop(d, i) \in [Dests -> Seq(Futures)]
         /\ \A i \in DOMAIN futures[d] : futures[d][i].rows \in SUBSET Rows
<1>1. futures[d] \in Seq(Futures) /\ futures \in [Dests -> Seq(Futures)]
  BY Zenon DEF TypeOK
<1>2. \A f \in Futures : Append(futures[d], f) \in Seq(Futures)
  BY Zenon, <1>1, AppendProperties
<1>3. \A i \in DOMAIN futures[d] : Without(futures[d], i) \in Seq(Futures)
  BY Zenon, <1>1, WithoutProperties
<1>4. \A i \in DOMAIN futures[d] : futures[d][i] \in Futures
  BY Zenon, <1>1, ElementOfSeq, LenProperties
<1>5. QED
  BY <1>1, <1>2, <1>3, <1>4, Zenon DEF Pop, Futures

LEMMA TypeInit == Init => TypeOK
<1> SUFFICES ASSUME Init PROVE TypeOK
  BY Zenon
<1>1. EmptyTables \in Tables
  BY SendingAssumption DEF EmptyTables, Tables
<1>2. << >> \in Seq(Msgs) /\ << >> \in Seq(Futures)
  BY Zenon, EmptySeq
<1>3. /\ channel \in [Shards -> Seq(Msgs)]
      /\ futures \in [Dests -> Seq(Futures)]
      /\ status \in [Dests -> Statuses]
  BY Zenon, <1>2, StatusTypes DEF Init
<1>4. /\ sent \in [Dests -> SUBSET Rows]
      /\ stored \in [Dests -> SUBSET Rows]
      /\ acked \in [Dests -> SUBSET Rows]
      /\ dropped \in [Dests -> SUBSET Rows]
  BY Zenon DEF Init
<1>5. failures \in 0 .. MaxFailures /\ restarts \in 0 .. MaxRestarts
  BY SendingAssumption DEF Init
<1>6. QED
  BY <1>1, <1>3, <1>4, <1>5, Zenon DEF Init, TypeOK

LEMMA LoopTopType ==
  ASSUME TypeOK, NEW s, LoopTop(s)
  PROVE  worker' \in [Shards -> {"starting", "working", "finishing", "done"}]
BY Zenon DEF LoopTop, TypeOK

LEMMA TailType ==
  ASSUME NEW q \in Seq(Msgs), q # << >>
  PROVE  /\ Tail(q) \in Seq(Msgs)
         /\ Head(q).dest \in Dests
         /\ Head(q).row \in Rows \cup {Flush}
         /\ {Head(q).row} \ {Flush} \in SUBSET Rows
<1>1. Tail(q) \in Seq(Msgs) /\ Head(q) \in Msgs
  BY Zenon, HeadTailProperties
<1>2. QED
  BY Zenon, <1>1 DEF Msgs

LEMMA TypeProducers ==
  ASSUME TypeOK
  PROVE  /\ \A ds \in SUBSET Federation, r \in Rows : SendPdu(ds, r) => TypeOK'
         /\ \A d \in Appservices \cup Pushers, r \in Rows : SendPdu({d}, r) => TypeOK'
         /\ \A ds \in SUBSET Federation, r \in Rows : SendEdu(ds, r) => TypeOK'
         /\ \A d \in Federation : FlushServers(d) => TypeOK'
         /\ NextCount => TypeOK'
         /\ \A d \in Appservices \cup Pushers : CleanupEvents(d) => TypeOK'
<1>0. db \in Tables /\ db.count \in 0 .. MaxCount
  BY Zenon DEF TypeOK, Tables
<1>1. ASSUME NEW ds \in SUBSET Dests, IsFiniteSet(ds), NEW r \in Rows, SendPdu(ds, r)
      PROVE  TypeOK'
  <2>1. Queued(db, ds, r) \in Tables
    BY Zenon, <1>0, MoreTableOps
  <2>2. db' \in Tables /\ disk' \in Tables /\ stored' \in [Dests -> SUBSET Rows]
    BY <1>1, <2>1, CommitType DEF SendPdu
  <2>3. channel' \in [Shards -> Seq(Msgs)]
    BY Zenon, <1>1, DispatchType DEF SendPdu
  <2>4. sent' \in [Dests -> SUBSET Rows]
    BY Zenon, <1>1 DEF SendPdu, TypeOK
  <2>5. QED
    BY Zenon, <1>1, <2>2, <2>3, <2>4 DEF SendPdu, TypeOK
<1>2. ASSUME NEW ds \in SUBSET Federation, NEW r \in Rows, SendEdu(ds, r)
      PROVE  TypeOK'
  <2> DEFINE Counted(n) == [db EXCEPT !.count = @ + n]
  <2>1. IsFiniteSet(ds) /\ Cardinality(ds) \in Nat
    BY Zenon, SendingAssumption, FS_Subset, FS_CardinalityType
  <2>2. \A n \in 0 .. Cardinality(ds) : Counted(n) \in Tables
    <3> SUFFICES ASSUME NEW n \in 0 .. Cardinality(ds)
                 PROVE  Counted(n) \in Tables
      BY Zenon
    <3>1. db.count + n \in 0 .. MaxCount
      BY <1>0, <1>2, <2>1, SendingAssumption DEF SendEdu
    <3>2. QED
      BY Zenon, <1>0, <3>1, MoreTableOps
  <2>3. Queued(Counted(Cardinality(ds)), ds, r) \in Tables
    <3>1. Counted(Cardinality(ds)) \in Tables
      BY <2>1, <2>2
    <3>2. ds \in SUBSET Dests
      BY Zenon DEF Dests
    <3>3. QED
      BY <3>1, <3>2, MoreTableOps, Zenon
  <2>4. {Counted(n) : n \in 1 .. Cardinality(ds)} \in SUBSET Tables
    BY <2>1, <2>2
  <2>5. db' \in Tables /\ disk' \in Tables /\ stored' \in [Dests -> SUBSET Rows]
    BY Zenon, <1>2, <2>3, <2>4, CommitType DEF SendEdu
  <2>6. channel' \in [Shards -> Seq(Msgs)]
    BY Zenon, <1>2, <2>1, DispatchType DEF SendEdu, Dests
  <2>7. sent' \in [Dests -> SUBSET Rows]
    BY Zenon, <1>2 DEF SendEdu, TypeOK
  <2>8. QED
    BY Zenon, <1>2, <2>5, <2>6, <2>7 DEF SendEdu, TypeOK
<1>3. ASSUME NEW d \in Federation, FlushServers(d)
      PROVE  TypeOK'
  <2>1. channel' \in [Shards -> Seq(Msgs)]
    BY <1>3, DispatchType, FS_Singleton, Zenon DEF FlushServers, Dests
  <2>2. QED
    BY Zenon, <1>3, <2>1 DEF FlushServers, TypeOK
<1>4. ASSUME NextCount
      PROVE  TypeOK'
  <2>1. [db EXCEPT !.count = @ + 1] \in Tables
    BY <1>0, <1>4, MoreTableOps, SendingAssumption DEF NextCount
  <2>2. db' \in Tables /\ disk' \in Tables /\ stored' \in [Dests -> SUBSET Rows]
    BY <1>4, <2>1, CommitType DEF NextCount
  <2>3. QED
    BY Zenon, <1>4, <2>2 DEF NextCount, TypeOK
<1>5. ASSUME NEW d \in Appservices \cup Pushers, CleanupEvents(d)
      PROVE  TypeOK'
  <2>1. d \in Dests
    BY Zenon DEF Dests
  <2>2. db' \in Tables /\ disk' \in Tables /\ stored' \in [Dests -> SUBSET Rows]
    BY Zenon, <1>0, <1>5, <2>1, TableOps, CommitType DEF CleanupEvents
  <2>3. dropped' \in [Dests -> SUBSET Rows]
    BY <1>0, <1>5, Zenon DEF CleanupEvents, TypeOK, Tables
  <2>4. QED
    BY Zenon, <1>5, <2>2, <2>3 DEF CleanupEvents, TypeOK
<1>6. \A ds \in SUBSET Federation : ds \in SUBSET Dests /\ IsFiniteSet(ds)
  BY Zenon, SendingAssumption, FS_Subset DEF Dests
<1>7. \A d \in Appservices \cup Pushers : {d} \in SUBSET Dests /\ IsFiniteSet({d})
  BY Zenon, FS_Singleton DEF Dests
<1>8. QED
  BY Zenon, <1>1, <1>2, <1>3, <1>4, <1>5, <1>6, <1>7

LEMMA TypeReceive ==
  ASSUME TypeOK, NEW s \in Shards, Receive(s)
  PROVE  /\ channel' \in [Shards -> Seq(Msgs)]
         /\ worker' \in [Shards -> {"starting", "working", "finishing", "done"}]
         /\ Head(channel[s]).dest \in Dests
         /\ {Head(channel[s]).row} \ {Flush} \in SUBSET Rows
<1>1. channel[s] \in Seq(Msgs) /\ channel[s] # << >>
  BY Zenon DEF Receive, TypeOK
<1>2. QED
  BY Zenon, <1>1, TailType, LoopTopType DEF Receive, TypeOK

LEMMA TypeWorker ==
  ASSUME TypeOK, NEW s \in Shards
  PROVE  /\ StartupNetburst(s) => TypeOK'
         /\ HandleRequestBusy(s) => TypeOK'
         /\ HandleRequestRetry(s) => TypeOK'
         /\ HandleRequestNew(s) => TypeOK'
         /\ LeaveLoop(s) => TypeOK'
         /\ FinishEnd(s) => TypeOK'
<1>0. db \in Tables /\ \A d \in Dests : db.active[d] \in SUBSET Rows
  BY Zenon DEF TypeOK, Tables
<1>1. ASSUME StartupNetburst(s)
      PROVE  TypeOK'
  <2> DEFINE final == [db EXCEPT !.active = [d \in Dests |->
                         IF ShardOf[d] = s THEN Kept(@[d]) ELSE @[d]]]
             burst == {d \in Dests : ShardOf[d] = s /\ Netburst /\ final.active[d] # {}}
  <2>1. \A S \in SUBSET Rows : Kept(S) \in SUBSET Rows
    BY Zenon DEF Kept
  <2>2. final \in Tables
    BY <1>0, <2>1, MoreTableOps, Zenon
  <2>3. DropSteps(db, s) \in SUBSET Tables
    <3>1. \A k \in [Dests -> 0 .. MaxRow] :
            [d \in Dests |-> IF ShardOf[d] = s
                             THEN db.active[d] \ UpTo(db.active[d] \ Kept(db.active[d]), k[d])
                             ELSE db.active[d]] \in [Dests -> SUBSET Rows]
      BY Zenon, <1>0
    <3>2. QED
      BY <1>0, <3>1, MoreTableOps, Zenon DEF DropSteps
  <2>4. db' \in Tables /\ disk' \in Tables /\ stored' \in [Dests -> SUBSET Rows]
    BY Zenon, <1>1, <2>2, <2>3, CommitType DEF StartupNetburst
  <2>5. \A d \in Dests : final.active[d] \in SUBSET Rows
    BY Zenon, <2>2 DEF Tables
  <2>6. dropped' \in [Dests -> SUBSET Rows]
    BY Zenon, <1>0, <1>1 DEF StartupNetburst, TypeOK
  <2>7. status' \in [Dests -> Statuses]
    BY Zenon, <1>1, StatusTypes DEF StartupNetburst, TypeOK
  <2>8. futures' \in [Dests -> Seq(Futures)]
    <3>1. \A d \in Dests : /\ futures[d] \in Seq(Futures)
                           /\ Append(futures[d], [rows |-> final.active[d], edus |-> FALSE])
                                \in Seq(Futures)
      BY <2>5, FuturesTypes, Zenon DEF Futures, TypeOK
    <3>2. futures' = [d \in Dests |->
                        IF d \in burst
                        THEN Append(futures[d], [rows |-> final.active[d], edus |-> FALSE])
                        ELSE futures[d]]
      BY Zenon, <1>1 DEF StartupNetburst
    <3> HIDE DEF final, burst
    <3>3. QED
      BY Zenon, <3>1, <3>2
  <2>9. worker' \in [Shards -> {"starting", "working", "finishing", "done"}]
    BY Zenon, <1>1, LoopTopType DEF StartupNetburst
  <2>10. UNCHANGED <<channel, closed, sent, acked, failures, restarts>>
    BY Zenon, <1>1 DEF StartupNetburst
  <2> HIDE DEF final, burst
  <2>11. QED
    BY Zenon, <2>4, <2>6, <2>7, <2>8, <2>9, <2>10 DEF TypeOK
<1>2. ASSUME HandleRequestBusy(s)
      PROVE  TypeOK'
  BY <1>2, TypeReceive, Zenon DEF HandleRequestBusy, Receive, TypeOK
<1>3. ASSUME HandleRequestRetry(s)
      PROVE  TypeOK'
  <2> DEFINE d == Head(channel[s]).dest
  <2>1. /\ channel' \in [Shards -> Seq(Msgs)]
        /\ worker' \in [Shards -> {"starting", "working", "finishing", "done"}]
        /\ d \in Dests
        /\ UNCHANGED <<closed, sent, acked, dropped, failures, restarts>>
        /\ UNCHANGED <<db, disk, stored>>
    BY <1>3, TypeReceive, Zenon DEF HandleRequestRetry, Receive
  <2>2. status[d].tries \in 0 .. MaxTries
    BY Zenon, <2>1 DEF TypeOK, Statuses
  <2>3. status' \in [Dests -> Statuses]
    BY <1>3, <2>1, <2>2, StatusTypes, Zenon DEF HandleRequestRetry, SetStatus, TypeOK
  <2>4. [rows |-> db.active[d], edus |-> FALSE] \in Futures
    BY Zenon, <1>0, <2>1 DEF Futures
  <2>5. futures' \in [Dests -> Seq(Futures)]
    <3>1. \/ futures' = [futures EXCEPT ![d] = Append(@, [rows |-> db.active[d], edus |-> FALSE])]
          \/ futures' = futures
      BY <1>3, Zenon DEF HandleRequestRetry, Push
    <3> HIDE DEF d
    <3>2. [futures EXCEPT ![d] = Append(@, [rows |-> db.active[d], edus |-> FALSE])]
            \in [Dests -> Seq(Futures)]
      BY Zenon, <2>1, <2>4, FuturesTypes
    <3>3. QED
      BY <3>1, <3>2, Zenon DEF TypeOK
  <2>6. QED
    BY Zenon, <2>1, <2>3, <2>5 DEF TypeOK
<1>4. ASSUME HandleRequestNew(s)
      PROVE  TypeOK'
  <2> DEFINE d == Head(channel[s]).dest
             S == {Head(channel[s]).row} \ {Flush}
             marked == mark_as_active(db, d, S)
  <2>1. /\ channel' \in [Shards -> Seq(Msgs)]
        /\ worker' \in [Shards -> {"starting", "working", "finishing", "done"}]
        /\ d \in Dests
        /\ S \in SUBSET Rows
        /\ UNCHANGED <<closed, sent, acked, dropped, failures, restarts>>
    BY <1>4, TypeReceive, Zenon DEF HandleRequestNew, Receive
  <2>2. PICK last \in EduWindow(d), edus \in BOOLEAN :
          /\ Commit([marked EXCEPT !.educount[d] = last], MarkSteps(db, d, S) \cup {marked})
          /\ Push(d, [rows |-> S, edus |-> edus])
    BY <1>4, Zenon DEF HandleRequestNew
  <2>3. last \in 0 .. MaxCount
    <3>1. db.educount[d] \in 0 .. MaxCount /\ db.count \in 0 .. MaxCount
      BY <1>0, <2>1, Zenon DEF Tables
    <3>2. QED
      BY <2>2, <3>1, SendingAssumption DEF EduWindow
  <2>4. marked \in Tables /\ MarkSteps(db, d, S) \in SUBSET Tables
    BY Zenon, <1>0, <2>1, TableOps
  <2>5. [marked EXCEPT !.educount[d] = last] \in Tables
    BY <2>1, <2>3, <2>4, MoreTableOps, Zenon
  <2>6. db' \in Tables /\ disk' \in Tables /\ stored' \in [Dests -> SUBSET Rows]
    <3>1. MarkSteps(db, d, S) \cup {marked} \in SUBSET Tables
      BY <2>4, Zenon
    <3>2. QED
      BY <2>2, <2>5, <3>1, CommitType, Zenon
  <2>7. futures' \in [Dests -> Seq(Futures)]
    <3>1. [rows |-> S, edus |-> edus] \in Futures
      BY Zenon, <2>1, <2>2 DEF Futures
    <3>2. QED
      BY Zenon, <2>1, <2>2, <3>1, FuturesTypes DEF Push
  <2>8. status' \in [Dests -> Statuses]
    BY Zenon, <1>4, <2>1, StatusTypes DEF HandleRequestNew, SetStatus, TypeOK
  <2>9. QED
    BY Zenon, <2>1, <2>6, <2>7, <2>8 DEF TypeOK
<1>5. ASSUME LeaveLoop(s)
      PROVE  TypeOK'
  BY Zenon, <1>5 DEF LeaveLoop, TypeOK
<1>6. ASSUME FinishEnd(s)
      PROVE  TypeOK'
  BY Zenon, <1>6, EmptySeq DEF FinishEnd, TypeOK
<1>7. QED
  BY Zenon, <1>1, <1>2, <1>3, <1>4, <1>5, <1>6

LEMMA TypeResponse ==
  ASSUME TypeOK, NEW d \in Dests, NEW i \in DOMAIN futures[d]
  PROVE  /\ HandleResponseOk(d, i) => TypeOK'
         /\ HandleResponseErr(d, i) => TypeOK'
         /\ FinishOk(d, i) => TypeOK'
         /\ FinishErr(d, i) => TypeOK'
<1>0. /\ db \in Tables
      /\ db.queued[d] \in SUBSET Rows
      /\ status[d] \in Statuses
      /\ Pop(d, i) \in [Dests -> Seq(Futures)]
      /\ futures[d][i].rows \in SUBSET Rows
  BY Zenon, FuturesTypes DEF TypeOK, Tables
<1>1. ASSUME HandleResponseOk(d, i)
      PROVE  TypeOK'
  <2> DEFINE clean == delete_all_active_requests_for(db, d)
             batch == FirstQueued(db.queued[d])
  <2>1. batch \in SUBSET Rows
    BY Zenon, <1>0 DEF FirstQueued
  <2>2. /\ clean \in Tables
        /\ mark_as_active(clean, d, batch) \in Tables
        /\ DeleteActiveSteps(db, d) \cup MarkSteps(clean, d, batch) \in SUBSET Tables
    <3>1. clean \in Tables
      BY <1>0, TableOps, Zenon
    <3> HIDE DEF clean, batch
    <3>2. QED
      BY <1>0, <2>1, <3>1, TableOps, Zenon
  <2>3. db' \in Tables /\ disk' \in Tables /\ stored' \in [Dests -> SUBSET Rows]
    BY Zenon, <1>1, <2>2, CommitType DEF HandleResponseOk
  <2>4. acked' \in [Dests -> SUBSET Rows]
    BY Zenon, <1>0, <1>1 DEF HandleResponseOk, TypeOK
  <2>5. status' \in [Dests -> Statuses]
    BY <1>1, StatusTypes, Zenon DEF HandleResponseOk, SetStatus, TypeOK
  <2>6. futures' \in [Dests -> Seq(Futures)]
    <3>1. Append(Pop(d, i)[d], [rows |-> batch, edus |-> FALSE]) \in Seq(Futures)
      BY <1>0, <2>1, AppendProperties, Zenon DEF Futures
    <3>2. QED
      BY <1>0, <1>1, <3>1, Zenon DEF HandleResponseOk
  <2>7. worker' \in [Shards -> {"starting", "working", "finishing", "done"}]
    BY <1>1, LoopTopType, Zenon DEF HandleResponseOk
  <2>8. UNCHANGED <<channel, closed, sent, dropped, failures, restarts>>
    BY <1>1, Zenon DEF HandleResponseOk
  <2>9. QED
    BY Zenon, <2>3, <2>4, <2>5, <2>6, <2>7, <2>8 DEF TypeOK
<1>2. ASSUME HandleResponseErr(d, i)
      PROVE  TypeOK'
  <2>1. status' \in [Dests -> Statuses]
    BY Zenon, <1>0, <1>2, StatusTypes DEF HandleResponseErr, SetStatus, TypeOK
  <2>2. worker' \in [Shards -> {"starting", "working", "finishing", "done"}]
    BY Zenon, <1>2, LoopTopType DEF HandleResponseErr
  <2>3. failures' \in 0 .. MaxFailures
    BY <1>2, SendingAssumption DEF HandleResponseErr, TypeOK
  <2>4. QED
    BY Zenon, <1>0, <1>2, <2>1, <2>2, <2>3 DEF HandleResponseErr, TypeOK
<1>3. ASSUME FinishOk(d, i)
      PROVE  TypeOK'
  <2>1. db' \in Tables /\ disk' \in Tables /\ stored' \in [Dests -> SUBSET Rows]
    BY <1>0, <1>3, TableOps, CommitType, Zenon DEF FinishOk
  <2>2. acked' \in [Dests -> SUBSET Rows]
    BY Zenon, <1>0, <1>3 DEF FinishOk, TypeOK
  <2>3. QED
    BY Zenon, <1>0, <1>3, <2>1, <2>2 DEF FinishOk, TypeOK
<1>4. ASSUME FinishErr(d, i)
      PROVE  TypeOK'
  BY Zenon, <1>0, <1>4 DEF FinishErr, TypeOK
<1>5. QED
  BY Zenon, <1>1, <1>2, <1>3, <1>4

LEMMA TypeOthers ==
  ASSUME TypeOK
  PROVE  /\ \A d \in Dests : BackoffElapses(d) => TypeOK'
         /\ Interrupt => TypeOK'
         /\ Restart => TypeOK'
         /\ Crash => TypeOK'
<1>1. ASSUME NEW d \in Dests, BackoffElapses(d)
      PROVE  TypeOK'
  BY <1>1, Zenon DEF BackoffElapses, TypeOK, Statuses
<1>2. ASSUME Interrupt
      PROVE  TypeOK'
  BY Zenon, <1>2 DEF Interrupt, TypeOK
<1>3. ASSUME Boot
      PROVE  /\ channel' \in [Shards -> Seq(Msgs)]
             /\ futures' \in [Dests -> Seq(Futures)]
             /\ status' \in [Dests -> Statuses]
             /\ worker' \in [Shards -> {"starting", "working", "finishing", "done"}]
             /\ closed' \in BOOLEAN
             /\ restarts' \in 0 .. MaxRestarts
             /\ UNCHANGED <<sent, acked, dropped, failures>>
  <2>1. restarts' \in 0 .. MaxRestarts
    BY <1>3, SendingAssumption DEF Boot, TypeOK
  <2>2. QED
    BY <1>3, <2>1, EmptySeq, StatusTypes, Zenon DEF Boot
<1>4. ASSUME Restart
      PROVE  TypeOK'
  <2>1. db' \in Tables /\ disk' \in Tables /\ stored' \in [Dests -> SUBSET Rows]
    <3>1. db \in Tables /\ {} \in SUBSET Tables /\ Commit(db, {})
      BY Zenon, <1>4 DEF Restart, TypeOK
    <3>2. QED
      BY Zenon, <3>1, CommitType
  <2>2. QED
    BY Zenon, <1>3, <1>4, <2>1 DEF Restart, TypeOK
<1>5. ASSUME Crash
      PROVE  TypeOK'
  BY Zenon, <1>3, <1>5 DEF Crash, TypeOK
<1>6. QED
  BY Zenon, <1>1, <1>2, <1>4, <1>5

LEMMA TypeNext == TypeOK /\ [Next]_vars => TypeOK'
<1> SUFFICES ASSUME TypeOK, [Next]_vars PROVE TypeOK'
  BY Zenon
<1>1. CASE UNCHANGED vars
  BY Zenon, <1>1 DEF vars, TypeOK
<1>2. CASE Next
  BY <1>2, TypeProducers, TypeWorker, TypeResponse, TypeOthers, Zenon
     DEF Next, Respond, Finish
<1>3. QED
  BY Zenon, <1>1, <1>2

(* The tables, the announcements, the statuses and the transactions in     *)
(* flight always have the shape the code gives them; in particular the     *)
(* counter of failures saturates (handle_response_err).                    *)
THEOREM TypeCorrect == Spec => []TypeOK
<1>1. QED
  BY TypeInit, TypeNext, PTL DEF Spec

----------------------------------------------------------------------------
(* What the table operations do to the rows of a destination.              *)

RowsOf(b, e) == b.queued[e] \cup b.active[e]

LEMMA MarkRows ==
  ASSUME NEW b \in Tables, NEW d \in Dests, NEW S \in SUBSET Rows,
         NEW x \in MarkSteps(b, d, S) \cup {mark_as_active(b, d, S)}
  PROVE  /\ \A e \in Dests : RowsOf(b, e) \subseteq RowsOf(x, e)
         /\ \A e \in Dests : RowsOf(x, e) \subseteq RowsOf(mark_as_active(b, d, S), e)
         /\ \A e \in Dests \ {d} : x.active[e] = b.active[e]
         /\ x.active[d] \subseteq b.active[d] \cup S
         /\ mark_as_active(b, d, S).active[d] = b.active[d] \cup S
         /\ x.educount = b.educount /\ x.count = b.count
<1>1. PICK T \in SUBSET S, U \in SUBSET S :
        U \subseteq T /\ x = [b EXCEPT !.active[d] = @ \cup T, !.queued[d] = @ \ U]
  <2>1. CASE x = mark_as_active(b, d, S)
    BY <2>1, Zenon DEF mark_as_active
  <2>2. CASE \E k \in S : x = [b EXCEPT !.active[d] = @ \cup UpTo(S, k), !.queued[d] = @ \ Below(S, k)]
    <3>1. PICK k \in S : x = [b EXCEPT !.active[d] = @ \cup UpTo(S, k), !.queued[d] = @ \ Below(S, k)]
      BY <2>2, Zenon
    <3>2. /\ UpTo(S, k) \in SUBSET S
          /\ Below(S, k) \in SUBSET S
          /\ Below(S, k) \subseteq UpTo(S, k)
      <4>1. \A r \in S : r \in Int
        BY SendingAssumption DEF Rows
      <4>2. \A r \in S : r < k => r <= k
        BY SMTT(30), <4>1
      <4>3. QED
        BY <4>2, Zenon DEF UpTo, Below
    <3> USE <3>1, <3>2
    <3> WITNESS UpTo(S, k) \in SUBSET S, Below(S, k) \in SUBSET S
    <3>3. QED
      BY Zenon
  <2>3. CASE \E k \in S : x = mark_as_active(b, d, UpTo(S, k))
    <3>1. PICK k \in S : x = mark_as_active(b, d, UpTo(S, k))
      BY Zenon, <2>3
    <3>2. UpTo(S, k) \in SUBSET S
      BY Zenon DEF UpTo
    <3>3. QED
      BY <3>1, <3>2, Zenon DEF mark_as_active
  <2>4. QED
    BY <2>1, <2>2, <2>3, Zenon DEF MarkSteps
<1>2. /\ x.active = [b.active EXCEPT ![d] = b.active[d] \cup T]
      /\ x.queued = [b.queued EXCEPT ![d] = b.queued[d] \ U]
      /\ x.educount = b.educount /\ x.count = b.count
  BY Zenon, <1>1 DEF Tables
<1>3. /\ mark_as_active(b, d, S).active = [b.active EXCEPT ![d] = b.active[d] \cup S]
      /\ mark_as_active(b, d, S).queued = [b.queued EXCEPT ![d] = b.queued[d] \ S]
  BY Zenon DEF Tables, mark_as_active
<1>4. b.active \in [Dests -> SUBSET Rows] /\ b.queued \in [Dests -> SUBSET Rows]
  BY Zenon DEF Tables
<1>5. QED
  BY <1>1, <1>2, <1>3, <1>4 DEF RowsOf

(* The active rows after a step of mark_as_active: another destination's  *)
(* are the same, and d gains rows of S only; the counters are the same.    *)
ActiveGain(b, d, S, x) ==
  /\ \A e \in Dests \ {d} : x.active[e] = b.active[e]
  /\ x.active[d] \subseteq b.active[d] \cup S
  /\ x.educount = b.educount /\ x.count = b.count

(* MarkRows for the active tables alone, in the form Zenon instantiates.   *)
LEMMA MarkActive ==
  ASSUME NEW b \in Tables, NEW d \in Dests, NEW S \in SUBSET Rows,
         NEW x \in MarkSteps(b, d, S) \cup {mark_as_active(b, d, S)}
  PROVE  ActiveGain(b, d, S, x)
<1>1. /\ \A e \in Dests \ {d} : x.active[e] = b.active[e]
      /\ x.active[d] \subseteq b.active[d] \cup S
      /\ x.educount = b.educount /\ x.count = b.count
  BY MarkRows
<1>2. QED
  BY <1>1, Zenon DEF ActiveGain

LEMMA DeleteActiveRows ==
  ASSUME NEW b \in Tables, NEW d \in Dests,
         NEW x \in DeleteActiveSteps(b, d) \cup {delete_all_active_requests_for(b, d)}
  PROVE  /\ \A e \in Dests : RowsOf(x, e) \subseteq RowsOf(b, e)
         /\ \A e \in Dests \ {d} : RowsOf(x, e) = RowsOf(b, e) /\ x.active[e] = b.active[e]
         /\ RowsOf(b, d) \subseteq RowsOf(x, d) \cup b.active[d]
         /\ x.active[d] \subseteq b.active[d]
         /\ x.queued = b.queued
         /\ delete_all_active_requests_for(b, d).active[d] = {}
         /\ x.educount = b.educount /\ x.count = b.count
<1>1. PICK T \in SUBSET b.active[d] : x = [b EXCEPT !.active[d] = T]
  BY Zenon DEF DeleteActiveSteps, delete_all_active_requests_for
<1>2. /\ x.active = [b.active EXCEPT ![d] = T]
      /\ x.queued = b.queued
      /\ x.educount = b.educount /\ x.count = b.count
      /\ delete_all_active_requests_for(b, d).active = [b.active EXCEPT ![d] = {}]
  BY Zenon, <1>1 DEF Tables, delete_all_active_requests_for
<1>3. b.active \in [Dests -> SUBSET Rows] /\ b.queued \in [Dests -> SUBSET Rows]
  BY Zenon DEF Tables
<1>4. QED
  BY <1>1, <1>2, <1>3 DEF RowsOf

(* DeleteActiveRows as one predicate, in the form Zenon instantiates.      *)
ActiveLoss(b, d, x) ==
  /\ \A e \in Dests : RowsOf(x, e) \subseteq RowsOf(b, e)
  /\ \A e \in Dests \ {d} : RowsOf(x, e) = RowsOf(b, e) /\ x.active[e] = b.active[e]
  /\ RowsOf(b, d) \subseteq RowsOf(x, d) \cup b.active[d]
  /\ x.active[d] \subseteq b.active[d]

LEMMA DeleteActiveLoss ==
  ASSUME NEW b \in Tables, NEW d \in Dests,
         NEW x \in DeleteActiveSteps(b, d) \cup {delete_all_active_requests_for(b, d)}
  PROVE  ActiveLoss(b, d, x)
<1>1. /\ \A e \in Dests : RowsOf(x, e) \subseteq RowsOf(b, e)
      /\ \A e \in Dests \ {d} : RowsOf(x, e) = RowsOf(b, e) /\ x.active[e] = b.active[e]
      /\ RowsOf(b, d) \subseteq RowsOf(x, d) \cup b.active[d]
      /\ x.active[d] \subseteq b.active[d]
  BY DeleteActiveRows
<1>2. QED
  BY <1>1, Zenon DEF ActiveLoss

LEMMA DeleteAllRows ==
  ASSUME NEW b \in Tables, NEW d \in Dests,
         NEW x \in DeleteAllSteps(b, d) \cup {delete_all_requests_for(b, d)}
  PROVE  /\ \A e \in Dests : RowsOf(x, e) \subseteq RowsOf(b, e)
         /\ \A e \in Dests \ {d} : RowsOf(x, e) = RowsOf(b, e) /\ x.active[e] = b.active[e]
         /\ x.active[d] \subseteq b.active[d]
         /\ delete_all_requests_for(b, d).active[d] = {}
         /\ x.educount = b.educount /\ x.count = b.count
<1>0. b.active \in [Dests -> SUBSET Rows] /\ b.queued \in [Dests -> SUBSET Rows]
  BY Zenon DEF Tables
<1>1. /\ delete_all_requests_for(b, d).active = [b.active EXCEPT ![d] = {}]
      /\ delete_all_requests_for(b, d).queued = [b.queued EXCEPT ![d] = {}]
      /\ delete_all_requests_for(b, d).educount = b.educount
      /\ delete_all_requests_for(b, d).count = b.count
  BY Zenon DEF delete_all_requests_for, Tables
<1>2. CASE x \in DeleteActiveSteps(b, d)
  BY <1>0, <1>1, <1>2, DeleteActiveRows
<1>3. CASE x = delete_all_requests_for(b, d)
  BY Zenon, <1>0, <1>1, <1>3 DEF RowsOf
<1>4. CASE \E k \in b.queued[d] :
             x = [b EXCEPT !.active[d] = {}, !.queued[d] = @ \ UpTo(@, k)]
  <2>1. PICK T \in SUBSET b.queued[d] : x = [b EXCEPT !.active[d] = {}, !.queued[d] = T]
    BY <1>4, Zenon
  <2>2. /\ x.active = [b.active EXCEPT ![d] = {}]
        /\ x.queued = [b.queued EXCEPT ![d] = T]
        /\ x.educount = b.educount /\ x.count = b.count
    BY Zenon, <2>1 DEF Tables
  <2>3. QED
    BY <1>0, <1>1, <2>1, <2>2 DEF RowsOf
<1>5. QED
  BY <1>2, <1>3, <1>4, Zenon DEF DeleteAllSteps

----------------------------------------------------------------------------
(* One transaction per destination, which contains its active rows.        *)

(* A message is in the channel of its destination's worker.                *)
MsgsFor(s) == [dest : {d \in Dests : ShardOf[d] = s}, row : Rows \cup {Flush}]
Routed == \A s \in Shards : channel[s] \in Seq(MsgsFor(s))

LEMMA RoutedDispatch ==
  ASSUME Routed, NEW ds \in SUBSET Dests, IsFiniteSet(ds), NEW row \in Rows \cup {Flush},
         dispatch(ds, row)
  PROVE  Routed'
<1> DEFINE M(s) == {[dest |-> d, row |-> row] : d \in {e \in ds : ShardOf[e] = s}}
<1>1. ASSUME NEW s \in Shards
      PROVE  channel[s] \o Listing(M(s)) \in Seq(MsgsFor(s))
  <2>1. IsFiniteSet({e \in ds : ShardOf[e] = s})
    BY Zenon, FS_Subset
  <2>2. IsFiniteSet(M(s))
    <3> DEFINE D == {e \in ds : ShardOf[e] = s}
               f == [e \in D |-> [dest |-> e, row |-> row]]
    <3>1. f \in Surjection(D, M(s))
      BY Zenon DEF Surjection
    <3>2. QED
      BY Zenon, <2>1, <3>1, FS_Surjection DEF ExistsSurjection
  <2>3. M(s) \in SUBSET MsgsFor(s)
    BY DEF MsgsFor
  <2>4. Listing(M(s)) \in Seq(MsgsFor(s))
    BY Zenon, <2>2, <2>3, ListingType, SeqMonotonic
  <2>5. QED
    BY Zenon, <2>4, ConcatProperties DEF Routed
<1>2. QED
  BY Zenon, <1>1 DEF dispatch, Routed

LEMMA RoutedReceive ==
  ASSUME Routed, NEW s \in Shards, Receive(s), TypeOK
  PROVE  /\ Routed'
         /\ Head(channel[s]).dest \in Dests
         /\ ShardOf[Head(channel[s]).dest] = s
<1>1. channel[s] \in Seq(MsgsFor(s)) /\ channel[s] # << >>
  BY Zenon DEF Receive, Routed
<1>2. Tail(channel[s]) \in Seq(MsgsFor(s)) /\ Head(channel[s]) \in MsgsFor(s)
  BY Zenon, <1>1, HeadTailProperties
<1>3. Routed'
  BY Zenon, <1>2 DEF Receive, Routed, TypeOK
<1>4. QED
  BY Zenon, <1>2, <1>3 DEF MsgsFor

LEMMA RoutedInit == Init => Routed
BY EmptySeq DEF Init, Routed

LEMMA RoutedNext == TypeOK /\ Routed /\ [Next]_vars => Routed'
<1> SUFFICES ASSUME TypeOK, Routed, [Next]_vars PROVE Routed'
  BY Zenon
<1>1. CASE UNCHANGED channel
  BY Zenon, <1>1 DEF Routed
<1>2. CASE \E ds \in SUBSET Federation, r \in Rows : SendPdu(ds, r) \/ SendEdu(ds, r)
  <2>1. \A ds \in SUBSET Federation : ds \in SUBSET Dests /\ IsFiniteSet(ds)
    BY Zenon, SendingAssumption, FS_Subset DEF Dests
  <2>2. QED
    BY Zenon, <1>2, <2>1, RoutedDispatch DEF SendPdu, SendEdu
<1>3. CASE \E d \in Appservices \cup Pushers, r \in Rows : SendPdu({d}, r)
  <2>1. \A d \in Appservices \cup Pushers : {d} \in SUBSET Dests /\ IsFiniteSet({d})
    BY Zenon, FS_Singleton DEF Dests
  <2>2. QED
    BY Zenon, <1>3, <2>1, RoutedDispatch DEF SendPdu
<1>4. CASE \E d \in Federation : FlushServers(d)
  <2>1. \A d \in Federation : {d} \in SUBSET Dests /\ IsFiniteSet({d})
    BY Zenon, FS_Singleton DEF Dests
  <2>2. QED
    BY Zenon, <1>4, <2>1, RoutedDispatch DEF FlushServers
<1>5. CASE \E s \in Shards : Receive(s)
  BY Zenon, <1>5, RoutedReceive
<1>6. CASE Boot
  BY Zenon, <1>6, EmptySeq DEF Boot, Routed
<1>7. QED
  <2>1. CASE NextCount \/ Interrupt \/ UNCHANGED vars
    BY Zenon, <1>1, <2>1 DEF NextCount, Interrupt, vars
  <2>2. CASE \E d \in Appservices \cup Pushers : CleanupEvents(d)
    BY Zenon, <1>1, <2>2 DEF CleanupEvents
  <2>3. CASE \E s \in Shards : StartupNetburst(s) \/ LeaveLoop(s) \/ FinishEnd(s)
    BY Zenon, <1>1, <2>3 DEF StartupNetburst, LeaveLoop, FinishEnd
  <2>4. CASE \E s \in Shards :
               HandleRequestBusy(s) \/ HandleRequestRetry(s) \/ HandleRequestNew(s)
    BY <1>5, <2>4, Zenon DEF HandleRequestBusy, HandleRequestRetry, HandleRequestNew
  <2>5. CASE \E d \in Dests : Respond(d) \/ Finish(d) \/ BackoffElapses(d)
    BY Zenon, <1>1, <2>5 DEF Respond, Finish, BackoffElapses, HandleResponseOk, HandleResponseErr,
                      FinishOk, FinishErr
  <2>6. CASE Restart \/ Crash
    BY Zenon, <1>6, <2>6 DEF Restart, Crash
  <2>7. QED
    BY <1>2, <1>3, <1>4, <2>1, <2>2, <2>3, <2>4, <2>5, <2>6, Zenon DEF Next

(* What a worker maintains for one destination.  The last two conjuncts    *)
(* need the netburst: without it a crash leaves active rows that belong to *)
(* no transaction.                                                         *)
DestInv(d) ==
  LET at == worker[ShardOf[d]]
  IN  /\ Len(futures[d]) <= 1
      /\ at = "working" => (futures[d] # << >> <=> status[d].kind \in {"running", "retrying"})
      /\ at = "starting" => futures[d] = << >> /\ status[d].kind = "vacant"
      /\ Netburst /\ futures[d] # << >> => db.active[d] \subseteq futures[d][1].rows
      /\ Netburst /\ at = "working" /\ status[d].kind = "vacant" => db.active[d] = {}

FlightInv == Routed /\ \A d \in Dests : DestInv(d)

(* DestInv after a step that leaves one future and the status of one.      *)
LEMMA DestFlying ==
  ASSUME NEW e \in Dests, NEW S,
         futures'[e] # << >>,
         Len(futures'[e]) = 1,
         futures'[e][1].rows = S,
         status'[e].kind \in {"running", "retrying"},
         Netburst => db'.active[e] \subseteq S,
         worker'[ShardOf[e]] # "starting"
  PROVE  DestInv(e)'
<1>1. Len(futures'[e]) <= 1 /\ status'[e].kind # "vacant"
  OBVIOUS
<1>2. QED
  BY <1>1, Zenon DEF DestInv

(* DestInv after a step that leaves no future, of a worker that is at work. *)
LEMMA DestEmpty ==
  ASSUME NEW e \in Dests,
         futures'[e] = << >>,
         worker'[ShardOf[e]] # "starting",
         worker'[ShardOf[e]] = "working" => status'[e].kind \notin {"running", "retrying", "vacant"}
  PROVE  DestInv(e)'
<1>1. Len(futures'[e]) <= 1
  OBVIOUS
<1>2. worker'[ShardOf[e]] = "working" =>
        status'[e].kind \notin {"running", "retrying"} /\ status'[e].kind # "vacant"
  BY Zenon
<1>3. QED
  BY <1>1, <1>2, Zenon DEF DestInv

LEMMA DestStable ==
  ASSUME NEW e \in Dests, DestInv(e),
         futures'[e] = futures[e],
         status'[e].kind = status[e].kind,
         \/ worker'[ShardOf[e]] = worker[ShardOf[e]]
         \/ worker[ShardOf[e]] = "working" /\ worker'[ShardOf[e]] = "finishing",
         db'.active[e] \subseteq db.active[e]
  PROVE  DestInv(e)'
BY SMT DEF DestInv

LEMMA LoopTopStep ==
  ASSUME TypeOK, NEW s \in Shards, LoopTop(s)
  PROVE  /\ worker'[s] \in {"working", "finishing"}
         /\ \A t \in Shards \ {s} : worker'[t] = worker[t]
BY Zenon DEF LoopTop, TypeOK

LEMMA PopStep ==
  ASSUME TypeOK, NEW d \in Dests, NEW i \in DOMAIN futures[d], Len(futures[d]) <= 1
  PROVE  /\ Pop(d, i)[d] = << >>
         /\ \A e \in Dests \ {d} : Pop(d, i)[e] = futures[e]
         /\ i = 1
<1>1. futures \in [Dests -> Seq(Futures)] /\ futures[d] \in Seq(Futures)
  BY Zenon DEF TypeOK
<1>2. Len(futures[d]) \in Nat /\ DOMAIN futures[d] = 1 .. Len(futures[d])
  BY Zenon, <1>1, LenProperties
<1>3. Len(futures[d]) = 1 /\ i = 1
  <2>1. i \in 1 .. Len(futures[d])
    BY <1>2, Zenon
  <2>2. \A n \in Nat : n <= 1 => \A j \in 1 .. n : n = 1 /\ j = 1
    OBVIOUS
  <2>3. QED
    BY <1>2, <2>1, <2>2, Zenon
<1>4. Without(futures[d], i) \in Seq(Futures) /\ Len(Without(futures[d], i)) = 0
  BY <1>1, <1>3, WithoutProperties
<1>5. Without(futures[d], i) = << >>
  BY Zenon, <1>4, EmptySeq
<1>6. QED
  BY Zenon, <1>1, <1>3, <1>5 DEF Pop

LEMMA AppendEmpty ==
  ASSUME NEW f \in Futures
  PROVE  /\ Append(<< >>, f) # << >>
         /\ Len(Append(<< >>, f)) = 1
         /\ Append(<< >>, f)[1] = f
<1>1. << >> \in Seq(Futures) /\ Len(<< >>) = 0
  BY Zenon, EmptySeq
<1>2. QED
  BY <1>1, AppendProperties

LEMMA DestInit == Init => \A d \in Dests : DestInv(d)
<1> SUFFICES ASSUME Init, NEW d \in Dests PROVE DestInv(d)
  BY Zenon
<1>1. Len(<< >>) = 0
  BY Zenon, EmptySeq
<1>2. /\ futures[d] = << >>
      /\ status[d].kind = "vacant"
      /\ worker[ShardOf[d]] = "starting"
  BY Zenon, SendingAssumption DEF Init, Vacant
<1>3. QED
  BY <1>1, <1>2 DEF DestInv

LEMMA DestProducers ==
  ASSUME TypeOK, TypeOK', FlightInv, NEW e \in Dests
  PROVE  /\ \A ds, r : SendPdu(ds, r) => DestInv(e)'
         /\ \A ds, r : SendEdu(ds, r) => DestInv(e)'
         /\ \A d : FlushServers(d) => DestInv(e)'
         /\ NextCount => DestInv(e)'
         /\ \A d \in Dests : CleanupEvents(d) => DestInv(e)'
<1>0. DestInv(e) /\ db \in Tables
  BY Zenon DEF FlightInv, TypeOK
<1>1. \A ds, r, n : /\ [db EXCEPT !.count = n].active = db.active
                    /\ Queued(db, ds, r).active = db.active
  BY Zenon, <1>0 DEF Queued, Tables
<1>2. ASSUME NEW ds, NEW r, SendPdu(ds, r) PROVE DestInv(e)'
  <2>1. db'.active = db.active
    BY Zenon, <1>1, <1>2 DEF SendPdu, Commit
  <2>2. QED
    BY Zenon, <1>0, <1>2, <2>1, DestStable DEF SendPdu
<1>3. ASSUME NEW ds, NEW r, SendEdu(ds, r) PROVE DestInv(e)'
  <2>1. db'.active = db.active
    <3>1. db' = Queued([db EXCEPT !.count = db.count + Cardinality(ds)], ds, r)
      BY Zenon, <1>3 DEF SendEdu, Commit
    <3>2. QED
      BY Zenon, <1>0, <3>1 DEF Queued, Tables
  <2>2. QED
    BY Zenon, <1>0, <1>3, <2>1, DestStable DEF SendEdu
<1>4. ASSUME NEW d, FlushServers(d) PROVE DestInv(e)'
  BY Zenon, <1>0, <1>4, DestStable DEF FlushServers
<1>5. ASSUME NextCount PROVE DestInv(e)'
  <2>1. db'.active = db.active
    BY Zenon, <1>1, <1>5 DEF NextCount, Commit
  <2>2. QED
    BY Zenon, <1>0, <1>5, <2>1, DestStable DEF NextCount
<1>6. ASSUME NEW d \in Dests, CleanupEvents(d) PROVE DestInv(e)'
  <2>1. db' = delete_all_requests_for(db, d)
    BY Zenon, <1>6 DEF CleanupEvents, Commit
  <2>2. db'.active[e] \subseteq db.active[e]
    BY <1>0, <2>1, DeleteAllRows
  <2>3. QED
    BY <1>0, <1>6, <2>2, DestStable, Zenon DEF CleanupEvents
<1>7. QED
  BY Zenon, <1>2, <1>3, <1>4, <1>5, <1>6

LEMMA DestStartup ==
  ASSUME TypeOK, FlightInv, NEW s \in Shards, StartupNetburst(s), NEW e \in Dests
  PROVE  DestInv(e)'
<1> DEFINE final == [db EXCEPT !.active = [d \in Dests |->
                       IF ShardOf[d] = s THEN Kept(@[d]) ELSE @[d]]]
           burst == {d \in Dests : ShardOf[d] = s /\ Netburst /\ final.active[d] # {}}
<1>0. /\ DestInv(e)
      /\ db \in Tables
      /\ ShardOf[e] \in Shards
      /\ worker[s] = "starting"
      /\ worker'[s] \in {"working", "finishing"}
      /\ \A t \in Shards \ {s} : worker'[t] = worker[t]
  BY Zenon, LoopTopStep, SendingAssumption DEF FlightInv, StartupNetburst, TypeOK
<1>1. /\ db' = final
      /\ status' = [d \in Dests |-> IF d \in burst THEN Running ELSE status[d]]
      /\ futures' = [d \in Dests |->
                       IF d \in burst
                       THEN Append(futures[d], [rows |-> final.active[d], edus |-> FALSE])
                       ELSE futures[d]]
  BY Zenon DEF StartupNetburst, Commit
<1>2. final.active = [d \in Dests |-> IF ShardOf[d] = s THEN Kept(db.active[d]) ELSE db.active[d]]
  BY Zenon, <1>0 DEF Tables
<1>3. final.active[e] \in SUBSET Rows
  BY Zenon, <1>0, <1>2 DEF Kept, Tables
<1>4. e \in burst <=> ShardOf[e] = s /\ Netburst /\ final.active[e] # {}
  BY Zenon
<1> HIDE DEF final, burst
<1>5. CASE ShardOf[e] # s
  BY <1>0, <1>1, <1>2, <1>4, <1>5, DestStable, Zenon
<1>6. CASE ShardOf[e] = s
  <2>1. futures[e] = << >> /\ status[e].kind = "vacant"
    BY Zenon, <1>0, <1>6 DEF DestInv
  <2>2. CASE e \in burst
    <3>1. [rows |-> final.active[e], edus |-> FALSE] \in Futures
      BY Zenon, <1>3 DEF Futures
    <3>2. /\ futures'[e] # << >>
          /\ Len(futures'[e]) = 1
          /\ futures'[e][1].rows = final.active[e]
      BY <1>1, <2>1, <2>2, <3>1, AppendEmpty
    <3>3. status'[e].kind = "running"
      BY Zenon, <1>1, <2>2 DEF Running
    <3>4. QED
      BY <1>0, <1>1, <1>6, <3>2, <3>3 DEF DestInv
  <2>3. CASE e \notin burst
    <3>1. futures'[e] = << >> /\ status'[e].kind = "vacant"
      BY Zenon, <1>1, <2>1, <2>3
    <3>2. Len(<< >>) = 0
      BY Zenon, EmptySeq
    <3>3. Netburst => db'.active[e] = {}
      BY Zenon, <1>1, <1>4, <1>6, <2>3
    <3>4. QED
      BY Zenon, <1>0, <1>6, <3>1, <3>2, <3>3 DEF DestInv
  <2>4. QED
    BY Zenon, <2>2, <2>3
<1>7. QED
  BY Zenon, <1>5, <1>6

LEMMA DestRequest ==
  ASSUME TypeOK, FlightInv, NEW s \in Shards, NEW e \in Dests
  PROVE  /\ HandleRequestBusy(s) => DestInv(e)'
         /\ HandleRequestRetry(s) => DestInv(e)'
         /\ HandleRequestNew(s) => DestInv(e)'
<1> DEFINE d == Head(channel[s]).dest
<1>0. DestInv(e) /\ db \in Tables /\ ShardOf[e] \in Shards
  BY Zenon, SendingAssumption DEF FlightInv, TypeOK
<1>1. ASSUME Receive(s)
      PROVE  /\ d \in Dests /\ ShardOf[d] = s
             /\ worker[s] = "working"
             /\ worker'[s] \in {"working", "finishing"}
             /\ \A t \in Shards \ {s} : worker'[t] = worker[t]
             /\ worker[ShardOf[e]] = worker'[ShardOf[e]] \/
                  (worker[ShardOf[e]] = "working" /\ worker'[ShardOf[e]] = "finishing")
  <2>1. d \in Dests /\ ShardOf[d] = s
    BY Zenon, <1>1, RoutedReceive DEF FlightInv
  <2>2. QED
    BY Zenon, <1>0, <1>1, <2>1, LoopTopStep DEF Receive
<1>2. ASSUME HandleRequestBusy(s) PROVE DestInv(e)'
  BY Zenon, <1>0, <1>1, <1>2, DestStable DEF HandleRequestBusy
<1>3. ASSUME HandleRequestRetry(s) PROVE DestInv(e)'
  <2>1. Receive(s) /\ UNCHANGED db
    BY <1>3, Zenon DEF HandleRequestRetry
  <2>2. /\ status[d].kind = "failed"
        /\ \/ /\ status' = [status EXCEPT ![d] = Retrying(status[d].tries)]
              /\ futures' = [futures EXCEPT
                               ![d] = Append(@, [rows |-> db.active[d], edus |-> FALSE])]
           \/ /\ db.active[d] = {}
              /\ status' = [status EXCEPT ![d] = Vacant]
              /\ futures' = futures
    BY <1>3, Zenon DEF HandleRequestRetry, MustRetry, SetStatus, Push
  <2>3. CASE e # d
    <3>1. status'[e] = status[e] /\ futures'[e] = futures[e]
      BY <1>1, <2>1, <2>2, <2>3, Zenon DEF TypeOK
    <3>2. QED
      BY <1>0, <1>1, <2>1, <3>1, DestStable, Zenon
  <2>4. CASE e = d
    <3>1. futures[e] = << >>
      BY <1>0, <1>1, <2>1, <2>2, <2>4, Zenon DEF DestInv
    <3>2. [rows |-> db.active[e], edus |-> FALSE] \in Futures
      BY Zenon, <1>0 DEF Futures, Tables
    <3>3. /\ futures \in [Dests -> Seq(Futures)] /\ status \in [Dests -> Statuses]
          /\ Len(<< >>) = 0
      BY Zenon, EmptySeq DEF TypeOK
    <3> HIDE DEF d
    <3>4. CASE /\ status' = [status EXCEPT ![d] = Retrying(status[d].tries)]
               /\ futures' = [futures EXCEPT
                                ![d] = Append(@, [rows |-> db.active[d], edus |-> FALSE])]
      <4>1. futures'[e] = Append(<< >>, [rows |-> db.active[e], edus |-> FALSE])
        BY <2>4, <3>1, <3>3, <3>4, Zenon
      <4>2. /\ futures'[e] # << >>
            /\ Len(futures'[e]) = 1
            /\ futures'[e][1].rows = db.active[e]
        BY <3>2, <4>1, AppendEmpty
      <4>3. status'[e].kind = "retrying"
        BY Zenon, <2>4, <3>3, <3>4 DEF Retrying
      <4>4. QED
        BY <1>1, <2>1, <2>4, <4>2, <4>3 DEF DestInv
    <3>5. CASE /\ db.active[d] = {}
               /\ status' = [status EXCEPT ![d] = Vacant]
               /\ futures' = futures
      <4>1. status'[e].kind = "vacant"
        BY Zenon, <2>4, <3>3, <3>5 DEF Vacant
      <4>2. QED
        BY <1>1, <2>1, <2>4, <3>1, <3>3, <3>5, <4>1 DEF DestInv
    <3>6. QED
      BY Zenon, <2>2, <3>4, <3>5
  <2>5. QED
    BY Zenon, <2>3, <2>4
<1>4. ASSUME HandleRequestNew(s) PROVE DestInv(e)'
  <2> DEFINE S == {Head(channel[s]).row} \ {Flush}
             marked == mark_as_active(db, d, S)
  <2>1. Receive(s) /\ status[d].kind = "vacant" /\ status' = [status EXCEPT ![d] = Running]
    BY Zenon, <1>4 DEF HandleRequestNew, SetStatus
  <2>2. PICK last \in EduWindow(d), edus \in BOOLEAN :
          /\ db' = [marked EXCEPT !.educount[d] = last]
          /\ futures' = [futures EXCEPT ![d] = Append(@, [rows |-> S, edus |-> edus])]
    BY <1>4, Zenon DEF HandleRequestNew, Commit, Push
  <2>3. S \in SUBSET Rows /\ marked \in Tables
    BY <1>0, <1>1, <2>1, TypeReceive, TableOps, Zenon
  <2>4. /\ db'.active = marked.active
        /\ \A x \in Dests \ {d} : marked.active[x] = db.active[x]
        /\ marked.active[d] = db.active[d] \cup S
    <3>1. db'.active = marked.active
      BY Zenon, <2>2, <2>3 DEF Tables
    <3>2. d \in Dests /\ marked \in MarkSteps(db, d, S) \cup {mark_as_active(db, d, S)}
      BY <1>1, <2>1, Zenon
    <3> HIDE DEF d, S
    <3>3. QED
      BY <1>0, <2>3, <3>1, <3>2, MarkRows
  <2> HIDE DEF S, marked, d
  <2>5. CASE e # d
    <3>1. status'[e] = status[e] /\ futures'[e] = futures[e]
      BY Zenon, <1>1, <2>1, <2>2, <2>5 DEF TypeOK
    <3>2. QED
      BY Zenon, <1>0, <1>1, <2>1, <2>4, <2>5, <3>1, DestStable
  <2>6. CASE e = d
    <3>1. futures[e] = << >> /\ (Netburst => db.active[e] = {})
      BY Zenon, <1>0, <1>1, <2>1, <2>6 DEF DestInv
    <3>2. [rows |-> S, edus |-> edus] \in Futures
      BY Zenon, <2>2, <2>3 DEF Futures
    <3>3. futures'[e] = Append(<< >>, [rows |-> S, edus |-> edus])
      BY Zenon, <2>2, <2>6, <3>1 DEF TypeOK
    <3>4. /\ futures'[e] # << >>
          /\ Len(futures'[e]) = 1
          /\ futures'[e][1].rows = S
      BY <3>2, <3>3, AppendEmpty
    <3>5. status'[e].kind = "running"
      BY Zenon, <2>1, <2>6 DEF TypeOK, Running
    <3>6. Netburst => db'.active[e] \subseteq S
      BY Zenon, <2>4, <2>6, <3>1
    <3>7. QED
      BY Zenon, <1>1, <2>1, <2>6, <3>4, <3>5, <3>6, DestFlying
  <2>7. QED
    BY Zenon, <2>5, <2>6
<1>5. QED
  BY Zenon, <1>2, <1>3, <1>4

LEMMA DestResponse ==
  ASSUME TypeOK, FlightInv, NEW d \in Dests, NEW i \in DOMAIN futures[d], NEW e \in Dests
  PROVE  /\ HandleResponseOk(d, i) => DestInv(e)'
         /\ HandleResponseErr(d, i) => DestInv(e)'
         /\ FinishOk(d, i) => DestInv(e)'
         /\ FinishErr(d, i) => DestInv(e)'
<1>0. /\ DestInv(e) /\ DestInv(d)
      /\ db \in Tables
      /\ ShardOf[e] \in Shards /\ ShardOf[d] \in Shards
      /\ Len(<< >>) = 0
      /\ status \in [Dests -> Statuses]
  BY Zenon, SendingAssumption, EmptySeq DEF FlightInv, TypeOK
<1>1. /\ Pop(d, i) \in [Dests -> Seq(Futures)]
      /\ Pop(d, i)[d] = << >>
      /\ \A x \in Dests \ {d} : Pop(d, i)[x] = futures[x]
      /\ futures[d] # << >>
  <2>1. Len(futures[d]) <= 1
    BY Zenon, <1>0 DEF DestInv
  <2>2. futures[d] # << >>
    <3>1. DOMAIN futures[d] = 1 .. Len(futures[d])
      BY Zenon, LenProperties DEF TypeOK
    <3>2. \A n : i \in 1 .. n => n # 0
      BY <3>1
    <3>3. QED
      BY <1>0, <3>1, <3>2, Zenon
  <2>3. QED
    BY Zenon, <2>1, <2>2, PopStep, FuturesTypes
<1>2. ASSUME LoopTop(ShardOf[d]), worker[ShardOf[d]] = "working"
      PROVE  /\ worker'[ShardOf[d]] \in {"working", "finishing"}
             /\ worker[ShardOf[e]] = worker'[ShardOf[e]] \/
                  (worker[ShardOf[e]] = "working" /\ worker'[ShardOf[e]] = "finishing")
  BY Zenon, <1>0, <1>2, LoopTopStep
<1>3. ASSUME HandleResponseOk(d, i) PROVE DestInv(e)'
  <2> DEFINE clean == delete_all_active_requests_for(db, d)
             batch == FirstQueued(db.queued[d])
             final == mark_as_active(clean, d, batch)
  <2>1. /\ worker[ShardOf[d]] = "working"
        /\ LoopTop(ShardOf[d])
        /\ db' = final
        /\ \/ /\ batch # {}
              /\ futures' = [Pop(d, i) EXCEPT ![d] = Append(@, [rows |-> batch, edus |-> FALSE])]
              /\ status' = status
           \/ /\ batch = {}
              /\ futures' = Pop(d, i)
              /\ status' = [status EXCEPT ![d] = Vacant]
    BY <1>3, Zenon DEF HandleResponseOk, Commit, SetStatus
  <2>2. /\ clean \in Tables
        /\ clean.active[d] = {}
        /\ \A x \in Dests \ {d} : clean.active[x] = db.active[x]
    <3>1. clean \in DeleteActiveSteps(db, d) \cup {delete_all_active_requests_for(db, d)}
      BY Zenon
    <3>2. /\ delete_all_active_requests_for(db, d).active[d] = {}
          /\ \A x \in Dests \ {d} : clean.active[x] = db.active[x]
      BY <1>0, <3>1, DeleteActiveRows
    <3>3. clean \in Tables
      BY Zenon, <1>0, TableOps
    <3>4. QED
      BY <3>2, <3>3, Zenon
  <2>3. batch \in SUBSET Rows
    BY Zenon, <1>0 DEF FirstQueued, Tables
  <2> HIDE DEF clean, batch
  <2>4. /\ final.active[d] = batch
        /\ \A x \in Dests \ {d} : final.active[x] = db.active[x]
    <3>1. /\ final.active = [clean.active EXCEPT ![d] = @ \cup batch]
          /\ clean.active \in [Dests -> SUBSET Rows]
      BY Zenon, <2>2 DEF mark_as_active, Tables
    <3> HIDE DEF final
    <3>2. QED
      BY Zenon, <2>2, <3>1
  <2> HIDE DEF final
  <2>5. CASE e # d
    <3>1. status'[e] = status[e] /\ futures'[e] = futures[e]
      BY Zenon, <1>0, <1>1, <2>1, <2>5
    <3>2. QED
      BY Zenon, <1>0, <1>2, <2>1, <2>4, <2>5, <3>1, DestStable
  <2>6. CASE e = d
    <3>1. CASE /\ batch # {}
               /\ futures' = [Pop(d, i) EXCEPT ![d] = Append(@, [rows |-> batch, edus |-> FALSE])]
               /\ status' = status
      <4>1. [rows |-> batch, edus |-> FALSE] \in Futures
        BY Zenon, <2>3 DEF Futures
      <4>2. futures'[e] = Append(<< >>, [rows |-> batch, edus |-> FALSE])
        BY <1>1, <2>6, <3>1, Zenon
      <4>3. /\ futures'[e] # << >>
            /\ Len(futures'[e]) = 1
            /\ futures'[e][1].rows = batch
        BY <4>1, <4>2, AppendEmpty
      <4>4. status'[e].kind \in {"running", "retrying"}
        BY Zenon, <1>0, <1>1, <2>1, <2>6, <3>1 DEF DestInv
      <4>5. db'.active[e] = batch
        BY <2>1, <2>4, <2>6, Zenon
      <4>6. QED
        BY Zenon, <1>2, <2>1, <2>6, <4>3, <4>4, <4>5, DestFlying
    <3>2. CASE /\ batch = {}
               /\ futures' = Pop(d, i)
               /\ status' = [status EXCEPT ![d] = Vacant]
      <4>1. futures'[e] = << >> /\ status'[e].kind = "vacant" /\ db'.active[e] = {}
        BY Zenon, <1>0, <1>1, <2>1, <2>4, <2>6, <3>2 DEF Vacant
      <4>2. QED
        BY SMTT(30), <1>0, <1>2, <2>1, <2>6, <4>1 DEF DestInv
    <3>3. QED
      BY Zenon, <2>1, <3>1, <3>2
  <2>7. QED
    BY Zenon, <2>5, <2>6
<1>4. ASSUME HandleResponseErr(d, i) PROVE DestInv(e)'
  <2>1. /\ worker[ShardOf[d]] = "working"
        /\ LoopTop(ShardOf[d])
        /\ db' = db
        /\ futures' = Pop(d, i)
        /\ status' = [status EXCEPT ![d] = AfterError(status[d])]
    BY Zenon, <1>4 DEF HandleResponseErr, SetStatus
  <2>2. CASE e # d
    <3>1. status'[e] = status[e] /\ futures'[e] = futures[e]
      BY Zenon, <1>0, <1>1, <2>1, <2>2
    <3>2. QED
      BY <1>0, <1>2, <2>1, <2>2, <3>1, DestStable, Zenon
  <2>3. CASE e = d
    <3>1. status[d].kind \in {"running", "retrying"}
      BY <1>0, <1>1, <2>1, Zenon DEF DestInv
    <3>2. status'[e].kind = "failed"
      BY Zenon, <1>0, <2>1, <2>3, <3>1 DEF AfterError, Failed
    <3>3. futures'[e] = << >>
      BY Zenon, <1>1, <2>1, <2>3
    <3>4. QED
      <4>1. worker'[ShardOf[e]] # "starting" /\ status'[e].kind \notin {"running", "retrying", "vacant"}
        BY Zenon, <1>0, <1>2, <2>1, <2>3, <3>2
      <4>2. QED
        BY Zenon, <3>3, <4>1, DestEmpty
  <2>4. QED
    BY Zenon, <2>2, <2>3
<1>5. ASSUME FinishOk(d, i) \/ FinishErr(d, i) PROVE DestInv(e)'
  <2>1. /\ worker[ShardOf[d]] = "finishing"
        /\ worker' = worker
        /\ futures' = Pop(d, i)
        /\ status' = status
        /\ db' = db \/ db' = delete_all_active_requests_for(db, d)
    BY <1>5, Zenon DEF FinishOk, FinishErr, Commit
  <2>2. db'.active[e] \subseteq db.active[e]
    <3>1. CASE db' = delete_all_active_requests_for(db, d)
      <4>1. db' \in DeleteActiveSteps(db, d) \cup {delete_all_active_requests_for(db, d)}
        BY Zenon, <3>1
      <4>2. ActiveLoss(db, d, db')
        BY Zenon, <1>0, <4>1, DeleteActiveLoss
      <4>3. QED
        BY <4>2, Zenon DEF ActiveLoss
    <3>2. QED
      BY <2>1, <3>1, Zenon
  <2>3. CASE e # d
    BY Zenon, <1>0, <1>1, <2>1, <2>2, <2>3, DestStable
  <2>4. CASE e = d
    <3>1. futures'[e] = << >> /\ worker'[ShardOf[e]] = "finishing"
      BY Zenon, <1>1, <2>1, <2>4
    <3>2. QED
      BY Zenon, <3>1, DestEmpty
  <2>5. QED
    BY Zenon, <2>3, <2>4
<1>6. QED
  BY Zenon, <1>3, <1>4, <1>5

LEMMA DestOthers ==
  ASSUME TypeOK, FlightInv, NEW e \in Dests
  PROVE  /\ \A d \in Dests : BackoffElapses(d) => DestInv(e)'
         /\ Interrupt => DestInv(e)'
         /\ \A s \in Shards : LeaveLoop(s) => DestInv(e)'
         /\ \A s \in Shards : FinishEnd(s) => DestInv(e)'
         /\ Boot => DestInv(e)'
<1>0. /\ DestInv(e)
      /\ ShardOf[e] \in Shards
      /\ Len(<< >>) = 0
      /\ worker \in [Shards -> {"starting", "working", "finishing", "done"}]
      /\ status \in [Dests -> Statuses]
  BY Zenon, SendingAssumption, EmptySeq DEF FlightInv, TypeOK
<1>1. ASSUME NEW d \in Dests, BackoffElapses(d) PROVE DestInv(e)'
  <2>1. status'[e].kind = status[e].kind
    BY Zenon, <1>0, <1>1 DEF BackoffElapses, Statuses
  <2>2. QED
    BY Zenon, <1>0, <1>1, <2>1, DestStable DEF BackoffElapses
<1>2. ASSUME Interrupt PROVE DestInv(e)'
  BY Zenon, <1>0, <1>2, DestStable DEF Interrupt
<1>3. ASSUME NEW s \in Shards, LeaveLoop(s) PROVE DestInv(e)'
  BY Zenon, <1>0, <1>3, DestStable DEF LeaveLoop
<1>4. ASSUME NEW s \in Shards, FinishEnd(s) PROVE DestInv(e)'
  <2>1. CASE ShardOf[e] # s
    BY Zenon, <1>0, <1>4, <2>1, DestStable DEF FinishEnd
  <2>2. CASE ShardOf[e] = s
    <3>1. futures'[e] = << >> /\ worker'[ShardOf[e]] = "done"
      BY Zenon, <1>0, <1>4, <2>2 DEF FinishEnd
    <3>2. QED
      BY <1>0, <3>1 DEF DestInv
  <2>3. QED
    BY Zenon, <2>1, <2>2
<1>5. ASSUME Boot PROVE DestInv(e)'
  <2>1. futures'[e] = << >> /\ worker'[ShardOf[e]] = "starting" /\ status'[e].kind = "vacant"
    BY Zenon, <1>0, <1>5 DEF Boot, Vacant
  <2>2. QED
    BY <1>0, <2>1 DEF DestInv
<1>6. QED
  BY Zenon, <1>1, <1>2, <1>3, <1>4, <1>5

LEMMA FlightInit == Init => FlightInv
BY Zenon, RoutedInit, DestInit DEF FlightInv

LEMMA FlightNext == TypeOK /\ TypeOK' /\ FlightInv /\ [Next]_vars => FlightInv'
<1> SUFFICES ASSUME TypeOK, TypeOK', FlightInv, [Next]_vars PROVE FlightInv'
  BY Zenon
<1>1. Routed'
  BY Zenon, RoutedNext DEF FlightInv
<1>2. ASSUME NEW e \in Dests PROVE DestInv(e)'
  <2>0. DestInv(e)
    BY Zenon DEF FlightInv
  <2>1. CASE UNCHANGED vars
    BY <2>0, <2>1, DestStable, Zenon DEF vars
  <2>2. CASE Next
    <3>1. Appservices \cup Pushers \subseteq Dests
      BY Zenon DEF Dests
    <3>2. QED
      BY <2>2, <3>1, DestProducers, DestStartup, DestRequest, DestResponse, DestOthers, Zenon
         DEF Next, Respond, Finish, Restart, Crash
  <2>3. QED
    BY Zenon, <2>1, <2>2
<1>3. QED
  BY Zenon, <1>1, <1>2 DEF FlightInv

LEMMA FlightCorrect == Spec => [](TypeOK /\ FlightInv)
<1>1. Init => TypeOK /\ FlightInv
  BY Zenon, TypeInit, FlightInit
<1>2. TypeOK /\ FlightInv /\ [Next]_vars => TypeOK' /\ FlightInv'
  BY Zenon, TypeNext, FlightNext
<1>3. QED
  BY <1>1, <1>2, PTL DEF Spec

(* No interleaving of announcements, responses, backoff, shutdown, crash   *)
(* and restart gives a destination two transactions at a time, or makes a  *)
(* worker's status disagree with what is in flight: the panic of           *)
(* handle_response_err is unreachable.                                     *)
THEOREM OneTransactionCorrect == Spec => []OneTransaction
<1>1. FlightInv => OneTransaction
  BY Zenon DEF FlightInv, DestInv, OneTransaction
<1>2. QED
  BY <1>1, FlightCorrect, PTL

LEMMA FirstIsAll ==
  ASSUME TypeOK, NEW d \in Dests, Len(futures[d]) <= 1, futures[d] # << >>
  PROVE  /\ 1 \in DOMAIN futures[d]
         /\ UNION {f.rows : f \in Range(futures[d])} = futures[d][1].rows
<1>1. futures[d] \in Seq(Futures)
  BY Zenon DEF TypeOK
<1>2. Len(futures[d]) \in Nat \ {0} /\ DOMAIN futures[d] = 1 .. Len(futures[d])
  BY Zenon, <1>1, EmptySeq, LenProperties
<1>3. \A n \in Nat \ {0} : n <= 1 => 1 .. n = {1}
  OBVIOUS
<1>4. DOMAIN futures[d] = {1}
  BY <1>2, <1>3, Zenon
<1>5. Range(futures[d]) = {futures[d][1]}
  BY <1>4, Zenon DEF Range
<1>6. QED
  BY <1>4, <1>5, Zenon

(* With the netburst, the active rows of a destination with a transaction  *)
(* in flight all belong to it, so that deleting them when it succeeds      *)
(* (handle_response_ok, finish_responses) deletes only delivered rows.     *)
THEOREM ActiveCoveredCorrect == Netburst => (Spec => []ActiveCovered)
<1> SUFFICES ASSUME Netburst PROVE Spec => []ActiveCovered
  BY Zenon
<1>1. TypeOK /\ FlightInv => ActiveCovered
  <2> SUFFICES ASSUME TypeOK, FlightInv, NEW d \in Dests, futures[d] # << >>
               PROVE  db.active[d] \subseteq UNION {f.rows : f \in Range(futures[d])}
    BY Zenon DEF ActiveCovered
  <2>1. Len(futures[d]) <= 1 /\ db.active[d] \subseteq futures[d][1].rows
    BY Zenon DEF FlightInv, DestInv
  <2>2. QED
    BY Zenon, <2>1, FirstIsAll
<1>2. QED
  BY <1>1, FlightCorrect, PTL

----------------------------------------------------------------------------
(* Nothing is lost.                                                        *)

(* What is on disk is recorded in "stored"; a recorded row is still on     *)
(* disk, and in the tables the process reads, unless it was delivered or   *)
(* discarded.                                                              *)
DurableInv ==
  \A e \in Dests :
    /\ RowsOf(disk, e) \subseteq stored[e]
    /\ stored[e] \subseteq RowsOf(disk, e) \cup acked[e] \cup dropped[e]
    /\ stored[e] \subseteq RowsOf(db, e) \cup acked[e] \cup dropped[e]

(* A step keeps the invariant when no table it passes through misses a     *)
(* row of the old tables, or has a row the new tables miss, other than     *)
(* rows that the step has delivered or discarded.                          *)
LEMMA CommitDurable ==
  ASSUME DurableInv, NEW final, NEW mids, Commit(final, mids),
         \A e \in Dests : acked[e] \subseteq acked'[e] /\ dropped[e] \subseteq dropped'[e],
         \A x \in {final} \cup mids, e \in Dests :
           /\ RowsOf(db, e) \subseteq RowsOf(x, e) \cup acked'[e] \cup dropped'[e]
           /\ RowsOf(x, e) \subseteq RowsOf(final, e) \cup acked'[e] \cup dropped'[e]
  PROVE  DurableInv'
<1> SUFFICES ASSUME NEW e \in Dests
             PROVE  /\ RowsOf(disk', e) \subseteq stored'[e]
                    /\ stored'[e] \subseteq RowsOf(disk', e) \cup acked'[e] \cup dropped'[e]
                    /\ stored'[e] \subseteq RowsOf(db', e) \cup acked'[e] \cup dropped'[e]
  BY Zenon DEF DurableInv, RowsOf
<1>1. /\ db' = final
      /\ stored'[e] = stored[e] \cup RowsOf(disk', e)
      /\ disk' = disk \/ disk' \in {final} \cup mids
  BY Zenon DEF Commit, RowsOf
<1>2. /\ RowsOf(disk, e) \subseteq stored[e]
      /\ stored[e] \subseteq RowsOf(disk, e) \cup acked[e] \cup dropped[e]
      /\ stored[e] \subseteq RowsOf(db, e) \cup acked[e] \cup dropped[e]
      /\ acked[e] \subseteq acked'[e] /\ dropped[e] \subseteq dropped'[e]
  BY Zenon DEF DurableInv
<1>3. stored[e] \subseteq RowsOf(final, e) \cup acked'[e] \cup dropped'[e]
  <2>1. RowsOf(db, e) \subseteq RowsOf(final, e) \cup acked'[e] \cup dropped'[e]
    BY Zenon
  <2>2. QED
    BY Zenon, <1>2, <2>1
<1>4. CASE disk' = disk
  BY Zenon, <1>1, <1>2, <1>3, <1>4
<1>5. CASE disk' \in {final} \cup mids
  <2>1. /\ RowsOf(db, e) \subseteq RowsOf(disk', e) \cup acked'[e] \cup dropped'[e]
        /\ RowsOf(disk', e) \subseteq RowsOf(final, e) \cup acked'[e] \cup dropped'[e]
    BY <1>5, Zenon
  <2>2. QED
    BY <1>1, <1>2, <1>3, <2>1, Zenon
<1>6. QED
  BY Zenon, <1>1, <1>4, <1>5

LEMMA DurableInit == Init => DurableInv
BY DEF Init, DurableInv, RowsOf, EmptyTables

LEMMA DurableProducers ==
  ASSUME TypeOK, DurableInv
  PROVE  /\ \A ds, r : SendPdu(ds, r) => DurableInv'
         /\ \A ds \in SUBSET Federation : \A r : SendEdu(ds, r) => DurableInv'
         /\ NextCount => DurableInv'
         /\ \A d \in Dests : CleanupEvents(d) => DurableInv'
<1>0. db \in Tables
  BY Zenon DEF TypeOK
<1>1. ASSUME NEW ds, NEW r, SendPdu(ds, r) PROVE DurableInv'
  <2>1. Commit(Queued(db, ds, r), {}) /\ UNCHANGED <<acked, dropped>>
    BY Zenon, <1>1 DEF SendPdu
  <2>2. \A e \in Dests : RowsOf(db, e) \subseteq RowsOf(Queued(db, ds, r), e)
    BY Zenon, <1>0 DEF Queued, RowsOf, Tables
  <2>3. QED
    BY Zenon, <2>1, <2>2, CommitDurable
<1>2. ASSUME NEW ds \in SUBSET Federation, NEW r, SendEdu(ds, r) PROVE DurableInv'
  <2> DEFINE Counted(n) == [db EXCEPT !.count = @ + n]
             final == Queued(Counted(Cardinality(ds)), ds, r)
             mids == {Counted(n) : n \in 1 .. Cardinality(ds)}
  <2>1. Commit(final, mids) /\ UNCHANGED <<acked, dropped>>
    BY Zenon, <1>2 DEF SendEdu
  <2>2. \A e \in Dests : RowsOf(db, e) \subseteq RowsOf(final, e)
    BY Zenon, <1>0 DEF Queued, RowsOf, Tables
  <2>3. \A x \in mids, e \in Dests : RowsOf(x, e) = RowsOf(db, e)
    BY Zenon, <1>0 DEF RowsOf, Tables
  <2> HIDE DEF final, mids
  <2>4. QED
    BY Zenon, <2>1, <2>2, <2>3, CommitDurable
<1>3. ASSUME NextCount PROVE DurableInv'
  <2> DEFINE final == [db EXCEPT !.count = @ + 1]
  <2>1. Commit(final, {}) /\ UNCHANGED <<acked, dropped>>
    BY Zenon, <1>3 DEF NextCount
  <2>2. \A e \in Dests : RowsOf(db, e) = RowsOf(final, e)
    BY Zenon, <1>0 DEF RowsOf, Tables
  <2> HIDE DEF final
  <2>3. QED
    BY Zenon, <2>1, <2>2, CommitDurable
<1>4. ASSUME NEW d \in Dests, CleanupEvents(d) PROVE DurableInv'
  <2> DEFINE final == delete_all_requests_for(db, d)
             mids == DeleteAllSteps(db, d)
  <2>1. Commit(final, mids) /\ acked' = acked
    BY Zenon, <1>4 DEF CleanupEvents
  <2>2. dropped' = [dropped EXCEPT ![d] = @ \cup RowsOf(db, d)]
    BY <1>4, Zenon DEF CleanupEvents, RowsOf, TypeOK
  <2>3. \A e \in Dests : dropped[e] \subseteq dropped'[e] /\ RowsOf(db, d) \subseteq dropped'[d]
    BY Zenon, <2>2 DEF TypeOK
  <2>4. \A x \in {final} \cup mids, e \in Dests :
          /\ RowsOf(x, e) \subseteq RowsOf(db, e)
          /\ e # d => RowsOf(x, e) = RowsOf(db, e)
    BY <1>0, DeleteAllRows
  <2>5. final \in {final} \cup mids
    BY Zenon
  <2> HIDE DEF final, mids
  <2>6. \A x \in {final} \cup mids, e \in Dests :
          /\ RowsOf(db, e) \subseteq RowsOf(x, e) \cup acked'[e] \cup dropped'[e]
          /\ RowsOf(x, e) \subseteq RowsOf(final, e) \cup acked'[e] \cup dropped'[e]
    <3> TAKE x \in {final} \cup mids, e \in Dests
    <3>1. CASE e = d
      BY Zenon, <2>3, <2>4, <3>1
    <3>2. CASE e # d
      BY Zenon, <2>4, <2>5, <3>2
    <3>3. QED
      BY Zenon, <3>1, <3>2
  <2>7. QED
    BY Zenon, <2>1, <2>3, <2>6, CommitDurable
<1>5. QED
  BY Zenon, <1>1, <1>2, <1>3, <1>4

LEMMA DurableStartup ==
  ASSUME TypeOK, DurableInv, NEW s \in Shards, StartupNetburst(s)
  PROVE  DurableInv'
<1> DEFINE final == [db EXCEPT !.active = [d \in Dests |->
                       IF ShardOf[d] = s THEN Kept(@[d]) ELSE @[d]]]
           mids == DropSteps(db, s)
<1>0. db \in Tables
  BY Zenon DEF TypeOK
<1>1. /\ Commit(final, mids)
      /\ acked' = acked
      /\ \A e \in Dests : dropped'[e] = dropped[e] \cup (db.active[e] \ final.active[e])
  BY Zenon DEF StartupNetburst
<1>2. ASSUME NEW e \in Dests
      PROVE  /\ final.active[e] \subseteq db.active[e]
             /\ final.queued[e] = db.queued[e]
             /\ ShardOf[e] = s => final.active[e] = Kept(db.active[e])
             /\ ShardOf[e] # s => final.active[e] = db.active[e]
  BY Zenon, <1>0, <1>2 DEF Tables, Kept
<1>3. ASSUME NEW x \in mids, NEW e \in Dests
      PROVE  /\ x.active[e] \subseteq db.active[e]
             /\ final.active[e] \subseteq x.active[e]
             /\ x.queued[e] = db.queued[e]
  <2>1. PICK k \in [Dests -> 0 .. MaxRow] :
          x = [db EXCEPT !.active = [d \in Dests |->
                 IF ShardOf[d] = s THEN @[d] \ UpTo(@[d] \ Kept(@[d]), k[d]) ELSE @[d]]]
    BY <1>3, Zenon DEF DropSteps
  <2>2. /\ x.active[e] = IF ShardOf[e] = s
                         THEN db.active[e] \ UpTo(db.active[e] \ Kept(db.active[e]), k[e])
                         ELSE db.active[e]
        /\ x.queued[e] = db.queued[e]
    BY Zenon, <1>0, <1>3, <2>1 DEF Tables
  <2> HIDE DEF final, mids
  <2>3. CASE ShardOf[e] = s
    <3>1. UpTo(db.active[e] \ Kept(db.active[e]), k[e]) \subseteq db.active[e] \ Kept(db.active[e])
      BY Zenon DEF UpTo
    <3>2. QED
      BY <1>2, <2>2, <2>3, <3>1, Zenon
  <2>4. CASE ShardOf[e] # s
    BY Zenon, <1>2, <2>2, <2>4
  <2>5. QED
    BY Zenon, <2>3, <2>4
<1> HIDE DEF final, mids
<1>4. \A x \in {final} \cup mids, e \in Dests :
        /\ RowsOf(db, e) \subseteq RowsOf(x, e) \cup acked'[e] \cup dropped'[e]
        /\ RowsOf(x, e) \subseteq RowsOf(final, e) \cup acked'[e] \cup dropped'[e]
  <2> TAKE x \in {final} \cup mids, e \in Dests
  <2>1. /\ x.active[e] \subseteq db.active[e]
        /\ final.active[e] \subseteq x.active[e]
        /\ x.queued[e] = db.queued[e]
        /\ final.queued[e] = db.queued[e]
    BY <1>2, <1>3, Zenon
  <2>2. QED
    BY Zenon, <1>1, <2>1 DEF RowsOf
<1>5. QED
  BY Zenon, <1>1, <1>4, CommitDurable

LEMMA DurableNew ==
  ASSUME TypeOK, DurableInv, NEW s \in Shards, HandleRequestNew(s)
  PROVE  DurableInv'
<1> DEFINE d == Head(channel[s]).dest
           S == {Head(channel[s]).row} \ {Flush}
           marked == mark_as_active(db, d, S)
<1>0. db \in Tables
  BY Zenon DEF TypeOK
<1>1. d \in Dests /\ S \in SUBSET Rows /\ UNCHANGED <<acked, dropped>>
  BY TypeReceive, Zenon DEF HandleRequestNew, Receive
<1>2. PICK last \in EduWindow(d) :
        Commit([marked EXCEPT !.educount[d] = last], MarkSteps(db, d, S) \cup {marked})
  BY Zenon DEF HandleRequestNew
<1> DEFINE final == [marked EXCEPT !.educount[d] = last]
           mids == MarkSteps(db, d, S) \cup {marked}
<1>3. marked \in Tables
  BY <1>0, <1>1, TableOps, Zenon
<1>4. \A e \in Dests : RowsOf(final, e) = RowsOf(marked, e)
  BY Zenon, <1>3 DEF RowsOf, Tables
<1>5. marked = mark_as_active(db, d, S)
  BY Zenon
<1> HIDE DEF d, S, marked
<1>6. \A x \in mids, e \in Dests :
        RowsOf(db, e) \subseteq RowsOf(x, e) /\ RowsOf(x, e) \subseteq RowsOf(marked, e)
  BY <1>0, <1>1, <1>5, MarkRows, Zenon
<1>7. \A e \in Dests : RowsOf(db, e) \subseteq RowsOf(marked, e)
  BY Zenon, <1>6
<1> HIDE DEF final, mids
<1>8. \A x \in {final} \cup mids, e \in Dests :
        /\ RowsOf(db, e) \subseteq RowsOf(x, e) \cup acked'[e] \cup dropped'[e]
        /\ RowsOf(x, e) \subseteq RowsOf(final, e) \cup acked'[e] \cup dropped'[e]
  BY <1>4, <1>6, <1>7, Zenon
<1>9. Commit(final, mids)
  BY Zenon, <1>2 DEF final, mids
<1>10. QED
  BY <1>1, <1>8, <1>9, CommitDurable, Zenon

(* The step that needs the netburst: the deleted active rows are rows of   *)
(* the transaction that has succeeded.                                     *)
LEMMA DurableOk ==
  ASSUME TypeOK, FlightInv, DurableInv, Netburst,
         NEW d \in Dests, NEW i \in DOMAIN futures[d],
         HandleResponseOk(d, i) \/ FinishOk(d, i)
  PROVE  DurableInv'
<1> DEFINE clean == delete_all_active_requests_for(db, d)
           batch == FirstQueued(db.queued[d])
<1>0. db \in Tables
  BY Zenon DEF TypeOK
<1>1. /\ db.active[d] \subseteq acked'[d]
      /\ \A e \in Dests : acked[e] \subseteq acked'[e]
      /\ dropped' = dropped
  <2>1. Len(futures[d]) <= 1 /\ i = 1
    BY Zenon, PopStep DEF FlightInv, DestInv
  <2>2. futures[d] # << >>
    BY <2>1, LenProperties DEF TypeOK
  <2>3. db.active[d] \subseteq futures[d][i].rows
    BY <2>1, <2>2, Zenon DEF FlightInv, DestInv
  <2>4. acked' = [acked EXCEPT ![d] = @ \cup futures[d][i].rows] /\ dropped' = dropped
    BY Zenon DEF HandleResponseOk, FinishOk
  <2>5. QED
    BY Zenon, <2>3, <2>4 DEF TypeOK
<1>2. clean \in Tables /\ batch \in SUBSET Rows
  BY <1>0, TableOps, Zenon DEF FirstQueued, Tables
<1>3. \A x \in DeleteActiveSteps(db, d) \cup {clean}, e \in Dests :
        /\ RowsOf(x, e) \subseteq RowsOf(db, e)
        /\ RowsOf(db, e) \subseteq RowsOf(x, e) \cup acked'[e]
  <2> TAKE x \in DeleteActiveSteps(db, d) \cup {clean}, e \in Dests
  <2>1. /\ RowsOf(x, e) \subseteq RowsOf(db, e)
        /\ e # d => RowsOf(x, e) = RowsOf(db, e)
        /\ RowsOf(db, d) \subseteq RowsOf(x, d) \cup db.active[d]
    <3>1. ActiveLoss(db, d, x)
      BY Zenon, <1>0, DeleteActiveLoss
    <3>2. QED
      BY <3>1, Zenon DEF ActiveLoss
  <2>2. QED
    BY <1>1, <2>1, Zenon
<1>4. CASE FinishOk(d, i)
  <2>1. Commit(clean, DeleteActiveSteps(db, d))
    BY <1>4, Zenon DEF FinishOk
  <2> HIDE DEF clean
  <2>2. \A x \in {clean} \cup DeleteActiveSteps(db, d), e \in Dests :
          /\ RowsOf(db, e) \subseteq RowsOf(x, e) \cup acked'[e] \cup dropped'[e]
          /\ RowsOf(x, e) \subseteq RowsOf(clean, e) \cup acked'[e] \cup dropped'[e]
    <3> TAKE x \in {clean} \cup DeleteActiveSteps(db, d), e \in Dests
    <3>1. /\ RowsOf(x, e) \subseteq RowsOf(db, e)
          /\ RowsOf(db, e) \subseteq RowsOf(x, e) \cup acked'[e]
          /\ RowsOf(db, e) \subseteq RowsOf(clean, e) \cup acked'[e]
      BY Zenon, <1>3
    <3>2. QED
      BY <3>1, Zenon
  <2>3. QED
    BY <1>1, <2>1, <2>2, CommitDurable, Zenon
<1>5. CASE HandleResponseOk(d, i)
  <2> DEFINE final == mark_as_active(clean, d, batch)
             marks == MarkSteps(clean, d, batch)
  <2>1. Commit(final, DeleteActiveSteps(db, d) \cup marks)
    BY <1>5, Zenon DEF HandleResponseOk
  <2>2. final = mark_as_active(clean, d, batch)
    BY Zenon
  <2> HIDE DEF clean, batch
  <2>3. \A x \in marks \cup {final}, e \in Dests :
          RowsOf(clean, e) \subseteq RowsOf(x, e) /\ RowsOf(x, e) \subseteq RowsOf(final, e)
    BY <1>2, MarkRows, Zenon
  <2> HIDE DEF final, marks
  <2>4. \A x \in {final} \cup (DeleteActiveSteps(db, d) \cup marks), e \in Dests :
          /\ RowsOf(db, e) \subseteq RowsOf(x, e) \cup acked'[e] \cup dropped'[e]
          /\ RowsOf(x, e) \subseteq RowsOf(final, e) \cup acked'[e] \cup dropped'[e]
    <3> TAKE x \in {final} \cup (DeleteActiveSteps(db, d) \cup marks), e \in Dests
    <3>1. /\ RowsOf(db, e) \subseteq RowsOf(clean, e) \cup acked'[e]
          /\ RowsOf(clean, e) \subseteq RowsOf(final, e)
      BY Zenon, <1>3, <2>3
    <3>2. CASE x \in DeleteActiveSteps(db, d)
      <4>1. /\ RowsOf(x, e) \subseteq RowsOf(db, e)
            /\ RowsOf(db, e) \subseteq RowsOf(x, e) \cup acked'[e]
        BY Zenon, <1>3, <3>2
      <4>2. QED
        BY Zenon, <3>1, <4>1
    <3>3. CASE x \in marks \cup {final}
      <4>1. RowsOf(clean, e) \subseteq RowsOf(x, e) /\ RowsOf(x, e) \subseteq RowsOf(final, e)
        BY Zenon, <2>3, <3>3
      <4>2. QED
        BY Zenon, <3>1, <4>1
    <3>4. QED
      BY <3>2, <3>3, Zenon
  <2>5. QED
    BY <1>1, <2>1, <2>4, CommitDurable, Zenon
<1>6. QED
  BY Zenon, <1>4, <1>5

LEMMA DurableReboot ==
  ASSUME DurableInv, Restart \/ Crash
  PROVE  DurableInv'
<1>1. CASE Restart
  <2>1. /\ db' = db /\ disk' = db
        /\ UNCHANGED <<acked, dropped>>
        /\ \A e \in Dests : stored'[e] = stored[e] \cup RowsOf(db, e)
    BY Zenon, <1>1 DEF Restart, Commit, Boot, RowsOf
  <2>2. QED
    BY Zenon, <2>1 DEF DurableInv
<1>2. CASE Crash
  <2>1. db' = disk /\ disk' = disk /\ UNCHANGED <<stored, acked, dropped>>
    BY Zenon, <1>2 DEF Crash, Boot
  <2>2. QED
    BY Zenon, <2>1 DEF DurableInv
<1>3. QED
  BY Zenon, <1>1, <1>2

LEMMA DurableNext ==
  ASSUME Netburst
  PROVE  TypeOK /\ FlightInv /\ DurableInv /\ [Next]_vars => DurableInv'
<1> SUFFICES ASSUME TypeOK, FlightInv, DurableInv, [Next]_vars PROVE DurableInv'
  BY Zenon
<1>1. CASE UNCHANGED <<db, disk, stored, acked, dropped>>
  BY Zenon, <1>1 DEF DurableInv
<1>2. CASE UNCHANGED vars \/ Interrupt
  BY Zenon, <1>1, <1>2 DEF vars, Interrupt
<1>3. CASE \E d \in Federation : FlushServers(d)
  BY Zenon, <1>1, <1>3 DEF FlushServers
<1>4. CASE \E s \in Shards :
             \/ HandleRequestBusy(s) \/ HandleRequestRetry(s)
             \/ LeaveLoop(s) \/ FinishEnd(s)
  BY <1>1, <1>4, Zenon DEF HandleRequestBusy, HandleRequestRetry, LeaveLoop, FinishEnd, Receive
<1>5. CASE \E d \in Dests : \E i \in DOMAIN futures[d] : HandleResponseErr(d, i) \/ FinishErr(d, i)
  BY <1>1, <1>5, Zenon DEF HandleResponseErr, FinishErr
<1>6. CASE \E d \in Dests : BackoffElapses(d)
  BY Zenon, <1>1, <1>6 DEF BackoffElapses
<1>7. Appservices \cup Pushers \subseteq Dests
  BY Zenon DEF Dests
<1>8. QED
  BY <1>2, <1>3, <1>4, <1>5, <1>6, <1>7, DurableProducers, DurableStartup, DurableNew,
     DurableOk, DurableReboot, Zenon
     DEF Next, Respond, Finish

(* With the netburst, a row that has reached the disk is on disk until a   *)
(* transaction that contained it has succeeded or it was discarded on      *)
(* purpose, whatever prefix of the writes each crash leaves behind.        *)
THEOREM NothingLostCorrect == Netburst => (Spec => []NothingLost)
<1> SUFFICES ASSUME Netburst PROVE Spec => []NothingLost
  BY Zenon
<1>1. Init => TypeOK /\ FlightInv /\ DurableInv
  BY Zenon, TypeInit, FlightInit, DurableInit
<1>2. TypeOK /\ FlightInv /\ DurableInv /\ [Next]_vars => (TypeOK /\ FlightInv /\ DurableInv)'
  BY Zenon, TypeNext, FlightNext, DurableNext
<1>3. DurableInv => NothingLost
  BY Zenon DEF DurableInv, NothingLost, RowsOf
<1>4. QED
  BY <1>1, <1>2, <1>3, PTL DEF Spec

----------------------------------------------------------------------------
(* The selection window of select_edus.                                    *)

InWindow(b) == \A d \in Dests : b.educount[d] <= b.count

LEMMA CommitWindow ==
  ASSUME SinceRange, NEW final, NEW mids, Commit(final, mids),
         \A x \in {final} \cup mids : InWindow(x)
  PROVE  SinceRange'
<1>1. InWindow(db) /\ InWindow(disk)
  BY Zenon DEF SinceRange, InWindow
<1>2. db' = final /\ (disk' = disk \/ disk' \in {final} \cup mids)
  BY Zenon DEF Commit
<1>3. InWindow(db)' /\ InWindow(disk)'
  BY Zenon, <1>1, <1>2 DEF InWindow
<1>4. QED
  BY Zenon, <1>3 DEF SinceRange, InWindow

LEMMA SameWindow ==
  ASSUME NEW b, NEW x, InWindow(b), x.educount = b.educount, x.count = b.count
  PROVE  InWindow(x)
BY Zenon DEF InWindow

LEMMA WindowNext == TypeOK /\ SinceRange /\ [Next]_vars => SinceRange'
<1> SUFFICES ASSUME TypeOK, SinceRange, [Next]_vars PROVE SinceRange'
  BY Zenon
<1>0. db \in Tables /\ InWindow(db) /\ InWindow(disk)
  BY Zenon DEF TypeOK, SinceRange, InWindow
<1>1. CASE UNCHANGED <<db, disk>>
  BY Zenon, <1>1 DEF SinceRange
<1>2. ASSUME NEW ds, NEW r, SendPdu(ds, r) PROVE SinceRange'
  <2>1. Commit(Queued(db, ds, r), {})
    BY Zenon, <1>2 DEF SendPdu
  <2>2. InWindow(Queued(db, ds, r))
    BY Zenon, <1>0, SameWindow DEF Queued, Tables
  <2>3. QED
    BY Zenon, <2>1, <2>2, CommitWindow
<1>3. ASSUME NEW ds \in SUBSET Federation, NEW r, SendEdu(ds, r) PROVE SinceRange'
  <2> DEFINE Counted(n) == [db EXCEPT !.count = @ + n]
  <2>1. IsFiniteSet(ds) /\ Cardinality(ds) \in Nat
    BY Zenon, SendingAssumption, FS_Subset, FS_CardinalityType
  <2>2. ASSUME NEW n \in Nat PROVE InWindow(Counted(n))
    BY <1>0, <2>2, SendingAssumption DEF InWindow, Tables
  <2>3. InWindow(Queued(Counted(Cardinality(ds)), ds, r))
    <3>1. /\ Queued(Counted(Cardinality(ds)), ds, r).educount = Counted(Cardinality(ds)).educount
          /\ Queued(Counted(Cardinality(ds)), ds, r).count = Counted(Cardinality(ds)).count
      BY Zenon, <1>0 DEF Queued, Tables
    <3>2. InWindow(Counted(Cardinality(ds)))
      BY Zenon, <2>1, <2>2
    <3> HIDE DEF Counted
    <3>3. QED
      BY Zenon, <3>1, <3>2, SameWindow
  <2>4. Commit(Queued(Counted(Cardinality(ds)), ds, r), {Counted(n) : n \in 1 .. Cardinality(ds)})
    BY Zenon, <1>3 DEF SendEdu
  <2>5. \A n \in 1 .. Cardinality(ds) : InWindow(Counted(n))
    BY <2>1, <2>2
  <2> HIDE DEF Counted
  <2>6. QED
    BY Zenon, <2>3, <2>4, <2>5, CommitWindow
<1>4. ASSUME NextCount PROVE SinceRange'
  <2>1. Commit([db EXCEPT !.count = @ + 1], {})
    BY Zenon, <1>4 DEF NextCount
  <2>2. InWindow([db EXCEPT !.count = @ + 1])
    BY <1>0, SendingAssumption DEF InWindow, Tables
  <2>3. QED
    BY Zenon, <2>1, <2>2, CommitWindow
<1>5. ASSUME NEW d \in Dests, CleanupEvents(d) PROVE SinceRange'
  <2>1. Commit(delete_all_requests_for(db, d), DeleteAllSteps(db, d))
    BY Zenon, <1>5 DEF CleanupEvents
  <2>2. \A x \in {delete_all_requests_for(db, d)} \cup DeleteAllSteps(db, d) : InWindow(x)
    BY <1>0, DeleteAllRows, SameWindow
  <2>3. QED
    BY Zenon, <2>1, <2>2, CommitWindow
<1>6. ASSUME NEW s \in Shards, StartupNetburst(s) PROVE SinceRange'
  <2> DEFINE final == [db EXCEPT !.active = [d \in Dests |->
                         IF ShardOf[d] = s THEN Kept(@[d]) ELSE @[d]]]
  <2>1. Commit(final, DropSteps(db, s))
    BY Zenon, <1>6 DEF StartupNetburst
  <2>2. final.educount = db.educount /\ final.count = db.count
    BY Zenon, <1>0 DEF Tables
  <2>3. \A x \in DropSteps(db, s) : x.educount = db.educount /\ x.count = db.count
    BY Zenon, <1>0 DEF DropSteps, Tables
  <2> HIDE DEF final
  <2>4. \A x \in {final} \cup DropSteps(db, s) : InWindow(x)
    BY Zenon, <1>0, <2>2, <2>3, SameWindow
  <2>5. QED
    BY Zenon, <2>1, <2>4, CommitWindow
<1>7. ASSUME NEW s \in Shards, HandleRequestNew(s) PROVE SinceRange'
  <2> DEFINE d == Head(channel[s]).dest
             S == {Head(channel[s]).row} \ {Flush}
             marked == mark_as_active(db, d, S)
  <2>1. d \in Dests /\ S \in SUBSET Rows
    BY Zenon, <1>7, TypeReceive DEF HandleRequestNew
  <2>2. PICK last \in EduWindow(d) :
          Commit([marked EXCEPT !.educount[d] = last], MarkSteps(db, d, S) \cup {marked})
    BY <1>7, Zenon DEF HandleRequestNew
  <2>3. marked \in Tables /\ marked = mark_as_active(db, d, S)
    BY Zenon, <1>0, <2>1, TableOps
  <2> HIDE DEF d, S, marked
  <2>4. \A x \in MarkSteps(db, d, S) \cup {marked} : x.educount = db.educount /\ x.count = db.count
    <3> TAKE x \in MarkSteps(db, d, S) \cup {marked}
    <3>1. x \in MarkSteps(db, d, S) \cup {mark_as_active(db, d, S)}
      BY <2>3, Zenon
    <3>2. ActiveGain(db, d, S, x)
      BY Zenon, <1>0, <2>1, <3>1, MarkActive
    <3>3. QED
      BY <3>2, Zenon DEF ActiveGain
  <2>5. \A x \in MarkSteps(db, d, S) \cup {marked} : InWindow(x)
    BY Zenon, <1>0, <2>4, SameWindow
  <2>6. marked.educount = db.educount /\ marked.count = db.count
    BY Zenon, <2>4
  <2>7. InWindow([marked EXCEPT !.educount[d] = last])
    <3>1. last <= db.count
      BY <1>0, <2>1, <2>2, SendingAssumption DEF EduWindow, Tables
    <3>2. QED
      BY Zenon, <1>0, <2>1, <2>3, <2>6, <3>1 DEF InWindow, Tables
  <2>8. QED
    BY Zenon, <2>2, <2>5, <2>7, CommitWindow
<1>8. ASSUME NEW d \in Dests, NEW i \in DOMAIN futures[d], HandleResponseOk(d, i) \/ FinishOk(d, i)
      PROVE  SinceRange'
  <2> DEFINE clean == delete_all_active_requests_for(db, d)
             batch == FirstQueued(db.queued[d])
  <2>1. clean \in Tables /\ batch \in SUBSET Rows
    BY <1>0, TableOps, Zenon DEF FirstQueued, Tables
  <2>2. \A x \in DeleteActiveSteps(db, d) \cup {clean} : InWindow(x)
    BY <1>0, DeleteActiveRows, SameWindow
  <2>3. CASE FinishOk(d, i)
    <3>1. Commit(clean, DeleteActiveSteps(db, d))
      BY Zenon, <2>3 DEF FinishOk
    <3>2. QED
      BY Zenon, <2>2, <3>1, CommitWindow
  <2>4. CASE HandleResponseOk(d, i)
    <3>1. Commit(mark_as_active(clean, d, batch),
                 DeleteActiveSteps(db, d) \cup MarkSteps(clean, d, batch))
      BY <2>4, Zenon DEF HandleResponseOk
    <3> HIDE DEF clean, batch
    <3>2. \A x \in MarkSteps(clean, d, batch) \cup {mark_as_active(clean, d, batch)} :
            x.educount = clean.educount /\ x.count = clean.count
      BY <2>1, MarkRows
    <3>3. \A x \in MarkSteps(clean, d, batch) \cup {mark_as_active(clean, d, batch)} : InWindow(x)
      BY Zenon, <2>2, <3>2, SameWindow
    <3>4. QED
      BY Zenon, <2>2, <3>1, <3>3, CommitWindow
  <2>5. QED
    BY Zenon, <1>8, <2>3, <2>4
<1>9. CASE Restart \/ Crash
  BY Zenon, <1>9 DEF Restart, Crash, Commit, SinceRange
<1>10. CASE UNCHANGED vars \/ Interrupt
  BY Zenon, <1>1, <1>10 DEF vars, Interrupt
<1>11. CASE \E d \in Federation : FlushServers(d)
  BY Zenon, <1>1, <1>11 DEF FlushServers
<1>12. CASE \E s \in Shards :
              \/ HandleRequestBusy(s) \/ HandleRequestRetry(s)
              \/ LeaveLoop(s) \/ FinishEnd(s)
  BY <1>1, <1>12, Zenon DEF HandleRequestBusy, HandleRequestRetry, LeaveLoop, FinishEnd
<1>13. CASE \E d \in Dests : \E i \in DOMAIN futures[d] : HandleResponseErr(d, i) \/ FinishErr(d, i)
  BY <1>1, <1>13, Zenon DEF HandleResponseErr, FinishErr
<1>14. CASE \E d \in Dests : BackoffElapses(d)
  BY Zenon, <1>1, <1>14 DEF BackoffElapses
<1>15. Appservices \cup Pushers \subseteq Dests
  BY Zenon DEF Dests
<1>16. QED
  BY <1>2, <1>3, <1>4, <1>5, <1>6, <1>7, <1>8, <1>9, <1>10, <1>11, <1>12, <1>13, <1>14, <1>15,
     Zenon DEF Next, Respond, Finish

(* The debug_assert of select_edus holds: after any sequence of steps and  *)
(* crashes the stored educount of a server is at most the counter.         *)
THEOREM SinceRangeCorrect == Spec => []SinceRange
<1>1. Init => SinceRange
  <2>1. /\ EmptyTables.count = 0
        /\ \A d \in Dests : EmptyTables.educount[d] = 0
    BY Zenon DEF EmptyTables
  <2>2. \A d \in Dests : EmptyTables.educount[d] <= EmptyTables.count
    BY <2>1
  <2>3. QED
    BY <2>2, Zenon DEF Init, SinceRange
<1>2. QED
  BY <1>1, TypeInit, TypeNext, WindowNext, PTL DEF Spec

----------------------------------------------------------------------------
(* The size of a transaction.                                              *)

LEMMA RowsFinite ==
  ASSUME NEW T \in SUBSET Rows
  PROVE  IsFiniteSet(T)
<1>1. 1 \in Int /\ MaxRow \in Int
  BY SendingAssumption
<1>2. IsFiniteSet(Rows)
  BY Zenon, <1>1, FS_Interval DEF Rows
<1>3. QED
  BY Zenon, <1>2, FS_Subset

LEMMA LargestRow ==
  ASSUME NEW T \in SUBSET Rows, T # {}
  PROVE  \E m \in T : \A r \in T : r <= m
<1> DEFINE D == {MaxRow - r : r \in T}
<1>0. MaxRow \in Nat /\ \A r \in T : r \in 1 .. MaxRow
  BY Zenon, SendingAssumption DEF Rows
<1>1. D \subseteq Nat /\ D # {}
  BY <1>0
<1>2. \E x \in D : \A y \in D : ~(<<y, x>> \in OpToRel(<, Nat))
  <2> HIDE DEF D
  <2>1. QED
    BY <1>1, WFMin, NatLessThanWellFounded, Zenon
<1>3. PICK x \in D : \A y \in D : ~(y < x)
  BY <1>1, <1>2, Zenon DEF OpToRel
<1>4. PICK m \in T : x = MaxRow - m
  BY Zenon
<1>5. ASSUME NEW r \in T PROVE r <= m
  <2>1. ~(MaxRow - r < MaxRow - m)
    BY Zenon, <1>3, <1>4
  <2>2. QED
    BY <1>0, <2>1
<1>6. QED
  BY Zenon, <1>5

(* queued_requests(..).take(DEQUEUE_LIMIT) takes at most that many rows.   *)
LEMMA FirstQueuedSize ==
  ASSUME NEW S \in SUBSET Rows
  PROVE  Cardinality(FirstQueued(S)) <= DequeueLimit
<1> DEFINE Q == FirstQueued(S)
<1>0. DequeueLimit \in Nat /\ DequeueLimit > 0
  BY SendingAssumption
<1>1. IsFiniteSet(S)
  BY Zenon, RowsFinite
<1>2. Q \in SUBSET S /\ \A r \in Q : Cardinality(Below(S, r)) < DequeueLimit
  BY Zenon DEF FirstQueued
<1>3. IsFiniteSet(Q) /\ Cardinality(Q) \in Nat
  BY Zenon, <1>1, <1>2, FS_Subset, FS_CardinalityType
<1> HIDE DEF Q
<1>4. CASE Q = {}
  BY SMTT(30), <1>0, <1>4, FS_EmptySet DEF Q
<1>5. CASE Q # {}
  <2>1. PICK m \in Q : \A r \in Q : r <= m
    BY Zenon, <1>2, <1>5, LargestRow
  <2>2. Q \ {m} \subseteq Below(S, m)
    <3>1. \A r \in Q : r \in Int
      BY <1>2, SendingAssumption DEF Rows
    <3>2. \A r \in Q \ {m} : r < m
      BY <2>1, <3>1
    <3>3. QED
      BY Zenon, <1>2, <3>2 DEF Below
  <2>3. IsFiniteSet(Below(S, m)) /\ Cardinality(Below(S, m)) \in Nat
    <3>1. Below(S, m) \in SUBSET S
      BY Zenon DEF Below
    <3>2. QED
      BY Zenon, <1>1, <3>1, FS_Subset, FS_CardinalityType
  <2>4. Cardinality(Q \ {m}) = Cardinality(Q) - 1
    BY Zenon, <1>3, <2>1, FS_RemoveElement
  <2>5. Cardinality(Q \ {m}) <= Cardinality(Below(S, m))
    BY Zenon, <2>2, <2>3, FS_Subset
  <2>6. Cardinality(Below(S, m)) < DequeueLimit
    BY Zenon, <1>2, <2>1
  <2>7. QED
    BY SMTT(30), <1>0, <1>3, <2>3, <2>4, <2>5, <2>6 DEF Q
<1>6. QED
  BY Zenon, <1>4, <1>5

Small(T) == T \in SUBSET Rows /\ Cardinality(T) <= DequeueLimit

LEMMA SmallSubset ==
  ASSUME NEW T, Small(T), NEW U \in SUBSET T
  PROVE  Small(U)
<1>1. IsFiniteSet(T)
  BY Zenon, RowsFinite DEF Small
<1>2. /\ Cardinality(U) \in Nat /\ Cardinality(T) \in Nat
      /\ Cardinality(U) <= Cardinality(T)
  BY Zenon, <1>1, FS_Subset, FS_CardinalityType
<1>3. U \in SUBSET Rows
  BY Zenon DEF Small
<1>4. QED
  BY <1>2, <1>3, SendingAssumption DEF Small

LEMMA SmallSingle ==
  ASSUME NEW r, {r} \ {Flush} \in SUBSET Rows
  PROVE  Small({r} \ {Flush})
<1>1. IsFiniteSet({r}) /\ Cardinality({r}) = 1
  BY Zenon, FS_Singleton
<1>2. Cardinality({r} \ {Flush}) <= 1 /\ Cardinality({r} \ {Flush}) \in Nat
  BY Zenon, <1>1, FS_Subset, FS_CardinalityType
<1>3. QED
  BY <1>2, SendingAssumption DEF Small

Limited(b) == \A e \in Dests : Small(b.active[e])
LimitInv == Limited(db) /\ Limited(disk)

LEMMA CommitLimit ==
  ASSUME LimitInv, NEW final, NEW mids, Commit(final, mids),
         \A x \in {final} \cup mids : Limited(x)
  PROVE  LimitInv'
<1>1. db' = final /\ (disk' = disk \/ disk' \in {final} \cup mids)
  BY Zenon DEF Commit
<1>2. Limited(db') /\ Limited(disk')
  BY Zenon, <1>1 DEF LimitInv
<1>3. QED
  BY Zenon, <1>2 DEF LimitInv, Limited

LEMMA ShrinkLimit ==
  ASSUME NEW b, NEW x, Limited(b), \A e \in Dests : x.active[e] \subseteq b.active[e]
  PROVE  Limited(x)
BY Zenon, SmallSubset DEF Limited

LEMMA LimitNext ==
  ASSUME Netburst
  PROVE  TypeOK /\ FlightInv /\ LimitInv /\ [Next]_vars => LimitInv'
<1> SUFFICES ASSUME TypeOK, FlightInv, LimitInv, [Next]_vars PROVE LimitInv'
  BY Zenon
<1>0. db \in Tables /\ Limited(db)
  BY Zenon DEF TypeOK, LimitInv
<1>1. CASE UNCHANGED <<db, disk>>
  BY Zenon, <1>1 DEF LimitInv, Limited
<1>2. ASSUME NEW ds, NEW r, SendPdu(ds, r) PROVE LimitInv'
  <2>1. Commit(Queued(db, ds, r), {})
    BY Zenon, <1>2 DEF SendPdu
  <2>2. Limited(Queued(db, ds, r))
    BY Zenon, <1>0, ShrinkLimit DEF Queued, Tables
  <2>3. QED
    BY Zenon, <2>1, <2>2, CommitLimit
<1>3. ASSUME NEW ds, NEW r, SendEdu(ds, r) PROVE LimitInv'
  <2> DEFINE Counted(n) == [db EXCEPT !.count = @ + n]
             final == Queued(Counted(Cardinality(ds)), ds, r)
             mids == {Counted(n) : n \in 1 .. Cardinality(ds)}
  <2>1. Commit(final, mids)
    BY Zenon, <1>3 DEF SendEdu
  <2>2. final.active = db.active
    BY Zenon, <1>0 DEF Queued, Tables
  <2>3. \A x \in mids : x.active = db.active
    BY Zenon, <1>0 DEF Tables
  <2> HIDE DEF final, mids
  <2>4. \A x \in {final} \cup mids : Limited(x)
    BY Zenon, <1>0, <2>2, <2>3, ShrinkLimit
  <2>5. QED
    BY Zenon, <2>1, <2>4, CommitLimit
<1>4. ASSUME NextCount PROVE LimitInv'
  <2>1. Commit([db EXCEPT !.count = @ + 1], {})
    BY Zenon, <1>4 DEF NextCount
  <2>2. Limited([db EXCEPT !.count = @ + 1])
    BY Zenon, <1>0, ShrinkLimit DEF Tables
  <2>3. QED
    BY Zenon, <2>1, <2>2, CommitLimit
<1>5. ASSUME NEW d \in Dests, CleanupEvents(d) PROVE LimitInv'
  <2>1. Commit(delete_all_requests_for(db, d), DeleteAllSteps(db, d))
    BY <1>5, Zenon DEF CleanupEvents
  <2>2. \A x \in {delete_all_requests_for(db, d)} \cup DeleteAllSteps(db, d), e \in Dests :
          x.active[e] \subseteq db.active[e]
    BY <1>0, DeleteAllRows
  <2>3. QED
    BY Zenon, <1>0, <2>1, <2>2, ShrinkLimit, CommitLimit
<1>6. ASSUME NEW s \in Shards, StartupNetburst(s) PROVE LimitInv'
  <2> DEFINE final == [db EXCEPT !.active = [d \in Dests |->
                         IF ShardOf[d] = s THEN Kept(@[d]) ELSE @[d]]]
  <2>1. Commit(final, DropSteps(db, s))
    BY Zenon, <1>6 DEF StartupNetburst
  <2>2. \A e \in Dests : final.active[e] \subseteq db.active[e]
    BY Zenon, <1>0 DEF Tables, Kept
  <2>3. ASSUME NEW x \in DropSteps(db, s), NEW e \in Dests PROVE x.active[e] \subseteq db.active[e]
    <3>1. PICK k \in [Dests -> 0 .. MaxRow] :
            x = [db EXCEPT !.active = [d \in Dests |->
                   IF ShardOf[d] = s THEN @[d] \ UpTo(@[d] \ Kept(@[d]), k[d]) ELSE @[d]]]
      BY Zenon DEF DropSteps
    <3>2. x.active = [d \in Dests |->
            IF ShardOf[d] = s THEN db.active[d] \ UpTo(db.active[d] \ Kept(db.active[d]), k[d])
            ELSE db.active[d]]
      BY Zenon, <1>0, <3>1 DEF Tables
    <3>3. QED
      BY Zenon, <3>2
  <2> HIDE DEF final
  <2>4. \A x \in {final} \cup DropSteps(db, s) : Limited(x)
    BY Zenon, <1>0, <2>2, <2>3, ShrinkLimit
  <2>5. QED
    BY Zenon, <2>1, <2>4, CommitLimit
<1>7. ASSUME NEW s \in Shards, HandleRequestNew(s) PROVE LimitInv'
  <2> DEFINE d == Head(channel[s]).dest
             S == {Head(channel[s]).row} \ {Flush}
             marked == mark_as_active(db, d, S)
  <2>1. d \in Dests /\ S \in SUBSET Rows /\ Receive(s) /\ status[d].kind = "vacant"
    BY Zenon, <1>7, TypeReceive DEF HandleRequestNew
  <2>2. PICK last \in EduWindow(d) :
          Commit([marked EXCEPT !.educount[d] = last], MarkSteps(db, d, S) \cup {marked})
    BY <1>7, Zenon DEF HandleRequestNew
  <2>3. db.active[d] = {}
    <3>1. ShardOf[d] = s /\ worker[s] = "working"
      BY <2>1, RoutedReceive, Zenon DEF FlightInv, Receive
    <3>2. QED
      BY <2>1, <3>1, Zenon DEF FlightInv, DestInv
  <2>4. marked \in Tables /\ marked = mark_as_active(db, d, S)
    BY <1>0, <2>1, TableOps, Zenon
  <2>5. Small(S)
    BY Zenon, <2>1, SmallSingle
  <2> HIDE DEF d, S, marked
  <2>6. \A x \in MarkSteps(db, d, S) \cup {marked} :
          /\ \A e \in Dests \ {d} : x.active[e] = db.active[e]
          /\ x.active[d] \subseteq db.active[d] \cup S
    <3> TAKE x \in MarkSteps(db, d, S) \cup {marked}
    <3>1. x \in MarkSteps(db, d, S) \cup {mark_as_active(db, d, S)}
      BY <2>4, Zenon
    <3>2. db \in Tables
      BY Zenon, <1>0
    <3>3. ActiveGain(db, d, S, x)
      BY Zenon, <2>1, <3>1, <3>2, MarkActive
    <3>4. QED
      BY <3>3, Zenon DEF ActiveGain
  <2>7. ASSUME NEW x \in MarkSteps(db, d, S) \cup {marked} PROVE Limited(x)
    <3> SUFFICES ASSUME NEW e \in Dests PROVE Small(x.active[e])
      BY Zenon DEF Limited
    <3>1. CASE e = d
      BY <2>3, <2>5, <2>6, <3>1, SmallSubset, Zenon
    <3>2. CASE e # d
      BY Zenon, <1>0, <2>6, <3>2 DEF Limited
    <3>3. QED
      BY Zenon, <3>1, <3>2
  <2>8. Limited([marked EXCEPT !.educount[d] = last])
    <3>1. Limited(marked) /\ [marked EXCEPT !.educount[d] = last].active = marked.active
      BY Zenon, <2>4, <2>7 DEF Tables
    <3>2. QED
      BY Zenon, <3>1 DEF Limited
  <2>9. QED
    BY Zenon, <2>2, <2>7, <2>8, CommitLimit
<1>8. ASSUME NEW d \in Dests, NEW i \in DOMAIN futures[d], HandleResponseOk(d, i) \/ FinishOk(d, i)
      PROVE  LimitInv'
  <2> DEFINE clean == delete_all_active_requests_for(db, d)
             batch == FirstQueued(db.queued[d])
  <2>1. clean \in Tables /\ batch \in SUBSET Rows
    BY <1>0, TableOps, Zenon DEF FirstQueued, Tables
  <2>2. \A x \in DeleteActiveSteps(db, d) \cup {clean}, e \in Dests :
          x.active[e] \subseteq db.active[e]
    <3> TAKE x \in DeleteActiveSteps(db, d) \cup {clean}, e \in Dests
    <3>1. ActiveLoss(db, d, x)
      BY Zenon, <1>0, DeleteActiveLoss
    <3>2. QED
      BY <3>1, Zenon DEF ActiveLoss
  <2>3. \A x \in DeleteActiveSteps(db, d) \cup {clean} : Limited(x)
    BY <1>0, <2>2, ShrinkLimit
  <2>4. CASE FinishOk(d, i)
    <3>1. Commit(clean, DeleteActiveSteps(db, d))
      BY <2>4, Zenon DEF FinishOk
    <3>2. QED
      BY Zenon, <2>3, <3>1, CommitLimit
  <2>5. CASE HandleResponseOk(d, i)
    <3>1. Commit(mark_as_active(clean, d, batch),
                 DeleteActiveSteps(db, d) \cup MarkSteps(clean, d, batch))
      BY <2>5, Zenon DEF HandleResponseOk
    <3>2. Small(batch)
      <4>1. db.queued[d] \in SUBSET Rows
        BY Zenon, <1>0 DEF Tables
      <4>2. QED
        BY <2>1, <4>1, FirstQueuedSize, Zenon DEF Small
    <3>3. clean.active[d] = {} /\ Limited(clean)
      <4>1. clean \in DeleteActiveSteps(db, d) \cup {delete_all_active_requests_for(db, d)}
        BY Zenon
      <4>2. delete_all_active_requests_for(db, d).active[d] = {}
        BY <1>0, <4>1, DeleteActiveRows
      <4>3. QED
        BY Zenon, <2>3, <4>2
    <3> HIDE DEF clean, batch
    <3>4. ASSUME NEW x \in MarkSteps(clean, d, batch) \cup {mark_as_active(clean, d, batch)}
          PROVE  Limited(x)
      <4> SUFFICES ASSUME NEW e \in Dests PROVE Small(x.active[e])
        BY Zenon DEF Limited
      <4>1. /\ \A y \in Dests \ {d} : x.active[y] = clean.active[y]
            /\ x.active[d] \subseteq clean.active[d] \cup batch
        <5>1. ActiveGain(clean, d, batch, x)
          BY Zenon, <2>1, MarkActive
        <5>2. QED
          BY <5>1, Zenon DEF ActiveGain
      <4>2. CASE e = d
        BY <3>2, <3>3, <4>1, <4>2, SmallSubset, Zenon
      <4>3. CASE e # d
        BY Zenon, <3>3, <4>1, <4>3 DEF Limited
      <4>4. QED
        BY Zenon, <4>2, <4>3
    <3>5. QED
      BY Zenon, <2>3, <3>1, <3>4, CommitLimit
  <2>6. QED
    BY Zenon, <1>8, <2>4, <2>5
<1>9. CASE Restart \/ Crash
  BY Zenon, <1>9 DEF Restart, Crash, Commit, LimitInv, Limited
<1>10. CASE UNCHANGED vars \/ Interrupt
  BY Zenon, <1>1, <1>10 DEF vars, Interrupt
<1>11. CASE \E d \in Federation : FlushServers(d)
  BY Zenon, <1>1, <1>11 DEF FlushServers
<1>12. CASE \E s \in Shards :
              \/ HandleRequestBusy(s) \/ HandleRequestRetry(s)
              \/ LeaveLoop(s) \/ FinishEnd(s)
  BY <1>1, <1>12, Zenon DEF HandleRequestBusy, HandleRequestRetry, LeaveLoop, FinishEnd
<1>13. CASE \E d \in Dests : \E i \in DOMAIN futures[d] : HandleResponseErr(d, i) \/ FinishErr(d, i)
  BY <1>1, <1>13, Zenon DEF HandleResponseErr, FinishErr
<1>14. CASE \E d \in Dests : BackoffElapses(d)
  BY Zenon, <1>1, <1>14 DEF BackoffElapses
<1>15. Appservices \cup Pushers \subseteq Dests
  BY Zenon DEF Dests
<1>16. QED
  BY <1>2, <1>3, <1>4, <1>5, <1>6, <1>7, <1>8, <1>9, <1>10, <1>11, <1>12, <1>13, <1>14, <1>15,
     Zenon DEF Next, Respond, Finish

(* With the netburst, no destination ever has more than DEQUEUE_LIMIT      *)
(* active rows, in memory or on disk: a retry, and the burst after a       *)
(* crash, stay within the limit of a transaction.                          *)
THEOREM TransactionLimitCorrect == Netburst => (Spec => []TransactionLimit)
<1> SUFFICES ASSUME Netburst PROVE Spec => []TransactionLimit
  BY Zenon
<1>1. Init => TypeOK /\ FlightInv /\ LimitInv
  <2>1. Init => LimitInv
    BY SMTT(30), FS_EmptySet, SendingAssumption DEF Init, EmptyTables, LimitInv, Limited, Small
  <2>2. QED
    BY Zenon, <2>1, TypeInit, FlightInit
<1>2. TypeOK /\ FlightInv /\ LimitInv /\ [Next]_vars => (TypeOK /\ FlightInv /\ LimitInv)'
  BY Zenon, TypeNext, FlightNext, LimitNext
<1>3. LimitInv => TransactionLimit
  BY Zenon DEF LimitInv, Limited, Small, TransactionLimit
<1>4. QED
  BY <1>1, <1>2, <1>3, PTL DEF Spec
=============================================================================
