------------------------------ MODULE SlotProofs -------------------------------
(***************************************************************************)
(* That the rate limiter and the gauge account for the pulls the statuses  *)
(* record, for any number of PrePullImages, nodes, retries, edits, faults  *)
(* and restarts, and with late caches.                                     *)
(***************************************************************************)
EXTENDS CompletionProofs

(* A Job read as it is, and found ended, is not at work. *)
LEMMA EndSeenIsEnd ==
  ASSUME ~JobLag, TypeOK, checkJobStatus(jobName) \in {"Succeeded", "Failed"}
  PROVE  jobName \notin Unfinished
<1>1. jobs[jobName] = NoJob \/ GetJobStatus(jobs[jobName]) \in {"Succeeded", "Failed"}
  BY DEF checkJobStatus, seenJobs
<1> SUFFICES ASSUME jobName \in Unfinished
             PROVE  FALSE
  OBVIOUS
<1>2. jobs[jobName] \in Job /\ ~Finished(jobs[jobName]) /\ jobs[jobName] # NoJob
  BY DEF Unfinished, TypeOK, ClusterTypeOK
<1>3. jobs[jobName].failed \in Nat /\ jobs[jobName].succeeded \in Nat
  BY <1>2 DEF Job
<1>4. jobs[jobName].failed = 0 /\ jobs[jobName].succeeded = 0
  BY <1>2, <1>3 DEF Finished
<1>5. GetJobStatus(jobs[jobName]) \in {"Running", "Pending"}
  BY <1>4 DEF GetJobStatus
<1> QED
  BY <1>1, <1>2, <1>5

-----------------------------------------------------------------------------
(* The entries that account for a slot, one at a time. *)

SlotIn(ns, i, n) == i \in DOMAIN ns /\ ns[i].status = "Pulling" /\ ns[i].node = n

Slot(p, i, n) == i \in Held(p) /\ Entries(p)[i].node = n

LEMMA SlotAtRest ==
  ASSUME NEW p, NEW i, NEW n, ~Working(p)
  PROVE  Slot(p, i, n) <=> SlotIn(store[p].ns, i, n)
BY DEF Slot, SlotIn, Held, Entries, Having

LEMMA SlotAtWork ==
  ASSUME NEW p, NEW i, NEW n, Working(p)
  PROVE  Slot(p, i, n) <=> SlotIn(work.ns, i, n) /\ (work.del => i >= idx)
BY DEF Slot, SlotIn, Held, Entries, Having

LEMMA SlotAtRestNext ==
  ASSUME NEW p, NEW i, NEW n, ~Working(p)'
  PROVE  Slot(p, i, n)' <=> SlotIn(store'[p].ns, i, n)
BY DEF Slot, SlotIn, Held, Entries, Having

LEMMA SlotAtWorkNext ==
  ASSUME NEW p, NEW i, NEW n, Working(p)'
  PROVE  Slot(p, i, n)' <=> SlotIn(work'.ns, i, n) /\ (work'.del => i >= idx')
BY DEF Slot, SlotIn, Held, Entries, Having

LEMMA HeldMembers ==
  ASSUME NEW N, NEW x
  PROVE  x \in HeldOn(N) <=> \E p \in PPIs : \E n \in N : \E i : x = <<p, i>> /\ Slot(p, i, n)
BY DEF HeldOn, Slot

LEMMA HeldFinite ==
  ASSUME TypeOK, NEW N
  PROVE  IsFiniteSet(HeldOn(N)) /\ Cardinality(HeldOn(N)) \in Nat
<1> DEFINE Row(p) == {p} \X (1..Len(Entries(p)))
           Rows == {Row(p) : p \in PPIs}
           row == [p \in PPIs |-> Row(p)]
<1>1. ASSUME NEW p \in PPIs
      PROVE  Entries(p) \in Seq(NodeStatus) /\ IsFiniteSet(Row(p))
  <2>1. Entries(p) \in Seq(NodeStatus)
    BY ObjectFields DEF Entries, TypeOK, ClusterTypeOK, WorkTypeOK
  <2>2. Len(Entries(p)) \in Nat
    BY <2>1
  <2> HIDE DEF Row
  <2>3. IsFiniteSet(1..Len(Entries(p))) /\ IsFiniteSet({p})
    <3>1. \A k \in Nat : IsFiniteSet(1..k)
      BY FS_Interval
    <3>2. IsFiniteSet({p})
      BY FS_Singleton
    <3> QED
      BY <2>2, <3>1, <3>2
  <2>4. IsFiniteSet({p} \X (1..Len(Entries(p))))
    BY <2>3, FS_Product
  <2> QED
    BY <2>1, <2>4 DEF Row
<1>2. IsFiniteSet(Rows)
  <2>1. row \in Surjection(PPIs, Rows)
    BY DEF Surjection
  <2> QED
    BY <2>1, FS_Surjection, ConstantsOK
<1>3. IsFiniteSet(UNION Rows)
  BY <1>1, <1>2, FS_UNION
<1>4. HeldOn(N) \subseteq UNION Rows
  <2> SUFFICES ASSUME NEW p \in PPIs, NEW n \in N, NEW i, Slot(p, i, n)
               PROVE  <<p, i>> \in UNION Rows
    BY HeldMembers
  <2>1. i \in 1..Len(Entries(p))
    BY <1>1 DEF Slot, Held, Having
  <2>2. <<p, i>> \in Row(p)
    BY <2>1
  <2> QED
    BY <2>2
<1> QED
  BY <1>3, <1>4, FS_Subset, FS_CardinalityType

-----------------------------------------------------------------------------
(* What a step does to the slots. *)

SlotsStay == \A p \in PPIs : \A i, n : Slot(p, i, n)' <=> Slot(p, i, n)

SlotAdded(n) ==
  /\ \A i : ~Slot(cur, idx, i)
  /\ \A p \in PPIs : \A i, m :
       Slot(p, i, m)' <=> Slot(p, i, m) \/ (p = cur /\ i = idx /\ m = n)

SlotRemoved(n) ==
  /\ \A i : Slot(cur, idx, i) <=> i = n
  /\ \A p \in PPIs : \A i, m :
       Slot(p, i, m)' <=> Slot(p, i, m) /\ ~(p = cur /\ i = idx)

Accounted ==
  /\ currentPulls = Cardinality(HeldOn(Nodes))
  /\ \A n \in Nodes : nodeCurrentPulls[n] = Cardinality(HeldOn({n}))
  /\ activePulls = currentPulls

LEMMA StayCounts ==
  ASSUME SlotsStay, NEW N
  PROVE  HeldOn(N)' = HeldOn(N)
<1>1. \A x : x \in HeldOn(N)' <=> \E p \in PPIs : \E n \in N : \E i : x = <<p, i>> /\ Slot(p, i, n)'
  BY DEF HeldOn, Slot
<1> QED
  BY <1>1, HeldMembers DEF SlotsStay

LEMMA TakenCounts ==
  ASSUME TypeOK, cur \in PPIs, NEW m, SlotAdded(m), NEW N
  PROVE  /\ m \in N => Cardinality(HeldOn(N)') = Cardinality(HeldOn(N)) + 1
         /\ m \notin N => HeldOn(N)' = HeldOn(N)
<1>1. \A x : x \in HeldOn(N)' <=> \E p \in PPIs : \E n \in N : \E i : x = <<p, i>> /\ Slot(p, i, n)'
  BY DEF HeldOn, Slot
<1>2. <<cur, idx>> \notin HeldOn(N)
  BY HeldMembers DEF SlotAdded
<1>3. ASSUME m \in N
      PROVE  HeldOn(N)' = HeldOn(N) \cup {<<cur, idx>>}
  <2>1. ASSUME NEW x
        PROVE  x \in HeldOn(N)' <=> (x \in HeldOn(N) \/ x = <<cur, idx>>)
    BY <1>1, <1>3, HeldMembers DEF SlotAdded
  <2> QED
    BY <2>1
<1>4. ASSUME m \notin N
      PROVE  HeldOn(N)' = HeldOn(N)
  <2>1. ASSUME NEW x
        PROVE  x \in HeldOn(N)' <=> x \in HeldOn(N)
    BY <1>1, <1>4, HeldMembers DEF SlotAdded
  <2> QED
    BY <2>1
<1>5. IsFiniteSet(HeldOn(N))
  BY HeldFinite
<1>6. Cardinality(HeldOn(N) \cup {<<cur, idx>>}) = Cardinality(HeldOn(N)) + 1
  BY <1>2, <1>5, FS_AddElement
<1> QED
  BY <1>3, <1>4, <1>6

LEMMA GivenCounts ==
  ASSUME TypeOK, cur \in PPIs, NEW m, SlotRemoved(m), NEW N
  PROVE  /\ m \in N => /\ Cardinality(HeldOn(N)') = Cardinality(HeldOn(N)) - 1
                       /\ Cardinality(HeldOn(N)) > 0
         /\ m \notin N => HeldOn(N)' = HeldOn(N)
<1>1. \A x : x \in HeldOn(N)' <=> \E p \in PPIs : \E n \in N : \E i : x = <<p, i>> /\ Slot(p, i, n)'
  BY DEF HeldOn, Slot
<1>2. <<cur, idx>> \in HeldOn(N) <=> m \in N
  BY HeldMembers DEF SlotRemoved
<1>3. HeldOn(N)' = HeldOn(N) \ {<<cur, idx>>}
  BY <1>1, HeldMembers DEF SlotRemoved
<1>4. IsFiniteSet(HeldOn(N)) /\ Cardinality(HeldOn(N)) \in Nat
  BY HeldFinite
<1>5. m \in N => Cardinality(HeldOn(N)) # 0
  BY <1>2, <1>4, FS_EmptySet
<1>6. Cardinality(HeldOn(N) \ {<<cur, idx>>}) =
        IF <<cur, idx>> \in HeldOn(N) THEN Cardinality(HeldOn(N)) - 1 ELSE Cardinality(HeldOn(N))
  BY <1>4, FS_RemoveElement
<1>7. m \notin N => HeldOn(N)' = HeldOn(N)
  BY <1>2, <1>3
<1>8. m \in N => Cardinality(HeldOn(N)') = Cardinality(HeldOn(N)) - 1
  BY <1>2, <1>3, <1>6
<1> QED
  BY <1>4, <1>5, <1>7, <1>8


-----------------------------------------------------------------------------
(* The inductive invariant: that of LifecycleProofs, the slots of a reconcile
   that has not touched one, and the count itself. *)

HoldsWhatItRead ==
  pc # "idle" /\ ~Stale /\ ~touched =>
    /\ Held(cur) = Having(store[cur].ns, "Pulling")
    /\ \A i \in Held(cur) : work.ns[i].node = store[cur].ns[i].node

SlotInv == SoundInv /\ HoldsWhatItRead /\ SlotsMatchPulling

Reliable == ~lost /\ ~(touched /\ Stale)

LEMMA CurrentWorks ==
  ASSUME TypeOK, pc # "idle"
  PROVE  /\ cur \in PPIs
         /\ \A p \in PPIs : Working(p) <=> (p = cur /\ ~Stale)
BY DEF TypeOK, WorkTypeOK, Working

LEMMA NobodyWorks ==
  ASSUME TypeOK, pc = "idle", NEW p \in PPIs
  PROVE  ~Working(p) /\ cur # p
BY ConstantsOK DEF TypeOK, WorkTypeOK, Working

LEMMA SlotsRead ==
  ASSUME TypeOK, HoldsWhatItRead, pc # "idle", ~touched, NEW i, NEW n
  PROVE  Slot(cur, i, n) <=> SlotIn(store[cur].ns, i, n)
<1>1. CASE Stale
  BY <1>1, SlotAtRest, CurrentWorks
<1>2. CASE ~Stale
  <2>1. Entries(cur) = work.ns
    BY <1>2, CurrentWorks DEF Entries
  <2> QED
    BY <1>2, <2>1 DEF HoldsWhatItRead, Slot, SlotIn, Having
<1> QED
  BY <1>1, <1>2

LEMMA ReadSlotsNext ==
  ASSUME TypeOK', \A i, n : Slot(cur, i, n)' <=> SlotIn(store'[cur'].ns, i, n)
  PROVE  HoldsWhatItRead'
<1> SUFFICES ASSUME pc' # "idle", ~Stale'
             PROVE  /\ Held(cur)' = Having(store'[cur'].ns, "Pulling")
                    /\ \A i \in Held(cur)' : work'.ns[i].node = store'[cur'].ns[i].node
  BY DEF HoldsWhatItRead, Having
<1>1. Entries(cur)' = work'.ns
  BY DEF Entries, Working
<1>2. \A i : i \in Held(cur)' => i \in Having(store'[cur'].ns, "Pulling")
                                /\ work'.ns[i].node = store'[cur'].ns[i].node
  BY <1>1 DEF Slot, SlotIn, Having
<1>3. \A i : i \in Having(store'[cur'].ns, "Pulling") => i \in Held(cur)'
  BY DEF SlotIn, Having, Slot
<1> QED
  BY <1>2, <1>3

NodesStay == \A p \in PPIs : store'[p].ns = store[p].ns

LEMMA StepCases ==
  ASSUME TypeOK, [Next]_vars
  PROVE  \/ Aside /\ UNCHANGED <<limitVars, lost>>
         \/ (\E p \in PPIs : Started(p)) \/ NodeAction \/ InBetween
         \/ UpdateWritten \/ UpdateRejected \/ UpdateFails \/ TTLDelete \/ Restart
<1>1. ASSUME NEW p \in PPIs, Reconcile(p)
      PROVE  (Aside /\ UNCHANGED <<limitVars, lost>>) \/ Started(p)
  BY <1>1 DEF Reconcile, ReconcileGone, ReconcileReadFails, handleCompleted, Aside, Started,
     envVars
<1>2. CASE Environment
  BY <1>2 DEF Environment, Create, Delete, Edit, TTLElapses, SyncPPI, TimerFires, SyncJob,
     JobMoves, JobExpires, Aside, envVars
<1>3. CASE Quiet \/ UNCHANGED vars
  BY <1>3 DEF Quiet, vars, Aside, envVars
<1> QED
  BY <1>1, <1>2, <1>3 DEF Next, WorkStep, NodeAction, InBetween

(* Steps that leave the reconcile alone. *)
LEMMA AsideSlots ==
  ASSUME TypeOK, SoundInv, HoldsWhatItRead, [Next]_vars, Aside, UNCHANGED lost
  PROVE  /\ HoldsWhatItRead'
         /\ Reliable' => Reliable /\ SlotsStay
<1>1. pc' = pc /\ cur' = cur /\ work' = work /\ idx' = idx /\ touched' = touched
  BY DEF Aside, workVars
<1>2. TypeOK'
  BY NextType
<1>3. NodesStay
  <2>1. \A p \in PPIs : ~Wrote(p) \/ UNCHANGED store
    <3>1. ~Ended \/ pc = "idle"
      BY <1>1 DEF Ended
    <3> QED
      BY <3>1 DEF Wrote
  <2> QED
    BY <2>1, StoreStep, ChangedKeepsNodes DEF SoundInv, OnlyAt, NodesStay
<1>4. CASE pc = "idle"
  <2>1. HoldsWhatItRead'
    BY <1>1, <1>4 DEF HoldsWhatItRead
  <2>2. ~touched
    BY <1>4 DEF SoundInv, WorkShape
  <2>3. ASSUME NEW p \in PPIs, NEW i, NEW n
        PROVE  Slot(p, i, n)' <=> Slot(p, i, n)
    <3>1. ~Working(p) /\ ~Working(p)'
      <4>1. cur # p
        BY <1>4, NobodyWorks
      <4> QED
        BY <1>1, <4>1 DEF Working
    <3>2. Slot(p, i, n) <=> SlotIn(store[p].ns, i, n)
      BY <3>1, SlotAtRest
    <3>3. Slot(p, i, n)' <=> SlotIn(store'[p].ns, i, n)
      BY <3>1, SlotAtRestNext
    <3> QED
      BY <1>3, <3>2, <3>3 DEF NodesStay
  <2> QED
    BY <2>1, <2>2, <2>3 DEF Reliable, SlotsStay
<1>5. CASE pc # "idle"
  <2>1. cur \in PPIs
    BY <1>5, CurrentWorks
  <2>2. ASSUME NEW p \in PPIs, p # cur, NEW i, NEW n
        PROVE  Slot(p, i, n)' <=> Slot(p, i, n)
    <3>1. ~Working(p) /\ ~Working(p)'
      BY <1>1, <2>2 DEF Working
    <3>2. Slot(p, i, n) <=> SlotIn(store[p].ns, i, n)
      BY <3>1, SlotAtRest
    <3>3. Slot(p, i, n)' <=> SlotIn(store'[p].ns, i, n)
      BY <3>1, SlotAtRestNext
    <3> QED
      BY <1>3, <3>2, <3>3 DEF NodesStay
  <2>3. CASE ~Stale'
    <3>1. ~Stale /\ store'[cur] = store[cur]
      BY <1>5, <2>3, StillCurrent DEF SoundInv
    <3>2. Held(cur)' = Held(cur) /\ Entries(cur)' = Entries(cur)
      BY <1>1, <2>3, <3>1 DEF Held, Entries, Working
    <3>3. HoldsWhatItRead'
      BY <1>1, <3>1, <3>2 DEF HoldsWhatItRead, Held, Entries, Working
    <3>4. ASSUME NEW p \in PPIs, p = cur, NEW i, NEW n
          PROVE  Slot(p, i, n)' <=> Slot(p, i, n)
      BY <1>1, <3>2, <3>4 DEF Slot
    <3> QED
      BY <1>1, <2>2, <3>1, <3>3, <3>4 DEF Reliable, SlotsStay
  <2>4. CASE Stale'
    <3>1. HoldsWhatItRead'
      BY <2>4 DEF HoldsWhatItRead
    <3>2. ASSUME Reliable'
          PROVE  Reliable /\ SlotsStay
      <4>1. ~touched /\ ~lost
        BY <1>1, <2>4, <3>2 DEF Reliable
      <4>2. ASSUME NEW p \in PPIs, p = cur, NEW i, NEW n
            PROVE  Slot(p, i, n)' <=> Slot(p, i, n)
        <5>1. Slot(p, i, n) <=> SlotIn(store[p].ns, i, n)
          BY <1>5, <4>1, <4>2, SlotsRead
        <5>2. ~Working(p)'
          BY <2>4 DEF Working
        <5>3. Slot(p, i, n)' <=> SlotIn(store'[p].ns, i, n)
          BY <5>2, SlotAtRestNext
        <5> QED
          BY <1>3, <5>1, <5>3 DEF NodesStay
      <4> QED
        BY <2>2, <4>1, <4>2 DEF Reliable, SlotsStay
    <3> QED
      BY <3>1, <3>2
  <2> QED
    BY <2>3, <2>4
<1> QED
  BY <1>4, <1>5

(* A reconcile begins: it has read the object as it is, or it is stale. *)
LEMMA StartedSlots ==
  ASSUME TypeOK, SoundInv, HoldsWhatItRead, [Next]_vars, NEW p \in PPIs, Started(p)
  PROVE  /\ HoldsWhatItRead'
         /\ Reliable' => Reliable /\ SlotsStay
<1>1. /\ pc = "idle" /\ pc' # "idle" /\ cur' = p /\ idx' = 1
      /\ UNCHANGED <<store, touched, lost>>
      /\ work'.rv = cache[p].rv
  BY StartedFrom
<1>2. TypeOK' /\ ~touched
  BY <1>1, NextType DEF SoundInv, WorkShape
<1>3. ASSUME NEW i, NEW n
      PROVE  Slot(p, i, n)' <=> SlotIn(store[p].ns, i, n)
  <2>1. CASE ~Working(p)'
    BY <1>1, <2>1, SlotAtRestNext
  <2>2. CASE Working(p)'
    <3>1. cache[p] = store[p] /\ Sound(p, store[p]) /\ store[p] \in Object
      BY <1>1, <2>2 DEF Working, Stale, SoundInv, CacheVersions, StoreSound, TypeOK, ClusterTypeOK
    <3>2. Slot(p, i, n)' <=> SlotIn(work'.ns, i, n) /\ (work'.del => i >= 1)
      BY <1>1, <2>2, SlotAtWorkNext
    <3>3. work' \in Object /\ work'.ns \in Seq(NodeStatus)
      BY <1>2, ObjectFields DEF TypeOK, WorkTypeOK
    <3>4. SlotIn(work'.ns, i, n) => i >= 1
      BY <3>3 DEF SlotIn
    <3>5. SlotIn(work'.ns, i, n) <=> SlotIn(store[p].ns, i, n)
      <4>1. CASE work' = [store[p] EXCEPT !.fin = TRUE] \/ work' = store[p]
        <5>1. [store[p] EXCEPT !.fin = TRUE].ns = store[p].ns
          BY <3>1, FinalizerFields
        <5> QED
          BY <4>1, <5>1
      <4>2. CASE /\ store[p].phase = "Pending"
                 /\ \E targets \in Seq(Nodes) : work' = Initialized(store[p], targets)
        <5>1. PICK targets \in Seq(Nodes) : work' = Initialized(store[p], targets)
          BY <4>2
        <5>2. store[p].ns = <<>>
          BY <3>1, <4>2 DEF Sound
        <5>3. ~SlotIn(store[p].ns, i, n)
          BY <5>2 DEF SlotIn
        <5>4. CASE targets = <<>>
          BY <3>1, <5>1, <5>4, NothingToDoFields
        <5>5. CASE targets # <<>>
          <6>1. work'.ns = Entries0(targets)
            BY <3>1, <5>1, <5>5, InitializedFields
          <6> QED
            BY <5>3, <6>1 DEF SlotIn, Entries0
        <5> QED
          BY <5>4, <5>5
      <4> QED
        BY <1>1, <3>1, <4>1, <4>2, StartedFrom
    <3> QED
      BY <3>2, <3>4, <3>5
  <2> QED
    BY <2>1, <2>2
<1>4. HoldsWhatItRead'
  <2>1. \A i, n : Slot(cur, i, n)' <=> SlotIn(store'[cur'].ns, i, n)
    BY <1>1, <1>3
  <2> QED
    BY <1>2, <2>1, ReadSlotsNext
<1>5. ASSUME NEW q \in PPIs, NEW i, NEW n
      PROVE  Slot(q, i, n)' <=> Slot(q, i, n)
  <2>1. Slot(q, i, n) <=> SlotIn(store[q].ns, i, n)
    BY <1>1, NobodyWorks, SlotAtRest
  <2>2. CASE q = p
    BY <1>3, <2>1, <2>2
  <2>3. CASE q # p
    BY <1>1, <2>1, <2>3, SlotAtRestNext DEF Working
  <2> QED
    BY <2>2, <2>3
<1> QED
  BY <1>1, <1>2, <1>4, <1>5 DEF Reliable, SlotsStay

(* A step of a reconcile that keeps the statuses and the place in the list. *)
LEMMA SameWorkSlots ==
  ASSUME TypeOK, HoldsWhatItRead, pc # "idle", pc' # "idle",
         UNCHANGED <<cur, store, touched, lost>>, Stale' = Stale,
         \A i, n : SlotIn(work'.ns, i, n) /\ (work'.del => i >= idx')
                     <=> SlotIn(work.ns, i, n) /\ (work.del => i >= idx)
  PROVE  /\ TypeOK' => HoldsWhatItRead'
         /\ Reliable' => Reliable
         /\ SlotsStay
<1>1. ASSUME NEW p \in PPIs, NEW i, NEW n
      PROVE  Slot(p, i, n)' <=> Slot(p, i, n)
  <2>1. CASE Working(p)
    <3>1. Working(p)'
      BY <2>1 DEF Working
    <3> QED
      BY <2>1, <3>1, SlotAtWork, SlotAtWorkNext
  <2>2. CASE ~Working(p)
    <3>1. ~Working(p)'
      BY <2>2 DEF Working
    <3> QED
      BY <2>2, <3>1, SlotAtRest, SlotAtRestNext
  <2> QED
    BY <2>1, <2>2
<1>2. ASSUME TypeOK', ~touched
      PROVE  HoldsWhatItRead'
  <2>1. cur \in PPIs
    BY CurrentWorks
  <2>2. \A i, n : Slot(cur, i, n)' <=> SlotIn(store'[cur'].ns, i, n)
    BY <1>1, <1>2, <2>1, SlotsRead
  <2> QED
    BY <1>2, <2>2, ReadSlotsNext
<1>3. touched => HoldsWhatItRead'
  BY DEF HoldsWhatItRead
<1> QED
  BY <1>1, <1>2, <1>3 DEF Reliable, SlotsStay

(* The loop of handleInProgress takes the slot of the node it starts, gives
   back that of a node whose pull has ended, and no other. *)
LEMMA NodeSlots ==
  ASSUME TypeOK, SoundInv, HoldsWhatItRead, [Next]_vars, NodeAction
  PROVE  /\ HoldsWhatItRead'
         /\ Reliable' => /\ Reliable
                         /\ \/ SlotsStay /\ UNCHANGED limitVars
                            \/ /\ SlotAdded(entry.node) /\ Limiter!TryAcquire(entry.node)
                               /\ IncrementActivePulls
                            \/ /\ SlotRemoved(entry.node) /\ ReleaseSlot
                               /\ checkJobStatus(jobName) \in {"Succeeded", "Failed"}
<1>1. PICK status, retry, counter, again :
        NextNode(status, retry, counter, again) /\ EntryMove(status, retry)
  BY NodeMoves
<1>2. /\ pc = "nodes" /\ pc' = "nodes" /\ idx <= Len(work.ns) /\ idx' = idx + 1
      /\ UNCHANGED <<cur, store, lost>>
  BY NodeMoves
<1>3. /\ idx \in DOMAIN work.ns /\ DOMAIN work'.ns = DOMAIN work.ns
      /\ \A k \in DOMAIN work.ns \ {idx} : work'.ns[k] = work.ns[k]
      /\ work'.ns[idx] = [node |-> entry.node, status |-> status, retry |-> retry]
      /\ work'.rv = work.rv /\ work'.del = work.del
  BY <1>1, <1>2, EntryRewritten, Zenon
<1>4. ~work.del /\ TypeOK' /\ entry = work.ns[idx] /\ Stale' = Stale
  BY <1>2, <1>3, NextType DEF SoundInv, WorkShape, entry, Stale
<1>5. \A i, n : i # idx => (SlotIn(work'.ns, i, n) <=> SlotIn(work.ns, i, n))
  BY <1>3 DEF SlotIn
<1>6. \A n : SlotIn(work.ns, idx, n) <=> (entry.status = "Pulling" /\ n = entry.node)
  BY <1>3, <1>4 DEF SlotIn
<1>7. \A n : SlotIn(work'.ns, idx, n) <=> (status = "Pulling" /\ n = entry.node)
  BY <1>3 DEF SlotIn
<1>8. CASE EntryKept(status, retry)
  <2>1. UNCHANGED <<touched, limitVars>> /\ status = entry.status
    BY <1>8 DEF EntryKept
  <2>2. \A i, n : SlotIn(work'.ns, i, n) <=> SlotIn(work.ns, i, n)
    BY <1>5, <1>6, <1>7, <2>1
  <2> QED
    BY <1>2, <1>3, <1>4, <2>1, <2>2, SameWorkSlots
<1>9. CASE EntryStarted(status, retry) \/ EntryEnded(status, retry)
  <2>1. touched'
    BY <1>9 DEF EntryStarted, EntryEnded, ReleaseSlot
  <2> SUFFICES ASSUME Reliable'
               PROVE  /\ Reliable
                      /\ \/ /\ SlotAdded(entry.node) /\ Limiter!TryAcquire(entry.node)
                            /\ IncrementActivePulls
                         \/ /\ SlotRemoved(entry.node) /\ ReleaseSlot
                            /\ checkJobStatus(jobName) \in {"Succeeded", "Failed"}
    BY <2>1 DEF HoldsWhatItRead
  <2>2. ~Stale /\ Reliable
    BY <1>2, <1>4, <2>1 DEF Reliable
  <2>3. cur \in PPIs
    BY <1>2, CurrentWorks
  <2>4. ASSUME NEW p \in PPIs, p # cur, NEW i, NEW n
        PROVE  Slot(p, i, n)' <=> Slot(p, i, n)
    BY <1>2, <2>4, SlotAtRest, SlotAtRestNext DEF Working
  <2>5. ASSUME NEW p \in PPIs, p = cur, NEW i, NEW n
        PROVE  /\ Slot(p, i, n) <=> SlotIn(work.ns, i, n)
               /\ Slot(p, i, n)' <=> SlotIn(work'.ns, i, n)
    <3>1. Working(p) /\ Working(p)'
      BY <1>2, <1>4, <2>2, <2>5 DEF Working
    <3> QED
      BY <1>3, <1>4, <3>1, SlotAtWork, SlotAtWorkNext
  <2>6. \A n : Slot(cur, idx, n) <=> (entry.status = "Pulling" /\ n = entry.node)
    BY <1>6, <2>3, <2>5
  <2>7. ASSUME NEW p \in PPIs, NEW i, NEW n, ~(p = cur /\ i = idx)
        PROVE  Slot(p, i, n)' <=> Slot(p, i, n)
    BY <1>5, <2>4, <2>5, <2>7
  <2>8. ASSUME NEW p \in PPIs, p = cur, NEW i, i = idx, NEW n
        PROVE  Slot(p, i, n)' <=> (status = "Pulling" /\ n = entry.node)
    BY <1>7, <2>5, <2>8
  <2>9. CASE EntryStarted(status, retry)
    <3>1. entry.status = "Pending" /\ status = "Pulling"
      BY <2>9 DEF EntryStarted
    <3>2. SlotAdded(entry.node)
      BY <2>6, <2>7, <2>8, <3>1 DEF SlotAdded
    <3> QED
      BY <2>2, <2>9, <3>2 DEF EntryStarted
  <2>10. CASE EntryEnded(status, retry)
    <3>1. entry.status = "Pulling" /\ status # "Pulling"
      BY <2>10 DEF EntryEnded
    <3>2. SlotRemoved(entry.node)
      BY <2>6, <2>7, <2>8, <3>1 DEF SlotRemoved
    <3> QED
      BY <2>2, <2>10, <3>2 DEF EntryEnded
  <2> QED
    BY <1>9, <2>9, <2>10
<1> QED
  BY <1>1, <1>8, <1>9 DEF EntryMove

(* handleDeletion gives back the slots of the entries that are Pulling, from
   the first to the last. *)
LEMMA BetweenSlots ==
  ASSUME TypeOK, SoundInv, HoldsWhatItRead, [Next]_vars, InBetween
  PROVE  /\ HoldsWhatItRead'
         /\ Reliable' => /\ Reliable
                         /\ \/ SlotsStay /\ UNCHANGED limitVars
                            \/ SlotRemoved(entry.node) /\ ReleaseSlot /\ ReleaseNode
<1>1. /\ pc # "idle" /\ pc' # "idle" /\ UNCHANGED <<cur, store, lost>>
      /\ work'.rv = work.rv /\ work'.del = work.del /\ work'.ns = work.ns
  BY InBetweenKeeps
<1>2. Stale' = Stale /\ TypeOK' /\ cur \in PPIs
  BY <1>1, NextType, CurrentWorks DEF Stale
<1>3. CASE UNCHANGED <<idx, touched, limitVars>>
  BY <1>1, <1>2, <1>3, SameWorkSlots
<1>4. CASE ReleaseNode
  <2>1. /\ idx <= Len(work.ns) /\ idx' = idx + 1 /\ work' = work /\ work.del
        /\ idx \in Nat /\ work.ns \in Seq(NodeStatus)
    BY <1>4, ObjectFields DEF ReleaseNode, SoundInv, WorkShape, TypeOK, WorkTypeOK
  <2>2. \A i \in DOMAIN work.ns : i \in Nat /\ (i >= idx + 1 <=> i >= idx /\ i # idx)
    BY <2>1
  <2>3. \A i, n : SlotIn(work.ns, i, n) => i \in DOMAIN work.ns
    BY DEF SlotIn
  <2>4. \A i, n : SlotIn(work'.ns, i, n) /\ (work'.del => i >= idx')
                    <=> SlotIn(work.ns, i, n) /\ i >= idx /\ i # idx
    BY <2>1, <2>2, <2>3
  <2>5. CASE entry.status # "Pulling"
    <3>1. \A n : ~SlotIn(work.ns, idx, n)
      BY <2>5 DEF SlotIn, entry
    <3>2. \A i, n : SlotIn(work'.ns, i, n) /\ (work'.del => i >= idx')
                      <=> SlotIn(work.ns, i, n) /\ (work.del => i >= idx)
      BY <2>1, <2>4, <3>1
    <3>3. UNCHANGED <<touched, limitVars>>
      BY <1>4, <2>5 DEF ReleaseNode
    <3> QED
      BY <1>1, <1>2, <3>2, <3>3, SameWorkSlots
  <2>6. CASE entry.status = "Pulling"
    <3>1. ReleaseSlot /\ touched'
      BY <1>4, <2>6 DEF ReleaseNode, ReleaseSlot
    <3> SUFFICES ASSUME Reliable'
                 PROVE  Reliable /\ SlotRemoved(entry.node)
      BY <1>4, <3>1 DEF HoldsWhatItRead
    <3>2. ~Stale /\ Reliable
      BY <1>1, <1>2, <3>1 DEF Reliable
    <3>3. ASSUME NEW p \in PPIs, p # cur, NEW i, NEW n
          PROVE  Slot(p, i, n)' <=> Slot(p, i, n)
      BY <1>1, <3>3, SlotAtRest, SlotAtRestNext DEF Working
    <3>4. ASSUME NEW p \in PPIs, p = cur, NEW i, NEW n
          PROVE  /\ Slot(p, i, n) <=> SlotIn(work.ns, i, n) /\ i >= idx
                 /\ Slot(p, i, n)' <=> SlotIn(work.ns, i, n) /\ i >= idx /\ i # idx
      <4>1. Working(p) /\ Working(p)'
        BY <1>1, <1>2, <3>2, <3>4 DEF Working
      <4>2. Slot(p, i, n)' <=> SlotIn(work'.ns, i, n) /\ (work'.del => i >= idx')
        BY <4>1, SlotAtWorkNext
      <4> QED
        BY <2>1, <2>4, <4>1, <4>2, SlotAtWork
    <3>5. \A n : SlotIn(work.ns, idx, n) <=> n = entry.node
      <4>1. idx \in 1..Len(work.ns)
        BY <1>1, <2>1, EntryType
      <4>2. idx \in DOMAIN work.ns
        BY <2>1, <4>1
      <4> QED
        BY <2>6, <4>2 DEF SlotIn, entry
    <3>6. \A n : Slot(cur, idx, n) <=> n = entry.node
      BY <1>2, <2>1, <3>4, <3>5
    <3>7. SlotRemoved(entry.node)
      BY <3>3, <3>4, <3>6 DEF SlotRemoved
    <3> QED
      BY <3>2, <3>7
  <2> QED
    BY <2>5, <2>6
<1>5. FinishNodes \/ ListJobs \/ CleanupJob \/ CleanupEnds => UNCHANGED <<idx, touched, limitVars>>
  BY DEF FinishNodes, ListJobs, CleanupJob, CleanupEnds, Finalize
<1> QED
  BY <1>3, <1>4, <1>5 DEF InBetween

(* A reconcile returns: what it has stored, or has not touched, is what counts
   from then on. *)
LEMMA AbandonedSlots ==
  ASSUME TypeOK, HoldsWhatItRead, pc # "idle", ~touched, pc' = "idle", cur' = NoPPI, NodesStay
  PROVE  SlotsStay
<1> SUFFICES ASSUME NEW p \in PPIs, NEW i, NEW n
             PROVE  Slot(p, i, n)' <=> Slot(p, i, n)
  BY DEF SlotsStay
<1>1. Slot(p, i, n)' <=> SlotIn(store'[p].ns, i, n)
  <2>1. ~Working(p)'
    BY ConstantsOK DEF Working
  <2> QED
    BY <2>1, SlotAtRestNext
<1>2. Slot(p, i, n) <=> SlotIn(store[p].ns, i, n)
  <2>1. CASE p = cur
    BY <2>1, SlotsRead
  <2>2. CASE p # cur
    BY <2>2, SlotAtRest DEF Working
  <2> QED
    BY <2>1, <2>2
<1> QED
  BY <1>1, <1>2 DEF NodesStay

LEMMA PersistedSlots ==
  ASSUME TypeOK, SoundInv, pc = "update", CanWrite, Persist(cur, work),
         pc' = "idle", cur' = NoPPI
  PROVE  SlotsStay
<1> SUFFICES ASSUME NEW p \in PPIs, NEW i, NEW n
             PROVE  Slot(p, i, n)' <=> Slot(p, i, n)
  BY DEF SlotsStay
<1>1. cur \in PPIs /\ ~Stale /\ store \in [PPIs -> Object] /\ work \in Object
  BY CurrentWorks DEF CanWrite, Stale, TypeOK, ClusterTypeOK, WorkTypeOK
<1>2. Slot(p, i, n)' <=> SlotIn(store'[p].ns, i, n)
  <2>1. ~Working(p)'
    BY ConstantsOK DEF Working
  <2> QED
    BY <2>1, SlotAtRestNext
<1>3. CASE p # cur
  <2>1. store'[p] = store[p]
    BY <1>1, <1>3 DEF Persist
  <2> QED
    BY <1>2, <1>3, <2>1, SlotAtRest DEF Working
<1>4. CASE p = cur
  <2>1. Slot(p, i, n) <=> SlotIn(work.ns, i, n) /\ (work.del => i >= idx)
    BY <1>1, <1>4, SlotAtWork DEF Working
  <2>2. CASE work.del
    <3>1. ~work.fin /\ idx > Len(work.ns) /\ idx \in Nat /\ work.ns \in Seq(NodeStatus)
      BY <1>1, <2>2, ObjectFields DEF SoundInv, WorkShape, TypeOK, WorkTypeOK
    <3>2. store'[p].ns = <<>>
      <4>1. store'[p] = Absent(store[p].uid, store[p].rv + 1)
        BY <1>1, <1>4, <2>2, <3>1 DEF Persist
      <4> QED
        BY <4>1, NewFields
    <3>3. ~SlotIn(store'[p].ns, i, n)
      BY <3>2 DEF SlotIn
    <3>4. SlotIn(work.ns, i, n) => i \in DOMAIN work.ns
      BY DEF SlotIn
    <3>5. ~(SlotIn(work.ns, i, n) /\ i >= idx)
      BY <3>1, <3>4
    <3> QED
      BY <1>2, <2>1, <2>2, <3>3, <3>5
  <2>3. CASE ~work.del
    <3>1. (store'[p] = store[p] /\ work = store[p]) \/ store'[p] = Bumped(work)
      BY <1>1, <1>4, <2>3 DEF Persist
    <3>2. store'[p].ns = work.ns
      BY <1>1, <3>1, BumpedFields
    <3> QED
      BY <1>2, <2>1, <2>3, <3>2
  <2> QED
    BY <2>2, <2>3
<1> QED
  BY <1>3, <1>4

LEMMA EndedSlots ==
  ASSUME TypeOK, SoundInv, HoldsWhatItRead, [Next]_vars,
         UpdateWritten \/ UpdateRejected \/ UpdateFails \/ TTLDelete
  PROVE  /\ HoldsWhatItRead'
         /\ Reliable' => Reliable /\ SlotsStay
<1>1. pc # "idle" /\ pc' = "idle" /\ cur' = NoPPI /\ (lost => lost')
  <2>1. pc # "idle" /\ pc' = "idle" /\ cur' = NoPPI
    BY DEF UpdateWritten, UpdateRejected, UpdateFails, TTLDelete, Return
  <2>2. lost => lost'
    BY Zenon DEF UpdateWritten, UpdateRejected, UpdateFails, TTLDelete, envVars
  <2> QED
    BY <2>1, <2>2
<1>2. HoldsWhatItRead'
  BY <1>1 DEF HoldsWhatItRead
<1> SUFFICES ASSUME ~lost'
             PROVE  Reliable /\ SlotsStay
  BY <1>2 DEF Reliable
<1>3. CASE pc = "update" /\ CanWrite /\ Persist(cur, work)
  <2>1. ~Stale
    BY <1>3 DEF CanWrite, Stale
  <2> QED
    BY <1>1, <1>3, <2>1, PersistedSlots DEF Reliable
<1>4. CASE ~touched /\ NodesStay
  BY <1>1, <1>4, AbandonedSlots DEF Reliable
<1>5. CASE UpdateRejected \/ (UpdateFails /\ UNCHANGED store /\ lost' = (lost \/ touched))
  <2>1. ~touched /\ NodesStay
    BY <1>5 DEF UpdateRejected, clusterVars, NodesStay
  <2> QED
    BY <1>4, <2>1
<1>6. CASE TTLDelete
  <2>1. ~touched /\ cur \in PPIs
    BY <1>1, <1>6, CurrentWorks DEF TTLDelete, SoundInv, WorkShape
  <2>2. NodesStay
    <3>1. CASE UNCHANGED store
      BY <3>1 DEF NodesStay
    <3>2. CASE DeleteObject(cur)
      BY <2>1, <3>2, DeleteStep, ChangedKeepsNodes DEF SoundInv, OnlyAt, NodesStay
    <3> QED
      BY <1>6, <3>1, <3>2 DEF TTLDelete
  <2> QED
    BY <1>4, <2>1, <2>2
<1> QED
  BY <1>3, <1>5, <1>6 DEF UpdateWritten, UpdateFails

-----------------------------------------------------------------------------
(* The count. *)

LEMMA TakenAccounted ==
  ASSUME TypeOK, Accounted, cur \in PPIs, entry.node \in Nodes, SlotAdded(entry.node),
         Limiter!TryAcquire(entry.node), IncrementActivePulls
  PROVE  Accounted'
<1> DEFINE m == entry.node
<1>1. /\ currentPulls' = currentPulls + 1 /\ activePulls' = activePulls + 1
      /\ \A n \in Nodes : nodeCurrentPulls'[n] = IF n = m THEN nodeCurrentPulls[n] + 1
                                                          ELSE nodeCurrentPulls[n]
  BY DEF IncrementActivePulls, Limiter!TryAcquire, TypeOK, ManagerTypeOK, Limiter!TypeOK
<1> HIDE DEF m
<1>2. SlotAdded(m) /\ m \in Nodes
  BY DEF m
<1>3. Cardinality(HeldOn(Nodes)') = Cardinality(HeldOn(Nodes)) + 1
  BY <1>2, TakenCounts
<1>4. ASSUME NEW n \in Nodes
      PROVE  Cardinality(HeldOn({n})') = IF n = m THEN Cardinality(HeldOn({n})) + 1
                                                  ELSE Cardinality(HeldOn({n}))
  <2>1. m \in {n} <=> n = m
    OBVIOUS
  <2> QED
    BY <1>2, <2>1, TakenCounts
<1> QED
  BY <1>1, <1>3, <1>4 DEF Accounted

LEMMA GivenAccounted ==
  ASSUME TypeOK, Accounted, cur \in PPIs, entry.node \in Nodes, SlotRemoved(entry.node),
         ReleaseSlot
  PROVE  Accounted'
<1> DEFINE m == entry.node
<1>1. /\ currentPulls' = (IF currentPulls > 0 THEN currentPulls - 1 ELSE currentPulls)
      /\ activePulls' = (IF activePulls > -GaugeBound THEN activePulls - 1 ELSE activePulls)
      /\ \A n \in Nodes : nodeCurrentPulls'[n] =
           IF n = m /\ nodeCurrentPulls[n] > 0 THEN nodeCurrentPulls[n] - 1
                                               ELSE nodeCurrentPulls[n]
  BY DEF ReleaseSlot, DecrementActivePulls, Limiter!Release, Limiter!Decrement, TypeOK,
     ManagerTypeOK, Limiter!TypeOK
<1> HIDE DEF m
<1>2. SlotRemoved(m) /\ m \in Nodes
  BY DEF m
<1>3. /\ Cardinality(HeldOn(Nodes)') = Cardinality(HeldOn(Nodes)) - 1
      /\ Cardinality(HeldOn(Nodes)) > 0 /\ Cardinality(HeldOn(Nodes)) \in Nat
  BY <1>2, GivenCounts, HeldFinite
<1>4. ASSUME NEW n \in Nodes
      PROVE  IF n = m THEN /\ Cardinality(HeldOn({n})') = Cardinality(HeldOn({n})) - 1
                           /\ Cardinality(HeldOn({n})) > 0
                      ELSE Cardinality(HeldOn({n})') = Cardinality(HeldOn({n}))
  <2>1. m \in {n} <=> n = m
    OBVIOUS
  <2> QED
    BY <1>2, <2>1, GivenCounts
<1>5. \A n \in Nodes : Cardinality(HeldOn({n})) \in Nat
  BY HeldFinite
<1>6. \A n \in Nodes : nodeCurrentPulls'[n] = Cardinality(HeldOn({n})')
  BY <1>1, <1>4, <1>5 DEF Accounted
<1>7. GaugeBound \in Nat
  BY ConstantsOK
<1>8. currentPulls' = Cardinality(HeldOn(Nodes)') /\ activePulls' = currentPulls'
  BY <1>1, <1>3, <1>7 DEF Accounted
<1> QED
  BY <1>6, <1>8 DEF Accounted

LEMMA StayAccounted ==
  ASSUME Accounted, SlotsStay, UNCHANGED limitVars
  PROVE  Accounted'
BY StayCounts DEF Accounted, limitVars

LEMMA SlotsKept ==
  ASSUME TypeOK, SlotInv, [Next]_vars
  PROVE  HoldsWhatItRead' /\ SlotsMatchPulling'
<1> SUFFICES HoldsWhatItRead' /\ (Reliable' => Accounted')
  BY DEF SlotsMatchPulling, Accounted, Reliable
<1>1. SoundInv /\ HoldsWhatItRead /\ (Reliable => Accounted)
  BY DEF SlotInv, SlotsMatchPulling, Accounted, Reliable
<1>2. CASE Aside /\ UNCHANGED <<limitVars, lost>>
  BY <1>1, <1>2, AsideSlots, StayAccounted
<1>3. ASSUME NEW p \in PPIs, Started(p)
      PROVE  HoldsWhatItRead' /\ (Reliable' => Accounted')
  BY <1>1, <1>3, StartedSlots, StartedFrom, StayAccounted
<1>4. CASE NodeAction
  <2>1. pc = "nodes" /\ idx <= Len(work.ns)
    BY <1>4, NodeMoves
  <2>2. cur \in PPIs /\ entry.node \in Nodes
    BY <2>1, EntryType
  <2> QED
    BY <1>1, <1>4, <2>2, NodeSlots, StayAccounted, TakenAccounted, GivenAccounted
<1>5. CASE InBetween
  <2>1. ASSUME ReleaseNode
        PROVE  cur \in PPIs /\ entry.node \in Nodes
    <3>1. pc # "idle" /\ idx <= Len(work.ns)
      BY <2>1 DEF ReleaseNode
    <3> QED
      BY <3>1, EntryType
  <2> QED
    BY <1>1, <1>5, <2>1, BetweenSlots, StayAccounted, GivenAccounted
<1>6. CASE UpdateWritten \/ UpdateRejected \/ UpdateFails \/ TTLDelete
  <2>1. UNCHANGED limitVars
    BY <1>6 DEF UpdateWritten, UpdateRejected, UpdateFails, TTLDelete
  <2> QED
    BY <1>1, <1>6, <2>1, EndedSlots, StayAccounted
<1>7. CASE Restart
  BY <1>7 DEF Restart, HoldsWhatItRead, Reliable
<1> QED
  BY <1>2, <1>3, <1>4, <1>5, <1>6, <1>7, StepCases

LEMMA SlotInit == Init => SlotInv
<1> SUFFICES ASSUME Init
             PROVE  SlotInv
  OBVIOUS
<1>1. TypeOK /\ SoundInv
  BY InitType, SoundInit
<1>2. pc = "idle" /\ \A p \in PPIs : store[p].ns = <<>>
  BY NewFields DEF Init
<1>3. \A p \in PPIs : \A i, n : ~Slot(p, i, n)
  BY <1>1, <1>2, NobodyWorks, SlotAtRest DEF SlotIn
<1>4. ASSUME NEW N
      PROVE  Cardinality(HeldOn(N)) = 0
  <2>1. HeldOn(N) = {}
    BY <1>3, HeldMembers
  <2> QED
    BY <2>1, FS_EmptySet
<1> QED
  BY <1>1, <1>2, <1>4 DEF Init, Limiter!NewRateLimiter, SlotInv, HoldsWhatItRead, SlotsMatchPulling

LEMMA SlotsAlways == Spec => [](TypeOK /\ SlotInv)
<1>1. Init => TypeOK /\ SlotInv
  BY InitType, SlotInit
<1>2. (TypeOK /\ SlotInv) /\ [Next]_vars => (TypeOK /\ SlotInv)'
  BY NextType, SoundNext, SlotsKept DEF SlotInv
<1> QED
  BY <1>1, <1>2, PTL DEF Spec

(* The rate limiter and the gauge count exactly the pulls the statuses record,
   in the cluster and on every node, until a reconcile that took or released a
   slot is kept from persisting its result: no branch of handleInProgress or
   handleDeletion, no edit, no late cache takes a slot twice or forgets one. *)
THEOREM SlotsAreAccounted == Spec => []SlotsMatchPulling
BY SlotsAlways, PTL DEF SlotInv

-----------------------------------------------------------------------------
(* The limits.  The limiter never exceeds them; that the Jobs themselves do
   not takes a manager nobody disturbs: no write of it is rejected or lost, it
   reads what is there, and it does not restart.  Any of these lets a Job run
   on without a slot (run SlotLeak shows a slot without a Job). *)

Undisturbed ==
  /\ ~PPILag /\ ~JobLag /\ UserDeletes = {}
  /\ MaxEdits = 0 /\ MaxFaults = 0 /\ MaxRestarts = 0

(* The entry that has created a Job holds a slot until the Job has finished. *)
UnfinishedHeld ==
  \A j \in Unfinished : \E i \in Held(jobs[j].owner) :
    Entries(jobs[j].owner)[i].node = jobs[j].node

(* What is deleted or has a terminal phase has nothing left to pull. *)
Done(obj) == obj.del \/ obj.phase \in {"Completed", "Failed"}

StoreSettled == \A p \in PPIs : Done(store[p]) => Having(store[p].ns, "Pulling") = {}

WorkSettled ==
  pc # "idle" => /\ pc = "nodes" => work.phase = "InProgress"
                 /\ pc = "ttlDelete" => Done(work)
                 /\ Done(work) => Having(work.ns, "Pulling") = {}

NothingLost == ~lost /\ ~Stale

LimitInv == /\ SlotInv /\ NothingLost /\ StoreSettled /\ WorkSettled
            /\ JobsHonest /\ UnfinishedHeld

LEMMA LimitsKept ==
  ASSUME TypeOK, Limiter!LimitsHold, [Next]_vars
  PROVE  Limiter!LimitsHold'
<1>1. /\ Limiter!maxConcurrentPulls \in Nat \ {0} /\ Limiter!maxPullsPerNode \in Nat \ {0}
  BY ConstantsOK DEF Limiter!maxConcurrentPulls, Limiter!maxPullsPerNode
<1>2. currentPulls \in Nat /\ nodeCurrentPulls \in [Nodes -> Nat]
  BY DEF TypeOK, ManagerTypeOK, Limiter!TypeOK
<1> USE DEF Limiter!LimitsHold
<1>3. CASE LimiterUntouched
  BY <1>3 DEF LimiterUntouched, limitVars
<1>4. CASE SlotTaken
  BY <1>1, <1>2, <1>4 DEF SlotTaken, Limiter!TryAcquire, Limiter!HasFreeSlot
<1>5. CASE SlotReleased
  BY <1>1, <1>2, <1>5 DEF SlotReleased, Limiter!Release, Limiter!Decrement
<1>6. CASE LimiterReset
  BY <1>1, <1>6 DEF LimiterReset, Limiter!NewRateLimiter
<1> QED
  BY <1>3, <1>4, <1>5, <1>6, LimiterMoves

LEMMA UndisturbedSteps ==
  ASSUME Undisturbed, TypeOK
  PROVE  /\ ~Fault /\ ~Restart
         /\ \A p \in PPIs : ~Delete(p) /\ ~Edit(p)
<1>1. faults \in Nat /\ edits \in Nat /\ restarts \in Nat
  BY DEF TypeOK, EnvTypeOK
<1> QED
  BY <1>1 DEF Undisturbed, Fault, Restart, Delete, Edit

LEMMA UndisturbedStore ==
  ASSUME Undisturbed, TypeOK, [Next]_vars
  PROVE  UNCHANGED store \/ (\E p \in PPIs : Create(p)) \/ UpdateWritten \/ TTLDelete
<1>1. ASSUME NEW p \in PPIs, Reconcile(p)
      PROVE  UNCHANGED store
  BY <1>1 DEF Reconcile, ReconcileGone, ReconcileReadFails, AddFinalizer, handlePending,
     handleInProgress, handleCompleted, handleDeletion, Begin, clusterVars
<1>2. CASE NodeAction
  BY <1>2, NodeMoves
<1>3. CASE EndAction
  BY <1>3, UndisturbedSteps DEF EndAction, FinishNodes, UpdateRejected, UpdateFails,
     ReleaseNode, ListJobs, CleanupJob, CleanupEnds, clusterVars
<1>4. CASE Environment
  BY <1>4, UndisturbedSteps DEF Environment, TTLElapses, SyncPPI, TimerFires,
     SyncJob, JobMoves, JobExpires, clusterVars
<1>5. CASE Quiet \/ UNCHANGED vars
  BY <1>5 DEF Quiet, vars, clusterVars
<1> QED
  BY <1>1, <1>2, <1>3, <1>4, <1>5 DEF Next, WorkStep, NodeAction, EndAction

(* Nothing is lost: nobody else writes the object a reconcile works on. *)
LEMMA NothingLostKept ==
  ASSUME Undisturbed, TypeOK, LimitInv, [Next]_vars
  PROVE  NothingLost'
<1>1. ~lost /\ ~Stale /\ SoundInv
  BY DEF LimitInv, SlotInv, NothingLost
<1>2. CASE Aside /\ UNCHANGED <<limitVars, lost>>
  <2> SUFFICES ASSUME pc # "idle"
               PROVE  store'[cur] = store[cur]
    BY <1>1, <1>2 DEF NothingLost, Stale, Aside, workVars
  <2>1. cur \in PPIs /\ store[cur].exists /\ store \in [PPIs -> Object] /\ pc' = pc
    BY <1>1, <1>2, CurrentWorks
       DEF SoundInv, WorkSound, TypeOK, ClusterTypeOK, Aside, workVars
  <2>2. ASSUME NEW p \in PPIs, Create(p)
        PROVE  store'[cur] = store[cur]
    BY <2>1, <2>2 DEF Create
  <2>3. ~UpdateWritten /\ ~TTLDelete
    BY <2>1 DEF UpdateWritten, TTLDelete, Return
  <2> QED
    BY <2>2, <2>3, UndisturbedStore
<1>3. ASSUME NEW p \in PPIs, Started(p)
      PROVE  NothingLost'
  <2>1. cache[p] = store[p]
    BY <1>3 DEF Undisturbed, Started, AddFinalizer, handlePending, handleInProgress,
       handleCompleted, handleDeletion, Take
  <2> QED
    BY <1>1, <1>3, <2>1, StartedFrom DEF NothingLost, Stale
<1>4. CASE NodeAction
  <2>1. PICK status, retry, counter, again : NextNode(status, retry, counter, again)
    BY <1>4, NodeMoves
  <2>2. pc = "nodes" /\ idx <= Len(work.ns) /\ UNCHANGED <<cur, store, lost, pc>>
    BY <1>4, NodeMoves
  <2>3. work'.rv = work.rv
    BY <2>1, <2>2, EntryRewritten
  <2> QED
    BY <1>1, <2>2, <2>3 DEF NothingLost, Stale
<1>5. CASE InBetween
  BY <1>1, <1>5, InBetweenKeeps DEF NothingLost, Stale
<1>6. CASE UpdateWritten \/ UpdateFails \/ TTLDelete
  BY <1>1, <1>6, UndisturbedSteps DEF UpdateWritten, UpdateFails, TTLDelete, Return,
     NothingLost, Stale, envVars
<1>7. ~UpdateRejected
  BY <1>1 DEF UpdateRejected, CanWrite, Stale, SoundInv, WorkSound
<1> QED
  BY <1>2, <1>3, <1>4, <1>5, <1>6, <1>7, StepCases, UndisturbedSteps

(* An unfinished Job has been there before, or has just been created. *)
LEMMA JobMovesKeeps ==
  ASSUME TypeOK, NEW j \in JobNames, JobMoves(j)
  PROVE  /\ \A k \in JobNames \ {j} : jobs'[k] = jobs[k]
         /\ jobs[j] # NoJob /\ ~Finished(jobs[j])
         /\ jobs'[j].owner = jobs[j].owner /\ jobs'[j].node = jobs[j].node
<1>1. jobs[j] \in Job /\ jobs[j] # NoJob /\ ~Finished(jobs[j])
  BY DEF TypeOK, ClusterTypeOK, JobMoves
<1>2. jobs \in [JobNames -> Job \cup {NoJob}]
  BY DEF TypeOK, ClusterTypeOK
<1>3. CASE jobs' = [jobs EXCEPT ![j].active = 1]
  BY <1>1, <1>2, <1>3 DEF Job
<1>4. CASE jobs' = [jobs EXCEPT ![j].active = 0, ![j].succeeded = 1]
  BY <1>1, <1>2, <1>4 DEF Job
<1>5. CASE jobs' = [jobs EXCEPT ![j].active = 0, ![j].failed = 1]
  BY <1>1, <1>2, <1>5 DEF Job
<1> QED
  BY <1>3, <1>4, <1>5 DEF JobMoves

LEMMA JobsChange ==
  ASSUME Undisturbed, TypeOK, [Next]_vars, NEW j \in Unfinished'
  PROVE  \/ /\ j \in Unfinished /\ jobs'[j].owner = jobs[j].owner
            /\ jobs'[j].node = jobs[j].node
         \/ startPullJob /\ jobs'[j] = NewJob(cur, entry.node)
<1>1. j \in JobNames /\ jobs'[j] # NoJob /\ ~Finished(jobs'[j])
  BY DEF Unfinished, Finished
<1>2. jobs \in [JobNames -> Job \cup {NoJob}]
  BY DEF TypeOK, ClusterTypeOK
<1> DEFINE Kept == /\ j \in Unfinished /\ jobs'[j].owner = jobs[j].owner
                   /\ jobs'[j].node = jobs[j].node
<1>3. ASSUME jobs'[j] = jobs[j]
      PROVE  Kept
  BY <1>1, <1>3 DEF Unfinished
<1>4. ASSUME NEW k, DeleteJob(k)
      PROVE  Kept
  BY <1>1, <1>2, <1>3, <1>4 DEF DeleteJob
<1>5. ASSUME NEW k \in JobNames, JobMoves(k)
      PROVE  Kept
  BY <1>1, <1>3, <1>5, JobMovesKeeps DEF Unfinished
<1>6. ASSUME startPullJob
      PROVE  Kept \/ jobs'[j] = NewJob(cur, entry.node)
  BY <1>2, <1>3, <1>6 DEF startPullJob, CreateJob
<1> SUFFICES Kept \/ (startPullJob /\ jobs'[j] = NewJob(cur, entry.node))
  OBVIOUS
<1> HIDE DEF Kept
<1>7. ASSUME NEW p \in PPIs, Reconcile(p)
      PROVE  UNCHANGED jobs
  BY <1>7 DEF Reconcile, ReconcileGone, ReconcileReadFails, AddFinalizer, handlePending,
     handleInProgress, handleCompleted, handleDeletion, Begin, clusterVars
<1>8. CASE NodeAction
  BY <1>3, <1>4, <1>6, <1>8, UndisturbedSteps DEF NodeAction, startPullJobFails, RateLimited,
     PullSucceeded, PullRetried, PullExhausted, PullRunning, NodeDone
<1>9. CASE EndAction
  BY <1>3, <1>4, <1>9 DEF EndAction, FinishNodes, UpdateWritten, UpdateRejected, UpdateFails,
     TTLDelete, ReleaseNode, ListJobs, CleanupJob, CleanupEnds, clusterVars
<1>10. CASE Environment
  BY <1>3, <1>4, <1>5, <1>10 DEF Environment, Create, Delete, Edit, TTLElapses, SyncPPI,
     TimerFires, SyncJob, JobExpires, Restart, clusterVars
<1>11. CASE Quiet \/ UNCHANGED vars
  BY <1>3, <1>11 DEF Quiet, vars, clusterVars
<1> QED
  BY <1>3, <1>7, <1>8, <1>9, <1>10, <1>11 DEF Next, WorkStep, NodeAction, EndAction

(* A deletion or a terminal phase comes after the last pull. *)
LEMMA WorkSettledKept ==
  ASSUME Undisturbed, TypeOK, LimitInv, [Next]_vars
  PROVE  WorkSettled'
<1>1. /\ ~Stale /\ WorkShape /\ SoundInv /\ StoreSettled /\ WorkSettled
  BY DEF LimitInv, SlotInv, SoundInv, NothingLost
<1>2. CASE Aside
  BY <1>1, <1>2 DEF Aside, workVars, WorkSettled, Done, Having
<1>3. CASE Ended
  BY <1>3 DEF Ended, WorkSettled
<1>4. ASSUME NEW p \in PPIs, Started(p)
      PROVE  WorkSettled'
  <2>1. cache[p] = store[p] /\ store[p] \in Object /\ Sound(p, store[p])
    BY <1>1, <1>4 DEF Undisturbed, Started, AddFinalizer, handlePending, handleInProgress,
       handleCompleted, handleDeletion, Take, TypeOK, ClusterTypeOK, SoundInv, StoreSound
  <2>2. Done(store[p]) => Having(store[p].ns, "Pulling") = {}
    BY <1>1 DEF StoreSettled
  <2>3. CASE work' = store[p]
    <3>1. /\ pc' = "nodes" => work'.phase = "InProgress"
          /\ pc' = "ttlDelete" => Done(work')
      BY <1>4, <2>1, <2>3, StartedFrom DEF Done
    <3> QED
      BY <2>2, <2>3, <3>1 DEF WorkSettled, Done, Having
  <2>4. CASE pc' = "update" /\ work' = [store[p] EXCEPT !.fin = TRUE]
    <3>1. /\ work'.ns = store[p].ns /\ work'.phase = store[p].phase
          /\ work'.del = store[p].del
      BY <2>1, <2>4, FinalizerFields
    <3> QED
      BY <2>2, <2>4, <3>1 DEF WorkSettled, Done, Having
  <2>5. CASE /\ pc' = "update" /\ Live(store[p]) /\ store[p].phase = "Pending"
             /\ \E targets \in Seq(Nodes) : work' = Initialized(store[p], targets)
    <3>1. PICK targets \in Seq(Nodes) : work' = Initialized(store[p], targets)
      BY <2>5
    <3>2. ~work'.del
      BY <2>1, <2>5, <3>1, InitializedKeeps DEF Live
    <3>3. CASE targets = <<>>
      <4>1. work'.ns = <<>>
        BY <2>1, <2>5, <3>1, <3>3, NothingToDoFields DEF Sound
      <4> QED
        BY <2>5, <4>1 DEF WorkSettled, Having
    <3>4. CASE targets # <<>>
      <4>1. work'.phase = "InProgress"
        BY <2>1, <3>1, <3>4, InitializedFields
      <4> QED
        BY <2>5, <3>2, <4>1 DEF WorkSettled, Done
    <3> QED
      BY <3>3, <3>4
  <2> QED
    BY <1>4, <2>1, <2>3, <2>4, <2>5, StartedFrom
<1>5. CASE NodeAction
  <2>1. PICK status, retry, counter, again : NextNode(status, retry, counter, again)
    BY <1>5, NodeMoves
  <2>2. pc = "nodes" /\ pc' = "nodes" /\ idx <= Len(work.ns)
    BY <1>5, NodeMoves
  <2>3. work'.phase = work.phase /\ work'.del = work.del
    BY <2>1, <2>2, EntryRewritten
  <2>4. work.phase = "InProgress" /\ ~work.del
    BY <1>1, <2>2 DEF WorkShape, WorkSettled
  <2> QED
    BY <2>2, <2>3, <2>4 DEF WorkSettled, Done
<1>6. CASE FinishNodes
  <2>1. /\ pc = "nodes" /\ pc' = "update" /\ work'.ns = work.ns /\ work'.del = work.del
        /\ work'.phase = Lifecycle!Outcome(work.ns)
    BY <1>1, <1>6, FinishNodesFields, LoopCounted DEF FinishNodes, SoundInv
  <2>2. ~work.del
    BY <1>1, <2>1 DEF WorkShape
  <2>3. Having(work.ns, "Pulling") # {} => Lifecycle!Outcome(work.ns) = "InProgress"
    BY DEF Having, Lifecycle!Outcome
  <2> QED
    BY <2>1, <2>2, <2>3 DEF WorkSettled, Done, Having
<1>7. CASE ReleaseNode \/ ListJobs \/ CleanupJob \/ CleanupEnds
  <2>1. /\ work'.del = work.del /\ work'.ns = work.ns /\ pc # "idle"
        /\ pc' \in {"release", "cleanup", "update"}
    BY <1>7, InBetweenKeeps DEF InBetween, ReleaseNode, ListJobs, CleanupJob, CleanupEnds,
       Finalize
  <2>2. work.del
    BY <1>1, <1>7 DEF WorkShape, ReleaseNode, ListJobs, CleanupJob, CleanupEnds
  <2> QED
    BY <1>1, <2>1, <2>2 DEF WorkSettled, Done, Having
<1> QED
  BY <1>2, <1>3, <1>4, <1>5, <1>6, <1>7, WorkCases DEF InBetween

LEMMA StoreSettledKept ==
  ASSUME Undisturbed, TypeOK, LimitInv, [Next]_vars
  PROVE  StoreSettled'
<1>1. /\ ~Stale /\ StoreSound /\ StoreSettled /\ WorkSettled /\ WorkShape /\ HoldsWhatItRead
  BY DEF LimitInv, SlotInv, SoundInv, NothingLost
<1>2. store \in [PPIs -> Object] /\ work \in Object
  BY DEF TypeOK, ClusterTypeOK, WorkTypeOK
<1>3. \A uid, rv : Having(Fresh(uid, rv).ns, "Pulling") = {} /\ Having(Absent(uid, rv).ns, "Pulling") = {}
  BY NewFields DEF Having
<1>4. CASE UNCHANGED store
  BY <1>1, <1>4 DEF StoreSettled
<1>5. ASSUME NEW p \in PPIs, Create(p)
      PROVE  StoreSettled'
  BY <1>1, <1>2, <1>3, <1>5 DEF Create, StoreSettled
<1>6. CASE UpdateWritten
  <2>1. cur \in PPIs /\ pc = "update" /\ Persist(cur, work)
    BY <1>6, CurrentWorks DEF UpdateWritten
  <2>2. Done(Bumped(work)) => Having(Bumped(work).ns, "Pulling") = {}
    <3>1. Done(work) => Having(work.ns, "Pulling") = {}
      BY <1>1, <2>1 DEF WorkSettled
    <3> QED
      BY <1>2, <3>1, BumpedFields DEF Done
  <2> QED
    BY <1>1, <1>2, <1>3, <2>1, <2>2 DEF Persist, StoreSettled
<1>7. CASE TTLDelete
  <2>1. pc = "ttlDelete" /\ cur \in PPIs /\ ~touched
    BY <1>1, <1>7, CurrentWorks DEF TTLDelete, WorkShape
  <2>2. Having(store[cur].ns, "Pulling") = {}
    <3>1. Having(work.ns, "Pulling") = {}
      BY <1>1, <2>1 DEF WorkSettled
    <3>2. Held(cur) = Having(store[cur].ns, "Pulling") /\ Entries(cur) = work.ns
      BY <1>1, <2>1 DEF HoldsWhatItRead, Entries, Working
    <3> QED
      BY <3>1, <3>2 DEF Held
  <2>3. CASE DeleteObject(cur)
    <3>1. ASSUME NEW p \in PPIs, Done(store'[p])
          PROVE  Having(store'[p].ns, "Pulling") = {}
      <4>1. CASE p # cur
        BY <1>1, <1>2, <2>3, <3>1, <4>1 DEF DeleteObject, StoreSettled
      <4>2. CASE p = cur
        <5>1. store'[p].ns = store[p].ns
          BY <1>1, <2>1, <2>3, <4>2, DeleteStep, ChangedKeepsNodes
        <5> QED
          BY <2>2, <4>2, <5>1
      <4> QED
        BY <4>1, <4>2
    <3> QED
      BY <3>1 DEF StoreSettled
  <2> QED
    BY <1>4, <1>7, <2>3 DEF TTLDelete
<1> QED
  BY <1>4, <1>5, <1>6, <1>7, UndisturbedStore

(* A Job that has just been created is held by the entry that created it. *)
LEMMA CreatedIsHeld ==
  ASSUME TypeOK, SoundInv, NothingLost, NothingLost', startPullJob
  PROVE  \A p, i, n : p = cur /\ i = idx /\ n = entry.node => Slot(p, i, n)'
<1>1. /\ NextNode("Pulling", entry.retry, "pulling", FALSE)
      /\ pc = "nodes" /\ idx <= Len(work.ns)
  BY DEF startPullJob, AtNode
<1>2. /\ idx \in DOMAIN work.ns /\ DOMAIN work'.ns = DOMAIN work.ns
      /\ work'.ns[idx] = [node |-> entry.node, status |-> "Pulling", retry |-> entry.retry]
      /\ work'.del = work.del
  BY <1>1, EntryRewritten, Zenon
<1>3. ~work.del /\ cur' = cur
  BY <1>1 DEF NextNode, SoundInv, WorkShape
<1> SUFFICES ASSUME NEW p, p = cur, NEW i, i = idx, NEW n, n = entry.node
             PROVE  Slot(p, i, n)'
  OBVIOUS
<1>4. Working(p)'
  BY <1>3 DEF Working, NothingLost
<1>5. SlotIn(work'.ns, i, n)
  BY <1>2 DEF SlotIn
<1> QED
  BY <1>2, <1>3, <1>4, <1>5, SlotAtWorkNext

(* The end of a pull gives back the slot of no Job at work. *)
LEMMA EndedWasNotHeld ==
  ASSUME ~JobLag, TypeOK, JobsHonest, SlotRemoved(entry.node),
         checkJobStatus(jobName) \in {"Succeeded", "Failed"},
         NEW j \in Unfinished, NEW i, Slot(jobs[j].owner, i, jobs[j].node)
  PROVE  \A p, n : p = jobs[j].owner /\ n = jobs[j].node => Slot(p, i, n)'
<1>1. jobs[j] \in Job /\ j = GenerateJobName(Name[jobs[j].owner], jobs[j].node)
  BY DEF Unfinished, TypeOK, ClusterTypeOK, JobsHonest, JobOK
<1> SUFFICES ASSUME NEW p, p = jobs[j].owner, NEW n, n = jobs[j].node
             PROVE  Slot(p, i, n)'
  OBVIOUS
<1>2. p \in PPIs
  BY <1>1 DEF Job
<1>3. ~(p = cur /\ i = idx)
  <2> SUFFICES ASSUME p = cur, i = idx
               PROVE  FALSE
    OBVIOUS
  <2>1. n = entry.node
    BY DEF SlotRemoved
  <2> QED
    BY <1>1, <2>1, EndSeenIsEnd DEF jobName
<1> QED
  BY <1>2, <1>3 DEF SlotRemoved

LEMMA UnfinishedHeldKept ==
  ASSUME Undisturbed, TypeOK, LimitInv, [Next]_vars
  PROVE  UnfinishedHeld'
<1>1. SoundInv /\ HoldsWhatItRead /\ NothingLost /\ WorkSettled /\ JobsHonest
  BY DEF LimitInv, SlotInv
<1>2. NothingLost' /\ Reliable'
  BY NothingLostKept DEF NothingLost, Reliable
<1>3. \A j \in Unfinished : \E i : Slot(jobs[j].owner, i, jobs[j].node)
  BY DEF LimitInv, UnfinishedHeld, Slot
<1>4. ASSUME NEW j \in Unfinished, NEW i, Slot(jobs[j].owner, i, jobs[j].node)
      PROVE  \A p, n : p = jobs[j].owner /\ n = jobs[j].node => Slot(p, i, n)'
  <2> DEFINE Still == \A p, n : p = jobs[j].owner /\ n = jobs[j].node => Slot(p, i, n)'
  <2> SUFFICES Still
    OBVIOUS
  <2>1. jobs[j] \in Job /\ jobs[j].owner \in PPIs
    BY DEF Unfinished, TypeOK, ClusterTypeOK, Job
  <2>2. ASSUME SlotsStay \/ (\E n : SlotAdded(n))
        PROVE  Still
    <3>1. ASSUME NEW p, p = jobs[j].owner, NEW n, n = jobs[j].node
          PROVE  Slot(p, i, n)'
      <4>1. p \in PPIs /\ Slot(p, i, n)
        BY <1>4, <2>1, <3>1
      <4> QED
        BY <2>2, <4>1 DEF SlotsStay, SlotAdded
    <3> QED
      BY <3>1
  <2>3. CASE Aside /\ UNCHANGED lost
    BY <1>1, <1>2, <2>2, <2>3, AsideSlots
  <2>4. ASSUME NEW p \in PPIs, Started(p)
        PROVE  SlotsStay
    BY <1>1, <1>2, <2>4, StartedSlots
  <2>5. CASE NodeAction
    <3>1. ASSUME SlotRemoved(entry.node), checkJobStatus(jobName) \in {"Succeeded", "Failed"}
          PROVE  Still
      BY <1>1, <1>4, <3>1, EndedWasNotHeld DEF Undisturbed
    <3> HIDE DEF Still
    <3> QED
      BY <1>1, <1>2, <2>2, <2>5, <3>1, NodeSlots
  <2>6. CASE InBetween
    <3>1. ASSUME ReleaseNode, SlotRemoved(entry.node)
          PROVE  FALSE
      <4>1. pc = "release" /\ idx <= Len(work.ns) /\ work.del
        BY <1>1, <3>1 DEF ReleaseNode, WorkShape, SoundInv
      <4>2. Slot(cur, idx, entry.node) /\ Having(work.ns, "Pulling") = {}
        BY <1>1, <3>1, <4>1 DEF SlotRemoved, WorkSettled, Done
      <4> QED
        BY <1>1, <4>1, <4>2 DEF NothingLost, Slot, Held, Entries, Working
    <3> QED
      BY <1>1, <1>2, <2>2, <2>6, <3>1, BetweenSlots
  <2> HIDE DEF Still
  <2>7. CASE UpdateWritten \/ UpdateRejected \/ UpdateFails \/ TTLDelete
    BY <1>1, <1>2, <2>2, <2>7, EndedSlots
  <2> QED
    BY <2>2, <2>3, <2>4, <2>5, <2>6, <2>7, StepCases, UndisturbedSteps
<1>5. ASSUME NEW j \in Unfinished'
      PROVE  \E i : \A p, n : p = jobs'[j].owner /\ n = jobs'[j].node => Slot(p, i, n)'
  <2>1. CASE /\ j \in Unfinished /\ jobs'[j].owner = jobs[j].owner
             /\ jobs'[j].node = jobs[j].node
    <3>1. PICK i : Slot(jobs[j].owner, i, jobs[j].node)
      BY <1>3, <2>1
    <3>2. \A p, n : p = jobs[j].owner /\ n = jobs[j].node => Slot(p, i, n)'
      BY <1>4, <2>1, <3>1
    <3> QED
      BY <2>1, <3>2
  <2>2. CASE startPullJob /\ jobs'[j] = NewJob(cur, entry.node)
    <3>1. jobs'[j].owner = cur /\ jobs'[j].node = entry.node
      BY <2>2 DEF NewJob
    <3>2. \A p, i, n : p = cur /\ i = idx /\ n = entry.node => Slot(p, i, n)'
      BY <1>1, <1>2, <2>2, CreatedIsHeld
    <3>3. PICK i : i = idx
      OBVIOUS
    <3>4. \A p, n : p = jobs'[j].owner /\ n = jobs'[j].node => Slot(p, i, n)'
      BY <3>1, <3>2, <3>3
    <3> QED
      BY <3>4
  <2> QED
    BY <2>1, <2>2, JobsChange
<1> QED
  BY <1>5 DEF UnfinishedHeld, Slot

(* Distinct Jobs at work are held by distinct entries: the name of a Job tells
   its owner and its node. *)
LEMMA UnfinishedAreSlots ==
  ASSUME TypeOK, JobsHonest, UnfinishedHeld, NEW N
  PROVE  /\ Cardinality({j \in Unfinished : jobs[j].node \in N}) \in Nat
         /\ Cardinality({j \in Unfinished : jobs[j].node \in N}) <= Cardinality(HeldOn(N))
<1> DEFINE S == {j \in Unfinished : jobs[j].node \in N}
           Of(j) == CHOOSE i : Slot(jobs[j].owner, i, jobs[j].node)
           f == [j \in S |-> <<jobs[j].owner, Of(j)>>]
<1>1. ASSUME NEW j \in S
      PROVE  /\ jobs[j].owner \in PPIs /\ jobs[j].node \in N
             /\ Slot(jobs[j].owner, Of(j), jobs[j].node)
             /\ j = GenerateJobName(Name[jobs[j].owner], jobs[j].node)
  <2>1. j \in Unfinished /\ jobs[j] \in Job
    BY DEF Unfinished, TypeOK, ClusterTypeOK
  <2>2. \E i : Slot(jobs[j].owner, i, jobs[j].node)
    BY <2>1 DEF UnfinishedHeld, Slot
  <2> QED
    BY <2>1, <2>2 DEF Job, JobsHonest, JobOK, Unfinished
<1>2. \A j \in S : <<jobs[j].owner, Of(j)>> \in HeldOn(N)
  BY <1>1, HeldMembers
<1>3. ASSUME NEW j \in S, NEW k \in S, jobs[j].owner = jobs[k].owner, Of(j) = Of(k)
      PROVE  j = k
  <2>1. jobs[j].node = jobs[k].node
    BY <1>1, <1>3 DEF Slot
  <2> QED
    BY <1>1, <1>3, <2>1
<1> HIDE DEF S, Of
<1>4. f \in Injection(S, HeldOn(N))
  <2>1. f \in [S -> HeldOn(N)]
    BY <1>2
  <2>2. \A j, k \in S : f[j] = f[k] => j = k
    BY <1>3
  <2> QED
    BY <2>1, <2>2 DEF Injection, IsInjective
<1>5. IsFiniteSet(HeldOn(N))
  BY HeldFinite
<1>6. IsFiniteSet(S) /\ Cardinality(S) <= Cardinality(HeldOn(N))
  BY <1>4, <1>5, FS_Injection
<1> QED
  BY <1>6, FS_CardinalityType DEF S

LEMMA LimitsRespected ==
  ASSUME TypeOK, LimitInv, Limiter!LimitsHold
  PROVE  JobsWithinLimit
<1>1. Accounted
  BY DEF LimitInv, SlotInv, NothingLost, SlotsMatchPulling, Accounted
<1>2. \A N : /\ Cardinality({j \in Unfinished : jobs[j].node \in N}) \in Nat
             /\ Cardinality({j \in Unfinished : jobs[j].node \in N}) <= Cardinality(HeldOn(N))
  BY UnfinishedAreSlots DEF LimitInv
<1>3. \A N : Cardinality(HeldOn(N)) \in Nat
  BY HeldFinite
<1>4. /\ Limiter!maxConcurrentPulls \in Nat /\ Limiter!maxPullsPerNode \in Nat
  BY ConstantsOK DEF Limiter!maxConcurrentPulls, Limiter!maxPullsPerNode
<1>5. Cardinality(Unfinished) <= Limiter!maxConcurrentPulls
  <2>1. {j \in Unfinished : jobs[j].node \in Nodes} = Unfinished
    BY DEF Unfinished, TypeOK, ClusterTypeOK, Job
  <2>2. Cardinality(HeldOn(Nodes)) <= Limiter!maxConcurrentPulls
    BY <1>1 DEF Accounted, Limiter!LimitsHold
  <2> QED
    BY <1>2, <1>3, <1>4, <2>1, <2>2
<1>6. ASSUME NEW n \in Nodes
      PROVE  Cardinality({j \in Unfinished : jobs[j].node = n}) <= Limiter!maxPullsPerNode
  <2>1. {j \in Unfinished : jobs[j].node \in {n}} = {j \in Unfinished : jobs[j].node = n}
    OBVIOUS
  <2>2. Cardinality(HeldOn({n})) <= Limiter!maxPullsPerNode
    BY <1>1 DEF Accounted, Limiter!LimitsHold
  <2> QED
    BY <1>2, <1>3, <1>4, <2>1, <2>2
<1> QED
  BY <1>5, <1>6 DEF JobsWithinLimit

LEMMA LimitInit == Init => LimitInv /\ Limiter!LimitsHold
<1> SUFFICES ASSUME Init
             PROVE  LimitInv /\ Limiter!LimitsHold
  OBVIOUS
<1>1. TypeOK /\ SlotInv
  BY InitType, SlotInit
<1>2. NothingLost /\ WorkSettled
  BY DEF Init, NothingLost, Stale, WorkSettled
<1>3. StoreSettled
  BY NewFields DEF Init, StoreSettled, Having
<1>4. \A j \in JobNames : jobs[j] = NoJob /\ jobCache[j] = NoJob
  BY DEF Init
<1>5. JobsHonest /\ UnfinishedHeld
  BY <1>4 DEF JobsHonest, JobOK, UnfinishedHeld, Unfinished
<1>6. Limiter!LimitsHold
  BY ConstantsOK DEF Init, Limiter!NewRateLimiter, Limiter!LimitsHold,
     Limiter!maxConcurrentPulls, Limiter!maxPullsPerNode
<1> QED
  BY <1>1, <1>2, <1>3, <1>5, <1>6 DEF LimitInv

(* With the informers prompt, no user deleting, and no edit, failed call or
   restart in the way of a write, the pull Jobs at work never exceed
   --max-concurrent-pulls in the cluster or --max-pulls-per-node on a node:
   startPullJob creates no Job without a slot, and handleInProgress and the
   TTL deletion of handleCompleted give no slot back before its Job has
   ended. *)
THEOREM JobsStayWithinLimit ==
  ASSUME Undisturbed
  PROVE  Spec => []JobsWithinLimit
<1> DEFINE Inv == TypeOK /\ LimitInv /\ Limiter!LimitsHold
<1>1. Init => Inv
  BY InitType, LimitInit
<1>2. Inv /\ [Next]_vars => Inv'
  <2> SUFFICES ASSUME TypeOK, LimitInv, Limiter!LimitsHold, [Next]_vars
               PROVE  Inv'
    OBVIOUS
  <2>1. TypeOK' /\ Limiter!LimitsHold'
    BY NextType, LimitsKept
  <2>2. SlotInv'
    BY SoundNext, SlotsKept DEF LimitInv, SlotInv
  <2>3. JobsHonest'
    BY JobsStayHonest DEF LimitInv
  <2>4. NothingLost' /\ WorkSettled' /\ StoreSettled' /\ UnfinishedHeld'
    BY NothingLostKept, WorkSettledKept, StoreSettledKept, UnfinishedHeldKept
  <2> QED
    BY <2>1, <2>2, <2>3, <2>4 DEF LimitInv
<1>3. Inv => JobsWithinLimit
  BY LimitsRespected
<1> QED
  BY <1>1, <1>2, <1>3, PTL DEF Spec
=============================================================================
