---------------------------- MODULE DeploymentProofs ---------------------------
(***************************************************************************)
(* That the Deployment controller records no image without a PrePullImage  *)
(* for it, for any number of Deployments, containers, images, rollouts,    *)
(* policies, faults and restarts, and with late caches.                    *)
(***************************************************************************)
EXTENDS DeploymentController, TLAPS

-----------------------------------------------------------------------------
(* Types. *)

LEMMA Chosen ==
  ASSUME NEW S, S # {}
  PROVE  (CHOOSE c \in S : TRUE) \in S
OBVIOUS

(* The containers extractImages takes the image of a key from. *)
Named(template, k, S) == {c \in S \cap DOMAIN template : Key[c] = k}
Source(template, k) ==
  IF Named(template, k, InitContainers) # {} THEN Named(template, k, InitContainers)
                                             ELSE Named(template, k, Containers)

LEMMA ImagesByKey ==
  ASSUME NEW t \in Templates
  PROVE  /\ DOMAIN extractImages(t) = {Key[c] : c \in DOMAIN t}
         /\ \A c \in DOMAIN t : c \in Containers \cup InitContainers /\ t[c] \in Images
         /\ \A k \in DOMAIN extractImages(t) :
              \E c \in DOMAIN t : Key[c] = k /\ extractImages(t)[k] = t[c]
<1>1. extractImages(t) =
        [k \in {Key[c] : c \in DOMAIN t} |-> t[CHOOSE c \in Source(t, k) : TRUE]]
  BY DEF extractImages, Source, Named
<1>2. \A c \in DOMAIN t : c \in Containers \cup InitContainers /\ t[c] \in Images
  BY DeploymentConstantsOK
<1>3. ASSUME NEW k \in {Key[c] : c \in DOMAIN t}
      PROVE  \E c \in DOMAIN t : Key[c] = k /\ extractImages(t)[k] = t[c]
  <2>1. PICK c \in DOMAIN t : Key[c] = k
    OBVIOUS
  <2>2. c \in Named(t, k, Containers) \/ c \in Named(t, k, InitContainers)
    BY <1>2, <2>1 DEF Named
  <2>3. Source(t, k) # {}
    BY <2>2 DEF Source
  <2>4. (CHOOSE b \in Source(t, k) : TRUE) \in Source(t, k)
    BY <2>3, Chosen
  <2>5. \A b \in Source(t, k) : b \in DOMAIN t /\ Key[b] = k
    BY DEF Source, Named
  <2> QED
    BY <1>1, <2>4, <2>5
<1> QED
  BY <1>1, <1>2, <1>3

LEMMA ExtractedType ==
  ASSUME NEW t \in Templates
  PROVE  /\ extractImages(t) \in Recorded
         /\ DOMAIN extractImages(t) \subseteq Keys
         /\ \A k \in DOMAIN extractImages(t) : extractImages(t)[k] \in Images
<1>1. DOMAIN extractImages(t) \subseteq Keys
  BY ImagesByKey DEF Keys
<1>2. \A k \in DOMAIN extractImages(t) : extractImages(t)[k] \in Images
  BY ImagesByKey
<1>3. extractImages(t) = [k \in DOMAIN extractImages(t) |-> extractImages(t)[k]]
  BY DEF extractImages
<1>4. extractImages(t) \in [DOMAIN extractImages(t) -> Images]
  BY <1>2, <1>3
<1> QED
  BY <1>1, <1>2, <1>4 DEF Recorded

LEMMA ChangedType ==
  ASSUME NEW d \in Deployments, cache \in [Deployments -> Object]
  PROVE  /\ Changed(d) \subseteq DOMAIN extractImages(cache[d].template)
         /\ cache[d].template \in Templates
BY DEF Changed, findChangedImages, Object

LEMMA PPIType ==
  ASSUME NEW d \in Deployments, NEW uid \in Nat, NEW img \in Images
  PROVE  /\ PPI(d, uid, img) \in PPIObject
         /\ PPI(d, uid, img).owner = d /\ PPI(d, uid, img).image = img
         /\ PPI(d, uid, img).uid = uid /\ ~PPI(d, uid, img).del /\ ~PPI(d, uid, img).done
BY DEF PPI, PPIObject

LEMMA DeletedType ==
  ASSUME NEW ppi \in PPIObject
  PROVE  /\ Deleted(ppi) \in PPIObject \cup {NoPPI}
         /\ Deleted(ppi) # NoPPI =>
              /\ Deleted(ppi).owner = ppi.owner /\ Deleted(ppi).image = ppi.image
              /\ Deleted(ppi).uid = ppi.uid /\ Deleted(ppi).done = ppi.done /\ Deleted(ppi).del
BY NoPPIIsAbsent DEF Deleted, PPIObject

LEMMA DeploymentType ==
  ASSUME NEW uid \in Nat, NEW rv \in Nat, NEW t \in Templates
  PROVE  /\ Deployment(uid, rv, t, NoImages) \in Object
         /\ Deployment(uid, rv, t, NoImages).exists
         /\ Deployment(uid, rv, t, NoImages).uid = uid
         /\ Deployment(uid, rv, t, NoImages).last = NoImages
BY DEF Deployment, Object, Recorded

LEMMA GoneType ==
  ASSUME NEW uid \in Nat, NEW rv \in Nat
  PROVE  /\ Gone(uid, rv) \in Object
         /\ ~Gone(uid, rv).exists /\ Gone(uid, rv).uid = uid /\ Gone(uid, rv).last = NoImages
<1>1. NoTemplate \in Templates
  BY DeploymentConstantsOK, Chosen DEF NoTemplate
<1> DEFINE obj == Deployment(uid, rv, NoTemplate, NoImages)
<1>2. obj \in Object /\ obj.uid = uid /\ obj.last = NoImages
  BY <1>1, DeploymentType
<1>3. Gone(uid, rv) = [obj EXCEPT !.exists = FALSE]
  BY DEF Gone
<1> HIDE DEF obj
<1> QED
  BY <1>2, <1>3 DEF Object

LEMMA ObjectFields ==
  ASSUME NEW obj \in Object
  PROVE  /\ obj.exists \in BOOLEAN /\ obj.uid \in Nat /\ obj.rv \in Nat
         /\ obj.template \in Templates /\ obj.last \in Recorded
BY DEF Object

(* Updates of stored Deployments. *)
WithLast(f, d, last) == [f EXCEPT ![d].last = last, ![d].rv = f[d].rv + 1]

LEMMA LastWritten ==
  ASSUME NEW f \in [Deployments -> Object], NEW d \in Deployments, NEW last \in Recorded
  PROVE  LET g == WithLast(f, d, last) IN
         /\ g \in [Deployments -> Object]
             /\ g[d].exists = f[d].exists /\ g[d].uid = f[d].uid /\ g[d].last = last
             /\ \A e \in Deployments \ {d} : g[e] = f[e]
<1> DEFINE g   == WithLast(f, d, last)
<1> DEFINE one == [f EXCEPT ![d] = [@ EXCEPT !.last = last]]
<1>1. [f[d] EXCEPT !.last = last] \in Object
  BY DEF Object
<1>2. /\ one \in [Deployments -> Object] /\ one[d] = [f[d] EXCEPT !.last = last]
      /\ \A e \in Deployments \ {d} : one[e] = f[e]
  BY <1>1
<1>3. /\ one[d].exists = f[d].exists /\ one[d].uid = f[d].uid /\ one[d].last = last
  BY <1>2 DEF Object
<1>4. g = [one EXCEPT ![d] = [one[d] EXCEPT !.rv = one[d].rv + 1]]
  BY <1>2 DEF WithLast
<1> HIDE DEF one, g
<1>5. one \in [Deployments -> Object] /\ one[d] \in Object
  BY <1>2
<1>6. [one[d] EXCEPT !.rv = one[d].rv + 1] \in Object
  BY <1>5 DEF Object
<1>7. g[d] = [one[d] EXCEPT !.rv = one[d].rv + 1]
  BY <1>2, <1>4
<1>8. g[d].exists = one[d].exists /\ g[d].uid = one[d].uid /\ g[d].last = one[d].last
  BY <1>2, <1>7 DEF Object
<1>9. /\ g \in [Deployments -> Object]
      /\ g[d].exists = f[d].exists /\ g[d].uid = f[d].uid /\ g[d].last = last
      /\ \A e \in Deployments \ {d} : g[e] = f[e]
  BY <1>2, <1>3, <1>4, <1>6, <1>8
<1> QED
  BY <1>9 DEF g

WithTemplate(f, d, t) == [f EXCEPT ![d].template = t, ![d].rv = f[d].rv + 1]

LEMMA TemplateWritten ==
  ASSUME NEW f \in [Deployments -> Object], NEW d \in Deployments, NEW t \in Templates
  PROVE  LET g == WithTemplate(f, d, t) IN
         /\ g \in [Deployments -> Object]
             /\ g[d].exists = f[d].exists /\ g[d].uid = f[d].uid /\ g[d].last = f[d].last
             /\ \A e \in Deployments \ {d} : g[e] = f[e]
<1> DEFINE g   == WithTemplate(f, d, t)
<1> DEFINE one == [f EXCEPT ![d] = [@ EXCEPT !.template = t]]
<1>1. [f[d] EXCEPT !.template = t] \in Object
  BY DEF Object
<1>2. /\ one \in [Deployments -> Object] /\ one[d] = [f[d] EXCEPT !.template = t]
      /\ \A e \in Deployments \ {d} : one[e] = f[e]
  BY <1>1
<1>3. /\ one[d].exists = f[d].exists /\ one[d].uid = f[d].uid /\ one[d].last = f[d].last
  BY <1>2 DEF Object
<1>4. g = [one EXCEPT ![d] = [one[d] EXCEPT !.rv = one[d].rv + 1]]
  BY <1>2 DEF WithTemplate
<1> HIDE DEF one, g
<1>5. one \in [Deployments -> Object] /\ one[d] \in Object
  BY <1>2
<1>6. [one[d] EXCEPT !.rv = one[d].rv + 1] \in Object
  BY <1>5 DEF Object
<1>7. g[d] = [one[d] EXCEPT !.rv = one[d].rv + 1]
  BY <1>2, <1>4
<1>8. g[d].exists = one[d].exists /\ g[d].uid = one[d].uid /\ g[d].last = one[d].last
  BY <1>2, <1>7 DEF Object
<1>9. /\ g \in [Deployments -> Object]
      /\ g[d].exists = f[d].exists /\ g[d].uid = f[d].uid /\ g[d].last = f[d].last
      /\ \A e \in Deployments \ {d} : g[e] = f[e]
  BY <1>2, <1>3, <1>4, <1>6, <1>8
<1> QED
  BY <1>9 DEF g

-----------------------------------------------------------------------------
(* What a step may do to the stored Deployments ... *)

Recreated(d) ==
  /\ ~store[d].exists /\ store[d].uid < MaxCreates
  /\ store'[d].exists /\ store'[d].uid = store[d].uid + 1 /\ store'[d].last = NoImages

Removed(d) ==
  ~store'[d].exists /\ store'[d].uid = store[d].uid /\ store'[d].last = NoImages

Updated(d) ==
  /\ store'[d].exists = store[d].exists /\ store'[d].uid = store[d].uid
  /\ \/ store'[d].last \in {store[d].last, NoImages}
     \/ /\ pc = "update" /\ cur = d
        /\ store'[d].last = extractImages(work.template)

StoreMoves ==
  /\ store' \in [Deployments -> Object]
  /\ \A d \in Deployments :
       store'[d] = store[d] \/ Recreated(d) \/ Removed(d) \/ Updated(d)

LEMMA RecordedStep ==
  ASSUME TypeOK, pc = "update", updateLastImages
  PROVE  StoreMoves
<1>1. cur \in Deployments /\ store \in [Deployments -> Object] /\ work.template \in Templates
  BY ObjectFields DEF TypeOK
<1>2. extractImages(work.template) \in Recorded
  BY <1>1, ExtractedType
<1>3. store' = WithLast(store, cur, extractImages(work.template))
  BY DEF updateLastImages, WithLast
<1>4. /\ store' \in [Deployments -> Object] /\ store'[cur].exists = store[cur].exists
      /\ store'[cur].uid = store[cur].uid /\ store'[cur].last = extractImages(work.template)
      /\ \A e \in Deployments \ {cur} : store'[e] = store[e]
  BY <1>1, <1>2, <1>3, LastWritten
<1> QED
  BY <1>1, <1>4 DEF StoreMoves, Updated

LEMMA UsersStep ==
  ASSUME TypeOK, NEW d \in Deployments, Create(d) \/ Delete(d) \/ Edit(d)
  PROVE  StoreMoves
<1>1. store \in [Deployments -> Object] /\ store[d] \in Object
  BY DEF TypeOK
<1>2. CASE Create(d)
  <2>1. PICK t \in Templates :
          store' = [store EXCEPT ![d] = Deployment(@.uid + 1, @.rv + 1, t, NoImages)]
    BY <1>2 DEF Create
  <2>2. store[d].uid + 1 \in Nat /\ store[d].rv + 1 \in Nat
    BY <1>1, ObjectFields
  <2>3. store'[d] = Deployment(store[d].uid + 1, store[d].rv + 1, t, NoImages)
    BY <1>1, <2>1
  <2>4. /\ store'[d] \in Object /\ store'[d].exists /\ store'[d].uid = store[d].uid + 1
        /\ store'[d].last = NoImages
    BY <2>2, <2>3, DeploymentType
  <2> QED
    BY <1>1, <1>2, <2>1, <2>4 DEF Create, StoreMoves, Recreated
<1>3. CASE Delete(d)
  <2>1. store[d].uid \in Nat /\ store[d].rv + 1 \in Nat
    BY <1>1, ObjectFields
  <2>2. store'[d] = Gone(store[d].uid, store[d].rv + 1)
    BY <1>1, <1>3 DEF Delete
  <2>3. /\ store'[d] \in Object /\ ~store'[d].exists /\ store'[d].uid = store[d].uid
        /\ store'[d].last = NoImages
    BY <2>1, <2>2, GoneType
  <2> QED
    BY <1>1, <1>3, <2>3 DEF Delete, StoreMoves, Removed
<1>4. CASE Edit(d)
  <2>1. ASSUME NEW t \in Templates,
               store' = [store EXCEPT ![d].template = t, ![d].rv = @ + 1]
        PROVE  StoreMoves
    <3>1. store' = WithTemplate(store, d, t)
      BY <2>1 DEF WithTemplate
    <3>2. /\ store' \in [Deployments -> Object] /\ store'[d].exists = store[d].exists
          /\ store'[d].uid = store[d].uid /\ store'[d].last = store[d].last
          /\ \A e \in Deployments \ {d} : store'[e] = store[e]
      BY <1>1, <3>1, TemplateWritten, Zenon
    <3> QED
      BY <3>2 DEF StoreMoves, Updated
  <2>2. ASSUME NEW last \in {store[d].last, NoImages},
               store' = [store EXCEPT ![d].last = last, ![d].rv = @ + 1]
        PROVE  StoreMoves
    <3>1. last \in Recorded
      BY <1>1, ObjectFields DEF Recorded
    <3>2. store' = WithLast(store, d, last)
      BY <2>2 DEF WithLast
    <3>3. /\ store' \in [Deployments -> Object] /\ store'[d].exists = store[d].exists
          /\ store'[d].uid = store[d].uid /\ store'[d].last = last
          /\ \A e \in Deployments \ {d} : store'[e] = store[e]
      BY <1>1, <3>1, <3>2, LastWritten
    <3> QED
      BY <3>3 DEF StoreMoves, Updated
  <2> QED
    BY <1>4, <2>1, <2>2 DEF Edit
<1> QED
  BY <1>2, <1>3, <1>4

LEMMA StoreStep ==
  ASSUME TypeOK, [Next]_vars
  PROVE  StoreMoves
<1>1. ASSUME UNCHANGED store
      PROVE  StoreMoves
  BY <1>1 DEF StoreMoves, TypeOK
<1>2. ASSUME NEW d \in Deployments, Reconcile(d)
      PROVE  UNCHANGED store
  BY <1>2 DEF Reconcile, NothingToDo, ReadFails, NoTargetNodes, OnlyRemovals, ImagesChanged,
     Begin
<1>3. CASE WorkStep
  <2>1. ASSUME NEW k \in Keys, \/ AlreadyExists(k) \/ DeleteOther(k) \/ CreatePPI(k)
                               \/ CreateRefused(k) \/ CallFails(k)
        PROVE  UNCHANGED store
    BY <2>1 DEF AlreadyExists, DeleteOther, CreatePPI, CreateRefused, CallFails
  <2> QED
    BY <1>1, <1>3, <2>1, RecordedStep DEF WorkStep, AllCreated, UpdateWritten, UpdateRejected,
       UpdateFails
<1>4. CASE Users
  BY <1>1, <1>4, UsersStep DEF Users, EditPolicy
<1>5. CASE Informers \/ PPIController \/ Collector \/ Restart
  BY <1>1, <1>5 DEF Informers, SyncDeployment, TimerFires, SyncPPI, PPIController, PPIStep,
     Collector, CollectGarbage, Restart
<1>6. CASE Quiet \/ UNCHANGED vars
  BY <1>1, <1>6 DEF Quiet, vars
<1> QED
  BY <1>1, <1>2, <1>3, <1>4, <1>5, <1>6 DEF Next

(* ... and to the PrePullImages. *)
Created(k) ==
  /\ pc # "idle" /\ ppis[k] = NoPPI
  /\ \E j \in todo : k = ppiKey(j) /\ ppis'[k] = PPI(cur, work.uid, image(j))

Replaced(k) ==
  /\ ppis[k] # NoPPI
  /\ pc = "images" /\ \E j \in todo : k = ppiKey(j) /\ existing(j) \notin {NoPPI, image(j)}
  /\ ppis'[k] = Deleted(ppis[k])

Advanced(k) ==
  /\ ppis[k] # NoPPI /\ ~ppis[k].del
  /\ \/ ppis'[k] = [ppis[k] EXCEPT !.fin = TRUE]
     \/ /\ ppis'[k] = [ppis[k] EXCEPT !.done = TRUE]
        /\ <<ppis[k].owner, ppis[k].image>> \in settled'

LetGo(k) ==
  /\ ppis[k] # NoPPI
  /\ \/ ppis[k].done /\ ppis'[k] = Deleted(ppis[k])
     \/ ppis[k].del /\ ppis'[k] = NoPPI
     \/ /\ ~store[ppis[k].owner].exists \/ store[ppis[k].owner].uid # ppis[k].uid
        /\ ppis'[k] = Deleted(ppis[k])

PPIsMove ==
  /\ ppis' \in [PPIKeys -> PPIObject \cup {NoPPI}]
  /\ settled' \subseteq Deployments \X Images
  /\ settled \subseteq settled'
  /\ \A k \in PPIKeys : ppis'[k] = ppis[k] \/ Created(k) \/ Replaced(k) \/ Advanced(k) \/ LetGo(k)

LEMMA WorkedOn ==
  ASSUME TypeOK, NEW j \in todo
  PROVE  /\ pc # "idle" /\ cur \in Deployments /\ work \in Object
         /\ j \in DOMAIN extractImages(work.template) /\ image(j) \in Images
         /\ ppiKey(j) = generatePrePullImageName(cur, image(j)) /\ ppiKey(j) \in PPIKeys
<1>1. /\ pc # "idle" /\ cur \in Deployments /\ work \in Object
      /\ j \in DOMAIN extractImages(work.template)
  BY DEF TypeOK
<1>2. image(j) \in Images
  BY <1>1, ExtractedType, ObjectFields DEF image
<1> QED
  BY <1>1, <1>2 DEF ppiKey, PPIKeys

LEMMA WorkPPIs ==
  ASSUME TypeOK, NEW j \in Keys,
         \/ AlreadyExists(j) \/ DeleteOther(j) \/ CreatePPI(j) \/ CreateRefused(j)
         \/ CallFails(j)
  PROVE  PPIsMove
<1>1. /\ ppis \in [PPIKeys -> PPIObject \cup {NoPPI}] /\ settled' = settled
      /\ settled \subseteq Deployments \X Images
  BY DEF TypeOK, AlreadyExists, DeleteOther, CreatePPI, CreateRefused, CallFails
<1>2. ASSUME UNCHANGED ppis
      PROVE  PPIsMove
  BY <1>1, <1>2 DEF PPIsMove
<1>3. ASSUME ToCreate(j), ppis[ppiKey(j)] = NoPPI,
             ppis' = [ppis EXCEPT ![ppiKey(j)] = PPI(cur, work.uid, image(j))]
      PROVE  PPIsMove
  <2>1. j \in todo
    BY <1>3 DEF ToCreate, TypeOK
  <2>2. PPI(cur, work.uid, image(j)) \in PPIObject
    BY <2>1, WorkedOn, PPIType, ObjectFields
  <2>3. ppis'[ppiKey(j)] = PPI(cur, work.uid, image(j))
    BY <1>1, <1>3, <2>1, WorkedOn
  <2>4. Created(ppiKey(j))
    BY <1>3, <2>1, <2>3, WorkedOn DEF Created
  <2> QED
    BY <1>1, <1>3, <2>1, <2>2, <2>4, WorkedOn DEF PPIsMove
<1>4. ASSUME pc = "images", j \in todo, existing(j) \notin {NoPPI, image(j)},
             ppis[ppiKey(j)] # NoPPI, ppis' = [ppis EXCEPT ![ppiKey(j)] = Deleted(@)]
      PROVE  PPIsMove
  <2>1. ppiKey(j) \in PPIKeys
    BY <1>4, WorkedOn
  <2>2. ppis'[ppiKey(j)] = Deleted(ppis[ppiKey(j)]) /\ ppis[ppiKey(j)] \in PPIObject
    BY <1>1, <1>4, <2>1
  <2>3. Replaced(ppiKey(j))
    BY <1>4, <2>2 DEF Replaced
  <2>4. Deleted(ppis[ppiKey(j)]) \in PPIObject \cup {NoPPI}
    BY <2>2, DeletedType
  <2> QED
    BY <1>1, <1>4, <2>1, <2>3, <2>4 DEF PPIsMove
<1>5. CASE AlreadyExists(j) \/ CreateRefused(j)
  BY <1>2, <1>5 DEF AlreadyExists, CreateRefused
<1>6. CASE DeleteOther(j)
  BY <1>2, <1>4, <1>6 DEF DeleteOther
<1>7. CASE CreatePPI(j)
  BY <1>3, <1>7 DEF CreatePPI
<1>8. CASE CallFails(j)
  BY <1>2, <1>3, <1>4, <1>8 DEF CallFails, ToCreate
<1> QED
  BY <1>5, <1>6, <1>7, <1>8

LEMMA OthersPPIs ==
  ASSUME TypeOK, NEW k \in PPIKeys, PPIStep(k) \/ CollectGarbage(k)
  PROVE  PPIsMove
<1>1. /\ ppis \in [PPIKeys -> PPIObject \cup {NoPPI}] /\ settled \subseteq Deployments \X Images
      /\ ppis[k] # NoPPI /\ ppis[k] \in PPIObject
  BY DEF TypeOK, PPIStep, CollectGarbage
<1>2. /\ ppis[k].owner \in Deployments /\ ppis[k].image \in Images
      /\ Deleted(ppis[k]) \in PPIObject \cup {NoPPI}
      /\ [ppis[k] EXCEPT !.fin = TRUE] \in PPIObject
      /\ [ppis[k] EXCEPT !.done = TRUE] \in PPIObject
  BY <1>1, DeletedType DEF PPIObject
<1>3. ASSUME ~ppis[k].del, ppis' = [ppis EXCEPT ![k].fin = TRUE], settled' = settled
      PROVE  PPIsMove
  BY <1>1, <1>2, <1>3 DEF PPIsMove, Advanced
<1>4. ASSUME ~ppis[k].del, ppis' = [ppis EXCEPT ![k].done = TRUE],
             settled' = settled \cup {<<ppis[k].owner, ppis[k].image>>}
      PROVE  PPIsMove
  <2>1. settled' \subseteq Deployments \X Images /\ settled \subseteq settled'
    BY <1>1, <1>2, <1>4
  <2>2. ppis'[k] = [ppis[k] EXCEPT !.done = TRUE]
    BY <1>1, <1>4
  <2>3. Advanced(k)
    BY <1>1, <1>4, <2>2 DEF Advanced
  <2>4. ppis' = [ppis EXCEPT ![k] = [ppis[k] EXCEPT !.done = TRUE]]
    BY <1>4
  <2> QED
    BY <1>1, <1>2, <2>1, <2>3, <2>4 DEF PPIsMove
<1>5. ASSUME \/ ppis[k].done \/ ~store[ppis[k].owner].exists
             \/ store[ppis[k].owner].uid # ppis[k].uid,
             ppis' = [ppis EXCEPT ![k] = Deleted(@)], settled' = settled
      PROVE  PPIsMove
  BY <1>1, <1>2, <1>5 DEF PPIsMove, LetGo
<1>6. ASSUME ppis[k].del, ppis' = [ppis EXCEPT ![k] = NoPPI], settled' = settled
      PROVE  PPIsMove
  BY <1>1, <1>2, <1>6 DEF PPIsMove, LetGo
<1> QED
  BY <1>3, <1>4, <1>5, <1>6 DEF PPIStep, CollectGarbage

LEMMA PPIsStep ==
  ASSUME TypeOK, [Next]_vars
  PROVE  PPIsMove
<1>1. ASSUME UNCHANGED <<ppis, settled>>
      PROVE  PPIsMove
  BY <1>1 DEF PPIsMove, TypeOK
<1>2. ASSUME NEW d \in Deployments, Reconcile(d)
      PROVE  UNCHANGED <<ppis, settled>>
  BY <1>2 DEF Reconcile, NothingToDo, ReadFails, NoTargetNodes, OnlyRemovals, ImagesChanged,
     Begin
<1>3. CASE WorkStep
  BY <1>1, <1>3, WorkPPIs DEF WorkStep, AllCreated, UpdateWritten, UpdateRejected, UpdateFails
<1>4. CASE Users
  BY <1>1, <1>4 DEF Users, Create, Delete, Edit, EditPolicy
<1>5. CASE Informers \/ Restart
  BY <1>1, <1>5 DEF Informers, SyncDeployment, TimerFires, SyncPPI, Restart
<1>6. CASE PPIController \/ Collector
  BY <1>6, OthersPPIs DEF PPIController, Collector
<1>7. CASE Quiet \/ UNCHANGED vars
  BY <1>1, <1>7 DEF Quiet, vars
<1> QED
  BY <1>1, <1>2, <1>3, <1>4, <1>5, <1>6, <1>7 DEF Next

-----------------------------------------------------------------------------
(* ... to the caches ... *)
CachesMove ==
  /\ cache' \in [Deployments -> Object]
  /\ \A d \in Deployments : cache'[d] \in {cache[d], store[d]}
  /\ ppiCache' \in [PPIKeys -> Images \cup {NoPPI}]
  /\ \A k \in PPIKeys : ppiCache'[k] \in {ppiCache[k], imagesOfPPIs[k]}

LEMMA CachesStep ==
  ASSUME TypeOK, [Next]_vars
  PROVE  CachesMove
<1>1. /\ store \in [Deployments -> Object] /\ cache \in [Deployments -> Object]
      /\ ppiCache \in [PPIKeys -> Images \cup {NoPPI}]
      /\ ppis \in [PPIKeys -> PPIObject \cup {NoPPI}]
  BY DEF TypeOK
<1>2. imagesOfPPIs \in [PPIKeys -> Images \cup {NoPPI}]
  BY <1>1 DEF imagesOfPPIs, ImageOf, PPIObject
<1> HIDE DEF imagesOfPPIs
<1>3. ASSUME UNCHANGED <<cache, ppiCache>>
      PROVE  CachesMove
  BY <1>1, <1>3 DEF CachesMove
<1>4. ASSUME NEW d \in Deployments, Reconcile(d)
      PROVE  UNCHANGED <<cache, ppiCache>>
  BY <1>4 DEF Reconcile, NothingToDo, ReadFails, NoTargetNodes, OnlyRemovals, ImagesChanged,
     Begin
<1>5. CASE WorkStep \/ Users \/ PPIController \/ Collector
  BY <1>3, <1>5 DEF WorkStep, AlreadyExists, DeleteOther, CreatePPI, CreateRefused, CallFails,
     AllCreated, UpdateWritten, UpdateRejected, UpdateFails, Users, Create, Delete, Edit,
     EditPolicy, PPIController, PPIStep, Collector, CollectGarbage
<1>6. CASE Informers
  <2>1. ASSUME NEW d \in Deployments, SyncDeployment(d)
        PROVE  CachesMove
    BY <1>1, <2>1 DEF SyncDeployment, CachesMove
  <2>2. ASSUME NEW k \in PPIKeys, SyncPPI(k)
        PROVE  CachesMove
    BY <1>1, <1>2, <2>2 DEF SyncPPI, CachesMove
  <2> QED
    BY <1>3, <1>6, <2>1, <2>2 DEF Informers, TimerFires
<1>7. CASE Restart
  BY <1>1, <1>2, <1>7 DEF Restart, CachesMove
<1>8. CASE Quiet \/ UNCHANGED vars
  BY <1>3, <1>8 DEF Quiet, vars
<1> QED
  BY <1>3, <1>4, <1>5, <1>6, <1>7, <1>8 DEF Next

(* ... and to the reconcile in progress. *)
Ended ==
  pc' = "idle" /\ cur' = NoDeployment /\ work' \in {work, Gone(0, 0)} /\ todo' = {}

Begun ==
  /\ pc' \in {"images", "update"} /\ cur' \in Deployments
  /\ cache[cur'].exists /\ work' = cache[cur'] /\ todo' = Changed(cur')
  /\ pc' = "update" => todo' = {}

Handled(j) ==
  /\ j \in todo /\ todo' = todo \ {j}
  /\ \/ existing(j) = image(j)
     \/ ppis'[ppiKey(j)] = PPI(cur, work.uid, image(j))

Continued ==
  /\ pc # "idle" /\ pc' \in {"images", "create", "update"} /\ cur' = cur /\ work' = work
  /\ todo' = todo \/ \E j \in todo : Handled(j)
  /\ pc' = "create" => at' \in todo'
  /\ pc' = "update" => todo' = {}

WorkMoves == Ended \/ Begun \/ Continued

LEMMA WorkersStep ==
  ASSUME TypeOK, NEW j \in Keys,
         \/ AlreadyExists(j) \/ DeleteOther(j) \/ CreatePPI(j) \/ CreateRefused(j)
         \/ CallFails(j)
  PROVE  WorkMoves
<1>1. CASE AlreadyExists(j)
  BY <1>1 DEF AlreadyExists, WorkMoves, Continued, Handled
<1>2. CASE DeleteOther(j)
  BY <1>2 DEF DeleteOther, Return, WorkMoves, Continued, Ended
<1>3. CASE CreatePPI(j)
  <2>1. j \in todo
    BY <1>3 DEF CreatePPI, ToCreate, TypeOK
  <2>2. ppiKey(j) \in PPIKeys /\ pc # "idle"
    BY <2>1, WorkedOn
  <2>3. ppis'[ppiKey(j)] = PPI(cur, work.uid, image(j))
    BY <1>3, <2>2 DEF CreatePPI, TypeOK
  <2> QED
    BY <1>3, <2>1, <2>2, <2>3 DEF CreatePPI, WorkMoves, Continued, Handled
<1>4. CASE CreateRefused(j) \/ CallFails(j)
  BY <1>4 DEF CreateRefused, CallFails, Return, WorkMoves, Ended
<1> QED
  BY <1>1, <1>2, <1>3, <1>4

LEMMA WorkStepMoves ==
  ASSUME TypeOK, [Next]_vars
  PROVE  WorkMoves
<1>1. ASSUME UNCHANGED workVars
      PROVE  WorkMoves
  BY <1>1 DEF TypeOK, workVars, WorkMoves, Continued, Ended
<1>2. ASSUME NEW d \in Deployments, Reconcile(d)
      PROVE  WorkMoves
  <2>1. CASE NothingToDo(d) \/ ReadFails(d) \/ NoTargetNodes(d)
    BY <1>1, <2>1 DEF NothingToDo, ReadFails, NoTargetNodes
  <2>2. CASE OnlyRemovals(d) \/ ImagesChanged(d)
    BY <2>2 DEF OnlyRemovals, ImagesChanged, Watched, Begin, WorkMoves, Begun
  <2> QED
    BY <1>2, <2>1, <2>2 DEF Reconcile
<1>3. CASE WorkStep
  <2>1. CASE AllCreated
    BY <2>1 DEF AllCreated, WorkMoves, Continued
  <2>2. CASE UpdateWritten \/ UpdateRejected \/ UpdateFails
    BY <2>2 DEF UpdateWritten, UpdateRejected, UpdateFails, Return, WorkMoves, Ended
  <2> QED
    BY <1>3, <2>1, <2>2, WorkersStep DEF WorkStep
<1>4. CASE Users \/ Informers \/ PPIController \/ Collector
  BY <1>1, <1>4 DEF Users, Create, Delete, Edit, EditPolicy, Informers, SyncDeployment,
     TimerFires, SyncPPI, PPIController, PPIStep, Collector, CollectGarbage
<1>5. CASE Restart
  BY <1>5 DEF Restart, WorkMoves, Ended
<1>6. CASE Quiet \/ UNCHANGED vars
  BY <1>1, <1>6 DEF Quiet, vars
<1> QED
  BY <1>2, <1>3, <1>4, <1>5, <1>6 DEF Next

-----------------------------------------------------------------------------
(* The shape of the state. *)

LEMMA WorkTyped ==
  ASSUME TypeOK, WorkMoves
  PROVE  /\ pc' \in {"idle", "images", "create", "update"}
         /\ cur' \in Deployments \cup {NoDeployment} /\ (pc' = "idle" <=> cur' = NoDeployment)
         /\ work' \in Object /\ todo' \subseteq DOMAIN extractImages(work'.template)
         /\ pc' = "create" => at' \in todo'
         /\ pc' \in {"idle", "update"} => todo' = {}
<1>1. Gone(0, 0) \in Object
  BY GoneType
<1>2. CASE Ended
  BY <1>1, <1>2 DEF Ended, TypeOK
<1>3. CASE Begun
  <2>1. Changed(cur') \subseteq DOMAIN extractImages(cache[cur'].template)
    BY <1>3, ChangedType DEF Begun, TypeOK
  <2> QED
    BY <1>3, <2>1, DeploymentConstantsOK DEF Begun, TypeOK
<1>4. CASE Continued
  BY <1>4 DEF Continued, Handled, TypeOK
<1> QED
  BY <1>2, <1>3, <1>4 DEF WorkMoves

LEMMA QueueTyped ==
  ASSUME TypeOK, [Next]_vars
  PROVE  queue' \subseteq Deployments /\ timer' \subseteq Deployments
<1>1. /\ queue \subseteq Deployments /\ timer \subseteq Deployments
      /\ pc # "idle" => cur \in Deployments
  BY DEF TypeOK
<1>2. ASSUME NEW d \in Deployments, Reconcile(d)
      PROVE  queue' \subseteq Deployments /\ timer' \subseteq Deployments
  BY <1>1, <1>2 DEF Reconcile, NothingToDo, ReadFails, NoTargetNodes, OnlyRemovals,
     ImagesChanged, Begin, Take
<1>3. CASE WorkStep
  <2>1. UNCHANGED queue
    BY <1>3 DEF WorkStep, AlreadyExists, DeleteOther, CreatePPI, CreateRefused, CallFails,
       AllCreated, UpdateWritten, UpdateRejected, UpdateFails
  <2>2. pc # "idle" /\ (UNCHANGED timer \/ \E again \in BOOLEAN : Return(again))
    BY <1>3 DEF WorkStep, AlreadyExists, DeleteOther, CreatePPI, CreateRefused, CallFails,
       ToCreate, AllCreated, UpdateWritten, UpdateRejected, UpdateFails
  <2> QED
    BY <1>1, <2>1, <2>2 DEF Return
<1>4. CASE Users \/ Informers \/ Restart
  BY <1>1, <1>4 DEF Users, Create, Delete, Edit, EditPolicy, Informers, SyncDeployment,
     TimerFires, SyncPPI, Restart
<1>5. CASE PPIController \/ Collector \/ Quiet \/ UNCHANGED vars
  BY <1>1, <1>5 DEF PPIController, PPIStep, Collector, CollectGarbage, Quiet, vars
<1> QED
  BY <1>2, <1>3, <1>4, <1>5 DEF Next

LEMMA EnvironmentTyped ==
  ASSUME TypeOK, [Next]_vars
  PROVE  /\ policies' \subseteq Policies /\ edits' \in Nat /\ policyEdits' \in Nat
         /\ faults' \in Nat /\ outages' \in Nat /\ restarts' \in Nat
<1>1. /\ policies \subseteq Policies /\ edits \in Nat /\ policyEdits \in Nat
      /\ faults \in Nat /\ outages \in Nat /\ restarts \in Nat
  BY DEF TypeOK
<1> DEFINE Goal == /\ policies' \subseteq Policies /\ edits' \in Nat /\ policyEdits' \in Nat
                   /\ faults' \in Nat /\ outages' \in Nat /\ restarts' \in Nat
<1>2. ASSUME UNCHANGED <<policies, edits, policyEdits>>, faults' \in {faults, faults + 1},
             outages' \in {outages, outages + 1}, restarts' \in {restarts, restarts + 1}
      PROVE  Goal
  BY <1>1, <1>2
<1>3. ASSUME NEW d \in Deployments, Reconcile(d)
      PROVE  Goal
  BY <1>2, <1>3 DEF Reconcile, NothingToDo, ReadFails, NoTargetNodes, OnlyRemovals,
     ImagesChanged, Begin, Take, Fault, envVars, userVars
<1>4. CASE WorkStep \/ Informers \/ PPIController \/ Collector \/ Restart
  BY <1>2, <1>4 DEF WorkStep, AlreadyExists, DeleteOther, CreatePPI, CreateRefused, CallFails,
     AllCreated, UpdateWritten, UpdateRejected, UpdateFails, Fault, Informers, SyncDeployment,
     TimerFires, SyncPPI, PPIController, PPIStep, Collector, CollectGarbage, Restart, envVars,
     userVars
<1>5. CASE Users
  <2>1. ASSUME NEW d \in Deployments, Create(d) \/ Delete(d)
        PROVE  Goal
    BY <1>2, <2>1 DEF Create, Delete, envVars, userVars
  <2>2. ASSUME NEW d \in Deployments, Edit(d)
        PROVE  Goal
    <3>1. /\ edits' = edits + 1
          /\ UNCHANGED <<policies, policyEdits, faults, outages, restarts>>
      BY <2>2 DEF Edit
    <3> QED
      BY <1>1, <3>1
  <2>3. ASSUME NEW policy \in Policies, EditPolicy(policy)
        PROVE  Goal
    BY <1>1, <2>3 DEF EditPolicy
  <2> QED
    BY <1>5, <2>1, <2>2, <2>3 DEF Users
<1>6. CASE Quiet \/ UNCHANGED vars
  BY <1>2, <1>6 DEF Quiet, vars, envVars, userVars
<1> QED
  BY <1>3, <1>4, <1>5, <1>6 DEF Next

LEMMA TypeStep ==
  ASSUME TypeOK, [Next]_vars
  PROVE  TypeOK'
<1>1. StoreMoves /\ PPIsMove /\ CachesMove /\ WorkMoves
  BY StoreStep, PPIsStep, CachesStep, WorkStepMoves
<1> QED
  BY <1>1, WorkTyped, QueueTyped, EnvironmentTyped DEF TypeOK, StoreMoves, PPIsMove, CachesMove

LEMMA TypeInit == Init => TypeOK
<1> SUFFICES ASSUME Init
             PROVE  TypeOK
  OBVIOUS
<1>1. Gone(0, 0) \in Object
  BY GoneType
<1>2. imagesOfPPIs \in [PPIKeys -> Images \cup {NoPPI}]
  BY DEF Init, imagesOfPPIs, ImageOf
<1> QED
  BY <1>1, <1>2, DeploymentConstantsOK DEF Init, TypeOK

(* What the state always looks like; todo holds nothing but keys of the images
   the reconcile has read. *)
THEOREM DeploymentTypeCorrect == Spec => []TypeOK
<1>1. TypeOK /\ [Next]_vars => TypeOK'
  BY TypeStep
<1> QED
  BY <1>1, TypeInit, PTL DEF Spec

-----------------------------------------------------------------------------
(* Recorded images are covered.  The annotation is written from a copy of the
   Deployment that may be old, after PrePullImages were looked up in a cache that
   may be old: what carries over such gaps is that an image once handed to a
   PrePullImage stays handed over, as long as no Deployment is born twice and
   nothing replaces the PrePullImage of another image. *)

(* One Deployment of a name in all; containers told apart by their keys,
   PrePullImages by their names. *)
OneLife == MaxCreates <= 1

KeysDistinct ==
  \A a, b \in Containers \cup InitContainers : Key[a] = Key[b] => a = b

PPINamesDistinct ==
  \A d, e \in Deployments : \A img, other \in Images :
    generatePrePullImageName(d, img) = generatePrePullImageName(e, other)
      => d = e /\ img = other

Departed(d) == ~store[d].exists /\ store[d].uid >= 1

HandedOver(d, img) ==
  \/ <<d, img>> \in settled
  \/ Departed(d)
  \/ LET k == generatePrePullImageName(d, img) IN ppis[k] # NoPPI /\ ~ppis[k].del

(* A PrePullImage p in the API server, of name k. *)
OwnedAs(p, k) ==
  /\ k = generatePrePullImageName(p.owner, p.image)
  /\ p.uid = store[p.owner].uid /\ p.uid >= 1
  /\ p.done => <<p.owner, p.image>> \in settled
  /\ p.del => <<p.owner, p.image>> \in settled \/ Departed(p.owner)

Owned == \A k \in PPIKeys : ppis[k] # NoPPI => OwnedAs(ppis[k], k)

(* The cached one. *)
CacheOwned ==
  \A d \in Deployments, img \in Images :
    LET k == generatePrePullImageName(d, img) IN
    ppiCache[k] # NoPPI => ppiCache[k] = img /\ HandedOver(d, img)

(* No copy of a Deployment is of another life. *)
BornOnce ==
  /\ \A d \in Deployments :
       /\ store[d].uid <= 1 /\ (store[d].exists => store[d].uid >= 1)
       /\ cache[d].exists => store[d].uid >= 1 /\ cache[d].uid = store[d].uid
  /\ pc # "idle" => store[cur].uid >= 1 /\ work.uid = store[cur].uid

(* What an annotation lists, as stored or as cached. *)
AllHanded(d, last) ==
  last # NoImages => \A k \in DOMAIN last : HandedOver(d, last[k])

LastHanded ==
  \A d \in Deployments : AllHanded(d, store[d].last) /\ AllHanded(d, cache[d].last)

(* What the reconcile in progress has behind it. *)
Progress ==
  pc # "idle" =>
    \A k \in DOMAIN extractImages(work.template) : k \in todo \/ HandedOver(cur, image(k))

RecordInv == TypeOK /\ Owned /\ CacheOwned /\ BornOnce /\ LastHanded /\ Progress

-----------------------------------------------------------------------------
(* Handed over is handed over for good. *)

LEMMA UidsKept ==
  ASSUME OneLife, BornOnce, TypeOK, StoreMoves, NEW d \in Deployments
  PROVE  /\ store'[d].uid <= 1 /\ (store'[d].exists => store'[d].uid >= 1)
         /\ store[d].uid >= 1 => store'[d].uid = store[d].uid
         /\ Departed(d) => Departed(d)'
<1>1. store[d] \in Object /\ store'[d] \in Object
  BY DEF TypeOK, StoreMoves
<1>2. /\ store[d].uid \in Nat /\ store'[d].uid \in Nat
      /\ store[d].exists \in BOOLEAN /\ store'[d].exists \in BOOLEAN
  BY <1>1, ObjectFields
<1>3. MaxCreates \in Nat
  BY DeploymentConstantsOK
<1>4. CASE store'[d] = store[d] \/ Removed(d) \/ Updated(d)
  BY <1>2, <1>4 DEF BornOnce, Departed, Removed, Updated
<1>5. CASE Recreated(d)
  BY <1>2, <1>3, <1>5 DEF BornOnce, Departed, Recreated, OneLife
<1> QED
  BY <1>4, <1>5 DEF StoreMoves

(* The PrePullImage under the name of <<d, img>> is theirs. *)
LEMMA WhoseItIs ==
  ASSUME TypeOK, Owned, PPINamesDistinct, NEW d \in Deployments, NEW img \in Images,
         NEW k, k = generatePrePullImageName(d, img), ppis[k] # NoPPI
  PROVE  /\ k \in PPIKeys /\ ppis[k] \in PPIObject
         /\ ppis[k].owner = d /\ ppis[k].image = img
<1>1. k \in PPIKeys
  BY DEF PPIKeys
<1>2. ppis[k] \in PPIObject
  BY <1>1 DEF TypeOK
<1>3. ppis[k].owner \in Deployments /\ ppis[k].image \in Images
  BY <1>2 DEF PPIObject
<1>4. k = generatePrePullImageName(ppis[k].owner, ppis[k].image)
  BY <1>1 DEF Owned, OwnedAs
<1> QED
  BY <1>1, <1>2, <1>3, <1>4 DEF PPINamesDistinct

LEMMA NothingReplaced ==
  ASSUME TypeOK, Owned, CacheOwned, PPINamesDistinct, NEW k \in PPIKeys
  PROVE  ~Replaced(k)
<1> SUFFICES ASSUME Replaced(k)
             PROVE  FALSE
  OBVIOUS
<1>1. PICK j \in todo : k = ppiKey(j) /\ existing(j) \notin {NoPPI, image(j)}
  BY DEF Replaced
<1>2. /\ cur \in Deployments /\ image(j) \in Images
      /\ k = generatePrePullImageName(cur, image(j))
  BY <1>1, WorkedOn
<1>3. CASE Lag
  BY <1>1, <1>2, <1>3 DEF existing, CacheOwned
<1>4. CASE ~Lag
  <2>1. existing(j) = ImageOf(ppis[k]) /\ ppis[k] # NoPPI
    BY <1>1, <1>4 DEF existing, imagesOfPPIs, ImageOf
  <2>2. ppis[k].image = image(j)
    BY <1>2, <2>1, WhoseItIs
  <2> QED
    BY <1>1, <2>1, <2>2 DEF ImageOf
<1> QED
  BY <1>3, <1>4

LEMMA StillHandedOver ==
  ASSUME OneLife, PPINamesDistinct, TypeOK, Owned, CacheOwned, BornOnce,
         StoreMoves, PPIsMove, NEW d \in Deployments, NEW img \in Images, HandedOver(d, img)
  PROVE  HandedOver(d, img)'
<1> DEFINE k == generatePrePullImageName(d, img)
<1>1. CASE <<d, img>> \in settled
  BY <1>1 DEF PPIsMove, HandedOver
<1>2. CASE Departed(d)
  BY <1>2, UidsKept DEF HandedOver
<1>3. CASE ppis[k] # NoPPI /\ ~ppis[k].del
  <2>1. k \in PPIKeys /\ ppis[k] \in PPIObject
    BY <1>3, WhoseItIs
  <2>2. ppis[k].owner = d /\ ppis[k].image = img
    BY <1>3, WhoseItIs
  <2> HIDE DEF k
  <2>3. CASE ppis'[k] = ppis[k]
    BY <1>3, <2>3 DEF k, HandedOver
  <2>4. CASE Advanced(k)
    BY <1>3, <2>1, <2>4, NoPPIIsAbsent DEF k, HandedOver, Advanced, PPIObject
  <2>5. CASE LetGo(k)
    <3>1. ppis[k].uid = store[d].uid /\ ppis[k].uid >= 1
          /\ (ppis[k].done => <<d, img>> \in settled)
      BY <1>3, <2>1, <2>2 DEF Owned, OwnedAs
    <3>2. <<d, img>> \in settled \/ Departed(d)
      BY <1>3, <2>2, <2>5, <3>1 DEF LetGo, Departed
    <3> QED
      BY <1>1, <1>2, <3>2
  <2> QED
    BY <1>3, <2>1, <2>3, <2>4, <2>5, NothingReplaced DEF PPIsMove, Created
<1> QED
  BY <1>1, <1>2, <1>3 DEF HandedOver

-----------------------------------------------------------------------------
(* Every step keeps the invariant. *)

LEMMA OwnedStep ==
  ASSUME OneLife, PPINamesDistinct, RecordInv, StoreMoves, PPIsMove
  PROVE  Owned'
<1>1. TypeOK /\ Owned /\ CacheOwned /\ BornOnce
  BY DEF RecordInv
<1>2. settled \subseteq settled'
  BY DEF PPIsMove
<1>3. ASSUME NEW k \in PPIKeys, NEW q, q = ppis'[k], Created(k)
      PROVE  OwnedAs(q, k)'
  <2>1. PICK j \in todo : k = ppiKey(j) /\ q = PPI(cur, work.uid, image(j))
    BY <1>3 DEF Created
  <2>2. /\ cur \in Deployments /\ image(j) \in Images /\ work \in Object
        /\ k = generatePrePullImageName(cur, image(j)) /\ pc # "idle"
    BY <1>1, <2>1, WorkedOn
  <2>3. work.uid = store[cur].uid /\ store[cur].uid >= 1 /\ store'[cur].uid = store[cur].uid
    BY <1>1, <2>2, UidsKept DEF BornOnce
  <2>4. work.uid \in Nat
    BY <2>2, ObjectFields
  <2>5. /\ q.owner = cur /\ q.image = image(j) /\ q.uid = work.uid /\ ~q.del /\ ~q.done
    BY <2>1, <2>2, <2>4, PPIType
  <2> QED
    BY <2>2, <2>3, <2>5 DEF OwnedAs
<1>4. ASSUME NEW k \in PPIKeys, NEW p, p = ppis[k], p # NoPPI, NEW q, q = ppis'[k], q # NoPPI
      PROVE  OwnedAs(q, k)'
  <2>1. p \in PPIObject /\ p.owner \in Deployments
    BY <1>1, <1>4 DEF TypeOK, PPIObject
  <2>2. OwnedAs(p, k)
    BY <1>1, <1>4 DEF Owned
  <2>3. store'[p.owner].uid = p.uid /\ (Departed(p.owner) => Departed(p.owner)')
    BY <1>1, <2>1, <2>2, UidsKept DEF OwnedAs
  <2>4. ASSUME q.owner = p.owner, q.image = p.image, q.uid = p.uid,
               q.done => p.done \/ <<p.owner, p.image>> \in settled',
               q.del => p.del \/ <<p.owner, p.image>> \in settled \/ Departed(p.owner)
        PROVE  OwnedAs(q, k)'
    <3>1. q.done => <<p.owner, p.image>> \in settled'
      BY <1>2, <2>2, <2>4 DEF OwnedAs
    <3>2. q.del => <<p.owner, p.image>> \in settled' \/ Departed(p.owner)'
      BY <1>2, <2>2, <2>3, <2>4 DEF OwnedAs
    <3>3. Departed(p.owner)' <=> Departed(q.owner)'
      BY <2>4
    <3> QED
      BY <2>2, <2>3, <2>4, <3>1, <3>2, <3>3 DEF OwnedAs
  <2>5. CASE q = p
    BY <2>4, <2>5
  <2>6. CASE Advanced(k)
    <3>1. /\ q.owner = p.owner /\ q.image = p.image /\ q.uid = p.uid /\ q.del = p.del
          /\ q.done = p.done \/ <<p.owner, p.image>> \in settled'
      BY <1>4, <2>1, <2>6 DEF Advanced, PPIObject
    <3> QED
      BY <2>4, <3>1
  <2>7. CASE LetGo(k)
    <3>1. q = Deleted(p)
      BY <1>4, <2>7 DEF LetGo
    <3>2. q.owner = p.owner /\ q.image = p.image /\ q.uid = p.uid /\ q.done = p.done
      BY <1>4, <2>1, <3>1, DeletedType
    <3>3. p.done \/ p.del \/ ~store[p.owner].exists
      BY <1>4, <2>2, <2>7 DEF LetGo, OwnedAs
    <3>4. <<p.owner, p.image>> \in settled \/ Departed(p.owner)
      BY <2>2, <3>3 DEF Departed, OwnedAs
    <3> QED
      BY <2>4, <3>2, <3>4
  <2> QED
    BY <1>1, <1>4, <2>5, <2>6, <2>7, NothingReplaced DEF PPIsMove, Created
<1>5. ASSUME NEW k \in PPIKeys, NEW q, q = ppis'[k], q # NoPPI
      PROVE  OwnedAs(q, k)'
  <2>1. CASE ppis[k] # NoPPI
    BY <1>4, <1>5, <2>1
  <2>2. CASE ppis[k] = NoPPI
    <3>1. Created(k)
      BY <1>5, <2>2 DEF PPIsMove, Replaced, Advanced, LetGo
    <3> QED
      BY <1>3, <1>5, <3>1
  <2> QED
    BY <2>1, <2>2
<1> QED
  BY <1>5 DEF Owned

LEMMA CacheOwnedStep ==
  ASSUME OneLife, PPINamesDistinct, RecordInv, StoreMoves, PPIsMove, CachesMove
  PROVE  CacheOwned'
<1>1. TypeOK /\ Owned /\ CacheOwned /\ BornOnce
  BY DEF RecordInv
<1>2. ASSUME NEW d \in Deployments, NEW img \in Images,
             ppiCache'[generatePrePullImageName(d, img)] # NoPPI
      PROVE  /\ ppiCache'[generatePrePullImageName(d, img)] = img
             /\ HandedOver(d, img)'
  <2> DEFINE k == generatePrePullImageName(d, img)
  <2>1. k \in PPIKeys
    BY DEF PPIKeys
  <2>2. CASE ppiCache'[k] = ppiCache[k]
    <3>1. ppiCache[k] = img /\ HandedOver(d, img)
      BY <1>1, <1>2, <2>2 DEF CacheOwned
    <3> QED
      BY <1>1, <2>2, <3>1, StillHandedOver
  <2>3. CASE ppiCache'[k] = imagesOfPPIs[k]
    <3>1. ppis[k] # NoPPI /\ ppiCache'[k] = ppis[k].image
      BY <1>2, <2>1, <2>3 DEF imagesOfPPIs, ImageOf
    <3>2. ppis[k].owner = d /\ ppis[k].image = img
      BY <1>1, <3>1, WhoseItIs
    <3>3. ppis[k].del => <<d, img>> \in settled \/ Departed(d)
      BY <1>1, <2>1, <3>1, <3>2 DEF Owned, OwnedAs
    <3>4. HandedOver(d, img)
      BY <3>1, <3>3 DEF HandedOver
    <3> QED
      BY <1>1, <3>1, <3>2, <3>4, StillHandedOver
  <2> QED
    BY <2>1, <2>2, <2>3 DEF CachesMove
<1> QED
  BY <1>2 DEF CacheOwned

LEMMA BornOnceStep ==
  ASSUME OneLife, RecordInv, StoreMoves, CachesMove, WorkMoves
  PROVE  BornOnce'
<1>1. TypeOK /\ BornOnce
  BY DEF RecordInv
<1>2. ASSUME NEW d \in Deployments
      PROVE  /\ store'[d].uid <= 1 /\ (store'[d].exists => store'[d].uid >= 1)
             /\ store[d].uid >= 1 => store'[d].uid = store[d].uid
  BY <1>1, UidsKept
<1>3. ASSUME NEW d \in Deployments, cache'[d].exists
      PROVE  store'[d].uid >= 1 /\ cache'[d].uid = store'[d].uid
  <2>1. store[d].uid >= 1 /\ cache'[d].uid = store[d].uid
    BY <1>1, <1>3 DEF CachesMove, BornOnce
  <2> QED
    BY <1>2, <2>1
<1>4. ASSUME pc' # "idle"
      PROVE  store'[cur'].uid >= 1 /\ work'.uid = store'[cur'].uid
  <2>1. cur' \in Deployments /\ store[cur'].uid >= 1 /\ work'.uid = store[cur'].uid
    BY <1>1, <1>4 DEF WorkMoves, Ended, Begun, Continued, BornOnce, TypeOK
  <2> QED
    BY <1>2, <2>1
<1> QED
  BY <1>2, <1>3, <1>4 DEF BornOnce

LEMMA ListedStays ==
  ASSUME OneLife, PPINamesDistinct, RecordInv, StoreMoves, PPIsMove,
         NEW d \in Deployments, NEW last \in Recorded, AllHanded(d, last)
  PROVE  AllHanded(d, last)'
<1> SUFFICES ASSUME last # NoImages, NEW k \in DOMAIN last
             PROVE  HandedOver(d, last[k])'
  BY DEF AllHanded
<1>1. last[k] \in Images
  BY DEF Recorded
<1>2. HandedOver(d, last[k])
  BY DEF AllHanded
<1> QED
  BY <1>1, <1>2, StillHandedOver DEF RecordInv

(* What the annotation is written with is behind the reconcile. *)
LEMMA WrittenIsHanded ==
  ASSUME RecordInv, pc = "update"
  PROVE  AllHanded(cur, extractImages(work.template))
BY DEF RecordInv, TypeOK, Progress, AllHanded, image

LEMMA LastHandedStep ==
  ASSUME OneLife, PPINamesDistinct, RecordInv, StoreMoves, PPIsMove, CachesMove
  PROVE  LastHanded'
<1>1. TypeOK /\ LastHanded
  BY DEF RecordInv
<1>2. ASSUME NEW d \in Deployments
      PROVE  AllHanded(d, store[d].last)' /\ AllHanded(d, cache[d].last)'
  <2>1. /\ store[d] \in Object /\ cache[d] \in Object
        /\ store[d].last \in Recorded /\ cache[d].last \in Recorded
    BY <1>1, ObjectFields DEF TypeOK
  <2>2. AllHanded(d, NoImages)'
    BY DEF AllHanded
  <2>3. ASSUME NEW last, last \in {store[d].last, cache[d].last}
        PROVE  AllHanded(d, last)'
    BY <1>1, <2>1, <2>3, ListedStays DEF LastHanded
  <2>4. ASSUME NEW last, last = store'[d].last
        PROVE  AllHanded(d, last)'
    <3>1. CASE last \in {store[d].last, NoImages}
      BY <2>2, <2>3, <3>1
    <3>2. CASE pc = "update" /\ cur = d /\ last = extractImages(work.template)
      <4>1. last \in Recorded
        BY <1>1, <3>2, ObjectFields, ExtractedType DEF TypeOK
      <4>2. AllHanded(d, last)
        BY <3>2, WrittenIsHanded
      <4> QED
        BY <4>1, <4>2, ListedStays
    <3>3. \/ last \in {store[d].last, NoImages}
          \/ pc = "update" /\ cur = d /\ last = extractImages(work.template)
      BY <2>4 DEF StoreMoves, Recreated, Removed, Updated
    <3> QED
      BY <3>1, <3>2, <3>3
  <2>5. ASSUME NEW last, last = cache'[d].last
        PROVE  AllHanded(d, last)'
    BY <2>3, <2>5 DEF CachesMove
  <2> QED
    BY <2>4, <2>5 DEF AllHanded
<1> QED
  BY <1>2 DEF LastHanded

(* A changed image leaves todo only when it is handed over. *)
LEMMA HandledIsHanded ==
  ASSUME OneLife, PPINamesDistinct, RecordInv, StoreMoves, PPIsMove, NEW j, Handled(j),
         NEW d, d = cur, NEW img, img = image(j)
  PROVE  HandedOver(d, img)'
<1>1. TypeOK /\ Owned /\ CacheOwned /\ BornOnce
  BY DEF RecordInv
<1>2. /\ d \in Deployments /\ img \in Images /\ work \in Object
      /\ ppiKey(j) = generatePrePullImageName(d, img) /\ ppiKey(j) \in PPIKeys
  BY <1>1, WorkedOn DEF Handled
<1>3. CASE existing(j) = img
  <2>1. CASE Lag
    <3>1. ppiCache[generatePrePullImageName(d, img)] # NoPPI
      BY <1>2, <1>3, <2>1, NoPPIIsAbsent DEF existing
    <3>2. HandedOver(d, img)
      BY <1>1, <1>2, <3>1 DEF CacheOwned
    <3> QED
      BY <1>1, <1>2, <3>2, StillHandedOver
  <2>2. CASE ~Lag
    <3>1. ppis[ppiKey(j)] # NoPPI
      BY <1>2, <1>3, <2>2, NoPPIIsAbsent DEF existing, imagesOfPPIs, ImageOf
    <3>2. ppis[ppiKey(j)].owner = d /\ ppis[ppiKey(j)].image = img
      BY <1>1, <1>2, <3>1, WhoseItIs
    <3>3. ppis[ppiKey(j)].del => <<d, img>> \in settled \/ Departed(d)
      BY <1>1, <1>2, <3>1, <3>2 DEF Owned, OwnedAs
    <3>4. HandedOver(d, img)
      BY <1>2, <3>1, <3>3 DEF HandedOver
    <3> QED
      BY <1>1, <1>2, <3>4, StillHandedOver
  <2> QED
    BY <2>1, <2>2
<1>4. CASE ppis'[ppiKey(j)] = PPI(d, work.uid, img)
  <2>1. PPI(d, work.uid, img) \in PPIObject /\ ~PPI(d, work.uid, img).del
    BY <1>2, PPIType, ObjectFields
  <2> QED
    BY <1>2, <1>4, <2>1, NoPPIIsAbsent DEF HandedOver
<1> QED
  BY <1>3, <1>4 DEF Handled

LEMMA ProgressStep ==
  ASSUME OneLife, PPINamesDistinct, RecordInv, StoreMoves, PPIsMove, WorkMoves
  PROVE  Progress'
<1>1. TypeOK /\ Owned /\ CacheOwned /\ BornOnce /\ LastHanded /\ Progress
  BY DEF RecordInv
<1>2. ASSUME pc' # "idle", NEW d, d = cur', NEW k \in DOMAIN extractImages(work'.template),
             NEW img, img = extractImages(work'.template)[k]
      PROVE  k \in todo' \/ HandedOver(d, img)'
  <2>1. CASE Begun
    <3>1. /\ d \in Deployments /\ work' = cache[d] /\ todo' = Changed(d)
          /\ cache[d].template \in Templates
      BY <1>1, <1>2, <2>1, ObjectFields DEF Begun, TypeOK
    <3>2. img \in Images
      BY <1>2, <3>1, ExtractedType
    <3>3. CASE k \notin Changed(d)
      <4>1. cache[d].last # NoImages /\ k \in DOMAIN cache[d].last /\ cache[d].last[k] = img
        BY <1>2, <3>1, <3>3 DEF Changed, findChangedImages
      <4>2. HandedOver(d, img)
        BY <1>1, <3>1, <4>1 DEF LastHanded, AllHanded
      <4> QED
        BY <1>1, <3>1, <3>2, <4>2, StillHandedOver
    <3> QED
      BY <3>1, <3>3
  <2>2. CASE Continued
    <3>1. /\ pc # "idle" /\ d \in Deployments /\ d = cur /\ work' = work
          /\ img = image(k) /\ work.template \in Templates
      BY <1>1, <1>2, <2>2, ObjectFields DEF Continued, TypeOK, image
    <3>2. img \in Images
      BY <1>2, <3>1, ExtractedType
    <3>3. CASE k \notin todo
      <4>1. HandedOver(d, img)
        BY <1>1, <1>2, <3>1, <3>3 DEF Progress
      <4> QED
        BY <1>1, <3>1, <3>2, <4>1, StillHandedOver
    <3>4. CASE k \in todo /\ k \notin todo'
      <4>1. Handled(k)
        BY <2>2, <3>4 DEF Continued, Handled
      <4> QED
        BY <3>1, <4>1, HandledIsHanded
    <3> QED
      BY <3>3, <3>4
  <2> QED
    BY <1>2, <2>1, <2>2 DEF WorkMoves, Ended
<1> QED
  BY <1>2 DEF Progress, image

LEMMA RecordInit ==
  ASSUME Init
  PROVE  RecordInv
<1>1. TypeOK
  BY TypeInit
<1>2. /\ \A d \in Deployments : /\ store[d] = Gone(0, 0) /\ cache[d] = Gone(0, 0)
      /\ \A k \in PPIKeys : ppis[k] = NoPPI /\ ppiCache[k] = NoPPI
      /\ pc = "idle"
  BY DEF Init, imagesOfPPIs, ImageOf
<1>3. Gone(0, 0).uid = 0 /\ ~Gone(0, 0).exists /\ Gone(0, 0).last = NoImages
  BY GoneType
<1>4. Owned /\ Progress
  BY <1>2 DEF Owned, Progress
<1>5. CacheOwned
  BY <1>2 DEF CacheOwned, PPIKeys
<1>6. BornOnce /\ LastHanded
  BY <1>2, <1>3 DEF BornOnce, LastHanded, AllHanded
<1> QED
  BY <1>1, <1>4, <1>5, <1>6 DEF RecordInv

LEMMA RecordStep ==
  ASSUME OneLife, PPINamesDistinct, RecordInv, [Next]_vars
  PROVE  RecordInv'
<1>1. TypeOK
  BY DEF RecordInv
<1>2. StoreMoves /\ PPIsMove /\ CachesMove /\ WorkMoves /\ TypeOK'
  BY <1>1, StoreStep, PPIsStep, CachesStep, WorkStepMoves, TypeStep
<1> QED
  BY <1>2, OwnedStep, CacheOwnedStep, BornOnceStep, LastHandedStep, ProgressStep DEF RecordInv

LEMMA RecordedIsHanded ==
  ASSUME KeysDistinct, PPINamesDistinct, RecordInv
  PROVE  RecordedMeansCovered
<1> SUFFICES ASSUME NEW d \in Deployments, store[d].exists,
                    store[d].last = extractImages(store[d].template),
                    NEW img \in ImagesOf(store[d].template)
             PROVE  Covered(d, img)
  BY DEF RecordedMeansCovered
<1>1. TypeOK /\ Owned /\ LastHanded
  BY DEF RecordInv
<1> DEFINE t == store[d].template
<1>2. t \in Templates
  BY <1>1, ObjectFields DEF TypeOK
<1> HIDE DEF t
<1>3. PICK c \in DOMAIN t : img = t[c]
  BY DEF ImagesOf, t
<1>4. img \in Images /\ Key[c] \in DOMAIN extractImages(t)
  BY <1>2, <1>3, ImagesByKey
<1>5. extractImages(t)[Key[c]] = img
  <2>1. PICK b \in DOMAIN t : Key[b] = Key[c] /\ extractImages(t)[Key[c]] = t[b]
    BY <1>2, <1>4, ImagesByKey
  <2>2. b \in Containers \cup InitContainers /\ c \in Containers \cup InitContainers
    BY <1>2, <1>3, <2>1, ImagesByKey
  <2>3. b = c
    BY <2>1, <2>2 DEF KeysDistinct
  <2> QED
    BY <1>3, <2>1, <2>3
<1>6. HandedOver(d, img)
  BY <1>1, <1>2, <1>4, <1>5, NoImagesIsAbsent DEF LastHanded, AllHanded, t
<1>7. CASE <<d, img>> \in settled
  BY <1>7 DEF Covered
<1>8. ASSUME NEW k, k = generatePrePullImageName(d, img), ppis[k] # NoPPI, ~ppis[k].del
      PROVE  Covered(d, img)
  <2>1. k \in PPIKeys /\ ppis[k].owner = d /\ ppis[k].image = img
    BY <1>1, <1>4, <1>8, WhoseItIs
  <2>2. ppis[k].uid = store[d].uid
    BY <1>1, <1>8, <2>1 DEF Owned, OwnedAs
  <2> QED
    BY <1>8, <2>1, <2>2 DEF Covered
<1> QED
  BY <1>6, <1>7, <1>8 DEF HandedOver, Departed

(* No image is recorded in the annotation of a Deployment unless a PrePullImage
   has pulled it, has given up, or is there to do so: for any number of Deployments
   and images, with caches as late as they like, failing calls, crashes and
   policies that come and go. *)
THEOREM RecordedIsCovered ==
  ASSUME OneLife, KeysDistinct, PPINamesDistinct
  PROVE  Spec => []RecordedMeansCovered
<1>1. Init => RecordInv
  BY RecordInit
<1>2. RecordInv /\ [Next]_vars => RecordInv'
  BY RecordStep
<1>3. RecordInv => RecordedMeansCovered
  BY RecordedIsHanded
<1> QED
  BY <1>1, <1>2, <1>3, PTL DEF Spec
=============================================================================
