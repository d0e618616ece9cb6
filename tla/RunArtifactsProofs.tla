------------------------- MODULE RunArtifactsProofs -------------------------
EXTENDS RunArtifacts, FiniteSetTheorems, TLAPS

-----------------------------------------------------------------------------
(* What the table and the object store see of a step.                      *)

\* A status changes, or a cancel is asked for: state_location and the parent
\* stay, and a cancel that was asked for stays asked for.
RowChanges(r) ==
    /\ Exists(r)
    /\ \E row \in Row :
          /\ rows' = [rows EXCEPT ![r] = row]
          /\ row.state = rows[r].state
          /\ row.parent = rows[r].parent
          /\ rows[r].cancel => row.cancel
    /\ UNCHANGED othersStorage

\* At most a fault is spent, in a pod.
StorageStays ==
    /\ UNCHANGED <<rows, objects, born, request, cleanup, erased, torn>>
    /\ Fault \/ UNCHANGED faults

Arrives(h, r) ==
    \/ CreateBegin(h, r)
    \/ \E p \in Runs : RetryBegin(h, r, p)
    \/ \E some \in SUBSET Kinds : UploadBegin(h, r, some)
    \/ \E kind \in Kinds : DeliverBegin(h, r, kind)

StorageNext ==
    \/ \E h \in Handlers, r \in Runs : Arrives(h, r)
    \/ \E x \in Servers : RequestStep(x) \/ RequestLost(x)
    \/ CleanupBegin \/ CleanupNext \/ OperatorCrash
    \/ \E r \in Runs : RowChanges(r)
    \/ StorageStays

\* Every step of the system is one of these to the storage.
LEMMA StorageSide ==
    ASSUME TypeOK, [Next]_vars
    PROVE  StorageNext
<1> USE DEF TypeOK
<1>1. CASE UNCHANGED vars
  BY <1>1 DEF vars, storageVars, StorageNext, StorageStays
<1>2. CASE ClientNext \/ OperatorCrash \/ \E x \in Servers : RequestStep(x) \/ RequestLost(x)
  BY <1>2 DEF ClientNext, StorageNext, Arrives
<1>3. ASSUME NEW r \in Runs, StartPod(r)
      PROVE  StorageStays
  BY <1>3 DEF StartPod, StorageStays, storageVars
<1>4. ASSUME NEW r \in Runs, CancelRun(r)
      PROVE  RowChanges(r)
  <2>1. rows[r] \in Row
    BY <1>4 DEF CancelRun, Exists, StorageTypeOK
  <2> DEFINE row == [rows[r] EXCEPT
                        !.cancel = TRUE,
                        !.status = IF at[r] = "none" THEN "CANCELLED" ELSE @]
  <2>2. row \in Row /\ row.state = rows[r].state /\ row.parent = rows[r].parent /\ row.cancel
    BY <2>1 DEF Row
  <2>3. rows' = [rows EXCEPT ![r] = row]
    BY <1>4, <2>1 DEF CancelRun, Row, StorageTypeOK
  <2> QED
    BY <1>4, <2>2, <2>3 DEF CancelRun, RowChanges
<1>5. ASSUME NEW r \in Runs, NEW s \in StatusValues, StatusChanges(r, s)
      PROVE  RowChanges(r)
  <2>1. rows[r] \in Row
    BY <1>5 DEF StatusChanges, Exists, StorageTypeOK
  <2> DEFINE row == [rows[r] EXCEPT !.status = s]
  <2>2. row \in Row /\ row.state = rows[r].state /\ row.parent = rows[r].parent
        /\ row.cancel = rows[r].cancel
    BY <2>1 DEF Row
  <2>3. rows' = [rows EXCEPT ![r] = row]
    BY <1>5 DEF StatusChanges
  <2> QED
    BY <1>5, <2>2, <2>3 DEF StatusChanges, RowChanges
<1>6. ASSUME NEW r \in Runs, PodStep(r)
      PROVE  StorageNext
  <2>1. CASE \E h \in Handlers : Upload(h, r)
    <3>1. files[r] \in SUBSET Kinds
      BY DEF PodTypeOK
    <3> QED
      BY <2>1, <3>1 DEF Upload, StorageNext, Arrives
  <2>2. CASE ~\E h \in Handlers : Upload(h, r)
    BY <1>6, <2>2 DEF PodStep, StorageNext, StorageStays, storageVars,
       FetchRunInput, FetchParentState, FetchFails, InstallHandlers, StartChild,
       ReapChild, Archive, UploadRefused, UploadAnswered, Exit
  <2> QED BY <2>1, <2>2
<1>7. ASSUME NEW r \in Runs, NEW h \in Handlers, NEW kind \in Kinds, Deliver(h, r, kind)
      PROVE  StorageNext
  BY <1>7 DEF Deliver, StorageNext, Arrives
<1>8. ASSUME NEW r \in Runs,
             \/ FetchBreaks(r) \/ UploadBreaks(r) \/ ChildEnds(r)
             \/ SignalCancelled(r) \/ DeleteJob(r) \/ Sigkill(r)
      PROVE  StorageStays
  BY <1>8 DEF StorageStays, storageVars, FetchBreaks, UploadBreaks, ChildEnds,
     SignalCancelled, Sigint, DeleteJob, Sigterm, Sigkill
<1> QED
  BY <1>1, <1>2, <1>3, <1>4, <1>5, <1>6, <1>7, <1>8
     DEF Next, OperatorNext, PodNext, StorageNext

-----------------------------------------------------------------------------
(* Type correctness.                                                       *)

LEMMA TypeInit == Init => TypeOK
<1> USE DEF Init
<1>1. Init => StorageTypeOK
  BY StorageAssumption DEF StorageInit, StorageTypeOK
<1>2. Init => PodTypeOK
  BY DEF PodInit, PodTypeOK, Places, Children
<1> QED
  BY <1>1, <1>2 DEF TypeOK

\* A ticket is a number: there are finitely many runs.
LEMMA TicketIsNat == 1 + Cardinality({q \in Runs : born[q] # 0}) \in Nat \ {0}
<1>1. Cardinality({q \in Runs : born[q] # 0}) \in Nat
  BY RunsFinite, FS_Subset, FS_CardinalityType
<1> QED BY <1>1

LEMMA NewRowIsRow ==
    ASSUME NEW p \in Runs \union {None}
    PROVE  NewRow(p) \in Row
BY DEF NewRow, Row

LEMMA ArrivalTyped ==
    ASSUME StorageTypeOK, NEW h \in Handlers, NEW r \in Runs, Arrives(h, r)
    PROVE  StorageTypeOK'
<1> USE TicketIsNat DEF StorageTypeOK, Begin, Fresh, Request, Servers, Steps
<1>1. CASE CreateBegin(h, r)
  BY <1>1 DEF CreateBegin
<1>2. CASE \E p \in Runs : RetryBegin(h, r, p)
  BY <1>2 DEF RetryBegin
<1>3. CASE \E some \in SUBSET Kinds : UploadBegin(h, r, some)
  BY <1>3 DEF UploadBegin
<1>4. CASE \E kind \in Kinds : DeliverBegin(h, r, kind)
  BY <1>4 DEF DeliverBegin
<1> QED
  BY <1>1, <1>2, <1>3, <1>4 DEF Arrives

LEMMA RequestStepTyped ==
    ASSUME StorageTypeOK, NEW x \in Servers, RequestStep(x) \/ RequestLost(x)
    PROVE  StorageTypeOK'
<1>1. Busy(x) /\ request[x] \in Request
  BY DEF RequestStep, RequestLost, RetryProbe, RetryLoad, RetryReads, StoreInput,
     InsertRow, PutArtifact, UpdateRow, ListObjects, EraseObjects, DeleteRow,
     Serves, Busy, StorageTypeOK
<1> USE <1>1 DEF StorageTypeOK, Request, Steps, Goto, Finish
<1>2. CASE RetryProbe(x) \/ RetryLoad(x)
  BY <1>2 DEF RetryProbe, RetryLoad, RetryReads
<1>3. CASE StoreInput(x)
  BY <1>3 DEF StoreInput
<1>4. CASE InsertRow(x)
  BY <1>4, NewRowIsRow DEF InsertRow
<1>5. CASE PutArtifact(x)
  <2> DEFINE q == request[x]
  <2>1. PICK kind \in q.rest :
           /\ objects' = [objects EXCEPT ![q.run] = @ \union {kind}]
           /\ request' = [request EXCEPT
                             ![x].rest = q.rest \ {kind},
                             ![x].stored = @ \union {kind},
                             ![x].step = IF q.rest = {kind} THEN "update" ELSE @]
    BY <1>5 DEF PutArtifact
  <2>2. kind \in Kinds
    BY <2>1
  <2>3. [q EXCEPT !.rest = q.rest \ {kind}, !.stored = @ \union {kind},
                  !.step = IF q.rest = {kind} THEN "update" ELSE @] \in Request
    BY <2>2
  <2>4. request' = [request EXCEPT ![x] =
           [q EXCEPT !.rest = q.rest \ {kind}, !.stored = @ \union {kind},
                     !.step = IF q.rest = {kind} THEN "update" ELSE @]]
    BY <2>1
  <2>5. request' \in [Servers -> Request \union {None}]
    BY <2>3, <2>4
  <2>6. objects' \in [Runs -> SUBSET (Kinds \union {"input"})]
    BY <2>1, <2>2
  <2> QED
    BY <1>5, <2>5, <2>6 DEF PutArtifact
<1>6. CASE UpdateRow(x)
  <2> DEFINE r == request[x].run
  <2>1. r \in Runs
    OBVIOUS
  <2>2. Exists(r) => [rows[r] EXCEPT !.state = TRUE] \in Row
    <3>1. ASSUME NEW row \in Row
          PROVE  [row EXCEPT !.state = TRUE] \in Row
      BY DEF Row
    <3> QED
      BY <2>1, <3>1 DEF Exists
  <2>3. rows' = rows \/ (Exists(r) /\ rows' = [rows EXCEPT ![r].state = TRUE])
    <3> DEFINE new == [rows EXCEPT ![r].state = TRUE]
    <3>1. rows' = IF Exists(r) /\ "state" \in request[x].stored THEN new ELSE rows
      BY <1>6 DEF UpdateRow
    <3> HIDE DEF new
    <3>2. rows' = rows \/ (Exists(r) /\ rows' = new)
      BY <3>1
    <3> QED BY <3>2 DEF new
  <2>4. rows' \in [Runs -> Row \union {None}]
    <3>1. CASE rows' = rows
      BY <3>1
    <3>2. CASE Exists(r) /\ rows' = [rows EXCEPT ![r].state = TRUE]
      BY ONLY <2>1, <2>2, <3>2, rows \in [Runs -> Row \union {None}]
    <3> QED BY <2>3, <3>1, <3>2
  <2> QED
    BY <1>6, <2>4 DEF UpdateRow
<1>7. CASE ListObjects(x)
  BY <1>7 DEF ListObjects, Listed
<1>8. CASE EraseObjects(x)
  BY <1>8, StorageAssumption DEF EraseObjects, Fault
<1>9. CASE DeleteRow(x)
  BY <1>9 DEF DeleteRow
<1>10. CASE RequestLost(x)
  BY <1>10, StorageAssumption DEF RequestLost, Fault, Torn
<1> QED
  BY <1>2, <1>3, <1>4, <1>5, <1>6, <1>7, <1>8, <1>9, <1>10 DEF RequestStep

LEMMA StorageTyped ==
    ASSUME StorageTypeOK, StorageNext
    PROVE  StorageTypeOK'
<1>1. CASE \E h \in Handlers, r \in Runs : Arrives(h, r)
  BY <1>1, ArrivalTyped
<1>2. CASE \E x \in Servers : RequestStep(x) \/ RequestLost(x)
  BY <1>2, RequestStepTyped
<1>3. CASE CleanupBegin
  BY <1>3 DEF CleanupBegin, StorageTypeOK
<1>4. CASE CleanupNext
  <2>1. PICK r \in cleanup.todo :
           /\ cleanup' = [cleanup EXCEPT !.todo = @ \ {r}]
           /\ IF Exists(r) THEN DeleteRun(r) ELSE UNCHANGED request
    BY <1>4 DEF CleanupNext
  <2>2. r \in Runs
    BY <2>1 DEF StorageTypeOK
  <2>3. request' \in [Servers -> Request \union {None}]
    <3>1. [step |-> "list", run |-> r, parent |-> None, rest |-> {},
           stored |-> {}, upload |-> FALSE] \in Request
      BY <2>2 DEF Request, Steps
    <3>2. CASE DeleteRun(r)
      BY <3>1, <3>2 DEF DeleteRun, Begin, StorageTypeOK
    <3>3. CASE UNCHANGED request
      BY <3>3 DEF StorageTypeOK
    <3> QED
      BY <2>1, <3>2, <3>3
  <2>4. cleanup' \in [picked : SUBSET Runs, todo : SUBSET Runs]
    BY <2>1 DEF StorageTypeOK
  <2> QED
    BY <1>4, <2>3, <2>4 DEF CleanupNext, StorageTypeOK
<1>5. CASE OperatorCrash
  <2>1. \A x \in Servers : Torn(x) \subseteq Runs
    BY DEF Torn, Serves, Busy, StorageTypeOK, Request
  <2> QED
    BY <1>5, <2>1, StorageAssumption DEF OperatorCrash, StorageTypeOK, Fault
<1>6. CASE \E r \in Runs : RowChanges(r)
  BY <1>6 DEF RowChanges, othersStorage, StorageTypeOK
<1>7. CASE StorageStays
  BY <1>7, StorageAssumption DEF StorageStays, Fault, StorageTypeOK
<1> QED
  BY <1>1, <1>2, <1>3, <1>4, <1>5, <1>6, <1>7 DEF StorageNext

LEMMA PodStepTyped ==
    ASSUME TypeOK, NEW r \in Runs, PodStep(r)
    PROVE  PodTypeOK'
<1> USE DEF TypeOK, PodTypeOK, Places, Children, Step
<1>1. CASE FetchRunInput(r) \/ FetchParentState(r)
  BY <1>1 DEF FetchRunInput, FetchParentState
<1>2. CASE FetchFails(r) \/ Exit(r)
  BY <1>2 DEF FetchFails, Exit, Dies, Ends, ExitStatus
<1>3. CASE InstallHandlers(r) \/ StartChild(r) \/ ReapChild(r)
  BY <1>3 DEF InstallHandlers, StartChild, ReapChild
<1>4. CASE Archive(r)
  <2>1. PICK extra \in SUBSET (Kinds \ {"state", "log"}) :
           \/ files' = [files EXCEPT ![r] = {"state", "log"} \union extra]
           \/ files' = [files EXCEPT ![r] = {"log"} \union extra]
    BY <1>4 DEF Archive
  <2>2. files' \in [Runs -> SUBSET Kinds]
    <3>1. {"state", "log"} \union extra \in SUBSET Kinds
          /\ {"log"} \union extra \in SUBSET Kinds
      BY StorageAssumption
    <3> QED
      BY <2>1, <3>1
  <2> QED
    BY <1>4, <2>2 DEF Archive
<1>5. CASE UploadRefused(r) \/ UploadAnswered(r) \/ \E h \in Handlers : Upload(h, r)
  BY <1>5 DEF UploadRefused, UploadAnswered, Upload
<1> QED
  BY <1>1, <1>2, <1>3, <1>4, <1>5 DEF PodStep

LEMMA PodTyped ==
    ASSUME TypeOK, [Next]_vars
    PROVE  PodTypeOK'
<1> USE DEF TypeOK, PodTypeOK, Places, Children
<1>1. CASE UNCHANGED podVars
  BY <1>1 DEF podVars
<1>2. ASSUME NEW r \in Runs, StartPod(r)
      PROVE  PodTypeOK'
  <2>1. rows[r] \in Row
    BY <1>2 DEF StartPod, Exists, StorageTypeOK
  <2> QED
    BY <1>2, <2>1 DEF StartPod, Row
<1>3. ASSUME NEW r \in Runs,
             FetchBreaks(r) \/ UploadBreaks(r) \/ Sigkill(r)
      PROVE  PodTypeOK'
  BY <1>3 DEF FetchBreaks, UploadBreaks, Sigkill, Dies, Ends
<1>4. ASSUME NEW r \in Runs, ChildEnds(r)
      PROVE  PodTypeOK'
  BY <1>4 DEF ChildEnds
<1>5. ASSUME NEW r \in Runs, SignalCancelled(r) \/ DeleteJob(r)
      PROVE  PodTypeOK'
  BY <1>5 DEF SignalCancelled, Sigint, DeleteJob, Sigterm, OnSignal, Dies, Ends
<1> QED
  BY <1>1, <1>2, <1>3, <1>4, <1>5, PodStepTyped
     DEF Next, OperatorNext, PodNext, StatusChanges, CancelRun, Deliver, vars

\* Every variable stays in its type, for any number of runs and requests.
THEOREM TypeCorrect == Spec => []TypeOK
<1>1. TypeOK /\ [Next]_vars => TypeOK'
  BY StorageSide, StorageTyped, PodTyped DEF TypeOK
<1> QED
  BY <1>1, TypeInit, PTL DEF Spec

-----------------------------------------------------------------------------
(* Who works on which run.                                                 *)

At(x, r, steps) == WorksOn(x, r) /\ request[x].step \in steps

Creating == {"probe", "load", "store", "insert"}
Deleting == {"list", "erase", "deleteRow"}

\* A run is created by one request, before it has a row; it is deleted by
\* the cleanup only, while it has one.
IdsUsedOnce ==
    /\ \A r \in Runs : Exists(r) => born[r] # 0
    /\ \A x \in Servers, r \in Runs :
          /\ At(x, r, Creating) => born[r] # 0 /\ ~Exists(r)
          /\ At(x, r, Deleting) => x = Cleaner /\ Exists(r)
          /\ \A y \in Servers : At(x, r, Creating) /\ At(y, r, Creating) => x = y

LEMMA IdsInit == Init => IdsUsedOnce
BY DEF Init, StorageInit, IdsUsedOnce, Exists, At, WorksOn, Busy

\* Neither a change of a row nor an upload enters or removes one.
LEMMA RowsStayRows ==
    ASSUME StorageTypeOK,
           (\E r \in Runs : RowChanges(r)) \/ (\E x \in Servers : UpdateRow(x))
    PROVE  \A r \in Runs : Exists(r)' <=> Exists(r)
<1>1. ASSUME NEW r \in Runs, RowChanges(r)
      PROVE  \A q \in Runs : Exists(q)' <=> Exists(q)
  BY <1>1, NoneAssumption DEF RowChanges, Exists, StorageTypeOK
<1>2. ASSUME NEW x \in Servers, UpdateRow(x)
      PROVE  \A q \in Runs : Exists(q)' <=> Exists(q)
  <2> DEFINE r == request[x].run
  <2>1. r \in Runs
    BY <1>2 DEF UpdateRow, Serves, Busy, StorageTypeOK, Request
  <2>2. CASE rows' = rows
    BY <2>2 DEF Exists
  <2>3. CASE Exists(r) /\ rows' = [rows EXCEPT ![r].state = TRUE]
    <3>1. ASSUME NEW row \in Row
          PROVE  [row EXCEPT !.state = TRUE] \in Row
      BY DEF Row
    <3>2. [rows[r] EXCEPT !.state = TRUE] # None
      BY <2>1, <2>3, <3>1, NoneAssumption DEF Exists, StorageTypeOK
    <3> QED
      BY <2>1, <2>3, <3>2 DEF Exists, StorageTypeOK
  <2> QED
    BY <1>2, <2>2, <2>3 DEF UpdateRow
<1> QED
  BY <1>1, <1>2

\* The request that is replaced is the only one that changes.
LEMMA ArrivalIds ==
    ASSUME TypeOK, IdsUsedOnce, NEW h \in Handlers, NEW r \in Runs, Arrives(h, r)
    PROVE  IdsUsedOnce'
<1> USE DEF TypeOK, StorageTypeOK, IdsUsedOnce, Exists, At, WorksOn, Busy, Begin,
            Creating, Deleting, Servers
<1> DEFINE begun(s, p) == [step |-> s, run |-> r, parent |-> p, rest |-> {},
                           stored |-> {}, upload |-> FALSE]
<1>1. ASSUME NEW s \in {"store", "probe"}, NEW p,
             Fresh(h, r, Runs), Begin(h, s, r, p, {}, FALSE), UNCHANGED rows
      PROVE  IdsUsedOnce'
  <2>1. /\ born[r] = 0 /\ ~Exists(r) /\ ~Busy(h)
        /\ born'[r] # 0
        /\ \A q \in Runs \ {r} : born'[q] = born[q]
    BY <1>1, TicketIsNat DEF Fresh
  <2>2. /\ request'[h] = begun(s, p)
        /\ \A x \in Servers \ {h} : request'[x] = request[x]
    BY <1>1
  <2>3. \A x \in Servers, q \in Runs : \A steps :
           At(x, q, steps)' => \/ x = h /\ q = r
                               \/ x # h /\ At(x, q, steps)
    BY <2>2
  <2>4. ~At(h, r, Deleting)'
    BY <2>2
  <2> QED
    BY <1>1, <2>1, <2>3, <2>4
<1>2. CASE CreateBegin(h, r) \/ \E p \in Runs : RetryBegin(h, r, p)
  BY <1>1, <1>2 DEF CreateBegin, RetryBegin, Fresh
<1>3. CASE \E some \in SUBSET Kinds : UploadBegin(h, r, some)
  BY <1>3 DEF UploadBegin
<1>4. CASE \E kind \in Kinds : DeliverBegin(h, r, kind)
  BY <1>4 DEF DeliverBegin
<1> QED
  BY <1>2, <1>3, <1>4 DEF Arrives

LEMMA RequestStepIds ==
    ASSUME TypeOK, IdsUsedOnce, NEW x \in Servers, RequestStep(x) \/ RequestLost(x)
    PROVE  IdsUsedOnce'
<1> USE DEF TypeOK, StorageTypeOK, IdsUsedOnce, Exists, At, WorksOn, Serves, Busy,
            Creating, Deleting, Goto, Finish, Request
<1>1. CASE RetryProbe(x) \/ RetryLoad(x)
  BY <1>1 DEF RetryProbe, RetryLoad, RetryReads
<1>2. CASE StoreInput(x)
  BY <1>2 DEF StoreInput
<1>3. CASE InsertRow(x)
  BY <1>3 DEF InsertRow
<1>4. CASE PutArtifact(x)
  BY <1>4 DEF PutArtifact
<1>5. CASE UpdateRow(x)
  <2>1. \A r \in Runs : Exists(r)' <=> Exists(r)
    BY <1>5, RowsStayRows
  <2> QED
    BY <1>5, <2>1 DEF UpdateRow
<1>6. CASE ListObjects(x)
  BY <1>6 DEF ListObjects
<1>7. CASE EraseObjects(x)
  BY <1>7 DEF EraseObjects
<1>8. CASE DeleteRow(x)
  BY <1>8 DEF DeleteRow
<1>9. CASE RequestLost(x)
  BY <1>9 DEF RequestLost
<1> QED
  BY <1>1, <1>2, <1>3, <1>4, <1>5, <1>6, <1>7, <1>8, <1>9 DEF RequestStep

LEMMA IdsStep ==
    ASSUME TypeOK, IdsUsedOnce, StorageNext
    PROVE  IdsUsedOnce'
<1> USE DEF TypeOK, StorageTypeOK, IdsUsedOnce, Exists, At, WorksOn, Busy
<1>1. CASE \E h \in Handlers, r \in Runs : Arrives(h, r)
  BY <1>1, ArrivalIds
<1>2. CASE \E x \in Servers : RequestStep(x) \/ RequestLost(x)
  BY <1>2, RequestStepIds
<1>3. CASE CleanupBegin
  BY <1>3 DEF CleanupBegin
<1>4. CASE CleanupNext
  BY <1>4, StorageAssumption
     DEF CleanupNext, DeleteRun, Begin, Creating, Deleting, Servers
<1>5. CASE OperatorCrash
  BY <1>5 DEF OperatorCrash
<1>6. CASE \E r \in Runs : RowChanges(r)
  <2>1. \A r \in Runs : Exists(r)' <=> Exists(r)
    BY <1>6, RowsStayRows
  <2> QED
    BY <1>6, <2>1 DEF RowChanges, othersStorage
<1>7. CASE StorageStays
  BY <1>7 DEF StorageStays
<1> QED
  BY <1>1, <1>2, <1>3, <1>4, <1>5, <1>6, <1>7 DEF StorageNext

-----------------------------------------------------------------------------
(* The input of a run, from the request that creates it to its deletion.   *)

\* A row is inserted after its input is stored; what is deleted has been
\* erased before.
InputInv ==
    /\ RowHasInput
    /\ torn \subseteq erased
    /\ \A x \in Servers, r \in Runs :
          /\ At(x, r, {"insert"}) => "input" \in objects[r]
          /\ At(x, r, {"deleteRow"}) => r \in erased

\* Without a fault, a delete has seen the input and erased it.
SecretInv ==
    /\ \A r \in Runs :
          ~Exists(r) /\ "input" \in objects[r] =>
              faults > 0 \/ \E x \in Servers : At(x, r, {"insert"})
    /\ \A x \in Servers, r \in Runs :
          "input" \in objects[r] =>
              /\ At(x, r, {"erase"}) => "input" \in request[x].stored
              /\ At(x, r, {"deleteRow"}) => faults > 0

\* What an upload has stored is there, or was erased.
StateInv ==
    /\ StateLocationIsThere
    /\ \A x \in Servers, r \in Runs :
          At(x, r, {"put", "update"}) /\ "state" \in request[x].stored =>
              "state" \in objects[r] \/ r \in erased

StorageInv == TypeOK /\ IdsUsedOnce /\ InputInv /\ SecretInv /\ StateInv

LEMMA StorageInvInit == Init => StorageInv
<1> SUFFICES ASSUME Init PROVE StorageInv
  OBVIOUS
<1>1. InputInv /\ SecretInv /\ StateInv
  BY DEF Init, StorageInit, InputInv, SecretInv, StateInv, RowHasInput,
     StateLocationIsThere, Exists, At, WorksOn, Busy
<1> QED
  BY <1>1, TypeInit, IdsInit DEF StorageInv

\* All requests but x stay where they are.
OthersStay(x) == \A y \in Servers \ {x} : request'[y] = request[y]

\* A request that is at none of the steps the invariants speak of, before and
\* after, does not disturb them.
LEMMA NothingStored ==
    ASSUME StorageInv, NEW x \in Servers, OthersStay(x),
           UNCHANGED <<rows, objects, faults, erased, torn>>,
           Busy(x) => request[x].step \notin {"insert", "deleteRow"},
           Busy(x)' => /\ request'[x].step \notin {"insert", "deleteRow", "erase"}
                       /\ request'[x].step \in {"put", "update"} =>
                              request'[x].stored = {}
    PROVE  (InputInv /\ SecretInv /\ StateInv)'
<1> USE DEF StorageInv, OthersStay, At, Serves, WorksOn, Busy, Exists
<1>1. InputInv'
  BY DEF InputInv, RowHasInput
<1>2. SecretInv'
  BY DEF SecretInv
<1>3. StateInv'
  BY DEF StateInv, StateLocationIsThere
<1> QED BY <1>1, <1>2, <1>3

LEMMA ArrivalStorage ==
    ASSUME StorageInv, NEW h \in Handlers, NEW r \in Runs, Arrives(h, r)
    PROVE  (InputInv /\ SecretInv /\ StateInv)'
<1>1. h \in Servers /\ request \in [Servers -> Request \union {None}]
  BY DEF StorageInv, TypeOK, StorageTypeOK, Servers
<1>2. \E s \in {"store", "probe", "put"} : \E p, some, upload :
         Begin(h, s, r, p, some, upload)
  BY DEF Arrives, CreateBegin, RetryBegin, UploadBegin, DeliverBegin
<1>3. ~Busy(h) /\ UNCHANGED <<rows, objects, faults, erased, torn>>
  BY DEF Arrives, CreateBegin, RetryBegin, UploadBegin, DeliverBegin, Fresh
<1>4. OthersStay(h)
  BY <1>1, <1>2 DEF Begin, OthersStay
<1>5. /\ request'[h].step \in {"store", "probe", "put"}
      /\ request'[h].stored = {}
  BY <1>1, <1>2 DEF Begin
<1> QED
  BY <1>1, <1>3, <1>4, <1>5, NothingStored

LEMMA RequestStepStorage ==
    ASSUME StorageInv, NEW x \in Servers, RequestStep(x) \/ RequestLost(x)
    PROVE  (InputInv /\ SecretInv /\ StateInv)'
<1>1. /\ request \in [Servers -> Request \union {None}]
      /\ objects \in [Runs -> SUBSET (Kinds \union {"input"})]
      /\ rows \in [Runs -> Row \union {None}]
      /\ faults \in 0..MaxFaults
  BY DEF StorageInv, TypeOK, StorageTypeOK
<1>2. Busy(x) /\ request[x] \in Request /\ request[x].run \in Runs
  BY <1>1 DEF RequestStep, RequestLost, RetryProbe, RetryLoad, RetryReads,
     StoreInput, InsertRow, PutArtifact, UpdateRow, ListObjects, EraseObjects,
     DeleteRow, Serves, Busy, Request
<1>3. OthersStay(x)
  BY <1>1 DEF OthersStay, RequestStep, RequestLost, RetryProbe,
     RetryLoad, RetryReads, StoreInput, InsertRow, PutArtifact, UpdateRow,
     ListObjects, EraseObjects, DeleteRow, Goto, Finish
<1> DEFINE r == request[x].run
<1> USE DEF At, WorksOn, Serves, Busy, Exists
<1>4. CASE RetryProbe(x) \/ RetryLoad(x)
  <2>1. /\ request[x].step \in {"probe", "load"}
        /\ Busy(x)' => request'[x].step \in {"load", "store"}
        /\ UNCHANGED <<rows, objects, faults, erased, torn>>
    BY <1>1, <1>2, <1>4 DEF RetryProbe, RetryLoad, RetryReads, Goto, Finish, Request
  <2> QED
    BY <1>3, <2>1, NothingStored
<1>5. CASE StoreInput(x)
  <2>1. /\ request[x].step = "store"
        /\ request'[x].step = "insert" /\ request'[x].run = r /\ request'[x] # None
        /\ objects' = [objects EXCEPT ![r] = @ \union {"input"}]
        /\ UNCHANGED <<rows, faults, erased, torn>>
    <3>1. [request[x] EXCEPT !.step = "insert"] \in Request
      BY <1>2 DEF Request, Steps
    <3> QED
      BY <1>1, <1>2, <1>5, <3>1, NoneAssumption DEF StoreInput, Goto, Request
  <2>2. ~Exists(r) /\ \A y \in Servers : ~At(y, r, {"erase", "deleteRow"})
    BY <1>2, <2>1 DEF StorageInv, IdsUsedOnce, Creating, Deleting
  <2>3. InputInv'
    BY <1>1, <1>2, <1>3, <2>1 DEF StorageInv, InputInv, RowHasInput, OthersStay
  <2>4. SecretInv'
    BY <1>1, <1>2, <1>3, <2>1, <2>2 DEF StorageInv, SecretInv, OthersStay
  <2>5. StateInv'
    BY <1>1, <1>2, <1>3, <2>1 DEF StorageInv, StateInv, StateLocationIsThere, OthersStay
  <2> QED BY <2>3, <2>4, <2>5
<1>6. CASE InsertRow(x)
  <2> DEFINE new == NewRow(request[x].parent)
  <2>1. /\ request[x].step = "insert" /\ request'[x] = None
        /\ rows' = [rows EXCEPT ![r] = new]
        /\ UNCHANGED <<objects, faults, erased, torn>>
    BY <1>1, <1>6 DEF InsertRow, Finish
  <2>2. new # None /\ ~new.state
    BY <1>2, NewRowIsRow, NoneAssumption DEF NewRow, Request
  <2> HIDE DEF new
  <2>3. "input" \in objects[r]
    BY <1>2, <2>1 DEF StorageInv, InputInv
  <2>4. InputInv'
    BY <1>1, <1>2, <1>3, <2>1, <2>2, <2>3
       DEF StorageInv, InputInv, RowHasInput, OthersStay
  <2>5. SecretInv'
    BY <1>1, <1>2, <1>3, <2>1, <2>2 DEF StorageInv, SecretInv, OthersStay
  <2>6. StateInv'
    BY <1>1, <1>2, <1>3, <2>1, <2>2
       DEF StorageInv, StateInv, StateLocationIsThere, OthersStay
  <2> QED BY <2>4, <2>5, <2>6
<1>7. CASE PutArtifact(x)
  <2>1. PICK kind \in request[x].rest :
           /\ objects' = [objects EXCEPT ![r] = @ \union {kind}]
           /\ request' = [request EXCEPT
                  ![x].rest = request[x].rest \ {kind},
                  ![x].stored = @ \union {kind},
                  ![x].step = IF request[x].rest = {kind} THEN "update" ELSE @]
    BY <1>7 DEF PutArtifact
  <2>2. /\ request[x].step = "put" /\ request'[x].step \in {"put", "update"}
        /\ request'[x].run = r /\ request'[x].stored = request[x].stored \union {kind}
        /\ kind # "input"
        /\ UNCHANGED <<rows, faults, erased, torn>>
    BY <1>1, <1>2, <1>7, <2>1, StorageAssumption DEF PutArtifact, Request
  <2>3. InputInv'
    BY <1>1, <1>2, <1>3, <2>1, <2>2 DEF StorageInv, InputInv, RowHasInput, OthersStay
  <2>4. SecretInv'
    BY <1>1, <1>2, <1>3, <2>1, <2>2 DEF StorageInv, SecretInv, OthersStay
  <2>5. StateInv'
    BY <1>1, <1>2, <1>3, <2>1, <2>2
       DEF StorageInv, StateInv, StateLocationIsThere, OthersStay
  <2> QED BY <2>3, <2>4, <2>5
<1>8. CASE UpdateRow(x)
  <2>1. /\ request[x].step = "update" /\ request'[x] = None
        /\ UNCHANGED <<objects, faults, erased, torn>>
    BY <1>1, <1>8 DEF UpdateRow, Finish
  <2>2. \A q \in Runs : Exists(q)' <=> Exists(q)
    BY <1>8, RowsStayRows DEF StorageInv, TypeOK
  <2>3. \A q \in Runs : Exists(q) /\ rows'[q].state =>
           \/ rows[q].state
           \/ q = r /\ "state" \in request[x].stored
    <3>1. \/ rows' = rows
          \/ /\ "state" \in request[x].stored
             /\ rows' = [rows EXCEPT ![r].state = TRUE]
      BY <1>8 DEF UpdateRow
    <3> QED BY <1>1, <1>2, <3>1
  <2>4. InputInv'
    BY <1>3, <2>1, <2>2 DEF StorageInv, InputInv, RowHasInput, OthersStay
  <2>5. SecretInv'
    BY <1>3, <2>1, <2>2 DEF StorageInv, SecretInv, OthersStay
  <2>6. StateInv'
    BY <1>2, <1>3, <2>1, <2>2, <2>3
       DEF StorageInv, StateInv, StateLocationIsThere, OthersStay
  <2> QED BY <2>4, <2>5, <2>6
<1>9. CASE ListObjects(x)
  <2>1. /\ request[x].step = "list" /\ request'[x].step = "erase"
        /\ request'[x].run = r /\ request'[x].stored = objects[r]
        /\ UNCHANGED <<rows, objects, faults, erased, torn>>
    BY <1>1, <1>2, <1>9 DEF ListObjects, Listed, Request
  <2>2. InputInv'
    BY <1>3, <2>1 DEF StorageInv, InputInv, RowHasInput, OthersStay
  <2>3. SecretInv'
    BY <1>2, <1>3, <2>1 DEF StorageInv, SecretInv, OthersStay
  <2>4. StateInv'
    BY <1>3, <2>1 DEF StorageInv, StateInv, StateLocationIsThere, OthersStay
  <2> QED BY <2>2, <2>3, <2>4
<1>10. CASE EraseObjects(x)
  <2>1. PICK gone \in SUBSET request[x].stored :
           /\ IF gone = request[x].stored THEN UNCHANGED faults ELSE Fault
           /\ objects' = [objects EXCEPT ![r] = @ \ gone]
    BY <1>10 DEF EraseObjects
  <2>2. /\ request[x].step = "erase"
        /\ request'[x].step = "deleteRow" /\ request'[x].run = r /\ request'[x] # None
        /\ erased' = erased \union {r}
        /\ UNCHANGED <<rows, torn>>
    <3>1. [request[x] EXCEPT !.step = "deleteRow"] \in Request
      BY <1>2 DEF Request, Steps
    <3> QED
      BY <1>1, <1>2, <1>10, <3>1, NoneAssumption DEF EraseObjects, Goto, Request
  <2>3. /\ Exists(r)
        /\ \A y \in Servers : ~At(y, r, {"insert"})
        /\ \A y \in Servers : At(y, r, {"erase", "deleteRow"}) => y = x
    BY <1>2, <2>2 DEF StorageInv, IdsUsedOnce, Creating, Deleting
  <2>4. /\ faults' >= faults
        /\ "input" \in objects'[r] => faults' > 0
    BY <1>1, <1>2, <2>1, <2>2 DEF StorageInv, SecretInv, Fault
  <2>5. InputInv'
    BY <1>1, <1>2, <1>3, <2>1, <2>2, <2>3
       DEF StorageInv, InputInv, RowHasInput, OthersStay
  <2>6. SecretInv'
    <3>1. \A q \in Runs : /\ q # r => objects'[q] = objects[q]
                           /\ Exists(q)' <=> Exists(q)
      BY <1>1, <2>1, <2>2
    <3>2. \A q \in Runs : ~Exists(q)' /\ "input" \in objects'[q] =>
             faults' > 0 \/ \E y \in Servers : At(y, q, {"insert"})'
      <4> SUFFICES ASSUME NEW q \in Runs, ~Exists(q)', "input" \in objects'[q],
                          ~(faults' > 0)
                   PROVE  \E y \in Servers : At(y, q, {"insert"})'
        OBVIOUS
      <4>1. q # r /\ ~Exists(q) /\ "input" \in objects[q] /\ ~(faults > 0)
        BY <1>1, <2>1, <2>3, <2>4, <3>1 DEF Fault
      <4>2. PICK y \in Servers : At(y, q, {"insert"})
        BY <4>1 DEF StorageInv, SecretInv
      <4>3. y # x
        BY <2>2, <4>2
      <4> QED BY <1>3, <4>2, <4>3 DEF OthersStay
    <3>3. ASSUME NEW y \in Servers, NEW q \in Runs, "input" \in objects'[q]
          PROVE  /\ At(y, q, {"erase"})' => "input" \in request'[y].stored
                 /\ At(y, q, {"deleteRow"})' => faults' > 0
      <4>1. CASE y = x
        BY <1>2, <2>2, <2>4, <3>3, <4>1
      <4>2. CASE y # x
        <5>1. request'[y] = request[y]
          BY <1>3, <4>2 DEF OthersStay
        <5>2. CASE q = r
          BY <2>3, <4>2, <5>1, <5>2
        <5>3. CASE q # r
          <6>1. "input" \in objects[q]
            BY <1>1, <2>1, <3>3, <5>3
          <6>2. faults > 0 => faults' > 0
            BY <1>1, <2>1 DEF Fault
          <6> QED
            BY <5>1, <6>1, <6>2 DEF StorageInv, SecretInv
        <5> QED BY <5>2, <5>3
      <4> QED BY <4>1, <4>2
    <3> QED BY <3>2, <3>3 DEF SecretInv
  <2>7. StateInv'
    BY <1>1, <1>2, <1>3, <2>1, <2>2
       DEF StorageInv, StateInv, StateLocationIsThere, OthersStay
  <2> QED BY <2>5, <2>6, <2>7
<1>11. CASE DeleteRow(x)
  <2>1. /\ request[x].step = "deleteRow" /\ request'[x] = None
        /\ rows' = [rows EXCEPT ![r] = None]
        /\ UNCHANGED <<objects, faults, erased, torn>>
    BY <1>1, <1>11 DEF DeleteRow, Finish
  <2>2. InputInv'
    BY <1>1, <1>2, <1>3, <2>1 DEF StorageInv, InputInv, RowHasInput, OthersStay
  <2>3. SecretInv'
    BY <1>1, <1>2, <1>3, <2>1 DEF StorageInv, SecretInv, OthersStay
  <2>4. StateInv'
    BY <1>1, <1>2, <1>3, <2>1 DEF StorageInv, StateInv, StateLocationIsThere, OthersStay
  <2> QED BY <2>2, <2>3, <2>4
<1>12. CASE RequestLost(x)
  <2>1. /\ request'[x] = None
        /\ torn' = torn \union (IF request[x].step = "deleteRow" THEN {r} ELSE {})
        /\ faults' > 0
        /\ UNCHANGED <<rows, objects, erased>>
    BY <1>1, <1>2, <1>12, StorageAssumption DEF RequestLost, Finish, Fault, Torn
  <2>2. InputInv'
    BY <1>2, <1>3, <2>1 DEF StorageInv, InputInv, RowHasInput, OthersStay
  <2>3. SecretInv'
    BY <1>2, <1>3, <2>1 DEF StorageInv, SecretInv, OthersStay
  <2>4. StateInv'
    BY <1>2, <1>3, <2>1 DEF StorageInv, StateInv, StateLocationIsThere, OthersStay
  <2> QED BY <2>2, <2>3, <2>4
<1> QED
  BY <1>4, <1>5, <1>6, <1>7, <1>8, <1>9, <1>10, <1>11, <1>12 DEF RequestStep

LEMMA StorageInvStep ==
    ASSUME StorageInv, [Next]_vars
    PROVE  StorageInv'
<1>1. StorageNext /\ TypeOK' /\ IdsUsedOnce'
  BY StorageSide, StorageTyped, PodTyped, IdsStep DEF StorageInv, TypeOK
<1> SUFFICES (InputInv /\ SecretInv /\ StateInv)'
  BY <1>1 DEF StorageInv
<1>2. CASE \E h \in Handlers, r \in Runs : Arrives(h, r)
  BY <1>2, ArrivalStorage
<1>3. CASE \E x \in Servers : RequestStep(x) \/ RequestLost(x)
  BY <1>3, RequestStepStorage
<1>4. CASE CleanupBegin
  BY <1>4 DEF CleanupBegin, StorageInv, InputInv, SecretInv, StateInv, RowHasInput,
     StateLocationIsThere, Exists, At, Serves, WorksOn, Busy
<1>5. CASE CleanupNext
  <2>1. Cleaner \in Servers /\ request \in [Servers -> Request \union {None}]
    BY DEF StorageInv, TypeOK, StorageTypeOK, Servers
  <2>2. /\ ~Busy(Cleaner)
        /\ UNCHANGED <<rows, objects, faults, erased, torn>>
        /\ \/ UNCHANGED request
           \/ \E r \in cleanup.todo : DeleteRun(r)
    BY <1>5 DEF CleanupNext
  <2>3. OthersStay(Cleaner)
    BY <2>1, <2>2 DEF DeleteRun, Begin, OthersStay
  <2>4. Busy(Cleaner)' => request'[Cleaner].step = "list"
    BY <2>1, <2>2 DEF DeleteRun, Begin, Busy
  <2> QED
    BY <2>1, <2>2, <2>3, <2>4, NothingStored
<1>6. CASE OperatorCrash
  <2>1. /\ \A x \in Servers : request'[x] = None
        /\ torn' = torn \union UNION {Torn(x) : x \in Servers}
        /\ faults' > 0
        /\ UNCHANGED <<rows, objects, erased>>
    BY <1>6, StorageAssumption DEF OperatorCrash, Fault, StorageInv, TypeOK, StorageTypeOK
  <2>2. \A r \in Runs, x \in Servers : At(x, r, {"deleteRow"}) <=> r \in Torn(x)
    BY DEF At, WorksOn, Serves, Busy, Torn
  <2>3. \A x \in Servers : Torn(x) \subseteq Runs
    BY DEF Torn, Serves, Busy, StorageInv, TypeOK, StorageTypeOK, Request
  <2>4. RowHasInput'
    BY <2>1, <2>2 DEF StorageInv, InputInv, RowHasInput, Exists, At, Serves, WorksOn, Busy
  <2>5. torn' \subseteq erased'
    BY <2>1, <2>2, <2>3 DEF StorageInv, InputInv
  <2> QED
    BY <2>1, <2>4, <2>5 DEF StorageInv, InputInv, SecretInv, StateInv,
       StateLocationIsThere, Exists, At, WorksOn, Busy
<1>7. CASE \E r \in Runs : RowChanges(r)
  <2>1. /\ UNCHANGED <<objects, request, faults, erased, torn>>
        /\ \A r \in Runs : Exists(r)' <=> Exists(r)
        /\ \A r \in Runs : rows'[r].state = rows[r].state
    BY <1>7, RowsStayRows DEF RowChanges, othersStorage, StorageInv, TypeOK, StorageTypeOK
  <2>2. InputInv' /\ SecretInv'
    BY <2>1 DEF StorageInv, InputInv, SecretInv, RowHasInput, At, Serves, WorksOn, Busy
  <2>3. StateInv'
    BY <2>1 DEF StorageInv, StateInv, StateLocationIsThere, At, WorksOn, Busy
  <2> QED BY <2>2, <2>3
<1>8. CASE StorageStays
  <2>1. UNCHANGED <<rows, objects, request, erased, torn>> /\ (faults > 0 => faults' > 0)
    BY <1>8 DEF StorageStays, Fault, StorageInv, TypeOK, StorageTypeOK
  <2> QED
    BY <2>1 DEF StorageInv, InputInv, SecretInv, StateInv, RowHasInput,
       StateLocationIsThere, Exists, At, Serves, WorksOn, Busy
<1> QED
  BY <1>1, <1>2, <1>3, <1>4, <1>5, <1>6, <1>7, <1>8 DEF StorageNext

LEMMA StorageInvHolds == Spec => []StorageInv
BY StorageInvInit, StorageInvStep, PTL DEF Spec

\* A run in the table has its input, unless its deletion is between the two
\* or was lost there.
THEOREM RowsHaveTheirInput == Spec => []RowHasInput
<1>1. StorageInv => RowHasInput
  BY DEF StorageInv, InputInv
<1> QED BY <1>1, StorageInvHolds, PTL

\* The input of a run that is gone goes with it, unless something failed.
THEOREM InputsGoWithRows == Spec => []InputGoesWithRow
<1>1. StorageInv => InputGoesWithRow
  BY DEF StorageInv, SecretInv, InputGoesWithRow, At
<1> QED BY <1>1, StorageInvHolds, PTL

\* state_location is never set without the state, unless it was erased since.
THEOREM StateLocationsAreThere == Spec => []StateLocationIsThere
<1>1. StorageInv => StateLocationIsThere
  BY DEF StorageInv, StateInv
<1> QED BY <1>1, StorageInvHolds, PTL

-----------------------------------------------------------------------------
(* The cleanup.                                                            *)

\* The runs the cleanup is done with and that are still there.
Missed == {r \in cleanup.picked :
              Exists(r) /\ r \notin cleanup.todo /\ ~WorksOn(Cleaner, r)}

\* Each of them cost a failure; the runs that were picked are no new ones,
\* and the cleanup does nothing but delete.
CleanupInv ==
    /\ Cardinality(Missed) <= faults
    /\ Busy(Cleaner) => request[Cleaner].step \in Deleting
    /\ \A r \in cleanup.picked :
          born[r] # 0 /\ \A x \in Servers : ~At(x, r, Creating)

\* A step that adds no run to the missed ones, or one for a failure.
LEMMA MissedStaysBounded ==
    ASSUME TypeOK, TypeOK', Cardinality(Missed) <= faults,
           \/ Missed' \subseteq Missed /\ faults' >= faults
           \/ \E q \in Runs : Missed' \subseteq Missed \union {q} /\ faults' = faults + 1
    PROVE  Cardinality(Missed') <= faults'
<1> USE DEF TypeOK, StorageTypeOK
<1>1. faults \in Nat /\ faults' \in Nat
  BY StorageAssumption
<1>2. /\ IsFiniteSet(Missed) /\ Cardinality(Missed) \in Nat
      /\ Cardinality(Missed') \in Nat
  <2>1. /\ cleanup \in [picked : SUBSET Runs, todo : SUBSET Runs]
        /\ cleanup' \in [picked : SUBSET Runs, todo : SUBSET Runs]
    OBVIOUS
  <2>2. cleanup.picked \subseteq Runs /\ cleanup'.picked \subseteq Runs
    BY ONLY <2>1
  <2>3. Missed \in SUBSET Runs /\ Missed' \in SUBSET Runs
    BY ONLY <2>2 DEF Missed
  <2> QED BY ONLY <2>3, RunsFinite, FS_Subset, FS_CardinalityType
<1>3. CASE Missed' \subseteq Missed /\ faults' >= faults
  <2>1. Cardinality(Missed') <= Cardinality(Missed)
    BY <1>2, <1>3, FS_Subset
  <2> QED BY <1>1, <1>2, <1>3, <2>1
<1>4. ASSUME NEW q \in Runs, Missed' \subseteq Missed \union {q}, faults' = faults + 1
      PROVE  Cardinality(Missed') <= faults'
  <2>1. /\ IsFiniteSet(Missed \union {q})
        /\ \/ Cardinality(Missed \union {q}) = Cardinality(Missed)
           \/ Cardinality(Missed \union {q}) = Cardinality(Missed) + 1
    BY ONLY <1>2, FS_AddElement
  <2>2. Cardinality(Missed') <= Cardinality(Missed \union {q})
    BY <1>4, <2>1, FS_Subset
  <2>3. Cardinality(Missed \union {q}) \in Nat
    BY <2>1, FS_CardinalityType
  <2> QED BY <1>1, <1>2, <1>4, <2>1, <2>2, <2>3
<1> QED BY <1>3, <1>4

\* A step of a request: it enters no row of a run that was picked, and only
\* a failure makes the cleanup leave a run that is there.
LEMMA RequestStepMisses ==
    ASSUME StorageInv, CleanupInv, NEW x \in Servers, RequestStep(x) \/ RequestLost(x)
    PROVE  /\ \/ Missed' \subseteq Missed /\ faults' >= faults
              \/ \E q \in Runs : Missed' \subseteq Missed \union {q}
                                 /\ faults' = faults + 1
           /\ Busy(Cleaner)' => request'[Cleaner].step \in Deleting
           /\ \A r \in cleanup'.picked :
                 born'[r] # 0 /\ \A y \in Servers : ~At(y, r, Creating)'
<1>1. /\ request \in [Servers -> Request \union {None}]
      /\ rows \in [Runs -> Row \union {None}]
      /\ cleanup \in [picked : SUBSET Runs, todo : SUBSET Runs]
      /\ faults \in Nat
      /\ Cleaner \in Servers
  BY StorageAssumption DEF StorageInv, TypeOK, StorageTypeOK, Servers
<1>2. Busy(x) /\ request[x] \in Request /\ request[x].run \in Runs
  BY <1>1 DEF RequestStep, RequestLost, RetryProbe, RetryLoad, RetryReads,
     StoreInput, InsertRow, PutArtifact, UpdateRow, ListObjects, EraseObjects,
     DeleteRow, Serves, Busy, Request
<1>3. OthersStay(x)
  BY <1>1 DEF OthersStay, RequestStep, RequestLost, RetryProbe,
     RetryLoad, RetryReads, StoreInput, InsertRow, PutArtifact, UpdateRow,
     ListObjects, EraseObjects, DeleteRow, Goto, Finish
<1>4. CASE RetryProbe(x) \/ RetryLoad(x) \/ StoreInput(x) \/ PutArtifact(x)
  <2>1. x # Cleaner
    BY <1>2, <1>4 DEF CleanupInv, Deleting, RetryProbe, RetryLoad, RetryReads,
       StoreInput, PutArtifact, Serves
  <2>2. UNCHANGED <<rows, born, cleanup, faults>>
    BY <1>4 DEF RetryProbe, RetryLoad, RetryReads, StoreInput, PutArtifact
  <2>3. \A r \in Runs : At(x, r, Creating)' => At(x, r, Creating)
    <3>1. CASE RetryProbe(x) \/ RetryLoad(x) \/ StoreInput(x)
      BY <1>1, <1>2, <3>1 DEF RetryProbe, RetryLoad, RetryReads, StoreInput,
         Serves, Goto, Finish, At, WorksOn, Busy, Creating, Request
    <3>2. CASE PutArtifact(x)
      <4>1. request'[x].step \in {"put", "update"}
        BY <1>1, <1>2, <3>2 DEF PutArtifact, Serves, Request
      <4> QED BY <4>1 DEF At, Creating
    <3> QED BY <1>4, <3>1, <3>2
  <2>4. Missed' = Missed
    BY <1>1, <1>3, <2>1, <2>2 DEF Missed, OthersStay, Exists, WorksOn, Busy
  <2> QED
    BY <1>1, <1>3, <2>1, <2>2, <2>3, <2>4
       DEF CleanupInv, OthersStay, At, WorksOn, Busy
<1>5. CASE InsertRow(x)
  <2> DEFINE r == request[x].run
  <2>1. /\ x # Cleaner
        /\ r \notin cleanup.picked
        /\ UNCHANGED <<born, cleanup, faults>>
        /\ request'[x] = None
        /\ \A q \in Runs \ {r} : rows'[q] = rows[q]
    BY <1>1, <1>2, <1>5 DEF CleanupInv, Creating, Deleting, InsertRow, Serves,
       Finish, At, WorksOn
  <2>2. Missed' = Missed
    BY <1>1, <1>3, <2>1 DEF Missed, OthersStay, Exists, WorksOn, Busy
  <2> QED
    BY <1>1, <1>3, <2>1, <2>2 DEF CleanupInv, OthersStay, At, WorksOn, Busy
<1>6. CASE UpdateRow(x)
  <2>1. /\ x # Cleaner
        /\ UNCHANGED <<born, cleanup, faults>>
        /\ request'[x] = None
    BY <1>1, <1>6 DEF CleanupInv, Deleting, UpdateRow, Serves, Finish
  <2>2. \A q \in Runs : Exists(q)' <=> Exists(q)
    BY <1>6, RowsStayRows DEF StorageInv, TypeOK
  <2>3. Missed' = Missed
    BY <1>1, <1>3, <2>1, <2>2 DEF Missed, OthersStay, WorksOn, Busy
  <2> QED
    BY <1>1, <1>3, <2>1, <2>3 DEF CleanupInv, OthersStay, At, WorksOn, Busy
<1>7. CASE ListObjects(x) \/ EraseObjects(x)
  <2>1. /\ UNCHANGED <<rows, born, cleanup>>
        /\ request'[x].run = request[x].run
        /\ request'[x].step \in Deleting
        /\ Busy(x)'
    <3>1. ASSUME NEW s \in Deleting, NEW keys \in SUBSET (Kinds \union {"input"})
          PROVE  [request[x] EXCEPT !.step = s, !.stored = keys] \in Request
      BY <1>2, <3>1 DEF Request, Steps, Deleting
    <3>2. ASSUME NEW s \in Deleting
          PROVE  [request[x] EXCEPT !.step = s] \in Request
      BY <1>2, <3>2 DEF Request, Steps, Deleting
    <3>3. CASE ListObjects(x)
      <4>1. objects[request[x].run] \in SUBSET (Kinds \union {"input"})
        BY <1>2 DEF StorageInv, TypeOK, StorageTypeOK
      <4>2. request'[x] = [request[x] EXCEPT !.stored = objects[request[x].run],
                                             !.step = "erase"]
        BY <1>1, <3>3 DEF ListObjects, Listed
      <4>3. request'[x] \in Request
        BY <1>2, <4>1, <4>2 DEF Request, Steps
      <4> QED
        BY <1>2, <3>3, <4>2, <4>3, NoneAssumption
           DEF ListObjects, Busy, Deleting, Request
    <3>4. CASE EraseObjects(x)
      BY <1>1, <1>2, <3>2, <3>4, NoneAssumption
         DEF EraseObjects, Goto, Busy, Deleting, Request
    <3> QED BY <1>7, <3>3, <3>4
  <2>2. \/ faults' = faults
        \/ faults' = faults + 1
    BY <1>7 DEF ListObjects, EraseObjects, Fault
  <2>3. Missed' = Missed
    BY <1>1, <1>2, <1>3, <2>1 DEF Missed, OthersStay, Exists, WorksOn, Busy
  <2>4. Busy(Cleaner)' => request'[Cleaner].step \in Deleting
    BY <1>1, <1>3, <2>1 DEF CleanupInv, OthersStay, Busy
  <2>5. \A r \in cleanup'.picked :
           born'[r] # 0 /\ \A y \in Servers : ~At(y, r, Creating)'
    BY <1>3, <2>1 DEF CleanupInv, OthersStay, At, WorksOn, Busy, Creating, Deleting
  <2> QED BY <1>1, <2>2, <2>3, <2>4, <2>5
<1>8. CASE DeleteRow(x)
  <2> DEFINE r == request[x].run
  <2>1. /\ cleanup'.picked = cleanup.picked \ {r}
        /\ cleanup'.todo = cleanup.todo
        /\ UNCHANGED <<born, faults>>
        /\ request'[x] = None
        /\ \A q \in Runs \ {r} : rows'[q] = rows[q]
    BY <1>1, <1>2, <1>8 DEF DeleteRow, Finish
  <2>2. Missed' \subseteq Missed
    BY <1>1, <1>2, <1>3, <2>1 DEF Missed, OthersStay, Exists, WorksOn, Busy
  <2> QED
    BY <1>1, <1>3, <2>1, <2>2 DEF CleanupInv, OthersStay, At, WorksOn, Busy
<1>9. CASE RequestLost(x)
  <2> DEFINE r == request[x].run
  <2>1. /\ UNCHANGED <<rows, born, cleanup>>
        /\ faults' = faults + 1
        /\ request'[x] = None
    BY <1>1, <1>9 DEF RequestLost, Fault, Finish
  <2>2. Missed' \subseteq Missed \union {r}
    BY <1>1, <1>3, <2>1 DEF Missed, OthersStay, Exists, WorksOn, Busy
  <2> QED
    BY <1>1, <1>2, <1>3, <2>1, <2>2 DEF CleanupInv, OthersStay, At, WorksOn, Busy
<1> QED
  BY <1>4, <1>5, <1>6, <1>7, <1>8, <1>9 DEF RequestStep

LEMMA CleanupInvStep ==
    ASSUME StorageInv, StorageInv', CleanupInv, [Next]_vars
    PROVE  CleanupInv'
<1>1. StorageNext /\ TypeOK /\ TypeOK'
  BY StorageSide DEF StorageInv
<1>2. /\ request \in [Servers -> Request \union {None}]
      /\ cleanup \in [picked : SUBSET Runs, todo : SUBSET Runs]
      /\ born \in [Runs -> Nat]
      /\ faults \in Nat
      /\ Cleaner \in Servers
  BY <1>1, StorageAssumption DEF TypeOK, StorageTypeOK, Servers
<1> DEFINE Bounded ==
           \/ Missed' \subseteq Missed /\ faults' >= faults
           \/ \E q \in Runs : Missed' \subseteq Missed \union {q}
                              /\ faults' = faults + 1
<1> DEFINE Rest ==
           /\ Busy(Cleaner)' => request'[Cleaner].step \in Deleting
           /\ \A r \in cleanup'.picked :
                 born'[r] # 0 /\ \A y \in Servers : ~At(y, r, Creating)'
<1> SUFFICES Bounded /\ Rest
  BY <1>1, MissedStaysBounded DEF CleanupInv
<1>3. ASSUME NEW h \in Handlers, NEW r \in Runs, Arrives(h, r)
      PROVE  Bounded /\ Rest
  <2>1. h # Cleaner /\ h \in Servers
    BY StorageAssumption DEF Servers
  <2>2. \E s \in {"store", "probe", "put"} : \E p, some, upload :
           Begin(h, s, r, p, some, upload)
    BY <1>3 DEF Arrives, CreateBegin, RetryBegin, UploadBegin, DeliverBegin
  <2>3. /\ UNCHANGED <<rows, cleanup, faults>>
        /\ \/ born[r] = 0 /\ \A q \in Runs \ {r} : born'[q] = born[q]
           \/ /\ \E some, upload : Begin(h, "put", r, None, some, upload)
              /\ born' = born
    BY <1>2, <1>3 DEF Arrives, CreateBegin, RetryBegin, UploadBegin, DeliverBegin, Fresh
  <2>4. OthersStay(h) /\ request'[h].run = r
    BY <1>2, <2>1, <2>2 DEF Begin, OthersStay
  <2>5. r \in cleanup.picked => request'[h].step = "put" /\ born' = born
    BY <1>2, <2>1, <2>3 DEF CleanupInv, Begin
  <2>6. Missed' = Missed
    BY <1>2, <2>1, <2>3, <2>4 DEF Missed, OthersStay, Exists, WorksOn, Busy
  <2>7. ASSUME NEW q \in cleanup.picked
        PROVE  born'[q] # 0 /\ \A y \in Servers : ~At(y, q, Creating)'
    <3>1. born'[q] # 0
      BY <1>2, <2>3, <2>5 DEF CleanupInv
    <3>2. ASSUME NEW y \in Servers
          PROVE  ~At(y, q, Creating)'
      <4>1. CASE y = h
        BY <2>4, <2>5, <4>1 DEF At, WorksOn, Creating
      <4>2. CASE y # h
        BY <2>4, <4>2 DEF CleanupInv, OthersStay, At, WorksOn, Busy
      <4> QED BY <4>1, <4>2
    <3> QED BY <3>1, <3>2
  <2> QED
    BY <1>2, <2>1, <2>3, <2>4, <2>6, <2>7 DEF CleanupInv, OthersStay, Busy
<1>4. CASE \E x \in Servers : RequestStep(x) \/ RequestLost(x)
  BY <1>4, RequestStepMisses
<1>5. CASE CleanupBegin
  <2>1. PICK cutoff \in {born[r] + 1 : r \in Runs} :
           cleanup' = [picked |-> {r \in Runs : Exists(r) /\ born[r] < cutoff},
                       todo |-> {r \in Runs : Exists(r) /\ born[r] < cutoff}]
    BY <1>5 DEF CleanupBegin
  <2>2. /\ cleanup'.picked = cleanup'.todo
        /\ \A r \in cleanup'.picked : r \in Runs /\ Exists(r)
        /\ ~Busy(Cleaner)
        /\ UNCHANGED <<rows, born, request, faults>>
    BY <1>5, <2>1 DEF CleanupBegin
  <2>3. Missed' = {}
    BY <2>2 DEF Missed
  <2>4. Rest
    BY <2>2 DEF StorageInv, IdsUsedOnce, At, WorksOn, Busy, Exists
  <2> QED BY <1>2, <2>2, <2>3, <2>4
<1>6. CASE CleanupNext
  <2>1. PICK r \in cleanup.todo :
           /\ cleanup' = [cleanup EXCEPT !.todo = @ \ {r}]
           /\ IF Exists(r) THEN DeleteRun(r) ELSE UNCHANGED request
    BY <1>6 DEF CleanupNext
  <2>2. /\ cleanup'.picked = cleanup.picked
        /\ cleanup'.todo = cleanup.todo \ {r}
        /\ ~Busy(Cleaner)
        /\ UNCHANGED <<rows, born, faults>>
    BY <1>2, <1>6, <2>1 DEF CleanupNext
  <2>3. CASE Exists(r)
    <3>1. /\ request'[Cleaner].step = "list"
          /\ request'[Cleaner].run = r
          /\ request'[Cleaner] # None
          /\ OthersStay(Cleaner)
      <4>1. [step |-> "list", run |-> r, parent |-> None, rest |-> {},
             stored |-> {}, upload |-> FALSE] \in Request
        BY <1>2 DEF Request, Steps
      <4>2. /\ request'[Cleaner] = [step |-> "list", run |-> r, parent |-> None,
                                    rest |-> {}, stored |-> {}, upload |-> FALSE]
            /\ OthersStay(Cleaner)
        BY <1>2, <2>1, <2>3 DEF DeleteRun, Begin, OthersStay
      <4>3. request'[Cleaner] # None
        BY ONLY <4>1, <4>2, NoneAssumption
      <4> QED BY <4>2, <4>3
    <3>2. Missed' \subseteq Missed
      BY <2>2, <3>1 DEF Missed, Exists, WorksOn, Busy
    <3>3. Rest
      BY <1>2, <2>2, <3>1 DEF CleanupInv, OthersStay, At, WorksOn, Busy, Creating, Deleting
    <3> QED BY <1>2, <2>2, <3>2, <3>3
  <2>4. CASE ~Exists(r)
    <3>1. UNCHANGED request
      BY <2>1, <2>4
    <3>2. Missed' \subseteq Missed
      BY <2>2, <2>4, <3>1 DEF Missed, Exists, WorksOn, Busy
    <3>3. Rest
      BY <2>2, <3>1 DEF CleanupInv, At, WorksOn, Busy
    <3> QED BY <1>2, <2>2, <3>2, <3>3
  <2> QED BY <2>3, <2>4
<1>7. CASE OperatorCrash
  <2>1. /\ cleanup'.picked = {}
        /\ \A x \in Servers : request'[x] = None
        /\ faults' = faults + 1
    BY <1>7 DEF OperatorCrash, Fault
  <2>2. Missed' = {}
    BY <2>1 DEF Missed
  <2> QED BY <1>2, <2>1, <2>2 DEF Busy
<1>8. CASE \E r \in Runs : RowChanges(r)
  <2>1. \A r \in Runs : Exists(r)' <=> Exists(r)
    BY <1>1, <1>8, RowsStayRows DEF TypeOK
  <2>2. UNCHANGED <<born, request, cleanup, faults>>
    BY <1>8 DEF RowChanges, othersStorage
  <2>3. Missed' = Missed
    BY <1>2, <2>1, <2>2 DEF Missed, WorksOn, Busy
  <2> QED
    BY <1>2, <2>2, <2>3 DEF CleanupInv, At, WorksOn, Busy
<1>9. CASE StorageStays
  <2>1. UNCHANGED <<rows, born, request, cleanup>> /\ faults' >= faults
    BY <1>2, <1>9 DEF StorageStays, Fault
  <2>2. Missed' = Missed
    BY <2>1 DEF Missed, Exists, WorksOn, Busy
  <2> QED
    BY <2>1, <2>2 DEF CleanupInv, At, WorksOn, Busy
<1> QED
  BY <1>1, <1>3, <1>4, <1>5, <1>6, <1>7, <1>8, <1>9 DEF StorageNext

\* One failure keeps the cleanup from one run and not from the runs after it.
THEOREM CleanupPassesOverFailures == Spec => []FailureSkipsOneRun
<1>1. Init => CleanupInv
  <2> SUFFICES ASSUME StorageInit PROVE CleanupInv
    BY DEF Init
  <2>1. Missed = {} /\ cleanup.picked = {}
    BY DEF StorageInit, Missed
  <2>2. ~Busy(Cleaner) /\ faults = 0
    BY DEF StorageInit, Busy, Servers
  <2> QED BY <2>1, <2>2, FS_EmptySet DEF CleanupInv
<1>2. StorageInv /\ StorageInv' /\ CleanupInv /\ [Next]_vars => CleanupInv'
  BY CleanupInvStep
<1>3. CleanupInv => FailureSkipsOneRun
  <2> SUFFICES ASSUME CleanupInv, ~Busy(Cleaner), cleanup.todo = {}
               PROVE  Cardinality({r \in cleanup.picked : Exists(r)}) <= faults
    BY DEF FailureSkipsOneRun
  <2>1. Missed = {r \in cleanup.picked : Exists(r)}
    BY DEF Missed, WorksOn
  <2> QED BY <2>1 DEF CleanupInv
<1> QED
  BY <1>1, <1>2, <1>3, StorageInvHolds, PTL DEF Spec

-----------------------------------------------------------------------------
(* Pods.                                                                   *)

\* The state of the run that a retry goes on from.
ParentThere(p) == \/ p = None \/ p \in erased
                  \/ Exists(p) /\ "state" \in objects[p]

ParentInv ==
    /\ \A r \in Runs : Exists(r) => ParentThere(rows[r].parent)
    /\ \A x \in Servers, r \in Runs :
          At(x, r, Creating) => ParentThere(request[x].parent)

\* The state of a run is recorded, or it has been given to a handler that
\* will record it.
Recorded(r) == \/ faults > 0 \/ r \in erased
               \/ Exists(r) /\ rows[r].state

OnItsWay(r) ==
    \/ Recorded(r)
    \/ \E h \in Handlers :
          /\ At(h, r, {"put", "update"})
          /\ "state" \in request[h].rest \union request[h].stored
          /\ request[h].step = "update" => request[h].rest = {}
          /\ request[h].upload

PodOK(r) ==
    /\ at[r] # "none" => Exists(r) \/ r \in erased
    /\ ParentThere(parentOf[r])
    /\ at[r] = "state" => parentOf[r] # None
    /\ at[r] \in {"none", "input", "state", "arm", "spawn"} => child[r] = "none"
    /\ at[r] \in {"wait", "finish", "upload", "response", "exit"} => child[r] # "none"
    /\ at[r] \in {"none", "input", "state", "arm"} => ~cancelled[r]
    /\ at[r] = "upload" => "state" \in files[r] \/ faults > 0
    /\ at[r] = "response" => OnItsWay(r)
    /\ at[r] = "exit" => Recorded(r)
    /\ at[r] = "ended" /\ child[r] # "none" => Recorded(r) \/ killed[r]
    /\ at[r] = "ended" /\ child[r] = "none" =>
          \/ killed[r] \/ faults > 0
          \/ Exists(r) /\ rows[r].cancel
          \/ r \in erased \/ parentOf[r] \in erased

PodInv == StorageInv /\ ParentInv /\ \A r \in Runs : PodOK(r)

\* Nothing is lost from the table and the store but by a delete, which is
\* remembered.
OnlyDeletesTake ==
    /\ erased \subseteq erased'
    /\ faults > 0 => faults' > 0
    /\ \A r \in Runs : "state" \in objects[r] => "state" \in objects'[r] \/ r \in erased'
    /\ \A r \in Runs : Exists(r) =>
          \/ r \in erased'
          \/ /\ Exists(r)'
             /\ rows'[r].parent = rows[r].parent
             /\ rows[r].state => rows'[r].state
             /\ rows[r].cancel => rows'[r].cancel

LEMMA StorageMonotone ==
    ASSUME StorageInv, StorageNext
    PROVE  OnlyDeletesTake
<1> USE DEF OnlyDeletesTake
<1>1. /\ request \in [Servers -> Request \union {None}]
      /\ objects \in [Runs -> SUBSET (Kinds \union {"input"})]
      /\ rows \in [Runs -> Row \union {None}]
      /\ faults \in 0..MaxFaults
  BY DEF StorageInv, TypeOK, StorageTypeOK
<1>2. CASE \E h \in Handlers, r \in Runs : Arrives(h, r)
  BY <1>2 DEF Arrives, CreateBegin, RetryBegin, UploadBegin, DeliverBegin, Exists
<1>3. CASE \E x \in Servers : RequestLost(x)
  BY <1>1, <1>3 DEF RequestLost, Fault, Exists
<1>4. CASE CleanupBegin \/ CleanupNext \/ OperatorCrash \/ StorageStays
  BY <1>1, <1>4 DEF CleanupBegin, CleanupNext, OperatorCrash, StorageStays, Fault, Exists
<1>5. CASE \E r \in Runs : RowChanges(r)
  BY <1>1, <1>5, NoneAssumption DEF RowChanges, othersStorage, Exists
<1>6. ASSUME NEW x \in Servers, RequestStep(x)
      PROVE  OnlyDeletesTake
  <2>1. CASE RetryProbe(x) \/ RetryLoad(x) \/ ListObjects(x)
    BY <2>1 DEF RetryProbe, RetryLoad, RetryReads, ListObjects, Exists
  <2>2. CASE StoreInput(x)
    BY <1>1, <2>2 DEF StoreInput, Exists
  <2>3. CASE InsertRow(x)
    <3>1. At(x, request[x].run, Creating) /\ request[x].run \in Runs
      BY <1>1, <2>3 DEF InsertRow, Serves, Busy, At, WorksOn, Creating, Request
    <3>2. ~Exists(request[x].run)
      BY <3>1 DEF StorageInv, IdsUsedOnce
    <3> QED
      BY <1>1, <2>3, <3>2 DEF InsertRow, Exists
  <2>4. CASE PutArtifact(x)
    BY <1>1, <2>4 DEF PutArtifact, Exists
  <2>5. CASE UpdateRow(x)
    <3> DEFINE r == request[x].run
    <3>1. \A q \in Runs : Exists(q)' <=> Exists(q)
      BY <2>5, RowsStayRows DEF StorageInv, TypeOK
    <3>2. UNCHANGED <<erased, faults, objects>>
      BY <2>5 DEF UpdateRow
    <3>3. CASE rows' = rows
      BY <3>2, <3>3 DEF Exists
    <3>4. CASE rows' = [rows EXCEPT ![r].state = TRUE]
      <4>1. ASSUME NEW q \in Runs, Exists(q)
            PROVE  /\ rows'[q].parent = rows[q].parent
                   /\ rows[q].state => rows'[q].state
                   /\ rows[q].cancel => rows'[q].cancel
        <5>1. rows[q] \in Row
          BY <1>1, <4>1 DEF Exists
        <5> QED
          BY <1>1, <3>4, <5>1 DEF Row
      <4> QED BY <3>1, <3>2, <4>1
    <3> QED BY <2>5, <3>3, <3>4 DEF UpdateRow
  <2>6. CASE EraseObjects(x)
    BY <1>1, <2>6 DEF EraseObjects, Fault, Exists
  <2>7. CASE DeleteRow(x)
    <3>1. request[x].run \in Runs /\ At(x, request[x].run, {"deleteRow"})
      BY <1>1, <2>7 DEF DeleteRow, Serves, Busy, At, WorksOn, Request
    <3>2. request[x].run \in erased
      BY <3>1 DEF StorageInv, InputInv
    <3> QED
      BY <1>1, <2>7, <3>2 DEF DeleteRow, Exists
  <2> QED
    BY <1>6, <2>1, <2>2, <2>3, <2>4, <2>5, <2>6, <2>7 DEF RequestStep
<1> QED
  BY <1>2, <1>3, <1>4, <1>5, <1>6 DEF StorageNext

LEMMA ParentStays ==
    ASSUME StorageInv, StorageNext, NEW p \in Runs \union {None}, ParentThere(p)
    PROVE  ParentThere(p)'
BY StorageMonotone DEF OnlyDeletesTake, ParentThere, StorageInv, TypeOK, StorageTypeOK

LEMMA RecordedStays ==
    ASSUME StorageInv, StorageNext, NEW r \in Runs, Recorded(r)
    PROVE  Recorded(r)'
BY StorageMonotone DEF OnlyDeletesTake, Recorded

LEMMA ParentStep ==
    ASSUME StorageInv, ParentInv, StorageNext
    PROVE  ParentInv'
<1>1. /\ request \in [Servers -> Request \union {None}]
      /\ objects \in [Runs -> SUBSET (Kinds \union {"input"})]
      /\ rows \in [Runs -> Row \union {None}]
  BY DEF StorageInv, TypeOK, StorageTypeOK
<1> DEFINE
      Rows ==
          \A r \in Runs : Exists(r)' =>
              \/ rows'[r].parent = None
              \/ Exists(r) /\ rows'[r].parent = rows[r].parent
              \/ \E x \in Servers : /\ At(x, r, Creating)
                                    /\ rows'[r].parent = request[x].parent
      Requests ==
          \A x \in Servers, r \in Runs : At(x, r, Creating)' =>
              \/ request'[x].parent = None
              \/ At(x, r, Creating) /\ request'[x].parent = request[x].parent
              \/ \E p \in Runs : /\ Exists(p) /\ rows[p].state
                                 /\ request'[x].parent = p
<1>2. Rows /\ Requests
  <2>1. CASE \E h \in Handlers, r \in Runs : Arrives(h, r)
    <3>1. Rows
      BY <2>1 DEF Arrives, CreateBegin, RetryBegin, UploadBegin, DeliverBegin, Exists
    <3>2. Requests
      BY <1>1, <2>1 DEF Arrives, CreateBegin, RetryBegin, UploadBegin, DeliverBegin,
         Begin, At, WorksOn, Busy, Creating
    <3> QED BY <3>1, <3>2
  <2>2. CASE \E x \in Servers : RequestLost(x)
    BY <1>1, <2>2 DEF RequestLost, Finish, Exists, At, WorksOn, Busy
  <2>3. CASE CleanupBegin \/ OperatorCrash \/ StorageStays
    BY <1>1, <2>3 DEF CleanupBegin, OperatorCrash, StorageStays, Exists, At, WorksOn, Busy
  <2>4. CASE CleanupNext
    BY <1>1, <2>4 DEF CleanupNext, DeleteRun, Begin, Exists, At, WorksOn, Busy, Creating
  <2>5. CASE \E r \in Runs : RowChanges(r)
    <3>1. \A r \in Runs : Exists(r)' <=> Exists(r)
      BY <2>5, RowsStayRows DEF StorageInv, TypeOK
    <3> QED
      BY <1>1, <2>5, <3>1 DEF RowChanges, othersStorage, At, WorksOn, Busy
  <2>6. ASSUME NEW x \in Servers, RequestStep(x)
        PROVE  Rows /\ Requests
    <3> USE DEF At, WorksOn, Serves, Busy, Creating
    <3>1. CASE RetryProbe(x) \/ RetryLoad(x)
      BY <1>1, <3>1 DEF RetryProbe, RetryLoad, RetryReads, Goto, Finish, Exists, Request
    <3>2. CASE StoreInput(x)
      BY <1>1, <3>2 DEF StoreInput, Goto, Exists, Request
    <3>3. CASE InsertRow(x)
      BY <1>1, <3>3 DEF InsertRow, NewRow, Finish, Exists, Request
    <3>4. CASE PutArtifact(x)
      BY <1>1, <3>4 DEF PutArtifact, Exists, Request
    <3>5. CASE UpdateRow(x)
      <4>1. Rows
        BY <1>1, <3>5, StorageMonotone, RowsStayRows DEF OnlyDeletesTake, StorageInv, TypeOK, UpdateRow, Exists
      <4>2. Requests
        BY <1>1, <3>5 DEF UpdateRow, Finish
      <4> QED BY <4>1, <4>2
    <3>6. CASE ListObjects(x) \/ EraseObjects(x)
      BY <1>1, <3>6 DEF ListObjects, EraseObjects, Goto, Exists, Request
    <3>7. CASE DeleteRow(x)
      BY <1>1, <3>7 DEF DeleteRow, Finish, Exists
    <3> QED
      BY <2>6, <3>1, <3>2, <3>3, <3>4, <3>5, <3>6, <3>7 DEF RequestStep
  <2> QED
    BY <2>1, <2>2, <2>3, <2>4, <2>5, <2>6 DEF StorageNext
<1> HIDE DEF Rows, Requests
<1>3. ASSUME NEW r \in Runs, Exists(r)'
      PROVE  ParentThere(rows[r].parent)'
  <2>1. CASE rows'[r].parent = None
    BY <2>1 DEF ParentThere
  <2>2. CASE Exists(r) /\ rows'[r].parent = rows[r].parent
    <3>1. PICK p \in Runs \union {None} : p = rows[r].parent /\ ParentThere(p)
      BY <1>1, <2>2 DEF ParentInv, Exists, Row
    <3>2. ParentThere(p)'
      BY <3>1, ParentStays
    <3> QED
      BY <2>2, <3>1, <3>2 DEF ParentThere
  <2>3. ASSUME NEW x \in Servers, At(x, r, Creating), rows'[r].parent = request[x].parent
        PROVE  ParentThere(rows[r].parent)'
    <3>1. PICK p \in Runs \union {None} : p = request[x].parent /\ ParentThere(p)
      BY <1>1, <2>3 DEF ParentInv, At, WorksOn, Busy, Request
    <3>2. ParentThere(p)'
      BY <3>1, ParentStays
    <3> QED
      BY <2>3, <3>1, <3>2 DEF ParentThere
  <2> QED
    BY <1>2, <1>3, <2>1, <2>2, <2>3 DEF Rows
<1>4. ASSUME NEW x \in Servers, NEW r \in Runs, At(x, r, Creating)'
      PROVE  ParentThere(request[x].parent)'
  <2>1. CASE request'[x].parent = None
    BY <2>1 DEF ParentThere
  <2>2. CASE At(x, r, Creating) /\ request'[x].parent = request[x].parent
    <3>1. PICK p \in Runs \union {None} : p = request[x].parent /\ ParentThere(p)
      BY <1>1, <2>2 DEF ParentInv, At, WorksOn, Busy, Request
    <3>2. ParentThere(p)'
      BY <3>1, ParentStays
    <3> QED
      BY <2>2, <3>1, <3>2 DEF ParentThere
  <2>3. ASSUME NEW p \in Runs, Exists(p), rows[p].state, request'[x].parent = p
        PROVE  ParentThere(request[x].parent)'
    <3>1. ParentThere(p)
      BY <2>3 DEF ParentThere, StorageInv, StateInv, StateLocationIsThere
    <3>2. ParentThere(p)'
      BY <3>1, ParentStays
    <3> QED
      BY <2>3, <3>2 DEF ParentThere
  <2> QED
    BY <1>2, <1>4, <2>1, <2>2, <2>3 DEF Requests
<1> QED
  BY <1>3, <1>4 DEF ParentInv

\* An upload that holds the state keeps it until it is recorded.
LEMMA OnItsWayStays ==
    ASSUME StorageInv, StorageNext, NEW r \in Runs, Exists(r) \/ r \in erased,
           OnItsWay(r)
    PROVE  OnItsWay(r)'
<1>1. CASE Recorded(r)
  BY <1>1, RecordedStays DEF OnItsWay
<1>2. ASSUME ~Recorded(r)
      PROVE  OnItsWay(r)'
  <2>1. PICK h \in Handlers :
           /\ At(h, r, {"put", "update"})
           /\ "state" \in request[h].rest \union request[h].stored
           /\ request[h].step = "update" => request[h].rest = {}
           /\ request[h].upload
    BY <1>2 DEF OnItsWay
  <2>2. /\ request \in [Servers -> Request \union {None}]
        /\ rows \in [Runs -> Row \union {None}]
        /\ faults \in 0..MaxFaults
        /\ h \in Servers /\ h # Cleaner
    BY StorageAssumption DEF StorageInv, TypeOK, StorageTypeOK, Servers
  <2>3. request[h] \in Request /\ Busy(h) /\ request[h].run = r
        /\ request[h].step \in {"put", "update"}
    BY <2>1, <2>2 DEF At, WorksOn, Busy
  <2>4. CASE request'[h] = request[h]
    BY <2>1, <2>4 DEF OnItsWay, At, WorksOn, Busy
  <2>5. CASE PutArtifact(h)
    <3>1. PICK kind \in request[h].rest :
             request' = [request EXCEPT
                ![h].rest = request[h].rest \ {kind},
                ![h].stored = @ \union {kind},
                ![h].step = IF request[h].rest = {kind} THEN "update" ELSE @]
      BY <2>5 DEF PutArtifact
    <3> DEFINE new == [request[h] EXCEPT
                          !.rest = request[h].rest \ {kind},
                          !.stored = @ \union {kind},
                          !.step = IF request[h].rest = {kind} THEN "update" ELSE @]
    <3>2. request'[h] = new
      BY <2>2, <3>1
    <3>3. /\ new \in Request /\ new.run = r /\ new.upload
          /\ new.step \in {"put", "update"}
          /\ new.step = "update" => new.rest = {}
          /\ "state" \in new.rest \union new.stored
      <4>1. kind \in Kinds
        BY <2>3 DEF Request
      <4>2. request[h].step = "put"
        BY <2>5 DEF PutArtifact, Serves
      <4> QED
        BY <2>1, <2>3, <4>1, <4>2 DEF Request, Steps
    <3> HIDE DEF new
    <3>4. new # None
      BY <3>3, NoneAssumption
    <3> QED
      BY <3>2, <3>3, <3>4 DEF OnItsWay, At, WorksOn, Busy
  <2>6. CASE UpdateRow(h)
    <3>1. CASE r \in erased
      BY <1>2, <3>1 DEF Recorded
    <3>2. CASE Exists(r)
      <4>1. request[h].step = "update"
        BY <2>6 DEF UpdateRow, Serves
      <4>2. "state" \in request[h].stored
        BY <2>1, <4>1
      <4>3. rows' = [rows EXCEPT ![r].state = TRUE]
        BY <2>3, <2>6, <3>2, <4>2 DEF UpdateRow
      <4>4. rows'[r].state
        <5>1. rows[r] \in Row
          BY <2>2, <3>2 DEF Exists
        <5> QED BY <2>2, <4>3, <5>1 DEF Row
      <4>5. Exists(r)'
        BY <2>6, <3>2, RowsStayRows, <2>2 DEF StorageInv, TypeOK
      <4> QED BY <4>4, <4>5 DEF OnItsWay, Recorded
    <3> QED BY <3>1, <3>2
  <2>7. CASE faults' > 0
    BY <2>7 DEF OnItsWay, Recorded
  <2>8. request'[h] = request[h] \/ PutArtifact(h) \/ UpdateRow(h) \/ faults' > 0
    <3>1. CASE \E x \in Handlers, q \in Runs : Arrives(x, q)
      BY <2>2, <2>3, <3>1 DEF Arrives, CreateBegin, RetryBegin, UploadBegin,
         DeliverBegin, Begin, Fresh
    <3>2. CASE \E x \in Servers : RequestLost(x)
      BY <2>2, <3>2 DEF RequestLost, Fault
    <3>3. CASE CleanupBegin \/ CleanupNext \/ OperatorCrash \/ StorageStays
      BY <2>2, <3>3 DEF CleanupBegin, CleanupNext, DeleteRun, Begin, OperatorCrash,
         StorageStays, Fault
    <3>4. CASE \E q \in Runs : RowChanges(q)
      BY <3>4 DEF RowChanges, othersStorage
    <3>5. ASSUME NEW x \in Servers, RequestStep(x)
          PROVE  request'[h] = request[h] \/ PutArtifact(h) \/ UpdateRow(h)
      BY <2>2, <2>3, <3>5 DEF RequestStep, RetryProbe, RetryLoad, RetryReads,
         StoreInput, InsertRow, PutArtifact, UpdateRow, ListObjects, EraseObjects,
         DeleteRow, Serves, Busy, Goto, Finish
    <3> QED
      BY <3>1, <3>2, <3>3, <3>4, <3>5 DEF StorageNext
  <2> QED BY <2>4, <2>5, <2>6, <2>7, <2>8
<1> QED BY <1>1, <1>2

\* What the pod of run r looks like is not changed.
PodStays(r) ==
    /\ at'[r] = at[r] /\ child'[r] = child[r] /\ parentOf'[r] = parentOf[r]
    /\ cancelled'[r] = cancelled[r] /\ files'[r] = files[r]
    /\ killed'[r] = killed[r]

LEMMA PodOKStays ==
    ASSUME PodInv, StorageNext, NEW r \in Runs, PodStays(r)
    PROVE  PodOK(r)'
<1>1. PodOK(r) /\ StorageInv
  BY DEF PodInv
<1>2. parentOf[r] \in Runs \union {None}
  BY <1>1 DEF StorageInv, TypeOK, PodTypeOK
<1>3. Exists(r) \/ r \in erased => Exists(r)' \/ r \in erased'
  BY <1>1, StorageMonotone DEF OnlyDeletesTake
<1>4. ParentThere(parentOf[r])'
  <2>1. PICK p \in Runs \union {None} : p = parentOf[r]
    BY <1>2
  <2>2. ParentThere(p)'
    BY <1>1, <2>1, ParentStays DEF PodOK
  <2> QED BY <2>1, <2>2 DEF PodStays, ParentThere
<1>5. /\ Recorded(r) => Recorded(r)'
      /\ at[r] = "response" => OnItsWay(r)'
  BY <1>1, RecordedStays, OnItsWayStays DEF PodOK
<1>6. at[r] = "ended" /\ child[r] = "none" =>
          \/ killed[r] \/ faults' > 0
          \/ Exists(r)' /\ rows'[r].cancel
          \/ r \in erased' \/ parentOf[r] \in erased'
  BY <1>1, StorageMonotone DEF PodOK, OnlyDeletesTake
<1>7. faults > 0 => faults' > 0
  BY <1>1, StorageMonotone DEF OnlyDeletesTake
<1> QED
  BY <1>1, <1>3, <1>4, <1>5, <1>6, <1>7 DEF PodOK, PodStays

LEMMA PodInvInit == Init => PodInv
<1> SUFFICES ASSUME Init PROVE PodInv
  OBVIOUS
<1>1. ParentInv
  BY DEF Init, StorageInit, ParentInv, Exists, At, WorksOn, Busy
<1>2. ASSUME NEW r \in Runs PROVE PodOK(r)
  BY DEF Init, PodInit, PodOK, ParentThere
<1> QED BY <1>1, <1>2, StorageInvInit DEF PodInv

\* A pod whose run is there finds its input, and the state it goes on from.
LEMMA NotGrantedIsErased ==
    ASSUME PodInv, NEW r \in Runs, at[r] \in {"input", "state"}, ~Granted(r)
    PROVE  r \in erased \/ parentOf[r] \in erased
<1>1. PodOK(r) /\ StorageInv
  BY DEF PodInv
<1>2. CASE at[r] = "input"
  <2>1. ~Served(r, "input")
    BY <1>2 DEF Granted, RunTokenAllows
  <2>2. Exists(r) => r \in erased
    BY <1>1, <2>1, StorageAssumption
       DEF Served, StorageInv, InputInv, RowHasInput, Serves, WorksOn, At
  <2> QED BY <1>1, <1>2, <2>2 DEF PodOK
<1>3. CASE at[r] = "state"
  <2>1. parentOf[r] # None /\ ParentThere(parentOf[r])
    BY <1>1, <1>3 DEF PodOK
  <2>2. ~Served(parentOf[r], "state")
    BY <1>3, <2>1 DEF Granted, RunTokenAllows
  <2> QED BY <2>1, <2>2 DEF ParentThere, Served
<1> QED BY <1>2, <1>3

\* The steps of the entrypoint of run r.
LEMMA PodStepKeeps ==
    ASSUME PodInv, NEW r \in Runs, PodStep(r), StorageNext, TypeOK'
    PROVE  PodOK(r)'
<1>1. PodOK(r) /\ StorageInv
  BY DEF PodInv
<1>2. /\ at \in [Runs -> Places] /\ child \in [Runs -> Children]
      /\ cancelled \in [Runs -> BOOLEAN] /\ parentOf \in [Runs -> Runs \union {None}]
      /\ files \in [Runs -> SUBSET Kinds] /\ outcome \in [Runs -> {"none", "succeeded", "failed"}]
      /\ killed \in [Runs -> BOOLEAN] /\ doomed \in [Runs -> BOOLEAN]
  BY <1>1 DEF StorageInv, TypeOK, PodTypeOK
<1>3. Exists(r) \/ r \in erased => Exists(r)' \/ r \in erased'
  BY <1>1, StorageMonotone DEF OnlyDeletesTake
<1>4. parentOf'[r] = parentOf[r] => ParentThere(parentOf[r])'
  <2>1. PICK p \in Runs \union {None} : p = parentOf[r]
    BY <1>2
  <2>2. ParentThere(p)'
    BY <1>1, <2>1, ParentStays DEF PodOK
  <2> QED BY <2>1, <2>2 DEF ParentThere
<1>5. CASE FetchRunInput(r) \/ FetchParentState(r)
  BY <1>1, <1>2, <1>3, <1>4, <1>5
     DEF FetchRunInput, FetchParentState, Step, IsRetry, PodOK
<1>6. CASE FetchFails(r)
  <2>1. r \in erased' \/ parentOf[r] \in erased'
    BY <1>1, <1>6, NotGrantedIsErased, StorageMonotone DEF FetchFails, OnlyDeletesTake
  <2> QED
    BY <1>1, <1>2, <1>3, <1>4, <1>6, <2>1 DEF FetchFails, Dies, Ends, PodOK
<1>7. CASE InstallHandlers(r) \/ StartChild(r)
  BY <1>1, <1>2, <1>3, <1>4, <1>7 DEF InstallHandlers, StartChild, Step, PodOK
<1>8. CASE ReapChild(r)
  BY <1>1, <1>2, <1>3, <1>4, <1>8 DEF ReapChild, Step, PodOK
<1>9. CASE Archive(r)
  <2>1. "state" \in files'[r] \/ faults' > 0
    BY <1>1, <1>2, <1>9 DEF Archive, Fault, StorageInv, TypeOK, StorageTypeOK
  <2> QED
    BY <1>1, <1>2, <1>3, <1>4, <1>9, <2>1 DEF Archive, Step, PodOK
<1>10. ASSUME NEW h \in Handlers, Upload(h, r)
       PROVE  PodOK(r)'
  <2>1. OnItsWay(r)'
    <3>1. CASE faults > 0
      BY <1>10, <3>1 DEF Upload, UploadBegin, OnItsWay, Recorded
    <3>2. CASE "state" \in files[r]
      <4>1. h \in Servers /\ request \in [Servers -> Request \union {None}]
        BY <1>1 DEF StorageInv, TypeOK, StorageTypeOK, Servers
      <4>2. request'[h] = [step |-> "put", run |-> r, parent |-> None,
                           rest |-> files[r], stored |-> {}, upload |-> TRUE]
        BY <1>10, <4>1 DEF Upload, UploadBegin, Begin
      <4>3. request'[h] \in Request
        BY <1>2, <4>2 DEF Request, Steps
      <4> QED
        BY <3>2, <4>2, <4>3, NoneAssumption DEF OnItsWay, At, WorksOn, Busy
    <3> QED
      BY <1>1, <1>10, <3>1, <3>2 DEF Upload, Step, PodOK
  <2> QED
    BY <1>1, <1>2, <1>3, <1>4, <1>10, <2>1 DEF Upload, Step, PodOK
<1>11. CASE UploadRefused(r) \/ UploadAnswered(r)
  <2>1. Recorded(r)
    <3>1. CASE UploadRefused(r)
      BY <1>1, <3>1 DEF UploadRefused, Step, PodOK, Recorded
    <3>2. CASE UploadAnswered(r)
      BY <1>1, <3>2 DEF UploadAnswered, Step, PodOK, OnItsWay, Uploading, At
    <3> QED BY <1>11, <3>1, <3>2
  <2>2. Recorded(r)'
    BY <1>1, <2>1, RecordedStays
  <2> QED
    BY <1>1, <1>2, <1>3, <1>4, <1>11, <2>2 DEF UploadRefused, UploadAnswered, Step, PodOK
<1>12. CASE Exit(r)
  <2>1. Recorded(r)'
    BY <1>1, <1>12, RecordedStays DEF Exit, PodOK
  <2> QED
    BY <1>1, <1>2, <1>3, <1>4, <1>12, <2>1 DEF Exit, Ends, PodOK
<1> QED
  BY <1>5, <1>6, <1>7, <1>8, <1>9, <1>10, <1>11, <1>12 DEF PodStep

\* What is done to the pod of run r.
LEMMA PodHitKeeps ==
    ASSUME PodInv, NEW r \in Runs, StorageNext,
           \/ StartPod(r) \/ FetchBreaks(r) \/ UploadBreaks(r) \/ ChildEnds(r)
           \/ SignalCancelled(r) \/ DeleteJob(r) \/ Sigkill(r)
    PROVE  PodOK(r)'
<1>1. PodOK(r) /\ StorageInv /\ ParentInv
  BY DEF PodInv
<1>2. /\ at \in [Runs -> Places] /\ child \in [Runs -> Children]
      /\ cancelled \in [Runs -> BOOLEAN] /\ parentOf \in [Runs -> Runs \union {None}]
      /\ files \in [Runs -> SUBSET Kinds] /\ killed \in [Runs -> BOOLEAN]
      /\ faults \in 0..MaxFaults /\ rows \in [Runs -> Row \union {None}]
  BY <1>1 DEF StorageInv, TypeOK, PodTypeOK, StorageTypeOK
<1>3. Exists(r) \/ r \in erased => Exists(r)' \/ r \in erased'
  BY <1>1, StorageMonotone DEF OnlyDeletesTake
<1>4. parentOf'[r] = parentOf[r] => ParentThere(parentOf[r])'
  <2>1. PICK p \in Runs \union {None} : p = parentOf[r]
    BY <1>2
  <2>2. ParentThere(p)'
    BY <1>1, <2>1, ParentStays DEF PodOK
  <2> QED BY <2>1, <2>2 DEF ParentThere
<1>5. CASE StartPod(r)
  <2>1. Exists(r)' /\ parentOf'[r] = rows[r].parent
    BY <1>2, <1>5 DEF StartPod, storageVars, Exists
  <2>2. ParentThere(parentOf[r])'
    BY <1>1, <1>5, <2>1 DEF StartPod, storageVars, ParentInv, ParentThere, Exists
  <2> QED
    BY <1>1, <1>2, <1>5, <2>1, <2>2 DEF StartPod, PodOK
<1>6. CASE FetchBreaks(r) \/ UploadBreaks(r)
  <2>1. faults' > 0
    BY <1>2, <1>6 DEF FetchBreaks, UploadBreaks, Fault
  <2> QED
    BY <1>1, <1>2, <1>3, <1>4, <1>6, <2>1
       DEF FetchBreaks, UploadBreaks, Dies, Ends, PodOK, Recorded
<1>7. CASE ChildEnds(r)
  <2>1. UNCHANGED <<rows, objects, erased, faults, request>>
    BY <1>7 DEF ChildEnds, storageVars
  <2>2. child'[r] \in {"ok", "failed", "sigint"}
    BY <1>2, <1>7 DEF ChildEnds
  <2>3. child[r] # "none"
    BY <1>7 DEF ChildEnds, ChildAlive
  <2>4. /\ Recorded(r) => Recorded(r)'
        /\ at[r] = "response" => OnItsWay(r)'
    BY <1>1, RecordedStays, OnItsWayStays DEF PodOK
  <2> QED
    BY <1>1, <1>2, <1>3, <1>4, <1>7, <2>1, <2>2, <2>3, <2>4 DEF ChildEnds, PodOK
<1>8. CASE SignalCancelled(r) /\ ~Armed(r)
  <2>1. Exists(r)' /\ rows'[r].cancel
    BY <1>8 DEF SignalCancelled, Sigint, storageVars, Exists
  <2>2. at[r] \in {"input", "state", "arm"}
    BY <1>2, <1>8 DEF SignalCancelled, Sigint, Running, Armed, Places
  <2> QED
    BY <1>1, <1>2, <1>3, <1>4, <1>8, <2>1, <2>2
       DEF SignalCancelled, Sigint, Dies, Ends, PodOK
<1>9. CASE (SignalCancelled(r) /\ Armed(r)) \/ DeleteJob(r)
  <2>1. UNCHANGED <<at, parentOf, files, killed, rows, objects, erased, faults, request>>
    BY <1>9 DEF SignalCancelled, Sigint, DeleteJob, Sigterm, storageVars
  <2>2. /\ child'[r] = "none" <=> child[r] = "none"
        /\ ~Armed(r) => cancelled'[r] = cancelled[r]
    BY <1>2, <1>9 DEF SignalCancelled, Sigint, DeleteJob, Sigterm, OnSignal
  <2>3. /\ Recorded(r) => Recorded(r)'
        /\ at[r] = "response" => OnItsWay(r)'
    BY <1>1, RecordedStays, OnItsWayStays DEF PodOK
  <2> QED
    BY <1>1, <1>2, <1>3, <1>4, <2>1, <2>2, <2>3 DEF PodOK, Armed, Exists
<1>10. CASE Sigkill(r)
  <2>1. /\ at'[r] = "ended" /\ killed'[r] /\ parentOf'[r] = parentOf[r]
        /\ at[r] # "none"
    BY <1>2, <1>10 DEF Sigkill, Running, Dies, Ends
  <2> QED
    BY <1>1, <1>3, <1>4, <2>1 DEF PodOK
<1> QED
  BY <1>5, <1>6, <1>7, <1>8, <1>9, <1>10

LEMMA PodInvStep ==
    ASSUME PodInv, [Next]_vars
    PROVE  PodInv'
<1>1. StorageInv' /\ StorageNext /\ TypeOK'
  BY StorageInvStep, StorageSide DEF PodInv, StorageInv
<1>2. ParentInv'
  BY <1>1, ParentStep DEF PodInv
<1>3. /\ at \in [Runs -> Places] /\ child \in [Runs -> Children]
      /\ cancelled \in [Runs -> BOOLEAN] /\ parentOf \in [Runs -> Runs \union {None}]
      /\ files \in [Runs -> SUBSET Kinds] /\ killed \in [Runs -> BOOLEAN]
  BY DEF PodInv, StorageInv, TypeOK, PodTypeOK
<1>4. ASSUME NEW r \in Runs,
             \/ PodStep(r) \/ StartPod(r) \/ FetchBreaks(r) \/ UploadBreaks(r)
             \/ ChildEnds(r) \/ SignalCancelled(r) \/ DeleteJob(r) \/ Sigkill(r)
      PROVE  \A q \in Runs : PodOK(q)'
  <2>1. PodOK(r)'
    BY <1>1, <1>4, PodStepKeeps, PodHitKeeps
  <2>2. ASSUME NEW q \in Runs, q # r
        PROVE  PodStays(q)
    BY <1>3, <1>4, <2>2 DEF PodStays, PodStep, StartPod, FetchBreaks, UploadBreaks,
       ChildEnds, SignalCancelled, DeleteJob, Sigkill, FetchRunInput,
       FetchParentState, FetchFails, InstallHandlers, StartChild, ReapChild, Archive,
       Upload, UploadRefused, UploadAnswered, Exit, Step, Dies, Ends, Sigint, Sigterm,
       OnSignal
  <2> QED BY <1>1, <2>1, <2>2, PodOKStays
<1>5. ASSUME UNCHANGED podVars
      PROVE  \A q \in Runs : PodOK(q)'
  <2>1. \A q \in Runs : PodStays(q)
    BY <1>5 DEF podVars, PodStays
  <2> QED BY <1>1, <2>1, PodOKStays
<1> QED
  BY <1>1, <1>2, <1>4, <1>5
     DEF PodInv, Next, OperatorNext, PodNext, StatusChanges, CancelRun, Deliver, vars

LEMMA PodInvHolds == Spec => []PodInv
BY PodInvInit, PodInvStep, PTL DEF Spec

\* An accepted run can start: a pod that dies before its pipeline does was
\* stopped, or its run or its parent was deleted, or something failed.
THEOREM AcceptedRunsStart == Spec => []StartsUnlessErased
<1>1. PodInv => StartsUnlessErased
  BY DEF PodInv, PodOK, StartsUnlessErased
<1> QED BY <1>1, PodInvHolds, PTL

\* A pod that has run its pipeline has left its state, cancelled or not.
THEOREM EndedPodsAreArchived == Spec => []ArchivedUnlessKilled
<1>1. PodInv => ArchivedUnlessKilled
  BY DEF PodInv, PodOK, Recorded, ArchivedUnlessKilled
<1> QED BY <1>1, PodInvHolds, PTL

-----------------------------------------------------------------------------
(* The entrypoint implements the contract.                                 *)

LEMMA ContractInitially == Init => Contract!ContractInit
BY DEF Init, PodInit, Contract!ContractInit, PodSeen

LEMMA ContractStep ==
    ASSUME PodInv, [Next]_vars
    PROVE  [Contract!ContractNext]_<<PodSeen, outcome>>
<1>1. /\ at \in [Runs -> Places] /\ child \in [Runs -> Children]
      /\ cancelled \in [Runs -> BOOLEAN]
      /\ outcome \in [Runs -> {"none", "succeeded", "failed"}]
  BY DEF PodInv, StorageInv, TypeOK, PodTypeOK
<1> DEFINE Seen(r) == CASE at[r] \in {"none", "ended"} -> at[r]
                        [] at[r] = "input"             -> "pending"
                        [] OTHER -> IF cancelled[r] THEN "signalled" ELSE "running"
<1>2. PodSeen = [r \in Runs |-> Seen(r)] /\ PodSeen' = [r \in Runs |-> Seen(r)']
  BY DEF PodSeen
<1>3. ASSUME NEW r \in Runs, at'[r] = "ended", at[r] \notin {"none", "ended"},
             \A q \in Runs \ {r} : at'[q] = at[q] /\ cancelled'[q] = cancelled[q],
             \/ outcome' = [outcome EXCEPT ![r] = "failed"]
             \/ outcome' = [outcome EXCEPT ![r] = "succeeded"] /\ Seen(r) = "running"
      PROVE  Contract!Ends(r)
  BY <1>1, <1>2, <1>3 DEF Contract!Ends
<1>4. ASSUME NEW r \in Runs, NEW from \in {"none", "pending", "running"}, NEW to,
             Seen(r) = from, Seen(r)' = to,
             \A q \in Runs \ {r} : at'[q] = at[q] /\ cancelled'[q] = cancelled[q],
             UNCHANGED outcome
      PROVE  Contract!Move(r, {from}, to)
  BY <1>1, <1>2, <1>4 DEF Contract!Move
<1>5. ASSUME \A q \in Runs : Seen(q)' = Seen(q), UNCHANGED outcome
      PROVE  UNCHANGED <<PodSeen, outcome>>
  BY <1>2, <1>5
<1>6. ASSUME NEW r \in Runs,
             \/ FetchFails(r) \/ FetchBreaks(r) \/ UploadBreaks(r) \/ Sigkill(r)
             \/ Exit(r) \/ (SignalCancelled(r) /\ ~Armed(r))
      PROVE  Contract!Ends(r)
  <2>1. at'[r] = "ended" /\ at[r] \notin {"none", "ended"}
    BY <1>1, <1>6 DEF FetchFails, FetchBreaks, UploadBreaks, Sigkill, Exit,
       SignalCancelled, Sigint, Dies, Ends, Running
  <2>2. \A q \in Runs \ {r} : at'[q] = at[q] /\ cancelled'[q] = cancelled[q]
    BY <1>1, <1>6 DEF FetchFails, FetchBreaks, UploadBreaks, Sigkill, Exit,
       SignalCancelled, Sigint, Dies, Ends
  <2>3. \/ outcome' = [outcome EXCEPT ![r] = "failed"]
        \/ /\ outcome' = [outcome EXCEPT ![r] = "succeeded"]
           /\ Seen(r) = "running"
    BY <1>1, <1>6 DEF FetchFails, FetchBreaks, UploadBreaks, Sigkill, Exit,
       SignalCancelled, Sigint, Dies, Ends, ExitStatus
  <2> QED BY <1>3, <2>1, <2>2, <2>3
<1>7. ASSUME NEW r \in Runs, StartPod(r)
      PROVE  Contract!Starts(r)
  BY <1>1, <1>4, <1>7 DEF StartPod, Contract!Starts
<1>8. ASSUME NEW r \in Runs, FetchRunInput(r)
      PROVE  Contract!Proceeds(r)
  <2>1. ~cancelled[r] /\ at[r] = "input"
    BY <1>8 DEF PodInv, PodOK, FetchRunInput, Step
  <2> QED
    BY <1>1, <1>4, <1>8, <2>1 DEF FetchRunInput, Step, Contract!Proceeds
<1>9. ASSUME NEW r \in Runs,
             \/ FetchParentState(r) \/ InstallHandlers(r) \/ StartChild(r)
             \/ ReapChild(r) \/ Archive(r) \/ UploadRefused(r) \/ UploadAnswered(r)
             \/ (\E h \in Handlers : Upload(h, r)) \/ ChildEnds(r)
      PROVE  UNCHANGED <<PodSeen, outcome>>
  <2>1. at[r] = "arm" => ~cancelled[r]
    BY DEF PodInv, PodOK
  <2>2. \A q \in Runs : Seen(q)' = Seen(q)
    BY <1>1, <1>9, <2>1 DEF FetchParentState, InstallHandlers, StartChild,
       ReapChild, Archive, UploadRefused, UploadAnswered, Upload, ChildEnds, Step
  <2>3. UNCHANGED outcome
    BY <1>9 DEF FetchParentState, InstallHandlers, StartChild,
       ReapChild, Archive, UploadRefused, UploadAnswered, Upload, ChildEnds
  <2> QED BY <1>5, <2>2, <2>3
<1>10. ASSUME NEW r \in Runs, (SignalCancelled(r) /\ Armed(r)) \/ DeleteJob(r)
       PROVE  Contract!Signals(r) \/ UNCHANGED <<PodSeen, outcome>>
  <2>1. /\ UNCHANGED <<at, outcome>>
        /\ \A q \in Runs \ {r} : cancelled'[q] = cancelled[q]
        /\ IF Armed(r) THEN cancelled'[r] ELSE cancelled'[r] = cancelled[r]
    BY <1>1, <1>10 DEF SignalCancelled, Sigint, DeleteJob, Sigterm, OnSignal
  <2>2. CASE Armed(r) /\ ~cancelled[r]
    <3>1. Seen(r) = "running" /\ Seen(r)' = "signalled"
      BY <2>1, <2>2 DEF Armed
    <3> QED
      BY <1>4, <2>1, <3>1 DEF Contract!Signals
  <2>3. CASE ~(Armed(r) /\ ~cancelled[r])
    <3>1. \A q \in Runs : cancelled'[q] = cancelled[q]
      BY <1>1, <2>1, <2>3
    <3> QED
      BY <1>5, <2>1, <3>1
  <2> QED BY <2>2, <2>3
<1>11. ASSUME UNCHANGED podVars
       PROVE  UNCHANGED <<PodSeen, outcome>>
  BY <1>5, <1>11 DEF podVars
<1>12. ASSUME NEW r \in Runs,
              \/ PodStep(r) \/ FetchBreaks(r) \/ UploadBreaks(r) \/ ChildEnds(r)
              \/ (\E h \in Handlers, kind \in Kinds : Deliver(h, r, kind))
              \/ SignalCancelled(r) \/ DeleteJob(r) \/ Sigkill(r)
       PROVE  \/ \E q \in Runs : Contract!Starts(q) \/ Contract!Proceeds(q)
                                 \/ Contract!Signals(q) \/ Contract!Ends(q)
              \/ UNCHANGED <<PodSeen, outcome>>
  <2>1. CASE PodStep(r)
    BY <1>6, <1>8, <1>9, <2>1 DEF PodStep
  <2>2. CASE \E h \in Handlers, kind \in Kinds : Deliver(h, r, kind)
    BY <1>11, <2>2 DEF Deliver
  <2>3. CASE SignalCancelled(r) \/ DeleteJob(r)
    BY <1>6, <1>10, <2>3
  <2>4. CASE FetchBreaks(r) \/ UploadBreaks(r) \/ ChildEnds(r) \/ Sigkill(r)
    BY <1>6, <1>9, <2>4
  <2> QED BY <1>12, <2>1, <2>2, <2>3, <2>4
<1>13. CASE PodNext
  BY <1>12, <1>13 DEF PodNext, Contract!ContractNext
<1>14. CASE OperatorNext
  <2>1. ASSUME NEW r \in Runs, StartPod(r)
        PROVE  Contract!ContractNext
    BY <1>7, <2>1 DEF Contract!ContractNext
  <2>2. ASSUME NEW r \in Runs, CancelRun(r) \/ \E s \in StatusValues : StatusChanges(r, s)
        PROVE  UNCHANGED podVars
    BY <2>2 DEF CancelRun, StatusChanges
  <2> QED BY <1>11, <1>14, <2>1, <2>2 DEF OperatorNext
<1> QED
  BY <1>11, <1>13, <1>14 DEF Next, vars

\* The entrypoint, with its signal windows, is a pod as the operator's model
\* assumes it: every step of it is a step of the contract, or none.
THEOREM EntrypointImplementsContract == Spec => ImplementsPodContract
<1>1. PodInv /\ [Next]_vars => [Contract!ContractNext]_<<PodSeen, outcome>>
  BY ContractStep
<1> QED
  BY <1>1, ContractInitially, PodInvHolds, PTL
     DEF Spec, ImplementsPodContract, Contract!ContractSpec
=============================================================================
