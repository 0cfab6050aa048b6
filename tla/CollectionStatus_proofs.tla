----------------------- MODULE CollectionStatus_proofs -----------------------
(***************************************************************************)
(* Proofs about CollectionStatus, for every set of sections and cycles,    *)
(* every schedule and every number of faults.                              *)
(***************************************************************************)
EXTENDS CollectionStatus, TLAPS

(***************************************************************************)
(* Ages.  Time keeps them in range, keeps their order and keeps "never".   *)
(***************************************************************************)
LEMMA OlderType ==
  ASSUME NEW a \in AgeOrNever
  PROVE  /\ Older(a) \in AgeOrNever
         /\ a \in Age => Older(a) \in Age
         /\ Older(a) = Never <=> a = Never
  BY CollectionStatusAssumption DEF AgeOrNever, Age, Never, Older

LEMMA OlderMonotone ==
  ASSUME NEW a \in AgeOrNever, NEW b \in AgeOrNever, a <= b
  PROVE  Older(a) <= Older(b)
  BY CollectionStatusAssumption DEF AgeOrNever, Age, Never, Older

LEMMA NoRowType == NoRow \in RowType
  BY DEF NoRow, RowType, AgeOrNever

(***************************************************************************)
(* Writes.  A record changes one row, and sets the time of the success     *)
(* exactly when it records one; a snapshot only ever gets younger.         *)
(***************************************************************************)
LEMMA RecordedEffect ==
  ASSUME row \in [Resource -> RowType],
         NEW r \in Resource, NEW state \in {"fresh", "partial", "unavailable"},
         NEW age \in Age
  PROVE  /\ Recorded(r, state, age) \in [Resource -> RowType]
         /\ ~Present => Recorded(r, state, age) = row
         /\ \A q \in Resource \ {r} : Recorded(r, state, age)[q] = row[q]
         /\ Present => /\ Recorded(r, state, age)[r].state = state
                       /\ Recorded(r, state, age)[r].success =
                            IF state = "fresh" THEN age ELSE row[r].success
<1>1. [state |-> state, success |-> IF state = "fresh" THEN age ELSE row[r].success] \in RowType
  BY DEF RowType, AgeOrNever
<1> QED BY <1>1 DEF Recorded

LEMMA UnavailableEffect ==
  ASSUME row \in [Resource -> RowType], NEW rs \in SUBSET Resource
  PROVE  /\ RecordedUnavailable(rs) \in [Resource -> RowType]
         /\ ~Present => RecordedUnavailable(rs) = row
         /\ \A q \in Resource :
              /\ RecordedUnavailable(rs)[q].success = row[q].success
              /\ RecordedUnavailable(rs)[q].state \in {row[q].state, "unavailable"}
  BY DEF RecordedUnavailable, RowType

LEMMA StoredEffect ==
  ASSUME snap \in [Resource -> AgeOrNever], NEW r \in Resource, NEW age \in Age
  PROVE  /\ Stored(r, age) \in [Resource -> AgeOrNever]
         /\ ~Present => Stored(r, age) = snap
         /\ Present => Stored(r, age)[r] <= age
         /\ \A q \in Resource : Stored(r, age)[q] <= snap[q]
  BY CollectionStatusAssumption DEF Stored, AgeOrNever, Age, Never

LEMMA OwnType ==
  ASSUME NEW c \in Cycle
  PROVE  Own(c) \subseteq Section /\ OwnResources(c) \subseteq Resource
  BY DEF Own, OwnResources, Resource

(***************************************************************************)
(* Type correctness, action by action.                                     *)
(***************************************************************************)
LEMMA InitType == Init => TypeOK
  BY NoRowType, CollectionStatusAssumption
  DEF Init, TypeOK, Age, Never, Resource, RowType, AgeOrNever

LEMMA BootedType ==
  ASSUME boot \in {"pending", "running", "done"}, NEW c,
         NEW phase \in {"pending", "running", "done"}, Booted(c, phase)
  PROVE  boot' \in {"pending", "running", "done"}
  BY DEF Booted

LEMMA FaultType ==
  ASSUME faults \in 0..MaxFaults, Fault
  PROVE  faults' \in 0..MaxFaults
  BY CollectionStatusAssumption DEF Fault

LEMMA StatusType ==
  ASSUME status \in {"unknown", "healthy", "degraded", "unreachable", "error"},
         NEW s \in {"unknown", "healthy", "degraded", "unreachable", "error"},
         UpdateServerStatus(s)
  PROVE  status' \in {"unknown", "healthy", "degraded", "unreachable", "error"}
  BY DEF UpdateServerStatus

LEMMA StartType ==
  ASSUME TypeOK, NEW c \in Cycle, NEW age \in Age, Start(c, age)
  PROVE  /\ boot' \in {"pending", "running", "done"}
         /\ pc' \in [Cycle -> {"idle", "collect", "record", "report"}]
         /\ stamp' \in [Cycle -> Age]
         /\ left' \in [Cycle -> SUBSET Section]
         /\ saved' \in [Cycle -> Resource]
         /\ complete' \in [Cycle -> BOOLEAN]
  BY BootedType, OwnType DEF Start, TypeOK

LEMMA ReturnType ==
  ASSUME TypeOK, NEW c \in Cycle, Return(c)
  PROVE  /\ boot' \in {"pending", "running", "done"}
         /\ pc' \in [Cycle -> {"idle", "collect", "record", "report"}]
         /\ stamp' \in [Cycle -> Age]
         /\ complete' \in [Cycle -> BOOLEAN]
  BY BootedType, CollectionStatusAssumption DEF Return, TypeOK, Age

LEMMA NotCollectedType ==
  ASSUME TypeOK, NEW c \in Cycle, NEW k \in Section, NotCollected(c, k)
  PROVE  /\ UNCHANGED <<serverVars, worldVars, boot, pc, stamp, saved, test>>
         /\ left' \in [Cycle -> SUBSET Section]
         /\ complete' \in [Cycle -> BOOLEAN]
         /\ snap' \in [Resource -> AgeOrNever]
         /\ \A q \in Resource : snap'[q] <= snap[q]
<1>1. k \in Resource /\ stamp[c] \in Age /\ \A q \in Resource : snap[q] \in Int
  BY CollectionStatusAssumption DEF Resource, TypeOK, AgeOrNever, Age, Never
<1>2. snap' = snap \/ snap' = Stored(k, stamp[c])
  BY DEF NotCollected
<1>3. snap' \in [Resource -> AgeOrNever] /\ \A q \in Resource : snap'[q] <= snap[q]
  BY <1>1, <1>2, StoredEffect DEF TypeOK
<1> QED BY <1>3 DEF NotCollected, TypeOK, Done, Incomplete

LEMMA ProgressType ==
  ASSUME TypeOK, NEW c \in Cycle, Progress(c)
  PROVE  TypeOK'
<1> USE DEF serverVars, worldVars, localVars, cycleVars
<1>0. 0 \in Age /\ stamp[c] \in Age /\ Core \in Resource /\ Section \subseteq Resource
  BY CollectionStatusAssumption DEF Age, Resource, TypeOK
<1>1. CASE CollectCore(c)
  BY <1>0, <1>1, StartType, RecordedEffect DEF TypeOK, CollectCore
<1>2. CASE LoadCore(c)
  <2>1. snap[Core] \in Age
    BY <1>0, <1>2 DEF TypeOK, LoadCore, AgeOrNever
  <2> QED BY <1>2, <2>1, StartType DEF TypeOK, LoadCore
<1>3. CASE NothingToCollect(c)
  BY <1>3, BootedType DEF TypeOK, NothingToCollect
<1>4. CASE CycleFails(c)
  BY <1>4, BootedType, StatusType, UnavailableEffect, OwnType DEF TypeOK, CycleFails
<1>5. ASSUME NEW k \in Section, SaveSection(c, k)
      PROVE  TypeOK'
  <2>1. snap' \in [Resource -> AgeOrNever]
    BY <1>0, <1>5, StoredEffect DEF SaveSection, TypeOK
  <2>2. left' \in [Cycle -> SUBSET Section]
    BY <1>5 DEF SaveSection, Done, TypeOK
  <2>3. CASE Present
    BY <1>0, <1>5, <2>1, <2>2, <2>3 DEF TypeOK, SaveSection
  <2>4. CASE ~Present
    BY <1>5, <2>1, <2>2, <2>4 DEF TypeOK, SaveSection, Incomplete
  <2> QED BY <2>3, <2>4
<1>6. ASSUME NEW k \in Section, CollectFails(c, k)
      PROVE  TypeOK'
  <2>1. row' \in [Resource -> RowType]
    BY <1>0, <1>6, RecordedEffect DEF CollectFails, TypeOK
  <2> QED BY <1>0, <1>6, <2>1, NotCollectedType DEF TypeOK, CollectFails
<1>7. CASE RecordFresh(c)
  <2>1. saved[c] \in Resource
    BY DEF TypeOK
  <2> QED BY <1>0, <1>7, <2>1, RecordedEffect DEF TypeOK, RecordFresh
<1>8. CASE SaveCore(c)
  BY <1>0, <1>8, StoredEffect DEF TypeOK, SaveCore, Present
<1>9. CASE SkipCore(c)
  BY <1>9, ReturnType DEF TypeOK, SkipCore
<1>10. CASE Report(c)
  BY <1>10, ReturnType, StatusType DEF TypeOK, Report
<1> QED BY <1>1, <1>2, <1>3, <1>4, <1>5, <1>6, <1>7, <1>8, <1>9, <1>10 DEF Progress

LEMMA FailureType ==
  ASSUME TypeOK, NEW c \in Cycle, Failure(c)
  PROVE  TypeOK'
<1> USE DEF serverVars, worldVars, localVars, cycleVars
<1>0. stamp[c] \in Age /\ Core \in Resource /\ Section \subseteq Resource
  BY DEF Resource, TypeOK
<1>1. CASE CoreFails(c)
  <2>1. PICK told \in SUBSET OwnResources(c) : row' = RecordedUnavailable(told)
    BY <1>1 DEF CoreFails
  <2>2. told \in SUBSET Resource
    BY OwnType
  <2>3. row' \in [Resource -> RowType]
    BY <2>1, <2>2, UnavailableEffect DEF TypeOK
  <2>4. status' \in {"unknown", "healthy", "degraded", "unreachable", "error"}
    BY <1>1, StatusType DEF CoreFails, TypeOK
  <2> QED BY <1>1, <2>3, <2>4, FaultType, BootedType DEF TypeOK, CoreFails
<1>2. ASSUME NEW k \in Section, SaveFails(c, k)
      PROVE  TypeOK'
  BY <1>0, <1>2, FaultType, RecordedEffect DEF TypeOK, SaveFails, Done, Incomplete
<1>6. ASSUME NEW k \in Section, CollectFailsUnrecorded(c, k)
      PROVE  TypeOK'
  BY <1>0, <1>6, FaultType, NotCollectedType DEF TypeOK, CollectFailsUnrecorded
<1>7. CASE CoreRecordFails(c)
  <2>1. 0 \in Age
    BY CollectionStatusAssumption DEF Age
  <2> QED BY <1>7, <2>1, FaultType, StartType DEF TypeOK, CoreRecordFails
<1>3. CASE RecordFails(c)
  BY <1>0, <1>3, FaultType DEF TypeOK, RecordFails
<1>4. CASE EndFails(c)
  BY <1>0, <1>4, FaultType, StoredEffect DEF TypeOK, EndFails, Incomplete
<1>5. CASE ReportFails(c)
  BY <1>5, FaultType, ReturnType DEF TypeOK, ReportFails
<1> QED BY <1>1, <1>2, <1>3, <1>4, <1>5, <1>6, <1>7 DEF Failure

(* Time, for the two tables and the stamps of the running cycles. *)
LEMMA TickEffect ==
  ASSUME TypeOK, Tick
  PROVE  /\ snap' \in [Resource -> AgeOrNever]
         /\ row' \in [Resource -> RowType]
         /\ stamp' \in [Cycle -> Age]
         /\ \A r \in Resource : /\ snap'[r] = Older(snap[r])
                                /\ row'[r].state = row[r].state
                                /\ row'[r].success = Older(row[r].success)
<1>1. ASSUME NEW r \in Resource
      PROVE  /\ [row[r] EXCEPT !.success = Older(@)] =
                  [state |-> row[r].state, success |-> Older(row[r].success)]
             /\ Older(row[r].success) \in AgeOrNever
             /\ Older(snap[r]) \in AgeOrNever
  BY OlderType DEF TypeOK, RowType
<1>2. row' = [r \in Resource |-> [state |-> row[r].state, success |-> Older(row[r].success)]]
  BY <1>1 DEF Tick
<1>3. \A c \in Cycle : Older(stamp[c]) \in Age
  BY OlderType DEF TypeOK, AgeOrNever
<1>4. stamp' \in [Cycle -> Age]
  <2>1. 0 \in Age
    BY CollectionStatusAssumption DEF Age
  <2> QED BY <1>3, <2>1 DEF Tick, TypeOK
<1>5. row' \in [Resource -> RowType]
  <2>1. \A r \in Resource : [state |-> row[r].state, success |-> Older(row[r].success)] \in RowType
    BY <1>1 DEF TypeOK, RowType
  <2> QED BY <1>2, <2>1
<1>6. snap' \in [Resource -> AgeOrNever]
  BY <1>1 DEF Tick
<1>7. \A r \in Resource : snap'[r] = Older(snap[r])
  BY DEF Tick
<1>8. \A r \in Resource : /\ row'[r].state = row[r].state
                         /\ row'[r].success = Older(row[r].success)
  BY <1>2
<1> QED BY <1>4, <1>5, <1>6, <1>7, <1>8

LEMMA TypeStep == TypeOK /\ [Next]_vars => TypeOK'
<1> SUFFICES ASSUME TypeOK, [Next]_vars PROVE TypeOK'
  OBVIOUS
<1> USE DEF serverVars, worldVars, localVars, cycleVars
<1>1. ASSUME NEW c \in Cycle, Progress(c) \/ Failure(c)
      PROVE  TypeOK'
  BY <1>1, ProgressType, FailureType
<1>2. CASE CreateServer
  BY <1>2 DEF CreateServer, InsertServer, TypeOK
<1>3. CASE DeleteServer
  BY <1>3, NoRowType DEF TypeOK, DeleteServer, AgeOrNever
<1>4. CASE TestServer
  BY <1>4 DEF TestServer, TypeOK
<1>5. CASE TestReports
  BY <1>5, StatusType DEF TestReports, TypeOK
<1>6. CASE Tick
  BY <1>6, TickEffect DEF TypeOK, Tick
<1>7. CASE Breaks
  BY <1>7, FaultType DEF Breaks, TypeOK
<1>8. CASE Recovers
  BY <1>8 DEF Recovers, TypeOK
<1>9. CASE Restart
  BY <1>9, FaultType, CollectionStatusAssumption DEF Restart, TypeOK, Age, Resource
<1>10. CASE UNCHANGED vars
  BY <1>10 DEF vars, TypeOK
<1> QED BY <1>1, <1>2, <1>3, <1>4, <1>5, <1>6, <1>7, <1>8, <1>9, <1>10 DEF Next

(***************************************************************************)
(* Type correctness of the status tables and of the cycles writing them.   *)
(***************************************************************************)
THEOREM TypeCorrect == Spec => []TypeOK
  BY InitType, TypeStep, PTL DEF Spec

-----------------------------------------------------------------------------
(***************************************************************************)
(* The evidence behind a success: a section whose last success is known    *)
(* has a snapshot no older than it, what is recorded as fresh has a time   *)
(* of success, and a cycle about to record a success has saved the         *)
(* snapshot it is about, unless the server was deleted meanwhile.          *)
(***************************************************************************)
SuccessHasSnapshot ==
  \A k \in Section : row[k].success # Never => snap[k] <= row[k].success

FreshHasSuccess ==
  \A r \in Resource : row[r].state = "fresh" => row[r].success # Never

RecordFollowsSave ==
  \A c \in Cycle : pc[c] = "record" =>
    /\ saved[c] \in Section
    /\ server # "absent"
    /\ Present => snap[saved[c]] <= stamp[c]

EvidenceBacked == SuccessHasSnapshot /\ FreshHasSuccess /\ RecordFollowsSave

(***************************************************************************)
(* Evidence without a record: the record of it was lost, or is to come.    *)
(***************************************************************************)
LossExplained == \A k \in Section : snap[k] # Never /\ row[k] = NoRow => Unrecorded(k)

IInv == TypeOK /\ EvidenceBacked /\ NothingOfDeleted /\ LossExplained

(* Steps that record no success of a section and begin no record. *)
Quiet ==
  /\ \A r \in Resource : snap'[r] <= snap[r]
  /\ \A k \in Section : row'[k].success = row[k].success
  /\ FreshHasSuccess'
  /\ \A c \in Cycle : pc'[c] = "record" =>
        pc[c] = "record" /\ saved'[c] = saved[c] /\ stamp'[c] = stamp[c]
  /\ server' = server \/ server = "absent"

LEMMA QuietKeepsEvidence ==
  ASSUME TypeOK, TypeOK', EvidenceBacked, Quiet
  PROVE  EvidenceBacked'
<1> USE DEF EvidenceBacked
<1>0. /\ \A r \in Resource : snap[r] \in Int /\ snap'[r] \in Int
      /\ \A k \in Section : row[k].success \in Int /\ k \in Resource
      /\ \A c \in Cycle : stamp[c] \in Int
  BY CollectionStatusAssumption DEF TypeOK, AgeOrNever, Age, Never, RowType, Resource
<1>1. SuccessHasSnapshot'
  BY <1>0 DEF SuccessHasSnapshot, Quiet
<1>2. RecordFollowsSave'
  BY <1>0 DEF RecordFollowsSave, Quiet, Present
<1> QED BY <1>1, <1>2 DEF Quiet

LEMMA InitIInv == Init => IInv
<1> SUFFICES ASSUME Init PROVE IInv
  OBVIOUS
<1>1. /\ \A r \in Resource : row[r] = NoRow /\ snap[r] = Never
      /\ \A c \in Cycle : pc[c] = "idle"
  BY DEF Init
<1>2. EvidenceBacked
  <2>1. Section \subseteq Resource /\ NoRow.state = "none" /\ NoRow.success = Never
    BY DEF Resource, NoRow
  <2>2. SuccessHasSnapshot
    BY <1>1, <2>1 DEF SuccessHasSnapshot
  <2>3. FreshHasSuccess
    BY <1>1, <2>1 DEF FreshHasSuccess
  <2>4. RecordFollowsSave
    BY <1>1 DEF RecordFollowsSave
  <2> QED BY <2>2, <2>3, <2>4 DEF EvidenceBacked
<1>3. NothingOfDeleted
  BY <1>1 DEF NothingOfDeleted
<1>4. LossExplained
  <2>1. Section \subseteq Resource
    BY DEF Resource
  <2> QED BY <1>1, <2>1 DEF LossExplained
<1> QED BY <1>2, <1>3, <1>4, InitType DEF IInv

(* The rows of a step that records something else than a success. *)
LEMMA NotFreshRecord ==
  ASSUME TypeOK, EvidenceBacked, NEW r \in Resource, NEW state \in {"partial", "unavailable"},
         NEW age \in Age, row' = Recorded(r, state, age)
  PROVE  /\ \A q \in Resource : row'[q].success = row[q].success
         /\ FreshHasSuccess'
<1>1. ASSUME NEW q \in Resource
      PROVE  /\ row'[q].success = row[q].success
             /\ row'[q].state \in {row[q].state, state}
  <2>1. /\ state \in {"fresh", "partial", "unavailable"} /\ state # "fresh"
        /\ row \in [Resource -> RowType]
    BY DEF TypeOK
  <2>2. CASE ~Present
    BY <2>1, <2>2, RecordedEffect
  <2>3. CASE Present /\ q = r
    BY <2>1, <2>3, RecordedEffect
  <2>4. CASE q # r
    BY <2>1, <2>4, RecordedEffect
  <2> QED BY <2>2, <2>3, <2>4
<1> QED BY <1>1 DEF EvidenceBacked, FreshHasSuccess

LEMMA UnavailableRecord ==
  ASSUME TypeOK, EvidenceBacked, NEW rs \in SUBSET Resource, row' = RecordedUnavailable(rs)
  PROVE  /\ \A q \in Resource : row'[q].success = row[q].success
         /\ FreshHasSuccess'
<1>1. ASSUME NEW q \in Resource
      PROVE  /\ row'[q].success = row[q].success
             /\ row'[q].state \in {row[q].state, "unavailable"}
  BY UnavailableEffect DEF TypeOK
<1> QED BY <1>1 DEF EvidenceBacked, FreshHasSuccess

LEMMA ProgressEvidence ==
  ASSUME TypeOK, TypeOK', EvidenceBacked, NEW c \in Cycle, Progress(c)
  PROVE  EvidenceBacked'
<1> USE DEF serverVars, worldVars, localVars, cycleVars
<1>0. /\ 0 \in Age /\ stamp[c] \in Age /\ Core \in Resource /\ Section \subseteq Resource
      /\ Core \notin Section
      /\ FreshHasSuccess
      /\ \A r \in Resource : snap[r] \in Int /\ snap[r] <= snap[r]
      /\ pc \in [Cycle -> {"idle", "collect", "record", "report"}]
      /\ \A a \in Age : a \in Int /\ a # Never
  BY CollectionStatusAssumption DEF Age, Resource, TypeOK, AgeOrNever, Never, EvidenceBacked
<1> USE <1>0
<1>1. CASE CollectCore(c)
  <2>1. /\ row' = Recorded(Core, "fresh", 0) /\ Present
        /\ pc' = [pc EXCEPT ![c] = "collect"] /\ stamp' = [stamp EXCEPT ![c] = 0]
        /\ saved' = saved /\ snap' = snap /\ server' = server
    BY <1>1 DEF CollectCore, Start
  <2>2. /\ \A q \in Resource \ {Core} : row'[q] = row[q]
        /\ row'[Core].success = 0
    BY <2>1, RecordedEffect DEF TypeOK
  <2>3. FreshHasSuccess'
    BY <2>2 DEF FreshHasSuccess
  <2>4. Quiet
    BY <2>1, <2>2, <2>3 DEF Quiet, TypeOK
  <2> QED BY <2>4, QuietKeepsEvidence
<1>2. CASE LoadCore(c)
  <2>1. Quiet
    BY <1>2 DEF LoadCore, Start, Quiet, FreshHasSuccess, TypeOK
  <2> QED BY <2>1, QuietKeepsEvidence
<1>3. CASE NothingToCollect(c)
  <2>1. Quiet
    BY <1>3 DEF NothingToCollect, Quiet, FreshHasSuccess
  <2> QED BY <2>1, QuietKeepsEvidence
<1>4. CASE CycleFails(c)
  <2>1. Quiet
    BY <1>4, UnavailableRecord, OwnType DEF CycleFails, Quiet
  <2> QED BY <2>1, QuietKeepsEvidence
<1>5. ASSUME NEW k \in Section, SaveSection(c, k)
      PROVE  EvidenceBacked'
  <2>1. CASE ~Present
    <3>1. Quiet
      BY <1>5, <2>1 DEF SaveSection, Quiet, FreshHasSuccess
    <3> QED BY <3>1, QuietKeepsEvidence
  <2>2. CASE Present
    <3>1. /\ snap' = Stored(k, stamp[c]) /\ row' = row /\ stamp' = stamp
          /\ pc' = [pc EXCEPT ![c] = "record"] /\ saved' = [saved EXCEPT ![c] = k]
          /\ server' = server
      BY <1>5, <2>2 DEF SaveSection
    <3>2. /\ snap'[k] <= stamp[c]
          /\ \A q \in Resource : snap'[q] <= snap[q] /\ snap'[q] \in Int
      BY <2>2, <3>1, StoredEffect, CollectionStatusAssumption DEF TypeOK, AgeOrNever, Age, Never
    <3>3. SuccessHasSnapshot'
      <4>1. \A j \in Section : row[j].success \in Int
        BY CollectionStatusAssumption DEF TypeOK, RowType, AgeOrNever, Age, Never
      <4> QED BY <3>1, <3>2, <4>1 DEF EvidenceBacked, SuccessHasSnapshot
    <3>4. RecordFollowsSave'
      <4> SUFFICES ASSUME NEW h \in Cycle, pc'[h] = "record"
                   PROVE  saved'[h] \in Section /\ server' # "absent" /\ snap'[saved'[h]] <= stamp'[h]
        BY DEF RecordFollowsSave
      <4>1. CASE h = c
        BY <2>2, <3>1, <3>2, <4>1 DEF TypeOK, Present
      <4>2. CASE h # c
        <5>1. pc[h] = "record" /\ saved'[h] = saved[h] /\ stamp[h] \in Int
          BY <3>1, <4>2 DEF TypeOK
        <5> QED BY <2>2, <3>1, <3>2, <5>1 DEF EvidenceBacked, RecordFollowsSave
      <4> QED BY <4>1, <4>2
    <3> QED BY <3>1, <3>3, <3>4 DEF EvidenceBacked, FreshHasSuccess
  <2> QED BY <2>1, <2>2
<1>6. ASSUME NEW k \in Section, CollectFails(c, k)
      PROVE  EvidenceBacked'
  <2>2. /\ \A q \in Resource : row'[q].success = row[q].success
        /\ FreshHasSuccess'
    BY <1>6, NotFreshRecord DEF CollectFails
  <2>3. Quiet
    BY <1>6, <2>2, NotCollectedType DEF CollectFails, Quiet
  <2> QED BY <2>3, QuietKeepsEvidence
<1>7. CASE RecordFresh(c)
  <2>1. /\ pc[c] = "record" /\ pc' = [pc EXCEPT ![c] = "collect"]
        /\ saved' = [saved EXCEPT ![c] = Core] /\ stamp' = stamp
        /\ snap' = snap /\ server' = server
        /\ row' = Recorded(saved[c], "fresh", stamp[c])
    BY <1>7 DEF RecordFresh
  <2>2. saved[c] \in Section /\ (Present => snap[saved[c]] <= stamp[c])
    BY <2>1 DEF EvidenceBacked, RecordFollowsSave
  <2>3. /\ \A q \in Resource \ {saved[c]} : row'[q] = row[q]
        /\ ~Present => row' = row
        /\ Present => row'[saved[c]].success = stamp[c]
    BY <2>1, <2>2, RecordedEffect DEF TypeOK
  <2>4. SuccessHasSnapshot' /\ FreshHasSuccess'
    BY <2>1, <2>2, <2>3 DEF EvidenceBacked, SuccessHasSnapshot, FreshHasSuccess
  <2>5. RecordFollowsSave'
    BY <2>1 DEF EvidenceBacked, RecordFollowsSave, TypeOK, Present
  <2> QED BY <2>4, <2>5 DEF EvidenceBacked
<1>8. CASE SaveCore(c)
  <2>1. Quiet
    BY <1>8, StoredEffect DEF SaveCore, Quiet, TypeOK, FreshHasSuccess
  <2> QED BY <2>1, QuietKeepsEvidence
<1>9. CASE SkipCore(c)
  <2>1. Quiet
    BY <1>9 DEF SkipCore, Return, Quiet, TypeOK, FreshHasSuccess
  <2> QED BY <2>1, QuietKeepsEvidence
<1>10. CASE Report(c)
  <2>1. Quiet
    BY <1>10 DEF Report, Return, Quiet, TypeOK, FreshHasSuccess
  <2> QED BY <2>1, QuietKeepsEvidence
<1> QED BY <1>1, <1>2, <1>3, <1>4, <1>5, <1>6, <1>7, <1>8, <1>9, <1>10 DEF Progress

LEMMA FailureEvidence ==
  ASSUME TypeOK, TypeOK', EvidenceBacked, NEW c \in Cycle, Failure(c)
  PROVE  EvidenceBacked'
<1> USE DEF serverVars, worldVars, localVars, cycleVars
<1>0. /\ stamp[c] \in Age /\ Core \in Resource /\ Section \subseteq Resource
      /\ FreshHasSuccess
      /\ \A r \in Resource : snap[r] \in Int /\ snap[r] <= snap[r]
      /\ pc \in [Cycle -> {"idle", "collect", "record", "report"}]
  BY CollectionStatusAssumption DEF Age, Resource, TypeOK, AgeOrNever, Never, EvidenceBacked
<1>1. CASE CoreFails(c)
  <2>1. PICK told \in SUBSET OwnResources(c) : row' = RecordedUnavailable(told)
    BY <1>1 DEF CoreFails
  <2>2. told \in SUBSET Resource
    BY OwnType
  <2>3. /\ \A q \in Resource : row'[q].success = row[q].success
        /\ FreshHasSuccess'
    BY <2>1, <2>2, UnavailableRecord
  <2>4. Quiet
    BY <1>0, <1>1, <2>3 DEF CoreFails, Quiet
  <2> QED BY <2>4, QuietKeepsEvidence
<1>2. ASSUME NEW k \in Section, SaveFails(c, k)
      PROVE  EvidenceBacked'
  <2>1. /\ \A q \in Resource : row'[q].success = row[q].success
        /\ FreshHasSuccess'
    <3>1. CASE row' = row
      BY <1>0, <3>1 DEF FreshHasSuccess
    <3>2. CASE row' = Recorded(k, "unavailable", stamp[c])
      BY <1>0, <3>2, NotFreshRecord
    <3> QED BY <1>2, <3>1, <3>2 DEF SaveFails
  <2>2. Quiet
    BY <1>0, <1>2, <2>1 DEF SaveFails, Quiet
  <2> QED BY <2>2, QuietKeepsEvidence
<1>3. CASE RecordFails(c)
  <2>1. Quiet
    BY <1>0, <1>3 DEF RecordFails, Quiet, TypeOK, FreshHasSuccess
  <2> QED BY <2>1, QuietKeepsEvidence
<1>4. CASE EndFails(c)
  <2>1. \A q \in Resource : snap'[q] <= snap[q]
    BY <1>0, <1>4, StoredEffect DEF EndFails, TypeOK
  <2>2. Quiet
    BY <1>0, <1>4, <2>1 DEF EndFails, Quiet, FreshHasSuccess
  <2> QED BY <2>2, QuietKeepsEvidence
<1>5. CASE ReportFails(c)
  <2>1. Quiet
    BY <1>0, <1>5 DEF ReportFails, Return, Quiet, TypeOK, FreshHasSuccess
  <2> QED BY <2>1, QuietKeepsEvidence
<1>6. ASSUME NEW k \in Section, CollectFailsUnrecorded(c, k)
      PROVE  EvidenceBacked'
  <2>1. Quiet
    BY <1>0, <1>6, NotCollectedType DEF CollectFailsUnrecorded, Quiet, FreshHasSuccess
  <2> QED BY <2>1, QuietKeepsEvidence
<1>7. CASE CoreRecordFails(c)
  <2>1. Quiet
    BY <1>0, <1>7 DEF CoreRecordFails, Start, Quiet, FreshHasSuccess, TypeOK
  <2> QED BY <2>1, QuietKeepsEvidence
<1> QED BY <1>1, <1>2, <1>3, <1>4, <1>5, <1>6, <1>7 DEF Failure

LEMMA TickEvidence ==
  ASSUME TypeOK, TypeOK', EvidenceBacked, Tick
  PROVE  EvidenceBacked'
<1>0. /\ \A r \in Resource : snap[r] \in AgeOrNever /\ row[r].success \in AgeOrNever
      /\ \A c \in Cycle : stamp[c] \in AgeOrNever
      /\ Section \subseteq Resource
  BY DEF TypeOK, RowType, AgeOrNever, Resource
<1>1. SuccessHasSnapshot'
  BY <1>0, TickEffect, OlderType, OlderMonotone DEF EvidenceBacked, SuccessHasSnapshot
<1>2. FreshHasSuccess'
  BY <1>0, TickEffect, OlderType DEF EvidenceBacked, FreshHasSuccess
<1>3. RecordFollowsSave'
  <2> SUFFICES ASSUME NEW c \in Cycle, pc'[c] = "record"
               PROVE  /\ saved'[c] \in Section /\ server' # "absent"
                      /\ Present' => snap'[saved'[c]] <= stamp'[c]
    BY DEF RecordFollowsSave
  <2>1. /\ pc[c] = "record" /\ saved'[c] = saved[c] /\ server' = server
        /\ stamp'[c] = Older(stamp[c])
    BY DEF Tick, serverVars
  <2>2. saved[c] \in Section /\ server # "absent" /\ (Present => snap[saved[c]] <= stamp[c])
    BY <2>1 DEF EvidenceBacked, RecordFollowsSave
  <2> QED BY <1>0, <2>1, <2>2, TickEffect, OlderMonotone DEF Present
<1> QED BY <1>1, <1>2, <1>3 DEF EvidenceBacked

LEMMA EvidenceStep == TypeOK /\ EvidenceBacked /\ [Next]_vars => EvidenceBacked'
<1> SUFFICES ASSUME TypeOK, EvidenceBacked, [Next]_vars PROVE EvidenceBacked'
  OBVIOUS
<1>0. TypeOK'
  BY TypeStep
<1> USE DEF serverVars, worldVars, localVars, cycleVars
<1>1. ASSUME NEW c \in Cycle, Progress(c) \/ Failure(c)
      PROVE  EvidenceBacked'
  BY <1>0, <1>1, ProgressEvidence, FailureEvidence
<1>2. CASE DeleteServer
  <2>1. /\ \A r \in Resource : row'[r].success = Never /\ row'[r].state = "none"
        /\ server' = "deleted" /\ saved' = saved /\ pc' = pc
        /\ Section \subseteq Resource
    BY <1>2 DEF DeleteServer, NoRow, Resource
  <2>2. SuccessHasSnapshot' /\ FreshHasSuccess'
    BY <2>1 DEF SuccessHasSnapshot, FreshHasSuccess
  <2>3. RecordFollowsSave'
    BY <2>1 DEF EvidenceBacked, RecordFollowsSave, Present
  <2> QED BY <2>2, <2>3 DEF EvidenceBacked
<1>3. CASE Tick
  BY <1>0, <1>3, TickEvidence
<1>4. CASE Restart
  <2>1. /\ row' = row /\ snap' = snap
        /\ \A c \in Cycle : pc'[c] = "idle"
    BY <1>4 DEF Restart
  <2> QED BY <2>1 DEF EvidenceBacked, SuccessHasSnapshot, FreshHasSuccess, RecordFollowsSave
<1>5. CASE CreateServer \/ TestServer \/ TestReports \/ Breaks \/ Recovers \/ UNCHANGED vars
  <2>1. /\ row' = row /\ snap' = snap /\ pc' = pc /\ saved' = saved /\ stamp' = stamp
        /\ server' = server \/ server = "absent"
    BY <1>5 DEF CreateServer, TestServer, TestReports, Breaks, Recovers, vars
  <2> QED
    BY <2>1
    DEF EvidenceBacked, SuccessHasSnapshot, FreshHasSuccess, RecordFollowsSave, Present
<1> QED BY <1>1, <1>2, <1>3, <1>4, <1>5 DEF Next

(***************************************************************************)
(* Without the server the foreign keys refuse every write, so the two      *)
(* tables do not change.                                                   *)
(***************************************************************************)
LEMMA AbsentStep == TypeOK /\ NothingOfDeleted /\ [Next]_vars => NothingOfDeleted'
<1> SUFFICES ASSUME TypeOK, NothingOfDeleted, [Next]_vars PROVE NothingOfDeleted'
  OBVIOUS
<1> USE DEF serverVars, worldVars, localVars, cycleVars
<1>0. /\ Core \in Resource /\ Section \subseteq Resource
      /\ \A c \in Cycle : stamp[c] \in Age
      /\ snap \in [Resource -> AgeOrNever]
      /\ row \in [Resource -> RowType]
      /\ saved \in [Cycle -> Resource]
  BY DEF Resource, TypeOK
<1> USE <1>0 DEF NothingOfDeleted, Present
<1>1. ASSUME NEW c \in Cycle, Progress(c) \/ Failure(c)
      PROVE  NothingOfDeleted'
  <2>1. server' = server
    BY <1>1 DEF Progress, Failure, CollectCore, LoadCore, NothingToCollect, CycleFails, CoreFails,
         SaveSection, CollectFails, NotCollected, SaveFails, RecordFresh, RecordFails, SaveCore,
         EndFails, SkipCore, Report, ReportFails, CollectFailsUnrecorded, CoreRecordFails
  <2>2. ASSUME ~Present
        PROVE  snap' = snap
    <3>1. ASSUME NEW r \in Resource PROVE Stored(r, stamp[c]) = snap
      BY <2>2 DEF Stored
    <3> QED BY <1>1, <3>1 DEF Progress, Failure, CollectCore, LoadCore, NothingToCollect,
         CycleFails, CoreFails, SaveSection, CollectFails, NotCollected, SaveFails, RecordFresh,
         RecordFails, SaveCore, EndFails, SkipCore, Report, ReportFails, CollectFailsUnrecorded,
         CoreRecordFails
  <2>3. ASSUME ~Present
        PROVE  row' = row
    <3>1. ASSUME NEW r, NEW state, NEW age PROVE Recorded(r, state, age) = row
      BY <2>3 DEF Recorded
    <3>2. ASSUME NEW rs PROVE RecordedUnavailable(rs) = row
      BY <2>3 DEF RecordedUnavailable
    <3> QED BY <1>1, <3>1, <3>2 DEF Progress, Failure, CollectCore, LoadCore, NothingToCollect,
         CycleFails, CoreFails, SaveSection, CollectFails, NotCollected, SaveFails, RecordFresh,
         RecordFails, SaveCore, EndFails, SkipCore, Report, ReportFails, CollectFailsUnrecorded,
         CoreRecordFails
  <2> QED BY <2>1, <2>2, <2>3
<1>2. CASE CreateServer
  BY <1>2 DEF CreateServer, InsertServer
<1>3. CASE DeleteServer
  BY <1>3 DEF DeleteServer
<1>4. CASE Tick
  <2>1. server' = server /\ \A r \in Resource : row'[r] \in RowType
    BY <1>4, TickEffect DEF Tick
  <2>2. ASSUME server # "present", NEW r \in Resource
        PROVE  snap'[r] = Never /\ row'[r] = NoRow
    <3>1. snap[r] = Never /\ row[r].state = "none" /\ row[r].success = Never
      BY <2>2 DEF NoRow
    <3>2. Never \in AgeOrNever /\ Older(Never) = Never
      BY OlderType DEF AgeOrNever
    <3>3. snap'[r] = Never /\ row'[r].state = "none" /\ row'[r].success = Never
      BY <1>4, <3>1, <3>2, TickEffect
    <3> QED BY <2>1, <3>3 DEF NoRow, RowType
  <2> QED BY <2>1, <2>2
<1>5. CASE TestServer \/ TestReports \/ Breaks \/ Recovers \/ Restart \/ UNCHANGED vars
  <2>1. row' = row /\ snap' = snap /\ server' = server
    BY <1>5 DEF TestServer, TestReports, Breaks, Recovers, Restart, vars
  <2> QED BY <2>1
<1> QED BY <1>1, <1>2, <1>3, <1>4, <1>5 DEF Next

(***************************************************************************)
(* A step that stores nothing new, takes no row away and ends no record    *)
(* leaves every loss explained.                                            *)
(***************************************************************************)
NothingLost(k) ==
  /\ snap'[k] # Never => snap[k] # Never
  /\ row'[k] = NoRow => row[k] = NoRow
  /\ missed \subseteq missed'
  /\ \A c \in Cycle : pc[c] = "record" /\ saved[c] = k => pc'[c] = "record" /\ saved'[c] = k

LEMMA NothingLostExplained ==
  ASSUME LossExplained, NEW k \in Section, NothingLost(k), snap'[k] # Never, row'[k] = NoRow
  PROVE  Unrecorded(k)'
  BY DEF LossExplained, NothingLost, Unrecorded

(* Writes never take a row away, and a record of a section makes one. *)
LEMMA RowsStay ==
  ASSUME TypeOK, NEW k \in Resource
  PROVE  /\ \A r \in Resource, state \in {"fresh", "partial", "unavailable"}, age \in Age :
              Recorded(r, state, age)[k] = NoRow => row[k] = NoRow /\ (Present => k # r)
         /\ \A rs \in SUBSET Resource : RecordedUnavailable(rs)[k] = NoRow => row[k] = NoRow
<1>0. NoRow.state = "none" /\ row[k] \in RowType
  BY DEF NoRow, TypeOK
<1>1. ASSUME NEW r \in Resource, NEW state \in {"fresh", "partial", "unavailable"},
             NEW age \in Age, Recorded(r, state, age)[k] = NoRow
      PROVE  row[k] = NoRow /\ (Present => k # r)
  <2>1. CASE ~Present
    BY <1>1, <2>1 DEF Recorded
  <2>2. CASE Present
    <3>1. k # r
      BY <1>0, <1>1, <2>2, RecordedEffect DEF TypeOK
    <3> QED BY <1>1, <3>1, RecordedEffect DEF TypeOK
  <2> QED BY <2>1, <2>2
<1>2. ASSUME NEW rs \in SUBSET Resource, RecordedUnavailable(rs)[k] = NoRow
      PROVE  row[k] = NoRow
  <2>1. CASE ~Present
    BY <1>2, <2>1 DEF RecordedUnavailable
  <2>2. CASE Present /\ k \in rs
    BY <1>0, <1>2, <2>2 DEF RecordedUnavailable, RowType
  <2>3. CASE Present /\ k \notin rs
    BY <1>2, <2>3 DEF RecordedUnavailable
  <2> QED BY <2>1, <2>2, <2>3
<1> QED BY <1>1, <1>2

LEMMA StoredElsewhere ==
  ASSUME TypeOK, NEW k \in Resource, NEW r \in Resource, NEW age, r # k
  PROVE  Stored(r, age)[k] = snap[k]
  BY DEF Stored, TypeOK

LEMMA LossStep ==
  ASSUME TypeOK, NothingOfDeleted, LossExplained, [Next]_vars
  PROVE  LossExplained'
<1> SUFFICES ASSUME NEW k \in Section, snap'[k] # Never, row'[k] = NoRow
             PROVE  Unrecorded(k)'
  BY DEF LossExplained
<1> USE DEF serverVars, worldVars, localVars, cycleVars
<1>0. /\ k \in Resource /\ Core \in Resource /\ k # Core /\ Section \subseteq Resource
      /\ 0 \in Age
      /\ \A c \in Cycle : stamp[c] \in Age /\ saved[c] \in Resource
      /\ pc \in [Cycle -> {"idle", "collect", "record", "report"}]
      /\ saved \in [Cycle -> Resource]
      /\ ~Present => snap[k] = Never
  BY CollectionStatusAssumption DEF Resource, TypeOK, Age, NothingOfDeleted, Present
<1>1. ASSUME NEW c \in Cycle, CollectCore(c) \/ CoreRecordFails(c) PROVE NothingLost(k)
  <2>1. /\ row' = row \/ row' = Recorded(Core, "fresh", 0)
        /\ pc[c] = "idle" /\ pc' = [pc EXCEPT ![c] = "collect"]
        /\ saved' = saved /\ snap' = snap /\ missed' = missed
    BY <1>1 DEF CollectCore, CoreRecordFails, Start, MayStart
  <2> QED BY <1>0, <2>1, RowsStay DEF NothingLost
<1>2. ASSUME NEW c \in Cycle, LoadCore(c) \/ NothingToCollect(c) PROVE NothingLost(k)
  BY <1>0, <1>2 DEF NothingLost, LoadCore, NothingToCollect, Start, MayStart
<1>3. ASSUME NEW c \in Cycle, CycleFails(c) \/ CoreFails(c) PROVE NothingLost(k)
  <2>1. PICK told \in SUBSET OwnResources(c) : row' = RecordedUnavailable(told)
    BY <1>3 DEF CycleFails, CoreFails
  <2>2. told \in SUBSET Resource
    BY OwnType
  <2>3. snap' = snap /\ missed' = missed /\ pc' = pc /\ saved' = saved
    BY <1>3 DEF CycleFails, CoreFails
  <2> QED BY <1>0, <2>1, <2>2, <2>3, RowsStay DEF NothingLost
<1>4. ASSUME NEW c \in Cycle, NEW j \in Section, SaveSection(c, j) PROVE Unrecorded(k)'
  <2>1. row' = row /\ missed' = missed /\ pc[c] = "collect"
    BY <1>4 DEF SaveSection
  <2>2. CASE ~Present
    BY <1>0, <1>4, <2>2 DEF SaveSection
  <2>3. CASE Present /\ j = k
    BY <1>0, <1>4, <2>1, <2>3 DEF SaveSection, Unrecorded
  <2>4. CASE Present /\ j # k
    <3>1. /\ snap' = Stored(j, stamp[c]) /\ pc' = [pc EXCEPT ![c] = "record"]
          /\ saved' = [saved EXCEPT ![c] = j]
      BY <1>4, <2>4 DEF SaveSection
    <3>2. snap'[k] = snap[k]
      BY <1>0, <2>4, <3>1, StoredElsewhere
    <3>3. NothingLost(k)
      BY <1>0, <2>1, <3>1, <3>2 DEF NothingLost
    <3> QED BY <3>3, NothingLostExplained
  <2> QED BY <2>2, <2>3, <2>4
<1>5. ASSUME NEW c \in Cycle, NEW j \in Section, CollectFails(c, j) PROVE NothingLost(k)
  <2>1. /\ pc' = pc /\ saved' = saved /\ missed' = missed
        /\ snap' = snap \/ snap' = Stored(j, stamp[c])
        /\ row' = Recorded(j, IF j \in PerDatabase THEN "partial" ELSE "unavailable", stamp[c])
    BY <1>5 DEF CollectFails, NotCollected
  <2>2. row[k] = NoRow /\ (Present => k # j)
    BY <1>0, <2>1, RowsStay
  <2>3. snap'[k] = snap[k]
    <3>1. CASE Present
      BY <1>0, <2>1, <2>2, <3>1, StoredElsewhere
    <3>2. CASE ~Present
      BY <2>1, <3>2 DEF Stored
    <3> QED BY <3>1, <3>2
  <2> QED BY <2>1, <2>2, <2>3 DEF NothingLost
<1>6. ASSUME NEW c \in Cycle, NEW j \in Section, CollectFailsUnrecorded(c, j)
      PROVE  Unrecorded(k)'
  <2>1. /\ pc' = pc /\ saved' = saved /\ row' = row
        /\ snap' = snap \/ snap' = Stored(j, stamp[c])
        /\ missed' = IF snap' = snap THEN missed ELSE missed \cup {j}
    BY <1>6 DEF CollectFailsUnrecorded, NotCollected
  <2>2. CASE snap'[k] = snap[k]
    <3>1. NothingLost(k)
      BY <2>1, <2>2 DEF NothingLost
    <3> QED BY <3>1, NothingLostExplained
  <2>3. CASE snap'[k] # snap[k]
    <3>1. j = k
      BY <1>0, <2>1, <2>3, StoredElsewhere
    <3> QED BY <2>1, <2>3, <3>1 DEF Unrecorded
  <2> QED BY <2>2, <2>3
<1>7. ASSUME NEW c \in Cycle, RecordFresh(c) PROVE Unrecorded(k)'
  <2>1. /\ row' = Recorded(saved[c], "fresh", stamp[c]) /\ snap' = snap /\ missed' = missed
        /\ pc' = [pc EXCEPT ![c] = "collect"] /\ saved' = [saved EXCEPT ![c] = Core]
    BY <1>7 DEF RecordFresh
  <2>2. Present /\ row[k] = NoRow /\ k # saved[c]
    BY <1>0, <2>1, RowsStay
  <2>3. NothingLost(k)
    BY <1>0, <2>1, <2>2 DEF NothingLost
  <2> QED BY <2>3, NothingLostExplained
<1>8. ASSUME NEW c \in Cycle, RecordFails(c) PROVE Unrecorded(k)'
  <2>1. /\ row' = row /\ snap' = snap /\ missed' = missed \cup {saved[c]}
        /\ pc' = [pc EXCEPT ![c] = "collect"] /\ saved' = [saved EXCEPT ![c] = Core]
    BY <1>8 DEF RecordFails
  <2>2. CASE saved[c] = k
    BY <2>1, <2>2 DEF Unrecorded
  <2>3. CASE saved[c] # k
    <3>1. NothingLost(k)
      BY <1>0, <2>1, <2>3 DEF NothingLost
    <3> QED BY <3>1, NothingLostExplained
  <2> QED BY <2>2, <2>3
<1>9. ASSUME NEW c \in Cycle, NEW j \in Section, SaveFails(c, j) PROVE NothingLost(k)
  <2>1. /\ pc' = pc /\ saved' = saved /\ missed' = missed /\ snap' = snap
        /\ row' = row \/ row' = Recorded(j, "unavailable", stamp[c])
    BY <1>9 DEF SaveFails
  <2> QED BY <1>0, <2>1, RowsStay DEF NothingLost
<1>10. ASSUME NEW c \in Cycle, SaveCore(c) \/ EndFails(c) PROVE NothingLost(k)
  <2>1. /\ saved' = saved /\ missed' = missed /\ row' = row
        /\ pc[c] = "collect" /\ pc' = [pc EXCEPT ![c] = "report"]
        /\ snap' = snap \/ snap' = Stored(Core, stamp[c])
    BY <1>10 DEF SaveCore, EndFails, Collected
  <2>2. snap'[k] = snap[k]
    BY <1>0, <2>1, StoredElsewhere
  <2> QED BY <1>0, <2>1, <2>2 DEF NothingLost
<1>11. ASSUME NEW c \in Cycle, SkipCore(c) \/ Report(c) \/ ReportFails(c) PROVE NothingLost(k)
  <2>1. /\ saved' = saved /\ missed' = missed /\ row' = row /\ snap' = snap
        /\ pc[c] # "record"
        /\ pc' = [pc EXCEPT ![c] = "idle"] \/ pc' = [pc EXCEPT ![c] = "report"]
    BY <1>11 DEF SkipCore, Report, ReportFails, Return, Collected
  <2> QED BY <1>0, <2>1 DEF NothingLost
<1>12. CASE DeleteServer
  BY <1>0, <1>12 DEF DeleteServer
<1>13. CASE Tick
  <2>1. /\ saved' = saved /\ missed' = missed /\ pc' = pc
        /\ snap'[k] = Older(snap[k]) /\ row'[k].state = row[k].state
        /\ row'[k].success = Older(row[k].success)
    BY <1>0, <1>13, TickEffect DEF Tick
  <2>2. snap[k] # Never
    BY <1>0, <2>1, OlderType DEF TypeOK
  <2>3. row[k] = NoRow
    <3>1. row[k] \in RowType /\ row[k].success \in AgeOrNever
      BY <1>0 DEF TypeOK, RowType
    <3>2. row[k].state = "none" /\ row[k].success = Never
      BY <2>1, <3>1, OlderType DEF NoRow
    <3> QED BY <3>1, <3>2 DEF NoRow, RowType
  <2>4. NothingLost(k)
    BY <2>1, <2>2, <2>3 DEF NothingLost
  <2> QED BY <2>4, NothingLostExplained
<1>14. CASE Restart
  <2>1. row' = row /\ snap' = snap
    BY <1>14 DEF Restart
  <2>2. Unrecorded(k)
    BY <2>1 DEF LossExplained
  <2> QED BY <1>14, <2>1, <2>2 DEF Restart, Unrecorded
<1>15. CASE CreateServer \/ TestServer \/ TestReports \/ Breaks \/ Recovers \/ UNCHANGED vars
  <2>1. /\ row' = row /\ snap' = snap /\ pc' = pc /\ saved' = saved /\ missed' = missed
    BY <1>15 DEF CreateServer, TestServer, TestReports, Breaks, Recovers, vars
  <2> QED BY <2>1, NothingLostExplained DEF NothingLost
<1> QED
  BY <1>1, <1>2, <1>3, <1>4, <1>5, <1>6, <1>7, <1>8, <1>9, <1>10, <1>11, <1>12, <1>13, <1>14,
     <1>15, NothingLostExplained
  DEF Next, Progress, Failure

(***************************************************************************)
(* The inductive invariant holds in every reachable state.                 *)
(***************************************************************************)
THEOREM Invariance == Spec => []IInv
<1>1. IInv /\ [Next]_vars => IInv'
  BY TypeStep, EvidenceStep, AbsentStep, LossStep DEF IInv
<1> QED BY <1>1, InitIInv, PTL DEF Spec

(***************************************************************************)
(* A finding is trusted fully only when the evidence stored of its section *)
(* is recent, or when the record of that evidence, the first of its        *)
(* section, was lost or is still to be written: only then does the API     *)
(* find no row to judge the evidence by.                                   *)
(***************************************************************************)
THEOREM TrustIsBacked == Spec => []LabelsHonest
<1>1. IInv => LabelsHonest
  <2> SUFFICES ASSUME IInv, NEW k \in Section, snap[k] # Never,
                      ShownConfidence("High", k) = "High"
               PROVE  snap[k] <= 2 * Interval[k] \/ Unrecorded(k)
    BY DEF LabelsHonest
  <2>0. CASE row[k] = NoRow
    BY <2>0 DEF IInv, LossExplained
  <2>1. CASE row[k] # NoRow
    <3>1. Derived(k) = "fresh"
      BY <2>1 DEF ShownConfidence, Lowered
    <3>2. /\ row[k].state = "fresh"
          /\ row[k].success = Never \/ ~(row[k].success > 2 * Interval[k])
      BY <3>1 DEF Derived
    <3>3. /\ k \in Resource
          /\ snap[k] \in Int /\ row[k].success \in Int /\ Interval[k] \in Int
      BY CollectionStatusAssumption DEF IInv, TypeOK, AgeOrNever, Age, Never, RowType, Resource
    <3>4. row[k].success # Never /\ snap[k] <= row[k].success
      BY <3>2, <3>3 DEF IInv, EvidenceBacked, SuccessHasSnapshot, FreshHasSuccess
    <3> QED BY <3>2, <3>3, <3>4
  <2> QED BY <2>0, <2>1
<1> QED BY <1>1, Invariance, PTL

(***************************************************************************)
(* Nothing of a deleted server is left or comes back, although cycles and  *)
(* a connection test of it were under way.                                 *)
(***************************************************************************)
THEOREM DeletionIsFinal == Spec => []NothingOfDeleted
<1>1. IInv => NothingOfDeleted
  BY DEF IInv
<1> QED BY <1>1, Invariance, PTL
==============================================================================
