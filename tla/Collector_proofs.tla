--------------------------- MODULE Collector_proofs ---------------------------
(***************************************************************************)
(* Proofs about Collector, for every set of sections and owners, every     *)
(* choice of cycles that run, and every number of changes and faults.      *)
(***************************************************************************)
EXTENDS Collector, FiniteSetTheorems, TLAPS

(***************************************************************************)
(* The startup cycle runs alone: the others wait until it is over.  Two    *)
(* cycles that run at once therefore own different sections.               *)
(***************************************************************************)
StartupAlone ==
    /\ boot # "done" => \A c \in Cycle \ {"all"} : pc[c] = "idle"
    /\ "all" \in Cycle /\ pc["all"] # "idle" => boot = "running"

(***************************************************************************)
(* A section of its own that a complete cycle has left behind it is        *)
(* collected and stored, from the moment the cycle leaves it.              *)
(***************************************************************************)
Kept(c) ==
    /\ pc[c] = "analyze" => left[c] = {}
    /\ complete[c] /\ pc[c] \in {"sections", "analyze"} =>
        \A k \in Section : Owns(c, k) /\ k \notin left[c] =>
            /\ view[c][k].whole
            /\ snap[k].at >= at[c] \/ (Expires /\ snap[k].at = 0)

(***************************************************************************)
(* Every piece of evidence, in a cycle or stored, that shows a problem is  *)
(* of a problem the server has had.                                        *)
(***************************************************************************)
EvidenceHonest ==
    /\ \A k \in Section : pg[k] => k \in suffered
    /\ \A k \in Section : snap[k].ev.bad => k \in suffered
    /\ \A k \in Section : core.view[k].bad => k \in suffered
    /\ \A c \in Cycle : \A k \in Section : view[c][k].bad => k \in suffered
    /\ open \subseteq suffered

(***************************************************************************)
(* A capability that is taken to be absent, stored or in a cycle, has been *)
(* doubted before.  The startup and the standard cycle begin without it    *)
(* and learn it from their query section.                                  *)
(***************************************************************************)
Settled(c) ==
    /\ pc[c] \in {"sections", "analyze"}
    /\ c \in {"all", "standard"} => QuerySection \notin left[c]

CapabilityHonest ==
    QuerySection \in Section =>
        /\ ~pgss => doubted
        /\ core.at # 0 /\ ~core.capable => doubted
        /\ \A c \in Cycle : Settled(c) /\ ~capable[c] => doubted
        /\ pgssOpen => doubted

IInv ==
    /\ TypeOK
    /\ StartupAlone
    /\ \A c \in Cycle : Kept(c)
    /\ EvidenceHonest
    /\ CapabilityHonest

(***************************************************************************)
(* Stamps.  Renumbering keeps the order of the stamps in use, and zero,    *)
(* which stands for no snapshot.                                           *)
(***************************************************************************)
LEMMA CycleFinite == IsFiniteSet(Cycle)
<1>1. IsFiniteSet({"all", "fast"})
  <2>1. {"all", "fast"} = {"all"} \cup {"fast"}
    OBVIOUS
  <2>2. IsFiniteSet({"all"})
    BY FS_Singleton
  <2>3. IsFiniteSet({"all"} \cup {"fast"})
    BY <2>2, FS_AddElement
  <2> QED BY <2>1, <2>3
<1>2. IsFiniteSet({"all", "fast"} \cup {"standard"})
  BY <1>1, FS_AddElement
<1>3. IsFiniteSet(({"all", "fast"} \cup {"standard"}) \cup {"slow"})
  BY <1>2, FS_AddElement
<1>4. IsFiniteSet((({"all", "fast"} \cup {"standard"}) \cup {"slow"}) \cup {"metadata"})
  BY <1>3, FS_AddElement
<1>5. Cycle \subseteq (({"all", "fast"} \cup {"standard"}) \cup {"slow"}) \cup {"metadata"}
  BY CollectorAssumption DEF CycleKinds
<1> QED BY <1>4, <1>5, FS_Subset

LEMMA ImageFinite ==
  ASSUME NEW S, IsFiniteSet(S), NEW f \in [S -> Nat]
  PROVE  IsFiniteSet({f[x] : x \in S})
<1> DEFINE T == {f[x] : x \in S}
<1>1. f \in Surjection(S, T)
  BY DEF Surjection
<1> HIDE DEF T
<1>2. IsFiniteSet(T)
  BY <1>1, FS_Surjection
<1> QED BY <1>2 DEF T

LEMMA StampsFinite ==
  ASSUME TypeOK
  PROVE  IsFiniteSet(Stamps) /\ Stamps \subseteq Nat \ {0}
<1> DEFINE f == [k \in Section |-> snap[k].at]
<1>1. f \in [Section -> Nat]
  BY DEF TypeOK
<1>2. IsFiniteSet({f[k] : k \in Section})
  BY <1>1, ImageFinite, CollectorAssumption
<1>3. {f[k] : k \in Section} = {snap[k].at : k \in Section}
  OBVIOUS
<1>4. at \in [Cycle -> Nat]
  BY DEF TypeOK
<1>5. IsFiniteSet({at[c] : c \in Cycle})
  BY <1>4, CycleFinite, ImageFinite
<1>6. IsFiniteSet({core.at} \cup {snap[k].at : k \in Section} \cup {at[c] : c \in Cycle})
  BY <1>2, <1>3, <1>5, FS_Singleton, FS_Union
<1>7. Stamps \subseteq {core.at} \cup {snap[k].at : k \in Section} \cup {at[c] : c \in Cycle}
  BY DEF Stamps
<1>8. Stamps \subseteq Nat \ {0}
  BY DEF Stamps, TypeOK
<1> QED BY <1>6, <1>7, <1>8, FS_Subset

LEMMA RankType ==
  ASSUME TypeOK
  PROVE  /\ NewStamp \in Nat
         /\ \A x \in Nat : RankOf(x) \in Nat
         /\ RankOf(0) = 0
<1>1. IsFiniteSet(Stamps) /\ Stamps \subseteq Nat \ {0}
  BY StampsFinite
<1>2. NewStamp \in Nat
  BY <1>1, FS_CardinalityType DEF NewStamp
<1>3. ASSUME NEW x \in Nat PROVE RankOf(x) \in Nat
  <2>1. {y \in Stamps : y <= x} \in SUBSET Stamps
    OBVIOUS
  <2>2. IsFiniteSet({y \in Stamps : y <= x})
    BY <1>1, <2>1, FS_Subset
  <2> QED BY <2>2, FS_CardinalityType DEF RankOf
<1>4. RankOf(0) = 0
  <2>1. \A y \in Stamps : ~(y <= 0)
    BY <1>1
  <2>2. {y \in Stamps : y <= 0} = {}
    BY <2>1
  <2> QED BY <2>2, FS_EmptySet DEF RankOf
<1> QED BY <1>2, <1>3, <1>4

LEMMA RankMonotone ==
  ASSUME TypeOK, NEW x \in Nat, NEW y \in Nat, x <= y
  PROVE  RankOf(x) <= RankOf(y)
<1>1. IsFiniteSet(Stamps) /\ Stamps \subseteq Nat \ {0}
  BY StampsFinite
<1>2. IsFiniteSet({z \in Stamps : z <= y})
  <2>1. {z \in Stamps : z <= y} \in SUBSET Stamps
    OBVIOUS
  <2> QED BY <1>1, <2>1, FS_Subset
<1>3. {z \in Stamps : z <= x} \in SUBSET {z \in Stamps : z <= y}
  <2>1. \A z \in Stamps : z <= x => z <= y
    BY <1>1
  <2> QED BY <2>1
<1> QED BY <1>2, <1>3, FS_Subset DEF RankOf

(***************************************************************************)
(* Type correctness, action by action.                                     *)
(***************************************************************************)
LEMMA NothingType == Nothing \in Evidence /\ NoSnapshot \in [at : Nat, ev : Evidence]
  BY DEF Nothing, Evidence, NoSnapshot

LEMMA SeenType ==
  ASSUME TypeOK, NEW k \in Section
  PROVE  /\ [bad |-> Problem(k), whole |-> TRUE] \in Evidence
         /\ \A part \in Parts(k) : part \in Evidence
         /\ \A c \in Cycle : Cached(c, k) \in Evidence
<1>1. Problem(k) \in BOOLEAN
  BY DEF Problem, TypeOK
<1>2. [bad |-> Problem(k), whole |-> TRUE] \in Evidence
  BY <1>1 DEF Evidence
<1>3. ASSUME NEW part \in Parts(k) PROVE part \in Evidence
  <2>1. PICK bad \in {FALSE, Problem(k)} : part = [bad |-> bad, whole |-> FALSE]
    BY DEF Parts
  <2> QED BY <1>1, <2>1 DEF Evidence
<1>4. ASSUME NEW c \in Cycle PROVE Cached(c, k) \in Evidence
  BY DEF Cached, TypeOK
<1> QED BY <1>2, <1>3, <1>4

LEMMA StoredType ==
  ASSUME TypeOK, NEW k \in Section, NEW x \in Nat, NEW ev \in Evidence
  PROVE  /\ Stored(k, x, ev) \in [Section -> [at : Nat, ev : Evidence]]
         /\ Stored(k, x, ev)[k].at >= x
         /\ Stored(k, x, ev)[k].ev \in {snap[k].ev, ev}
         /\ \A j \in Section \ {k} : Stored(k, x, ev)[j] = snap[j]
  BY DEF Stored, TypeOK

LEMMA InitType == Init => TypeOK
<1> SUFFICES ASSUME Init PROVE TypeOK
  OBVIOUS
<1>1. pgss \in BOOLEAN /\ suffered \subseteq Section
  BY DEF Init
<1>2. core \in [at : Nat, capable : BOOLEAN, view : [Section -> Evidence]]
  BY NothingType DEF Init
<1>3. /\ snap \in [Section -> [at : Nat, ev : Evidence]]
      /\ view \in [Cycle -> [Section -> Evidence]]
  BY NothingType DEF Init
<1>4. changes \in 0..MaxChanges /\ faults \in 0..MaxFaults
  BY CollectorAssumption DEF Init
<1> QED BY <1>1, <1>2, <1>3, <1>4 DEF Init, TypeOK

LEMMA ReturnType ==
  ASSUME TypeOK, NEW c \in Cycle, Return(c)
  PROVE  /\ pc' \in [Cycle -> {"idle", "sections", "analyze", "report"}]
         /\ at' \in [Cycle -> Nat]
         /\ left' \in [Cycle -> SUBSET Section]
         /\ view' \in [Cycle -> [Section -> Evidence]]
         /\ capable' \in [Cycle -> BOOLEAN]
         /\ complete' \in [Cycle -> BOOLEAN]
  BY NothingType DEF TypeOK, Return

LEMMA StepType ==
  ASSUME TypeOK, [Next]_vars
  PROVE  TypeOK'
<1> USE DEF TypeOK, serverVars, findingVars, pastVars
<1>1. ASSUME NEW c \in Cycle, CollectCore(c) PROVE TypeOK'
  BY <1>1, NothingType, RankType DEF CollectCore, StartCore, Booted, CoreFresh, MayStart
<1>2. ASSUME NEW c \in Cycle, LoadCore(c) PROVE TypeOK'
  BY <1>2 DEF LoadCore
<1>3. ASSUME NEW c \in Cycle, TargetUnknown(c) PROVE TypeOK'
  BY <1>3, CollectorAssumption DEF TargetUnknown, Booted, Fault, localVars
<1>4. ASSUME NEW c \in Cycle, CycleFails(c) PROVE TypeOK'
  BY <1>4, CollectorAssumption DEF CycleFails, Booted, Fault, localVars
<1>5. ASSUME NEW c \in Cycle, NEW k \in Section, CollectSection(c, k) PROVE TypeOK'
  BY <1>5, SeenType, StoredType
  DEF CollectSection, Collected, Advance, SeeSection, SeeCapability, SetResource
<1>6. ASSUME NEW c \in Cycle, NEW k \in Section, LoadSection(c, k) PROVE TypeOK'
  BY <1>6, SeenType DEF LoadSection, Advance, SeeSection
<1>7. ASSUME NEW c \in Cycle, NEW k \in Section, SaveFails(c, k) PROVE TypeOK'
  BY <1>7, CollectorAssumption, SeenType
  DEF SaveFails, Collected, Advance, SeeSection, SeeCapability, SetResource, MayRecord, Incomplete,
      Fault
<1>8. ASSUME NEW c \in Cycle, NEW k \in Section, ObservationFails(c, k) PROVE TypeOK'
  <2>1. snap' \in [Section -> [at : Nat, ev : Evidence]]
    BY <1>8, SeenType, StoredType DEF ObservationFails
  <2>2. view' \in [Cycle -> [Section -> Evidence]] /\ capable' \in [Cycle -> BOOLEAN]
    BY <1>8, SeenType DEF ObservationFails, Collected, SeeSection, SeeCapability
  <2>3. /\ left' \in [Cycle -> SUBSET Section] /\ complete' \in [Cycle -> BOOLEAN]
        /\ resource' \in [Section -> {"none", "fresh", "partial", "unavailable"}]
        /\ faults' \in 0..MaxFaults
    BY <1>8, CollectorAssumption
    DEF ObservationFails, Collected, Advance, SetResource, MayRecord, Incomplete, Fault
  <2> QED BY <1>8, <2>1, <2>2, <2>3 DEF ObservationFails, Collected
<1>9. ASSUME NEW c \in Cycle, NEW k \in Section, CollectFails(c, k) PROVE TypeOK'
  <2>1. capable' \in [Cycle -> BOOLEAN]
    BY <1>9 DEF CollectFails
  <2>2. view' \in [Cycle -> [Section -> Evidence]]
    <3>1. CASE SeeSection(c, k, Cached(c, k))
      BY <3>1, SeenType DEF SeeSection
    <3>2. CASE UNCHANGED view
      BY <3>2
    <3> QED BY <1>9, <3>1, <3>2 DEF CollectFails
  <2>4. doubted' \in BOOLEAN
    BY <1>9 DEF CollectFails
  <2>3. /\ left' \in [Cycle -> SUBSET Section] /\ complete' \in [Cycle -> BOOLEAN]
        /\ resource' \in [Section -> {"none", "fresh", "partial", "unavailable"}]
        /\ faults' \in 0..MaxFaults
    BY <1>9, CollectorAssumption
    DEF CollectFails, Advance, SetResource, MayRecord, Incomplete, Fault
  <2> QED BY <1>9, <2>1, <2>2, <2>3, <2>4 DEF CollectFails
<1>10. ASSUME NEW c \in Cycle, NEW k \in Section, CollectPartly(c, k) PROVE TypeOK'
  <2>1. PICK part \in Parts(k) :
          \/ SeeSection(c, k, snap[k].ev) /\ UNCHANGED snap
          \/ SeeSection(c, k, part) /\ snap' \in {snap, Stored(k, at[c], part)}
    BY <1>10 DEF CollectPartly
  <2>2. part \in Evidence /\ snap[k].ev \in Evidence /\ at[c] \in Nat
    BY SeenType
  <2>3. Stored(k, at[c], part) \in [Section -> [at : Nat, ev : Evidence]]
    BY <2>2, StoredType
  <2>4. snap' \in [Section -> [at : Nat, ev : Evidence]]
    BY <2>1, <2>3
  <2>5. view' \in [Cycle -> [Section -> Evidence]]
    <3>1. CASE SeeSection(c, k, snap[k].ev)
      BY <2>2, <3>1 DEF SeeSection
    <3>2. CASE SeeSection(c, k, part)
      BY <2>2, <3>2 DEF SeeSection
    <3> QED BY <2>1, <3>1, <3>2
  <2>6. /\ left' \in [Cycle -> SUBSET Section] /\ complete' \in [Cycle -> BOOLEAN]
        /\ resource' \in [Section -> {"none", "fresh", "partial", "unavailable"}]
        /\ faults' \in 0..MaxFaults
    BY <1>10, CollectorAssumption
    DEF CollectPartly, Advance, SetResource, MayRecord, Incomplete, Fault
  <2> QED BY <1>10, <2>4, <2>5, <2>6 DEF CollectPartly
<1>11. ASSUME NEW c \in Cycle, NEW k \in Section, LoadFails(c, k) PROVE TypeOK'
  BY <1>11, CollectorAssumption DEF LoadFails, Advance, Fault
<1>12. ASSUME NEW c \in Cycle, SaveCore(c) PROVE TypeOK'
  BY <1>12 DEF SaveCore, CoreOf
<1>13. ASSUME NEW c \in Cycle, SaveCoreFails(c) PROVE TypeOK'
  BY <1>13, CollectorAssumption DEF SaveCoreFails, CoreOf, Incomplete, Fault
<1>14. ASSUME NEW c \in Cycle, SkipCore(c) PROVE TypeOK'
  <2>1. CASE c = "metadata"
    BY <1>14, <2>1, ReturnType DEF SkipCore
  <2>2. CASE c # "metadata"
    <3>1. /\ pc' = [pc EXCEPT ![c] = "analyze"]
          /\ UNCHANGED <<serverVars, snap, core, resource, findingVars, status, boot, at, left,
                         view, capable, complete, pastVars, faults>>
      BY <1>14, <2>2 DEF SkipCore
    <3>2. pc' \in [Cycle -> {"idle", "sections", "analyze", "report"}]
      BY <3>1
    <3> QED BY <3>1, <3>2
  <2> QED BY <2>1, <2>2
<1>15. ASSUME NEW c \in Cycle, Reconcile(c) PROVE TypeOK'
  BY <1>15 DEF Reconcile, findingVars
<1>16. ASSUME NEW c \in Cycle, ReconcileFails(c) PROVE TypeOK'
  <2>1. complete' \in [Cycle -> BOOLEAN]
    <3>1. complete' = complete \/ complete' = [complete EXCEPT ![c] = FALSE]
      BY <1>16 DEF ReconcileFails
    <3> QED BY <3>1
  <2>2. faults' \in 0..MaxFaults
    BY <1>16, CollectorAssumption DEF ReconcileFails, Fault
  <2>3. pc' \in [Cycle -> {"idle", "sections", "analyze", "report"}]
    BY <1>16 DEF ReconcileFails
  <2> QED BY <1>16, <2>1, <2>2, <2>3 DEF ReconcileFails
<1>17. ASSUME NEW c \in Cycle, UpdateServerStatus(c) PROVE TypeOK'
  BY <1>17, NothingType DEF UpdateServerStatus, Return, Booted
<1>18. ASSUME ServerChanges PROVE TypeOK'
  <2>1. pg' \in [Section -> BOOLEAN] /\ pgss' \in BOOLEAN
    BY <1>18 DEF ServerChanges
  <2>2. suffered' \subseteq Section
    BY <1>18 DEF ServerChanges
  <2>3. changes' \in 0..MaxChanges
    BY <1>18, CollectorAssumption DEF ServerChanges
  <2> QED BY <1>18, <2>1, <2>2, <2>3 DEF ServerChanges, localVars
<1>19. ASSUME NEW cutoff \in Stamps, PruneMonitoringHistory(cutoff) PROVE TypeOK'
  BY <1>19, CollectorAssumption, NothingType DEF PruneMonitoringHistory, Fault, localVars
<1>20. ASSUME Restart PROVE TypeOK'
  BY <1>20, CollectorAssumption, NothingType DEF Restart, Fault
<1>21. ASSUME NEW c \in Cycle, CoreReadFails(c) PROVE TypeOK'
  <2>1. faults' \in 0..MaxFaults
    BY <1>21, CollectorAssumption DEF CoreReadFails, Fault
  <2>2. CASE c = "fast"
    <3>1. StartCore(c, FALSE) /\ doubted' \in BOOLEAN
      BY <1>21, <2>2 DEF CoreReadFails
    <3> QED BY <2>1, <3>1, NothingType, RankType DEF StartCore, Booted
  <2>3. CASE c # "fast"
    BY <1>21, <2>1, <2>3 DEF CoreReadFails, localVars
  <2> QED BY <2>2, <2>3
<1>22. ASSUME NEW c \in Cycle, NEW k \in Section, RecordFreshFails(c, k) PROVE TypeOK'
  <2>1. snap' \in [Section -> [at : Nat, ev : Evidence]]
    BY <1>22, SeenType, StoredType DEF RecordFreshFails
  <2>2. view' \in [Cycle -> [Section -> Evidence]] /\ capable' \in [Cycle -> BOOLEAN]
    BY <1>22, SeenType DEF RecordFreshFails, Collected, SeeSection, SeeCapability
  <2>3. left' \in [Cycle -> SUBSET Section] /\ faults' \in 0..MaxFaults
    BY <1>22, CollectorAssumption DEF RecordFreshFails, Collected, Advance, Fault
  <2> QED BY <1>22, <2>1, <2>2, <2>3 DEF RecordFreshFails, Collected
<1>23. ASSUME NEW c \in Cycle, UpdateStatusFails(c) PROVE TypeOK'
  BY <1>23, CollectorAssumption, NothingType DEF UpdateStatusFails, Return, Booted, Fault
<1>24. ASSUME UNCHANGED vars PROVE TypeOK'
  BY <1>24 DEF vars, localVars
<1> HIDE DEF TypeOK, serverVars, findingVars, pastVars
<1> QED
  BY <1>1, <1>2, <1>3, <1>4, <1>5, <1>6, <1>7, <1>8, <1>9, <1>10, <1>11, <1>12, <1>13, <1>14,
     <1>15, <1>16, <1>17, <1>18, <1>19, <1>20, <1>21, <1>22, <1>23, <1>24
  DEF Next, Progress, Failure

(***************************************************************************)
(* The startup cycle and the others exclude each other.                    *)
(***************************************************************************)
Runs(c) == pc[c] # "idle" \/ MayStart(c)

LEMMA StepStartupAlone ==
  ASSUME TypeOK, StartupAlone, [Next]_vars
  PROVE  StartupAlone'
<1> USE DEF TypeOK, StartupAlone
<1>1. ASSUME NEW c \in Cycle, CollectCore(c) PROVE StartupAlone'
  BY <1>1 DEF CollectCore, StartCore, MayStart, Booted
<1>2. ASSUME NEW c \in Cycle, LoadCore(c) PROVE StartupAlone'
  BY <1>2 DEF LoadCore, MayStart, CoreFresh
<1>3. ASSUME NEW c \in Cycle, TargetUnknown(c) PROVE StartupAlone'
  BY <1>3 DEF TargetUnknown, MayStart, Booted, localVars
<1>4. ASSUME NEW c \in Cycle, CycleFails(c) PROVE StartupAlone'
  BY <1>4 DEF CycleFails, MayStart, Booted, localVars
<1>5. ASSUME NEW c \in Cycle, NEW k \in Section, CollectSection(c, k) PROVE StartupAlone'
  BY <1>5 DEF CollectSection
<1>6. ASSUME NEW c \in Cycle, NEW k \in Section, LoadSection(c, k) PROVE StartupAlone'
  BY <1>6 DEF LoadSection
<1>7. ASSUME NEW c \in Cycle, NEW k \in Section, SaveFails(c, k) PROVE StartupAlone'
  BY <1>7 DEF SaveFails
<1>8. ASSUME NEW c \in Cycle, NEW k \in Section, ObservationFails(c, k) PROVE StartupAlone'
  BY <1>8 DEF ObservationFails
<1>9. ASSUME NEW c \in Cycle, NEW k \in Section, CollectFails(c, k) PROVE StartupAlone'
  BY <1>9 DEF CollectFails
<1>10. ASSUME NEW c \in Cycle, NEW k \in Section, CollectPartly(c, k) PROVE StartupAlone'
  BY <1>10 DEF CollectPartly
<1>11. ASSUME NEW c \in Cycle, NEW k \in Section, LoadFails(c, k) PROVE StartupAlone'
  BY <1>11 DEF LoadFails
<1>12. ASSUME NEW c \in Cycle, SaveCore(c) PROVE StartupAlone'
  BY <1>12 DEF SaveCore
<1>13. ASSUME NEW c \in Cycle, SaveCoreFails(c) PROVE StartupAlone'
  BY <1>13 DEF SaveCoreFails
<1>14. ASSUME NEW c \in Cycle, SkipCore(c) PROVE StartupAlone'
  BY <1>14 DEF SkipCore, Return, CoreFresh
<1>15. ASSUME NEW c \in Cycle, Reconcile(c) PROVE StartupAlone'
  BY <1>15 DEF Reconcile
<1>16. ASSUME NEW c \in Cycle, ReconcileFails(c) PROVE StartupAlone'
  BY <1>16 DEF ReconcileFails
<1>17. ASSUME NEW c \in Cycle, UpdateServerStatus(c) PROVE StartupAlone'
  BY <1>17 DEF UpdateServerStatus, Return, Booted
<1>18. ASSUME ServerChanges PROVE StartupAlone'
  BY <1>18 DEF ServerChanges, localVars
<1>19. ASSUME NEW cutoff \in Stamps, PruneMonitoringHistory(cutoff) PROVE StartupAlone'
  BY <1>19 DEF PruneMonitoringHistory, localVars
<1>20. ASSUME Restart PROVE StartupAlone'
  BY <1>20 DEF Restart
<1>21. ASSUME NEW c \in Cycle, CoreReadFails(c) PROVE StartupAlone'
  BY <1>21 DEF CoreReadFails, StartCore, MayStart, Booted, localVars
<1>22. ASSUME NEW c \in Cycle, NEW k \in Section, RecordFreshFails(c, k) PROVE StartupAlone'
  BY <1>22 DEF RecordFreshFails
<1>23. ASSUME NEW c \in Cycle, UpdateStatusFails(c) PROVE StartupAlone'
  BY <1>23 DEF UpdateStatusFails, Return, Booted
<1>24. ASSUME UNCHANGED vars PROVE StartupAlone'
  BY <1>24 DEF vars, localVars
<1> HIDE DEF TypeOK, StartupAlone
<1> QED
  BY <1>1, <1>2, <1>3, <1>4, <1>5, <1>6, <1>7, <1>8, <1>9, <1>10, <1>11, <1>12, <1>13, <1>14,
     <1>15, <1>16, <1>17, <1>18, <1>19, <1>20, <1>21, <1>22, <1>23, <1>24
  DEF Next, Progress, Failure

LEMMA OwnersDiffer ==
  ASSUME TypeOK, StartupAlone, NEW c \in Cycle, NEW d \in Cycle, c # d,
         Runs(c), pc[d] # "idle", NEW k \in Section, Owns(d, k)
  PROVE  ~Owns(c, k)
<1>1. CASE c = "all"
  BY <1>1 DEF StartupAlone, Runs, MayStart
<1>2. CASE d = "all"
  BY <1>2 DEF StartupAlone, Runs, MayStart
<1>3. CASE c # "all" /\ d # "all"
  BY <1>3 DEF Owns
<1> QED BY <1>1, <1>2, <1>3

(***************************************************************************)
(* What a step of one cycle leaves to the others: their own state, and the *)
(* sections it does not own.                                               *)
(***************************************************************************)
LeavesAlone(c) ==
    /\ \A d \in Cycle \ {c} : /\ pc'[d] = pc[d]
                              /\ at'[d] = at[d]
                              /\ left'[d] = left[d]
                              /\ view'[d] = view[d]
                              /\ complete'[d] = complete[d]
    /\ \A k \in Section : ~Owns(c, k) => snap'[k] = snap[k]

LEMMA OthersKeep ==
  ASSUME TypeOK, StartupAlone, NEW c \in Cycle, Runs(c), LeavesAlone(c),
         NEW d \in Cycle \ {c}, Kept(d)
  PROVE  Kept(d)'
<1>1. /\ pc'[d] = pc[d] /\ at'[d] = at[d] /\ left'[d] = left[d]
      /\ view'[d] = view[d] /\ complete'[d] = complete[d]
  BY DEF LeavesAlone
<1>2. CASE pc[d] \notin {"sections", "analyze"}
  BY <1>1, <1>2 DEF Kept
<1>3. CASE pc[d] \in {"sections", "analyze"}
  <2>1. ASSUME NEW k \in Section, Owns(d, k)
        PROVE  snap'[k] = snap[k]
    <3>1. ~Owns(c, k)
      BY <1>3, <2>1, OwnersDiffer
    <3> QED BY <3>1 DEF LeavesAlone
  <2> QED BY <1>1, <2>1 DEF Kept, Owns
<1> QED BY <1>2, <1>3

LEMMA StartCoreKept ==
  ASSUME TypeOK, \A c \in Cycle : Kept(c), NEW c \in Cycle, NEW known, StartCore(c, known)
  PROVE  \A d \in Cycle : Kept(d)'
<1>1. ASSUME NEW d \in Cycle \ {c} PROVE Kept(d)'
  <2>1. /\ pc'[d] = pc[d] /\ left'[d] = left[d] /\ view'[d] = view[d]
        /\ complete'[d] = complete[d]
        /\ at'[d] = RankOf(at[d])
        /\ \A k \in Section : snap'[k].at = RankOf(snap[k].at)
    BY DEF TypeOK, StartCore
  <2>2. Kept(d)
    OBVIOUS
  <2>3. at[d] \in Nat /\ \A k \in Section : snap[k].at \in Nat
    BY DEF TypeOK
  <2>4. ASSUME NEW k \in Section, snap[k].at >= at[d] \/ (Expires /\ snap[k].at = 0)
        PROVE  snap'[k].at >= at'[d] \/ (Expires /\ snap'[k].at = 0)
    BY <2>1, <2>3, <2>4, RankType, RankMonotone
  <2> QED BY <2>1, <2>2, <2>4 DEF Kept, Owns
<1>2. Kept(c)'
  BY DEF TypeOK, StartCore, Kept
<1> QED BY <1>1, <1>2

LEMMA StepKept ==
  ASSUME TypeOK, StartupAlone, \A c \in Cycle : Kept(c), [Next]_vars
  PROVE  \A c \in Cycle : Kept(c)'
<1>1. ASSUME NEW c \in Cycle, CollectCore(c) PROVE \A d \in Cycle : Kept(d)'
  BY <1>1, StartCoreKept DEF CollectCore
<1>2. ASSUME NEW c \in Cycle, LoadCore(c) PROVE \A d \in Cycle : Kept(d)'
  <2>1. LeavesAlone(c)
    BY <1>2 DEF TypeOK, LeavesAlone, LoadCore
  <2>2. Runs(c)
    BY <1>2 DEF LoadCore, Runs
  <2>3. Kept(c)'
    BY <1>2 DEF TypeOK, Kept, Owns, LoadCore, MayStart
  <2> QED BY <2>1, <2>2, <2>3, OthersKeep
<1>3. ASSUME NEW c \in Cycle, TargetUnknown(c) PROVE \A d \in Cycle : Kept(d)'
  <2>1. LeavesAlone(c)
    BY <1>3 DEF TypeOK, LeavesAlone, TargetUnknown, localVars
  <2>2. Runs(c)
    BY <1>3 DEF TargetUnknown, Runs
  <2>3. Kept(c)'
    BY <1>3 DEF TypeOK, Kept, Owns, TargetUnknown, localVars, MayStart
  <2> QED BY <2>1, <2>2, <2>3, OthersKeep
<1>4. ASSUME NEW c \in Cycle, CycleFails(c) PROVE \A d \in Cycle : Kept(d)'
  <2>1. LeavesAlone(c)
    BY <1>4 DEF TypeOK, LeavesAlone, CycleFails, localVars
  <2>2. Runs(c)
    BY <1>4 DEF CycleFails, Runs
  <2>3. Kept(c)'
    BY <1>4 DEF TypeOK, Kept, Owns, CycleFails, localVars, MayStart
  <2> QED BY <2>1, <2>2, <2>3, OthersKeep
<1>5. ASSUME NEW c \in Cycle, NEW k \in Section, CollectSection(c, k) PROVE \A d \in Cycle : Kept(d)'
  <2>0. /\ snap'[k].at >= at[c]
        /\ \A j \in Section \ {k} : snap'[j] = snap[j]
    <3>1. at[c] \in Nat /\ [bad |-> Problem(k), whole |-> TRUE] \in Evidence
      BY SeenType DEF TypeOK
    <3> QED BY <1>5, <3>1, StoredType DEF CollectSection
  <2>1. LeavesAlone(c)
    BY <1>5, <2>0
    DEF TypeOK, LeavesAlone, CollectSection, Collected, Advance, SeeSection
  <2>2. Runs(c)
    BY <1>5 DEF CollectSection, Collected, IsNext, Runs
  <2>3. Kept(c)'
    <3>1. /\ pc' = pc /\ at' = at /\ complete' = complete /\ pc[c] = "sections"
          /\ left'[c] = left[c] \ {k}
          /\ view'[c][k].whole
          /\ \A j \in Section \ {k} : view'[c][j] = view[c][j]
      BY <1>5 DEF TypeOK, CollectSection, Collected, IsNext, Advance, SeeSection
    <3>2. Kept(c)
      OBVIOUS
    <3> QED BY <2>0, <3>1, <3>2 DEF Kept, Owns
  <2> QED BY <2>1, <2>2, <2>3, OthersKeep
<1>6. ASSUME NEW c \in Cycle, NEW k \in Section, LoadSection(c, k) PROVE \A d \in Cycle : Kept(d)'
  <2>1. LeavesAlone(c)
    BY <1>6 DEF TypeOK, LeavesAlone, LoadSection, Advance, SeeSection, IsNext, Collected
  <2>2. Runs(c)
    BY <1>6 DEF LoadSection, IsNext, Collected, Runs
  <2>3. Kept(c)'
    BY <1>6 DEF TypeOK, Kept, Owns, LoadSection, Advance, SeeSection, IsNext, Collected
  <2> QED BY <2>1, <2>2, <2>3, OthersKeep
<1>7. ASSUME NEW c \in Cycle, NEW k \in Section, SaveFails(c, k) PROVE \A d \in Cycle : Kept(d)'
  <2>1. LeavesAlone(c)
    BY <1>7
    DEF TypeOK, LeavesAlone, SaveFails, Collected, Advance, SeeSection, Incomplete,
        IsNext
  <2>2. Runs(c)
    BY <1>7 DEF SaveFails, IsNext, Collected, Runs
  <2>3. Kept(c)'
    BY <1>7
    DEF TypeOK, Kept, Owns, SaveFails, Collected, Advance, SeeSection, Incomplete,
        IsNext
  <2> QED BY <2>1, <2>2, <2>3, OthersKeep
<1>8. ASSUME NEW c \in Cycle, NEW k \in Section, ObservationFails(c, k) PROVE \A d \in Cycle : Kept(d)'
  <2>0. \A j \in Section \ {k} : snap'[j] = snap[j]
    <3>1. at[c] \in Nat /\ [bad |-> Problem(k), whole |-> TRUE] \in Evidence
      BY SeenType DEF TypeOK
    <3> QED BY <1>8, <3>1, StoredType DEF ObservationFails
  <2>1. LeavesAlone(c)
    BY <1>8, <2>0
    DEF TypeOK, LeavesAlone, ObservationFails, Collected, Advance, SeeSection,
        Incomplete, IsNext
  <2>2. Runs(c)
    BY <1>8 DEF ObservationFails, IsNext, Collected, Runs
  <2>3. Kept(c)'
    BY <1>8, SeenType, StoredType
    DEF TypeOK, Kept, Owns, ObservationFails, Collected, Advance, SeeSection,
        Incomplete, IsNext
  <2> QED BY <2>1, <2>2, <2>3, OthersKeep
<1>9. ASSUME NEW c \in Cycle, NEW k \in Section, CollectFails(c, k) PROVE \A d \in Cycle : Kept(d)'
  <2>1. LeavesAlone(c)
    BY <1>9
    DEF TypeOK, LeavesAlone, CollectFails, Advance, SeeSection, Incomplete, IsNext
  <2>2. Runs(c)
    BY <1>9 DEF CollectFails, IsNext, Collected, Runs
  <2>3. Kept(c)'
    BY <1>9
    DEF TypeOK, Kept, Owns, CollectFails, Advance, SeeSection, Incomplete, IsNext
  <2> QED BY <2>1, <2>2, <2>3, OthersKeep
<1>10. ASSUME NEW c \in Cycle, NEW k \in Section, CollectPartly(c, k) PROVE \A d \in Cycle : Kept(d)'
  <2>0. \A j \in Section \ {k} : snap'[j] = snap[j]
    <3>1. PICK part \in Parts(k) : snap' = snap \/ snap' = Stored(k, at[c], part)
      BY <1>10 DEF CollectPartly
    <3>2. at[c] \in Nat /\ part \in Evidence
      BY SeenType DEF TypeOK
    <3>3. \A j \in Section \ {k} : Stored(k, at[c], part)[j] = snap[j]
      BY <3>2, StoredType
    <3> QED BY <3>1, <3>3
  <2>1. LeavesAlone(c)
    <3>1. PICK ev : SeeSection(c, k, ev)
      BY <1>10 DEF CollectPartly
    <3> QED BY <1>10, <2>0, <3>1
        DEF TypeOK, LeavesAlone, CollectPartly, Advance, SeeSection, Incomplete
  <2>2. Runs(c)
    BY <1>10 DEF CollectPartly, IsNext, Collected, Runs
  <2>3. Kept(c)'
    BY <1>10, SeenType, StoredType
    DEF TypeOK, Kept, Owns, CollectPartly, Advance, SeeSection, Incomplete, IsNext
  <2> QED BY <2>1, <2>2, <2>3, OthersKeep
<1>11. ASSUME NEW c \in Cycle, NEW k \in Section, LoadFails(c, k) PROVE \A d \in Cycle : Kept(d)'
  <2>1. LeavesAlone(c)
    BY <1>11 DEF TypeOK, LeavesAlone, LoadFails, Advance, IsNext, Collected
  <2>2. Runs(c)
    BY <1>11 DEF LoadFails, IsNext, Collected, Runs
  <2>3. Kept(c)'
    BY <1>11 DEF TypeOK, Kept, Owns, LoadFails, Advance, IsNext, Collected
  <2> QED BY <2>1, <2>2, <2>3, OthersKeep
<1>12. ASSUME NEW c \in Cycle, SaveCore(c) PROVE \A d \in Cycle : Kept(d)'
  <2>1. LeavesAlone(c)
    BY <1>12 DEF TypeOK, LeavesAlone, SaveCore
  <2>2. Runs(c)
    BY <1>12 DEF SaveCore, Runs
  <2>3. Kept(c)'
    BY <1>12 DEF TypeOK, Kept, Owns, SaveCore
  <2> QED BY <2>1, <2>2, <2>3, OthersKeep
<1>13. ASSUME NEW c \in Cycle, SaveCoreFails(c) PROVE \A d \in Cycle : Kept(d)'
  <2>1. LeavesAlone(c)
    BY <1>13 DEF TypeOK, LeavesAlone, SaveCoreFails, Incomplete
  <2>2. Runs(c)
    BY <1>13 DEF SaveCoreFails, Runs
  <2>3. Kept(c)'
    BY <1>13 DEF TypeOK, Kept, Owns, SaveCoreFails, Incomplete
  <2> QED BY <2>1, <2>2, <2>3, OthersKeep
<1>14. ASSUME NEW c \in Cycle, SkipCore(c) PROVE \A d \in Cycle : Kept(d)'
  <2>1. LeavesAlone(c)
    BY <1>14 DEF TypeOK, LeavesAlone, SkipCore, Return
  <2>2. Runs(c)
    BY <1>14 DEF SkipCore, Runs
  <2>3. Kept(c)'
    BY <1>14 DEF TypeOK, Kept, Owns, SkipCore, Return
  <2> QED BY <2>1, <2>2, <2>3, OthersKeep
<1>15. ASSUME NEW c \in Cycle, Reconcile(c) PROVE \A d \in Cycle : Kept(d)'
  <2>1. LeavesAlone(c)
    BY <1>15 DEF TypeOK, LeavesAlone, Reconcile
  <2>2. Runs(c)
    BY <1>15 DEF Reconcile, Runs
  <2>3. Kept(c)'
    BY <1>15 DEF TypeOK, Kept, Owns, Reconcile
  <2> QED BY <2>1, <2>2, <2>3, OthersKeep
<1>16. ASSUME NEW c \in Cycle, ReconcileFails(c) PROVE \A d \in Cycle : Kept(d)'
  <2>1. LeavesAlone(c)
    BY <1>16 DEF TypeOK, LeavesAlone, ReconcileFails
  <2>2. Runs(c)
    BY <1>16 DEF ReconcileFails, Runs
  <2>3. Kept(c)'
    BY <1>16 DEF TypeOK, Kept, Owns, ReconcileFails
  <2> QED BY <2>1, <2>2, <2>3, OthersKeep
<1>17. ASSUME NEW c \in Cycle, UpdateServerStatus(c) PROVE \A d \in Cycle : Kept(d)'
  <2>1. LeavesAlone(c)
    BY <1>17 DEF TypeOK, LeavesAlone, UpdateServerStatus, Return
  <2>2. Runs(c)
    BY <1>17 DEF UpdateServerStatus, Runs
  <2>3. Kept(c)'
    BY <1>17 DEF TypeOK, Kept, Owns, UpdateServerStatus, Return
  <2> QED BY <2>1, <2>2, <2>3, OthersKeep
<1>18. ASSUME ServerChanges PROVE \A d \in Cycle : Kept(d)'
  BY <1>18 DEF TypeOK, Kept, Owns, ServerChanges, localVars
<1>19. ASSUME NEW cutoff \in Stamps, PruneMonitoringHistory(cutoff) PROVE \A d \in Cycle : Kept(d)'
  BY <1>19 DEF TypeOK, Kept, Owns, PruneMonitoringHistory, localVars, NoSnapshot
<1>20. ASSUME Restart PROVE \A d \in Cycle : Kept(d)'
  BY <1>20 DEF TypeOK, Kept, Owns, Restart
<1>21. ASSUME NEW c \in Cycle, CoreReadFails(c) PROVE \A d \in Cycle : Kept(d)'
  <2>1. CASE c = "fast"
    BY <1>21, <2>1, StartCoreKept DEF CoreReadFails
  <2>2. CASE c # "fast"
    BY <1>21, <2>2 DEF TypeOK, Kept, Owns, CoreReadFails, localVars
  <2> QED BY <2>1, <2>2
<1>22. ASSUME NEW c \in Cycle, NEW k \in Section, RecordFreshFails(c, k)
       PROVE  \A d \in Cycle : Kept(d)'
  <2>0. /\ snap'[k].at >= at[c]
        /\ \A j \in Section \ {k} : snap'[j] = snap[j]
    <3>1. at[c] \in Nat /\ [bad |-> Problem(k), whole |-> TRUE] \in Evidence
      BY SeenType DEF TypeOK
    <3> QED BY <1>22, <3>1, StoredType DEF RecordFreshFails
  <2>1. LeavesAlone(c)
    BY <1>22, <2>0 DEF TypeOK, LeavesAlone, RecordFreshFails, Collected, Advance, SeeSection
  <2>2. Runs(c)
    BY <1>22 DEF RecordFreshFails, Collected, IsNext, Runs
  <2>3. Kept(c)'
    <3>1. /\ pc' = pc /\ at' = at /\ complete' = complete /\ pc[c] = "sections"
          /\ left'[c] = left[c] \ {k}
          /\ view'[c][k].whole
          /\ \A j \in Section \ {k} : view'[c][j] = view[c][j]
      BY <1>22 DEF TypeOK, RecordFreshFails, Collected, IsNext, Advance, SeeSection
    <3>2. Kept(c)
      OBVIOUS
    <3> QED BY <2>0, <3>1, <3>2 DEF Kept, Owns
  <2> QED BY <2>1, <2>2, <2>3, OthersKeep
<1>23. ASSUME NEW c \in Cycle, UpdateStatusFails(c) PROVE \A d \in Cycle : Kept(d)'
  <2>1. LeavesAlone(c)
    BY <1>23 DEF TypeOK, LeavesAlone, UpdateStatusFails, Return
  <2>2. Runs(c)
    BY <1>23 DEF UpdateStatusFails, Runs
  <2>3. Kept(c)'
    BY <1>23 DEF TypeOK, Kept, Owns, UpdateStatusFails, Return
  <2> QED BY <2>1, <2>2, <2>3, OthersKeep
<1>24. ASSUME UNCHANGED vars PROVE \A d \in Cycle : Kept(d)'
  BY <1>24 DEF TypeOK, Kept, Owns, vars, localVars
<1> QED
  BY <1>1, <1>2, <1>3, <1>4, <1>5, <1>6, <1>7, <1>8, <1>9, <1>10, <1>11, <1>12, <1>13, <1>14,
     <1>15, <1>16, <1>17, <1>18, <1>19, <1>20, <1>21, <1>22, <1>23, <1>24
  DEF Next, Progress, Failure

(***************************************************************************)
(* Evidence: collected evidence shows problems the server has, and all     *)
(* other evidence is a copy of it, or nothing.                             *)
(***************************************************************************)
LEMMA SeenHonest ==
  ASSUME TypeOK, EvidenceHonest, NEW c \in Cycle, NEW k \in Section
  PROVE  /\ Problem(k) => k \in suffered
         /\ \A part \in Parts(k) : part.bad => k \in suffered
         /\ Cached(c, k).bad => k \in suffered
<1>1. Problem(k) => k \in suffered
  BY DEF EvidenceHonest, Problem
<1>2. ASSUME NEW part \in Parts(k), part.bad PROVE k \in suffered
  <2>1. PICK bad \in {FALSE, Problem(k)} : part = [bad |-> bad, whole |-> FALSE]
    BY DEF Parts
  <2> QED BY <1>1, <1>2, <2>1
<1>3. Cached(c, k).bad => k \in suffered
  BY DEF EvidenceHonest, Cached
<1> QED BY <1>1, <1>2, <1>3

LEMMA StoredHonest ==
  ASSUME TypeOK, EvidenceHonest, NEW k \in Section, NEW x \in Nat, NEW ev \in Evidence,
         ev.bad => k \in suffered
  PROVE  \A j \in Section : Stored(k, x, ev)[j].ev.bad => j \in suffered
<1>1. \A j \in Section : snap[j].ev.bad => j \in suffered
  BY DEF EvidenceHonest
<1>2. Stored(k, x, ev)[k].ev = snap[k].ev \/ Stored(k, x, ev)[k].ev = ev
  BY StoredType
<1>3. \A j \in Section \ {k} : Stored(k, x, ev)[j] = snap[j]
  BY StoredType
<1> QED BY <1>1, <1>2, <1>3

LEMMA SeeHonest ==
  ASSUME TypeOK, EvidenceHonest, NEW c \in Cycle, NEW k \in Section, NEW ev,
         ev.bad => k \in suffered, SeeSection(c, k, ev)
  PROVE  \A d \in Cycle : \A j \in Section : view'[d][j].bad => j \in suffered
  BY DEF TypeOK, EvidenceHonest, SeeSection

LEMMA StepHonest ==
  ASSUME TypeOK, EvidenceHonest, [Next]_vars
  PROVE  EvidenceHonest'
<1> USE DEF serverVars, findingVars, pastVars
<1>1. ASSUME NEW c \in Cycle, CollectCore(c) PROVE EvidenceHonest'
  BY <1>1 DEF EvidenceHonest, TypeOK, CollectCore, StartCore, Nothing
<1>2. ASSUME NEW c \in Cycle, LoadCore(c) PROVE EvidenceHonest'
  BY <1>2 DEF EvidenceHonest, TypeOK, LoadCore
<1>3. ASSUME NEW c \in Cycle, TargetUnknown(c) PROVE EvidenceHonest'
  BY <1>3 DEF EvidenceHonest, TargetUnknown, localVars
<1>4. ASSUME NEW c \in Cycle, CycleFails(c) PROVE EvidenceHonest'
  BY <1>4 DEF EvidenceHonest, CycleFails, localVars
<1>5. ASSUME NEW c \in Cycle, NEW k \in Section, CollectSection(c, k) PROVE EvidenceHonest'
  <2>1. /\ [bad |-> Problem(k), whole |-> TRUE] \in Evidence /\ at[c] \in Nat
        /\ [bad |-> Problem(k), whole |-> TRUE].bad => k \in suffered
    BY SeenType, SeenHonest DEF TypeOK
  <2>2. \A d \in Cycle : \A j \in Section : view'[d][j].bad => j \in suffered
    BY <1>5, <2>1, SeeHonest DEF CollectSection, Collected
  <2>3. \A j \in Section : snap'[j].ev.bad => j \in suffered
    BY <1>5, <2>1, StoredHonest DEF CollectSection
  <2> QED BY <1>5, <2>2, <2>3 DEF EvidenceHonest, CollectSection, Collected
<1>6. ASSUME NEW c \in Cycle, NEW k \in Section, LoadSection(c, k) PROVE EvidenceHonest'
  <2>1. \A d \in Cycle : \A j \in Section : view'[d][j].bad => j \in suffered
    BY <1>6, SeenHonest, SeeHonest DEF LoadSection
  <2> QED BY <1>6, <2>1 DEF EvidenceHonest, LoadSection
<1>7. ASSUME NEW c \in Cycle, NEW k \in Section, SaveFails(c, k) PROVE EvidenceHonest'
  <2>1. /\ [bad |-> Problem(k), whole |-> TRUE] \in Evidence /\ at[c] \in Nat
        /\ [bad |-> Problem(k), whole |-> TRUE].bad => k \in suffered
    BY SeenType, SeenHonest DEF TypeOK
  <2>2. \A d \in Cycle : \A j \in Section : view'[d][j].bad => j \in suffered
    BY <1>7, <2>1, SeeHonest DEF SaveFails, Collected
  <2> QED BY <1>7, <2>2 DEF EvidenceHonest, SaveFails, Collected
<1>8. ASSUME NEW c \in Cycle, NEW k \in Section, ObservationFails(c, k) PROVE EvidenceHonest'
  <2>1. /\ [bad |-> Problem(k), whole |-> TRUE] \in Evidence /\ at[c] \in Nat
        /\ [bad |-> Problem(k), whole |-> TRUE].bad => k \in suffered
    BY SeenType, SeenHonest DEF TypeOK
  <2>2. \A d \in Cycle : \A j \in Section : view'[d][j].bad => j \in suffered
    BY <1>8, <2>1, SeeHonest DEF ObservationFails, Collected
  <2>3. \A j \in Section : snap'[j].ev.bad => j \in suffered
    BY <1>8, <2>1, StoredHonest DEF ObservationFails
  <2> QED BY <1>8, <2>2, <2>3 DEF EvidenceHonest, ObservationFails, Collected
<1>9. ASSUME NEW c \in Cycle, NEW k \in Section, CollectFails(c, k) PROVE EvidenceHonest'
  <2>1. \A d \in Cycle : \A j \in Section : view'[d][j].bad => j \in suffered
    <3>1. CASE SeeSection(c, k, Cached(c, k))
      BY <3>1, SeenHonest, SeeHonest
    <3>2. CASE UNCHANGED view
      BY <3>2 DEF EvidenceHonest
    <3> QED BY <1>9, <3>1, <3>2 DEF CollectFails
  <2> QED BY <1>9, <2>1 DEF EvidenceHonest, CollectFails
<1>10. ASSUME NEW c \in Cycle, NEW k \in Section, CollectPartly(c, k) PROVE EvidenceHonest'
  <2>1. PICK part \in Parts(k) :
          \/ SeeSection(c, k, snap[k].ev) /\ UNCHANGED snap
          \/ SeeSection(c, k, part) /\ snap' \in {snap, Stored(k, at[c], part)}
    BY <1>10 DEF CollectPartly
  <2>2. /\ part \in Evidence /\ at[c] \in Nat
        /\ part.bad => k \in suffered
        /\ snap[k].ev.bad => k \in suffered
    BY SeenType, SeenHonest DEF TypeOK, EvidenceHonest
  <2>3. \A d \in Cycle : \A j \in Section : view'[d][j].bad => j \in suffered
    BY <2>1, <2>2, SeeHonest
  <2>4. \A j \in Section : Stored(k, at[c], part)[j].ev.bad => j \in suffered
    BY <2>2, StoredHonest
  <2>5. \A j \in Section : snap'[j].ev.bad => j \in suffered
    BY <2>1, <2>4 DEF EvidenceHonest
  <2> QED BY <1>10, <2>3, <2>5 DEF EvidenceHonest, CollectPartly
<1>11. ASSUME NEW c \in Cycle, NEW k \in Section, LoadFails(c, k) PROVE EvidenceHonest'
  BY <1>11 DEF EvidenceHonest, LoadFails
<1>12. ASSUME NEW c \in Cycle, SaveCore(c) PROVE EvidenceHonest'
  BY <1>12 DEF EvidenceHonest, SaveCore, CoreOf
<1>13. ASSUME NEW c \in Cycle, SaveCoreFails(c) PROVE EvidenceHonest'
  BY <1>13 DEF EvidenceHonest, SaveCoreFails, CoreOf
<1>14. ASSUME NEW c \in Cycle, SkipCore(c) PROVE EvidenceHonest'
  <2>1. view' = view \/ view' = [view EXCEPT ![c] = [k \in Section |-> Nothing]]
    BY <1>14 DEF SkipCore, Return
  <2>2. \A d \in Cycle : \A j \in Section : view'[d][j].bad => j \in suffered
    <3>1. CASE view' = view
      BY <3>1 DEF EvidenceHonest
    <3>2. CASE view' = [view EXCEPT ![c] = [k \in Section |-> Nothing]]
      BY <3>2 DEF EvidenceHonest, TypeOK, Nothing
    <3> QED BY <2>1, <3>1, <3>2
  <2> QED BY <1>14, <2>2 DEF EvidenceHonest, SkipCore
<1>15. ASSUME NEW c \in Cycle, Reconcile(c) PROVE EvidenceHonest'
  BY <1>15 DEF EvidenceHonest, Reconcile
<1>16. ASSUME NEW c \in Cycle, ReconcileFails(c) PROVE EvidenceHonest'
  BY <1>16 DEF EvidenceHonest, ReconcileFails
<1>17. ASSUME NEW c \in Cycle, UpdateServerStatus(c) PROVE EvidenceHonest'
  BY <1>17 DEF EvidenceHonest, TypeOK, UpdateServerStatus, Return, Nothing
<1>18. ASSUME ServerChanges PROVE EvidenceHonest'
  BY <1>18 DEF EvidenceHonest, TypeOK, ServerChanges, localVars
<1>19. ASSUME NEW cutoff \in Stamps, PruneMonitoringHistory(cutoff) PROVE EvidenceHonest'
  BY <1>19 DEF EvidenceHonest, PruneMonitoringHistory, NoSnapshot, Nothing, localVars
<1>20. ASSUME Restart PROVE EvidenceHonest'
  BY <1>20 DEF EvidenceHonest, Restart, Nothing
<1>21. ASSUME NEW c \in Cycle, CoreReadFails(c) PROVE EvidenceHonest'
  <2>1. CASE c = "fast"
    <3>1. StartCore(c, FALSE)
      BY <1>21, <2>1 DEF CoreReadFails
    <3> QED BY <3>1 DEF EvidenceHonest, TypeOK, StartCore, Nothing
  <2>2. CASE c # "fast"
    BY <1>21, <2>2 DEF EvidenceHonest, CoreReadFails, localVars
  <2> QED BY <2>1, <2>2
<1>22. ASSUME NEW c \in Cycle, NEW k \in Section, RecordFreshFails(c, k) PROVE EvidenceHonest'
  <2>1. /\ [bad |-> Problem(k), whole |-> TRUE] \in Evidence /\ at[c] \in Nat
        /\ [bad |-> Problem(k), whole |-> TRUE].bad => k \in suffered
    BY SeenType, SeenHonest DEF TypeOK
  <2>2. \A d \in Cycle : \A j \in Section : view'[d][j].bad => j \in suffered
    BY <1>22, <2>1, SeeHonest DEF RecordFreshFails, Collected
  <2>3. \A j \in Section : snap'[j].ev.bad => j \in suffered
    BY <1>22, <2>1, StoredHonest DEF RecordFreshFails
  <2> QED BY <1>22, <2>2, <2>3 DEF EvidenceHonest, RecordFreshFails, Collected
<1>23. ASSUME NEW c \in Cycle, UpdateStatusFails(c) PROVE EvidenceHonest'
  BY <1>23 DEF EvidenceHonest, TypeOK, UpdateStatusFails, Return, Nothing
<1>24. ASSUME UNCHANGED vars PROVE EvidenceHonest'
  BY <1>24 DEF EvidenceHonest, vars, localVars
<1> HIDE DEF serverVars, findingVars, pastVars
<1> QED
  BY <1>1, <1>2, <1>3, <1>4, <1>5, <1>6, <1>7, <1>8, <1>9, <1>10, <1>11, <1>12, <1>13, <1>14,
     <1>15, <1>16, <1>17, <1>18, <1>19, <1>20, <1>21, <1>22, <1>23, <1>24
  DEF Next, Progress, Failure

(***************************************************************************)
(* The capability: what a cycle settles it to be, it has seen or doubted.  *)
(***************************************************************************)
LEMMA CollectedCapability ==
  ASSUME TypeOK, CapabilityHonest, NEW c \in Cycle, NEW k \in Section, Collected(c, k),
         UNCHANGED <<serverVars, core, findingVars, pc>>
  PROVE  CapabilityHonest'
  BY DEF TypeOK, CapabilityHonest, Settled, Collected, Advance, SeeCapability, serverVars,
         findingVars, pastVars

LEMMA StartCoreCapability ==
  ASSUME TypeOK, CapabilityHonest, NEW c \in Cycle, NEW known \in BOOLEAN, StartCore(c, known),
         doubted => doubted', c = "fast" /\ ~known /\ QuerySection \in Section => doubted'
  PROVE  CapabilityHonest'
<1> SUFFICES ASSUME QuerySection \in Section PROVE CapabilityHonest'
  BY DEF CapabilityHonest
<1>1. /\ ~pgss' => doubted'
      /\ pgssOpen' => doubted'
  BY DEF CapabilityHonest, StartCore, serverVars, findingVars
<1>2. core'.at # 0 /\ ~core'.capable => doubted'
  <2>1. core'.at = RankOf(core.at) /\ core'.capable = core.capable
    BY DEF StartCore
  <2>2. core.at = 0 => core'.at = 0
    BY <2>1, RankType
  <2> QED BY <2>1, <2>2 DEF CapabilityHonest
<1>3. ASSUME NEW d \in Cycle, Settled(d)', ~capable'[d] PROVE doubted'
  <2>1. CASE d = c
    <3>1. left'[c] = Section /\ capable'[c] = known
      BY DEF StartCore, TypeOK
    <3>2. c \notin {"all", "standard"}
      BY <1>3, <2>1, <3>1 DEF Settled
    <3>3. c = "fast"
      BY <3>2 DEF StartCore, CoreFresh
    <3> QED BY <1>3, <2>1, <3>1, <3>3
  <2>2. CASE d # c
    <3>1. pc'[d] = pc[d] /\ left'[d] = left[d] /\ capable'[d] = capable[d]
      BY <2>2 DEF StartCore, TypeOK
    <3> QED BY <1>3, <3>1 DEF CapabilityHonest, Settled
  <2> QED BY <2>1, <2>2
<1> QED BY <1>1, <1>2, <1>3 DEF CapabilityHonest

LEMMA StepCapability ==
  ASSUME TypeOK, \A c \in Cycle : Kept(c), CapabilityHonest, [Next]_vars
  PROVE  CapabilityHonest'
<1> USE DEF serverVars, findingVars, pastVars
<1>1. ASSUME NEW c \in Cycle, CollectCore(c) PROVE CapabilityHonest'
  <2>1. (c = "fast" /\ core.at # 0 /\ core.capable) \in BOOLEAN
    OBVIOUS
  <2>2. doubted' = (doubted \/ (c = "fast" /\ core.at = 0))
    BY <1>1 DEF CollectCore
  <2> QED BY <1>1, <2>1, <2>2, StartCoreCapability DEF CollectCore, CapabilityHonest
<1>2. ASSUME NEW c \in Cycle, LoadCore(c) PROVE CapabilityHonest'
  BY <1>2 DEF CapabilityHonest, Settled, TypeOK, LoadCore
<1>3. ASSUME NEW c \in Cycle, TargetUnknown(c) PROVE CapabilityHonest'
  BY <1>3 DEF CapabilityHonest, Settled, TargetUnknown, localVars
<1>4. ASSUME NEW c \in Cycle, CycleFails(c) PROVE CapabilityHonest'
  BY <1>4 DEF CapabilityHonest, Settled, CycleFails, localVars
<1>5. ASSUME NEW c \in Cycle, NEW k \in Section, CollectSection(c, k) PROVE CapabilityHonest'
  BY <1>5, CollectedCapability DEF CollectSection
<1>6. ASSUME NEW c \in Cycle, NEW k \in Section, LoadSection(c, k) PROVE CapabilityHonest'
  BY <1>6, CollectorAssumption DEF CapabilityHonest, Settled, TypeOK, LoadSection, Advance, Owns
<1>7. ASSUME NEW c \in Cycle, NEW k \in Section, SaveFails(c, k) PROVE CapabilityHonest'
  BY <1>7, CollectedCapability DEF SaveFails
<1>8. ASSUME NEW c \in Cycle, NEW k \in Section, ObservationFails(c, k) PROVE CapabilityHonest'
  BY <1>8, CollectedCapability DEF ObservationFails
<1>9. ASSUME NEW c \in Cycle, NEW k \in Section, CollectFails(c, k) PROVE CapabilityHonest'
  <2>1. /\ pc' = pc /\ core' = core /\ pgss' = pgss /\ pgssOpen' = pgssOpen
        /\ left' = [left EXCEPT ![c] = @ \ {k}]
    BY <1>9 DEF CollectFails, Advance
  <2>2. CASE k = QuerySection
    <3>1. PICK known \in {FALSE, pgss} : /\ capable' = [capable EXCEPT ![c] = known]
                                        /\ doubted' = (doubted \/ ~known)
      BY <1>9, <2>2 DEF CollectFails
    <3> QED BY <2>1, <3>1 DEF CapabilityHonest, Settled, TypeOK
  <2>3. CASE k # QuerySection
    BY <1>9, <2>1, <2>3 DEF CapabilityHonest, Settled, TypeOK, CollectFails
  <2> QED BY <2>2, <2>3
<1>10. ASSUME NEW c \in Cycle, NEW k \in Section, CollectPartly(c, k) PROVE CapabilityHonest'
  <2>1. k # QuerySection
    BY <1>10, CollectorAssumption DEF CollectPartly
  <2>2. /\ pc' = pc /\ core' = core /\ pgss' = pgss /\ pgssOpen' = pgssOpen
        /\ left' = [left EXCEPT ![c] = @ \ {k}] /\ capable' = capable /\ doubted' = doubted
    BY <1>10 DEF CollectPartly, Advance
  <2> QED BY <2>1, <2>2 DEF CapabilityHonest, Settled, TypeOK
<1>11. ASSUME NEW c \in Cycle, NEW k \in Section, LoadFails(c, k) PROVE CapabilityHonest'
  BY <1>11, CollectorAssumption DEF CapabilityHonest, Settled, TypeOK, LoadFails, Advance, Owns
<1>12. ASSUME NEW c \in Cycle, SaveCore(c) PROVE CapabilityHonest'
  BY <1>12 DEF CapabilityHonest, Settled, TypeOK, SaveCore, CoreOf
<1>13. ASSUME NEW c \in Cycle, SaveCoreFails(c) PROVE CapabilityHonest'
  BY <1>13 DEF CapabilityHonest, Settled, TypeOK, SaveCoreFails, CoreOf
<1>14. ASSUME NEW c \in Cycle, SkipCore(c) PROVE CapabilityHonest'
  BY <1>14 DEF CapabilityHonest, Settled, TypeOK, SkipCore, Return
<1>15. ASSUME NEW c \in Cycle, Reconcile(c) PROVE CapabilityHonest'
  <2>1. left[c] = {} /\ pc[c] = "analyze"
    BY <1>15 DEF Reconcile, Kept
  <2>2. pgssOpen' = pgssOpen \/ pgssOpen' = ~capable[c]
    BY <1>15 DEF Reconcile
  <2> QED BY <1>15, <2>1, <2>2 DEF CapabilityHonest, Settled, TypeOK, Reconcile
<1>16. ASSUME NEW c \in Cycle, ReconcileFails(c) PROVE CapabilityHonest'
  BY <1>16 DEF CapabilityHonest, Settled, TypeOK, ReconcileFails
<1>17. ASSUME NEW c \in Cycle, UpdateServerStatus(c) PROVE CapabilityHonest'
  BY <1>17 DEF CapabilityHonest, Settled, TypeOK, UpdateServerStatus, Return
<1>18. ASSUME ServerChanges PROVE CapabilityHonest'
  BY <1>18 DEF CapabilityHonest, Settled, ServerChanges, localVars
<1>19. ASSUME NEW cutoff \in Stamps, PruneMonitoringHistory(cutoff) PROVE CapabilityHonest'
  BY <1>19 DEF CapabilityHonest, Settled, PruneMonitoringHistory, localVars
<1>20. ASSUME Restart PROVE CapabilityHonest'
  BY <1>20 DEF CapabilityHonest, Settled, Restart
<1>21. ASSUME NEW c \in Cycle, CoreReadFails(c) PROVE CapabilityHonest'
  <2>1. CASE c = "fast"
    BY <1>21, <2>1, StartCoreCapability DEF CoreReadFails
  <2>2. CASE c # "fast"
    BY <1>21, <2>2 DEF CapabilityHonest, Settled, CoreReadFails, localVars
  <2> QED BY <2>1, <2>2
<1>22. ASSUME NEW c \in Cycle, NEW k \in Section, RecordFreshFails(c, k) PROVE CapabilityHonest'
  BY <1>22, CollectedCapability DEF RecordFreshFails
<1>23. ASSUME NEW c \in Cycle, UpdateStatusFails(c) PROVE CapabilityHonest'
  BY <1>23 DEF CapabilityHonest, Settled, TypeOK, UpdateStatusFails, Return
<1>24. ASSUME UNCHANGED vars PROVE CapabilityHonest'
  BY <1>24 DEF CapabilityHonest, Settled, vars, localVars
<1> HIDE DEF serverVars, findingVars, pastVars
<1> QED
  BY <1>1, <1>2, <1>3, <1>4, <1>5, <1>6, <1>7, <1>8, <1>9, <1>10, <1>11, <1>12, <1>13, <1>14,
     <1>15, <1>16, <1>17, <1>18, <1>19, <1>20, <1>21, <1>22, <1>23, <1>24
  DEF Next, Progress, Failure

(* Only the reconciliation of a cycle touches the findings. *)
LEMMA OnlyReconcileResolves ==
  ASSUME [Next]_vars, open' # open
  PROVE  \E c \in Cycle : Reconcile(c) \/ ReconcileFails(c)
<1> USE DEF findingVars
<1>1. ASSUME NEW c \in Cycle, Progress(c), ~Reconcile(c) PROVE FALSE
  BY <1>1
  DEF Progress, CollectCore, StartCore, LoadCore, CollectSection, LoadSection, SaveCore,
      SkipCore,
              UpdateServerStatus
<1>2. ASSUME NEW c \in Cycle, Failure(c), ~ReconcileFails(c) PROVE FALSE
  BY <1>2 DEF Failure, TargetUnknown, CycleFails, SaveFails, ObservationFails, CollectFails,
              CollectPartly, LoadFails, SaveCoreFails, CoreReadFails, StartCore,
              RecordFreshFails, UpdateStatusFails
<1>3. CASE ServerChanges \/ Restart \/ \E cutoff \in Stamps : PruneMonitoringHistory(cutoff)
  BY <1>3 DEF ServerChanges, Restart, PruneMonitoringHistory
<1>4. CASE UNCHANGED vars
  BY <1>4 DEF vars
<1> QED BY <1>1, <1>2, <1>3, <1>4 DEF Next

-----------------------------------------------------------------------------
(* The invariant and what follows from it *)

LEMMA InitIInv == Init => IInv
<1> SUFFICES ASSUME Init PROVE IInv
  OBVIOUS
<1>1. TypeOK
  BY InitType
<1>2. StartupAlone
  BY DEF Init, StartupAlone
<1>3. \A c \in Cycle : Kept(c)
  BY DEF Init, Kept
<1>4. EvidenceHonest
  BY DEF Init, EvidenceHonest, NoSnapshot, Nothing
<1>5. CapabilityHonest
  BY DEF Init, CapabilityHonest, Settled
<1> QED BY <1>1, <1>2, <1>3, <1>4, <1>5 DEF IInv

LEMMA StepIInv == IInv /\ [Next]_vars => IInv'
  BY StepType, StepStartupAlone, StepKept, StepHonest, StepCapability DEF IInv

(***************************************************************************)
(* The inductive invariant holds whatever the cycles, faults, crashes and  *)
(* the retention do.                                                       *)
(***************************************************************************)
THEOREM Invariance == Spec => []IInv
  BY InitIInv, StepIInv, PTL DEF Spec

(* Every variable keeps its type: stamps stay numbers when renumbered. *)
THEOREM TypeCorrect == Spec => []TypeOK
<1>1. IInv => TypeOK
  BY DEF IInv
<1> QED BY <1>1, Invariance, PTL

(***************************************************************************)
(* The complete flag of collect means what reconcileFindings takes it to   *)
(* mean, for any number of sections, whatever ran or failed meanwhile, the *)
(* records of freshness included.                                          *)
(***************************************************************************)
THEOREM CompleteIsSaved == Spec => []CompleteMeansSaved
<1>1. IInv => CompleteMeansSaved
  BY DEF IInv, Kept, CompleteMeansSaved
<1> QED BY <1>1, Invariance, PTL

(***************************************************************************)
(* For any number of sections, whatever ran meanwhile: a cycle resolves    *)
(* findings of a section of its own on whole evidence only.  Of the other  *)
(* cycles' sections this is false (FailureNeverResolves).                  *)
(***************************************************************************)
THEOREM OwnFailuresResolveNothing == Spec => OwnFailureNeverResolves
<1>1. ASSUME IInv, [Next]_vars, NEW c \in Cycle, pc[c] = "analyze", pc'[c] = "report",
             NEW k \in open \ open', Owns(c, k)
      PROVE  view[c][k].whole
  <2>1. complete[c]
    <3>1. PICK d \in Cycle : Reconcile(d) \/ ReconcileFails(d)
      BY <1>1, OnlyReconcileResolves
    <3>2. pc' = [pc EXCEPT ![d] = "report"]
      BY <3>1 DEF Reconcile, ReconcileFails
    <3>3. d = c
      BY <1>1, <3>2 DEF IInv, TypeOK
    <3>4. Reconcile(c) /\ complete[c]
      BY <1>1, <3>1, <3>3 DEF Reconcile, ReconcileFails, findingVars
    <3> QED BY <3>4
  <2>2. k \in Section
    BY <1>1 DEF IInv, TypeOK
  <2> QED BY <1>1, <2>1, <2>2 DEF IInv, Kept
<1>2. IInv /\ [Next]_vars =>
        [\A c \in Cycle : pc[c] = "analyze" /\ pc'[c] = "report" =>
            \A k \in open \ open' : Owns(c, k) => view[c][k].whole]_vars
  BY <1>1
<1> QED BY <1>2, Invariance, PTL DEF Spec, OwnFailureNeverResolves

(***************************************************************************)
(* No path of restoreSnapshot, LatestSnapshot or a partial collection ends *)
(* in a finding of a problem the server never had; and the finding of a    *)
(* missing pg_stat_statements needs an extension that was missing, a query *)
(* collection that failed, or a capability that could not be restored.     *)
(***************************************************************************)
THEOREM ProblemsAreReal == Spec => []NoInventedProblems
<1>1. IInv => NoInventedProblems
  BY DEF IInv, EvidenceHonest, CapabilityHonest, NoInventedProblems
<1> QED BY <1>1, Invariance, PTL
=============================================================================
