--------------------------- MODULE TaskQueueProofs ---------------------------
(***************************************************************************)
(* For every set of calls, every mix of kinds and projects and every       *)
(* capacity: the queue's permits are conserved, its gauges are exact and   *)
(* within capacity, and it implements the quota gate.                      *)
(***************************************************************************)
EXTENDS TaskQueue, FiniteSetTheorems, TLAPS

\* One element more or less, or the same elements: how every set of calls
\* below changes in a step.
LEMMA CountJoin ==
    ASSUME NEW S, NEW T, NEW c, IsFiniteSet(S), c \notin S, T = S \cup {c}
    PROVE  /\ Cardinality(T) = Cardinality(S) + 1
           /\ Cardinality(S) \in Nat
  BY FS_AddElement, FS_CardinalityType

(* One call less in a set is one less in its count.                        *)
LEMMA CountLeave ==
    ASSUME NEW S, NEW T, NEW c, IsFiniteSet(S), c \in S, T = S \ {c}
    PROVE  /\ Cardinality(T) = Cardinality(S) - 1
           /\ Cardinality(S) \in Nat
  BY FS_RemoveElement, FS_CardinalityType

(* The calls that hold or wait are finitely many.                          *)
LEMMA UsersFinite ==
    /\ \A k : IsFiniteSet(GlobalUsers(k)) /\ IsFiniteSet(ActiveCalls(k))
    /\ \A k, p : IsFiniteSet(ProjectUsers(k, p))
    /\ \A places : IsFiniteSet(CallsIn(places))
  BY QueueAssumption, FS_Subset
     DEF GlobalUsers, ActiveCalls, ProjectUsers, CallsIn

-----------------------------------------------------------------------------
(* Types, deadlines and orphans.                                           *)

(* The invariant holds when nobody has called.                             *)
LEMMA InitInv == Init => QueueInv
<1> SUFFICES ASSUME Init PROVE QueueInv
  OBVIOUS
<1> USE QueueAssumption DEF Init
<1>1. TypeOK
  BY DEF TypeOK, PC, Outcomes, TotalNames
<1>2. DeadlineAhead /\ OrphansOfTheDead
  BY DEF DeadlineAhead, OrphansOfTheDead
<1>3. \A k \in Kinds : GlobalUsers(k) = {} /\ ActiveCalls(k) = {}
  BY DEF GlobalUsers, ActiveCalls, CallsIn, HoldsGlobal, Counted
<1>4. \A k \in Kinds, p \in Projects : ProjectUsers(k, p) = {}
  BY DEF ProjectUsers, HoldsProject
<1>5. CallsIn(Waiting) = {}
  BY DEF CallsIn, Waiting
<1>6. Cardinality({}) = 0
  BY FS_EmptySet
<1>7. GlobalConserved
  <2> SUFFICES ASSUME NEW k \in Kinds
               PROVE  globalFree[k] >= 0
                      /\ globalFree[k] + Cardinality(GlobalUsers(k)) = GlobalCap[k]
    BY DEF GlobalConserved
  <2>1. Cardinality(GlobalUsers(k)) = 0
    BY <1>3, <1>6
  <2> QED
    BY <2>1
<1>7a. ProjectConserved
  <2> SUFFICES ASSUME NEW k \in Kinds, NEW p \in Projects
               PROVE  projectFree[k][p] >= 0
                      /\ projectFree[k][p] + Cardinality(ProjectUsers(k, p)) = ProjectCap[k]
    BY DEF ProjectConserved
  <2>1. Cardinality(ProjectUsers(k, p)) = 0
    BY <1>4, <1>6
  <2> QED
    BY <2>1
<1>8. GaugesExact
  BY <1>3, <1>5, <1>6 DEF GaugesExact, QueuedExact, ActiveExact
<1> QED
  BY <1>1, <1>2, <1>7, <1>7a, <1>8 DEF QueueInv, PermitsConserved

(* A project's semaphore, when it exists, counts in its type.              *)
LEMMA ProjectPermitTyped ==
    ASSUME TypeOK, NEW c \in Calls, GiveProjectPermit(c) \/ TakeProjectPermit(c)
    PROVE  projectFree' \in [Kinds -> [Projects -> Int]]
<1> DEFINE k == KindOf[c]
           p == ProjectOf[c]
<1>1. k \in Kinds /\ p \in Projects /\ projectFree \in [Kinds -> [Projects -> Int]]
  BY QueueAssumption DEF TypeOK
<1>2. PICK n \in Int : projectFree' = [projectFree EXCEPT ![k][p] = n]
  <2>1. projectFree[k][p] + 1 \in Int /\ projectFree[k][p] - 1 \in Int
    BY <1>1
  <2> QED
    BY <2>1 DEF GiveProjectPermit, TakeProjectPermit
<1> HIDE DEF k, p
<1> QED
  BY <1>1, <1>2

(* The totals are counters.                                                *)
LEMMA TotalsTyped ==
    ASSUME TypeOK, NEW total \in TotalNames, totals' = [totals EXCEPT ![total] = @ + 1]
    PROVE  totals' \in [TotalNames -> Nat]
  BY DEF TypeOK, TotalNames

\* The part of the invariant that speaks of one call at a time.
StepTypes == TypeOK /\ DeadlineAhead /\ OrphansOfTheDead

(* A call that ends keeps the types.                                       *)
LEMMA EndCallTypes ==
    ASSUME StepTypes, NEW c \in Calls, NEW why \in Outcomes, NEW total \in TotalNames,
           EndCall(c, why, total)
    PROVE  StepTypes'
<1>1. totals' \in [TotalNames -> Nat]
  BY TotalsTyped DEF StepTypes, EndCall
<1>2. outcome' \in [Calls -> Outcomes] /\ pc' \in [Calls -> PC]
  BY DEF StepTypes, TypeOK, EndCall, Goto, PC
<1>3. TypeOK'
  BY <1>1, <1>2 DEF StepTypes, TypeOK, EndCall, Goto, semaphores, threads
<1>4. DeadlineAhead' /\ OrphansOfTheDead'
  BY <1>2 DEF StepTypes, TypeOK, EndCall, Goto, threads, DeadlineAhead, OrphansOfTheDead
<1> QED
  BY <1>3, <1>4 DEF StepTypes

(* Every step keeps the types.                                             *)
LEMMA TypesPreserved == StepTypes /\ [Next]_vars => StepTypes'
<1> SUFFICES ASSUME StepTypes, [Next]_vars PROVE StepTypes'
  OBVIOUS
<1> USE QueueAssumption DEF StepTypes, TypeOK, DeadlineAhead, OrphansOfTheDead, PC, Outcomes,
        Goto, semaphores, threads, TakeProjectPermit, GiveProjectPermit, TakeGlobalPermit
<1>1. CASE UNCHANGED vars
  BY <1>1 DEF vars
<1>2. ASSUME NEW c \in Calls, Step(c) PROVE StepTypes'
  <2>1. CASE PollProject(c) \/ PollGlobal(c)
    BY <2>1 DEF PollProject, PollGlobal
  <2>2. CASE GetProject(c)
    <3>1. TypeOK'
      BY <2>2 DEF GetProject
    <3>2. DeadlineAhead' /\ OrphansOfTheDead'
      BY <2>2 DEF GetProject
    <3> QED
      BY <3>1, <3>2
  <2>3. CASE GetGlobal(c)
    BY <2>3 DEF GetGlobal
  <2>4. CASE MissProject(c) \/ MissGlobal(c)
    <3>1. polls[c] \in 1..PollLimit /\ polls' = [polls EXCEPT ![c] = polls[c] - 1]
      BY <2>4 DEF MissProject, MissGlobal
    <3>2. polls' \in [Calls -> 0..PollLimit]
      BY <3>1
    <3>3. pc' \in [Calls -> PC] /\ pc'[c] \notin {"inProject", "inGlobal"}
      BY <2>4 DEF MissProject, MissGlobal
    <3>4. \A d \in Calls : d # c => pc'[d] = pc[d] /\ polls'[d] = polls[d]
      BY <2>4 DEF MissProject, MissGlobal
    <3>5. DeadlineAhead'
      BY <3>2, <3>3, <3>4
    <3>6. OrphansOfTheDead'
      BY <2>4 DEF MissProject, MissGlobal
    <3>7. TypeOK'
      BY <2>4, <3>2, <3>3 DEF MissProject, MissGlobal
    <3> QED
      BY <3>5, <3>6, <3>7
  <2>5. CASE CancelWait(c) \/ TimeOut(c)
    <3>0. projectFree' \in [Kinds -> [Projects -> Int]]
      BY <2>5, ProjectPermitTyped DEF CancelWait, TimeOut, GiveUp
    <3>1. TypeOK'
      BY <2>5, <3>0 DEF CancelWait, TimeOut, GiveUp
    <3>2. DeadlineAhead' /\ OrphansOfTheDead'
      BY <2>5 DEF CancelWait, TimeOut, GiveUp
    <3> QED
      BY <3>1, <3>2
  <2>6. CASE CountOut(c)
    <3>0. totals' \in [TotalNames -> Nat]
      BY <2>6, TotalsTyped DEF CountOut, TotalNames
    <3>1. TypeOK'
      BY <2>6, <3>0 DEF CountOut
    <3>2. DeadlineAhead' /\ OrphansOfTheDead'
      BY <2>6 DEF CountOut
    <3> QED
      BY <3>1, <3>2
  <2>7. CASE Activate(c)
    BY <2>7 DEF Activate
  <2>8. CASE StartCall(c)
    BY <2>8 DEF StartCall
  <2>9. CASE CancelBeforeCall(c)
    <3>1. totals' \in [TotalNames -> Nat]
      BY <2>9 DEF CancelBeforeCall, TotalNames
    <3> QED
      BY <2>9, <3>1 DEF CancelBeforeCall, TotalNames
  <2>10. CASE CallReturns(c)
    BY <2>10, EndCallTypes DEF CallReturns, TotalNames
  <2>11. CASE CallFails(c)
    BY <2>11, EndCallTypes DEF CallFails, TotalNames
  <2>12. CASE ClearGauge(c)
    BY <2>12 DEF ClearGauge
  <2>13. CASE ReleaseProject(c)
    <3>1. TypeOK'
      BY <2>13 DEF ReleaseProject
    <3>2. DeadlineAhead' /\ OrphansOfTheDead'
      BY <2>13 DEF ReleaseProject
    <3> QED
      BY <3>1, <3>2
  <2>14. CASE ReleaseGlobal(c)
    BY <2>14 DEF ReleaseGlobal
  <2> QED
    BY <1>2, <2>1, <2>2, <2>3, <2>4, <2>5, <2>6, <2>7, <2>8, <2>9, <2>10,
       <2>11, <2>12, <2>13, <2>14 DEF Step
<1>3. ASSUME NEW c \in Calls, Environment(c) PROVE StepTypes'
  <2>1. CASE Enqueue(c)
    BY <2>1 DEF Enqueue
  <2>2. CASE SetEvent(c)
    BY <2>2 DEF SetEvent
  <2>3. CASE KillWait(c)
    <3>0. projectFree' \in [Kinds -> [Projects -> Int]]
      BY <2>3, ProjectPermitTyped DEF KillWait
    <3>1. TypeOK'
      BY <2>3, <3>0 DEF KillWait
    <3>2. DeadlineAhead' /\ OrphansOfTheDead'
      BY <2>3 DEF KillWait
    <3> QED
      BY <3>1, <3>2
  <2>4. CASE KillCall(c)
    BY <2>4, EndCallTypes DEF KillCall, TotalNames
  <2>5. CASE OrphanTakes(c)
    <3>0. projectFree' \in [Kinds -> [Projects -> Int]]
      BY <2>5, ProjectPermitTyped DEF OrphanTakes
    <3>1. TypeOK'
      BY <2>5, <3>0 DEF OrphanTakes
    <3>2. DeadlineAhead' /\ OrphansOfTheDead'
      BY <2>5 DEF OrphanTakes
    <3> QED
      BY <3>1, <3>2
  <2>6. CASE OrphanExpires(c)
    BY <2>6 DEF OrphanExpires
  <2> QED
    BY <1>3, <2>1, <2>2, <2>3, <2>4, <2>5, <2>6 DEF Environment
<1> QED
  BY <1>1, <1>2, <1>3 DEF Next
-----------------------------------------------------------------------------
(* The global permits: only three actions move one.                        *)

\* A call joins, or leaves, the users of the global semaphore of its kind.
LEMMA GlobalJoin ==
    ASSUME TypeOK, GlobalConserved, NEW c \in Calls, TakeGlobalPermit(c),
           c \notin GlobalUsers(KindOf[c]),
           \A k \in Kinds : GlobalUsers(k)' = IF k = KindOf[c] THEN GlobalUsers(k) \cup {c}
                                              ELSE GlobalUsers(k)
    PROVE  GlobalConserved'
<1> SUFFICES ASSUME NEW k \in Kinds
             PROVE  globalFree'[k] >= 0
                    /\ globalFree'[k] + Cardinality(GlobalUsers(k)') = GlobalCap[k]
  BY DEF GlobalConserved
<1>0. /\ globalFree \in [Kinds -> Int] /\ GlobalCap[k] \in Nat
      /\ globalFree[k] >= 0 /\ globalFree[k] + Cardinality(GlobalUsers(k)) = GlobalCap[k]
  BY QueueAssumption DEF TypeOK, GlobalConserved
<1>1. CASE k = KindOf[c]
  <2>1. globalFree[k] > 0 /\ globalFree'[k] = globalFree[k] - 1
    BY <1>0, <1>1 DEF TakeGlobalPermit
  <2>2. /\ Cardinality(GlobalUsers(k)') = Cardinality(GlobalUsers(k)) + 1
        /\ Cardinality(GlobalUsers(k)) \in Nat
    <3>1. GlobalUsers(k)' = GlobalUsers(k) \cup {c} /\ IsFiniteSet(GlobalUsers(k))
      BY <1>1, UsersFinite
    <3> QED
      BY <1>1, <3>1, CountJoin
  <2> QED
    BY <1>0, <2>1, <2>2
<1>2. CASE k # KindOf[c]
  BY <1>0, <1>2 DEF TakeGlobalPermit
<1> QED
  BY <1>1, <1>2

(* Every step keeps the account of the permits of a kind.                  *)
LEMMA GlobalPreserved == StepTypes /\ GlobalConserved /\ [Next]_vars => GlobalConserved'
<1> SUFFICES ASSUME StepTypes, GlobalConserved, [Next]_vars PROVE GlobalConserved'
  OBVIOUS
<1> DEFINE Same == /\ globalFree' = globalFree /\ lost' = lost
                   /\ \A d \in Calls : pc'[d] \in HoldsGlobal <=> pc[d] \in HoldsGlobal
<1>1. ASSUME Same PROVE GlobalConserved'
  <2>1. \A k \in Kinds : GlobalUsers(k)' = GlobalUsers(k)
    BY <1>1 DEF GlobalUsers
  <2> QED
    BY <1>1, <2>1 DEF GlobalConserved
<1>2. ASSUME NEW c \in Calls, GetGlobal(c) PROVE GlobalConserved'
  <2>1. /\ c \notin GlobalUsers(KindOf[c])
        /\ \A k \in Kinds : GlobalUsers(k)' = IF k = KindOf[c] THEN GlobalUsers(k) \cup {c}
                                              ELSE GlobalUsers(k)
    BY <1>2 DEF StepTypes, TypeOK, OrphansOfTheDead, GetGlobal, Goto, threads,
                GlobalUsers, HoldsGlobal
  <2>2. TakeGlobalPermit(c)
    BY <1>2 DEF GetGlobal
  <2> QED
    BY <2>1, <2>2, GlobalJoin DEF StepTypes
<1>3. ASSUME NEW c \in Calls, OrphanTakes(c) PROVE GlobalConserved'
  <2>1. CASE orphan[c] = "project"
    <3>1. /\ lost[c] = "none" /\ lost' = [lost EXCEPT ![c] = "project"]
          /\ pc' = pc /\ globalFree' = globalFree
      BY <1>3, <2>1 DEF OrphanTakes, StepTypes, OrphansOfTheDead
    <3>2. \A d \in Calls : lost'[d] = "global" <=> lost[d] = "global"
      BY <3>1 DEF StepTypes, TypeOK
    <3>3. \A k \in Kinds : GlobalUsers(k)' = GlobalUsers(k)
      BY <3>1, <3>2 DEF GlobalUsers
    <3> QED
      BY <3>1, <3>3 DEF GlobalConserved
  <2>2. CASE orphan[c] = "global"
    <3>1. /\ c \notin GlobalUsers(KindOf[c])
          /\ \A k \in Kinds : GlobalUsers(k)' = IF k = KindOf[c] THEN GlobalUsers(k) \cup {c}
                                                ELSE GlobalUsers(k)
      BY <1>3, <2>2 DEF StepTypes, TypeOK, OrphansOfTheDead, OrphanTakes,
                        GlobalUsers, HoldsGlobal
    <3>2. TakeGlobalPermit(c)
      BY <1>3, <2>2 DEF OrphanTakes
    <3> QED
      BY <3>1, <3>2, GlobalJoin DEF StepTypes
  <2> QED
    BY <1>3, <2>1, <2>2 DEF OrphanTakes
<1>4. ASSUME NEW c \in Calls, ReleaseGlobal(c) PROVE GlobalConserved'
  <2>1. /\ c \in GlobalUsers(KindOf[c])
        /\ \A k \in Kinds : GlobalUsers(k)' = IF k = KindOf[c] THEN GlobalUsers(k) \ {c}
                                              ELSE GlobalUsers(k)
    BY <1>4 DEF StepTypes, TypeOK, OrphansOfTheDead, ReleaseGlobal, Goto, threads,
                GlobalUsers, HoldsGlobal
  <2> SUFFICES ASSUME NEW k \in Kinds
               PROVE  globalFree'[k] >= 0
                      /\ globalFree'[k] + Cardinality(GlobalUsers(k)') = GlobalCap[k]
    BY DEF GlobalConserved
  <2>2. /\ globalFree \in [Kinds -> Int] /\ GlobalCap[k] \in Nat
        /\ globalFree[k] >= 0 /\ globalFree[k] + Cardinality(GlobalUsers(k)) = GlobalCap[k]
    BY QueueAssumption DEF StepTypes, TypeOK, GlobalConserved
  <2>3. CASE k = KindOf[c]
    <3>1. globalFree'[k] = globalFree[k] + 1
      BY <1>4, <2>2, <2>3 DEF ReleaseGlobal
    <3>2. GlobalUsers(k)' = GlobalUsers(k) \ {c} /\ IsFiniteSet(GlobalUsers(k))
      BY <2>1, <2>3, UsersFinite
    <3>3. /\ Cardinality(GlobalUsers(k)') = Cardinality(GlobalUsers(k)) - 1
          /\ Cardinality(GlobalUsers(k)) \in Nat
      BY <2>1, <2>3, <3>2, CountLeave
    <3> QED
      BY <2>2, <3>1, <3>3
  <2>4. CASE k # KindOf[c]
    BY <1>4, <2>1, <2>2, <2>4 DEF ReleaseGlobal
  <2> QED
    BY <2>3, <2>4
<1>5. ASSUME NEW c \in Calls,
             \/ Enqueue(c) \/ PollProject(c) \/ GetProject(c) \/ MissProject(c)
             \/ PollGlobal(c) \/ MissGlobal(c) \/ Activate(c) \/ StartCall(c)
             \/ CancelBeforeCall(c) \/ ClearGauge(c) \/ ReleaseProject(c)
      PROVE  Same
  BY <1>5 DEF StepTypes, TypeOK, Goto, semaphores, threads, HoldsGlobal, Enqueue,
       PollProject, GetProject, MissProject, PollGlobal, MissGlobal, Activate,
       StartCall, CancelBeforeCall, ClearGauge, ReleaseProject
<1>6. ASSUME NEW c \in Calls,
             \/ CancelWait(c) \/ TimeOut(c) \/ CountOut(c) \/ CallReturns(c) \/ CallFails(c)
             \/ KillWait(c) \/ KillCall(c) \/ SetEvent(c) \/ OrphanExpires(c)
      PROVE  Same
  BY <1>6 DEF StepTypes, TypeOK, Goto, semaphores, threads, HoldsGlobal, CancelWait,
       TimeOut, GiveUp, CountOut, CallReturns, CallFails, EndCall, KillWait, KillCall,
       SetEvent, OrphanExpires
<1>7. CASE UNCHANGED vars
  BY <1>1, <1>7 DEF vars
<1> QED
  BY <1>1, <1>2, <1>3, <1>4, <1>5, <1>6, <1>7 DEF Next, Step, Environment
-----------------------------------------------------------------------------
(* The project permits: taken and given back under a kind and a project.   *)

\* The users of every project semaphore but the call's own stay as they are.
MovesOnly(c, own) ==
    \A k \in Kinds, p \in Projects :
        ProjectUsers(k, p)' = IF k = KindOf[c] /\ p = ProjectOf[c] THEN own
                              ELSE ProjectUsers(k, p)

(* A call that takes a project permit joins its users.                     *)
LEMMA ProjectJoin ==
    ASSUME TypeOK, ProjectConserved, NEW c \in Calls, TakeProjectPermit(c),
           c \notin ProjectUsers(KindOf[c], ProjectOf[c]),
           MovesOnly(c, ProjectUsers(KindOf[c], ProjectOf[c]) \cup {c})
    PROVE  ProjectConserved'
<1> SUFFICES ASSUME NEW k \in Kinds, NEW p \in Projects
             PROVE  /\ projectFree'[k][p] >= 0
                    /\ projectFree'[k][p] + Cardinality(ProjectUsers(k, p)') = ProjectCap[k]
  BY DEF ProjectConserved
<1>0. /\ projectFree \in [Kinds -> [Projects -> Int]] /\ ProjectCap[k] \in Nat
      /\ projectFree[k][p] >= 0
      /\ projectFree[k][p] + Cardinality(ProjectUsers(k, p)) = ProjectCap[k]
  BY QueueAssumption DEF TypeOK, ProjectConserved
<1>1. CASE k = KindOf[c] /\ p = ProjectOf[c]
  <2>1. projectFree[k][p] > 0 /\ projectFree'[k][p] = projectFree[k][p] - 1
    BY <1>0, <1>1 DEF TakeProjectPermit
  <2>2. ProjectUsers(k, p)' = ProjectUsers(k, p) \cup {c} /\ IsFiniteSet(ProjectUsers(k, p))
    BY <1>1, UsersFinite DEF MovesOnly
  <2>3. /\ Cardinality(ProjectUsers(k, p)') = Cardinality(ProjectUsers(k, p)) + 1
        /\ Cardinality(ProjectUsers(k, p)) \in Nat
    BY <1>1, <2>2, CountJoin
  <2> QED
    BY <1>0, <2>1, <2>3
<1>2. CASE ~(k = KindOf[c] /\ p = ProjectOf[c])
  <2>1. ProjectUsers(k, p)' = ProjectUsers(k, p)
    BY <1>2 DEF MovesOnly
  <2>2. projectFree'[k][p] = projectFree[k][p]
    BY <1>0, <1>2 DEF TakeProjectPermit
  <2> QED
    BY <1>0, <2>1, <2>2
<1> QED
  BY <1>1, <1>2

(* A call that gives its project permit back leaves its users.             *)
LEMMA ProjectLeave ==
    ASSUME TypeOK, ProjectConserved, NEW c \in Calls, GiveProjectPermit(c),
           c \in ProjectUsers(KindOf[c], ProjectOf[c]),
           MovesOnly(c, ProjectUsers(KindOf[c], ProjectOf[c]) \ {c})
    PROVE  ProjectConserved'
<1> SUFFICES ASSUME NEW k \in Kinds, NEW p \in Projects
             PROVE  /\ projectFree'[k][p] >= 0
                    /\ projectFree'[k][p] + Cardinality(ProjectUsers(k, p)') = ProjectCap[k]
  BY DEF ProjectConserved
<1>0. /\ projectFree \in [Kinds -> [Projects -> Int]] /\ ProjectCap[k] \in Nat
      /\ projectFree[k][p] >= 0
      /\ projectFree[k][p] + Cardinality(ProjectUsers(k, p)) = ProjectCap[k]
  BY QueueAssumption DEF TypeOK, ProjectConserved
<1>1. CASE k = KindOf[c] /\ p = ProjectOf[c]
  <2>1. projectFree'[k][p] = projectFree[k][p] + 1
    BY <1>0, <1>1 DEF GiveProjectPermit
  <2>2. ProjectUsers(k, p)' = ProjectUsers(k, p) \ {c} /\ IsFiniteSet(ProjectUsers(k, p))
    BY <1>1, UsersFinite DEF MovesOnly
  <2>3. /\ Cardinality(ProjectUsers(k, p)') = Cardinality(ProjectUsers(k, p)) - 1
        /\ Cardinality(ProjectUsers(k, p)) \in Nat
    BY <1>1, <2>2, CountLeave
  <2> QED
    BY <1>0, <2>1, <2>3
<1>2. CASE ~(k = KindOf[c] /\ p = ProjectOf[c])
  <2>1. ProjectUsers(k, p)' = ProjectUsers(k, p)
    BY <1>2 DEF MovesOnly
  <2>2. projectFree'[k][p] = projectFree[k][p]
    BY <1>0, <1>2 DEF GiveProjectPermit
  <2> QED
    BY <1>0, <2>1, <2>2
<1> QED
  BY <1>1, <1>2

(* Every step keeps the account of the permits of a project.               *)
LEMMA ProjectPreserved == StepTypes /\ ProjectConserved /\ [Next]_vars => ProjectConserved'
<1> SUFFICES ASSUME StepTypes, ProjectConserved, [Next]_vars PROVE ProjectConserved'
  OBVIOUS
<1> DEFINE Same == /\ projectFree' = projectFree
                   /\ \A d \in Calls : /\ lost'[d] = "project" <=> lost[d] = "project"
                                       /\ pc'[d] \in HoldsProject <=> pc[d] \in HoldsProject
<1>1. ASSUME Same PROVE ProjectConserved'
  <2>1. \A k \in Kinds, p \in Projects : ProjectUsers(k, p)' = ProjectUsers(k, p)
    BY <1>1 DEF ProjectUsers
  <2> QED
    BY <1>1, <2>1 DEF ProjectConserved
<1>2. ASSUME NEW c \in Calls, lost[c] # "project", pc[c] \notin HoldsProject,
             TakeProjectPermit(c),
             lost'[c] = "project" \/ pc'[c] \in HoldsProject,
             \A d \in Calls \ {c} : lost'[d] = lost[d] /\ pc'[d] = pc[d]
      PROVE  ProjectConserved'
  <2>1. /\ c \notin ProjectUsers(KindOf[c], ProjectOf[c])
        /\ MovesOnly(c, ProjectUsers(KindOf[c], ProjectOf[c]) \cup {c})
    BY <1>2 DEF ProjectUsers, MovesOnly
  <2> QED
    BY <1>2, <2>1, ProjectJoin DEF StepTypes
<1>3. ASSUME NEW c \in Calls, pc[c] \in HoldsProject, GiveProjectPermit(c),
             lost'[c] # "project", pc'[c] \notin HoldsProject,
             \A d \in Calls \ {c} : lost'[d] = lost[d] /\ pc'[d] = pc[d]
      PROVE  ProjectConserved'
  <2>1. /\ c \in ProjectUsers(KindOf[c], ProjectOf[c])
        /\ MovesOnly(c, ProjectUsers(KindOf[c], ProjectOf[c]) \ {c})
    BY <1>3 DEF ProjectUsers, MovesOnly
  <2> QED
    BY <1>3, <2>1, ProjectLeave DEF StepTypes
<1>4. ASSUME NEW c \in Calls, GetProject(c) PROVE ProjectConserved'
  <2>1. /\ pc[c] = "inProject" /\ pc' = [pc EXCEPT ![c] = "atGlobal"] /\ lost' = lost
        /\ lost[c] = "none" /\ TakeProjectPermit(c)
    BY <1>4 DEF GetProject, Goto, threads, StepTypes, TypeOK, OrphansOfTheDead
  <2> QED
    BY <2>1, <1>2 DEF StepTypes, TypeOK, HoldsProject
<1>5. ASSUME NEW c \in Calls, OrphanTakes(c) PROVE ProjectConserved'
  <2>1. /\ lost[c] = "none" /\ pc[c] \in {"leaving", "done"} /\ pc' = pc
        /\ lost' = [lost EXCEPT ![c] = orphan[c]]
    BY <1>5 DEF OrphanTakes, StepTypes, OrphansOfTheDead
  <2>2. CASE orphan[c] = "project"
    <3>1. TakeProjectPermit(c)
      BY <1>5, <2>2 DEF OrphanTakes
    <3> QED
      BY <2>1, <2>2, <3>1, <1>2 DEF StepTypes, TypeOK, HoldsProject
  <2>3. CASE orphan[c] = "global"
    <3>1. projectFree' = projectFree
      BY <1>5, <2>3 DEF OrphanTakes
    <3> QED
      BY <2>1, <2>3, <3>1, <1>1 DEF StepTypes, TypeOK
  <2> QED
    BY <1>5, <2>2, <2>3 DEF OrphanTakes
<1>6. ASSUME NEW c \in Calls, pc[c] \in HoldsProject, GiveProjectPermit(c), lost' = lost,
             NEW to \in {"leaving", "freeGlobal"}, pc' = [pc EXCEPT ![c] = to]
      PROVE  ProjectConserved'
  <2>1. lost[c] = "none" /\ pc'[c] \notin HoldsProject
    BY <1>6 DEF StepTypes, TypeOK, OrphansOfTheDead, HoldsProject
  <2>2. \A d \in Calls \ {c} : lost'[d] = lost[d] /\ pc'[d] = pc[d]
    BY <1>6 DEF StepTypes, TypeOK
  <2> QED
    BY <1>3, <1>6, <2>1, <2>2
<1>7. ASSUME NEW c \in Calls, ReleaseProject(c) PROVE ProjectConserved'
  BY <1>6, <1>7 DEF ReleaseProject, Goto, threads, HoldsProject
<1>8. ASSUME NEW c \in Calls, NEW why, GiveUp(c, why) PROVE ProjectConserved'
  <2>1. CASE pc[c] = "atGlobal"
    BY <1>6, <1>8, <2>1 DEF GiveUp, threads, HoldsProject
  <2>2. CASE pc[c] = "atProject"
    BY <1>1, <1>8, <2>2 DEF GiveUp, threads, HoldsProject, StepTypes, TypeOK
  <2> QED
    BY <1>8, <2>1, <2>2 DEF GiveUp
<1>9. ASSUME NEW c \in Calls, KillWait(c) PROVE ProjectConserved'
  <2>1. CASE pc[c] = "inGlobal"
    BY <1>6, <1>9, <2>1 DEF KillWait, HoldsProject
  <2>2. CASE pc[c] = "inProject"
    BY <1>1, <1>9, <2>2 DEF KillWait, HoldsProject, StepTypes, TypeOK
  <2> QED
    BY <1>9, <2>1, <2>2 DEF KillWait
<1>10. ASSUME NEW c \in Calls,
              \/ Enqueue(c) \/ PollProject(c) \/ MissProject(c) \/ PollGlobal(c)
              \/ GetGlobal(c) \/ MissGlobal(c) \/ Activate(c) \/ StartCall(c)
              \/ CancelBeforeCall(c) \/ ClearGauge(c) \/ ReleaseGlobal(c)
       PROVE  Same
  BY <1>10 DEF StepTypes, TypeOK, Goto, semaphores, threads, HoldsProject, Enqueue,
       PollProject, MissProject, PollGlobal, GetGlobal, MissGlobal, Activate,
       StartCall, CancelBeforeCall, ClearGauge, ReleaseGlobal
<1>11. ASSUME NEW c \in Calls,
              \/ CountOut(c) \/ CallReturns(c) \/ CallFails(c) \/ KillCall(c) \/ SetEvent(c)
              \/ OrphanExpires(c)
       PROVE  Same
  BY <1>11 DEF StepTypes, TypeOK, Goto, semaphores, threads, HoldsProject, CountOut, CallReturns,
       CallFails, EndCall, KillCall, SetEvent, OrphanExpires
<1>12. CASE UNCHANGED vars
  BY <1>1, <1>12 DEF vars
<1>13. ASSUME NEW c \in Calls, CancelWait(c) \/ TimeOut(c) PROVE ProjectConserved'
  BY <1>8, <1>13 DEF CancelWait, TimeOut
<1> QED
  BY <1>1, <1>4, <1>5, <1>7, <1>9, <1>10, <1>11, <1>12, <1>13 DEF Next, Step, Environment
-----------------------------------------------------------------------------
(* The gauges.                                                             *)

(* Every step keeps the gauge of the waiting calls exact.                  *)
LEMMA QueuedPreserved == StepTypes /\ QueuedExact /\ [Next]_vars => QueuedExact'
<1> SUFFICES ASSUME StepTypes, QueuedExact, [Next]_vars PROVE QueuedExact'
  OBVIOUS
<1> DEFINE Q == CallsIn(Waiting)
<1>0. /\ queued = Cardinality(Q) /\ IsFiniteSet(Q) /\ pc \in [Calls -> PC]
  BY UsersFinite DEF QueuedExact, StepTypes, TypeOK
<1>1. ASSUME NEW c \in Calls, NEW to, pc[c] = "new", to \in Waiting,
             pc' = [pc EXCEPT ![c] = to], queued' = queued + 1
      PROVE  QueuedExact'
  <2>1. c \notin Q /\ Q' = Q \cup {c}
    BY <1>0, <1>1 DEF CallsIn, Waiting
  <2>2. Cardinality(Q') = Cardinality(Q) + 1
    BY <1>0, <2>1, CountJoin
  <2> QED
    BY <1>0, <1>1, <2>2 DEF QueuedExact
<1>2. ASSUME NEW c \in Calls, NEW to, pc[c] \in Waiting, to \notin Waiting,
             pc' = [pc EXCEPT ![c] = to], queued' = queued - 1
      PROVE  QueuedExact'
  <2>1. c \in Q /\ Q' = Q \ {c}
    BY <1>0, <1>2 DEF CallsIn
  <2>2. Cardinality(Q') = Cardinality(Q) - 1
    BY <1>0, <2>1, CountLeave
  <2> QED
    BY <1>0, <1>2, <2>2 DEF QueuedExact
<1>3. ASSUME queued' = queued, \A d \in Calls : pc'[d] \in Waiting <=> pc[d] \in Waiting
      PROVE  QueuedExact'
  <2>1. Q' = Q
    BY <1>3 DEF CallsIn
  <2> QED
    BY <1>0, <1>3, <2>1 DEF QueuedExact
<1>4. ASSUME NEW c \in Calls, Enqueue(c) PROVE QueuedExact'
  BY <1>1, <1>4 DEF Enqueue, Goto, Waiting
<1>5. ASSUME NEW c \in Calls, CountOut(c) \/ Activate(c) PROVE QueuedExact'
  <2>1. CASE CountOut(c)
    <3>1. /\ pc[c] \in Waiting /\ "done" \notin Waiting
          /\ pc' = [pc EXCEPT ![c] = "done"] /\ queued' = queued - 1
      BY <2>1 DEF CountOut, Goto, Waiting
    <3> QED
      BY <1>2, <3>1
  <2>2. CASE Activate(c)
    <3>1. /\ pc[c] \in Waiting /\ "ready" \notin Waiting
          /\ pc' = [pc EXCEPT ![c] = "ready"] /\ queued' = queued - 1
      BY <2>2 DEF Activate, Goto, Waiting
    <3> QED
      BY <1>2, <3>1
  <2> QED
    BY <1>5, <2>1, <2>2
<1>6. ASSUME NEW c \in Calls,
             \/ PollProject(c) \/ GetProject(c) \/ MissProject(c)
             \/ PollGlobal(c) \/ GetGlobal(c) \/ MissGlobal(c)
             \/ StartCall(c) \/ CancelBeforeCall(c) \/ ClearGauge(c)
             \/ ReleaseProject(c) \/ ReleaseGlobal(c)
      PROVE  QueuedExact'
  BY <1>0, <1>3, <1>6 DEF Goto, Waiting, PollProject, GetProject, MissProject, PollGlobal,
     GetGlobal, MissGlobal, StartCall, CancelBeforeCall, ClearGauge, ReleaseProject,
     ReleaseGlobal
<1>7. ASSUME NEW c \in Calls,
             \/ CancelWait(c) \/ TimeOut(c) \/ KillWait(c)
             \/ CallReturns(c) \/ CallFails(c) \/ KillCall(c) \/ SetEvent(c)
             \/ OrphanTakes(c) \/ OrphanExpires(c)
      PROVE  QueuedExact'
  BY <1>0, <1>3, <1>7 DEF Goto, Waiting, CancelWait, TimeOut, GiveUp, KillWait, threads,
     CallReturns, CallFails, KillCall, EndCall,
     SetEvent, OrphanTakes, OrphanExpires
<1>8. CASE UNCHANGED vars
  BY <1>3, <1>8 DEF vars
<1> QED
  BY <1>4, <1>5, <1>6, <1>7, <1>8 DEF Next, Step, Environment

(* Every step keeps the gauge of the active calls exact.                   *)
LEMMA ActivePreserved == StepTypes /\ ActiveExact /\ [Next]_vars => ActiveExact'
<1> SUFFICES ASSUME StepTypes, ActiveExact, [Next]_vars PROVE ActiveExact'
  OBVIOUS
<1>0. /\ pc \in [Calls -> PC] /\ active \in [Kinds -> Int]
      /\ \A k \in Kinds : active[k] = Cardinality(ActiveCalls(k)) /\ IsFiniteSet(ActiveCalls(k))
      /\ \A c \in Calls : KindOf[c] \in Kinds
  BY QueueAssumption, UsersFinite DEF ActiveExact, StepTypes, TypeOK
<1>1. ASSUME NEW c \in Calls, Activate(c) PROVE ActiveExact'
  <2> SUFFICES ASSUME NEW k \in Kinds PROVE active'[k] = Cardinality(ActiveCalls(k)')
    BY DEF ActiveExact
  <2>1. CASE k = KindOf[c]
    <3>1. c \notin ActiveCalls(k) /\ ActiveCalls(k)' = ActiveCalls(k) \cup {c}
      BY <1>0, <1>1, <2>1 DEF Activate, Goto, ActiveCalls, CallsIn, Counted
    <3>2. Cardinality(ActiveCalls(k)') = Cardinality(ActiveCalls(k)) + 1
      BY <1>0, <3>1, CountJoin
    <3> QED
      BY <1>0, <1>1, <2>1, <3>2 DEF Activate
  <2>2. CASE k # KindOf[c]
    <3>1. ActiveCalls(k)' = ActiveCalls(k)
      BY <1>0, <1>1, <2>2 DEF Activate, Goto, ActiveCalls, CallsIn, Counted
    <3> QED
      BY <1>0, <1>1, <2>2, <3>1 DEF Activate
  <2> QED
    BY <2>1, <2>2
\* The clamp of the finally clause is idle: the call itself is counted.
<1>2. ASSUME NEW c \in Calls, ClearGauge(c) PROVE ActiveExact'
  <2> SUFFICES ASSUME NEW k \in Kinds PROVE active'[k] = Cardinality(ActiveCalls(k)')
    BY DEF ActiveExact
  <2>1. CASE k = KindOf[c]
    <3>1. c \in ActiveCalls(k) /\ ActiveCalls(k)' = ActiveCalls(k) \ {c}
      BY <1>0, <1>2, <2>1 DEF ClearGauge, Goto, ActiveCalls, CallsIn, Counted
    <3>2. /\ Cardinality(ActiveCalls(k)') = Cardinality(ActiveCalls(k)) - 1
          /\ Cardinality(ActiveCalls(k)) \in Nat
      BY <1>0, <3>1, CountLeave
    <3>3. Cardinality(ActiveCalls(k)) > 0
      BY <1>0, <3>1, <3>2, FS_EmptySet
    <3> QED
      BY <1>0, <1>2, <2>1, <3>2, <3>3 DEF ClearGauge
  <2>2. CASE k # KindOf[c]
    <3>1. ActiveCalls(k)' = ActiveCalls(k)
      BY <1>0, <1>2, <2>2 DEF ClearGauge, Goto, ActiveCalls, CallsIn, Counted
    <3> QED
      BY <1>0, <1>2, <2>2, <3>1 DEF ClearGauge
  <2> QED
    BY <2>1, <2>2
<1>3. ASSUME active' = active, \A d \in Calls : pc'[d] \in Counted <=> pc[d] \in Counted
      PROVE  ActiveExact'
  <2>1. \A k \in Kinds : ActiveCalls(k)' = ActiveCalls(k)
    BY <1>3 DEF ActiveCalls, CallsIn
  <2> QED
    BY <1>3, <2>1 DEF ActiveExact
<1>4. ASSUME NEW c \in Calls,
             \/ Enqueue(c) \/ PollProject(c) \/ GetProject(c) \/ MissProject(c)
             \/ PollGlobal(c) \/ GetGlobal(c) \/ MissGlobal(c) \/ StartCall(c)
             \/ CancelBeforeCall(c) \/ ReleaseProject(c) \/ ReleaseGlobal(c)
      PROVE  ActiveExact'
  BY <1>0, <1>3, <1>4 DEF Goto, Counted, Enqueue, PollProject, GetProject, MissProject,
     PollGlobal, GetGlobal, MissGlobal, StartCall, CancelBeforeCall, ReleaseProject,
     ReleaseGlobal
<1>5. ASSUME NEW c \in Calls,
             \/ CancelWait(c) \/ TimeOut(c) \/ CountOut(c) \/ CallReturns(c) \/ CallFails(c)
             \/ KillWait(c) \/ KillCall(c) \/ SetEvent(c) \/ OrphanTakes(c) \/ OrphanExpires(c)
      PROVE  ActiveExact'
  BY <1>0, <1>3, <1>5 DEF Goto, Counted, CancelWait, TimeOut, GiveUp, CountOut, CallReturns,
     CallFails, KillCall, EndCall, KillWait, SetEvent, OrphanTakes, OrphanExpires
<1>6. CASE UNCHANGED vars
  BY <1>3, <1>6 DEF vars
<1> QED
  BY <1>1, <1>2, <1>4, <1>5, <1>6 DEF Next, Step, Environment
-----------------------------------------------------------------------------
(* What holds in every state.                                              *)

\* The inductive invariant: whatever the interleaving of calls, threads, cancel
\* events and task cancellations in _enqueue, permits, gauges and deadlines agree.
THEOREM QueueInvariant == Spec => []QueueInv
<1>1. Init => QueueInv
  BY InitInv
<1>2. QueueInv /\ [Next]_vars => QueueInv'
  <2> SUFFICES ASSUME QueueInv, [Next]_vars PROVE QueueInv'
    OBVIOUS
  <2>1. StepTypes'
    BY TypesPreserved DEF QueueInv, StepTypes
  <2>2. PermitsConserved'
    BY GlobalPreserved, ProjectPreserved DEF QueueInv, StepTypes, PermitsConserved
  <2>3. GaugesExact'
    BY QueuedPreserved, ActivePreserved DEF QueueInv, StepTypes, GaugesExact
  <2> QED
    BY <2>1, <2>2, <2>3 DEF QueueInv, StepTypes
<1> QED
  BY <1>1, <1>2, PTL DEF Spec

\* Every variable keeps its type and polls never runs below zero.
THEOREM TypeCorrect == Spec => []TypeOK
<1>1. QueueInv => TypeOK
  BY DEF QueueInv
<1> QED
  BY <1>1, QueueInvariant, PTL

\* No exit of _enqueue releases a permit twice or forgets one: each permit is
\* free, held by one call, or lost to the thread of one killed call.
THEOREM PermitsAlwaysConserved == Spec => []PermitsConserved
<1>1. QueueInv => PermitsConserved
  BY DEF QueueInv
<1> QED
  BY <1>1, QueueInvariant, PTL

\* queued_calls and the active gauges count exactly the calls in those places.
THEOREM GaugesAlwaysExact == Spec => []GaugesExact
<1>1. QueueInv => GaugesExact
  BY DEF QueueInv
<1> QED
  BY <1>1, QueueInvariant, PTL

\* A counted call holds a global permit, so a gauge stays within its capacity.
LEMMA ActiveWithinGlobal == QueueInv => GaugeWithinCapacity
<1> SUFFICES ASSUME QueueInv, NEW k \in Kinds
             PROVE  0 <= active[k] /\ active[k] <= GlobalCap[k]
  BY DEF GaugeWithinCapacity
<1>1. ActiveCalls(k) \subseteq GlobalUsers(k)
  BY DEF ActiveCalls, CallsIn, GlobalUsers, Counted, HoldsGlobal
<1>2. /\ IsFiniteSet(GlobalUsers(k)) /\ IsFiniteSet(ActiveCalls(k))
      /\ Cardinality(ActiveCalls(k)) <= Cardinality(GlobalUsers(k))
  BY <1>1, UsersFinite, FS_Subset
<1>3. Cardinality(ActiveCalls(k)) \in Nat /\ Cardinality(GlobalUsers(k)) \in Nat
  BY <1>2, FS_CardinalityType
<1>4. /\ active[k] = Cardinality(ActiveCalls(k))
      /\ globalFree[k] \in Int /\ globalFree[k] >= 0
      /\ globalFree[k] + Cardinality(GlobalUsers(k)) = GlobalCap[k]
  BY DEF QueueInv, TypeOK, GaugesExact, ActiveExact, PermitsConserved, GlobalConserved
<1> QED
  BY <1>2, <1>3, <1>4

\* /monitor/queue never shows more active calls than the capacity beside them.
THEOREM GaugeBounded == Spec => []GaugeWithinCapacity
  BY QueueInvariant, ActiveWithinGlobal, PTL
-----------------------------------------------------------------------------
(* The refinement.                                                         *)

(* What a step does to the abstract gate's view of the calls.              *)
LEMMA MapMoves ==
    ASSUME TypeOK, NEW c \in Calls, NEW to \in PC, pc' = [pc EXCEPT ![c] = to]
    PROVE  servedMap' = [servedMap EXCEPT ![c] =
                           IF to = "calling" THEN "running"
                           ELSE IF to \in {"exiting", "freeProject", "freeGlobal", "done"} THEN "gone"
                           ELSE "waiting"]
  BY DEF servedMap, TypeOK

\* The gate counts with the Cardinality of its own FiniteSets.
LEMMA SameCount == \A S : Gate!Cardinality(S) = Cardinality(S)
  BY DEF Cardinality, Gate!Cardinality

\* A ready call holds a permit of each level, so the running ones leave room.
LEMMA ReadyHasRoom ==
    ASSUME QueueInv, NEW c \in Calls, pc[c] = "ready"
    PROVE  /\ Cardinality(Gate!Running(KindOf[c])) < GlobalCap[KindOf[c]]
           /\ Cardinality(Gate!RunningFor(KindOf[c], ProjectOf[c])) < ProjectCap[KindOf[c]]
<1> DEFINE k == KindOf[c]
           p == ProjectOf[c]
           G == GlobalUsers(k)
           P == ProjectUsers(k, p)
<1>0. k \in Kinds /\ p \in Projects
  BY QueueAssumption
<1>1. c \in G /\ Gate!Running(k) \subseteq G \ {c}
  BY DEF Gate!Running, servedMap, GlobalUsers, HoldsGlobal
<1>2. c \in P /\ Gate!RunningFor(k, p) \subseteq P \ {c}
  BY DEF Gate!RunningFor, Gate!Running, servedMap, ProjectUsers, HoldsProject
<1>3. IsFiniteSet(G) /\ IsFiniteSet(P)
  BY UsersFinite
<1>4. /\ Cardinality(G \ {c}) = Cardinality(G) - 1 /\ IsFiniteSet(G \ {c})
      /\ Cardinality(P \ {c}) = Cardinality(P) - 1 /\ IsFiniteSet(P \ {c})
  BY <1>1, <1>2, <1>3, FS_RemoveElement
<1>5. /\ Cardinality(Gate!Running(k)) <= Cardinality(G \ {c}) /\ IsFiniteSet(Gate!Running(k))
      /\ Cardinality(Gate!RunningFor(k, p)) <= Cardinality(P \ {c})
      /\ IsFiniteSet(Gate!RunningFor(k, p))
  BY <1>1, <1>2, <1>4, FS_Subset
<1>6. /\ Cardinality(G) \in Nat /\ Cardinality(P) \in Nat
      /\ Cardinality(Gate!Running(k)) \in Nat /\ Cardinality(Gate!RunningFor(k, p)) \in Nat
  BY <1>3, <1>5, FS_CardinalityType
<1>7. /\ globalFree[k] \in Int /\ globalFree[k] >= 0
      /\ globalFree[k] + Cardinality(G) = GlobalCap[k]
  BY <1>0 DEF QueueInv, TypeOK, PermitsConserved, GlobalConserved
<1>8. /\ projectFree[k][p] \in Int /\ projectFree[k][p] >= 0
      /\ projectFree[k][p] + Cardinality(P) = ProjectCap[k]
  BY <1>0 DEF QueueInv, TypeOK, PermitsConserved, ProjectConserved
<1>9. GlobalCap[k] \in Nat /\ ProjectCap[k] \in Nat
  BY <1>0, QueueAssumption
<1> HIDE DEF k, p, G, P
<1>10. /\ Cardinality(Gate!Running(k)) < GlobalCap[k]
       /\ Cardinality(Gate!RunningFor(k, p)) < ProjectCap[k]
  BY <1>4, <1>5, <1>6, <1>7, <1>8, <1>9
<1> QED
  BY <1>10 DEF k, p

(* A step of the queue is a step of the gate or none.                      *)
LEMMA StepRefines == QueueInv /\ [Next]_vars => [Gate!Next]_servedMap
<1> SUFFICES ASSUME QueueInv, [Next]_vars PROVE [Gate!Next]_servedMap
  OBVIOUS
<1>0. TypeOK /\ pc \in [Calls -> PC]
  BY DEF QueueInv, TypeOK
<1>1. ASSUME NEW c \in Calls, StartCall(c) PROVE Gate!Begin(c)
  <2>1. pc[c] = "ready" /\ pc' = [pc EXCEPT ![c] = "calling"]
    BY <1>1 DEF StartCall, Goto
  <2>2. servedMap[c] = "waiting" /\ servedMap' = [servedMap EXCEPT ![c] = "running"]
    BY <1>0, <2>1, MapMoves DEF PC, servedMap
  <2> QED
    BY <2>1, <2>2, ReadyHasRoom, SameCount DEF Gate!Begin
<1>2. ASSUME NEW c \in Calls, NEW to \in {"exiting", "done"}, pc' = [pc EXCEPT ![c] = to],
             pc[c] \in Waiting \cup {"ready", "calling"}
      PROVE  Gate!Leave(c)
  <2>1. servedMap[c] \in {"waiting", "running"}
    BY <1>2 DEF servedMap, Waiting
  <2>2. servedMap' = [servedMap EXCEPT ![c] = "gone"]
    BY <1>0, <1>2, MapMoves DEF PC
  <2> QED
    BY <2>1, <2>2 DEF Gate!Leave
<1>3. ASSUME NEW c \in Calls,
             \/ CancelBeforeCall(c) \/ CallReturns(c) \/ CallFails(c) \/ KillCall(c)
             \/ CountOut(c)
      PROVE  Gate!Leave(c)
  <2>1. CASE CancelBeforeCall(c) \/ CallReturns(c) \/ CallFails(c) \/ KillCall(c)
    BY <1>2, <2>1 DEF CancelBeforeCall, CallReturns, CallFails, KillCall, EndCall, Goto
  <2>2. CASE CountOut(c)
    BY <1>2, <2>2 DEF CountOut, Goto, Waiting
  <2> QED
    BY <1>3, <2>1, <2>2
<1>4. ASSUME NEW c \in Calls, NEW to \in PC, pc' = [pc EXCEPT ![c] = to],
             \/ /\ pc[c] \in {"new", "atProject", "inProject", "atGlobal", "inGlobal", "granted"}
                /\ to \in Waiting \cup {"ready"}
             \/ /\ pc[c] \in {"exiting", "freeProject", "freeGlobal"}
                /\ to \in {"freeProject", "freeGlobal", "done"}
      PROVE  servedMap' = servedMap
  BY <1>0, <1>4, MapMoves DEF servedMap, Waiting
<1>5. ASSUME NEW c \in Calls,
             \/ Enqueue(c) \/ PollProject(c) \/ GetProject(c) \/ MissProject(c)
             \/ PollGlobal(c) \/ GetGlobal(c) \/ MissGlobal(c) \/ Activate(c)
             \/ ClearGauge(c) \/ ReleaseProject(c) \/ ReleaseGlobal(c)
             \/ CancelWait(c) \/ TimeOut(c) \/ KillWait(c)
      PROVE  servedMap' = servedMap
  BY <1>4, <1>5 DEF Goto, PC, Waiting, Enqueue, PollProject, GetProject, MissProject,
     PollGlobal, GetGlobal, MissGlobal, Activate, ClearGauge, ReleaseProject, ReleaseGlobal,
     CancelWait, TimeOut, GiveUp, KillWait
<1>6. ASSUME NEW c \in Calls, SetEvent(c) \/ OrphanTakes(c) \/ OrphanExpires(c)
      PROVE  servedMap' = servedMap
  BY <1>6 DEF SetEvent, OrphanTakes, OrphanExpires, servedMap
<1>7. CASE UNCHANGED vars
  BY <1>7 DEF vars, servedMap
<1> QED
  BY <1>1, <1>3, <1>5, <1>6, <1>7 DEF Next, Step, Environment, Gate!Next

\* The queue implements the quota gate: however permits are taken, polled for
\* and given back, a callable starts only within its global and project quota.
THEOREM QueueImplementsGate == Spec => ImplementsGate
<1>1. Init => Gate!Init
  BY DEF Init, Gate!Init, servedMap
<1>2. QueueInv /\ [Next]_vars => [Gate!Next]_servedMap
  BY StepRefines
<1> QED
  BY <1>1, <1>2, QueueInvariant, PTL DEF Spec, ImplementsGate, Gate!Spec
=============================================================================
