------------------------- MODULE TaskLifecycleProofs -------------------------
(***************************************************************************)
(* Proofs about TaskLifecycle, for any set of tasks, threads, titles and   *)
(* tables and for any bounds.  LifecycleInv is inductive: what a handler   *)
(* has decided stays sound while it waits (RequestsSound), and its write   *)
(* appends the event that tells the status it writes.                      *)
(***************************************************************************)
EXTENDS TaskLifecycle, FiniteSetTheorems, TLAPS

(* Appending an event to a log of changes.                                 *)
LEMMA AppendEvent ==
    ASSUME NEW s \in Seq(Changes), NEW e \in Changes
    PROVE  /\ Append(s, e) \in Seq(Changes)
           /\ Len(Append(s, e)) = Len(s) + 1
           /\ Len(s) \in Nat
           /\ Append(s, e) # <<>>
           /\ Append(s, e)[Len(s) + 1] = e
           /\ \A k \in 1..Len(s) : Append(s, e)[k] = s[k]
  OBVIOUS

(* The allowed changes lead to statuses, and none of them back to the      *)
(* confirmation queue.                                                     *)
LEMMA AllowedStatuses ==
    ASSUME NEW s \in TaskStatuses, NEW u \in Allowed[s]
    PROVE  u \in TaskStatuses /\ u # "pending_confirmation"
  BY DEF Allowed, TaskStatuses

(* No status is called absent.                                             *)
LEMMA AbsentIsNoStatus == "absent" \notin TaskStatuses
  BY DEF TaskStatuses

(* A change that is a creation or an allowed one keeps the log right.      *)
LEMMA ChangeKeepsLog ==
    ASSUME TypeOK, LogTellsStatus, EventsLookLegal,
           NEW t \in Tasks,
           NEW from \in TaskStatuses \cup {"absent"}, NEW to \in TaskStatuses,
           from = "absent" \/ to \in Allowed[from],
           Change(t, from, to)
    PROVE  /\ status' \in [Tasks -> TaskStatuses \cup {"absent"}]
           /\ change' \in [Tasks -> Seq(Changes)]
           /\ LogTellsStatus'
           /\ EventsLookLegal'
<1> DEFINE e == [from |-> from, to |-> to]
<1>1. e \in Changes
  BY DEF Changes
<1>2. status \in [Tasks -> TaskStatuses \cup {"absent"}] /\ change \in [Tasks -> Seq(Changes)]
  BY DEF TypeOK
<1>3. status' = [status EXCEPT ![t] = to] /\ change' = [change EXCEPT ![t] = Append(@, e)]
  BY DEF Change
<1>4. change[t] \in Seq(Changes)
  BY <1>2
<1> HIDE DEF e
<1>5. change'[t] = Append(change[t], e) /\ status'[t] = to
  BY <1>2, <1>3
<1>6. \A u \in Tasks \ {t} : change'[u] = change[u] /\ status'[u] = status[u]
  BY <1>2, <1>3
<1>7. /\ Append(change[t], e) \in Seq(Changes)
      /\ Len(Append(change[t], e)) = Len(change[t]) + 1
      /\ Len(change[t]) \in Nat
      /\ Append(change[t], e) # <<>>
      /\ Append(change[t], e)[Len(change[t]) + 1] = e
      /\ \A k \in 1..Len(change[t]) : Append(change[t], e)[k] = change[t][k]
  BY <1>1, <1>4, AppendEvent
<1>8. e.from = from /\ e.to = to
  BY DEF e
<1>9. status' \in [Tasks -> TaskStatuses \cup {"absent"}]
  BY <1>2, <1>3
<1>10. change' \in [Tasks -> Seq(Changes)]
  BY <1>2, <1>3, <1>7
<1>11. LogTellsStatus'
  <2> SUFFICES ASSUME NEW u \in Tasks
               PROVE  /\ status'[u] # "absent" <=> change'[u] # <<>>
                      /\ status'[u] # "absent" => change'[u][Len(change'[u])].to = status'[u]
    BY DEF LogTellsStatus, Exists
  <2>1. CASE u = t
    <3>1. status'[u] # "absent" /\ change'[u] # <<>>
      BY <2>1, <1>5, <1>7, AbsentIsNoStatus
    <3>2. change'[u][Len(change'[u])] = e
      BY <2>1, <1>5, <1>7
    <3> QED
      BY <3>1, <3>2, <2>1, <1>5, <1>8
  <2>2. CASE u # t
    BY <2>2, <1>6 DEF LogTellsStatus, Exists
  <2> QED
    BY <2>1, <2>2
<1>12. EventsLookLegal'
  <2> SUFFICES ASSUME NEW u \in Tasks, NEW k \in 1..Len(change'[u])
               PROVE  \/ change'[u][k].from = "absent"
                      \/ change'[u][k].to \in Allowed[change'[u][k].from]
    BY DEF EventsLookLegal
  <2>1. CASE u # t
    BY <2>1, <1>6 DEF EventsLookLegal
  <2>2. CASE u = t /\ k = Len(change[t]) + 1
    <3>1. change'[u][k] = e
      BY <2>2, <1>5, <1>7
    <3> QED
      BY <3>1, <1>8
  <2>3. CASE u = t /\ k # Len(change[t]) + 1
    <3>1. k \in 1..Len(change[t]) /\ change'[u][k] = change[t][k]
      BY <2>3, <1>5, <1>7
    <3> QED
      BY <3>1, <2>3 DEF EventsLookLegal
  <2> QED
    BY <2>1, <2>2, <2>3
<1> QED
  BY <1>9, <1>10, <1>11, <1>12
-----------------------------------------------------------------------------
(* The parts of LifecycleInv on the tables a step changes, on the handlers *)
(* and on the import.                                                      *)
TablesInv ==
    /\ status \in [Tasks -> TaskStatuses \cup {"absent"}]
    /\ title \in [Tasks -> Titles \cup {None}]
    /\ row \in [Tasks -> Rows \cup {None}]
    /\ change \in [Tasks -> Seq(Changes)]
    /\ confirmation \in [Tasks -> {"none", "pending", "accepted", "ignored"}]
    /\ LogTellsStatus
    /\ EventsLookLegal
    /\ PendingIsInQueue

HandlersInv ==
    /\ pc \in [Threads -> {"idle", "decided", "audit"}]
    /\ request \in [Threads -> Requests]
    /\ RequestsSound

ImporterInv ==
    /\ fingerprints \subseteq Rows
    /\ importing \in {"no", "row", "find", "overwrite", "create", "audit", "fingerprint"}
    /\ rest \in Seq(Rows)
    /\ mode \in [skip : BOOLEAN, overwrite : BOOLEAN]
    /\ found \in Tasks \cup {None}
    /\ imports \in Seq([skip : BOOLEAN, overwrite : BOOLEAN])
    /\ ImportSound

CountersInv == audited \in [Tasks -> Nat] /\ faults \in 0..MaxFaults

(* The invariant is made of four parts.                                    *)
LEMMA InvParts == LifecycleInv <=> TablesInv /\ HandlersInv /\ ImporterInv /\ CountersInv
  BY DEF LifecycleInv, TypeOK, TablesInv, HandlersInv, ImporterInv, CountersInv

(* So it is in the next state.                                             *)
LEMMA PartsNext ==
    TablesInv' /\ HandlersInv' /\ ImporterInv' /\ CountersInv' => LifecycleInv'
  BY DEF LifecycleInv, TypeOK, TablesInv, HandlersInv, ImporterInv, CountersInv

(* Each part depends on its own variables only.                            *)
LEMMA SameTables == TablesInv /\ UNCHANGED tables => TablesInv'
  BY DEF TablesInv, tables, LogTellsStatus, EventsLookLegal, PendingIsInQueue, Exists

(* Handlers that do not move keep what is said of them.                    *)
LEMMA SameHandlers == HandlersInv /\ UNCHANGED threadVars => HandlersInv'
  BY DEF HandlersInv, threadVars, RequestsSound

(* An import that does not move keeps what is said of it.                  *)
LEMMA SameImporter == ImporterInv /\ UNCHANGED importVars => ImporterInv'
  BY DEF ImporterInv, importVars, ImportSound

(* Inserting a task keeps the tables right.                                *)
LEMMA InsertKeepsTables ==
    ASSUME LifecycleInv,
           NEW t \in Tasks, NEW s \in TaskStatuses,
           NEW name \in Titles, NEW r \in Rows \cup {None},
           Insert(t, s, name, r)
    PROVE  TablesInv'
<1>1. Change(t, "absent", s) /\ "absent" \in TaskStatuses \cup {"absent"}
  BY DEF Insert
<1>2. /\ status' \in [Tasks -> TaskStatuses \cup {"absent"}]
      /\ change' \in [Tasks -> Seq(Changes)]
      /\ LogTellsStatus'
      /\ EventsLookLegal'
  BY <1>1, ChangeKeepsLog DEF LifecycleInv
<1>3. /\ title' \in [Tasks -> Titles \cup {None}]
      /\ row' \in [Tasks -> Rows \cup {None}]
      /\ confirmation' \in [Tasks -> {"none", "pending", "accepted", "ignored"}]
  BY DEF LifecycleInv, TypeOK, Insert
<1>4. PendingIsInQueue'
  <2> SUFFICES ASSUME NEW u \in Tasks, status'[u] = "pending_confirmation"
               PROVE  confirmation'[u] = "pending"
    BY DEF PendingIsInQueue
  <2>1. CASE u = t
    BY <2>1 DEF LifecycleInv, TypeOK, Insert, Change
  <2>2. CASE u # t
    BY <2>2 DEF LifecycleInv, TypeOK, Insert, Change, PendingIsInQueue
  <2> QED
    BY <2>1, <2>2
<1> QED
  BY <1>2, <1>3, <1>4 DEF TablesInv

(* Writing a decision that is still sound keeps the tables right.          *)
LEMMA DecisionKeepsTables ==
    ASSUME LifecycleInv,
           NEW t \in Tasks, NEW from \in TaskStatuses, NEW to \in Allowed[from],
           Change(t, from, to),
           title' \in [Tasks -> Titles \cup {None}],
           row' \in [Tasks -> Rows \cup {None}],
           confirmation' \in [Tasks -> {"none", "pending", "accepted", "ignored"}],
           \A u \in Tasks \ {t} : confirmation'[u] = confirmation[u]
    PROVE  TablesInv'
<1>1. to \in TaskStatuses /\ to # "pending_confirmation"
  BY AllowedStatuses
<1>2. /\ status' \in [Tasks -> TaskStatuses \cup {"absent"}]
      /\ change' \in [Tasks -> Seq(Changes)]
      /\ LogTellsStatus'
      /\ EventsLookLegal'
  BY <1>1, ChangeKeepsLog DEF LifecycleInv
<1>3. PendingIsInQueue'
  <2> SUFFICES ASSUME NEW u \in Tasks, status'[u] = "pending_confirmation"
               PROVE  confirmation'[u] = "pending"
    BY DEF PendingIsInQueue
  <2>1. u # t /\ status[u] = "pending_confirmation"
    BY <1>1 DEF LifecycleInv, TypeOK, Change
  <2> QED
    BY <2>1 DEF LifecycleInv, PendingIsInQueue
<1> QED
  BY <1>2, <1>3 DEF TablesInv
-----------------------------------------------------------------------------

(* The invariant holds with empty tables.                                  *)
THEOREM LifecycleInit == Init => LifecycleInv
<1> SUFFICES ASSUME Init PROVE LifecycleInv
  OBVIOUS
<1>1. TablesInv
  <2>1. \A t \in Tasks : change[t] = <<>> /\ status[t] = "absent"
    BY DEF Init
  <2>2. LogTellsStatus /\ PendingIsInQueue
    BY <2>1 DEF LogTellsStatus, PendingIsInQueue, Exists
  <2>3. EventsLookLegal
    BY <2>1 DEF EventsLookLegal
  <2> QED
    BY <2>2, <2>3 DEF Init, TablesInv
<1>2. HandlersInv
  BY DEF Init, HandlersInv, RequestsSound, Requests, Idle
<1>3. ImporterInv
  BY LifecycleAssumption DEF Init, ImporterInv, ImportSound
<1>4. CountersInv
  BY LifecycleAssumption DEF Init, CountersInv
<1> QED
  BY <1>1, <1>2, <1>3, <1>4, InvParts

(* A handler that accepts a request: its decision is sound.                *)
LEMMA AcceptKeepsHandlers ==
    ASSUME HandlersInv,
           NEW th \in Threads, NEW t \in Tasks,
           NEW from \in TaskStatuses, NEW to \in Allowed[from],
           NEW decision \in Decisions \cup {"none"}, NEW name \in Titles \cup {None},
           Accept(th, t, from, to, decision, name)
    PROVE  HandlersInv'
<1> DEFINE q == [task |-> t, from |-> from, to |-> to, decision |-> decision, title |-> name]
<1>1. to \in TaskStatuses
  BY AllowedStatuses
<1>2. q \in Requests
  BY <1>1 DEF Requests
<1>3. q.task = t /\ q.from = from /\ q.to = to
  OBVIOUS
<1>4. request' = [request EXCEPT ![th] = q] /\ pc' = [pc EXCEPT ![th] = "decided"]
  BY DEF Accept
<1> HIDE DEF q
<1>5. RequestsSound'
  <2> SUFFICES ASSUME NEW x \in Threads
               PROVE  /\ pc'[x] # "idle" => request'[x].task \in Tasks
                      /\ pc'[x] = "decided" =>
                            /\ request'[x].from \in TaskStatuses
                            /\ request'[x].to \in Allowed[request'[x].from]
    BY DEF RequestsSound
  <2>1. CASE x = th
    BY <2>1, <1>3, <1>4 DEF HandlersInv
  <2>2. CASE x # th
    BY <2>2, <1>4 DEF HandlersInv, RequestsSound
  <2> QED
    BY <2>1, <2>2
<1> QED
  BY <1>2, <1>4, <1>5 DEF HandlersInv

(* A handler that commits goes to its audit entry with the same task.      *)
LEMMA CommittedKeepsHandlers ==
    ASSUME HandlersInv, NEW th \in Threads, pc[th] = "decided",
           Committed(th), UNCHANGED request
    PROVE  HandlersInv'
  BY DEF HandlersInv, RequestsSound, Committed

(* A handler that answers forgets its request.                             *)
LEMMA AnswerKeepsHandlers ==
    ASSUME HandlersInv, NEW th \in Threads,
           pc' = [pc EXCEPT ![th] = "idle"],
           request' = [request EXCEPT ![th] = Idle]
    PROVE  HandlersInv'
<1>1. Idle \in Requests
  BY DEF Idle, Requests
<1>2. RequestsSound'
  <2> SUFFICES ASSUME NEW x \in Threads
               PROVE  /\ pc'[x] # "idle" => request'[x].task \in Tasks
                      /\ pc'[x] = "decided" =>
                            /\ request'[x].from \in TaskStatuses
                            /\ request'[x].to \in Allowed[request'[x].from]
    BY DEF RequestsSound
  <2>1. CASE x = th
    BY <2>1 DEF HandlersInv
  <2>2. CASE x # th
    BY <2>2 DEF HandlersInv, RequestsSound
  <2> QED
    BY <2>1, <2>2
<1> QED
  BY <1>1, <1>2 DEF HandlersInv

(* A row of the import that is finished.                                   *)
LEMMA RowDoneKeepsImporter ==
    ASSUME ImporterInv, rest # <<>>, RowDone, fingerprints' \subseteq Rows
    PROVE  ImporterInv'
<1>1. Tail(rest) \in Seq(Rows)
  BY DEF ImporterInv
<1> QED
  BY <1>1 DEF ImporterInv, ImportSound, RowDone
-----------------------------------------------------------------------------

(* The transactions of requests keep tables and handlers together.         *)
LEMMA RequestStep ==
    ASSUME LifecycleInv, NEW th \in Threads, Request(th)
    PROVE  LifecycleInv'
<1>0. TablesInv /\ HandlersInv /\ ImporterInv /\ CountersInv
  BY InvParts
<1> PICK t \in Tasks :
        \/ \E s \in CreateStatuses, name \in Titles : CreateTask(th, t, s, name)
        \/ \E to \in TaskStatuses : TransitionRead(th, t, to)
        \/ \E d \in Decisions, name \in Titles \cup {None} : ConfirmRead(th, t, d, name)
  BY DEF Request
<1>1. ASSUME NEW s \in CreateStatuses, NEW name \in Titles, CreateTask(th, t, s, name)
      PROVE  LifecycleInv'
  <2>1. TablesInv'
    <3>1. s \in TaskStatuses /\ Insert(t, s, name, None) /\ None \in Rows \cup {None}
      BY <1>1, CreateAssumption DEF CreateTask
    <3> QED
      BY <3>1, InsertKeepsTables
  <2>2. HandlersInv'
    <3> DEFINE q == [Idle EXCEPT !.task = t]
    <3>1. q \in Requests /\ q.task = t
      BY DEF Idle, Requests
    <3>2. request' = [request EXCEPT ![th] = q] /\ pc' = [pc EXCEPT ![th] = "audit"]
      BY <1>1 DEF CreateTask, Committed
    <3> HIDE DEF q
    <3>3. RequestsSound'
      <4> SUFFICES ASSUME NEW x \in Threads
                   PROVE  /\ pc'[x] # "idle" => request'[x].task \in Tasks
                          /\ pc'[x] = "decided" =>
                                /\ request'[x].from \in TaskStatuses
                                /\ request'[x].to \in Allowed[request'[x].from]
        BY DEF RequestsSound
      <4>1. CASE x = th
        BY <4>1, <3>1, <3>2, <1>0 DEF HandlersInv
      <4>2. CASE x # th
        BY <4>2, <3>2, <1>0 DEF HandlersInv, RequestsSound
      <4> QED
        BY <4>1, <4>2
    <3> QED
      BY <1>0, <3>1, <3>2, <3>3 DEF HandlersInv
  <2>3. ImporterInv' /\ CountersInv'
    BY <1>0, <1>1, SameImporter DEF CreateTask, CountersInv, importVars
  <2> QED
    BY <2>1, <2>2, <2>3, PartsNext
<1>2. ASSUME NEW to \in TaskStatuses, TransitionRead(th, t, to)
      PROVE  LifecycleInv'
  <2>1. Accept(th, t, status[t], to, "none", None) /\ to \in Allowed[status[t]]
    BY <1>2 DEF TransitionRead
  <2>2. status[t] \in TaskStatuses
    BY <1>0, <1>2 DEF TransitionRead, Exists, TablesInv
  <2>3. HandlersInv'
    BY <2>1, <2>2, <1>0, AcceptKeepsHandlers
  <2>4. TablesInv' /\ ImporterInv' /\ CountersInv'
    BY <2>1, <1>0, SameTables, SameImporter DEF Accept, CountersInv
  <2> QED
    BY <2>3, <2>4, PartsNext
<1>3. ASSUME NEW d \in Decisions, NEW name \in Titles \cup {None}, ConfirmRead(th, t, d, name)
      PROVE  LifecycleInv'
  <2> DEFINE to == IF d = "ignore" THEN "cancelled" ELSE "not_started"
  <2>1. Accept(th, t, "pending_confirmation", to, d, name)
    BY <1>3 DEF ConfirmRead
  <2>2. "pending_confirmation" \in TaskStatuses /\ to \in Allowed["pending_confirmation"]
    BY DEF TaskStatuses, Allowed
  <2>3. HandlersInv'
    BY <2>1, <2>2, <1>0, AcceptKeepsHandlers
  <2>4. TablesInv' /\ ImporterInv' /\ CountersInv'
    BY <2>1, <1>0, SameTables, SameImporter DEF Accept, CountersInv
  <2> QED
    BY <2>3, <2>4, PartsNext
<1> QED
  BY <1>1, <1>2, <1>3

(* The transactions that write keep tables and handlers together.          *)
LEMMA WriteStep ==
    ASSUME LifecycleInv, NEW th \in Threads, Write(th)
    PROVE  LifecycleInv'
<1>0. TablesInv /\ HandlersInv /\ ImporterInv /\ CountersInv
  BY InvParts
<1> DEFINE q == request[th]
<1>1. CASE TransitionCommit(th)
  <2>1. q.task \in Tasks /\ q.from \in TaskStatuses /\ q.to \in Allowed[q.from]
    BY <1>0, <1>1 DEF TransitionCommit, HandlersInv, RequestsSound
  <2>2. Change(q.task, q.from, q.to) /\ UNCHANGED <<title, row, confirmation>>
    BY <1>1 DEF TransitionCommit
  <2>3. TablesInv'
    <3>1. /\ title' \in [Tasks -> Titles \cup {None}]
          /\ row' \in [Tasks -> Rows \cup {None}]
          /\ confirmation' \in [Tasks -> {"none", "pending", "accepted", "ignored"}]
          /\ \A u \in Tasks \ {q.task} : confirmation'[u] = confirmation[u]
      BY <1>0, <2>2 DEF TablesInv
    <3> QED
      BY <2>1, <2>2, <3>1, DecisionKeepsTables
  <2>4. HandlersInv'
    BY <1>0, <1>1, CommittedKeepsHandlers DEF TransitionCommit
  <2>5. ImporterInv' /\ CountersInv'
    BY <1>0, <1>1, SameImporter DEF TransitionCommit, CountersInv
  <2> QED
    BY <2>3, <2>4, <2>5, PartsNext
<1>2. CASE ConfirmCommit(th)
  <2>1. q.task \in Tasks /\ q.from \in TaskStatuses /\ q.to \in Allowed[q.from]
    BY <1>0, <1>2 DEF ConfirmCommit, HandlersInv, RequestsSound
  <2>2. Change(q.task, q.from, q.to)
    BY <1>2 DEF ConfirmCommit
  <2>3. TablesInv'
    <3>1. q.title \in Titles \cup {None}
      BY <1>0 DEF HandlersInv, Requests
    <3>2. title' \in [Tasks -> Titles \cup {None}]
      BY <1>0, <1>2, <3>1 DEF ConfirmCommit, TablesInv
    <3>3. row' \in [Tasks -> Rows \cup {None}]
      BY <1>0, <1>2 DEF ConfirmCommit, TablesInv
    <3>4. /\ confirmation' \in [Tasks -> {"none", "pending", "accepted", "ignored"}]
          /\ \A u \in Tasks \ {q.task} : confirmation'[u] = confirmation[u]
      BY <1>0, <1>2 DEF ConfirmCommit, TablesInv
    <3> QED
      BY <2>1, <2>2, <3>2, <3>3, <3>4, DecisionKeepsTables
  <2>4. HandlersInv'
    BY <1>0, <1>2, CommittedKeepsHandlers DEF ConfirmCommit
  <2>5. ImporterInv' /\ CountersInv'
    BY <1>0, <1>2, SameImporter DEF ConfirmCommit, CountersInv
  <2> QED
    BY <2>3, <2>4, <2>5, PartsNext
<1>3. CASE Audit(th)
  <2>1. HandlersInv'
    BY <1>0, <1>3, AnswerKeepsHandlers DEF Audit
  <2>2. TablesInv' /\ ImporterInv'
    BY <1>0, <1>3, SameTables, SameImporter DEF Audit
  <2>3. CountersInv'
    BY <1>0, <1>3 DEF Audit, CountersInv, HandlersInv, RequestsSound
  <2> QED
    BY <2>1, <2>2, <2>3, PartsNext
<1>4. CASE RequestFails(th)
  <2>1. HandlersInv'
    BY <1>0, <1>4, AnswerKeepsHandlers DEF RequestFails
  <2>2. TablesInv' /\ ImporterInv'
    BY <1>0, <1>4, SameTables, SameImporter DEF RequestFails
  <2>3. CountersInv'
    BY <1>0, <1>4, LifecycleAssumption DEF RequestFails, CountersInv
  <2> QED
    BY <2>1, <2>2, <2>3, PartsNext
<1> QED
  BY <1>1, <1>2, <1>3, <1>4 DEF Write

(* An update changes no status.                                            *)
LEMMA UpdateStep ==
    ASSUME LifecycleInv, NEW t \in Tasks, NEW name \in Titles, UpdateTask(t, name)
    PROVE  LifecycleInv'
<1>1. TablesInv'
  BY InvParts DEF UpdateTask, TablesInv, LogTellsStatus, EventsLookLegal, PendingIsInQueue, Exists
<1>2. HandlersInv' /\ ImporterInv' /\ CountersInv'
  BY InvParts, SameHandlers, SameImporter DEF UpdateTask, CountersInv
<1> QED
  BY <1>1, <1>2, PartsNext

(* The transactions of an import keep tables and import together.          *)
LEMMA ImporterStep ==
    ASSUME LifecycleInv, ImportStep
    PROVE  LifecycleInv'
<1>0. TablesInv /\ HandlersInv /\ ImporterInv /\ CountersInv
  BY InvParts
<1>1. rest # <<>> => Head(rest) \in Rows /\ Tail(rest) \in Seq(Rows)
  BY <1>0 DEF ImporterInv
<1>2. ASSUME NEW file \in Files, NEW flags \in Modes, StartImport(file, flags)
      PROVE  LifecycleInv'
  <2>1. file \in Seq(Rows) /\ flags \in [skip : BOOLEAN, overwrite : BOOLEAN]
    BY LifecycleAssumption
  <2>2. ImporterInv'
    BY <1>0, <1>2, <2>1, LifecycleAssumption DEF StartImport, ImporterInv, ImportSound
  <2>3. TablesInv' /\ HandlersInv' /\ CountersInv'
    BY <1>0, <1>2, SameTables, SameHandlers DEF StartImport, CountersInv
  <2> QED
    BY <2>2, <2>3, PartsNext
<1>3. CASE RowBegin
  <2>1. ImporterInv'
    BY <1>0, <1>1, <1>3 DEF RowBegin, ImporterInv, ImportSound
  <2>2. TablesInv' /\ HandlersInv' /\ CountersInv'
    BY <1>0, <1>3, SameTables, SameHandlers DEF RowBegin, CountersInv
  <2> QED
    BY <2>1, <2>2, PartsNext
<1>4. CASE RowFind
  <2>1. ImporterInv'
    BY <1>0, <1>4 DEF RowFind, ImporterInv, ImportSound
  <2>2. TablesInv' /\ HandlersInv' /\ CountersInv'
    BY <1>0, <1>4, SameTables, SameHandlers DEF RowFind, CountersInv
  <2> QED
    BY <2>1, <2>2, PartsNext
<1>5. CASE RowOverwrite
  <2>1. rest # <<>> /\ found \in Tasks
    BY <1>0, <1>5 DEF RowOverwrite, ImporterInv, ImportSound
  <2>2. ImporterInv'
    BY <1>0, <1>5, <2>1, RowDoneKeepsImporter DEF RowOverwrite, ImporterInv
  <2>3. TablesInv'
    BY <1>0, <1>1, <1>5, <2>1
       DEF RowOverwrite, TablesInv, LogTellsStatus, EventsLookLegal, PendingIsInQueue, Exists
  <2>4. HandlersInv' /\ CountersInv'
    BY <1>0, <1>5, SameHandlers DEF RowOverwrite, RowDone, CountersInv
  <2> QED
    BY <2>2, <2>3, <2>4, PartsNext
<1>6. ASSUME NEW t \in Tasks, RowCreate(t)
      PROVE  LifecycleInv'
  <2>1. rest # <<>>
    BY <1>0, <1>6 DEF RowCreate, ImporterInv, ImportSound
  <2>2. TablesInv'
    <3>1. "not_started" \in TaskStatuses /\ TitleOf[Head(rest)] \in Titles
      BY <1>1, <2>1, LifecycleAssumption DEF TaskStatuses
    <3>2. Insert(t, "not_started", TitleOf[Head(rest)], Head(rest))
      BY <1>6 DEF RowCreate
    <3>3. Head(rest) \in Rows \cup {None}
      BY <1>1, <2>1
    <3> QED
      BY <3>1, <3>2, <3>3, InsertKeepsTables
  <2>3. ImporterInv'
    BY <1>0, <1>6, <2>1 DEF RowCreate, ImporterInv, ImportSound
  <2>4. HandlersInv' /\ CountersInv'
    BY <1>0, <1>6, SameHandlers DEF RowCreate, CountersInv
  <2> QED
    BY <2>2, <2>3, <2>4, PartsNext
<1>7. CASE RowAudit
  <2>1. ImporterInv'
    BY <1>0, <1>7 DEF RowAudit, ImporterInv, ImportSound
  <2>2. TablesInv' /\ HandlersInv'
    BY <1>0, <1>7, SameTables, SameHandlers DEF RowAudit
  <2>3. CountersInv'
    BY <1>0, <1>7 DEF RowAudit, CountersInv, ImporterInv, ImportSound
  <2> QED
    BY <2>1, <2>2, <2>3, PartsNext
<1>8. CASE RowFingerprint
  <2>1. rest # <<>> /\ fingerprints' \subseteq Rows
    BY <1>0, <1>1, <1>8 DEF RowFingerprint, ImporterInv, ImportSound
  <2>2. ImporterInv'
    BY <1>0, <1>8, <2>1, RowDoneKeepsImporter DEF RowFingerprint
  <2>3. TablesInv' /\ HandlersInv' /\ CountersInv'
    BY <1>0, <1>8, SameTables, SameHandlers DEF RowFingerprint, RowDone, CountersInv
  <2> QED
    BY <2>2, <2>3, PartsNext
<1>9. CASE RowFails
  <2>1. rest # <<>> /\ fingerprints' \subseteq Rows
    BY <1>0, <1>9 DEF RowFails, ImporterInv, ImportSound
  <2>2. ImporterInv'
    BY <1>0, <1>9, <2>1, RowDoneKeepsImporter DEF RowFails
  <2>3. TablesInv' /\ HandlersInv'
    BY <1>0, <1>9, SameTables, SameHandlers DEF RowFails, RowDone
  <2>4. CountersInv'
    BY <1>0, <1>9, LifecycleAssumption DEF RowFails, CountersInv
  <2> QED
    BY <2>2, <2>3, <2>4, PartsNext
<1>10. CASE FinishImport
  <2>1. ImporterInv'
    BY <1>0, <1>10 DEF FinishImport, ImporterInv, ImportSound
  <2>2. TablesInv' /\ HandlersInv' /\ CountersInv'
    BY <1>0, <1>10, SameTables, SameHandlers DEF FinishImport, CountersInv
  <2> QED
    BY <2>1, <2>2, PartsNext
<1> QED
  BY <1>2, <1>3, <1>4, <1>5, <1>6, <1>7, <1>8, <1>9, <1>10 DEF ImportStep

(* Every transaction keeps the invariant.                                  *)
THEOREM LifecycleNext == LifecycleInv /\ [Next]_vars => LifecycleInv'
<1> SUFFICES ASSUME LifecycleInv, [Next]_vars PROVE LifecycleInv'
  OBVIOUS
<1>1. ASSUME NEW th \in Threads, Request(th) \/ Write(th)
      PROVE  LifecycleInv'
  BY <1>1, RequestStep, WriteStep
<1>2. ASSUME NEW t \in Tasks, NEW name \in Titles, UpdateTask(t, name)
      PROVE  LifecycleInv'
  BY <1>2, UpdateStep
<1>3. CASE ImportStep
  BY <1>3, ImporterStep
<1>4. CASE UNCHANGED vars
  <2>1. TablesInv' /\ HandlersInv' /\ ImporterInv' /\ CountersInv'
    BY <1>4, InvParts, SameTables, SameHandlers, SameImporter DEF vars, CountersInv
  <2> QED
    BY <2>1, PartsNext
<1> QED
  BY <1>1, <1>2, <1>3, <1>4 DEF Next

(* The inductive invariant holds in every reachable state.                 *)
THEOREM LifecycleInvariant == Spec => []LifecycleInv
  BY LifecycleInit, LifecycleNext, PTL DEF Spec

(* The event log and the task table never disagree, for any number of      *)
(* threads and however stale their decisions are.                          *)
THEOREM LogAlwaysTellsStatus == Spec => []LogTellsStatus
<1>1. LifecycleInv => LogTellsStatus
  BY DEF LifecycleInv
<1> QED
  BY <1>1, LifecycleInvariant, PTL

(* Every event that is logged looks like a step of the state machine.      *)
THEOREM EventsAlwaysLookLegal == Spec => []EventsLookLegal
<1>1. LifecycleInv => EventsLookLegal
  BY DEF LifecycleInv
<1> QED
  BY <1>1, LifecycleInvariant, PTL

(* A task that awaits confirmation can be decided on.                      *)
THEOREM PendingAlwaysInQueue == Spec => []PendingIsInQueue
<1>1. LifecycleInv => PendingIsInQueue
  BY DEF LifecycleInv
<1> QED
  BY <1>1, LifecycleInvariant, PTL

(* Type correctness, for every number of tasks and threads.                *)
THEOREM LifecycleTypeCorrect == Spec => []TypeOK
<1>1. LifecycleInv => TypeOK
  BY DEF LifecycleInv
<1> QED
  BY <1>1, LifecycleInvariant, PTL
-----------------------------------------------------------------------------
(* The audit: what is due, split into its parts.  A step that commits a    *)
(* change adds one to the log and one to the entries under way; an audit   *)
(* entry takes one from these and adds one to those written; a failure     *)
(* loses at most one entry, and is counted.                                *)
Writing(t) == {th \in Threads : pc[th] = "audit" /\ request[th].task = t}
Importer(t) == IF importing = "audit" /\ found = t THEN 1 ELSE 0
UnderWay(t) == Cardinality(Writing(t)) + Importer(t)

(* The number of threads that write the audit entry of a task.             *)
LEMMA WritingFinite ==
    \A t : IsFiniteSet(Writing(t)) /\ Cardinality(Writing(t)) \in Nat
  BY LifecycleAssumption, FS_Subset, FS_CardinalityType DEF Writing

(* The audits due are those of the handlers and of the import.             *)
LEMMA DueParts ==
    ASSUME LifecycleInv, NEW t \in Tasks
    PROVE  /\ AuditDue(t) = Len(change[t]) - audited[t] - UnderWay(t)
           /\ Len(change[t]) \in Nat /\ audited[t] \in Nat
           /\ Importer(t) \in 0..1 /\ Cardinality(Writing(t)) \in Nat
           /\ faults \in Nat /\ AuditDue(t) \in Int
<1>1. change[t] \in Seq(Changes) /\ audited[t] \in Nat /\ faults \in Nat
  BY DEF LifecycleInv, TypeOK
<1>2. Len(change[t]) \in Nat
  BY <1>1
<1>3. Importer(t) \in 0..1 /\ Cardinality(Writing(t)) \in Nat
  BY WritingFinite DEF Importer
<1>4. AuditDue(t) = Len(change[t]) - audited[t] - Cardinality(Writing(t)) - Importer(t)
  BY DEF AuditDue, Writing, Importer
<1> QED
  BY <1>1, <1>2, <1>3, <1>4 DEF UnderWay

(* So they are in the next state.                                          *)
LEMMA DuePartsNext ==
    ASSUME LifecycleInv', NEW t \in Tasks
    PROVE  /\ AuditDue(t)' = Len(change'[t]) - audited'[t] - UnderWay(t)'
           /\ Len(change'[t]) \in Nat /\ audited'[t] \in Nat
           /\ Importer(t)' \in 0..1 /\ Cardinality(Writing(t)') \in Nat
           /\ faults' \in Nat /\ AuditDue(t)' \in Int
<1>1. change'[t] \in Seq(Changes) /\ audited'[t] \in Nat /\ faults' \in Nat
  BY DEF LifecycleInv, TypeOK
<1>2. Len(change'[t]) \in Nat
  BY <1>1
<1>3. Importer(t)' \in 0..1
  BY DEF Importer
<1>4. Cardinality(Writing(t)') \in Nat
  <2>1. Writing(t)' \subseteq Threads
    BY DEF Writing
  <2> QED
    BY <2>1, LifecycleAssumption, FS_Subset, FS_CardinalityType
<1>5. AuditDue(t)' = Len(change'[t]) - audited'[t] - Cardinality(Writing(t)') - Importer(t)'
  BY DEF AuditDue, Writing, Importer
<1> QED
  BY <1>1, <1>2, <1>3, <1>4, <1>5 DEF UnderWay

(* A thread goes to its audit entry, or leaves it.                         *)
LEMMA StartWriting ==
    ASSUME LifecycleInv, NEW th \in Threads, NEW task \in Tasks,
           pc[th] # "audit",
           pc' = [pc EXCEPT ![th] = "audit"],
           \A x \in Threads \ {th} : request'[x] = request[x],
           request'[th].task = task
    PROVE  \A t \in Tasks : Cardinality(Writing(t)') =
               Cardinality(Writing(t)) + (IF t = task THEN 1 ELSE 0)
<1> TAKE t \in Tasks
<1>1. pc \in [Threads -> {"idle", "decided", "audit"}]
  BY DEF LifecycleInv, TypeOK
<1>2. th \notin Writing(t)
  BY DEF Writing
<1>3. CASE t = task
  <2>1. Writing(t)' = Writing(t) \cup {th}
    BY <1>1, <1>3 DEF Writing
  <2>2. IsFiniteSet(Writing(t)) /\ Cardinality(Writing(t)) \in Nat
    BY WritingFinite
  <2>3. Cardinality(Writing(t) \cup {th}) = Cardinality(Writing(t)) + 1
    BY <1>2, <2>2, FS_AddElement
  <2> QED
    BY <1>3, <2>1, <2>3
<1>4. CASE t # task
  <2>1. Writing(t)' = Writing(t)
    BY <1>1, <1>4 DEF Writing
  <2> QED
    BY <1>4, <2>1, WritingFinite
<1> QED
  BY <1>3, <1>4

(* A handler that ends owes no audit any more.                             *)
LEMMA StopWriting ==
    ASSUME LifecycleInv, NEW th \in Threads,
           pc' = [pc EXCEPT ![th] = "idle"],
           request' = [request EXCEPT ![th] = Idle]
    PROVE  \A t \in Tasks : Cardinality(Writing(t)') = Cardinality(Writing(t)) -
               (IF pc[th] = "audit" /\ request[th].task = t THEN 1 ELSE 0)
<1> TAKE t \in Tasks
<1>1. pc \in [Threads -> {"idle", "decided", "audit"}] /\ request \in [Threads -> Requests]
  BY DEF LifecycleInv, TypeOK
<1>2. pc'[th] = "idle" /\ \A x \in Threads \ {th} : pc'[x] = pc[x] /\ request'[x] = request[x]
  BY <1>1
<1>3. CASE pc[th] = "audit" /\ request[th].task = t
  <2>1. th \in Writing(t)
    BY <1>3 DEF Writing
  <2>2. Writing(t)' = Writing(t) \ {th}
    BY <1>2 DEF Writing
  <2> QED
    BY <1>3, <2>1, <2>2, WritingFinite, FS_RemoveElement
<1>4. CASE ~(pc[th] = "audit" /\ request[th].task = t)
  <2>1. Writing(t)' = Writing(t)
    BY <1>2, <1>4 DEF Writing
  <2> QED
    BY <1>4, <2>1, WritingFinite
<1> QED
  BY <1>3, <1>4

(* A step that leaves the threads that write alone.                        *)
LEMMA SameWriting ==
    ASSUME LifecycleInv, UNCHANGED threadVars
    PROVE  \A t \in Tasks : Writing(t)' = Writing(t)
  BY DEF threadVars, Writing

(* A committed change makes the log of its task longer by one.             *)
LEMMA ChangeLengthens ==
    ASSUME LifecycleInv, NEW t \in Tasks,
           NEW from \in TaskStatuses \cup {"absent"}, NEW to \in TaskStatuses,
           Change(t, from, to)
    PROVE  \A u \in Tasks :
               Len(change'[u]) = Len(change[u]) + (IF u = t THEN 1 ELSE 0)
<1> DEFINE e == [from |-> from, to |-> to]
<1>1. e \in Changes
  BY DEF Changes
<1>2. change \in [Tasks -> Seq(Changes)]
  BY DEF LifecycleInv, TypeOK
<1>3. change' = [change EXCEPT ![t] = Append(@, e)]
  BY DEF Change
<1> HIDE DEF e
<1> TAKE u \in Tasks
<1>4. change[u] \in Seq(Changes) /\ Len(change[u]) \in Nat
  BY <1>2
<1>5. CASE u = t
  <2>1. change'[u] = Append(change[u], e)
    BY <1>2, <1>3, <1>5
  <2> QED
    BY <1>1, <1>4, <1>5, <2>1, AppendEvent
<1>6. CASE u # t
  <2>1. change'[u] = change[u]
    BY <1>2, <1>3, <1>6
  <2> QED
    BY <1>4, <1>6, <2>1
<1> QED
  BY <1>5, <1>6

(* What a step does to the sum, put together.                              *)
LEMMA DueKept ==
    ASSUME LifecycleInv, LifecycleInv', AuditFollowsChanges,
           NEW lost \in 0..1, faults' = faults + lost,
           \A t \in Tasks : \E d \in 0..lost :
               Len(change'[t]) - audited'[t] - UnderWay(t)'
                 = Len(change[t]) - audited[t] - UnderWay(t) + d
    PROVE  AuditFollowsChanges'
<1> SUFFICES ASSUME NEW t \in Tasks PROVE AuditDue(t)' \in 0..faults'
  BY DEF AuditFollowsChanges
<1>1. AuditDue(t) \in 0..faults
  BY DEF AuditFollowsChanges
<1>2. PICK d \in 0..lost : AuditDue(t)' = AuditDue(t) + d
  BY DueParts, DuePartsNext
<1>3. faults \in Nat
  BY DueParts
<1> QED
  BY <1>1, <1>2, <1>3
-----------------------------------------------------------------------------
(* Steps that touch neither the logs nor the audit.                        *)
LEMMA SameDue ==
    ASSUME LifecycleInv, LifecycleInv', AuditFollowsChanges,
           UNCHANGED <<change, audited, faults>>,
           \A t \in Tasks : UnderWay(t)' = UnderWay(t)
    PROVE  AuditFollowsChanges'
<1>1. faults' = faults + 0
  BY DueParts DEF LifecycleInv, TypeOK
<1>2. ASSUME NEW t \in Tasks
      PROVE  Len(change'[t]) - audited'[t] - UnderWay(t)'
               = Len(change[t]) - audited[t] - UnderWay(t) + 0
  <2>1. Len(change[t]) \in Nat /\ audited[t] \in Nat /\ UnderWay(t) \in Int
    BY DueParts DEF UnderWay
  <2> QED
    BY <2>1
<1> QED
  BY <1>1, <1>2, DueKept

(* A handler commits a change of a task and owes its audit entry.          *)
LEMMA HandlerCommits ==
    ASSUME LifecycleInv, LifecycleInv', AuditFollowsChanges,
           NEW th \in Threads, NEW task \in Tasks,
           NEW from \in TaskStatuses \cup {"absent"}, NEW to \in TaskStatuses,
           Change(task, from, to),
           pc[th] # "audit", Committed(th),
           \A x \in Threads \ {th} : request'[x] = request[x],
           request'[th].task = task,
           UNCHANGED <<audited, importVars, faults>>
    PROVE  AuditFollowsChanges'
<1>1. \A t \in Tasks : Cardinality(Writing(t)') =
          Cardinality(Writing(t)) + (IF t = task THEN 1 ELSE 0)
  BY StartWriting DEF Committed
<1>2. \A t \in Tasks : Len(change'[t]) = Len(change[t]) + (IF t = task THEN 1 ELSE 0)
  BY ChangeLengthens
<1>3. faults' = faults + 0
  BY DEF LifecycleInv, TypeOK
<1>4. ASSUME NEW t \in Tasks
      PROVE  Len(change'[t]) - audited'[t] - UnderWay(t)'
               = Len(change[t]) - audited[t] - UnderWay(t) + 0
  <2>1. /\ Len(change[t]) \in Nat /\ audited[t] \in Nat
        /\ Cardinality(Writing(t)) \in Nat /\ Importer(t) \in 0..1
    BY DueParts
  <2>2. Importer(t)' = Importer(t) /\ audited'[t] = audited[t]
    BY DEF Importer, importVars
  <2>3. UnderWay(t)' = Cardinality(Writing(t)') + Importer(t)'
    BY DEF UnderWay
  <2>4. UnderWay(t) = Cardinality(Writing(t)) + Importer(t)
    BY DEF UnderWay
  <2> DEFINE d == IF t = task THEN 1 ELSE 0
  <2>5. d \in Int
    OBVIOUS
  <2>6. Cardinality(Writing(t)') = Cardinality(Writing(t)) + d
    BY <1>1
  <2>7. Len(change'[t]) = Len(change[t]) + d
    BY <1>2
  <2> HIDE DEF d
  <2>8. UnderWay(t)' = UnderWay(t) + d /\ UnderWay(t) \in Int
    BY <2>1, <2>2, <2>3, <2>4, <2>5, <2>6
  <2> QED
    BY <2>1, <2>2, <2>5, <2>7, <2>8
<1> QED
  BY <1>3, <1>4, DueKept

(* A request owes an audit from its commit to its audit.                   *)
LEMMA RequestKeepsAudit ==
    ASSUME LifecycleInv, LifecycleInv', AuditFollowsChanges,
           NEW th \in Threads, Request(th)
    PROVE  AuditFollowsChanges'
<1> PICK t \in Tasks :
        \/ \E s \in CreateStatuses, name \in Titles : CreateTask(th, t, s, name)
        \/ \E to \in TaskStatuses : TransitionRead(th, t, to)
        \/ \E d \in Decisions, name \in Titles \cup {None} : ConfirmRead(th, t, d, name)
  BY DEF Request
<1>0. request \in [Threads -> Requests]
  BY DEF LifecycleInv, TypeOK
<1>1. ASSUME NEW s \in CreateStatuses, NEW name \in Titles, CreateTask(th, t, s, name)
      PROVE  AuditFollowsChanges'
  <2>1. Change(t, "absent", s) /\ s \in TaskStatuses
    BY <1>1, CreateAssumption DEF CreateTask, Insert
  <2>2. request' = [request EXCEPT ![th] = [Idle EXCEPT !.task = t]]
    BY <1>1 DEF CreateTask
  <2>3. request'[th].task = t
    BY <1>0, <2>2 DEF Idle
  <2>4. \A x \in Threads \ {th} : request'[x] = request[x]
    BY <1>0, <2>2
  <2>5. pc[th] # "audit" /\ Committed(th) /\ UNCHANGED <<audited, importVars, faults>>
    BY <1>1 DEF CreateTask
  <2> QED
    BY <2>1, <2>3, <2>4, <2>5, HandlerCommits
<1>2. ASSUME NEW from, NEW to, NEW d, NEW name, Accept(th, t, from, to, d, name)
      PROVE  AuditFollowsChanges'
  <2>1. /\ pc[th] = "idle" /\ pc' = [pc EXCEPT ![th] = "decided"]
        /\ \A x \in Threads \ {th} : request'[x] = request[x]
        /\ UNCHANGED <<change, audited, importing, found, faults>>
    BY <1>0, <1>2 DEF Accept, tables, importVars
  <2>2. ASSUME NEW u \in Tasks PROVE UnderWay(u)' = UnderWay(u)
    <3>1. Writing(u)' = Writing(u)
      BY <2>1 DEF Writing, LifecycleInv, TypeOK
    <3>2. Importer(u)' = Importer(u)
      BY <2>1 DEF Importer
    <3> QED
      BY <3>1, <3>2 DEF UnderWay
  <2> QED
    BY <2>1, <2>2, SameDue
<1> QED
  BY <1>1, <1>2 DEF TransitionRead, ConfirmRead

(* So does a write.                                                        *)
LEMMA WriteKeepsAudit ==
    ASSUME LifecycleInv, LifecycleInv', AuditFollowsChanges,
           NEW th \in Threads, Write(th)
    PROVE  AuditFollowsChanges'
<1> DEFINE q == request[th]
<1>1. ASSUME TransitionCommit(th) \/ ConfirmCommit(th)
      PROVE  AuditFollowsChanges'
  <2>1. /\ pc[th] = "decided" /\ Committed(th) /\ request' = request
        /\ Change(q.task, q.from, q.to)
        /\ UNCHANGED <<audited, importVars, faults>>
    BY <1>1 DEF TransitionCommit, ConfirmCommit
  <2>2. q.task \in Tasks /\ q.from \in TaskStatuses /\ q.to \in Allowed[q.from]
    BY <2>1 DEF LifecycleInv, RequestsSound
  <2>3. q.to \in TaskStatuses
    BY <2>2, AllowedStatuses
  <2> QED
    BY <2>1, <2>2, <2>3, HandlerCommits
<1>2. CASE Audit(th)
  <2>1. \A t \in Tasks : Cardinality(Writing(t)') =
            Cardinality(Writing(t)) - (IF q.task = t THEN 1 ELSE 0)
    BY <1>2, StopWriting DEF Audit
  <2>2. faults' = faults + 0
    BY <1>2 DEF Audit, LifecycleInv, TypeOK
  <2>3. ASSUME NEW t \in Tasks
        PROVE  Len(change'[t]) - audited'[t] - UnderWay(t)'
                 = Len(change[t]) - audited[t] - UnderWay(t) + 0
    <3>1. /\ Len(change[t]) \in Nat /\ audited[t] \in Nat
          /\ Cardinality(Writing(t)) \in Nat /\ Importer(t) \in 0..1
      BY DueParts
    <3>2. Importer(t)' = Importer(t) /\ change' = change
      BY <1>2 DEF Audit, Importer, importVars, tables
    <3> DEFINE d == IF q.task = t THEN 1 ELSE 0
    <3>3. audited' = [audited EXCEPT ![q.task] = @ + 1] /\ audited \in [Tasks -> Nat]
      BY <1>2 DEF Audit, LifecycleInv, TypeOK
    <3>4. audited'[t] = audited[t] + d /\ d \in Int
      BY <3>1, <3>3
    <3>5. UnderWay(t)' = Cardinality(Writing(t)') + Importer(t)'
      BY DEF UnderWay
    <3>6. Cardinality(Writing(t)') = Cardinality(Writing(t)) - d
      BY <2>1
    <3> HIDE DEF d
    <3>7. UnderWay(t)' = UnderWay(t) - d /\ UnderWay(t) \in Int
      BY <3>1, <3>2, <3>4, <3>5, <3>6 DEF UnderWay
    <3> QED
      BY <3>1, <3>2, <3>4, <3>7
  <2> QED
    BY <2>2, <2>3, DueKept
<1>3. CASE RequestFails(th)
  <2>1. \A t \in Tasks : Cardinality(Writing(t)') = Cardinality(Writing(t)) -
            (IF pc[th] = "audit" /\ q.task = t THEN 1 ELSE 0)
    BY <1>3, StopWriting DEF RequestFails
  <2>2. faults' = faults + 1
    BY <1>3 DEF RequestFails
  <2>3. ASSUME NEW t \in Tasks
        PROVE  \E d \in 0..1 : Len(change'[t]) - audited'[t] - UnderWay(t)'
                 = Len(change[t]) - audited[t] - UnderWay(t) + d
    <3> DEFINE d == IF pc[th] = "audit" /\ q.task = t THEN 1 ELSE 0
    <3>1. /\ Len(change[t]) \in Nat /\ audited[t] \in Nat
          /\ Cardinality(Writing(t)) \in Nat /\ Importer(t) \in 0..1
      BY DueParts
    <3>2. Importer(t)' = Importer(t) /\ change' = change /\ audited' = audited
      BY <1>3 DEF RequestFails, Importer, importVars, tables
    <3>3. UnderWay(t)' = Cardinality(Writing(t)') + Importer(t)'
      BY DEF UnderWay
    <3>4. Cardinality(Writing(t)') = Cardinality(Writing(t)) - d /\ d \in 0..1
      BY <2>1
    <3> HIDE DEF d
    <3>5. Len(change'[t]) - audited'[t] - UnderWay(t)'
            = Len(change[t]) - audited[t] - UnderWay(t) + d
      BY <3>1, <3>2, <3>3, <3>4 DEF UnderWay
    <3> QED
      BY <3>4, <3>5
  <2> QED
    BY <2>2, <2>3, DueKept
<1> QED
  BY <1>1, <1>2, <1>3 DEF Write

(* The steps of the import.                                                *)
LEMMA ImportKeepsAudit ==
    ASSUME LifecycleInv, LifecycleInv', AuditFollowsChanges, ImportStep
    PROVE  AuditFollowsChanges'
<1>0. /\ importing \in {"no", "row", "find", "overwrite", "create", "audit", "fingerprint"}
      /\ faults \in Nat /\ audited \in [Tasks -> Nat]
  BY DEF LifecycleInv, TypeOK
<1>1. ASSUME UNCHANGED <<change, audited, threadVars, faults>>,
             importing # "audit", importing' # "audit"
      PROVE  AuditFollowsChanges'
  <2>1. ASSUME NEW t \in Tasks PROVE UnderWay(t)' = UnderWay(t)
    <3>1. Writing(t)' = Writing(t)
      BY <1>1, SameWriting
    <3>2. Importer(t)' = Importer(t)
      BY <1>1 DEF Importer
    <3> QED
      BY <3>1, <3>2 DEF UnderWay
  <2> QED
    BY <1>1, <2>1, SameDue
<1>2. ASSUME NEW file \in Files, NEW flags \in Modes, StartImport(file, flags)
      PROVE  AuditFollowsChanges'
  BY <1>1, <1>2 DEF StartImport, tables
<1>3. CASE RowBegin
  BY <1>1, <1>3 DEF RowBegin, tables
<1>4. CASE RowFind
  BY <1>1, <1>4 DEF RowFind, tables
<1>5. CASE RowOverwrite
  BY <1>1, <1>5 DEF RowOverwrite, RowDone
<1>6. ASSUME NEW task \in Tasks, RowCreate(task)
      PROVE  AuditFollowsChanges'
  <2>1. /\ Change(task, "absent", "not_started") /\ "not_started" \in TaskStatuses
        /\ importing = "create" /\ importing' = "audit" /\ found' = task
        /\ audited' = audited /\ faults' = faults + 0 /\ UNCHANGED threadVars
    BY <1>0, <1>6 DEF RowCreate, Insert, TaskStatuses
  <2>2. \A t \in Tasks : Len(change'[t]) = Len(change[t]) + (IF t = task THEN 1 ELSE 0)
    BY <2>1, ChangeLengthens
  <2>3. ASSUME NEW t \in Tasks
        PROVE  Len(change'[t]) - audited'[t] - UnderWay(t)'
                 = Len(change[t]) - audited[t] - UnderWay(t) + 0
    <3> DEFINE d == IF t = task THEN 1 ELSE 0
    <3>1. /\ Len(change[t]) \in Nat /\ audited[t] \in Nat
          /\ Cardinality(Writing(t)) \in Nat
      BY DueParts
    <3>2. Importer(t)' = d /\ Importer(t) = 0 /\ d \in Int
      BY <2>1 DEF Importer
    <3>3. Writing(t)' = Writing(t)
      BY <2>1, SameWriting
    <3>4. Len(change'[t]) = Len(change[t]) + d
      BY <2>2
    <3> HIDE DEF d
    <3>5. UnderWay(t)' = UnderWay(t) + d /\ UnderWay(t) \in Int
      BY <3>1, <3>2, <3>3 DEF UnderWay
    <3> QED
      BY <2>1, <3>1, <3>2, <3>4, <3>5
  <2> QED
    BY <2>1, <2>3, DueKept
<1>7. CASE RowAudit
  <2>1. /\ importing = "audit" /\ importing' = "fingerprint"
        /\ audited' = [audited EXCEPT ![found] = @ + 1]
        /\ change' = change /\ faults' = faults + 0 /\ UNCHANGED threadVars
    BY <1>0, <1>7 DEF RowAudit, tables
  <2>2. ASSUME NEW t \in Tasks
        PROVE  Len(change'[t]) - audited'[t] - UnderWay(t)'
                 = Len(change[t]) - audited[t] - UnderWay(t) + 0
    <3> DEFINE d == IF found = t THEN 1 ELSE 0
    <3>1. /\ Len(change[t]) \in Nat /\ audited[t] \in Nat
          /\ Cardinality(Writing(t)) \in Nat
      BY DueParts
    <3>2. Importer(t) = d /\ Importer(t)' = 0 /\ d \in Int
      BY <2>1 DEF Importer
    <3>3. Writing(t)' = Writing(t)
      BY <2>1, SameWriting
    <3>4. audited'[t] = audited[t] + d
      BY <1>0, <2>1
    <3> HIDE DEF d
    <3>5. UnderWay(t)' = UnderWay(t) - d /\ UnderWay(t) \in Int
      BY <3>1, <3>2, <3>3 DEF UnderWay
    <3> QED
      BY <2>1, <3>1, <3>2, <3>4, <3>5
  <2> QED
    BY <2>1, <2>2, DueKept
<1>8. CASE RowFingerprint
  BY <1>1, <1>8 DEF RowFingerprint, RowDone, tables
<1>9. CASE RowFails
  <2>1. /\ importing' = "row" /\ change' = change /\ audited' = audited
        /\ faults' = faults + 1 /\ UNCHANGED threadVars
    BY <1>9 DEF RowFails, RowDone, tables
  <2>2. ASSUME NEW t \in Tasks
        PROVE  \E d \in 0..1 : Len(change'[t]) - audited'[t] - UnderWay(t)'
                 = Len(change[t]) - audited[t] - UnderWay(t) + d
    <3>1. /\ Len(change[t]) \in Nat /\ audited[t] \in Nat
          /\ Cardinality(Writing(t)) \in Nat /\ Importer(t) \in 0..1
      BY DueParts
    <3>2. Importer(t)' = 0
      BY <2>1 DEF Importer
    <3>3. Writing(t)' = Writing(t)
      BY <2>1, SameWriting
    <3>4. UnderWay(t)' = UnderWay(t) - Importer(t) /\ UnderWay(t) \in Int
      BY <3>1, <3>2, <3>3 DEF UnderWay
    <3>5. Len(change'[t]) - audited'[t] - UnderWay(t)'
            = Len(change[t]) - audited[t] - UnderWay(t) + Importer(t)
      BY <2>1, <3>1, <3>4
    <3> QED
      BY <3>1, <3>5
  <2> QED
    BY <2>1, <2>2, DueKept
<1>10. CASE FinishImport
  BY <1>1, <1>10 DEF FinishImport, tables
<1> QED
  BY <1>2, <1>3, <1>4, <1>5, <1>6, <1>7, <1>8, <1>9, <1>10 DEF ImportStep

(* Every status change is audited once, for any number of threads and of   *)
(* failures: what is missing was lost to a transaction that failed.        *)
THEOREM AuditAlwaysFollows == Spec => []AuditFollowsChanges
<1>1. Init => AuditFollowsChanges
  <2> SUFFICES ASSUME Init, NEW t \in Tasks PROVE AuditDue(t) \in 0..faults
    BY DEF AuditFollowsChanges
  <2>1. Writing(t) = {} /\ Importer(t) = 0
    BY DEF Init, Writing, Importer
  <2>2. change[t] = <<>> /\ audited[t] = 0 /\ faults = 0
    BY DEF Init
  <2>3. Cardinality(Writing(t)) = 0 /\ Len(change[t]) = 0
    BY <2>1, <2>2, FS_EmptySet
  <2>4. AuditDue(t) = Len(change[t]) - audited[t] - UnderWay(t)
    BY LifecycleInit, DueParts
  <2>5. UnderWay(t) = 0
    BY <2>1, <2>3 DEF UnderWay
  <2>6. AuditDue(t) = 0
    BY <2>2, <2>3, <2>4, <2>5
  <2> QED
    BY <2>2, <2>6
<1>2. LifecycleInv /\ AuditFollowsChanges /\ [Next]_vars => AuditFollowsChanges'
  <2> SUFFICES ASSUME LifecycleInv, AuditFollowsChanges, [Next]_vars
               PROVE  AuditFollowsChanges'
    OBVIOUS
  <2>0. LifecycleInv'
    BY LifecycleNext
  <2>1. ASSUME NEW th \in Threads, Request(th) \/ Write(th)
        PROVE  AuditFollowsChanges'
    BY <2>0, <2>1, RequestKeepsAudit, WriteKeepsAudit
  <2>2. ASSUME NEW t \in Tasks, NEW name \in Titles, UpdateTask(t, name)
        PROVE  AuditFollowsChanges'
    BY <2>2 DEF UpdateTask, threadVars, importVars, AuditFollowsChanges, AuditDue
  <2>3. CASE ImportStep
    BY <2>0, <2>3, ImportKeepsAudit
  <2>4. CASE UNCHANGED vars
    BY <2>4 DEF vars, tables, threadVars, importVars, AuditFollowsChanges, AuditDue
  <2> QED
    BY <2>1, <2>2, <2>3, <2>4 DEF Next
<1> QED
  BY <1>1, <1>2, LifecycleInvariant, PTL DEF Spec
-----------------------------------------------------------------------------
(* The import that skips what it knows, as long as no write fails: every   *)
(* task that has a row's fields has a fingerprint, or the import is about  *)
(* to record it; and the row that it is about to create has neither.       *)
Remembered(t) ==
    \/ row[t] \in fingerprints
    \/ importing \in {"audit", "fingerprint"} /\ found = t /\ row[t] = Head(rest)

ImportOnce ==
    /\ importing \notin {"find", "overwrite"}
    /\ importing \in {"create", "audit", "fingerprint"} => Head(rest) \notin fingerprints
    /\ \A t \in Tasks : row[t] # None => Remembered(t)
    /\ \A t, u \in Tasks : row[t] # None /\ row[t] = row[u] => t = u

Skips == mode.skip /\ ~mode.overwrite

(* Steps that leave the import and its fingerprints alone, and only take   *)
(* rows from tasks.                                                        *)
LEMMA FewerRows ==
    ASSUME ImportOnce, UNCHANGED <<fingerprints, importing, rest, found>>,
           \A t \in Tasks : row'[t] \in {row[t], None}
    PROVE  ImportOnce'
<1>1. \A t \in Tasks : row'[t] # None => row'[t] = row[t]
  OBVIOUS
<1>2. \A t \in Tasks : row'[t] # None => Remembered(t)'
  <2> TAKE t \in Tasks
  <2> HAVE row'[t] # None
  <2>1. row'[t] = row[t] /\ Remembered(t)
    BY <1>1 DEF ImportOnce
  <2> QED
    BY <2>1 DEF Remembered
<1> QED
  BY <1>1, <1>2 DEF ImportOnce

(* Requests give no row a second task.                                     *)
LEMMA ImportOnceRequests ==
    ASSUME LifecycleInv, ImportOnce,
           NEW th \in Threads, Request(th) \/ Write(th)
    PROVE  ImportOnce'
<1>0. row \in [Tasks -> Rows \cup {None}]
  BY DEF LifecycleInv, TypeOK
<1>1. UNCHANGED importVars
  BY DEF Request, Write, CreateTask, TransitionRead, ConfirmRead, Accept,
         TransitionCommit, ConfirmCommit, Audit, RequestFails
<1>2. \A t \in Tasks : row'[t] \in {row[t], None}
  <2>1. ASSUME NEW t \in Tasks, NEW s \in CreateStatuses, NEW name \in Titles,
               CreateTask(th, t, s, name)
        PROVE  \A u \in Tasks : row'[u] \in {row[u], None}
    BY <1>0, <2>1 DEF CreateTask, Insert
  <2>2. ASSUME NEW t, NEW from, NEW to, NEW d, NEW name, Accept(th, t, from, to, d, name)
        PROVE  row' = row
    BY <2>2 DEF Accept, tables
  <2>3. CASE ConfirmCommit(th)
    BY <1>0, <2>3 DEF ConfirmCommit
  <2>4. CASE TransitionCommit(th) \/ Audit(th) \/ RequestFails(th)
    BY <2>4 DEF TransitionCommit, Audit, RequestFails, tables
  <2> QED
    BY <2>1, <2>2, <2>3, <2>4 DEF Request, Write, TransitionRead, ConfirmRead
<1> QED
  BY <1>1, <1>2, FewerRows DEF importVars

(* An import that skips gives no row a second task.                        *)
LEMMA ImportOnceImports ==
    ASSUME LifecycleInv, ImportOnce, Skips, faults = 0, faults' = 0, ImportStep
    PROVE  ImportOnce'
<1>0. /\ row \in [Tasks -> Rows \cup {None}] /\ fingerprints \subseteq Rows
      /\ rest # <<>> => Head(rest) \in Rows
      /\ importing \notin {"no", "row"} => rest # <<>>
      /\ None \notin Rows
  BY LifecycleAssumption DEF LifecycleInv, TypeOK, ImportSound
<1>1. ASSUME UNCHANGED <<row, fingerprints>>, importing \in {"no", "row"},
             importing' \in {"no", "row"}
      PROVE  ImportOnce'
  BY <1>1 DEF ImportOnce, Remembered
<1>2. ASSUME NEW file \in Files, NEW flags \in Modes, StartImport(file, flags)
      PROVE  ImportOnce'
  BY <1>1, <1>2 DEF StartImport, tables
<1>3. CASE RowBegin
  <2>1. UNCHANGED <<row, fingerprints, found>> /\ importing = "row"
    BY <1>3 DEF RowBegin, tables
  <2>2. CASE Head(rest) \in fingerprints
    BY <1>1, <1>3, <2>1, <2>2 DEF RowBegin, Skips
  <2>3. CASE Head(rest) \notin fingerprints
    <3>1. importing' = "create" /\ rest' = rest
      BY <1>3, <2>3 DEF RowBegin, Skips
    <3> QED
      BY <2>1, <2>3, <3>1 DEF ImportOnce, Remembered
  <2> QED
    BY <2>2, <2>3
<1>4. ASSUME NEW t \in Tasks, RowCreate(t)
      PROVE  ImportOnce'
  <2>1. /\ importing = "create" /\ importing' = "audit" /\ found' = t
        /\ row' = [row EXCEPT ![t] = Head(rest)]
        /\ UNCHANGED <<fingerprints, rest>>
    BY <1>4 DEF RowCreate, Insert
  <2>2. row'[t] = Head(rest) /\ \A u \in Tasks \ {t} : row'[u] = row[u]
    BY <1>0, <2>1
  <2>3. Head(rest) \notin fingerprints
    BY <2>1 DEF ImportOnce
  <2>4. \A u \in Tasks : row[u] # None => row[u] \in fingerprints
    BY <2>1 DEF ImportOnce, Remembered
  <2>5. \A u \in Tasks : row'[u] # None => Remembered(u)'
    BY <2>1, <2>2, <2>4 DEF Remembered
  <2>6. \A u \in Tasks \ {t} : row'[u] # row'[t]
    BY <1>0, <2>1, <2>2, <2>3, <2>4
  <2>7. \A u, v \in Tasks : row'[u] # None /\ row'[u] = row'[v] => u = v
    BY <2>2, <2>6 DEF ImportOnce
  <2> QED
    BY <2>1, <2>3, <2>5, <2>7 DEF ImportOnce
<1>5. CASE RowAudit
  BY <1>5 DEF RowAudit, tables, ImportOnce, Remembered
<1>6. CASE RowFingerprint
  <2>1. /\ importing = "fingerprint" /\ importing' = "row" /\ row' = row
        /\ fingerprints' = fingerprints \cup {Head(rest)}
    BY <1>6 DEF RowFingerprint, RowDone, tables
  <2>2. \A t \in Tasks : row[t] # None => Remembered(t)'
    BY <2>1 DEF ImportOnce, Remembered
  <2> QED
    BY <2>1, <2>2 DEF ImportOnce
<1>7. ~RowFind /\ ~RowOverwrite
  BY DEF RowFind, RowOverwrite, ImportOnce
<1>8. ~RowFails
  BY DEF RowFails
<1>9. CASE FinishImport
  BY <1>1, <1>9 DEF FinishImport, tables
<1> QED
  BY <1>2, <1>3, <1>4, <1>5, <1>6, <1>7, <1>8, <1>9 DEF ImportStep

(* While only importing with skipping has happened and nothing failed.      *)
OnceInv == OnlySkipping /\ faults = 0 => ImportOnce /\ Skips

(* What happened before the step was skipping without failures too.        *)
LEMMA SkippedBefore ==
    ASSUME LifecycleInv, [Next]_vars, OnlySkipping', faults' = 0
    PROVE  /\ OnlySkipping /\ faults = 0
           /\ Skips => Skips'
<1>0. faults \in 0..MaxFaults /\ imports \in Seq([skip : BOOLEAN, overwrite : BOOLEAN])
  BY DEF LifecycleInv, TypeOK
<1>1. CASE UNCHANGED <<faults, imports, mode>>
  BY <1>1 DEF OnlySkipping, Skips
<1>2. ASSUME NEW th \in Threads, Request(th) \/ Write(th)
      PROVE  UNCHANGED <<imports, mode>> /\ (faults' = faults \/ faults' = faults + 1)
  BY <1>2 DEF Request, Write, CreateTask, TransitionRead, ConfirmRead, Accept,
              TransitionCommit, ConfirmCommit, Audit, RequestFails, importVars
<1>3. ASSUME NEW t \in Tasks, NEW name \in Titles, UpdateTask(t, name)
      PROVE  UNCHANGED <<faults, imports, mode>>
  BY <1>3 DEF UpdateTask, importVars
<1>4. ASSUME NEW file \in Files, NEW flags \in Modes, StartImport(file, flags)
      PROVE  OnlySkipping /\ faults = 0 /\ Skips'
  <2>1. flags \in [skip : BOOLEAN, overwrite : BOOLEAN]
    BY LifecycleAssumption
  <2>2. imports' = Append(imports, flags) /\ mode' = flags /\ faults' = faults
    BY <1>4 DEF StartImport
  <2>3. /\ \A k \in DOMAIN imports : k \in DOMAIN imports' /\ imports'[k] = imports[k]
        /\ Len(imports) + 1 \in DOMAIN imports' /\ imports'[Len(imports) + 1] = flags
    BY <1>0, <2>1, <2>2
  <2> QED
    BY <2>2, <2>3 DEF OnlySkipping, Skips
<1>5. CASE RowBegin \/ RowFind \/ RowOverwrite \/ (\E t \in Tasks : RowCreate(t))
           \/ RowAudit \/ RowFingerprint \/ FinishImport
  BY <1>1, <1>5 DEF RowBegin, RowFind, RowOverwrite, RowCreate, RowAudit, RowFingerprint,
                    FinishImport, RowDone
<1>6. ~RowFails
  BY <1>0 DEF RowFails
<1>7. CASE UNCHANGED vars
  BY <1>1, <1>7 DEF vars, importVars
<1>8. faults' = faults + 1 => faults' # 0
  BY <1>0
<1> QED
  BY <1>1, <1>2, <1>3, <1>4, <1>5, <1>6, <1>7, <1>8 DEF Next, ImportStep

(* Importing tables again creates no second task for a row, as long as the *)
(* clients skip duplicates without overwriting and no write fails, however *)
(* often and in whatever order tables are imported, and whatever is done   *)
(* to the tasks meanwhile.  With overwrite_conflicts it does.              *)
THEOREM ImportsAddNoDuplicates == Spec => []ImportsAddOnce
<1>1. Init => OnceInv
  BY DEF Init, OnceInv, ImportOnce, Skips
<1>2. LifecycleInv /\ OnceInv /\ [Next]_vars => OnceInv'
  <2> SUFFICES ASSUME LifecycleInv, OnceInv, [Next]_vars, OnlySkipping', faults' = 0
               PROVE  ImportOnce' /\ Skips'
    BY DEF OnceInv
  <2>0. OnlySkipping /\ faults = 0 /\ ImportOnce /\ Skips /\ Skips'
    BY SkippedBefore DEF OnceInv
  <2>1. ASSUME NEW th \in Threads, Request(th) \/ Write(th)
        PROVE  ImportOnce'
    BY <2>0, <2>1, ImportOnceRequests
  <2>2. ASSUME NEW t \in Tasks, NEW name \in Titles, UpdateTask(t, name)
        PROVE  ImportOnce'
    <3>1. /\ \A u \in Tasks : row'[u] \in {row[u], None}
          /\ UNCHANGED <<fingerprints, importing, rest, found>>
      BY <2>2 DEF UpdateTask, importVars, LifecycleInv, TypeOK
    <3> QED
      BY <2>0, <3>1, FewerRows
  <2>3. CASE ImportStep
    BY <2>0, <2>3, ImportOnceImports
  <2>4. CASE UNCHANGED vars
    <3>1. UNCHANGED <<row, fingerprints, importing, rest, found>>
      BY <2>4 DEF vars, tables, importVars
    <3> QED
      BY <2>0, <3>1, FewerRows
  <2> QED
    BY <2>0, <2>1, <2>2, <2>3, <2>4 DEF Next
<1>3. OnceInv => ImportsAddOnce
  BY DEF OnceInv, ImportsAddOnce, ImportOnce, NoDuplicateImport
<1> QED
  BY <1>1, <1>2, <1>3, LifecycleInvariant, PTL DEF Spec
=============================================================================
